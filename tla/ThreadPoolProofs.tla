--------------------------- MODULE ThreadPoolProofs ---------------------------
(***************************************************************************)
(* Proofs about the thread pool, for any number of workers and commands,   *)
(* any garbage in the uninitialized members and with or without broken     *)
(* queues.  The inductive invariant adds to the checked invariants how the *)
(* program counters of the pool and the workers go with the states they    *)
(* have set (Phase).                                                       *)
(***************************************************************************)
EXTENDS ThreadPool, FiniteSetTheorems, TLAPS

WorkerPlaces == {"none", "poll", "exec", "run", "set", "finish", "check", "stopped"}

Phase ==
  /\ ppc \in {"init", "reset"} => \A w \in Worker : wcmd[w] = NoCmd
  /\ \A w \in Worker : (wpc[w] = "none") <=> (ppc = "init")
  /\ \A w \in Worker : wpc[w] \in {"exec", "run", "set", "finish"} => wstate[w] = "EXECUTE"
  /\ ppc = "assign" => wstate[at] = "READY"
  /\ ppc = "store" => wstate[at] \in {"EXECUTE", "DONE"}
  /\ ~Ending => \A w \in Worker : ~wstop[w]
  /\ \A w \in Worker : wpc[w] = "stopped" => wstop[w]
  /\ ppc \in {"ending", "joining"} => \A w \in Worker : w < at => wpc[w] = "stopped"
  /\ ppc = "stopped" => \A w \in Worker : wpc[w] = "stopped"
  /\ pstate = "SHUTDOWN" => ppc = "stopped"
  /\ IsFiniteSet(added)

IInv == TypeOK /\ Phase /\ InOnePlace
-------------------------------------------------------------------------------
(* Popping a queue whose elements are all different removes one of them.   *)
LEMMA Popped ==
  ASSUME NEW S, NEW q \in Seq(S), q # <<>>, IsInjective(q)
  PROVE  /\ Head(q) \in S /\ Head(q) \in ToSet(q) /\ Tail(q) \in Seq(S)
         /\ ToSet(Tail(q)) = ToSet(q) \ {Head(q)} /\ IsInjective(Tail(q))
<1>1. /\ Head(q) = q[1] /\ 1 \in DOMAIN q /\ q[1] \in S /\ Tail(q) \in Seq(S)
      /\ \A i \in DOMAIN Tail(q) : i \in Nat /\ i # 0 /\ i + 1 \in DOMAIN q
                                   /\ i + 1 # 1 /\ Tail(q)[i] = q[i + 1]
      /\ \A i \in DOMAIN q : i # 1 => i - 1 \in DOMAIN Tail(q) /\ (i - 1) + 1 = i
  OBVIOUS
<1>2. IsInjective(Tail(q))
  <2> SUFFICES ASSUME NEW i \in DOMAIN Tail(q), NEW j \in DOMAIN Tail(q),
                      Tail(q)[i] = Tail(q)[j]
               PROVE  i = j
    BY DEF IsInjective
  <2>1. i + 1 = j + 1
    BY <1>1 DEF IsInjective
  <2> QED
    BY <1>1, <2>1
<1>3. ToSet(Tail(q)) \subseteq ToSet(q) \ {Head(q)}
  BY <1>1 DEF ToSet, IsInjective
<1>4. ToSet(q) \ {Head(q)} \subseteq ToSet(Tail(q))
  <2> SUFFICES ASSUME NEW i \in DOMAIN q, q[i] # q[1]
               PROVE  \E j \in DOMAIN Tail(q) : Tail(q)[j] = q[i]
    BY <1>1 DEF ToSet
  <2> QED
    BY <1>1
<1> QED
  BY <1>1, <1>2, <1>3, <1>4 DEF ToSet

(* Pushing adds one element.                                               *)
LEMMA Pushed ==
  ASSUME NEW S, NEW q \in Seq(S), NEW c \in S
  PROVE  /\ Append(q, c) \in Seq(S) /\ ToSet(Append(q, c)) = ToSet(q) \cup {c}
         /\ IsInjective(q) /\ c \notin ToSet(q) => IsInjective(Append(q, c))
<1>1. /\ Append(q, c) \in Seq(S)
      /\ \A i \in DOMAIN Append(q, c) :
           \/ i \in DOMAIN q /\ Append(q, c)[i] = q[i]
           \/ i = Len(q) + 1 /\ Append(q, c)[i] = c
      /\ \A i \in DOMAIN q : i \in DOMAIN Append(q, c)
      /\ Len(q) + 1 \in DOMAIN Append(q, c) /\ Len(q) + 1 \notin DOMAIN q
      /\ Append(q, c)[Len(q) + 1] = c
      /\ \A i \in DOMAIN q : Append(q, c)[i] = q[i]
  OBVIOUS
<1>2. ToSet(Append(q, c)) = ToSet(q) \cup {c}
  BY <1>1 DEF ToSet
<1>3. IsInjective(q) /\ c \notin ToSet(q) => IsInjective(Append(q, c))
  BY <1>1 DEF ToSet, IsInjective
<1> QED
  BY <1>1, <1>2, <1>3

LEMMA Empty == ToSet(<<>>) = {} /\ IsInjective(<<>>)
<1>1. DOMAIN <<>> = {}
  OBVIOUS
<1> QED
  BY <1>1 DEF ToSet, IsInjective

LEMMA InitInv == Init => IInv
<1> SUFFICES ASSUME Init PROVE IInv
  OBVIOUS
<1>1. TypeOK
  <2>1. /\ lowQ \in Seq(Low) /\ highQ \in Seq(High) /\ finished \in Seq(Cmd \cup {NoCmd})
        /\ wstate \in [Worker -> WorkerStates] /\ wcmd \in [Worker -> Cmd \cup {NoCmd}]
    BY DEF Init, WorkerStates
  <2>2. /\ wstop \in [Worker -> BOOLEAN]
        /\ wpc \in [Worker -> WorkerPlaces]
        /\ hasRun \in [Cmd -> BOOLEAN] /\ ran \in [Cmd -> Nat]
    BY DEF Init, WorkerPlaces
  <2>3. /\ at \in Worker /\ outstanding \in Int
    BY ThreadPoolAssumption DEF Init, Worker
  <2>4. /\ pstate \in {"INIT", "READY", "SHUTDOWN"} /\ pstop \in BOOLEAN
        /\ ppc \in {"init", "reset", "loop", "scan", "offer", "assign", "store",
                    "ending", "joining", "stopped"}
        /\ IF ppc \in {"assign", "store"} THEN next \in Cmd ELSE next = NoCmd
        /\ adding \in Cmd \cup {NoCmd} /\ added \subseteq Cmd /\ fetched \subseteq added
        /\ broken \in BOOLEAN
    BY DEF Init
  <2>5. early \in Nat /\ undone \in Int /\ nulls \in Nat /\ loaded \in Int
    BY DEF Init
  <2> QED
    BY <2>1, <2>2, <2>3, <2>4, <2>5 DEF TypeOK, WorkerPlaces
<1>2. Phase
  BY FS_EmptySet DEF Init, Phase, Ending
<1>3. InOnePlace
  <2>1. Queued = {} /\ Giving = {} /\ Held = {} /\ Returned = {} /\ fetched = {}
    BY Empty DEF Init, Queued, Giving, Held, Has, Returned
  <2>2. /\ IsInjective(lowQ) /\ IsInjective(highQ) /\ DOMAIN finished = {}
        /\ added = {}
    BY Empty DEF Init
  <2>3. \A v \in Worker : ~Has(v)
    BY DEF Init, Has
  <2> QED
    BY <2>1, <2>2, <2>3 DEF InOnePlace, Everywhere
<1> QED
  BY <1>1, <1>2, <1>3 DEF IInv
-------------------------------------------------------------------------------
(* Steps that move no command.                                             *)
LEMMA SamePlaces ==
  ASSUME InOnePlace, UNCHANGED <<lowQ, highQ, next, finished, fetched, added, wcmd>>,
         \A w \in Worker : Has(w)' <=> Has(w), Ending => Ending'
  PROVE  InOnePlace'
<1>1. Queued' = Queued /\ Giving' = Giving /\ Held' = Held /\ Returned' = Returned
  BY DEF Queued, Giving, Held, Returned
<1> QED
  BY <1>1 DEF InOnePlace, Everywhere

(* What a worker step leaves alone.                                        *)
Elsewhere == UNCHANGED <<queues, pool, pstop, count, finished, user>>

(* The worker steps between two executions.                                *)
LEMMA WorkerQuiet ==
  ASSUME IInv, NEW w \in Worker, Elsewhere, UNCHANGED <<wcmd, wstop, hasRun, ran, broken>>,
         WorkerInit(w) \/ WorkerWait(w) \/ WorkerBegin(w) \/ WorkerFinish(w)
  PROVE  IInv'
<1> USE DEF Elsewhere, queues, pool, count, user, WorkerPlaces
<1>1. TypeOK'
  BY DEF IInv, TypeOK, WorkerInit, WorkerWait, WorkerBegin, WorkerFinish, WorkerStates
<1>2. Phase'
  <2>1. ppc # "init" /\ wpc' \in [Worker -> WorkerPlaces]
    BY <1>1 DEF IInv, TypeOK, Phase, WorkerInit, WorkerWait, WorkerBegin, WorkerFinish
  <2>2. CASE WorkerInit(w)
    BY <2>1, <2>2 DEF IInv, TypeOK, Phase, WorkerInit, Ending
  <2>3. CASE WorkerWait(w)
    BY <2>1, <2>3 DEF IInv, TypeOK, Phase, WorkerWait, Ending
  <2>4. CASE WorkerBegin(w)
    BY <2>1, <2>4 DEF IInv, TypeOK, Phase, WorkerBegin, Ending
  <2>5. CASE WorkerFinish(w)
    BY <2>1, <2>5 DEF IInv, TypeOK, Phase, WorkerFinish, Ending
  <2> QED
    BY <2>2, <2>3, <2>4, <2>5
<1>3. \A v \in Worker : Has(v)' <=> Has(v)
  BY DEF IInv, TypeOK, Phase, Has, WorkerInit, WorkerWait, WorkerBegin, WorkerFinish
<1>4. InOnePlace'
  BY <1>3, SamePlaces DEF IInv, Ending
<1> QED
  BY <1>1, <1>2, <1>4 DEF IInv

LEMMA WorkerExecuteInv ==
  ASSUME IInv, NEW w \in Worker, Elsewhere, WorkerExecute(w) \/ WorkerRun(w) \/ WorkerSet(w)
  PROVE  IInv'
<1> USE DEF Elsewhere, queues, pool, count, user, WorkerPlaces
<1>1. /\ UNCHANGED <<wstate, wcmd, wstop, ppc, at>>
      /\ hasRun' \in [Cmd -> BOOLEAN] /\ ran' \in [Cmd -> Nat]
  <2>1. hasRun \in [Cmd -> BOOLEAN] /\ ran \in [Cmd -> Nat]
    BY DEF IInv, TypeOK
  <2>2. CASE ran' = [ran EXCEPT ![wcmd[w]] = ran[wcmd[w]] + 1]
    <3>1. \A c \in Cmd : ran[c] + 1 \in Nat
      BY <2>1
    <3> QED
      BY <2>1, <2>2, <3>1 DEF WorkerExecute, WorkerRun, WorkerSet
  <2> QED
    BY <2>1, <2>2 DEF WorkerExecute, WorkerRun, WorkerSet
<1>2. /\ broken' \in BOOLEAN
      /\ \/ UNCHANGED wpc
         \/ \E x \in {"run", "set", "finish"} : wpc' = [wpc EXCEPT ![w] = x]
      /\ wpc[w] \in {"exec", "run", "set"}
  BY DEF IInv, TypeOK, WorkerExecute, WorkerRun, WorkerSet
<1>3. TypeOK'
  BY <1>1, <1>2 DEF IInv, TypeOK
<1>4. Phase'
  BY <1>1, <1>2, <1>3 DEF IInv, TypeOK, Phase, Ending
<1>5. \A v \in Worker : Has(v)' <=> Has(v)
  BY <1>1 DEF Has
<1>6. InOnePlace'
  BY <1>1, <1>5, SamePlaces DEF IInv, Ending
<1> QED
  BY <1>3, <1>4, <1>6 DEF IInv

LEMMA WorkerCheckInv ==
  ASSUME IInv, NEW w \in Worker, Elsewhere, WorkerCheck(w)
  PROVE  IInv'
<1> USE DEF Elsewhere, queues, pool, count, user, WorkerPlaces
<1>1. CASE ~wstop[w]
  <2>1. TypeOK'
    BY <1>1 DEF IInv, TypeOK, WorkerCheck
  <2>2. Phase'
    BY <1>1, <2>1 DEF IInv, TypeOK, Phase, Ending, WorkerCheck
  <2>3. \A v \in Worker : Has(v)' <=> Has(v)
    BY <1>1 DEF Has, WorkerCheck
  <2>4. InOnePlace'
    BY <1>1, <2>3, SamePlaces DEF IInv, Ending, WorkerCheck
  <2> QED
    BY <2>1, <2>2, <2>4 DEF IInv, WorkerCheck
(* a worker that stops takes its command with it *)
<1>2. CASE wstop[w]
  <2>1. Ending
    BY <1>2 DEF IInv, Phase
  <2>2. TypeOK'
    BY <1>2 DEF IInv, TypeOK, WorkerCheck, WorkerStates
  <2>3. Phase'
    <3>1. /\ wpc' = [wpc EXCEPT ![w] = "stopped"]
          /\ wstate' = [wstate EXCEPT ![w] = "SHUTDOWN"]
          /\ wpc[w] = "check"
          /\ UNCHANGED <<ppc, at, pstate, wstop, wcmd, adding, added>>
      BY <1>2 DEF WorkerCheck
    <3>2. /\ \A v \in Worker : v # w => wpc'[v] = wpc[v] /\ wstate'[v] = wstate[v]
          /\ wpc'[w] = "stopped"
      BY <3>1 DEF IInv, TypeOK
    <3>3. ppc \notin {"init", "assign", "store"} /\ Ending'
      BY <2>1, <3>1 DEF Ending
    <3> QED
      BY <1>2, <3>1, <3>2, <3>3 DEF IInv, Phase
  <2>4. \A v \in Worker : Has(v)' => Has(v)
    BY <1>2 DEF IInv, TypeOK, Has, WorkerCheck
  <2>5. InOnePlace'
    <3>1. /\ Queued' = Queued /\ Giving' = Giving /\ Returned' = Returned
          /\ Held' \subseteq Held /\ UNCHANGED <<wcmd, finished, fetched, added>>
      BY <1>2, <2>4 DEF Queued, Giving, Returned, Held, WorkerCheck
    <3>2. Ending'
      BY <2>1 DEF Ending
    <3> QED
      BY <2>4, <3>1, <3>2 DEF IInv, InOnePlace, Everywhere
  <2> QED
    BY <2>2, <2>3, <2>5 DEF IInv, WorkerCheck
<1> QED
  BY <1>1, <1>2 DEF IInv, TypeOK

LEMMA WorkerStepInv ==
  ASSUME IInv, NEW w \in Worker, WorkerStep(w)
  PROVE  IInv'
BY WorkerQuiet, WorkerExecuteInv, WorkerCheckInv
   DEF WorkerStep, Elsewhere, WorkerInit, WorkerWait, WorkerBegin, WorkerFinish
-------------------------------------------------------------------------------
(* The next worker of the scan, if there is one.                           *)
LEMMA Advancing ==
  ASSUME IInv, Advance
  PROVE  at' \in Worker /\ ppc' \in {"loop", "scan"}
BY ThreadPoolAssumption DEF IInv, TypeOK, Advance, Worker

(* The pool steps that only move its program counter.                      *)
LEMMA PoolMoves ==
  ASSUME IInv, UNCHANGED <<pstop, user, queues, workers, pstate, next, count, finished>>,
         broken' \in BOOLEAN, at' \in Worker,
         \/ ppc \in {"loop", "scan", "offer"} /\ ppc' \in {"loop", "scan", "offer"}
         \/ ppc = "loop" /\ ppc' = "ending" /\ at' = 1
  PROVE  IInv'
<1> USE DEF user, count, queues, workers
<1>1. TypeOK'
  BY DEF IInv, TypeOK
<1>2. Phase'
  <2>1. at' = 1 => \A w \in Worker : ~(w < at')
    BY ThreadPoolAssumption DEF Worker
  <2> QED
    BY <2>1 DEF IInv, Phase, Ending
<1>3. \A w \in Worker : Has(w)' <=> Has(w)
  BY DEF Has
<1>4. InOnePlace'
  BY <1>3, SamePlaces DEF IInv, Ending
<1> QED
  BY <1>1, <1>2, <1>4 DEF IInv

LEMMA PoolScans ==
  ASSUME IInv, UNCHANGED <<pstop, user>>,
         PoolLoop \/ PoolNotDone \/ PoolNotReady \/ PoolNoNext \/ PoolRace
  PROVE  IInv'
<1>0. at \in Worker /\ 1 \in Worker /\ broken \in BOOLEAN
  BY ThreadPoolAssumption DEF IInv, TypeOK, Worker
<1>1. CASE PoolLoop
  BY <1>0, <1>1, PoolMoves DEF PoolLoop
<1>2. CASE PoolNotDone
  BY <1>0, <1>2, PoolMoves DEF PoolNotDone
<1>3. CASE PoolNotReady
  BY <1>0, <1>3, PoolMoves, Advancing DEF PoolNotReady
<1>4. CASE PoolNoNext
  BY <1>0, <1>4, PoolMoves, Advancing DEF PoolNoNext
<1>5. CASE PoolRace
  <2>1. ppc' = ppc /\ at' = at /\ UNCHANGED <<pstate, next>>
    BY <1>5 DEF PoolRace, pool
  <2> QED
    BY <1>0, <1>5, <2>1, PoolMoves DEF PoolRace
<1> QED
  BY <1>1, <1>2, <1>3, <1>4, <1>5

LEMMA PoolInitInv ==
  ASSUME IInv, UNCHANGED <<pstop, user>>, PoolInit
  PROVE  IInv'
<1> USE DEF PoolInit, user, count, queues, WorkerPlaces
<1>0. /\ wstate' \in [Worker -> WorkerStates] /\ wpc' \in [Worker -> WorkerPlaces]
      /\ \A w \in Worker : wpc'[w] = "poll" /\ wcmd[w] = NoCmd
  BY ThreadPoolAssumption DEF IInv, Phase
<1>1. TypeOK'
  BY <1>0 DEF IInv, TypeOK
<1>2. Phase'
  BY <1>0 DEF IInv, Phase, Ending
<1>3. \A w \in Worker : Has(w)' <=> Has(w)
  BY <1>0 DEF Has
<1>4. InOnePlace'
  BY <1>3, SamePlaces DEF IInv, Ending
<1> QED
  BY <1>1, <1>2, <1>4 DEF IInv

LEMMA PoolResetInv ==
  ASSUME IInv, UNCHANGED <<pstop, user>>, PoolReset
  PROVE  IInv'
<1> USE DEF PoolReset, user, queues, workers
<1>0. early' \in Nat /\ undone' \in Int
  <2>1. IsFiniteSet(added \ {adding}) /\ outstanding \in Int
    BY FS_Subset DEF IInv, TypeOK, Phase
  <2> QED
    BY <2>1, FS_CardinalityType
<1>1. TypeOK'
  BY <1>0 DEF IInv, TypeOK
<1>2. Phase'
  BY DEF IInv, Phase, Ending
<1>3. \A w \in Worker : Has(w)' <=> Has(w)
  BY DEF Has
<1>4. InOnePlace'
  BY <1>3, SamePlaces DEF IInv, Ending
<1> QED
  BY <1>1, <1>2, <1>4 DEF IInv

LEMMA PoolCollectInv ==
  ASSUME IInv, UNCHANGED <<pstop, user>>, PoolCollect
  PROVE  IInv'
<1> USE DEF PoolCollect, user, count, queues
<1>0. /\ at \in Worker /\ wcmd[at] \in Cmd \cup {NoCmd} /\ next = NoCmd
      /\ finished \in Seq(Cmd \cup {NoCmd}) /\ outstanding \in Int /\ nulls \in Nat
      /\ wstate \in [Worker -> WorkerStates]
  BY DEF IInv, TypeOK
<1>1. /\ finished' \in Seq(Cmd \cup {NoCmd})
      /\ ToSet(finished') = ToSet(finished) \cup {wcmd[at]}
  BY <1>0, Pushed
<1>2. TypeOK'
  <2>1. outstanding' \in Int /\ nulls' \in Nat
    BY <1>0
  <2>2. wstate' \in [Worker -> WorkerStates]
    BY <1>0 DEF WorkerStates
  <2> QED
    BY <1>1, <2>1, <2>2 DEF IInv, TypeOK
<1>3. Phase'
  BY <1>0, <1>2 DEF IInv, TypeOK, Phase, Ending
<1>4. /\ \A w \in Worker : Has(w)' <=> Has(w) /\ w # at
      /\ Has(at) <=> wcmd[at] # NoCmd
  BY <1>0 DEF Has
<1>5. InOnePlace'
  <2>1. /\ Queued' = Queued /\ Giving' = Giving
        /\ Returned' = Returned \cup ({wcmd[at]} \ {NoCmd})
        /\ UNCHANGED <<wcmd, fetched, added>>
    BY <1>1 DEF Queued, Giving, Returned
  <2>2. Held' = Held \ {wcmd[at]}
    BY <1>0, <1>4 DEF IInv, InOnePlace, Held, Has
  <2>3. wcmd[at] # NoCmd => wcmd[at] \in Held
    BY <1>0, <1>4 DEF Held
  <2>4. \A i, j \in DOMAIN finished' :
          finished'[i] = finished'[j] => i = j \/ finished'[i] = NoCmd
    <3>1. \A i \in DOMAIN finished' :
            \/ i \in DOMAIN finished /\ finished'[i] = finished[i]
            \/ i = Len(finished) + 1 /\ finished'[i] = wcmd[at]
      BY <1>0
    <3>2. \A i \in DOMAIN finished : finished[i] = wcmd[at] => finished[i] = NoCmd
      BY <2>3 DEF IInv, InOnePlace, Returned, ToSet
    <3> QED
      BY <3>1, <3>2 DEF IInv, InOnePlace
  <2>5. Everywhere' = Everywhere
    <3>1. NoCmd \notin Held
      BY DEF Held, Has
    <3> QED
      BY <2>1, <2>2, <2>3, <3>1 DEF Everywhere
  <2>6. /\ IsInjective(lowQ') /\ IsInjective(highQ')
        /\ \A v, w \in Worker : Has(v)' /\ Has(w)' /\ wcmd'[v] = wcmd'[w] => v = w
    BY <1>4, <2>1 DEF IInv, InOnePlace
  <2>7. /\ Queued' \cap (Giving' \cup Held' \cup Returned' \cup fetched') = {}
        /\ Giving' \cap (Held' \cup Returned' \cup fetched') = {}
        /\ Held' \cap (Returned' \cup fetched') = {}
        /\ Returned' \cap fetched' = {}
    BY <2>1, <2>2, <2>3 DEF IInv, InOnePlace
  <2>8. Everywhere' \subseteq added' /\ (added' \subseteq Everywhere' \/ Ending')
    BY <2>1, <2>5 DEF IInv, InOnePlace, Ending
  <2> QED
    BY <2>4, <2>6, <2>7, <2>8 DEF InOnePlace
<1> QED
  BY <1>2, <1>3, <1>5 DEF IInv

(* Popping from either queue moves one command from Queued to Giving.      *)
LEMMA NextTaken ==
  ASSUME IInv, PoolNext
  PROVE  /\ lowQ' \in Seq(Low) /\ highQ' \in Seq(High) /\ next' \in Cmd
         /\ IsInjective(lowQ') /\ IsInjective(highQ')
         /\ next' \in Queued /\ Queued' = Queued \ {next'}
<1>0. /\ lowQ \in Seq(Low) /\ highQ \in Seq(High)
      /\ IsInjective(lowQ) /\ IsInjective(highQ)
      /\ ToSet(lowQ) \subseteq Low /\ ToSet(highQ) \subseteq High
  BY DEF IInv, TypeOK, InOnePlace, ToSet
<1>1. CASE highQ # <<>> /\ next' = Head(highQ) /\ highQ' = Tail(highQ) /\ UNCHANGED lowQ
  <2>1. /\ Head(highQ) \in High /\ Head(highQ) \in ToSet(highQ)
        /\ Tail(highQ) \in Seq(High) /\ IsInjective(Tail(highQ))
        /\ ToSet(Tail(highQ)) = ToSet(highQ) \ {Head(highQ)}
    BY <1>0, <1>1, Popped
  <2> QED
    BY <1>0, <1>1, <2>1, ThreadPoolAssumption DEF Queued, Cmd
<1>2. CASE lowQ # <<>> /\ next' = Head(lowQ) /\ lowQ' = Tail(lowQ) /\ UNCHANGED highQ
  <2>1. /\ Head(lowQ) \in Low /\ Head(lowQ) \in ToSet(lowQ)
        /\ Tail(lowQ) \in Seq(Low) /\ IsInjective(Tail(lowQ))
        /\ ToSet(Tail(lowQ)) = ToSet(lowQ) \ {Head(lowQ)}
    BY <1>0, <1>2, Popped
  <2> QED
    BY <1>0, <1>2, <2>1, ThreadPoolAssumption DEF Queued, Cmd
<1> QED
  BY <1>1, <1>2 DEF PoolNext

LEMMA PoolNextInv ==
  ASSUME IInv, UNCHANGED <<pstop, user>>, PoolNext
  PROVE  IInv'
<1> USE DEF user, count, queues, workers
<1>0. next = NoCmd /\ ppc = "offer" /\ ppc' = "assign"
  BY DEF IInv, TypeOK, PoolNext
<1>1. /\ lowQ' \in Seq(Low) /\ highQ' \in Seq(High) /\ next' \in Cmd
      /\ IsInjective(lowQ') /\ IsInjective(highQ')
      /\ next' \in Queued /\ Queued' = Queued \ {next'}
  BY NextTaken
<1>2. TypeOK'
  BY <1>0, <1>1 DEF IInv, TypeOK, PoolNext
<1>3. Phase'
  BY <1>0 DEF IInv, Phase, Ending, PoolNext
<1>4. \A w \in Worker : Has(w)' <=> Has(w)
  BY <1>0 DEF Has, PoolNext
<1>5. InOnePlace'
  <2>1. /\ Giving = {} /\ Giving' = {next'} /\ Held' = Held /\ Returned' = Returned
        /\ UNCHANGED <<wcmd, finished, fetched, added>>
    BY <1>0, <1>1, <1>4, ThreadPoolAssumption DEF Giving, Held, Returned, PoolNext
  <2>2. ~Ending /\ ~Ending'
    BY <1>0 DEF Ending
  <2> QED
    BY <1>1, <1>4, <2>1, <2>2 DEF IInv, InOnePlace, Everywhere
<1> QED
  BY <1>2, <1>3, <1>5 DEF IInv, PoolNext

LEMMA PoolAssignInv ==
  ASSUME IInv, UNCHANGED <<pstop, user>>, PoolAssign
  PROVE  IInv'
<1> USE DEF PoolAssign, user, count, queues
<1>0. wstate \in [Worker -> WorkerStates] /\ at \in Worker
  BY DEF IInv, TypeOK
<1>1. TypeOK'
  BY <1>0 DEF IInv, TypeOK, WorkerStates
<1>2. Phase'
  BY <1>0, <1>1 DEF IInv, Phase, Ending
<1>3. \A w \in Worker : Has(w)' <=> Has(w)
  BY <1>0 DEF IInv, Phase, Has
<1>4. InOnePlace'
  BY <1>3, SamePlaces DEF IInv, Ending
<1> QED
  BY <1>1, <1>2, <1>4 DEF IInv

LEMMA PoolStoreInv ==
  ASSUME IInv, UNCHANGED <<pstop, user>>, PoolStore
  PROVE  IInv'
<1> USE DEF PoolStore, user, count, queues
<1>0. /\ at \in Worker /\ next \in Cmd /\ next # NoCmd /\ next' = NoCmd
      /\ wcmd \in [Worker -> Cmd \cup {NoCmd}]
      /\ at' \in Worker /\ ppc' \in {"loop", "scan"}
  BY Advancing, ThreadPoolAssumption DEF IInv, TypeOK
<1>1. TypeOK'
  BY <1>0 DEF IInv, TypeOK
<1>2. Phase'
  BY <1>0, <1>1 DEF IInv, Phase, Ending
<1>3. /\ wcmd'[at] = next /\ ~Has(at)
      /\ \A w \in Worker : Has(w)' <=> Has(w) \/ w = at
      /\ \A w \in Worker : w # at => wcmd'[w] = wcmd[w]
  <2>1. /\ wcmd'[at] = next /\ wstate'[at] \in {"EXECUTE", "DONE"}
        /\ \A w \in Worker : w # at => wcmd'[w] = wcmd[w]
    BY <1>0 DEF IInv, Phase
  <2>2. \A w \in Worker : Has(w)' <=> wcmd'[w] # NoCmd /\ wstate[w] \in {"EXECUTE", "DONE"}
    BY <1>0 DEF Has
  <2>3. ~Has(at)
    BY <1>0 DEF Has
  <2>4. \A w \in Worker : w # at => (Has(w)' <=> Has(w))
    BY <2>1, <2>2 DEF Has
  <2> QED
    BY <1>0, <2>1, <2>2, <2>3, <2>4
<1>4. InOnePlace'
  <2>1. /\ Giving = {next} /\ Giving' = {} /\ Held' = Held \cup {next}
        /\ Queued' = Queued /\ Returned' = Returned
        /\ UNCHANGED <<lowQ, highQ, finished, fetched, added>>
    <3>1. Giving = {next} /\ Giving' = {} /\ Queued' = Queued /\ Returned' = Returned
      BY <1>0 DEF Giving, Queued, Returned
    <3>2. Held' = Held \cup {next}
      BY <1>0, <1>3 DEF Held
    <3> QED
      BY <3>1, <3>2
  <2>2. \A v, w \in Worker : Has(v)' /\ Has(w)' /\ wcmd'[v] = wcmd'[w] => v = w
    <3>1. \A w \in Worker : Has(w) => wcmd[w] # next
      BY <2>1 DEF IInv, InOnePlace, Held
    <3> QED
      BY <1>3, <3>1 DEF IInv, InOnePlace
  <2>3. ~Ending /\ ~Ending'
    BY <1>0 DEF Ending
  <2> QED
    BY <2>1, <2>2, <2>3 DEF IInv, InOnePlace, Everywhere
<1> QED
  BY <1>1, <1>2, <1>4 DEF IInv

LEMMA PoolEndInv ==
  ASSUME IInv, UNCHANGED <<pstop, user>>, PoolEnd \/ PoolJoin
  PROVE  IInv'
<1> USE DEF user, count, queues, workers
<1>0. at \in Worker /\ NumThreads \in Nat \ {0} /\ Ending
  BY ThreadPoolAssumption DEF IInv, TypeOK, Ending, PoolEnd, PoolJoin
<1>1. CASE PoolEnd
  <2>1. wstop' \in [Worker -> BOOLEAN] /\ \A w \in Worker : wstop[w] => wstop'[w]
    BY <1>0, <1>1 DEF IInv, TypeOK, PoolEnd
  <2>2. TypeOK'
    BY <1>1, <2>1 DEF IInv, TypeOK, PoolEnd
  <2>3. Phase'
    BY <1>1, <2>1 DEF IInv, Phase, Ending, PoolEnd
  <2>4. \A w \in Worker : Has(w)' <=> Has(w)
    BY <1>1 DEF Has, PoolEnd
  <2>5. InOnePlace'
    BY <1>1, <2>4, SamePlaces DEF IInv, Ending, PoolEnd
  <2> QED
    BY <1>1, <2>2, <2>3, <2>5 DEF IInv, PoolEnd
<1>2. CASE PoolJoin
  <2>1. /\ at' \in Worker
        /\ \/ at = NumThreads /\ ppc' = "stopped"
           \/ at' = at + 1 /\ ppc' = "ending" /\ UNCHANGED pstate
    BY <1>0, <1>2 DEF PoolJoin, Worker
  <2>2. \A w \in Worker : w = at \/ w < at => wpc[w] = "stopped"
    BY <1>2 DEF IInv, Phase, PoolJoin
  <2>3. TypeOK'
    BY <1>2, <2>1 DEF IInv, TypeOK, PoolJoin
  <2>4. Phase'
    <3>1. at = NumThreads => \A w \in Worker : w = at \/ w < at
      BY <1>0 DEF Worker
    <3>2. at' = at + 1 => \A w \in Worker : w < at' => w = at \/ w < at
      BY <1>0 DEF Worker
    <3> QED
      BY <1>2, <2>1, <2>2, <3>1, <3>2 DEF IInv, Phase, Ending, PoolJoin
  <2>5. \A w \in Worker : Has(w)' <=> Has(w)
    BY <1>2, <2>1 DEF Has, PoolJoin
  <2>6. InOnePlace'
    BY <1>2, <2>1, <2>5, SamePlaces DEF IInv, Ending, PoolJoin
  <2> QED
    BY <1>2, <2>3, <2>4, <2>6 DEF IInv, PoolJoin
<1> QED
  BY <1>1, <1>2

LEMMA PoolStepInv == ASSUME IInv, PoolStep PROVE IInv'
BY PoolInitInv, PoolResetInv, PoolScans, PoolCollectInv, PoolNextInv, PoolAssignInv,
   PoolStoreInv, PoolEndInv DEF PoolStep
-------------------------------------------------------------------------------
LEMMA AddBeginInv == ASSUME IInv, NEW c \in Cmd, AddBegin(c) PROVE IInv'
<1> USE DEF AddBegin, queues, workers, pool, count
<1>1. TypeOK' /\ Phase'
  BY DEF IInv, TypeOK, Phase, Ending
<1>2. \A w \in Worker : Has(w)' <=> Has(w)
  BY DEF Has
<1>3. InOnePlace'
  BY <1>2, SamePlaces DEF IInv, Ending
<1> QED
  BY <1>1, <1>3 DEF IInv

LEMMA AddPushed ==
  ASSUME IInv, AddPush
  PROVE  /\ lowQ' \in Seq(Low) /\ highQ' \in Seq(High)
         /\ IsInjective(lowQ') /\ IsInjective(highQ')
         /\ Queued' = Queued \cup {adding}
<1>0. /\ lowQ \in Seq(Low) /\ highQ \in Seq(High) /\ adding \in Cmd
      /\ IsInjective(lowQ) /\ IsInjective(highQ)
      /\ adding \notin ToSet(lowQ) /\ adding \notin ToSet(highQ)
  BY DEF IInv, TypeOK, InOnePlace, Everywhere, Queued, AddPush
<1>1. CASE adding \in High
  <2>1. highQ' = Append(highQ, adding) /\ UNCHANGED lowQ
    BY <1>1 DEF AddPush
  <2>2. /\ highQ' \in Seq(High) /\ IsInjective(highQ')
        /\ ToSet(highQ') = ToSet(highQ) \cup {adding}
    BY <1>0, <1>1, <2>1, Pushed
  <2> QED
    BY <1>0, <2>1, <2>2 DEF Queued
<1>2. CASE adding \notin High
  <2>1. lowQ' = Append(lowQ, adding) /\ adding \in Low /\ UNCHANGED highQ
    BY <1>0, <1>2 DEF AddPush, Cmd
  <2>2. /\ lowQ' \in Seq(Low) /\ IsInjective(lowQ')
        /\ ToSet(lowQ') = ToSet(lowQ) \cup {adding}
    BY <1>0, <2>1, Pushed
  <2> QED
    BY <1>0, <2>1, <2>2 DEF Queued
<1> QED
  BY <1>1, <1>2

LEMMA AddPushInv == ASSUME IInv, AddPush PROVE IInv'
<1> USE DEF workers, pool, count
<1>0. adding \in Cmd /\ adding \notin added /\ adding' = adding
      /\ added' = added \cup {adding}
  BY DEF IInv, TypeOK, AddPush
<1>1. /\ lowQ' \in Seq(Low) /\ highQ' \in Seq(High)
      /\ IsInjective(lowQ') /\ IsInjective(highQ')
      /\ Queued' = Queued \cup {adding}
  BY AddPushed
<1>2. TypeOK'
  BY <1>0, <1>1 DEF IInv, TypeOK, AddPush
<1>3. Phase'
  BY <1>0, FS_AddElement, ThreadPoolAssumption DEF IInv, TypeOK, Phase, Ending, AddPush
<1>4. \A w \in Worker : Has(w)' <=> Has(w)
  BY DEF Has, AddPush
<1>5. InOnePlace'
  <2>1. /\ Giving' = Giving /\ Held' = Held /\ Returned' = Returned
        /\ UNCHANGED <<wcmd, finished, fetched>> /\ (Ending' <=> Ending)
    BY <1>4 DEF Giving, Held, Returned, Ending, AddPush
  <2> QED
    BY <1>0, <1>1, <1>4, <2>1 DEF IInv, InOnePlace, Everywhere
<1> QED
  BY <1>2, <1>3, <1>5 DEF IInv, AddPush

LEMMA AddCountInv == ASSUME IInv, AddCount PROVE IInv'
<1> USE DEF AddCount, queues, workers, pool
<1>1. loaded \in Int /\ outstanding' \in Int
  BY DEF IInv, TypeOK
<1>2. TypeOK' /\ Phase'
  BY <1>1 DEF IInv, TypeOK, Phase, Ending
<1>3. \A w \in Worker : Has(w)' <=> Has(w)
  BY DEF Has
<1>4. InOnePlace'
  BY <1>3, SamePlaces DEF IInv, Ending
<1> QED
  BY <1>2, <1>4 DEF IInv

LEMMA FetchInv == ASSUME IInv, Fetch PROVE IInv'
<1> USE DEF workers, pool, count, queues
<1>1. fetched' = fetched \cup Returned /\ Returned' = {} /\ DOMAIN finished' = {}
      /\ finished' \in Seq(Cmd \cup {NoCmd})
  BY Empty DEF Fetch, Returned
<1>2. Returned \subseteq added
  BY DEF IInv, InOnePlace, Everywhere
<1>3. TypeOK' /\ Phase'
  BY <1>1, <1>2 DEF IInv, TypeOK, Phase, Ending, Fetch
<1>4. \A w \in Worker : Has(w)' <=> Has(w)
  BY DEF Has, Fetch
<1>5. InOnePlace'
  <2>1. /\ Queued' = Queued /\ Giving' = Giving /\ Held' = Held
        /\ UNCHANGED <<lowQ, highQ, wcmd, added>> /\ (Ending' <=> Ending)
    BY <1>4 DEF Queued, Giving, Held, Ending, Fetch
  <2> QED
    BY <1>1, <1>4, <2>1 DEF IInv, InOnePlace, Everywhere
<1> QED
  BY <1>3, <1>5 DEF IInv, Fetch

LEMMA EndInv == ASSUME IInv, End PROVE IInv'
<1> USE DEF End, queues, workers, pool, count, user
<1>1. TypeOK' /\ Phase'
  BY DEF IInv, TypeOK, Phase, Ending
<1>2. \A w \in Worker : Has(w)' <=> Has(w)
  BY DEF Has
<1>3. InOnePlace'
  BY <1>2, SamePlaces DEF IInv, Ending
<1> QED
  BY <1>1, <1>3 DEF IInv

LEMMA NextInv == IInv /\ [Next]_vars => IInv'
<1> SUFFICES ASSUME IInv, [Next]_vars PROVE IInv'
  OBVIOUS
<1>1. CASE User
  BY <1>1, AddBeginInv, AddPushInv, AddCountInv, FetchInv, EndInv DEF User, AddEnd
<1>2. CASE PoolStep
  BY <1>2, PoolStepInv
<1>3. ASSUME NEW w \in Worker, WorkerStep(w) PROVE IInv'
  BY <1>3, WorkerStepInv
<1>4. CASE UNCHANGED vars
  <2> USE <1>4 DEF vars, queues, workers, pool, count, user
  <2>1. TypeOK' /\ Phase'
    BY DEF IInv, TypeOK, Phase, Ending
  <2>2. \A w \in Worker : Has(w)' <=> Has(w)
    BY DEF Has
  <2>3. InOnePlace'
    BY <2>2, SamePlaces DEF IInv, Ending
  <2> QED
    BY <2>1, <2>3 DEF IInv
<1> QED
  BY <1>1, <1>2, <1>3, <1>4 DEF Next

(* The strengthening holds in every reachable state.                       *)
THEOREM Invariant == Spec => []IInv
<1>1. Init => IInv
  BY InitInv
<1>2. IInv /\ [Next]_vars => IInv'
  BY NextInv
<1> QED
  BY <1>1, <1>2, PTL DEF Spec
-------------------------------------------------------------------------------
(* The members of the pool, its workers and its scheduler stay well        *)
(* formed.                                                                 *)
THEOREM TypeCorrect == Spec => []TypeOK
<1>1. IInv => TypeOK
  BY DEF IInv
<1> QED
  BY <1>1, Invariant, PTL

(* No command given to ThreadPool::addCommand is lost or duplicated on its *)
(* way through the queues, the workers and the list of finished commands.  *)
THEOREM NothingLost == Spec => []InOnePlace
<1>1. IInv => InOnePlace
  BY DEF IInv
<1> QED
  BY <1>1, Invariant, PTL

(* ThreadPool::_run reports SHUTDOWN only after every worker has stopped.  *)
THEOREM QuietAtShutdown == Spec => []StoppedIsQuiet
<1>1. IInv => StoppedIsQuiet
  BY DEF IInv, Phase, StoppedIsQuiet
<1> QED
  BY <1>1, Invariant, PTL
-------------------------------------------------------------------------------
(* A worker keeps the command it had until the pool stores the next one,   *)
(* and may execute it again.  Nobody else has it by then: the pool does    *)
(* not give out a command twice.                                           *)
Alone ==
  /\ \A v, w \in Worker : wcmd[v] # NoCmd /\ wcmd[v] = wcmd[w] => v = w
  /\ \A w \in Worker : wcmd[w] # NoCmd => wcmd[w] \in added \ (Queued \cup Giving)

LEMMA AloneStep == IInv /\ Alone /\ [Next]_vars => Alone'
<1> SUFFICES ASSUME IInv, Alone, [Next]_vars PROVE Alone'
  OBVIOUS
<1> USE DEF queues, workers, pool, count, user
<1>1. CASE AddPush
  <2>1. UNCHANGED <<wcmd, next>> /\ adding \notin added /\ added' = added \cup {adding}
    BY <1>1 DEF AddPush
  <2>2. Queued' = Queued \cup {adding} /\ Giving' = Giving
    BY <1>1, <2>1, AddPushed DEF Giving
  <2> QED
    BY <2>1, <2>2 DEF Alone
<1>2. CASE PoolStep /\ PoolNext
  <2>1. next = NoCmd /\ UNCHANGED <<wcmd, added>>
    BY <1>2 DEF IInv, TypeOK, PoolStep, PoolNext
  <2>2. next' \in Queued /\ Queued' = Queued \ {next'}
    BY <1>2, NextTaken
  <2> QED
    BY <2>1, <2>2 DEF Alone, Giving
<1>3. CASE PoolStep /\ PoolStore
  <2>1. /\ wcmd' = [wcmd EXCEPT ![at] = next] /\ next \in Cmd /\ next' = NoCmd
        /\ wcmd \in [Worker -> Cmd \cup {NoCmd}] /\ at \in Worker
        /\ UNCHANGED <<lowQ, highQ, added>>
    BY <1>3 DEF IInv, TypeOK, PoolStep, PoolStore
  <2>2. next \in Giving /\ Giving' = {} /\ Queued' = Queued
    BY <2>1, ThreadPoolAssumption DEF Giving, Queued
  <2>3. next \in added /\ next \notin Queued
    BY <2>2 DEF IInv, InOnePlace, Everywhere
  <2>4. \A w \in Worker : wcmd'[w] = IF w = at THEN next ELSE wcmd[w]
    BY <2>1
  <2>5. \A w \in Worker : wcmd[w] # NoCmd => wcmd[w] # next
    BY <2>2 DEF Alone
  <2> QED
    BY <2>1, <2>2, <2>3, <2>4, <2>5 DEF Alone
<1>4. CASE UNCHANGED <<lowQ, highQ, next, added, wcmd>>
  BY <1>4 DEF Alone, Queued, Giving
<1>5. CASE PoolStep /\ ~PoolNext /\ ~PoolStore
  BY <1>4, <1>5 DEF PoolStep, PoolInit, PoolReset, PoolLoop, PoolNotDone, PoolCollect,
                    PoolNotReady, PoolNoNext, PoolRace, PoolAssign, PoolEnd, PoolJoin
<1>6. CASE (\E c \in Cmd : AddBegin(c)) \/ AddCount \/ Fetch \/ End
  BY <1>4, <1>6 DEF AddBegin, AddCount, Fetch, End
<1>7. CASE \E w \in Worker : WorkerStep(w)
  BY <1>4, <1>7 DEF WorkerStep, WorkerInit, WorkerWait, WorkerBegin, WorkerExecute, WorkerRun,
                    WorkerSet, WorkerFinish, WorkerCheck
<1>8. CASE UNCHANGED vars
  BY <1>4, <1>8 DEF vars
<1> QED
  BY <1>1, <1>2, <1>3, <1>5, <1>6, <1>7, <1>8 DEF Next, User, AddEnd

(* Between the question whether a command has run and the answer, only the *)
(* worker that asked can perform it or set its flag.                       *)
Once ==
  /\ \A w \in Worker : wpc[w] \in {"run", "set"} => wcmd[w] # NoCmd
  /\ \A w \in Worker : wpc[w] = "run" => ran[wcmd[w]] = 0 /\ ~hasRun[wcmd[w]]
  /\ \A c \in Cmd :
       \/ ran[c] = 0
       \/ ran[c] = 1 /\ hasRun[c]
       \/ ran[c] = 1 /\ \E w \in Worker : wpc[w] = "set" /\ wcmd[w] = c

LEMMA OnceStep == IInv /\ Alone /\ Once /\ [Next]_vars => Once'
<1> SUFFICES ASSUME IInv, Alone, Once, [Next]_vars PROVE Once'
  OBVIOUS
<1> USE DEF queues, workers, pool, count, user
<1>0. /\ wpc \in [Worker -> WorkerPlaces] /\ wcmd \in [Worker -> Cmd \cup {NoCmd}]
      /\ hasRun \in [Cmd -> BOOLEAN] /\ ran \in [Cmd -> Nat] /\ at \in Worker
      /\ \A v, w \in Worker : wcmd[v] # NoCmd /\ wcmd[v] = wcmd[w] => v = w
  BY DEF IInv, TypeOK, Alone, WorkerPlaces
<1>1. ASSUME NEW w \in Worker, WorkerExecute(w) PROVE Once'
  <2>1. CASE wcmd[w] = NoCmd
    BY <1>1, <2>1 DEF WorkerExecute, Once
  <2>2. CASE wcmd[w] # NoCmd
    <3>1. /\ wpc[w] = "exec" /\ UNCHANGED <<wcmd, hasRun, ran>>
          /\ \A v \in Worker : wpc'[v] = IF v # w THEN wpc[v]
                                         ELSE IF hasRun[wcmd[w]] THEN "finish" ELSE "run"
      BY <1>0, <1>1, <2>2 DEF WorkerExecute
    <3>2. ~hasRun[wcmd[w]] => ran[wcmd[w]] = 0
      BY <1>0, <2>2, <3>1 DEF Once
    <3> QED
      BY <2>2, <3>1, <3>2 DEF Once
  <2> QED
    BY <2>1, <2>2
<1>2. ASSUME NEW w \in Worker, WorkerRun(w) PROVE Once'
  <2>1. /\ wpc[w] = "run" /\ wcmd[w] \in Cmd /\ ran[wcmd[w]] = 0 /\ UNCHANGED <<wcmd, hasRun>>
    BY <1>0, <1>2 DEF Once, WorkerRun
  <2>2. CASE wcmd[w] \in Throwing
    <3>1. ran' = ran /\ \A v \in Worker : wpc'[v] = IF v = w THEN "finish" ELSE wpc[v]
      BY <1>0, <1>2, <2>2 DEF WorkerRun
    <3> QED
      BY <2>1, <3>1 DEF Once
  <2>3. CASE wcmd[w] \notin Throwing
    <3>1. /\ \A v \in Worker : wpc'[v] = IF v = w THEN "set" ELSE wpc[v]
          /\ \A c \in Cmd : ran'[c] = IF c = wcmd[w] THEN 1 ELSE ran[c]
      BY <1>0, <1>2, <2>1, <2>3 DEF WorkerRun
    <3>2. \A v \in Worker : wpc'[v] \in {"run", "set"} => wcmd[v] # NoCmd
      BY <2>1, <3>1, ThreadPoolAssumption DEF Once
    <3>3. \A v \in Worker : wpc'[v] = "run" => v # w /\ wcmd[v] # wcmd[w]
      BY <1>0, <2>1, <3>1, <3>2
    <3>4. \A v \in Worker : wpc'[v] = "run" => wcmd[v] \in Cmd /\ ran'[wcmd[v]] = 0
                                               /\ ~hasRun[wcmd[v]]
      BY <1>0, <3>1, <3>2, <3>3 DEF Once
    <3> QED
      BY <2>1, <3>1, <3>2, <3>4 DEF Once
  <2> QED
    BY <2>2, <2>3
<1>3. ASSUME NEW w \in Worker, WorkerSet(w) PROVE Once'
  <2>1. /\ wpc[w] = "set" /\ wcmd[w] \in Cmd /\ UNCHANGED <<wcmd, ran>>
        /\ \A c \in Cmd : hasRun'[c] = IF c = wcmd[w] THEN TRUE ELSE hasRun[c]
        /\ \A v \in Worker : wpc'[v] = IF v = w THEN "finish" ELSE wpc[v]
    BY <1>0, <1>3 DEF Once, WorkerSet
  <2>2. \A v \in Worker : wpc'[v] = "run" => wcmd[v] \in Cmd /\ wcmd[v] # wcmd[w]
    BY <1>0, <2>1 DEF Once
  <2>3. ASSUME NEW c \in Cmd, ran[c] = 1, ~hasRun'[c]
        PROVE  \E v \in Worker : wpc'[v] = "set" /\ wcmd[v] = c
    <3>1. c # wcmd[w] /\ ~hasRun[c]
      BY <2>1, <2>3
    <3>2. PICK v \in Worker : wpc[v] = "set" /\ wcmd[v] = c
      BY <2>3, <3>1 DEF Once
    <3> QED
      BY <2>1, <3>1, <3>2
  <2>4. \A v \in Worker : wpc'[v] \in {"run", "set"} => wcmd[v] # NoCmd
    BY <2>1 DEF Once
  <2>5. \A v \in Worker : wpc'[v] = "run" => ran[wcmd[v]] = 0 /\ ~hasRun'[wcmd[v]]
    BY <2>1, <2>2 DEF Once
  <2>6. ASSUME NEW c \in Cmd
        PROVE  \/ ran'[c] = 0
               \/ ran'[c] = 1 /\ hasRun'[c]
               \/ ran'[c] = 1 /\ \E v \in Worker : wpc'[v] = "set" /\ wcmd'[v] = c
    <3>1. ran'[c] = ran[c] /\ (ran[c] = 0 \/ ran[c] = 1)
      BY <2>1 DEF Once
    <3> QED
      BY <2>1, <2>3, <3>1
  <2> QED
    BY <2>1, <2>4, <2>5, <2>6 DEF Once
<1>4. CASE PoolStep /\ PoolStore
  <2>1. /\ wpc[at] \notin {"exec", "run", "set"} /\ UNCHANGED <<wpc, hasRun, ran>>
        /\ \A w \in Worker : w # at => wcmd'[w] = wcmd[w]
    BY <1>0, <1>4 DEF PoolStore, Unlocked
  <2> QED
    BY <1>0, <2>1 DEF Once
<1>5. CASE PoolStep /\ PoolInit
  <2>1. UNCHANGED <<wcmd, hasRun, ran>> /\ \A w \in Worker : wpc'[w] = "poll" /\ wpc[w] = "none"
    BY <1>5 DEF IInv, Phase, PoolInit
  <2> QED
    BY <2>1 DEF Once
<1>6. CASE UNCHANGED <<wpc, wcmd, hasRun, ran>>
  BY <1>6 DEF Once
<1>7. CASE PoolStep /\ ~PoolInit /\ ~PoolStore
  BY <1>6, <1>7 DEF PoolStep, PoolReset, PoolLoop, PoolNotDone, PoolCollect, PoolNotReady,
                    PoolNext, PoolNoNext, PoolRace, PoolAssign, PoolEnd, PoolJoin
<1>8. ASSUME NEW w \in Worker,
             WorkerInit(w) \/ WorkerWait(w) \/ WorkerBegin(w) \/ WorkerFinish(w) \/ WorkerCheck(w)
      PROVE  Once'
  <2>1. /\ UNCHANGED <<wcmd, hasRun, ran>> /\ wpc[w] \notin {"run", "set"}
        /\ \E x \in {"check", "exec", "stopped", "poll"} :
             \A v \in Worker : wpc'[v] = IF v = w THEN x ELSE wpc[v]
    BY <1>0, <1>8 DEF WorkerInit, WorkerWait, WorkerBegin, WorkerFinish, WorkerCheck
  <2> QED
    BY <2>1 DEF Once
<1>9. CASE User \/ UNCHANGED vars
  BY <1>6, <1>9 DEF User, AddEnd, AddBegin, AddPush, AddCount, Fetch, End, vars
<1> QED
  BY <1>1, <1>2, <1>3, <1>4, <1>5, <1>7, <1>8, <1>9 DEF Next, WorkerStep

(* Command::execute performs an operation at most once, for any number of  *)
(* workers that read EXECUTE too early, although its check, its operation  *)
(* and its flag are three steps.                                           *)
THEOREM AtMostOnce == Spec => []RunsOnce
<1>1. Init => Alone /\ Once
  <2> SUFFICES ASSUME Init PROVE Alone /\ Once
    OBVIOUS
  <2>1. /\ \A w \in Worker : wcmd[w] = NoCmd /\ wpc[w] = "none"
        /\ \A c \in Cmd : ran[c] = 0
    BY DEF Init
  <2>2. Alone
    BY <2>1 DEF Alone
  <2>3. \A w \in Worker : wpc[w] \notin {"run", "set"}
    BY <2>1
  <2>4. Once
    BY <2>1, <2>3 DEF Once
  <2> QED
    BY <2>2, <2>4
<1>2. Once => RunsOnce
  <2> SUFFICES ASSUME Once, NEW c \in Cmd PROVE ran[c] <= 1
    BY DEF RunsOnce
  <2> QED
    BY DEF Once
<1>3. IInv /\ Alone /\ Once /\ [Next]_vars => (Alone /\ Once)'
  BY AloneStep, OnceStep
<1> QED
  BY <1>1, <1>2, <1>3, Invariant, PTL DEF Spec
-------------------------------------------------------------------------------
(* Steps that change none of the sets the stage depends on.                *)
LEMMA SameStage ==
  ASSUME UNCHANGED <<fetched, Returned, Queued, added>>
  PROVE  stage' = stage
BY DEF stage

(* A step that moves one command moves one stage.                          *)
LEMMA MovedStage ==
  ASSUME NEW c \in Cmd, NEW v, stage'[c] = v,
         \A d \in Cmd : d # c => stage'[d] = stage[d]
  PROVE  stage' = [stage EXCEPT ![c] = v]
<1>1. stage' = [d \in Cmd |-> stage'[d]]
  BY DEF stage
<1>2. stage = [d \in Cmd |-> stage[d]]
  BY DEF stage
<1> QED
  BY <1>1, <1>2

LEMMA StepImplements == IInv /\ [Next]_vars => [Tasks!Next]_stage
<1> SUFFICES ASSUME IInv, [Next]_vars PROVE [Tasks!Next]_stage
  OBVIOUS
<1> DEFINE Same == UNCHANGED <<fetched, Returned, Queued, added>>
<1>0. /\ Everywhere \subseteq added /\ Queued \cap (Returned \cup fetched) = {}
      /\ Held \cap (Queued \cup Returned \cup fetched) = {} /\ Returned \cap fetched = {}
  BY DEF IInv, InOnePlace
<1>1. CASE AddPush
  <2>1. /\ adding \in Cmd /\ adding \notin added /\ added' = added \cup {adding}
        /\ UNCHANGED <<fetched, Returned>>
    BY <1>1 DEF IInv, TypeOK, Phase, AddPush, Returned
  <2>2. Queued' = Queued \cup {adding}
    BY <1>1, AddPushed
  <2>3. adding \notin Everywhere
    BY <1>0, <2>1
  <2>4. stage[adding] = "new" /\ stage'[adding] = "queued"
    BY <2>1, <2>2, <2>3 DEF stage, Everywhere
  <2>5. \A d \in Cmd : d # adding => stage'[d] = stage[d]
    BY <2>1, <2>2 DEF stage
  <2>6. Tasks!Add(adding)
    BY <2>1, <2>4, <2>5, MovedStage DEF Tasks!Add, Tasks!Move
  <2> QED
    BY <2>1, <2>6 DEF Tasks!Next
<1>2. CASE Fetch
  <2>1. /\ fetched' = fetched \cup Returned /\ Returned' = {}
        /\ UNCHANGED <<Queued, added>>
    BY <1>2, Empty DEF Fetch, Returned, Queued, queues
  <2>2. Tasks!Fetch
    BY <1>0, <2>1 DEF stage, Tasks!Fetch
  <2> QED
    BY <2>2 DEF Tasks!Next
<1>3. CASE PoolStep /\ PoolNext
  <2>1. UNCHANGED <<fetched, Returned, added>>
    BY <1>3 DEF PoolStep, PoolNext, Returned, user
  <2>2. next' \in Cmd /\ next' \in Queued /\ Queued' = Queued \ {next'}
    BY <1>3, NextTaken
  <2>3. next' \in added /\ next' \notin Returned \cup fetched
    BY <1>0, <2>2 DEF Everywhere
  <2>4. stage[next'] = "queued" /\ stage'[next'] = "running"
    BY <2>1, <2>2, <2>3 DEF stage
  <2>5. \A d \in Cmd : d # next' => stage'[d] = stage[d]
    BY <2>1, <2>2 DEF stage
  <2>6. Tasks!Start(next')
    BY <2>2, <2>4, <2>5, MovedStage DEF Tasks!Start, Tasks!Move
  <2> QED
    BY <2>2, <2>6 DEF Tasks!Next
<1>4. CASE PoolStep /\ PoolCollect
  <2>0. at \in Worker /\ wcmd[at] \in Cmd \cup {NoCmd} /\ finished \in Seq(Cmd \cup {NoCmd})
    BY DEF IInv, TypeOK
  <2>1. /\ UNCHANGED <<fetched, Queued, added>>
        /\ Returned' = Returned \cup ({wcmd[at]} \ {NoCmd})
    BY <1>4, <2>0, Pushed DEF PoolStep, PoolCollect, Returned, Queued, user, queues
  <2>2. CASE wcmd[at] = NoCmd
    BY <2>1, <2>2, SameStage
  <2>3. CASE wcmd[at] # NoCmd
    <3>1. wcmd[at] \in Held /\ wcmd[at] \in Cmd
      BY <1>4, <2>0, <2>3 DEF Held, Has, PoolCollect
    <3>2. wcmd[at] \in added /\ wcmd[at] \notin Queued \cup Returned \cup fetched
      BY <1>0, <3>1 DEF Everywhere
    <3>3. stage[wcmd[at]] = "running" /\ stage'[wcmd[at]] = "returned"
      BY <2>1, <2>3, <3>1, <3>2 DEF stage
    <3>4. \A d \in Cmd : d # wcmd[at] => stage'[d] = stage[d]
      BY <2>1 DEF stage
    <3>5. Tasks!Return(wcmd[at])
      BY <3>1, <3>3, <3>4, MovedStage DEF Tasks!Return, Tasks!Move
    <3> QED
      BY <3>1, <3>5 DEF Tasks!Next
  <2> QED
    BY <2>2, <2>3
<1>5. CASE PoolStep /\ ~PoolNext /\ ~PoolCollect
  <2>1. UNCHANGED <<lowQ, highQ, finished, fetched, added>>
    BY <1>5 DEF PoolStep, PoolInit, PoolReset, PoolLoop, PoolNotDone, PoolNotReady,
                PoolNoNext, PoolRace, PoolAssign, PoolStore, PoolEnd, PoolJoin, queues, user
  <2> QED
    BY <2>1, SameStage DEF Returned, Queued
<1>6. CASE (\E c \in Cmd : AddBegin(c)) \/ AddCount \/ End
  <2>1. UNCHANGED <<lowQ, highQ, finished, fetched, added>>
    BY <1>6 DEF AddBegin, AddCount, End, queues, user
  <2> QED
    BY <2>1, SameStage DEF Returned, Queued
<1>7. CASE \E w \in Worker : WorkerStep(w)
  <2>1. UNCHANGED <<lowQ, highQ, finished, fetched, added>>
    BY <1>7 DEF WorkerStep, queues, user
  <2> QED
    BY <2>1, SameStage DEF Returned, Queued
<1>8. CASE UNCHANGED vars
  BY <1>8, SameStage DEF vars, queues, user, Returned, Queued
<1> QED
  BY <1>1, <1>2, <1>3, <1>4, <1>5, <1>6, <1>7, <1>8 DEF Next, User, AddEnd

(* The pool implements TaskPool: every command goes through the queue, one *)
(* worker, the list of finished commands and the user's hands, in this     *)
(* order and once.                                                         *)
THEOREM Implementation == Spec => TasksSpec
<1>1. Init => Tasks!Init
  <2> SUFFICES ASSUME Init PROVE Tasks!Init
    OBVIOUS
  <2>1. Queued = {} /\ Returned = {} /\ fetched = {} /\ added = {}
    BY Empty DEF Init, Queued, Returned
  <2> QED
    BY <2>1 DEF Tasks!Init, stage
<1>2. IInv /\ [Next]_vars => [Tasks!Next]_stage
  BY StepImplements
<1> QED
  BY <1>1, <1>2, Invariant, PTL DEF Spec, TasksSpec, Tasks!Spec
-------------------------------------------------------------------------------
(* The count of unfinished commands, and what addCommand will make of it   *)
(* if it is incrementing it.  The strengthening says what it is before the *)
(* pool's thread resets it: commands already added wait in the queues, no  *)
(* worker has handed anything back, and what an increment has loaded is    *)
(* what the reset will write over.                                         *)
Holding == {w \in Worker : Has(w)}
Tally == IF adding \in added THEN loaded + 1 ELSE outstanding
Unset == ppc \in {"init", "reset"}

Counted == /\ pstate = "INIT" <=> Unset
           /\ Unset => /\ Len(lowQ) + Len(highQ) = Cardinality(added) /\ nulls = 0
                       /\ adding \in added => loaded = outstanding
           /\ ~Unset /\ ~Ending => Tally = Pending - early - nulls + undone

LEMMA Crew == \A S \in SUBSET Worker : IsFiniteSet(S) /\ Cardinality(S) \in Nat
<1>1. IsFiniteSet(Worker)
  BY FS_Interval, ThreadPoolAssumption DEF Worker
<1> QED
  BY <1>1, FS_Subset, FS_CardinalityType

(* What the lengths of the queues become.                                  *)
LEMMA Lengths ==
  ASSUME NEW S, NEW q \in Seq(S)
  PROVE  /\ Len(q) \in Nat
         /\ q # <<>> => Len(Tail(q)) = Len(q) - 1
         /\ \A c \in S : Len(Append(q, c)) = Len(q) + 1
OBVIOUS

(* Steps that move no command and count none.                              *)
LEMMA SameCount ==
  ASSUME Counted, UNCHANGED <<lowQ, highQ, next, count, added, pstate>>,
         Tally' = Tally, adding' \in added => adding \in added /\ loaded' = loaded,
         Unset' <=> Unset, Ending' \/ Unset \/ (Holding' = Holding /\ ~Ending)
  PROVE  Counted'
BY DEF Counted, Pending, Holding, count

LEMMA WorkerCounted == ASSUME IInv, Counted, NEW w \in Worker, WorkerStep(w) PROVE Counted'
<1>1. /\ UNCHANGED <<lowQ, highQ, next, count, user, pstate, ppc, at, wcmd>>
      /\ Ending' = Ending /\ Unset' = Unset
  BY DEF WorkerStep, WorkerInit, WorkerWait, WorkerBegin, WorkerExecute, WorkerRun, WorkerSet,
         WorkerFinish, WorkerCheck, queues, pool, user, Ending, Unset
<1>2. ASSUME ~Ending PROVE Holding' = Holding
  <2>1. ~wstop[w]
    BY <1>2 DEF IInv, Phase
  <2>2. \A v \in Worker : Has(v)' <=> Has(v)
    BY <1>1, <2>1 DEF IInv, TypeOK, Phase, Has, WorkerStep, WorkerInit, WorkerWait, WorkerBegin,
                      WorkerExecute, WorkerRun, WorkerSet, WorkerFinish, WorkerCheck
  <2> QED
    BY <2>2 DEF Holding
<1>3. Tally' = Tally
  BY <1>1 DEF Tally, user, count
<1> QED
  BY <1>1, <1>2, <1>3, SameCount DEF user

(* The pool resets the count, and takes note of what was added before.  An *)
(* increment under way has loaded what the reset writes over.              *)
LEMMA ResetCounted == ASSUME IInv, Counted, UNCHANGED user, PoolReset PROVE Counted'
<1>1. /\ outstanding' = 0 /\ early' = Cardinality(added \ {adding}) /\ nulls' = nulls
      /\ undone' = IF adding \in added THEN outstanding ELSE 0
      /\ UNCHANGED <<lowQ, highQ, next, adding, added, loaded>>
      /\ pstate' = "READY" /\ ppc' = "loop" /\ Unset
  BY DEF PoolReset, queues, user, Unset
<1>2. Holding' = {}
  BY DEF IInv, Phase, PoolReset, Holding, Has, workers
<1>3. next' = NoCmd /\ lowQ \in Seq(Low) /\ highQ \in Seq(High) /\ outstanding \in Int
  BY <1>1 DEF IInv, TypeOK, Unset
<1>4. Cardinality(Holding') = 0 /\ Len(lowQ) \in Nat /\ Len(highQ) \in Nat
  BY <1>2, <1>3, FS_EmptySet, Lengths
<1>5. Pending' = Cardinality(added) /\ nulls' = 0
  BY <1>1, <1>3, <1>4 DEF Pending, Holding, Counted
<1>6. Cardinality(added) \in Nat
  BY FS_CardinalityType DEF IInv, Phase
<1>7. Tally' = Pending' - early' - nulls' + undone'
  <2>1. CASE adding \in added
    <3>1. early' = Cardinality(added) - 1
      BY <1>1, <2>1, FS_RemoveElement DEF IInv, Phase
    <3>2. Tally' = outstanding + 1 /\ undone' = outstanding
      BY <1>1, <2>1 DEF Tally, Counted
    <3> QED
      BY <1>3, <1>5, <1>6, <3>1, <3>2
  <2>2. CASE adding \notin added
    <3>1. added \ {adding} = added
      BY <2>2
    <3>2. early' = Cardinality(added) /\ Tally' = 0 /\ undone' = 0
      BY <1>1, <2>2, <3>1 DEF Tally
    <3> QED
      BY <1>5, <1>6, <3>2
  <2> QED
    BY <2>1, <2>2
<1> QED
  BY <1>1, <1>7 DEF Counted, Unset

(* The pool takes a command from the queues, gives it to a worker, and     *)
(* takes it back: only then is it counted off, unless it was none.         *)
LEMMA NextCounted == ASSUME IInv, Counted, UNCHANGED user, PoolNext PROVE Counted'
<1>1. /\ ppc = "offer" /\ ppc' = "assign" /\ next = NoCmd
      /\ UNCHANGED <<workers, pstate, at, count>>
      /\ lowQ \in Seq(Low) /\ highQ \in Seq(High)
  BY DEF IInv, TypeOK, PoolNext
<1>2. Holding' = Holding
  BY <1>1 DEF Holding, Has, workers
<1>3. next' # NoCmd /\ Len(lowQ') + Len(highQ') = Len(lowQ) + Len(highQ) - 1
  <2>1. CASE highQ # <<>> /\ next' = Head(highQ) /\ highQ' = Tail(highQ) /\ UNCHANGED lowQ
    <3>1. Head(highQ) \in High
      BY <1>1, <2>1
    <3> QED
      BY <1>1, <2>1, <3>1, Lengths, ThreadPoolAssumption DEF Cmd
  <2>2. CASE lowQ # <<>> /\ next' = Head(lowQ) /\ lowQ' = Tail(lowQ) /\ UNCHANGED highQ
    <3>1. Head(lowQ) \in Low
      BY <1>1, <2>2
    <3> QED
      BY <1>1, <2>2, <3>1, Lengths, ThreadPoolAssumption DEF Cmd
  <2> QED
    BY <2>1, <2>2 DEF PoolNext
<1>4. Cardinality(Holding) \in Nat /\ Len(lowQ) \in Nat /\ Len(highQ) \in Nat
  BY <1>1, Crew, Lengths DEF Holding
<1>5. Pending' = Pending
  <2>1. Len(lowQ') \in Nat /\ Len(highQ') \in Nat
    BY <1>1, Lengths DEF PoolNext
  <2>2. /\ Pending = Len(lowQ) + Len(highQ) + (IF next = NoCmd THEN 0 ELSE 1) + Cardinality(Holding)
        /\ Pending' = Len(lowQ') + Len(highQ') + (IF next' = NoCmd THEN 0 ELSE 1)
                       + Cardinality(Holding')
    BY DEF Pending, Holding
  <2>3. Pending = Len(lowQ) + Len(highQ) + Cardinality(Holding)
        /\ Pending' = Len(lowQ') + Len(highQ') + 1 + Cardinality(Holding)
    BY <1>1, <1>2, <1>3, <1>4, <2>1, <2>2
  <2> QED
    BY <1>3, <1>4, <2>1, <2>3
<1> QED
  BY <1>1, <1>5 DEF Counted, Ending, Unset, Tally, count, user

LEMMA StoreCounted == ASSUME IInv, Counted, UNCHANGED user, PoolStore PROVE Counted'
<1>1. /\ ppc = "store" /\ ppc' \in {"loop", "scan"} /\ next \in Cmd /\ next' = NoCmd
      /\ wcmd' = [wcmd EXCEPT ![at] = next] /\ wcmd \in [Worker -> Cmd \cup {NoCmd}]
      /\ at \in Worker /\ wstate[at] \in {"EXECUTE", "DONE"} /\ wstate' = wstate
      /\ UNCHANGED <<queues, pstate, count>>
  BY Advancing DEF IInv, TypeOK, Phase, PoolStore
<1>2. \A w \in Worker : Has(w)' <=> (Has(w) \/ w = at)
  BY <1>1, ThreadPoolAssumption DEF Has
<1>3. Holding' = Holding \cup {at} /\ at \notin Holding
  BY <1>1, <1>2 DEF Holding, Has
<1>4. /\ IsFiniteSet(Holding) /\ Cardinality(Holding) \in Nat
      /\ Cardinality(Holding') = Cardinality(Holding) + 1
  <2>1. IsFiniteSet(Holding) /\ Cardinality(Holding) \in Nat
    BY Crew DEF Holding
  <2> QED
    BY <1>3, <2>1, FS_AddElement
<1>5. Len(lowQ) \in Nat /\ Len(highQ) \in Nat
  BY Lengths DEF IInv, TypeOK
<1>6. next # NoCmd
  BY <1>1, ThreadPoolAssumption
<1>7. Pending' = Pending
  BY <1>1, <1>4, <1>5, <1>6 DEF Pending, Holding, queues
<1> QED
  BY <1>1, <1>7 DEF Counted, Ending, Unset, Tally, count, user

LEMMA CollectCounted == ASSUME IInv, Counted, UNCHANGED user, PoolCollect PROVE Counted'
<1>1. /\ ppc = "scan" /\ ppc' = "offer" /\ at \in Worker /\ wstate[at] = "DONE"
      /\ wstate' = [wstate EXCEPT ![at] = "READY"] /\ wstate \in [Worker -> WorkerStates]
      /\ outstanding' = outstanding - 1 /\ outstanding \in Int /\ nulls \in Nat /\ early \in Nat /\ undone \in Int
      /\ nulls' = IF wcmd[at] = NoCmd THEN nulls + 1 ELSE nulls
      /\ UNCHANGED <<lowQ, highQ, next, wcmd, pstate, at, early, undone, adding, added>>
      /\ adding \notin added
  BY ThreadPoolAssumption DEF IInv, TypeOK, PoolCollect, queues, user
<1>2. /\ \A w \in Worker : Has(w)' <=> (Has(w) /\ w # at)
      /\ Has(at) <=> wcmd[at] # NoCmd
  BY <1>1 DEF Has
<1>3. Holding' = Holding \ {at} /\ (at \in Holding <=> wcmd[at] # NoCmd)
  BY <1>1, <1>2 DEF Holding
<1>4. /\ Cardinality(Holding) \in Nat
      /\ Cardinality(Holding') = IF wcmd[at] # NoCmd THEN Cardinality(Holding) - 1
                                                     ELSE Cardinality(Holding)
  <2>1. IsFiniteSet(Holding) /\ Cardinality(Holding) \in Nat
    BY Crew DEF Holding
  <2> QED
    BY <1>3, <2>1, FS_RemoveElement
<1>5. Len(lowQ) \in Nat /\ Len(highQ) \in Nat
  BY Lengths DEF IInv, TypeOK
<1>6. /\ Pending = Len(lowQ) + Len(highQ) + (IF next = NoCmd THEN 0 ELSE 1) + Cardinality(Holding)
      /\ Pending' = Len(lowQ) + Len(highQ) + (IF next = NoCmd THEN 0 ELSE 1) + Cardinality(Holding')
  BY <1>1 DEF Pending, Holding
<1>7. ~Unset /\ outstanding = Pending - early - nulls + undone
  BY <1>1 DEF Counted, Ending, Unset, Tally
<1>8. outstanding' = Pending' - early' - nulls' + undone'
  <2> DEFINE rest == Len(lowQ) + Len(highQ) + (IF next = NoCmd THEN 0 ELSE 1)
             C == Cardinality(Holding)
  <2>1. /\ rest \in Nat /\ C \in Nat /\ Pending = rest + C
        /\ outstanding = (rest + C) - early - nulls + undone
    BY <1>4, <1>5, <1>6, <1>7
  <2> HIDE DEF rest, C
  <2>2. CASE wcmd[at] = NoCmd
    <3>1. Pending' = rest + C /\ nulls' = nulls + 1
      BY <1>1, <1>4, <1>6, <2>2 DEF rest, C
    <3> QED
      BY <1>1, <2>1, <3>1
  <2>3. CASE wcmd[at] # NoCmd
    <3>1. Pending' = rest + C - 1 /\ nulls' = nulls
      BY <1>1, <1>4, <1>5, <1>6, <2>3 DEF rest, C
    <3> QED
      BY <1>1, <2>1, <3>1
  <2> QED
    BY <2>2, <2>3
<1> QED
  BY <1>1, <1>7, <1>8 DEF Counted, Unset, Tally

LEMMA PoolCounted == ASSUME IInv, Counted, PoolStep PROVE Counted'
<1> USE DEF queues, workers, pool, Ending, Unset
<1>0. UNCHANGED user /\ (UNCHANGED outstanding => Tally' = Tally)
  BY DEF PoolStep, Tally, user
<1>1. CASE PoolLoop \/ PoolNotDone \/ PoolNotReady \/ PoolNoNext \/ PoolRace
  <2>1. /\ UNCHANGED <<lowQ, highQ, next, count, pstate, wcmd, wstate>>
        /\ ppc \in {"loop", "scan", "offer"}
        /\ ppc' \in {"loop", "scan", "offer"} \/ Ending'
    BY <1>1, Advancing DEF PoolLoop, PoolNotDone, PoolNotReady, PoolNoNext, PoolRace
  <2>2. Holding' = Holding \/ Ending'
    BY <2>1 DEF Holding, Has
  <2> QED
    BY <1>0, <2>1, <2>2, SameCount DEF user, count
<1>2. CASE PoolAssign
  <2>1. \A w \in Worker : Has(w)' <=> Has(w)
    BY <1>2 DEF IInv, TypeOK, Phase, Has, PoolAssign
  <2> QED
    BY <1>0, <1>2, <2>1, SameCount DEF PoolAssign, Holding, user, count
<1>3. CASE PoolInit
  BY <1>0, <1>3, SameCount DEF PoolInit, user, count
<1>4. CASE PoolEnd \/ PoolJoin
  <2>1. pstate' \in {pstate, "SHUTDOWN"} /\ Ending /\ Ending'
    BY <1>4 DEF PoolEnd, PoolJoin
  <2> QED
    BY <2>1 DEF Counted
<1> QED
  BY <1>0, <1>1, <1>2, <1>3, <1>4, ResetCounted, NextCounted, StoreCounted, CollectCounted
     DEF PoolStep

(* addCommand queues the command and loads the count, then stores it       *)
(* incremented.                                                            *)
LEMMA PushCounted == ASSUME IInv, Counted, AddPush PROVE Counted'
<1>1. /\ adding \in Cmd /\ adding \notin added /\ added' = added \cup {adding}
      /\ IsFiniteSet(added) /\ lowQ \in Seq(Low) /\ highQ \in Seq(High)
      /\ UNCHANGED <<next, wcmd, wstate, ppc, at, pstate, count, adding>>
      /\ outstanding \in Int /\ early \in Nat /\ nulls \in Nat /\ undone \in Int
      /\ loaded' = outstanding
  BY DEF IInv, TypeOK, Phase, AddPush, workers, pool
<1>2. Cardinality(added') = Cardinality(added) + 1 /\ Cardinality(added) \in Nat
  BY <1>1, FS_AddElement, FS_CardinalityType
<1>3. Len(lowQ') + Len(highQ') = Len(lowQ) + Len(highQ) + 1
  <2>0. Len(lowQ) \in Nat /\ Len(highQ) \in Nat
    BY <1>1, Lengths
  <2>1. CASE adding \in High
    <3>1. highQ' = Append(highQ, adding) /\ lowQ' = lowQ
      BY <2>1 DEF AddPush
    <3>2. Len(Append(highQ, adding)) = Len(highQ) + 1
      BY <1>1, <2>1, Lengths
    <3> QED
      BY <2>0, <3>1, <3>2
  <2>2. CASE adding \notin High
    <3>1. lowQ' = Append(lowQ, adding) /\ highQ' = highQ
      BY <2>2 DEF AddPush
    <3>2. adding \in Low
      BY <1>1, <2>2 DEF Cmd
    <3>3. Len(Append(lowQ, adding)) = Len(lowQ) + 1
      BY <1>1, <3>2, Lengths
    <3> QED
      BY <2>0, <3>1, <3>3
  <2> QED
    BY <2>1, <2>2
<1>4. Holding' = Holding /\ Cardinality(Holding) \in Nat
  BY <1>1, Crew DEF Holding, Has
<1>5. /\ Len(lowQ) \in Nat /\ Len(highQ) \in Nat
      /\ Len(lowQ') + Len(highQ') \in Nat
  BY <1>1, <1>3, Lengths
<1>6. /\ Pending = Len(lowQ) + Len(highQ) + (IF next = NoCmd THEN 0 ELSE 1) + Cardinality(Holding)
      /\ Pending' = Len(lowQ') + Len(highQ') + (IF next = NoCmd THEN 0 ELSE 1) + Cardinality(Holding)
  BY <1>1, <1>4 DEF Pending, Holding
<1>7. Pending' = Pending + 1 /\ Pending \in Int
  BY <1>3, <1>4, <1>5, <1>6
<1>8. Tally = outstanding /\ Tally' = outstanding + 1
  BY <1>1 DEF Tally
<1>9. /\ UNCHANGED <<outstanding, early, nulls, undone>>
      /\ Unset' = Unset /\ Ending' = Ending
  BY <1>1 DEF count, Unset, Ending
<1>10. Tally = Pending - early - nulls + undone => Tally' = Pending' - early' - nulls' + undone'
  BY <1>1, <1>7, <1>8, <1>9
<1> QED
  BY <1>1, <1>2, <1>3, <1>5, <1>9, <1>10 DEF Counted

LEMMA AddCounted == ASSUME IInv, Counted, AddCount PROVE Counted'
<1>1. /\ UNCHANGED <<lowQ, highQ, next, wcmd, wstate, ppc, at, pstate, early, nulls, undone, added>>
      /\ adding \in added /\ adding' \notin added
      /\ outstanding' = loaded + 1
  BY ThreadPoolAssumption DEF IInv, TypeOK, AddCount, queues, workers, pool
<1>2. Tally' = Tally
  BY <1>1 DEF Tally
<1>3. Holding' = Holding /\ Unset' = Unset /\ Ending' = Ending
  BY <1>1 DEF Holding, Has, Unset, Ending
<1>4. Pending' = Pending
  BY <1>1, <1>3 DEF Pending, Holding
<1> QED
  BY <1>1, <1>2, <1>3, <1>4 DEF Counted

LEMMA CountedStep == IInv /\ Counted /\ [Next]_vars => Counted'
<1> SUFFICES ASSUME IInv, Counted, [Next]_vars PROVE Counted'
  OBVIOUS
<1>1. ASSUME NEW w \in Worker, WorkerStep(w) PROVE Counted'
  BY <1>1, WorkerCounted
<1>2. CASE (\E c \in Cmd : AddBegin(c)) \/ Fetch \/ End \/ UNCHANGED vars
  <2>1. /\ UNCHANGED <<lowQ, highQ, next, count, added, pstate, ppc, wcmd, wstate, at>>
        /\ adding' \in added => adding \in added /\ loaded' = loaded
        /\ adding \in added => adding' = adding /\ loaded' = loaded
    BY <1>2, ThreadPoolAssumption DEF IInv, TypeOK, AddBegin, Fetch, End, vars, queues, workers,
                                      pool, user
  <2>2. Holding' = Holding /\ Ending' = Ending /\ Unset' = Unset
    BY <2>1 DEF Holding, Has, Ending, Unset
  <2>3. Tally' = Tally /\ Pending' = Pending
    BY <2>1, <2>2 DEF Tally, Pending, Holding, count
  <2> QED
    BY <2>1, <2>2, <2>3 DEF Counted, count
<1> QED
  BY <1>1, <1>2, PoolCounted, PushCounted, AddCounted DEF Next, User, AddEnd

LEMMA StartsCounted == Init => Counted
<1>1. Init => Cardinality(added) = 0 /\ Len(lowQ) + Len(highQ) = 0
  BY FS_EmptySet DEF Init
<1> QED
  BY <1>1 DEF Init, Counted, Unset

(* What getNumberUnfinishedCmd returns while the pool runs, for any number *)
(* of workers and commands and any garbage in the count: the commands      *)
(* pending, less what the reset of _state_init forgot, plus what an        *)
(* addCommand that met the reset put back.                                 *)
THEOREM Counts == Spec => []CountRight
<1>1. IInv /\ Counted => CountRight
  BY ThreadPoolAssumption DEF IInv, TypeOK, Counted, CountRight, Tally, Unset
<1> QED
  BY <1>1, StartsCounted, CountedStep, Invariant, PTL DEF Spec
===============================================================================
