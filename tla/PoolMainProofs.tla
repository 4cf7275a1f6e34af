---------------------------- MODULE PoolMainProofs ----------------------------
(***************************************************************************)
(* Proofs about Assignment3's main, for any number of workers, any         *)
(* commands, some of which may throw, and any garbage but DONE in the      *)
(* workers' state: main uses the pool as its module lets users do, and     *)
(* what it waits for is all it has added.  The strengthening follows main  *)
(* from statement to statement (Adding, Waited), and says that no worker   *)
(* has a null command to hand back (NoNull), which would be counted off.   *)
(* The last part is about what the commands compute: induction over the    *)
(* rounds of their loops is by the least element of a set of numbers.      *)
(***************************************************************************)
EXTENDS PoolMain, ThreadPoolProofs

(* Every step of main is one of a user of the pool, or none of it.         *)
LEMMA MainImplements == [MainNext]_mainVars => [Next]_vars
<1> SUFFICES ASSUME MainNext PROVE Next \/ UNCHANGED vars
  BY DEF mainVars
<1> USE DEF others, vars
<1>1. CASE MainSeesInit \/ MainSleeps \/ MainAddedAll \/ MainWaited \/ MainExits
  BY <1>1 DEF MainSeesInit, MainSleeps, MainAddedAll, MainWaited, MainExits
<1>2. CASE MainAdds
  <2>1. \E c \in Cmd : AddBegin(c)
    BY <1>2 DEF MainAdds, Left, Cmd
  <2> QED
    BY <2>1 DEF MainNext, Next, User
<1>3. CASE MainAddsPi
  <2>1. Pi \in Cmd /\ AddBegin(Pi)
    BY <1>3, PoolMainAssumption DEF MainAddsPi, Cmd
  <2> QED
    BY <2>1 DEF MainNext, Next, User
<1>4. CASE MainAdded \/ MainFetches \/ MainEnds \/ Others
  BY <1>4 DEF MainNext, MainAdded, MainFetches, MainEnds, Others, Next, User
<1> QED
  BY <1>1, <1>2, <1>3, <1>4 DEF MainNext, Main

(* Main uses the pool as module ThreadPool lets its users do.              *)
THEOREM MainUses == MainSpec => Spec
<1>1. MainInit => Init
  BY DEF MainInit
<1> QED
  BY <1>1, MainImplements, PTL DEF MainSpec, Spec

(* No command of main is lost or duplicated, ...                           *)
THEOREM MainLosesNothing == MainSpec => []InOnePlace
BY MainUses, NothingLost, PTL

(* ... and the number it polls is right.                                   *)
THEOREM MainCounts == MainSpec => []CountRight
BY MainUses, Counts, PTL
-------------------------------------------------------------------------------
Early == {"start", "sleep"}
Before == {"low", "high", "wait", "fetch", "pi"}
After == {"end", "join", "exited"}
Ordinary == Cmd \ {Pi}
Back == Returned \cup fetched

(* Nothing is added before the pool runs, nor the pool ended before main   *)
(* ends it.                                                                *)
Starting == /\ mpc \in Early \cup Before \cup {"waitPi", "crashed"} \cup After
            /\ mpc \in Early => added = {} /\ adding = NoCmd
            /\ mpc \notin Early => pstate # "INIT"
            /\ early = 0 /\ undone = 0
            /\ pstop => mpc \in {"join", "exited"}
            /\ Ending => pstop

(* A worker that has executed something has something to hand back.        *)
NoNull == /\ nulls = 0
          /\ ~broken => \A w \in Worker :
               wstate[w] = "DONE" \/ wpc[w] \in {"run", "set", "finish"} => wcmd[w] # NoCmd

(* What main has added.                                                    *)
Adding == /\ mpc \in Before => Pi \notin added /\ adding # Pi
          /\ mpc = "high" => Low \ {Pi} \subseteq added
          /\ mpc \in {"wait", "fetch", "pi", "waitPi"} \cup After => Ordinary \subseteq added
          /\ mpc \in {"fetch", "pi"} => adding = NoCmd
          /\ mpc = "waitPi" => adding = Pi \/ Pi \in added

(* What it has got back.                                                   *)
Waited == /\ mpc = "fetch" => Ordinary \subseteq Back
          /\ mpc \in {"pi", "waitPi"} \cup After => Ordinary \subseteq fetched
          /\ mpc \in After => Pi \in Returned
          /\ Pi \notin fetched

MInv == Starting /\ NoNull /\ Adding /\ Waited

Proper == LongSleep /\ "DONE" \notin FreshState

(* A count of zero says that everything that was added has come back.      *)
LEMMA ZeroIsAll ==
  ASSUME IInv, Counted, pstate # "INIT", ~Ending, early = 0, undone = 0, nulls = 0,
         adding = NoCmd, outstanding <= 0
  PROVE  added \subseteq Back
<1>1. outstanding = Pending - early - nulls + undone
  BY ThreadPoolAssumption DEF IInv, TypeOK, Counted, Unset, Tally
<1>2. Pending = Len(lowQ) + Len(highQ) + (IF next = NoCmd THEN 0 ELSE 1) + Cardinality(Holding)
  BY DEF Pending, Holding
<1>3. Len(lowQ) \in Nat /\ Len(highQ) \in Nat /\ Cardinality(Holding) \in Nat /\ outstanding \in Int
  BY Lengths, Crew DEF IInv, TypeOK, Holding
<1>4. Len(lowQ) = 0 /\ Len(highQ) = 0 /\ next = NoCmd /\ Cardinality(Holding) = 0
  BY <1>1, <1>2, <1>3
<1>5. Holding = {}
  BY <1>4, Crew, FS_EmptySet DEF Holding
<1>6. lowQ = <<>> /\ highQ = <<>>
  BY <1>4 DEF IInv, TypeOK
<1>7. Queued = {} /\ Giving = {} /\ Held = {}
  BY <1>4, <1>5, <1>6, Empty DEF Queued, Giving, Held, Holding
<1> QED
  BY <1>7 DEF IInv, InOnePlace, Everywhere, Back

(* What came back stays back.                                              *)
LEMMA StaysBack ==
  ASSUME IInv, [Next]_vars
  PROVE  \/ fetched' = fetched /\ Returned \subseteq Returned'
         \/ Fetch /\ fetched' = Back /\ Returned' = {}
<1> USE DEF queues, workers, pool, user
<1>1. CASE Fetch
  BY <1>1, Empty DEF Fetch, Back, Returned
<1>2. CASE PoolStep
  <2>1. CASE PoolCollect
    <3>1. finished \in Seq(Cmd \cup {NoCmd}) /\ wcmd[at] \in Cmd \cup {NoCmd}
      BY DEF IInv, TypeOK
    <3>2. ToSet(finished') = ToSet(finished) \cup {wcmd[at]}
      BY <2>1, <3>1, Pushed DEF PoolCollect
    <3> QED
      BY <1>2, <3>2 DEF Returned, PoolStep
  <2>2. CASE ~PoolCollect
    <3>1. UNCHANGED <<finished, fetched>>
      BY <1>2, <2>2 DEF PoolStep, PoolInit, PoolReset, PoolLoop, PoolNotDone, PoolNotReady, PoolNext,
                        PoolNoNext, PoolRace, PoolAssign, PoolStore, PoolEnd, PoolJoin
    <3> QED
      BY <3>1 DEF Returned
  <2> QED
    BY <2>1, <2>2
<1>3. CASE (\E w \in Worker : WorkerStep(w)) \/ (\E c \in Cmd : AddBegin(c)) \/ AddEnd \/ End
           \/ UNCHANGED vars
  <2>1. UNCHANGED <<finished, fetched>>
    BY <1>3 DEF WorkerStep, AddBegin, AddEnd, AddPush, AddCount, End, vars
  <2> QED
    BY <2>1 DEF Returned
<1> QED
  BY <1>1, <1>2, <1>3 DEF Next, User
-------------------------------------------------------------------------------
(* The threads of the pool.                                                *)
LEMMA OthersNoNull ==
  ASSUME Proper, IInv, NoNull, ~broken, Others
  PROVE  NoNull'
<1>1. /\ wstate \in [Worker -> WorkerStates] /\ wcmd \in [Worker -> Cmd \cup {NoCmd}]
      /\ wpc \in [Worker -> WorkerPlaces]
      /\ NoCmd \notin Cmd /\ at \in Worker /\ nulls = 0
      /\ \A w \in Worker :
           wstate[w] = "DONE" \/ wpc[w] \in {"run", "set", "finish"} => wcmd[w] # NoCmd
  BY ThreadPoolAssumption DEF IInv, TypeOK, NoNull, WorkerPlaces
<1>2. ASSUME NEW w \in Worker, WorkerStep(w) PROVE NoNull'
  <2> USE <1>1 DEF NoNull
  <2>0. nulls' = 0 /\ wcmd' = wcmd
    BY <1>2 DEF WorkerStep, WorkerInit, WorkerWait, WorkerBegin, WorkerExecute, WorkerRun,
                WorkerSet, WorkerFinish, WorkerCheck, count
  <2>1. CASE WorkerInit(w) \/ WorkerWait(w) \/ WorkerBegin(w)
    BY <2>0, <2>1 DEF WorkerInit, WorkerWait, WorkerBegin
  <2>2. CASE WorkerExecute(w) \/ WorkerRun(w) \/ WorkerSet(w)
    BY <2>0, <2>2 DEF WorkerExecute, WorkerRun, WorkerSet
  <2>3. CASE WorkerFinish(w) \/ WorkerCheck(w)
    BY <2>0, <2>3 DEF WorkerFinish, WorkerCheck
  <2> QED
    BY <1>2, <2>1, <2>2, <2>3 DEF WorkerStep
<1>3. ASSUME PoolStep PROVE NoNull'
  <2> USE <1>1 DEF NoNull, queues, workers, pool, count
  <2>1. CASE PoolInit
    <3>1. \A w \in Worker : wstate'[w] # "DONE" /\ wpc'[w] = "poll"
      BY <2>1 DEF PoolInit, Proper
    <3> QED
      BY <2>1, <3>1 DEF PoolInit
  <2>2. CASE PoolCollect
    BY <2>2 DEF PoolCollect
  <2>3. CASE PoolAssign
    BY <2>3 DEF PoolAssign
  <2>4. CASE PoolStore
    <3>1. next # NoCmd
      BY <2>4 DEF PoolStore, IInv, TypeOK
    <3> QED
      BY <2>4, <3>1 DEF PoolStore
  <2>5. CASE PoolReset \/ PoolLoop \/ PoolNotDone \/ PoolNotReady \/ PoolNext \/ PoolNoNext
             \/ PoolRace \/ PoolEnd \/ PoolJoin
    <3>1. UNCHANGED <<wstate, wcmd, wpc, nulls>>
      BY <2>5 DEF PoolReset, PoolLoop, PoolNotDone, PoolNotReady, PoolNext, PoolNoNext, PoolRace,
                  PoolEnd, PoolJoin
    <3> QED
      BY <3>1
  <2> QED
    BY <1>3, <2>1, <2>2, <2>3, <2>4, <2>5 DEF PoolStep
<1> QED
  BY <1>2, <1>3 DEF Others

LEMMA OthersStarting ==
  ASSUME Counted, Starting, Others
  PROVE  Starting' /\ UNCHANGED <<mpc, added, adding, fetched>>
<1>1. UNCHANGED <<mpc, added, adding, fetched, pstop>>
  BY DEF Others, PoolStep, WorkerStep, user
<1>2. CASE \E w \in Worker : WorkerStep(w)
  BY <1>1, <1>2 DEF WorkerStep, pool, count, Starting, Ending
<1>3. CASE PoolStep
  <2> USE DEF queues, workers, pool, count, Starting, Ending
  <2>1. CASE PoolReset
    <3>1. pstate = "INIT" /\ added = {} /\ added \ {adding} = {} /\ adding \notin added
      BY <2>1 DEF PoolReset, Counted, Unset
    <3>2. Cardinality(added \ {adding}) = 0
      BY <3>1, FS_EmptySet
    <3> QED
      BY <1>1, <2>1, <3>1, <3>2 DEF PoolReset
  <2>2. CASE PoolInit \/ PoolLoop \/ PoolEnd \/ PoolJoin
    BY <1>1, <2>2 DEF PoolInit, PoolLoop, PoolEnd, PoolJoin
  <2>3. CASE PoolNotDone \/ PoolCollect \/ PoolNotReady \/ PoolNext \/ PoolNoNext \/ PoolRace
             \/ PoolAssign \/ PoolStore
    <3>1. /\ pstate' = pstate /\ early' = early /\ undone' = undone
          /\ ppc' \in {"loop", "scan", "offer", "assign", "store", ppc}
      BY <2>3 DEF PoolNotDone, PoolCollect, PoolNotReady, PoolNext, PoolNoNext, PoolRace, PoolAssign,
                  PoolStore, Advance
    <3> QED
      BY <1>1, <3>1
  <2> QED
    BY <1>3, <2>1, <2>2, <2>3 DEF PoolStep
<1> QED
  BY <1>1, <1>2, <1>3 DEF Others

LEMMA OthersInv ==
  ASSUME Proper, IInv, Counted, MInv, ~broken, Others, [Next]_vars
  PROVE  MInv'
<1>1. NoNull' /\ Starting' /\ UNCHANGED <<mpc, added, adding, fetched>>
  BY OthersNoNull, OthersStarting DEF MInv
<1>2. Returned \subseteq Returned'
  BY <1>1, StaysBack DEF Back, IInv, InOnePlace
<1>3. Adding' /\ Waited'
  BY <1>1, <1>2 DEF MInv, Adding, Waited, Back
<1> QED
  BY <1>1, <1>3 DEF MInv
-------------------------------------------------------------------------------
(* Main.  Its steps leave the workers alone.                               *)
LEMMA NoNullKept == ASSUME NoNull, UNCHANGED <<nulls, broken, workers>> PROVE NoNull'
BY DEF NoNull, workers

LEMMA MainWaits == ASSUME IInv, Counted, MInv, MainWaited \/ MainFetches PROVE MInv'
<1> USE DEF others, queues, workers, pool, count, user
<1>1. CASE MainWaited
  <2>1. added \subseteq Back
    BY <1>1, ZeroIsAll DEF MainWaited, MInv, Starting, NoNull, Early, Before, After
  <2>2. UNCHANGED <<nulls, broken, workers, early, undone, added, adding, fetched, pstop, pstate, ppc,
                    finished>>
    BY <1>1 DEF MainWaited
  <2>3. Starting' /\ Adding'
    BY <1>1, <2>2 DEF MainWaited, MInv, Starting, Adding, Ending, Early, Before, After, Back
  <2>0. Back' = Back /\ Returned' = Returned
    BY <2>2 DEF Back, Returned
  <2>4. Waited'
    <3>1. CASE mpc = "wait"
      <4>1. mpc' = "fetch" /\ Ordinary \subseteq Back /\ Pi \notin fetched
        BY <1>1, <2>1, <3>1 DEF MainWaited, MInv, Adding, Waited
      <4> QED
        BY <2>0, <2>2, <4>1 DEF Waited, After
    <3>2. CASE mpc = "waitPi"
      <4>1. Pi \in added /\ adding = NoCmd
        BY <1>1, <3>2, PoolMainAssumption, ThreadPoolAssumption DEF MainWaited, MInv, Adding, Cmd
      <4>2. mpc' = "end" /\ Ordinary \subseteq fetched /\ Pi \in Returned /\ Pi \notin fetched
        BY <1>1, <2>1, <3>2, <4>1 DEF MainWaited, MInv, Waited, Back
      <4> QED
        BY <2>0, <2>2, <4>2 DEF Waited, After
    <3> QED
      BY <1>1, <3>1, <3>2 DEF MainWaited
  <2> QED
    BY <2>2, <2>3, <2>4, NoNullKept DEF MInv
<1>2. CASE MainFetches
  <2>1. /\ mpc = "fetch" /\ mpc' \in {"pi", "crashed"} /\ adding = NoCmd /\ fetched' = Back
        /\ UNCHANGED <<nulls, broken, workers, early, undone, added, adding, pstop, pstate, ppc>>
    BY <1>2 DEF MainFetches, Fetch, Back
  <2>2. Starting' /\ Adding'
    BY <2>1 DEF MInv, Starting, Adding, Ending, Early, Before, After
  <2>3. Pi \notin Back
    BY <2>1 DEF MInv, Adding, Before, Back, IInv, InOnePlace, Everywhere
  <2>4. Waited'
    BY <2>1, <2>3 DEF MInv, Waited, After
  <2> QED
    BY <2>1, <2>2, <2>4, NoNullKept DEF MInv
<1> QED
  BY <1>1, <1>2

LEMMA MainInv == ASSUME Proper, IInv, Counted, MInv, Main PROVE MInv'
<1> USE DEF others, queues, workers, pool, count, user
<1>1. CASE MainSeesInit \/ MainSleeps \/ MainAddedAll \/ MainEnds \/ MainExits
  <2>1. UNCHANGED <<nulls, broken, workers, early, undone, added, adding, fetched, pstate, ppc, finished>>
    BY <1>1 DEF MainSeesInit, MainSleeps, MainAddedAll, MainEnds, MainExits, End
  <2>2. Starting'
    BY <1>1, <2>1 DEF MainSeesInit, MainSleeps, MainAddedAll, MainEnds, MainExits, End, Proper,
                      MInv, Starting, Ending, Early, Before, After
  <2>3. Adding'
    <3>1. CASE MainSeesInit \/ MainSleeps
      BY <2>1, <3>1, PoolMainAssumption, ThreadPoolAssumption
         DEF MainSeesInit, MainSleeps, MInv, Starting, Adding, Early, Before, After, Cmd
    <3>2. CASE MainAddedAll
      BY <2>1, <3>2 DEF MainAddedAll, Left, MInv, Adding, Before, After, Ordinary, Cmd
    <3>3. CASE MainEnds \/ MainExits
      BY <2>1, <3>3 DEF MainEnds, MainExits, MInv, Adding, Before, After
    <3> QED
      BY <1>1, <3>1, <3>2, <3>3
  <2>4. Waited'
    <3>1. Returned' = Returned /\ fetched' = fetched
      BY <2>1 DEF Returned
    <3>2. \/ mpc' \in {"sleep", "low", "high", "wait"}
          \/ mpc \in After /\ mpc' \in After
      BY <1>1 DEF MainSeesInit, MainSleeps, MainAddedAll, MainEnds, MainExits, After
    <3> QED
      BY <3>1, <3>2 DEF MInv, Waited, After
  <2> QED
    BY <2>1, <2>2, <2>3, <2>4, NoNullKept DEF MInv
<1>2. CASE MainAdds \/ MainAddsPi
  <2>1. PICK c \in Cmd : /\ AddBegin(c)
                         /\ \/ c # Pi /\ mpc \in {"low", "high"} /\ mpc' = mpc
                            \/ c = Pi /\ mpc = "pi" /\ mpc' = "waitPi"
    <3>1. Pi \in Low /\ Pi \notin High
      BY PoolMainAssumption, ThreadPoolAssumption
    <3>2. CASE MainAdds
      <4>1. PICK c \in Left : AddBegin(c)
        BY <3>2 DEF MainAdds
      <4>2. c \in Cmd /\ c # Pi
        BY <3>1, <4>1 DEF Left, Cmd
      <4> QED
        BY <3>2, <4>1, <4>2 DEF MainAdds
    <3>3. CASE MainAddsPi
      BY <3>1, <3>3 DEF MainAddsPi, Cmd
    <3> QED
      BY <1>2, <3>2, <3>3
  <2>2. UNCHANGED <<nulls, broken, workers, early, undone, added, fetched, pstop, pstate, ppc, finished>>
        /\ adding' = c
    BY <2>1 DEF AddBegin
  <2>3. Starting' /\ Adding' /\ Waited'
    BY <2>1, <2>2 DEF MInv, Starting, Adding, Waited, Ending, Early, Before, After, Returned, Back
  <2> QED
    BY <2>2, <2>3, NoNullKept DEF MInv
<1>3. CASE MainAdded
  <2>1. /\ adding # NoCmd /\ mpc' = mpc /\ added' = added \cup {adding}
        /\ adding' = adding \/ adding' = NoCmd
        /\ UNCHANGED <<nulls, broken, workers, early, undone, fetched, pstop, pstate, ppc, finished>>
    BY <1>3, ThreadPoolAssumption DEF IInv, TypeOK, MainAdded, AddEnd, AddPush, AddCount
  <2>2. NoCmd # Pi
    BY PoolMainAssumption, ThreadPoolAssumption DEF Cmd
  <2>3. Starting' /\ Adding' /\ Waited'
    BY <2>1, <2>2 DEF MInv, Starting, Adding, Waited, Ending, Early, Before, After, Returned, Back
  <2> QED
    BY <2>1, <2>3, NoNullKept DEF MInv
<1> QED
  BY <1>1, <1>2, <1>3, MainWaits DEF Main

LEMMA MainStep == Proper /\ IInv /\ Counted /\ MInv /\ [MainNext]_mainVars => MInv'
<1> SUFFICES ASSUME Proper, IInv, Counted, MInv, [MainNext]_mainVars PROVE MInv'
  OBVIOUS
<1>1. CASE UNCHANGED mainVars
  <2>1. UNCHANGED <<vars, mpc>>
    BY <1>1 DEF mainVars
  <2> QED
    BY <2>1 DEF vars, queues, workers, pool, count, user, MInv, Starting, NoNull, Adding, Waited, Ending,
                Back, Returned
<1>2. CASE MainNext
  BY <1>2, MainImplements, MainInv, OthersInv DEF MainNext
<1> QED
  BY <1>1, <1>2

LEMMA MainStarts == Proper /\ MainInit => MInv
<1> SUFFICES ASSUME Proper, MainInit PROVE MInv
  OBVIOUS
<1> USE DEF MainInit, Init
<1>1. Starting
  BY DEF Starting, Early, Before, After, Ending
<1>2. NoNull
  BY DEF NoNull
<1>3. Adding /\ Waited
  BY DEF Adding, Waited, Before, After
<1> QED
  BY <1>1, <1>2, <1>3 DEF MInv

(* Main's invariant, when its second of sleep is enough for the pool to    *)
(* start and no worker is born DONE.                                       *)
THEOREM MainInvariant == ASSUME Proper PROVE MainSpec => []MInv
<1>1. MainInit => MInv
  BY MainStarts
<1>2. IInv /\ Counted /\ MInv /\ [MainNext]_mainVars => MInv'
  BY MainStep
<1>3. Spec => []IInv
  BY Invariant
<1>4. Spec => []Counted
  BY StartsCounted, CountedStep, Invariant, PTL DEF Spec
<1> QED
  BY <1>1, <1>2, <1>3, <1>4, MainUses, PTL DEF MainSpec

(* What main estimates Pi from is the result of all the commands it added: *)
(* the number it polls is zero only when all of them have come back.       *)
THEOREM NoneForgotten == ASSUME Proper PROVE MainSpec => []AllFetched
<1>1. MInv => AllFetched
  BY DEF MInv, Waited, After, AllFetched, Ordinary, Cmd
<1> QED
  BY <1>1, MainInvariant, PTL

(* ... and the estimate is there when main prints it.                      *)
THEOREM EstimateReturned == ASSUME Proper PROVE MainSpec => []PiReturned
<1>1. MInv => PiReturned
  BY DEF MInv, Waited, After, PiReturned
<1> QED
  BY <1>1, MainInvariant, PTL
-------------------------------------------------------------------------------
(* A nonempty set of natural numbers has a least element.                  *)
LEMMA LeastNat ==
  ASSUME NEW T \in SUBSET Nat, T # {}
  PROVE  \E x \in T : \A y \in T : x <= y
<1> DEFINE R == {p \in Nat \X Nat : p[1] < p[2]}
<1>1. IsWellFoundedOn(R, Nat)
  BY NatLessThanWellFounded DEF OpToRel
<1> HIDE DEF R
<1>2. PICK x \in T : \A y \in T : <<y, x>> \notin R
  BY <1>1, WFMin
<1>3. \A y \in T : ~(y < x)
  BY <1>2 DEF R
<1> QED
  BY <1>3

(* Hence induction over the numbers, as a fact about sets, ...             *)
LEMMA SetInduction ==
  ASSUME NEW S \in SUBSET Nat, 0 \in S, \A n \in S : n + 1 \in S
  PROVE  S = Nat
<1> SUFFICES ASSUME Nat \ S # {} PROVE FALSE
  OBVIOUS
<1>1. PICK x \in Nat \ S : \A y \in Nat \ S : x <= y
  BY LeastNat
<1>2. x # 0 /\ x - 1 \in Nat
  BY <1>1
<1>3. x - 1 \in S
  BY <1>1, <1>2
<1>4. x - 1 + 1 = x
  BY <1>1
<1> QED
  BY <1>1, <1>3, <1>4

(* ... and that an operation can be iterated.                              *)
LEMMA Iterated ==
  ASSUME NEW V, NEW start \in V, NEW F \in [V -> V]
  PROVE  \E f \in [Nat -> V] : f[0] = start /\ \A n \in Nat : f[n + 1] = F[f[n]]
<1> DEFINE Runs(n) == {g \in [0..n -> V] : g[0] = start /\ \A i \in 0..(n - 1) : g[i + 1] = F[g[i]]}
           Longer == {n \in Nat : Runs(n) # {}}
           Same == {i \in Nat : \A n, m \in Nat : i <= n /\ i <= m =>
                                  \A g \in Runs(n), h \in Runs(m) : g[i] = h[i]}
<1>1. Longer = Nat
  <2>1. 0 \in Longer
    <3>1. [i \in 0..0 |-> start] \in Runs(0)
      OBVIOUS
    <3> QED
      BY <3>1
  <2>2. ASSUME NEW n \in Longer PROVE n + 1 \in Longer
    <3>1. PICK g \in [0..n -> V] : g[0] = start /\ \A i \in 0..(n - 1) : g[i + 1] = F[g[i]]
      OBVIOUS
    <3> DEFINE h == [i \in 0..(n + 1) |-> IF i <= n THEN g[i] ELSE F[g[n]]]
    <3>2. n \in Nat /\ 0 \in 0..(n + 1) /\ n \in 0..n /\ \A i \in 0..n : i \in 0..(n + 1) /\ i <= n
          /\ i + 1 \in 0..(n + 1)
      OBVIOUS
    <3>3. h \in [0..(n + 1) -> V]
      BY <3>1
    <3>4. h[0] = start
      BY <3>1, <3>2
    <3>5. ASSUME NEW i \in 0..n PROVE h[i + 1] = F[h[i]]
      <4>1. CASE i = n
        BY <3>2, <4>1
      <4>2. CASE i # n
        <5>1. i \in 0..(n - 1) /\ i + 1 \in 0..n
          BY <3>2, <4>2
        <5> QED
          BY <3>1, <3>2, <5>1
      <4> QED
        BY <4>1, <4>2
    <3>6. n + 1 - 1 = n
      BY <3>2
    <3> HIDE DEF h
    <3>7. h \in Runs(n + 1)
      BY <3>3, <3>4, <3>5, <3>6
    <3> QED
      BY <3>2, <3>7
  <2> HIDE DEF Longer
  <2>3. Longer \in SUBSET Nat
    BY DEF Longer
  <2> QED
    BY <2>1, <2>2, <2>3, SetInduction
<1>2. Same = Nat
  <2>1. 0 \in Same
    OBVIOUS
  <2>2. ASSUME NEW i \in Same PROVE i + 1 \in Same
    <3> SUFFICES ASSUME NEW n \in Nat, NEW m \in Nat, i + 1 <= n, i + 1 <= m,
                        NEW g \in Runs(n), NEW h \in Runs(m)
                 PROVE  g[i + 1] = h[i + 1]
      OBVIOUS
    <3>1. i \in 0..(n - 1) /\ i \in 0..(m - 1) /\ i <= n /\ i <= m
      OBVIOUS
    <3>2. g[i] = h[i]
      <4> HIDE DEF Runs
      <4> QED
        BY <3>1
    <3> QED
      BY <3>1, <3>2
  <2> HIDE DEF Same
  <2>3. Same \in SUBSET Nat
    BY DEF Same
  <2> QED
    BY <2>1, <2>2, <2>3, SetInduction
<1> DEFINE run(n) == CHOOSE g : g \in Runs(n)
           f == [n \in Nat |-> run(n)[n]]
<1>3. ASSUME NEW n \in Nat PROVE run(n) \in Runs(n)
  <2>1. \E g : g \in Runs(n)
    BY <1>1
  <2> HIDE DEF Runs
  <2> QED
    BY <2>1
<1> HIDE DEF run
<1>4. f \in [Nat -> V] /\ f[0] = start
  <2>1. \A n \in Nat : run(n)[n] \in V /\ run(n)[0] = start
    BY <1>3
  <2> QED
    BY <2>1
<1>5. ASSUME NEW n \in Nat PROVE f[n + 1] = F[f[n]]
  <2>1. f[n + 1] = run(n + 1)[n + 1] /\ f[n] = run(n)[n]
    OBVIOUS
  <2>2. run(n + 1)[n + 1] = F[run(n + 1)[n]]
    <3>1. n \in 0..(n + 1 - 1)
      OBVIOUS
    <3> QED
      BY <1>3, <3>1
  <2>3. run(n + 1)[n] = run(n)[n]
    <3>1. n \in Same
      <4> HIDE DEF Same
      <4> QED
        BY <1>2
    <3>2. n + 1 \in Nat /\ n <= n /\ n <= n + 1
      OBVIOUS
    <3> HIDE DEF Runs
    <3>3. run(n) \in Runs(n) /\ run(n + 1) \in Runs(n + 1)
      BY <1>3, <3>2
    <3> QED
      BY <3>1, <3>2, <3>3
  <2> QED
    BY <2>1, <2>2, <2>3
<1> QED
  BY <1>4, <1>5

(* The two sums of the loop of FibonacciCommand.                           *)
Pairs == Nat \X Nat

(* Rounds exists, which its definition alone does not say, and counts the  *)
(* rounds of the loop.                                                     *)
LEMMA RoundsFacts ==
  /\ Rounds \in [Nat -> Pairs] /\ Rounds[0] = <<0, 1>>
  /\ \A n \in Nat : Rounds[n + 1] = <<Rounds[n][2], Rounds[n][1] + Rounds[n][2]>>
<1> DEFINE Sum == [p \in Pairs |-> <<p[2], p[1] + p[2]>>]
           Equation(f) == f = [i \in Nat |-> IF i = 0 THEN <<0, 1>>
                                 ELSE LET last == f[i - 1] IN <<last[2], last[1] + last[2]>>]
<1>1. Sum \in [Pairs -> Pairs] /\ <<0, 1>> \in Pairs
  BY DEF Pairs
<1> HIDE DEF Sum
<1>2. PICK f \in [Nat -> Pairs] : f[0] = <<0, 1>> /\ \A n \in Nat : f[n + 1] = Sum[f[n]]
  <2> DEFINE start == <<0, 1>>
  <2>1. start \in Pairs
    BY <1>1
  <2> HIDE DEF start
  <2>2. Sum \in [Pairs -> Pairs]
    BY <1>1
  <2> HIDE DEF Equation
  <2>3. \E f \in [Nat -> Pairs] : f[0] = start /\ \A n \in Nat : f[n + 1] = Sum[f[n]]
    <3>1. \A a \in Pairs : \A F \in [Pairs -> Pairs] :
            \E f \in [Nat -> Pairs] : f[0] = a /\ \A n \in Nat : f[n + 1] = F[f[n]]
      BY Iterated
    <3> QED
      BY ONLY <2>1, <2>2, <3>1
  <2> QED
    BY <2>3 DEF start
<1>3. Equation(f)
  <2>1. ASSUME NEW i \in Nat \ {0} PROVE f[i] = <<f[i - 1][2], f[i - 1][1] + f[i - 1][2]>>
    <3>1. i - 1 \in Nat /\ i - 1 + 1 = i
      OBVIOUS
    <3>2. f[i] = Sum[f[i - 1]] /\ f[i - 1] \in Pairs
      BY <1>2, <3>1
    <3> QED
      BY <3>2 DEF Sum
  <2> QED
    BY <1>2, <2>1
<1>4. Rounds = CHOOSE g : Equation(g)
  BY DEF Rounds
<1> HIDE DEF Equation
<1>5. Equation(Rounds)
  BY <1>3, <1>4
<1>6. /\ Rounds = [i \in Nat |-> Rounds[i]] /\ Rounds[0] = <<0, 1>>
      /\ \A n \in Nat : Rounds[n + 1] = <<Rounds[n][2], Rounds[n][1] + Rounds[n][2]>>
  <2>1. Rounds = [i \in Nat |-> IF i = 0 THEN <<0, 1>>
                     ELSE LET last == Rounds[i - 1] IN <<last[2], last[1] + last[2]>>]
    BY <1>5 DEF Equation
  <2> DEFINE R == Rounds
  <2>2. R = [i \in Nat |-> IF i = 0 THEN <<0, 1>>
                     ELSE LET last == R[i - 1] IN <<last[2], last[1] + last[2]>>]
    BY <2>1
  <2> HIDE DEF R
  <2>3. /\ R = [i \in Nat |-> R[i]] /\ R[0] = <<0, 1>>
        /\ \A n \in Nat : R[n + 1] = <<R[n][2], R[n][1] + R[n][2]>>
    <3>1. \A n \in Nat : n + 1 \in Nat /\ n + 1 # 0 /\ n + 1 - 1 = n
      OBVIOUS
    <3> QED
      BY <2>2, <3>1
  <2> QED
    BY <2>3 DEF R
<1>7. {n \in Nat : Rounds[n] \in Pairs} = Nat
  <2> DEFINE S == {n \in Nat : Rounds[n] \in Pairs}
  <2>1. 0 \in S
    BY <1>6 DEF Pairs
  <2>4. ASSUME NEW n \in S PROVE n + 1 \in S
    <3>1. Rounds[n + 1] = <<Rounds[n][2], Rounds[n][1] + Rounds[n][2]>>
      BY <1>6
    <3>2. Rounds[n][1] \in Nat /\ Rounds[n][2] \in Nat
      BY DEF Pairs
    <3>3. Rounds[n + 1] \in Pairs
      <4> HIDE DEF S
      <4> QED
        BY <3>1, <3>2 DEF Pairs
    <3> QED
      BY <3>3
  <2>2. S \in SUBSET Nat
    OBVIOUS
  <2> HIDE DEF S
  <2>3. S = Nat
    BY <2>1, <2>2, <2>4, SetInduction
  <2> QED
    BY <2>3 DEF S
<1>8. \A n \in Nat : Rounds[n] \in Pairs
  BY <1>7
<1> QED
  BY <1>6, <1>8

(* The Fibonacci numbers exist, too.                                       *)
LEMMA NumberFacts ==
  /\ FibonacciNumber[0] = 1 /\ FibonacciNumber[1] = 1
  /\ \A n \in Nat : FibonacciNumber[n + 2] = FibonacciNumber[n + 1] + FibonacciNumber[n]
<1> DEFINE Equation(f) == f = [n \in Nat |-> IF n <= 1 THEN 1 ELSE f[n - 1] + f[n - 2]]
           h == [n \in Nat |-> Rounds[n][2]]
<1>1. /\ h[0] = 1 /\ h[1] = 1
      /\ \A n \in Nat : h[n + 2] = h[n + 1] + h[n]
  <2>1. \A n \in Nat : n + 1 \in Nat /\ n + 2 \in Nat /\ n + 1 + 1 = n + 2 /\ Rounds[n] \in Pairs
    BY RoundsFacts
  <2>2. 0 + 1 = 1 /\ Rounds[1] = <<1, 1>>
    BY RoundsFacts
  <2>3. ASSUME NEW n \in Nat PROVE Rounds[n + 2][2] = Rounds[n + 1][2] + Rounds[n][2]
    <3>1. Rounds[n + 2] = <<Rounds[n + 1][2], Rounds[n + 1][1] + Rounds[n + 1][2]>>
      BY <2>1, RoundsFacts
    <3>2. Rounds[n + 1][1] = Rounds[n][2]
      BY RoundsFacts
    <3>3. Rounds[n][2] \in Nat /\ Rounds[n + 1][2] \in Nat
      BY <2>1 DEF Pairs
    <3> QED
      BY <3>1, <3>2, <3>3
  <2> QED
    BY <2>1, <2>2, <2>3, RoundsFacts
<1>2. Equation(h)
  <2> HIDE DEF h
  <2>1. h = [n \in Nat |-> h[n]]
    BY DEF h
  <2>2. ASSUME NEW n \in Nat PROVE h[n] = IF n <= 1 THEN 1 ELSE h[n - 1] + h[n - 2]
    <3>1. CASE n <= 1
      BY <1>1, <3>1
    <3>2. CASE n > 1
      <4>1. n - 2 \in Nat /\ n - 2 + 2 = n /\ n - 2 + 1 = n - 1
        BY <3>2
      <4> QED
        BY <1>1, <3>2, <4>1
    <3> QED
      BY <3>1, <3>2
  <2> QED
    BY <2>1, <2>2
<1> HIDE DEF h
<1>3. FibonacciNumber = CHOOSE g : Equation(g)
  BY DEF FibonacciNumber
<1> HIDE DEF Equation
<1>4. Equation(FibonacciNumber)
  BY <1>2, <1>3
<1> DEFINE F == FibonacciNumber
<1>5. F = [n \in Nat |-> IF n <= 1 THEN 1 ELSE F[n - 1] + F[n - 2]]
  BY <1>4 DEF Equation
<1> HIDE DEF F
<1>6. F[0] = 1 /\ F[1] = 1 /\ \A n \in Nat : F[n + 2] = F[n + 1] + F[n]
  <2>1. \A n \in Nat : n + 2 \in Nat /\ ~(n + 2 <= 1) /\ n + 2 - 1 = n + 1 /\ n + 2 - 2 = n
    OBVIOUS
  <2> QED
    BY <1>5, <2>1
<1> QED
  BY <1>6 DEF F

(* The loop of FibonacciCommand computes the Fibonacci numbers, after any  *)
(* number of rounds.                                                       *)
THEOREM FibonacciRight == \A n \in Nat : Fibonacci(n) = FibonacciNumber[n]
<1> DEFINE S == {n \in Nat : /\ Rounds[n][2] = FibonacciNumber[n]
                             /\ Rounds[n + 1][2] = FibonacciNumber[n + 1]}
<1>1. 0 \in S
  <2>1. 0 + 1 = 1 /\ Rounds[1] = <<1, 1>>
    BY RoundsFacts
  <2> QED
    BY <2>1, RoundsFacts, NumberFacts
<1>2. ASSUME NEW n \in S PROVE n + 1 \in S
  <2>1. n \in Nat /\ n + 1 \in Nat /\ n + 1 + 1 = n + 2
    OBVIOUS
  <2>2. Rounds[n + 2] = <<Rounds[n + 1][2], Rounds[n + 1][1] + Rounds[n + 1][2]>>
        /\ Rounds[n + 1][1] = Rounds[n][2]
    BY <2>1, RoundsFacts
  <2>3. Rounds[n][2] \in Nat /\ Rounds[n + 1][2] \in Nat
    BY <2>1, RoundsFacts DEF Pairs
  <2>4. Rounds[n + 2][2] = Rounds[n + 1][2] + Rounds[n][2]
    BY <2>2, <2>3
  <2>5. FibonacciNumber[n + 2] = FibonacciNumber[n + 1] + FibonacciNumber[n]
    BY <2>1, NumberFacts
  <2> QED
    BY <2>1, <2>4, <2>5
<1>3. S \in SUBSET Nat
  OBVIOUS
<1> HIDE DEF S
<1>4. S = Nat
  BY <1>1, <1>2, <1>3, SetInduction
<1> QED
  BY <1>4 DEF S, Fibonacci

(* PrimeNumberCountCommand tries the divisors up to half of a number only, *)
(* which tells whether it is prime, for every number.                      *)
THEOREM PrimeRight == \A n \in Nat : IsPrime(n) <=> Prime(n)
<1> TAKE n \in Nat
<1> DEFINE D == {d \in 1..n : n % d = 0}
<1>1. IsFiniteSet(D)
  <2>1. IsFiniteSet(1..n)
    BY FS_Interval
  <2> QED
    BY <2>1, FS_Subset
<1>2. CASE n = 0
  <2>1. D = {}
    BY <1>2
  <2> QED
    BY <1>2, <2>1, FS_EmptySet DEF IsPrime, Prime
<1>3. CASE n = 1
  <2>1. Cardinality(D) <= 1
    <3>1. D \subseteq {1} /\ IsFiniteSet({1}) /\ Cardinality({1}) = 1
      BY <1>3, FS_Singleton
    <3> QED
      BY <3>1, FS_Subset
  <2> QED
    BY <1>1, <1>3, <2>1, FS_CardinalityType DEF IsPrime, Prime
<1>4. CASE n >= 2
  <2>1. n % 1 = 0 /\ n % n = 0 /\ 1 \in D /\ n \in D /\ 1 # n
    BY <1>4
  <2>2. IsFiniteSet({1, n}) /\ Cardinality({1, n}) = 2
    <3>1. IsFiniteSet({1}) /\ Cardinality({1}) = 1
      BY FS_Singleton
    <3>2. {1, n} = {1} \cup {n} /\ n \notin {1}
      BY <2>1
    <3> QED
      BY <3>1, <3>2, FS_AddElement
  <2>3. ASSUME IsPrime(n) PROVE Prime(n)
    <3>1. ASSUME NEW d \in D, d # 1, d # n PROVE FALSE
      <4>1. d \in 2..(n - 1) /\ n % d = 0
        BY <3>1
      <4>2. CASE d <= n \div 2
        <5>1. d \in 2..(n \div 2)
          BY <4>1, <4>2
        <5> QED
          BY <2>3, <4>1, <5>1 DEF IsPrime
      <4>3. CASE d > n \div 2
        <5>1. n < 2 * d /\ d < n
          BY <1>4, <4>1, <4>3
        <5>2. n % d = n - d
          BY <4>1, <5>1
        <5> QED
          BY <4>1, <5>1, <5>2
      <4> QED
        BY <4>1, <4>2, <4>3
    <3>2. D = {1, n}
      BY <2>1, <3>1
    <3> QED
      BY <2>2, <3>2 DEF Prime
  <2>4. ASSUME Prime(n) PROVE IsPrime(n)
    <3>1. D = {1, n}
      <4>1. {1, n} \in SUBSET D /\ Cardinality(D) = 2
        BY <2>1, <2>4 DEF Prime
      <4> HIDE DEF D
      <4> QED
        BY <1>1, <2>2, <4>1, FS_Subset
    <3>2. ASSUME NEW i \in 2..(n \div 2) PROVE n % i # 0
      <4>1. n \div 2 < n
        BY <1>4
      <4>2. i \in 1..n /\ i # 1 /\ i # n
        BY <1>4, <4>1
      <4> QED
        BY <3>1, <4>2
    <3> QED
      BY <1>4, <3>2 DEF IsPrime
  <2> QED
    BY <2>3, <2>4
<1> QED
  BY <1>2, <1>3, <1>4

(* No sum of FibonacciCommand overflows an int for an argument up to       *)
(* IntRounds, which is the bound main is assumed to keep.                  *)
THEOREM SumsFit == \A n \in 0..IntRounds : Fibonacci(n) <= 2147483647
<1> DEFINE F == FibonacciNumber
<1>1. \A n \in Nat : F[n + 2] = F[n + 1] + F[n]
  BY NumberFacts
<1>2. \A n \in Nat : F[n] \in Nat /\ F[n] <= F[n + 1]
  <2>1. \A n \in Nat : Rounds[n][2] = F[n]
    BY FibonacciRight DEF Fibonacci
  <2> HIDE DEF F
  <2>2. ASSUME NEW n \in Nat PROVE F[n] \in Nat /\ F[n] <= F[n + 1]
    <3>1. Rounds[n + 1] = <<Rounds[n][2], Rounds[n][1] + Rounds[n][2]>>
      BY RoundsFacts
    <3>2. Rounds[n][1] \in Nat /\ Rounds[n][2] \in Nat
      BY RoundsFacts DEF Pairs
    <3>3. n + 1 \in Nat /\ F[n] = Rounds[n][2] /\ F[n + 1] = Rounds[n + 1][2]
      BY <2>1
    <3> QED
      BY <3>1, <3>2, <3>3
  <2> QED
    BY <2>2
<1> HIDE DEF F
<1>3. F[44] = 1134903170 /\ F[45] = 1836311903
  <2>0. F[0] = 1 /\ F[1] = 1
    BY NumberFacts, SMT DEF F
  <2>1. F[4] = 5 /\ F[5] = 8
    <3>1. F[2] = F[1] + F[0] /\ F[3] = F[2] + F[1]
          /\ F[4] = F[3] + F[2] /\ F[5] = F[4] + F[3]
      BY <1>1, SMT
    <3> QED
      BY <2>0, <3>1, SMT
  <2>2. F[8] = 34 /\ F[9] = 55
    <3>1. F[6] = F[5] + F[4] /\ F[7] = F[6] + F[5]
          /\ F[8] = F[7] + F[6] /\ F[9] = F[8] + F[7]
      BY <1>1, SMT
    <3> QED
      BY <2>1, <3>1, SMT
  <2>3. F[12] = 233 /\ F[13] = 377
    <3>1. F[10] = F[9] + F[8] /\ F[11] = F[10] + F[9]
          /\ F[12] = F[11] + F[10] /\ F[13] = F[12] + F[11]
      BY <1>1, SMT
    <3> QED
      BY <2>2, <3>1, SMT
  <2>4. F[16] = 1597 /\ F[17] = 2584
    <3>1. F[14] = F[13] + F[12] /\ F[15] = F[14] + F[13]
          /\ F[16] = F[15] + F[14] /\ F[17] = F[16] + F[15]
      BY <1>1, SMT
    <3> QED
      BY <2>3, <3>1, SMT
  <2>5. F[20] = 10946 /\ F[21] = 17711
    <3>1. F[18] = F[17] + F[16] /\ F[19] = F[18] + F[17]
          /\ F[20] = F[19] + F[18] /\ F[21] = F[20] + F[19]
      BY <1>1, SMT
    <3> QED
      BY <2>4, <3>1, SMT
  <2>6. F[24] = 75025 /\ F[25] = 121393
    <3>1. F[22] = F[21] + F[20] /\ F[23] = F[22] + F[21]
          /\ F[24] = F[23] + F[22] /\ F[25] = F[24] + F[23]
      BY <1>1, SMT
    <3> QED
      BY <2>5, <3>1, SMT
  <2>7. F[28] = 514229 /\ F[29] = 832040
    <3>1. F[26] = F[25] + F[24] /\ F[27] = F[26] + F[25]
          /\ F[28] = F[27] + F[26] /\ F[29] = F[28] + F[27]
      BY <1>1, SMT
    <3> QED
      BY <2>6, <3>1, SMT
  <2>8. F[32] = 3524578 /\ F[33] = 5702887
    <3>1. F[30] = F[29] + F[28] /\ F[31] = F[30] + F[29]
          /\ F[32] = F[31] + F[30] /\ F[33] = F[32] + F[31]
      BY <1>1, SMT
    <3> QED
      BY <2>7, <3>1, SMT
  <2>9. F[36] = 24157817 /\ F[37] = 39088169
    <3>1. F[34] = F[33] + F[32] /\ F[35] = F[34] + F[33]
          /\ F[36] = F[35] + F[34] /\ F[37] = F[36] + F[35]
      BY <1>1, SMT
    <3> QED
      BY <2>8, <3>1, SMT
  <2>10. F[40] = 165580141 /\ F[41] = 267914296
    <3>1. F[38] = F[37] + F[36] /\ F[39] = F[38] + F[37]
          /\ F[40] = F[39] + F[38] /\ F[41] = F[40] + F[39]
      BY <1>1, SMT
    <3> QED
      BY <2>9, <3>1, SMT
  <2>11. F[44] = 1134903170 /\ F[45] = 1836311903
    <3>1. F[42] = F[41] + F[40] /\ F[43] = F[42] + F[41]
          /\ F[44] = F[43] + F[42] /\ F[45] = F[44] + F[43]
      BY <1>1, SMT
    <3> QED
      BY <2>10, <3>1, SMT
  <2> QED
    BY <2>11, SMT
<1>4. \A n \in 0..45 : F[n] <= F[45]
  <2> DEFINE S == {k \in Nat : k > 45 \/ F[45 - k] <= F[45]}
  <2>1. 0 \in S
    BY <1>3, SMT
  <2>2. ASSUME NEW k \in S PROVE k + 1 \in S
    <3>1. CASE k + 1 <= 45
      <4>1. 45 - (k + 1) \in Nat /\ 45 - (k + 1) + 1 = 45 - k /\ 45 - k \in Nat
        BY <3>1, SMT
      <4>2. F[45 - (k + 1)] <= F[45 - k] /\ F[45 - (k + 1)] \in Nat /\ F[45 - k] \in Nat
        BY <1>2, <4>1, SMT
      <4> QED
        BY <1>3, <3>1, <4>2, SMT
    <3> QED
      BY <3>1, SMT
  <2>3. S \in SUBSET Nat
    OBVIOUS
  <2> HIDE DEF S
  <2>4. S = Nat
    BY <2>1, <2>2, <2>3, SetInduction, SMT
  <2>5. ASSUME NEW n \in 0..45 PROVE F[n] <= F[45]
    <3>1. 45 - n \in S /\ 45 - (45 - n) = n
      BY <2>4, SMT
    <3> QED
      BY <3>1, SMT DEF S
  <2> QED
    BY <2>5, SMT
<1>5. ASSUME NEW n \in 0..IntRounds PROVE Fibonacci(n) <= 2147483647
  <2>1. n \in Nat /\ n \in 0..45
    BY DEF IntRounds
  <2>2. F[n] \in Nat /\ F[n] <= F[45]
    BY <1>2, <1>4, <2>1
  <2>3. F[n] <= 2147483647
    BY <1>3, <2>2, SMT
  <2>4. Fibonacci(n) = F[n]
    BY <2>1, FibonacciRight DEF F
  <2> QED
    BY <2>3, <2>4, SMT
<1> QED
  BY <1>5, SMT

(* The value of a command is the number its definition says.               *)
LEMMA ResultIsExpected == \A c \in High : c \notin Low /\ Result(c) = {Expected(c)}
<1>1. \A m \in Nat : PrimeNumberCount(m) = Cardinality({n \in 0..(m - 1) : Prime(n)})
  <2> SUFFICES ASSUME NEW m \in Nat
               PROVE  {n \in 0..(m - 1) : IsPrime(n)} = {n \in 0..(m - 1) : Prime(n)}
    BY DEF PrimeNumberCount
  <2>1. 0..(m - 1) \subseteq Nat
    OBVIOUS
  <2> QED
    BY <2>1, PrimeRight
<1>2. \A c \in High : c \notin Low /\ Argument[c] \in Nat
  BY ThreadPoolAssumption, PoolMainAssumption DEF IntRounds
<1> QED
  BY <1>1, <1>2, FibonacciRight DEF Result, Expected
-------------------------------------------------------------------------------
Summed == {"pi"} \cup {"waitPi"} \cup After

(* Main fetches only once.                                                 *)
Unfetched == mpc \in Early \cup {"low", "high", "wait", "fetch"} => fetched = {}

(* The commands main fetches, when none is null: each of them once.        *)
LEMMA FetchesEach ==
  ASSUME IInv, MInv, Unfetched, mpc = "fetch", NoCmd \notin ToSet(finished)
  PROVE  /\ finished \in Seq(Cmd) /\ ToSet(finished) = Ordinary /\ Returned = Ordinary
         /\ \A i, j \in DOMAIN finished : finished[i] = finished[j] => i = j
<1>1. finished \in Seq(Cmd \cup {NoCmd}) /\ Returned = ToSet(finished)
  BY DEF IInv, TypeOK, Returned
<1>2. \A i \in DOMAIN finished : finished[i] \in Cmd \cup {NoCmd} /\ finished[i] # NoCmd
  BY <1>1 DEF ToSet
<1>3. finished \in Seq(Cmd)
  <2>1. DOMAIN finished = 1..Len(finished) /\ Len(finished) \in Nat
        /\ finished = [i \in 1..Len(finished) |-> finished[i]]
    BY <1>1
  <2> QED
    BY <1>2, <2>1
<1>4. Ordinary \subseteq Returned
  BY DEF MInv, Waited, Unfetched, Back
<1>5. Pi \notin Returned /\ Returned \subseteq Cmd
  BY DEF MInv, Adding, Before, IInv, TypeOK, InOnePlace, Everywhere
<1>6. \A i, j \in DOMAIN finished : finished[i] = finished[j] => i = j
  BY <1>2 DEF IInv, InOnePlace
<1> QED
  BY <1>1, <1>3, <1>4, <1>5, <1>6 DEF Ordinary

(* The points main counts are as many as the commands that detect one.     *)
LEMMA PointsCounted ==
  ASSUME finished \in Seq(Cmd), ToSet(finished) = Ordinary,
         \A i, j \in DOMAIN finished : finished[i] = finished[j] => i = j
  PROVE  IsFiniteSet(Points) /\ Cardinality(Points) = Cardinality(Low \ {Pi})
<1>1. DOMAIN finished = 1..Len(finished) /\ Len(finished) \in Nat
  OBVIOUS
<1>2. IsFiniteSet(Points)
  <2>1. IsFiniteSet(1..Len(finished)) /\ Points \in SUBSET (1..Len(finished))
    BY <1>1, FS_Interval DEF Points
  <2> QED
    BY <2>1, FS_Subset
<1>3. \A c \in Cmd : getId(c) = 1 <=> c \in Low
  BY DEF getId
<1>4. \A i \in DOMAIN finished : finished[i] \in Cmd
  BY <1>1
<1> DEFINE f == [i \in Points |-> finished[i]]
<1>5. f \in Bijection(Points, Low \ {Pi})
  <2>1. f \in [Points -> Low \ {Pi}]
    BY <1>3, <1>4 DEF Points, ToSet, Ordinary
  <2>2. \A i, j \in Points : f[i] = f[j] => i = j
    BY DEF Points
  <2>3. \A c \in Low \ {Pi} : \E i \in Points : f[i] = c
    BY <1>3, <1>4 DEF Points, ToSet, Ordinary, Cmd
  <2> QED
    BY <2>1, <2>2, <2>3 DEF Bijection, Injection, Surjection, IsInjective
<1>6. ExistsBijection(Points, Low \ {Pi})
  BY <1>5 DEF ExistsBijection
<1> QED
  BY <1>2, <1>6, FS_Bijection

(* What main sums up and prints when it fetches.                           *)
LEMMA FetchRight ==
  ASSUME IInv, MInv, Unfetched, MainFetches, mpc' = "pi"
  PROVE  ResultsRight'
<1>1. /\ mpc = "fetch" /\ NoCmd \notin ToSet(finished) /\ total' = Cardinality(Points)
      /\ printed' = UNION {{<<getId(c), r>> : r \in getResult(c)} : c \in Returned \cap High}
  BY DEF MainFetches
<1>2. PICK inside \in 0..Cardinality(Executed) : inCircle' = inside - Cardinality(Points \ Executed)
  BY DEF MainFetches
<1>3. IsFiniteSet(Points) /\ Cardinality(Points) = Cardinality(Low \ {Pi}) /\ Returned = Ordinary
  BY <1>1, FetchesEach, PointsCounted
<1>4. total' \in Nat /\ inCircle' \in (-(total'))..total'
  <2>1. /\ IsFiniteSet(Executed) /\ Cardinality(Executed) <= Cardinality(Points)
        /\ IsFiniteSet(Points \ Executed) /\ Cardinality(Points \ Executed) <= Cardinality(Points)
    <3>1. Executed \in SUBSET Points /\ Points \ Executed \in SUBSET Points
      BY DEF Executed
    <3> QED
      BY <1>3, <3>1, FS_Subset
  <2>2. Cardinality(Points) \in Nat /\ Cardinality(Executed) \in Nat
        /\ Cardinality(Points \ Executed) \in Nat
    BY <1>3, <2>1, FS_CardinalityType
  <2> QED
    BY <1>1, <1>2, <2>1, <2>2
<1>5. Returned \cap High = High
  BY <1>3, PoolMainAssumption, ThreadPoolAssumption DEF Ordinary, Cmd
<1>6. \A c \in High : \E r \in {Expected(c), -1} : getResult(c) = {r}
  BY ResultIsExpected DEF getResult
<1>7. \A c \in High : \E r \in {Expected(c), -1} : <<getId(c), r>> \in printed'
  BY <1>1, <1>5, <1>6
<1>8. \A p \in printed' : \E c \in High : p \in {<<getId(c), Expected(c)>>, <<getId(c), -1>>}
  BY <1>1, <1>5, <1>6
<1> QED
  BY <1>1, <1>3, <1>4, <1>7, <1>8 DEF ResultsRight

(* No other step sums anything up.                                         *)
LEMMA SumsKept ==
  ASSUME [MainNext]_mainVars, ~(MainFetches /\ mpc' = "pi")
  PROVE  UNCHANGED sums /\ (mpc' \in Summed => mpc \in Summed)
<1>1. CASE Others \/ UNCHANGED mainVars
  BY <1>1 DEF Others, mainVars
<1>2. CASE Main
  BY <1>2 DEF Main, MainSeesInit, MainSleeps, MainAdds, MainAdded, MainAddedAll, MainWaited,
              MainFetches, MainAddsPi, MainEnds, MainExits, Summed, After
<1> QED
  BY <1>1, <1>2 DEF MainNext

(* Nor does one fetch anything.                                            *)
LEMMA UnfetchedKept ==
  ASSUME Counted, MInv, Unfetched, [MainNext]_mainVars
  PROVE  Unfetched'
<1> USE DEF Unfetched, Early, user, others
<1>1. CASE Others
  BY <1>1, OthersStarting DEF MInv
<1>2. CASE UNCHANGED mainVars
  BY <1>2 DEF mainVars, vars
<1>3. CASE MainSeesInit \/ MainSleeps \/ MainAddedAll \/ MainWaited \/ MainEnds \/ MainExits
  BY <1>3 DEF MainSeesInit, MainSleeps, MainAddedAll, MainWaited, MainEnds, MainExits, End
<1>4. CASE MainAdds \/ MainAddsPi \/ MainAdded
  BY <1>4 DEF MainAdds, MainAddsPi, MainAdded, AddBegin, AddEnd, AddPush, AddCount
<1>5. CASE MainFetches
  BY <1>5 DEF MainFetches
<1> QED
  BY <1>1, <1>2, <1>3, <1>4, <1>5 DEF MainNext, Main

(* However the commands were shared out, main counts every point once, and *)
(* prints for each command of high priority the number its definition      *)
(* says, or -1 when it was handed back without being executed: the loops   *)
(* of the commands compute the Fibonacci numbers and count the primes for  *)
(* every integer they may be made with.                                    *)
THEOREM ResultsCorrect == ASSUME Proper PROVE MainSpec => []ResultsRight
<1>1. MainInit => Unfetched /\ ResultsRight
  BY DEF MainInit, Init, Unfetched, ResultsRight
<1>2. /\ IInv /\ Counted /\ MInv /\ Unfetched /\ ResultsRight /\ [MainNext]_mainVars
      => Unfetched' /\ ResultsRight'
  <2> SUFFICES ASSUME IInv, Counted, MInv, Unfetched, ResultsRight, [MainNext]_mainVars
               PROVE  Unfetched' /\ ResultsRight'
    OBVIOUS
  <2>1. CASE MainFetches /\ mpc' = "pi"
    BY <2>1, FetchRight, UnfetchedKept
  <2>2. CASE ~(MainFetches /\ mpc' = "pi")
    <3>1. UNCHANGED sums /\ (mpc' \in Summed => mpc \in Summed)
      BY <2>2, SumsKept
    <3> QED
      BY <3>1, UnfetchedKept DEF sums, ResultsRight, Summed, After
  <2> QED
    BY <2>1, <2>2
<1>3. Spec => []IInv
  BY Invariant
<1>4. Spec => []Counted
  BY StartsCounted, CountedStep, Invariant, PTL DEF Spec
<1> QED
  BY <1>1, <1>2, <1>3, <1>4, MainInvariant, MainUses, PTL DEF MainSpec
===============================================================================
