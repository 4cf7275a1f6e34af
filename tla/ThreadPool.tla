------------------------------ MODULE ThreadPool ------------------------------
(***************************************************************************)
(* Assignment3's ThreadPool with its WorkerThreads and the scheduler: one  *)
(* pool thread that scans the workers, NumThreads workers that poll their  *)
(* own state, and a user thread that adds and fetches commands.  Each step *)
(* is what happens under one mutex, or between two.                        *)
(***************************************************************************)
EXTENDS Integers, Sequences, FiniteSets, SequencesExt

CONSTANTS
  NumThreads,   \* workers of the pool
  Low, High,    \* commands added with Priority::LOW and Priority::HIGH
  Throwing,     \* those whose _operation throws
  NoCmd,        \* the null command
  FreshState,   \* what the uninitialized WorkerThread::_state may hold
  FreshCount,   \* and ThreadPool::_outstandingCmds
  Torn          \* whether an unlocked pop may meet a push and break the queue

Cmd == Low \cup High
Worker == 1..NumThreads
WorkerStates == {"INIT", "READY", "EXECUTE", "DONE", "SHUTDOWN", "garbage"}

ASSUME ThreadPoolAssumption ==
  /\ NumThreads \in Nat \ {0}
  /\ Low \cap High = {} /\ Throwing \subseteq Cmd /\ NoCmd \notin Cmd
  /\ FreshState \subseteq WorkerStates /\ FreshCount \subseteq Int
  /\ Torn \in BOOLEAN

VARIABLES
  lowQ, highQ,   \* Scheduler::_lowPriorityQueue, _highPriorityQueue
  wstate,        \* WorkerThread::_state
  wcmd,          \* WorkerThread::_cmd
  wstop,         \* Thread::_shutdown of the worker
  wpc,           \* where the worker is; it holds its mutex from "exec" to "set"
  hasRun,        \* Command::_hasRun
  ran,           \* ghost: how often the operation of a command completed
  pstate,        \* ThreadPool::_state
  pstop,         \* Thread::_shutdown of the pool
  ppc,           \* where the pool thread is
  at,            \* the worker its loop has reached
  next,          \* the command it is giving to that worker
  outstanding,   \* _outstandingCmds
  loaded,        \* its value as addCommand loaded it to increment it, or 0
  finished,      \* _finishedCommands
  adding,        \* command the user is adding; the pool mutex is held meanwhile
  added,         \* ghost: commands pushed into a queue
  fetched,       \* ghost: commands returned by getFinishedCommands
  early,         \* ghost: commands counted before _state_init reset the count
  undone,        \* ghost: what the reset wrote over while an increment was under
                 \* way, which puts it back
  nulls,         \* ghost: null commands collected from workers
  broken         \* a null command was executed, or a queue corrupted

queues == <<lowQ, highQ>>
workers == <<wstate, wcmd, wstop, wpc, hasRun, ran>>
pool == <<pstate, ppc, at, next>>
count == <<outstanding, early, undone, nulls>>
user == <<adding, loaded, added, fetched>>
vars == <<queues, workers, pool, pstop, count, finished, user, broken>>

Init == /\ lowQ = <<>> /\ highQ = <<>>
        /\ wstate = [w \in Worker |-> "INIT"] /\ wcmd = [w \in Worker |-> NoCmd]
        /\ wstop = [w \in Worker |-> FALSE] /\ wpc = [w \in Worker |-> "none"]
        /\ hasRun = [c \in Cmd |-> FALSE] /\ ran = [c \in Cmd |-> 0]
        /\ pstate = "INIT" /\ pstop = FALSE /\ ppc = "init" /\ at = 1 /\ next = NoCmd
        /\ outstanding \in FreshCount /\ finished = <<>>
        /\ adding = NoCmd /\ loaded = 0 /\ added = {} /\ fetched = {}
        /\ early = 0 /\ undone = 0 /\ nulls = 0 /\ broken = FALSE
-------------------------------------------------------------------------------
(* The worker: a pass of its loop reads the state and acts on it.  In      *)
(* READY and DONE it goes straight to the test of _shutdown.               *)

WorkerInit(w) == /\ wpc[w] = "poll" /\ wstate[w] = "INIT"
                 /\ wstate' = [wstate EXCEPT ![w] = "READY"]
                 /\ wpc' = [wpc EXCEPT ![w] = "check"]
                 /\ UNCHANGED <<wcmd, wstop, hasRun, ran, broken>>

WorkerWait(w) == /\ wpc[w] = "poll" /\ wstate[w] \notin {"INIT", "EXECUTE"}
                 /\ wpc' = [wpc EXCEPT ![w] = "check"]
                 /\ UNCHANGED <<wstate, wcmd, wstop, hasRun, ran, broken>>

(* _state_execute locks the worker's mutex around the execution.           *)
WorkerBegin(w) == /\ wpc[w] = "poll" /\ wstate[w] = "EXECUTE"
                  /\ wpc' = [wpc EXCEPT ![w] = "exec"]
                  /\ UNCHANGED <<wstate, wcmd, wstop, hasRun, ran, broken>>

(* Command::execute asks whether the command has run, performs its         *)
(* operation and sets the flag: the command's own mutex covers the first   *)
(* and the last only.  Mutant: the flag is not asked.                      *)
ExecuteAgain(w) == /\ wpc[w] = "exec"
                   /\ IF wcmd[w] = NoCmd
                      THEN broken' = TRUE /\ UNCHANGED wpc
                      ELSE wpc' = [wpc EXCEPT ![w] = "run"] /\ UNCHANGED broken
                   /\ UNCHANGED <<wstate, wcmd, wstop, hasRun, ran>>

WorkerExecute(w) == /\ wpc[w] = "exec"
                    /\ IF wcmd[w] = NoCmd THEN broken' = TRUE /\ UNCHANGED wpc
                       ELSE /\ wpc' = [wpc EXCEPT ![w] = IF hasRun[wcmd[w]] THEN "finish"
                                                                           ELSE "run"]
                            /\ UNCHANGED broken
                    /\ UNCHANGED <<wstate, wcmd, wstop, hasRun, ran>>

(* What an operation throws is caught by the worker: the flag stays down.  *)
WorkerRun(w) == /\ wpc[w] = "run"
                /\ IF wcmd[w] \in Throwing
                   THEN wpc' = [wpc EXCEPT ![w] = "finish"] /\ UNCHANGED ran
                   ELSE /\ wpc' = [wpc EXCEPT ![w] = "set"]
                        /\ ran' = [ran EXCEPT ![wcmd[w]] = ran[wcmd[w]] + 1]
                /\ UNCHANGED <<wstate, wcmd, wstop, hasRun, broken>>

WorkerSet(w) == /\ wpc[w] = "set"
                /\ hasRun' = [hasRun EXCEPT ![wcmd[w]] = TRUE]
                /\ wpc' = [wpc EXCEPT ![w] = "finish"]
                /\ UNCHANGED <<wstate, wcmd, wstop, ran, broken>>

(* Mutant: the worker offers itself again without handing its command back. *)
FinishReady(w) == /\ wpc[w] = "finish"
                  /\ wstate' = [wstate EXCEPT ![w] = "READY"]
                  /\ wpc' = [wpc EXCEPT ![w] = "check"]
                  /\ UNCHANGED <<wcmd, wstop, hasRun, ran, broken>>

WorkerFinish(w) == /\ wpc[w] = "finish"
                   /\ wstate' = [wstate EXCEPT ![w] = "DONE"]
                   /\ wpc' = [wpc EXCEPT ![w] = "check"]
                   /\ UNCHANGED <<wcmd, wstop, hasRun, ran, broken>>

WorkerCheck(w) == /\ wpc[w] = "check"
                  /\ IF wstop[w] THEN /\ wstate' = [wstate EXCEPT ![w] = "SHUTDOWN"]
                                      /\ wpc' = [wpc EXCEPT ![w] = "stopped"]
                                 ELSE /\ wpc' = [wpc EXCEPT ![w] = "poll"]
                                      /\ UNCHANGED wstate
                  /\ UNCHANGED <<wcmd, wstop, hasRun, ran, broken>>

WorkerStep(w) == /\ \/ WorkerInit(w) \/ WorkerWait(w) \/ WorkerBegin(w)
                    \/ WorkerExecute(w) \/ WorkerRun(w) \/ WorkerSet(w)
                    \/ WorkerFinish(w) \/ WorkerCheck(w)
                 /\ UNCHANGED <<queues, pool, pstop, count, finished, user>>
-------------------------------------------------------------------------------
(* The pool thread.                                                        *)

(* _state_init: the constructor of a worker leaves _state uninitialized.   *)
PoolInit == /\ ppc = "init"
            /\ wstate' \in [Worker -> FreshState]
            /\ wpc' = [w \in Worker |-> "poll"]
            /\ ppc' = "reset"
            /\ UNCHANGED <<queues, wcmd, wstop, hasRun, ran, pstate, at, next, count,
                           finished, broken>>

(* It then resets the count, without the mutex addCommand increments it    *)
(* under: an increment that has loaded the old value stores over the reset. *)
PoolReset == /\ ppc = "reset"
             /\ outstanding' = 0
             /\ early' = Cardinality(added \ {adding})
             /\ undone' = IF adding \in added THEN outstanding ELSE 0
             /\ pstate' = "READY" /\ ppc' = "loop"
             /\ UNCHANGED <<queues, workers, at, next, finished, nulls, broken>>

(* The end of a pass of _run's loop; the next one scans from the first.    *)
PoolLoop == /\ ppc = "loop"
            /\ ppc' = IF pstop THEN "ending" ELSE "scan"
            /\ at' = 1
            /\ UNCHANGED <<queues, workers, pstate, next, count, finished, broken>>

Advance == IF at = NumThreads THEN ppc' = "loop" /\ UNCHANGED at
                              ELSE ppc' = "scan" /\ at' = at + 1

(* Every access to a worker waits while it executes: execute() runs under  *)
(* the mutex that guards the state.                                        *)
Unlocked(w) == wpc[w] \notin {"exec", "run", "set"}

PoolNotDone == /\ ppc = "scan" /\ Unlocked(at) /\ wstate[at] # "DONE"
               /\ ppc' = "offer"
               /\ UNCHANGED <<queues, workers, pstate, at, next, count, finished, broken>>

(* Mutants: getFinishedCommand leaves the worker DONE; a collected command  *)
(* is not counted off.                                                     *)
CollectKeepsDone == /\ ppc = "scan" /\ Unlocked(at) /\ wstate[at] = "DONE"
                    /\ adding = NoCmd /\ Len(finished) < 4
                    /\ finished' = Append(finished, wcmd[at])
                    /\ outstanding' = outstanding - 1 /\ ppc' = "offer"
                    /\ UNCHANGED <<queues, workers, pstate, at, next, early,
                                   undone, nulls, broken>>
CollectUncounted == /\ ppc = "scan" /\ Unlocked(at) /\ wstate[at] = "DONE"
                    /\ adding = NoCmd
                    /\ finished' = Append(finished, wcmd[at])
                    /\ wstate' = [wstate EXCEPT ![at] = "READY"] /\ ppc' = "offer"
                    /\ UNCHANGED <<queues, wcmd, wstop, wpc, hasRun, ran, pstate,
                                   at, next, count, broken>>

PoolCollect == /\ ppc = "scan" /\ Unlocked(at) /\ wstate[at] = "DONE"
               /\ adding = NoCmd
               /\ finished' = Append(finished, wcmd[at])
               /\ nulls' = IF wcmd[at] = NoCmd THEN nulls + 1 ELSE nulls
               /\ outstanding' = outstanding - 1
               /\ wstate' = [wstate EXCEPT ![at] = "READY"]
               /\ ppc' = "offer"
               /\ UNCHANGED <<queues, wcmd, wstop, wpc, hasRun, ran, pstate, at,
                              next, early, undone, broken>>

PoolNotReady == /\ ppc = "offer" /\ Unlocked(at) /\ wstate[at] # "READY"
                /\ Advance
                /\ UNCHANGED <<queues, workers, pstate, next, count, finished, broken>>

(* Mutant: the command is looked at but not popped.                        *)
NextNotPopped == /\ ppc = "offer" /\ Unlocked(at) /\ wstate[at] = "READY"
                 /\ next' \in {Head(q) : q \in {highQ, lowQ} \ {<<>>}}
                 /\ ppc' = "assign"
                 /\ UNCHANGED <<queues, workers, pstate, at, count, finished, broken>>

(* getNext, which takes no mutex.                                          *)
PoolNext == /\ ppc = "offer" /\ Unlocked(at) /\ wstate[at] = "READY"
            /\ \/ /\ highQ # <<>>
                  /\ next' = Head(highQ) /\ highQ' = Tail(highQ) /\ UNCHANGED lowQ
               \/ /\ highQ = <<>> /\ lowQ # <<>>
                  /\ next' = Head(lowQ) /\ lowQ' = Tail(lowQ) /\ UNCHANGED highQ
            /\ ppc' = "assign"
            /\ UNCHANGED <<workers, pstate, at, count, finished, broken>>

PoolNoNext == /\ ppc = "offer" /\ Unlocked(at) /\ wstate[at] = "READY"
              /\ highQ = <<>> /\ lowQ = <<>>
              /\ Advance
              /\ UNCHANGED <<queues, workers, pstate, next, count, finished, broken>>

(* The same getNext while addCmd is pushing: std::queue is not made for    *)
(* that, and what follows is undefined.                                    *)
PoolRace == /\ Torn /\ ppc = "offer" /\ Unlocked(at) /\ wstate[at] = "READY"
            /\ adding # NoCmd /\ adding \notin added
            /\ broken' = TRUE
            /\ UNCHANGED <<queues, workers, pool, count, finished>>

(* WorkerThread::addCommand: EXECUTE is visible before the command is.     *)
PoolAssign == /\ ppc = "assign"
              /\ wstate' = [wstate EXCEPT ![at] = "EXECUTE"]
              /\ ppc' = "store"
              /\ UNCHANGED <<queues, wcmd, wstop, wpc, hasRun, ran, pstate, at,
                             next, count, finished, broken>>

(* Mutant: the command stays with the pool after it was stored.            *)
StoreKeepsNext == /\ ppc = "store" /\ Unlocked(at)
                  /\ wcmd' = [wcmd EXCEPT ![at] = next]
                  /\ Advance
                  /\ UNCHANGED <<queues, wstate, wstop, wpc, hasRun, ran, pstate,
                                 next, count, finished, broken>>

PoolStore == /\ ppc = "store" /\ Unlocked(at)
             /\ wcmd' = [wcmd EXCEPT ![at] = next]
             /\ next' = NoCmd
             /\ Advance
             /\ UNCHANGED <<queues, wstate, wstop, wpc, hasRun, ran, pstate,
                            count, finished, broken>>

(* end() of each worker in turn: raise its flag, then join it.  Mutants:   *)
(* end() joins without raising the flag, or does not join.                 *)
EndWithoutFlag == /\ ppc = "ending" /\ ppc' = "joining"
                  /\ UNCHANGED <<queues, workers, pstate, at, next, count,
                                 finished, broken>>
NoJoin == /\ ppc = "joining"
          /\ IF at = NumThreads
             THEN ppc' = "stopped" /\ pstate' = "SHUTDOWN" /\ UNCHANGED at
             ELSE ppc' = "ending" /\ at' = at + 1 /\ UNCHANGED pstate
          /\ UNCHANGED <<queues, workers, next, count, finished, broken>>

PoolEnd == /\ ppc = "ending"
           /\ wstop' = [wstop EXCEPT ![at] = TRUE]
           /\ ppc' = "joining"
           /\ UNCHANGED <<queues, wstate, wcmd, wpc, hasRun, ran, pstate, at,
                          next, count, finished, broken>>

PoolJoin == /\ ppc = "joining" /\ wpc[at] = "stopped"
            /\ IF at = NumThreads
               THEN ppc' = "stopped" /\ pstate' = "SHUTDOWN" /\ UNCHANGED at
               ELSE ppc' = "ending" /\ at' = at + 1 /\ UNCHANGED pstate
            /\ UNCHANGED <<queues, workers, next, count, finished, broken>>

PoolStep == /\ \/ PoolInit \/ PoolReset \/ PoolLoop \/ PoolNotDone \/ PoolCollect
               \/ PoolNotReady \/ PoolNext \/ PoolNoNext \/ PoolRace \/ PoolAssign \/ PoolStore
               \/ PoolEnd \/ PoolJoin
            /\ UNCHANGED <<pstop, user>>
-------------------------------------------------------------------------------
(* The user of the pool.  addCommand holds the pool's mutex while adding is *)
(* not NoCmd: it pushes the command, then increments the count.            *)

AddBegin(c) == /\ adding = NoCmd /\ c \notin added
               /\ adding' = c
               /\ UNCHANGED <<queues, workers, pool, pstop, count, finished, loaded,
                              added, fetched, broken>>

AddPush == /\ adding # NoCmd /\ adding \notin added
           /\ IF adding \in High
              THEN highQ' = Append(highQ, adding) /\ UNCHANGED lowQ
              ELSE lowQ' = Append(lowQ, adding) /\ UNCHANGED highQ
           /\ added' = added \cup {adding} /\ loaded' = outstanding
           /\ UNCHANGED <<workers, pool, pstop, count, finished, adding, fetched, broken>>

(* Mutant: addCommand does not count.                                      *)
AddUncounted == /\ adding \in added
                /\ adding' = NoCmd
                /\ UNCHANGED <<queues, workers, pool, pstop, count, finished, loaded,
                               added, fetched, broken>>

AddCount == /\ adding \in added
            /\ outstanding' = loaded + 1 /\ loaded' = 0 /\ adding' = NoCmd
            /\ UNCHANGED <<queues, workers, pool, pstop, early, undone, nulls, finished,
                           added, fetched, broken>>

AddEnd == AddPush \/ AddCount

Returned == ToSet(finished) \ {NoCmd}

(* getFinishedCommands.                                                    *)
Fetch == /\ adding = NoCmd
         /\ fetched' = fetched \cup Returned
         /\ finished' = <<>>
         /\ UNCHANGED <<queues, workers, pool, pstop, count, adding, loaded, added, broken>>

End == /\ ~pstop /\ pstop' = TRUE
       /\ UNCHANGED <<queues, workers, pool, count, finished, user, broken>>

User == (\E c \in Cmd : AddBegin(c)) \/ AddEnd \/ Fetch \/ End

Next == ~broken /\ (User \/ PoolStep \/ \E w \in Worker : WorkerStep(w))

Spec == Init /\ [][Next]_vars

(* The operating system runs the pool thread and every worker; an          *)
(* operation takes finite time, and so does adding a command.              *)
FairSpec == /\ Spec /\ WF_vars(~broken /\ PoolStep) /\ WF_vars(~broken /\ AddEnd)
            /\ \A w \in Worker : WF_vars(~broken /\ WorkerStep(w))
-------------------------------------------------------------------------------
(* The pool holds a command exactly while it gives it to a worker.         *)
TypeOK ==
  /\ lowQ \in Seq(Low) /\ highQ \in Seq(High)
  /\ wstate \in [Worker -> WorkerStates] /\ wcmd \in [Worker -> Cmd \cup {NoCmd}]
  /\ wstop \in [Worker -> BOOLEAN]
  /\ wpc \in [Worker -> {"none", "poll", "exec", "run", "set", "finish", "check",
                         "stopped"}]
  /\ hasRun \in [Cmd -> BOOLEAN] /\ ran \in [Cmd -> Nat]
  /\ pstate \in {"INIT", "READY", "SHUTDOWN"} /\ pstop \in BOOLEAN
  /\ ppc \in {"init", "reset", "loop", "scan", "offer", "assign", "store", "ending",
              "joining", "stopped"}
  /\ at \in Worker
  /\ IF ppc \in {"assign", "store"} THEN next \in Cmd ELSE next = NoCmd
  /\ outstanding \in Int /\ finished \in Seq(Cmd \cup {NoCmd})
  /\ adding \in Cmd \cup {NoCmd} /\ loaded \in Int
  /\ added \subseteq Cmd /\ fetched \subseteq added
  /\ early \in Nat /\ undone \in Int /\ nulls \in Nat /\ broken \in BOOLEAN

(* A worker has its command from the moment it is stored until the pool    *)
(* collects it.                                                            *)
Has(w) == /\ wcmd[w] # NoCmd /\ wstate[w] \in {"EXECUTE", "DONE"}
          /\ ~(ppc = "store" /\ at = w)

Queued == ToSet(lowQ) \cup ToSet(highQ)
Giving == {next} \ {NoCmd}
Held == {wcmd[w] : w \in {v \in Worker : Has(v)}}
Everywhere == Queued \cup Giving \cup Held \cup Returned \cup fetched

Ending == ppc \in {"ending", "joining", "stopped"}

(* A command that was added is in exactly one place: no race between the   *)
(* pool, the workers and the user duplicates it, and none loses it until   *)
(* the pool ends (a worker that stops takes what it has with it).          *)
InOnePlace ==
  /\ IsInjective(lowQ) /\ IsInjective(highQ)
  /\ \A i, j \in DOMAIN finished :
       finished[i] = finished[j] => i = j \/ finished[i] = NoCmd
  /\ \A v, w \in Worker : Has(v) /\ Has(w) /\ wcmd[v] = wcmd[w] => v = w
  /\ Queued \cap (Giving \cup Held \cup Returned \cup fetched) = {}
  /\ Giving \cap (Held \cup Returned \cup fetched) = {}
  /\ Held \cap (Returned \cup fetched) = {}
  /\ Returned \cap fetched = {}
  /\ Everywhere \subseteq added
  /\ added \subseteq Everywhere \/ Ending

Pending == Len(lowQ) + Len(highQ) + (IF next = NoCmd THEN 0 ELSE 1)
           + Cardinality({w \in Worker : Has(w)})

(* getNumberUnfinishedCmd, which waits for the mutex, returns the number of *)
(* commands that are not handed back, except those added before            *)
(* _state_init reset the count, and less the null commands collected from  *)
(* workers that were born DONE.  An addCommand that was incrementing the   *)
(* count during the reset undoes it: what the count was before stays in it *)
(* for ever.                                                               *)
CountRight == pstate # "INIT" /\ ~Ending /\ adding = NoCmd
                => outstanding = Pending - early - nulls + undone

(* The operation of a command is never performed twice, although a worker  *)
(* may execute a command again, and the command's mutex is free between    *)
(* the question whether it has run and the answer that it has: no two      *)
(* workers ever have the same one.                                         *)
RunsOnce == \A c \in Cmd : ran[c] <= 1

(* Once the pool says SHUTDOWN, no worker executes anything any more.      *)
StoppedIsQuiet == pstate = "SHUTDOWN" => \A w \in Worker : wpc[w] = "stopped"

(* A command that was handed back has been executed.                       *)
ResultIsReady == \A c \in Returned \ Throwing : hasRun[c]

(* Every command that is added is handed back, if the pool is not ended    *)
(* and one of the workers was born in a state the pool knows.              *)
CommandComesBack ==
  \A c \in Cmd :
    (c \in added /\ pstate = "READY" /\ \E w \in Worker : wstate[w] \notin {"garbage", "SHUTDOWN"})
       ~> (c \in Returned \cup fetched \/ pstop \/ broken)

(* end() of the pool returns: every worker can be joined.                  *)
PoolStops == pstop ~> ppc = "stopped" \/ broken

stage == [c \in Cmd |-> IF c \in fetched THEN "fetched"
                        ELSE IF c \in Returned THEN "returned"
                        ELSE IF c \in Queued THEN "queued"
                        ELSE IF c \in added THEN "running" ELSE "new"]

(* The pool implements TaskPool: no command skips a stage or goes back.    *)
Tasks == INSTANCE TaskPool
TasksSpec == Tasks!Spec
===============================================================================
