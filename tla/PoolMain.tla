------------------------------- MODULE PoolMain -------------------------------
(***************************************************************************)
(* Assignment3's main as the user of the thread pool: it starts the pool,  *)
(* adds the low and then the high priority commands, waits until none is   *)
(* unfinished, fetches the results, has the estimate of Pi computed from   *)
(* them by one more command, and ends the pool.                            *)
(***************************************************************************)
EXTENDS ThreadPool, Commands

CONSTANTS
  Pi,        \* the PiEstimatorCommand; the others of low priority detect circles
  Argument,  \* the integer each command of high priority was made with, at most
             \* the most rounds whose sums fit
  Primes,    \* those that count primes; the others compute Fibonacci numbers
  LongSleep  \* the second main sleeps is enough for the pool to initialize

ASSUME PoolMainAssumption == /\ Pi \in Low /\ LongSleep \in BOOLEAN
                             /\ Argument \in [High -> 0..IntRounds] /\ Primes \subseteq High

VARIABLES
  mpc,      \* the statement main has reached
  inCircle, \* inCirclePoints
  total,    \* totalPoints
  printed   \* the results main has printed, each with the id of its command

sums == <<inCircle, total, printed>>
mainVars == <<vars, mpc, sums>>
others == <<queues, workers, pool, pstop, count, finished, user>>

MainInit == Init /\ mpc = "start" /\ inCircle = 0 /\ total = 0 /\ printed = {}

(* while (tp.getState() != INIT): the loop is left only by a main that     *)
(* looks before the pool has initialized.                                  *)
MainSeesInit == /\ mpc = "start" /\ pstate = "INIT"
                /\ mpc' = "sleep" /\ UNCHANGED <<others, broken, sums>>

MainSleeps == /\ mpc = "sleep" /\ (LongSleep => pstate # "INIT")
              /\ mpc' = "low" /\ UNCHANGED <<others, broken, sums>>

(* The two loops of addCommand; the order within one is of no interest.    *)
Left == IF mpc = "low" THEN Low \ (added \cup {Pi}) ELSE High \ added

MainAdds == /\ mpc \in {"low", "high"}
            /\ \E c \in Left : AddBegin(c)
            /\ UNCHANGED <<mpc, sums>>

MainAdded == AddEnd /\ UNCHANGED <<mpc, sums>>

MainAddedAll == /\ mpc \in {"low", "high"} /\ adding = NoCmd /\ Left = {}
                /\ mpc' = IF mpc = "low" THEN "high" ELSE "wait"
                /\ UNCHANGED <<others, broken, sums>>

(* Mutant: main waits until at most one command is unfinished.             *)
WaitedForAllButOne ==
  /\ mpc \in {"wait", "waitPi"} /\ adding = NoCmd /\ outstanding <= 1
  /\ mpc' = IF mpc = "wait" THEN "fetch" ELSE "end"
  /\ UNCHANGED <<others, broken, sums>>

(* while (tp.getNumberUnfinishedCmd() > 0)                                 *)
MainWaited == /\ mpc \in {"wait", "waitPi"} /\ adding = NoCmd /\ outstanding <= 0
              /\ mpc' = IF mpc = "wait" THEN "fetch" ELSE "end"
              /\ UNCHANGED <<others, broken, sums>>

getId(c) == IF c \in Low THEN 1 ELSE IF c \in Primes THEN 3 ELSE 2

(* What a command returns, or -1 when it has not been executed.            *)
Result(c) == IF c \in Low THEN CircleDetector
             ELSE {IF c \in Primes THEN PrimeNumberCount(Argument[c]) ELSE Fibonacci(Argument[c])}
getResult(c) == IF hasRun[c] THEN Result(c) ELSE {-1}

(* The results are summed up or printed.  A null command among them is     *)
(* dereferenced and main crashes.                                          *)
Points == {i \in DOMAIN finished : getId(finished[i]) = 1}
Executed == {i \in Points : hasRun[finished[i]]}
MainFetches ==
  /\ mpc = "fetch"
  /\ Fetch
  /\ IF NoCmd \in ToSet(finished) THEN mpc' = "crashed" /\ UNCHANGED sums
     ELSE /\ mpc' = "pi" /\ total' = Cardinality(Points)
          /\ \E inside \in 0..Cardinality(Executed) :
               inCircle' = inside - Cardinality(Points \ Executed)
          /\ printed' = UNION {{<<getId(c), r>> : r \in getResult(c)} : c \in Returned \cap High}

MainAddsPi == /\ mpc = "pi" /\ AddBegin(Pi) /\ mpc' = "waitPi" /\ UNCHANGED sums

(* tp.end() and the return of main.                                        *)
MainEnds == mpc = "end" /\ End /\ mpc' = "join" /\ UNCHANGED sums

MainExits == /\ mpc = "join" /\ ppc = "stopped"
             /\ mpc' = "exited" /\ UNCHANGED <<others, broken, sums>>

Main == \/ MainSeesInit \/ MainSleeps \/ MainAdds \/ MainAdded \/ MainAddedAll
        \/ MainWaited \/ MainFetches \/ MainAddsPi \/ MainEnds \/ MainExits

Others == (PoolStep \/ \E w \in Worker : WorkerStep(w)) /\ UNCHANGED <<mpc, sums>>

MainNext == ~broken /\ (Main \/ Others)

MainSpec == MainInit /\ [][MainNext]_mainVars

(* All threads run, and no operation takes for ever.                       *)
FairMainSpec == /\ MainSpec /\ WF_mainVars(~broken /\ Main)
                /\ WF_mainVars(~broken /\ PoolStep /\ UNCHANGED <<mpc, sums>>)
                /\ \A w \in Worker : WF_mainVars(~broken /\ WorkerStep(w) /\ UNCHANGED <<mpc, sums>>)
-------------------------------------------------------------------------------
(* What main estimates Pi from is the result of all the commands: the      *)
(* count of unfinished commands is not zero before they are handed back.   *)
AllFetched == mpc \in {"pi", "waitPi", "end", "join", "exited"} =>
                (Low \cup High) \ {Pi} \subseteq fetched

(* However the commands were shared out, main counts each point once and   *)
(* prints for every command of high priority the number its definition     *)
(* says, or -1 if the pool handed it back without executing it.            *)
Expected(c) == IF c \in Primes THEN Cardinality({n \in 0..(Argument[c] - 1) : Prime(n)})
                               ELSE FibonacciNumber[Argument[c]]
ResultsRight ==
  mpc \in {"pi", "waitPi", "end", "join", "exited"} =>
    /\ total = Cardinality(Low \ {Pi}) /\ inCircle \in (-total)..total
    /\ \A c \in High : \E r \in {Expected(c), -1} : <<getId(c), r>> \in printed
    /\ \A p \in printed : \E c \in High : p \in {<<getId(c), Expected(c)>>, <<getId(c), -1>>}

(* The estimate is handed back when main prints it.                        *)
PiReturned == mpc \in {"end", "join", "exited"} => Pi \in Returned

(* Once main has seen the pool start, it comes to its end.                 *)
MainFinishes == mpc = "sleep" ~> mpc = "exited" \/ broken

===============================================================================
