------------------------------- MODULE TaskPool -------------------------------
(***************************************************************************)
(* What Assignment3's thread pool promises about the commands given to it: *)
(* each is queued once, given to one worker, handed back once and fetched  *)
(* once, in this order.  Whether it has been executed when it is handed    *)
(* back is not part of the promise: see ResultIsReady in ThreadPool.       *)
(***************************************************************************)
CONSTANT Cmd

VARIABLE stage

Stages == {"new", "queued", "running", "returned", "fetched"}

Init == stage = [c \in Cmd |-> "new"]

Move(c, from, to) == stage[c] = from /\ stage' = [stage EXCEPT ![c] = to]

Add(c) == Move(c, "new", "queued")
Start(c) == Move(c, "queued", "running")
Return(c) == Move(c, "running", "returned")

(* All the commands handed back so far are fetched together.               *)
Fetch == stage' = [c \in Cmd |-> IF stage[c] = "returned" THEN "fetched" ELSE stage[c]]

Next == Fetch \/ \E c \in Cmd : Add(c) \/ Start(c) \/ Return(c)

Spec == Init /\ [][Next]_stage
===============================================================================
