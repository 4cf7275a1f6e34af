------------------------------ MODULE RemoteQuery ------------------------------
(***************************************************************************)
(* What FaultHandle::Client::query promises its caller, the fault monitor. *)
(* Queries are numbered in the order they are made, at most one is open.   *)
(* A query may fail whatever the sensor did.  When it succeeds, the        *)
(* handler of some query of the same kind has run, and no other successful *)
(* query is accounted for by that same run of the handler.                 *)
(***************************************************************************)
EXTENDS Naturals, Sequences

CONSTANT Kind     \* the commands a client may send

VARIABLES
  asked,      \* the kinds of the queries made so far
  open,       \* the latest query has not returned
  handled,    \* the queries whose handler ran in the sensor process
  credited    \* the queries whose answer made a query return true

Init == asked = <<>> /\ open = FALSE /\ handled = {} /\ credited = {}

Ask(k) == /\ ~open
          /\ asked' = Append(asked, k)
          /\ open' = TRUE
          /\ UNCHANGED <<handled, credited>>

Handle(m) == /\ m \in DOMAIN asked \ handled
             /\ handled' = handled \cup {m}
             /\ UNCHANGED <<asked, open, credited>>

Succeed(m) == /\ open
              /\ m \in handled \ credited
              /\ asked[m] = asked[Len(asked)]
              /\ open' = FALSE
              /\ credited' = credited \cup {m}
              /\ UNCHANGED <<asked, handled>>

Fail == open /\ open' = FALSE /\ UNCHANGED <<asked, handled, credited>>

(* A query that cannot open the queue is made and fails in one step.       *)
FailAtOnce(k) == /\ ~open
                 /\ asked' = Append(asked, k)
                 /\ UNCHANGED <<open, handled, credited>>

Next == \/ \E k \in Kind : Ask(k) \/ FailAtOnce(k)
        \/ \E m \in DOMAIN asked : Handle(m) \/ Succeed(m)
        \/ Fail

vars == <<asked, open, handled, credited>>

Spec == Init /\ [][Next]_vars
===============================================================================
