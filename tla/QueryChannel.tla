----------------------------- MODULE QueryChannel -----------------------------
(***************************************************************************)
(* What the fault monitor and the sensors may expect of their queries, of  *)
(* which FaultHandle is one: a wake-up waits in the queue, its handler is  *)
(* called, its answer is sent.  A query overtakes what earlier ones have   *)
(* left in the queue, but not what the server has already taken.  Either   *)
(* side may take from the queue what it put there itself, which is lost.   *)
(* A query for data changes nothing in the sensor, nor does its answer in  *)
(* the monitor: it only clears the queue.                                  *)
(***************************************************************************)
CONSTANT Sensor  \* each has a channel of its own

VARIABLES
  cmd,    \* a wake-up is in the queue to the server
  hand,   \* the server has taken it, but its handler has not run
  answer, \* it has run, but its answer is not sent
  woke    \* the answer is in the queue to the monitor

channel == <<cmd, hand, answer, woke>>

TypeOK == /\ cmd \in [Sensor -> BOOLEAN] /\ hand \in [Sensor -> BOOLEAN]
          /\ answer \in [Sensor -> BOOLEAN] /\ woke \in [Sensor -> BOOLEAN]

Init == /\ cmd = [s \in Sensor |-> FALSE] /\ hand = [s \in Sensor |-> FALSE]
        /\ answer = [s \in Sensor |-> FALSE] /\ woke = [s \in Sensor |-> FALSE]

-------------------------------------------------------------------------------
(* query(): the queue is drained and the command sent, if there is a       *)
(* queue ...                                                               *)
Ask(s, wakeup) == /\ cmd' = [cmd EXCEPT ![s] = wakeup]
                  /\ woke' = [woke EXCEPT ![s] = FALSE]
                  /\ UNCHANGED <<hand, answer>>

(* ... and either the answer is there in time, or not, in which case the   *)
(* command may have been taken back by the client.                         *)
Answered(s) == /\ woke[s] /\ woke' = [woke EXCEPT ![s] = FALSE]
               /\ UNCHANGED <<cmd, hand, answer>>
Failed(s) == /\ woke' = [woke EXCEPT ![s] = FALSE]
             /\ cmd' \in {cmd, [cmd EXCEPT ![s] = FALSE]}
             /\ UNCHANGED <<hand, answer>>

(* The server takes the command, has it handled, and answers.  Nobody      *)
(* waits for the answer to a query that has failed.                        *)
Take(s) == /\ cmd[s] /\ ~hand[s] /\ ~answer[s]
           /\ cmd' = [cmd EXCEPT ![s] = FALSE] /\ hand' = [hand EXCEPT ![s] = TRUE]
           /\ UNCHANGED <<answer, woke>>

Handle(s) == /\ hand[s]
             /\ hand' = [hand EXCEPT ![s] = FALSE] /\ answer' = [answer EXCEPT ![s] = TRUE]
             /\ UNCHANGED <<cmd, woke>>

Reply(s) == /\ answer[s] /\ answer' = [answer EXCEPT ![s] = FALSE]
            /\ woke' \in {woke, [woke EXCEPT ![s] = TRUE]}
            /\ UNCHANGED <<cmd, hand>>

Lose(s) == /\ \/ cmd[s] /\ cmd' = [cmd EXCEPT ![s] = FALSE] /\ UNCHANGED woke
              \/ woke[s] /\ woke' = [woke EXCEPT ![s] = FALSE] /\ UNCHANGED cmd
           /\ UNCHANGED <<hand, answer>>

Call(s) == (\E wakeup \in BOOLEAN : Ask(s, wakeup)) \/ Answered(s) \/ Failed(s)

Next == \E s \in Sensor : Call(s) \/ Take(s) \/ Handle(s) \/ Reply(s) \/ Lose(s)

Spec == Init /\ [][Next]_channel
===============================================================================
