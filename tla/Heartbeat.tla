------------------------------- MODULE Heartbeat -------------------------------
(***************************************************************************)
(* Senders, the receiver and the time that passes while they sleep.        *)
(***************************************************************************)
EXTENDS HeartbeatReceiver

CONSTANTS
  Slack,    \* a thread goes on at most so many ticks after its sleep
  SendWait  \* a send waits at most so many ticks for room in the queue

ASSUME HeartbeatAssumption == Slack \in Nat /\ SendWait \in Nat /\ Slack <= SendWait

vars == <<sender, receiver, exists, queue>>

Init == /\ SenderInit /\ ReceiverInit
        /\ exists = FALSE /\ queue = <<>>

(* Time passes unless a thread would be later than it may be.  A send that *)
(* waits for room is not late.                                             *)
Blocked(s) == /\ spc[s] \in {"send", "again"} /\ sconnected[s] /\ Len(queue) = MaxMsgs
              /\ ssleep[s] > -SendWait
(* Nor is a paused sender: it goes round without a sleep, as often as it   *)
(* likes between two ticks, until it is told to beat or to stop.           *)
Spinning(s) == /\ spc[s] = "wake" /\ ssleep[s] <= 0
               /\ sstate[s] = "SHUTTING_DOWN" /\ ~sstop[s]
Prompt(s) == Running(s) => ssleep[s] > -Slack \/ Blocked(s) \/ Spinning(s)
RPrompt == RRunning => rsleep > -Slack

Later(s) == IF Spinning(s) THEN ssleep[s] ELSE ssleep[s] - 1

Tick == /\ RPrompt /\ \A s \in Sender : Prompt(s)
        /\ rsleep' = IF RRunning THEN rsleep - 1 ELSE 0
        /\ ssleep' = [s \in Sender |-> IF Running(s) THEN Later(s) ELSE 0]
        /\ age' = [s \in Sender |-> Older(age[s])]
        /\ beat' = [s \in Sender |-> Older(beat[s])]
        /\ lastSent' = [s \in Sender |-> Older(lastSent[s])]
        /\ queue' = [i \in DOMAIN queue |-> [queue[i] EXCEPT !.age = Older(@)]]
        /\ UNCHANGED <<sstate, spc, segment, sstop, sconnected, want, exists, rstate, rpc,
                       rstop, rconnected, known, heard, todo, potentiallyDead, dead>>

SenderSide(s) == (SenderStep(s) \/ Owner(s)) /\ UNCHANGED receiver
ReceiverSide == (ReceiverStep \/ ReceiverOwner) /\ UNCHANGED sender

Next == Tick \/ ReceiverSide \/ \E s \in Sender : SenderSide(s)

Spec == Init /\ [][Next]_vars

(* Time goes on, the threads run, and the owners start them and finish the *)
(* destructors they began.                                                 *)
FairSpec == /\ Spec /\ WF_vars(Tick)
            /\ WF_vars((ReceiverStep \/ StartReceiver) /\ UNCHANGED sender)
            /\ \A s \in Sender : WF_vars((SenderStep(s) \/ StartSender(s)) /\ UNCHANGED receiver)
            /\ \A s \in Sender : WF_vars(want[s] = "gone" /\ EndSender(s) /\ UNCHANGED receiver)
-------------------------------------------------------------------------------
Message == [from : Sender, age : Age]

SenderPc == {"off", "first", "wake", "init", "join", "joined", "beat", "send", "refused",
             "failed", "again", "sent", "stopped", "crashed"}
ReceiverPc == {"off", "first", "wake", "init", "create", "listen", "pulses", "check",
               "stopped", "crashed"}

(* The types; a sender never counts beyond its segments.                   *)
TypeOK == /\ exists \in BOOLEAN
          /\ queue \in Seq(Message) /\ Len(queue) <= MaxMsgs
          /\ sstate \in [Sender -> SenderState]
          /\ spc \in [Sender -> SenderPc]
          /\ ssleep \in [Sender -> Int]
          /\ segment \in [Sender -> 0..Segments]
          /\ sstop \in [Sender -> BOOLEAN] /\ sconnected \in [Sender -> BOOLEAN]
          /\ beat \in [Sender -> Age] /\ lastSent \in [Sender -> Age]
          /\ want \in [Sender -> {"beat", "pause", "gone"}]
          /\ rstate \in ReceiverState /\ rpc \in ReceiverPc
          /\ rsleep \in Int /\ rstop \in BOOLEAN /\ rconnected \in BOOLEAN
          /\ known \subseteq Sender /\ age \in [Sender -> Age] /\ todo \subseteq known
          /\ heard \subseteq known
          /\ potentiallyDead \subseteq known /\ dead \subseteq known

(* _checkPulses declares dead only what an earlier check suspected, and    *)
(* both lists hold known senders only.                                     *)
DeadWereSuspected == dead \subseteq potentiallyDead

(* The beats of a sender are recorded in the order they were made: what is *)
(* recorded is older than what waits in the queue, which is in order, and  *)
(* the last beat sent is the youngest.                                     *)
BeatsInOrder ==
  \A i \in DOMAIN queue : LET s == queue[i].from IN
    /\ age[s] >= queue[i].age /\ queue[i].age >= lastSent[s]
    /\ \A j \in 1..i : queue[j].from = s => queue[j].age >= queue[i].age

(* The receiver is there and goes on looking.                              *)
Looking == RRunning /\ ~rstop /\ rconnected

(* A sender whose thread has stopped is found dead.                        *)
StoppedIsFound ==
  \A s \in Sender : (spc[s] = "stopped" /\ s \in known /\ Looking) ~> (s \in dead \/ ~Looking)

(* A sensor that pauses its heartbeat is found dead: the fault monitor     *)
(* sees that one of the sensors is no longer beating.                      *)
PausedIsFound ==
  \A s \in Sender : (want[s] = "pause" /\ s \in known /\ Looking)
                       ~> (s \in dead \/ want[s] # "pause" \/ ~Looking)

(* A sender whose pause took effect falls silent and is found dead, however *)
(* full the queue was of its beats when it paused.                         *)
SilentIsFound ==
  \A s \in Sender :
    (spc[s] = "wake" /\ sstate[s] = "SHUTTING_DOWN" /\ s \in known /\ Looking)
       ~> (s \in dead \/ sstate[s] # "SHUTTING_DOWN" \/ ~Looking)

(* A sender found dead that is told to beat is found alive again.          *)
BeatingIsRevived ==
  \A s \in Sender : (s \in dead /\ want[s] = "beat" /\ sconnected[s] /\ Looking)
                       ~> (s \notin dead \/ want[s] # "beat" \/ sstop[s] \/ ~Looking)
===============================================================================
