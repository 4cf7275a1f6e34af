------------------------------ MODULE Assignment1 ------------------------------
(***************************************************************************)
(* Assignment1: sensor processes, each with a sensor that owns a heartbeat *)
(* sender and ends it when it fails, and a main program that owns the      *)
(* receiver.  The heartbeat itself is module Heartbeat, whose owners are   *)
(* replaced here by the real ones.  Main is no later than the threads.     *)
(***************************************************************************)
EXTENDS Heartbeat

VARIABLES
  mstate, \* _state of each sensor
  main,   \* where the main program is
  late    \* ticks since it started the receiver, while it adds the senders

program == <<mstate, main, late>>
allVars == <<vars, program>>

MeasureState == {"INIT", "PREFILL", "MEASURE", "FAILURE", "DEAD"}
MainPc == {"start", "add", "sleep", "end", "done"}

AInit == /\ Init /\ mstate = [s \in Sender |-> "INIT"]
         /\ main = "start" /\ late = 0

Moves(s, from, to) == mstate[s] = from /\ mstate' = [mstate EXCEPT ![s] = to]
-------------------------------------------------------------------------------
(* Assignment1::Sensor, in the thread that SensorProcess starts.           *)
MInit(s) == /\ Moves(s, "INIT", "PREFILL") /\ StartSender(s)
            /\ UNCHANGED <<main, late, receiver>>

MPrefill(s) == /\ Moves(s, "PREFILL", "MEASURE")
               /\ UNCHANGED <<main, late, vars>>

(* _measure: an error of a hundred percent is a failure.                   *)
MMeasure(s) == /\ Moves(s, "MEASURE", "FAILURE")
               /\ UNCHANGED <<main, late, vars>>

(* Mutant: a failing sensor does not end its heartbeat.                    *)
FailsQuietly(s) == Moves(s, "FAILURE", "DEAD") /\ UNCHANGED <<main, late, vars>>

(* _failure ends the heartbeat, ...                                        *)
MFailure(s) == /\ mstate[s] = "FAILURE" /\ EndSender(s)
               /\ UNCHANGED <<program, receiver>>

(* ... waits for its thread and is dead.                                   *)
MDead(s) == /\ sstop[s] /\ spc[s] = "stopped" /\ Moves(s, "FAILURE", "DEAD")
            /\ UNCHANGED <<main, late, vars>>

SensorThread(s) == MInit(s) \/ MPrefill(s) \/ MMeasure(s) \/ MFailure(s) \/ MDead(s)
-------------------------------------------------------------------------------
(* The main program starts the receiver, ...                               *)
StartsReceiver == /\ main = "start" /\ main' = "add" /\ StartReceiver
                  /\ UNCHANGED <<mstate, late, sender>>

(* ... adds the senders, ...                                               *)
AddsSender == /\ main = "add" /\ UNCHANGED <<program, sender>>
              /\ \E s \in Sender : AddSenderId(s)

AddedAll == /\ main = "add" /\ Sender \subseteq known
            /\ main' = "sleep" /\ late' = 0
            /\ UNCHANGED <<mstate, vars>>

(* ... and, a minute later, ends it and waits for its thread.              *)
EndsReceiver == /\ main = "sleep" /\ main' = "end" /\ EndReceiver
                /\ UNCHANGED <<mstate, late, sender>>

JoinsReceiver == /\ main = "end" /\ rpc = "stopped" /\ main' = "done"
                 /\ UNCHANGED <<mstate, late, vars>>

MainProgram == \/ StartsReceiver \/ AddsSender \/ AddedAll
               \/ EndsReceiver \/ JoinsReceiver
-------------------------------------------------------------------------------
ATick == /\ Tick /\ UNCHANGED <<mstate, main>>
         /\ IF main = "add" THEN late < Slack /\ late' = late + 1 ELSE UNCHANGED late

ASender(s) == SenderStep(s) /\ UNCHANGED <<receiver, program>>
AReceiver == ReceiverStep /\ UNCHANGED <<sender, program>>

ANext == \/ ATick \/ AReceiver \/ MainProgram
         \/ \E s \in Sender : ASender(s) \/ SensorThread(s)

ASpec == AInit /\ [][ANext]_allVars

(* Time goes on, the threads run, the sensors get to their measurements    *)
(* and finish what a failure began, and main starts and adds.  Nobody has  *)
(* to fail, and the minute has no end.                                     *)
AFairSpec ==
  /\ ASpec /\ WF_allVars(ATick) /\ WF_allVars(AReceiver)
  /\ WF_allVars(StartsReceiver \/ AddsSender \/ AddedAll \/ JoinsReceiver)
  /\ \A s \in Sender :
       /\ WF_allVars(ASender(s))
       /\ WF_allVars(MInit(s) \/ MPrefill(s) \/ MFailure(s) \/ MDead(s))
-------------------------------------------------------------------------------
(* The senders main waits for are known before the receiver's thread looks *)
(* at the map that addSenderId writes without its mutex.                   *)
AddedInTime == rstate \in {"LISTENING", "CHECK_PULSES"} => known = Sender

(* Once a beat of it has been recorded, a sensor that has not failed is    *)
(* never found dead, however the threads and their sleeps interleave, if   *)
(* the receiver allows for a beat's eleven segments and for the time it    *)
(* may wait in the queue.                                                  *)
OnlyFailedAreFound ==
  [][\A s \in dead' \ dead : s \notin heard \/ mstate[s] \in {"FAILURE", "DEAD"}]_allVars

(* The receiver sees that a sensor that has failed is no longer beating.   *)
FailedIsFound ==
  \A s \in Sender : (mstate[s] = "FAILURE") ~> (s \in dead \/ main \in {"end", "done"})
===============================================================================
