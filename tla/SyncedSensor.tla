----------------------------- MODULE SyncedSensor -----------------------------
(***************************************************************************)
(* Assignment2::Sensor: a state machine in a thread of its own, next to    *)
(* the thread of its FaultHandle::Server, which wakes it up and hands out  *)
(* its samples, and that of a Sync::Receiver, which replaces them.  The    *)
(* server and the queue to it are those of QueryChannel: commands are      *)
(* drained, handled late or not at all, and a late answer may be taken for *)
(* the next one.                                                           *)
(***************************************************************************)
EXTENDS Integers

CONSTANTS
  Primary, Secondary, \* the sensors; the primary sends its samples to the other
  SampleSize,         \* sample_size
  Failing,            \* bound: the sensors that may fail
  Sync                \* whether the primary's samples reach the secondary

Sensor == {Primary, Secondary}

ASSUME SyncedSensorAssumption == /\ Primary # Secondary /\ SampleSize \in Nat \ {0}
                                 /\ Failing \subseteq Sensor /\ Sync \in BOOLEAN

SensorState == {"INIT", "PREFILL", "MEASURE", "INACTIVE", "FAILURE", "DEAD"}

VARIABLES
  nstate,  \* _state
  npc,     \* where the thread is in the handler of its state
  active,  \* active, not initialized
  samples, \* _prevSamples.size()
  heart,   \* what its heartbeat sender does, see below
  serving, \* the server has been started
  cmd, hand, answer, woke \* the channels of the queries

Channels == INSTANCE QueryChannel

machine == <<nstate, npc, samples, heart, serving>>
channel == <<cmd, hand, answer, woke>>

SensorInit == /\ nstate = [s \in Sensor |-> "INIT"] /\ npc = [s \in Sensor |-> "run"]
              /\ active \in [Sensor -> BOOLEAN]
              /\ samples = [s \in Sensor |-> 0]
              /\ heart = [s \in Sensor |-> "off"]
              /\ serving = [s \in Sensor |-> FALSE]
              /\ Channels!Init

At(s, state, pc) == nstate[s] = state /\ npc[s] = pc
Goto(s, state, pc) == /\ nstate' = [nstate EXCEPT ![s] = state]
                      /\ npc' = [npc EXCEPT ![s] = pc]
SetActive(s, a) == active' = [active EXCEPT ![s] = a]

(* A sender beats, or has paused when its last beat was on its way or had  *)
(* arrived, or beats again but has not been heard yet.                     *)
HeartState == {"off", "beats", "last", "quiet", "again"}
Beating(s) == heart[s] \in {"beats", "again"}
SetHeart(s, h) == heart' = [heart EXCEPT ![s] = h]
-------------------------------------------------------------------------------
(* _init starts the threads that have not been started ...                 *)
NStart(s) == /\ At(s, "INIT", "run") /\ Goto(s, "INIT", "started")
             /\ SetHeart(s, IF heart[s] = "off" THEN "beats" ELSE heart[s])
             /\ serving' = [serving EXCEPT ![s] = TRUE]
             /\ UNCHANGED <<active, samples, channel>>

(* ... and then makes the sensor inactive.                                 *)
NInit(s) == /\ At(s, "INIT", "started") /\ Goto(s, "PREFILL", "run")
            /\ SetActive(s, FALSE)
            /\ UNCHANGED <<samples, heart, serving, channel>>

(* Mutant: the buffer keeps one sample more.                               *)
KeepsOneMore(n) == IF n + 1 > SampleSize THEN SampleSize ELSE n + 1

(* sample() and _cacheSample.                                              *)
Cached(n) == IF n + 1 >= SampleSize THEN SampleSize - 1 ELSE n + 1

(* _prefill samples sample_size - size() times.                            *)
NPrefill(s) == /\ At(s, "PREFILL", "run") /\ Goto(s, "INACTIVE", "run")
               /\ samples' = [samples EXCEPT ![s] =
                                IF @ < SampleSize THEN SampleSize - 1 ELSE @]
               /\ UNCHANGED <<active, heart, serving, channel>>

(* _measure: an error of a hundred percent is a failure.                   *)
NMeasure(s) == /\ At(s, "MEASURE", "run")
               /\ samples' = [samples EXCEPT ![s] = Cached(@)]
               /\ \/ Goto(s, "MEASURE", "run")
                  \/ s \in Failing /\ Goto(s, "FAILURE", "run")
               /\ UNCHANGED <<active, heart, serving, channel>>

NInactive(s) == /\ At(s, "INACTIVE", "run") /\ active[s] /\ Goto(s, "MEASURE", "run")
                /\ UNCHANGED <<active, samples, heart, serving, channel>>

(* _failure pauses the heartbeat: pauseBeat takes effect, after which one  *)
(* more beat may arrive, or is overwritten by the sender's thread, which   *)
(* had read its state before ...                                           *)
NPause(s) == /\ At(s, "FAILURE", "run") /\ Goto(s, "FAILURE", "paused")
             /\ SetHeart(s, "last") \/ SetHeart(s, "quiet") \/ UNCHANGED heart
             /\ UNCHANGED <<active, samples, serving, channel>>

(* ... and then makes the sensor inactive.                                 *)
NFailure(s) == /\ At(s, "FAILURE", "paused") /\ Goto(s, "DEAD", "run")
               /\ SetActive(s, FALSE)
               /\ UNCHANGED <<samples, heart, serving, channel>>

(* Mutant: a dead sensor that is woken up does not beat again.             *)
WakesSilently(s) == /\ At(s, "DEAD", "run") /\ active[s] /\ Goto(s, "DEAD", "resumed")
                    /\ UNCHANGED <<active, samples, heart, serving, channel>>

(* _dead resumes the heartbeat, which nothing overwrites by a state        *)
(* without one, and then starts again.                                     *)
NResume(s) == /\ At(s, "DEAD", "run") /\ active[s] /\ Goto(s, "DEAD", "resumed")
              /\ SetHeart(s, IF Beating(s) THEN heart[s] ELSE "again")
              /\ UNCHANGED <<active, samples, serving, channel>>

NDead(s) == /\ At(s, "DEAD", "resumed") /\ Goto(s, "INIT", "run")
            /\ UNCHANGED <<active, samples, heart, serving, channel>>

Machine(s) == \/ NStart(s) \/ NInit(s) \/ NPrefill(s) \/ NMeasure(s)
              \/ NInactive(s) \/ NPause(s) \/ NFailure(s) \/ NResume(s) \/ NDead(s)
-------------------------------------------------------------------------------
(* The server: its signal calls handleWakeup.  handleGetData copies the    *)
(* samples without the mutex and changes nothing.                          *)
Take(s) == serving[s] /\ Channels!Take(s) /\ UNCHANGED <<machine, active>>

Wakeup(s) == Channels!Handle(s) /\ SetActive(s, TRUE) /\ UNCHANGED machine

Reply(s) == Channels!Reply(s) /\ UNCHANGED <<machine, active>>

Lose(s) == serving[s] /\ Channels!Lose(s) /\ UNCHANGED <<machine, active>>

Server(s) == Take(s) \/ Wakeup(s) \/ Reply(s)

(* handleRxValues, in the thread of the secondary's sync receiver.         *)
RxValues == /\ Sync /\ serving[Secondary] /\ samples[Primary] > 0
            /\ samples' = [samples EXCEPT ![Secondary] = samples[Primary]]
            /\ UNCHANGED <<nstate, npc, heart, serving, active, channel>>

SensorSide == (\E s \in Sensor : Machine(s) \/ Server(s) \/ Lose(s)) \/ RxValues
===============================================================================
