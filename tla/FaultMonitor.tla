----------------------------- MODULE FaultMonitor -----------------------------
(***************************************************************************)
(* Assignment2::FaultMonitor with its two sensors.  Its thread wakes up    *)
(* and queries the sensors; the thread of its heartbeat receiver, reduced  *)
(* to what module Heartbeat shows of it, reports the sensors that have     *)
(* become dead, each only when it was not on the list of the dead before.  *)
(***************************************************************************)
EXTENDS SyncedSensor

CONSTANT Cycles  \* PRI_NUM_CYCLES_ALIVE

ASSUME FaultMonitorAssumption == Cycles \in Nat

MonitorState == {"INIT", "WAKING_PRIMARY", "RUNNING_PRIMARY", "WAKING_SECONDARY",
                 "RUNNING_SECONDARY"}

VARIABLES
  fstate,   \* _state
  fpc,      \* where the thread is in the handler of its state
  isDead,   \* _primaryDead and _secondaryDead
  aliveCnt, \* _primaryAliveCnt, not initialized
  counting, \* ghost: _primaryAliveCnt has been set
  deadIds,  \* the dead of the heartbeat receiver
  heard     \* the senders it has recorded a beat of

monitor == <<fstate, fpc, isDead, aliveCnt, counting>>
vars == <<machine, active, channel, monitor, deadIds, heard>>

Init == /\ SensorInit
        /\ fstate = "INIT" /\ fpc = "run"
        /\ isDead = [s \in Sensor |-> FALSE]
        /\ aliveCnt \in {0, Cycles + 1} /\ counting = FALSE
        /\ deadIds = {} /\ heard = {}

AtF(state, pc) == fstate = state /\ fpc = pc
GotoF(state, pc) == fstate' = state /\ fpc' = pc
-------------------------------------------------------------------------------
(* query(): the queue, if the server has made it, is drained and the       *)
(* command sent ...                                                        *)
Ask(s, k) == Channels!Ask(s, serving[s] /\ k = "WAKEUP")
Answered(s) == Channels!Answered(s)
Failed(s) == Channels!Failed(s)

SetDead(s, d) == isDead' = [isDead EXCEPT ![s] = d]

FInit == /\ AtF("INIT", "run") /\ GotoF("WAKING_PRIMARY", "run")
         /\ UNCHANGED <<isDead, aliveCnt, counting, channel>>

(* _wakingPrimary and _wakingSecondary: the death is forgotten some time   *)
(* after the answer.                                                       *)
Waking(s) == IF s = Primary THEN "WAKING_PRIMARY" ELSE "WAKING_SECONDARY"
RunningOf(s) == IF s = Primary THEN "RUNNING_PRIMARY" ELSE "RUNNING_SECONDARY"

FWakes(s) ==
  \/ /\ AtF(Waking(s), "run") /\ GotoF(Waking(s), "asked")
     /\ Ask(s, "WAKEUP") /\ UNCHANGED <<isDead, aliveCnt, counting>>
  \/ /\ AtF(Waking(s), "asked") /\ GotoF(Waking(s), "run")
     /\ Failed(s) /\ UNCHANGED <<isDead, aliveCnt, counting>>
  \/ /\ AtF(Waking(s), "asked") /\ GotoF(Waking(s), "woken")
     /\ Answered(s) /\ UNCHANGED <<isDead, aliveCnt, counting>>
  \/ /\ AtF(Waking(s), "woken") /\ GotoF(RunningOf(s), "run")
     /\ SetDead(s, FALSE) /\ UNCHANGED <<aliveCnt, counting, channel>>

(* Mutant: the monitor asks the dead primary for data before it looks.     *)
DeadIsIgnored ==
  /\ AtF("RUNNING_PRIMARY", "run") /\ GotoF("RUNNING_PRIMARY", "asked")
  /\ Ask(Primary, "GETDATA") /\ UNCHANGED <<isDead, aliveCnt, counting>>

(* _runningPrimary.                                                        *)
FLooks ==
  /\ AtF("RUNNING_PRIMARY", "run")
  /\ \/ isDead[Primary] /\ GotoF("WAKING_SECONDARY", "run") /\ UNCHANGED channel
     \/ /\ ~isDead[Primary] /\ GotoF("RUNNING_PRIMARY", "asked")
        /\ Ask(Primary, "GETDATA")
  /\ UNCHANGED <<isDead, aliveCnt, counting>>

(* Mutant: the count is not set while the primary is dead.                 *)
CountsOn == /\ AtF("RUNNING_SECONDARY", "run") /\ isDead[Primary]
            /\ GotoF("RUNNING_SECONDARY", "waking")
            /\ Ask(Primary, "WAKEUP") /\ UNCHANGED <<isDead, aliveCnt, counting>>

(* _runningSecondary, whose first third tries to wake the primary up or    *)
(* counts the rounds it has been alive, ...                                *)
FTriesPrimary == /\ AtF("RUNNING_SECONDARY", "run") /\ isDead[Primary]
                 /\ GotoF("RUNNING_SECONDARY", "waking")
                 /\ aliveCnt' = 0 /\ counting' = TRUE
                 /\ Ask(Primary, "WAKEUP") /\ UNCHANGED isDead

FCounts == /\ AtF("RUNNING_SECONDARY", "run") /\ ~isDead[Primary]
           /\ GotoF("RUNNING_SECONDARY", "second")
           /\ aliveCnt' = aliveCnt + 1
           /\ UNCHANGED <<isDead, counting, channel>>

FTried ==
  \/ /\ AtF("RUNNING_SECONDARY", "waking") /\ GotoF("RUNNING_SECONDARY", "second")
     /\ Failed(Primary) /\ UNCHANGED <<isDead, aliveCnt, counting>>
  \/ /\ AtF("RUNNING_SECONDARY", "waking") /\ GotoF("RUNNING_SECONDARY", "woken")
     /\ Answered(Primary) /\ UNCHANGED <<isDead, aliveCnt, counting>>
  \/ /\ AtF("RUNNING_SECONDARY", "woken") /\ GotoF("RUNNING_SECONDARY", "second")
     /\ SetDead(Primary, FALSE) /\ UNCHANGED <<aliveCnt, counting, channel>>

(* ... whose second leaves a dead secondary or asks it for data, ...       *)
FSecond ==
  /\ AtF("RUNNING_SECONDARY", "second")
  /\ \/ isDead[Secondary] /\ GotoF("WAKING_PRIMARY", "run") /\ UNCHANGED channel
     \/ /\ ~isDead[Secondary] /\ GotoF("RUNNING_SECONDARY", "asked")
        /\ Ask(Secondary, "GETDATA")
  /\ UNCHANGED <<isDead, aliveCnt, counting>>

FGotPrimary == /\ AtF("RUNNING_PRIMARY", "asked") /\ GotoF("RUNNING_PRIMARY", "run")
               /\ Failed(Primary) /\ UNCHANGED <<isDead, aliveCnt, counting>>

(* Mutant: one round fewer is enough.                                      *)
SwitchesEarly ==
  /\ AtF("RUNNING_SECONDARY", "asked") /\ Failed(Secondary)
  /\ GotoF(IF aliveCnt >= Cycles THEN "WAKING_PRIMARY" ELSE "RUNNING_SECONDARY", "run")
  /\ UNCHANGED <<isDead, aliveCnt, counting>>

(* ... and whose last goes back to a primary that has been alive for       *)
(* enough rounds.                                                          *)
FGotSecondary ==
  /\ AtF("RUNNING_SECONDARY", "asked") /\ Failed(Secondary)
  /\ GotoF(IF aliveCnt > Cycles THEN "WAKING_PRIMARY" ELSE "RUNNING_SECONDARY", "run")
  /\ UNCHANGED <<isDead, aliveCnt, counting>>

Monitor == /\ \/ FInit \/ (\E s \in Sensor : FWakes(s)) \/ FLooks \/ FGotPrimary
              \/ FTriesPrimary \/ FCounts \/ FTried \/ FSecond \/ FGotSecondary
           /\ UNCHANGED <<machine, active, deadIds, heard>>
-------------------------------------------------------------------------------
(* A beat reaches the receiver made in _init, which has the sensor off the *)
(* list of the dead without a signal: a new one, or one that was on its    *)
(* way when the sensor paused.  Beats of sensors that never fail make no   *)
(* difference; how long a beat takes is the matter of module Heartbeat.    *)
Beat(s) == /\ fstate # "INIT" /\ s \in Failing
           /\ \/ Beating(s) /\ SetHeart(s, "beats")
              \/ heart[s] = "last" /\ SetHeart(s, "quiet")
           /\ heard' = heard \cup {s} /\ deadIds' = deadIds \ {s}
           /\ UNCHANGED <<nstate, npc, samples, serving, active, channel, monitor>>

(* A sender silent for the expired interval: sigNewDead, _handleNewDead.   *)
(* The receiver has emptied its queue before.                              *)
NewDead(s) == /\ s \in heard \ deadIds /\ heart[s] \in {"quiet", "again"}
              /\ deadIds' = deadIds \cup {s} /\ SetDead(s, TRUE)
              /\ UNCHANGED <<machine, active, channel, fstate, fpc, aliveCnt, counting, heard>>

Next == \/ Monitor
        \/ SensorSide /\ UNCHANGED <<monitor, deadIds, heard>>
        \/ \E s \in Sensor : Beat(s) \/ NewDead(s)

Spec == Init /\ [][Next]_vars

Others == <<monitor, deadIds, heard>>

(* The threads run, beats arrive and silence is noticed; of a sensor that  *)
(* never fails not even that is asked.  Queries may all fail.              *)
FairSpec ==
  /\ Spec /\ WF_vars(Monitor)
  /\ \A s \in Failing : /\ WF_vars(Machine(s) /\ UNCHANGED Others)
                       /\ WF_vars(Server(s) /\ UNCHANGED Others)
                       /\ WF_vars(Beat(s)) /\ WF_vars(NewDead(s))
-------------------------------------------------------------------------------
(* The types; the buffer of samples never reaches sample_size.             *)
TypeOK == /\ nstate \in [Sensor -> SensorState]
          /\ npc \in [Sensor -> {"run", "started", "paused", "resumed"}]
          /\ active \in [Sensor -> BOOLEAN]
          /\ samples \in [Sensor -> 0..SampleSize - 1]
          /\ heart \in [Sensor -> HeartState]
          /\ serving \in [Sensor -> BOOLEAN] /\ Channels!TypeOK
          /\ fstate \in MonitorState
          /\ fpc \in {"run", "asked", "woken", "waking", "second"}
          /\ isDead \in [Sensor -> BOOLEAN]
          /\ aliveCnt \in 0..Cycles + 1 /\ counting \in BOOLEAN
          /\ deadIds \subseteq heard /\ heard \subseteq Sensor

(* _primaryAliveCnt is never counted up from what the memory held: the     *)
(* monitor comes to the secondary only with the primary marked dead.       *)
CountIsSet == AtF("RUNNING_SECONDARY", "run") /\ ~isDead[Primary] => counting

(* The monitor leaves a living secondary only after more rounds than       *)
(* PRI_NUM_CYCLES_ALIVE in which it did not find the primary dead.         *)
SwitchBack ==
  [][fstate = "RUNNING_SECONDARY" /\ fstate' = "WAKING_PRIMARY"
       => isDead[Secondary] \/ (counting /\ aliveCnt > Cycles)]_vars

(* A dead sensor whose heartbeat has stopped.                              *)
Silent(s) == nstate[s] = "DEAD" /\ ~Beating(s)

(* The first silence of a sensor, or one whose sender was found alive      *)
(* before, makes the monitor leave it.                                     *)
NewDeathIsNoticed ==
  (fstate = "RUNNING_PRIMARY" /\ Primary \in heard \ deadIds /\ Silent(Primary))
     ~> (fstate # "RUNNING_PRIMARY" \/ ~Silent(Primary))

(* A dead sensor that is woken up is found alive unless it fails again,    *)
(* however late the wake-up was handled, whether or not the monitor got    *)
(* its answer, and although _init makes the sensor inactive.               *)
WokenIsRevived ==
  \A s \in Failing : (s \in deadIds /\ nstate[s] = "DEAD" /\ active[s])
                        ~> (s \notin deadIds \/ nstate[s] = "FAILURE")

(* If the primary sensor fails, the fault monitor switches to listening to *)
(* the secondary sensor.                                                   *)
DeathIsNoticed ==
  (fstate = "RUNNING_PRIMARY" /\ Silent(Primary))
     ~> (fstate # "RUNNING_PRIMARY" \/ ~Silent(Primary))
===============================================================================
