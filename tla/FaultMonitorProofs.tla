-------------------------- MODULE FaultMonitorProofs --------------------------
(***************************************************************************)
(* What the failover of Assignment2 keeps for every size of the buffer,    *)
(* every PRI_NUM_CYCLES_ALIVE and whichever sensors fail.                  *)
(***************************************************************************)
EXTENDS FaultMonitor, TLAPS

(* The monitor wakes the secondary up only for a dead primary, and counts  *)
(* the rounds of the primary from zero.                                    *)
Counter ==
  /\ fstate = "WAKING_SECONDARY" => isDead[Primary]
  /\ fstate = "RUNNING_SECONDARY" => counting \/ (fpc = "run" /\ isDead[Primary])
  /\ AtF("RUNNING_SECONDARY", "run") => isDead[Primary] \/ aliveCnt <= Cycles

IInv == TypeOK /\ Counter
-------------------------------------------------------------------------------
LEMMA InitInv == Init => IInv
<1> SUFFICES ASSUME Init PROVE IInv OBVIOUS
<1> USE SyncedSensorAssumption, FaultMonitorAssumption DEF Init, SensorInit
<1>1. TypeOK
  <2>1. 0 \in 0..SampleSize - 1 /\ aliveCnt \in 0..Cycles + 1 OBVIOUS
  <2>2. /\ nstate \in [Sensor -> SensorState] /\ fstate \in MonitorState
        /\ npc \in [Sensor -> {"run", "started", "paused", "resumed"}]
        /\ heart \in [Sensor -> HeartState]
    BY DEF SensorState, MonitorState, HeartState
  <2>3. samples \in [Sensor -> 0..SampleSize - 1] BY <2>1
  <2>4. Channels!TypeOK /\ serving \in [Sensor -> BOOLEAN]
    BY DEF Channels!TypeOK, Channels!Init
  <2> QED BY <2>1, <2>2, <2>3, <2>4 DEF TypeOK
<1>2. Counter BY DEF Counter, AtF
<1> QED BY <1>1, <1>2 DEF IInv

(* A step of a sensor leaves the counter of the monitor alone.              *)
LEMMA SensorKeepsCounter ==
  ASSUME IInv, UNCHANGED monitor PROVE Counter'
BY DEF IInv, Counter, AtF, monitor

(* The channel at rest.                                                    *)
LEMMA Idle == ASSUME TypeOK, UNCHANGED channel PROVE Channels!TypeOK'
BY DEF TypeOK, Channels!TypeOK, channel

LEMMA MachineInv ==
  ASSUME IInv, NEW s \in Sensor, Machine(s), UNCHANGED <<monitor, deadIds, heard>>
  PROVE IInv'
<1> USE SyncedSensorAssumption, FaultMonitorAssumption
        DEF IInv, channel, monitor, At, Goto, SetActive, SetHeart, TypeOK, SensorState
<1>c. Counter' BY SensorKeepsCounter
<1>i. Channels!TypeOK'
  BY Idle DEF Machine, NStart, NInit, NPrefill, NMeasure, NInactive, NPause, NFailure,
              NResume, NDead
<1>1. CASE NStart(s) BY <1>1, <1>c, <1>i DEF NStart, HeartState
<1>2. CASE NInit(s) BY <1>2, <1>c, <1>i DEF NInit
<1>3. CASE NPrefill(s) BY <1>3, <1>c, <1>i DEF NPrefill
<1>4. CASE NMeasure(s) BY <1>4, <1>c, <1>i DEF NMeasure, Cached
<1>5. CASE NInactive(s) BY <1>5, <1>c, <1>i DEF NInactive
<1>6. CASE NPause(s) BY <1>6, <1>c, <1>i DEF NPause, HeartState
<1>7. CASE NFailure(s) BY <1>7, <1>c, <1>i DEF NFailure
<1>8. CASE NResume(s) BY <1>8, <1>c, <1>i DEF NResume, HeartState
<1>9. CASE NDead(s) BY <1>9, <1>c, <1>i DEF NDead
<1> QED BY <1>1, <1>2, <1>3, <1>4, <1>5, <1>6, <1>7, <1>8, <1>9 DEF Machine

(* No step of a channel, of either side, leaves its types.                 *)
LEMMA ChannelTyped ==
  ASSUME Channels!TypeOK, NEW s \in Sensor,
         \/ Channels!Ask(s, TRUE) \/ Channels!Ask(s, FALSE)
         \/ Channels!Answered(s) \/ Channels!Failed(s) \/ Channels!Take(s)
         \/ Channels!Handle(s) \/ Channels!Reply(s) \/ Channels!Lose(s)
  PROVE  Channels!TypeOK'
BY DEF Channels!TypeOK, Channels!Ask, Channels!Answered, Channels!Failed, Channels!Take,
       Channels!Handle, Channels!Reply, Channels!Lose

(* The server of a sensor, and the samples the secondary receives.         *)
LEMMA ServerInv ==
  ASSUME IInv, (\E s \in Sensor : Server(s) \/ Lose(s)) \/ RxValues,
         UNCHANGED <<monitor, deadIds, heard>>
  PROVE  IInv'
<1> USE SyncedSensorAssumption, FaultMonitorAssumption
        DEF IInv, machine, monitor, SetActive
<1>c. Counter' BY SensorKeepsCounter
<1>k. Primary \in Sensor /\ Secondary \in Sensor BY DEF Sensor
<1>1. CASE \E s \in Sensor : Server(s) \/ Lose(s)
  <2> PICK s \in Sensor : Server(s) \/ Lose(s) BY <1>1
  <2>1. Channels!TypeOK'
    BY ChannelTyped DEF TypeOK, Server, Take, Wakeup, Reply, Lose
  <2>2. UNCHANGED machine /\ active' \in [Sensor -> BOOLEAN]
    BY DEF TypeOK, Server, Take, Wakeup, Reply, Lose
  <2>3. TypeOK' BY <2>1, <2>2 DEF TypeOK
  <2> QED BY <1>c, <2>3
<1>2. CASE RxValues
  <2>1. Channels!TypeOK' BY <1>2, Idle DEF TypeOK, RxValues
  <2>2. TypeOK' BY <1>2, <1>k, <2>1 DEF TypeOK, RxValues
  <2> QED BY <1>c, <2>2
<1> QED BY <1>1, <1>2
-------------------------------------------------------------------------------
(* What the parts of a query do to the channel.                            *)
LEMMA Querying ==
  ASSUME TypeOK, NEW s \in Sensor,
         Ask(s, "WAKEUP") \/ Ask(s, "GETDATA") \/ Answered(s) \/ Failed(s)
  PROVE  Channels!TypeOK'
<1>1. serving[s] \in BOOLEAN BY DEF TypeOK
<1> QED BY <1>1, ChannelTyped DEF TypeOK, Ask, Answered, Failed

LEMMA MonitorInv ==
  ASSUME IInv, Monitor PROVE IInv'
<1> USE SyncedSensorAssumption, FaultMonitorAssumption DEF IInv, AtF, GotoF, SetDead
<1>u. UNCHANGED <<machine, active, deadIds, heard>> BY DEF Monitor
<1>k. Primary \in Sensor /\ Secondary \in Sensor BY DEF Sensor
<1>t. ASSUME Channels!TypeOK', fstate' \in MonitorState,
             fpc' \in {"run", "asked", "woken", "waking", "second"},
             isDead' \in [Sensor -> BOOLEAN], aliveCnt' \in 0..Cycles + 1, counting' \in BOOLEAN
      PROVE TypeOK'
  BY <1>u, <1>t DEF TypeOK, machine
<1>1. CASE FInit
  <2>1. Channels!TypeOK' BY <1>1, Idle DEF FInit
  <2>2. TypeOK' BY <1>1, <1>t, <2>1 DEF FInit, TypeOK, MonitorState
  <2>3. Counter' BY <1>1 DEF Counter, FInit
  <2> QED BY <2>2, <2>3
<1>2. ASSUME NEW s \in Sensor, FWakes(s) PROVE IInv'
  <2>1. Channels!TypeOK' BY <1>2, Idle, Querying DEF FWakes
  <2>2. TypeOK' BY <1>2, <1>t, <2>1 DEF FWakes, TypeOK, MonitorState, Waking, RunningOf
  <2>3. Counter' BY <1>2, <1>k DEF Counter, FWakes, TypeOK, Waking, RunningOf, Sensor
  <2> QED BY <2>2, <2>3
<1>3. CASE FLooks
  <2>1. Channels!TypeOK' BY <1>3, <1>k, Idle, Querying DEF FLooks
  <2>2. TypeOK' BY <1>3, <1>t, <2>1 DEF FLooks, TypeOK, MonitorState
  <2>3. Counter' BY <1>3 DEF Counter, FLooks
  <2> QED BY <2>2, <2>3
<1>4. CASE FGotPrimary
  <2>1. Channels!TypeOK' BY <1>4, <1>k, Querying DEF FGotPrimary
  <2>2. TypeOK' BY <1>4, <1>t, <2>1 DEF FGotPrimary, TypeOK, MonitorState
  <2>3. Counter' BY <1>4 DEF Counter, FGotPrimary
  <2> QED BY <2>2, <2>3
<1>5. CASE FTriesPrimary
  <2>1. Channels!TypeOK' BY <1>5, <1>k, Querying DEF FTriesPrimary
  <2>2. TypeOK' BY <1>5, <1>t, <2>1 DEF FTriesPrimary, TypeOK, MonitorState
  <2>3. Counter' BY <1>5 DEF Counter, FTriesPrimary
  <2> QED BY <2>2, <2>3
<1>6. CASE FCounts
  <2>1. Channels!TypeOK' BY <1>6, Idle DEF FCounts
  <2>2. TypeOK' BY <1>6, <1>t, <2>1 DEF FCounts, TypeOK, MonitorState, Counter
  <2>3. Counter' BY <1>6 DEF Counter, FCounts
  <2> QED BY <2>2, <2>3
<1>7. CASE FTried
  <2>1. Channels!TypeOK' BY <1>7, <1>k, Idle, Querying DEF FTried
  <2>2. TypeOK' BY <1>7, <1>t, <2>1 DEF FTried, TypeOK, MonitorState
  <2>3. Counter' BY <1>7 DEF Counter, FTried
  <2> QED BY <2>2, <2>3
<1>8. CASE FSecond
  <2>1. Channels!TypeOK' BY <1>8, <1>k, Idle, Querying DEF FSecond
  <2>2. TypeOK' BY <1>8, <1>t, <2>1 DEF FSecond, TypeOK, MonitorState
  <2>3. Counter' BY <1>8 DEF Counter, FSecond
  <2> QED BY <2>2, <2>3
<1>9. CASE FGotSecondary
  <2>1. Channels!TypeOK' BY <1>9, <1>k, Querying DEF FGotSecondary
  <2>2. TypeOK' BY <1>9, <1>t, <2>1 DEF FGotSecondary, TypeOK, MonitorState
  <2>3. Counter' BY <1>9 DEF Counter, FGotSecondary, TypeOK
  <2> QED BY <2>2, <2>3
<1> QED BY <1>1, <1>2, <1>3, <1>4, <1>5, <1>6, <1>7, <1>8, <1>9 DEF Monitor

LEMMA BeatInv ==
  ASSUME IInv, NEW s \in Sensor, Beat(s) PROVE IInv'
<1>0. Channels!TypeOK' BY Idle DEF IInv, Beat
<1> USE DEF IInv, Beat, channel, monitor
<1>1. TypeOK' BY <1>0 DEF TypeOK, SetHeart, HeartState
<1>2. Counter' BY SensorKeepsCounter
<1> QED BY <1>1, <1>2

LEMMA NewDeadInv ==
  ASSUME IInv, NEW s \in Sensor, NewDead(s) PROVE IInv'
<1>0. Channels!TypeOK' BY Idle DEF IInv, NewDead
<1> USE DEF IInv, NewDead, channel, SetDead
<1>1. TypeOK' BY <1>0 DEF TypeOK, machine
<1>2. isDead[Primary] => isDead'[Primary]
  BY DEF TypeOK, Sensor
<1>3. Counter' BY <1>2 DEF Counter, AtF
<1> QED BY <1>1, <1>3

LEMMA NextInv == IInv /\ [Next]_vars => IInv'
<1> SUFFICES ASSUME IInv, [Next]_vars PROVE IInv' OBVIOUS
<1>1. CASE Monitor BY <1>1, MonitorInv
<1>2. CASE SensorSide /\ UNCHANGED <<monitor, deadIds, heard>>
  BY <1>2, MachineInv, ServerInv DEF SensorSide
<1>3. CASE \E s \in Sensor : Beat(s) \/ NewDead(s) BY <1>3, BeatInv, NewDeadInv
<1>4. CASE UNCHANGED vars
  <2>1. Channels!TypeOK' BY <1>4, Idle DEF vars, IInv
  <2> QED BY <1>4, <2>1 DEF vars, machine, monitor, IInv, TypeOK, Counter, AtF
<1> QED BY <1>1, <1>2, <1>3, <1>4 DEF Next

THEOREM Invariant == Spec => []IInv
<1> QED BY InitInv, NextInv, PTL DEF Spec
-------------------------------------------------------------------------------
(* The sensors, their channels, the monitor and the heartbeat receiver     *)
(* stay well formed; no buffer ever holds sample_size samples, and the     *)
(* count of rounds does not run past PRI_NUM_CYCLES_ALIVE.                 *)
THEOREM TypeCorrect == Spec => []TypeOK
<1>1. IInv => TypeOK BY DEF IInv
<1> QED BY <1>1, Invariant, PTL

(* _primaryAliveCnt, which no constructor sets, is never counted up from   *)
(* what the memory held.                                                   *)
THEOREM CountInitialized == Spec => []CountIsSet
<1>1. IInv => CountIsSet BY DEF IInv, Counter, CountIsSet, AtF
<1> QED BY <1>1, Invariant, PTL

(* _runningSecondary leaves a living secondary only for a primary that was *)
(* not found dead for more than PRI_NUM_CYCLES_ALIVE rounds.               *)
THEOREM SwitchesBackInTime == Spec => SwitchBack
<1> DEFINE A == fstate = "RUNNING_SECONDARY" /\ fstate' = "WAKING_PRIMARY"
                  => isDead[Secondary] \/ (counting /\ aliveCnt > Cycles)
<1>1. IInv /\ [Next]_vars => [A]_vars
  <2> SUFFICES ASSUME IInv, Next, fstate = "RUNNING_SECONDARY", fstate' = "WAKING_PRIMARY"
               PROVE isDead[Secondary] \/ (counting /\ aliveCnt > Cycles)
    OBVIOUS
  <2>1. Monitor BY DEF Next, monitor, Beat, NewDead
  <2>2. CASE FGotSecondary BY <2>2 DEF FGotSecondary, GotoF, AtF, IInv, Counter
  <2>3. CASE FSecond BY <2>3 DEF FSecond, GotoF, AtF
  <2> QED BY <2>1, <2>2, <2>3 DEF Monitor, FInit, FWakes, FLooks, FGotPrimary, FTriesPrimary,
                                  FCounts, FTried, AtF, GotoF, Waking, RunningOf
<1>2. Spec => [][A]_vars BY <1>1, Invariant, PTL DEF Spec
<1> QED BY <1>2 DEF SwitchBack
===============================================================================
