--------------------------- MODULE Assignment1Proofs ---------------------------
(***************************************************************************)
(* Proofs about Assignment1, for any number of sensors and any intervals:  *)
(* its programs use the heartbeat as module Heartbeat lets its owners do,  *)
(* so that what is proved there holds here; main has added its senders     *)
(* before the receiver listens, if the receiver's first sleeps are longer  *)
(* than main may be late; the queue is never full, if it has room for the  *)
(* beats made while the receiver is away; and then only sensors that       *)
(* failed are found dead, if the interval is long enough for every sleep   *)
(* to be late.                                                             *)
(***************************************************************************)
EXTENDS Assignment1, HeartbeatProofs, FiniteSetTheorems

(* Every step of the programs is one of the heartbeat, or none of it.      *)
LEMMA StepImplements == [ANext]_allVars => [Next]_vars
<1> SUFFICES ASSUME ANext PROVE Next \/ UNCHANGED vars
  BY DEF allVars
<1>1. CASE ATick
  BY <1>1 DEF ATick, Next
<1>2. CASE AReceiver
  BY <1>2 DEF AReceiver, ReceiverSide, Next
<1>3. CASE MainProgram
  BY <1>3 DEF MainProgram, StartsReceiver, AddsSender, AddedAll, EndsReceiver, JoinsReceiver,
              ReceiverOwner, ReceiverSide, Next
<1>4. ASSUME NEW s \in Sender, ASender(s) \/ SensorThread(s) PROVE Next \/ UNCHANGED vars
  <2>1. CASE ASender(s)
    BY <2>1 DEF ASender, SenderSide, Next
  <2>2. CASE MInit(s) \/ MFailure(s)
    BY <2>2 DEF MInit, MFailure, Owner, SenderSide, Next
  <2>3. CASE MPrefill(s) \/ MMeasure(s) \/ MDead(s)
    BY <2>3 DEF MPrefill, MMeasure, MDead
  <2> QED BY <1>4, <2>1, <2>2, <2>3 DEF SensorThread
<1> QED BY <1>1, <1>2, <1>3, <1>4 DEF ANext

(* Sensors and main use the heartbeat as its module lets its owners do.    *)
THEOREM Uses == ASpec => Spec
<1>1. AInit => Init
  BY DEF AInit
<1> QED BY <1>1, StepImplements, PTL DEF ASpec, Spec

(* The beats of Assignment1's sensors are recorded in the order they were  *)
(* made.                                                                   *)
THEOREM ProgramOrdered == ASpec => []BeatsInOrder
BY Uses, Ordered, PTL

(* No sensor of Assignment1 is found dead that was not suspected before.   *)
THEOREM ProgramSuspectsFirst == ASpec => []DeadWereSuspected
BY Uses, SuspectedFirst, PTL
-------------------------------------------------------------------------------
(* While main adds, the receiver is before the end of its first sleep, and *)
(* main is late by less than is left of it.                                *)
Waits == \/ rstate = "INIT" /\ rpc \in {"first", "init"}
         \/ rstate = "CREATING_MQ" /\ rpc = "wake" /\ rsleep >= CreateSleep - late

AddingInv == /\ main \in MainPc /\ late \in 0..Slack
             /\ main = "start" => rstate = "INIT" /\ rpc = "off"
             /\ main = "add" => Waits
             /\ main \in {"sleep", "end", "done"} => Sender \subseteq known

(* A receiver that has not been started does nothing, and one that waits   *)
(* only goes as far as its sleep.                                          *)
LEMMA WaitingStep ==
  ASSUME Slack < CreateSleep, IInv, AddingInv, AReceiver, main \in {"start", "add"}
  PROVE  main = "add" /\ Waits'
<1>1. /\ ReceiverStep /\ late' = late /\ late \in 0..Slack /\ Slack \in Nat /\ CreateSleep \in Nat
      /\ rsleep \in Int
  BY HeartbeatAssumption, ReceiverAssumption
     DEF AReceiver, program, AddingInv, IInv, TypeOK
<1>2. rpc # "off"
  BY <1>1 DEF ReceiverStep, RWake, RStop, RInit, RCreate, RRecord, RListened, RCrash, RPulses,
              RCheck, RChecked, RGoOn, RSleep
<1>3. main = "add" /\ Waits
  BY <1>2 DEF AddingInv
<1>4. CASE rpc = "first"
  BY <1>1, <1>3, <1>4
     DEF Waits, ReceiverStep, RWake, RStop, RInit, RCreate, RRecord, RListened, RCrash, RPulses,
         RCheck, RChecked, RGoOn, RSleep, RHandler
<1>5. CASE rpc = "init"
  <2>1. RInit
    BY <1>1, <1>5 DEF ReceiverStep, RWake, RStop, RCreate, RRecord, RListened, RCrash, RPulses,
                      RCheck, RChecked, RGoOn, RSleep
  <2> QED BY <1>1, <1>3, <2>1 DEF Waits, RInit, RSleep
<1>6. CASE rpc = "wake"
  <2>1. rsleep > 0
    BY <1>1, <1>3, <1>6 DEF Waits
  <2>2. FALSE
    BY <1>1, <1>6, <2>1
       DEF ReceiverStep, RWake, RStop, RInit, RCreate, RRecord, RListened, RCrash, RPulses,
           RCheck, RChecked, RGoOn, RSleep
  <2> QED BY <2>2
<1> QED BY <1>3, <1>4, <1>5, <1>6 DEF Waits

(* The senders that are known stay known.                                  *)
LEMMA KnownGrows == ASSUME IInv, [ANext]_allVars PROVE known \subseteq known'
<1>1. [Next]_vars
  BY StepImplements
<1>2. CASE Tick \/ UNCHANGED vars
  BY <1>2 DEF Tick, vars, receiver
<1>3. CASE ReceiverSide
  BY <1>3 DEF ReceiverSide, ReceiverStep, ReceiverOwner, RWake, RStop, RInit, RCreate, RRecord,
              RListened, RCrash, RPulses, RCheck, RChecked, StartReceiver, AddSenderId,
              EndReceiver, DisconnectReceiver, records
<1>4. ASSUME NEW s \in Sender, SenderSide(s) PROVE known \subseteq known'
  BY <1>4 DEF SenderSide, receiver
<1> QED BY <1>1, <1>2, <1>3, <1>4 DEF Next

(* No step lets the receiver overtake main.                                *)
LEMMA AddingStep ==
  ASSUME Slack < CreateSleep, IInv, AddingInv, [ANext]_allVars
  PROVE  AddingInv'
<1>1. known \subseteq known'
  BY KnownGrows
<1>2. Slack \in Nat /\ CreateSleep \in Nat /\ rsleep \in Int /\ late \in 0..Slack
  BY HeartbeatAssumption, ReceiverAssumption DEF IInv, TypeOK, AddingInv
<1>3. CASE ATick
  BY <1>1, <1>2, <1>3 DEF ATick, Tick, AddingInv, Waits, RRunning, MainPc
<1>4. CASE AReceiver
  <2>1. main' = main /\ late' = late
    BY <1>4 DEF AReceiver, program
  <2>2. CASE main \in {"start", "add"}
    BY <1>4, <2>1, <2>2, WaitingStep DEF AddingInv
  <2>3. CASE main \notin {"start", "add"}
    BY <1>1, <2>1, <2>3 DEF AddingInv
  <2> QED BY <2>2, <2>3
<1>5. CASE MainProgram
  <2>1. CASE StartsReceiver
    BY <1>2, <2>1 DEF StartsReceiver, StartReceiver, RSleep, AddingInv, Waits, MainPc
  <2>2. CASE AddsSender
    BY <1>1, <2>2 DEF AddsSender, AddSenderId, program, AddingInv, Waits
  <2>3. CASE AddedAll
    BY <1>1, <1>2, <2>3 DEF AddedAll, AddingInv, MainPc
  <2>4. CASE EndsReceiver \/ JoinsReceiver
    BY <1>1, <2>4 DEF EndsReceiver, JoinsReceiver, AddingInv, MainPc
  <2> QED BY <1>5, <2>1, <2>2, <2>3, <2>4 DEF MainProgram
<1>6. ASSUME NEW s \in Sender, ASender(s) \/ SensorThread(s) PROVE AddingInv'
  <2>1. UNCHANGED <<main, late, receiver>>
    BY <1>6 DEF ASender, SensorThread, MInit, MPrefill, MMeasure, MFailure, MDead, program, vars
  <2> QED BY <2>1 DEF AddingInv, Waits, receiver
<1>7. CASE UNCHANGED allVars
  BY <1>7 DEF allVars, vars, program, receiver, AddingInv, Waits
<1> QED BY <1>3, <1>4, <1>5, <1>6, <1>7 DEF ANext

(* If main is never as late as the receiver's first sleep is long, all its *)
(* senders are added before the receiver's thread reads the map that       *)
(* addSenderId writes without a lock.                                      *)
THEOREM AddedBefore == ASSUME Slack < CreateSleep PROVE ASpec => []AddedInTime
<1>1. AInit => AddingInv
  BY HeartbeatAssumption DEF AInit, Init, ReceiverInit, AddingInv, MainPc
<1>2. IInv /\ AddingInv /\ [ANext]_allVars => AddingInv'
  BY AddingStep
<1>3. IInv /\ AddingInv => AddedInTime
  BY DEF IInv, TypeOK, AddingInv, AddedInTime, Waits, MainPc
<1>4. ASpec => []IInv
  BY Uses, Invariant, PTL
<1> QED BY <1>1, <1>2, <1>3, <1>4, PTL DEF ASpec
-------------------------------------------------------------------------------
(* The interval.  A sender goes from one beat to the next in Segments + 1  *)
(* sleeps, each of which it may be late from, and a beat may be late too.  *)
Failed(s) == mstate[s] \in {"FAILURE", "DEAD"}
Round == SegmentSleep + Slack
Bound == Slack + (Segments + 1) * Round

SafeInterval == Expired >= Bound + ListenSleep + Slack

(* The queue of a hundred messages is not full; and it is not as long as   *)
(* the receiver's thread has not ended.                                    *)
Room == Len(queue) < MaxMsgs
RoomLeft == rpc \notin Ended => Room

Queued(s) == \E i \in DOMAIN queue : queue[i].from = s
Sent(s) == s \in heard \/ Queued(s)

(* With room in the queue a sender's thread goes straight round its loop,  *)
(* never later than it may be.                                             *)
Calm(s) == /\ spc[s] \notin {"refused", "failed", "again", "sent"}
           /\ sstate[s] \notin {"SEND_FAILED", "SHUTTING_DOWN"}
           /\ sconnected[s] => exists
           /\ sstate[s] = "BEATING" \/ spc[s] = "joined" => sconnected[s]
           /\ spc[s] \in {"beat", "send"} => sstate[s] = "BEATING" /\ ssleep[s] <= 0
           /\ spc[s] = "send" => beat[s] + ssleep[s] <= 0
           /\ Running(s) => ssleep[s] >= -Slack
           /\ sstop[s] \/ (~Running(s) /\ spc[s] # "off") => Failed(s)

(* How old the last beat is, by the segment the sender has come to.        *)
At(s) == IF spc[s] = "send" THEN Segments ELSE segment[s]
InRound(s) == /\ spc[s] \in {"wake", "beat", "send"} /\ sstate[s] = "BEATING"
              /\ lastSent[s] + ssleep[s] <= Slack + SegmentSleep + At(s) * Round
Timed(s) == ~Failed(s) /\ Sent(s) => InRound(s)

(* The last beat sent is the last in the queue, or has been recorded.      *)
Last(i, s) == queue[i].from = s /\ \A j \in DOMAIN queue : j > i => queue[j].from # s
Delivered(s) == /\ s \in heard /\ ~Queued(s) => age[s] <= lastSent[s]
                /\ \A i \in DOMAIN queue : Last(i, s) => queue[i].age <= lastSent[s]

(* When the receiver checks, what it has recorded is the last beat sent,   *)
(* but for the time it slept since it found the queue empty.               *)
ReceiverTimed ==
  /\ RRunning => rsleep >= -Slack
  /\ rpc = "off" => rstate = "INIT"
  /\ rpc = "create" => rstate = "CREATING_MQ"
  /\ rpc \in {"pulses", "check"} => rstate = "CHECK_PULSES"
  /\ rpc = "listen" => rstate = "LISTENING"
  /\ ~exists => queue = <<>>
  /\ rstate = "CHECK_PULSES" /\ RRunning =>
       \A s \in heard : ~Failed(s) => age[s] + rsleep <= Bound + ListenSleep

Timing == ReceiverTimed /\ \A s \in Sender : Calm(s) /\ Timed(s) /\ Delivered(s)
-------------------------------------------------------------------------------
LEMMA Products ==
  /\ Segments \in Nat /\ SegmentSleep \in Nat /\ Slack \in Nat /\ ListenSleep \in Nat
  /\ JoinRetry \in Nat /\ FirstBeat \in Nat /\ CreateSleep \in Nat /\ CreateRetry \in Nat
  /\ Round = SegmentSleep + Slack /\ Round \in Nat /\ Expired \in Nat /\ Bound \in Nat
  /\ Bound = Slack + Segments * Round + Round
  /\ \A k \in 0..Segments : /\ k * Round \in Nat /\ k * Round <= Segments * Round
                            /\ (k + 1) * Round = k * Round + Round
<1>1. /\ Segments \in Nat /\ SegmentSleep \in Nat /\ Slack \in Nat /\ ListenSleep \in Nat
      /\ JoinRetry \in Nat /\ FirstBeat \in Nat /\ CreateSleep \in Nat /\ CreateRetry \in Nat
      /\ Round = SegmentSleep + Slack /\ Round \in Nat /\ Expired \in Nat
  BY SenderAssumption, ReceiverAssumption, HeartbeatAssumption DEF Round
<1> DEFINE R == Round
<1>2. R \in Nat /\ Segments \in Nat
  BY <1>1
<1> HIDE DEF R
<1>3. \A k \in Nat : k * R \in Nat /\ (k + 1) * R = k * R + R
  BY <1>2
<1>4. ASSUME NEW k \in 0..Segments PROVE k * R <= Segments * R
  <2>1. k \in Nat /\ Segments - k \in Nat /\ (Segments - k) * R \in Nat
    BY <1>2, <1>3
  <2>2. Segments * R = k * R + (Segments - k) * R
    BY <1>2, <2>1
  <2> QED BY <1>2, <1>3, <2>1, <2>2
<1>5. /\ (Segments + 1) * R = Segments * R + R /\ (Segments + 1) * R \in Nat
      /\ Segments * R \in Nat
      /\ \A k \in 0..Segments : k * R \in Nat /\ k * R <= Segments * R /\ (k + 1) * R = k * R + R
  BY <1>2, <1>3, <1>4
<1>6. Bound = Slack + Segments * Round + Round /\ Bound \in Nat
  BY <1>1, <1>2, <1>5 DEF Bound, R
<1> QED BY <1>1, <1>5, <1>6 DEF R

(* The segments a sender has come to, and the time they take.              *)
LEMMA AtFacts == ASSUME IInv, NEW s \in Sender
                 PROVE  At(s) \in 0..Segments /\ At(s) * Round \in Nat
                        /\ At(s) * Round <= Segments * Round
<1>1. segment[s] \in 0..Segments /\ Segments \in 0..Segments
  BY SenderAssumption DEF IInv, TypeOK
<1> QED BY <1>1, Products DEF At

(* A sender that has not failed has sent a beat not long ago.              *)
LEMMA SentWithin ==
  ASSUME IInv, NEW s \in Sender, Calm(s), Timed(s), ~Failed(s), Sent(s)
  PROVE  lastSent[s] <= Bound
<1>1. ssleep[s] \in Int /\ lastSent[s] \in Nat
  BY AgeFacts DEF IInv, TypeOK
<1>2. ssleep[s] >= -Slack
  BY DEF Timed, InRound, Calm, Running
<1> DEFINE p == At(s) * Round
           q == Segments * Round
<1>3. p \in Nat /\ q \in Nat /\ p <= q /\ Bound = Slack + q + Round
  <2>1. Segments \in 0..Segments
    BY Products
  <2> QED BY <2>1, AtFacts, Products
<1>4. lastSent[s] + ssleep[s] <= Slack + SegmentSleep + p
  BY DEF Timed, InRound
<1> HIDE DEF p, q
<1> QED BY <1>1, <1>2, <1>3, <1>4, Products
-------------------------------------------------------------------------------
(* A sender's thread goes round its loop in time.                          *)
LEMMA SenderInRound ==
  ASSUME IInv, Room, NEW s \in Sender, SenderStep(s), mstate' = mstate, Calm(s)
  PROVE  /\ Calm(s)'
         /\ InRound(s) => InRound(s)' \/ Failed(s)
         /\ Sends(s) => InRound(s)'
<1> USE DEF Calm, InRound, Go, GoOn, Sleep, SetState, Running, Failed
<1>1. /\ ssleep \in [Sender -> Int] /\ segment \in [Sender -> 0..Segments]
      /\ lastSent \in [Sender -> Age] /\ beat \in [Sender -> Age]
      /\ sstate \in [Sender -> SenderState] /\ spc \in [Sender -> SenderPc]
      /\ sconnected \in [Sender -> BOOLEAN] /\ Age \subseteq Nat
      /\ sstate[s] = "SHUTDOWN" => spc[s] \in Ended
  BY AgeFacts DEF IInv, TypeOK, Alive
<1>2. /\ Segments \in Nat /\ SegmentSleep \in Nat /\ Slack \in Nat
      /\ JoinRetry \in Nat /\ FirstBeat \in Nat
  BY Products
<1>3. CASE SWake(s)
  <2>1. PICK pc \in {"first", "wake"} : GoOn(s, pc, Handler[sstate[s]])
    BY <1>3 DEF SWake
  <2>2. sstate[s] \in {"INIT", "JOINING_MQ", "BEATING"}
    BY <1>1, <2>1 DEF SenderState, Ended
  <2>3. /\ UNCHANGED <<sstate, ssleep, segment, sstop, sconnected, beat, lastSent, exists>>
        /\ ssleep[s] <= 0 /\ ~Sends(s)
    BY <1>3, <2>1 DEF SWake, Sends, SendMessage
  <2>4. \/ sstate[s] = "INIT" /\ spc' = [spc EXCEPT ![s] = "init"]
        \/ sstate[s] = "JOINING_MQ" /\ spc' = [spc EXCEPT ![s] = "join"]
        \/ sstate[s] = "BEATING" /\ spc' = [spc EXCEPT ![s] = "beat"]
    <3>1. /\ sstate[s] = "INIT" => Handler[sstate[s]] = "init"
          /\ sstate[s] = "JOINING_MQ" => Handler[sstate[s]] = "join"
          /\ sstate[s] = "BEATING" => Handler[sstate[s]] = "beat"
      BY DEF Handler
    <3> QED BY <2>1, <2>2, <3>1
  <2> QED BY <1>1, <2>1, <2>2, <2>3, <2>4 DEF At
<1>4. CASE SStop(s)
  BY <1>1, <1>2, <1>4 DEF SStop, Sends, SendMessage
<1>5. CASE SInit(s) \/ SJoined(s)
  BY <1>1, <1>2, <1>5 DEF SInit, SJoined, Sends, SendMessage
<1>6. CASE SJoin(s)
  BY <1>1, <1>2, <1>6 DEF SJoin, Sends, SendMessage
<1>7. CASE SBeat(s)
  <2>1. /\ spc[s] = "beat" /\ sstate[s] = "BEATING" /\ ssleep[s] <= 0 /\ ~Sends(s)
        /\ UNCHANGED <<sstate, sstop, sconnected, lastSent, exists, queue>>
    BY <1>1, <1>7 DEF SBeat, Sends, SendMessage
  <2>2. CASE segment[s] >= Segments
    <3>1. /\ spc' = [spc EXCEPT ![s] = "send"] /\ UNCHANGED ssleep
          /\ beat' = [beat EXCEPT ![s] = 0]
      BY <1>7, <2>2 DEF SBeat
    <3>2. At(s)' = Segments /\ At(s) = Segments
      BY <1>1, <1>2, <2>1, <2>2, <3>1 DEF At
    <3>3. At(s)' * Round' = At(s) * Round
      BY <3>2 DEF Round
    <3> DEFINE p == At(s) * Round
    <3>4. At(s)' * Round' = p /\ At(s) * Round = p
      BY <3>3
    <3> HIDE DEF p
    <3> QED BY <1>1, <1>2, <2>1, <3>1, <3>4
  <2>3. CASE segment[s] < Segments
    <3>1. /\ spc' = [spc EXCEPT ![s] = "wake"] /\ ssleep' = [ssleep EXCEPT ![s] = SegmentSleep]
          /\ beat' = beat /\ segment' = [segment EXCEPT ![s] = @ + 1]
      BY <1>1, <1>2, <1>7, <2>3 DEF SBeat
    <3>2. At(s)' = At(s) + 1
      BY <1>1, <1>2, <2>1, <2>3, <3>1 DEF At
    <3> DEFINE p == At(s) * Round
               q == At(s)' * Round'
    <3>3. q = p + Round /\ p \in Nat
      BY <3>2, AtFacts, Products DEF Round
    <3>4. p = At(s) * Round /\ q = At(s)' * Round'
      OBVIOUS
    <3> HIDE DEF p, q
    <3>5. InRound(s) => lastSent[s] + SegmentSleep <= Slack + SegmentSleep + q
      <4> SUFFICES ASSUME InRound(s) PROVE lastSent[s] + SegmentSleep <= Slack + SegmentSleep + q
        OBVIOUS
      <4>1. lastSent[s] + ssleep[s] <= Slack + SegmentSleep + p /\ ssleep[s] >= -Slack
        BY <2>1, <3>4
      <4>2. lastSent[s] \in Nat /\ ssleep[s] \in Int
        BY <1>1
      <4>3. q = p + (SegmentSleep + Slack)
        BY <3>3, Products
      <4> QED BY <1>2, <3>3, <4>1, <4>2, <4>3
    <3>6. lastSent'[s] = lastSent[s] /\ ssleep'[s] = SegmentSleep /\ Slack' = Slack
          /\ SegmentSleep' = SegmentSleep
      BY <1>1, <2>1, <3>1
    <3>7. InRound(s) => InRound(s)'
      BY <1>1, <2>1, <3>1, <3>4, <3>5, <3>6
    <3>8. Calm(s)'
      BY <1>1, <1>2, <2>1, <3>1
    <3> QED BY <2>1, <3>7, <3>8
  <2> QED BY <1>1, <1>2, <2>2, <2>3
<1>8. CASE SSend(s)
  <2>1. /\ spc[s] = "send" /\ sstate[s] = "BEATING" /\ beat[s] + ssleep[s] <= 0
        /\ ssleep[s] >= -Slack /\ UNCHANGED <<sstate, segment, sstop, sconnected, beat>>
    BY <1>1, <1>8 DEF SSend
  <2>2. Sends(s) /\ Sleep(s, "send", "wake", SegmentSleep)
    BY <1>1, <1>8, MaxMsgsAssumption DEF SSend, SendTimesOut, Room, IInv, TypeOK
  <2>3. /\ spc' = [spc EXCEPT ![s] = "wake"] /\ ssleep' = [ssleep EXCEPT ![s] = SegmentSleep]
        /\ lastSent' = [lastSent EXCEPT ![s] = beat[s]] /\ exists' = exists
    BY <2>2 DEF Sends, SendMessage
  <2> DEFINE q == At(s)' * Round'
  <2>4. At(s)' = segment[s] /\ q \in Nat
    BY <1>1, <2>1, <2>3, Products DEF At, Round
  <2>5. q = At(s)' * Round'
    OBVIOUS
  <2> HIDE DEF q
  <2>6. lastSent'[s] = beat[s] /\ ssleep'[s] = SegmentSleep
    BY <1>1, <2>3
  <2>7. beat[s] + SegmentSleep <= Slack + SegmentSleep + q
    <3>1. beat[s] \in Nat /\ ssleep[s] \in Int /\ q \in Nat
      BY <1>1, <2>4
    <3>2. beat[s] + ssleep[s] <= 0 /\ ssleep[s] >= -Slack
      BY <2>1
    <3> QED BY <1>2, <3>1, <3>2
  <2>8. InRound(s)'
    BY <1>1, <2>1, <2>3, <2>5, <2>6, <2>7
  <2>9. Calm(s)'
    BY <1>1, <1>2, <2>1, <2>3
  <2> QED BY <2>8, <2>9
<1>9. CASE SRefused(s) \/ SFailed(s) \/ SAgain(s) \/ SSent(s) \/ SCrash(s)
  BY <1>1, <1>9 DEF SRefused, SFailed, SAgain, SSent, SCrash
<1> QED BY <1>3, <1>4, <1>5, <1>6, <1>7, <1>8, <1>9 DEF SenderStep

(* A step of a sender or of its owner changes nothing of another sender.   *)
LEMMA OthersKept ==
  ASSUME IInv, NEW s \in Sender, NEW t \in Sender \ {s}, SenderStep(s) \/ Owner(s)
  PROVE  /\ sstate'[t] = sstate[t] /\ spc'[t] = spc[t] /\ ssleep'[t] = ssleep[t]
         /\ segment'[t] = segment[t] /\ sstop'[t] = sstop[t] /\ beat'[t] = beat[t]
         /\ sconnected'[t] = sconnected[t] /\ lastSent'[t] = lastSent[t] /\ exists' = exists
<1> USE DEF IInv, TypeOK, Go, GoOn, Sleep, SetState
<1>1. CASE SWake(s) \/ SStop(s) \/ SInit(s)
  BY <1>1 DEF SWake, SStop, SInit
<1>2. CASE SJoin(s) \/ SJoined(s)
  BY <1>2 DEF SJoin, SJoined
<1>3. CASE SBeat(s)
  BY <1>3 DEF SBeat
<1>4. CASE SSend(s) \/ SAgain(s)
  BY <1>4 DEF SSend, SAgain, Sends, SendMessage, SendTimesOut
<1>5. CASE SRefused(s) \/ SFailed(s) \/ SSent(s) \/ SCrash(s)
  BY <1>5 DEF SRefused, SFailed, SSent, SCrash
<1>6. CASE Owner(s)
  BY <1>6 DEF Owner, StartSender, PauseBeat, ResumeBeat, EndSender, DisconnectSender
<1> QED BY <1>1, <1>2, <1>3, <1>4, <1>5, <1>6 DEF SenderStep

(* What a beat sent changes in the queue.                                  *)
LEMMA SentLast ==
  ASSUME IInv, NEW s \in Sender, Sends(s)
  PROVE  /\ Queued(s)' /\ \A i \in DOMAIN queue' : Last(i, s)' => queue'[i].age = beat[s]
         /\ \A t \in Sender \ {s} :
              /\ Queued(t)' <=> Queued(t)
              /\ \A i \in DOMAIN queue' :
                   Last(i, t)' => i \in DOMAIN queue /\ Last(i, t) /\ queue'[i] = queue[i]
<1> DEFINE m == [from |-> s, age |-> beat[s]]
<1>1. queue' = Append(queue, m) /\ queue \in Seq(Message) /\ m \in Message
  BY DEF Sends, SendMessage, IInv, TypeOK, Message
<1>2. /\ DOMAIN queue = 1..Len(queue) /\ DOMAIN queue' = 1..(Len(queue) + 1)
      /\ Len(queue) \in Nat /\ queue'[Len(queue) + 1] = m
      /\ \A i \in 1..Len(queue) : queue'[i] = queue[i]
  BY <1>1
<1>3. m.from = s /\ m.age = beat[s]
  OBVIOUS
<1> HIDE DEF m
<1>4. Queued(s)'
  BY <1>2, <1>3 DEF Queued
<1>5. ASSUME NEW i \in DOMAIN queue', Last(i, s)' PROVE queue'[i].age = beat[s]
  BY <1>2, <1>3, <1>5 DEF Last
<1>6. ASSUME NEW t \in Sender \ {s}
      PROVE  /\ Queued(t)' <=> Queued(t)
             /\ \A i \in DOMAIN queue' :
                  Last(i, t)' => i \in DOMAIN queue /\ Last(i, t) /\ queue'[i] = queue[i]
  BY <1>2, <1>3 DEF Queued, Last
<1> QED BY <1>4, <1>5, <1>6

(* A step of a sender keeps the timing.                                    *)
LEMMA SenderTiming ==
  ASSUME IInv, Timing, Room, NEW s \in Sender, ASender(s)
  PROVE  Timing'
<1>1. SenderStep(s) /\ UNCHANGED receiver /\ UNCHANGED program
  BY DEF ASender
<1>2. UNCHANGED <<rstate, rpc, rsleep, age, heard, mstate>>
  BY <1>1 DEF receiver, program
<1>3. \/ Sends(s) /\ UNCHANGED beat
      \/ UNCHANGED <<exists, queue, lastSent>> /\ ~Sends(s)
  <2>1. Len(queue) \in Nat /\ (Sends(s) => queue' # queue)
    BY DEF Sends, SendMessage, IInv, TypeOK
  <2> QED BY <1>1, <2>1, SenderSends
<1>4. /\ Calm(s)' /\ (InRound(s) => InRound(s)' \/ Failed(s)) /\ (Sends(s) => InRound(s)')
  BY <1>1, <1>2, SenderInRound DEF Timing
<1>5. ReceiverTimed'
  <2>1. exists' = exists /\ (queue' = queue \/ exists)
    BY <1>3 DEF Sends, SendMessage, Timing, Calm
  <2> QED BY <1>2, <2>1 DEF Timing, ReceiverTimed, RRunning, Failed, Bound, Round
<1>6. Timed(s)' /\ Delivered(s)'
  <2>1. CASE Sends(s)
    <3>1. lastSent'[s] = beat[s] /\ beat[s] \in Nat
      BY <2>1, AgeFacts DEF Sends, IInv, TypeOK
    <3> QED BY <1>4, <2>1, <3>1, SentLast DEF Timed, Delivered
  <2>2. CASE UNCHANGED <<queue, lastSent>> /\ ~Sends(s)
    BY <1>2, <1>4, <2>2 DEF Timing, Timed, Delivered, Sent, Queued, Failed, Last
  <2> QED BY <1>3, <2>1, <2>2
<1>7. ASSUME NEW t \in Sender \ {s} PROVE Calm(t)' /\ Timed(t)' /\ Delivered(t)'
  <2>1. /\ sstate'[t] = sstate[t] /\ spc'[t] = spc[t] /\ ssleep'[t] = ssleep[t]
        /\ segment'[t] = segment[t] /\ sstop'[t] = sstop[t] /\ beat'[t] = beat[t]
        /\ sconnected'[t] = sconnected[t] /\ lastSent'[t] = lastSent[t] /\ exists' = exists
    BY <1>1, OthersKept
  <2>2. Calm(t)'
    BY <1>2, <2>1 DEF Timing, Calm, Running, Failed
  <2>3. Timed(t)' /\ Delivered(t)'
    <3>1. /\ Queued(t)' <=> Queued(t)
          /\ \A i \in DOMAIN queue' :
               Last(i, t)' => i \in DOMAIN queue /\ Last(i, t) /\ queue'[i] = queue[i]
      BY <1>3, SentLast DEF Queued, Last
    <3>2. InRound(t) => InRound(t)'
      BY <2>1 DEF InRound, At, Round
    <3> QED BY <1>2, <2>1, <3>1, <3>2 DEF Timing, Timed, Delivered, Sent, Failed
  <2> QED BY <2>2, <2>3
<1> QED BY <1>4, <1>5, <1>6, <1>7 DEF Timing

(* So does a step of a sensor: only one that has failed ends its sender.   *)
LEMMA SensorTiming ==
  ASSUME IInv, Timing, NEW s \in Sender, SensorThread(s), mstate \in [Sender -> MeasureState]
  PROVE  Timing'
<1> USE DEF Failed, Moves
<1>1. UNCHANGED <<receiver, exists, queue, sstate, segment, sconnected, beat, lastSent>>
  BY DEF SensorThread, MInit, MPrefill, MMeasure, MFailure, MDead, StartSender, EndSender,
         vars, sender, program
<1>2. ASSUME NEW t \in Sender
      PROVE  /\ Failed(t) => Failed(t)' /\ (t # s => mstate'[t] = mstate[t])
             /\ sstop'[t] # sstop[t] => Failed(t)'
             /\ \/ spc'[t] = spc[t] /\ ssleep'[t] = ssleep[t]
                \/ spc[t] = "off" /\ spc'[t] = "first" /\ ssleep'[t] = 0
  BY DEF SensorThread, MInit, MPrefill, MMeasure, MFailure, MDead, StartSender, EndSender,
         Sleep, Go, vars, sender, program, IInv, TypeOK
<1>3. ReceiverTimed'
  <2>1. heard \subseteq Sender /\ Bound' = Bound
    BY DEF IInv, TypeOK, Bound, Round
  <2>2. \A t \in heard : ~Failed(t)' => ~Failed(t)
    BY <1>2, <2>1
  <2>3. UNCHANGED <<rstate, rpc, rsleep, exists, queue, age, heard>>
    BY <1>1 DEF receiver
  <2> HIDE DEF Failed
  <2> QED BY <2>1, <2>2, <2>3 DEF Timing, ReceiverTimed, RRunning
<1>4. ASSUME NEW t \in Sender PROVE Calm(t)' /\ Timed(t)' /\ Delivered(t)'
  <2>1. Delivered(t)'
    BY <1>1 DEF Timing, Delivered, Queued, Last, receiver
  <2>2. Calm(t)'
    BY <1>1, <1>2, Products DEF Timing, Calm, Running
  <2>3. Timed(t)'
    <3>1. InRound(t) => InRound(t)'
      BY <1>1, <1>2 DEF InRound, At, Round
    <3> QED BY <1>1, <1>2, <3>1 DEF Timing, Timed, Sent, Queued, receiver
  <2> QED BY <2>1, <2>2, <2>3
<1> QED BY <1>3, <1>4 DEF Timing

(* Main adds only senders of which no beat has been recorded, and before   *)
(* the receiver looks at any.                                              *)
LEMMA MainTiming == ASSUME IInv, Timing, MainProgram PROVE Timing'
<1>1. /\ UNCHANGED <<sender, mstate, exists, queue, heard, rstate>>
  BY DEF MainProgram, StartsReceiver, AddsSender, AddedAll, EndsReceiver, JoinsReceiver,
         StartReceiver, AddSenderId, EndReceiver, program, vars, receiver, records
<1>2. \/ UNCHANGED <<rpc, rsleep, age>>
      \/ rpc = "off" /\ rpc' = "first" /\ rsleep' = 0 /\ age' = age
      \/ /\ rstate \in {"INIT", "CREATING_MQ"} /\ UNCHANGED <<rpc, rsleep>>
         /\ \A s \in heard : age'[s] = age[s]
  <2>1. CASE AddsSender
    BY <2>1 DEF AddsSender, AddSenderId, IInv, TypeOK
  <2>2. CASE StartsReceiver \/ AddedAll \/ EndsReceiver \/ JoinsReceiver
    BY <2>2 DEF StartsReceiver, AddedAll, EndsReceiver, JoinsReceiver, StartReceiver, EndReceiver,
                RSleep, program, vars, receiver, records
  <2> QED BY <2>1, <2>2 DEF MainProgram
<1>3. ReceiverTimed'
  <2>1. Bound' = Bound /\ Slack \in Nat /\ \A s \in heard : ~Failed(s)' <=> ~Failed(s)
    BY <1>1, Products DEF Bound, Round, Failed
  <2>2. CASE UNCHANGED <<rpc, rsleep, age>>
    BY <1>1, <2>1, <2>2 DEF Timing, ReceiverTimed, RRunning
  <2>3. CASE rpc = "off" /\ rpc' = "first" /\ rsleep' = 0 /\ age' = age
    BY <1>1, <2>1, <2>3 DEF Timing, ReceiverTimed, RRunning
  <2>4. CASE rstate \in {"INIT", "CREATING_MQ"} /\ UNCHANGED <<rpc, rsleep>>
    BY <1>1, <2>1, <2>4 DEF Timing, ReceiverTimed, RRunning
  <2> QED BY <1>2, <2>2, <2>3, <2>4
<1>4. ASSUME NEW s \in Sender PROVE Calm(s)' /\ Timed(s)' /\ Delivered(s)'
  <2>1. Calm(s)'
    BY <1>1 DEF Timing, Calm, Running, Failed, sender
  <2>2. Timed(s)'
    BY <1>1 DEF Timing, Timed, InRound, At, Round, Sent, Queued, Failed, sender
  <2>3. Delivered(s)'
    BY <1>1, <1>2 DEF Timing, Delivered, Queued, Last, sender
  <2> QED BY <2>1, <2>2, <2>3
<1> QED BY <1>3, <1>4 DEF Timing

(* Time passes for a sender only while it is no later than it may be.      *)
LEMMA TickTiming == ASSUME IInv, Timing, Room, ATick PROVE Timing'
<1>0. \A s \in Sender : ~Spinning(s)
  BY DEF Timing, Calm, Spinning
<1>1. /\ rsleep' = IF RRunning THEN rsleep - 1 ELSE 0
      /\ ssleep' = [s \in Sender |-> IF Running(s) THEN ssleep[s] - 1 ELSE 0]
      /\ age' = [s \in Sender |-> Older(age[s])]
      /\ beat' = [s \in Sender |-> Older(beat[s])]
      /\ lastSent' = [s \in Sender |-> Older(lastSent[s])]
      /\ queue' = [i \in DOMAIN queue |-> [queue[i] EXCEPT !.age = Older(@)]]
      /\ UNCHANGED <<sstate, spc, segment, sstop, sconnected, exists, rstate, rpc, heard, mstate>>
      /\ RPrompt /\ \A s \in Sender : Prompt(s)
  BY <1>0 DEF ATick, Tick, Later
<1>2. /\ queue \in Seq(Message) /\ age \in [Sender -> Age] /\ lastSent \in [Sender -> Age]
      /\ beat \in [Sender -> Age] /\ ssleep \in [Sender -> Int] /\ rsleep \in Int
      /\ heard \subseteq Sender /\ Age \subseteq Nat
  BY AgeFacts DEF IInv, TypeOK
<1>3. \A a \in Age : Older(a) \in Nat /\ Older(a) <= a + 1
  BY <1>2, AgeFacts, SenderAssumption DEF Older, Old, Age
<1>4. /\ DOMAIN queue' = DOMAIN queue /\ Len(queue') = Len(queue) /\ queue' \in Seq(Message)
      /\ \A i \in DOMAIN queue : /\ queue[i].age \in Age /\ queue'[i].from = queue[i].from
                                 /\ queue'[i].age = Older(queue[i].age)
  BY QueueAges DEF ATick
<1>5. /\ \A s \in Sender : Queued(s)' <=> Queued(s)
      /\ \A i \in DOMAIN queue, s \in Sender : Last(i, s)' <=> Last(i, s)
      /\ queue = <<>> => queue' = <<>>
  <2>1. queue = <<>> => queue' = <<>>
    BY <1>2, <1>4
  <2> QED BY <1>4, <2>1 DEF Queued, Last
<1>6. \A s \in Sender : ~Failed(s)' <=> ~Failed(s)
  BY <1>1 DEF Failed
<1>7. ReceiverTimed'
  <2>1. /\ RRunning' <=> RRunning
        /\ RRunning => rsleep >= 1 - Slack /\ rsleep' = rsleep - 1
    BY <1>1, <1>2, Products DEF RRunning, RPrompt
  <2>2. Bound' = Bound /\ Bound \in Nat /\ ListenSleep \in Nat
    BY Products DEF Bound, Round
  <2>3. ASSUME NEW s \in heard', (rstate = "CHECK_PULSES" /\ RRunning)', ~Failed(s)'
        PROVE  age'[s] + rsleep' <= Bound + ListenSleep
    <3>1. age[s] + rsleep <= Bound + ListenSleep /\ s \in Sender
      BY <1>1, <1>2, <1>6, <2>1, <2>3 DEF Timing, ReceiverTimed
    <3>2. age'[s] \in Nat /\ age'[s] <= age[s] + 1 /\ age[s] \in Nat
      BY <1>1, <1>2, <1>3, <3>1
    <3> QED BY <1>1, <1>2, <2>1, <2>2, <2>3, <3>1, <3>2
  <2>4. RRunning' => rsleep' >= -Slack
    BY <1>2, <2>1, Products
  <2> QED BY <1>1, <1>5, <2>2, <2>3, <2>4 DEF Timing, ReceiverTimed
<1>8. ASSUME NEW s \in Sender PROVE Calm(s)' /\ Timed(s)' /\ Delivered(s)'
  <2>1. /\ ssleep[s] \in Int
        /\ Running(s)' <=> Running(s)
        /\ Running(s) => ssleep'[s] = ssleep[s] - 1 /\ ssleep[s] >= 1 - Slack
        /\ ~Running(s) => ssleep'[s] = 0
    <3>1. ~Blocked(s)
      BY <1>2, MaxMsgsAssumption DEF Blocked, Room
    <3>2. ssleep[s] \in Int /\ Slack \in Nat
      BY <1>2, Products
    <3>3. Running(s) => ssleep[s] > -Slack
      BY <1>0, <1>1, <3>1 DEF Prompt
    <3>4. Running(s)' <=> Running(s)
      BY <1>1 DEF Running
    <3>5. ssleep'[s] = IF Running(s) THEN ssleep[s] - 1 ELSE 0
      BY <1>1
    <3> HIDE DEF Running
    <3> QED BY <3>2, <3>3, <3>4, <3>5
  <2>2. /\ lastSent'[s] \in Nat /\ lastSent'[s] <= lastSent[s] + 1 /\ lastSent[s] \in Nat
        /\ beat'[s] \in Nat /\ beat'[s] <= beat[s] + 1 /\ beat[s] \in Nat
    BY <1>1, <1>2, <1>3
  <2>3. Calm(s)'
    BY <1>1, <1>6, <2>1, <2>2, Products DEF Timing, Calm, Running
  <2>4. Timed(s)'
    <3>1. InRound(s) => InRound(s)'
      <4> SUFFICES ASSUME InRound(s) PROVE InRound(s)'
        OBVIOUS
      <4> DEFINE p == At(s) * Round
      <4>1. p \in Nat /\ p = At(s)' * Round'
        BY <1>1, AtFacts DEF At, Round
      <4>2. lastSent[s] + ssleep[s] <= Slack + SegmentSleep + p /\ Running(s)
        BY DEF InRound, Running
      <4> HIDE DEF p
      <4>3. lastSent'[s] + ssleep'[s] <= Slack + SegmentSleep + p
        BY <2>1, <2>2, <4>1, <4>2, Products
      <4> QED BY <1>1, <4>1, <4>3 DEF InRound
    <3> QED BY <1>1, <1>5, <1>6, <3>1 DEF Timing, Timed, Sent
  <2>5. Delivered(s)'
    <3>1. age'[s] = Older(age[s]) /\ lastSent'[s] = Older(lastSent[s])
          /\ age[s] \in Age /\ lastSent[s] \in Age
      BY <1>1, <1>2
    <3>2. s \in heard' /\ ~Queued(s)' => age'[s] <= lastSent'[s]
      BY <1>1, <1>5, <3>1, AgeFacts DEF Timing, Delivered
    <3>3. ASSUME NEW i \in DOMAIN queue', Last(i, s)' PROVE queue'[i].age <= lastSent'[s]
      <4>1. i \in DOMAIN queue /\ Last(i, s)
        BY <1>4, <1>5, <3>3
      <4>2. queue[i].age <= lastSent[s] /\ queue[i].age \in Age
        BY <1>4, <4>1 DEF Timing, Delivered
      <4> QED BY <1>4, <3>1, <4>1, <4>2, AgeFacts
    <3> QED BY <3>2, <3>3 DEF Delivered
  <2> QED BY <2>3, <2>4, <2>5
<1> QED BY <1>7, <1>8 DEF Timing

(* The receiver checks at once what it has just recorded, and after its    *)
(* sleep what it had when the queue was empty.                             *)
LEMMA ReceiverTiming == ASSUME IInv, Timing, AReceiver PROVE Timing'
<1>1. /\ ReceiverStep /\ UNCHANGED <<sender, program, mstate>>
  BY DEF AReceiver, program
<1>2. /\ queue \in Seq(Message) /\ age \in [Sender -> Age] /\ lastSent \in [Sender -> Age]
      /\ heard \subseteq Sender /\ rsleep \in Int /\ rstate \in ReceiverState /\ Age \subseteq Nat
  BY AgeFacts DEF IInv, TypeOK
<1>3. /\ \A s \in Sender : ~Failed(s)' <=> ~Failed(s)
      /\ Bound' = Bound /\ Bound \in Nat /\ Slack \in Nat
      /\ ListenSleep \in Nat /\ CreateSleep \in Nat /\ CreateRetry \in Nat
  BY <1>1, Products DEF Failed, Bound, Round
<1>4. ASSUME UNCHANGED <<age, heard, queue>>, exists' = exists \/ exists'
      PROVE  \A s \in Sender : Calm(s)' /\ Timed(s)' /\ Delivered(s)'
  <2> TAKE s \in Sender
  <2>1. Calm(s)'
    BY <1>1, <1>4 DEF Timing, Calm, Running, Failed, sender
  <2>2. Timed(s)' /\ Delivered(s)'
    BY <1>1, <1>4 DEF Timing, Timed, InRound, At, Round, Sent, Queued, Failed, Delivered, Last, sender
  <2> QED BY <2>1, <2>2
<1>5. CASE RWake
  <2>1. PICK pc \in {"first", "wake"} : RGoOn(pc, RHandler[rstate])
    BY <1>5 DEF RWake
  <2>2. /\ rstate \in {"INIT", "CREATING_MQ", "LISTENING", "CHECK_PULSES"}
        /\ rpc \in {"first", "wake"} /\ rpc' = RHandler[rstate] /\ rsleep' = rsleep
        /\ UNCHANGED <<rstate, age, heard, exists, queue>>
    BY <1>2, <1>5, <2>1 DEF RWake, RGoOn, IInv, Alive, Ended, ReceiverState, records
  <2>3. /\ RHandler["INIT"] = "init" /\ RHandler["CREATING_MQ"] = "create"
        /\ RHandler["LISTENING"] = "listen" /\ RHandler["CHECK_PULSES"] = "pulses"
    BY DEF RHandler
  <2>4. ReceiverTimed'
    BY <1>2, <1>3, <2>2, <2>3 DEF Timing, ReceiverTimed, RRunning
  <2> QED BY <1>4, <2>2, <2>4 DEF Timing
<1>6. CASE RStop \/ RInit \/ RCrash \/ RChecked \/ RPulses \/ \E s \in Sender : RCheck(s)
  <2>1. /\ UNCHANGED <<age, heard, exists, queue>> /\ rpc' # "off"
        /\ \/ rpc' \in {"stopped", "crashed"}
           \/ rpc' = "wake" /\ rsleep' = 0 /\ rstate' = "LISTENING"
           \/ rpc' = "wake" /\ rsleep' = CreateSleep /\ rstate' = "CREATING_MQ"
           \/ rpc' = "check" /\ rpc \in {"pulses", "check"} /\ rsleep' = rsleep /\ rstate' = rstate
    BY <1>6 DEF RStop, RInit, RCrash, RChecked, RPulses, RCheck, RSleep, RGoOn, records
  <2>2. ReceiverTimed'
    BY <1>2, <1>3, <2>1 DEF Timing, ReceiverTimed, RRunning
  <2> QED BY <1>4, <2>1, <2>2 DEF Timing
<1>7. CASE RCreate
  <2>1. /\ UNCHANGED <<age, heard, queue>> /\ exists' /\ rpc' = "wake" /\ rsleep' \in Nat
        /\ rstate' \in {"LISTENING", "CREATING_MQ"}
    BY <1>3, <1>7 DEF RCreate, RSleep, Connect, ConnectFails, Timing, ReceiverTimed, records
  <2>2. ReceiverTimed'
    BY <1>3, <2>1 DEF ReceiverTimed, RRunning
  <2> QED BY <1>4, <2>1, <2>2 DEF Timing
<1>8. CASE RRecord
  <2> DEFINE m == Head(queue)
  <2>1. /\ queue # <<>> /\ queue' = Tail(queue) /\ exists' = exists
        /\ heard' = heard \cup {m.from} /\ age' = [age EXCEPT ![m.from] = m.age]
        /\ rpc = "listen" /\ UNCHANGED <<rpc, rsleep, rstate>>
    BY <1>8 DEF RRecord, RGoOn, TakeMessage
  <2>2. /\ m = queue[1] /\ m.from \in Sender /\ m.age \in Age /\ 1 \in DOMAIN queue
        /\ \A i \in DOMAIN queue' : i \in Nat /\ i + 1 \in DOMAIN queue /\ queue'[i] = queue[i + 1]
        /\ \A i \in DOMAIN queue : i \in Nat /\ (i = 1 \/ i - 1 \in DOMAIN queue')
    <3>1. /\ m = queue[1] /\ m \in Message /\ 1 \in DOMAIN queue
          /\ \A i \in DOMAIN queue' : i \in Nat /\ i + 1 \in DOMAIN queue /\ queue'[i] = queue[i + 1]
          /\ queue' \in Seq(Message) /\ Len(queue') = Len(queue) - 1
      BY <1>2, <2>1, TailFacts
    <3>2. \A i \in DOMAIN queue : i \in Nat /\ (i = 1 \/ i - 1 \in DOMAIN queue')
      <4>1. DOMAIN queue = 1..Len(queue) /\ DOMAIN queue' = 1..Len(queue') /\ Len(queue) \in Nat
        BY <1>2, <3>1
      <4> QED BY <3>1, <4>1
    <3>3. m.from \in Sender /\ m.age \in Age
      BY <3>1 DEF Message
    <3> QED BY <3>1, <3>2, <3>3
  <2> HIDE DEF m
  <2>3. ReceiverTimed'
    BY <1>2, <2>1 DEF Timing, ReceiverTimed, RRunning, Ended
  <2>4. ASSUME NEW s \in Sender PROVE Calm(s)' /\ Timed(s)' /\ Delivered(s)'
    <3>1. Calm(s)'
      BY <1>1, <2>1 DEF Timing, Calm, Running, Failed, sender
    <3>2. Queued(s) => Queued(s)' \/ (m.from = s /\ Last(1, s))
      <4> SUFFICES ASSUME Queued(s), ~Queued(s)' PROVE m.from = s /\ Last(1, s)
        OBVIOUS
      <4>1. ASSUME NEW i \in DOMAIN queue, i # 1 PROVE queue[i].from # s
        <5>1. i - 1 \in DOMAIN queue' /\ i - 1 + 1 = i
          BY <2>2, <4>1
        <5> QED BY <2>2, <5>1 DEF Queued
      <4>2. queue[1].from = s
        BY <4>1 DEF Queued
      <4>3. \A j \in DOMAIN queue : j > 1 => j # 1
        BY <2>2
      <4> QED BY <2>2, <4>1, <4>2, <4>3 DEF Last
    <3>3. Queued(s)' => Queued(s)
      BY <2>2 DEF Queued
    <3>4. Sent(s)' => Sent(s)
      BY <2>1, <2>2, <3>3 DEF Sent, Queued
    <3>5. Timed(s)'
      BY <1>1, <3>4 DEF Timing, Timed, InRound, At, Round, Failed, sender
    <3>6. s \in heard' /\ ~Queued(s)' => age'[s] <= lastSent'[s]
      <4> SUFFICES ASSUME s \in heard', ~Queued(s)' PROVE age'[s] <= lastSent[s]
        BY <1>1 DEF sender
      <4>1. CASE Queued(s)
        <5>1. m.from = s /\ Last(1, s)
          BY <3>2, <4>1
        <5>2. queue[1].age <= lastSent[s]
          BY <2>2, <5>1 DEF Timing, Delivered
        <5> QED BY <1>2, <2>1, <2>2, <5>1, <5>2
      <4>2. CASE ~Queued(s)
        <5>1. m.from # s
          BY <2>2, <4>2 DEF Queued
        <5> QED BY <1>2, <2>1, <4>2, <5>1 DEF Timing, Delivered
      <4> QED BY <4>1, <4>2
    <3>7. ASSUME NEW i \in DOMAIN queue', Last(i, s)' PROVE queue'[i].age <= lastSent'[s]
      <4>1. i + 1 \in DOMAIN queue /\ queue'[i] = queue[i + 1] /\ i \in Nat
        BY <2>2
      <4>2. Last(i + 1, s)
        <5>1. queue[i + 1].from = s
          BY <3>7, <4>1 DEF Last
        <5>2. ASSUME NEW j \in DOMAIN queue, j > i + 1 PROVE queue[j].from # s
          <6>1. j - 1 \in DOMAIN queue' /\ j - 1 > i /\ j - 1 + 1 = j
            BY <1>2, <2>2, <4>1, <5>2
          <6> QED BY <2>2, <3>7, <6>1 DEF Last
        <5> QED BY <5>1, <5>2 DEF Last
      <4> QED BY <1>1, <4>1, <4>2 DEF Timing, Delivered, sender
    <3> QED BY <3>1, <3>5, <3>6, <3>7 DEF Delivered
  <2> QED BY <2>3, <2>4 DEF Timing
<1>9. CASE RListened
  <2>1. /\ UNCHANGED <<age, heard, exists, queue>> /\ queue = <<>> /\ rpc' = "wake"
        /\ rsleep' = ListenSleep
    BY <1>9 DEF RListened, RSleep, NoMessage, records
  <2>2. ASSUME NEW s \in heard, ~Failed(s) PROVE age[s] + ListenSleep <= Bound + ListenSleep
    <3>1. s \in Sender /\ ~Queued(s) /\ Sent(s)
      BY <1>2, <2>1 DEF Queued, Sent
    <3>2. lastSent[s] <= Bound /\ age[s] <= lastSent[s]
      BY <2>2, <3>1, SentWithin DEF Timing, Delivered
    <3>3. age[s] \in Nat /\ lastSent[s] \in Nat
      BY <1>2, <3>1
    <3> QED BY <1>3, <3>2, <3>3
  <2>3. ReceiverTimed'
    BY <1>2, <1>3, <2>1, <2>2 DEF Timing, ReceiverTimed, RRunning
  <2> QED BY <1>4, <2>1, <2>3 DEF Timing
<1> QED BY <1>1, <1>5, <1>6, <1>7, <1>8, <1>9 DEF ReceiverStep
-------------------------------------------------------------------------------
MeasureTyped == mstate \in [Sender -> MeasureState]

LEMMA MeasureStep == MeasureTyped /\ [ANext]_allVars => MeasureTyped'
BY DEF MeasureTyped, MeasureState, ANext, allVars, program, ATick, AReceiver, MainProgram,
       StartsReceiver, AddsSender, AddedAll, EndsReceiver, JoinsReceiver, ASender, SensorThread,
       MInit, MPrefill, MMeasure, MFailure, MDead, Moves

LEMMA TimingStep ==
  ASSUME IInv, MeasureTyped, Timing, Room, [ANext]_allVars
  PROVE  Timing'
<1>1. CASE ATick
  BY <1>1, TickTiming
<1>2. CASE AReceiver
  BY <1>2, ReceiverTiming
<1>3. CASE MainProgram
  BY <1>3, MainTiming
<1>4. ASSUME NEW s \in Sender, ASender(s) \/ SensorThread(s) PROVE Timing'
  BY <1>4, SenderTiming, SensorTiming DEF MeasureTyped
<1>5. CASE UNCHANGED allVars
  BY <1>5 DEF allVars, vars, program, sender, receiver, Timing, ReceiverTimed, RRunning, Calm, Timed,
              Running, InRound, At, Sent, Queued, Delivered, Last, Failed, Bound, Round
<1> QED BY <1>1, <1>2, <1>3, <1>4, <1>5 DEF ANext

(* A receiver's thread that has ended is not started again.                *)
LEMMA EndedForGood == rpc \in Ended /\ [ANext]_allVars => rpc' \in Ended
BY DEF Ended, ANext, allVars, vars, receiver, ATick, Tick, AReceiver, ReceiverStep, RWake, RStop,
       RInit, RCreate, RRecord, RListened, RCrash, RPulses, RCheck, RChecked, RGoOn, RSleep,
       MainProgram, StartsReceiver, AddsSender, AddedAll, EndsReceiver, JoinsReceiver,
       StartReceiver, AddSenderId, EndReceiver, ASender, SensorThread, MInit, MPrefill,
       MMeasure, MFailure, MDead

-------------------------------------------------------------------------------
(* The room.  Between two beats a sender sleeps its segments and once      *)
(* after the beat; the receiver is away from the queue for one sleep.      *)
Slept(segments) == (segments + 1) * SegmentSleep
Period == Slept(Segments)
Away == IF CreateSleep > ListenSleep + Slack THEN CreateSleep ELSE ListenSleep + Slack

(* While the receiver is away, its last lateness included, a sender makes  *)
(* fewer than k beats after the first, and the queue has room for k of     *)
(* every sender and one more.                                              *)
EnoughRoom == /\ IsFiniteSet(Sender)
              /\ \E k \in Nat : Away + Slack < k * Period /\ Cardinality(Sender) * k < MaxMsgs

(* The beats of a sender that wait, the time since the receiver last saw   *)
(* the queue empty, and the time since the sender's last beat.             *)
InQueue(s) == {i \in DOMAIN queue : queue[i].from = s}
Count(s) == Cardinality(InQueue(s))
Since == (IF rstate = "CHECK_PULSES" THEN ListenSleep ELSE Away) - rsleep
Progress(s) == IF Running(s) THEN Slept(At(s)) - ssleep[s] ELSE 0

(* All the beats that wait but the first took a period each, and all were  *)
(* made since the receiver saw the queue empty.                            *)
Paced(s) == /\ \/ spc[s] \in {"wake", "beat", "send"} /\ sstate[s] = "BEATING"
               \/ spc[s] = "stopped"
            /\ ssleep[s] <= SegmentSleep
            /\ Count(s) * Period + Progress(s) <= Since + Period

(* A beat is sent with the segments counted anew.                          *)
Segmented(s) == spc[s] = "send" => segment[s] = 0

Unread == /\ rstate \in {"INIT", "CREATING_MQ"} => ~exists
          /\ rpc = "init" => rstate = "INIT"
          /\ exists => Since >= 0
          /\ \A s \in Sender : Segmented(s) /\ (Queued(s) => Paced(s))
-------------------------------------------------------------------------------
LEMMA Multiples == \A a, b, p \in Nat : /\ a * p \in Nat /\ (a + 1) * p = a * p + p
                                        /\ a <= b => a * p <= b * p
                                        /\ a * p < b * p => a < b
<1>1. \A a, p \in Nat : a * p \in Nat /\ (a + 1) * p = a * p + p
  OBVIOUS
<1>2. ASSUME NEW a \in Nat, NEW b \in Nat, NEW p \in Nat, a <= b PROVE a * p <= b * p
  <2>1. b - a \in Nat /\ (b - a) * p \in Nat /\ b * p = a * p + (b - a) * p
    BY <1>1, <1>2
  <2> QED BY <1>1, <2>1
<1>3. ASSUME NEW a \in Nat, NEW b \in Nat, NEW p \in Nat, a * p < b * p PROVE a < b
  <2>1. CASE b <= a
    <3>1. b * p <= a * p /\ a * p \in Nat /\ b * p \in Nat
      BY <1>1, <1>2, <2>1
    <3> QED BY <1>3, <3>1
  <2> QED BY <2>1
<1> QED BY <1>1, <1>2, <1>3

LEMMA SleptFacts ==
  /\ Period \in Nat /\ Away \in Nat /\ CreateSleep <= Away /\ ListenSleep + Slack <= Away
  /\ Slept(0) = SegmentSleep
  /\ \A k \in 0..Segments : Slept(k) \in Nat /\ Slept(k) >= SegmentSleep
  /\ \A k \in 0..(Segments - 1) : Slept(k + 1) = Slept(k) + SegmentSleep
<1>1. /\ Segments \in Nat /\ SegmentSleep \in Nat /\ CreateSleep \in Nat
      /\ ListenSleep \in Nat /\ Slack \in Nat
  BY Products
<1>2. \A k \in Nat : k * SegmentSleep \in Nat /\ (k + 1) * SegmentSleep = k * SegmentSleep + SegmentSleep
  BY <1>1, Multiples
<1>3. \A k \in Nat : Slept(k) \in Nat /\ Slept(k) >= SegmentSleep
  BY <1>1, <1>2 DEF Slept
<1>4. \A k \in Nat : Slept(k + 1) = Slept(k) + SegmentSleep
  <2> TAKE k \in Nat
  <2>1. k + 1 \in Nat
    OBVIOUS
  <2> QED BY <1>2, <2>1 DEF Slept
<1>5. Slept(0) = SegmentSleep
  BY <1>1 DEF Slept
<1>6. Away \in Nat /\ CreateSleep <= Away /\ ListenSleep + Slack <= Away
  BY <1>1 DEF Away
<1>7. 0..Segments \subseteq Nat /\ 0..(Segments - 1) \subseteq Nat
  BY <1>1
<1> QED BY <1>1, <1>3, <1>4, <1>5, <1>6, <1>7 DEF Period

(* The beats of a sender in the queue can be counted.                      *)
LEMMA CountFacts ==
  ASSUME IInv, NEW s \in Sender
  PROVE  /\ IsFiniteSet(InQueue(s)) /\ Count(s) \in Nat
         /\ InQueue(s) \subseteq 1..Len(queue) /\ Len(queue) \in Nat
         /\ Queued(s) <=> InQueue(s) # {}
         /\ Count(s) = 0 <=> ~Queued(s)
<1>1. DOMAIN queue = 1..Len(queue) /\ Len(queue) \in Nat
  BY DEF IInv, TypeOK
<1>2. InQueue(s) \subseteq 1..Len(queue)
  BY <1>1 DEF InQueue
<1>3. IsFiniteSet(InQueue(s))
  <2>1. IsFiniteSet(1..Len(queue))
    BY <1>1, FS_Interval
  <2> QED BY <1>2, <2>1, FS_Subset
<1>4. Queued(s) <=> InQueue(s) # {}
  BY DEF Queued, InQueue
<1> QED BY <1>1, <1>2, <1>3, <1>4, FS_CardinalityType, FS_EmptySet DEF Count

(* A beat sent is one more, and changes nothing for the other senders.     *)
LEMMA CountSent ==
  ASSUME IInv, NEW s \in Sender, Sends(s)
  PROVE  /\ Count(s)' = Count(s) + 1
         /\ \A t \in Sender \ {s} : Count(t)' = Count(t)
<1> DEFINE n == Len(queue) + 1
<1>1. /\ DOMAIN queue = 1..Len(queue) /\ DOMAIN queue' = 1..n /\ Len(queue) \in Nat
      /\ queue'[n].from = s /\ \A i \in 1..Len(queue) : queue'[i] = queue[i]
  <2>1. queue' = Append(queue, [from |-> s, age |-> beat[s]]) /\ queue \in Seq(Message)
        /\ [from |-> s, age |-> beat[s]] \in Message
    BY DEF Sends, SendMessage, IInv, TypeOK, Message
  <2> QED BY <2>1
<1>2. n \notin InQueue(s)
  BY <1>1 DEF InQueue
<1>3. InQueue(s)' = InQueue(s) \cup {n} /\ \A t \in Sender \ {s} : InQueue(t)' = InQueue(t)
  BY <1>1 DEF InQueue
<1> HIDE DEF n
<1>4. Cardinality(InQueue(s) \cup {n}) = Cardinality(InQueue(s)) + 1
  BY <1>2, CountFacts, FS_AddElement
<1> QED BY <1>3, <1>4 DEF Count

(* Taking the oldest beat leaves no sender with more.                      *)
LEMMA CountTaken ==
  ASSUME IInv, TakeMessage, NEW s \in Sender
  PROVE  /\ Queued(s)' => Queued(s)
         /\ Count(s)' \in Nat /\ Count(s)' <= Count(s)
<1>1. /\ queue' \in Seq(Message)
      /\ \A i \in DOMAIN queue' : i \in Nat /\ i + 1 \in DOMAIN queue /\ queue'[i] = queue[i + 1]
  BY TailFacts DEF TakeMessage, IInv, TypeOK
<1> DEFINE S == InQueue(s)'
           T == InQueue(s)
           f == [i \in S |-> i + 1]
<1>2. \A i \in S : i \in Nat /\ i + 1 \in T
  BY <1>1 DEF InQueue
<1>3. f \in Injection(S, T)
  <2>1. f \in [S -> T]
    BY <1>2
  <2>2. \A a, b \in S : f[a] = f[b] => a = b
    BY <1>2
  <2> QED BY <2>1, <2>2 DEF Injection, IsInjective
<1> HIDE DEF S, T, f
<1>4. IsFiniteSet(S) /\ Cardinality(S) <= Cardinality(T)
  BY <1>3, CountFacts, FS_Injection DEF T
<1>5. Cardinality(S) \in Nat
  BY <1>4, FS_CardinalityType
<1>6. Queued(s)' => Queued(s)
  BY <1>1 DEF Queued
<1> QED BY <1>4, <1>5, <1>6 DEF Count, S, T

(* A queue with at most k beats of every sender holds at most k times as   *)
(* many beats as there are senders: a beat is told by its sender and its   *)
(* place among that sender's beats.                                        *)
LEMMA QueueBound ==
  ASSUME IInv, IsFiniteSet(Sender), NEW k \in Nat, \A s \in Sender : Count(s) <= k
  PROVE  Len(queue) <= Cardinality(Sender) * k
<1> DEFINE n == Len(queue)
           Upto(i) == {j \in 1..i : queue[j].from = queue[i].from}
           place == [i \in 1..n |-> <<queue[i].from, Cardinality(Upto(i))>>]
<1>1. n \in Nat /\ DOMAIN queue = 1..n /\ \A i \in 1..n : queue[i].from \in Sender
  <2>1. queue \in Seq(Message)
    BY DEF IInv, TypeOK
  <2>2. n \in Nat /\ DOMAIN queue = 1..n /\ \A i \in 1..n : queue[i] \in Message
    BY <2>1
  <2>3. \A m \in Message : m.from \in Sender
    BY DEF Message
  <2> QED BY <2>2, <2>3
<1>2. ASSUME NEW i \in 1..n
      PROVE  /\ IsFiniteSet(Upto(i)) /\ i \in Upto(i) /\ Upto(i) \subseteq InQueue(queue[i].from)
             /\ Cardinality(Upto(i)) \in 1..k
  <2>1. i \in Upto(i) /\ Upto(i) \subseteq InQueue(queue[i].from)
    BY <1>1 DEF InQueue
  <2> DEFINE s == queue[i].from
             U == Upto(i)
  <2>2. s \in Sender /\ i \in U /\ U \subseteq InQueue(s)
    BY <1>1, <2>1
  <2> HIDE DEF s, U
  <2>3. IsFiniteSet(U) /\ Cardinality(U) <= Count(s)
    BY <2>2, CountFacts, FS_Subset DEF Count
  <2>4. Cardinality(U) \in Nat /\ Cardinality(U) # 0
    BY <2>2, <2>3, FS_CardinalityType, FS_EmptySet
  <2>5. Count(s) <= k /\ Count(s) \in Nat
    BY <2>2, CountFacts
  <2>6. Cardinality(U) \in 1..k
    BY <2>3, <2>4, <2>5
  <2> QED BY <2>1, <2>3, <2>6 DEF U
<1>3. ASSUME NEW i \in 1..n, NEW j \in 1..n, i < j, queue[i].from = queue[j].from
      PROVE  Cardinality(Upto(i)) # Cardinality(Upto(j))
  <2>1. Upto(i) \subseteq Upto(j) /\ j \notin Upto(i) /\ j \in Upto(j)
    BY <1>1, <1>3
  <2>2. IsFiniteSet(Upto(j))
    BY <1>2
  <2> QED BY <2>1, <2>2, FS_Subset
<1>4. place \in Injection(1..n, Sender \X (1..k))
  <2>1. place \in [1..n -> Sender \X (1..k)]
    BY <1>1, <1>2
  <2>2. ASSUME NEW i \in 1..n, NEW j \in 1..n, place[i] = place[j] PROVE i = j
    <3>1. queue[i].from = queue[j].from /\ Cardinality(Upto(i)) = Cardinality(Upto(j))
      BY <2>2
    <3>2. ~(i < j) /\ ~(j < i)
      BY <1>3, <3>1
    <3> QED BY <1>1, <3>2
  <2> QED BY <2>1, <2>2 DEF Injection, IsInjective
<1>5. /\ IsFiniteSet(Sender \X (1..k))
      /\ Cardinality(Sender \X (1..k)) = Cardinality(Sender) * Cardinality(1..k)
  <2>1. IsFiniteSet(1..k)
    BY FS_Interval
  <2> QED BY <2>1, FS_Product
<1>6. Cardinality(1..k) = k /\ Cardinality(1..n) = n
  <2>1. \A m \in Nat : Cardinality(1..m) = IF 1 > m THEN 0 ELSE m - 1 + 1
    BY FS_Interval
  <2>2. \A m \in Nat : Cardinality(1..m) = m
    BY <2>1
  <2> QED BY <1>1, <2>2
<1> HIDE DEF place
<1>7. Cardinality(1..n) <= Cardinality(Sender \X (1..k))
  BY <1>4, <1>5, FS_Injection
<1> QED BY <1>5, <1>6, <1>7
-------------------------------------------------------------------------------
(* A sender that goes round its loop makes at most one beat a period.      *)
LEMMA OwnPace ==
  ASSUME IInv, Timing, Unread, Room, NEW s \in Sender, SenderStep(s), Since' = Since
  PROVE  Segmented(s)' /\ (Queued(s)' => Paced(s)')
<1> USE DEF Go, GoOn, Sleep, SetState
<1>1. /\ ssleep \in [Sender -> Int] /\ segment \in [Sender -> 0..Segments]
      /\ sstate \in [Sender -> SenderState] /\ spc \in [Sender -> SenderPc] /\ rsleep \in Int
  BY DEF IInv, TypeOK
<1>2. /\ Segments \in Nat /\ SegmentSleep \in Nat /\ ListenSleep \in Nat /\ Away \in Nat
      /\ Period \in Nat /\ Since \in Int
      /\ Period' = Period /\ SegmentSleep' = SegmentSleep
      /\ Slept(0) = SegmentSleep /\ Period = Slept(Segments)
      /\ \A k : Slept(k)' = Slept(k)
      /\ \A k \in 0..Segments : Slept(k) \in Nat /\ Slept(k) >= SegmentSleep
      /\ \A k \in 0..(Segments - 1) : Slept(k + 1) = Slept(k) + SegmentSleep
  BY <1>1, Products, SleptFacts DEF Since, Period, Slept
<1> HIDE DEF Go, GoOn, Sleep, SetState
<1>3. CASE Sends(s)
  <2>1. /\ spc[s] = "send" /\ spc' = [spc EXCEPT ![s] = "wake"]
        /\ ssleep' = [ssleep EXCEPT ![s] = SegmentSleep]
        /\ UNCHANGED <<sstate, segment>> /\ sconnected[s]
    <3>1. SSend(s)
      <4>1. queue' # queue
        BY <1>3 DEF Sends, SendMessage, IInv, TypeOK
      <4> QED BY <4>1
          DEF SenderStep, SWake, SStop, SInit, SJoin, SJoined, SBeat, SRefused, SFailed, SAgain,
              SSent, SCrash, SendTimesOut, Timing, Calm, Go, GoOn, Sleep, SetState
    <3>2. queue' # queue
      BY <1>3 DEF Sends, SendMessage, IInv, TypeOK
    <3> QED BY <3>1, <3>2 DEF SSend, Sends, SendTimesOut, GoOn, Sleep, Go
  <2>2. sstate[s] = "BEATING" /\ ssleep[s] <= 0 /\ exists /\ segment[s] = 0
    BY <2>1 DEF Timing, Calm, Unread, Segmented
  <2>3. Segmented(s)'
    BY <1>1, <2>1 DEF Segmented
  <2>4. Progress(s)' = 0
    <3>1. At(s)' = 0 /\ ssleep'[s] = SegmentSleep
      BY <1>1, <2>1, <2>2 DEF At
    <3> QED BY <1>2, <3>1 DEF Progress
  <2>5. Count(s)' * Period = Count(s) * Period + Period /\ Count(s) \in Nat
    BY <1>2, <1>3, CountSent, CountFacts, Multiples
  <2> DEFINE c == Count(s) * Period
  <2>6. c <= Since
    <3>1. CASE ~Queued(s)
      <4>1. Count(s) = 0 /\ Since >= 0
        BY <2>2, <3>1, CountFacts DEF Unread
      <4> QED BY <1>2, <4>1
    <3>2. CASE Queued(s)
      <4>1. c + Progress(s) <= Since + Period
        BY <3>2 DEF Unread, Paced
      <4>2. At(s) = Segments /\ Progress(s) = Period - ssleep[s]
        BY <1>2, <2>1 DEF At, Progress, Running
      <4>3. c \in Nat /\ ssleep[s] \in Int
        BY <1>1, <1>2, <2>5, Multiples
      <4> HIDE DEF c
      <4> QED BY <1>2, <2>2, <4>1, <4>2, <4>3
    <3> QED BY <3>1, <3>2
  <2>7. Count(s)' * Period' + Progress(s)' <= Since' + Period'
    <3>1. Count(s)' * Period' = c + Period
      BY <1>2, <2>5
    <3>2. c \in Nat
      BY <1>2, <2>5, Multiples
    <3> HIDE DEF c
    <3> QED BY <1>2, <2>4, <2>6, <3>1, <3>2
  <2>8. spc'[s] = "wake" /\ sstate'[s] = "BEATING" /\ ssleep'[s] = SegmentSleep
    BY <1>1, <2>1, <2>2
  <2> QED BY <1>2, <2>3, <2>7, <2>8 DEF Paced
<1>4. CASE ~Sends(s)
  <2>1. queue' = queue
    BY <1>4, SenderSends
  <2>2. Segmented(s)'
    <3>1. CASE SBeat(s)
      BY <1>1, <3>1 DEF SBeat, Segmented, GoOn, Sleep, Go
    <3>2. CASE SWake(s)
      <4>1. sstate[s] \in {"INIT", "JOINING_MQ", "BEATING"}
        BY <1>1, <3>2 DEF SWake, GoOn, Sleep, Go, Timing, Calm, IInv, Alive, Ended, SenderState
      <4>2. Handler[sstate[s]] \in {"init", "join", "beat"}
        BY <4>1 DEF Handler
      <4>3. spc'[s] # "send"
        BY <1>1, <3>2, <4>1, <4>2 DEF SWake, GoOn, Sleep, Go
      <4> QED BY <4>3 DEF Segmented
    <3>3. CASE ~SBeat(s) /\ ~SWake(s)
      <4>1. spc'[s] # "send"
        BY <1>1, <1>4, <3>3
           DEF SenderStep, SStop, SInit, SJoin, SJoined, SSend, SRefused, SFailed, SAgain, SSent,
               SCrash, GoOn, Sleep, Go
      <4> QED BY <4>1 DEF Segmented
    <3> QED BY <3>1, <3>2, <3>3
  <2>3. ASSUME Queued(s)' PROVE Paced(s)'
    <3>1. Queued(s) /\ Paced(s) /\ Count(s)' = Count(s)
      BY <2>1, <2>3 DEF Queued, Unread, Count, InQueue
    <3>2. Calm(s)
      BY DEF Timing
    <3>3. SWake(s) \/ SStop(s) \/ SBeat(s)
      <4>1. ~SSend(s) /\ ~SCrash(s)
        <5>1. ~SendTimesOut
          BY MaxMsgsAssumption DEF Room, SendTimesOut, IInv, TypeOK
        <5>2. SCrash(s) => spc[s] = "send" /\ ~sconnected[s]
          BY <3>1, <3>2 DEF SCrash, Sleep, Go, Calm
        <5>3. spc[s] = "send" => sconnected[s]
          BY <3>2 DEF Calm
        <5> QED BY <1>4, <5>1, <5>2, <5>3 DEF SSend
      <4> QED BY <3>1, <4>1 DEF SenderStep, SInit, SJoin, SJoined, SRefused, SFailed, SAgain, SSent,
                              Paced, GoOn, Sleep, Go
    <3>4. Progress(s) \in Int /\ At(s) \in 0..Segments /\ ssleep[s] \in Int
      BY <1>1, <1>2, AtFacts DEF Progress
    <3>5. /\ \/ spc'[s] \in {"wake", "beat", "send"} /\ sstate'[s] = "BEATING"
             \/ spc'[s] = "stopped"
          /\ ssleep'[s] <= SegmentSleep
          /\ Progress(s)' \in Int /\ Progress(s)' <= Progress(s)
      <4>1. CASE SWake(s)
        <5>1. Handler["BEATING"] = "beat"
          BY DEF Handler
        <5>2. spc[s] \in {"first", "wake"} /\ UNCHANGED <<sstate, ssleep, segment>>
              /\ spc[s] = "wake" /\ sstate[s] = "BEATING" /\ spc' = [spc EXCEPT ![s] = "beat"]
          BY <3>1, <4>1, <5>1 DEF SWake, GoOn, Sleep, Go, Paced
        <5>3. spc'[s] = "beat" /\ At(s)' = At(s) /\ Running(s)' /\ Running(s)
          BY <1>1, <5>2 DEF At, Running
        <5> QED BY <1>2, <3>1, <3>4, <5>2, <5>3 DEF Progress, Paced
      <4>2. CASE SStop(s)
        <5>1. spc[s] = "wake" /\ spc'[s] = "stopped" /\ ssleep'[s] = 0
          BY <1>1, <4>2 DEF SStop, Sleep, Go
        <5>2. Progress(s)' = 0 /\ Progress(s) = Slept(At(s)) - ssleep[s]
          BY <5>1 DEF Progress, Running
        <5>3. ssleep[s] <= SegmentSleep /\ Slept(At(s)) >= SegmentSleep /\ Slept(At(s)) \in Nat
          BY <1>2, <3>1, <3>4 DEF Paced
        <5> QED BY <1>2, <3>4, <5>1, <5>2, <5>3
      <4>3. CASE SBeat(s)
        <5>1. spc[s] = "beat" /\ sstate[s] = "BEATING" /\ ssleep[s] <= 0 /\ sstate' = sstate
              /\ At(s) = segment[s] /\ Running(s)
          BY <3>2, <4>3 DEF SBeat, Calm, GoOn, Sleep, Go, At, Running
        <5>2. CASE segment[s] >= Segments
          <6>1. spc'[s] = "send" /\ ssleep' = ssleep /\ segment[s] = Segments
            BY <1>1, <1>2, <4>3, <5>2 DEF SBeat, GoOn, Go
          <6>2. At(s)' = At(s) /\ Running(s)'
            BY <5>1, <6>1 DEF At, Running
          <6> QED BY <1>2, <3>1, <3>4, <5>1, <6>1, <6>2 DEF Progress, Paced
        <5>3. CASE segment[s] < Segments
          <6>1. spc'[s] = "wake" /\ ssleep'[s] = SegmentSleep /\ segment'[s] = segment[s] + 1
            BY <1>1, <1>2, <4>3, <5>3 DEF SBeat, Sleep, Go
          <6>2. At(s)' = At(s) + 1 /\ Running(s)' /\ At(s) \in 0..(Segments - 1)
            BY <1>1, <1>2, <5>1, <5>3, <6>1 DEF At, Running
          <6>3. Progress(s)' = Slept(At(s)) /\ Progress(s) = Slept(At(s)) - ssleep[s]
                /\ Slept(At(s)) \in Nat
            <7>1. Slept(At(s) + 1) = Slept(At(s)) + SegmentSleep /\ Slept(At(s)) \in Nat
              BY <1>2, <3>4, <6>2
            <7>2. Progress(s)' = Slept(At(s) + 1) - SegmentSleep
              BY <1>2, <6>1, <6>2 DEF Progress
            <7> QED BY <1>2, <5>1, <7>1, <7>2 DEF Progress
          <6> QED BY <1>2, <3>4, <5>1, <6>1, <6>3
        <5> QED BY <1>1, <1>2, <5>2, <5>3
      <4> QED BY <3>3, <4>1, <4>2, <4>3
    <3>6. Count(s)' * Period' + Progress(s)' <= Since' + Period'
      <4> DEFINE c == Count(s) * Period
      <4>1. c \in Nat /\ Count(s)' * Period' = c
        BY <1>2, <3>1, CountFacts, Multiples
      <4>2. c + Progress(s) <= Since + Period
        BY <3>1 DEF Paced
      <4> HIDE DEF c
      <4> QED BY <1>2, <3>4, <3>5, <4>1, <4>2
    <3> QED BY <1>2, <3>5, <3>6 DEF Paced
  <2> QED BY <2>2, <2>3
<1> QED BY <1>3, <1>4

(* What leaves the threads, the queue and the clock of the receiver alone. *)
LEMMA PaceKept ==
  ASSUME NEW s \in Sender, Queued(s) => Paced(s), Since' = Since, Queued(s)' => Queued(s),
         Count(s)' = Count(s), spc'[s] = spc[s], sstate'[s] = sstate[s],
         ssleep'[s] = ssleep[s], segment'[s] = segment[s]
  PROVE  Queued(s)' => Paced(s)'
<1>1. /\ Period' = Period /\ SegmentSleep' = SegmentSleep /\ Progress(s)' = Progress(s)
  BY DEF Period, Slept, Progress, At, Running
<1> QED BY <1>1 DEF Paced

LEMMA SenderUnread ==
  ASSUME IInv, Timing, Unread, Room, NEW s \in Sender, ASender(s)
  PROVE  Unread'
<1>1. /\ SenderStep(s) /\ UNCHANGED <<rstate, rpc, rsleep>> /\ exists' = exists
  BY SenderSends DEF ASender, receiver, Sends, SendMessage
<1>2. Since' = Since
  BY <1>1 DEF Since, Away
<1>3. Segmented(s)' /\ (Queued(s)' => Paced(s)')
  BY <1>1, <1>2, OwnPace
<1>4. ASSUME NEW t \in Sender \ {s} PROVE Segmented(t)' /\ (Queued(t)' => Paced(t)')
  <2>1. /\ spc'[t] = spc[t] /\ sstate'[t] = sstate[t] /\ ssleep'[t] = ssleep[t]
        /\ segment'[t] = segment[t]
    BY <1>1, OthersKept
  <2>2. Count(t)' = Count(t) /\ (Queued(t)' => Queued(t))
    <3>1. CASE Sends(s)
      BY <3>1, CountSent, SentLast
    <3>2. CASE ~Sends(s)
      BY <1>1, <3>2, SenderSends DEF Count, InQueue, Queued
    <3> QED BY <3>1, <3>2
  <2> QED BY <1>2, <2>1, <2>2, PaceKept DEF Unread, Segmented
<1> QED BY <1>1, <1>2, <1>3, <1>4 DEF Unread

LEMMA SensorUnread ==
  ASSUME IInv, Unread, NEW s \in Sender, SensorThread(s) PROVE Unread'
<1>1. UNCHANGED <<receiver, exists, queue, sstate, segment>>
  BY DEF SensorThread, MInit, MPrefill, MMeasure, MFailure, MDead, StartSender, EndSender,
         vars, sender, program
<1>2. UNCHANGED <<rstate, rpc, rsleep>> /\ Since' = Since
  BY <1>1 DEF receiver, Since, Away
<1>3. ASSUME NEW t \in Sender PROVE Segmented(t)' /\ (Queued(t)' => Paced(t)')
  <2>1. \/ spc'[t] = spc[t] /\ ssleep'[t] = ssleep[t]
        \/ spc[t] = "off" /\ spc'[t] = "first" /\ ssleep'[t] = 0
    BY DEF SensorThread, MInit, MPrefill, MMeasure, MFailure, MDead, StartSender, EndSender,
           Sleep, Go, vars, sender, program, IInv, TypeOK
  <2>2. Count(t)' = Count(t) /\ (Queued(t)' <=> Queued(t))
    BY <1>1 DEF Count, InQueue, Queued
  <2>3. CASE spc'[t] = spc[t] /\ ssleep'[t] = ssleep[t]
    BY <1>1, <1>2, <2>2, <2>3, PaceKept DEF Unread, Segmented
  <2>4. CASE spc[t] = "off" /\ spc'[t] = "first"
    BY <2>2, <2>4 DEF Unread, Segmented, Paced
  <2> QED BY <2>1, <2>3, <2>4
<1> QED BY <1>1, <1>2, <1>3 DEF Unread

LEMMA MainUnread ==
  ASSUME IInv, Timing, Unread, MainProgram PROVE Unread'
<1>1. /\ UNCHANGED <<sender, exists, queue, rstate>>
      /\ \/ UNCHANGED <<rpc, rsleep>>
         \/ rpc = "off" /\ rpc' = "first"
  BY DEF MainProgram, StartsReceiver, AddsSender, AddedAll, EndsReceiver, JoinsReceiver,
         StartReceiver, AddSenderId, EndReceiver, RSleep, program, vars, receiver, records
<1>2. ASSUME NEW s \in Sender
      PROVE  Segmented(s)' /\ Count(s)' = Count(s) /\ (Queued(s)' => Queued(s))
             /\ spc'[s] = spc[s] /\ sstate'[s] = sstate[s] /\ ssleep'[s] = ssleep[s]
             /\ segment'[s] = segment[s]
  BY <1>1 DEF Unread, Segmented, Count, InQueue, Queued, sender
<1>3. CASE UNCHANGED <<rpc, rsleep>>
  <2>1. Since' = Since
    BY <1>1, <1>3 DEF Since, Away
  <2> QED BY <1>1, <1>2, <1>3, <2>1, PaceKept DEF Unread
<1>4. CASE rpc = "off" /\ rpc' = "first"
  <2>1. ~exists /\ queue = <<>>
    BY <1>4 DEF Timing, ReceiverTimed, Unread
  <2>2. \A s \in Sender : ~Queued(s)'
    BY <1>1, <2>1 DEF Queued
  <2> QED BY <1>1, <1>2, <1>4, <2>1, <2>2 DEF Unread
<1> QED BY <1>1, <1>3, <1>4

(* Time passes for the receiver as for the senders.                        *)
LEMMA TickUnread ==
  ASSUME IInv, Timing, Unread, rpc \notin Ended, ATick PROVE Unread'
<1>0. \A s \in Sender : ~Spinning(s)
  BY DEF Timing, Calm, Spinning
<1>1. /\ rsleep' = IF RRunning THEN rsleep - 1 ELSE 0
      /\ ssleep' = [s \in Sender |-> IF Running(s) THEN ssleep[s] - 1 ELSE 0]
      /\ UNCHANGED <<sstate, spc, segment, exists, rstate, rpc>>
  BY <1>0 DEF ATick, Tick, Later
<1>2. /\ DOMAIN queue' = DOMAIN queue
      /\ \A i \in DOMAIN queue : queue'[i].from = queue[i].from
      /\ queue = <<>> => queue' = <<>>
  <2>1. /\ DOMAIN queue' = DOMAIN queue /\ queue' \in Seq(Message) /\ Len(queue') = Len(queue)
        /\ \A i \in DOMAIN queue : queue'[i].from = queue[i].from
    BY QueueAges DEF ATick
  <2> QED BY <2>1 DEF IInv, TypeOK
<1>3. \A s \in Sender : Count(s)' = Count(s) /\ (Queued(s)' <=> Queued(s))
  <2>1. \A s \in Sender : InQueue(s)' = InQueue(s)
    BY <1>2 DEF InQueue
  <2> QED BY <1>2, <2>1 DEF Count, Queued
<1>4. ssleep \in [Sender -> Int] /\ rsleep \in Int
  BY DEF IInv, TypeOK
<1>5. Slack \in Nat /\ SegmentSleep \in Nat /\ Away \in Nat /\ ListenSleep \in Nat /\ Period \in Nat
  BY Products, SleptFacts
<1>6. exists => Since' = Since + 1 /\ Since \in Int
  <2>1. exists => RRunning
    BY DEF Timing, ReceiverTimed, Unread, RRunning, Ended
  <2>2. exists => rsleep' = rsleep - 1
    BY <1>1, <2>1
  <2> QED BY <1>1, <1>4, <1>5, <2>2 DEF Since, Away
<1>7. ASSUME NEW s \in Sender, Queued(s) PROVE Paced(s)'
  <2>1. exists /\ Paced(s)
    BY <1>7 DEF Timing, ReceiverTimed, Queued, Unread
  <2>2. CASE Running(s)
    <3>1. Running(s)' /\ ssleep'[s] = ssleep[s] - 1 /\ At(s)' = At(s) /\ Slept(At(s))' = Slept(At(s))
      BY <1>1, <2>2 DEF Running, At, Slept
    <3>2. Progress(s)' = Slept(At(s)) - (ssleep[s] - 1) /\ Progress(s) = Slept(At(s)) - ssleep[s]
      BY <2>2, <3>1 DEF Progress
    <3>3. Slept(At(s)) \in Nat /\ ssleep[s] \in Int
      BY <1>4, AtFacts, SleptFacts
    <3>4. Progress(s)' = Progress(s) + 1 /\ Progress(s) \in Int /\ ssleep'[s] <= SegmentSleep
      BY <1>5, <2>1, <3>1, <3>2, <3>3 DEF Paced
    <3> DEFINE c == Count(s) * Period
    <3>5. c \in Nat /\ Count(s)' * Period' = c /\ Period' = Period
      BY <1>3, <1>5, CountFacts, Multiples DEF Period, Slept
    <3>6. c + Progress(s) <= Since + Period
      BY <2>1 DEF Paced
    <3> HIDE DEF c
    <3>7. Count(s)' * Period' + Progress(s)' <= Since' + Period'
      BY <1>5, <1>6, <2>1, <3>4, <3>5, <3>6
    <3> QED BY <1>1, <2>1, <3>4, <3>7 DEF Paced
  <2>3. CASE ~Running(s)
    <3>1. ~Running(s)' /\ ssleep'[s] = 0 /\ Progress(s)' = 0 /\ Progress(s) = 0
      BY <1>1, <2>3 DEF Running, Progress
    <3> DEFINE c == Count(s) * Period
    <3>2. c \in Nat /\ Count(s)' * Period' = c /\ Period' = Period
      BY <1>3, <1>5, CountFacts, Multiples DEF Period, Slept
    <3>3. c + 0 <= Since + Period
      BY <2>1, <3>1 DEF Paced
    <3> HIDE DEF c
    <3>4. Count(s)' * Period' + Progress(s)' <= Since' + Period'
      BY <1>5, <1>6, <2>1, <3>1, <3>2, <3>3
    <3> QED BY <1>1, <1>5, <2>1, <3>1, <3>4 DEF Paced
  <2> QED BY <2>2, <2>3
<1>8. exists => Since' >= 0
  BY <1>6 DEF Unread
<1> QED BY <1>1, <1>3, <1>7, <1>8 DEF Unread, Segmented

(* The receiver counts the time it is away anew only when it has seen the  *)
(* queue empty.                                                            *)
LEMMA ReceiverUnread ==
  ASSUME IInv, Timing, Unread, AReceiver, rpc' \notin Ended PROVE Unread'
<1>1. ReceiverStep /\ UNCHANGED sender
  BY DEF AReceiver
<1>2. /\ rsleep \in Int /\ rstate \in ReceiverState
      /\ Slack \in Nat /\ ListenSleep \in Nat /\ CreateSleep \in Nat
      /\ Away \in Nat /\ CreateSleep <= Away /\ ListenSleep + Slack <= Away
      /\ Period \in Nat /\ Period' = Period /\ SegmentSleep' = SegmentSleep
  BY Products, SleptFacts DEF IInv, TypeOK, Period, Slept
<1>3. Since \in Int /\ Since' = (IF rstate' = "CHECK_PULSES" THEN ListenSleep ELSE Away) - rsleep'
  BY <1>2 DEF Since, Away
<1>4. \A s \in Sender : Segmented(s)' /\ Progress(s)' = Progress(s) /\ Progress(s) \in Int
  <2>1. \A s \in Sender : Segmented(s)' /\ Progress(s)' = Progress(s)
    BY <1>1 DEF Unread, Segmented, Progress, Running, At, Slept, sender
  <2>2. ASSUME NEW s \in Sender PROVE Progress(s) \in Int
    BY AtFacts, SleptFacts DEF Progress, IInv, TypeOK
  <2> QED BY <2>1, <2>2
<1>5. ASSUME Since' \in Int, Since <= Since', queue' = queue \/ TakeMessage,
             NEW s \in Sender, Queued(s)'
      PROVE  Paced(s)'
  <2>1. /\ Queued(s) /\ Count(s)' \in Nat /\ Count(s)' <= Count(s) /\ Count(s) \in Nat
    <3>1. CASE TakeMessage
      BY <1>5, <3>1, CountTaken, CountFacts
    <3>2. CASE queue' = queue
      <4>1. Queued(s) /\ Count(s)' = Count(s)
        BY <1>5, <3>2 DEF Queued, Count, InQueue
      <4> QED BY <4>1, CountFacts
    <3> QED BY <1>5, <3>1, <3>2
  <2> DEFINE c == Count(s) * Period
             d == Count(s)' * Period
  <2>2. c \in Nat /\ d \in Nat /\ d <= c
    BY <1>2, <2>1, Multiples
  <2>3. Paced(s) /\ c + Progress(s) <= Since + Period
    BY <2>1 DEF Unread, Paced
  <2> HIDE DEF c
  <2>4. d + Progress(s) <= Since' + Period
    <3> HIDE DEF d
    <3> QED BY <1>2, <1>3, <1>4, <1>5, <2>2, <2>3
  <2>5. Count(s)' * Period' + Progress(s)' <= Since' + Period'
    BY <1>2, <1>4, <2>4
  <2> QED BY <1>1, <2>3, <2>5 DEF Paced, sender
<1>6. ASSUME UNCHANGED <<rsleep, rstate, exists>>, queue' = queue \/ TakeMessage, rpc' # "init" \/ rstate = "INIT"
      PROVE  Unread'
  <2>1. Since' = Since
    BY <1>6 DEF Since, Away
  <2> QED BY <1>3, <1>4, <1>5, <1>6, <2>1 DEF Unread
<1>7. CASE RWake
  <2>1. PICK pc \in {"first", "wake"} : RGoOn(pc, RHandler[rstate])
    BY <1>7 DEF RWake
  <2>2. rstate \in {"INIT", "CREATING_MQ", "LISTENING", "CHECK_PULSES"} /\ rpc' = RHandler[rstate]
        /\ UNCHANGED <<rsleep, rstate, exists, queue>>
    BY <1>2, <1>7, <2>1 DEF RWake, RGoOn, IInv, Alive, Ended, ReceiverState
  <2>3. RHandler[rstate] # "init" \/ rstate = "INIT"
    BY <2>2 DEF RHandler
  <2> QED BY <1>6, <2>2, <2>3
<1>8. CASE RPulses \/ RRecord \/ \E s \in Sender : RCheck(s)
  <2>1. UNCHANGED <<rsleep, rstate, exists>> /\ (queue' = queue \/ TakeMessage) /\ rpc' # "init"
    BY <1>8 DEF RPulses, RRecord, RCheck, RGoOn, TakeMessage
  <2> QED BY <1>6, <2>1
<1>9. CASE RInit \/ RCreate
  <2>1. ~exists /\ queue = <<>>
    <3>1. rstate \in {"INIT", "CREATING_MQ"}
      BY <1>9 DEF RInit, RCreate, RSleep, Timing, ReceiverTimed, Unread
    <3> QED BY <3>1 DEF Timing, ReceiverTimed, Unread
  <2>2. /\ rpc' = "wake" /\ queue' = <<>> /\ rsleep' = CreateSleep
        /\ \/ rstate' = "CREATING_MQ" /\ ~exists'
           \/ rstate' = "LISTENING"
    BY <1>9, <2>1 DEF RInit, RCreate, RSleep, Connect, ConnectFails
  <2>3. \A s \in Sender : ~Queued(s)'
    BY <2>2 DEF Queued
  <2>4. rstate' = "LISTENING" => Since' >= 0
    BY <1>2, <1>3, <2>2
  <2> QED BY <1>4, <2>2, <2>3, <2>4 DEF Unread
<1>10. CASE RListened
  <2>1. /\ rpc' = "wake" /\ queue' = <<>> /\ rsleep' = ListenSleep /\ rstate' = "CHECK_PULSES"
    BY <1>10 DEF RListened, RSleep, NoMessage
  <2>2. \A s \in Sender : ~Queued(s)'
    BY <2>1 DEF Queued
  <2>3. Since' >= 0
    BY <1>2, <1>3, <2>1
  <2> QED BY <1>4, <2>1, <2>2, <2>3 DEF Unread
<1>11. CASE RChecked
  <2>1. /\ rpc = "check" /\ rpc' = "wake" /\ rsleep' = 0 /\ rstate' = "LISTENING"
        /\ UNCHANGED <<exists, queue>>
    BY <1>11 DEF RChecked, RSleep
  <2>2. rstate = "CHECK_PULSES" /\ rsleep >= -Slack
    BY <2>1 DEF Timing, ReceiverTimed, RRunning
  <2>3. Since' = Away /\ Since = ListenSleep - rsleep
    BY <1>2, <1>3, <2>1, <2>2 DEF Since
  <2>4. Since' \in Int /\ Since <= Since' /\ Since' >= 0
    BY <1>2, <2>2, <2>3
  <2> QED BY <1>4, <1>5, <2>1, <2>4 DEF Unread
<1>12. CASE RStop \/ RCrash
  BY <1>12 DEF RStop, RCrash, RSleep, Ended
<1> QED BY <1>1, <1>7, <1>8, <1>9, <1>10, <1>11, <1>12 DEF ReceiverStep

LEMMA UnreadStep ==
  ASSUME IInv, Timing, Unread, Room, rpc \notin Ended, rpc' \notin Ended, [ANext]_allVars
  PROVE  Unread'
<1>1. CASE ATick
  BY <1>1, TickUnread
<1>2. CASE AReceiver
  BY <1>2, ReceiverUnread
<1>3. CASE MainProgram
  BY <1>3, MainUnread
<1>4. ASSUME NEW s \in Sender, ASender(s) \/ SensorThread(s) PROVE Unread'
  BY <1>4, SenderUnread, SensorUnread
<1>5. CASE UNCHANGED allVars
  BY <1>5 DEF allVars, vars, program, sender, receiver, Unread, Segmented, Paced, Since, Away,
              Period, Slept, Count, InQueue, Queued, Progress, Running, At
<1> QED BY <1>1, <1>2, <1>3, <1>4, <1>5 DEF ANext

(* With that pace there is always room for one beat more.                  *)
LEMMA UnreadRoom ==
  ASSUME EnoughRoom, IInv, Timing, Unread, rpc \notin Ended
  PROVE  Room
<1>1. PICK k \in Nat : Away + Slack < k * Period /\ Cardinality(Sender) * k < MaxMsgs
  BY DEF EnoughRoom
<1>2. /\ MaxMsgs \in Nat /\ MaxMsgs > 0 /\ Slack \in Nat /\ ListenSleep \in Nat
      /\ Period \in Nat /\ Away \in Nat /\ ListenSleep <= Away /\ rsleep \in Int
  BY MaxMsgsAssumption, Products, SleptFacts DEF IInv, TypeOK
<1>3. CASE ~exists
  <2>1. queue = <<>>
    BY <1>3 DEF Timing, ReceiverTimed
  <2> QED BY <1>2, <2>1 DEF Room
<1>4. CASE exists
  <2>1. Since <= Away + Slack /\ Since \in Int
    <3>1. RRunning
      BY <1>4 DEF Timing, ReceiverTimed, Unread, RRunning, Ended
    <3>2. rsleep >= -Slack
      BY <3>1 DEF Timing, ReceiverTimed
    <3> QED BY <1>2, <3>2 DEF Since
  <2>2. ASSUME NEW s \in Sender PROVE Count(s) <= k
    <3>1. CASE ~Queued(s)
      <4>1. Count(s) = 0
        BY <3>1, CountFacts
      <4> QED BY <4>1
    <3>2. CASE Queued(s)
      <4>1. Count(s) * Period + Progress(s) <= Since + Period /\ ssleep[s] <= SegmentSleep
        BY <3>2 DEF Unread, Paced
      <4>2. Progress(s) \in Nat
        <5>1. Slept(At(s)) \in Nat /\ Slept(At(s)) >= SegmentSleep /\ ssleep[s] \in Int
              /\ SegmentSleep \in Nat
          BY AtFacts, SleptFacts, Products DEF IInv, TypeOK
        <5> QED BY <4>1, <5>1 DEF Progress
      <4>3. Count(s) \in Nat /\ Count(s) # 0
        BY <3>2, CountFacts
      <4> DEFINE n == Count(s) - 1
                 p == n * Period
      <4>4. n \in Nat /\ Count(s) = n + 1
        BY <4>3
      <4> HIDE DEF n
      <4>5. Count(s) * Period = p + Period /\ p \in Nat
        BY <1>2, <4>4, Multiples
      <4>6. p <= Since
        <5> HIDE DEF p
        <5> QED BY <1>2, <2>1, <4>1, <4>2, <4>5
      <4>7. p < k * Period
        <5>1. k * Period \in Nat
          BY <1>2, Multiples
        <5> DEFINE q == k * Period
        <5> HIDE DEF p, q
        <5> QED BY <1>1, <1>2, <2>1, <4>5, <4>6, <5>1 DEF q
      <4>8. n < k
        BY <1>2, <4>4, <4>7, Multiples
      <4> QED BY <4>4, <4>8
    <3> QED BY <3>1, <3>2
  <2>3. IsFiniteSet(Sender) /\ Len(queue) <= Cardinality(Sender) * k
    BY <2>2, QueueBound DEF EnoughRoom
  <2>4. Len(queue) \in Nat /\ Cardinality(Sender) * k \in Nat
    BY <2>3, FS_CardinalityType, Multiples DEF IInv, TypeOK
  <2> DEFINE m == Cardinality(Sender) * k
  <2>5. m \in Nat /\ m < MaxMsgs /\ Len(queue) <= m
    BY <1>1, <2>3, <2>4
  <2> HIDE DEF m
  <2> QED BY <1>2, <2>4, <2>5 DEF Room
<1> QED BY <1>3, <1>4

PaceInv == (Timing /\ Unread) \/ rpc \in Ended

LEMMA PaceStart == AInit => Timing /\ Unread /\ MeasureTyped
<1> SUFFICES ASSUME AInit PROVE Timing /\ Unread /\ MeasureTyped
  OBVIOUS
<1>1. /\ queue = <<>> /\ heard = {} /\ rpc = "off" /\ rstate = "INIT" /\ MeasureTyped /\ ~exists
      /\ \A s \in Sender : /\ sstate[s] = "INIT" /\ spc[s] = "off" /\ sstop[s] = FALSE
                           /\ sconnected[s] = FALSE /\ ~Queued(s)
  BY DEF AInit, Init, SenderInit, ReceiverInit, Queued, MeasureTyped, MeasureState
<1>2. Timing
  BY <1>1 DEF Timing, ReceiverTimed, RRunning, Calm, Running, Timed, Sent, Delivered
<1>3. Unread
  BY <1>1 DEF Unread, Segmented
<1> QED BY <1>1, <1>2, <1>3

LEMMA PaceStep ==
  ASSUME EnoughRoom
  PROVE  IInv /\ MeasureTyped /\ PaceInv /\ [ANext]_allVars => PaceInv'
<1> SUFFICES ASSUME IInv, MeasureTyped, PaceInv, [ANext]_allVars, rpc' \notin Ended
             PROVE  Timing' /\ Unread'
  BY DEF PaceInv, Ended
<1>1. rpc \notin Ended /\ Timing /\ Unread
  BY EndedForGood DEF PaceInv
<1>2. Room
  BY <1>1, UnreadRoom
<1> QED BY <1>1, <1>2, TimingStep, UnreadStep

LEMMA Pace == ASSUME EnoughRoom PROVE ASpec => [](IInv /\ PaceInv)
<1>1. ASpec => []IInv
  BY Uses, Invariant, PTL
<1>2. AInit => PaceInv /\ MeasureTyped
  BY PaceStart DEF PaceInv
<1>3. IInv /\ MeasureTyped /\ PaceInv /\ [ANext]_allVars => PaceInv'
  BY PaceStep
<1> QED BY <1>1, <1>2, <1>3, MeasureStep, PTL DEF ASpec

(* If the queue has room for the beats that may be made while the receiver *)
(* is away, it is not full as long as the receiver's thread has not ended: *)
(* no beat is refused or lost.                                             *)
THEOREM NeverFull == ASSUME EnoughRoom PROVE ASpec => []RoomLeft
<1>1. IInv /\ PaceInv => RoomLeft
  BY UnreadRoom DEF PaceInv, RoomLeft
<1> QED BY <1>1, Pace, PTL

(* If the interval allows for a round of segments, each as late as it may  *)
(* be, and for the receiver's own sleep, and the queue has room for the    *)
(* beats of that time, no sensor of which a beat was recorded is found     *)
(* dead before it fails.                                                   *)
THEOREM OnlyFailed == ASSUME SafeInterval, EnoughRoom PROVE ASpec => OnlyFailedAreFound
<1>1. ASSUME IInv, PaceInv, [ANext]_allVars, NEW s \in dead' \ dead
      PROVE  s \notin heard \/ mstate[s] \in {"FAILURE", "DEAD"}
  <2>1. RCheck(s) /\ rpc = "check"
    <3>1. CASE AReceiver
      <4>1. PICK r \in Sender : RCheck(r)
        BY <1>1, <3>1 DEF AReceiver, ReceiverStep, RWake, RStop, RInit, RCreate, RRecord, RListened,
                          RCrash, RPulses, RChecked, records
      <4> QED BY <1>1, <4>1 DEF RCheck, RGoOn
    <3>2. CASE ~AReceiver
      BY <1>1, <3>2 DEF ANext, allVars, vars, receiver, records, ATick, Tick, MainProgram,
             StartsReceiver, AddsSender, AddedAll, EndsReceiver, JoinsReceiver, StartReceiver,
             AddSenderId, EndReceiver, ASender, SensorThread, MInit, MPrefill, MMeasure, MFailure, MDead
    <3> QED BY <3>1, <3>2
  <2>2. age[s] > Expired
    BY <1>1, <2>1 DEF RCheck, IsExpired
  <2>3. rstate = "CHECK_PULSES" /\ RRunning /\ rsleep >= -Slack
    BY <1>1, <2>1 DEF PaceInv, Timing, ReceiverTimed, RRunning, Ended
  <2>4. s \in heard /\ ~Failed(s) => age[s] + rsleep <= Bound + ListenSleep
    BY <1>1, <2>1, <2>3 DEF PaceInv, Timing, ReceiverTimed, Ended
  <2>5. /\ s \in heard => age[s] \in Nat
        /\ rsleep \in Int /\ Bound \in Nat /\ ListenSleep \in Nat /\ Slack \in Nat /\ Expired \in Nat
    BY <1>1, AgeFacts, Products DEF IInv, TypeOK
  <2>6. Expired >= Bound + ListenSleep + Slack
    BY DEF SafeInterval
  <2>7. s \in heard => Failed(s)
    BY <2>2, <2>3, <2>4, <2>5, <2>6
  <2> QED BY <2>7 DEF Failed
<1>2. IInv /\ PaceInv /\ [ANext]_allVars
        => [\A s \in dead' \ dead : s \notin heard \/ mstate[s] \in {"FAILURE", "DEAD"}]_allVars
  BY <1>1
<1> QED BY <1>2, Pace, PTL DEF ASpec, OnlyFailedAreFound
===============================================================================
