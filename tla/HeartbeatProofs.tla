---------------------------- MODULE HeartbeatProofs ----------------------------
(***************************************************************************)
(* Proofs about the heartbeat, for any senders, sleeps, intervals and      *)
(* capacity, and owners that may pause, resume, end and destroy.  The      *)
(* inductive invariant adds to the checked invariants that only a thread   *)
(* that has ended is in state SHUTDOWN (Alive), without which the loop     *)
(* would have no handler to go to, and that the beat being made is younger *)
(* than the last one sent, and that younger than the one recorded (Ages).  *)
(***************************************************************************)
EXTENDS Heartbeat, TLAPS

SenderOK == /\ sstate \in [Sender -> SenderState]
            /\ spc \in [Sender -> SenderPc]
            /\ ssleep \in [Sender -> Int]
            /\ segment \in [Sender -> 0..Segments]
            /\ sstop \in [Sender -> BOOLEAN] /\ sconnected \in [Sender -> BOOLEAN]
            /\ beat \in [Sender -> Age] /\ lastSent \in [Sender -> Age]
            /\ want \in [Sender -> {"beat", "pause", "gone"}]

ReceiverOK == /\ rstate \in ReceiverState /\ rpc \in ReceiverPc
              /\ rsleep \in Int /\ rstop \in BOOLEAN /\ rconnected \in BOOLEAN
              /\ known \subseteq Sender /\ age \in [Sender -> Age] /\ todo \subseteq known
              /\ heard \subseteq known
              /\ potentiallyDead \subseteq known /\ dead \subseteq known

QueueOK == exists \in BOOLEAN /\ queue \in Seq(Message) /\ Len(queue) <= MaxMsgs

Ended == {"stopped", "crashed"}
Alive == /\ \A s \in Sender : sstate[s] = "SHUTDOWN" => spc[s] \in Ended
         /\ rstate # "SHUTTING_DOWN" /\ (rstate = "SHUTDOWN" => rpc \in Ended)

Ages == \A s \in Sender : beat[s] <= lastSent[s] /\ lastSent[s] <= age[s]

IInv == TypeOK /\ Alive /\ DeadWereSuspected /\ Ages /\ BeatsInOrder

LEMMA Parts == TypeOK <=> SenderOK /\ ReceiverOK /\ QueueOK
BY DEF TypeOK, SenderOK, ReceiverOK, QueueOK

LEMMA PartsNext == SenderOK' /\ ReceiverOK' /\ QueueOK' => TypeOK'
BY DEF TypeOK, SenderOK, ReceiverOK, QueueOK
-------------------------------------------------------------------------------
(* The oldest age is one, and time keeps the order of ages.                *)
LEMMA AgeFacts == /\ Age \subseteq Nat /\ Old \in Age /\ 0 \in Age
                  /\ \A a \in Age : a <= Old /\ Older(a) \in Age
                  /\ \A a, b \in Age : a <= b => Older(a) <= Older(b)
BY SenderAssumption DEF Age, Old, Older

(* What taking the oldest message leaves.                                  *)
LEMMA TailFacts ==
  ASSUME NEW q \in Seq(Message), q # <<>>
  PROVE  /\ Head(q) \in Message /\ Head(q) = q[1] /\ 1 \in DOMAIN q
         /\ Tail(q) \in Seq(Message) /\ Len(Tail(q)) = Len(q) - 1
         /\ \A i \in DOMAIN Tail(q) : i \in Nat /\ i + 1 \in DOMAIN q /\ Tail(q)[i] = q[i + 1]
OBVIOUS

(* What sending a message leaves.                                          *)
LEMMA AppendFacts ==
  ASSUME NEW q \in Seq(Message), NEW m \in Message
  PROVE  /\ Append(q, m) \in Seq(Message) /\ Len(Append(q, m)) = Len(q) + 1
         /\ \A i \in DOMAIN Append(q, m) :
              \/ i \in DOMAIN q /\ Append(q, m)[i] = q[i]
              \/ i = Len(q) + 1 /\ Append(q, m)[i] = m
         /\ \A i \in DOMAIN q : i \in 1..Len(q)
OBVIOUS

(* Everything starts off, with nothing in the queue.                       *)
LEMMA InitInv == Init => IInv
<1> SUFFICES ASSUME Init PROVE IInv
  OBVIOUS
<1> USE DEF Init
<1>1. SenderOK
  <2>1. Segments \in Nat
    BY SenderAssumption
  <2> QED BY <2>1, AgeFacts DEF SenderInit, SenderOK, SenderState, SenderPc
<1>2. ReceiverOK
  <2>1. age \in [Sender -> Age]
    BY AgeFacts DEF ReceiverInit
  <2>2. /\ rstate = "INIT" /\ rpc = "off" /\ rsleep = 0 /\ rstop = FALSE /\ rconnected = FALSE
        /\ known = {} /\ heard = {} /\ todo = {} /\ potentiallyDead = {} /\ dead = {}
    BY DEF ReceiverInit
  <2>3. rstate \in ReceiverState /\ rpc \in ReceiverPc /\ rsleep \in Int
    BY <2>2 DEF ReceiverState, ReceiverPc
  <2>4. rstop \in BOOLEAN /\ rconnected \in BOOLEAN
    BY <2>2
  <2>5. known \subseteq Sender /\ heard \subseteq known /\ todo \subseteq known
        /\ potentiallyDead \subseteq known /\ dead \subseteq known
    BY <2>2
  <2> QED BY <2>1, <2>3, <2>4, <2>5 DEF ReceiverOK
<1>3. QueueOK
  <2>1. queue \in Seq(Message) /\ Len(queue) = 0
    OBVIOUS
  <2>2. exists \in BOOLEAN
    OBVIOUS
  <2>3. Len(queue) <= MaxMsgs
    BY <2>1, MaxMsgsAssumption
  <2> QED BY <2>1, <2>2, <2>3 DEF QueueOK
<1>4. Alive /\ DeadWereSuspected
  BY DEF SenderInit, ReceiverInit, Alive, DeadWereSuspected
<1>5. Ages
  BY AgeFacts DEF SenderInit, ReceiverInit, Ages
<1>6. BeatsInOrder
  BY DEF BeatsInOrder
<1> QED BY <1>1, <1>2, <1>3, <1>4, <1>5, <1>6, Parts DEF IInv
-------------------------------------------------------------------------------
(* Steps that leave the messages as they are.                              *)
LEMMA QueueKept ==
  ASSUME BeatsInOrder, UNCHANGED <<queue, lastSent, age>>
  PROVE  BeatsInOrder'
BY DEF BeatsInOrder

(* The types of a sender, whatever it or its owner does.                   *)
LEMMA SenderTypes ==
  ASSUME SenderOK, NEW s \in Sender, SenderStep(s) \/ Owner(s),
         \A r \in Sender : sstate[r] = "SHUTDOWN" => spc[r] \in Ended
  PROVE  SenderOK' /\ \A r \in Sender : sstate'[r] = "SHUTDOWN" => spc'[r] \in Ended
<1> USE SenderAssumption
    DEF SenderOK, SenderState, SenderPc, Go, GoOn, Sleep, SetState, Running, Ended
<1>1. CASE SWake(s)
  <2>1. PICK pc \in {"first", "wake"} :
          IF sstate[s] = "SHUTTING_DOWN" THEN Sleep(s, pc, "wake", 0)
                                         ELSE GoOn(s, pc, Handler[sstate[s]])
    BY <1>1 DEF SWake
  <2>2. sstate[s] \in {"INIT", "JOINING_MQ", "BEATING", "SEND_FAILED", "SHUTTING_DOWN"}
    BY <2>1
  <2>3. sstate[s] # "SHUTTING_DOWN" => Handler[sstate[s]] \in {"init", "join", "beat", "failed"}
    BY <2>2 DEF Handler
  <2> QED BY <1>1, <2>1, <2>2, <2>3 DEF SWake
<1>2. CASE SStop(s) \/ SInit(s)
  BY <1>2 DEF SStop, SInit
<1>3. CASE SJoin(s)
  <2>1. CASE exists
    BY <1>3, <2>1 DEF SJoin
  <2>2. CASE ~exists
    BY <1>3, <2>2 DEF SJoin
  <2> QED BY <2>1, <2>2
<1>10. CASE SJoined(s)
  BY <1>10 DEF SJoined
<1>4. CASE SBeat(s)
  <2>1. Segments \in Nat /\ 0 \in Age
    BY AgeFacts
  <2> QED BY <1>4, <2>1 DEF SBeat
<1>5. CASE SSend(s)
  BY <1>5 DEF SSend, Sends
<1>6. CASE SRefused(s) \/ SSent(s) \/ SCrash(s)
  BY <1>6 DEF SRefused, SSent, SCrash
<1>7. CASE SFailed(s)
  BY <1>7, AgeFacts DEF SFailed
<1>8. CASE SAgain(s)
  BY <1>8 DEF SAgain, Sends
<1>9. CASE Owner(s)
  <2>1. CASE StartSender(s)
    BY <2>1 DEF StartSender
  <2>2. CASE PauseBeat(s) \/ ResumeBeat(s)
    BY <2>2 DEF PauseBeat, ResumeBeat
  <2>3. CASE EndSender(s) \/ DisconnectSender(s)
    BY <2>3 DEF EndSender, DisconnectSender
  <2> QED BY <1>9, <2>1, <2>2, <2>3 DEF Owner
<1> QED BY <1>10, <1>1, <1>2, <1>3, <1>4, <1>5, <1>6, <1>7, <1>8, <1>9 DEF SenderStep

(* What a sender does to the queue: nothing, or it sends the beat it has   *)
(* made, which is then the last.                                           *)
LEMMA SenderSends ==
  ASSUME NEW s \in Sender, SenderStep(s) \/ Owner(s)
  PROVE  \/ Sends(s) /\ UNCHANGED beat
         \/ UNCHANGED <<exists, queue, lastSent>> /\ (UNCHANGED beat \/ beat' = [beat EXCEPT ![s] = 0])
<1>1. CASE Owner(s)
  BY <1>1 DEF Owner, StartSender, PauseBeat, ResumeBeat, EndSender, DisconnectSender
<1>2. CASE SSend(s) \/ SAgain(s)
  BY <1>2 DEF SSend, SAgain, SendTimesOut
<1>3. CASE SBeat(s) \/ SFailed(s)
  BY <1>3 DEF SBeat, SFailed
<1> QED BY <1>1, <1>2, <1>3
     DEF SenderStep, SWake, SStop, SInit, SJoin, SJoined, SRefused, SSent, SCrash

(* A beat that is sent is younger than all that were sent before.          *)
LEMMA SendsInOrder ==
  ASSUME TypeOK, Ages, BeatsInOrder, NEW s \in Sender, Sends(s), UNCHANGED <<beat, age>>
  PROVE  QueueOK' /\ Ages' /\ BeatsInOrder'
<1> DEFINE new == [from |-> s, age |-> beat[s]]
<1>1. queue' = Append(queue, new) /\ Len(queue) < MaxMsgs /\ exists' = exists
      /\ lastSent' = [lastSent EXCEPT ![s] = beat[s]] /\ beat' = beat /\ age' = age
  BY DEF Sends, SendMessage
<1>2. queue \in Seq(Message) /\ new \in Message /\ beat \in [Sender -> Age]
      /\ lastSent \in [Sender -> Age] /\ age \in [Sender -> Age] /\ exists \in BOOLEAN
  BY DEF TypeOK, Message
<1>3. QueueOK'
  <2>1. Append(queue, new) \in Seq(Message) /\ Len(Append(queue, new)) = Len(queue) + 1
    BY <1>2, AppendFacts
  <2>2. Len(queue) \in Nat
    BY <1>2
  <2> QED BY <1>1, <1>2, <2>1, <2>2, MaxMsgsAssumption DEF QueueOK
<1>4. Ages'
  <2> SUFFICES ASSUME NEW r \in Sender PROVE beat'[r] <= lastSent'[r] /\ lastSent'[r] <= age'[r]
    BY DEF Ages
  <2>1. /\ beat[r] \in Nat /\ lastSent[r] \in Nat /\ age[r] \in Nat
        /\ beat[r] <= lastSent[r] /\ lastSent[r] <= age[r]
    BY <1>2, AgeFacts DEF Ages
  <2>2. lastSent'[r] = IF r = s THEN beat[r] ELSE lastSent[r]
    BY <1>1, <1>2
  <2> QED BY <1>1, <2>1, <2>2
<1>5. \A i \in DOMAIN queue' : \/ i \in DOMAIN queue /\ queue'[i] = queue[i]
                               \/ i = Len(queue) + 1 /\ queue'[i] = new
  BY <1>1, <1>2, AppendFacts
<1>6. \A i \in DOMAIN queue : i \in 1..Len(queue) /\ queue[i] \in Message
  BY <1>2
<1>7. BeatsInOrder'
  <2> SUFFICES ASSUME NEW i \in DOMAIN queue'
               PROVE  LET r == queue'[i].from IN
                        /\ age[r] >= queue'[i].age /\ queue'[i].age >= lastSent'[r]
                        /\ \A j \in 1..i : queue'[j].from = r => queue'[j].age >= queue'[i].age
    BY <1>1 DEF BeatsInOrder
  <2>1. CASE i \in DOMAIN queue /\ queue'[i] = queue[i]
    <3>1. 1..i \subseteq DOMAIN queue /\ \A j \in 1..i : queue'[j] = queue[j]
      BY <1>1, <1>2, <2>1
    <3>2. queue[i].age \in Age /\ queue[i].from \in Sender /\ queue[i].age >= lastSent[queue[i].from]
          /\ lastSent[queue[i].from] >= beat[queue[i].from]
      BY <1>6, <2>1 DEF BeatsInOrder, Ages, Message
    <3>3. queue[i].age >= lastSent'[queue[i].from]
      <4> DEFINE r == queue[i].from
      <4>1. lastSent'[r] = IF r = s THEN beat[r] ELSE lastSent[r]
        BY <1>1, <1>2, <3>2
      <4>2. lastSent[r] \in Nat /\ beat[r] \in Nat /\ queue[i].age \in Nat
        BY <1>2, <3>2, AgeFacts
      <4> QED BY <3>2, <4>1, <4>2
    <3> QED BY <2>1, <3>1, <3>3 DEF BeatsInOrder
  <2>2. CASE i = Len(queue) + 1 /\ queue'[i] = new
    <3>1. beat[s] <= lastSent[s] /\ lastSent[s] <= age[s] /\ lastSent'[s] = beat[s]
          /\ beat[s] \in Nat /\ lastSent[s] \in Nat /\ age[s] \in Nat
      BY <1>1, <1>2, AgeFacts DEF Ages
    <3>2. ASSUME NEW j \in 1..i, queue'[j].from = s PROVE queue'[j].age >= beat[s]
      <4>1. CASE j = i
        BY <2>2, <3>1, <4>1
      <4>2. CASE j # i
        <5>1. j \in DOMAIN queue /\ queue'[j] = queue[j]
          BY <1>1, <1>2, <2>2, <4>2
        <5>2. queue[j].age >= lastSent[s] /\ queue[j].age \in Nat
          BY <1>6, <3>2, <5>1, AgeFacts DEF BeatsInOrder, Message
        <5> QED BY <3>1, <5>1, <5>2
      <4> QED BY <4>1, <4>2
    <3> QED BY <2>2, <3>1, <3>2
  <2> QED BY <1>5, <2>1, <2>2
<1> QED BY <1>3, <1>4, <1>7

(* No step of a sender or of its owner spoils the invariant.               *)
LEMMA SenderInv == ASSUME IInv, NEW s \in Sender, SenderSide(s) PROVE IInv'
<1>1. SenderOK' /\ \A r \in Sender : sstate'[r] = "SHUTDOWN" => spc'[r] \in Ended
  BY SenderTypes, Parts DEF IInv, SenderSide, Alive
<1>2. UNCHANGED receiver
  BY DEF SenderSide
<1>3. ReceiverOK' /\ DeadWereSuspected'
  BY <1>2, Parts DEF IInv, receiver, ReceiverOK, DeadWereSuspected
<1>4. Alive'
  BY <1>1, <1>2 DEF IInv, Alive, receiver
<1>5. QueueOK' /\ Ages' /\ BeatsInOrder'
  <2>1. CASE Sends(s) /\ UNCHANGED beat
    BY <1>2, <2>1, SendsInOrder DEF IInv, receiver
  <2>2. CASE /\ UNCHANGED <<exists, queue, lastSent>>
             /\ UNCHANGED beat \/ beat' = [beat EXCEPT ![s] = 0]
    <3>1. QueueOK'
      BY <2>2, Parts DEF IInv, QueueOK
    <3>2. Ages'
      <4> SUFFICES ASSUME NEW r \in Sender
                   PROVE  beat'[r] <= lastSent'[r] /\ lastSent'[r] <= age'[r]
        BY DEF Ages
      <4>1. /\ beat[r] \in Nat /\ lastSent[r] \in Nat /\ age[r] \in Nat
            /\ beat[r] <= lastSent[r] /\ lastSent[r] <= age[r]
        BY AgeFacts DEF IInv, TypeOK, Ages
      <4>2. beat'[r] \in {beat[r], 0}
        BY <2>2 DEF IInv, TypeOK
      <4> QED BY <1>2, <2>2, <4>1, <4>2 DEF receiver
    <3>3. BeatsInOrder'
      BY <1>2, <2>2, QueueKept DEF IInv, receiver
    <3> QED BY <3>1, <3>2, <3>3
  <2> QED BY <2>1, <2>2, SenderSends DEF SenderSide
<1> QED BY <1>1, <1>3, <1>4, <1>5, PartsNext DEF IInv
-------------------------------------------------------------------------------
(* The steps of the receiver that leave the messages and the records.      *)
RQuiet == \/ RWake \/ RStop \/ RInit \/ RListened \/ RCrash \/ RPulses \/ RChecked
          \/ StartReceiver \/ EndReceiver \/ DisconnectReceiver

LEMMA QuietInv == ASSUME IInv, RQuiet, UNCHANGED sender PROVE IInv'
<1> USE DEF RGoOn, RSleep
<1>1. UNCHANGED <<exists, queue, records, sender>>
  BY DEF RQuiet, RWake, RStop, RInit, RListened, RCrash, RPulses, RChecked, StartReceiver,
         EndReceiver, DisconnectReceiver, NoMessage, records
<1>2. SenderOK' /\ QueueOK'
  BY <1>1, Parts DEF IInv, SenderOK, QueueOK, sender
<1>3. DeadWereSuspected' /\ Ages' /\ BeatsInOrder'
  BY <1>1, QueueKept DEF IInv, DeadWereSuspected, Ages, sender, records
<1>4. /\ rstate' \in ReceiverState /\ rpc' \in ReceiverPc /\ rsleep' \in Int
      /\ rstop' \in BOOLEAN /\ rconnected' \in BOOLEAN
      /\ rstate' # "SHUTTING_DOWN" /\ (rstate' = "SHUTDOWN" => rpc' \in Ended)
      /\ todo' \subseteq known
  <2> USE ReceiverAssumption, Parts DEF IInv, ReceiverOK, ReceiverState, ReceiverPc, Alive, Ended,
                               RRunning
  <2>1. CASE RWake
    <3>1. PICK pc \in {"first", "wake"} : RGoOn(pc, RHandler[rstate])
      BY <2>1 DEF RWake
    <3>2. rstate \in {"INIT", "CREATING_MQ", "LISTENING", "CHECK_PULSES"}
      BY <3>1
    <3>3. RHandler[rstate] \in {"init", "create", "listen", "pulses"}
      BY <3>2 DEF RHandler
    <3> QED BY <2>1, <3>1, <3>2, <3>3 DEF RWake
  <2>2. CASE RStop \/ RInit \/ RCrash \/ RPulses
    BY <2>2 DEF RStop, RInit, RCrash, RPulses
  <2>3. CASE RListened \/ RChecked
    BY <2>3 DEF RListened, RChecked
  <2>4. CASE StartReceiver
    BY <2>4 DEF StartReceiver
  <2>5. CASE EndReceiver \/ DisconnectReceiver
    BY <2>5 DEF EndReceiver, DisconnectReceiver
  <2> QED BY <2>1, <2>2, <2>3, <2>4, <2>5 DEF RQuiet
<1>5. ReceiverOK'
  BY <1>1, <1>4, Parts DEF IInv, ReceiverOK, records
<1>6. Alive'
  BY <1>1, <1>4 DEF IInv, Alive, sender
<1> QED BY <1>2, <1>3, <1>5, <1>6, PartsNext DEF IInv

(* A queue that is created is empty.                                       *)
LEMMA CreateInv == ASSUME IInv, RCreate, UNCHANGED sender PROVE IInv'
<1> USE DEF RSleep
<1>1. UNCHANGED <<records, sender>>
  BY DEF RCreate
<1>2. \/ queue' = <<>> /\ exists' = TRUE
      \/ UNCHANGED <<queue, exists>>
  BY DEF RCreate, Connect, ConnectFails
<1>3. SenderOK' /\ QueueOK'
  <2>1. queue' \in Seq(Message) /\ Len(queue') <= MaxMsgs /\ exists' \in BOOLEAN
    <3>1. CASE queue' = <<>> /\ exists' = TRUE
      <4>1. queue' \in Seq(Message) /\ Len(queue') = 0
        BY <3>1
      <4> QED BY <3>1, <4>1, MaxMsgsAssumption
    <3>2. CASE UNCHANGED <<queue, exists>>
      BY <3>2, Parts DEF IInv, QueueOK
    <3> QED BY <1>2, <3>1, <3>2
  <2> QED BY <1>1, <2>1, Parts DEF IInv, SenderOK, QueueOK, sender
<1>4. DeadWereSuspected' /\ Ages'
  BY <1>1 DEF IInv, DeadWereSuspected, Ages, sender, records
<1>5. BeatsInOrder'
  <2>1. CASE queue' = <<>>
    BY <2>1 DEF BeatsInOrder
  <2>2. CASE UNCHANGED queue
    BY <1>1, <2>2, QueueKept DEF IInv, sender, records
  <2> QED BY <1>2, <2>1, <2>2
<1>6. /\ rstate' \in {"CREATING_MQ", "LISTENING", rstate} /\ rpc' = "wake" /\ rsleep' \in Int
      /\ rstop' \in BOOLEAN /\ rconnected' \in BOOLEAN /\ todo' = todo /\ RRunning
  <2>1. /\ RRunning /\ rpc' = "wake" /\ todo' = todo /\ rstop' = rstop
        /\ rsleep' \in {CreateSleep, CreateRetry} /\ rconnected' \in {TRUE, rconnected}
        /\ rstate' \in {"LISTENING", rstate}
    BY DEF RCreate, RRunning
  <2>2. rstop \in BOOLEAN /\ rconnected \in BOOLEAN
    BY Parts DEF IInv, ReceiverOK
  <2>3. rsleep' \in Int
    BY <2>1, ReceiverAssumption
  <2>4. rstop' \in BOOLEAN /\ rconnected' \in BOOLEAN
    BY <2>1, <2>2
  <2> QED BY <2>1, <2>3, <2>4
<1>7. ReceiverOK'
  BY <1>1, <1>6, Parts DEF IInv, ReceiverOK, records, ReceiverState, ReceiverPc
<1>8. Alive'
  BY <1>1, <1>6 DEF IInv, Alive, sender, RRunning, Ended
<1> QED BY <1>3, <1>4, <1>5, <1>7, <1>8, PartsNext DEF IInv

(* A beat that is recorded is the oldest of its sender in the queue.       *)
LEMMA RecordInv == ASSUME IInv, RRecord, UNCHANGED sender PROVE IInv'
<1> DEFINE m == Head(queue)
<1>1. /\ queue # <<>> /\ queue' = Tail(queue) /\ exists' = exists
      /\ known' = known \cup {m.from} /\ heard' = heard \cup {m.from}
      /\ age' = [age EXCEPT ![m.from] = m.age]
      /\ UNCHANGED <<rpc, rsleep, rstate, rstop, rconnected, potentiallyDead, dead, todo>>
  BY DEF RRecord, RGoOn, TakeMessage
<1>2. /\ queue \in Seq(Message) /\ age \in [Sender -> Age] /\ lastSent \in [Sender -> Age]
      /\ beat \in [Sender -> Age]
  BY DEF IInv, TypeOK
<1>3. /\ m \in Message /\ m = queue[1] /\ 1 \in DOMAIN queue
      /\ Tail(queue) \in Seq(Message) /\ Len(Tail(queue)) = Len(queue) - 1
      /\ \A i \in DOMAIN Tail(queue) : i \in Nat /\ i + 1 \in DOMAIN queue
                                       /\ Tail(queue)[i] = queue[i + 1]
  BY <1>1, <1>2, TailFacts
<1>4. m.from \in Sender /\ m.age \in Age
  BY <1>3 DEF Message
<1>5. SenderOK' /\ QueueOK'
  <2>1. Len(queue) \in Nat
    BY <1>2
  <2> QED BY <1>1, <1>3, <2>1, Parts, MaxMsgsAssumption DEF IInv, SenderOK, QueueOK, sender
<1>6. ReceiverOK'
  BY <1>1, <1>4, Parts DEF IInv, ReceiverOK
<1>7. Alive' /\ DeadWereSuspected'
  BY <1>1 DEF IInv, Alive, DeadWereSuspected, sender
<1>8. beat' = beat /\ lastSent' = lastSent
  BY DEF sender
<1>9. m.age >= lastSent[m.from]
  BY <1>3 DEF IInv, BeatsInOrder
<1>10. Ages'
  BY <1>1, <1>2, <1>4, <1>8, <1>9, AgeFacts DEF IInv, Ages
<1>11. BeatsInOrder'
  <2> SUFFICES ASSUME NEW i \in DOMAIN Tail(queue)
               PROVE  LET r == queue[i + 1].from IN
                        /\ age'[r] >= queue[i + 1].age /\ queue[i + 1].age >= lastSent[r]
                        /\ \A j \in 1..i : Tail(queue)[j].from = r
                                             => Tail(queue)[j].age >= queue[i + 1].age
    BY <1>1, <1>3, <1>8 DEF BeatsInOrder
  <2> DEFINE k == i + 1
  <2>1. k \in DOMAIN queue /\ 1 \in 1..k /\ i \in Nat
    BY <1>3
  <2>2. /\ age[queue[k].from] >= queue[k].age /\ queue[k].age >= lastSent[queue[k].from]
        /\ \A j \in 1..k : queue[j].from = queue[k].from => queue[j].age >= queue[k].age
    BY <2>1 DEF IInv, BeatsInOrder
  <2>3. age'[queue[k].from] >= queue[k].age
    <3>1. CASE queue[k].from = m.from
      BY <1>1, <1>2, <1>3, <1>4, <2>1, <2>2, <3>1
    <3>2. CASE queue[k].from # m.from
      <4>1. queue[k].from \in Sender
        <5>1. queue[k] \in Message
          BY <1>2, <2>1
        <5> QED BY <5>1 DEF Message
      <4> QED BY <1>1, <1>2, <2>2, <3>2, <4>1
    <3> QED BY <3>1, <3>2
  <2>4. ASSUME NEW j \in 1..i, Tail(queue)[j].from = queue[k].from
        PROVE  Tail(queue)[j].age >= queue[k].age
    <3>1. j \in DOMAIN Tail(queue) /\ j + 1 \in 1..k
      BY <1>3, <2>1
    <3> QED BY <1>3, <2>2, <2>4, <3>1
  <2> QED BY <2>2, <2>3, <2>4
<1> QED BY <1>5, <1>6, <1>7, <1>10, <1>11, PartsNext DEF IInv

(* A check moves a sender from one list to the other, or off both.         *)
LEMMA CheckInv == ASSUME IInv, NEW s \in Sender, RCheck(s), UNCHANGED sender PROVE IInv'
<1>1. /\ UNCHANGED <<rstate, rpc, rsleep, rstop, rconnected, known, age, heard, exists, queue>>
      /\ s \in todo /\ todo' = todo \ {s}
  BY DEF RCheck, RGoOn
<1>2. s \in known
  BY <1>1 DEF IInv, TypeOK
<1>3. dead' \subseteq potentiallyDead' /\ potentiallyDead' \subseteq known
  BY <1>2 DEF RCheck, IInv, DeadWereSuspected, TypeOK
<1>4. SenderOK' /\ QueueOK'
  BY <1>1, Parts DEF IInv, SenderOK, QueueOK, sender
<1>5. ReceiverOK' /\ DeadWereSuspected'
  BY <1>1, <1>3, Parts DEF IInv, ReceiverOK, DeadWereSuspected
<1>6. Alive' /\ Ages' /\ BeatsInOrder'
  BY <1>1, QueueKept DEF IInv, Alive, Ages, sender
<1> QED BY <1>4, <1>5, <1>6, PartsNext DEF IInv

(* A sender that is added has the oldest beat there is.                    *)
LEMMA AddInv == ASSUME IInv, NEW s \in Sender, AddSenderId(s), UNCHANGED sender PROVE IInv'
<1>1. /\ UNCHANGED <<rstate, rpc, rsleep, rstop, rconnected, heard, todo, potentiallyDead, dead,
                     exists, queue>>
      /\ known' = known \cup {s} /\ age' = [age EXCEPT ![s] = Old]
  BY DEF AddSenderId
<1>2. SenderOK' /\ QueueOK'
  BY <1>1, Parts DEF IInv, SenderOK, QueueOK, sender
<1>3. ReceiverOK' /\ DeadWereSuspected'
  BY <1>1, Parts, AgeFacts DEF IInv, ReceiverOK, DeadWereSuspected
<1>4. Alive' /\ Ages'
  BY <1>1, AgeFacts DEF IInv, TypeOK, Alive, Ages, sender
<1>5. BeatsInOrder'
  <2>1. \A i \in DOMAIN queue : queue[i].age <= Old /\ queue[i].from \in Sender
    <3>1. \A i \in DOMAIN queue : queue[i] \in Message
      BY DEF IInv, TypeOK
    <3> QED BY <3>1, AgeFacts DEF Message
  <2>2. \A i \in DOMAIN queue : age'[queue[i].from] >= queue[i].age
    <3> TAKE i \in DOMAIN queue
    <3>1. age[queue[i].from] >= queue[i].age
      BY DEF IInv, BeatsInOrder
    <3>2. age \in [Sender -> Age] /\ queue[i].from \in Sender /\ queue[i].age <= Old
      BY <2>1 DEF IInv, TypeOK
    <3>3. CASE queue[i].from = s
      BY <1>1, <3>2, <3>3
    <3>4. CASE queue[i].from # s
      BY <1>1, <3>1, <3>2, <3>4
    <3> QED BY <3>3, <3>4
  <2> QED BY <1>1, <2>2 DEF IInv, BeatsInOrder, sender
<1> QED BY <1>2, <1>3, <1>4, <1>5, PartsNext DEF IInv

(* The messages in the queue grow older, and stay where they are.          *)
LEMMA QueueAges ==
  ASSUME IInv, Tick
  PROVE  /\ DOMAIN queue' = DOMAIN queue /\ DOMAIN queue = 1..Len(queue) /\ Len(queue) \in Nat
         /\ queue' \in Seq(Message) /\ Len(queue') = Len(queue)
         /\ \A i \in DOMAIN queue : /\ queue[i] \in Message /\ queue'[i] \in Message
                                    /\ queue[i].from \in Sender /\ queue[i].age \in Age
                                    /\ queue'[i].from = queue[i].from
                                    /\ queue'[i].age = Older(queue[i].age)
<1>1. queue' = [i \in DOMAIN queue |-> [queue[i] EXCEPT !.age = Older(@)]]
      /\ queue \in Seq(Message)
  BY DEF Tick, IInv, TypeOK
<1>2. DOMAIN queue' = DOMAIN queue /\ DOMAIN queue = 1..Len(queue) /\ Len(queue) \in Nat
  BY <1>1
<1>3. ASSUME NEW i \in DOMAIN queue
      PROVE  /\ queue[i] \in Message /\ queue'[i] \in Message
             /\ queue[i].from \in Sender /\ queue[i].age \in Age
             /\ queue'[i].from = queue[i].from /\ queue'[i].age = Older(queue[i].age)
  <2>1. queue[i] \in Message
    BY <1>1
  <2>2. queue'[i] = [queue[i] EXCEPT !.age = Older(@)]
    BY <1>1
  <2>3. Older(queue[i].age) \in Age
    BY <2>1, AgeFacts DEF Message
  <2> QED BY <2>1, <2>2, <2>3 DEF Message
<1>4. queue' \in Seq(Message) /\ Len(queue') = Len(queue)
  <2>1. queue' \in [1..Len(queue) -> Message]
    BY <1>1, <1>2, <1>3
  <2> QED BY <1>2, <2>1
<1> QED BY <1>2, <1>3, <1>4

(* All ages grow together.                                                 *)
LEMMA TickInv == ASSUME IInv, Tick PROVE IInv'
<1>1. /\ age' = [s \in Sender |-> Older(age[s])] /\ beat' = [s \in Sender |-> Older(beat[s])]
      /\ lastSent' = [s \in Sender |-> Older(lastSent[s])]
      /\ queue' = [i \in DOMAIN queue |-> [queue[i] EXCEPT !.age = Older(@)]]
  BY DEF Tick
<1>2. /\ queue \in Seq(Message) /\ age \in [Sender -> Age] /\ lastSent \in [Sender -> Age]
      /\ beat \in [Sender -> Age]
  BY DEF IInv, TypeOK
<1>3. age' \in [Sender -> Age] /\ beat' \in [Sender -> Age] /\ lastSent' \in [Sender -> Age]
  BY <1>1, <1>2, AgeFacts
<1>4. /\ DOMAIN queue' = DOMAIN queue /\ DOMAIN queue = 1..Len(queue) /\ Len(queue) \in Nat
      /\ \A i \in DOMAIN queue : /\ queue[i].from \in Sender /\ queue[i].age \in Age
                                 /\ queue'[i].from = queue[i].from
                                 /\ queue'[i].age = Older(queue[i].age)
  BY QueueAges
<1>5. queue' \in Seq(Message) /\ Len(queue') = Len(queue)
  BY QueueAges
<1>6. SenderOK' /\ ReceiverOK' /\ QueueOK'
  <2>1. ssleep' \in [Sender -> Int] /\ rsleep' \in Int
    BY DEF IInv, TypeOK, Tick, Later
  <2>2. UNCHANGED <<sstate, spc, segment, sstop, sconnected, want, exists, rstate, rpc,
                       rstop, rconnected, known, heard, todo, potentiallyDead, dead>>
    BY DEF Tick
  <2> QED BY <1>3, <1>5, <2>1, <2>2, Parts DEF IInv, SenderOK, ReceiverOK, QueueOK
<1>7. Alive' /\ DeadWereSuspected'
  BY DEF IInv, Tick, Alive, DeadWereSuspected
<1>8. Ages'
  BY <1>1, <1>2, AgeFacts DEF IInv, Ages
<1>9. BeatsInOrder'
  <2> SUFFICES ASSUME NEW i \in DOMAIN queue
               PROVE  LET r == queue[i].from IN
                        /\ Older(age[r]) >= Older(queue[i].age)
                        /\ Older(queue[i].age) >= Older(lastSent[r])
                        /\ \A j \in 1..i : queue[j].from = r
                                             => Older(queue[j].age) >= Older(queue[i].age)
    <3>1. \A i \in DOMAIN queue : \A j \in 1..i : j \in DOMAIN queue
      BY <1>4
    <3> QED BY <1>1, <1>4, <3>1 DEF BeatsInOrder
  <2>1. \A j \in 1..i : j \in DOMAIN queue
    BY <1>4
  <2>2. LET r == queue[i].from IN
          /\ r \in Sender /\ age[r] \in Age /\ lastSent[r] \in Age
          /\ age[r] >= queue[i].age /\ queue[i].age >= lastSent[r]
          /\ \A j \in 1..i : queue[j].from = r => queue[j].age >= queue[i].age
    BY <1>2, <1>4 DEF IInv, BeatsInOrder
  <2>3. \A a, b \in Age : a >= b => Older(a) >= Older(b)
    BY AgeFacts
  <2> QED BY <1>4, <2>1, <2>2, <2>3
<1> QED BY <1>6, <1>7, <1>8, <1>9, PartsNext DEF IInv
-------------------------------------------------------------------------------
(* No step spoils the invariant.                                           *)
LEMMA NextInv == IInv /\ [Next]_vars => IInv'
<1> SUFFICES ASSUME IInv, [Next]_vars PROVE IInv'
  OBVIOUS
<1>1. CASE Tick
  BY <1>1, TickInv
<1>2. ASSUME NEW s \in Sender, SenderSide(s) PROVE IInv'
  BY <1>2, SenderInv
<1>3. CASE ReceiverSide
  <2>1. UNCHANGED sender
    BY <1>3 DEF ReceiverSide
  <2>2. CASE RQuiet
    BY <2>1, <2>2, QuietInv
  <2>3. CASE RCreate
    BY <2>1, <2>3, CreateInv
  <2>4. CASE RRecord
    BY <2>1, <2>4, RecordInv
  <2>5. ASSUME NEW s \in Sender, RCheck(s) PROVE IInv'
    BY <2>1, <2>5, CheckInv
  <2>6. ASSUME NEW s \in Sender, AddSenderId(s) PROVE IInv'
    BY <2>1, <2>6, AddInv
  <2> QED BY <1>3, <2>2, <2>3, <2>4, <2>5, <2>6
       DEF ReceiverSide, ReceiverStep, ReceiverOwner, RQuiet
<1>4. CASE UNCHANGED vars
  <2>1. TypeOK' /\ Alive' /\ DeadWereSuspected' /\ Ages'
    BY <1>4 DEF IInv, vars, sender, receiver, TypeOK, Alive, DeadWereSuspected, Ages
  <2> QED BY <1>4, <2>1, QueueKept DEF IInv, vars, sender, receiver
<1> QED BY <1>1, <1>2, <1>3, <1>4 DEF Next

(* Every behaviour of the heartbeat keeps its invariant.                   *)
THEOREM Invariant == Spec => []IInv
BY InitInv, NextInv, PTL DEF Spec

(* Senders and receiver stay well formed: whatever the owners do and when, *)
(* both loops always have a handler for the state they read.               *)
THEOREM TypeCorrect == Spec => []TypeOK
<1>1. IInv => TypeOK
  BY DEF IInv
<1> QED BY Invariant, <1>1, PTL

(* No sender is declared dead that an earlier check did not suspect.       *)
THEOREM SuspectedFirst == Spec => []DeadWereSuspected
<1>1. IInv => DeadWereSuspected
  BY DEF IInv
<1> QED BY Invariant, <1>1, PTL

(* Beats are sent and recorded in the order they were made, although a     *)
(* send may wait, fail and be repeated.                                    *)
THEOREM Ordered == Spec => []BeatsInOrder
<1>1. IInv => BeatsInOrder
  BY DEF IInv
<1> QED BY Invariant, <1>1, PTL
===============================================================================
