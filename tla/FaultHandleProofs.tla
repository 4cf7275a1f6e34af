--------------------------- MODULE FaultHandleProofs ---------------------------
(***************************************************************************)
(* Proofs about the command channel, for any number of queries, any queue  *)
(* capacity and any initial garbage in Server::_state.  The inductive      *)
(* invariant adds to the checked invariants what the client may rely on    *)
(* once it has found the queue empty (Room), that its next command is new  *)
(* (Unsent), and the order in which messages can become answers (Order).   *)
(***************************************************************************)
EXTENDS FaultHandle, TLAPS

Room == Len(queue) + Held <= IF cpc = "send" THEN 1 ELSE 2

Made == /\ \A i \in DOMAIN queue : queue[i].query \in DOMAIN asked
        /\ hand # NoMsg => hand.query \in DOMAIN asked /\ hand.kind = asked[hand.query]
        /\ cpc # "idle" => Len(asked) > 0

Unsent == cpc \in {"drain", "send"} =>
            /\ \A i \in DOMAIN queue : queue[i].query # Len(asked)
            /\ hand # NoMsg => hand.query # Len(asked)
            /\ Len(asked) \notin handled

(* Answers already used, answers in the queue, the command being handled,  *)
(* commands in the queue: each older than those that follow.               *)
Order ==
  /\ \A i \in DOMAIN queue : \A n \in credited : n < queue[i].query
  /\ \A i, j \in DOMAIN queue :
       \/ queue[i].dir = "RSP" /\ queue[j].dir = "CMD"
       \/ i < j /\ queue[i].dir = queue[j].dir
       => queue[i].query < queue[j].query
  /\ hand # NoMsg =>
       /\ \A n \in credited : n < hand.query
       /\ \A i \in DOMAIN queue : IF queue[i].dir = "RSP"
                                  THEN queue[i].query < hand.query
                                  ELSE hand.query < queue[i].query

IInv == TypeOK /\ Room /\ Made /\ OneTokenPerQuery /\ Unsent /\ Order
--------------------------------------------------------------------------------
(* What taking the oldest message leaves.                                  *)
LEMMA TailFacts ==
  ASSUME NEW q \in Seq(Msg), q # <<>>
  PROVE  /\ Head(q) \in Msg /\ Head(q) = q[1] /\ 1 \in DOMAIN q
         /\ Tail(q) \in Seq(Msg) /\ Len(Tail(q)) = Len(q) - 1
         /\ \A i \in DOMAIN Tail(q) : i + 1 \in DOMAIN q /\ Tail(q)[i] = q[i + 1]
         /\ \A i \in DOMAIN Tail(q) : i \in Nat /\ i + 1 # 1
OBVIOUS

(* What sending a message leaves.                                          *)
LEMMA AppendFacts ==
  ASSUME NEW q \in Seq(Msg), NEW m \in Msg
  PROVE  /\ Append(q, m) \in Seq(Msg) /\ Len(Append(q, m)) = Len(q) + 1
         /\ \A i \in DOMAIN Append(q, m) :
              \/ i \in DOMAIN q /\ Append(q, m)[i] = q[i]
              \/ i = Len(q) + 1 /\ Append(q, m)[i] = m
         /\ \A i \in DOMAIN q : i < Len(q) + 1
OBVIOUS

THEOREM InitInv == Init => IInv
<1> SUFFICES ASSUME Init PROVE IInv
  OBVIOUS
<1>1. DOMAIN queue = {} /\ queue \in Seq(Msg) /\ Len(queue) = 0
  BY DEF Init
<1>2. DOMAIN asked = {} /\ asked \in Seq(Kind) /\ Len(asked) = 0
  BY DEF Init
<1>3. TypeOK
  <2>1. exists \in BOOLEAN /\ sstate \in States
    BY FaultHandleAssumption, Zenon DEF Init
  <2>2. MaxQuery \in Nat
    BY FaultHandleAssumption
  <2>3. /\ spc \in {"run", "check", "handle", "reply", "done", "crashed"}
        /\ IF spc \in {"handle", "reply"}
           THEN hand \in Msg /\ hand.dir = "CMD" ELSE hand = NoMsg
    BY DEF Init
  <2>4. stop \in BOOLEAN /\ connected \in BOOLEAN
    BY DEF Init
  <2>5. cpc \in {"idle", "drain", "send", "recv"}
    BY DEF Init
  <2>6. Len(asked) <= MaxQuery
    BY <1>2, <2>2
  <2>7. handled \subseteq DOMAIN asked /\ credited \subseteq handled
    BY DEF Init
  <2> QED
    BY <1>1, <1>2, <2>1, <2>3, <2>4, <2>5, <2>6, <2>7 DEF TypeOK
<1>4. Room
  BY <1>1 DEF Init, Room, Held
<1>5. Made /\ OneTokenPerQuery /\ Unsent /\ Order
  BY <1>1 DEF Init, Made, OneTokenPerQuery, Unsent, Order
<1> QED
  BY <1>3, <1>4, <1>5 DEF IInv

--------------------------------------------------------------------------------
(* Steps that leave the messages where they are.                           *)
LEMMA Messages ==
  ASSUME IInv, UNCHANGED <<queue, hand, handled, asked, credited>>,
         spc' \notin {"handle", "reply"},
         cpc' \in {cpc, "idle"}
  PROVE  Room' /\ Made' /\ OneTokenPerQuery' /\ Unsent' /\ Order'
<1>1. Room'
  BY DEF IInv, TypeOK, Room, Held
<1>2. Made' /\ OneTokenPerQuery' /\ Unsent' /\ Order'
  BY DEF IInv, Made, OneTokenPerQuery, Unsent, Order
<1> QED
  BY <1>1, <1>2

LEMMA ServerInitInv == IInv /\ ServerInit /\ UNCHANGED <<stop, client>> => IInv'
<1> SUFFICES ASSUME IInv, ServerInit, UNCHANGED <<stop, client>> PROVE IInv'
  OBVIOUS
<1>1. TypeOK'
  BY DEF IInv, TypeOK, ServerInit, client, States
<1> QED
  BY <1>1, Messages DEF IInv, ServerInit, client

LEMMA ServerCreateMQInv ==
  IInv /\ ServerCreateMQ /\ UNCHANGED <<stop, client>> => IInv'
<1> SUFFICES ASSUME IInv, ServerCreateMQ, UNCHANGED <<stop, client>> PROVE IInv'
  OBVIOUS
<1>1. CASE ConnectFails /\ UNCHANGED <<sstate, connected>>
  <2>1. TypeOK'
    BY <1>1 DEF IInv, TypeOK, ServerCreateMQ, ConnectFails, client
  <2> QED
    BY <1>1, <2>1, Messages DEF IInv, ServerCreateMQ, ConnectFails, client
<1>2. CASE Connect /\ sstate' = "LISTENING" /\ connected' = TRUE
  <2>1. queue' = <<>> /\ DOMAIN queue' = {} /\ queue' \in Seq(Msg) /\ Len(queue') = 0
    BY <1>2 DEF Connect
  <2>2. TypeOK'
    BY <1>2, <2>1 DEF IInv, TypeOK, ServerCreateMQ, Connect, client, States
  <2>3. Room'
    BY <2>1, <2>2 DEF Room, Held
  <2>4. Made' /\ OneTokenPerQuery' /\ Unsent' /\ Order'
    BY <2>1 DEF IInv, Made, OneTokenPerQuery, Unsent, Order, ServerCreateMQ, client
  <2> QED
    BY <2>2, <2>3, <2>4 DEF IInv
<1> QED
  BY <1>1, <1>2 DEF ServerCreateMQ

LEMMA ServerNullQueueInv ==
  IInv /\ ServerNullQueue /\ UNCHANGED <<stop, client>> => IInv'
<1> SUFFICES ASSUME IInv, ServerNullQueue, UNCHANGED <<stop, client>> PROVE IInv'
  OBVIOUS
<1>1. TypeOK'
  BY DEF IInv, TypeOK, ServerNullQueue, client
<1> QED
  BY <1>1, Messages DEF IInv, ServerNullQueue, client

LEMMA ServerDefaultInv ==
  IInv /\ ServerDefault /\ UNCHANGED <<stop, client>> => IInv'
<1> SUFFICES ASSUME IInv, ServerDefault, UNCHANGED <<stop, client>> PROVE IInv'
  OBVIOUS
<1>1. TypeOK'
  BY DEF IInv, TypeOK, ServerDefault, client
<1> QED
  BY <1>1, Messages DEF IInv, ServerDefault, client

LEMMA ServerCheckInv == IInv /\ ServerCheck /\ UNCHANGED <<stop, client>> => IInv'
<1> SUFFICES ASSUME IInv, ServerCheck, UNCHANGED <<stop, client>> PROVE IInv'
  OBVIOUS
<1>1. TypeOK'
  BY DEF IInv, TypeOK, ServerCheck, client, States
<1> QED
  BY <1>1, Messages DEF IInv, ServerCheck, client

LEMMA ServerHandleInv == IInv /\ ServerHandle /\ UNCHANGED <<stop, client>> => IInv'
<1> SUFFICES ASSUME IInv, ServerHandle, UNCHANGED <<stop, client>> PROVE IInv'
  OBVIOUS
<1> USE DEF ServerHandle, client
<1>1. hand # NoMsg /\ hand.query \in DOMAIN asked
  BY FaultHandleAssumption DEF IInv, TypeOK, Made
<1>2. TypeOK'
  BY <1>1 DEF IInv, TypeOK
<1>3. Room' /\ Made'
  BY DEF IInv, Room, Held, Made
<1>4. OneTokenPerQuery'
  BY <1>1 DEF IInv, TypeOK, OneTokenPerQuery
<1>5. Unsent' /\ Order'
  BY <1>1 DEF IInv, Unsent, Order
<1> QED
  BY <1>2, <1>3, <1>4, <1>5 DEF IInv

--------------------------------------------------------------------------------
(* Steps that take the oldest message and forget it.                       *)
LEMMA Dropping ==
  ASSUME IInv, TakeMessage, UNCHANGED <<hand, handled, asked, credited>>,
         spc' = spc \/ spc' \notin {"handle", "reply"},
         cpc' \in {cpc, "idle"} \/ (cpc # "idle" /\ cpc' = "ended")
  PROVE  /\ queue' \in Seq(Msg)
         /\ Room' /\ Made' /\ OneTokenPerQuery' /\ Unsent' /\ Order'
<1>1. queue \in Seq(Msg) /\ queue # <<>> /\ queue' = Tail(queue)
  BY DEF IInv, TypeOK, TakeMessage
<1>2. /\ queue' \in Seq(Msg) /\ Len(queue') = Len(queue) - 1
      /\ \A i \in DOMAIN queue' : i + 1 \in DOMAIN queue /\ queue'[i] = queue[i + 1]
      /\ \A i \in DOMAIN queue' : i \in Nat
  BY <1>1, TailFacts
<1>3. Room'
  BY <1>1, <1>2 DEF IInv, Room, Held
<1>4. Made' /\ Unsent'
  BY <1>2 DEF IInv, Made, Unsent
<1>5. OneTokenPerQuery'
  BY <1>2 DEF IInv, OneTokenPerQuery
<1>6. Order'
  <2>1. \A i, j \in DOMAIN queue' : i < j => i + 1 < j + 1
    BY <1>2
  <2> QED
    BY <1>2, <2>1 DEF IInv, Order
<1> QED
  BY <1>2, <1>3, <1>4, <1>5, <1>6

LEMMA ServerListenInv == IInv /\ ServerListen /\ UNCHANGED <<stop, client>> => IInv'
<1> SUFFICES ASSUME IInv, ServerListen, UNCHANGED <<stop, client>> PROVE IInv'
  OBVIOUS
<1> USE DEF client
<1>0. hand = NoMsg
  BY DEF IInv, TypeOK, ServerListen
<1>1. CASE NoMessage /\ spc' = "check" /\ UNCHANGED hand
  <2>1. TypeOK'
    BY <1>1 DEF IInv, TypeOK, ServerListen, NoMessage
  <2> QED
    BY <1>1, <2>1, Messages DEF IInv, ServerListen, NoMessage
<1>2. CASE TakeMessage /\ spc' \in {"check", "ended"} /\ UNCHANGED hand
  <2>1. /\ queue' \in Seq(Msg)
        /\ Room' /\ Made' /\ OneTokenPerQuery' /\ Unsent' /\ Order'
    BY <1>2, Dropping DEF ServerListen
  <2>2. TypeOK'
    BY <1>2, <2>1 DEF IInv, TypeOK, ServerListen, TakeMessage
  <2> QED
    BY <2>1, <2>2 DEF IInv
<1>3. CASE TakeMessage /\ Head(queue).dir = "CMD" /\ hand' = Head(queue) /\ spc' = "handle"
  <2>1. queue \in Seq(Msg) /\ queue # <<>> /\ queue' = Tail(queue)
    BY <1>3 DEF IInv, TypeOK, TakeMessage
  <2>2. /\ queue' \in Seq(Msg) /\ Len(queue') = Len(queue) - 1
        /\ \A i \in DOMAIN queue' : i + 1 \in DOMAIN queue /\ queue'[i] = queue[i + 1]
        /\ \A i \in DOMAIN queue' : i \in Nat /\ i + 1 # 1 /\ 1 < i + 1
        /\ hand' = queue[1] /\ hand' \in Msg /\ 1 \in DOMAIN queue
        /\ hand'.dir = "CMD"
    BY <1>3, <2>1, TailFacts
  <2>3. UNCHANGED <<asked, handled, credited, cpc>>
    BY DEF ServerListen
  <2>4. TypeOK'
    BY <1>3, <2>2 DEF IInv, TypeOK, ServerListen, TakeMessage
  <2>5. Room'
    BY <1>0, <2>1, <2>2, <2>3 DEF IInv, Room, Held
  <2>6. Made' /\ Unsent'
    BY <2>2, <2>3 DEF IInv, Made, Unsent, OneTokenPerQuery
  <2>7. OneTokenPerQuery'
    BY <1>3, <2>2, <2>3 DEF IInv, OneTokenPerQuery
  <2>8. Order'
    <3>1. \A i \in DOMAIN queue' : queue'[i] \in Msg
      BY <2>2
    <3>2. \A i \in DOMAIN queue' : queue'[i].dir \in {"CMD", "RSP"}
      BY <3>1 DEF Msg
    <3> QED
      BY <2>2, <2>3, <3>2 DEF IInv, Order
  <2> QED
    BY <2>4, <2>5, <2>6, <2>7, <2>8 DEF IInv
<1> QED
  BY <1>1, <1>2, <1>3 DEF ServerListen

LEMMA ServerReplyInv == IInv /\ ServerReply /\ UNCHANGED <<stop, client>> => IInv'
<1> SUFFICES ASSUME IInv, ServerReply, UNCHANGED <<stop, client>> PROVE IInv'
  OBVIOUS
<1> USE DEF client
<1>0. /\ hand \in Msg /\ hand # NoMsg /\ hand' = NoMsg /\ hand.dir = "CMD"
      /\ spc = "reply" /\ spc' = "check"
      /\ UNCHANGED <<asked, handled, credited, cpc>>
  BY FaultHandleAssumption DEF IInv, TypeOK, ServerReply
<1>1. CASE SendTimesOut
  <2>1. TypeOK'
    BY <1>0, <1>1 DEF IInv, TypeOK, ServerReply, SendTimesOut
  <2>2. UNCHANGED queue
    BY <1>1 DEF SendTimesOut
  <2>3. Room'
    BY <1>0, <2>2, <2>1 DEF IInv, TypeOK, Room, Held
  <2>4. Made' /\ Unsent' /\ OneTokenPerQuery' /\ Order'
    BY <1>0, <2>2 DEF IInv, Made, Unsent, OneTokenPerQuery, Order
  <2> QED
    BY <2>1, <2>3, <2>4 DEF IInv
<1>2. CASE SendMessage([hand EXCEPT !.dir = "RSP"])
  <2> DEFINE rsp == [hand EXCEPT !.dir = "RSP"]
  <2>1. /\ rsp \in Msg /\ rsp.dir = "RSP" /\ rsp.kind = hand.kind
        /\ rsp.query = hand.query
    BY <1>0 DEF Msg
  <2>2. queue \in Seq(Msg) /\ queue' = Append(queue, rsp)
    BY <1>2 DEF IInv, TypeOK, SendMessage
  <2> HIDE DEF rsp
  <2>3. /\ queue' \in Seq(Msg) /\ Len(queue') = Len(queue) + 1
        /\ \A i \in DOMAIN queue' :
             \/ i \in DOMAIN queue /\ queue'[i] = queue[i]
             \/ i = Len(queue) + 1 /\ queue'[i] = rsp
        /\ \A i \in DOMAIN queue : i < Len(queue) + 1
    BY <2>1, <2>2, AppendFacts
  <2>4. TypeOK'
    BY <1>0, <1>2, <2>3 DEF IInv, TypeOK, ServerReply, SendMessage
  <2>5. Room'
    BY <1>0, <2>2, <2>3 DEF IInv, Room, Held
  <2>6. Made' /\ Unsent'
    BY <1>0, <2>1, <2>3 DEF IInv, Made, Unsent
  <2>7. OneTokenPerQuery'
    BY <1>0, <2>1, <2>3 DEF IInv, Made, OneTokenPerQuery
  <2>8. Order'
    BY <1>0, <2>1, <2>3 DEF IInv, TypeOK, Order
  <2> QED
    BY <2>4, <2>5, <2>6, <2>7, <2>8 DEF IInv
<1> QED
  BY <1>1, <1>2 DEF ServerReply

--------------------------------------------------------------------------------
LEMMA EndInv == IInv /\ End => IInv'
<1> SUFFICES ASSUME IInv, End PROVE IInv'
  OBVIOUS
<1>1. TypeOK'
  BY DEF IInv, TypeOK, End, server, client
<1> QED
  BY <1>1 DEF IInv, End, server, client, Room, Held, Made, OneTokenPerQuery,
              Unsent, Order

LEMMA QueryInv ==
  ASSUME NEW k \in Kind
  PROVE  IInv /\ Query(k) /\ UNCHANGED <<server, stop>> => IInv'
<1> SUFFICES ASSUME IInv, Query(k), UNCHANGED <<server, stop>> PROVE IInv'
  OBVIOUS
<1> USE DEF Query, server
<1>0. MaxQuery \in Nat
  BY FaultHandleAssumption
<1>1. /\ asked \in Seq(Kind) /\ asked' \in Seq(Kind)
      /\ Len(asked') = Len(asked) + 1 /\ Len(asked) \in Nat
      /\ \A n \in DOMAIN asked : /\ n \in DOMAIN asked' /\ asked'[n] = asked[n]
                               /\ n # Len(asked')
  BY DEF IInv, TypeOK
<1>2. cpc' \in {"idle", "drain"} /\ cpc = "idle"
  OBVIOUS
<1>3. TypeOK'
  BY <1>0, <1>1, <1>2 DEF IInv, TypeOK
<1>4. Room'
  BY <1>2 DEF IInv, Room, Held
<1>5. Made' /\ Unsent'
  BY <1>1, <1>2 DEF IInv, TypeOK, Made, Unsent
<1>6. OneTokenPerQuery'
  BY <1>1 DEF IInv, Made, OneTokenPerQuery
<1>7. Order'
  BY DEF IInv, Order
<1> QED
  BY <1>3, <1>4, <1>5, <1>6, <1>7 DEF IInv

LEMMA ClientDrainInv == IInv /\ ClientDrain /\ UNCHANGED <<server, stop>> => IInv'
<1> SUFFICES ASSUME IInv, ClientDrain, UNCHANGED <<server, stop>> PROVE IInv'
  OBVIOUS
<1> USE DEF ClientDrain, server
<1>1. CASE TakeMessage /\ cpc' \in {"drain", "ended"}
  <2>1. /\ queue' \in Seq(Msg)
        /\ Room' /\ Made' /\ OneTokenPerQuery' /\ Unsent' /\ Order'
    BY <1>1, Dropping
  <2>2. TypeOK'
    BY <1>1, <2>1 DEF IInv, TypeOK, TakeMessage
  <2> QED
    BY <2>1, <2>2 DEF IInv
<1>2. CASE NoMessage /\ cpc' = "send"
  <2>1. queue = <<>> /\ queue' = queue /\ Len(queue) = 0 /\ cpc = "drain"
    BY <1>2 DEF NoMessage
  <2>2. TypeOK'
    BY <1>2 DEF IInv, TypeOK, NoMessage
  <2>3. Room'
    BY <1>2, <2>1 DEF Room, Held
  <2>4. Made' /\ OneTokenPerQuery' /\ Unsent' /\ Order'
    BY <1>2, <2>1 DEF IInv, Made, OneTokenPerQuery, Unsent, Order
  <2> QED
    BY <2>2, <2>3, <2>4 DEF IInv
<1> QED
  BY <1>1, <1>2

LEMMA ClientSendInv == IInv /\ ClientSend /\ UNCHANGED <<server, stop>> => IInv'
<1> SUFFICES ASSUME IInv, ClientSend, UNCHANGED <<server, stop>> PROVE IInv'
  OBVIOUS
<1> USE DEF ClientSend, server
<1>1. CASE SendTimesOut /\ cpc' = "idle"
  <2>1. TypeOK'
    BY <1>1 DEF IInv, TypeOK, SendTimesOut
  <2>2. Room' /\ Made' /\ OneTokenPerQuery' /\ Unsent' /\ Order'
    BY <1>1 DEF IInv, TypeOK, SendTimesOut, Room, Held, Made, OneTokenPerQuery,
                Unsent, Order
  <2> QED
    BY <2>1, <2>2 DEF IInv
<1>2. CASE SendMessage(Command) /\ cpc' = "recv"
  <2>0. /\ asked \in Seq(Kind) /\ Len(asked) \in DOMAIN asked
        /\ Len(asked) \in 1..MaxQuery /\ asked[Len(asked)] \in Kind
    BY FaultHandleAssumption DEF IInv, TypeOK, Made
  <2>1. /\ Command \in Msg /\ Command.dir = "CMD"
        /\ Command.kind = asked[Len(asked)] /\ Command.query = Len(asked)
    BY <2>0 DEF Command, Msg
  <2>2. queue \in Seq(Msg) /\ queue' = Append(queue, Command)
    BY <1>2 DEF IInv, TypeOK, SendMessage
  <2>3. /\ queue' \in Seq(Msg) /\ Len(queue') = Len(queue) + 1
        /\ \A i \in DOMAIN queue' :
             \/ i \in DOMAIN queue /\ queue'[i] = queue[i]
             \/ i = Len(queue) + 1 /\ queue'[i] = Command
        /\ \A i \in DOMAIN queue : i < Len(queue) + 1
    BY <2>1, <2>2, AppendFacts
  (* the command is newer than everything else *)
  <2>4. /\ \A i \in DOMAIN queue : queue[i].query < Len(asked)
        /\ hand # NoMsg => hand.query < Len(asked)
        /\ \A n \in credited : n < Len(asked)
        /\ Len(asked) \notin handled
    BY <2>0 DEF IInv, TypeOK, Made, Unsent
  <2>5. TypeOK'
    BY <1>2, <2>3 DEF IInv, TypeOK, SendMessage
  <2>6. Room'
    BY <1>2, <2>2, <2>3 DEF IInv, Room, Held
  <2>7. Made' /\ Unsent'
    BY <1>2, <2>0, <2>1, <2>3 DEF IInv, Made, Unsent
  <2>8. OneTokenPerQuery'
    BY <2>0, <2>1, <2>3, <2>4 DEF IInv, OneTokenPerQuery
  <2>9. Order'
    BY <2>1, <2>3, <2>4 DEF IInv, Order
  <2> QED
    BY <2>5, <2>6, <2>7, <2>8, <2>9 DEF IInv
<1> QED
  BY <1>1, <1>2

LEMMA ClientReceiveInv ==
  IInv /\ ClientReceive /\ UNCHANGED <<server, stop>> => IInv'
<1> SUFFICES ASSUME IInv, ClientReceive, UNCHANGED <<server, stop>> PROVE IInv'
  OBVIOUS
<1> USE DEF ClientReceive, server
<1>1. CASE NoMessage /\ UNCHANGED credited
  <2>1. TypeOK'
    BY <1>1 DEF IInv, TypeOK, NoMessage
  <2>2. Room' /\ Made' /\ OneTokenPerQuery' /\ Unsent' /\ Order'
    BY <1>1 DEF IInv, TypeOK, NoMessage, Room, Held, Made, OneTokenPerQuery,
                Unsent, Order
  <2> QED
    BY <2>1, <2>2 DEF IInv
<1>2. CASE TakeMessage /\ UNCHANGED credited
  <2>1. /\ queue' \in Seq(Msg)
        /\ Room' /\ Made' /\ OneTokenPerQuery' /\ Unsent' /\ Order'
    BY <1>2, Dropping
  <2>2. TypeOK'
    BY <1>2, <2>1 DEF IInv, TypeOK, TakeMessage
  <2> QED
    BY <2>1, <2>2 DEF IInv
<1>3. CASE /\ TakeMessage /\ Expected(Head(queue))
           /\ credited' = credited \cup {Head(queue).query}
  <2>1. queue \in Seq(Msg) /\ queue # <<>> /\ queue' = Tail(queue)
    BY <1>3 DEF IInv, TypeOK, TakeMessage
  <2>2. /\ queue' \in Seq(Msg) /\ Len(queue') = Len(queue) - 1
        /\ \A i \in DOMAIN queue' : i + 1 \in DOMAIN queue /\ queue'[i] = queue[i + 1]
        /\ \A i \in DOMAIN queue' : i \in Nat /\ i + 1 # 1 /\ 1 < i + 1
        /\ 1 \in DOMAIN queue /\ queue[1].dir = "RSP"
        /\ credited' = credited \cup {queue[1].query}
    BY <1>3, <2>1, TailFacts DEF Expected
  <2>3. queue[1].query \in handled \ credited
    BY <2>2 DEF IInv, OneTokenPerQuery
  <2>4. TypeOK'
    BY <1>3, <2>2, <2>3 DEF IInv, TypeOK, TakeMessage
  <2>5. Room'
    BY <2>1, <2>2 DEF IInv, Room, Held
  <2>6. Made' /\ Unsent'
    BY <2>2 DEF IInv, Made, Unsent
  <2>7. OneTokenPerQuery'
    <3>1. \A i \in DOMAIN queue' : queue'[i].query # queue[1].query
      BY <2>2 DEF IInv, OneTokenPerQuery
    <3>2. spc = "reply" => hand.query # queue[1].query
      BY <2>2, FaultHandleAssumption DEF IInv, TypeOK, OneTokenPerQuery
    <3> QED
      BY <2>2, <3>1, <3>2 DEF IInv, OneTokenPerQuery
  <2>8. Order'
    <3>1. \A i \in DOMAIN queue' : queue'[i].dir \in {"CMD", "RSP"}
      <4>1. \A i \in DOMAIN queue' : queue'[i] \in Msg
        BY <2>2
      <4> QED
        BY <4>1 DEF Msg
    <3>2. \A i \in DOMAIN queue' : queue[1].query < queue'[i].query
      BY <2>2, <3>1 DEF IInv, Order
    <3>3. hand # NoMsg => queue[1].query < hand.query
      BY <2>2 DEF IInv, Order
    <3>4. \A i, j \in DOMAIN queue' : i < j => i + 1 < j + 1
      BY <2>2
    <3>5. /\ \A i \in DOMAIN queue' : \A n \in credited' : n < queue'[i].query
          /\ hand # NoMsg => \A n \in credited' : n < hand.query
      BY <2>2, <3>2, <3>3 DEF IInv, Order
    <3> QED
      BY <2>2, <3>4, <3>5 DEF IInv, Order
  <2> QED
    BY <2>4, <2>5, <2>6, <2>7, <2>8 DEF IInv
<1> QED
  BY <1>1, <1>2, <1>3

LEMMA NextInv == IInv /\ [Next]_vars => IInv'
<1> SUFFICES ASSUME IInv, [Next]_vars PROVE IInv'
  OBVIOUS
<1>1. CASE Server
  BY <1>1, ServerInitInv, ServerCreateMQInv, ServerListenInv, ServerNullQueueInv,
     ServerDefaultInv, ServerHandleInv, ServerReplyInv, ServerCheckInv DEF Server
<1>2. CASE Client
  BY <1>2, QueryInv, ClientDrainInv, ClientSendInv, ClientReceiveInv
     DEF Client, ClientCall
<1>3. CASE End
  BY <1>3, EndInv
<1>4. CASE UNCHANGED vars
  BY <1>4 DEF vars, server, client, IInv, TypeOK, Room, Held, Made,
              OneTokenPerQuery, Unsent, Order
<1> QED
  BY <1>1, <1>2, <1>3, <1>4 DEF Next

(* The strengthening holds in every reachable state.                       *)
THEOREM Invariant == Spec => []IInv
<1>1. Init => IInv
  BY InitInv
<1>2. IInv /\ [Next]_vars => IInv'
  BY NextInv
<1> QED
  BY <1>1, <1>2, PTL DEF Spec
--------------------------------------------------------------------------------
(* The state of Server, Client and their queue stays well formed: in       *)
(* particular the handler works on a command exactly while it runs.        *)
THEOREM TypeCorrect == Spec => []TypeOK
<1>1. IInv => TypeOK
  BY DEF IInv
<1> QED
  BY <1>1, Invariant, PTL

(* The shared queue never holds more than two messages, so the 100 of      *)
(* MessageQueue::connect are never used up, however many queries time out. *)
THEOREM NeverMoreThanTwo == Spec => []AtMostTwo
<1>1. IInv => AtMostTwo
  BY DEF IInv, TypeOK, Room, Held, AtMostTwo
<1> QED
  BY <1>1, Invariant, PTL

(* No command of query() is executed twice by the server and no answer is  *)
(* accepted twice.                                                         *)
THEOREM TokensUnique == Spec => []OneTokenPerQuery
<1>1. IInv => OneTokenPerQuery
  BY DEF IInv
<1> QED
  BY <1>1, Invariant, PTL

(* Answers are accepted in the order their commands were made, although    *)
(* query() does not match them to its command.                             *)
THEOREM Ordered == Spec => AnswersInOrder
<1>1. IInv /\ [Next]_vars =>
        [\A m \in credited' \ credited : \A n \in credited : n < m]_vars
  <2> SUFFICES ASSUME IInv, Next,
                      NEW m \in credited' \ credited, NEW n \in credited
               PROVE  n < m
    OBVIOUS
  <2>1. ClientReceive
    BY DEF Next, Server, ServerInit, ServerCreateMQ, ServerListen, ServerNullQueue,
           ServerDefault, ServerHandle, ServerReply, ServerCheck, End, Client,
           ClientCall, ClientDrain, ClientSend, Query, client
  <2>2. TakeMessage /\ m = Head(queue).query
    BY <2>1 DEF ClientReceive
  <2>3. 1 \in DOMAIN queue /\ m = queue[1].query
    BY <2>2, TailFacts DEF IInv, TypeOK, TakeMessage
  <2> QED
    BY <2>3 DEF IInv, Order
<1> QED
  BY <1>1, Invariant, PTL DEF Spec, AnswersInOrder

(* Client and server implement RemoteQuery: a query succeeds only on the   *)
(* strength of a run of the handler of its kind, each run counting once.   *)
THEOREM Implementation == Spec => RemoteSpec
<1>1. Init => Remote!Init
  BY DEF Init, Remote!Init, Open
<1>2. IInv /\ [Next]_vars => [Remote!Next]_(Remote!vars)
  <2> SUFFICES ASSUME IInv, [Next]_vars PROVE [Remote!Next]_(Remote!vars)
    OBVIOUS
  <2> USE DEF Remote!Next, Remote!vars, server, client, Open
  <2>1. CASE Server
    <3>1. CASE ServerHandle
      <4>1. hand.query \in DOMAIN asked \ handled
        BY <3>1, FaultHandleAssumption
           DEF ServerHandle, IInv, TypeOK, Made, OneTokenPerQuery
      <4>2. Remote!Handle(hand.query)
        BY <2>1, <3>1, <4>1 DEF Server, ServerHandle, Remote!Handle
      <4> QED
        BY <4>1, <4>2
    <3>2. CASE ~ServerHandle
      BY <2>1, <3>2 DEF Server, ServerInit, ServerCreateMQ, ServerListen,
         ServerNullQueue, ServerDefault, ServerReply, ServerCheck
    <3> QED
      BY <3>1, <3>2
  <2>2. ASSUME NEW k \in Kind, Query(k), UNCHANGED <<server, stop>>
        PROVE  [Remote!Next]_(Remote!vars)
    <3>1. CASE exists
      <4>1. Remote!Ask(k)
        BY <2>2, <3>1 DEF Query, Remote!Ask
      <4> QED
        BY <4>1
    <3>2. CASE ~exists
      <4>1. Remote!FailAtOnce(k)
        BY <2>2, <3>2 DEF Query, Remote!FailAtOnce
      <4> QED
        BY <4>1
    <3> QED
      BY <3>1, <3>2
  <2>3. CASE ClientDrain /\ UNCHANGED <<server, stop>>
    <3>1. CASE cpc' = "ended"
      <4>1. Remote!Fail
        BY <2>3, <3>1 DEF ClientDrain, Remote!Fail
      <4> QED
        BY <4>1
    <3>2. CASE cpc' # "ended"
      BY <2>3, <3>2 DEF ClientDrain
    <3> QED
      BY <3>1, <3>2
  <2>4. CASE ClientSend /\ UNCHANGED <<server, stop>>
    <3>1. CASE cpc' = "idle"
      <4>1. Remote!Fail
        BY <2>4, <3>1 DEF ClientSend, Remote!Fail
      <4> QED
        BY <4>1
    <3>2. CASE cpc' = "recv"
      BY <2>4, <3>2 DEF ClientSend
    <3> QED
      BY <2>4, <3>1, <3>2 DEF ClientSend
  <2>5. CASE ClientReceive /\ UNCHANGED <<server, stop>>
    <3>1. CASE UNCHANGED credited
      <4>1. Remote!Fail
        BY <2>5, <3>1 DEF ClientReceive, Remote!Fail
      <4> QED
        BY <4>1
    <3>2. CASE /\ TakeMessage /\ Expected(Head(queue))
               /\ credited' = credited \cup {Head(queue).query}
      <4>1. 1 \in DOMAIN queue /\ Head(queue) = queue[1]
        BY <3>2, TailFacts DEF IInv, TypeOK, TakeMessage
      <4>2. /\ queue[1].query \in handled \ credited
            /\ queue[1].query \in DOMAIN asked
            /\ asked[queue[1].query] = asked[Len(asked)]
        BY <3>2, <4>1 DEF IInv, OneTokenPerQuery, Made, Expected
      <4>3. Remote!Succeed(queue[1].query)
        BY <2>5, <3>2, <4>1, <4>2 DEF ClientReceive, Remote!Succeed
      <4> QED
        BY <4>2, <4>3
    <3> QED
      BY <2>5, <3>1, <3>2 DEF ClientReceive
  <2>6. CASE End
    BY <2>6 DEF End
  <2>7. CASE UNCHANGED vars
    BY <2>7 DEF vars
  <2> QED
    BY <2>1, <2>2, <2>3, <2>4, <2>5, <2>6, <2>7 DEF Next, Client, ClientCall
<1> QED
  BY <1>1, <1>2, Invariant, PTL DEF Spec, RemoteSpec, Remote!Spec
--------------------------------------------------------------------------------
(* A command in the queue is the only one: a query sends its own when it   *)
(* has found the queue empty.  Nothing is there before the server has made *)
(* the queue.                                                              *)
Lone ==
  /\ \A i, j \in DOMAIN queue : queue[i].dir = "CMD" /\ queue[j].dir = "CMD" => i = j
  /\ cpc = "send" => \A i \in DOMAIN queue : queue[i].dir # "CMD"
  /\ ~exists => queue = <<>> /\ hand = NoMsg /\ cpc = "idle"

LEMMA LoneTake ==
  ASSUME IInv, Lone, TakeMessage, cpc' \in {cpc, "idle", "ended"}
  PROVE  Lone'
<1>1. queue \in Seq(Msg) /\ queue # <<>> /\ queue' = Tail(queue) /\ exists'
  BY DEF IInv, TypeOK, TakeMessage, Lone
<1>2. \A i \in DOMAIN queue' : i + 1 \in DOMAIN queue /\ queue'[i] = queue[i + 1] /\ i \in Nat
  BY <1>1, TailFacts
<1>3. \A i, j \in DOMAIN queue' : i + 1 = j + 1 => i = j
  BY <1>2
<1> QED
  BY <1>1, <1>2, <1>3 DEF Lone

LEMMA LoneStill ==
  ASSUME Lone, UNCHANGED <<exists, queue>>, hand' \in {hand, NoMsg}, cpc' \in {cpc, "idle"}
  PROVE  Lone'
BY DEF Lone

LEMMA LoneServer == IInv /\ Lone /\ Server => Lone'
<1> SUFFICES ASSUME IInv, Lone, Server PROVE Lone'
  OBVIOUS
<1>0. cpc' = cpc
  BY DEF Server, client
<1>1. CASE ServerInit \/ ServerNullQueue \/ ServerDefault \/ ServerHandle \/ ServerCheck
  BY <1>0, <1>1, LoneStill
     DEF ServerInit, ServerNullQueue, ServerDefault, ServerHandle, ServerCheck
<1>2. CASE ServerCreateMQ
  <2>1. CASE ConnectFails
    BY <1>0, <1>2, <2>1, LoneStill DEF ServerCreateMQ, ConnectFails
  <2>2. CASE Connect
    BY <1>0, <1>2, <2>2 DEF Lone, ServerCreateMQ, Connect
  <2> QED
    BY <1>2, <2>1, <2>2 DEF ServerCreateMQ
<1>3. CASE ServerListen
  <2>1. CASE NoMessage
    BY <1>0, <1>3, <2>1, LoneStill DEF ServerListen, NoMessage, TakeMessage
  <2>2. CASE TakeMessage
    BY <1>0, <2>2, LoneTake
  <2> QED
    BY <1>3, <2>1, <2>2 DEF ServerListen
<1>4. CASE ServerReply
  <2>1. CASE SendTimesOut
    BY <1>0, <1>4, <2>1, LoneStill DEF ServerReply, SendTimesOut
  <2>2. CASE SendMessage([hand EXCEPT !.dir = "RSP"])
    <3> DEFINE rsp == [hand EXCEPT !.dir = "RSP"]
    <3>1. hand \in Msg /\ hand # NoMsg
      BY <1>4, FaultHandleAssumption DEF IInv, TypeOK, ServerReply
    <3>2. rsp \in Msg /\ rsp.dir = "RSP" /\ queue \in Seq(Msg) /\ queue' = Append(queue, rsp)
      BY <2>2, <3>1 DEF IInv, TypeOK, SendMessage, Msg
    <3> HIDE DEF rsp
    <3>3. \A i \in DOMAIN queue' : \/ i \in DOMAIN queue /\ queue'[i] = queue[i]
                                   \/ queue'[i].dir = "RSP"
      BY <3>2, AppendFacts
    <3> QED
      BY <1>0, <2>2, <3>1, <3>3 DEF Lone, SendMessage
  <2> QED
    BY <1>4, <2>1, <2>2 DEF ServerReply
<1> QED
  BY <1>1, <1>2, <1>3, <1>4 DEF Server

LEMMA LoneClient == IInv /\ Lone /\ Client => Lone'
<1> SUFFICES ASSUME IInv, Lone, Client PROVE Lone'
  OBVIOUS
<1>0. hand' = hand
  BY DEF Client, server
<1>1. ASSUME NEW k \in Kind, Query(k) PROVE Lone'
  BY <1>0, <1>1 DEF Lone, Query
<1>2. CASE ClientDrain
  <2>1. CASE TakeMessage /\ cpc' \in {"drain", "ended"}
    BY <1>2, <2>1, LoneTake DEF ClientDrain
  <2>2. CASE NoMessage
    BY <1>0, <1>2, <2>2 DEF Lone, NoMessage, ClientDrain
  <2> QED
    BY <1>2, <2>1, <2>2 DEF ClientDrain
<1>3. CASE ClientSend
  <2>1. CASE SendTimesOut /\ cpc' = "idle"
    BY <1>0, <2>1, LoneStill DEF SendTimesOut
  <2>2. CASE SendMessage(Command) /\ cpc' = "recv"
    <3>1. queue \in Seq(Msg) /\ queue' = Append(queue, Command)
      BY <2>2 DEF IInv, TypeOK, SendMessage
    <3>2. /\ \A i \in DOMAIN queue' : \/ i \in DOMAIN queue /\ queue'[i] = queue[i]
                                      \/ i = Len(queue) + 1
      BY <3>1
    <3> QED
      BY <1>3, <2>2, <3>2 DEF Lone, ClientSend, SendMessage
  <2> QED
    BY <1>3, <2>1, <2>2 DEF ClientSend
<1>4. CASE ClientReceive
  <2>1. CASE TakeMessage
    BY <1>4, <2>1, LoneTake DEF ClientReceive
  <2>2. CASE NoMessage
    BY <1>0, <1>4, <2>2, LoneStill DEF ClientReceive, NoMessage, TakeMessage
  <2> QED
    BY <1>4, <2>1, <2>2 DEF ClientReceive
<1> QED
  BY <1>1, <1>2, <1>3, <1>4 DEF Client, ClientCall

THEOREM AlwaysLone == Spec => []Lone
<1>1. Init => Lone
  BY DEF Init, Lone
<1>2. IInv /\ Lone /\ [Next]_vars => Lone'
  <2>1. IInv /\ Lone /\ End => Lone'
    BY LoneStill DEF End, server, client
  <2>2. Lone /\ UNCHANGED vars => Lone'
    BY LoneStill DEF vars, server, client
  <2> QED
    BY <2>1, <2>2, LoneServer, LoneClient DEF Next
<1> QED
  BY <1>1, <1>2, Invariant, PTL DEF Spec
--------------------------------------------------------------------------------
(* The functions of QueryChannel, which have one element here.             *)
LEMMA Single ==
  ASSUME NEW x, NEW y
  PROVE  /\ [s \in Ends |-> x]["server"] = x
         /\ [[s \in Ends |-> x] EXCEPT !["server"] = y] = [s \in Ends |-> y]
BY DEF Ends

HandKept == Works("handle")' = Works("handle") /\ Works("reply")' = Works("reply")

LEMMA Still ==
  ASSUME HandKept, Commanded' = Commanded, Replied' = Replied
  PROVE  UNCHANGED Channel!channel
BY DEF HandKept, Channel!channel

LEMMA Asking ==
  ASSUME NEW w \in BOOLEAN, HandKept, Commanded' = w, Replied' = FALSE
  PROVE  Channel!Ask("server", w)
<1>1. [s \in Ends |-> Commanded'] = [[s \in Ends |-> Commanded] EXCEPT !["server"] = w]
  BY Single
<1>2. [s \in Ends |-> Replied'] = [[s \in Ends |-> Replied] EXCEPT !["server"] = FALSE]
  BY Single
<1> QED
  BY <1>1, <1>2 DEF HandKept, Channel!Ask

LEMMA Failing ==
  ASSUME HandKept, Commanded' \in {Commanded, FALSE}, Replied' = FALSE
  PROVE  Channel!Failed("server")
BY Single DEF HandKept, Channel!Failed

LEMMA Answering ==
  ASSUME HandKept, Commanded' = Commanded, Replied = TRUE, Replied' = FALSE
  PROVE  Channel!Answered("server")
<1>1. [s \in Ends |-> Replied'] = [[s \in Ends |-> Replied] EXCEPT !["server"] = FALSE]
  BY Single
<1>2. [s \in Ends |-> Replied]["server"]
  BY Single
<1> QED
  BY <1>1, <1>2 DEF HandKept, Channel!Answered

LEMMA Losing ==
  ASSUME HandKept, \/ Commanded = TRUE /\ Commanded' = FALSE /\ Replied' = Replied
                   \/ Replied = TRUE /\ Replied' = FALSE /\ Commanded' = Commanded
  PROVE  Channel!Lose("server")
<1>1. CASE Commanded = TRUE /\ Commanded' = FALSE /\ Replied' = Replied
  <2>1. /\ [s \in Ends |-> Commanded]["server"]
        /\ [s \in Ends |-> Commanded'] = [[s \in Ends |-> Commanded] EXCEPT !["server"] = FALSE]
    BY <1>1, Single
  <2> QED
    BY <1>1, <2>1 DEF HandKept, Channel!Lose
<1>2. CASE Replied = TRUE /\ Replied' = FALSE /\ Commanded' = Commanded
  <2>1. /\ [s \in Ends |-> Replied]["server"]
        /\ [s \in Ends |-> Replied'] = [[s \in Ends |-> Replied] EXCEPT !["server"] = FALSE]
    BY <1>2, Single
  <2> QED
    BY <1>2, <2>1 DEF HandKept, Channel!Lose
<1> QED
  BY <1>1, <1>2

LEMMA Taking ==
  ASSUME Commanded = TRUE, Commanded' = FALSE, Replied' = Replied,
         Works("handle") = FALSE, Works("handle")' = TRUE,
         Works("reply") = FALSE, Works("reply")' = FALSE
  PROVE  Channel!Take("server")
<1>1. /\ [s \in Ends |-> Commanded]["server"]
      /\ [s \in Ends |-> Commanded'] = [[s \in Ends |-> Commanded] EXCEPT !["server"] = FALSE]
  BY Single
<1>2. /\ ~[s \in Ends |-> Works("handle")]["server"]
      /\ [s \in Ends |-> Works("handle")']
           = [[s \in Ends |-> Works("handle")] EXCEPT !["server"] = TRUE]
  BY Single
<1>3. ~[s \in Ends |-> Works("reply")]["server"]
  BY Single
<1> QED
  BY <1>1, <1>2, <1>3 DEF Channel!Take

LEMMA Handling ==
  ASSUME Works("handle") = TRUE, Works("handle")' = FALSE, Works("reply")' = TRUE,
         Commanded' = Commanded, Replied' = Replied
  PROVE  Channel!Handle("server")
<1>1. /\ [s \in Ends |-> Works("handle")]["server"]
      /\ [s \in Ends |-> Works("handle")']
           = [[s \in Ends |-> Works("handle")] EXCEPT !["server"] = FALSE]
  BY Single
<1>2. [s \in Ends |-> Works("reply")']
        = [[s \in Ends |-> Works("reply")] EXCEPT !["server"] = TRUE]
  BY Single
<1> QED
  BY <1>1, <1>2 DEF Channel!Handle

LEMMA Replying ==
  ASSUME Works("reply") = TRUE, Works("reply")' = FALSE,
         Works("handle")' = Works("handle"),
         Commanded' = Commanded, Replied' \in {Replied, TRUE}
  PROVE  Channel!Reply("server")
<1>1. /\ [s \in Ends |-> Works("reply")]["server"]
      /\ [s \in Ends |-> Works("reply")']
           = [[s \in Ends |-> Works("reply")] EXCEPT !["server"] = FALSE]
  BY Single
<1>2. \/ [s \in Ends |-> Replied'] = [s \in Ends |-> Replied]
      \/ [s \in Ends |-> Replied'] = [[s \in Ends |-> Replied] EXCEPT !["server"] = TRUE]
  BY Single
<1> QED
  BY <1>1, <1>2 DEF Channel!Reply
--------------------------------------------------------------------------------
(* What the steps of the server and of the client do to its values.        *)
LEMMA Truth ==
  /\ \A pc \in {"handle", "reply"} : Works(pc) \in BOOLEAN
  /\ \A dir \in {"CMD", "RSP"} : Waits(dir) \in BOOLEAN
  /\ Commanded \in BOOLEAN /\ Replied \in BOOLEAN
BY DEF Works, Waits, Commanded, Replied, Asks

LEMMA HandSame ==
  ASSUME \/ UNCHANGED <<spc, hand>>
         \/ spc \notin {"handle", "reply"} /\ spc' \notin {"handle", "reply"}
  PROVE  HandKept
BY DEF HandKept, Works

LEMMA WaitsSame ==
  ASSUME UNCHANGED queue
  PROVE  Waits("CMD")' = Waits("CMD") /\ Waits("RSP")' = Waits("RSP")
BY DEF Waits

LEMMA WaitsTaken ==
  ASSUME IInv, Lone, TakeMessage
  PROVE  /\ Head(queue).dir = "RSP" =>
               /\ Waits("CMD")' = Waits("CMD")
               /\ Waits("RSP")' \in {Waits("RSP"), FALSE}
         /\ Head(queue).dir = "CMD" =>
               /\ Waits("CMD") = (Head(queue).kind = "WAKEUP") /\ Waits("CMD")' = FALSE
               /\ Waits("RSP")' = Waits("RSP")
<1>1. queue \in Seq(Msg) /\ queue # <<>> /\ queue' = Tail(queue)
  BY DEF IInv, TypeOK, TakeMessage
<1>2. /\ \A i \in DOMAIN queue' : i + 1 \in DOMAIN queue /\ queue'[i] = queue[i + 1]
      /\ \A i \in DOMAIN queue' : i \in Nat /\ i + 1 # 1
      /\ Head(queue) = queue[1] /\ 1 \in DOMAIN queue
      /\ \A i \in DOMAIN queue : i # 1 => i - 1 \in DOMAIN queue' /\ queue[i] = queue'[i - 1]
  BY <1>1, TailFacts
<1>3. \A dir \in {"CMD", "RSP"} : Waits(dir)' => Waits(dir)
  BY <1>2 DEF Waits
<1>4. \A dir \in {"CMD", "RSP"} : Waits(dir) /\ Head(queue).dir # dir => Waits(dir)'
  BY <1>2 DEF Waits
<1>5. Head(queue).dir = "CMD" => ~Waits("CMD")' /\ (Waits("CMD") <=> Head(queue).kind = "WAKEUP")
  BY <1>2 DEF Waits, Lone
<1>6. ASSUME NEW dir \in {"CMD", "RSP"}, Head(queue).dir # dir
      PROVE  Waits(dir)' = Waits(dir)
  BY <1>3, <1>4, <1>6 DEF Waits
<1>7. Head(queue).dir = "CMD" =>
        Waits("CMD") = (Head(queue).kind = "WAKEUP") /\ Waits("CMD")' = FALSE
  BY <1>5 DEF Waits
<1>8. Waits("RSP")' \in {Waits("RSP"), FALSE}
  BY <1>3 DEF Waits
<1> QED
  BY <1>6, <1>7, <1>8

LEMMA WaitsSent ==
  ASSUME IInv, NEW m \in Msg, SendMessage(m)
  PROVE  /\ Waits("CMD")' = (Waits("CMD") \/ (m.dir = "CMD" /\ m.kind = "WAKEUP"))
         /\ Waits("RSP")' = (Waits("RSP") \/ (m.dir = "RSP" /\ m.kind = "WAKEUP"))
<1>1. queue \in Seq(Msg) /\ queue' = Append(queue, m)
  BY DEF IInv, TypeOK, SendMessage
<1>2. /\ \A i \in DOMAIN queue' : \/ i \in DOMAIN queue /\ queue'[i] = queue[i]
                                  \/ queue'[i] = m
      /\ \A i \in DOMAIN queue : i \in DOMAIN queue' /\ queue'[i] = queue[i]
      /\ Len(queue) + 1 \in DOMAIN queue' /\ queue'[Len(queue) + 1] = m
  BY <1>1
<1> QED
  BY <1>2 DEF Waits

LEMMA Steps ==
  ASSUME \/ Channel!Call("server") \/ Channel!Take("server") \/ Channel!Handle("server")
         \/ Channel!Reply("server") \/ Channel!Lose("server") \/ UNCHANGED Channel!channel
  PROVE  [Channel!Next]_(Channel!channel)
BY DEF Channel!Next, Ends

Conforms == [Channel!Next]_(Channel!channel) /\ ChannelStep

LEMMA ServerConforms == IInv /\ Lone /\ Server => Conforms
<1> SUFFICES ASSUME IInv, Lone, Server PROVE Conforms
  OBVIOUS
<1>0. UNCHANGED <<cpc, asked, credited>>
  BY DEF Server, client
<1>c. (Waits("CMD")' = Waits("CMD") => Commanded' = Commanded)
      /\ (Waits("RSP")' = Waits("RSP") => Replied' = Replied)
  BY <1>0 DEF Commanded, Replied, Asks
<1>s. ASSUME handled' = handled \/ hand.kind # "WAKEUP" PROVE ChannelStep
  BY <1>0, <1>s DEF ChannelStep
<1>1. CASE ServerInit \/ ServerNullQueue \/ ServerDefault \/ ServerCheck \/ ServerCreateMQ
  <2>1. handled' = handled /\ spc \notin {"handle", "reply"} /\ spc' \notin {"handle", "reply"}
    BY <1>1 DEF ServerInit, ServerNullQueue, ServerDefault, ServerCheck, ServerCreateMQ
  <2>2. UNCHANGED queue
    BY <1>1 DEF ServerInit, ServerNullQueue, ServerDefault, ServerCheck, ServerCreateMQ,
                Connect, ConnectFails, Lone
  <2> QED
    BY <1>c, <1>s, <2>1, <2>2, HandSame, WaitsSame, Still, Steps DEF Conforms
<1>2. CASE ServerListen
  <2>1. handled' = handled /\ spc = "run"
    BY <1>2 DEF ServerListen
  <2>2. CASE NoMessage /\ spc' = "check"
    BY <1>c, <1>s, <2>1, <2>2, HandSame, WaitsSame, Still, Steps DEF Conforms, NoMessage
  <2>3. CASE TakeMessage /\ Head(queue).dir = "RSP" /\ spc' \in {"check", "ended"}
    <3>1. HandKept
      BY <2>1, <2>3, HandSame
    <3>2. Commanded' = Commanded /\ Waits("RSP")' \in {Waits("RSP"), FALSE}
      BY <1>c, <2>3, WaitsTaken
    <3>3. CASE Replied' = Replied
      BY <1>s, <2>1, <3>1, <3>2, <3>3, Still, Steps DEF Conforms
    <3>4. CASE Replied' # Replied
      <4>1. Replied = TRUE /\ Replied' = FALSE
        BY <1>0, <3>2, <3>4, Truth DEF Replied
      <4> QED
        BY <1>s, <2>1, <3>1, <3>2, <4>1, Losing, Steps DEF Conforms
    <3> QED
      BY <3>3, <3>4
  <2>4. CASE TakeMessage /\ Head(queue).dir = "CMD" /\ hand' = Head(queue) /\ spc' = "handle"
    <3>1. /\ Waits("CMD") = (Head(queue).kind = "WAKEUP") /\ Waits("CMD")' = FALSE
          /\ Replied' = Replied
      BY <1>c, <2>4, WaitsTaken
    <3>2. cpc # "send"
      <4>1. 1 \in DOMAIN queue /\ Head(queue) = queue[1]
        BY <2>4, TailFacts DEF IInv, TypeOK, TakeMessage
      <4> QED
        BY <2>4, <4>1 DEF Lone
    <3>3. Commanded = (Head(queue).kind = "WAKEUP") /\ Commanded' = FALSE
      BY <1>0, <3>1, <3>2 DEF Commanded
    <3>4. CASE Head(queue).kind = "WAKEUP"
      <4>1. /\ Works("handle") = FALSE /\ Works("handle")' = TRUE
            /\ Works("reply") = FALSE /\ Works("reply")' = FALSE
        BY <2>1, <2>4, <3>4 DEF Works
      <4> QED
        BY <1>s, <2>1, <3>1, <3>3, <3>4, <4>1, Taking, Steps DEF Conforms
    <3>5. CASE Head(queue).kind # "WAKEUP"
      <4>1. HandKept
        BY <2>1, <2>4, <3>5 DEF HandKept, Works
      <4> QED
        BY <1>s, <2>1, <3>1, <3>3, <3>5, <4>1, Still, Steps DEF Conforms
    <3> QED
      BY <3>4, <3>5
  <2>5. CASE TakeMessage /\ Head(queue).dir = "CMD" /\ spc' = "ended"
    <3>1. /\ Waits("CMD") \in BOOLEAN /\ Waits("CMD")' = FALSE
          /\ Replied' = Replied /\ HandKept
      BY <1>c, <2>1, <2>5, WaitsTaken, Truth, HandSame
    <3>2. cpc # "send"
      <4>1. 1 \in DOMAIN queue /\ Head(queue) = queue[1]
        BY <2>5, TailFacts DEF IInv, TypeOK, TakeMessage
      <4> QED
        BY <2>5, <4>1 DEF Lone
    <3>3. Commanded \in BOOLEAN /\ Commanded' = FALSE
      BY <1>0, <3>1, <3>2 DEF Commanded
    <3>4. CASE Commanded = FALSE
      BY <1>s, <2>1, <3>1, <3>3, <3>4, Still, Steps DEF Conforms
    <3>5. CASE Commanded = TRUE
      BY <1>s, <2>1, <3>1, <3>3, <3>5, Losing, Steps DEF Conforms
    <3> QED
      BY <3>3, <3>4, <3>5
  <2>6. TakeMessage => Head(queue).dir \in {"CMD", "RSP"}
    BY TailFacts DEF IInv, TypeOK, TakeMessage, Msg
  <2> QED
    BY <1>2, <2>2, <2>3, <2>4, <2>5, <2>6 DEF ServerListen
<1>3. CASE ServerHandle
  <2>1. spc = "handle" /\ spc' = "reply" /\ UNCHANGED <<queue, hand>>
    BY <1>3 DEF ServerHandle
  <2>2. Commanded' = Commanded /\ Replied' = Replied
    BY <1>c, <2>1, WaitsSame
  <2>3. CASE hand.kind = "WAKEUP"
    <3>1. Works("handle") = TRUE /\ Works("handle")' = FALSE /\ Works("reply")' = TRUE
      BY <2>1, <2>3 DEF Works
    <3>2. Channel!Handle("server")
      BY <2>2, <3>1, Handling
    <3> QED
      BY <1>0, <3>2, Steps DEF Conforms, ChannelStep
  <2>4. CASE hand.kind # "WAKEUP"
    <3>1. HandKept
      BY <2>1, <2>4 DEF HandKept, Works
    <3> QED
      BY <1>s, <2>2, <2>4, <3>1, Still, Steps DEF Conforms
  <2> QED
    BY <2>3, <2>4
<1>4. CASE ServerReply
  <2>0. spc = "reply" /\ spc' = "check" /\ handled' = handled /\ hand \in Msg
    BY <1>4 DEF ServerReply, IInv, TypeOK
  <2>1. /\ Waits("CMD")' = Waits("CMD")
        /\ Waits("RSP")' = Waits("RSP") \/ (hand.kind = "WAKEUP" /\ Waits("RSP")' = TRUE)
    <3>1. CASE SendTimesOut
      BY <3>1, WaitsSame DEF SendTimesOut
    <3>2. CASE SendMessage([hand EXCEPT !.dir = "RSP"])
      <4> DEFINE rsp == [hand EXCEPT !.dir = "RSP"]
      <4>1. rsp \in Msg /\ rsp.dir = "RSP" /\ rsp.kind = hand.kind
        BY <2>0 DEF Msg
      <4> HIDE DEF rsp
      <4> QED
        BY <3>2, <4>1, WaitsSent, Truth DEF rsp
    <3> QED
      BY <1>4, <3>1, <3>2 DEF ServerReply
  <2>2. Commanded' = Commanded /\ Replied' \in {Replied, TRUE}
    BY <1>0, <1>c, <2>1, Truth DEF Replied
  <2>3. CASE hand.kind = "WAKEUP"
    <3>1. /\ Works("reply") = TRUE /\ Works("reply")' = FALSE
          /\ Works("handle")' = Works("handle")
      BY <2>0, <2>3 DEF Works
    <3> QED
      BY <1>s, <2>0, <2>2, <3>1, Replying, Steps DEF Conforms
  <2>4. CASE hand.kind # "WAKEUP"
    <3>1. HandKept
      BY <2>0, <2>4 DEF HandKept, Works
    <3> QED
      BY <1>c, <1>s, <2>0, <2>1, <2>4, <3>1, Still, Steps DEF Conforms
  <2> QED
    BY <2>3, <2>4
<1> QED
  BY <1>1, <1>2, <1>3, <1>4 DEF Server

LEMMA ClientConforms == IInv /\ Lone /\ Client => Conforms
<1> SUFFICES ASSUME IInv, Lone, Client PROVE Conforms
  OBVIOUS
<1>0. UNCHANGED <<spc, hand, handled>> /\ HandKept
  BY HandSame DEF Client, server
<1>s. ASSUME cpc = "idle" \/ cpc' # "idle", cpc # "drain" \/ cpc' # "send" PROVE ChannelStep
  BY <1>0, <1>s DEF ChannelStep
<1>1. ASSUME NEW k \in Kind, Query(k) PROVE Conforms
  <2>1. UNCHANGED queue /\ cpc = "idle" /\ cpc' \in {"idle", "drain"}
    BY <1>1 DEF Query
  <2>2. Commanded' = Commanded /\ Replied' = Replied
    BY <2>1, WaitsSame DEF Commanded, Replied
  <2> QED
    BY <1>0, <1>s, <2>1, <2>2, Still, Steps DEF Conforms
<1>2. CASE ClientDrain
  <2>1. CASE TakeMessage /\ cpc' \in {"drain", "ended"}
    <3>1. cpc = "drain" /\ cpc' \in {"drain", "ended"} /\ Replied = FALSE /\ Replied' = FALSE
      BY <1>2, <2>1 DEF ClientDrain, Replied
    <3>2. \/ Waits("CMD")' = Waits("CMD")
          \/ Waits("CMD") = TRUE /\ Waits("CMD")' = FALSE
      <4>1. Head(queue).dir \in {"CMD", "RSP"}
        BY <2>1, TailFacts DEF IInv, TypeOK, TakeMessage, Msg
      <4> QED
        BY <2>1, <4>1, WaitsTaken, Truth
    <3>3. CASE Waits("CMD")' = Waits("CMD")
      BY <1>0, <1>s, <3>1, <3>3, Still, Steps DEF Conforms, Commanded
    <3>4. CASE Waits("CMD") = TRUE /\ Waits("CMD")' = FALSE
      <4>1. Commanded = TRUE /\ Commanded' = FALSE
        BY <3>1, <3>4 DEF Commanded
      <4> QED
        BY <1>0, <1>s, <3>1, <4>1, Losing, Steps DEF Conforms
    <3> QED
      BY <3>2, <3>3, <3>4
  <2>2. CASE NoMessage /\ cpc' = "send"
    <3>1. cpc = "drain" /\ asked' = asked /\ queue' = <<>>
      BY <1>2, <2>2 DEF ClientDrain, NoMessage
    <3>2. Commanded' = Asks("WAKEUP") /\ Replied' = FALSE /\ Asks("WAKEUP") \in BOOLEAN
      BY <2>2, <3>1 DEF Commanded, Replied, Asks, Waits
    <3>3. Channel!Ask("server", Asks("WAKEUP"))
      BY <1>0, <3>2, Asking
    <3>4. Channel!Call("server")
      BY <3>2, <3>3 DEF Channel!Call
    <3> QED
      BY <1>0, <2>2, <3>1, <3>3, <3>4, Steps DEF Conforms, ChannelStep
  <2> QED
    BY <1>2, <2>1, <2>2 DEF ClientDrain
<1>3. CASE ClientSend
  <2>0. cpc = "send" /\ UNCHANGED <<asked, credited>> /\ Waits("CMD") = FALSE
    BY <1>3 DEF ClientSend, Lone, Waits
  <2>1. CASE SendTimesOut /\ cpc' = "idle"
    <3>1. Commanded' = FALSE /\ Replied' = FALSE
      BY <2>0, <2>1, WaitsSame DEF SendTimesOut, Commanded, Replied
    <3>2. Channel!Failed("server")
      BY <1>0, <3>1, Failing
    <3> QED
      BY <1>0, <2>0, <2>1, <3>2, Steps DEF Conforms, ChannelStep, Channel!Call
  <2>2. CASE SendMessage(Command) /\ cpc' = "recv"
    <3>1. Command \in Msg
      BY <2>0, FaultHandleAssumption DEF IInv, TypeOK, Made, Command, Msg
    <3>2. Command.dir = "CMD" /\ Command.kind = asked[Len(asked)]
      BY DEF Command
    <3>3. Waits("CMD")' = Asks("WAKEUP") /\ Waits("RSP")' = Waits("RSP")
      BY <2>0, <2>2, <3>1, <3>2, WaitsSent, Truth DEF Asks
    <3>4. Commanded' = Commanded /\ Replied' = Replied
      BY <2>0, <2>2, <3>3 DEF Commanded, Replied
    <3> QED
      BY <1>0, <1>s, <2>0, <2>2, <3>4, Still, Steps DEF Conforms
  <2> QED
    BY <1>3, <2>1, <2>2 DEF ClientSend
<1>4. CASE ClientReceive
  <2>0. cpc = "recv" /\ cpc' \in {"idle", "ended"} /\ asked' = asked /\ Replied' = FALSE
    BY <1>4 DEF ClientReceive, Replied
  <2>1. CASE NoMessage \/ (TakeMessage /\ Head(queue).dir = "CMD")
    <3>1. Commanded' \in {Commanded, FALSE}
      BY <2>0, <2>1, WaitsSame, WaitsTaken DEF Commanded, NoMessage
    <3>2. Channel!Failed("server")
      BY <1>0, <2>0, <3>1, Failing
    <3>3. credited' = credited
      BY <1>4, <2>1 DEF ClientReceive, Expected, NoMessage, TakeMessage
    <3> QED
      BY <1>0, <2>0, <3>2, <3>3, Steps DEF Conforms, ChannelStep, Channel!Call
  <2>2. CASE TakeMessage /\ Head(queue).dir = "RSP"
    <3>1. Commanded' = Commanded
      BY <2>0, <2>2, WaitsTaken DEF Commanded
    <3>2. Channel!Failed("server")
      BY <1>0, <2>0, <3>1, Failing
    <3>3. CASE credited' # credited /\ Asks("WAKEUP")
      <4>1. Head(queue).kind = "WAKEUP"
        BY <1>4, <2>2, <3>3 DEF ClientReceive, Expected, NoMessage, TakeMessage, Asks
      <4>2. 1 \in DOMAIN queue /\ Head(queue) = queue[1]
        BY <2>2, TailFacts DEF IInv, TypeOK, TakeMessage
      <4>3. Replied = TRUE
        BY <2>0, <2>2, <4>1, <4>2 DEF Replied, Waits
      <4>4. Channel!Answered("server")
        BY <1>0, <2>0, <3>1, <4>3, Answering
      <4> QED
        BY <1>0, <2>0, <3>3, <4>4, Steps DEF Conforms, ChannelStep, Channel!Call
    <3>4. CASE ~(credited' # credited /\ Asks("WAKEUP"))
      BY <1>0, <2>0, <3>2, <3>4, Steps DEF Conforms, ChannelStep, Channel!Call
    <3> QED
      BY <3>3, <3>4
  <2>3. TakeMessage => Head(queue).dir \in {"CMD", "RSP"}
    BY TailFacts DEF IInv, TypeOK, TakeMessage, Msg
  <2> QED
    BY <1>4, <2>1, <2>2, <2>3 DEF ClientReceive
<1> QED
  BY <1>1, <1>2, <1>3, <1>4 DEF Client, ClientCall

LEMMA OtherConforms == End \/ UNCHANGED vars => Conforms
<1> SUFFICES ASSUME End \/ UNCHANGED vars PROVE Conforms
  OBVIOUS
<1>1. UNCHANGED <<queue, spc, hand, cpc, asked, handled>>
  BY DEF End, vars, server, client
<1>2. HandKept /\ Commanded' = Commanded /\ Replied' = Replied
  BY <1>1, HandSame, WaitsSame DEF Commanded, Replied, Asks
<1> QED
  BY <1>1, <1>2, Still, Steps DEF Conforms, ChannelStep

(* Client and server are such a channel as FaultMonitor gives each sensor: *)
(* at most one wake-up waits and one is worked on, a query forgets what    *)
(* waits when it asks, its success uses up an answer to a wake-up, and a   *)
(* failed one leaves at most its command and a handler at work.            *)
THEOREM ChannelImplementation == Spec => ChannelSpec
<1>1. Init => Channel!Init
  <2> SUFFICES ASSUME Init PROVE Channel!Init
    OBVIOUS
  <2>1. DOMAIN queue = {} /\ spc = "run" /\ cpc = "idle"
    BY DEF Init
  <2>2. /\ Commanded = FALSE /\ Replied = FALSE
        /\ Works("handle") = FALSE /\ Works("reply") = FALSE
    BY <2>1 DEF Commanded, Waits, Works, Replied
  <2> QED
    BY <2>2 DEF Channel!Init
<1>2. IInv /\ Lone /\ [Next]_vars => Conforms
  BY ServerConforms, ClientConforms, OtherConforms DEF Next
<1>3. IInv /\ Lone /\ [Next]_vars
        => [Channel!Next]_(Channel!channel) /\ [ChannelStep]_vars
  BY <1>2 DEF Conforms
<1> QED
  BY <1>1, <1>3, Invariant, AlwaysLone, PTL DEF Spec, ChannelSpec, Channel!Spec
====
