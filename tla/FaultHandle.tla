------------------------------ MODULE FaultHandle ------------------------------
(***************************************************************************)
(* The command channel between the fault monitor and one sensor:           *)
(* FaultHandle::Client (in the monitor) and FaultHandle::Server (a thread  *)
(* of the sensor process).  Commands and answers travel through the same   *)
(* queue, so each side may take what it put there itself, and nothing in a *)
(* message tells which query it belongs to: the field query is a ghost.    *)
(***************************************************************************)
EXTENDS MessageQueue

CONSTANTS
  Kind,        \* GETDATA and WAKEUP
  MaxQuery,    \* bound: the number of queries the monitor makes
  FreshState,  \* what the uninitialized Server::_state may hold at start
  Leftover,    \* whether the queue of an earlier sensor process may exist
  NoMsg        \* no command is being handled

States == {"INIT", "CREATING_MQ", "LISTENING", "SHUTDOWN", "garbage"}
Msg == [dir : {"CMD", "RSP"}, kind : Kind, query : 1..MaxQuery]

ASSUME FaultHandleAssumption == /\ MaxQuery \in Nat
                                /\ FreshState \subseteq States
                                /\ Leftover \subseteq BOOLEAN
                                /\ NoMsg \notin Msg

VARIABLES
  sstate,    \* Server::_state
  connected, \* the server's queue pointer is not null
  spc,       \* where the server thread is in _run
  hand,      \* the command its handler works on
  stop,      \* Thread::_shutdown
  cpc,       \* where the client is in query()
  asked,     \* ghost: the kinds of the queries made so far
  handled,   \* ghost: the queries whose signal the server emitted
  credited   \* ghost: the queries whose answer made a query succeed

server == <<sstate, connected, spc, hand, handled>>
client == <<cpc, asked, credited>>
vars == <<exists, queue, server, stop, client>>

(* Nothing in the sensor removes a queue: it survives a killed process     *)
(* until Assignment2's main removes it.                                    *)
Init == /\ exists \in Leftover /\ queue = <<>>
        /\ sstate \in FreshState /\ connected = FALSE
        /\ spc = "run" /\ hand = NoMsg
        /\ stop = FALSE
        /\ cpc = "idle" /\ asked = <<>>
        /\ handled = {} /\ credited = {}
--------------------------------------------------------------------------------
(* The server thread: one pass of the loop is the switch of _run, the work *)
(* of the state it read, and the test of _shutdown at the end.             *)

ServerInit == /\ spc = "run" /\ sstate = "INIT"
              /\ sstate' = "CREATING_MQ" /\ spc' = "check"
              /\ UNCHANGED <<exists, queue, connected, hand, handled>>

ServerCreateMQ == /\ spc = "run" /\ sstate = "CREATING_MQ"
                  /\ \/ Connect /\ sstate' = "LISTENING" /\ connected' = TRUE
                     \/ ConnectFails /\ UNCHANGED <<sstate, connected>>
                  /\ spc' = "check"
                  /\ UNCHANGED <<hand, handled>>

(* Mutants: the default case falls into a handler, any message is executed; *)
(* the receive has no deadline.                                            *)
ListenToAnything ==
  /\ spc = "run" /\ sstate = "LISTENING" /\ connected
  /\ \/ TakeMessage /\ hand' = Head(queue) /\ spc' = "handle"
     \/ NoMessage /\ spc' = "check" /\ UNCHANGED hand
  /\ UNCHANGED <<sstate, connected, handled>>

ListenBlocks ==
  /\ spc = "run" /\ sstate = "LISTENING" /\ connected /\ TakeMessage
  /\ \/ Head(queue).dir = "CMD" /\ hand' = Head(queue) /\ spc' = "handle"
     \/ Head(queue).dir = "RSP" /\ spc' = "check" /\ UNCHANGED hand
  /\ UNCHANGED <<sstate, connected, handled>>

(* timedRecvMessage, then the switch on the type: only a command has a     *)
(* handler, an answer (the server's own) is dropped.  The whole buffer is  *)
(* parsed, what the message did not fill included: should that make a      *)
(* number too large, the parser throws and the thread ends.                *)
ServerListen ==
  /\ spc = "run" /\ sstate = "LISTENING" /\ connected
  /\ \/ /\ TakeMessage
        /\ \/ /\ Head(queue).dir = "CMD"
              /\ hand' = Head(queue) /\ spc' = "handle"
           \/ /\ Head(queue).dir = "RSP"
              /\ spc' = "check" /\ UNCHANGED hand
           \/ spc' = "ended" /\ UNCHANGED hand
     \/ NoMessage /\ spc' = "check" /\ UNCHANGED hand
  /\ UNCHANGED <<sstate, connected, handled>>

(* A server whose _state started as LISTENING never connected: its queue   *)
(* pointer is null.                                                        *)
ServerNullQueue ==
  /\ spc = "run" /\ sstate = "LISTENING" /\ ~connected
  /\ spc' = "crashed"
  /\ UNCHANGED <<exists, queue, sstate, connected, hand, handled>>

ServerDefault == /\ spc = "run" /\ sstate \in {"SHUTDOWN", "garbage"}
                 /\ spc' = "check"
                 /\ UNCHANGED <<exists, queue, sstate, connected, hand, handled>>

(* _handleGetData and _handleWakeUp: the signal, then the answer, whose    *)
(* sending may time out without anyone noticing.                           *)
ServerHandle == /\ spc = "handle"
                /\ handled' = handled \cup {hand.query}
                /\ spc' = "reply"
                /\ UNCHANGED <<exists, queue, sstate, connected, hand>>

(* Mutant: the answer is sent again.                                       *)
ReplyAgain == /\ spc = "reply"
              /\ \/ SendMessage([hand EXCEPT !.dir = "RSP"]) /\ UNCHANGED <<hand, spc>>
                 \/ SendTimesOut /\ hand' = NoMsg /\ spc' = "check"
              /\ UNCHANGED <<sstate, connected, handled>>
ServerReply == /\ spc = "reply"
               /\ \/ SendMessage([hand EXCEPT !.dir = "RSP"])
                  \/ SendTimesOut
               /\ hand' = NoMsg /\ spc' = "check"
               /\ UNCHANGED <<sstate, connected, handled>>

ServerCheck == /\ spc = "check"
               /\ \/ ~stop /\ spc' = "run" /\ UNCHANGED sstate
                  \/ stop /\ spc' = "done" /\ sstate' = "SHUTDOWN"
               /\ UNCHANGED <<exists, queue, connected, hand, handled>>

Server == /\ \/ ServerInit \/ ServerCreateMQ \/ ServerListen \/ ServerNullQueue
             \/ ServerDefault \/ ServerHandle \/ ServerReply \/ ServerCheck
          /\ UNCHANGED <<stop, client>>

(* Thread::end(), called when the sensor shuts down.                       *)
End == ~stop /\ stop' = TRUE /\ UNCHANGED <<exists, queue, server, client>>
--------------------------------------------------------------------------------
(* The client: query() holds its mutex throughout, so queries do not       *)
(* overlap.                                                                *)

Query(k) == /\ cpc = "idle" /\ Len(asked) < MaxQuery
            /\ asked' = Append(asked, k)
            /\ cpc' = IF exists THEN "drain" ELSE "idle"   \* connect()
            /\ UNCHANGED <<exists, queue, credited>>

(* Mutant: what is in the queue stays there.                               *)
SendAtOnce == /\ cpc = "drain" /\ cpc' = "send"
              /\ UNCHANGED <<exists, queue, asked, credited>>

(* CLEAR THE QUEUE: one recvMessage per turn, until it finds none.  Here,  *)
(* too, the parser may throw, which ends the thread of the caller.         *)
ClientDrain == /\ cpc = "drain"
               /\ \/ TakeMessage /\ cpc' \in {"drain", "ended"}
                  \/ NoMessage /\ cpc' = "send"
               /\ UNCHANGED <<asked, credited>>

Command == [dir |-> "CMD", kind |-> asked[Len(asked)], query |-> Len(asked)]

ClientSend == /\ cpc = "send"
              /\ \/ SendMessage(Command) /\ cpc' = "recv"
                 \/ SendTimesOut /\ cpc' = "idle"
              /\ UNCHANGED <<asked, credited>>

(* Mutants: the direction, or the kind, of what was received is not tested. *)
ExpectedKind(m) == m.kind = asked[Len(asked)]
ExpectedAnswer(m) == m.dir = "RSP"

(* The answer is accepted when it has the type that was asked for.         *)
Expected(m) == m.dir = "RSP" /\ m.kind = asked[Len(asked)]

(* Mutant: the client waits until there is a message.                      *)
ReceiveBlocks ==
  /\ cpc = "recv" /\ cpc' = "idle" /\ TakeMessage
  /\ \/ Expected(Head(queue)) /\ credited' = credited \cup {Head(queue).query}
     \/ ~Expected(Head(queue)) /\ UNCHANGED credited
  /\ UNCHANGED asked

ClientReceive ==
  /\ cpc = "recv"
  /\ \/ /\ TakeMessage /\ cpc' = "idle"
        /\ \/ Expected(Head(queue)) /\ credited' = credited \cup {Head(queue).query}
           \/ ~Expected(Head(queue)) /\ UNCHANGED credited
     \/ TakeMessage /\ cpc' = "ended" /\ UNCHANGED credited
     \/ NoMessage /\ cpc' = "idle" /\ UNCHANGED credited
  /\ UNCHANGED asked

ClientCall == ClientDrain \/ ClientSend \/ ClientReceive

Client == /\ ClientCall \/ \E k \in Kind : Query(k)
          /\ UNCHANGED <<server, stop>>

Next == Server \/ Client \/ End

Spec == Init /\ [][Next]_vars

(* The operating system runs both threads, and every wait of a queue       *)
(* operation ends at its deadline.  Nobody has to make a query or to end   *)
(* the server.                                                             *)
FairSpec == Spec /\ WF_vars(Server) /\ WF_vars(ClientCall /\ UNCHANGED <<server, stop>>)
--------------------------------------------------------------------------------
(* The server holds a command exactly while a handler runs.                *)
TypeOK == /\ exists \in BOOLEAN /\ queue \in Seq(Msg)
          /\ sstate \in States /\ connected \in BOOLEAN
          /\ spc \in {"run", "check", "handle", "reply", "done", "ended", "crashed"}
          /\ IF spc \in {"handle", "reply"}
             THEN hand \in Msg /\ hand.dir = "CMD" ELSE hand = NoMsg
          /\ stop \in BOOLEAN
          /\ cpc \in {"idle", "drain", "send", "recv", "ended"}
          /\ asked \in Seq(Kind) /\ Len(asked) <= MaxQuery
          /\ handled \subseteq DOMAIN asked /\ credited \subseteq handled

Held == IF hand = NoMsg THEN 0 ELSE 1

(* However many queries time out and leave messages behind, the queue and  *)
(* the handler never hold more than two messages: a send never finds the   *)
(* queue of 100 full, and drain always ends.                               *)
AtMostTwo == Len(queue) + Held <= 2

(* A query, once it is made, leaves at most one message in the system: its *)
(* command before the handler runs, or its answer after.  No command is    *)
(* executed twice and no answer is used twice.                             *)
OneTokenPerQuery ==
  /\ \A i, j \in DOMAIN queue : queue[i].query = queue[j].query => i = j
  /\ \A i \in DOMAIN queue :
       /\ queue[i].kind = asked[queue[i].query]
       /\ hand # NoMsg => queue[i].query # hand.query
       /\ IF queue[i].dir = "CMD" THEN queue[i].query \notin handled
                                  ELSE queue[i].query \in handled \ credited
  /\ spc = "handle" => hand.query \notin handled
  /\ spc = "reply" => hand.query \in handled \ credited

(* Late answers are accepted, but never out of order: each query that      *)
(* returns true is accounted for by a later run of a handler than all the  *)
(* ones before it.                                                         *)
AnswersInOrder ==
  [][\A m \in credited' \ credited : \A n \in credited : n < m]_vars

(* query() returns or throws, whatever the server does or stops doing.     *)
Open == cpc \notin {"idle", "ended"}
QueryReturns == Open ~> ~Open

(* end() returns: a server that is told to stop leaves its loop, if no     *)
(* exception has ended it.                                                 *)
ServerStops == stop ~> spc \in {"done", "ended"}

(* Client and server implement the remote call the monitor relies on.      *)
Remote == INSTANCE RemoteQuery WITH open <- Open
RemoteSpec == Remote!Spec

(* They also implement what the monitor's model takes for the channel of a *)
(* sensor, in which only wake-ups matter: one that is about to be sent     *)
(* counts as waiting, and an answer only while a query waits for it.       *)
Ends == {"server"}
Asks(k) == asked[Len(asked)] = k
Waits(dir) == \E i \in DOMAIN queue : queue[i].dir = dir /\ queue[i].kind = "WAKEUP"
Works(pc) == spc = pc /\ hand.kind = "WAKEUP"
Commanded == IF cpc = "send" THEN Asks("WAKEUP") ELSE Waits("CMD")
Replied == cpc \in {"send", "recv"} /\ Waits("RSP")

Channel == INSTANCE QueryChannel WITH
             Sensor <- Ends,
             cmd <- [s \in Ends |-> Commanded],
             hand <- [s \in Ends |-> Works("handle")],
             answer <- [s \in Ends |-> Works("reply")],
             woke <- [s \in Ends |-> Replied]

(* A query asks when it has found the queue empty, and what it returns is  *)
(* what the channel says of it; the handler of a wake-up is its Handle.    *)
ChannelStep ==
  /\ cpc = "drain" /\ cpc' = "send" => Channel!Ask("server", Asks("WAKEUP"))
  /\ cpc # "idle" /\ cpc' = "idle" =>
       IF credited' # credited /\ Asks("WAKEUP")
       THEN Channel!Answered("server") ELSE Channel!Failed("server")
  /\ handled' # handled /\ hand.kind = "WAKEUP" => Channel!Handle("server")

ChannelSpec == Channel!Spec /\ [][ChannelStep]_vars
================================================================================
