----------------------------- MODULE MessageQueue -----------------------------
(***************************************************************************)
(* Core::MessageQueue, the wrapper around a boost interprocess queue that  *)
(* every channel of the system is made of: heartbeats, sync values and the *)
(* commands of the fault monitor.  The queue lives in shared memory: it    *)
(* exists once its creator has connected and it is a bounded FIFO, because *)
(* every message is sent with the same priority.                           *)
(***************************************************************************)
EXTENDS Integers, Sequences

CONSTANT MaxMsgs   \* max_num_msgs of connect()

ASSUME MaxMsgsAssumption == MaxMsgs \in Nat \ {0}

VARIABLES
  exists,   \* the shared memory object has been created
  queue     \* its messages, oldest first

(* connect() of the creator: create_only throws when the name exists, and  *)
(* connect then returns false.                                             *)
Connect == /\ ~exists
           /\ exists' = TRUE
           /\ queue' = <<>>

ConnectFails == exists /\ UNCHANGED <<exists, queue>>

(* sendMessage: timed_send waits while the queue is full and returns false *)
(* when it still is at the deadline.                                       *)
SendMessage(m) == /\ Len(queue) < MaxMsgs
                  /\ queue' = Append(queue, m)
                  /\ UNCHANGED exists

SendTimesOut == Len(queue) >= MaxMsgs /\ UNCHANGED <<exists, queue>>

(* recvMessage and timedRecvMessage take the oldest message.               *)
TakeMessage == /\ queue # <<>>
               /\ queue' = Tail(queue)
               /\ UNCHANGED exists

(* ... or report that there is none, at once (areMoreMsgs = false) or at   *)
(* the deadline (timedRecvMessage returns false).                          *)
NoMessage == queue = <<>> /\ UNCHANGED <<exists, queue>>
===============================================================================
