--------------------------------- MODULE Sync ---------------------------------
(***************************************************************************)
(* Sync::Sender and Sync::Receiver: the primary sensor leaves its last     *)
(* samples in the sender, whose thread copies them into a message every    *)
(* Segments rounds; the receiver's thread hands each list it takes from    *)
(* the queue to the secondary sensor.  The list is shared between two      *)
(* threads without the mutex, and a message is a text archive whose length *)
(* depends on the samples, while the queue's messages have a fixed size.   *)
(***************************************************************************)
EXTENDS MessageQueue, Thread, FiniteSets

CONSTANTS
  SampleSize,   \* sample_size of the primary
  Segments,     \* NUM_SYNC_SEGMENTS
  FreshSegment, \* what the uninitialized _syncSegment may hold
  Header,       \* characters of an archive without samples
  MaxBytes,     \* 2 * sizeof(Message), the size of a message of the queue
  MaxSamples    \* bound: the samples the primary takes

ASSUME SyncAssumption ==
  /\ Object = {"sender", "receiver"}
  /\ SampleSize \in Nat \ {0} /\ Segments \in Nat
  /\ FreshSegment \subseteq Int
  /\ Header \in Nat /\ MaxBytes \in Nat /\ MaxSamples \in Nat

VARIABLES
  owner,    \* what the owner of each object does with it
  taken,    \* the number of the primary's last sample
  cache,    \* _cacheList of the sender
  tstate,   \* _state of the sender
  tpc,      \* where its thread is in a round
  segment,  \* _syncSegment
  tconn,    \* its _pMQ is connected
  msg,      \* the copy of the list that is to be sent
  rstate,   \* _state of the receiver
  rpc,      \* where its thread is in a round
  rconn,    \* its _pMQ is connected
  rx        \* _cacheRxValues

sensor == <<owner, taken, cache>>
sender == <<tstate, tpc, segment, tconn>>
receiver == <<rstate, rpc, rconn, rx>>
vars == <<threads, sensor, sender, msg, receiver, exists, queue>>

(* The list _cacheSample leaves has one sample less than sample_size.      *)
Kept == SampleSize - 1

(* A sample: its number, 0 when it is none the sensor took, and whether it *)
(* has two digits.                                                         *)
Sample == [n : 0..MaxSamples, long : BOOLEAN]
Garbled == [n |-> 0, long |-> TRUE]
List == {<<>>} \cup [1..Kept -> Sample]

SenderState == {"INIT", "JOINING_MQ", "IDLE", "SENDING", "SHUTDOWN"}
ReceiverState == {"INIT", "CREATING_MQ", "LISTENING", "CHECK_VALUES", "SHUTDOWN"}

Init == /\ ThreadInit /\ owner = [o \in Object |-> "using"]
        /\ taken = 0 /\ cache = <<>> /\ msg = <<>>
        /\ tstate = "INIT" /\ tpc = "run" /\ tconn = FALSE
        /\ segment \in FreshSegment
        /\ rstate = "INIT" /\ rpc = "run" /\ rconn = FALSE /\ rx = <<>>
        /\ exists = FALSE /\ queue = <<>>

Running(o) == life[o] = "running"
Copying == Running("sender") /\ tpc = "copying"
-------------------------------------------------------------------------------
(* The sensors.  _init starts what is not started, after every death.      *)
StartObject(o) == /\ owner[o] = "using" /\ ~started(o) /\ Start(o)
                  /\ UNCHANGED <<sensor, sender, msg, receiver, exists, queue>>

(* A list another thread assigns to while it is copied: any of its places  *)
(* may be seen before or after the assignment, which copies place by place *)
(* what fits.  The rest of the new list, all of it when the old one was    *)
(* empty, is built apart and then linked in by one pointer (libstdc++).    *)
Torn(old, new) ==
  IF DOMAIN old = DOMAIN new
  THEN {[i \in DOMAIN old |-> IF i \in I THEN new[i] ELSE old[i]] : I \in SUBSET DOMAIN old}
  ELSE {old, new}

(* cacheValues, called while the sender's thread may copy the list.        *)
CacheValues(list) == /\ cache' = list
                     /\ IF Copying THEN msg' \in Torn(msg, list) ELSE UNCHANGED msg

Sensing == owner["sender"] = "using" /\ started("sender")

(* _prefill caches a full list.                                            *)
Prefill == /\ Sensing /\ taken = 0 /\ Kept <= MaxSamples
           /\ taken' = Kept
           /\ \E long \in [1..Kept -> BOOLEAN] :
                CacheValues([i \in 1..Kept |-> [n |-> i, long |-> long[i]]])
           /\ UNCHANGED <<threads, owner, sender, receiver, exists, queue>>

(* _measure pushes a sample back, pops the first and caches the list.      *)
Measure == /\ Sensing /\ taken >= Kept /\ taken < MaxSamples
           /\ taken' = taken + 1
           /\ \E long \in BOOLEAN :
                CacheValues([i \in 1..Kept |-> IF i < Kept THEN cache[i + 1]
                                               ELSE [n |-> taken + 1, long |-> long]])
           /\ UNCHANGED <<threads, owner, sender, receiver, exists, queue>>

(* The destructors disconnect the queue and only then end the thread.      *)
Disconnect(o) == /\ owner[o] = "using" /\ owner' = [owner EXCEPT ![o] = "leaving"]
                 /\ tconn' = (tconn /\ o # "sender") /\ rconn' = (rconn /\ o # "receiver")
                 /\ UNCHANGED <<threads, taken, cache, tstate, tpc, segment, msg, rstate, rpc,
                                rx, exists, queue>>

Asks(o) == /\ owner[o] = "leaving" /\ owner' = [owner EXCEPT ![o] = "ending"]
           /\ EndAsks(o)
           /\ UNCHANGED <<taken, cache, sender, msg, receiver, exists, queue>>

Joins(o) == /\ owner[o] = "ending" /\ owner' = [owner EXCEPT ![o] = "gone"]
            /\ EndJoins(o)
            /\ UNCHANGED <<taken, cache, sender, msg, receiver, exists, queue>>
-------------------------------------------------------------------------------
(* The sender's thread.  A round: the handler of the state, then the test  *)
(* of the flag.                                                            *)
TxAt(state) == Running("sender") /\ tpc = "run" /\ tstate = state
TxGoes(pc, state) == tpc' = pc /\ tstate' = state

TxInit == /\ TxAt("INIT") /\ TxGoes("test", "JOINING_MQ")
          /\ UNCHANGED <<threads, sensor, segment, tconn, msg, receiver, exists, queue>>

TxJoin == /\ TxAt("JOINING_MQ")
          /\ TxGoes("test", IF exists THEN "IDLE" ELSE tstate)
          /\ tconn' = exists
          /\ UNCHANGED <<threads, sensor, segment, msg, receiver, exists, queue>>

(* Mutant: the segments are not counted anew after a message.              *)
SegmentsGoOn == /\ TxAt("IDLE") /\ segment' = segment + 1
                /\ TxGoes("test", IF segment >= Segments THEN "SENDING" ELSE "IDLE")
                /\ UNCHANGED <<threads, sensor, tconn, msg, receiver, exists, queue>>

TxIdle == /\ TxAt("IDLE")
          /\ IF segment >= Segments
             THEN TxGoes("test", "SENDING") /\ segment' = 0
             ELSE TxGoes("test", "IDLE") /\ segment' = segment + 1
          /\ UNCHANGED <<threads, sensor, tconn, msg, receiver, exists, queue>>

(* _sendSync copies the list into the message ...                          *)
TxCopy == /\ TxAt("SENDING") /\ TxGoes("copying", "SENDING") /\ msg' = cache
          /\ UNCHANGED <<threads, sensor, segment, tconn, receiver, exists, queue>>

(* The text archive: a space and one or two digits for every sample.       *)
Bytes(list) ==
  Header + 2 * Len(list) + Cardinality({i \in DOMAIN list : list[i].long})

(* ... and sends its archive.  Whether it was sent makes no difference.    *)
TxSend == /\ Copying /\ tconn /\ Bytes(msg) <= MaxBytes
          /\ TxGoes("test", "IDLE")
          /\ SendMessage(msg) \/ SendTimesOut
          /\ UNCHANGED <<threads, sensor, segment, tconn, msg, receiver>>

(* timed_send throws when the archive is longer than a message may be: the *)
(* thread ends and the state stays.                                        *)
TxThrows == /\ Copying /\ tconn /\ Bytes(msg) > MaxBytes
            /\ Returns("sender")
            /\ UNCHANGED <<sensor, sender, msg, receiver, exists, queue>>

(* The destructor has disconnected the queue.                              *)
TxCrashes == /\ Copying /\ ~tconn /\ Crashes("sender")
             /\ UNCHANGED <<sensor, sender, msg, receiver, exists, queue>>

TxTest == /\ Running("sender") /\ tpc = "test"
          /\ IF "sender" \in shutdown
             THEN Returns("sender") /\ TxGoes("test", "SHUTDOWN")
             ELSE TxGoes("run", tstate) /\ UNCHANGED threads
          /\ UNCHANGED <<sensor, segment, tconn, msg, receiver, exists, queue>>

TxThread == \/ TxInit \/ TxJoin \/ TxIdle \/ TxCopy \/ TxSend
            \/ TxThrows \/ TxCrashes \/ TxTest
-------------------------------------------------------------------------------
(* The receiver's thread.                                                  *)
RxAt(state) == Running("receiver") /\ rpc = "run" /\ rstate = state
RxGoes(pc, state) == rpc' = pc /\ rstate' = state

RxInit == /\ RxAt("INIT") /\ RxGoes("test", "CREATING_MQ")
          /\ UNCHANGED <<threads, sensor, sender, msg, rconn, rx, exists, queue>>

(* _createMQ; the programs have removed the queue of an earlier run.       *)
RxCreate == /\ RxAt("CREATING_MQ") /\ RxGoes("test", "LISTENING")
            /\ Connect /\ rconn' = TRUE
            /\ UNCHANGED <<threads, sensor, sender, msg, rx>>

(* recvMessage reads an archive out of the whole buffer, past the end of a *)
(* shorter one: digits found there are taken for more of the last number.  *)
Misread(list) == Bytes(list) < MaxBytes
Read(list) == {list} \cup IF Misread(list) /\ list # <<>>
                          THEN {[list EXCEPT ![Kept] = Garbled]} ELSE {}

(* Mutant: the newest message is received first.                           *)
NewestFirst == /\ RxAt("LISTENING") /\ rconn /\ queue # <<>>
               /\ queue' = SubSeq(queue, 1, Len(queue) - 1) /\ rx' = queue[Len(queue)]
               /\ UNCHANGED <<threads, sensor, sender, msg, rstate, rpc, rconn, exists>>

(* _listen hands on one list after the other (RxSignal), ...               *)
RxReceive == /\ RxAt("LISTENING") /\ rconn /\ TakeMessage
             /\ rx' \in Read(Head(queue))
             /\ UNCHANGED <<threads, sensor, sender, msg, rstate, rpc, rconn>>

(* ... ends with its thread when the number has too many digits, ...       *)
RxThrows == /\ RxAt("LISTENING") /\ rconn /\ TakeMessage
            /\ Misread(Head(queue)) /\ Returns("receiver")
            /\ UNCHANGED <<sensor, sender, msg, receiver>>

(* ... and goes on when there is no more.                                  *)
RxListened == /\ RxAt("LISTENING") /\ rconn /\ NoMessage /\ RxGoes("test", "CHECK_VALUES")
              /\ UNCHANGED <<threads, sensor, sender, msg, rconn, rx>>

RxCrashes == /\ RxAt("LISTENING") /\ ~rconn /\ Crashes("receiver")
             /\ UNCHANGED <<sensor, sender, msg, receiver, exists, queue>>

(* Mutant: the receiver goes on checking.                                  *)
OnlyChecks == /\ RxAt("CHECK_VALUES") /\ RxGoes("test", "CHECK_VALUES")
              /\ UNCHANGED <<threads, sensor, sender, msg, rconn, rx, exists, queue>>

RxCheck == /\ RxAt("CHECK_VALUES") /\ RxGoes("test", "LISTENING")
           /\ UNCHANGED <<threads, sensor, sender, msg, rconn, rx, exists, queue>>

(* Mutant: the receiver's loop does not look at the flag.                  *)
GoesOn == /\ Running("receiver") /\ rpc = "test"
          /\ RxGoes("run", rstate) /\ UNCHANGED threads
          /\ UNCHANGED <<sensor, sender, msg, rconn, rx, exists, queue>>

RxTest == /\ Running("receiver") /\ rpc = "test"
          /\ IF "receiver" \in shutdown
             THEN Returns("receiver") /\ RxGoes("test", "SHUTDOWN")
             ELSE RxGoes("run", rstate) /\ UNCHANGED threads
          /\ UNCHANGED <<sensor, sender, msg, rconn, rx, exists, queue>>

RxThread == \/ RxInit \/ RxCreate \/ RxReceive \/ RxThrows \/ RxListened
            \/ RxCrashes \/ RxCheck \/ RxTest
-------------------------------------------------------------------------------
Destructor(o) == Disconnect(o) \/ Asks(o) \/ Joins(o)

Next == \/ Prefill \/ Measure \/ TxThread \/ RxThread
        \/ \E o \in Object : StartObject(o) \/ Destructor(o)

Spec == Init /\ [][Next]_vars

(* The threads run, the sensors start them, and a destructor goes on.  The *)
(* receiver does not sleep while it drains the queue: it finds a queue     *)
(* empty that is empty again and again.                                    *)
FairSpec == /\ Spec /\ WF_vars(TxThread) /\ WF_vars(RxThread) /\ SF_vars(RxListened)
            /\ \A o \in Object : WF_vars(StartObject(o)) /\ WF_vars(Asks(o) \/ Joins(o))
-------------------------------------------------------------------------------
Owner == {"using", "leaving", "ending", "gone"}

(* The types; the sender never counts beyond its segments.                 *)
TypeOK == /\ handle \subseteq Object /\ shutdown \subseteq Object
          /\ life \in [Object -> Life] /\ owner \in [Object -> Owner]
          /\ taken \in 0..MaxSamples /\ cache \in List /\ msg \in List
          /\ tstate \in SenderState /\ tpc \in {"run", "copying", "test"}
          /\ segment \in Int /\ (segment <= Segments \/ segment \in FreshSegment) /\ tconn \in BOOLEAN
          /\ rstate \in ReceiverState /\ rpc \in {"run", "test"}
          /\ rconn \in BOOLEAN /\ rx \in List
          /\ exists \in BOOLEAN /\ queue \in Seq(List) /\ Len(queue) <= MaxMsgs

(* Samples travel in the order they were taken, place by place, although   *)
(* the list is assigned to while it is copied: what the secondary got last *)
(* is no newer than what waits in the queue, which is in order and no      *)
(* newer than the copy being sent, nor that than the sensor's own list.    *)
NoNewer(a, b) == \A i \in DOMAIN a \cap DOMAIN b : a[i].n <= b[i].n
InOrder ==
  /\ NoNewer(rx, cache)
  /\ \A i \in DOMAIN queue :
       /\ NoNewer(rx, queue[i]) /\ NoNewer(queue[i], cache)
       /\ \A j \in 1..i : NoNewer(queue[j], queue[i])
  /\ Copying =>
       /\ NoNewer(rx, msg) /\ NoNewer(msg, cache)
       /\ \A i \in DOMAIN queue : NoNewer(queue[i], msg)

(* No process dies of a null queue or of a thread started twice, as long   *)
(* as the objects live: only a destructor, which disconnects the queue     *)
(* under the running thread, can crash one.                                *)
CrashOnlyInDestructor == \A o \in Object : life[o] = "crashed" => owner[o] # "using"

(* A thread that has ended without being asked to, by an exception that    *)
(* only an archive too long to send or misread at its end can cause, or an *)
(* object that is being destroyed.                                         *)
Lost == \E o \in Object : life[o] = "returned" \/ owner[o] # "using"

(* The secondary becomes synced up with the primary: each sample gets      *)
(* there, or a newer one, or it arrives garbled, unless a thread is lost.  *)
Synced(k) == rx # <<>> /\ (rx[Kept].n >= k \/ rx[Kept] = Garbled)
SamplesArrive == \A k \in Kept..MaxSamples : (taken = k) ~> (Synced(k) \/ Lost)

(* A destructor returns, unless it has crashed the thread it waits for;    *)
(* that of the receiver does if the sender, which sleeps two seconds from  *)
(* one message to the next, lets the queue run empty.                      *)
Ends(o) == (owner[o] = "ending") ~> (owner[o] = "gone" \/ life[o] = "crashed")
EndReturns == Ends("sender") /\ ([]<>(queue = <<>>) => Ends("receiver"))
===============================================================================
