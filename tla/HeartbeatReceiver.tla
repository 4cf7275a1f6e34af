--------------------------- MODULE HeartbeatReceiver ---------------------------
(***************************************************************************)
(* Heartbeat::Receiver: the thread of the fault monitor that owns the      *)
(* queue, records the last beat of every sender and decides which of them  *)
(* are dead.  A sender has to be found expired by two checks before it is  *)
(* dead, and is alive again as soon as a check finds a fresh beat.         *)
(***************************************************************************)
EXTENDS HeartbeatSender

CONSTANTS
  CreateSleep, \* ticks after _init, and before the first round of listening
  CreateRetry, \* ticks between two attempts to create the queue
  ListenSleep  \* ticks between listening and checking

ASSUME ReceiverAssumption == {CreateSleep, CreateRetry, ListenSleep} \subseteq Nat

ReceiverState == {"INIT", "CREATING_MQ", "LISTENING", "CHECK_PULSES", "SHUTTING_DOWN", "SHUTDOWN"}

VARIABLES
  rstate,          \* _state
  rpc,             \* where the thread is in its loop
  rsleep,          \* ticks until it goes on
  rstop,           \* _shutdown
  rconnected,      \* _pMQ is connected
  known,           \* the keys of _lastBeats
  age,             \* the ages of its values
  heard,           \* the senders a beat of which has been recorded
  todo,            \* the senders this round of _checkPulses has not looked at
  potentiallyDead, \* _potentiallyDeadIds
  dead             \* _deadIds

receiver == <<rstate, rpc, rsleep, rstop, rconnected, known, age, heard, todo, potentiallyDead, dead>>
records == <<known, age, heard, potentiallyDead, dead>>

ReceiverInit == /\ rstate = "INIT" /\ rpc = "off" /\ rsleep = 0
                /\ rstop = FALSE /\ rconnected = FALSE
                /\ known = {} /\ heard = {} /\ age = [s \in Sender |-> Old]
                /\ todo = {} /\ potentiallyDead = {} /\ dead = {}

RRunning == rpc \notin {"off", "stopped", "crashed"}

RGoOn(at, pc) == rpc = at /\ rpc' = pc /\ UNCHANGED rsleep
RSleep(at, pc, ticks) == rpc = at /\ rpc' = pc /\ rsleep' = ticks
-------------------------------------------------------------------------------
(* The top of the loop.                                                    *)
RHandler == [INIT |-> "init", CREATING_MQ |-> "create",
             LISTENING |-> "listen", CHECK_PULSES |-> "pulses"]

RWake == /\ rsleep <= 0
         /\ rpc = "wake" => ~rstop
         /\ \E pc \in {"first", "wake"} : RGoOn(pc, RHandler[rstate])
         /\ UNCHANGED <<rstate, rstop, rconnected, records, todo, exists, queue>>

RStop == /\ rsleep <= 0 /\ rstop
         /\ RSleep("wake", "stopped", 0) /\ rstate' = "SHUTDOWN"
         /\ UNCHANGED <<rstop, rconnected, records, todo, exists, queue>>

(* Mutant: _init does not wait for main to add the senders.                *)
InitAtOnce == /\ RSleep("init", "wake", 0) /\ rstate' = "CREATING_MQ"
              /\ UNCHANGED <<rstop, rconnected, records, todo, exists, queue>>

(* _init.                                                                  *)
RInit == /\ RSleep("init", "wake", CreateSleep) /\ rstate' = "CREATING_MQ"
         /\ UNCHANGED <<rstop, rconnected, records, todo, exists, queue>>

(* _createMQ fails as long as an older queue of that name is there.        *)
RCreate == /\ \/ /\ Connect /\ rconnected' = TRUE /\ rstate' = "LISTENING"
                 /\ RSleep("create", "wake", CreateSleep)
              \/ /\ ConnectFails /\ UNCHANGED <<rstate, rconnected>>
                 /\ RSleep("create", "wake", CreateRetry)
           /\ UNCHANGED <<rstop, records, todo>>

(* Mutant: the newest message is received first.                           *)
NewestFirst == /\ RGoOn("listen", "listen") /\ rconnected
               /\ queue # <<>> /\ queue' = SubSeq(queue, 1, Len(queue) - 1)
               /\ LET m == queue[Len(queue)] IN
                    /\ known' = known \cup {m.from} /\ heard' = heard \cup {m.from}
                    /\ age' = [age EXCEPT ![m.from] = m.age]
               /\ UNCHANGED <<rstate, rstop, rconnected, potentiallyDead, dead, todo, exists>>

(* _listen records one beat after the other until the queue is empty.      *)
RRecord == /\ RGoOn("listen", "listen") /\ rconnected
           /\ TakeMessage
           /\ LET m == Head(queue) IN
                /\ known' = known \cup {m.from} /\ heard' = heard \cup {m.from}
                /\ age' = [age EXCEPT ![m.from] = m.age]
           /\ UNCHANGED <<rstate, rstop, rconnected, potentiallyDead, dead, todo>>

(* Mutant: the round after listening listens again.                        *)
ListensOnly == /\ RSleep("listen", "wake", ListenSleep) /\ rconnected
               /\ NoMessage
               /\ UNCHANGED <<rstate, rstop, rconnected, records, todo>>

RListened == /\ RSleep("listen", "wake", ListenSleep) /\ rconnected
             /\ NoMessage /\ rstate' = "CHECK_PULSES"
             /\ UNCHANGED <<rstop, rconnected, records, todo>>

RCrash == /\ RSleep("listen", "crashed", 0) /\ ~rconnected
          /\ UNCHANGED <<rstate, rstop, rconnected, records, todo, exists, queue>>

(* _checkPulses looks at the senders one by one.                           *)
RPulses == /\ RGoOn("pulses", "check") /\ todo' = known
           /\ UNCHANGED <<rstate, rstop, rconnected, records, exists, queue>>

IsExpired(s) == age[s] > Expired

(* Mutant: the first check that finds a sender expired declares it dead.   *)
DeadAtOnce(s) ==
  /\ s \in todo /\ todo' = todo \ {s} /\ RGoOn("check", "check")
  /\ IF IsExpired(s) THEN dead' = dead \cup {s} /\ UNCHANGED potentiallyDead
                     ELSE dead' = dead \ {s} /\ potentiallyDead' = potentiallyDead \ {s}
  /\ UNCHANGED <<rstate, rstop, rconnected, known, age, heard, exists, queue>>

(* Mutant: a sender that beats again is still among the dead.              *)
StaysDead(s) ==
  /\ s \in todo /\ todo' = todo \ {s} /\ RGoOn("check", "check")
  /\ IF IsExpired(s)
     THEN IF s \in potentiallyDead
          THEN dead' = dead \cup {s} /\ UNCHANGED potentiallyDead
          ELSE potentiallyDead' = potentiallyDead \cup {s} /\ UNCHANGED dead
     ELSE potentiallyDead' = potentiallyDead \ {s} /\ UNCHANGED dead
  /\ UNCHANGED <<rstate, rstop, rconnected, known, age, heard, exists, queue>>

(* Expired for the first time, expired again, or beating again: only the   *)
(* dead are taken off the list of the potentially dead.                    *)
RCheck(s) ==
  /\ s \in todo /\ todo' = todo \ {s} /\ RGoOn("check", "check")
  /\ \/ /\ IsExpired(s) /\ s \notin potentiallyDead
        /\ potentiallyDead' = potentiallyDead \cup {s} /\ UNCHANGED dead
     \/ /\ IsExpired(s) /\ s \in potentiallyDead
        /\ dead' = dead \cup {s} /\ UNCHANGED potentiallyDead
     \/ /\ ~IsExpired(s) /\ s \in dead
        /\ potentiallyDead' = potentiallyDead \ {s} /\ dead' = dead \ {s}
     \/ /\ ~IsExpired(s) /\ s \notin dead
        /\ UNCHANGED <<potentiallyDead, dead>>
  /\ UNCHANGED <<rstate, rstop, rconnected, known, age, heard, exists, queue>>

(* The loop skips the sleep _checkPulses returns.                          *)
RChecked == /\ todo = {} /\ RSleep("check", "wake", 0) /\ rstate' = "LISTENING"
            /\ UNCHANGED <<rstop, rconnected, records, todo, exists, queue>>

ReceiverStep == \/ RWake \/ RStop \/ RInit \/ RCreate \/ RRecord \/ RListened
                \/ RCrash \/ RPulses \/ (\E s \in Sender : RCheck(s)) \/ RChecked
-------------------------------------------------------------------------------
(* The thread of the owner.                                                *)
StartReceiver == /\ RSleep("off", "first", 0)
                 /\ UNCHANGED <<rstate, rstop, rconnected, records, todo, exists, queue>>

(* addSenderId gives a sender not yet known a beat in 1970.  It takes no   *)
(* lock: owners call it before the thread has a queue to listen to.        *)
AddSenderId(s) == /\ rstate \in {"INIT", "CREATING_MQ"} /\ s \notin known
                  /\ known' = known \cup {s} /\ age' = [age EXCEPT ![s] = Old]
                  /\ UNCHANGED <<rstate, rpc, rsleep, rstop, rconnected, heard, todo,
                                 potentiallyDead, dead, exists, queue>>

EndReceiver == /\ "end" \in MayDo \/ (~rconnected /\ rstate \in {"LISTENING", "CHECK_PULSES"})
               /\ RRunning /\ ~rstop /\ rstop' = TRUE
               /\ UNCHANGED <<rstate, rpc, rsleep, rconnected, records, todo, exists, queue>>

(* ~Receiver disconnects the queue, and calls end() only then.             *)
DisconnectReceiver == /\ "destroy" \in MayDo /\ RRunning /\ rconnected /\ ~rstop
                      /\ rconnected' = FALSE
                      /\ UNCHANGED <<rstate, rpc, rsleep, rstop, records, todo, exists, queue>>

ReceiverOwner == \/ StartReceiver \/ (\E s \in Sender : AddSenderId(s))
                 \/ EndReceiver \/ DisconnectReceiver
===============================================================================
