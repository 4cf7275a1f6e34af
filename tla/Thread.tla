-------------------------------- MODULE Thread --------------------------------
(***************************************************************************)
(* Core::Thread, the base of every loop of the system: an object that owns *)
(* at most one std::thread and a flag that asks it to stop.  What the      *)
(* thread does is another module's; here are its creation and its ends.    *)
(***************************************************************************)
CONSTANT Object   \* the objects derived from Core::Thread

VARIABLES
  handle,   \* the objects whose _pThread is set
  shutdown, \* the objects whose _shutdown is set
  life      \* what has become of the thread of each object

threads == <<handle, shutdown, life>>

Life == {"none", "running", "returned", "crashed"}

ThreadInit == handle = {} /\ shutdown = {} /\ life = [o \in Object |-> "none"]

Becomes(o, l) == life' = [life EXCEPT ![o] = l]

(* start().  Replacing the handle of a thread that was not joined destroys *)
(* a joinable std::thread, which terminates the process.                   *)
Start(o) == /\ handle' = handle \cup {o} /\ shutdown' = shutdown \ {o}
            /\ Becomes(o, IF o \in handle THEN "crashed" ELSE "running")

(* Mutant: started() asks for a thread that runs, not for its handle.      *)
RunningNow(o) == life[o] = "running"

started(o) == o \in handle

(* end() raises the flag ...                                               *)
EndAsks(o) == shutdown' = shutdown \cup {o} /\ UNCHANGED <<handle, life>>

(* ... and joins the thread, if there is one.                              *)
EndJoins(o) == /\ o \in handle => life[o] = "returned"
               /\ handle' = handle \ {o} /\ Becomes(o, "none")
               /\ UNCHANGED shutdown

(* _run returns, or _runRunner catches what it throws: the handle and the  *)
(* flag stay as they are.                                                  *)
Returns(o) == Becomes(o, "returned") /\ UNCHANGED <<handle, shutdown>>

(* Undefined behaviour in _run is not caught.                              *)
Crashes(o) == Becomes(o, "crashed") /\ UNCHANGED <<handle, shutdown>>
===============================================================================
