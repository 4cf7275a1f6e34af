---------------------------- MODULE HeartbeatSender ----------------------------
(***************************************************************************)
(* Heartbeat::Sender: a thread in every sensor process that joins the      *)
(* queue of the receiver and sends a beat every so many short sleeps.  Its *)
(* owner pauses and resumes the beat from another thread by overwriting    *)
(* the state the loop reads, acts upon and writes in three separate        *)
(* critical sections.  A sleep is a number of ticks; module Heartbeat lets *)
(* time pass.                                                              *)
(***************************************************************************)
EXTENDS MessageQueue

CONSTANTS
  Sender,       \* the sensors, each with one sender
  Segments,     \* NUM_BEAT_SEGMENTS
  SegmentSleep, \* sendingInterval / NUM_BEAT_SEGMENTS, in ticks
  JoinRetry,    \* ticks between two attempts to join
  FirstBeat,    \* ticks between joining and the first segment
  Expired,      \* expiredInterval of the receiver, in ticks
  MayDo         \* what the owners of the objects do beside starting them

ASSUME SenderAssumption ==
  /\ {Segments, SegmentSleep, JoinRetry, FirstBeat, Expired} \subseteq Nat
  /\ MayDo \subseteq {"pause", "resume", "end", "destroy"}

(* Ages, in ticks: all those the receiver takes for dead are one.          *)
Old == Expired + 1
Age == 0..Old
Older(a) == IF a < Old THEN a + 1 ELSE Old

SenderState == {"INIT", "JOINING_MQ", "BEATING", "SEND_FAILED", "SHUTTING_DOWN", "SHUTDOWN"}

VARIABLES
  sstate,     \* _state
  spc,        \* where the thread is in its loop
  ssleep,     \* ticks until the thread goes on; negative when it is late
  segment,    \* _beatSegment
  sstop,      \* _shutdown
  sconnected, \* _pMQ is connected
  beat,       \* age of the beat being sent
  lastSent,   \* age of the last beat sent
  want        \* what the owner asked for last: "beat", "pause" or "gone"

sender == <<sstate, spc, ssleep, segment, sstop, sconnected, beat, lastSent, want>>

SenderInit == /\ sstate = [s \in Sender |-> "INIT"]
              /\ spc = [s \in Sender |-> "off"]
              /\ ssleep = [s \in Sender |-> 0]
              /\ segment = [s \in Sender |-> 0]
              /\ sstop = [s \in Sender |-> FALSE]
              /\ sconnected = [s \in Sender |-> FALSE]
              /\ beat = [s \in Sender |-> Old]
              /\ lastSent = [s \in Sender |-> Old]
              /\ want = [s \in Sender |-> "beat"]

Running(s) == spc[s] \notin {"off", "stopped", "crashed"}

(* The thread goes on at once, as late as it is, or after a sleep.         *)
Go(s, at, pc) == spc[s] = at /\ spc' = [spc EXCEPT ![s] = pc]
GoOn(s, at, pc) == Go(s, at, pc) /\ UNCHANGED ssleep
Sleep(s, at, pc, ticks) == Go(s, at, pc) /\ ssleep' = [ssleep EXCEPT ![s] = ticks]

SetState(s, state) == sstate' = [sstate EXCEPT ![s] = state]
-------------------------------------------------------------------------------
(* The top of the loop: the shutdown flag, but for the first round, and    *)
(* the state.  SHUTTING_DOWN goes round without a sleep.                   *)
Handler == [INIT |-> "init", JOINING_MQ |-> "join", BEATING |-> "beat",
            SEND_FAILED |-> "failed"]

(* Mutant: the case of SHUTTING_DOWN falls into that of BEATING.           *)
PauseFallsThrough(s) ==
  /\ ssleep[s] <= 0
  /\ spc[s] = "wake" => ~sstop[s]
  /\ \E pc \in {"first", "wake"} :
       GoOn(s, pc, IF sstate[s] = "SHUTTING_DOWN" THEN "beat" ELSE Handler[sstate[s]])
  /\ UNCHANGED <<sstate, segment, sstop, sconnected, beat, lastSent, want, exists, queue>>

SWake(s) == /\ ssleep[s] <= 0
            /\ spc[s] = "wake" => ~sstop[s]
            /\ \E pc \in {"first", "wake"} :
                 IF sstate[s] = "SHUTTING_DOWN" THEN Sleep(s, pc, "wake", 0)
                                                ELSE GoOn(s, pc, Handler[sstate[s]])
            /\ UNCHANGED <<sstate, segment, sstop, sconnected, beat, lastSent, want, exists, queue>>

SStop(s) == /\ ssleep[s] <= 0 /\ sstop[s]
            /\ Sleep(s, "wake", "stopped", 0) /\ SetState(s, "SHUTDOWN")
            /\ UNCHANGED <<segment, sstop, sconnected, beat, lastSent, want, exists, queue>>

(* _init.                                                                  *)
SInit(s) == /\ Sleep(s, "init", "wake", 0) /\ SetState(s, "JOINING_MQ")
            /\ UNCHANGED <<segment, sstop, sconnected, beat, lastSent, want, exists, queue>>

(* _joinMQ opens the queue of the receiver or tries again later ...        *)
SJoin(s) == /\ IF exists
               THEN /\ sconnected' = [sconnected EXCEPT ![s] = TRUE]
                    /\ GoOn(s, "join", "joined")
               ELSE Sleep(s, "join", "wake", JoinRetry) /\ UNCHANGED sconnected
            /\ UNCHANGED <<sstate, segment, sstop, beat, lastSent, want, exists, queue>>

(* ... and only then sets the state, whatever it has become by now.        *)
SJoined(s) == /\ Sleep(s, "joined", "wake", FirstBeat) /\ SetState(s, "BEATING")
              /\ UNCHANGED <<segment, sstop, sconnected, beat, lastSent, want, exists, queue>>

(* Mutant: the segments are not counted anew after a beat.                 *)
SegmentsGoOn(s) ==
  /\ segment' = [segment EXCEPT ![s] = @ + 1]
  /\ IF segment[s] >= Segments
     THEN GoOn(s, "beat", "send") /\ beat' = [beat EXCEPT ![s] = 0]
     ELSE Sleep(s, "beat", "wake", SegmentSleep) /\ UNCHANGED beat
  /\ UNCHANGED <<sstate, sstop, sconnected, lastSent, want, exists, queue>>

(* Mutant: _beat counts one segment more.                                  *)
OneSegmentMore(s) ==
  /\ IF segment[s] > Segments
     THEN /\ GoOn(s, "beat", "send")
          /\ segment' = [segment EXCEPT ![s] = 0] /\ beat' = [beat EXCEPT ![s] = 0]
     ELSE /\ Sleep(s, "beat", "wake", SegmentSleep)
          /\ segment' = [segment EXCEPT ![s] = @ + 1] /\ UNCHANGED beat
  /\ UNCHANGED <<sstate, sstop, sconnected, lastSent, want, exists, queue>>

(* _beat: a sleep, or the beat, which carries the time it is made at.      *)
SBeat(s) ==
  /\ IF segment[s] >= Segments
     THEN /\ GoOn(s, "beat", "send")
          /\ segment' = [segment EXCEPT ![s] = 0] /\ beat' = [beat EXCEPT ![s] = 0]
     ELSE /\ Sleep(s, "beat", "wake", SegmentSleep)
          /\ segment' = [segment EXCEPT ![s] = @ + 1] /\ UNCHANGED beat
  /\ UNCHANGED <<sstate, sstop, sconnected, lastSent, want, exists, queue>>

Sends(s) == /\ sconnected[s] /\ SendMessage([from |-> s, age |-> beat[s]])
            /\ lastSent' = [lastSent EXCEPT ![s] = beat[s]]

(* The sendMessage of _beat: sent, refused because the queue stayed full,  *)
(* or a null pointer dereferenced after the destructor disconnected.       *)
SSend(s) == /\ \/ Sends(s) /\ Sleep(s, "send", "wake", SegmentSleep)
               \/ /\ sconnected[s] /\ SendTimesOut /\ UNCHANGED lastSent
                  /\ GoOn(s, "send", "refused")
            /\ UNCHANGED <<sstate, segment, sstop, sconnected, beat, want>>

SRefused(s) == /\ Sleep(s, "refused", "wake", 0) /\ SetState(s, "SEND_FAILED")
               /\ UNCHANGED <<segment, sstop, sconnected, beat, lastSent, want, exists, queue>>

(* _beatSendFailed: a beat of now.  The loop skips the sleep it returns.   *)
SFailed(s) == /\ GoOn(s, "failed", "again") /\ beat' = [beat EXCEPT ![s] = 0]
              /\ UNCHANGED <<sstate, segment, sstop, sconnected, lastSent, want, exists, queue>>

SAgain(s) == /\ \/ Sends(s) /\ GoOn(s, "again", "sent")
                \/ /\ sconnected[s] /\ SendTimesOut /\ UNCHANGED lastSent
                   /\ Sleep(s, "again", "wake", 0)
             /\ UNCHANGED <<sstate, segment, sstop, sconnected, beat, want>>

SSent(s) == /\ Sleep(s, "sent", "wake", 0) /\ SetState(s, "BEATING")
            /\ UNCHANGED <<segment, sstop, sconnected, beat, lastSent, want, exists, queue>>

SCrash(s) == /\ ~sconnected[s] /\ \E pc \in {"send", "again"} : Sleep(s, pc, "crashed", 0)
             /\ UNCHANGED <<sstate, segment, sstop, sconnected, beat, lastSent, want, exists, queue>>

SenderStep(s) == \/ SWake(s) \/ SStop(s) \/ SInit(s) \/ SJoin(s) \/ SJoined(s) \/ SBeat(s)
                 \/ SSend(s) \/ SRefused(s) \/ SFailed(s) \/ SAgain(s) \/ SSent(s) \/ SCrash(s)
-------------------------------------------------------------------------------
(* The thread of the owner: start, pauseBeat and resumeBeat.               *)
StartSender(s) == /\ Sleep(s, "off", "first", 0)
                  /\ UNCHANGED <<sstate, segment, sstop, sconnected, beat, lastSent, want, exists, queue>>

PauseBeat(s) == /\ "pause" \in MayDo /\ Running(s) /\ ~sstop[s]
                /\ sconnected[s] /\ want[s] = "beat"
                /\ want' = [want EXCEPT ![s] = "pause"] /\ SetState(s, "SHUTTING_DOWN")
                /\ UNCHANGED <<spc, ssleep, segment, sstop, sconnected, beat, lastSent, exists, queue>>

ResumeBeat(s) == /\ "resume" \in MayDo /\ Running(s) /\ ~sstop[s] /\ want[s] = "pause"
                 /\ want' = [want EXCEPT ![s] = "beat"] /\ SetState(s, "BEATING")
                 /\ UNCHANGED <<spc, ssleep, segment, sstop, sconnected, beat, lastSent, exists, queue>>

(* end() raises the flag and waits for the thread to stop.                 *)
EndSender(s) == /\ "end" \in MayDo \/ want[s] = "gone"
                /\ Running(s) /\ ~sstop[s]
                /\ sstop' = [sstop EXCEPT ![s] = TRUE]
                /\ UNCHANGED <<sstate, spc, ssleep, segment, sconnected, beat, lastSent, want, exists, queue>>

(* ~Sender disconnects the queue, and calls end() only then.               *)
DisconnectSender(s) ==
  /\ "destroy" \in MayDo /\ Running(s) /\ want[s] # "gone" /\ ~sstop[s]
  /\ sconnected' = [sconnected EXCEPT ![s] = FALSE] /\ want' = [want EXCEPT ![s] = "gone"]
  /\ UNCHANGED <<sstate, spc, ssleep, segment, sstop, beat, lastSent, exists, queue>>

Owner(s) == \/ StartSender(s) \/ PauseBeat(s) \/ ResumeBeat(s)
            \/ EndSender(s) \/ DisconnectSender(s)
===============================================================================
