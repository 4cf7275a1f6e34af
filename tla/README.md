# A TLA+ model of the SWEN-755 assignments

The repository holds four assignments on software architecture and the library
they share. Its core is small concurrent C++: threads that run a state machine
each, Boost message queues between processes, and a thread pool. The modules
here model that core, TLC checks them on small instances, and TLAPS proves the
most important invariants for every instance. `PROJECT.json` lists the runs,
the lines every definition stands for, the findings and the hazards.

## The system

| Component | State | Operations | Talks to |
|---|---|---|---|
| `Core::MessageQueue` (common) | a named queue of at most 100 messages that outlives processes | `connect`, `sendMessage`, `recvMessage`, `timedRecvMessage`, `disconnect` | used by all channels |
| `Core::Thread` (common) | thread pointer, shutdown flag | `start`, `end`, destructor | base of every loop below |
| `Heartbeat::Sender` | `_state`, `_beatSegment`, queue | loop, `pauseBeat`, `resumeBeat` | sends beats to the receiver; told by its sensor |
| `Heartbeat::Receiver` | last beats, potentially dead, dead | loop, `addSenderId`, `deadIds` | signals `sigNewDead` to the fault monitor, in its own thread |
| `FaultHandle::Server` | `_state`, queue | loop, two handlers | receives commands, signals the sensor, answers |
| `FaultHandle::Client` | none | `query` | sends commands through the *same* queue the answers take |
| `Sync::Sender`, `Receiver` | list of samples, `_state`, a counter | loops, `cacheValues` | copies samples from the primary to the secondary sensor, whose `handleRxValues` is called in the receiver's thread |
| `Assignment1::Sensor`, main | `_state`, samples | loop; main's five statements | a sensor owns a heartbeat sender, main the receiver |
| `Assignment2::Sensor` | `_state`, `active`, samples | loop, `handleWakeup`, `handleGetData`, `handleRxValues` | owns a heartbeat sender, a server and a sync sender or receiver |
| `Assignment2::FaultMonitor` | `_state`, two death flags, a counter | loop, `_handleNewDead` | owns a heartbeat receiver and two clients |
| `Assignment3::ThreadPool`, `WorkerThread`, `Scheduler`, `Command` | queues, workers, finished commands, a count | loops, `addCommand`, `getFinishedCommands`, `end` | main is the user |
| `Assignment3` commands, main | sums, printed results | four `execute`, main's loops | main is the user of the pool |
| `Assignment4` users and sessions | a map of users and one of sessions per browser session, the panel on the page | `authEvent` at login and at logout | called by Wt's login object |
| Programs, Wt glue, `firstCmakeProject` | | | |

What is hard to get right, and what correctness means:

- *Heartbeat.* The sender's thread reads its state, acts, and writes its state
  in separate critical sections while the owner overwrites it. Two timers and
  a queue decide whether a sensor is alive. Correct: a sensor that beats is
  never found dead; one that stops is; beats are taken in order.
- *Command channel.* Commands and answers share one queue and carry no
  identity; queries time out, answers come late, either side may take its own
  message. Correct: no command is executed twice, no answer is used twice, the
  queue does not fill up, every query returns.
- *Failover.* The monitor's flag of a death is written by two threads; a
  sensor is woken up by a third thread at any point of its state machine.
  Correct: a death makes the monitor switch, a wake-up starts the sensor, and
  the way back to the primary is taken only when it has been alive long enough.
- *Synchronization.* The primary assigns its list while the sender's thread
  copies it; an archive may be longer than a queue message; the receiver parses
  its whole buffer; destructors disconnect a queue under a running thread.
  Correct: samples arrive in the order they were taken, and arrive; nothing but
  a destructor crashes a thread; destructors return.
- *Assignment1.* A failing sensor ends its heartbeat from another thread, and
  main adds senders to the map of a thread that is already running. Correct:
  failed sensors are found, others are not, the map is filled before it is read.
- *Thread pool.* The pool scans workers whose state they change themselves;
  adding a command writes two fields one after the other. Correct: no command
  is lost or run twice, the count main polls is right, ending terminates; main
  gets every result and prints the right numbers.
- *Users and sessions.* Users are looked up by name and stored by id in one
  map; a logout uses an uninitialized or dangling pointer if a login did not set
  it. Correct: the page shows the panel of whoever is logged in, and the pointer
  is valid.

## Modules

    MessageQueue   (one boost queue: exists, queue)
      FaultHandle    client and server of the command channel
                       implements RemoteQuery and QueryChannel
                       MCFaultHandle; FaultHandleProofs
      HeartbeatSender -> HeartbeatReceiver -> Heartbeat (time)
                                              MCHeartbeat; HeartbeatProofs
        Assignment1  sensors and main over the heartbeat
                       MCAssignment1; Assignment1Proofs
    Thread         (Core::Thread: handle, flag, life)
      Sync           sync sender and receiver over MessageQueue  MCSync; SyncProofs
    ThreadPool     pool, workers, scheduler, user
                     implements TaskPool; MCThreadPool; ThreadPoolProofs
      PoolMain       Assignment3's main, with Commands
                       implements ThreadPool; MCPoolMain; PoolMainProofs
    QueryChannel   what Assignment2 uses of the command channel
      SyncedSensor   Assignment2's sensor
        FaultMonitor   the monitor with two sensors  MCFaultMonitor; FaultMonitorProofs
    AuthApplication  one browser session of Assignment4
                                       MCAuthApplication; AuthProofs

**MessageQueue** is `MessageQueue.hpp`: whether the named queue exists and what
it holds. Creating fails when it exists, opening when it does not; a send to a
full queue and a receive from an empty one end at their deadline. Nobody
removes a queue but the main programs, so a queue of a killed process may be
there at the start.

**FaultHandle** has the server's loop split where other threads can interfere
(reading the state, the handler, the answer, the test of the shutdown flag)
and `query` split into the drain, the send and the receive. `Server::_state` is
not initialized by its constructor, so `FreshState` is what it may hold. A message
taken from the queue may be one whose parsing throws, for the parser reads the whole
buffer, digits left behind a shorter archive included: it ends the server's thread
or that of the client's caller. The sensor data in an answer is left out. `asked`, `handled` and `credited` are
ghosts that number the queries; the code has no such numbers, which is the
point. **RemoteQuery** is what a caller may rely on: a query that succeeds is
matched with one run of the handler of some query of the same kind, used by no
other. It is *not* promised that it was its own query. **QueryChannel** is what
Assignment2 may expect, per sensor: four flags, a wake-up in the queue, one taken by
the server, one handled but not answered, an answer in the queue. A query that asks
has cleared both flags of the queue, one that fails may have taken its command back,
and messages in the queue may be lost to whoever put them there. The mapping
counts a wake-up from the moment the queue was found empty, and an answer only
while a query waits.

**HeartbeatSender**, **HeartbeatReceiver** and **Heartbeat** follow the two
loops handler by handler. A sleep is a number of ticks; `Tick` lets time pass
unless a thread is already `Slack` ticks late, so every schedule with bounded
lateness is covered. A paused sender goes round its loop without a sleep
(`Spinning`): it is never late, and time passes while it does so. Times of beats are ages, cut off where the receiver takes
all of them for dead. A null queue pointer, which the destructors create under
a running thread, crashes the thread that uses it. `want` is a ghost for what
the owner asked for last; `lastSent` and `heard` are ghosts too.

**Assignment1** puts Assignment1's sensors and main in the place of the
heartbeat's arbitrary owners, so that its steps are those of `Heartbeat`.
Whether a measurement is a failure is a choice. `late` is how late main is.

**Thread** is `Core::Thread`: `start` on an object whose thread was never joined
crashes the process, `end` raises the flag and then joins, an exception ends
the loop and leaves handle and flag alone. **Sync** uses two such objects. A
sample is its number and whether it has two digits, because the length of the
archive depends on it: nine two-digit samples outgrow the 64 bytes of a queue
message, `timed_send` throws, and the sender's thread is gone for good, for
`started()` stays true and `_init` does not start it again. `recvMessage` parses
the buffer and not the characters received, so digits left behind a shorter
archive may be read as part of the last number (`Garbled`), or make it overflow,
which ends the receiver's thread. The copy of the list is a step of its own,
and an assignment in between may be seen in part (`Torn`). That is what the
library's list makes of this data race when its stores are seen in order: it copies
place by place what fits and links in the rest at once. Other outcomes of the
race are left out.

**SyncedSensor** is Assignment2's sensor: every handler of its state machine,
with `_init`, `_failure` and `_dead` split where other threads can interfere.
A sample is not a number: whether an error of a hundred percent is measured is
a choice, and only the size of the list is kept. Of the heartbeat it has what a
receiver can tell (`heart`): a sender beats; it has paused with a last beat
still on its way, or silently; or it beats again without having been heard. A
pause may also change nothing, because the sender's thread overwrites it
(`heartbeat_pause` is the run that shows this of the sender): the dead sensor then
beats on, and nobody finds it dead. **FaultMonitor** composes two such sensors
with the monitor and with the receiver's lists: a sender that is silent, or was
until its last resumption, may be reported, once, until it is heard again. The
channels of the two sensors are those of `QueryChannel`, with
late answers: a command may be drained, handled late or taken back, and an
answer to an earlier wake-up may be taken for that to a later one. A query for
data changes nothing in the sensor, and its answer is only printed; it is there
because it clears the queue.

**ThreadPool** makes a step of what happens under one mutex, or between two.
`addCommand` of a worker is two steps (`PoolAssign`, `PoolStore`), and `execute` of a
command three: its mutex covers the test of `_hasRun` and its assignment but not
the operation between them (`WorkerExecute`, `WorkerRun`, `WorkerSet`; `loaded` is
what the worker read). That no other worker runs the command in between is
therefore a result and not a guard. `_outstandingCmds` is a plain `int` which
`_state_init` sets without the mutex while `addCommand` may be increasing it: the
assignment is a step of its own (`PoolReset`), and so are the push (`AddPush`) and
the increase (`AddCount`), which may write a sum of what it read before the
reset (`undone`). The worker executes under its mutex, and `isDone` waits for it.
**TaskPool** is the promise
to the user: each command is queued, given out, handed back and fetched once, in
this order. **PoolMain** replaces the arbitrary user by Assignment3's main, with
what it sums up and prints; **Commands** is what the integer commands compute,
with their definitions to compare with. A command handed back without having
been executed contributes -1.

**AuthApplication** is `authEvent` with the maps it uses, for one browser
session: the maps are members of the application object, which Wt creates per
session, so sessions share only the login names. `addUser` keys by id, the test
before it by login name; a user named like a key of the map is therefore never
added and gets no panel, and the logout then uses a pointer nobody set.
(`SessionManager::isAuthenticated` returns the opposite of what its header says;
nobody calls it.)

## Runs

| Run | Question | Bounds |
|---|---|---|
| `faulthandle_safety` | at most two messages, no token used twice, answers in order, implements RemoteQuery and QueryChannel | 5 queries, queue of 3, any fresh state, leftover queue or not |
| `faulthandle_liveness` | queries return, the server stops | 3 queries, queue of 1, so that it is full |
| `threadpool_full` | commands in one place, right count, run once, quiet at the end, implements TaskPool; commands come back, the pool stops | 2 workers, a high and a low command, workers born in any state, a count born at -1, a command that throws |
| `poolmain_safety` | main gets every result, counts each point once, prints the right numbers and ends | 2 workers, 5 commands: two points, a Fibonacci number, a count of primes, the estimate |
| `heartbeat_full` | stopped senders and paused ones are found, beating ones revived, whatever the owners do | 1 sender, queue of 1, so that it is full, lateness 1, smallest safe interval |
| `assignment1` | beats in order, only suspects and only failed sensors declared dead, failed ones are; main adds in time | 1 sensor, queue of 4, receiver slower than the sender, lateness 1, smallest safe interval |
| `failover` | the monitor leaves a primary whose death is new; a woken sensor is found alive; the counter is set before it is used; switching back; buffers below `sample_size` | the primary fails again and again and synchronizes its samples, `SampleSize` 2, `Cycles` 0 |
| `sync` | samples in order, and they arrive; only destructors crash a thread, and they return | 3 samples in lists of 2, queue of 2, archives that fit, that are shorter than the buffer and that are too long, counter fresh at -1 or 1 |
| `auth` | the panel is that of the user logged in; the pointer used at logout is valid | 3 users, 2 preset keys, names that are an id, a preset key or neither |

Why the bounds are enough: a query leaves at most one message behind and the
server works on one, so a third query already meets everything an earlier one
can leave, and five repeat it. Two workers are enough for the pool's scan to
meet one that is ready, one that executes and one that is done, and two
commands for both queues and for a worker that still holds an old command. In
`heartbeat_full` and `assignment1` every thread may be a tick late at every sleep, and
in the first a sensor is heard, paused, found dead, resumed and found alive again. The
expired interval of both is exactly
`(Segments + 1) * (SegmentSleep + Slack) + ListenSleep + 2 * Slack`; with one
tick less TLC finds a sensor of `assignment1` declared dead while it beats, so the
runs are at the boundary. The formula is `SafeInterval` of `Assignment1Proofs`. In `failover`
the states repeat, so it bounds no number of failures or queries; only the
primary fails, because a second failing sensor makes the run too long, and
`SwitchBack` and `CountIsSet` are proved for any set of failing sensors. In `sync` three samples shift a list of
two once with every mix of digits, and a queue of two holds a list before and
one after the shift. In `auth` the three users are the three levels.

Three runs expect a violation. Each shows a disagreement between what the
code does and what the documents, comments or messages of the repository say:

| Run | What happens |
|---|---|
| `threadpool_result` | a worker that looks between the two assignments of `addCommand` hands the new command back without executing it |
| `heartbeat_pause` | `pauseBeat` is overwritten by a state the sender writes later in its round; the dead sensor goes on beating |
| `failover_death` | a death reported between the answer to a wake-up and the line that stores `false` is forgotten, and never reported again |

Others met while modelling are in the models but have no run: a wake-up handled
after the server is started and before `_init` makes the sensor inactive, which
is answered and undone (`SyncedSensor.cpp:188`); a late answer taken for that of
a newer command (what `RemoteQuery` therefore allows); main waiting for the
state the pool leaves when it starts; eleven sleeps between two beats instead of
ten (hence `Segments + 1` above); destructors that disconnect a queue under a
running thread (`SCrash`, `RCrash`, `TxCrashes`, `RxCrashes`); the sync thread
that an archive too long ends for good (`TxThrows`); numbers read past the end
of a message (`Read`); buffers of `sample_size` that hold one sample less
(`TypeOK` of the failover, `Kept`); results of -1 for commands handed back
unexecuted (`ResultsRight`); and a login name that is the key of another user
(`PointerValid`).

`CHECK_DEADLOCK FALSE` is set where the modelled threads really stop: a server,
a pool, a sender or main that has ended, a sync thread that is gone, a sensor
that waits for a wake-up nobody sends, and a browser session in which the
application has crashed.

## Fairness

Weak fairness of each thread's step, because the operating system runs every
thread and every wait in the code has a deadline (the queue operations) or ends
with finite work (a mutex, an operation of a command). In `Heartbeat` time goes
on. In the failover the beats of a failing sensor arrive and its silence is
noticed. Of the heartbeat this is `BeatingIsRevived` and `SilentIsFound`: a sender
whose pause took effect is found dead. (That every pause takes effect is false,
`heartbeat_pause`, and is not assumed.) It is assumed that a sensor fails only after
its sender has joined the queue; otherwise `resumeBeat` would make it beat without
one. Nobody is obliged to call a
public operation: queries, pauses, wake-ups and ends happen or not, except that
an owner that has begun a destructor finishes it and Assignment3's main goes on.
No query is assumed ever to succeed: with weak fairness every one of them may
time out, so nothing is claimed that depends on an answer. Workers born in a
state the pool does not know never get a command; a command is claimed to come
back only if one worker was born sound.

In `sync` the step in which the receiver finds its queue empty (`RxListened`) is
strongly fair: the drain loop does not sleep and the sender sleeps two seconds
between two messages, so a queue that is empty again and again is found empty.
For the same reason the receiver's destructor is claimed to return only in
behaviours where the queue runs empty again and again. In `Assignment1` main
starts, adds and joins, and a sensor finishes what a failure began; nobody has
to fail, and main's minute of sleep has no end.

## Proofs

The eight modules whose names end in `Proofs` are checked by TLAPS to the last
leaf, from the assumptions named in the modules (the constants have their
types, the null values are none of the real ones) and, where a theorem has one,
from the assumption in its statement.

*Command channel.* `IInv` adds to `TypeOK` and `OneTokenPerQuery` that the
messages in the queue belong to queries that were made (`Made`), that the
client about to send has left no token of its query yet (`Unsent`), that there
is room (`Room`: at most one message while the client is about to send), and that
tokens are ordered (`Order`: answers already used, answers in the queue, the
command being handled and commands in the queue are each older than those that
follow). Without the order, uniqueness is not
enough to show that answers are accepted in order; without the room, the bound
of two is not inductive. Then follow `TypeCorrect`, `NeverMoreThanTwo`,
`TokensUnique`, `Ordered` and `Implementation` (every step is one of RemoteQuery
or a stutter), for any number of queries and any capacity. `ChannelImplementation`
shows the same of QueryChannel, and which of its steps the steps of `query` and of
the handler are (`ChannelStep`): the success of a wake-up is `Answered`, any other
return `Failed`. It needs that no two commands are in the queue and none while one is about
to be sent (`Lone`): otherwise one flag could not stand for the commands there. So
what the failover assumes of its channels is proved of the code that makes them.
(No run repeats `TypeOK` here; it is proved.)

*Thread pool.* `IInv` is `TypeOK`, `Phase` and `InOnePlace`; `Phase` says how the
places of the pool thread and the workers go with the states they have set: no
worker runs before the pool has made it, the one that is given a command was
ready, only an ending pool stops workers, and those joined have stopped.
`InOnePlace` alone is not inductive: a worker's command counts or not depending
on these states. From it follow `TypeCorrect`, `NothingLost`, `QuietAtShutdown` and
`Implementation`, for any commands and number of workers. `AtMostOnce` needs a
second induction: no two workers have the same command, not even an old one
that they may execute again, and it is neither queued nor being given out
(`Alone`); so between the question whether a command has run and the answer only
the worker that asked can run it (`Once`). The count (`Counts`) is a third: `Counted`
adds what holds before the reset, and while an increment is under way (`Tally`
is what the count will be): that the commands added so far are those in the
queues, that no worker has handed anything back, and that what an increment has
loaded is what the reset writes over.

*Assignment3's main.* `MainUses`: every behaviour of main is one of the pool with
its arbitrary user, so `InOnePlace` and `CountRight` hold of it. From them, and
from what each statement of main has established about the commands added,
outstanding and fetched (`MInv`), follow `NoneForgotten` and `EstimateReturned`.
They assume `Proper`: main's second of sleep was enough for the pool to
initialize (`LongSleep`), and no worker is born in state `DONE`. Without the
first main may add before the pool's count is set to zero, without the second a
null command may be fetched. `ResultsCorrect` adds that main fetches only once
(`Unfetched`): what it fetches then is each of its commands but the estimate, each
in one place of the list, which gives the number of points by a bijection between
the places and the commands.

What the commands compute is proved for every argument, by induction in the form
of facts about sets: a nonempty set of numbers has a least element (`LeastNat`, from
the library's `WFMin`), so a set that has 0 and the successor of each of its members is
`Nat` (`SetInduction`), and an operation on a set can be iterated (`Iterated`), without
which a function defined recursively is not known to exist. From these `RoundsFacts`
(the loop of `FibonacciCommand`), `FibonacciRight`, `SumsFit` (arguments up to 45, the
assumption on `Argument`, are those whose sums fit the code's `int`; main's are at
most 20) and `PrimeRight` (it is enough to try the divisors up to the half).

*Failover.* `IInv` adds to `TypeOK` what the monitor's place says of its flags
(`Counter`): the secondary is woken up only with the primary marked dead, and a
monitor on the secondary has a count that was set, or is about to set it. It is
needed because `CountIsSet` speaks of one place of the loop only. From it
`TypeCorrect`, `CountInitialized` and `SwitchesBackInTime`.

*Heartbeat.* `IInv` adds to `TypeOK`, `DeadWereSuspected` and `BeatsInOrder` that
only a thread that has ended is in state `SHUTDOWN` (`Alive`), without which the
loop would have no handler to go to, and that the beat being made is no older
than the last one sent, and that no older than the one recorded (`Ages`), without
which a repeated send could not be shown to keep the order. Owners may pause,
resume, end and destroy at any time.

*Assignment1.* Its steps are those of the heartbeat, whose theorems carry over. `AddedBefore`: while
main adds, the receiver is before the end of its first sleep, by at least as
much as main is not yet late (`Waits`); it assumes `Slack < CreateSleep`.
`OnlyFailed` is the timing argument: a sender that has not failed goes straight
round its loop (`Calm`), the age of its last beat is bounded by the segment it
has come to (`Timed`), that beat is the last in the queue or is what the
receiver has recorded (`Delivered`), and what is recorded when the receiver
checks is older only by the time it slept since it found the queue empty
(`ReceiverTimed`). It assumes `SafeInterval` and `EnoughRoom`. From the latter
`NeverFull` shows that the queue is not full while the receiver's thread runs, so
that no send waits, by a second induction which only counts (`Unread`): a sender
sleeps a whole `Period` between two beats, so that the beats of one sender which
wait unread, and how far it is on its way to the next, fit into the time since
the receiver last saw the queue empty (`Paced`), and that time is one sleep of the
receiver, as late as it may be. No sender then has more than `k` beats there, and
`EnoughRoom` says that the queue has room for `k` of every sender and one more.

With the code's constants (10 segments of 200 ms, sleeps of 100 ms, the interval
of 3000 ms of `Assignment1/src/main.cpp:23`, a queue of 100) `SafeInterval` holds if
no sleep is late by more than 53 ms, and `EnoughRoom` then holds with `k = 1` for
fewer than 100 sensors; the program has two. The run's queue is smaller than
`EnoughRoom` asks for, so that it fills up and sends wait there; TLC finds the
property to hold in that case as well, which no theorem covers.

*Sync.* `IInv` adds to `TypeOK` and `InOrder` which samples the primary's list
holds (`Window`), that an older list is no longer than a newer one (`InLine`: places
could otherwise not be compared through a shorter list), and how the state of
each thread goes with its queue, its handle and the object that owns it
(`ThreadSound`, `TxSound`, `RxSound`). From it `TypeCorrect`, `SamplesOrdered`
and `CrashesOnlyAtTheEnd`, for any sizes and any content of the uninitialized
counter.

*Users.* `IInv` adds to the three checked invariants that a user stored by id has
the level of that id, whoever's login stored it (`StoredRight`), and that the
pointer points at the only panel (`PointsAtPanel`). From it `TypeCorrect`, `OwnPanel`
and `PointerSound`, for any users, names and preset keys. (No run repeats `TypeOK`
here: that there is one panel at most is part of `PanelOfUser`.)

Only model-checked: liveness (out of this prover's reach, like ENABLED). Every
invariant and every action property that a passing run checks is also the
conclusion of a theorem.

## Not modelled

- Values of samples, sensor data in answers, the text that is printed.
- `ALL_DEAD` and `SHUTDOWN` of the fault monitor: no handler sets the one and no
  program ends the monitor. The sensor processes loop for ever, so a sensor's
  shutdown is left out too.
- The data race on the list of samples in `SyncedSensor.cpp:105` and on
  `deadIds()` while the receiver runs: what a list in change yields is undefined,
  and no property can hold of it.
- What a queue of the pool becomes when `getNext` pops it without the mutex while a
  command is pushed (`ThreadPool.cpp:74`): `PoolRace` says that it is broken, and the
  model stops there.
- In the failover, messages whose parsing throws: `FaultHandle` and `Sync` have
  them, but a monitor or a server ended by one is left out. The heartbeat's messages
  have a fixed length and end in their binary part, so nothing is read behind them.
- A restart of an ended heartbeat, pool or server, and the setters of intervals,
  which nobody calls; the destructor of `Core::Thread` itself, which runs only
  after a derived class has ended its thread.
- `PiEstimatorCommand`'s quotient over doubles and the random generator; Wt's
  widgets, database and authentication services (`HelloApplication`, `Session`,
  `User`, `main` of Assignment4); `UserManager` and `SessionManager` operations
  without a caller; option parsing and process creation of the programs, with
  the end of the sensor processes, which Assignment1's main kills;
  `firstCmakeProject`, which nothing else uses.

## Plan

1. `MessageQueue`, `FaultHandle`, `RemoteQuery` with proofs: done.
2. `ThreadPool`, `TaskPool`, `PoolMain`, `Commands`, with proofs of the pool, its
   count, of main and of what the commands compute: done.
3. `Heartbeat`, `Assignment1`, with proofs, the safe interval and the room in the
   queue included: done.
4. `SyncedSensor`, `FaultMonitor` with proofs: done.
5. `Thread`, `Sync` with proofs: done.
6. `AuthApplication` with proofs: done.
7. `QueryChannel`, which `FaultMonitor` uses and `FaultHandle` implements: done.
8. Left: the interval theorem with a queue that fills up, where a send may wait;
   the heartbeat inside `FaultMonitor` in place of what is assumed of it.
