------------------------------ MODULE SyncProofs ------------------------------
(***************************************************************************)
(* Proofs about the synchronization of samples, for lists, queues and      *)
(* archives of any size and any content of the uninitialized counter.  The *)
(* inductive invariant adds to the checked invariants which samples the    *)
(* primary's list holds (Window), that an older list is also no longer     *)
(* than a newer one (InLine), and how the state of a thread goes with its  *)
(* queue and with the object that owns it (TxSound, RxSound).              *)
(***************************************************************************)
EXTENDS Sync, TLAPS

(* The list is empty until the first samples are taken.                    *)
Window == \/ taken = 0 /\ cache = <<>>
          \/ /\ taken >= Kept /\ cache \in [1..Kept -> Sample]
             /\ \A i \in 1..Kept : cache[i].n = taken - Kept + i

Before(a, b) == DOMAIN a \subseteq DOMAIN b /\ \A i \in DOMAIN a : a[i].n <= b[i].n

InLine == /\ Before(rx, cache)
          /\ \A i \in DOMAIN queue : /\ Before(rx, queue[i]) /\ Before(queue[i], cache)
                                     /\ \A j \in 1..i : Before(queue[j], queue[i])
          /\ Copying => /\ Before(rx, msg) /\ Before(msg, cache)
                        /\ \A i \in DOMAIN queue : Before(queue[i], msg)

ThreadSound == \A o \in Object :
                 /\ life[o] = "running" => o \in handle
                 /\ life[o] = "crashed" => owner[o] # "using"

TxSound == /\ "sender" \notin handle /\ owner["sender"] # "gone" => tpc = "run"
           /\ tpc = "copying" => tstate = "SENDING"
           /\ owner["sender"] = "using" /\ tstate \in {"IDLE", "SENDING"} => tconn

RxSound == owner["receiver"] = "using" /\ rstate \in {"LISTENING", "CHECK_VALUES"} => rconn

IInv == TypeOK /\ Window /\ InLine /\ ThreadSound /\ TxSound /\ RxSound
-------------------------------------------------------------------------------
LEMMA Sizes == /\ Kept \in Nat /\ MaxSamples \in Nat /\ Segments \in Nat
               /\ "sender" \in Object /\ "receiver" \in Object /\ "sender" # "receiver"
BY SyncAssumption DEF Kept

LEMMA Lists ==
  ASSUME NEW l \in List
  PROVE  /\ DOMAIN l \subseteq 1..Kept /\ DOMAIN l \subseteq Nat
         /\ \A i \in DOMAIN l : l[i] \in Sample /\ l[i].n \in 0..MaxSamples /\ l[i].n \in Nat
<1>1. l = <<>> \/ l \in [1..Kept -> Sample]
  BY DEF List
<1>2. CASE l = <<>>
  BY <1>2
<1>3. CASE l \in [1..Kept -> Sample]
  <2>1. \A i \in 1..Kept : l[i] \in Sample
    BY <1>3
  <2> QED BY <1>3, <2>1, Sizes DEF Sample
<1> QED BY <1>1, <1>2, <1>3

LEMMA BeforeSelf == \A l \in List : Before(l, l)
BY Lists DEF Before

LEMMA BeforeTrans ==
  ASSUME NEW a \in List, NEW b \in List, NEW c \in List, Before(a, b), Before(b, c)
  PROVE  Before(a, c)
<1>1. DOMAIN a \subseteq DOMAIN c
  BY DEF Before
<1>2. ASSUME NEW i \in DOMAIN a PROVE a[i].n <= c[i].n
  <2>1. i \in DOMAIN b /\ i \in DOMAIN c /\ a[i].n <= b[i].n /\ b[i].n <= c[i].n
    BY DEF Before
  <2>2. a[i].n \in Nat /\ b[i].n \in Nat /\ c[i].n \in Nat
    BY <2>1, Lists
  <2> QED BY <2>1, <2>2
<1> QED BY <1>1, <1>2 DEF Before

LEMMA EmptyFirst == <<>> \in List /\ \A l \in List : Before(<<>>, l)
BY DEF List, Before

LEMMA QueueFacts ==
  ASSUME NEW q \in Seq(List)
  PROVE  /\ Len(q) \in Nat /\ DOMAIN q = 1..Len(q)
         /\ \A i \in DOMAIN q : q[i] \in List /\ 1..i \subseteq DOMAIN q
OBVIOUS

LEMMA TailFacts ==
  ASSUME NEW q \in Seq(List), q # <<>>
  PROVE  /\ Head(q) \in List /\ Head(q) = q[1] /\ 1 \in DOMAIN q
         /\ Tail(q) \in Seq(List) /\ Len(Tail(q)) = Len(q) - 1
         /\ \A i \in DOMAIN Tail(q) : /\ i \in Nat /\ i + 1 \in DOMAIN q /\ Tail(q)[i] = q[i + 1]
                                      /\ \A j \in 1..i : j \in DOMAIN Tail(q) /\ j + 1 \in 1..(i + 1)
                                                         /\ Tail(q)[j] = q[j + 1]
                                      /\ 1 \in 1..(i + 1)
OBVIOUS

LEMMA AppendFacts ==
  ASSUME NEW q \in Seq(List), NEW m \in List
  PROVE  /\ Append(q, m) \in Seq(List) /\ Len(Append(q, m)) = Len(q) + 1
         /\ \A i \in DOMAIN Append(q, m) :
              \/ /\ i \in DOMAIN q /\ Append(q, m)[i] = q[i]
                 /\ \A j \in 1..i : j \in DOMAIN q /\ Append(q, m)[j] = q[j]
              \/ /\ i = Len(q) + 1 /\ Append(q, m)[i] = m
                 /\ \A j \in 1..i : \/ j \in DOMAIN q /\ Append(q, m)[j] = q[j]
                                    \/ j = i
OBVIOUS

(* Lists that are in line are in order.                                    *)
LEMMA LineIsOrder == TypeOK /\ InLine => InOrder
BY DEF TypeOK, InLine, InOrder, Before, NoNewer

(* Everything starts empty and off.                                        *)
LEMMA InitInv == Init => IInv
<1> SUFFICES ASSUME Init PROVE IInv
  OBVIOUS
<1> USE DEF Init, ThreadInit
<1>1. TypeOK
  <2>1. /\ handle \subseteq Object /\ shutdown \subseteq Object
        /\ life \in [Object -> Life] /\ owner \in [Object -> Owner]
    BY DEF Life, Owner
  <2>2. taken \in 0..MaxSamples /\ cache \in List /\ msg \in List /\ rx \in List
    BY Sizes, EmptyFirst
  <2>3. tstate \in SenderState /\ tpc \in {"run", "copying", "test"}
        /\ rstate \in ReceiverState /\ rpc \in {"run", "test"}
    BY DEF SenderState, ReceiverState
  <2>4. segment \in Int /\ segment \in FreshSegment
    BY SyncAssumption
  <2>5. tconn \in BOOLEAN /\ rconn \in BOOLEAN
    OBVIOUS
  <2>6. exists \in BOOLEAN
    OBVIOUS
  <2>7. queue \in Seq(List) /\ Len(queue) = 0
    OBVIOUS
  <2>8. Len(queue) <= MaxMsgs
    BY <2>7, MaxMsgsAssumption
  <2> QED BY <2>1, <2>2, <2>3, <2>4, <2>5, <2>6, <2>7, <2>8 DEF TypeOK
<1>2. Window
  BY DEF Window
<1>3. InLine
  <2>1. Before(rx, cache) /\ DOMAIN queue = {} /\ ~Copying
    BY EmptyFirst DEF Copying
  <2> QED BY <2>1 DEF InLine
<1>4. ThreadSound /\ TxSound /\ RxSound
  BY DEF ThreadSound, TxSound, RxSound
<1> QED BY <1>1, <1>2, <1>3, <1>4 DEF IInv
-------------------------------------------------------------------------------
(* Steps that move no list.                                                *)
LEMMA SameLine ==
  ASSUME InLine, UNCHANGED <<rx, cache, queue, msg>>, Copying' => Copying
  PROVE  InLine'
BY DEF InLine, Before

LEMMA SameWindow == ASSUME Window, UNCHANGED <<taken, cache>> PROVE Window'
BY DEF Window

(* A list assigned to while it is copied comes out between the two.        *)
LEMMA TornBetween ==
  ASSUME NEW a \in List, NEW b \in List, Before(a, b), NEW t \in Torn(a, b)
  PROVE  t \in List /\ Before(a, t) /\ Before(t, b)
<1>1. CASE t \in {a, b}
  BY <1>1, BeforeSelf
<1>2. CASE \E I \in SUBSET DOMAIN a :
             t = [i \in DOMAIN a |-> IF i \in I THEN b[i] ELSE a[i]]
  <2>1. PICK I \in SUBSET DOMAIN a : t = [i \in DOMAIN a |-> IF i \in I THEN b[i] ELSE a[i]]
    BY <1>2
  <2>2. \A i \in DOMAIN a : /\ i \in DOMAIN b /\ a[i] \in Sample /\ b[i] \in Sample
                            /\ a[i].n \in Nat /\ b[i].n \in Nat /\ a[i].n <= b[i].n
                            /\ t[i] \in {a[i], b[i]}
    BY <2>1, Lists DEF Before
  <2>3. t \in List
    <3>1. CASE a = <<>>
      <4>1. t = <<>>
        BY <2>1, <3>1
      <4> QED BY <4>1 DEF List
    <3>2. CASE a \in [1..Kept -> Sample]
      <4>1. t \in [1..Kept -> Sample]
        BY <2>1, <2>2, <3>2
      <4> QED BY <4>1 DEF List
    <3> QED BY <3>1, <3>2 DEF List
  <2>4. DOMAIN t = DOMAIN a
    BY <2>1
  <2>5. \A i \in DOMAIN a : a[i].n <= t[i].n /\ t[i].n <= b[i].n
    BY <2>2
  <2> QED BY <2>3, <2>4, <2>5 DEF Before
<1> QED BY <1>1, <1>2 DEF Torn

(* A new list of the primary.                                              *)
LEMMA CacheLine ==
  ASSUME TypeOK, InLine, NEW list \in List, Before(cache, list), CacheValues(list),
         UNCHANGED <<rx, queue, life, tpc>>
  PROVE  msg' \in List /\ InLine'
<1>1. rx \in List /\ cache \in List /\ msg \in List /\ \A i \in DOMAIN queue : queue[i] \in List
  BY QueueFacts DEF TypeOK
<1>2. cache' = list /\ Copying' = Copying
  BY DEF CacheValues, Copying, Running
<1>3. Before(rx, list) /\ \A i \in DOMAIN queue : Before(queue[i], list)
  BY <1>1, BeforeTrans DEF InLine
<1>4. CASE ~Copying
  BY <1>1, <1>2, <1>3, <1>4 DEF InLine, CacheValues
<1>5. CASE Copying
  <2>1. msg' \in Torn(msg, list) /\ Before(msg, list)
    BY <1>1, <1>5, BeforeTrans DEF CacheValues, InLine
  <2>2. msg' \in List /\ Before(msg, msg') /\ Before(msg', list)
    BY <1>1, <2>1, TornBetween
  <2>3. Before(rx, msg') /\ \A i \in DOMAIN queue : Before(queue[i], msg')
    BY <1>1, <1>5, <2>2, BeforeTrans DEF InLine
  <2> QED BY <1>2, <1>3, <2>2, <2>3 DEF InLine
<1> QED BY <1>4, <1>5

LEMMA PrefillInv == ASSUME IInv, Prefill PROVE IInv'
<1>1. PICK long \in [1..Kept -> BOOLEAN] :
        CacheValues([i \in 1..Kept |-> [n |-> i, long |-> long[i]]])
  BY DEF Prefill
<1> DEFINE list == [i \in 1..Kept |-> [n |-> i, long |-> long[i]]]
<1>2. /\ taken = 0 /\ Kept <= MaxSamples /\ taken' = Kept /\ cache' = list
      /\ UNCHANGED <<threads, owner, sender, receiver, exists, queue>>
  BY <1>1 DEF Prefill, CacheValues
<1>3. list \in [1..Kept -> Sample] /\ \A i \in 1..Kept : list[i].n = i
  BY <1>2, Sizes DEF Sample
<1>4. list \in List
  BY <1>3 DEF List
<1>5. DOMAIN cache = {}
  <2>1. CASE cache = <<>>
    BY <2>1
  <2>2. CASE taken >= Kept /\ cache \in [1..Kept -> Sample]
    BY <1>2, <2>2, Sizes
  <2> QED BY <2>1, <2>2 DEF IInv, Window
<1>6. Before(cache, list)
  BY <1>5 DEF Before
<1>7. msg' \in List /\ InLine'
  <2>1. UNCHANGED <<rx, queue, life, tpc>>
    BY <1>2 DEF threads, sender, receiver
  <2> QED BY <1>1, <1>4, <1>6, <2>1, CacheLine DEF IInv
<1>8. Window'
  <2>1. \A i \in 1..Kept : i = Kept - Kept + i
    BY Sizes
  <2> QED BY <1>2, <1>3, <2>1, Sizes DEF Window
<1>9. TypeOK'
  BY <1>2, <1>4, <1>7, Sizes DEF IInv, TypeOK, threads, sender, receiver
<1>10. ThreadSound' /\ TxSound' /\ RxSound'
  BY <1>2 DEF IInv, ThreadSound, TxSound, RxSound, threads, sender, receiver
<1> QED BY <1>7, <1>8, <1>9, <1>10 DEF IInv

LEMMA MeasureInv == ASSUME IInv, Measure PROVE IInv'
<1>1. PICK long \in BOOLEAN :
        CacheValues([i \in 1..Kept |-> IF i < Kept THEN cache[i + 1]
                                       ELSE [n |-> taken + 1, long |-> long]])
  BY DEF Measure
<1> DEFINE list == [i \in 1..Kept |-> IF i < Kept THEN cache[i + 1]
                                      ELSE [n |-> taken + 1, long |-> long]]
<1>2. /\ taken >= Kept /\ taken < MaxSamples /\ taken' = taken + 1 /\ cache' = list
      /\ UNCHANGED <<threads, owner, sender, receiver, exists, queue>>
  BY <1>1 DEF Measure, CacheValues
<1>3. taken \in 0..MaxSamples
  BY DEF IInv, TypeOK
<1>4. Kept = 0 \/ (cache \in [1..Kept -> Sample] /\ \A i \in 1..Kept : cache[i].n = taken - Kept + i)
  BY <1>2, <1>3, Sizes DEF IInv, Window
<1>5. \A i \in 1..Kept : list[i] \in Sample /\ list[i].n = taken + 1 - Kept + i
  <2> TAKE i \in 1..Kept
  <2>1. CASE i < Kept
    <3>1. i + 1 \in 1..Kept
      BY <2>1, Sizes
    <3>2. cache[i + 1] \in Sample /\ cache[i + 1].n = taken - Kept + (i + 1)
      BY <1>4, <3>1, Sizes
    <3> QED BY <1>3, <2>1, <3>2, Sizes
  <2>2. CASE ~(i < Kept)
    <3>1. list[i] = [n |-> taken + 1, long |-> long] /\ i = Kept
      BY <2>2, Sizes
    <3>2. taken + 1 \in 0..MaxSamples /\ taken + 1 = taken + 1 - Kept + i
      BY <1>2, <1>3, <3>1, Sizes
    <3> QED BY <3>1, <3>2 DEF Sample
  <2> QED BY <2>1, <2>2
<1>6. list \in [1..Kept -> Sample] /\ list \in List
  BY <1>5 DEF List
<1>7. Before(cache, list)
  <2>1. CASE Kept = 0
    <3>1. DOMAIN cache \subseteq 1..Kept
      BY Lists DEF IInv, TypeOK
    <3>2. 1..Kept = {}
      BY <2>1
    <3>3. DOMAIN cache = {}
      BY <3>1, <3>2
    <3> QED BY <3>3 DEF Before
  <2>2. CASE Kept # 0
    <3>1. DOMAIN cache = 1..Kept /\ DOMAIN list = 1..Kept
      BY <1>4, <2>2
    <3>2. \A i \in 1..Kept : cache[i].n <= list[i].n
      BY <1>3, <1>4, <1>5, <2>2, Sizes
    <3> QED BY <3>1, <3>2 DEF Before
  <2> QED BY <2>1, <2>2
<1>8. msg' \in List /\ InLine'
  <2>1. UNCHANGED <<rx, queue, life, tpc>>
    BY <1>2 DEF threads, sender, receiver
  <2> QED BY <1>1, <1>6, <1>7, <2>1, CacheLine DEF IInv
<1>9. Window'
  <2>1. taken' >= Kept /\ \A i \in 1..Kept : cache'[i].n = taken' - Kept + i
    BY <1>2, <1>3, <1>5, Sizes
  <2> QED BY <1>2, <1>6, <2>1 DEF Window
<1>10. TypeOK'
  <2>1. taken' \in 0..MaxSamples
    BY <1>2, <1>3, Sizes
  <2> QED BY <1>2, <1>6, <1>8, <2>1 DEF IInv, TypeOK, threads, sender, receiver
<1>11. ThreadSound' /\ TxSound' /\ RxSound'
  BY <1>2 DEF IInv, ThreadSound, TxSound, RxSound, threads, sender, receiver
<1> QED BY <1>8, <1>9, <1>10, <1>11 DEF IInv
-------------------------------------------------------------------------------
(* The owners of the objects.                                              *)
LEMMA StartInv == ASSUME IInv, NEW o \in Object, StartObject(o) PROVE IInv'
<1>1. /\ owner[o] = "using" /\ o \notin handle /\ handle' = handle \cup {o}
      /\ shutdown' = shutdown \ {o} /\ life' = [life EXCEPT ![o] = "running"]
      /\ UNCHANGED <<sensor, sender, msg, receiver, exists, queue>>
  BY DEF StartObject, started, Start, Becomes
<1>2. life \in [Object -> Life] /\ handle \subseteq Object /\ shutdown \subseteq Object
  BY DEF IInv, TypeOK
<1>3. life' \in [Object -> Life] /\ \A p \in Object : life'[p] = IF p = o THEN "running" ELSE life[p]
  BY <1>1, <1>2 DEF Life
<1>4. TypeOK'
  BY <1>1, <1>2, <1>3 DEF IInv, TypeOK, sensor, sender, receiver
<1>5. ThreadSound' /\ TxSound' /\ RxSound'
  BY <1>1, <1>3 DEF IInv, ThreadSound, TxSound, RxSound, sensor, sender, receiver
<1>6. Copying' => Copying
  <2>1. o = "sender" => tpc = "run"
    BY <1>1 DEF IInv, TxSound
  <2> QED BY <1>1, <1>3, <2>1, Sizes DEF Copying, Running, sender
<1>7. InLine' /\ Window'
  BY <1>1, <1>6, SameLine, SameWindow DEF IInv, sensor, receiver
<1> QED BY <1>4, <1>5, <1>7 DEF IInv

LEMMA DestructorInv == ASSUME IInv, NEW o \in Object, Destructor(o) PROVE IInv'
<1>0. /\ life \in [Object -> Life] /\ owner \in [Object -> Owner] /\ handle \subseteq Object
      /\ shutdown \subseteq Object /\ tconn \in BOOLEAN /\ rconn \in BOOLEAN
  BY DEF IInv, TypeOK
<1>1. CASE Disconnect(o)
  <2>1. /\ owner' = [owner EXCEPT ![o] = "leaving"] /\ owner[o] = "using"
        /\ tconn' = (tconn /\ o # "sender") /\ rconn' = (rconn /\ o # "receiver")
        /\ UNCHANGED <<threads, taken, cache, tstate, tpc, segment, msg, rstate, rpc, rx, exists,
                       queue>>
    BY <1>1 DEF Disconnect
  <2>2. \A p \in Object : owner'[p] = IF p = o THEN "leaving" ELSE owner[p]
    BY <1>0, <2>1
  <2>3. owner' \in [Object -> Owner]
    BY <1>0, <2>1 DEF Owner
  <2>4. tconn' \in BOOLEAN
    BY <2>1
  <2>5. rconn' \in BOOLEAN
    BY <2>1
  <2>6. TypeOK'
    BY <2>1, <2>3, <2>4, <2>5 DEF IInv, TypeOK, threads
  <2>7. ThreadSound'
    BY <2>1, <2>2 DEF IInv, ThreadSound, threads
  <2>8. TxSound'
    <3>1. owner'["sender"] # "gone" => owner["sender"] # "gone"
      BY <2>1, <2>2, Sizes
    <3>2. owner'["sender"] = "using" => owner["sender"] = "using" /\ tconn' = tconn
      BY <1>0, <2>1, <2>2, Sizes
    <3> QED BY <2>1, <3>1, <3>2 DEF IInv, TxSound, threads
  <2>9. RxSound'
    <3>1. owner'["receiver"] = "using" => owner["receiver"] = "using" /\ rconn' = rconn
      BY <1>0, <2>1, <2>2, Sizes
    <3> QED BY <2>1, <3>1 DEF IInv, RxSound
  <2>10. InLine' /\ Window'
    <3>1. Copying' = Copying
      BY <2>1 DEF Copying, Running, threads
    <3> QED BY <2>1, <3>1, SameLine, SameWindow DEF IInv
  <2> QED BY <2>6, <2>7, <2>8, <2>9, <2>10 DEF IInv
<1>2. CASE Asks(o) \/ Joins(o)
  <2>1. /\ owner' \in [Object -> Owner] /\ \A p \in Object : p # o => owner'[p] = owner[p]
        /\ owner[o] \in {"leaving", "ending"} /\ owner'[o] # "using"
        /\ UNCHANGED <<taken, cache, sender, msg, receiver, exists, queue>>
    BY <1>0, <1>2 DEF Asks, Joins, Owner
  <2>2. /\ handle' \subseteq Object /\ shutdown' \subseteq Object /\ life' \in [Object -> Life]
        /\ \A p \in Object : p # o => life'[p] = life[p] /\ (p \in handle' <=> p \in handle)
        /\ \/ life'[o] = life[o] /\ handle' = handle
           \/ life'[o] = "none" /\ owner'[o] = "gone"
    BY <1>0, <1>2 DEF Asks, EndAsks, Joins, EndJoins, Becomes, Life
  <2>3. TypeOK'
    BY <2>1, <2>2 DEF IInv, TypeOK, sender, receiver
  <2>4. ThreadSound' /\ TxSound' /\ RxSound'
    BY <2>1, <2>2, Sizes DEF IInv, ThreadSound, TxSound, RxSound, sender, receiver
  <2>5. Copying' => Copying
    BY <2>1, <2>2, Sizes DEF Copying, Running, sender
  <2>6. InLine' /\ Window'
    BY <2>1, <2>5, SameLine, SameWindow DEF IInv, receiver
  <2> QED BY <2>3, <2>4, <2>6 DEF IInv
<1> QED BY <1>1, <1>2 DEF Destructor
-------------------------------------------------------------------------------
(* The sender's thread.                                                    *)
LEMMA CopyInv == ASSUME IInv, TxCopy PROVE IInv'
<1>1. /\ tpc = "run" /\ tpc' = "copying" /\ tstate = "SENDING" /\ tstate' = "SENDING" /\ msg' = cache
      /\ life["sender"] = "running"
      /\ UNCHANGED <<threads, sensor, segment, tconn, receiver, exists, queue>>
  BY DEF TxCopy, TxAt, TxGoes, Running
<1>2. TypeOK'
  BY <1>1 DEF IInv, TypeOK, threads, sensor, receiver, SenderState
<1>3. ThreadSound' /\ TxSound' /\ RxSound' /\ Window'
  BY <1>1, Sizes, SameWindow DEF IInv, ThreadSound, TxSound, RxSound, threads, sensor, receiver
<1>4. InLine'
  <2>1. cache \in List
    BY DEF IInv, TypeOK
  <2>2. Before(cache, cache)
    BY <2>1, BeforeSelf
  <2> QED BY <1>1, <2>2 DEF IInv, InLine, sensor, receiver
<1> QED BY <1>2, <1>3, <1>4 DEF IInv

LEMMA SendInv == ASSUME IInv, TxSend PROVE IInv'
<1>1. /\ Copying /\ tpc' = "test" /\ tstate' = "IDLE" /\ tconn
      /\ SendMessage(msg) \/ SendTimesOut
      /\ UNCHANGED <<threads, sensor, segment, tconn, msg, receiver>>
  BY DEF TxSend, TxGoes
<1>2. /\ queue \in Seq(List) /\ msg \in List /\ exists \in BOOLEAN /\ Len(queue) \in Nat
      /\ Len(queue) <= MaxMsgs /\ \A i \in DOMAIN queue : queue[i] \in List /\ 1..i \subseteq DOMAIN queue
  BY QueueFacts DEF IInv, TypeOK
<1>3. CASE SendTimesOut
  <2>1. TypeOK'
    BY <1>1, <1>3 DEF IInv, TypeOK, threads, sensor, receiver, SenderState, SendTimesOut
  <2>2. ThreadSound' /\ TxSound' /\ RxSound' /\ Window'
    BY <1>1, SameWindow DEF IInv, ThreadSound, TxSound, RxSound, threads, sensor, receiver, Copying,
                            Running
  <2>3. InLine'
    BY <1>1, <1>3, SameLine DEF IInv, SendTimesOut, sensor, receiver
  <2> QED BY <2>1, <2>2, <2>3 DEF IInv
<1>4. CASE SendMessage(msg)
  <2>1. queue' = Append(queue, msg) /\ Len(queue) < MaxMsgs /\ exists' = exists
    BY <1>4 DEF SendMessage
  <2>2. queue' \in Seq(List) /\ Len(queue') <= MaxMsgs
    <3>1. Append(queue, msg) \in Seq(List) /\ Len(Append(queue, msg)) = Len(queue) + 1
      BY <1>2, AppendFacts
    <3> QED BY <1>2, <2>1, <3>1, MaxMsgsAssumption
  <2>3. TypeOK'
    BY <1>1, <2>1, <2>2 DEF IInv, TypeOK, threads, sensor, receiver, SenderState
  <2>4. ThreadSound' /\ TxSound' /\ RxSound' /\ Window'
    BY <1>1, SameWindow DEF IInv, ThreadSound, TxSound, RxSound, threads, sensor, receiver, Copying,
                            Running
  <2>5. ~Copying'
    BY <1>1 DEF Copying
  <2>6. \A i \in DOMAIN queue' :
          \/ /\ i \in DOMAIN queue /\ queue'[i] = queue[i]
             /\ \A j \in 1..i : j \in DOMAIN queue /\ queue'[j] = queue[j]
          \/ /\ queue'[i] = msg
             /\ \A j \in 1..i : (j \in DOMAIN queue /\ queue'[j] = queue[j]) \/ j = i
    BY <1>2, <2>1, AppendFacts
  <2>7. /\ Before(rx, msg) /\ Before(msg, cache) /\ Before(msg, msg)
        /\ \A i \in DOMAIN queue : Before(queue[i], msg)
    BY <1>1, <1>2, BeforeSelf DEF IInv, InLine
  <2>8. InLine'
    <3> SUFFICES ASSUME NEW i \in DOMAIN queue'
                 PROVE  /\ Before(rx, queue'[i]) /\ Before(queue'[i], cache)
                        /\ \A j \in 1..i : Before(queue'[j], queue'[i])
      BY <1>1, <2>5 DEF IInv, InLine, sensor, receiver, Before
    <3>1. CASE /\ i \in DOMAIN queue /\ queue'[i] = queue[i]
               /\ \A j \in 1..i : j \in DOMAIN queue /\ queue'[j] = queue[j]
      BY <3>1 DEF IInv, InLine
    <3>2. CASE /\ queue'[i] = msg
               /\ \A j \in 1..i : (j \in DOMAIN queue /\ queue'[j] = queue[j]) \/ j = i
      BY <2>7, <3>2
    <3> QED BY <2>6, <3>1, <3>2
  <2> QED BY <2>3, <2>4, <2>8 DEF IInv
<1> QED BY <1>1, <1>3, <1>4

LEMMA TxInv == ASSUME IInv, TxThread PROVE IInv'
<1>0. /\ life \in [Object -> Life] /\ segment \in Int /\ exists \in BOOLEAN
  BY DEF IInv, TypeOK
<1>1. CASE TxInit \/ TxJoin \/ TxIdle \/ TxTest \/ TxThrows \/ TxCrashes
  <2> USE DEF TxInit, TxJoin, TxIdle, TxTest, TxThrows, TxCrashes, TxAt, TxGoes, Returns, Crashes,
              Becomes, Running, Copying, threads, sensor, sender, receiver
  <2>1. UNCHANGED <<handle, shutdown, owner, taken, cache, msg, rstate, rpc, rconn, rx, exists, queue>>
    BY <1>1
  <2>2. tstate' \in SenderState /\ tpc' \in {"run", "copying", "test"} /\ tconn' \in BOOLEAN
    <3>1. tconn' \in {tconn, exists}
      BY <1>1
    <3>2. tconn' \in BOOLEAN
      BY <1>0, <3>1 DEF IInv, TypeOK
    <3> QED BY <1>1, <3>2 DEF IInv, TypeOK, SenderState
  <2>3. segment' \in Int /\ (segment' <= Segments \/ segment' \in FreshSegment)
    <3>1. segment' = segment \/ segment' = 0 \/ (segment' = segment + 1 /\ ~(segment >= Segments))
      BY <1>1
    <3> QED BY <1>0, <3>1, Sizes DEF IInv, TypeOK
  <2>4. /\ life' \in [Object -> Life] /\ \A o \in Object : o # "sender" => life'[o] = life[o]
        /\ life["sender"] = "running" /\ life'["sender"] \in {"running", "returned", "crashed"}
        /\ life'["sender"] = "crashed" => TxCrashes
    BY <1>0, <1>1, Sizes DEF Life
  <2>5. TypeOK'
    BY <2>1, <2>2, <2>3, <2>4 DEF IInv, TypeOK
  <2>6. TxSound'
    <3>1. tpc' = "copying" => tpc = "copying" /\ tstate' = tstate
      BY <1>1
    <3>2. "sender" \in handle
      BY <2>4, Sizes DEF IInv, ThreadSound
    <3>3. tstate' \in {"IDLE", "SENDING"} => tconn' \/ (tstate \in {"IDLE", "SENDING"} /\ tconn' = tconn)
      BY <1>1
    <3> QED BY <2>1, <3>1, <3>2, <3>3 DEF IInv, TxSound
  <2>7. TxCrashes => owner["sender"] # "using"
    BY DEF IInv, TxSound
  <2>8. ThreadSound' /\ RxSound'
    BY <2>1, <2>4, <2>7 DEF IInv, ThreadSound, RxSound
  <2>9. InLine' /\ Window'
    <3>1. Copying' => Copying
      BY <1>1, <2>4
    <3> QED BY <2>1, <3>1, SameLine, SameWindow DEF IInv
  <2> QED BY <2>5, <2>6, <2>8, <2>9 DEF IInv
<1> QED BY <1>1, CopyInv, SendInv DEF TxThread
-------------------------------------------------------------------------------
(* The receiver's thread.                                                  *)
LEMMA ReceiveLine ==
  ASSUME TypeOK, InLine, RxReceive, UNCHANGED <<cache, msg>>, Copying' = Copying
  PROVE  rx' \in List /\ queue' \in Seq(List) /\ Len(queue') <= MaxMsgs /\ InLine'
<1> DEFINE m == Head(queue)
<1>1. queue \in Seq(List) /\ queue # <<>> /\ queue' = Tail(queue) /\ rx' \in Read(m)
  BY DEF TypeOK, RxReceive, TakeMessage
<1>2. /\ m \in List /\ m = queue[1] /\ 1 \in DOMAIN queue
      /\ Tail(queue) \in Seq(List) /\ Len(Tail(queue)) = Len(queue) - 1 /\ Len(queue) \in Nat
      /\ \A i \in DOMAIN Tail(queue) : /\ i + 1 \in DOMAIN queue /\ Tail(queue)[i] = queue[i + 1]
                                        /\ \A j \in 1..i : j + 1 \in 1..(i + 1) /\ Tail(queue)[j] = queue[j + 1]
                                        /\ 1 \in 1..(i + 1)
  BY <1>1, TailFacts, QueueFacts
<1>3. \A i \in DOMAIN queue : queue[i] \in List
  BY <1>1, QueueFacts
<1>4. rx' \in List /\ Before(rx', m)
  <2>1. CASE rx' = m
    BY <1>2, <2>1, BeforeSelf
  <2>2. CASE m # <<>> /\ rx' = [m EXCEPT ![Kept] = Garbled]
    <3>1. m \in [1..Kept -> Sample] /\ Garbled \in Sample /\ Garbled.n = 0
      BY <1>2, <2>2, Sizes DEF List, Sample, Garbled
    <3>2. rx' \in [1..Kept -> Sample] /\ \A i \in 1..Kept : rx'[i] \in {m[i], Garbled}
      BY <2>2, <3>1
    <3>3. \A i \in 1..Kept : m[i].n \in Nat /\ rx'[i].n <= m[i].n
      <4>1. \A i \in 1..Kept : m[i].n \in Nat
        BY <1>2, <3>1, Lists
      <4> QED BY <3>1, <3>2, <4>1
    <3> QED BY <3>1, <3>2, <3>3 DEF Before, List
  <2> QED BY <1>1, <2>1, <2>2 DEF Read
<1>5. \A i \in DOMAIN queue : Before(m, queue[i])
  BY <1>2, <1>3, QueueFacts, <1>1 DEF InLine
<1>6. Before(m, cache) /\ (Copying => Before(m, msg))
  BY <1>2 DEF InLine
<1>7. cache \in List /\ msg \in List
  BY DEF TypeOK
<1>8. /\ Before(rx', cache) /\ (Copying => Before(rx', msg))
      /\ \A i \in DOMAIN queue : Before(rx', queue[i])
  BY <1>2, <1>3, <1>4, <1>5, <1>6, <1>7, BeforeTrans
<1>9. InLine'
  <2>1. \A i \in DOMAIN queue' : /\ Before(rx', queue'[i]) /\ Before(queue'[i], cache)
                                 /\ (Copying => Before(queue'[i], msg))
                                 /\ \A j \in 1..i : Before(queue'[j], queue'[i])
    BY <1>1, <1>2, <1>8 DEF InLine
  <2>2. Copying => Before(msg, cache)
    BY DEF InLine
  <2> QED BY <1>8, <2>1, <2>2 DEF InLine
<1>10. Len(queue') <= MaxMsgs
  BY <1>1, <1>2, MaxMsgsAssumption DEF TypeOK
<1> QED BY <1>1, <1>2, <1>4, <1>9, <1>10

(* A queue that is created, or that loses its oldest message.              *)
LEMMA ShorterLine ==
  ASSUME TypeOK, InLine, UNCHANGED <<cache, msg, rx>>, Copying' = Copying,
         queue' = <<>> \/ (queue # <<>> /\ queue' = Tail(queue))
  PROVE  queue' \in Seq(List) /\ Len(queue') <= MaxMsgs /\ InLine'
<1>1. CASE queue' = <<>>
  <2>1. queue' \in Seq(List) /\ Len(queue') = 0 /\ DOMAIN queue' = {}
    BY <1>1
  <2> QED BY <2>1, MaxMsgsAssumption DEF InLine, Before
<1>2. CASE queue # <<>> /\ queue' = Tail(queue)
  <2>1. queue \in Seq(List)
    BY DEF TypeOK
  <2>2. /\ Tail(queue) \in Seq(List) /\ Len(Tail(queue)) = Len(queue) - 1 /\ Len(queue) \in Nat
        /\ \A i \in DOMAIN Tail(queue) : /\ i + 1 \in DOMAIN queue /\ Tail(queue)[i] = queue[i + 1]
                                          /\ \A j \in 1..i : j + 1 \in 1..(i + 1)
                                                             /\ Tail(queue)[j] = queue[j + 1]
    BY <1>2, <2>1, TailFacts, QueueFacts
  <2>3. Len(queue') <= MaxMsgs
    BY <1>2, <2>2, MaxMsgsAssumption DEF TypeOK
  <2>4. \A i \in DOMAIN queue' : /\ Before(rx, queue'[i]) /\ Before(queue'[i], cache)
                                 /\ (Copying => Before(queue'[i], msg))
                                 /\ \A j \in 1..i : Before(queue'[j], queue'[i])
    BY <1>2, <2>2 DEF InLine
  <2> QED BY <1>2, <2>2, <2>3, <2>4 DEF InLine
<1> QED BY <1>1, <1>2

LEMMA RxInv == ASSUME IInv, RxThread PROVE IInv'
<1> USE DEF RxAt, RxGoes, Returns, Crashes, Becomes, Running, threads, sensor, sender, receiver
<1>0. life \in [Object -> Life]
  BY DEF IInv, TypeOK
<1>1. /\ UNCHANGED <<handle, shutdown, owner, taken, cache, msg, tstate, tpc, segment, tconn>>
      /\ life' \in [Object -> Life] /\ \A o \in Object : o # "receiver" => life'[o] = life[o]
      /\ life["receiver"] = "running" /\ life'["receiver"] \in {"running", "returned", "crashed"}
      /\ life'["receiver"] = "crashed" => RxCrashes
  <2>1. CASE RxInit \/ RxCreate \/ RxReceive \/ RxListened \/ RxCheck
    BY <1>0, <2>1, Sizes DEF RxInit, RxCreate, RxReceive, RxListened, RxCheck, Life
  <2>2. CASE RxThrows \/ RxCrashes \/ RxTest
    BY <1>0, <2>2, Sizes DEF RxThrows, RxCrashes, RxTest, Life
  <2> QED BY <2>1, <2>2 DEF RxThread
<1>2. Copying' = Copying
  BY <1>1, Sizes DEF Copying
<1>3. /\ rstate' \in ReceiverState /\ rpc' \in {"run", "test"} /\ rconn' \in BOOLEAN
      /\ rstate' \in {"LISTENING", "CHECK_VALUES"} =>
           rconn' \/ (rstate \in {"LISTENING", "CHECK_VALUES"} /\ rconn' = rconn)
  <2>1. rconn \in BOOLEAN /\ rstate \in ReceiverState /\ rpc \in {"run", "test"}
    BY DEF IInv, TypeOK
  <2>2. /\ rstate' \in ReceiverState /\ rpc' \in {"run", "test"}
        /\ rconn' = rconn \/ rconn' = TRUE
        /\ rstate' \in {"LISTENING", "CHECK_VALUES"} =>
             rconn' \/ (rstate \in {"LISTENING", "CHECK_VALUES"} /\ rconn' = rconn)
    BY <2>1 DEF RxThread, RxInit, RxCreate, RxReceive, RxThrows, RxListened, RxCrashes, RxCheck,
                RxTest, ReceiverState
  <2>3. rconn' \in BOOLEAN
    BY <2>1, <2>2
  <2> QED BY <2>2, <2>3
<1>4. /\ rx' \in List /\ queue' \in Seq(List) /\ Len(queue') <= MaxMsgs /\ exists' \in BOOLEAN
      /\ InLine'
  <2>1. exists' \in {exists, TRUE}
    BY DEF RxThread, RxInit, RxCreate, RxReceive, RxThrows, RxListened, RxCrashes, RxCheck, RxTest,
           Connect, TakeMessage, NoMessage
  <2>2. exists' \in BOOLEAN
    BY <2>1 DEF IInv, TypeOK
  <2>3. CASE RxReceive
    BY <1>1, <1>2, <2>2, <2>3, ReceiveLine DEF IInv
  <2>4. CASE RxCreate \/ RxThrows
    <3>1. rx' = rx /\ (queue' = <<>> \/ (queue # <<>> /\ queue' = Tail(queue)))
      BY <2>4 DEF RxCreate, Connect, RxThrows, TakeMessage
    <3> QED BY <1>1, <1>2, <2>2, <3>1, ShorterLine DEF IInv, TypeOK
  <2>5. CASE RxInit \/ RxListened \/ RxCrashes \/ RxCheck \/ RxTest
    <3>1. UNCHANGED <<rx, queue>>
      BY <2>5 DEF RxInit, RxListened, RxCrashes, RxCheck, RxTest, NoMessage
    <3> QED BY <1>1, <1>2, <2>2, <3>1, SameLine DEF IInv, TypeOK
  <2> QED BY <2>3, <2>4, <2>5 DEF RxThread
<1>5. TypeOK'
  BY <1>1, <1>3, <1>4 DEF IInv, TypeOK
<1>6. RxCrashes => owner["receiver"] # "using"
  BY DEF IInv, RxSound, RxCrashes
<1>7. ThreadSound' /\ TxSound' /\ RxSound'
  BY <1>1, <1>3, <1>6 DEF IInv, ThreadSound, TxSound, RxSound
<1>8. Window'
  BY <1>1, SameWindow DEF IInv
<1> QED BY <1>4, <1>5, <1>7, <1>8 DEF IInv
-------------------------------------------------------------------------------
(* No step spoils the invariant.                                           *)
LEMMA NextInv == IInv /\ [Next]_vars => IInv'
<1> SUFFICES ASSUME IInv, [Next]_vars PROVE IInv'
  OBVIOUS
<1>1. CASE UNCHANGED vars
  <2>1. UNCHANGED <<handle, shutdown, life, owner, taken, cache, tstate, tpc, segment, tconn, msg,
                    rstate, rpc, rconn, rx, exists, queue>>
    BY <1>1 DEF vars, threads, sensor, sender, receiver
  <2>2. TypeOK'
    BY <2>1 DEF IInv, TypeOK
  <2>3. ThreadSound' /\ TxSound' /\ RxSound' /\ Copying' = Copying
    BY <2>1 DEF IInv, ThreadSound, TxSound, RxSound, Copying, Running
  <2>4. InLine' /\ Window'
    BY <2>1, <2>3, SameLine, SameWindow DEF IInv
  <2> QED BY <2>2, <2>3, <2>4 DEF IInv
<1>2. ASSUME NEW o \in Object, StartObject(o) \/ Destructor(o) PROVE IInv'
  BY <1>2, StartInv, DestructorInv
<1> QED BY <1>1, <1>2, PrefillInv, MeasureInv, TxInv, RxInv DEF Next

THEOREM Invariant == Spec => []IInv
BY InitInv, NextInv, PTL DEF Spec

(* Sync::Sender, Sync::Receiver and their owners stay well formed, and the *)
(* sender never counts beyond its segments.                                *)
THEOREM TypeCorrect == Spec => []TypeOK
<1>1. IInv => TypeOK
  BY DEF IInv
<1> QED BY Invariant, <1>1, PTL

(* Samples travel in the order they were taken, although the sensor        *)
(* assigns the list while the sender's thread copies it, and messages are  *)
(* refused, dropped by an exception or misread.                            *)
THEOREM SamplesOrdered == Spec => []InOrder
<1>1. IInv => InOrder
  BY LineIsOrder DEF IInv
<1> QED BY Invariant, <1>1, PTL

(* Only a destructor, which disconnects the queue under the running        *)
(* thread, can make a thread crash.                                        *)
THEOREM CrashesOnlyAtTheEnd == Spec => []CrashOnlyInDestructor
<1>1. IInv => CrashOnlyInDestructor
  BY DEF IInv, ThreadSound, CrashOnlyInDestructor
<1> QED BY Invariant, <1>1, PTL
===============================================================================
