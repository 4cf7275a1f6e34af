------------------------------ MODULE AuthProofs ------------------------------
(* What a session of AuthApplication shows, for any users, names and preset *)
(* keys.                                                                   *)
EXTENDS AuthApplication, SequenceTheorems, TLAPS

(* A user stored by id has the level of that id, whoever's login stored    *)
(* it.                                                                     *)
StoredRight == \A u \in Uid : checkExist(u) => users[u] = PermLevel(u)

(* The pointer points at the only panel, if there is one.                  *)
PointsAtPanel == panels # <<>> => current = 1

IInv == TypeOK /\ StoredRight /\ PointsAtPanel /\ PanelOfUser /\ PointerValid

LEMMA Levels == \A u : PermLevel(u) \in Level
BY DEF PermLevel, Level

LEMMA PanelsAreTitles == \A l \in Level : Panel[l] \in Titles
BY DEF Titles

(* A session starts with an empty page and the preset users, none of whom  *)
(* has the id of a user.                                                   *)
LEMMA InitInv == Init => IInv
<1> SUFFICES ASSUME Init PROVE IInv
  OBVIOUS
<1> USE AuthAssumption DEF Init
<1>1. TypeOK
  <2>1. name \in [Uid -> Name]
    OBVIOUS
  <2>2. DOMAIN users \subseteq Preset \cup Uid /\ \A k \in DOMAIN users : users[k] \in Level
    OBVIOUS
  <2>3. panels \in Seq(Titles) /\ Len(panels) = 0
    OBVIOUS
  <2>4. login \in Uid \cup {None} /\ session \in Uid \cup {None} /\ crashed \in BOOLEAN
    OBVIOUS
  <2>5. current \in 0..Len(panels)
    BY <2>3
  <2> QED BY <2>1, <2>2, <2>3, <2>4, <2>5 DEF TypeOK
<1>2. StoredRight
  BY DEF StoredRight, checkExist, Preset
<1>3. PointsAtPanel /\ PanelOfUser /\ PointerValid
  BY DEF PointsAtPanel, PanelOfUser, PointerValid
<1> QED BY <1>1, <1>2, <1>3 DEF IInv

(* What a login stores: nothing, or the user under its id.                 *)
LEMMA Stored ==
  ASSUME IInv, NEW u \in Uid, LogsIn(u)
  PROVE  /\ DOMAIN users' \subseteq Preset \cup Uid
         /\ \A k \in DOMAIN users' : users'[k] \in Level
         /\ \A v \in Uid \cap DOMAIN users' : users'[v] = PermLevel(v)
         /\ u \in DOMAIN users' \/ name[u] \in DOMAIN users \ {u}
<1>1. CASE checkExist(name[u])
  <2>1. users' = users
    BY <1>1 DEF LogsIn
  <2> QED BY <1>1, <2>1 DEF IInv, TypeOK, StoredRight, checkExist
<1>2. CASE ~checkExist(name[u])
  <2>1. addUser(u)
    BY <1>2 DEF LogsIn
  <2>2. DOMAIN users' = DOMAIN users \cup {u}
    BY <2>1 DEF addUser
  <2>3. \A k \in DOMAIN users : users'[k] = users[k]
    BY <2>1 DEF addUser, checkExist
  <2>4. ~checkExist(u) => users'[u] = PermLevel(u)
    BY <2>1 DEF addUser, checkExist
  <2>5. \A v \in Uid \cap DOMAIN users' : users'[v] = PermLevel(v)
    BY <2>2, <2>3, <2>4 DEF IInv, StoredRight, checkExist
  <2>6. \A k \in DOMAIN users' : users'[k] \in Level
    BY <2>2, <2>3, <2>5, Levels DEF IInv, TypeOK
  <2> QED BY <2>2, <2>5, <2>6 DEF IInv, TypeOK
<1> QED BY <1>1, <1>2

(* A login finds an empty page and leaves the panel of the user's level on *)
(* it, if the user is stored.                                              *)
LEMMA LogsInInv == ASSUME IInv, NEW u \in Uid, LogsIn(u) PROVE IInv'
<1>1. /\ login = None /\ login' = u /\ session' = u /\ u # None
      /\ name' = name /\ crashed' = crashed
  BY AuthAssumption DEF LogsIn
<1>2. panels = <<>> /\ current = 0
  BY <1>1 DEF IInv, TypeOK, PanelOfUser
<1>3. Shows(u)
  BY DEF LogsIn
<1>4. CASE u \in DOMAIN users'
  <2>1. panels' = <<Panel[PermLevel(u)]>> /\ current' = 1
    BY <1>2, <1>3, <1>4, Stored DEF Shows
  <2>2. Panel[PermLevel(u)] \in Titles
    BY Levels, PanelsAreTitles
  <2>3. panels' \in Seq(Titles) /\ Len(panels') = 1 /\ DOMAIN panels' = {1}
    BY <2>1, <2>2
  <2>4. TypeOK'
    BY <1>1, <2>1, <2>3, Stored DEF TypeOK, IInv
  <2>5. StoredRight'
    BY Stored DEF StoredRight, checkExist
  <2>6. PointsAtPanel' /\ PanelOfUser' /\ PointerValid'
    BY <1>1, <2>1, <2>3 DEF PointsAtPanel, PanelOfUser, PointerValid, PermLevel
  <2> QED BY <2>4, <2>5, <2>6 DEF IInv
<1>5. CASE u \notin DOMAIN users'
  <2>1. panels' = <<>> /\ current' = 0
    BY <1>2, <1>3, <1>5 DEF Shows
  <2>2. TypeOK'
    BY <1>1, <2>1, Stored DEF TypeOK, IInv
  <2>3. StoredRight'
    BY Stored DEF StoredRight, checkExist
  <2>4. name[u] \in Preset \cup (Uid \ {u})
    BY <1>5, Stored DEF IInv, TypeOK
  <2>5. PointsAtPanel' /\ PanelOfUser' /\ PointerValid'
    BY <1>1, <2>1, <2>4 DEF PointsAtPanel, PanelOfUser, PointerValid
  <2> QED BY <2>2, <2>3, <2>5 DEF IInv
<1> QED BY <1>4, <1>5

(* A logout empties the page.                                              *)
LEMMA LogsOutInv == ASSUME IInv, LogsOut PROVE IInv'
<1>1. login' = None /\ users' = users /\ name' = name
  BY DEF LogsOut
<1>2. panels' = <<>> /\ current' = 0
  <2>1. CASE current \in DOMAIN panels
    <3>1. panels' = SubSeq(panels, 1, current - 1) \o SubSeq(panels, current + 1, Len(panels))
      BY <2>1 DEF LogsOut
    <3>2. panels \in Seq(Titles) /\ Len(panels) = 1 /\ current = 1
      <4>1. panels \in Seq(Titles) /\ Len(panels) <= 1
        BY DEF IInv, TypeOK
      <4>2. panels # <<>>
        BY <2>1
      <4>3. Len(panels) \in Nat /\ Len(panels) # 0
        BY <4>1, <4>2, EmptySeq, LenProperties
      <4> QED BY <4>1, <4>2, <4>3 DEF IInv, PointsAtPanel
    <3>3. SubSeq(panels, 1, 0) = <<>> /\ SubSeq(panels, 2, 1) = <<>>
      BY <3>2
    <3>4. panels' = <<>>
      BY <3>1, <3>2, <3>3
    <3> QED BY <2>1, <3>4 DEF LogsOut
  <2>2. CASE current \notin DOMAIN panels
    <3>1. panels = <<>> /\ current = 0
      <4>1. panels \in Seq(Titles) /\ current \in 0..Len(panels)
        BY DEF IInv, TypeOK
      <4>2. current = 0
        BY <2>2, <4>1
      <4> QED BY <4>2 DEF IInv, PointsAtPanel
    <3> QED BY <2>2, <3>1 DEF LogsOut
  <2> QED BY <2>1, <2>2
<1>3. session' \in Uid \cup {None} /\ crashed' \in BOOLEAN
  BY DEF LogsOut, IInv, TypeOK
<1>4. TypeOK'
  BY <1>1, <1>2, <1>3 DEF IInv, TypeOK
<1>5. StoredRight'
  BY <1>1 DEF IInv, StoredRight, checkExist
<1>6. PointsAtPanel' /\ PanelOfUser' /\ PointerValid'
  BY <1>1, <1>2 DEF PointsAtPanel, PanelOfUser, PointerValid
<1> QED BY <1>4, <1>5, <1>6 DEF IInv

(* No event spoils the invariant.                                          *)
LEMMA NextInv == IInv /\ [Next]_vars => IInv'
<1> SUFFICES ASSUME IInv, [Next]_vars PROVE IInv'
  OBVIOUS
<1>1. CASE LogsOut
  BY <1>1, LogsOutInv
<1>2. ASSUME NEW u \in Uid, LogsIn(u) PROVE IInv'
  BY <1>2, LogsInInv
<1>3. CASE UNCHANGED vars
  BY <1>3 DEF vars, IInv, TypeOK, StoredRight, checkExist, PointsAtPanel, PanelOfUser,
              PointerValid
<1> QED BY <1>1, <1>2, <1>3 DEF Next

(* The page of a session always has at most one panel, and the maps and    *)
(* the pointer keep their types, for any users, names and preset keys.     *)
THEOREM TypeCorrect == Spec => []TypeOK
<1>1. IInv => TypeOK
  BY DEF IInv
<1> QED BY InitInv, NextInv, <1>1, PTL DEF Spec

(* authEvent never shows somebody else's panel.                            *)
THEOREM OwnPanel == Spec => []PanelOfUser
<1>1. IInv => PanelOfUser
  BY DEF IInv
<1> QED BY InitInv, NextInv, <1>1, PTL DEF Spec

(* The logout of a user whose name is nobody else's key removes the panel  *)
(* the pointer points at.                                                  *)
THEOREM PointerSound == Spec => []PointerValid
<1>1. IInv => PointerValid
  BY DEF IInv
<1> QED BY InitInv, NextInv, <1>1, PTL DEF Spec
===============================================================================
