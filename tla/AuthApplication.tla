--------------------------- MODULE AuthApplication ---------------------------
(***************************************************************************)
(* Assignment4: one browser session.  Wt authenticates the users and tells *)
(* AuthApplication that someone has logged in or out; the application      *)
(* keeps users and sessions in the maps of a UserManager and a             *)
(* SessionManager of its own, and shows the panel of the user's level.  It *)
(* looks a user up by login name and stores it by id: two kinds of key in  *)
(* one map.                                                                *)
(***************************************************************************)
EXTENDS Sequences, Naturals

CONSTANTS
  Uid,             \* the ids of the users Wt knows
  Admin, Elevated, \* the first and the second of them
  PresetLevel,     \* the levels of the keys createUserManager adds
  Name,            \* the login names users may have chosen
  None             \* nobody

Level == {"NORMAL", "ELEVATED", "ADMIN"}
Preset == DOMAIN PresetLevel

ASSUME AuthAssumption == /\ {Admin, Elevated} \subseteq Uid /\ Admin # Elevated
                         /\ PresetLevel \in [Preset -> Level]
                         /\ Preset \cap Uid = {} /\ None \notin Uid

VARIABLES
  name,    \* the login name of each user, in Wt's database
  login,   \* the user logged in, as Wt knows
  users,   \* _users: the level of each key
  session, \* _session_to_user of this session
  panels,  \* the panels on the page, in the order they were added
  current, \* the panel _pCurrentPanel points at, 0 if it points at none
  crashed  \* the pointer was used when it pointed at none

vars == <<name, login, users, session, panels, current, crashed>>

(* createApplication; the pointer is not initialized.                      *)
Init == /\ name \in {f \in [Uid -> Name] : \A u, v \in Uid : f[u] = f[v] => u = v}
        /\ login = None
        /\ users = PresetLevel
        /\ session = None
        /\ panels = <<>> /\ current = 0 /\ crashed = FALSE

checkExist(key) == key \in DOMAIN users

(* The first user is the admin, the second has elevated permissions.       *)
PermLevel(u) == IF u = Admin THEN "ADMIN" ELSE IF u = Elevated THEN "ELEVATED" ELSE "NORMAL"

(* addUser: emplace does not replace what is there.                        *)
addUser(u) == users' = [k \in DOMAIN users \cup {u} |->
                          IF checkExist(k) THEN users[k] ELSE PermLevel(u)]

(* The panel of each level.                                                *)
Panel == [NORMAL |-> "Student Panel", ELEVATED |-> "Instructor Panel", ADMIN |-> "Admin Panel"]
Titles == {Panel[l] : l \in Level}

(* Mutant: the user is fetched by login name, too.                         *)
ShowsByName(u) == IF name[u] \in DOMAIN users'
                  THEN panels' = Append(panels, Panel[users'[name[u]]]) /\ current' = Len(panels')
                  ELSE UNCHANGED <<panels, current>>

(* The panel of the level of the user with this id, if there is one.       *)
Shows(u) == IF u \in DOMAIN users'
            THEN panels' = Append(panels, Panel[users'[u]]) /\ current' = Len(panels')
            ELSE UNCHANGED <<panels, current>>

(* Mutant: the new panel is not remembered.                                *)
ForgetsPanel(u) == /\ ~crashed /\ login = None /\ login' = u
                   /\ IF checkExist(name[u]) THEN UNCHANGED users ELSE addUser(u)
                   /\ session' = u
                   /\ panels' = Append(panels, Panel[PermLevel(u)]) /\ UNCHANGED current
                   /\ UNCHANGED <<name, crashed>>

(* authEvent when a user has logged in.                                    *)
LogsIn(u) == /\ ~crashed /\ login = None /\ login' = u
             /\ IF checkExist(name[u]) THEN UNCHANGED users ELSE addUser(u)
             /\ session' = u
             /\ Shows(u)
             /\ UNCHANGED <<name, crashed>>

(* authEvent when the user has logged out: the panel is removed and        *)
(* destroyed, and the pointer dangles.  With a pointer to no panel the     *)
(* page may stay as it is, or the application crash.                       *)
LogsOut == /\ ~crashed /\ login # None /\ login' = None
           /\ \/ /\ current \in DOMAIN panels
                 /\ panels' = SubSeq(panels, 1, current - 1)
                              \o SubSeq(panels, current + 1, Len(panels))
                 /\ current' = 0 /\ session' = None /\ UNCHANGED crashed
              \/ /\ current \notin DOMAIN panels
                 /\ \/ session' = None /\ UNCHANGED crashed
                    \/ crashed' = TRUE /\ UNCHANGED session
                 /\ UNCHANGED <<panels, current>>
           /\ UNCHANGED <<name, users>>

Next == LogsOut \/ \E u \in Uid : LogsIn(u)

Spec == Init /\ [][Next]_vars
-------------------------------------------------------------------------------
(* The types; there is never more than one panel on the page.              *)
TypeOK == /\ name \in [Uid -> Name] /\ login \in Uid \cup {None}
          /\ DOMAIN users \subseteq Preset \cup Uid /\ \A k \in DOMAIN users : users[k] \in Level
          /\ session \in Uid \cup {None}
          /\ panels \in Seq(Titles) /\ Len(panels) <= 1
          /\ current \in 0..Len(panels) /\ crashed \in BOOLEAN

(* A panel on the page is that of the user who is logged in, whoever was   *)
(* logged in before and whatever names the users have; after a logout      *)
(* there is none.                                                          *)
PanelOfUser ==
  panels # <<>> => login # None /\ session = login /\ panels = <<Panel[PermLevel(login)]>>

(* The pointer a logout uses points at the panel of the user, unless the   *)
(* user's login name is the key of another: a preset one, or another's id. *)
PointerValid ==
  login # None => current \in DOMAIN panels \/ name[login] \in Preset \cup (Uid \ {login})
===============================================================================
