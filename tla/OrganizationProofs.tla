------------------------- MODULE OrganizationProofs -------------------------
(***************************************************************************)
(* Theorems about an organisation, for any people, firms, ids and limits:  *)
(* its people and branches (Organization), its places (Places) and its     *)
(* photographs in the storage service (Files).                             *)
(*                                                                         *)
(* People and branches: a request that acts on what it has counted or read *)
(* still finds it so, because what it needs is kept from the others by a   *)
(* lock (the room, the branches, the founder) or by being the only one     *)
(* that knows the password of a new login.                                 *)
(*                                                                         *)
(* Places: whoever has counted holds the lock, so the count is still an    *)
(* upper bound of the live places when the place is written.               *)
(***************************************************************************)
EXTENDS Organization, Places, Files, FiniteSetTheorems, WellFoundedInduction, TLAPS

-----------------------------------------------------------------------------
(* The people and the branches.                                            *)

Deletion == [stage : {"no", "data", "purge", "login"}, owned : SUBSET Firms]

OrganizationTyped ==
  /\ firm \in [Firms -> Firm \cup {NoFirm, GoneFirm}]
  /\ member \in [People -> [Firms -> Member \cup {NoMember}]]
  /\ branch \in [Branches -> {"none", "open", "archived"}]
  /\ login \in [People -> {"none", "own", "given", "taken", "deleted"}]
  /\ profile \subseteq People
  /\ desk \in [Desks -> {NoTask} \cup DeskTask]
  /\ leaving \in [People -> Deletion]

OfBranch(t) == t.do \in {"open", "archive"}
Trader(f) == There(f) /\ firm[f].type = "trader"

(* What a request is about.                                                *)
AboutThis(t) ==
  /\ ~OfBranch(t) => t.who \in People /\ (t.do # "found" => t.open)
  /\ OfBranch(t) => t.branch \in Branches /\ FirmOf[t.branch] = t.firm
  /\ t.do = "found" <=> firm[t.firm] = NoFirm
  /\ t.login => t.do \in {"room", "write", "undo"}
  /\ t.do = "undo" => t.login

(* What it has counted or read before.                                     *)
StillSo(t) ==
  /\ t.do = "write" /\ Trader(t.firm) => RoomFor(t.firm)
  /\ t.do = "open" => BranchRoom(t.firm)
  /\ t.do = "archive" => \A p \in InBranch(t.branch) : member[p][t.firm].raced
  /\ t.do = "found" => Owned(t.who) = {} /\ login[t.who] # "none"
  /\ t.login => login[t.who] = "given" /\ t.who \notin profile /\ ~Going(t.who)

NeedsKey(t) == OfBranch(t) \/ t.do = "found" \/ (t.do = "write" /\ Trader(t.firm))

Clash(t, u) ==
  \/ NeedsKey(t) /\ NeedsKey(u) /\ KeyOf(t) = KeyOf(u)
  \/ t.do = "found" /\ u.do = "found" /\ t.firm = u.firm
  \/ t.who = u.who /\ (t.login \/ t.do = "found") /\ (u.login \/ u.do = "found")

DesksSound ==
  \A d \in Desks : desk[d] # NoTask =>
    /\ AboutThis(desk[d]) /\ StillSo(desk[d])
    /\ NeedsKey(desk[d]) => KeyOf(desk[d]) \in held

DesksApart ==
  \A d, e \in Desks : d # e /\ desk[d] # NoTask /\ desk[e] # NoTask => ~Clash(desk[d], desk[e])

LoginsSound ==
  /\ \A p \in profile : login[p] \in {"own", "taken", "deleted"}
  /\ NoStrayLogin

FirmsSound ==
  \A f \in Firms :
    /\ firm[f] = NoFirm => \A p \in People : member[p][f] = NoMember
    /\ There(f) =>
         /\ member[firm[f].founder][f] # NoMember
         /\ \A p \in People :
              member[p][f] # NoMember => (member[p][f].role = "owner" <=> p = firm[f].founder)

(* A deletion holds every firm of the person but those founded meanwhile;  *)
(* once it has the rows, nobody else is in them.                           *)
LeavingSound ==
  \A p \in People : Going(p) =>
    /\ login[p] # "none"
    /\ \A f \in leaving[p].owned :
         IF leaving[p].stage = "login" THEN firm[f] = GoneFirm ELSE There(f) /\ firm[f].founder = p
    /\ \A f \in Firms :
         There(f) /\ firm[f].founder = p /\ ~member[p][f].overlapped => f \in leaving[p].owned
    /\ leaving[p].stage = "purge" =>
         \A f \in leaving[p].owned : f \in rows /\ \A q \in Others(p, f) : member[q][f].overlapped
    /\ leaving[p].stage = "login" => \A f \in Firms : IsIn(p, f) => member[p][f].overlapped

OneOwned == \A p \in People : \A f, g \in Owned(p) : f = g

OrganizationInv ==
  /\ OrganizationTyped /\ DesksSound /\ DesksApart
  /\ LoginsSound /\ FirmsSound /\ LeavingSound /\ OneOwned
  /\ StaffWithinLimit /\ BranchesWithinLimit /\ ArchivedIsEmpty /\ SomebodyBehind

-----------------------------------------------------------------------------
LEMMA RowIsMember ==
  ASSUME NEW role \in {"owner", "staff"}, NEW status \in {"active", "removed"},
         NEW b \in Branches \cup {NoBranch}, NEW raced \in BOOLEAN, NEW overlapped \in BOOLEAN
  PROVE  LET row == Row(role, status, b, raced, overlapped)
         IN  /\ row \in Member /\ row # NoMember
             /\ row.role = role /\ row.status = status /\ row.branch = b
             /\ row.raced = raced /\ row.overlapped = overlapped
BY OrganizationAssumption DEF Row, Member

LEMMA TaskFields ==
  ASSUME NEW t \in DeskTask
  PROVE  /\ t # NoTask
         /\ t.do \in {"login", "reactivate", "room", "write", "undo", "disown", "change", "open", "archive", "found"}
         /\ t.firm \in Firms /\ t.who \in People \cup {NoMember}
         /\ t.branch \in Branches \cup {NoBranch}
         /\ t.login \in BOOLEAN /\ t.open \in BOOLEAN
BY OrganizationAssumption DEF DeskTask

LEMMA NewTask ==
  ASSUME NEW do \in {"login", "reactivate", "room", "write", "undo", "disown", "change", "open", "archive", "found"},
         NEW f \in Firms, NEW p \in People \cup {NoMember}, NEW b \in Branches \cup {NoBranch}
  PROVE  LET t == Task(do, f, p, b)
         IN  /\ t \in DeskTask
             /\ t.do = do /\ t.firm = f /\ t.who = p /\ t.branch = b /\ t.login = FALSE
             /\ t.open <=> b = NoBranch \/ branch[b] = "open"
BY DEF Task, DeskTask

LEMMA NextTask ==
  ASSUME NEW t \in DeskTask,
         NEW do \in {"login", "reactivate", "room", "write", "undo", "disown", "change", "open", "archive", "found"}
  PROVE  LET u == [t EXCEPT !.do = do]
         IN  /\ u \in DeskTask
             /\ u.do = do /\ u.firm = t.firm /\ u.who = t.who /\ u.branch = t.branch
             /\ u.login = t.login /\ u.open = t.open
BY DEF DeskTask

(* A key says what it is for.                                              *)
LEMMA KeysTell ==
  ASSUME NEW t \in DeskTask, NEW u \in DeskTask, NeedsKey(t), KeyOf(t) = KeyOf(u),
         u.do \in {"write", "open", "archive", "found"}
  PROVE  /\ t.do = "found" <=> u.do = "found"
         /\ OfBranch(t) <=> OfBranch(u)
         /\ t.do = "found" => t.who = u.who
         /\ t.do # "found" => t.firm = u.firm
         /\ NeedsKey(u)
BY TaskFields DEF NeedsKey, KeyOf, OfBranch, RoomKey, BranchKey

LEMMA FiniteCounts ==
  ASSUME NEW f \in Firms
  PROVE  /\ IsFiniteSet(Staff(f)) /\ Cardinality(Staff(f)) \in Nat
         /\ IsFiniteSet(OpenBranches(f)) /\ Cardinality(OpenBranches(f)) \in Nat
<1>1. Staff(f) \in SUBSET People /\ OpenBranches(f) \in SUBSET Branches
  BY DEF Staff, OpenBranches
<1> QED BY <1>1, FS_Subset, FS_CardinalityType, OrganizationAssumption

-----------------------------------------------------------------------------
(* One request moves on, and what the others rest on stays.                *)
LEMMA DesksFollow ==
  ASSUME OrganizationInv, NEW d \in Desks, NEW t \in {NoTask} \cup DeskTask,
         desk' = [desk EXCEPT ![d] = t],
         \A e \in Desks \ {d}, u \in DeskTask :
           u = desk[e] =>
             /\ AboutThis(u)' /\ StillSo(u)'
             /\ NeedsKey(u)' => NeedsKey(u) /\ KeyOf(u) \in held'
             /\ t # NoTask => ~Clash(t, u)' /\ ~Clash(u, t)',
         t # NoTask => AboutThis(t)' /\ StillSo(t)' /\ (NeedsKey(t)' => KeyOf(t) \in held')
  PROVE  desk' \in [Desks -> {NoTask} \cup DeskTask] /\ DesksSound' /\ DesksApart'
<1>1. /\ desk' \in [Desks -> {NoTask} \cup DeskTask] /\ desk'[d] = t
      /\ \A e \in Desks \ {d} : desk'[e] = desk[e]
  BY DEF OrganizationInv, OrganizationTyped
<1>2. \A e \in Desks : desk[e] # NoTask => desk[e] \in DeskTask
  BY DEF OrganizationInv, OrganizationTyped
<1>3. DesksSound'
  <2> SUFFICES ASSUME NEW e \in Desks, desk'[e] # NoTask
               PROVE  /\ AboutThis(desk[e])' /\ StillSo(desk[e])'
                      /\ NeedsKey(desk[e])' => KeyOf(desk'[e]) \in held'
    BY DEF DesksSound
  <2>1. CASE e = d
    <3>1. t # NoTask /\ t = desk'[e]
      BY <1>1, <2>1
    <3> QED BY <3>1
  <2>2. CASE e # d
    <3>1. PICK u \in DeskTask : u = desk[e] /\ u = desk'[e]
      BY <1>1, <1>2, <2>2
    <3> QED BY <2>2, <3>1
  <2> QED BY <2>1, <2>2
<1>4. DesksApart'
  <2> SUFFICES ASSUME NEW e \in Desks, NEW i \in Desks, e # i, desk'[e] # NoTask, desk'[i] # NoTask
               PROVE  ~Clash(desk[e], desk[i])'
    BY DEF DesksApart
  <2>1. CASE e = d
    <3>1. PICK u \in DeskTask : u = desk[i] /\ u = desk'[i]
      BY <1>1, <1>2, <2>1
    <3>2. t # NoTask /\ t = desk'[e]
      BY <1>1, <2>1
    <3>3. ~Clash(t, u)'
      BY <2>1, <3>1, <3>2
    <3> QED BY <3>1, <3>2, <3>3
  <2>2. CASE i = d
    <3>1. PICK u \in DeskTask : u = desk[e] /\ u = desk'[e]
      BY <1>1, <1>2, <2>2
    <3>2. t # NoTask /\ t = desk'[i]
      BY <1>1, <2>2
    <3>3. ~Clash(u, t)'
      BY <2>2, <3>1, <3>2
    <3> QED BY <3>1, <3>2, <3>3
  <2>3. CASE e # d /\ i # d
    <3>1. PICK u \in DeskTask : u = desk[e] /\ u = desk'[e]
      BY <1>1, <1>2, <2>3
    <3>2. PICK w \in DeskTask : w = desk[i] /\ w = desk'[i]
      BY <1>1, <1>2, <2>3
    <3>3. ~Clash(u, w)
      BY <1>2, <3>1, <3>2, TaskFields DEF OrganizationInv, DesksApart
    <3>4. ~Clash(u, w)'
      BY <2>3, <3>1, <3>2, <3>3 DEF Clash
    <3> QED BY <3>1, <3>2, <3>4
  <2> QED BY <2>1, <2>2, <2>3
<1> QED BY <1>1, <1>3, <1>4

LEMMA RecordsStay ==
  ASSUME UNCHANGED <<records, leaving>>
  PROVE  /\ \A u \in DeskTask : /\ AboutThis(u)' = AboutThis(u) /\ StillSo(u)' = StillSo(u)
                                /\ NeedsKey(u)' = NeedsKey(u)
         /\ \A u, w \in DeskTask : Clash(u, w)' = Clash(u, w)
<1>1. /\ UNCHANGED <<firm, member, branch, login, profile, leaving>>
      /\ \A f : There(f)' = There(f) /\ Staff(f)' = Staff(f) /\ OpenBranches(f)' = OpenBranches(f)
      /\ \A p : Owned(p)' = Owned(p) /\ Going(p)' = Going(p)
      /\ \A b : InBranch(b)' = InBranch(b)
  BY DEF records, There, Staff, OpenBranches, Owned, Going, InBranch, IsIn
<1>2. \A f : RoomFor(f)' = RoomFor(f) /\ BranchRoom(f)' = BranchRoom(f) /\ Trader(f)' = Trader(f)
  BY <1>1 DEF RoomFor, BranchRoom, Trader
<1>3. \A u \in DeskTask : NeedsKey(u)' = NeedsKey(u)
  BY <1>2 DEF NeedsKey
<1> QED BY <1>1, <1>2, <1>3 DEF AboutThis, StillSo, Clash

LEMMA QuietKeeps ==
  ASSUME OrganizationInv, UNCHANGED <<firm, member, branch, login, profile, leaving, rows>>,
         desk' \in [Desks -> {NoTask} \cup DeskTask], DesksSound', DesksApart', NoStrayLogin'
  PROVE  OrganizationInv'
<1>1. /\ \A f : /\ There(f)' = There(f) /\ Staff(f)' = Staff(f)
                /\ OpenBranches(f)' = OpenBranches(f)
      /\ \A p, f : IsIn(p, f)' = IsIn(p, f) /\ Others(p, f)' = Others(p, f)
      /\ \A p : Owned(p)' = Owned(p) /\ Going(p)' = Going(p)
      /\ \A b : InBranch(b)' = InBranch(b)
  BY DEF There, Staff, OpenBranches, Owned, Going, InBranch, IsIn, Others
<1>2. OrganizationTyped' /\ LoginsSound'
  BY DEF OrganizationInv, OrganizationTyped, LoginsSound
<1>3. FirmsSound' /\ OneOwned'
  BY <1>1 DEF OrganizationInv, FirmsSound, OneOwned
<1>4. LeavingSound'
  BY <1>1 DEF OrganizationInv, LeavingSound
<1>5. StaffWithinLimit' /\ BranchesWithinLimit' /\ ArchivedIsEmpty'
  BY <1>1 DEF OrganizationInv, StaffWithinLimit, BranchesWithinLimit, ArchivedIsEmpty
<1>6. SomebodyBehind'
  BY <1>1 DEF OrganizationInv, SomebodyBehind
<1> QED BY <1>2, <1>3, <1>4, <1>5, <1>6 DEF OrganizationInv

(* A request moves on and writes nothing.                                  *)
LEMMA MovesOn ==
  ASSUME OrganizationInv, NEW d \in Desks, NEW t \in {NoTask} \cup DeskTask,
         desk' = [desk EXCEPT ![d] = t], UNCHANGED <<records, rows, leaving>>,
         \A e \in Desks \ {d}, u \in DeskTask : u = desk[e] /\ NeedsKey(u) => KeyOf(u) \in held',
         t # NoTask =>
           /\ AboutThis(t) /\ StillSo(t) /\ (NeedsKey(t) => KeyOf(t) \in held')
           /\ \A e \in Desks \ {d}, u \in DeskTask : u = desk[e] => ~Clash(t, u),
         desk[d] # NoTask /\ desk[d].login => t # NoTask /\ t.login /\ t.who = desk[d].who
  PROVE  OrganizationInv'
<1>1. \A e \in Desks \ {d}, u \in DeskTask :
        u = desk[e] => AboutThis(u) /\ StillSo(u) /\ (t # NoTask => ~Clash(t, u) /\ ~Clash(u, t))
  <2> SUFFICES ASSUME NEW e \in Desks \ {d}, NEW u \in DeskTask, u = desk[e]
               PROVE  AboutThis(u) /\ StillSo(u) /\ (t # NoTask => ~Clash(t, u) /\ ~Clash(u, t))
    OBVIOUS
  <2>1. AboutThis(u) /\ StillSo(u)
    BY TaskFields DEF OrganizationInv, DesksSound
  <2>2. t # NoTask => ~Clash(t, u)
    OBVIOUS
  <2>3. t # NoTask => ~Clash(u, t)
    BY <2>2 DEF Clash
  <2> QED BY <2>1, <2>2, <2>3
<1>2. /\ \A u \in DeskTask : /\ AboutThis(u)' = AboutThis(u) /\ StillSo(u)' = StillSo(u)
                                /\ NeedsKey(u)' = NeedsKey(u)
      /\ \A u, w \in DeskTask : Clash(u, w)' = Clash(u, w)
  BY RecordsStay
<1>3. desk' \in [Desks -> {NoTask} \cup DeskTask] /\ DesksSound' /\ DesksApart'
  <2>1. \A e \in Desks \ {d}, u \in DeskTask :
          u = desk[e] =>
            /\ AboutThis(u)' /\ StillSo(u)'
            /\ NeedsKey(u)' => NeedsKey(u) /\ KeyOf(u) \in held'
            /\ t # NoTask => ~Clash(t, u)' /\ ~Clash(u, t)'
    <3> SUFFICES ASSUME NEW e \in Desks \ {d}, NEW u \in DeskTask, u = desk[e]
                 PROVE  /\ AboutThis(u)' /\ StillSo(u)'
                        /\ NeedsKey(u)' => NeedsKey(u) /\ KeyOf(u) \in held'
                        /\ t # NoTask => ~Clash(t, u)' /\ ~Clash(u, t)'
      OBVIOUS
    <3>1. t # NoTask => t \in DeskTask
      OBVIOUS
    <3> QED BY <1>1, <1>2, <3>1
  <2>2. t # NoTask => AboutThis(t)' /\ StillSo(t)' /\ (NeedsKey(t)' => KeyOf(t) \in held')
    BY <1>2
  <2> QED BY <2>1, <2>2, DesksFollow
<1>4. NoStrayLogin'
  <2> SUFFICES ASSUME NEW p \in People, login[p] = "given", p \notin profile, p \notin stray
               PROVE  \E e \in Desks : desk'[e] # NoTask /\ desk'[e].who = p /\ desk'[e].login
    BY DEF records, NoStrayLogin
  <2>1. PICK e \in Desks : desk[e] # NoTask /\ desk[e].who = p /\ desk[e].login
    BY DEF OrganizationInv, LoginsSound, NoStrayLogin
  <2>2. desk'[d] = t /\ (e # d => desk'[e] = desk[e])
    BY DEF OrganizationInv, OrganizationTyped
  <2> QED BY <2>1, <2>2
<1> QED BY <1>3, <1>4, QuietKeeps DEF records

LEMMA OthersKeys ==
  ASSUME OrganizationInv, NEW d \in Desks, NEW e \in Desks \ {d}, NEW u \in DeskTask,
         u = desk[e], NeedsKey(u)
  PROVE  /\ KeyOf(u) \in held
         /\ desk[d] # NoTask /\ desk[d].do \in {"write", "open", "archive", "found"} =>
              KeyOf(u) # KeyOf(desk[d])
<1>1. u # NoTask /\ KeyOf(u) \in held
  BY TaskFields DEF OrganizationInv, DesksSound
<1>2. ASSUME desk[d] # NoTask, desk[d].do \in {"write", "open", "archive", "found"},
             KeyOf(u) = KeyOf(desk[d])
      PROVE  FALSE
  <2>1. PICK t \in DeskTask : t = desk[d]
    BY <1>2 DEF OrganizationInv, OrganizationTyped
  <2>2. NeedsKey(t)
    BY <1>2, <2>1, KeysTell
  <2>3. Clash(u, t)
    BY <1>2, <2>1, <2>2 DEF Clash
  <2> QED BY <1>1, <1>2, <2>1, <2>3 DEF OrganizationInv, DesksApart
<1> QED BY <1>1, <1>2

(* A request that has failed, or that finds nothing to do.                 *)
LEMMA FailsKeeps ==
  ASSUME OrganizationInv, NEW d \in Desks, desk[d] # NoTask,
         AfterFailure(d) \/ (Finish(d) /\ ~desk[d].login), UNCHANGED <<records, rows, leaving>>,
         held' = held \/ (held' = held \ {KeyOf(desk[d])} /\ desk[d].do \in {"write", "open", "archive", "found"})
  PROVE  OrganizationInv'
<1>1. \A e \in Desks \ {d}, u \in DeskTask : u = desk[e] /\ NeedsKey(u) => KeyOf(u) \in held'
  BY OthersKeys
<1>2. CASE desk[d].login
  <2> DEFINE t == [desk[d] EXCEPT !.do = "undo"]
  <2>1. desk[d] \in DeskTask /\ desk[d].login = TRUE
    BY <1>2, TaskFields DEF OrganizationInv, OrganizationTyped
  <2>2. desk' = [desk EXCEPT ![d] = t]
    BY <1>2 DEF AfterFailure, Go
  <2>3. /\ t \in DeskTask /\ t.do = "undo" /\ t.firm = desk[d].firm /\ t.who = desk[d].who
        /\ t.login = TRUE /\ t.open = desk[d].open
    BY <2>1, NextTask
  <2> HIDE DEF t
  <2>4. AboutThis(desk[d]) /\ StillSo(desk[d]) /\ desk[d].do \in {"room", "write", "undo"}
    BY <1>2 DEF OrganizationInv, DesksSound, AboutThis
  <2>5. AboutThis(t) /\ StillSo(t) /\ ~NeedsKey(t)
    BY <1>2, <2>3, <2>4 DEF AboutThis, StillSo, NeedsKey, OfBranch
  <2>6. ASSUME NEW e \in Desks \ {d}, NEW u \in DeskTask, u = desk[e] PROVE ~Clash(t, u)
    <3>1. ~Clash(desk[d], u)
      BY <2>6, TaskFields DEF OrganizationInv, DesksApart
    <3> QED BY <1>2, <2>3, <2>5, <3>1 DEF Clash
  <2> QED BY <1>1, <1>2, <2>2, <2>3, <2>5, <2>6, MovesOn, TaskFields
<1>3. CASE ~desk[d].login
  <2>1. desk' = [desk EXCEPT ![d] = NoTask]
    BY <1>3 DEF AfterFailure, Finish
  <2> QED BY <1>1, <1>3, <2>1, MovesOn
<1> QED BY <1>2, <1>3

(* A request that starts, or goes on, without a key.                       *)
LEMMA GoesOnKeeps ==
  ASSUME OrganizationInv, NEW d \in Desks, NEW t \in DeskTask, desk' = [desk EXCEPT ![d] = t],
         UNCHANGED <<records, rows, leaving, held>>,
         AboutThis(t), t.do \in {"login", "reactivate", "room", "change"} \/ (t.do = "write" /\ ~Trader(t.firm)),
         desk[d] = NoTask \/ ~desk[d].login => ~t.login,
         desk[d] # NoTask => t.who = desk[d].who /\ t.login = desk[d].login
  PROVE  OrganizationInv'
<1>1. \A e \in Desks \ {d}, u \in DeskTask : u = desk[e] /\ NeedsKey(u) => KeyOf(u) \in held'
  BY OthersKeys
<1>2. ~NeedsKey(t) /\ t # NoTask /\ t.login \in BOOLEAN
  BY TaskFields DEF NeedsKey, OfBranch
<1>3. t.login => desk[d] # NoTask /\ desk[d].login /\ t.who = desk[d].who
  BY <1>2
<1>4. StillSo(t)
  <2>1. t.login => login[t.who] = "given" /\ t.who \notin profile /\ ~Going(t.who)
    BY <1>3 DEF OrganizationInv, DesksSound, StillSo
  <2> QED BY <2>1 DEF StillSo
<1>5. ASSUME NEW e \in Desks \ {d}, NEW u \in DeskTask, u = desk[e] PROVE ~Clash(t, u)
  <2>1. t.login => ~Clash(desk[d], u)
    BY <1>3, <1>5, TaskFields DEF OrganizationInv, DesksApart
  <2> QED BY <1>2, <1>3, <2>1 DEF Clash
<1> QED BY <1>1, <1>2, <1>3, <1>4, <1>5, MovesOn

-----------------------------------------------------------------------------
(* The steps that write nothing.                                           *)

LEMMA AddKeeps ==
  ASSUME OrganizationInv, NEW d \in Desks, NEW f \in Firms, NEW p \in People,
         NEW b \in Branches \cup {NoBranch}, Add(d, f, p, b) \/ Change(d, f, p, b)
  PROVE  OrganizationInv'
<1>1. PICK do \in {"login", "reactivate", "change"} : desk' = [desk EXCEPT ![d] = Task(do, f, p, b)]
  BY DEF Add, Change, Start
<1> DEFINE t == Task(do, f, p, b)
<1>2. /\ There(f) /\ (b = NoBranch \/ branch[b] = "open") /\ desk[d] = NoTask
      /\ UNCHANGED <<records, rows, leaving, held>>
  BY DEF Add, Change, Start, AtWork, editable, assertBranch
<1>3. /\ t \in DeskTask /\ t.do = do /\ t.firm = f /\ t.who = p /\ t.branch = b
      /\ t.login = FALSE /\ t.open
  <2>1. do \in {"login", "reactivate", "room", "write", "undo", "disown", "change", "open", "archive", "found"}
    OBVIOUS
  <2>2. p \in People \cup {NoMember}
    OBVIOUS
  <2> QED BY <1>2, <2>1, <2>2 DEF Task, DeskTask
<1> HIDE DEF t
<1>4. AboutThis(t)
  BY <1>2, <1>3 DEF AboutThis, OfBranch, There
<1> QED BY <1>1, <1>2, <1>3, <1>4, GoesOnKeeps DEF t

LEMMA GoOn ==
  ASSUME OrganizationInv, NEW d \in Desks, desk[d] # NoTask,
         NEW do \in {"login", "reactivate", "room", "write", "undo", "disown", "change", "open", "archive", "found"},
         Go(d, do)
  PROVE  \E t \in DeskTask :
           /\ desk' = [desk EXCEPT ![d] = t] /\ t.do = do /\ t.firm = desk[d].firm
           /\ t.who = desk[d].who /\ t.branch = desk[d].branch
           /\ t.login = desk[d].login /\ t.open = desk[d].open
<1>1. desk[d] \in DeskTask
  BY DEF OrganizationInv, OrganizationTyped
<1> DEFINE t == [desk[d] EXCEPT !.do = do]
<1>2. desk' = [desk EXCEPT ![d] = t]
  BY DEF Go
<1>3. /\ t \in DeskTask /\ t.do = do /\ t.firm = desk[d].firm
      /\ t.who = desk[d].who /\ t.branch = desk[d].branch
      /\ t.login = desk[d].login /\ t.open = desk[d].open
  BY <1>1 DEF DeskTask
<1> HIDE DEF t
<1> QED BY <1>2, <1>3

LEMMA ReadRemovedKeeps ==
  ASSUME OrganizationInv, NEW d \in Desks, ReadRemoved(d)
  PROVE  OrganizationInv'
<1>1. /\ desk[d] # NoTask /\ desk[d].do = "reactivate" /\ (Go(d, "room") \/ Finish(d))
      /\ UNCHANGED <<records, rows, leaving, held>>
  BY DEF ReadRemoved, Doing
<1>2. AboutThis(desk[d]) /\ ~desk[d].login
  BY <1>1 DEF OrganizationInv, DesksSound, AboutThis
<1>3. CASE Go(d, "room")
  <2>1. PICK t \in DeskTask :
           /\ desk' = [desk EXCEPT ![d] = t] /\ t.do = "room" /\ t.firm = desk[d].firm
           /\ t.who = desk[d].who /\ t.branch = desk[d].branch
           /\ t.login = desk[d].login /\ t.open = desk[d].open
    BY <1>1, <1>3, GoOn
  <2>2. AboutThis(t)
    BY <1>1, <1>2, <2>1 DEF AboutThis, OfBranch
  <2> QED BY <1>1, <1>2, <2>1, <2>2, GoesOnKeeps
<1>4. CASE Finish(d)
  BY <1>1, <1>2, <1>4, FailsKeeps
<1> QED BY <1>1, <1>3, <1>4

(* Whoever takes the lock finds nobody else with it.                       *)
LEMMA LockKeeps ==
  ASSUME OrganizationInv, NEW d \in Desks, NEW t \in DeskTask, desk' = [desk EXCEPT ![d] = t],
         Lock(KeyOf(t)), UNCHANGED <<records, rows, leaving>>, t.do \in {"write", "open", "archive", "found"},
         AboutThis(t), StillSo(t),
         t.login => desk[d] # NoTask /\ desk[d].login /\ t.who = desk[d].who,
         desk[d] # NoTask /\ desk[d].login => t.login /\ t.who = desk[d].who,
         t.do = "found" =>
           \A e \in Desks \ {d}, u \in DeskTask : u = desk[e] =>
             ~(u.do = "found" /\ u.firm = t.firm) /\ ~(u.login /\ u.who = t.who)
  PROVE  OrganizationInv'
<1>1. /\ held' = held \cup {KeyOf(t)} /\ KeyOf(t) \notin held /\ t # NoTask
  BY TaskFields DEF Lock
<1>2. ASSUME NEW e \in Desks \ {d}, NEW u \in DeskTask, u = desk[e], NeedsKey(u)
      PROVE  KeyOf(u) \in held' /\ KeyOf(u) # KeyOf(t)
  BY <1>1, <1>2, OthersKeys
<1>3. ASSUME NEW e \in Desks \ {d}, NEW u \in DeskTask, u = desk[e] PROVE ~Clash(t, u)
  <2>1. ~(NeedsKey(u) /\ KeyOf(t) = KeyOf(u))
    BY <1>2, <1>3
  <2>2. t.login => ~Clash(desk[d], u)
    BY <1>3, TaskFields DEF OrganizationInv, DesksApart
  <2>3. t.login => ~((u.login \/ u.do = "found") /\ t.who = u.who)
    BY <2>2 DEF Clash
  <2>4. t.do = "found" => ~(u.do = "found" /\ t.who = u.who)
    BY <2>1 DEF NeedsKey, KeyOf
  <2> QED BY <1>3, <2>1, <2>3, <2>4 DEF Clash
<1> QED BY <1>1, <1>2, <1>3, MovesOn

LEMMA TakeRoomKeeps ==
  ASSUME OrganizationInv, NEW d \in Desks, TakeRoom(d)
  PROVE  OrganizationInv'
<1> DEFINE f == desk[d].firm
<1>1. /\ desk[d] # NoTask /\ desk[d].do = "room" /\ f \in Firms
      /\ UNCHANGED <<records, rows, leaving>>
  BY TaskFields DEF TakeRoom, Doing, OrganizationInv, OrganizationTyped
<1>2. AboutThis(desk[d]) /\ StillSo(desk[d])
  BY <1>1 DEF OrganizationInv, DesksSound
<1>3. \/ There(f) /\ firm[f].type # "trader" /\ Go(d, "write") /\ UNCHANGED held
      \/ There(f) /\ RoomFor(f) /\ Lock(RoomKey(f)) /\ Go(d, "write")
      \/ AfterFailure(d) /\ UNCHANGED held
  BY DEF TakeRoom
<1>4. CASE AfterFailure(d) /\ UNCHANGED held
  BY <1>1, <1>4, FailsKeeps
<1>5. CASE There(f) /\ Go(d, "write")
  <2>1. PICK t \in DeskTask :
           /\ desk' = [desk EXCEPT ![d] = t] /\ t.do = "write" /\ t.firm = desk[d].firm
           /\ t.who = desk[d].who /\ t.branch = desk[d].branch
           /\ t.login = desk[d].login /\ t.open = desk[d].open
    BY <1>1, <1>5, GoOn
  <2>2. AboutThis(t)
    BY <1>1, <1>2, <2>1 DEF AboutThis, OfBranch
  <2>3. CASE firm[f].type # "trader" /\ UNCHANGED held
    BY <1>1, <2>1, <2>2, <2>3, GoesOnKeeps DEF Trader
  <2>4. CASE RoomFor(f) /\ Lock(RoomKey(f))
    <3>1. StillSo(t) /\ KeyOf(t) = RoomKey(f)
      BY <1>2, <2>1, <2>4 DEF StillSo, KeyOf
    <3> QED BY <1>1, <2>1, <2>2, <2>4, <3>1, LockKeeps
  <2>5. CASE AfterFailure(d) /\ UNCHANGED held
    BY <1>4, <2>5
  <2> QED BY <1>3, <2>3, <2>4, <2>5
<1> QED BY <1>3, <1>4, <1>5

LEMMA OpenBranchKeeps ==
  ASSUME OrganizationInv, NEW d \in Desks, NEW b \in Branches, OpenBranch(d, b)
  PROVE  OrganizationInv'
<1> DEFINE f == FirmOf[b]
           t == Task("open", f, NoMember, b)
<1>1. /\ desk' = [desk EXCEPT ![d] = t] /\ desk[d] = NoTask /\ There(f) /\ BranchRoom(f)
      /\ Lock(BranchKey(f)) /\ UNCHANGED <<records, rows, leaving>> /\ f \in Firms
  BY OrganizationAssumption DEF OpenBranch, Start, AtWork
<1>2. /\ t \in DeskTask /\ t.do = "open" /\ t.firm = f /\ t.branch = b /\ t.login = FALSE
  BY <1>1 DEF Task, DeskTask
<1> HIDE DEF t
<1>3. AboutThis(t) /\ StillSo(t) /\ KeyOf(t) = BranchKey(f)
  BY <1>1, <1>2 DEF AboutThis, StillSo, OfBranch, There, KeyOf
<1> QED BY <1>1, <1>2, <1>3, LockKeeps

LEMMA ArchiveBranchKeeps ==
  ASSUME OrganizationInv, NEW d \in Desks, NEW b \in Branches, ArchiveBranch(d, b)
  PROVE  OrganizationInv'
<1> DEFINE f == FirmOf[b]
           t == Task("archive", f, NoMember, b)
<1>1. /\ desk' = [desk EXCEPT ![d] = t] /\ desk[d] = NoTask /\ There(f) /\ InBranch(b) = {}
      /\ Lock(BranchKey(f)) /\ UNCHANGED <<records, rows, leaving>> /\ f \in Firms
  BY OrganizationAssumption DEF ArchiveBranch, Start, AtWork, NobodyIn
<1>2. /\ t \in DeskTask /\ t.do = "archive" /\ t.firm = f /\ t.branch = b /\ t.login = FALSE
  BY <1>1 DEF Task, DeskTask
<1> HIDE DEF t
<1>3. AboutThis(t) /\ StillSo(t) /\ KeyOf(t) = BranchKey(f)
  BY <1>1, <1>2 DEF AboutThis, StillSo, OfBranch, There, KeyOf
<1> QED BY <1>1, <1>2, <1>3, LockKeeps

LEMMA BootstrapCountKeeps ==
  ASSUME OrganizationInv, NEW d \in Desks, NEW p \in People, NEW f \in Firms, BootstrapCount(d, p, f)
  PROVE  OrganizationInv'
<1> DEFINE t == Task("found", f, p, NoBranch)
<1>1. /\ desk' = [desk EXCEPT ![d] = t] /\ desk[d] = NoTask /\ firm[f] = NoFirm
      /\ Lock(<<p, "user">>) /\ UNCHANGED <<records, rows, leaving>>
  BY DEF BootstrapCount, Start, UserKey
<1>2. /\ t \in DeskTask /\ t.do = "found" /\ t.firm = f /\ t.who = p /\ t.login = FALSE
  BY DEF Task, DeskTask
<1> HIDE DEF t
<1>3. Owned(p) = {} /\ login[p] # "none"
  BY DEF BootstrapCount, Owned, CanLogIn
<1>4. AboutThis(t) /\ StillSo(t) /\ KeyOf(t) = <<p, "user">>
  BY <1>1, <1>2, <1>3 DEF AboutThis, StillSo, OfBranch, KeyOf
<1>5. \A e \in Desks \ {d}, u \in DeskTask : u = desk[e] =>
        ~(u.do = "found" /\ u.firm = t.firm) /\ ~(u.login /\ u.who = t.who)
  BY <1>2, TaskFields DEF BootstrapCount, CanLogIn, Doing
<1> QED BY <1>1, <1>2, <1>4, <1>5, LockKeeps

LEMMA StepFailsKeeps ==
  ASSUME OrganizationInv, NEW d \in Desks, StepFails(d)
  PROVE  OrganizationInv'
<1>1. /\ desk[d] # NoTask /\ AfterFailure(d) /\ UNCHANGED <<records, rows, leaving>>
      /\ held' = held \/ (held' = held \ {KeyOf(desk[d])} /\ desk[d].do \in {"write", "open", "archive", "found"})
  BY DEF StepFails, Unlock
<1> QED BY <1>1, FailsKeeps

-----------------------------------------------------------------------------
(* The steps that write a login: nothing but the desk and the login.       *)

LEMMA LoginWritten ==
  ASSUME OrganizationInv, NEW p \in People, NEW l \in {"none", "given", "own"},
         login' = [login EXCEPT ![p] = l], login[p] \in {"none", "given"}, p \notin profile,
         UNCHANGED <<firm, member, branch, profile, leaving, rows>>,
         Going(p) => l # "none",
         DesksSound', DesksApart', NoStrayLogin', desk' \in [Desks -> {NoTask} \cup DeskTask]
  PROVE  OrganizationInv'
<1>1. /\ \A f : /\ There(f)' = There(f) /\ Staff(f)' = Staff(f)
                /\ OpenBranches(f)' = OpenBranches(f)
      /\ \A q, f : IsIn(q, f)' = IsIn(q, f) /\ Others(q, f)' = Others(q, f)
      /\ \A q : Owned(q)' = Owned(q) /\ Going(q)' = Going(q)
      /\ \A b : InBranch(b)' = InBranch(b)
  BY DEF There, Staff, OpenBranches, Owned, Going, InBranch, IsIn, Others
<1>2. login' \in [People -> {"none", "own", "given", "taken", "deleted"}] /\ \A q \in People \ {p} : login'[q] = login[q]
  BY DEF OrganizationInv, OrganizationTyped
<1>3. OrganizationTyped' /\ LoginsSound'
  BY <1>2 DEF OrganizationInv, OrganizationTyped, LoginsSound
<1>4. FirmsSound' /\ OneOwned'
  BY <1>1 DEF OrganizationInv, FirmsSound, OneOwned
<1>5. LeavingSound'
  <2>1. \A q \in People : Going(q) /\ login[q] # "none" => login'[q] # "none"
    BY <1>2 DEF OrganizationInv, OrganizationTyped
  <2> QED BY <1>1, <2>1 DEF OrganizationInv, LeavingSound
<1>6. StaffWithinLimit' /\ BranchesWithinLimit' /\ ArchivedIsEmpty'
  BY <1>1 DEF OrganizationInv, StaffWithinLimit, BranchesWithinLimit, ArchivedIsEmpty
<1>7. SomebodyBehind'
  BY <1>1, <1>2 DEF OrganizationInv, SomebodyBehind
<1> QED BY <1>3, <1>4, <1>5, <1>6, <1>7 DEF OrganizationInv

LEMMA LoginStep ==
  ASSUME OrganizationInv, NEW d \in Desks, NEW p \in People, NEW l,
         NEW t \in {NoTask} \cup DeskTask, desk' = [desk EXCEPT ![d] = t],
         login' = [login EXCEPT ![p] = l], UNCHANGED <<firm, member, branch, profile, leaving, held>>,
         \A e \in Desks \ {d}, u \in DeskTask : u = desk[e] /\ (u.login \/ u.do = "found") => u.who # p,
         t # NoTask => /\ AboutThis(t) /\ t.do = "room" /\ t.login /\ t.who = p
                       /\ l = "given" /\ p \notin profile /\ ~Going(p)
  PROVE  desk' \in [Desks -> {NoTask} \cup DeskTask] /\ DesksSound' /\ DesksApart'
<1>1. login'[p] = l /\ \A q \in People \ {p} : login'[q] = login[q]
  BY DEF OrganizationInv, OrganizationTyped
<1>2. /\ \A f : There(f)' = There(f) /\ Staff(f)' = Staff(f) /\ OpenBranches(f)' = OpenBranches(f)
      /\ \A q : Owned(q)' = Owned(q) /\ Going(q)' = Going(q)
      /\ \A b : InBranch(b)' = InBranch(b)
  BY DEF There, Staff, OpenBranches, Owned, Going, InBranch, IsIn
<1>3. \A f : RoomFor(f)' = RoomFor(f) /\ BranchRoom(f)' = BranchRoom(f) /\ Trader(f)' = Trader(f)
  BY <1>2 DEF RoomFor, BranchRoom, Trader
<1>4. /\ \A u \in DeskTask : NeedsKey(u)' = NeedsKey(u) /\ AboutThis(u)' = AboutThis(u)
      /\ \A u, w \in DeskTask : Clash(u, w)' = Clash(u, w)
  BY <1>3 DEF NeedsKey, AboutThis, Clash
<1>5. ASSUME NEW e \in Desks \ {d}, NEW u \in DeskTask, u = desk[e]
      PROVE  /\ AboutThis(u)' /\ StillSo(u)'
             /\ NeedsKey(u)' => NeedsKey(u) /\ KeyOf(u) \in held'
             /\ t # NoTask => ~Clash(t, u)' /\ ~Clash(u, t)'
  <2>1. AboutThis(u) /\ StillSo(u) /\ (NeedsKey(u) => KeyOf(u) \in held)
    BY <1>5, TaskFields DEF OrganizationInv, DesksSound
  <2>2. u.login \/ u.do = "found" => u.who \in People \ {p}
    BY <1>5, <2>1, TaskFields DEF AboutThis, OfBranch
  <2>3. StillSo(u)'
    BY <1>1, <1>2, <1>3, <2>1, <2>2 DEF StillSo
  <2>4. t # NoTask => ~Clash(t, u) /\ ~Clash(u, t)
    BY <2>2 DEF Clash, NeedsKey, OfBranch
  <2>5. t # NoTask => t \in DeskTask
    OBVIOUS
  <2> QED BY <1>4, <1>5, <2>1, <2>3, <2>4, <2>5
<1>6. t # NoTask => AboutThis(t)' /\ StillSo(t)' /\ (NeedsKey(t)' => KeyOf(t) \in held')
  <2>1. t # NoTask => StillSo(t)' /\ ~NeedsKey(t)
    BY <1>1, <1>2 DEF StillSo, NeedsKey, OfBranch
  <2>2. t # NoTask => t \in DeskTask
    OBVIOUS
  <2> QED BY <1>4, <2>1, <2>2
<1> QED BY <1>5, <1>6, DesksFollow

LEMMA LoginLeft ==
  ASSUME OrganizationInv, NEW d \in Desks, NEW p \in People, NEW l,
         login' = [login EXCEPT ![p] = l], desk' = [desk EXCEPT ![d] = NoTask],
         UNCHANGED <<firm, member, branch, profile, leaving, held>>,
         \A e \in Desks \ {d}, u \in DeskTask : u = desk[e] /\ (u.login \/ u.do = "found") => u.who # p
  PROVE  desk' \in [Desks -> {NoTask} \cup DeskTask] /\ DesksSound' /\ DesksApart'
BY LoginStep

LEMMA CreateLoginKeeps ==
  ASSUME OrganizationInv, NEW d \in Desks, CreateLogin(d) \/ CreateTimesOut(d)
  PROVE  OrganizationInv'
<1> DEFINE p == desk[d].who
<1>1. /\ desk[d] # NoTask /\ desk[d].do = "login" /\ desk[d] \in DeskTask
      /\ UNCHANGED <<firm, member, branch, profile, leaving, rows, held>>
  BY DEF CreateLogin, CreateTimesOut, Doing, OrganizationInv, OrganizationTyped
<1>2. AboutThis(desk[d]) /\ p \in People /\ ~desk[d].login
  BY <1>1 DEF OrganizationInv, DesksSound, AboutThis, OfBranch
<1>3. CASE login[p] # "none"
  <2>1. Finish(d) /\ UNCHANGED <<records, rows, leaving, held>>
    BY <1>3 DEF CreateLogin, CreateTimesOut, records
  <2> QED BY <1>1, <1>2, <2>1, FailsKeeps
<1>4. CASE login[p] = "none"
  <2>1. p \notin profile /\ ~Going(p)
    BY <1>2, <1>4 DEF OrganizationInv, LoginsSound, LeavingSound
  <2>2. \A e \in Desks \ {d}, u \in DeskTask : u = desk[e] /\ (u.login \/ u.do = "found") => u.who # p
    BY <1>4, TaskFields DEF OrganizationInv, DesksSound, StillSo
  <2>3. login' = [login EXCEPT ![p] = "given"]
    BY <1>4 DEF CreateLogin, CreateTimesOut
  <2>4. login' \in [People -> {"none", "own", "given", "taken", "deleted"}] /\ login'[p] = "given"
        /\ \A q \in People \ {p} : login'[q] = login[q]
    BY <1>2, <2>3 DEF OrganizationInv, OrganizationTyped
  <2>5. CASE CreateLogin(d)
    <3> DEFINE t == [desk[d] EXCEPT !.do = "room", !.login = TRUE]
    <3>1. desk' = [desk EXCEPT ![d] = t] /\ UNCHANGED stray
      BY <1>4, <2>5 DEF CreateLogin
    <3>2. /\ t \in DeskTask /\ t.do = "room" /\ t.who = p /\ t.firm = desk[d].firm
          /\ t.login = TRUE /\ t.open = desk[d].open
      BY <1>1 DEF DeskTask
    <3> HIDE DEF t
    <3>3. AboutThis(t)
      BY <1>1, <1>2, <3>2 DEF AboutThis, OfBranch
    <3>4. desk' \in [Desks -> {NoTask} \cup DeskTask] /\ DesksSound' /\ DesksApart'
      BY <1>1, <1>2, <2>1, <2>2, <2>3, <3>1, <3>2, <3>3, LoginStep
    <3>5. NoStrayLogin'
      <4>1. desk'[d] = t /\ t # NoTask /\ \A e \in Desks \ {d} : desk'[e] = desk[e]
        BY <3>1, <3>2, TaskFields DEF OrganizationInv, OrganizationTyped
      <4> SUFFICES ASSUME NEW q \in People, login'[q] = "given", q \notin profile, q \notin stray
                   PROVE  \E e \in Desks : desk'[e] # NoTask /\ desk'[e].who = q /\ desk'[e].login
        BY <1>1, <3>1 DEF NoStrayLogin
      <4>2. CASE q = p
        BY <3>2, <4>1, <4>2
      <4>3. CASE q # p
        BY <1>2, <2>4, <4>1, <4>3 DEF OrganizationInv, LoginsSound, NoStrayLogin
      <4> QED BY <4>2, <4>3
    <3> QED BY <1>1, <1>2, <1>4, <2>1, <2>3, <3>4, <3>5, LoginWritten
  <2>6. CASE CreateTimesOut(d)
    <3>1. desk' = [desk EXCEPT ![d] = NoTask] /\ stray' = stray \cup {p}
      BY <2>6 DEF CreateTimesOut, Finish
    <3>2. desk' \in [Desks -> {NoTask} \cup DeskTask] /\ DesksSound' /\ DesksApart'
      BY <1>1, <1>2, <2>2, <2>3, <3>1, LoginStep
    <3>3. NoStrayLogin'
      <4>1. \A e \in Desks \ {d} : desk'[e] = desk[e]
        BY <3>1 DEF OrganizationInv, OrganizationTyped
      <4> QED BY <1>1, <1>2, <2>4, <3>1, <4>1 DEF OrganizationInv, LoginsSound, NoStrayLogin
    <3> QED BY <1>1, <1>2, <1>4, <2>1, <2>3, <3>2, <3>3, LoginWritten
  <2> QED BY <2>5, <2>6
<1> QED BY <1>3, <1>4

LEMMA UndoKeeps ==
  ASSUME OrganizationInv, NEW d \in Desks, DeleteNewLogin(d) \/ CleanupFails(d)
  PROVE  OrganizationInv'
<1>1. /\ desk[d] # NoTask /\ desk[d].do = "undo" /\ desk[d] \in DeskTask
      /\ UNCHANGED <<firm, member, branch, profile, leaving, rows, held>>
      /\ desk' = [desk EXCEPT ![d] = NoTask]
  BY DEF DeleteNewLogin, CleanupFails, Finish, Doing, OrganizationInv, OrganizationTyped
<1>2. PICK p \in People : p = desk[d].who
  BY <1>1 DEF OrganizationInv, DesksSound, AboutThis, OfBranch
<1>3. desk[d].login /\ login[p] = "given" /\ p \notin profile /\ ~Going(p)
  BY <1>1, <1>2 DEF OrganizationInv, DesksSound, AboutThis, StillSo, OfBranch
<1>4. \A e \in Desks \ {d}, u \in DeskTask : u = desk[e] /\ (u.login \/ u.do = "found") => u.who # p
  BY <1>1, <1>2, <1>3, TaskFields DEF OrganizationInv, DesksApart, Clash
<1>5. PICK now :
        /\ now \in {"none", "given"} /\ login' = [login EXCEPT ![p] = now]
        /\ stray \subseteq stray' /\ (now = "given" => p \in stray')
  <2>1. CASE DeleteNewLogin(d)
    <3>1. /\ "none" \in {"none", "given"} /\ login' = [login EXCEPT ![p] = "none"]
          /\ stray \subseteq stray' /\ ("none" = "given" => p \in stray')
      BY <1>2, <2>1 DEF DeleteNewLogin
    <3> QED BY <3>1
  <2>2. CASE CleanupFails(d)
    <3>1. login' = [login EXCEPT ![p] = "given"]
      BY <1>3, <2>2 DEF CleanupFails, OrganizationInv, OrganizationTyped
    <3> QED BY <1>2, <2>2, <3>1 DEF CleanupFails
  <2> QED BY <2>1, <2>2
<1>6. now \in {"none", "given", "own"}
  BY <1>5
<1>7. desk' \in [Desks -> {NoTask} \cup DeskTask] /\ DesksSound' /\ DesksApart'
  <2>1. desk' = [desk EXCEPT ![d] = NoTask]
    BY <1>1
  <2>2. login' = [login EXCEPT ![p] = now]
    BY <1>5
  <2>3. UNCHANGED <<firm, member, branch, profile, leaving, held>>
    BY <1>1
  <2> QED BY <1>4, <2>1, <2>2, <2>3, LoginLeft
<1>8. NoStrayLogin'
  <2>1. \A e \in Desks \ {d} : desk'[e] = desk[e]
    BY <1>1 DEF OrganizationInv, OrganizationTyped
  <2>2. login'[p] = now /\ \A q \in People \ {p} : login'[q] = login[q]
    BY <1>5 DEF OrganizationInv, OrganizationTyped
  <2> SUFFICES ASSUME NEW q \in People, login'[q] = "given", q \notin profile, q \notin stray'
               PROVE  \E e \in Desks : desk'[e] # NoTask /\ desk'[e].who = q /\ desk'[e].login
    BY <1>1 DEF NoStrayLogin
  <2>3. q # p
    BY <1>5, <2>2
  <2>4. PICK e \in Desks : desk[e] # NoTask /\ desk[e].who = q /\ desk[e].login
    BY <1>5, <2>2, <2>3 DEF OrganizationInv, LoginsSound, NoStrayLogin
  <2>5. e # d
    BY <1>2, <2>3, <2>4
  <2> QED BY <2>1, <2>4, <2>5
<1> QED BY <1>1, <1>3, <1>5, <1>6, <1>7, <1>8, LoginWritten

LEMMA DeskEnds ==
  ASSUME OrganizationInv, NEW d \in Desks, desk' = [desk EXCEPT ![d] = NoTask],
         held' = held \/ (held' = held \ {KeyOf(desk[d])} /\ desk[d] # NoTask
                          /\ desk[d].do \in {"write", "open", "archive", "found"}),
         \A e \in Desks \ {d}, u \in DeskTask :
           u = desk[e] => AboutThis(u)' /\ StillSo(u)' /\ (NeedsKey(u)' => NeedsKey(u))
  PROVE  desk' \in [Desks -> {NoTask} \cup DeskTask] /\ DesksSound' /\ DesksApart'
<1>1. ASSUME NEW e \in Desks \ {d}, NEW u \in DeskTask, u = desk[e]
      PROVE  /\ AboutThis(u)' /\ StillSo(u)'
             /\ NeedsKey(u)' => NeedsKey(u) /\ KeyOf(u) \in held'
  <2>1. NeedsKey(u) => KeyOf(u) \in held'
    BY <1>1, OthersKeys
  <2> QED BY <1>1, <2>1
<1> QED BY <1>1, DesksFollow

LEMMA TakeBackKeeps ==
  ASSUME OrganizationInv, NEW d \in Desks, TakeBackLogin(d)
  PROVE  OrganizationInv'
<1>1. /\ desk[d] # NoTask /\ desk[d].do = "disown" /\ desk[d] \in DeskTask
      /\ UNCHANGED <<firm, member, branch, profile, stray, leaving, rows, held>>
      /\ desk' = [desk EXCEPT ![d] = NoTask]
  BY DEF TakeBackLogin, Finish, Doing, OrganizationInv, OrganizationTyped
<1>2. PICK p \in People : p = desk[d].who
  BY <1>1 DEF OrganizationInv, DesksSound, AboutThis, OfBranch
<1>3. ~desk[d].login
  BY <1>1 DEF OrganizationInv, DesksSound, AboutThis
<1>4. login' = [login EXCEPT ![p] = IF @ = "own" THEN "taken" ELSE @]
  BY <1>2 DEF TakeBackLogin
<1>5. /\ login' \in [People -> {"none", "own", "given", "taken", "deleted"}]
      /\ \A q \in People \ {p} : login'[q] = login[q]
      /\ login'[p] = IF login[p] = "own" THEN "taken" ELSE login[p]
  BY <1>4 DEF OrganizationInv, OrganizationTyped
<1>6. /\ \A q \in People : (login'[q] = "given" <=> login[q] = "given")
                              /\ (login'[q] = "none" <=> login[q] = "none")
      /\ \A q \in People : login[q] \in {"own", "taken"} => login'[q] \in {"own", "taken"}
      /\ \A q \in People : login[q] \in {"own", "taken", "deleted"} => login'[q] \in {"own", "taken", "deleted"}
  BY <1>5
<1>7. /\ \A f : /\ There(f)' = There(f) /\ Staff(f)' = Staff(f)
                /\ OpenBranches(f)' = OpenBranches(f)
      /\ \A q, f : IsIn(q, f)' = IsIn(q, f) /\ Others(q, f)' = Others(q, f)
      /\ \A q : Owned(q)' = Owned(q) /\ Going(q)' = Going(q)
      /\ \A b : InBranch(b)' = InBranch(b)
  BY <1>1 DEF There, Staff, OpenBranches, Owned, Going, InBranch, IsIn, Others
<1>8. \A f : RoomFor(f)' = RoomFor(f) /\ BranchRoom(f)' = BranchRoom(f) /\ Trader(f)' = Trader(f)
  BY <1>1, <1>7 DEF RoomFor, BranchRoom, Trader
<1>9. desk' \in [Desks -> {NoTask} \cup DeskTask] /\ DesksSound' /\ DesksApart'
  <2>1. ASSUME NEW e \in Desks \ {d}, NEW u \in DeskTask, u = desk[e]
        PROVE  AboutThis(u)' /\ StillSo(u)' /\ (NeedsKey(u)' => NeedsKey(u))
    <3>1. AboutThis(u) /\ StillSo(u)
      BY <2>1, TaskFields DEF OrganizationInv, DesksSound
    <3>2. u.login \/ u.do = "found" => u.who \in People
      BY <3>1, TaskFields DEF AboutThis, OfBranch
    <3> QED BY <1>1, <1>6, <1>7, <1>8, <3>1, <3>2 DEF AboutThis, StillSo, NeedsKey
  <2>2. held' = held
    BY <1>1
  <2> QED BY <1>1, <2>1, <2>2, DeskEnds
<1>10. LoginsSound'
  <2>1. NoStrayLogin'
    <3> SUFFICES ASSUME NEW q \in People, login[q] = "given", q \notin profile, q \notin stray
                 PROVE  \E e \in Desks : desk'[e] # NoTask /\ desk'[e].who = q /\ desk'[e].login
      BY <1>1, <1>6 DEF NoStrayLogin
    <3>1. PICK e \in Desks : desk[e] # NoTask /\ desk[e].who = q /\ desk[e].login
      BY DEF OrganizationInv, LoginsSound, NoStrayLogin
    <3>2. desk'[e] = desk[e]
      BY <1>1, <1>3, <3>1 DEF OrganizationInv, OrganizationTyped
    <3> QED BY <3>1, <3>2
  <2>2. profile \subseteq People
    BY DEF OrganizationInv, OrganizationTyped
  <2> QED BY <1>1, <1>6, <2>1, <2>2 DEF OrganizationInv, LoginsSound
<1>11. OrganizationTyped'
  BY <1>1, <1>5, <1>9 DEF OrganizationInv, OrganizationTyped
<1>12. FirmsSound' /\ OneOwned'
  BY <1>1, <1>7 DEF OrganizationInv, FirmsSound, OneOwned
<1>13. LeavingSound'
  BY <1>1, <1>6, <1>7 DEF OrganizationInv, LeavingSound
<1>14. StaffWithinLimit' /\ BranchesWithinLimit' /\ ArchivedIsEmpty'
  BY <1>1, <1>7 DEF OrganizationInv, StaffWithinLimit, BranchesWithinLimit, ArchivedIsEmpty
<1>15. SomebodyBehind'
  BY <1>1, <1>6, <1>7 DEF OrganizationInv, SomebodyBehind
<1> QED BY <1>9, <1>10, <1>11, <1>12, <1>13, <1>14, <1>15 DEF OrganizationInv

-----------------------------------------------------------------------------
(* The steps of a deletion that write no record of the firm, and signing up. *)

LEMMA DesksStay ==
  ASSUME OrganizationInv, UNCHANGED <<desk, held>>,
         \A d \in Desks, u \in DeskTask : u = desk[d] =>
           AboutThis(u)' /\ StillSo(u)' /\ (NeedsKey(u)' => NeedsKey(u))
  PROVE  desk' \in [Desks -> {NoTask} \cup DeskTask] /\ DesksSound' /\ DesksApart'
<1>1. desk' \in [Desks -> {NoTask} \cup DeskTask]
  BY DEF OrganizationInv, OrganizationTyped
<1>2. ASSUME NEW d \in Desks, desk'[d] # NoTask
      PROVE  AboutThis(desk[d])' /\ StillSo(desk[d])' /\ (NeedsKey(desk[d])' => KeyOf(desk'[d]) \in held')
  <2>1. PICK u \in DeskTask : u = desk[d] /\ u = desk'[d]
    BY <1>2 DEF OrganizationInv, OrganizationTyped
  <2>2. NeedsKey(u) => KeyOf(u) \in held
    BY <2>1, TaskFields DEF OrganizationInv, DesksSound
  <2> QED BY <2>1, <2>2
<1>3. ASSUME NEW d \in Desks, NEW e \in Desks, d # e, desk'[d] # NoTask, desk'[e] # NoTask
      PROVE  ~Clash(desk[d], desk[e])'
  <2>1. PICK u \in DeskTask : u = desk[d] /\ u = desk'[d]
    BY <1>3 DEF OrganizationInv, OrganizationTyped
  <2>2. PICK w \in DeskTask : w = desk[e] /\ w = desk'[e]
    BY <1>3 DEF OrganizationInv, OrganizationTyped
  <2>3. ~Clash(u, w)
    BY <1>3, <2>1, <2>2, TaskFields DEF OrganizationInv, DesksApart
  <2>4. ~Clash(u, w)'
    BY <2>1, <2>2, <2>3 DEF Clash
  <2> QED BY <2>1, <2>2, <2>4
<1> QED BY <1>1, <1>2, <1>3 DEF DesksSound, DesksApart

LEMMA SignUpKeeps ==
  ASSUME OrganizationInv, NEW p \in People, SignUp(p)
  PROVE  OrganizationInv'
<1>1. /\ login[p] = "none" /\ login' = [login EXCEPT ![p] = "own"]
      /\ UNCHANGED <<firm, member, branch, profile, stray, desk, held, rows, leaving>>
  BY DEF SignUp
<1>2. login'[p] = "own" /\ \A q \in People \ {p} : login'[q] = login[q]
  BY <1>1 DEF OrganizationInv, OrganizationTyped
<1>3. p \notin profile /\ ~Going(p)
  BY <1>1 DEF OrganizationInv, LoginsSound, LeavingSound
<1>4. /\ \A f : There(f)' = There(f) /\ Staff(f)' = Staff(f) /\ OpenBranches(f)' = OpenBranches(f)
      /\ \A q : Owned(q)' = Owned(q) /\ Going(q)' = Going(q)
      /\ \A b : InBranch(b)' = InBranch(b)
  BY <1>1 DEF There, Staff, OpenBranches, Owned, Going, InBranch, IsIn
<1>5. \A f : RoomFor(f)' = RoomFor(f) /\ BranchRoom(f)' = BranchRoom(f) /\ Trader(f)' = Trader(f)
  BY <1>1, <1>4 DEF RoomFor, BranchRoom, Trader
<1>6. ASSUME NEW d \in Desks, NEW u \in DeskTask, u = desk[d]
      PROVE  AboutThis(u)' /\ StillSo(u)' /\ (NeedsKey(u)' => NeedsKey(u))
  <2>1. AboutThis(u) /\ StillSo(u)
    BY <1>6, TaskFields DEF OrganizationInv, DesksSound
  <2>2. u.login \/ u.do = "found" => u.who \in People \ {p}
    BY <1>1, <2>1, TaskFields DEF AboutThis, StillSo, OfBranch
  <2> QED BY <1>1, <1>2, <1>4, <1>5, <2>1, <2>2 DEF AboutThis, StillSo, NeedsKey
<1>7. desk' \in [Desks -> {NoTask} \cup DeskTask] /\ DesksSound' /\ DesksApart'
  BY <1>1, <1>6, DesksStay
<1>8. NoStrayLogin'
  BY <1>1, <1>2 DEF OrganizationInv, LoginsSound, NoStrayLogin
<1> QED BY <1>1, <1>3, <1>7, <1>8, LoginWritten

LEMMA LeavingWritten ==
  ASSUME OrganizationInv, NEW p \in People, NEW now \in Deletion,
         leaving' = [leaving EXCEPT ![p] = now],
         UNCHANGED <<firm, member, branch, profile, stray, desk, held>>,
         login' = login \/ (login' = [login EXCEPT ![p] = "deleted"] /\ leaving[p].stage = "login"),
         now.stage # "no" => \A d \in Desks : ~(desk[d] # NoTask /\ desk[d].who = p /\ desk[d].login),
         LeavingSound'
  PROVE  OrganizationInv'
<1>1. /\ leaving' \in [People -> Deletion]
      /\ \A q \in People : leaving'[q] = IF q = p THEN now ELSE leaving[q]
  BY DEF OrganizationInv, OrganizationTyped
<1>2. /\ login' \in [People -> {"none", "own", "given", "taken", "deleted"}]
      /\ \A q \in People \ {p} : login'[q] = login[q]
      /\ login'[p] = login[p] \/ (login'[p] = "deleted" /\ leaving[p].stage = "login")
  BY DEF OrganizationInv, OrganizationTyped
<1>3. /\ \A f : There(f)' = There(f) /\ Staff(f)' = Staff(f) /\ OpenBranches(f)' = OpenBranches(f)
      /\ \A q : Owned(q)' = Owned(q)
      /\ \A b : InBranch(b)' = InBranch(b)
      /\ \A q, f : IsIn(q, f)' = IsIn(q, f)
  BY DEF There, Staff, OpenBranches, Owned, InBranch, IsIn
<1>4. \A f : RoomFor(f)' = RoomFor(f) /\ BranchRoom(f)' = BranchRoom(f) /\ Trader(f)' = Trader(f)
  BY <1>3 DEF RoomFor, BranchRoom, Trader
<1>5. ASSUME NEW d \in Desks, NEW u \in DeskTask, u = desk[d]
      PROVE  AboutThis(u)' /\ StillSo(u)' /\ (NeedsKey(u)' => NeedsKey(u))
  <2>1. AboutThis(u) /\ StillSo(u)
    BY <1>5, TaskFields DEF OrganizationInv, DesksSound
  <2>2. u.login \/ u.do = "found" => u.who \in People
    BY <2>1, TaskFields DEF AboutThis, OfBranch
  <2>3. u.login => login'[u.who] = login[u.who] /\ ~Going(u.who)'
    <3>1. u.login => ~Going(u.who)
      BY <2>1 DEF StillSo
    <3>2. u.login => (u.who = p => now.stage = "no")
      BY <1>5, TaskFields
    <3> QED BY <1>1, <1>2, <2>2, <3>1, <3>2 DEF Going
  <2>4. u.do = "found" => login'[u.who] # "none"
    BY <1>2, <2>1, <2>2 DEF StillSo
  <2> QED BY <1>3, <1>4, <2>1, <2>3, <2>4 DEF AboutThis, StillSo, NeedsKey
<1>6. desk' \in [Desks -> {NoTask} \cup DeskTask] /\ DesksSound' /\ DesksApart'
  BY <1>5, DesksStay
<1>7. OrganizationTyped'
  BY <1>1, <1>2, <1>6 DEF OrganizationInv, OrganizationTyped
<1>8. LoginsSound'
  BY <1>2 DEF OrganizationInv, OrganizationTyped, LoginsSound, NoStrayLogin
<1>9. FirmsSound' /\ OneOwned'
  BY <1>3 DEF OrganizationInv, FirmsSound, OneOwned
<1>10. StaffWithinLimit' /\ BranchesWithinLimit' /\ ArchivedIsEmpty'
  BY <1>3 DEF OrganizationInv, StaffWithinLimit, BranchesWithinLimit, ArchivedIsEmpty
<1>11. SomebodyBehind'
  <2>1. leaving[p].stage = "login" => \A f \in Firms : IsIn(p, f) => member[p][f].overlapped
    BY DEF OrganizationInv, LeavingSound, Going
  <2> QED BY <1>2, <1>3, <2>1 DEF OrganizationInv, SomebodyBehind
<1> QED BY <1>6, <1>7, <1>8, <1>9, <1>10, <1>11 DEF OrganizationInv

LEMMA StayIsDeletion == Stay \in Deletion /\ Stay.stage = "no"
BY DEF Stay, Deletion

(* A deletion that ends gives back no more than its own rows.              *)
LEMMA GiveUpKeeps ==
  ASSUME OrganizationInv, NEW p \in People, GiveUp(p),
         UNCHANGED <<firm, member, branch, profile, stray, desk, held>>,
         login' = login \/ (login' = [login EXCEPT ![p] = "deleted"] /\ leaving[p].stage = "login"),
         rows' = rows \/ (rows' = rows \ leaving[p].owned /\ Going(p))
  PROVE  OrganizationInv'
<1>1. /\ leaving' = [leaving EXCEPT ![p] = Stay]
      /\ ~Going(p)' /\ \A q \in People \ {p} : leaving'[q] = leaving[q]
  BY StayIsDeletion DEF GiveUp, OrganizationInv, OrganizationTyped, Going
<1>2. LeavingSound'
  <2> SUFFICES ASSUME NEW q \in People \ {p}, leaving[q].stage # "no"
               PROVE  /\ login'[q] # "none"
                      /\ \A f \in leaving[q].owned :
                           IF leaving[q].stage = "login" THEN firm[f] = GoneFirm
                                                         ELSE There(f)' /\ firm[f].founder = q
                      /\ \A f \in Firms :
                           There(f)' /\ firm[f].founder = q /\ ~member[q][f].overlapped => f \in leaving[q].owned
                      /\ leaving[q].stage = "purge" =>
                           \A f \in leaving[q].owned :
                             f \in rows' /\ \A i \in Others(q, f)' : member[i][f].overlapped
                      /\ leaving[q].stage = "login" => \A f \in Firms : IsIn(q, f)' => member[q][f].overlapped
    BY <1>1 DEF LeavingSound, Going
  <2>1. login'[q] = login[q]
    BY DEF OrganizationInv, OrganizationTyped
  <2>2. /\ \A f : There(f)' = There(f)
        /\ \A i, f : IsIn(i, f)' = IsIn(i, f) /\ Others(i, f)' = Others(i, f)
    BY DEF There, IsIn, Others
  <2>3. leaving[q].stage = "purge" => leaving[q].owned \subseteq rows'
    <3> SUFFICES ASSUME leaving[q].stage = "purge", NEW f \in leaving[q].owned, Going(p), f \in leaving[p].owned
                 PROVE  FALSE
      BY DEF OrganizationInv, LeavingSound, Going
    <3>1. There(f) /\ firm[f].founder = q
      BY DEF OrganizationInv, LeavingSound, Going
    <3>2. firm[f] = GoneFirm \/ firm[f].founder = p
      BY DEF OrganizationInv, LeavingSound, Going
    <3> QED BY <3>1, <3>2 DEF There
  <2> QED BY <2>1, <2>2, <2>3 DEF OrganizationInv, LeavingSound, Going
<1> QED BY <1>1, <1>2, StayIsDeletion, LeavingWritten

LEMMA LeaveKeeps ==
  ASSUME OrganizationInv, NEW p \in People, Leave(p)
  PROVE  OrganizationInv'
<1> DEFINE now == [stage |-> "data", owned |-> Owned(p)]
<1>1. /\ CanLogIn(p) /\ leaving' = [leaving EXCEPT ![p] = now]
      /\ UNCHANGED <<firm, member, branch, login, profile, stray, desk, held, rows>>
  BY DEF Leave, records
<1>2. now \in Deletion /\ now.stage = "data" /\ now.owned = Owned(p)
  BY DEF Deletion, Owned
<1> HIDE DEF now
<1>3. /\ \A f : There(f)' = There(f)
      /\ \A q, f : IsIn(q, f)' = IsIn(q, f) /\ Others(q, f)' = Others(q, f)
      /\ \A q \in People : leaving'[q] = IF q = p THEN now ELSE leaving[q]
  BY <1>1 DEF There, IsIn, Others, OrganizationInv, OrganizationTyped
<1>4. /\ \A f \in Owned(p) : There(f) /\ firm[f].founder = p
      /\ \A f \in Firms : There(f) /\ firm[f].founder = p /\ ~member[p][f].overlapped => f \in Owned(p)
  BY DEF OrganizationInv, FirmsSound, SomebodyBehind, Owned, IsIn
<1>5. LeavingSound'
  <2> SUFFICES ASSUME NEW q \in People, leaving'[q].stage # "no"
               PROVE  /\ login[q] # "none"
                      /\ \A f \in leaving'[q].owned :
                           IF leaving'[q].stage = "login" THEN firm[f] = GoneFirm
                                                          ELSE There(f) /\ firm[f].founder = q
                      /\ \A f \in Firms :
                           There(f) /\ firm[f].founder = q /\ ~member[q][f].overlapped => f \in leaving'[q].owned
                      /\ leaving'[q].stage = "purge" =>
                           \A f \in leaving'[q].owned :
                             f \in rows /\ \A i \in Others(q, f) : member[i][f].overlapped
                      /\ leaving'[q].stage = "login" => \A f \in Firms : IsIn(q, f) => member[q][f].overlapped
    BY <1>1, <1>3 DEF LeavingSound, Going
  <2>1. CASE q = p
    <3>1. leaving'[q] = now /\ login[q] # "none"
      BY <1>1, <1>3, <2>1 DEF CanLogIn
    <3> QED BY <1>2, <1>4, <2>1, <3>1
  <2>2. CASE q # p
    <3>1. leaving'[q] = leaving[q]
      BY <1>3, <2>2
    <3> QED BY <3>1 DEF OrganizationInv, LeavingSound, Going
  <2> QED BY <2>1, <2>2
<1> QED BY <1>1, <1>2, <1>5, LeavingWritten DEF CanLogIn

LEMMA RecheckKeeps ==
  ASSUME OrganizationInv, NEW p \in People, Recheck(p)
  PROVE  OrganizationInv'
<1>1. /\ leaving[p].stage = "data" /\ UNCHANGED <<firm, member, branch, login, profile, stray, desk, held>>
  BY DEF Recheck, records
<1>2. CASE Alone(p)
  <2> DEFINE now == [leaving[p] EXCEPT !.stage = "purge"]
  <2>1. leaving' = [leaving EXCEPT ![p] = now] /\ rows' = rows \cup leaving[p].owned
    BY <1>2 DEF Recheck
  <2>2. now \in Deletion /\ now.stage = "purge" /\ now.owned = leaving[p].owned
    BY DEF OrganizationInv, OrganizationTyped, Deletion
  <2> HIDE DEF now
  <2>3. /\ \A f : There(f)' = There(f)
        /\ \A q, f : IsIn(q, f)' = IsIn(q, f) /\ Others(q, f)' = Others(q, f)
        /\ \A q \in People : leaving'[q] = IF q = p THEN now ELSE leaving[q]
    BY <1>1, <2>1 DEF There, IsIn, Others, OrganizationInv, OrganizationTyped
  <2>4. LeavingSound'
    <3> SUFFICES ASSUME NEW q \in People, leaving'[q].stage # "no"
                 PROVE  /\ login[q] # "none"
                        /\ \A f \in leaving'[q].owned :
                             IF leaving'[q].stage = "login" THEN firm[f] = GoneFirm
                                                            ELSE There(f) /\ firm[f].founder = q
                        /\ \A f \in Firms :
                             There(f) /\ firm[f].founder = q /\ ~member[q][f].overlapped => f \in leaving'[q].owned
                        /\ leaving'[q].stage = "purge" =>
                             \A f \in leaving'[q].owned :
                               f \in rows' /\ \A i \in Others(q, f) : member[i][f].overlapped
                        /\ leaving'[q].stage = "login" => \A f \in Firms : IsIn(q, f) => member[q][f].overlapped
      BY <1>1, <2>3 DEF LeavingSound, Going
    <3>1. CASE q = p
      <4>1. leaving'[q] = now /\ Going(q)
        BY <1>1, <2>3, <3>1 DEF Going
      <4>2. \A f \in leaving[p].owned : Others(p, f) = {} /\ f \in rows'
        BY <1>2, <2>1 DEF Alone
      <4> QED BY <1>1, <2>2, <3>1, <4>1, <4>2 DEF OrganizationInv, LeavingSound
    <3>2. CASE q # p
      <4>1. leaving'[q] = leaving[q] /\ rows \subseteq rows'
        BY <2>1, <2>3, <3>2
      <4> QED BY <4>1 DEF OrganizationInv, LeavingSound, Going
    <3> QED BY <3>1, <3>2
  <2>5. \A d \in Desks : ~(desk[d] # NoTask /\ desk[d].who = p /\ desk[d].login)
    BY <1>1 DEF OrganizationInv, DesksSound, StillSo, Going
  <2> QED BY <1>1, <2>1, <2>2, <2>4, <2>5, LeavingWritten
<1>3. CASE ~Alone(p)
  BY <1>1, <1>3, GiveUpKeeps DEF Recheck
<1> QED BY <1>2, <1>3

LEMMA DeletionEndsKeeps ==
  ASSUME OrganizationInv, NEW p \in People, DropLogin(p) \/ DeletionFails(p)
  PROVE  OrganizationInv'
<1>1. GiveUp(p) /\ UNCHANGED <<firm, member, branch, profile, stray, desk, held>>
  BY DEF DropLogin, DeletionFails, records
<1>2. login' = login \/ (login' = [login EXCEPT ![p] = "deleted"] /\ leaving[p].stage = "login")
  BY DEF DropLogin, DeletionFails, records
<1>3. rows' = rows \/ (rows' = rows \ leaving[p].owned /\ Going(p))
  BY DEF DropLogin, DeletionFails
<1> QED BY <1>1, <1>2, <1>3, GiveUpKeeps

-----------------------------------------------------------------------------
(* The steps that write a person, a branch or a firm.                      *)

LEMMA RowWritten ==
  ASSUME OrganizationInv, NEW p \in People, NEW f \in Firms, NEW row \in Member,
         member' = [member EXCEPT ![p][f] = row], row # NoMember,
         UNCHANGED <<firm, branch>>
  PROVE  /\ member' \in [People -> [Firms -> Member \cup {NoMember}]]
         /\ member'[p][f] = row
         /\ \A q \in People, g \in Firms : (q # p \/ g # f) => member'[q][g] = member[q][g]
         /\ \A g : There(g)' = There(g) /\ Trader(g)' = Trader(g)
                   /\ OpenBranches(g)' = OpenBranches(g) /\ BranchRoom(g)' = BranchRoom(g)
         /\ \A q \in People, g \in Firms : (q # p \/ g # f) => (IsIn(q, g)' <=> IsIn(q, g))
         /\ IsIn(p, f)' <=> row.status = "active"
<1>1. member \in [People -> [Firms -> Member \cup {NoMember}]]
  BY DEF OrganizationInv, OrganizationTyped
<1>2. /\ member' \in [People -> [Firms -> Member \cup {NoMember}]]
      /\ member'[p][f] = row
      /\ \A q \in People, g \in Firms : (q # p \/ g # f) => member'[q][g] = member[q][g]
  BY <1>1
<1>3. \A g : There(g)' = There(g) /\ OpenBranches(g)' = OpenBranches(g)
  BY DEF There, OpenBranches
<1>4. \A g : Trader(g)' = Trader(g) /\ BranchRoom(g)' = BranchRoom(g)
  BY <1>3 DEF Trader, BranchRoom
<1> QED BY <1>2, <1>3, <1>4 DEF IsIn

LEMMA WriteMemberKeeps ==
  ASSUME OrganizationInv, NEW d \in Desks, WriteMember(d) \/ CommitAnswerLost(d)
  PROVE  OrganizationInv'
<1>1. /\ desk[d] # NoTask /\ desk[d].do = "write" /\ desk[d] \in DeskTask
      /\ UNCHANGED <<firm, branch, stray, rows, leaving>>
  BY DEF WriteMember, CommitAnswerLost, Doing, OrganizationInv, OrganizationTyped
<1>2. AboutThis(desk[d]) /\ StillSo(desk[d])
  BY <1>1 DEF OrganizationInv, DesksSound
<1>3. PICK p \in People, f \in Firms, b \in Branches \cup {NoBranch} :
        p = desk[d].who /\ f = desk[d].firm /\ b = desk[d].branch
  BY <1>1, <1>2, TaskFields DEF AboutThis, OfBranch
<1>4. held' = held \ {RoomKey(f)} /\ RoomKey(f) = KeyOf(desk[d])
  BY <1>1, <1>3 DEF WriteMember, CommitAnswerLost, Unlock, KeyOf
<1>5. PICK raced \in BOOLEAN, overlapped \in BOOLEAN :
        /\ raced <=> Raced(d)
        /\ overlapped <=> ~desk[d].login /\ (f \in rows \/ Going(p) \/ login[p] = "deleted" \/ p \notin profile)
        /\ Row("staff", "active", b, Raced(d),
               ~desk[d].login /\ (f \in rows \/ Going(p) \/ login[p] = "deleted" \/ p \notin profile))
           = Row("staff", "active", b, raced, overlapped)
  <2>1. Raced(d) \in BOOLEAN
    BY <1>1, TaskFields DEF Raced
  <2> QED BY <2>1
<1>6. PICK row \in Member :
        /\ row = Row("staff", "active", b, raced, overlapped) /\ row # NoMember
        /\ row.role = "staff" /\ row.status = "active" /\ row.branch = b
        /\ row.raced = raced /\ row.overlapped = overlapped
  BY RowIsMember
<1> DEFINE mayWrite == IF desk[d].login THEN There(f) /\ member[p][f] = NoMember
                       ELSE member[p][f] # NoMember /\ member[p][f].role # "owner"
<1>7. CASE ~mayWrite
  <2>1. AfterFailure(d) /\ UNCHANGED <<records, rows, leaving>>
    BY <1>1, <1>3, <1>7 DEF WriteMember, CommitAnswerLost, RowFree, records
  <2> QED BY <1>1, <1>4, <2>1, FailsKeeps
<1>8. CASE mayWrite
  <2>1. /\ member' = [member EXCEPT ![p][f] = row]
        /\ profile' = IF desk[d].login THEN profile \cup {p} ELSE profile
        /\ login' = [login EXCEPT ![p] = IF desk[d].login THEN "own" ELSE @]
        /\ desk[d].login => f \notin rows
    BY <1>3, <1>5, <1>6, <1>8 DEF WriteMember, CommitAnswerLost, CommitMember, RowFree, KeyFree
  <2>2. PICK t \in {NoTask} \cup DeskTask :
          /\ desk' = [desk EXCEPT ![d] = t]
          /\ t # NoTask => /\ t.do = "disown" /\ t.firm = f /\ t.who = p
                           /\ t.login = FALSE /\ t.open = desk[d].open
    <3>1. CASE Finish(d)
      BY <3>1 DEF Finish
    <3>2. CASE ~Finish(d)
      <4> DEFINE t == [desk[d] EXCEPT !.do = "disown", !.login = FALSE]
      <4>1. desk' = [desk EXCEPT ![d] = t]
        BY <1>3, <1>8, <3>2 DEF WriteMember, CommitAnswerLost, RowFree
      <4>2. /\ t \in DeskTask /\ t.do = "disown" /\ t.firm = f /\ t.who = p
            /\ t.login = FALSE /\ t.open = desk[d].open
        BY <1>1, <1>3 DEF DeskTask
      <4> QED BY <4>1, <4>2
    <3> QED BY <3>1, <3>2
  <2>4. /\ member[p][f] # NoMember => member[p][f].role # "owner"
        /\ There(f) => p # firm[f].founder
    BY <1>8 DEF OrganizationInv, FirmsSound
  <2>5. /\ desk[d].login => login[p] = "given" /\ p \notin profile /\ ~Going(p)
        /\ desk[d].open /\ firm[f] # NoFirm
    BY <1>1, <1>2, <1>3 DEF AboutThis, StillSo, OfBranch
  <2> HIDE DEF mayWrite
  <2>6. /\ member' \in [People -> [Firms -> Member \cup {NoMember}]]
        /\ member'[p][f] = row
        /\ \A q \in People, g \in Firms : (q # p \/ g # f) => member'[q][g] = member[q][g]
        /\ \A g : There(g)' = There(g) /\ Trader(g)' = Trader(g)
                  /\ OpenBranches(g)' = OpenBranches(g) /\ BranchRoom(g)' = BranchRoom(g)
        /\ \A q \in People, g \in Firms : (q # p \/ g # f) => (IsIn(q, g)' <=> IsIn(q, g))
        /\ IsIn(p, f)'
    <3>1. member' = [member EXCEPT ![p][f] = row] /\ row # NoMember /\ UNCHANGED <<firm, branch>>
      BY <1>1, <1>6, <2>1
    <3>2. /\ member' \in [People -> [Firms -> Member \cup {NoMember}]]
          /\ member'[p][f] = row
          /\ \A q \in People, g \in Firms : (q # p \/ g # f) => member'[q][g] = member[q][g]
          /\ \A g : There(g)' = There(g) /\ Trader(g)' = Trader(g)
                    /\ OpenBranches(g)' = OpenBranches(g) /\ BranchRoom(g)' = BranchRoom(g)
          /\ \A q \in People, g \in Firms : (q # p \/ g # f) => (IsIn(q, g)' <=> IsIn(q, g))
          /\ IsIn(p, f)' <=> row.status = "active"
      BY <3>1, RowWritten
    <3> QED BY <1>6, <3>2
  <2>7. /\ login' \in [People -> {"none", "own", "given", "taken", "deleted"}]
        /\ \A q \in People \ {p} : login'[q] = login[q]
        /\ login'[p] = IF desk[d].login THEN "own" ELSE login[p]
    BY <2>1 DEF OrganizationInv, OrganizationTyped
  <2>8. \A q : Going(q)' = Going(q)
    BY <1>1 DEF Going
  <2>9. \A q \in People : Owned(q)' = Owned(q)
    <3> SUFFICES ASSUME NEW q \in People, NEW g \in Firms
                 PROVE  IsIn(q, g)' /\ member'[q][g].role = "owner" <=> IsIn(q, g) /\ member[q][g].role = "owner"
      BY <2>6 DEF Owned
    <3>1. CASE q = p /\ g = f
      BY <1>6, <2>4, <2>6, <3>1 DEF IsIn
    <3>2. CASE q # p \/ g # f
      BY <2>6, <3>2
    <3> QED BY <3>1, <3>2
  <2>10. \A g \in Firms : Staff(g)' = IF g = f THEN Staff(g) \cup {p} ELSE Staff(g)
    BY <1>6, <2>6 DEF Staff
  <2>11. \A c \in Branches, q \in People : q \in InBranch(c)' =>
           (q = p /\ FirmOf[c] = f /\ c = b) \/ (q \in InBranch(c) /\ (q # p \/ FirmOf[c] # f))
    BY <1>6, <2>6, OrganizationAssumption DEF InBranch
  <2>12. \A g \in Firms : Trader(g) /\ g # f => Staff(g)' = Staff(g)
    BY <2>10
  <2>13. ASSUME NEW e \in Desks \ {d}, NEW u \in DeskTask, u = desk[e]
         PROVE  AboutThis(u)' /\ StillSo(u)' /\ (NeedsKey(u)' => NeedsKey(u))
    <3>1. AboutThis(u) /\ StillSo(u) /\ ~Clash(desk[d], u)
      BY <1>1, <2>13, TaskFields DEF OrganizationInv, DesksSound, DesksApart
    <3>2. u.login \/ u.do = "found" => u.who \in People
      BY <3>1, TaskFields DEF AboutThis, OfBranch
    <3>3. desk[d].login => ~(u.who = p /\ (u.login \/ u.do = "found"))
      BY <1>3, <3>1 DEF Clash
    <3>4. AboutThis(u)' /\ (NeedsKey(u)' <=> NeedsKey(u))
      BY <1>1, <2>6, <3>1 DEF AboutThis, NeedsKey
    <3>5. u.do = "write" /\ Trader(u.firm)' => RoomFor(u.firm)'
      <4> SUFFICES ASSUME u.do = "write", Trader(u.firm) PROVE RoomFor(u.firm)'
        BY <2>6
      <4>1. u.firm # f
        <5> SUFFICES ASSUME u.firm = f PROVE FALSE
          OBVIOUS
        <5>1. NeedsKey(u) /\ NeedsKey(desk[d]) /\ KeyOf(u) = KeyOf(desk[d])
          BY <1>1, <1>3 DEF NeedsKey, KeyOf
        <5> QED BY <3>1, <5>1 DEF Clash
      <4>2. Staff(u.firm)' = Staff(u.firm)
        BY <2>10, <4>1, TaskFields
      <4> QED BY <1>1, <3>1, <4>2 DEF RoomFor, StillSo
    <3>6. u.do = "archive" => \A q \in InBranch(u.branch)' : member'[q][u.firm].raced
      <4> SUFFICES ASSUME u.do = "archive", NEW q \in InBranch(u.branch)'
                   PROVE  member'[q][u.firm].raced
        OBVIOUS
      <4>1. u.branch \in Branches /\ FirmOf[u.branch] = u.firm /\ q \in People /\ u.firm \in Firms
        BY <3>1, TaskFields DEF AboutThis, OfBranch, InBranch
      <4>2. CASE q = p /\ u.firm = f /\ u.branch = b
        <5>1. raced
          BY <1>3, <1>5, <2>5, <2>13, <4>1, <4>2, TaskFields, OrganizationAssumption DEF Raced, Doing
        <5> QED BY <1>6, <2>6, <4>2, <5>1
      <4>3. CASE q \in InBranch(u.branch) /\ (q # p \/ u.firm # f)
        BY <2>6, <3>1, <4>1, <4>3 DEF StillSo
      <4> QED BY <2>11, <4>1, <4>2, <4>3
    <3>7. u.do = "found" => Owned(u.who)' = {} /\ login'[u.who] # "none"
      BY <2>7, <2>9, <3>1, <3>2 DEF StillSo
    <3>8. u.login => login'[u.who] = "given" /\ u.who \notin profile' /\ ~Going(u.who)'
      BY <2>1, <2>7, <2>8, <3>1, <3>2, <3>3 DEF StillSo
    <3>9. u.do = "open" => BranchRoom(u.firm)'
      BY <2>6, <3>1 DEF StillSo
    <3> QED BY <3>4, <3>5, <3>6, <3>7, <3>8, <3>9 DEF StillSo
  <2>14. desk' \in [Desks -> {NoTask} \cup DeskTask] /\ DesksSound' /\ DesksApart'
    <3>1. ASSUME NEW e \in Desks \ {d}, NEW u \in DeskTask, u = desk[e]
          PROVE  /\ AboutThis(u)' /\ StillSo(u)'
                 /\ NeedsKey(u)' => NeedsKey(u) /\ KeyOf(u) \in held'
                 /\ t # NoTask => ~Clash(t, u)' /\ ~Clash(u, t)'
      <4>1. NeedsKey(u) => KeyOf(u) \in held'
        BY <1>1, <1>4, <3>1, OthersKeys
      <4>2. t # NoTask => ~Clash(t, u)' /\ ~Clash(u, t)'
        BY <2>2 DEF Clash, NeedsKey, OfBranch
      <4> QED BY <2>13, <3>1, <4>1, <4>2
    <3>2. t # NoTask => AboutThis(t)' /\ StillSo(t)' /\ (NeedsKey(t)' => KeyOf(t) \in held')
      BY <1>1, <2>2, <2>5 DEF AboutThis, StillSo, NeedsKey, OfBranch
    <3> QED BY <2>2, <3>1, <3>2, DesksFollow
  <2>15. OrganizationTyped'
    BY <1>1, <2>1, <2>6, <2>7, <2>14 DEF OrganizationInv, OrganizationTyped
  <2>16. LoginsSound'
    <3>1. \A q \in profile' : login'[q] \in {"own", "taken", "deleted"}
      BY <2>1, <2>7 DEF OrganizationInv, OrganizationTyped, LoginsSound
    <3>2. NoStrayLogin'
      <4> SUFFICES ASSUME NEW q \in People, login'[q] = "given", q \notin profile', q \notin stray
                   PROVE  \E e \in Desks : desk'[e] # NoTask /\ desk'[e].who = q /\ desk'[e].login
        BY <1>1 DEF NoStrayLogin
      <4>1. login[q] = "given" /\ q \notin profile /\ (desk[d].login => q # p)
        BY <2>1, <2>7
      <4>2. PICK e \in Desks : desk[e] # NoTask /\ desk[e].who = q /\ desk[e].login
        BY <4>1 DEF OrganizationInv, LoginsSound, NoStrayLogin
      <4>3. e # d
        BY <1>3, <4>1, <4>2
      <4>4. desk'[e] = desk[e]
        BY <2>2, <4>3 DEF OrganizationInv, OrganizationTyped
      <4> QED BY <4>2, <4>4
    <3> QED BY <3>1, <3>2 DEF LoginsSound
  <2>17. FirmsSound'
    <3> SUFFICES ASSUME NEW g \in Firms
                 PROVE  /\ firm[g] = NoFirm => \A q \in People : member'[q][g] = NoMember
                        /\ There(g) =>
                             /\ member'[firm[g].founder][g] # NoMember
                             /\ \A q \in People :
                                  member'[q][g] # NoMember => (member'[q][g].role = "owner" <=> q = firm[g].founder)
      BY <1>1, <2>6 DEF FirmsSound
    <3>1. There(g) => firm[g].founder \in People
      BY DEF OrganizationInv, OrganizationTyped, There, Firm
    <3> QED BY <1>6, <2>4, <2>5, <2>6, <3>1 DEF OrganizationInv, FirmsSound
  <2>18. OneOwned'
    BY <2>9 DEF OrganizationInv, OneOwned
  <2>19. StaffWithinLimit'
    <3> SUFFICES ASSUME NEW g \in Firms, There(g), firm[g].type = "trader"
                 PROVE  Cardinality(Staff(g)') <= StaffLimit[g]
      BY <1>1, <2>6 DEF StaffWithinLimit
    <3>1. CASE g # f
      BY <2>10, <3>1 DEF OrganizationInv, StaffWithinLimit
    <3>2. CASE g = f
      <4>1. Cardinality(Staff(f)) < StaffLimit[f]
        BY <1>1, <1>2, <1>3, <3>2 DEF StillSo, Trader, RoomFor
      <4>2. IsFiniteSet(Staff(f)) /\ Cardinality(Staff(f)) \in Nat
        BY FiniteCounts
      <4>3. StaffLimit[f] \in Nat /\ Staff(g)' = Staff(f) \cup {p}
        BY <2>10, <3>2, OrganizationAssumption
      <4>4. CASE p \in Staff(f)
        <5>1. Staff(g)' = Staff(f)
          BY <4>3, <4>4
        <5> QED BY <3>2, <4>1, <4>2, <4>3, <5>1
      <4>5. CASE p \notin Staff(f)
        <5>1. Cardinality(Staff(f) \cup {p}) = Cardinality(Staff(f)) + 1
          BY <4>2, <4>5, FS_AddElement
        <5> QED BY <3>2, <4>1, <4>2, <4>3, <5>1
      <4> QED BY <4>4, <4>5
    <3> QED BY <3>1, <3>2
  <2>20. BranchesWithinLimit'
    BY <2>6 DEF OrganizationInv, BranchesWithinLimit
  <2>21. ArchivedIsEmpty'
    <3> SUFFICES ASSUME NEW c \in Branches, branch[c] = "archived", NEW q \in InBranch(c)'
                 PROVE  member'[q][FirmOf[c]].raced
      BY <1>1 DEF ArchivedIsEmpty
    <3>1. q \in People /\ FirmOf[c] \in Firms
      BY OrganizationAssumption DEF InBranch
    <3>2. CASE q = p /\ FirmOf[c] = f /\ c = b
      <4>1. raced
        BY <1>3, <1>5, <2>5, <3>2, OrganizationAssumption DEF Raced
      <4> QED BY <1>6, <2>6, <3>2, <4>1
    <3>3. CASE q \in InBranch(c) /\ (q # p \/ FirmOf[c] # f)
      BY <2>6, <3>1, <3>3 DEF OrganizationInv, ArchivedIsEmpty
    <3> QED BY <2>11, <3>1, <3>2, <3>3
  <2>22. SomebodyBehind'
    <3>1. ASSUME NEW g \in Firms, There(g)
          PROVE  member'[firm[g].founder][g].status = "active" \/ member'[firm[g].founder][g].overlapped
      <4>1. firm[g].founder \in People /\ (firm[g].founder # p \/ g # f)
        BY <2>4, <3>1 DEF OrganizationInv, OrganizationTyped, There, Firm
      <4> QED BY <2>6, <3>1, <4>1 DEF OrganizationInv, SomebodyBehind
    <3>2. ASSUME NEW q \in People, NEW g \in Firms, IsIn(q, g)', ~member'[q][g].overlapped
          PROVE  login'[q] \in {"own", "taken"} /\ q \in profile'
      <4>1. CASE q = p /\ g = f
        <5>1. ~overlapped
          BY <1>6, <2>6, <3>2, <4>1
        <5>2. desk[d].login \/ (p \in profile /\ login[p] # "deleted")
          BY <1>5, <5>1
        <5> QED BY <2>1, <2>7, <4>1, <5>2 DEF OrganizationInv, LoginsSound
      <4>2. CASE q # p \/ g # f
        <5>1. login[q] \in {"own", "taken"} /\ q \in profile
          BY <2>6, <3>2, <4>2 DEF OrganizationInv, SomebodyBehind
        <5> QED BY <2>1, <2>7, <5>1
      <4> QED BY <4>1, <4>2
    <3> QED BY <1>1, <2>6, <3>1, <3>2 DEF SomebodyBehind
  <2>23. LeavingSound'
    <3> SUFFICES ASSUME NEW q \in People, Going(q)
                 PROVE  /\ login'[q] # "none"
                        /\ \A g \in leaving[q].owned :
                             IF leaving[q].stage = "login" THEN firm[g] = GoneFirm
                                                           ELSE There(g) /\ firm[g].founder = q
                        /\ \A g \in Firms :
                             There(g) /\ firm[g].founder = q /\ ~member'[q][g].overlapped => g \in leaving[q].owned
                        /\ leaving[q].stage = "purge" =>
                             \A g \in leaving[q].owned :
                               g \in rows /\ \A i \in Others(q, g)' : member'[i][g].overlapped
                        /\ leaving[q].stage = "login" => \A g \in Firms : IsIn(q, g)' => member'[q][g].overlapped
      BY <1>1, <2>6, <2>8 DEF LeavingSound
    <3>1. login'[q] # "none"
      BY <2>7 DEF OrganizationInv, LeavingSound
    <3>2. \A g \in Firms :
            There(g) /\ firm[g].founder = q /\ ~member'[q][g].overlapped => g \in leaving[q].owned
      BY <2>4, <2>6 DEF OrganizationInv, LeavingSound
    <3>3. ASSUME leaving[q].stage = "purge", NEW g \in leaving[q].owned, NEW i \in Others(q, g)'
          PROVE  member'[i][g].overlapped
      <4>1. g \in rows /\ i \in People \ {q} /\ IsIn(i, g)' /\ g \in Firms
        BY <3>3 DEF OrganizationInv, OrganizationTyped, Deletion, LeavingSound, Others
      <4>2. CASE i = p /\ g = f
        BY <1>5, <1>6, <2>1, <2>6, <4>1, <4>2
      <4>3. CASE i # p \/ g # f
        BY <2>6, <3>3, <4>1, <4>3 DEF OrganizationInv, LeavingSound, Others
      <4> QED BY <4>2, <4>3
    <3>4. ASSUME leaving[q].stage = "login", NEW g \in Firms, IsIn(q, g)'
          PROVE  member'[q][g].overlapped
      <4>1. CASE q = p /\ g = f
        BY <1>5, <1>6, <2>5, <2>6, <4>1
      <4>2. CASE q # p \/ g # f
        BY <2>6, <3>4, <4>2 DEF OrganizationInv, LeavingSound
      <4> QED BY <4>1, <4>2
    <3> QED BY <3>1, <3>2, <3>3, <3>4 DEF OrganizationInv, LeavingSound
  <2> QED
    BY <2>14, <2>15, <2>16, <2>17, <2>18, <2>19, <2>20, <2>21, <2>22, <2>23 DEF OrganizationInv
<1> QED BY <1>7, <1>8

(* A person who was in the firm already changes branch, or leaves it.      *)
LEMMA RowChanged ==
  ASSUME OrganizationInv, NEW p \in People, NEW f \in Firms, NEW row \in Member,
         member[p][f] # NoMember, member' = [member EXCEPT ![p][f] = row],
         row.role = member[p][f].role, row.overlapped = member[p][f].overlapped,
         row.status = member[p][f].status \/ (row.status = "removed" /\ row.role # "owner"),
         \A c \in Branches : row.branch = c =>
           \/ member[p][f].branch = c /\ row.raced = member[p][f].raced
           \/ branch[c] = "archived" \/ (\E e \in Desks : Doing(e, "archive") /\ desk[e].branch = c) => row.raced,
         UNCHANGED <<firm, branch, login, profile, stray, rows, leaving>>
  PROVE  /\ \A d \in Desks, u \in DeskTask :
              u = desk[d] => AboutThis(u)' /\ StillSo(u)' /\ (NeedsKey(u)' => NeedsKey(u))
         /\ desk' \in [Desks -> {NoTask} \cup DeskTask] => OrganizationTyped'
         /\ FirmsSound' /\ LeavingSound' /\ OneOwned'
         /\ StaffWithinLimit' /\ BranchesWithinLimit' /\ ArchivedIsEmpty' /\ SomebodyBehind'
<1>1. row # NoMember /\ row.status \in {"active", "removed"}
  BY OrganizationAssumption DEF Member
<1>2. /\ member' \in [People -> [Firms -> Member \cup {NoMember}]]
      /\ member'[p][f] = row
      /\ \A q \in People, g \in Firms : (q # p \/ g # f) => member'[q][g] = member[q][g]
      /\ \A g : There(g)' = There(g) /\ Trader(g)' = Trader(g)
                /\ OpenBranches(g)' = OpenBranches(g) /\ BranchRoom(g)' = BranchRoom(g)
      /\ \A q \in People, g \in Firms : (q # p \/ g # f) => (IsIn(q, g)' <=> IsIn(q, g))
      /\ IsIn(p, f)' <=> row.status = "active"
  BY <1>1, RowWritten
<1>3. \A q \in People, g \in Firms :
        /\ IsIn(q, g)' => IsIn(q, g)
        /\ member'[q][g] = NoMember <=> member[q][g] = NoMember
        /\ member'[q][g].role = member[q][g].role /\ member'[q][g].overlapped = member[q][g].overlapped
        /\ member'[q][g].status = member[q][g].status \/ member[q][g].role # "owner"
  BY <1>1, <1>2 DEF IsIn
<1>4. \A q \in People, g \in Firms : member'[q][g].role = "owner" => (IsIn(q, g)' <=> IsIn(q, g))
  BY <1>3 DEF IsIn
<1>5. \A q : Going(q)' = Going(q)
  BY DEF Going
<1>6. \A q \in People : Owned(q)' = Owned(q)
  <2> SUFFICES ASSUME NEW q \in People, NEW g \in Firms
               PROVE  IsIn(q, g)' /\ member'[q][g].role = "owner" <=> IsIn(q, g) /\ member[q][g].role = "owner"
    BY <1>2 DEF Owned
  <2> QED BY <1>3, <1>4
<1>7. \A g \in Firms : Staff(g)' \subseteq Staff(g)
  BY <1>3 DEF Staff
<1>8. \A g \in Firms : Cardinality(Staff(g)') <= Cardinality(Staff(g)) /\ Cardinality(Staff(g)') \in Nat
  BY <1>7, FiniteCounts, FS_Subset, FS_CardinalityType
<1>9. \A q \in People, g \in Firms : Others(q, g)' \subseteq Others(q, g)
  BY <1>3 DEF Others
<1>10. ASSUME NEW c \in Branches, NEW q \in InBranch(c)',
              branch[c] = "archived" \/ \E e \in Desks : Doing(e, "archive") /\ desk[e].branch = c
       PROVE  \/ member'[q][FirmOf[c]].raced
              \/ q \in InBranch(c) /\ member'[q][FirmOf[c]].raced = member[q][FirmOf[c]].raced
  <2>1. q \in People /\ FirmOf[c] \in Firms /\ IsIn(q, FirmOf[c])' /\ member'[q][FirmOf[c]].branch = c
    BY OrganizationAssumption DEF InBranch
  <2>2. IsIn(q, FirmOf[c])
    BY <1>3, <2>1
  <2>3. CASE q = p /\ FirmOf[c] = f
    BY <1>2, <1>10, <2>1, <2>2, <2>3 DEF InBranch
  <2>4. CASE q # p \/ FirmOf[c] # f
    BY <1>2, <2>1, <2>2, <2>4 DEF InBranch
  <2> QED BY <2>3, <2>4
<1>11. ASSUME NEW d \in Desks, NEW u \in DeskTask, u = desk[d]
       PROVE  AboutThis(u)' /\ StillSo(u)' /\ (NeedsKey(u)' => NeedsKey(u))
  <2>1. AboutThis(u) /\ StillSo(u) /\ u # NoTask
    BY <1>11, TaskFields DEF OrganizationInv, DesksSound
  <2>2. u.login \/ u.do = "found" => u.who \in People
    BY <2>1, TaskFields DEF AboutThis, OfBranch
  <2>3. AboutThis(u)' /\ (NeedsKey(u)' <=> NeedsKey(u))
    BY <1>2, <2>1 DEF AboutThis, NeedsKey
  <2>4. u.do = "write" /\ Trader(u.firm) => RoomFor(u.firm)'
    <3>1. u.firm \in Firms /\ StaffLimit[u.firm] \in Nat
      BY TaskFields, OrganizationAssumption
    <3>2. Cardinality(Staff(u.firm)') <= Cardinality(Staff(u.firm)) /\ Cardinality(Staff(u.firm)') \in Nat
      BY <1>8, <3>1
    <3>3. Cardinality(Staff(u.firm)) \in Nat
      BY <3>1, FiniteCounts
    <3> QED BY <2>1, <3>1, <3>2, <3>3 DEF StillSo, RoomFor
  <2>5. ASSUME u.do = "archive", NEW q \in InBranch(u.branch)' PROVE member'[q][u.firm].raced
    <3>1. u.branch \in Branches /\ FirmOf[u.branch] = u.firm /\ Doing(d, "archive") /\ desk[d].branch = u.branch
      BY <1>11, <2>1, <2>5 DEF AboutThis, OfBranch, Doing
    <3>2. member'[q][u.firm].raced \/ (q \in InBranch(u.branch) /\ member'[q][u.firm].raced = member[q][u.firm].raced)
      BY <1>10, <2>5, <3>1
    <3> QED BY <2>1, <2>5, <3>2 DEF StillSo
  <2> QED BY <1>2, <1>5, <1>6, <2>1, <2>2, <2>3, <2>4, <2>5 DEF StillSo
<1>12. desk' \in [Desks -> {NoTask} \cup DeskTask] => OrganizationTyped'
  BY <1>2 DEF OrganizationInv, OrganizationTyped
<1>13. FirmsSound'
  <2>1. \A g \in Firms : There(g) => firm[g].founder \in People
    BY DEF OrganizationInv, OrganizationTyped, There, Firm
  <2> QED BY <1>2, <1>3, <2>1 DEF OrganizationInv, FirmsSound
<1>14. LeavingSound'
  <2>1. \A q \in People : Going(q) => leaving[q].owned \subseteq Firms
    BY DEF OrganizationInv, OrganizationTyped, Deletion
  <2>2. \A q \in People, g \in Firms : \A i \in Others(q, g)' :
          i \in Others(q, g) /\ member'[i][g].overlapped = member[i][g].overlapped
    BY <1>3, <1>9 DEF Others
  <2> QED BY <1>2, <1>3, <1>5, <2>1, <2>2 DEF OrganizationInv, LeavingSound
<1>15. OneOwned'
  BY <1>6 DEF OrganizationInv, OneOwned
<1>16. StaffWithinLimit'
  <2> SUFFICES ASSUME NEW g \in Firms, There(g), firm[g].type = "trader"
               PROVE  Cardinality(Staff(g)') <= StaffLimit[g]
    BY <1>2 DEF StaffWithinLimit
  <2>1. Cardinality(Staff(g)) <= StaffLimit[g] /\ StaffLimit[g] \in Nat
    BY OrganizationAssumption DEF OrganizationInv, StaffWithinLimit
  <2>2. Cardinality(Staff(g)) \in Nat
    BY FiniteCounts
  <2> QED BY <1>8, <2>1, <2>2
<1>17. BranchesWithinLimit'
  BY <1>2 DEF OrganizationInv, BranchesWithinLimit
<1>18. ArchivedIsEmpty'
  BY <1>10 DEF OrganizationInv, ArchivedIsEmpty
<1>19. SomebodyBehind'
  <2>1. \A g \in Firms : There(g) =>
          firm[g].founder \in People /\ member[firm[g].founder][g].role = "owner"
    BY DEF OrganizationInv, OrganizationTyped, FirmsSound, There, Firm
  <2> QED BY <1>2, <1>3, <2>1 DEF OrganizationInv, SomebodyBehind
<1> QED BY <1>11, <1>12, <1>13, <1>14, <1>15, <1>16, <1>17, <1>18, <1>19

LEMMA WriteChangeKeeps ==
  ASSUME OrganizationInv, NEW d \in Desks, WriteChange(d)
  PROVE  OrganizationInv'
<1>1. /\ desk[d] # NoTask /\ desk[d].do = "change" /\ desk[d] \in DeskTask
      /\ desk' = [desk EXCEPT ![d] = NoTask]
      /\ UNCHANGED <<firm, branch, login, profile, stray, held, rows, leaving, trouble>>
  BY DEF WriteChange, Doing, Finish, OrganizationInv, OrganizationTyped
<1>2. AboutThis(desk[d])
  BY <1>1 DEF OrganizationInv, DesksSound
<1>3. PICK p \in People, f \in Firms, b \in Branches \cup {NoBranch} :
        p = desk[d].who /\ f = desk[d].firm /\ b = desk[d].branch
  BY <1>1, <1>2, TaskFields DEF AboutThis, OfBranch
<1>4. desk[d].open /\ ~desk[d].login
  BY <1>1, <1>2 DEF AboutThis, OfBranch
<1>5. CASE member[p][f] = NoMember
  <2>1. member' = member
    BY <1>3, <1>5 DEF WriteChange
  <2> QED BY <1>1, <1>4, <2>1, FailsKeeps DEF records, Finish
<1>6. CASE member[p][f] # NoMember
  <2>1. PICK raced \in BOOLEAN : raced = Raced(d)
    BY <1>1, TaskFields DEF Raced
  <2>2. PICK old \in Member : old = member[p][f]
    BY <1>6 DEF OrganizationInv, OrganizationTyped
  <2>3. PICK row \in Member :
          /\ member' = [member EXCEPT ![p][f] = row]
          /\ row.role = old.role /\ row.overlapped = old.overlapped /\ row.status = old.status
          /\ row.branch = b /\ row.raced = raced
    <3> DEFINE r == [old EXCEPT !.branch = b, !.raced = raced]
    <3>1. /\ r \in Member /\ r.role = old.role /\ r.overlapped = old.overlapped
          /\ r.status = old.status /\ r.branch = b /\ r.raced = raced
      BY DEF Member
    <3>2. member' = [member EXCEPT ![p][f].branch = b, ![p][f].raced = raced]
      BY <1>3, <1>6, <2>1 DEF WriteChange
    <3>3. member' = [member EXCEPT ![p][f] = r]
      BY <2>2, <3>2 DEF OrganizationInv, OrganizationTyped
    <3> HIDE DEF r
    <3> QED BY <3>1, <3>3
  <2>4. member' = [member EXCEPT ![p][f] = row]
    BY <2>3
  <2>5. \A c \in Branches : row.branch = c =>
          \/ branch[c] = "archived" \/ (\E e \in Desks : Doing(e, "archive") /\ desk[e].branch = c) => row.raced
    BY <1>3, <1>4, <2>1, <2>3, OrganizationAssumption DEF Raced
  <2>6. /\ \A e \in Desks, u \in DeskTask :
              u = desk[e] => AboutThis(u)' /\ StillSo(u)' /\ (NeedsKey(u)' => NeedsKey(u))
        /\ desk' \in [Desks -> {NoTask} \cup DeskTask] => OrganizationTyped'
        /\ FirmsSound' /\ LeavingSound' /\ OneOwned'
        /\ StaffWithinLimit' /\ BranchesWithinLimit' /\ ArchivedIsEmpty' /\ SomebodyBehind'
    <3>1. row.role = member[p][f].role /\ row.overlapped = member[p][f].overlapped
      BY <2>2, <2>3
    <3>2. row.status = member[p][f].status \/ (row.status = "removed" /\ row.role # "owner")
      BY <2>2, <2>3
    <3>3. \A c \in Branches : row.branch = c =>
            \/ member[p][f].branch = c /\ row.raced = member[p][f].raced
            \/ branch[c] = "archived" \/ (\E e \in Desks : Doing(e, "archive") /\ desk[e].branch = c) => row.raced
      BY <2>5
    <3>4. UNCHANGED <<firm, branch, login, profile, stray, rows, leaving>>
      BY <1>1
    <3> QED BY <1>6, <2>4, <3>1, <3>2, <3>3, <3>4, RowChanged
  <2>7. desk' \in [Desks -> {NoTask} \cup DeskTask] /\ DesksSound' /\ DesksApart'
    <3>1. desk' = [desk EXCEPT ![d] = NoTask] /\ held' = held
      BY <1>1
    <3>2. \A e \in Desks \ {d}, u \in DeskTask :
            u = desk[e] => AboutThis(u)' /\ StillSo(u)' /\ (NeedsKey(u)' => NeedsKey(u))
      BY <2>6
    <3> QED BY <1>1, <3>1, <3>2, DeskEnds
  <2>8. LoginsSound'
    <3>1. \A e \in Desks \ {d} : desk'[e] = desk[e]
      BY <1>1 DEF OrganizationInv, OrganizationTyped
    <3> QED BY <1>1, <1>4, <3>1 DEF OrganizationInv, LoginsSound, NoStrayLogin
  <2>9. OrganizationTyped'
    BY <2>6, <2>7
  <2> QED BY <2>6, <2>7, <2>8, <2>9 DEF OrganizationInv
<1> QED BY <1>5, <1>6

LEMMA RemoveMemberKeeps ==
  ASSUME OrganizationInv, NEW p \in People, NEW f \in Firms, RemoveMember(f, p)
  PROVE  OrganizationInv'
<1>1. /\ member[p][f] # NoMember /\ member[p][f].role # "owner"
      /\ member' = [member EXCEPT ![p][f].status = "removed"]
      /\ UNCHANGED <<firm, branch, login, profile, stray, desk, held, rows, leaving, trouble>>
  BY DEF RemoveMember, editable
<1>2. PICK old \in Member : old = member[p][f]
  BY <1>1 DEF OrganizationInv, OrganizationTyped
<1>3. PICK row \in Member :
        /\ member' = [member EXCEPT ![p][f] = row]
        /\ row.role = old.role /\ row.overlapped = old.overlapped /\ row.status = "removed"
        /\ row.branch = old.branch /\ row.raced = old.raced
  <2> DEFINE r == [old EXCEPT !.status = "removed"]
  <2>1. /\ r \in Member /\ r.role = old.role /\ r.overlapped = old.overlapped
        /\ r.status = "removed" /\ r.branch = old.branch /\ r.raced = old.raced
    BY DEF Member
  <2>2. member' = [member EXCEPT ![p][f] = r]
    BY <1>1, <1>2 DEF OrganizationInv, OrganizationTyped
  <2> HIDE DEF r
  <2> QED BY <2>1, <2>2
<1>4. member' = [member EXCEPT ![p][f] = row]
  BY <1>3
<1>5. /\ \A e \in Desks, u \in DeskTask :
            u = desk[e] => AboutThis(u)' /\ StillSo(u)' /\ (NeedsKey(u)' => NeedsKey(u))
      /\ desk' \in [Desks -> {NoTask} \cup DeskTask] => OrganizationTyped'
      /\ FirmsSound' /\ LeavingSound' /\ OneOwned'
      /\ StaffWithinLimit' /\ BranchesWithinLimit' /\ ArchivedIsEmpty' /\ SomebodyBehind'
  <2>1. row.role = member[p][f].role /\ row.overlapped = member[p][f].overlapped
    BY <1>2, <1>3
  <2>2. row.status = member[p][f].status \/ (row.status = "removed" /\ row.role # "owner")
    BY <1>1, <1>2, <1>3
  <2>3. \A c \in Branches : row.branch = c =>
          \/ member[p][f].branch = c /\ row.raced = member[p][f].raced
          \/ branch[c] = "archived" \/ (\E e \in Desks : Doing(e, "archive") /\ desk[e].branch = c) => row.raced
    BY <1>2, <1>3
  <2>4. UNCHANGED <<firm, branch, login, profile, stray, rows, leaving>>
    BY <1>1
  <2> QED BY <1>1, <1>4, <2>1, <2>2, <2>3, <2>4, RowChanged
<1>6. desk' \in [Desks -> {NoTask} \cup DeskTask] /\ DesksSound' /\ DesksApart'
  BY <1>1, <1>5, DesksStay
<1>7. LoginsSound'
  BY <1>1 DEF OrganizationInv, LoginsSound, NoStrayLogin
<1> QED BY <1>5, <1>6, <1>7 DEF OrganizationInv

LEMMA WriteBranchKeeps ==
  ASSUME OrganizationInv, NEW d \in Desks, WriteBranch(d)
  PROVE  OrganizationInv'
<1>1. /\ desk[d] # NoTask /\ desk[d].do \in {"open", "archive"} /\ desk[d] \in DeskTask
      /\ desk' = [desk EXCEPT ![d] = NoTask]
      /\ UNCHANGED <<firm, member, login, profile, stray, rows, leaving, trouble>>
  BY DEF WriteBranch, Doing, Finish, OrganizationInv, OrganizationTyped
<1>2. AboutThis(desk[d]) /\ StillSo(desk[d])
  BY <1>1 DEF OrganizationInv, DesksSound
<1>3. PICK b \in Branches, f \in Firms :
        b = desk[d].branch /\ f = FirmOf[b] /\ f = desk[d].firm
  BY <1>1, <1>2, OrganizationAssumption DEF AboutThis, OfBranch
<1>4. held' = held \ {KeyOf(desk[d])}
  BY <1>1, <1>3 DEF WriteBranch, Unlock, KeyOf
<1>5. PICK now : /\ now \in {"none", "open", "archived"} /\ branch' = [branch EXCEPT ![b] = now]
                 /\ now = "open" => branch[b] = "open" \/ BranchRoom(f)
                 /\ now = "archived" => branch[b] = "archived" \/ \A p \in InBranch(b) : member[p][f].raced
  <2>1. CASE ~There(f)
    <3>1. branch' = [branch EXCEPT ![b] = branch[b]] /\ branch[b] \in {"none", "open", "archived"}
      BY <1>3, <2>1 DEF WriteBranch, OrganizationInv, OrganizationTyped
    <3> QED BY <3>1
  <2>2. CASE There(f) /\ desk[d].do = "open"
    <3>1. /\ "open" \in {"none", "open", "archived"} /\ branch' = [branch EXCEPT ![b] = "open"]
          /\ "open" = "open" => branch[b] = "open" \/ BranchRoom(f)
          /\ "open" = "archived" => branch[b] = "archived" \/ \A p \in InBranch(b) : member[p][f].raced
      BY <1>1, <1>2, <1>3, <2>2 DEF WriteBranch, Doing, StillSo
    <3> QED BY <3>1
  <2>3. CASE There(f) /\ desk[d].do = "archive"
    <3>1. branch' = [branch EXCEPT ![b] = "archived"] /\ \A p \in InBranch(b) : member[p][f].raced
      BY <1>1, <1>2, <1>3, <2>3 DEF WriteBranch, Doing, StillSo
    <3> QED BY <3>1
  <2> QED BY <1>1, <2>1, <2>2, <2>3
<1>6. /\ branch' \in [Branches -> {"none", "open", "archived"}]
      /\ branch'[b] = now /\ \A c \in Branches \ {b} : branch'[c] = branch[c]
  BY <1>5 DEF OrganizationInv, OrganizationTyped
<1>7. /\ \A g : There(g)' = There(g) /\ Staff(g)' = Staff(g)
      /\ \A q, g : IsIn(q, g)' = IsIn(q, g) /\ Others(q, g)' = Others(q, g)
      /\ \A q : Owned(q)' = Owned(q) /\ Going(q)' = Going(q)
      /\ \A c : InBranch(c)' = InBranch(c)
  BY <1>1 DEF There, Staff, Owned, Going, InBranch, IsIn, Others
<1>8. \A g : RoomFor(g)' = RoomFor(g) /\ Trader(g)' = Trader(g)
  BY <1>1, <1>7 DEF RoomFor, Trader
<1>9. /\ \A g \in Firms \ {f} : OpenBranches(g)' = OpenBranches(g)
      /\ OpenBranches(f)' \subseteq OpenBranches(f) \/ (now = "open" /\ OpenBranches(f)' = OpenBranches(f) \cup {b})
  BY <1>3, <1>6 DEF OpenBranches
<1>10. ASSUME NEW e \in Desks \ {d}, NEW u \in DeskTask, u = desk[e]
       PROVE  AboutThis(u)' /\ StillSo(u)' /\ (NeedsKey(u)' => NeedsKey(u))
  <2>1. AboutThis(u) /\ StillSo(u) /\ ~Clash(desk[d], u)
    BY <1>1, <1>10, TaskFields DEF OrganizationInv, DesksSound, DesksApart
  <2>2. AboutThis(u)' /\ (NeedsKey(u)' <=> NeedsKey(u))
    BY <1>1, <1>8, <2>1 DEF AboutThis, NeedsKey
  <2>3. u.do = "open" => BranchRoom(u.firm)'
    <3> SUFFICES ASSUME u.do = "open" PROVE BranchRoom(u.firm)'
      OBVIOUS
    <3>1. u.firm # f
      <4> SUFFICES ASSUME u.firm = f PROVE FALSE
        OBVIOUS
      <4>1. NeedsKey(u) /\ NeedsKey(desk[d]) /\ KeyOf(u) = KeyOf(desk[d])
        BY <1>1, <1>3 DEF NeedsKey, KeyOf, OfBranch
      <4> QED BY <2>1, <4>1 DEF Clash
    <3>2. OpenBranches(u.firm)' = OpenBranches(u.firm)
      BY <1>9, <3>1, TaskFields
    <3> QED BY <2>1, <3>2 DEF BranchRoom, StillSo
  <2> QED BY <1>1, <1>7, <1>8, <2>1, <2>2, <2>3 DEF StillSo
<1>11. desk' \in [Desks -> {NoTask} \cup DeskTask] /\ DesksSound' /\ DesksApart'
  BY <1>1, <1>4, <1>10, DeskEnds
<1>12. OrganizationTyped' /\ LoginsSound'
  <2>1. ~desk[d].login
    BY <1>1, <1>2 DEF AboutThis
  <2>2. \A e \in Desks \ {d} : desk'[e] = desk[e]
    BY <1>1 DEF OrganizationInv, OrganizationTyped
  <2>3. LoginsSound'
    BY <1>1, <2>1, <2>2 DEF OrganizationInv, LoginsSound, NoStrayLogin
  <2> QED BY <1>1, <1>6, <1>11, <2>3 DEF OrganizationInv, OrganizationTyped
<1>13. FirmsSound' /\ LeavingSound' /\ OneOwned' /\ StaffWithinLimit' /\ SomebodyBehind'
  <2>1. FirmsSound' /\ OneOwned' /\ StaffWithinLimit'
    BY <1>1, <1>7 DEF OrganizationInv, FirmsSound, OneOwned, StaffWithinLimit
  <2>2. LeavingSound'
    BY <1>1, <1>7 DEF OrganizationInv, LeavingSound
  <2>3. SomebodyBehind'
    BY <1>1, <1>7 DEF OrganizationInv, SomebodyBehind
  <2> QED BY <2>1, <2>2, <2>3
<1>14. BranchesWithinLimit'
  <2> SUFFICES ASSUME NEW g \in Firms PROVE Cardinality(OpenBranches(g)') <= BranchLimit[g]
    BY DEF BranchesWithinLimit
  <2>1. Cardinality(OpenBranches(g)) <= BranchLimit[g] /\ BranchLimit[g] \in Nat
    BY OrganizationAssumption DEF OrganizationInv, BranchesWithinLimit
  <2>2. IsFiniteSet(OpenBranches(g)) /\ Cardinality(OpenBranches(g)) \in Nat
    BY FiniteCounts
  <2>3. CASE OpenBranches(g)' \subseteq OpenBranches(g)
    <3>1. Cardinality(OpenBranches(g)') <= Cardinality(OpenBranches(g)) /\ Cardinality(OpenBranches(g)') \in Nat
      BY <2>2, <2>3, FS_Subset, FS_CardinalityType
    <3> QED BY <2>1, <2>2, <3>1
  <2>4. CASE g = f /\ now = "open" /\ OpenBranches(f)' = OpenBranches(f) \cup {b}
    <3>1. CASE b \in OpenBranches(f)
      <4>1. OpenBranches(g)' = OpenBranches(g)
        BY <2>4, <3>1
      <4> QED BY <2>1, <4>1
    <3>2. CASE b \notin OpenBranches(f)
      <4>1. branch[b] # "open"
        BY <1>3, <3>2 DEF OpenBranches
      <4>2. Cardinality(OpenBranches(f)) < BranchLimit[f]
        BY <1>5, <2>4, <4>1 DEF BranchRoom
      <4>3. Cardinality(OpenBranches(f)') = Cardinality(OpenBranches(f)) + 1
        BY <2>2, <2>4, <3>2, FS_AddElement
      <4> QED BY <2>1, <2>2, <2>4, <4>2, <4>3
    <3> QED BY <3>1, <3>2
  <2> QED BY <1>9, <2>3, <2>4
<1>15. ArchivedIsEmpty'
  BY <1>1, <1>3, <1>5, <1>6, <1>7 DEF OrganizationInv, ArchivedIsEmpty
<1> QED BY <1>11, <1>12, <1>13, <1>14, <1>15 DEF OrganizationInv

LEMMA BootstrapWriteKeeps ==
  ASSUME OrganizationInv, NEW d \in Desks, NEW type \in {"trader", "enterprise"}, BootstrapWrite(d, type)
  PROVE  OrganizationInv'
<1>1. /\ desk[d] # NoTask /\ desk[d].do = "found" /\ desk[d] \in DeskTask
      /\ desk' = [desk EXCEPT ![d] = NoTask]
      /\ UNCHANGED <<branch, stray, rows, leaving, trouble>>
  BY DEF BootstrapWrite, Doing, Finish, OrganizationInv, OrganizationTyped
<1>2. AboutThis(desk[d]) /\ StillSo(desk[d])
  BY <1>1 DEF OrganizationInv, DesksSound
<1>3. PICK p \in People, f \in Firms : p = desk[d].who /\ f = desk[d].firm
  BY <1>1, <1>2, TaskFields DEF AboutThis, OfBranch
<1>4. /\ firm[f] = NoFirm /\ ~There(f) /\ ~desk[d].login /\ Owned(p) = {} /\ login[p] # "none"
      /\ \A q \in People : member[q][f] = NoMember
  BY <1>1, <1>2, <1>3 DEF AboutThis, StillSo, OfBranch, There, OrganizationInv, FirmsSound
<1>5. held' = held \ {KeyOf(desk[d])}
  BY <1>1, <1>3 DEF BootstrapWrite, Unlock, KeyOf
<1>6. PICK new \in Firm : firm' = [firm EXCEPT ![f] = new] /\ new.founder = p
  <2> DEFINE n == [type |-> type, founder |-> p]
  <2>1. n \in Firm /\ firm' = [firm EXCEPT ![f] = n] /\ n.founder = p
    BY <1>3 DEF BootstrapWrite, Firm
  <2> HIDE DEF n
  <2> QED BY <2>1
<1>7. PICK row \in Member :
        /\ member' = [member EXCEPT ![p][f] = row] /\ row # NoMember
        /\ row.role = "owner" /\ row.status = "active" /\ row.branch = NoBranch
        /\ row.overlapped <=> Going(p) \/ login[p] = "deleted"
  <2>1. PICK overlapped \in BOOLEAN : overlapped = (Going(p) \/ login[p] = "deleted")
    BY DEF Going
  <2>2. PICK raced \in BOOLEAN, b \in Branches \cup {NoBranch} : raced = FALSE /\ b = NoBranch
    OBVIOUS
  <2>3. PICK row \in Member :
          /\ row = Row("owner", "active", b, raced, overlapped) /\ row # NoMember
          /\ row.role = "owner" /\ row.status = "active" /\ row.branch = b
          /\ row.raced = raced /\ row.overlapped = overlapped
    BY RowIsMember
  <2>4. member' = [member EXCEPT ![p][f] = row]
    BY <1>3, <2>1, <2>2, <2>3 DEF BootstrapWrite
  <2> QED BY <2>1, <2>2, <2>3, <2>4
<1>8. profile' = profile \cup {p} /\ login' = [login EXCEPT ![p] = IF @ = "given" THEN "own" ELSE @]
  BY <1>3 DEF BootstrapWrite
<1>9. /\ login' \in [People -> {"none", "own", "given", "taken", "deleted"}]
      /\ \A q \in People \ {p} : login'[q] = login[q]
      /\ login'[p] = IF login[p] \in {"taken", "deleted"} THEN login[p] ELSE "own"
  BY <1>4, <1>8 DEF OrganizationInv, OrganizationTyped
<1>10. /\ firm' \in [Firms -> Firm \cup {NoFirm, GoneFirm}]
       /\ firm'[f] = new /\ \A g \in Firms \ {f} : firm'[g] = firm[g]
       /\ There(f)' /\ \A g \in Firms \ {f} : (There(g)' <=> There(g)) /\ (Trader(g)' <=> Trader(g))
  BY <1>6, OrganizationAssumption DEF OrganizationInv, OrganizationTyped, There, Trader
<1>11. /\ member' \in [People -> [Firms -> Member \cup {NoMember}]]
       /\ member'[p][f] = row
       /\ \A q \in People, g \in Firms : (q # p \/ g # f) => member'[q][g] = member[q][g]
  BY <1>7 DEF OrganizationInv, OrganizationTyped
<1>12. /\ \A q \in People, g \in Firms : (q # p \/ g # f) => (IsIn(q, g)' <=> IsIn(q, g))
       /\ IsIn(p, f)' /\ \A q \in People : ~IsIn(q, f)
       /\ \A q \in People : IsIn(q, f)' => q = p
  BY <1>4, <1>7, <1>11 DEF IsIn
<1>13. \A g \in Firms : Staff(g)' = Staff(g)
  BY <1>7, <1>11, <1>12 DEF Staff
<1>14. \A c \in Branches : InBranch(c)' = InBranch(c) /\ OpenBranches(c)' = OpenBranches(c)
  BY <1>1, <1>7, <1>11, <1>12, OrganizationAssumption DEF InBranch, OpenBranches
<1>15. \A q \in People \ {p} : Owned(q)' = Owned(q)
  BY <1>10, <1>11, <1>12 DEF Owned
<1>16. Owned(p)' = {f}
  BY <1>4, <1>7, <1>10, <1>11, <1>12 DEF Owned
<1>17. /\ \A q : Going(q)' = Going(q)
       /\ \A g : OpenBranches(g)' = OpenBranches(g) /\ BranchRoom(g)' = BranchRoom(g)
  BY <1>1 DEF Going, OpenBranches, BranchRoom
<1>18. ASSUME NEW e \in Desks \ {d}, NEW u \in DeskTask, u = desk[e]
       PROVE  AboutThis(u)' /\ StillSo(u)' /\ (NeedsKey(u)' => NeedsKey(u))
  <2>1. AboutThis(u) /\ StillSo(u) /\ ~Clash(desk[d], u)
    BY <1>1, <1>18, TaskFields DEF OrganizationInv, DesksSound, DesksApart
  <2>2. u.firm \in Firms \ {f}
    BY <1>1, <1>3, <1>4, <2>1, TaskFields DEF AboutThis, Clash
  <2>3. u.login \/ u.do = "found" => u.who \in People \ {p}
    BY <1>1, <1>3, <2>1, TaskFields DEF AboutThis, OfBranch, Clash
  <2>4. AboutThis(u)' /\ (NeedsKey(u)' <=> NeedsKey(u))
    BY <1>10, <2>1, <2>2 DEF AboutThis, NeedsKey
  <2>5. RoomFor(u.firm)' <=> RoomFor(u.firm)
    BY <1>10, <1>13, <2>2 DEF RoomFor
  <2>6. u.do = "archive" => \A q \in InBranch(u.branch)' : member'[q][u.firm].raced
    <3> SUFFICES ASSUME u.do = "archive", NEW q \in InBranch(u.branch)' PROVE member'[q][u.firm].raced
      OBVIOUS
    <3>1. u.branch \in Branches
      BY <2>1 DEF AboutThis, OfBranch
    <3>2. q \in InBranch(u.branch) /\ q \in People
      BY <1>14, <3>1 DEF InBranch
    <3> QED BY <1>11, <2>1, <2>2, <3>2 DEF StillSo
  <2>7. u.login => login'[u.who] = "given" /\ u.who \notin profile' /\ ~Going(u.who)'
    BY <1>8, <1>9, <1>17, <2>1, <2>3 DEF StillSo
  <2>8. u.do = "found" => Owned(u.who)' = {} /\ login'[u.who] # "none"
    BY <1>9, <1>15, <2>1, <2>3 DEF StillSo
  <2>9. (u.do = "write" /\ Trader(u.firm)' => RoomFor(u.firm)') /\ (u.do = "open" => BranchRoom(u.firm)')
    BY <1>10, <1>17, <2>1, <2>2, <2>5 DEF StillSo
  <2> QED BY <2>4, <2>6, <2>7, <2>8, <2>9 DEF StillSo
<1>19. desk' \in [Desks -> {NoTask} \cup DeskTask] /\ DesksSound' /\ DesksApart'
  BY <1>1, <1>5, <1>18, DeskEnds
<1>20. OrganizationTyped'
  BY <1>1, <1>8, <1>9, <1>10, <1>11, <1>19 DEF OrganizationInv, OrganizationTyped
<1>21. LoginsSound'
  <2>1. \A q \in profile' : login'[q] \in {"own", "taken", "deleted"}
    BY <1>8, <1>9 DEF OrganizationInv, OrganizationTyped, LoginsSound
  <2>2. NoStrayLogin'
    <3> SUFFICES ASSUME NEW q \in People, login'[q] = "given", q \notin profile', q \notin stray
                 PROVE  \E e \in Desks : desk'[e] # NoTask /\ desk'[e].who = q /\ desk'[e].login
      BY <1>1 DEF NoStrayLogin
    <3>1. login[q] = "given" /\ q \notin profile
      BY <1>8, <1>9
    <3>2. PICK e \in Desks : desk[e] # NoTask /\ desk[e].who = q /\ desk[e].login
      BY <3>1 DEF OrganizationInv, LoginsSound, NoStrayLogin
    <3>3. desk'[e] = desk[e]
      BY <1>1, <1>4, <3>2 DEF OrganizationInv, OrganizationTyped
    <3> QED BY <3>2, <3>3
  <2> QED BY <2>1, <2>2 DEF LoginsSound
<1>22. FirmsSound'
  <2>1. \A g \in Firms : There(g) => firm[g].founder \in People
    BY DEF OrganizationInv, OrganizationTyped, There, Firm
  <2> SUFFICES ASSUME NEW g \in Firms
               PROVE  /\ firm'[g] = NoFirm => \A q \in People : member'[q][g] = NoMember
                      /\ There(g)' =>
                           /\ member'[firm'[g].founder][g] # NoMember
                           /\ \A q \in People :
                                member'[q][g] # NoMember => (member'[q][g].role = "owner" <=> q = firm'[g].founder)
    BY DEF FirmsSound
  <2>2. CASE g = f
    <3>1. firm'[g] # NoFirm
      BY <1>10, <2>2 DEF There
    <3> QED BY <1>4, <1>6, <1>7, <1>10, <1>11, <2>2, <3>1
  <2>3. CASE g # f
    BY <1>10, <1>11, <2>1, <2>3 DEF OrganizationInv, FirmsSound
  <2> QED BY <2>2, <2>3
<1>23. LeavingSound'
  <2> SUFFICES ASSUME NEW q \in People, Going(q)
               PROVE  /\ login'[q] # "none"
                      /\ \A g \in leaving[q].owned :
                           IF leaving[q].stage = "login" THEN firm'[g] = GoneFirm
                                                         ELSE There(g)' /\ firm'[g].founder = q
                      /\ \A g \in Firms :
                           There(g)' /\ firm'[g].founder = q /\ ~member'[q][g].overlapped => g \in leaving[q].owned
                      /\ leaving[q].stage = "purge" =>
                           \A g \in leaving[q].owned :
                             g \in rows /\ \A i \in Others(q, g)' : member'[i][g].overlapped
                      /\ leaving[q].stage = "login" => \A g \in Firms : IsIn(q, g)' => member'[q][g].overlapped
    BY <1>1, <1>17 DEF LeavingSound
  <2>1. \A g \in leaving[q].owned : g \in Firms \ {f}
    BY <1>4, OrganizationAssumption DEF OrganizationInv, OrganizationTyped, Deletion, LeavingSound
  <2>2. login'[q] # "none"
    BY <1>9 DEF OrganizationInv, LeavingSound
  <2>3. \A g \in leaving[q].owned :
          IF leaving[q].stage = "login" THEN firm'[g] = GoneFirm ELSE There(g)' /\ firm'[g].founder = q
    BY <1>10, <2>1 DEF OrganizationInv, LeavingSound
  <2>4. ASSUME NEW g \in Firms, There(g)', firm'[g].founder = q, ~member'[q][g].overlapped
        PROVE  g \in leaving[q].owned
    <3>1. g # f
      BY <1>6, <1>7, <1>10, <1>11, <2>4
    <3> QED BY <1>10, <1>11, <2>4, <3>1 DEF OrganizationInv, LeavingSound
  <2>5. ASSUME leaving[q].stage = "purge", NEW g \in leaving[q].owned
        PROVE  g \in rows /\ \A i \in Others(q, g)' : member'[i][g].overlapped
    <3>1. g \in Firms \ {f} /\ Others(q, g)' = Others(q, g)
      BY <1>12, <2>1, <2>5 DEF Others
    <3>2. \A i \in Others(q, g) : member'[i][g] = member[i][g]
      BY <1>11, <3>1 DEF Others
    <3> QED BY <2>5, <3>1, <3>2 DEF OrganizationInv, LeavingSound
  <2>6. ASSUME leaving[q].stage = "login", NEW g \in Firms, IsIn(q, g)'
        PROVE  member'[q][g].overlapped
    <3>1. CASE q = p /\ g = f
      BY <1>7, <1>11, <3>1
    <3>2. CASE q # p \/ g # f
      BY <1>11, <1>12, <2>6, <3>2 DEF OrganizationInv, LeavingSound
    <3> QED BY <3>1, <3>2
  <2> QED BY <2>2, <2>3, <2>4, <2>5, <2>6
<1>24. OneOwned'
  BY <1>15, <1>16 DEF OrganizationInv, OneOwned
<1>25. StaffWithinLimit' /\ BranchesWithinLimit'
  <2>1. ASSUME NEW g \in Firms, There(g)', firm'[g].type = "trader"
        PROVE  Cardinality(Staff(g)') <= StaffLimit[g]
    <3>1. CASE g = f
      <4>1. Staff(g)' = {}
        BY <1>4, <1>12, <1>13, <3>1 DEF Staff
      <4> QED BY <4>1, FS_EmptySet, OrganizationAssumption
    <3>2. CASE g # f
      BY <1>10, <1>13, <2>1, <3>2 DEF OrganizationInv, StaffWithinLimit
    <3> QED BY <3>1, <3>2
  <2>2. BranchesWithinLimit'
    BY <1>17 DEF OrganizationInv, BranchesWithinLimit
  <2> QED BY <2>1, <2>2 DEF StaffWithinLimit
<1>26. ArchivedIsEmpty'
  <2> SUFFICES ASSUME NEW c \in Branches, branch[c] = "archived", NEW q \in InBranch(c)
               PROVE  member'[q][FirmOf[c]].raced
    BY <1>1, <1>14 DEF ArchivedIsEmpty
  <2>1. q \in People /\ FirmOf[c] \in Firms /\ FirmOf[c] # f
    BY <1>12, OrganizationAssumption DEF InBranch
  <2> QED BY <1>11, <2>1 DEF OrganizationInv, ArchivedIsEmpty
<1>27. SomebodyBehind'
  <2>1. ASSUME NEW g \in Firms, There(g)'
        PROVE  member'[firm'[g].founder][g].status = "active" \/ member'[firm'[g].founder][g].overlapped
    <3>1. CASE g = f
      BY <1>6, <1>7, <1>10, <1>11, <3>1
    <3>2. CASE g # f
      <4>1. firm'[g] = firm[g] /\ There(g) /\ firm[g].founder \in People
        BY <1>10, <2>1, <3>2 DEF OrganizationInv, OrganizationTyped, There, Firm
      <4> QED BY <1>11, <3>2, <4>1 DEF OrganizationInv, SomebodyBehind
    <3> QED BY <3>1, <3>2
  <2>2. ASSUME NEW q \in People, NEW g \in Firms, IsIn(q, g)', ~member'[q][g].overlapped
        PROVE  login'[q] \in {"own", "taken"} /\ q \in profile'
    <3>1. CASE q = p /\ g = f
      BY <1>7, <1>8, <1>9, <1>11, <2>2, <3>1
    <3>2. CASE q # p \/ g # f
      BY <1>8, <1>9, <1>11, <1>12, <2>2, <3>2 DEF OrganizationInv, SomebodyBehind
    <3> QED BY <3>1, <3>2
  <2> QED BY <2>1, <2>2 DEF SomebodyBehind
<1> QED
  BY <1>19, <1>20, <1>21, <1>22, <1>23, <1>24, <1>25, <1>26, <1>27 DEF OrganizationInv

LEMMA RowRemoved ==
  ASSUME NEW old \in Member
  PROVE  LET row == [old EXCEPT !.status = "removed"]
         IN  /\ row \in Member /\ row # NoMember /\ row.status = "removed"
             /\ row.role = old.role /\ row.overlapped = old.overlapped
BY OrganizationAssumption DEF Member

(* What a deletion does to the rows of a firm: they go, or become removed.  *)
LEMMA PurgeWritten ==
  ASSUME OrganizationInv, NEW p \in People, NEW gone \in SUBSET Firms, gone = leaving[p].owned, Purge(p)
  PROVE  /\ firm' \in [Firms -> Firm \cup {NoFirm, GoneFirm}]
         /\ member' \in [People -> [Firms -> Member \cup {NoMember}]]
         /\ branch' \in [Branches -> {"none", "open", "archived"}]
         /\ \A g \in gone : firm'[g] = GoneFirm /\ \A q \in People : member'[q][g] = NoMember
         /\ \A g \in Firms \ gone : firm'[g] = firm[g] /\ \A q \in People \ {p} : member'[q][g] = member[q][g]
         /\ \A g \in Firms \ gone :
              IF member[p][g] = NoMember THEN member'[p][g] = NoMember
              ELSE /\ member'[p][g] # NoMember /\ member'[p][g].status = "removed"
                   /\ member'[p][g].role = member[p][g].role
                   /\ member'[p][g].overlapped = member[p][g].overlapped
         /\ \A b \in Branches : branch'[b] = IF FirmOf[b] \in gone THEN "none" ELSE branch[b]
         /\ rows' = rows \ gone
<1>1. /\ firm' = [g \in Firms |-> IF g \in gone THEN GoneFirm ELSE firm[g]]
      /\ branch' = [b \in Branches |-> IF FirmOf[b] \in gone THEN "none" ELSE branch[b]]
      /\ rows' = rows \ gone
      /\ member' = [q \in People |-> [g \in Firms |->
           IF g \in gone THEN NoMember
           ELSE IF q = p /\ member[q][g] # NoMember THEN [member[q][g] EXCEPT !.status = "removed"]
           ELSE member[q][g]]]
  BY DEF Purge
<1>2. \A q \in People, g \in Firms : member[q][g] \in Member \cup {NoMember}
  BY DEF OrganizationInv, OrganizationTyped
<1>3. ASSUME NEW q \in People, NEW g \in Firms
      PROVE  /\ g \in gone => member'[q][g] = NoMember
             /\ g \notin gone /\ q # p => member'[q][g] = member[q][g]
             /\ g \notin gone /\ q = p =>
                  IF member[p][g] = NoMember THEN member'[p][g] = NoMember
                  ELSE /\ member'[p][g] # NoMember /\ member'[p][g].status = "removed"
                       /\ member'[p][g].role = member[p][g].role
                       /\ member'[p][g].overlapped = member[p][g].overlapped
             /\ member'[q][g] \in Member \cup {NoMember}
  <2>1. CASE g \in gone \/ q # p \/ member[q][g] = NoMember
    BY <1>1, <1>2, <2>1
  <2>2. CASE g \notin gone /\ q = p /\ member[q][g] # NoMember
    <3>1. PICK old \in Member : old = member[p][g]
      BY <1>2, <2>2
    <3>2. member'[p][g] = [old EXCEPT !.status = "removed"]
      BY <1>1, <2>2, <3>1
    <3> DEFINE row == [old EXCEPT !.status = "removed"]
    <3>3. /\ row \in Member /\ row # NoMember /\ row.status = "removed"
          /\ row.role = old.role /\ row.overlapped = old.overlapped /\ member'[p][g] = row
      BY <3>2, RowRemoved
    <3> HIDE DEF row
    <3> QED BY <2>2, <3>1, <3>3
  <2> QED BY <2>1, <2>2
<1>4. member' \in [People -> [Firms -> Member \cup {NoMember}]]
  <2>1. member' = [q \in People |-> [g \in Firms |-> member'[q][g]]]
    BY <1>1
  <2> QED BY <1>3, <2>1
<1>5. /\ firm' \in [Firms -> Firm \cup {NoFirm, GoneFirm}]
      /\ branch' \in [Branches -> {"none", "open", "archived"}]
  BY <1>1 DEF OrganizationInv, OrganizationTyped
<1> QED BY <1>1, <1>3, <1>4, <1>5

LEMMA PurgeKeeps ==
  ASSUME OrganizationInv, NEW p \in People, Purge(p)
  PROVE  OrganizationInv'
<1>1. /\ leaving[p].stage = "purge" /\ leaving[p] \in Deletion
      /\ profile' = profile \ {p} /\ leaving' = [leaving EXCEPT ![p].stage = "login"]
      /\ UNCHANGED <<login, stray, desk, held>>
  BY DEF Purge, OrganizationInv, OrganizationTyped
<1>2. PICK gone \in SUBSET Firms : gone = leaving[p].owned
  BY <1>1 DEF Deletion
<1>3. /\ firm' \in [Firms -> Firm \cup {NoFirm, GoneFirm}]
      /\ member' \in [People -> [Firms -> Member \cup {NoMember}]]
      /\ branch' \in [Branches -> {"none", "open", "archived"}]
      /\ \A g \in gone : firm'[g] = GoneFirm /\ \A q \in People : member'[q][g] = NoMember
      /\ \A g \in Firms \ gone : firm'[g] = firm[g] /\ \A q \in People \ {p} : member'[q][g] = member[q][g]
      /\ \A g \in Firms \ gone :
           IF member[p][g] = NoMember THEN member'[p][g] = NoMember
           ELSE /\ member'[p][g] # NoMember /\ member'[p][g].status = "removed"
                /\ member'[p][g].role = member[p][g].role
                /\ member'[p][g].overlapped = member[p][g].overlapped
      /\ \A b \in Branches : branch'[b] = IF FirmOf[b] \in gone THEN "none" ELSE branch[b]
      /\ rows' = rows \ gone
  BY <1>2, PurgeWritten
<1>4. /\ leaving' \in [People -> Deletion]
      /\ leaving'[p].stage = "login" /\ leaving'[p].owned = gone
      /\ \A q \in People \ {p} : leaving'[q] = leaving[q]
  <2> DEFINE l == [leaving[p] EXCEPT !.stage = "login"]
  <2>1. l \in Deletion /\ l.stage = "login" /\ l.owned = gone
    BY <1>1, <1>2 DEF Deletion
  <2>2. leaving' = [leaving EXCEPT ![p] = l] /\ leaving \in [People -> Deletion]
    BY <1>1 DEF OrganizationInv, OrganizationTyped
  <2> HIDE DEF l
  <2> QED BY <2>1, <2>2
<1>5. \A q \in People : Going(q)' <=> Going(q)
  BY <1>1, <1>4 DEF Going
<1>6. \A g \in gone : There(g) /\ firm[g].founder = p /\ g \in rows /\ g \in Firms
  BY <1>1, <1>2 DEF OrganizationInv, LeavingSound, Going
<1>7. /\ \A g \in gone : ~There(g)' /\ \A q \in People : ~IsIn(q, g)'
      /\ \A g \in Firms \ gone : There(g)' <=> There(g)
      /\ \A g \in Firms : ~IsIn(p, g)'
      /\ \A q \in People, g \in Firms : IsIn(q, g)' =>
           q # p /\ g \notin gone /\ IsIn(q, g) /\ member'[q][g] = member[q][g]
  BY <1>3, OrganizationAssumption DEF There, IsIn
<1>8. /\ \A g \in Firms : Staff(g)' \subseteq Staff(g) /\ OpenBranches(g)' \subseteq OpenBranches(g)
      /\ \A q \in People : Owned(q)' \subseteq Owned(q)
      /\ \A q \in People, g \in Firms : Others(q, g)' \subseteq Others(q, g)
  <2>1. \A g \in Firms : Staff(g)' \subseteq Staff(g)
    BY <1>7 DEF Staff
  <2>2. \A g \in Firms : OpenBranches(g)' \subseteq OpenBranches(g)
    BY <1>3 DEF OpenBranches
  <2>3. \A q \in People : Owned(q)' \subseteq Owned(q)
    BY <1>7 DEF Owned
  <2>4. \A q \in People, g \in Firms : Others(q, g)' \subseteq Others(q, g)
    BY <1>7 DEF Others
  <2> QED BY <2>1, <2>2, <2>3, <2>4
<1>9. \A g \in Firms :
        /\ Cardinality(Staff(g)') <= Cardinality(Staff(g)) /\ Cardinality(Staff(g)') \in Nat
        /\ Cardinality(OpenBranches(g)') <= Cardinality(OpenBranches(g)) /\ Cardinality(OpenBranches(g)') \in Nat
        /\ Cardinality(Staff(g)) \in Nat /\ Cardinality(OpenBranches(g)) \in Nat
        /\ StaffLimit[g] \in Nat /\ BranchLimit[g] \in Nat
  BY <1>8, FiniteCounts, FS_Subset, FS_CardinalityType, OrganizationAssumption
<1>10. ASSUME NEW b \in Branches, NEW q \in InBranch(b)'
       PROVE  q \in InBranch(b) /\ member'[q][FirmOf[b]] = member[q][FirmOf[b]]
  BY <1>7, <1>10, OrganizationAssumption DEF InBranch
<1>11. ASSUME NEW d \in Desks, NEW u \in DeskTask, u = desk[d]
       PROVE  AboutThis(u)' /\ StillSo(u)' /\ (NeedsKey(u)' => NeedsKey(u))
  <2>1. AboutThis(u) /\ StillSo(u) /\ u.firm \in Firms
    BY <1>11, TaskFields DEF OrganizationInv, DesksSound
  <2>2. u.login \/ u.do = "found" => u.who \in People
    BY <2>1, TaskFields DEF AboutThis, OfBranch
  <2>3. firm'[u.firm] = NoFirm <=> firm[u.firm] = NoFirm
    BY <1>3, <1>6, <2>1, OrganizationAssumption DEF There
  <2>4. AboutThis(u)'
    BY <2>1, <2>3 DEF AboutThis
  <2>5. Trader(u.firm)' => Trader(u.firm) /\ firm'[u.firm] = firm[u.firm]
    BY <1>3, <1>7, <2>1 DEF Trader
  <2>6. u.do = "write" /\ Trader(u.firm)' => RoomFor(u.firm)'
    BY <1>9, <2>1, <2>5 DEF StillSo, RoomFor, Trader
  <2>7. u.do = "open" => BranchRoom(u.firm)'
    BY <1>9, <2>1 DEF StillSo, BranchRoom
  <2>8. u.do = "archive" => \A q \in InBranch(u.branch)' : member'[q][u.firm].raced
    <3> SUFFICES ASSUME u.do = "archive", NEW q \in InBranch(u.branch)' PROVE member'[q][u.firm].raced
      OBVIOUS
    <3>1. u.branch \in Branches /\ FirmOf[u.branch] = u.firm
      BY <2>1 DEF AboutThis, OfBranch
    <3> QED BY <1>10, <2>1, <3>1 DEF StillSo
  <2>9. u.do = "found" => Owned(u.who)' = {} /\ login'[u.who] # "none"
    BY <1>1, <1>8, <2>1, <2>2 DEF StillSo
  <2>10. u.login => login'[u.who] = "given" /\ u.who \notin profile' /\ ~Going(u.who)'
    BY <1>1, <1>5, <2>1, <2>2 DEF StillSo
  <2>11. NeedsKey(u)' => NeedsKey(u)
    BY <2>5 DEF NeedsKey
  <2> QED BY <2>4, <2>6, <2>7, <2>8, <2>9, <2>10, <2>11 DEF StillSo
<1>12. desk' \in [Desks -> {NoTask} \cup DeskTask] /\ DesksSound' /\ DesksApart'
  <2>1. UNCHANGED <<desk, held>>
    BY <1>1
  <2> QED BY <1>11, <2>1, DesksStay
<1>13. OrganizationTyped'
  BY <1>1, <1>3, <1>4, <1>12 DEF OrganizationInv, OrganizationTyped
<1>14. LoginsSound'
  <2>1. \A q \in profile' : login'[q] \in {"own", "taken", "deleted"}
    BY <1>1 DEF OrganizationInv, LoginsSound
  <2>2. \A q \in People : login[q] = "given" => q \notin profile
    BY DEF OrganizationInv, LoginsSound
  <2>3. NoStrayLogin'
    BY <1>1, <2>2 DEF OrganizationInv, LoginsSound, NoStrayLogin
  <2> QED BY <2>1, <2>3 DEF LoginsSound
<1>15. FirmsSound'
  <2>1. \A g \in Firms : There(g) => firm[g].founder \in People
    BY DEF OrganizationInv, OrganizationTyped, There, Firm
  <2> SUFFICES ASSUME NEW g \in Firms
               PROVE  /\ firm'[g] = NoFirm => \A q \in People : member'[q][g] = NoMember
                      /\ There(g)' =>
                           /\ member'[firm'[g].founder][g] # NoMember
                           /\ \A q \in People :
                                member'[q][g] # NoMember => (member'[q][g].role = "owner" <=> q = firm'[g].founder)
    BY DEF FirmsSound
  <2>2. CASE g \in gone
    BY <1>3, <1>7, <2>2
  <2>3. CASE g \notin gone
    <3>1. /\ firm'[g] = firm[g] /\ (There(g)' <=> There(g))
          /\ \A q \in People : /\ member'[q][g] = NoMember <=> member[q][g] = NoMember
                               /\ member[q][g] # NoMember => member'[q][g].role = member[q][g].role
      BY <1>3, <1>7, <2>3
    <3> QED BY <2>1, <3>1 DEF OrganizationInv, FirmsSound
  <2> QED BY <2>2, <2>3
<1>16. LeavingSound'
  <2> SUFFICES ASSUME NEW q \in People, Going(q)
               PROVE  /\ login[q] # "none"
                      /\ \A g \in leaving'[q].owned :
                           IF leaving'[q].stage = "login" THEN firm'[g] = GoneFirm
                                                          ELSE There(g)' /\ firm'[g].founder = q
                      /\ \A g \in Firms :
                           There(g)' /\ firm'[g].founder = q /\ ~member'[q][g].overlapped => g \in leaving'[q].owned
                      /\ leaving'[q].stage = "purge" =>
                           \A g \in leaving'[q].owned :
                             g \in rows' /\ \A i \in Others(q, g)' : member'[i][g].overlapped
                      /\ leaving'[q].stage = "login" => \A g \in Firms : IsIn(q, g)' => member'[q][g].overlapped
    BY <1>1, <1>5 DEF LeavingSound
  <2>1. login[q] # "none" /\ leaving'[q].owned = leaving[q].owned /\ leaving[q].owned \subseteq Firms
    BY <1>2, <1>4 DEF OrganizationInv, OrganizationTyped, LeavingSound, Deletion
  <2>2. ASSUME NEW g \in Firms, There(g)', firm'[g].founder = q, ~member'[q][g].overlapped
        PROVE  g \in leaving[q].owned
    <3>1. g \notin gone /\ firm'[g] = firm[g] /\ There(g) /\ member[q][g] # NoMember
      BY <1>3, <1>7, <2>2 DEF OrganizationInv, FirmsSound
    <3>2. member'[q][g].overlapped = member[q][g].overlapped
      BY <1>3, <3>1
    <3> QED BY <2>2, <3>1, <3>2 DEF OrganizationInv, LeavingSound
  <2>3. CASE q = p
    BY <1>3, <1>4, <1>7, <2>1, <2>2, <2>3
  <2>4. CASE q # p
    <3>1. leaving'[q] = leaving[q]
      BY <1>4, <2>4
    <3>2. \A g \in leaving[q].owned : leaving[q].stage # "login" => There(g) /\ firm[g].founder = q /\ g \notin gone
      BY <1>6, <2>4 DEF OrganizationInv, LeavingSound
    <3>3. \A g \in leaving[q].owned :
            IF leaving[q].stage = "login" THEN firm'[g] = GoneFirm ELSE There(g)' /\ firm'[g].founder = q
      BY <1>3, <1>7, <2>1, <3>2 DEF OrganizationInv, LeavingSound
    <3>4. ASSUME leaving[q].stage = "purge", NEW g \in leaving[q].owned, NEW i \in Others(q, g)'
          PROVE  member'[i][g].overlapped
      <4>1. g \in Firms \ gone /\ i \in Others(q, g) /\ IsIn(i, g)' /\ i \in People
        BY <1>8, <2>1, <3>2, <3>4 DEF Others
      <4>2. member'[i][g] = member[i][g]
        BY <1>7, <4>1
      <4> QED BY <3>4, <4>1, <4>2 DEF OrganizationInv, LeavingSound
    <3>5. leaving[q].stage = "purge" => \A g \in leaving[q].owned : g \in rows'
      BY <1>3, <3>2 DEF OrganizationInv, LeavingSound
    <3>6. leaving[q].stage = "login" => \A g \in Firms : IsIn(q, g)' => member'[q][g].overlapped
      BY <1>7 DEF OrganizationInv, LeavingSound
    <3> QED BY <2>1, <2>2, <3>1, <3>3, <3>4, <3>5, <3>6
  <2> QED BY <2>3, <2>4
<1>17. OneOwned'
  BY <1>8 DEF OrganizationInv, OneOwned
<1>18. StaffWithinLimit' /\ BranchesWithinLimit'
  <2>1. ASSUME NEW g \in Firms, There(g)', firm'[g].type = "trader"
        PROVE  Cardinality(Staff(g)') <= StaffLimit[g]
    <3>1. There(g) /\ firm'[g] = firm[g]
      BY <1>3, <1>7, <2>1
    <3> QED BY <1>9, <2>1, <3>1 DEF OrganizationInv, StaffWithinLimit
  <2>2. ASSUME NEW g \in Firms PROVE Cardinality(OpenBranches(g)') <= BranchLimit[g]
    BY <1>9 DEF OrganizationInv, BranchesWithinLimit
  <2> QED BY <2>1, <2>2 DEF StaffWithinLimit, BranchesWithinLimit
<1>19. ArchivedIsEmpty'
  <2> SUFFICES ASSUME NEW b \in Branches, branch'[b] = "archived", NEW q \in InBranch(b)'
               PROVE  member'[q][FirmOf[b]].raced
    BY DEF ArchivedIsEmpty
  <2> QED BY <1>3, <1>10 DEF OrganizationInv, ArchivedIsEmpty
<1>20. SomebodyBehind'
  <2>1. ASSUME NEW g \in Firms, There(g)'
        PROVE  member'[firm'[g].founder][g].status = "active" \/ member'[firm'[g].founder][g].overlapped
    <3>1. /\ g \notin gone /\ firm'[g] = firm[g] /\ There(g) /\ firm[g].founder \in People
          /\ member[firm[g].founder][g] # NoMember
      BY <1>3, <1>7, <2>1 DEF OrganizationInv, OrganizationTyped, FirmsSound, There, Firm
    <3>2. CASE firm[g].founder = p
      <4>1. member[p][g].overlapped
        BY <1>1, <1>2, <3>1, <3>2 DEF OrganizationInv, LeavingSound, Going
      <4> QED BY <1>3, <3>1, <3>2, <4>1
    <3>3. CASE firm[g].founder # p
      BY <1>3, <3>1, <3>3 DEF OrganizationInv, SomebodyBehind
    <3> QED BY <3>2, <3>3
  <2>2. ASSUME NEW q \in People, NEW g \in Firms, IsIn(q, g)', ~member'[q][g].overlapped
        PROVE  login'[q] \in {"own", "taken"} /\ q \in profile'
    BY <1>1, <1>7, <2>2 DEF OrganizationInv, SomebodyBehind
  <2> QED BY <2>1, <2>2 DEF SomebodyBehind
<1> QED
  BY <1>12, <1>13, <1>14, <1>15, <1>16, <1>17, <1>18, <1>19, <1>20 DEF OrganizationInv

LEMMA ServerStopsKeeps ==
  ASSUME OrganizationInv, ServerStops
  PROVE  OrganizationInv'
<1>1. /\ UNCHANGED <<firm, member, branch, login, profile>>
      /\ desk' = [d \in Desks |-> NoTask] /\ leaving' = [p \in People |-> Stay]
      /\ stray' = stray \cup {desk[d].who : d \in {e \in Desks : desk[e] # NoTask /\ desk[e].login}}
  BY DEF ServerStops
<1>2. \A p \in People : ~Going(p)'
  BY <1>1, StayIsDeletion DEF Going
<1>3. OrganizationTyped'
  BY <1>1, StayIsDeletion DEF OrganizationInv, OrganizationTyped
<1>4. DesksSound' /\ DesksApart' /\ LeavingSound'
  BY <1>1, <1>2 DEF DesksSound, DesksApart, LeavingSound
<1>5. LoginsSound'
  <2>1. NoStrayLogin'
    <3> SUFFICES ASSUME NEW p \in People, login[p] = "given", p \notin profile
                 PROVE  p \in stray'
      BY <1>1 DEF NoStrayLogin
    <3> QED BY <1>1 DEF OrganizationInv, LoginsSound, NoStrayLogin
  <2> QED BY <1>1, <2>1 DEF OrganizationInv, LoginsSound
<1>6. /\ \A f : There(f)' = There(f) /\ Staff(f)' = Staff(f) /\ OpenBranches(f)' = OpenBranches(f)
      /\ \A p, f : IsIn(p, f)' = IsIn(p, f)
      /\ \A p : Owned(p)' = Owned(p)
      /\ \A b : InBranch(b)' = InBranch(b)
  BY <1>1 DEF There, Staff, OpenBranches, Owned, InBranch, IsIn
<1>7. FirmsSound' /\ OneOwned'
  BY <1>1, <1>6 DEF OrganizationInv, FirmsSound, OneOwned
<1>8. StaffWithinLimit' /\ BranchesWithinLimit' /\ ArchivedIsEmpty'
  BY <1>1, <1>6 DEF OrganizationInv, StaffWithinLimit, BranchesWithinLimit, ArchivedIsEmpty
<1>9. SomebodyBehind'
  BY <1>1, <1>6 DEF OrganizationInv, SomebodyBehind
<1> QED BY <1>3, <1>4, <1>5, <1>7, <1>8, <1>9 DEF OrganizationInv

-----------------------------------------------------------------------------
LEMMA OrganizationStarts == OrganizationInit => OrganizationInv
<1> SUFFICES ASSUME OrganizationInit PROVE OrganizationInv
  OBVIOUS
<1>1. PICK world \in Worlds :
        /\ firm = world.firm
        /\ member = [p \in People |-> [f \in Firms |->
             IF world.firm[f] \in Firm /\ world.firm[f].founder = p
               THEN Row("owner", "active", NoBranch, FALSE, FALSE)
             ELSE IF p \in world.staff[f] THEN Row("staff", "removed", NoBranch, FALSE, FALSE)
             ELSE NoMember]]
        /\ profile = {p \in People : \E f \in Firms : member[p][f] # NoMember}
        /\ login = [p \in People |-> IF p \in profile THEN "own"
                                     ELSE IF p \in world.new THEN "none" ELSE "deleted"]
  BY DEF OrganizationInit
<1>2. /\ branch = [b \in Branches |-> "none"] /\ desk = [d \in Desks |-> NoTask]
      /\ leaving = [p \in People |-> Stay]
  BY DEF OrganizationInit
<1>3. /\ world.firm \in [Firms -> Firm \cup {NoFirm, GoneFirm}] /\ world.staff \in [Firms -> SUBSET People]
      /\ \A f \in Firms : world.firm[f] \notin Firm => world.staff[f] = {}
      /\ \A f, g \in Firms :
           world.firm[f] \in Firm /\ world.firm[g] \in Firm /\ world.firm[f].founder = world.firm[g].founder => f = g
  BY OrganizationAssumption
<1>4. PICK owner \in Member, past \in Member :
        /\ owner = Row("owner", "active", NoBranch, FALSE, FALSE) /\ owner # NoMember
        /\ owner.role = "owner" /\ owner.status = "active" /\ owner.overlapped = FALSE
        /\ past = Row("staff", "removed", NoBranch, FALSE, FALSE) /\ past # NoMember
        /\ past.role = "staff" /\ past.status = "removed"
  <2>1. PICK b \in Branches \cup {NoBranch}, no \in BOOLEAN : b = NoBranch /\ no = FALSE
    OBVIOUS
  <2>2. PICK owner \in Member :
          /\ owner = Row("owner", "active", b, no, no) /\ owner # NoMember
          /\ owner.role = "owner" /\ owner.status = "active" /\ owner.branch = b
          /\ owner.raced = no /\ owner.overlapped = no
    BY RowIsMember
  <2>3. PICK past \in Member :
          /\ past = Row("staff", "removed", b, no, no) /\ past # NoMember
          /\ past.role = "staff" /\ past.status = "removed" /\ past.branch = b
          /\ past.raced = no /\ past.overlapped = no
    BY RowIsMember
  <2> QED BY <2>1, <2>2, <2>3
<1>5. \A f \in Firms : There(f) <=> firm[f] \in Firm
  BY <1>1, <1>3, OrganizationAssumption DEF There
<1>6. \A p \in People, f \in Firms :
        member[p][f] = IF firm[f] \in Firm /\ firm[f].founder = p THEN owner
                       ELSE IF p \in world.staff[f] THEN past ELSE NoMember
  BY <1>1, <1>4
<1>7. \A p \in People, f \in Firms : IsIn(p, f) <=> There(f) /\ firm[f].founder = p
  BY <1>4, <1>5, <1>6 DEF IsIn
<1>8. \A p \in People : ~Going(p) /\ login[p] \in {"none", "own", "deleted"}
  BY <1>1, <1>2, StayIsDeletion DEF Going
<1>9. OrganizationTyped
  <2>1. firm \in [Firms -> Firm \cup {NoFirm, GoneFirm}]
    BY <1>1, <1>3
  <2>2. member \in [People -> [Firms -> Member \cup {NoMember}]]
    BY <1>1, <1>4
  <2>3. profile \subseteq People /\ login \in [People -> {"none", "own", "given", "taken", "deleted"}]
    BY <1>1
  <2>4. /\ branch \in [Branches -> {"none", "open", "archived"}]
        /\ desk \in [Desks -> {NoTask} \cup DeskTask] /\ leaving \in [People -> Deletion]
    BY <1>2, StayIsDeletion
  <2> QED BY <2>1, <2>2, <2>3, <2>4 DEF OrganizationTyped
<1>10. DesksSound /\ DesksApart /\ LeavingSound
  BY <1>2, <1>8 DEF DesksSound, DesksApart, LeavingSound
<1>11. LoginsSound
  BY <1>1, <1>8 DEF LoginsSound, NoStrayLogin
<1>12. FirmsSound
  <2>1. \A f \in Firms : firm[f] = NoFirm => \A p \in People : member[p][f] = NoMember
    BY <1>1, <1>3, <1>6, OrganizationAssumption
  <2>2. \A f \in Firms : There(f) => firm[f].founder \in People
    BY <1>5 DEF Firm
  <2> QED BY <1>4, <1>5, <1>6, <2>1, <2>2 DEF FirmsSound
<1>13. OneOwned
  BY <1>1, <1>3, <1>5, <1>7 DEF OneOwned, Owned
<1>14. StaffWithinLimit /\ BranchesWithinLimit
  <2>1. ASSUME NEW f \in Firms PROVE Staff(f) = {} /\ OpenBranches(f) = {}
    <3>1. \A p \in People : IsIn(p, f) => member[p][f].role = "owner"
      BY <1>4, <1>5, <1>6, <1>7
    <3> QED BY <1>2, <3>1 DEF Staff, OpenBranches
  <2>2. \A f \in Firms : /\ StaffLimit[f] \in Nat /\ BranchLimit[f] \in Nat
                         /\ Cardinality(Staff(f)) = 0 /\ Cardinality(OpenBranches(f)) = 0
    BY <2>1, FS_EmptySet, OrganizationAssumption
  <2> QED BY <2>2 DEF StaffWithinLimit, BranchesWithinLimit
<1>15. ArchivedIsEmpty
  BY <1>2 DEF ArchivedIsEmpty
<1>16. SomebodyBehind
  <2>1. ASSUME NEW f \in Firms, There(f) PROVE member[firm[f].founder][f].status = "active"
    <3>1. firm[f] \in Firm /\ firm[f].founder \in People
      BY <1>5, <2>1 DEF Firm
    <3> QED BY <1>4, <1>6, <3>1
  <2>2. ASSUME NEW p \in People, NEW f \in Firms, IsIn(p, f) PROVE login[p] = "own" /\ p \in profile
    <3>1. p \in profile
      BY <1>1, <2>2 DEF IsIn
    <3> QED BY <1>1, <3>1
  <2> QED BY <2>1, <2>2 DEF SomebodyBehind
<1> QED
  BY <1>9, <1>10, <1>11, <1>12, <1>13, <1>14, <1>15, <1>16 DEF OrganizationInv

LEMMA OrganizationStands == OrganizationInv /\ UNCHANGED organization => OrganizationInv'
<1> SUFFICES ASSUME OrganizationInv, UNCHANGED organization PROVE OrganizationInv'
  OBVIOUS
<1>1. /\ UNCHANGED <<firm, member, branch, login, profile, leaving, rows>> /\ UNCHANGED <<desk, held>>
      /\ UNCHANGED <<records, leaving>> /\ UNCHANGED stray
  BY DEF organization, records
<1>2. \A d \in Desks, u \in DeskTask : u = desk[d] => AboutThis(u)' /\ StillSo(u)' /\ (NeedsKey(u)' => NeedsKey(u))
  <2> SUFFICES ASSUME NEW d \in Desks, NEW u \in DeskTask, u = desk[d]
               PROVE  AboutThis(u)' /\ StillSo(u)' /\ (NeedsKey(u)' => NeedsKey(u))
    OBVIOUS
  <2>1. AboutThis(u) /\ StillSo(u)
    BY TaskFields DEF OrganizationInv, DesksSound
  <2> QED BY <1>1, <2>1, RecordsStay
<1>3. desk' \in [Desks -> {NoTask} \cup DeskTask] /\ DesksSound' /\ DesksApart'
  BY <1>1, <1>2, DesksStay
<1>4. NoStrayLogin'
  BY <1>1 DEF OrganizationInv, LoginsSound, NoStrayLogin
<1> QED BY <1>1, <1>3, <1>4, QuietKeeps

LEMMA OrganizationKeeps == OrganizationInv /\ [OrganizationNext]_organization => OrganizationInv'
<1> SUFFICES ASSUME OrganizationInv, [OrganizationNext]_organization PROVE OrganizationInv'
  OBVIOUS
<1>1. CASE \E d \in IdleDesks, f \in Firms, p \in People, b \in Branches \cup {NoBranch} :
             Add(d, f, p, b) \/ Change(d, f, p, b)
  BY <1>1, AddKeeps DEF IdleDesks
<1>2. ASSUME NEW d \in Desks,
             \/ CreateLogin(d) \/ CreateTimesOut(d) \/ ReadRemoved(d) \/ TakeRoom(d) \/ WriteMember(d)
             \/ CommitAnswerLost(d) \/ TakeBackLogin(d)
             \/ DeleteNewLogin(d) \/ CleanupFails(d) \/ WriteChange(d) \/ WriteBranch(d) \/ StepFails(d)
      PROVE  OrganizationInv'
  BY <1>2, CreateLoginKeeps, ReadRemovedKeeps, TakeRoomKeeps, WriteMemberKeeps, TakeBackKeeps, UndoKeeps,
     WriteChangeKeeps, WriteBranchKeeps, StepFailsKeeps
<1>3. ASSUME NEW d \in IdleDesks, NEW b \in Branches, OpenBranch(d, b) \/ ArchiveBranch(d, b)
      PROVE  OrganizationInv'
  BY <1>3, OpenBranchKeeps, ArchiveBranchKeeps DEF IdleDesks
<1>4. ASSUME NEW d \in IdleDesks, NEW p \in People, NEW f \in Firms, BootstrapCount(d, p, f)
      PROVE  OrganizationInv'
  BY <1>4, BootstrapCountKeeps DEF IdleDesks
<1>5. ASSUME NEW d \in Desks, NEW type \in {"trader", "enterprise"}, BootstrapWrite(d, type)
      PROVE  OrganizationInv'
  BY <1>5, BootstrapWriteKeeps
<1>6. ASSUME NEW f \in Firms, NEW p \in People, RemoveMember(f, p) PROVE OrganizationInv'
  BY <1>6, RemoveMemberKeeps
<1>7. ASSUME NEW p \in People,
             SignUp(p) \/ Leave(p) \/ Recheck(p) \/ Purge(p) \/ DropLogin(p) \/ DeletionFails(p)
      PROVE  OrganizationInv'
  BY <1>7, SignUpKeeps, LeaveKeeps, RecheckKeeps, PurgeKeeps, DeletionEndsKeeps
<1>8. CASE ServerStops
  BY <1>8, ServerStopsKeeps
<1>9. CASE UNCHANGED organization
  BY <1>9, OrganizationStands
<1> QED
  BY <1>1, <1>2, <1>3, <1>4, <1>5, <1>6, <1>7, <1>8, <1>9 DEF OrganizationNext

(* However many requests overlap, also with a deletion, the limits of the   *)
(* plan hold and nobody is left behind: for any number of people, firms,    *)
(* branches and requests.                                                   *)
THEOREM OrganizationHolds == OrganizationSpec => []OrganizationSound
<1>1. OrganizationInv => OrganizationSound
  <2> SUFFICES ASSUME OrganizationInv PROVE OneFirmEach
    BY DEF OrganizationInv, OrganizationSound, LoginsSound
  <2> SUFFICES ASSUME NEW p \in People PROVE Cardinality(Owned(p)) <= 1
    BY DEF OneFirmEach
  <2>1. CASE Owned(p) = {}
    BY <2>1, FS_EmptySet
  <2>2. CASE Owned(p) # {}
    <3>1. PICK f : Owned(p) = {f}
      BY <2>2 DEF OrganizationInv, OneOwned
    <3> QED BY <3>1, FS_Singleton
  <2> QED BY <2>1, <2>2
<1> QED BY <1>1, OrganizationStarts, OrganizationKeeps, PTL DEF OrganizationSpec

LEMMA OnlyPurgeDeletes ==
  ASSUME OrganizationInv, [OrganizationNext]_organization, NEW f \in Firms, There(f), ~There(f)'
  PROVE  \E p \in People : Purge(p) /\ f \in leaving[p].owned
<1>1. firm'[f] # firm[f]
  BY DEF There
<1>2. CASE \E p \in People : Purge(p)
  <2>1. PICK p \in People : Purge(p)
    BY <1>2
  <2>2. firm' = [g \in Firms |-> IF g \in leaving[p].owned THEN GoneFirm ELSE firm[g]]
    BY <2>1 DEF Purge
  <2> QED BY <1>1, <2>1, <2>2
<1>3. CASE \E d \in Desks, type \in {"trader", "enterprise"} : BootstrapWrite(d, type)
  <2>1. PICK d \in Desks, type \in {"trader", "enterprise"} : BootstrapWrite(d, type)
    BY <1>3
  <2>2. /\ firm' = [firm EXCEPT ![desk[d].firm] = [type |-> type, founder |-> desk[d].who]]
        /\ desk[d] # NoTask /\ desk[d].do = "found"
    BY <2>1 DEF BootstrapWrite, Doing
  <2>3. firm[desk[d].firm] = NoFirm
    BY <2>2 DEF OrganizationInv, DesksSound, AboutThis
  <2>4. desk[d].firm # f
    BY <2>3 DEF There
  <2> QED BY <1>1, <2>2, <2>4 DEF OrganizationInv, OrganizationTyped
<1>4. CASE UNCHANGED firm
  BY <1>1, <1>4
<1>5. CASE UNCHANGED organization
  BY <1>4, <1>5 DEF organization
<1>6. ASSUME NEW d \in Desks, NEW p \in People, NEW g \in Firms, NEW b \in Branches \cup {NoBranch},
             Add(d, g, p, b) \/ Change(d, g, p, b)
      PROVE  UNCHANGED firm
  BY <1>6 DEF Add, Change, records
<1>7. ASSUME NEW d \in Desks,
             \/ CreateLogin(d) \/ CreateTimesOut(d) \/ ReadRemoved(d) \/ TakeRoom(d) \/ WriteMember(d)
             \/ CommitAnswerLost(d) \/ TakeBackLogin(d)
             \/ DeleteNewLogin(d) \/ CleanupFails(d) \/ WriteChange(d) \/ WriteBranch(d) \/ StepFails(d)
      PROVE  UNCHANGED firm
  <2>1. CASE CreateLogin(d) \/ CreateTimesOut(d) \/ DeleteNewLogin(d) \/ CleanupFails(d)
    BY <2>1 DEF CreateLogin, CreateTimesOut, DeleteNewLogin, CleanupFails
  <2>2. CASE ReadRemoved(d) \/ TakeRoom(d) \/ StepFails(d)
    BY <2>2 DEF ReadRemoved, TakeRoom, StepFails, records
  <2>3. CASE WriteMember(d) \/ CommitAnswerLost(d) \/ TakeBackLogin(d) \/ WriteChange(d) \/ WriteBranch(d)
    BY <2>3 DEF WriteMember, CommitAnswerLost, TakeBackLogin, WriteChange, WriteBranch
  <2> QED BY <1>7, <2>1, <2>2, <2>3
<1>8. ASSUME NEW p \in People, SignUp(p) \/ Leave(p) \/ Recheck(p) \/ DropLogin(p) \/ DeletionFails(p)
      PROVE  UNCHANGED firm
  BY <1>8 DEF SignUp, Leave, Recheck, DropLogin, DeletionFails, records
<1>9. CASE ServerStops
  BY <1>4, <1>9 DEF ServerStops
<1>10. CASE \E d \in IdleDesks, g \in Firms, p \in People, b \in Branches \cup {NoBranch} :
              Add(d, g, p, b) \/ Change(d, g, p, b)
  BY <1>4, <1>6, <1>10 DEF IdleDesks
<1>11. CASE \/ \E d \in IdleDesks, b \in Branches : OpenBranch(d, b) \/ ArchiveBranch(d, b)
            \/ \E d \in IdleDesks, p \in People, g \in Firms : BootstrapCount(d, p, g)
            \/ \E g \in Firms, p \in People : RemoveMember(g, p)
  <2>1. ASSUME NEW d \in Desks, NEW b \in Branches, OpenBranch(d, b) \/ ArchiveBranch(d, b)
        PROVE  UNCHANGED firm
    BY <2>1 DEF OpenBranch, ArchiveBranch, records
  <2>2. ASSUME NEW d \in Desks, NEW p \in People, NEW g \in Firms, BootstrapCount(d, p, g)
        PROVE  UNCHANGED firm
    BY <2>2 DEF BootstrapCount, records
  <2>3. ASSUME NEW g \in Firms, NEW p \in People, RemoveMember(g, p) PROVE UNCHANGED firm
    BY <2>3 DEF RemoveMember
  <2> QED BY <1>4, <1>11, <2>1, <2>2, <2>3 DEF IdleDesks
<1> QED BY <1>2, <1>3, <1>5, <1>7, <1>8, <1>9, <1>10, <1>11, <1>4 DEF OrganizationNext

(* The recheck under the row locks is enough: a deletion takes a firm away  *)
(* from nobody whose row was not written during that very deletion.         *)
THEOREM DeletedAlone == OrganizationSpec => DeletedOnlyAlone
<1> DEFINE OnlyAlone ==
             \A f \in Firms, p \in People :
               There(f) /\ ~There(f)' /\ p # firm[f].founder /\ IsIn(p, f) => member[p][f].overlapped
<1>1. OrganizationInv /\ [OrganizationNext]_organization => [OnlyAlone]_organization
  <2> SUFFICES ASSUME OrganizationInv, [OrganizationNext]_organization, NEW f \in Firms, NEW p \in People,
                      There(f), ~There(f)', p # firm[f].founder, IsIn(p, f)
               PROVE  member[p][f].overlapped
    OBVIOUS
  <2>1. PICK q \in People : Purge(q) /\ f \in leaving[q].owned
    BY OnlyPurgeDeletes
  <2>2. leaving[q].stage = "purge" /\ Going(q)
    BY <2>1 DEF Purge, Going
  <2>3. firm[f].founder = q /\ \A i \in Others(q, f) : member[i][f].overlapped
    BY <2>1, <2>2 DEF OrganizationInv, LeavingSound
  <2> QED BY <2>3 DEF Others
<1> QED BY <1>1, OrganizationStarts, OrganizationKeeps, PTL DEF OrganizationSpec, DeletedOnlyAlone

-----------------------------------------------------------------------------
(* The places.                                                             *)

Counted == [step : {"counted"}, used : Nat]
Found == [step : {"update", "remove"}, place : PlaceIds]
LogEntry == [action : {"created", "updated", "deleted"}, place : PlaceIds]

PlacesTyped ==
  /\ places \in [PlaceIds -> {"none", "live", "deleted"}]
  /\ holder \subseteq Clerks
  /\ work \in [Clerks -> {NoWork} \cup Counted \cup Found]
  /\ placeLog \in Seq(LogEntry)
  /\ IsFiniteSet(LivePlaces)

CountIsCurrent ==
  \A d \in Clerks :
    work[d].step = "counted" => holder = {d} /\ Cardinality(LivePlaces) <= work[d].used

LoggedOnceMade ==
  \A p \in PlaceIds :
    places[p] = "none" <=> \A i \in DOMAIN placeLog : placeLog[i].place # p

PlacesInv == PlacesTyped /\ CountIsCurrent /\ LoggedOnceMade /\ PlacesSound

-----------------------------------------------------------------------------
(* The log and the number of live places.                                  *)

LEMMA LogGrows ==
  ASSUME NEW log \in Seq(LogEntry), NEW e \in LogEntry
  PROVE  /\ Append(log, e) \in Seq(LogEntry)
         /\ Len(log) \in Nat /\ DOMAIN log = 1..Len(log)
         /\ DOMAIN Append(log, e) = 1..(Len(log) + 1)
         /\ \A i \in 1..Len(log) : Append(log, e)[i] = log[i] /\ log[i] \in LogEntry
         /\ Append(log, e)[Len(log) + 1] = e
OBVIOUS

(* The steps that write: one place changes and one entry says so.          *)
LEMMA TellsOneMore ==
  ASSUME PlacesInv, NEW p \in PlaceIds, NEW action \in {"created", "updated", "deleted"},
         NEW state \in {"live", "deleted"},
         LogPlace(action, p), places' = [places EXCEPT ![p] = state],
         action = "created" <=> places[p] = "none",
         places[p] # "deleted", action = "deleted" <=> state = "deleted"
  PROVE  /\ placeLog' \in Seq(LogEntry) /\ LoggedOnceMade' /\ LogTellsLives'
         /\ places' \in [PlaceIds -> {"none", "live", "deleted"}]
<1> DEFINE e == [action |-> action, place |-> p]
           last == Len(placeLog) + 1
<1>1. e \in LogEntry /\ e.action = action /\ e.place = p
  BY DEF LogEntry
<1>2. placeLog \in Seq(LogEntry) /\ placeLog' = Append(placeLog, e)
  BY DEF PlacesInv, PlacesTyped, LogPlace
<1> HIDE DEF e
<1>3. /\ placeLog' \in Seq(LogEntry) /\ Len(placeLog) \in Nat
      /\ DOMAIN placeLog = 1..Len(placeLog) /\ DOMAIN placeLog' = 1..last
      /\ \A i \in 1..Len(placeLog) : placeLog'[i] = placeLog[i] /\ placeLog[i].place \in PlaceIds
      /\ placeLog'[last].action = action /\ placeLog'[last].place = p
  <2>1. \A x \in LogEntry : x.place \in PlaceIds
    BY DEF LogEntry
  <2> HIDE DEF LogEntry
  <2> QED BY <1>1, <1>2, <2>1, LogGrows
<1>4. /\ places' \in [PlaceIds -> {"none", "live", "deleted"}]
      /\ \A r \in PlaceIds : places'[r] = IF r = p THEN state ELSE places[r]
  BY DEF PlacesInv, PlacesTyped
<1>5. LoggedOnceMade'
  BY <1>3, <1>4 DEF PlacesInv, LoggedOnceMade
<1>6. LogTellsLives'
  <2> SUFFICES ASSUME NEW i \in 1..last
               PROVE  /\ placeLog'[i].action = "created"
                          <=> \A j \in 1..(i - 1) : placeLog'[j].place # placeLog'[i].place
                      /\ placeLog'[i].action = "deleted" =>
                           /\ places'[placeLog'[i].place] = "deleted"
                           /\ \A j \in 1..last :
                                placeLog'[j].place = placeLog'[i].place => j <= i
    BY <1>3 DEF LogTellsLives
  <2>1. CASE i = last
    <3>1. 1..(i - 1) = 1..Len(placeLog)
      BY <1>3, <2>1
    <3>2. places[p] = "none" <=> \A j \in 1..Len(placeLog) : placeLog[j].place # p
      BY <1>3 DEF PlacesInv, LoggedOnceMade
    <3> QED BY <1>3, <1>4, <2>1, <3>1, <3>2
  <2>2. CASE i # last
    <3>1. i \in 1..Len(placeLog) /\ \A j \in 1..(i - 1) : j \in 1..Len(placeLog)
      BY <1>3, <2>2
    <3>2. /\ placeLog[i].action = "created"
               <=> \A j \in 1..(i - 1) : placeLog[j].place # placeLog[i].place
          /\ placeLog[i].action = "deleted" =>
               /\ places[placeLog[i].place] = "deleted"
               /\ \A j \in 1..Len(placeLog) : placeLog[j].place = placeLog[i].place => j <= i
      BY <1>3, <3>1 DEF PlacesInv, PlacesSound, LogTellsLives
    <3>3. placeLog[i].action = "deleted" => placeLog[i].place # p
      BY <3>2
    <3> QED BY <1>3, <1>4, <3>1, <3>2, <3>3
  <2> QED BY <2>1, <2>2
<1> QED BY <1>3, <1>4, <1>5, <1>6

-----------------------------------------------------------------------------
(* The steps.                                                              *)

LEMMA PlacesQuiet ==
  ASSUME PlacesInv, UNCHANGED <<places, placeLog>>,
         holder' \subseteq Clerks, work' \in [Clerks -> {NoWork} \cup Counted \cup Found],
         \A d \in Clerks : work'[d].step = "counted" =>
            holder' = {d} /\ Cardinality(LivePlaces) <= work'[d].used
  PROVE  PlacesInv'
<1>1. LivePlaces' = LivePlaces
  BY DEF LivePlaces
<1> QED
  BY <1>1 DEF PlacesInv, PlacesTyped, CountIsCurrent, LoggedOnceMade, PlacesSound,
              PlacesWithinLimit, LogTellsLives

LEMMA LockAndCountKeeps ==
  ASSUME PlacesInv, NEW d \in Clerks, LockAndCount(d)
  PROVE  PlacesInv'
<1> DEFINE count == Cardinality(LivePlaces)
           w == [step |-> "counted", used |-> count]
<1>1. count \in Nat
  BY FS_CardinalityType DEF PlacesInv, PlacesTyped
<1>2. /\ work' = [work EXCEPT ![d] = w] /\ holder' = {d} /\ holder = {}
      /\ UNCHANGED <<places, placeLog>>
  BY DEF LockAndCount
<1> HIDE DEF count
<1>3. w \in Counted /\ w.used = count
  BY <1>1 DEF Counted
<1>4. \A c \in Clerks : work'[c].step = "counted" => c = d
  BY <1>2 DEF PlacesInv, PlacesTyped, CountIsCurrent
<1> QED BY <1>1, <1>2, <1>3, <1>4, PlacesQuiet DEF PlacesInv, PlacesTyped, count

LEMMA CreatePlaceKeeps ==
  ASSUME PlacesInv, NEW d \in Clerks, NEW p \in PlaceIds, NEW withPrices \in BOOLEAN,
         CreatePlace(d, p, withPrices)
  PROVE  PlacesInv'
<1>1. /\ work[d].step = "counted" /\ work[d].used < PlaceLimit /\ places[p] = "none"
      /\ places' = [places EXCEPT ![p] = "live"] /\ LogPlace("created", p)
      /\ holder' = holder \ {d} /\ work' = [work EXCEPT ![d] = NoWork]
  BY DEF CreatePlace, Done
<1>2. /\ placeLog' \in Seq(LogEntry) /\ LoggedOnceMade' /\ LogTellsLives'
      /\ places' \in [PlaceIds -> {"none", "live", "deleted"}]
  BY <1>1, TellsOneMore
<1>3. LivePlaces' = LivePlaces \cup {p} /\ p \notin LivePlaces
  BY <1>1 DEF LivePlaces, PlacesInv, PlacesTyped
<1>4. IsFiniteSet(LivePlaces') /\ Cardinality(LivePlaces') = Cardinality(LivePlaces) + 1
  BY <1>3, FS_AddElement DEF PlacesInv, PlacesTyped
<1>5. PlacesWithinLimit'
  <2>1. work[d].used \in Nat
    BY <1>1 DEF PlacesInv, PlacesTyped, NoWork, Counted, Found
  <2>2. Cardinality(LivePlaces) <= work[d].used /\ Cardinality(LivePlaces) \in Nat
    BY <1>1, FS_CardinalityType DEF PlacesInv, PlacesTyped, CountIsCurrent
  <2> QED BY <1>1, <1>4, <2>1, <2>2, PlacesAssumption DEF PlacesWithinLimit
<1>6. CountIsCurrent'
  <2>1. \A c \in Clerks : work[c].step = "counted" => c = d
    BY <1>1 DEF PlacesInv, CountIsCurrent
  <2>2. work' \in [Clerks -> {NoWork} \cup Counted \cup Found] /\ work'[d] = NoWork
    BY <1>1 DEF PlacesInv, PlacesTyped
  <2> QED BY <1>1, <2>1, <2>2 DEF CountIsCurrent, PlacesInv, PlacesTyped, NoWork
<1>7. PlacesTyped'
  BY <1>1, <1>2, <1>4 DEF PlacesInv, PlacesTyped
<1> QED BY <1>2, <1>5, <1>6, <1>7 DEF PlacesInv, PlacesSound

LEMMA UpdatePlaceKeeps ==
  ASSUME PlacesInv, NEW d \in Clerks, UpdatePlace(d)
  PROVE  PlacesInv'
<1> DEFINE p == work[d].place
<1>1. /\ work[d].step = "update" /\ places[p] = "live" /\ LogPlace("updated", p)
      /\ work' = [work EXCEPT ![d] = NoWork] /\ UNCHANGED <<places, holder>>
  BY DEF UpdatePlace, Done
<1>2. p \in PlaceIds
  BY <1>1 DEF PlacesInv, PlacesTyped, NoWork, Counted, Found
<1>3. places' = [places EXCEPT ![p] = "live"]
  BY <1>1, <1>2 DEF PlacesInv, PlacesTyped
<1> HIDE DEF p
<1>4. /\ placeLog' \in Seq(LogEntry) /\ LoggedOnceMade' /\ LogTellsLives'
  BY <1>1, <1>2, <1>3, TellsOneMore
<1>5. LivePlaces' = LivePlaces
  BY <1>1 DEF LivePlaces
<1>6. PlacesTyped' /\ PlacesWithinLimit' /\ CountIsCurrent'
  BY <1>1, <1>4, <1>5 DEF PlacesInv, PlacesTyped, PlacesSound, PlacesWithinLimit, CountIsCurrent,
                          NoWork
<1> QED BY <1>4, <1>6 DEF PlacesInv, PlacesSound

LEMMA RemovePlaceKeeps ==
  ASSUME PlacesInv, NEW d \in Clerks, RemovePlace(d)
  PROVE  PlacesInv'
<1> DEFINE p == work[d].place
<1>1. /\ work[d].step = "remove" /\ places[p] = "live" /\ LogPlace("deleted", p)
      /\ places' = [places EXCEPT ![p] = "deleted"]
      /\ work' = [work EXCEPT ![d] = NoWork] /\ UNCHANGED holder
  BY DEF RemovePlace, Done
<1>2. p \in PlaceIds
  BY <1>1 DEF PlacesInv, PlacesTyped, NoWork, Counted, Found
<1> HIDE DEF p
<1>3. /\ placeLog' \in Seq(LogEntry) /\ LoggedOnceMade' /\ LogTellsLives'
      /\ places' \in [PlaceIds -> {"none", "live", "deleted"}]
  BY <1>1, <1>2, TellsOneMore
<1>4. LivePlaces' \subseteq LivePlaces
  BY <1>1, <1>2 DEF LivePlaces, PlacesInv, PlacesTyped
<1>5. /\ IsFiniteSet(LivePlaces') /\ Cardinality(LivePlaces') <= Cardinality(LivePlaces)
      /\ Cardinality(LivePlaces') \in Nat /\ Cardinality(LivePlaces) \in Nat
  BY <1>4, FS_Subset, FS_CardinalityType DEF PlacesInv, PlacesTyped
<1>6. PlacesTyped' /\ PlacesWithinLimit'
  BY <1>1, <1>3, <1>5, PlacesAssumption
     DEF PlacesInv, PlacesTyped, PlacesSound, PlacesWithinLimit
<1>7. CountIsCurrent'
  <2> SUFFICES ASSUME NEW c \in Clerks, work'[c].step = "counted"
               PROVE  holder' = {c} /\ Cardinality(LivePlaces') <= work'[c].used
    BY DEF CountIsCurrent
  <2>1. work'[c] = work[c] /\ work[c] \in Counted
    BY <1>1 DEF PlacesInv, PlacesTyped, NoWork, Counted, Found
  <2> QED BY <1>1, <1>5, <2>1 DEF PlacesInv, CountIsCurrent, Counted
<1> QED BY <1>3, <1>6, <1>7 DEF PlacesInv, PlacesSound

(* The steps that end or begin a request without writing.                  *)
LEMMA PlacesRest ==
  ASSUME PlacesInv,
         \/ \E d \in Clerks : CreateRefused(d) \/ PlaceGone(d)
         \/ \E d \in Clerks, p \in PlaceIds, op \in {"update", "remove"} : FindOwned(d, p, op)
         \/ PlanTurns
         \/ UNCHANGED placeVars
  PROVE  PlacesInv'
<1>1. UNCHANGED <<places, placeLog>>
  BY DEF CreateRefused, PlaceGone, FindOwned, PlanTurns, placeVars
<1>2. CASE \E d \in Clerks : CreateRefused(d)
  <2>1. PICK d \in Clerks : CreateRefused(d)
    BY <1>2
  <2>2. \A c \in Clerks : work[c].step = "counted" => c = d
    BY <2>1 DEF CreateRefused, PlacesInv, CountIsCurrent
  <2> QED BY <1>1, <2>1, <2>2, PlacesQuiet DEF CreateRefused, Done, PlacesInv, PlacesTyped, NoWork
<1>3. CASE \E d \in Clerks : PlaceGone(d)
  BY <1>1, <1>3, PlacesQuiet
     DEF PlaceGone, Done, PlacesInv, PlacesTyped, CountIsCurrent, NoWork
<1>4. CASE \E d \in Clerks, p \in PlaceIds, op \in {"update", "remove"} : FindOwned(d, p, op)
  BY <1>1, <1>4, PlacesQuiet DEF FindOwned, Found, PlacesInv, PlacesTyped, CountIsCurrent
<1>5. CASE PlanTurns \/ UNCHANGED placeVars
  BY <1>1, <1>5, PlacesQuiet DEF PlanTurns, placeVars, PlacesInv, PlacesTyped, CountIsCurrent
<1> QED BY <1>2, <1>3, <1>4, <1>5

LEMMA PlacesInvariant == PlacesSpec => []PlacesInv
<1>1. PlacesInit => PlacesInv
  <2> SUFFICES ASSUME PlacesInit PROVE PlacesInv
    OBVIOUS
  <2>1. LivePlaces = {} /\ IsFiniteSet(LivePlaces) /\ Cardinality(LivePlaces) = 0
    BY FS_EmptySet DEF PlacesInit, LivePlaces
  <2> QED
    BY <2>1, PlacesAssumption
       DEF PlacesInit, PlacesInv, PlacesTyped, CountIsCurrent, LoggedOnceMade, PlacesSound,
           PlacesWithinLimit, LogTellsLives, NoWork
<1>2. PlacesInv /\ [PlacesNext]_placeVars => PlacesInv'
  BY LockAndCountKeeps, CreatePlaceKeeps, UpdatePlaceKeeps, RemovePlaceKeeps, PlacesRest
     DEF PlacesNext
<1> QED BY <1>1, <1>2, PTL DEF PlacesSpec

(* However many people place at once, there are never more live places     *)
(* than PLACES_PER_ORG_LIMIT, and the audit log tells each place's life    *)
(* once and in order (places.service.ts).                                  *)
THEOREM PlacesAreSound == PlacesSpec => []PlacesSound
<1>1. PlacesInv => PlacesSound
  BY DEF PlacesInv
<1> QED BY <1>1, PlacesInvariant, PTL

-----------------------------------------------------------------------------
(* The folder.                                                             *)

FilesInv == folder \subseteq FileIds /\ SweptClean

(* Only an empty folder has an empty first page.                           *)
LEMMA FirstPageEmpty ==
  ASSUME folder \subseteq FileIds, Listing(0) = {}
  PROVE  folder = {}
<1> SUFFICES ASSUME folder # {} PROVE FALSE
  OBVIOUS
<1> DEFINE R == OpToRel(<, Nat)
<1>1. IsWellFoundedOn(R, Nat)
  BY NatLessThanWellFounded
<1>2. PICK f \in folder : \A g \in folder : <<g, f>> \notin R
  <2> HIDE DEF R
  <2> QED BY <1>1, WFMin, FilesAssumption
<1>3. {g \in folder : g < f} = {}
  BY <1>2, FilesAssumption DEF OpToRel
<1>4. Cardinality({g \in folder : g < f}) = 0
  BY <1>3, FS_EmptySet
<1>5. 0 \in 0..(0 + FilePage - 1)
  BY FilesAssumption
<1>6. f \in Listing(0)
  BY <1>4, <1>5 DEF Listing
<1> QED BY <1>6

(* When removeFolder returns, nothing is left of what was there when it    *)
(* began, whichever calls failed before and whatever is uploaded meanwhile *)
(* (storage-admin.ts), for any page size and number of files.              *)
THEOREM FoldersAreSwept == FilesSpec => []SweptClean
<1>1. FilesInit => FilesInv
  BY DEF FilesInit, FilesInv, SweptClean, NoSweep
<1>2. FilesInv /\ [FilesNext]_fileVars => FilesInv'
  <2> SUFFICES ASSUME FilesInv, [FilesNext]_fileVars PROVE FilesInv'
    OBVIOUS
  <2>1. CASE \E f \in FileIds : SignUpload(f) \/ UrlExpires(f)
    BY <2>1 DEF SignUpload, UrlExpires, FilesInv, SweptClean
  <2>2. CASE \E f \in FileIds : PutFile(f)
    BY <2>2 DEF PutFile, FilesInv, SweptClean
  <2>3. CASE StartSweep
    BY <2>3 DEF StartSweep, NoSweep, FilesInv, SweptClean
  <2>4. CASE ListFiles
    <3>1. CASE Listing(0) = {}
      BY <2>4, <3>1, FirstPageEmpty DEF ListFiles, FilesInv, SweptClean
    <3>2. CASE Listing(0) # {}
      <4>1. sweep'.step \in {"delete", sweep.step} /\ sweep.step = "list"
        BY <2>4, <3>2 DEF ListFiles
      <4> QED BY <2>4, <4>1 DEF ListFiles, FilesInv, SweptClean
    <3> QED BY <3>1, <3>2
  <2>5. CASE DeleteFiles
    <3>1. sweep'.step \in {"list", sweep.step} /\ sweep.step = "delete"
      BY <2>5 DEF DeleteFiles
    <3> QED BY <2>5, <3>1 DEF DeleteFiles, FilesInv, SweptClean
  <2>6. CASE SweepFails
    BY <2>6 DEF SweepFails, NoSweep, FilesInv, SweptClean
  <2>7. CASE UNCHANGED fileVars
    BY <2>7 DEF fileVars, FilesInv, SweptClean
  <2> QED BY <2>1, <2>2, <2>3, <2>4, <2>5, <2>6, <2>7 DEF FilesNext
<1>3. FilesInv => SweptClean
  BY DEF FilesInv
<1> QED BY <1>1, <1>2, <1>3, PTL DEF FilesSpec
=============================================================================
