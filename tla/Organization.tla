---------------------------- MODULE Organization ----------------------------
(***************************************************************************)
(* Organisations, the people in them and their branches: the step "who are *)
(* you" (bootstrap.service.ts), adding, changing and removing people       *)
(* (members.service.ts), branches (branches.service.ts), and what the      *)
(* deletion of an account does to all of them (account-deletion.service.ts)*)
(*                                                                         *)
(* A person stands for their phone number, which is their login and the    *)
(* key of their profile.  A request is a few transactions (READ COMMITTED),*)
(* each split where it waits for a lock or acts on what it has read.       *)
(* Managers and staff differ in permissions only: both are "staff" here.   *)
(***************************************************************************)
EXTENDS Integers, FiniteSets

CONSTANTS
  People, Firms, Branches,
  FirmOf,        \* [Branches -> Firms]
  StaffLimit,    \* [Firms -> Nat]: staffLimit of the plan of a trader
  BranchLimit,   \* [Firms -> Nat]: subscriptions.branch_limit
  Worlds,        \* what a run may start from: firms, people removed earlier
                 \* from them, people without an account
  NoFirm, GoneFirm, NoBranch, NoMember, NoTask,
  Desks,         \* requests that can be open at the same time
  MaxTrouble     \* bound: failures and stops

Firm == [type: {"trader", "enterprise"}, founder: People]

(* `raced`: ghost, the branch was being archived while this was written;   *)
(* `overlapped`: ghost, written while the firm or the person was deleted.  *)
Member == [role: {"owner", "staff"}, status: {"active", "removed"}, branch: Branches \cup {NoBranch},
           raced: BOOLEAN, overlapped: BOOLEAN]

DeskTask ==
  [do: {"login", "reactivate", "room", "write", "undo", "disown", "change", "open", "archive", "found"},
   firm: Firms, who: People \cup {NoMember}, branch: Branches \cup {NoBranch},
   login: BOOLEAN, open: BOOLEAN]

(* A world: nobody has two firms, and nobody is in what is not a firm.      *)
ASSUME OrganizationAssumption ==
  /\ IsFiniteSet(People) /\ IsFiniteSet(Branches)
  /\ FirmOf \in [Branches -> Firms]
  /\ StaffLimit \in [Firms -> Nat] /\ BranchLimit \in [Firms -> Nat]
  /\ Worlds \subseteq [firm: [Firms -> Firm \cup {NoFirm, GoneFirm}], staff: [Firms -> SUBSET People],
                      new: SUBSET People]
  /\ \A world \in Worlds, f, g \in Firms :
       /\ world.firm[f] \notin Firm => world.staff[f] = {}
       /\ world.firm[f] \in Firm /\ world.firm[g] \in Firm /\ world.firm[f].founder = world.firm[g].founder => f = g
  /\ NoFirm # GoneFirm /\ NoFirm \notin Firm /\ GoneFirm \notin Firm
  /\ NoMember \notin Member /\ NoBranch \notin Branches /\ NoTask \notin DeskTask
  /\ MaxTrouble \in Nat

VARIABLES
  firm,      \* organizations
  member,    \* memberships, unique for a person and an organisation
  branch,    \* branches: "none", "open" or "archived" (deleted_at)
  login,     \* Supabase Auth: "none", "own", "deleted", "given" (made by a request of an
             \* owner that has not ended well), or "taken": deleted by such a request,
             \* although the row had been committed
  profile,   \* people with a profile: those find_login_user finds
  desk,      \* open requests
  held,      \* advisory locks
  rows,      \* organisations whose row a deletion has locked
  leaving,   \* how far the deletion of each account is, and the firms it found
  stray,     \* logins left behind, as the error log says
  trouble

organization == <<firm, member, branch, login, profile, desk, held, rows, leaving, stray, trouble>>
records == <<firm, member, branch, login, profile, stray>>

Stay == [stage |-> "no", owned |-> {}]

Row(role, status, b, raced, overlapped) ==
  [role |-> role, status |-> status, branch |-> b, raced |-> raced, overlapped |-> overlapped]

OrganizationInit ==
  /\ \E world \in Worlds :
       /\ firm = world.firm
       /\ member = [p \in People |-> [f \in Firms |->
            IF world.firm[f] \in Firm /\ world.firm[f].founder = p
              THEN Row("owner", "active", NoBranch, FALSE, FALSE)
            ELSE IF p \in world.staff[f] THEN Row("staff", "removed", NoBranch, FALSE, FALSE)
            ELSE NoMember]]
       /\ profile = {p \in People : \E f \in Firms : member[p][f] # NoMember}
       /\ login = [p \in People |-> IF p \in profile THEN "own"
                                    ELSE IF p \in world.new THEN "none" ELSE "deleted"]
  /\ branch = [b \in Branches |-> "none"]
  /\ desk = [d \in Desks |-> NoTask]
  /\ held = {} /\ rows = {} /\ stray = {} /\ trouble = 0
  /\ leaving = [p \in People |-> Stay]

There(f) == firm[f] \notin {NoFirm, GoneFirm}
IsIn(p, f) == member[p][f] # NoMember /\ member[p][f].status = "active"
Staff(f) == {p \in People : IsIn(p, f) /\ member[p][f].role = "staff"}
InBranch(b) == {p \in People : IsIn(p, FirmOf[b]) /\ member[p][FirmOf[b]].branch = b}
OpenBranches(f) == {b \in Branches : FirmOf[b] = f /\ branch[b] = "open"}
Going(p) == leaving[p].stage # "no"

(* The guards of the routes: its active owner is at work.                  *)
AtWork(f) == There(f) /\ IsIn(firm[f].founder, f)

(* Nobody uses the password of a login before the request that made it has *)
(* been answered.                                                          *)
CanLogIn(p) ==
  /\ login[p] \in {"own", "given"}
  /\ \A d \in Desks : desk[d] # NoTask => ~(desk[d].who = p /\ (desk[d].login \/ desk[d].do = "disown"))

Task(do, f, p, b) ==
  [do |-> do, firm |-> f, who |-> p, branch |-> b, login |-> FALSE,
   open |-> b = NoBranch \/ branch[b] = "open"]
Start(d, task) == desk[d] = NoTask /\ desk' = [desk EXCEPT ![d] = task]
Go(d, do) == desk' = [desk EXCEPT ![d].do = do]
Finish(d) == desk' = [desk EXCEPT ![d] = NoTask]
Doing(d, do) == desk[d] # NoTask /\ desk[d].do = do

(* pg_advisory_xact_lock                                                   *)
Lock(key) == key \notin held /\ held' = held \cup {key}
Unlock(key) == held' = held \ {key}
RoomKey(f) == <<f, "staff">>

-----------------------------------------------------------------------------
(* Adding a person: create and reactivate.                                 *)

assertBranch(f, b) ==
  b # NoBranch => firm[f].type = "enterprise" /\ FirmOf[b] = f /\ branch[b] = "open"

RoomFor(f) == firm[f].type # "trader" \/ Cardinality(Staff(f)) < StaffLimit[f]

(* Bound: a number is not used again once its account is deleted.          *)
(* Who has the number decides the way: reactivate, or a new login.         *)
Add(d, f, p, b) ==
  /\ AtWork(f) /\ assertBranch(f, b) /\ login[p] # "deleted"
  /\ RoomKey(f) \notin held /\ RoomFor(f)
  /\ Start(d, Task(IF p \in profile THEN "reactivate" ELSE "login", f, p, b))
  /\ UNCHANGED <<records, held, rows, leaving, trouble>>

CreateLogin(d) ==
  /\ Doing(d, "login")
  /\ IF login[desk[d].who] = "none"
       THEN /\ login' = [login EXCEPT ![desk[d].who] = "given"]
            /\ desk' = [desk EXCEPT ![d].do = "room", ![d].login = TRUE]
       ELSE Finish(d) /\ UNCHANGED login
  /\ UNCHANGED <<firm, member, branch, profile, stray, held, rows, leaving, trouble>>

(* The call has timed out after Supabase made the login: outside the try,  *)
(* nobody takes it back.                                                   *)
CreateTimesOut(d) ==
  /\ trouble < MaxTrouble /\ Doing(d, "login")
  /\ login[desk[d].who] = "none"
  /\ login' = [login EXCEPT ![desk[d].who] = "given"]
  /\ stray' = stray \cup {desk[d].who}
  /\ Finish(d) /\ trouble' = trouble + 1
  /\ UNCHANGED <<firm, member, branch, profile, held, rows, leaving>>

ReadRemoved(d) ==
  /\ Doing(d, "reactivate")
  /\ LET row == member[desk[d].who][desk[d].firm]
     IN  IF row # NoMember /\ row.status = "removed" THEN Go(d, "room") ELSE Finish(d)
  /\ UNCHANGED <<records, held, rows, leaving, trouble>>

(* Where a failed step of a request goes: a login it made is deleted.      *)
AfterFailure(d) == IF desk[d].login THEN Go(d, "undo") ELSE Finish(d)

(* assertStaffRoom: the lock, held to the end of the transaction, then the *)
(* count.                                                                  *)
TakeRoom(d) ==
  /\ Doing(d, "room")
  /\ LET f == desk[d].firm
     IN  IF There(f) /\ firm[f].type # "trader" THEN Go(d, "write") /\ UNCHANGED held
         ELSE /\ RoomKey(f) \notin held
              /\ IF There(f) /\ RoomFor(f) THEN Lock(RoomKey(f)) /\ Go(d, "write")
                                           ELSE AfterFailure(d) /\ UNCHANGED held
  /\ UNCHANGED <<records, rows, leaving, trouble>>

Raced(d) ==
  LET b == desk[d].branch
  IN  /\ desk[d].open /\ b # NoBranch
      /\ branch[b] # "open" \/ \E e \in Desks : Doing(e, "archive") /\ desk[e].branch = b

(* The foreign key of a new row waits for a deletion of the organisation.  *)
KeyFree(f) == f \notin rows

(* The row: made together with the profile, or set to active again, which  *)
(* memberships_guard refuses for an owner's.  Only a new row asks for the  *)
(* key of the organisation.                                                *)
RowFree(d) ==
  LET p == desk[d].who
      f == desk[d].firm
  IN  IF desk[d].login THEN There(f) /\ member[p][f] = NoMember
      ELSE member[p][f] # NoMember /\ member[p][f].role # "owner"

CommitMember(d) ==
  LET p == desk[d].who
      f == desk[d].firm
      row == Row("staff", "active", desk[d].branch, Raced(d),
                 ~desk[d].login /\ (f \in rows \/ Going(p) \/ login[p] = "deleted" \/ p \notin profile))
  IN  /\ member' = [member EXCEPT ![p][f] = row]
      /\ profile' = IF desk[d].login THEN profile \cup {p} ELSE profile
      /\ login' = [login EXCEPT ![p] = IF desk[d].login THEN "own" ELSE @]

WriteMember(d) ==
  /\ Doing(d, "write")
  /\ desk[d].login => KeyFree(desk[d].firm)
  /\ IF RowFree(d) THEN CommitMember(d) /\ Finish(d)
                    ELSE AfterFailure(d) /\ UNCHANGED <<member, profile, login>>
  /\ Unlock(RoomKey(desk[d].firm))
  /\ UNCHANGED <<firm, branch, stray, rows, leaving, trouble>>

(* The row is committed, and the answer of the COMMIT is lost: to the      *)
(* request it has failed, and the new login is about to be deleted.        *)
CommitAnswerLost(d) ==
  /\ trouble < MaxTrouble /\ Doing(d, "write")
  /\ desk[d].login => KeyFree(desk[d].firm)
  /\ RowFree(d) /\ CommitMember(d)
  /\ IF desk[d].login THEN desk' = [desk EXCEPT ![d].do = "disown", ![d].login = FALSE] ELSE Finish(d)
  /\ Unlock(RoomKey(desk[d].firm))
  /\ trouble' = trouble + 1
  /\ UNCHANGED <<firm, branch, stray, rows, leaving>>

TakeBackLogin(d) ==
  /\ Doing(d, "disown")
  /\ login' = [login EXCEPT ![desk[d].who] = IF @ = "own" THEN "taken" ELSE @]
  /\ Finish(d)
  /\ UNCHANGED <<firm, member, branch, profile, stray, held, rows, leaving, trouble>>

DeleteNewLogin(d) ==
  /\ Doing(d, "undo")
  /\ login' = [login EXCEPT ![desk[d].who] = "none"]
  /\ Finish(d)
  /\ UNCHANGED <<firm, member, branch, profile, stray, held, rows, leaving, trouble>>

CleanupFails(d) ==
  /\ trouble < MaxTrouble /\ Doing(d, "undo")
  /\ stray' = stray \cup {desk[d].who}
  /\ Finish(d) /\ trouble' = trouble + 1
  /\ UNCHANGED <<firm, member, branch, login, profile, held, rows, leaving>>

-----------------------------------------------------------------------------
(* update and remove: not the owner.                                       *)

editable(f, p) == AtWork(f) /\ member[p][f] # NoMember /\ member[p][f].role # "owner"

Change(d, f, p, b) ==
  /\ editable(f, p) /\ IsIn(p, f) /\ assertBranch(f, b)
  /\ Start(d, Task("change", f, p, b))
  /\ UNCHANGED <<records, held, rows, leaving, trouble>>

WriteChange(d) ==
  /\ Doing(d, "change")
  /\ LET p == desk[d].who
         f == desk[d].firm
     IN  member' = IF member[p][f] = NoMember THEN member
                   ELSE [member EXCEPT ![p][f].branch = desk[d].branch, ![p][f].raced = Raced(d)]
  /\ Finish(d)
  /\ UNCHANGED <<firm, branch, login, profile, stray, held, rows, leaving, trouble>>

RemoveMember(f, p) ==
  /\ editable(f, p) /\ IsIn(p, f)
  /\ member' = [member EXCEPT ![p][f].status = "removed"]
  /\ UNCHANGED <<firm, branch, login, profile, stray, desk, held, rows, leaving, trouble>>

-----------------------------------------------------------------------------
(* Branches, under an advisory lock of the organisation.                   *)

BranchKey(f) == <<f, "branch">>

BranchRoom(f) == Cardinality(OpenBranches(f)) < BranchLimit[f]

(* create, and the update that takes a branch out of the archive.          *)
OpenBranch(d, b) ==
  /\ AtWork(FirmOf[b]) /\ firm[FirmOf[b]].type = "enterprise"
  /\ branch[b] # "open" /\ BranchRoom(FirmOf[b])
  /\ Lock(BranchKey(FirmOf[b]))
  /\ Start(d, Task("open", FirmOf[b], NoMember, b))
  /\ UNCHANGED <<records, rows, leaving, trouble>>

NobodyIn(b) == InBranch(b) = {}

ArchiveBranch(d, b) ==
  /\ AtWork(FirmOf[b]) /\ branch[b] = "open" /\ NobodyIn(b)
  /\ Lock(BranchKey(FirmOf[b]))
  /\ Start(d, Task("archive", FirmOf[b], NoMember, b))
  /\ UNCHANGED <<records, rows, leaving, trouble>>

(* A new row waits for the row of its organisation.                        *)
WriteBranch(d) ==
  /\ Doing(d, "open") \/ Doing(d, "archive")
  /\ LET b == desk[d].branch
         f == FirmOf[b]
     IN  /\ branch[b] = "none" => KeyFree(f)
         /\ branch' = IF ~There(f) THEN branch
                      ELSE [branch EXCEPT ![b] = IF Doing(d, "open") THEN "open" ELSE "archived"]
         /\ Unlock(BranchKey(f))
  /\ Finish(d)
  /\ UNCHANGED <<firm, member, login, profile, stray, rows, leaving, trouble>>

-----------------------------------------------------------------------------
(* bootstrap                                                               *)

SignUp(p) ==
  /\ login[p] = "none"
  /\ login' = [login EXCEPT ![p] = "own"]
  /\ UNCHANGED <<firm, member, branch, profile, stray, desk, held, rows, leaving, trouble>>

(* Slip: two clicks are not kept apart.                                    *)
NoKey(p) == UNCHANGED held

UserKey(p) == Lock(<<p, "user">>)

BootstrapCount(d, p, f) ==
  /\ CanLogIn(p)
  /\ firm[f] = NoFirm
  /\ \A e \in Desks : Doing(e, "found") => desk[e].firm # f
  /\ UserKey(p)
  /\ \A g \in Firms : ~IsIn(p, g)
  /\ Start(d, Task("found", f, p, NoBranch))
  /\ UNCHANGED <<records, rows, leaving, trouble>>

BootstrapWrite(d, type) ==
  /\ Doing(d, "found")
  /\ LET p == desk[d].who
         f == desk[d].firm
     IN  /\ firm' = [firm EXCEPT ![f] = [type |-> type, founder |-> p]]
         /\ member' = [member EXCEPT ![p][f] =
              Row("owner", "active", NoBranch, FALSE, Going(p) \/ login[p] = "deleted")]
         /\ profile' = profile \cup {p}
         /\ login' = [login EXCEPT ![p] = IF @ = "given" THEN "own" ELSE @]
         /\ Unlock(<<p, "user">>)
  /\ Finish(d)
  /\ UNCHANGED <<branch, stray, rows, leaving, trouble>>

-----------------------------------------------------------------------------
(* The deletion of an account.  The photos are left out (see Trade).       *)

Owned(p) == {f \in Firms : There(f) /\ IsIn(p, f) /\ member[p][f].role = "owner"}
WorksFor(p) == {f \in Firms : IsIn(p, f) /\ member[p][f].role = "staff"}
Others(p, f) == {q \in People \ {p} : IsIn(q, f)}

Leave(p) ==
  /\ CanLogIn(p) /\ ~Going(p)
  /\ WorksFor(p) = {} /\ \A f \in Owned(p) : Others(p, f) = {}
  /\ leaving' = [leaving EXCEPT ![p] = [stage |-> "data", owned |-> Owned(p)]]
  /\ UNCHANGED <<records, desk, held, rows, trouble>>

GiveUp(p) == leaving' = [leaving EXCEPT ![p] = Stay]

(* Slip: what the first transaction has seen is enough.                    *)
AloneThen(p) == TRUE

Alone(p) == WorksFor(p) = {} /\ \A f \in leaving[p].owned : Others(p, f) = {}

(* The rows are locked, then it is asked again who is in them.             *)
Recheck(p) ==
  /\ leaving[p].stage = "data" /\ leaving[p].owned \cap rows = {}
  /\ IF Alone(p)
       THEN /\ leaving' = [leaving EXCEPT ![p].stage = "purge"]
            /\ rows' = rows \cup leaving[p].owned
       ELSE GiveUp(p) /\ UNCHANGED rows
  /\ UNCHANGED <<records, desk, held, trouble>>

(* Its firms with everything in them; every other membership is removed;   *)
(* the profile.                                                            *)
Purge(p) ==
  /\ leaving[p].stage = "purge"
  /\ LET gone == leaving[p].owned
     IN  /\ firm' = [f \in Firms |-> IF f \in gone THEN GoneFirm ELSE firm[f]]
         /\ member' = [q \in People |-> [f \in Firms |->
              IF f \in gone THEN NoMember
              ELSE IF q = p /\ member[q][f] # NoMember THEN [member[q][f] EXCEPT !.status = "removed"]
              ELSE member[q][f]]]
         /\ branch' = [b \in Branches |-> IF FirmOf[b] \in gone THEN "none" ELSE branch[b]]
         /\ rows' = rows \ gone
  /\ profile' = profile \ {p}
  /\ leaving' = [leaving EXCEPT ![p].stage = "login"]
  /\ UNCHANGED <<login, stray, desk, held, trouble>>

DropLogin(p) ==
  /\ leaving[p].stage = "login"
  /\ login' = [login EXCEPT ![p] = "deleted"]
  /\ GiveUp(p)
  /\ UNCHANGED <<firm, member, branch, profile, stray, desk, held, rows, trouble>>

DeletionFails(p) ==
  /\ trouble < MaxTrouble /\ Going(p)
  /\ GiveUp(p)
  /\ rows' = rows \ leaving[p].owned
  /\ trouble' = trouble + 1
  /\ UNCHANGED <<records, desk, held>>

-----------------------------------------------------------------------------
KeyOf(task) ==
  CASE task.do = "found" -> <<task.who, "user">>
    [] task.do \in {"open", "archive"} -> BranchKey(task.firm)
    [] OTHER -> RoomKey(task.firm)

(* The database fails: the transaction rolls back, its locks are gone.  (A *)
(* commit whose answer is lost is CommitAnswerLost where something follows *)
(* it; elsewhere the request just ends, as when it is answered.)  When a   *)
(* login is about to be taken back, it is that call which fails.           *)
StepFails(d) ==
  /\ trouble < MaxTrouble /\ desk[d] # NoTask /\ desk[d].do \notin {"login", "undo"}
  /\ IF desk[d].do \in {"write", "found", "open", "archive"} THEN Unlock(KeyOf(desk[d])) ELSE UNCHANGED held
  /\ AfterFailure(d)
  /\ trouble' = trouble + 1
  /\ UNCHANGED <<records, rows, leaving>>

(* The process stops: what it has written stays, what it was about to undo *)
(* too.                                                                    *)
ServerStops ==
  /\ trouble < MaxTrouble
  /\ desk # [d \in Desks |-> NoTask] \/ \E p \in People : Going(p)
  /\ stray' = stray \cup {desk[d].who : d \in {e \in Desks : desk[e] # NoTask /\ desk[e].login}}
  /\ desk' = [d \in Desks |-> NoTask]
  /\ leaving' = [p \in People |-> Stay]
  /\ held' = {} /\ rows' = {}
  /\ trouble' = trouble + 1
  /\ UNCHANGED <<firm, member, branch, login, profile>>

IdleDesks == {d \in Desks : desk[d] = NoTask}

OrganizationNext ==
  \/ \E d \in IdleDesks, f \in Firms, p \in People, b \in Branches \cup {NoBranch} :
       Add(d, f, p, b) \/ Change(d, f, p, b)
  \/ \E d \in Desks :
       \/ CreateLogin(d) \/ CreateTimesOut(d) \/ ReadRemoved(d) \/ TakeRoom(d) \/ WriteMember(d)
       \/ CommitAnswerLost(d) \/ TakeBackLogin(d)
       \/ DeleteNewLogin(d) \/ CleanupFails(d) \/ WriteChange(d) \/ WriteBranch(d) \/ StepFails(d)
  \/ \E d \in IdleDesks, b \in Branches : OpenBranch(d, b) \/ ArchiveBranch(d, b)
  \/ \E d \in IdleDesks, p \in People, f \in Firms : BootstrapCount(d, p, f)
  \/ \E d \in Desks, type \in {"trader", "enterprise"} : BootstrapWrite(d, type)
  \/ \E f \in Firms, p \in People : RemoveMember(f, p)
  \/ \E p \in People :
       SignUp(p) \/ Leave(p) \/ Recheck(p) \/ Purge(p) \/ DropLogin(p) \/ DeletionFails(p)
  \/ ServerStops

OrganizationSpec == OrganizationInit /\ [][OrganizationNext]_organization

-----------------------------------------------------------------------------
(* A trader never has more people at work than it pays for, although two   *)
(* of them may be added, or added back, at once (members.service.ts:110).  *)
StaffWithinLimit ==
  \A f \in Firms : There(f) /\ firm[f].type = "trader" => Cardinality(Staff(f)) <= StaffLimit[f]

(* Nor an enterprise more branches, new or taken out of the archive.       *)
BranchesWithinLimit == \A f \in Firms : Cardinality(OpenBranches(f)) <= BranchLimit[f]

(* Nobody works in an archived branch, unless the person was put there     *)
(* while it was being archived: putting takes no lock of the branches, and *)
(* a person added back is checked one transaction earlier                  *)
(* (members.service.ts:94, :163).                                          *)
ArchivedIsEmpty ==
  \A b \in Branches : branch[b] = "archived" =>
    \A p \in InBranch(b) : member[p][FirmOf[b]].raced

(* A number that could not be added can be added again: a login that an    *)
(* owner's request made and that has no profile is still in the hands of   *)
(* that request, or the log says that it was left (members.service.ts:185).*)
NoStrayLogin ==
  \A p \in People : login[p] = "given" /\ p \notin profile =>
    \/ p \in stray
    \/ \E d \in Desks : desk[d] # NoTask /\ desk[d].who = p /\ desk[d].login

(* One person, one firm of their own, however often the button was pressed *)
(* (bootstrap.service.ts:112).                                             *)
OneFirmEach == \A p \in People : Cardinality(Owned(p)) <= 1

(* Every firm has its owner, and whoever is at work can log in and has a   *)
(* profile.  Two exceptions: a row written while the account behind it was *)
(* deleted (account-deletion.service.ts:298), and a new person whose row   *)
(* was committed without the server hearing of it, so that the login was   *)
(* taken back (members.service.ts:185).                                    *)
SomebodyBehind ==
  /\ \A f \in Firms : There(f) =>
       LET row == member[firm[f].founder][f] IN row.status = "active" \/ row.overlapped
  /\ \A p \in People, f \in Firms :
       IsIn(p, f) /\ ~member[p][f].overlapped => login[p] \in {"own", "taken"} /\ p \in profile

(* Nobody loses the firm they work in: it is deleted only when its owner is*)
(* alone in it, also when somebody is added meanwhile; the row lock holds  *)
(* back whoever is new, not whoever is added back (account-deletion.service*)
(* .ts:262).                                                               *)
DeletedOnlyAlone ==
  [][\A f \in Firms, p \in People :
       There(f) /\ ~There(f)' /\ p # firm[f].founder /\ IsIn(p, f) => member[p][f].overlapped]_organization

(* However many requests overlap: the limits of the plan hold, and nobody   *)
(* is in a branch that is gone, left as a login without a membership, or in *)
(* two firms, and no firm is without its owner.                             *)
OrganizationSound ==
  /\ StaffWithinLimit /\ BranchesWithinLimit
  /\ ArchivedIsEmpty /\ NoStrayLogin /\ OneFirmEach /\ SomebodyBehind
=============================================================================
