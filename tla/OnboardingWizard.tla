--------------------------- MODULE OnboardingWizard ---------------------------
(***************************************************************************)
(* The first-run wizard of services/caddy_onboarding.py behind the routes  *)
(* of routers/ui/onboarding.py: where Caddy runs, what to start from, the  *)
(* access check, the Admin API repair, and the takeover.                   *)
(*                                                                         *)
(* A request reads the wizard's row, works for a while and saves the whole *)
(* row.  lock_onboarding_state begins no transaction for it: the session   *)
(* has looked up the user by then, and its BEGIN IMMEDIATE is for sessions *)
(* that have run nothing.  The first save takes the write lock, and the    *)
(* commit gives it back.                                                   *)
(*                                                                         *)
(* Of a Caddyfile the model keeps whose it is, whether it opens the Admin  *)
(* API, and whether the operator's sites are in it.  Deployments run       *)
(* beside the wizard under the operation guard (CaddyDeploy models them).  *)
(***************************************************************************)
EXTENDS Naturals, FiniteSets

CONSTANTS
    Client,      \* requests at a time (bound)
    Modes,       \* the situations offered: of "existing", "default", "docker", "missing"
    Control,     \* caddy_control_mode is not "disabled"
    Faults,      \* what may fail
    Files,       \* the operator's Caddyfiles to begin with
    MaxAsked,    \* requests (bound)
    MaxDeploys,  \* deployments (bound)
    MaxStops,    \* times Caddy stops (bound)
    None

ASSUME OnboardingWizardAssumption ==
    /\ {MaxAsked, MaxDeploys, MaxStops} \subseteq Nat
    /\ Modes \subseteq {"existing", "default", "docker", "missing"}
    /\ Control \in BOOLEAN
    /\ IsFiniteSet(Client)

Content == [by : {"nobody", "operator", "starter", "caddybuddy"}, admin : BOOLEAN, sites : BOOLEAN]
Absent == [by |-> "nobody", admin |-> FALSE, sites |-> FALSE]
Starter == [by |-> "starter", admin |-> TRUE, sites |-> FALSE]
Managed(sites) == [by |-> "caddybuddy", admin |-> TRUE, sites |-> sites]

\* The operator's file, and a copy of it with the admin directive.
Own == {x \in Content : x.by = "operator" /\ x.sites}

\* OnboardingWizardState; lost is the message that the file was not restored.
Row == [status : {"not_started", "in_progress", "failed", "completed"}, mode : Modes \cup {None},
        passed : BOOLEAN, lost : BOOLEAN, backup : Content \cup {None}]

ASSUME OnboardingFilesAssumption ==
    /\ Files \subseteq Own \cup {Absent}
    /\ None \notin Content \cup Modes \cup Client \cup {"deploy"}
    /\ "deploy" \notin Client

VARIABLES
    db,        \* committed: the row, runtime settings, imported sites, the snapshot
    dbLock,    \* who holds the write lock
    guard,     \* who holds the operation guard
    file,      \* the Caddyfile
    backups,   \* the backups beside it
    caddy,     \* whether Caddy is up, and what it runs
    sess,      \* the requests
    deploy,    \* the deployment that runs beside the wizard
    bounds,    \* what has been used up of the bounds
    original,  \* history: the file to begin with
    accounted, \* history: a change of the file was announced, or an error was
    uncovered  \* history: two had the file in their hands at once, or a takeover
               \*          without a backup could not put it back

store == <<db, dbLock>>
disk == <<file, backups>>
history == <<original, accounted, uncovered>>
vars == <<db, dbLock, guard, file, backups, caddy, sess, deploy, bounds, original, accounted, uncovered>>

FreshRow == [status |-> "not_started", mode |-> None, passed |-> FALSE, lost |-> FALSE, backup |-> None]
Idle == [pc |-> "idle", cmd |-> None, row |-> FreshRow, was |-> None, prev |-> Absent, imports |-> FALSE]

At(c, pc) == sess[c].pc = pc
Goto(c, pc) == sess' = [sess EXCEPT ![c].pc = pc]
Done(c) == sess' = [sess EXCEPT ![c] = Idle]
Reachable == caddy.up /\ caddy.runs.admin
CanFail(f) == f \in Faults

\* From reading the file to writing it, or giving up the right to restore it.
Holding(c) == sess[c].pc \in {"prepare", "takeover", "load", "replace", "restart", "poll",
                              "restore", "again"} \/ sess[c].was # None
Overlaps(c) == uncovered \/ deploy.pc # "idle" \/ \E d \in Client \ {c} : Holding(d)
-----------------------------------------------------------------------------
(***************************************************************************)
(* A request reads the row.                                                *)
(***************************************************************************)
Ask(c, cmd, pc, row) ==
    /\ At(c, "idle")
    /\ bounds.asked < MaxAsked
    /\ bounds' = [bounds EXCEPT !.asked = @ + 1]
    /\ sess' = [sess EXCEPT ![c] = [Idle EXCEPT !.pc = pc, !.cmd = cmd, !.row = row]]
    /\ UNCHANGED <<store, guard, disk, caddy, deploy, history>>

\* reset_onboarding_state, from the settings page
AskReset(c) == Ask(c, "reset", "save", FreshRow)

\* save_onboarding_location
AskLocation(c) ==
    /\ db.row.status # "completed"
    /\ Ask(c, "location", "save", FreshRow)

\* start_onboarding
AskMode(c) ==
    /\ db.row.status # "completed"
    /\ \E m \in Modes : Ask(c, "mode", "save", [FreshRow EXCEPT !.status = "in_progress", !.mode = m])

AskPreflight(c) ==
    /\ db.row.mode # None
    /\ Ask(c, "preflight", "probe", db.row)

\* preflight_ok
Cleared(r) == r.status = "in_progress" /\ r.passed

AskExecute(c) ==
    /\ Cleared(db.row)
    /\ Ask(c, "execute", "probe", db.row)

\* enable_admin_api_and_reprobe: every condition is looked up again.
AskEnable(c) ==
    /\ db.row.mode = "existing"
    /\ db.row.status # "completed"
    /\ Control
    /\ Ask(c, "enable", "inspect", db.row)

\* Written, and committed by the route; a busy database loses it with a 500.
Save(c) ==
    /\ At(c, "save")
    /\ dbLock = None
    /\ db' = [db EXCEPT !.row = sess[c].row]
    /\ accounted' = (accounted \/ sess[c].was # None)
    /\ Done(c)
    /\ UNCHANGED <<dbLock, guard, disk, caddy, deploy, bounds, original, uncovered>>

\* "database is locked": after an edit of the file the edit is taken back first.
SaveBusy(c) ==
    /\ sess[c].pc \in {"save", "lock", "fail"}
    /\ dbLock \notin {None, c}
    /\ IF At(c, "save") /\ sess[c].was # None
       THEN sess' = [sess EXCEPT ![c].pc = "restore", ![c].cmd = "broken"]
       ELSE Done(c)
    /\ accounted' = (accounted \/ sess[c].row.lost)
    /\ UNCHANGED <<store, guard, disk, caddy, deploy, bounds, original, uncovered>>
-----------------------------------------------------------------------------
(***************************************************************************)
(* run_onboarding_preflight: the row is read again, Caddy and the file are *)
(* looked at, and the result is saved later.                               *)
(***************************************************************************)
Usable(m) == file.by # "nobody" \/ m = "default"

Problem(m, valid, usable, reached) ==
    \/ ~valid
    \/ m # "missing" /\ ~reached
    \/ m \in {"existing", "default"} /\ ~usable

Checked(r, problem) ==
    [r EXCEPT !.status = IF problem THEN "failed" ELSE "in_progress",
              !.passed = ~problem, !.lost = FALSE, !.backup = None]

Probe(c) ==
    /\ At(c, "probe")
    /\ db.row.mode # None
    /\ \E valid \in IF sess[c].cmd = "execute" THEN {TRUE} ELSE BOOLEAN,
          usable \in {Usable(db.row.mode)} \cup (IF CanFail("file") THEN {FALSE} ELSE {}) :
          sess' = [sess EXCEPT
                     ![c].row = Checked(db.row, Problem(db.row.mode, valid, usable, Reachable)),
                     ![c].pc = IF sess[c].cmd = "execute" THEN "lock" ELSE "save"]
    /\ UNCHANGED <<store, guard, disk, caddy, deploy, bounds, history>>

\* The situation was taken back meanwhile: an error, before or after an edit.
ProbeRefused(c) ==
    /\ At(c, "probe")
    /\ db.row.mode = None
    /\ IF sess[c].was # None THEN Goto(c, "restore") ELSE Done(c)
    /\ UNCHANGED <<store, guard, disk, caddy, deploy, bounds, history>>
-----------------------------------------------------------------------------
(***************************************************************************)
(* execute_onboarding after its own access check.                          *)
(***************************************************************************)
Completed(r) == [r EXCEPT !.status = "completed"]
FailedRow(r, lost, backup) == [r EXCEPT !.status = "failed", !.lost = lost, !.backup = backup]

\* Mutant: the takeover does not wait for the write lock.
LockUnchecked(c) ==
    /\ At(c, "lock")
    /\ Cleared(sess[c].row) /\ sess[c].row.mode # "missing"
    /\ dbLock' = c
    /\ Goto(c, IF sess[c].row.mode = "default" THEN "prepare" ELSE "guard")
    /\ UNCHANGED <<db, guard, disk, caddy, deploy, bounds, history>>

\* The save of the access check takes the write lock and keeps it.
Lock(c) ==
    /\ At(c, "lock")
    /\ dbLock = None
    /\ Cleared(sess[c].row) /\ sess[c].row.mode # "missing"
    /\ dbLock' = c
    /\ Goto(c, IF sess[c].row.mode = "default" THEN "prepare" ELSE "guard")
    /\ UNCHANGED <<db, guard, disk, caddy, deploy, bounds, history>>

\* Nothing to take over, or the access check failed.
LockAndEnd(c) ==
    /\ At(c, "lock")
    /\ dbLock = None
    /\ LET r == sess[c].row
       IN  \/ ~Cleared(r) /\ db' = [db EXCEPT !.row = r]
           \/ /\ Cleared(r) /\ r.mode = "missing"
              /\ db' = [db EXCEPT !.row = Completed(r), !.settings = "wizard"]
    /\ Done(c)
    /\ UNCHANGED <<dbLock, guard, disk, caddy, deploy, bounds, history>>

\* Mutant: the starter file replaces what is there, unsaved.
PrepareUnsaved(c) ==
    /\ At(c, "prepare") /\ sess[c].was = None
    /\ sess' = [sess EXCEPT ![c].was = file]
    /\ uncovered' = Overlaps(c)
    /\ UNCHANGED <<store, guard, disk, caddy, deploy, bounds, original, accounted>>

\* _prepare_default_config_sync: the backup first.
PrepareBackup(c) ==
    /\ At(c, "prepare") /\ sess[c].was = None
    /\ backups' = IF file = Absent THEN backups ELSE backups \cup {file}
    /\ sess' = [sess EXCEPT ![c].was = file, ![c].row.backup = IF file = Absent THEN None ELSE file]
    /\ uncovered' = Overlaps(c)
    /\ UNCHANGED <<store, guard, file, caddy, deploy, bounds, original, accounted>>

\* No default file to start from, an unresolved placeholder, no backup to be had.
PrepareRefused(c) ==
    /\ At(c, "prepare") /\ sess[c].was = None
    /\ CanFail("prepare")
    /\ Goto(c, "fail")
    /\ UNCHANGED <<store, guard, disk, caddy, deploy, bounds, history>>

PrepareWrite(c) ==
    /\ At(c, "prepare") /\ sess[c].was # None
    /\ file' = Starter
    /\ Goto(c, "guard")
    /\ UNCHANGED <<store, guard, backups, caddy, deploy, bounds, history>>

PrepareFails(c) ==
    /\ At(c, "prepare") /\ sess[c].was # None
    /\ CanFail("prepare")
    /\ sess' = [sess EXCEPT ![c].pc = "fail", ![c].was = None, ![c].row.backup = None]
    /\ UNCHANGED <<store, guard, disk, caddy, deploy, bounds, history>>

\* Mutant: the starter file is left in place.
NoUndo(c) == Goto(c, "fail")

\* What a failed takeover leaves is put back when the starter was written.
Undo(c) == Goto(c, IF sess[c].was # None THEN "restore" ELSE "fail")

TakeGuard(c) ==
    /\ At(c, "guard")
    /\ guard = None
    /\ guard' = c
    /\ uncovered' = Overlaps(c)
    /\ Goto(c, "takeover")
    /\ UNCHANGED <<store, disk, caddy, deploy, bounds, original, accounted>>

GuardTimeout(c) ==
    /\ At(c, "guard")
    /\ guard \notin {None, c}
    /\ Undo(c)
    /\ UNCHANGED <<store, guard, disk, caddy, deploy, bounds, history>>

\* onboard_caddy: a managed file is a takeover that is done.
AlreadyManaged(c) ==
    /\ At(c, "takeover")
    /\ file.by = "caddybuddy"
    /\ guard' = None
    /\ Goto(c, "commit")
    /\ UNCHANGED <<store, disk, caddy, deploy, bounds, history>>

\* No file, no Admin API, or a configuration that Caddy does not adapt.
TakeoverRefused(c) ==
    /\ At(c, "takeover")
    /\ file.by # "caddybuddy"
    /\ file = Absent \/ ~Reachable \/ CanFail("adapt")
    /\ guard' = None
    /\ Undo(c)
    /\ UNCHANGED <<store, disk, caddy, deploy, bounds, history>>

\* Snapshot and sites go to the transaction, the managed file to the disk.
TakeOver(c) ==
    /\ At(c, "takeover")
    /\ file.by # "caddybuddy" /\ file # Absent
    /\ Reachable
    /\ file' = Managed(db.sites \/ file.sites)
    /\ sess' = [sess EXCEPT ![c].pc = "load", ![c].prev = file, ![c].imports = file.sites]
    /\ UNCHANGED <<store, guard, backups, caddy, deploy, bounds, history>>

Load(c) ==
    /\ At(c, "load")
    /\ Reachable
    /\ caddy' = [caddy EXCEPT !.runs = file]
    /\ guard' = None
    /\ Goto(c, "commit")
    /\ UNCHANGED <<store, disk, deploy, bounds, history>>

\* A refused load puts the previous file back; that this failed is only logged.
LoadFails(c) ==
    /\ At(c, "load")
    /\ ~Reachable \/ CanFail("load")
    /\ \/ file' = sess[c].prev /\ UNCHANGED uncovered
       \/ /\ CanFail("restore")
          /\ uncovered' = (uncovered \/ sess[c].was = None)
          /\ UNCHANGED file
    /\ guard' = None
    /\ Undo(c)
    /\ UNCHANGED <<store, backups, caddy, deploy, bounds, original, accounted>>

\* The settings of the savepoint, what was imported and the row, together.
Commit(c) ==
    /\ At(c, "commit")
    /\ db' = [row |-> Completed(sess[c].row), settings |-> "wizard",
              sites |-> db.sites \/ sess[c].imports, snapshot |-> db.snapshot \/ sess[c].imports]
    /\ dbLock' = None
    /\ accounted' = TRUE
    /\ Done(c)
    /\ UNCHANGED <<guard, disk, caddy, deploy, bounds, original, uncovered>>

\* _mark_onboarding_failed, and the commit of the route.
Fail(c) ==
    /\ At(c, "fail")
    /\ dbLock \in {None, c}
    /\ db' = [db EXCEPT !.row = FailedRow(sess[c].row, sess[c].row.lost, sess[c].row.backup)]
    /\ dbLock' = None
    /\ Done(c)
    /\ accounted' = (accounted \/ sess[c].row.lost)
    /\ UNCHANGED <<guard, disk, caddy, deploy, bounds, original, uncovered>>
-----------------------------------------------------------------------------
(***************************************************************************)
(* enable_admin_api_and_reprobe: the directive is added to the file and    *)
(* Caddy is restarted, all of it without the write lock and the guard.     *)
(***************************************************************************)
InspectRefused(c) ==
    /\ At(c, "inspect")
    /\ file = Absent \/ CanFail("file")
    /\ Done(c)
    /\ UNCHANGED <<store, guard, disk, caddy, deploy, bounds, history>>

\* The Admin API answers already: the access check alone.
InspectReached(c) ==
    /\ At(c, "inspect")
    /\ file # Absent
    /\ Reachable
    /\ Goto(c, "probe")
    /\ UNCHANGED <<store, guard, disk, caddy, deploy, bounds, history>>

EditBackup(c) ==
    /\ At(c, "inspect")
    /\ file # Absent
    /\ ~Reachable
    /\ backups' = backups \cup {file}
    /\ sess' = [sess EXCEPT ![c].pc = "replace", ![c].prev = file]
    /\ uncovered' = Overlaps(c)
    /\ UNCHANGED <<store, guard, file, caddy, deploy, bounds, original, accounted>>

\* inject_global_options
EditWrite(c) ==
    /\ At(c, "replace")
    /\ file' = [sess[c].prev EXCEPT !.admin = TRUE]
    /\ sess' = [sess EXCEPT ![c].pc = "restart", ![c].was = sess[c].prev]
    /\ UNCHANGED <<store, guard, backups, caddy, deploy, bounds, history>>

\* Nothing was replaced, and the failure names no backup.
EditFails(c) ==
    /\ At(c, "replace")
    /\ CanFail("edit")
    /\ Goto(c, "fail")
    /\ UNCHANGED <<store, guard, disk, caddy, deploy, bounds, history>>

Restart(c) ==
    /\ At(c, "restart")
    /\ caddy' = [up |-> TRUE, runs |-> IF file = Absent THEN caddy.runs ELSE file]
    /\ Goto(c, "poll")
    /\ UNCHANGED <<store, guard, disk, deploy, bounds, history>>

RestartFails(c) ==
    /\ At(c, "restart")
    /\ CanFail("restart")
    /\ Goto(c, "restore")
    /\ UNCHANGED <<store, guard, disk, caddy, deploy, bounds, history>>

Polled(c) ==
    /\ At(c, "poll")
    /\ Reachable
    /\ Goto(c, "probe")
    /\ UNCHANGED <<store, guard, disk, caddy, deploy, bounds, history>>

\* Mutant: the poll has no budget.
PollForever(c) == FALSE

PollFails(c) ==
    /\ At(c, "poll")
    /\ ~Reachable
    /\ Goto(c, "restore")
    /\ UNCHANGED <<store, guard, disk, caddy, deploy, bounds, history>>

\* Mutant: the message does not name the backup.
UnnamedLoss(r, was) == [r EXCEPT !.lost = TRUE]

\* The message of a failed restore, and the backup it names.
Loss(r, was) == [r EXCEPT !.lost = TRUE, !.backup = IF was = Absent THEN None ELSE was]

AfterRestore(c) ==
    IF sess[c].cmd \in {"enable", "broken"} THEN "again" ELSE "fail"

\* The file gets back what the request found, of the wizard's two changes.
Restore(c) ==
    /\ At(c, "restore")
    /\ file' = sess[c].was
    /\ Goto(c, AfterRestore(c))
    /\ UNCHANGED <<store, guard, backups, caddy, deploy, bounds, history>>

RestoreFails(c) ==
    /\ At(c, "restore")
    /\ CanFail("restore")
    /\ sess' = [sess EXCEPT ![c].row = Loss(@, sess[c].was), ![c].pc = "fail"]
    /\ UNCHANGED <<store, guard, disk, caddy, deploy, bounds, history>>

\* Caddy is restarted on the restored file; the session may be unusable.
RestartAgain(c) ==
    /\ At(c, "again")
    /\ caddy' = [up |-> TRUE, runs |-> IF file = Absent THEN caddy.runs ELSE file]
    /\ IF sess[c].cmd = "broken" THEN Done(c) ELSE Goto(c, "fail")
    /\ UNCHANGED <<store, guard, disk, deploy, bounds, history>>

RestartAgainFails(c) ==
    /\ At(c, "again")
    /\ CanFail("restart")
    /\ IF sess[c].cmd = "broken" THEN Done(c)
       ELSE sess' = [sess EXCEPT ![c].row = Loss(@, sess[c].was), ![c].pc = "fail"]
    /\ UNCHANGED <<store, guard, disk, caddy, deploy, bounds, history>>
-----------------------------------------------------------------------------
(***************************************************************************)
(* The world around: a deployment, and Caddy.                              *)
(***************************************************************************)
DeployBegin ==
    /\ deploy.pc = "idle"
    /\ bounds.deploys < MaxDeploys
    /\ guard = None
    /\ file.by = "caddybuddy"
    /\ guard' = "deploy"
    /\ deploy' = [pc |-> "write", sites |-> db.sites, prev |-> file]
    /\ bounds' = [bounds EXCEPT !.deploys = @ + 1]
    /\ uncovered' = (uncovered \/ \E c \in Client : Holding(c))
    /\ UNCHANGED <<store, disk, caddy, sess, original, accounted>>

DeployWrite ==
    /\ deploy.pc = "write"
    /\ deploy' = [deploy EXCEPT !.pc = "load", !.prev = file]
    /\ file' = Managed(deploy.sites)
    /\ UNCHANGED <<store, guard, backups, caddy, sess, bounds, history>>

DeployLoad ==
    /\ deploy.pc = "load"
    /\ Reachable
    /\ caddy' = [caddy EXCEPT !.runs = Managed(deploy.sites)]
    /\ deploy' = [deploy EXCEPT !.pc = "idle"]
    /\ guard' = None
    /\ UNCHANGED <<store, disk, sess, bounds, history>>

DeployLoadFails ==
    /\ deploy.pc = "load"
    /\ ~Reachable \/ CanFail("load")
    /\ file' = deploy.prev \/ (CanFail("restore") /\ UNCHANGED file)
    /\ deploy' = [deploy EXCEPT !.pc = "idle"]
    /\ guard' = None
    /\ UNCHANGED <<store, backups, caddy, sess, bounds, history>>

CaddyStops ==
    /\ caddy.up
    /\ bounds.stops < MaxStops
    /\ bounds' = [bounds EXCEPT !.stops = @ + 1]
    /\ caddy' = [caddy EXCEPT !.up = FALSE]
    /\ UNCHANGED <<store, guard, disk, sess, deploy, history>>

CaddyStarts ==
    /\ ~caddy.up
    /\ file # Absent
    /\ caddy' = [up |-> TRUE, runs |-> file]
    /\ UNCHANGED <<store, guard, disk, sess, deploy, bounds, history>>
-----------------------------------------------------------------------------
Init ==
    /\ db = [row |-> FreshRow, settings |-> "default", sites |-> FALSE, snapshot |-> FALSE]
    /\ dbLock = None /\ guard = None
    /\ file \in Files /\ original = file
    /\ backups = {}
    /\ caddy = [up |-> TRUE, runs |-> IF file = Absent THEN Starter ELSE file]
    /\ sess = [c \in Client |-> Idle]
    /\ deploy = [pc |-> "idle", sites |-> FALSE, prev |-> Absent]
    /\ bounds = [asked |-> 0, deploys |-> 0, stops |-> 0]
    /\ accounted = FALSE /\ uncovered = FALSE

Asks(c) ==
    \/ AskReset(c) \/ AskLocation(c) \/ AskMode(c)
    \/ AskPreflight(c) \/ AskExecute(c) \/ AskEnable(c)

Work(c) ==
    \/ Save(c) \/ SaveBusy(c) \/ Probe(c) \/ ProbeRefused(c)
    \/ Lock(c) \/ LockAndEnd(c) \/ PrepareBackup(c) \/ PrepareRefused(c)
    \/ PrepareWrite(c) \/ PrepareFails(c)
    \/ TakeGuard(c) \/ GuardTimeout(c) \/ AlreadyManaged(c) \/ TakeoverRefused(c) \/ TakeOver(c)
    \/ Load(c) \/ LoadFails(c) \/ Commit(c) \/ Fail(c)
    \/ InspectRefused(c) \/ InspectReached(c) \/ EditBackup(c) \/ EditWrite(c) \/ EditFails(c)
    \/ Restart(c) \/ RestartFails(c) \/ Polled(c) \/ PollFails(c)
    \/ Restore(c) \/ RestoreFails(c) \/ RestartAgain(c) \/ RestartAgainFails(c)

DeployStep == DeployBegin \/ DeployWrite \/ DeployLoad \/ DeployLoadFails

Next ==
    \/ \E c \in Client : Asks(c) \/ Work(c)
    \/ DeployStep \/ CaddyStops \/ CaddyStarts

Spec == Init /\ [][Next]_vars

\* A request runs on, and so does the holder of the guard.
FairSpec == Spec /\ (\A c \in Client : WF_vars(Work(c))) /\ WF_vars(DeployWrite \/ DeployLoad \/ DeployLoadFails)
-----------------------------------------------------------------------------
SessionState ==
    [pc : {"idle", "save", "probe", "lock", "prepare", "guard", "takeover", "load", "commit", "fail",
           "inspect", "replace", "restart", "poll", "restore", "again"},
     cmd : {None, "reset", "location", "mode", "preflight", "execute", "enable", "broken"},
     row : Row, was : Content \cup {None}, prev : Content, imports : BOOLEAN]

\* The values of the variables, and that the holders of the two locks are
\* where the code holds them.
TypeOK ==
    /\ db \in [row : Row, settings : {"default", "wizard"}, sites : BOOLEAN, snapshot : BOOLEAN]
    /\ file \in Content /\ backups \subseteq Content
    /\ caddy \in [up : BOOLEAN, runs : Content]
    /\ \A c \in Client :
         /\ sess[c] \in SessionState
         /\ guard = c <=> sess[c].pc \in {"takeover", "load"}
         /\ sess[c].pc \in {"prepare", "guard", "takeover", "load", "commit"} => dbLock = c
    /\ guard = "deploy" <=> deploy.pc # "idle"

Quiet == (\A c \in Client : At(c, "idle")) /\ deploy.pc = "idle"

\* "Once the Caddyfile is modified, every failure restores the original bytes":
\* with nothing announced, the file is the one of the beginning.
FailureRestores == Quiet /\ ~accounted => file = original

\* The same but for what the code leaves uncovered: two that had the file in
\* their hands at once, and a takeover of an existing file whose load and whose
\* restore both failed.  Over a starter file the wizard's own restore answers
\* for that second failure as well.
CoveredFailureRestores == Quiet /\ ~accounted /\ ~uncovered => file = original

\* What the operator had is not lost, with the same two exceptions: it is in the
\* file, in a backup, in the snapshot, or about to be committed.
OwnKept ==
    original # Absent /\ ~uncovered =>
        \/ file.sites
        \/ backups \cap Own # {}
        \/ db.snapshot
        \/ \E c \in Client : sess[c].pc \in {"commit", "load"} /\ sess[c].imports

\* A row that says the file could not be restored names a backup of it.
LossNamesBackup ==
    db.row.lost => db.row.backup \in backups \/ original = Absent

\* A completed onboarding is left by the restart in the settings alone.
CompletedStays ==
    [][(db.row.status = "completed" /\ db'.row.status # "completed")
         => \E c \in Client : sess[c].cmd = "reset"]_vars

\* Every request is answered, whoever holds the lock or the guard.
EveryRequestEnds == \A c \in Client : ~At(c, "idle") ~> At(c, "idle")
=============================================================================
