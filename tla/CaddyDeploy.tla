---------------------------- MODULE CaddyDeploy ----------------------------
(***************************************************************************)
(* How a change reaches Caddy: the request handlers of                     *)
(* app/routers/ui/sites.py, app/routers/ui/caddyfile.py and                *)
(* app/routers/caddy_api.py, the sync and onboarding procedures of         *)
(* app/services/caddyfile_manager.py, the SQLite write transaction they    *)
(* run in (app/database/session.py), the operation guard (an asyncio lock  *)
(* per worker process, then one flock shared by the workers), the managed  *)
(* Caddyfile on disk and the configuration Caddy is running.               *)
(*                                                                         *)
(* A step is what a handler does between two awaits that other handlers    *)
(* can observe.  A rendered configuration stands for its text and for its  *)
(* SHA-256 (two texts with one digest are not considered).                 *)
(***************************************************************************)
EXTENDS Naturals, FiniteSets

CONSTANTS
    Request,    \* request slots: the handlers that can be running at once
    Worker,     \* application processes sharing the database and the file
    WorkerOf,   \* the worker that serves a slot
    Site,       \* identities of site rows (their domains are distinct)
    Directive,  \* contents a site block can have
    Baseline,   \* contents the global baseline can have
    Rejected,   \* the fragments Caddy's adapter refuses
    Skipped,    \* the site blocks onboarding cannot import (a wildcard label,
                \* an empty block), which no request may create either
    Formatted,  \* what the local formatter makes of a baseline
    Injected,   \* a baseline with the options that Settings own (the Admin
                \* API endpoint, the ACME contact) and the standard snippet
    Blank,      \* the baseline with nothing in it
    Default,    \* caddy_baseline_caddyfile of the application's settings
    Kinds,      \* the kinds of request that arrive
    Faults,     \* what may go wrong around the handlers
    MaxCrashes, \* how often the application stops (bound)
    Fresh,      \* TRUE: start before onboarding, FALSE: start managed
    None        \* no row, no configuration, nobody

AllKinds == {"create", "update", "delete", "baseline", "sync", "onboard", "reconcile"}
\* adapt: the Admin API does not answer an adapt request; write, restore: the
\* Caddyfile cannot be written; load: Caddy refuses or is not reached; lost: it
\* loads and its answer is lost; commit: SQLite fails.
AllFaults == {"adapt", "write", "load", "lost", "restore", "commit", "caddy_restart"}

Row == [dir : Directive \ Skipped, on : BOOLEAN]
Config == [base : Baseline, site : [Site -> Directive \cup {None}]]
\* snap: the global block of the snapshot taken at the onboarding.
DB == [rows : [Site -> Row \cup {None}], base : Baseline, snap : Baseline,
       rendered : Config \cup {None}, lastSynced : Config \cup {None}, lastError : BOOLEAN]
File == [managed : BOOLEAN, cfg : Config]
Results == {"none", "saved", "synced", "no_change", "already_managed", "failed"}
Session == [kind : AllKinds, site : Site \cup {None}, row : Row \cup {None},
            base : Baseline \cup {None}, again : BOOLEAN,
            rendered : Config \cup {None}, prev : File \cup {None}, result : Results,
            seen : Row \cup {None}]
PCs == {"idle", "stage", "guard", "flock", "inspect", "import", "flush", "check", "write",
        "load", "record", "reformat", "restore", "unlock", "answer"}

ASSUME DeployAssumption ==
    /\ WorkerOf \in [Request -> Worker]
    /\ Kinds \subseteq AllKinds
    /\ Faults \subseteq AllFaults
    /\ MaxCrashes \in Nat
    /\ Fresh \in BOOLEAN
    /\ Formatted \in [Baseline -> Baseline]
    /\ \A b \in Baseline : Formatted[Formatted[b]] = Formatted[b]
    /\ \A b \in Baseline : b \in Rejected <=> Formatted[b] \in Rejected
    /\ {Blank, Default} \subseteq Baseline
    /\ \A b \in Baseline : Formatted[b] = Blank <=> b = Blank
    /\ Injected \in [Baseline -> Baseline]
    /\ \A b \in Baseline : Formatted[Injected[Formatted[b]]] = Formatted[Injected[b]]
    /\ None \notin Request /\ None \notin Row /\ None \notin Config
    /\ None \notin Directive /\ None \notin Site /\ None \notin Baseline
    /\ None \notin File
    /\ None \notin Rejected

VARIABLES
    db,       \* the committed database
    tx,       \* the database as the open write transaction sees it
    dbLock,   \* the session holding SQLite's write lock
    alock,    \* the asyncio lock of each worker
    flock,    \* the advisory lock on .caddybuddy.caddy.lock
    file,     \* the Caddyfile: managed marker and configuration
    runtime,  \* the configuration Caddy is running
    ready,    \* caddy_reconcile_ready of each worker
    crashes,  \* how often the application stopped
    pc,       \* where each request is
    sess      \* the local variables of each request and its ORM session

store == <<db, tx, dbLock>>
guard == <<alock, flock>>
caddy == <<file, runtime>>
boot == <<ready, crashes>>
vars == <<db, tx, dbLock, alock, flock, file, runtime, ready, crashes, pc, sess>>

(***************************************************************************)
(* Rendering and validation.                                               *)
(***************************************************************************)
SiteBlock(row) == IF row = None THEN None ELSE IF row.on THEN row.dir ELSE None

\* The stored baseline; an empty one falls back to the snapshot's.
BaselineOf(d) == IF d.base = Blank THEN d.snap ELSE d.base

\* The full Caddyfile from database state only: the baseline with its
\* options, then the enabled sites.
Render(d) == [base |-> Injected[BaselineOf(d)], site |-> [s \in Site |-> SiteBlock(d.rows[s])]]

Valid(c) == c.base \notin Rejected /\ \A s \in Site : c.site[s] \notin Rejected

\* What session p reads: its own transaction once it has written, else the
\* last commit (a SELECT alone opens no transaction).
View(p) == IF dbLock = p THEN tx ELSE db

\* Mutant: the pending changes are not flushed before the sites are selected.
RenderViewUnflushed(p) == Render(db)

\* The ORM object loaded before the write lock was taken is not refreshed by
\* the SELECT of build_full_caddyfile: that asks the stored row whether it is
\* enabled, but an update renders the contents of its own copy.
RenderView(p) ==
    LET v == View(p)
        s == sess[p].site
    IN  IF sess[p].kind = "update" /\ v.rows[s] # None
        THEN Render([v EXCEPT !.rows[s].dir = sess[p].row.dir])
        ELSE Render(v)

Forced(p) == sess[p].kind \in {"reconcile", "onboard"} \/ sess[p].again

\* Sync states in which the operation guard is held.
Guarded == {"inspect", "import", "flush", "check", "write", "load", "record", "reformat",
            "restore", "unlock"}

NewSession(k) == [kind |-> k, site |-> None, row |-> None, base |-> None,
                  again |-> FALSE, rendered |-> None, prev |-> None, result |-> "none",
                  seen |-> None]

Goto(p, l) == pc' = [pc EXCEPT ![p] = l]

\* Every end of a request closes its session: what was not committed is lost.
Close(p) ==
    /\ pc' = [pc EXCEPT ![p] = "idle"]
    /\ sess' = [sess EXCEPT ![p] = NewSession("sync")]
    /\ dbLock' = IF dbLock = p THEN None ELSE dbLock
    /\ ready' = [ready EXCEPT ![WorkerOf[p]] = @ \/ sess[p].kind = "reconcile"]
    /\ UNCHANGED crashes

\* A busy write lock that outlives busy_timeout raises "database is locked".
Busy(p) == dbLock \notin {None, p}

\* A rollback, or the close of a session that was never committed.
Rollback(p) ==
    /\ Close(p)
    /\ tx' = IF dbLock = p THEN db ELSE tx
    /\ UNCHANGED db

(***************************************************************************)
(* Arrival of a request.  The row an update or a deletion is about is read *)
(* here, before any lock; mutating requests are refused until the startup  *)
(* reconcile of the worker is over.                                        *)
(***************************************************************************)
Arrive(p, k) ==
    /\ pc[p] = "idle"
    /\ k \in Kinds
    /\ ready[WorkerOf[p]]
    /\ UNCHANGED <<store, guard, caddy, boot>>

BeginCreate(p, s, r) ==
    /\ Arrive(p, "create")
    /\ sess' = [sess EXCEPT ![p] = [NewSession("create") EXCEPT !.site = s, !.row = r]]
    /\ Goto(p, "stage")

BeginUpdate(p, s, r) ==
    /\ Arrive(p, "update")
    /\ db.rows[s] # None
    /\ sess' = [sess EXCEPT ![p] =
                    [NewSession("update") EXCEPT !.site = s, !.row = r, !.seen = db.rows[s]]]
    /\ Goto(p, "stage")

BeginDelete(p, s) ==
    /\ Arrive(p, "delete")
    /\ db.rows[s] # None
    /\ sess' = [sess EXCEPT ![p] = [NewSession("delete") EXCEPT !.site = s, !.seen = db.rows[s]]]
    /\ Goto(p, "stage")

\* save_caddyfile validates a new baseline on its own before storing it.
BeginBaseline(p, b) ==
    /\ Arrive(p, "baseline")
    /\ b = Blank \/ b \notin Rejected
    /\ sess' = [sess EXCEPT ![p] = [NewSession("baseline") EXCEPT !.base = b]]
    /\ Goto(p, "stage")

\* POST /api/caddy/sync and POST /caddyfile/onboard write nothing of their
\* own before they ask for the guard.
BeginGuarded(p, k) ==
    /\ k \in {"sync", "onboard"}
    /\ Arrive(p, k)
    /\ sess' = [sess EXCEPT ![p] = NewSession(k)]
    /\ Goto(p, "guard")

\* The startup reconcile of a worker: one forced sync of a managed file; an
\* unmanaged one is left to the operator (auto_onboard is off by default).
BeginReconcile(p) ==
    /\ pc[p] = "idle"
    /\ ~ready[WorkerOf[p]]
    /\ \A q \in Request : WorkerOf[q] = WorkerOf[p] => pc[q] = "idle"
    /\ \/ /\ file.managed
          /\ sess' = [sess EXCEPT ![p] = NewSession("reconcile")]
          /\ Goto(p, "guard")
          /\ UNCHANGED ready
       \/ /\ ~file.managed
          /\ ready' = [ready EXCEPT ![WorkerOf[p]] = TRUE]
          /\ UNCHANGED <<pc, sess>>
    /\ UNCHANGED <<store, guard, caddy, crashes>>

(***************************************************************************)
(* Staging: the row change is flushed before the guard is asked for, which *)
(* opens the write transaction and takes the write lock.                   *)
(***************************************************************************)
\* create and update upsert the domain lock row first, so that the
\* uniqueness check runs under the write lock.
StageRow(p) ==
    LET s == sess[p].site
        new == sess[p].row
        seen == sess[p].seen
        stored == db.rows[s]
        \* UPDATE writes only the columns that differ from the loaded object
        merged == [dir |-> IF new.dir # seen.dir THEN new.dir ELSE stored.dir,
                   on  |-> IF new.on # seen.on THEN new.on ELSE stored.on]
    IN  /\ pc[p] = "stage"
        /\ sess[p].kind \in {"create", "update"}
        /\ dbLock = None
        /\ \/ /\ sess[p].kind = "create" /\ stored = None
              /\ tx' = [db EXCEPT !.rows[s] = new]
           \/ /\ sess[p].kind = "update" /\ stored # None
              /\ tx' = [db EXCEPT !.rows[s] = merged]
           \/ \* deleted meanwhile: nothing to write if nothing changed
              /\ sess[p].kind = "update" /\ stored = None /\ new = seen
              /\ tx' = db
        /\ dbLock' = p
        /\ Goto(p, "guard")
        /\ UNCHANGED <<db, guard, caddy, boot, sess>>

\* The form of save_site changed the name at most: stored, nothing to deploy.
SaveOnly(p) ==
    /\ pc[p] = "stage"
    /\ sess[p].kind = "update" /\ sess[p].row = sess[p].seen
    /\ dbLock = None
    /\ tx' = db
    /\ dbLock' = p
    /\ sess' = [sess EXCEPT ![p].result = "saved"]
    /\ Goto(p, "answer")
    /\ UNCHANGED <<db, guard, caddy, boot>>

\* DuplicateSiteError on a create, StaleDataError on an update of a row that
\* is gone: the request ends with nothing written.
StageRefused(p) ==
    LET stored == db.rows[sess[p].site]
    IN  /\ pc[p] = "stage"
        /\ dbLock = None
        /\ \/ sess[p].kind = "create" /\ stored # None
           \/ sess[p].kind = "update" /\ stored = None /\ sess[p].row # sess[p].seen
        /\ Rollback(p)
        /\ UNCHANGED <<guard, caddy>>

\* Deleting a row that is already gone matches no row and only warns.
StageDelete(p) ==
    /\ pc[p] = "stage"
    /\ sess[p].kind = "delete"
    /\ dbLock = None
    /\ tx' = [db EXCEPT !.rows[sess[p].site] = None]
    /\ dbLock' = p
    /\ Goto(p, "guard")
    /\ UNCHANGED <<db, guard, caddy, boot, sess>>

\* An unchanged baseline leaves the ORM object clean: no DML, no lock.
StageBaseline(p) ==
    /\ pc[p] = "stage"
    /\ sess[p].kind = "baseline"
    /\ \/ /\ db.base = sess[p].base
          /\ UNCHANGED <<tx, dbLock>>
       \/ /\ db.base # sess[p].base
          /\ dbLock = None
          /\ tx' = [db EXCEPT !.base = sess[p].base]
          /\ dbLock' = p
    /\ Goto(p, "guard")
    /\ UNCHANGED <<db, guard, caddy, boot, sess>>

StageBusy(p) ==
    /\ pc[p] = "stage"
    /\ Busy(p)
    /\ Rollback(p)
    /\ UNCHANGED <<guard, caddy>>

(***************************************************************************)
(* The operation guard.                                                    *)
(***************************************************************************)
EnterGuard(p) ==
    /\ pc[p] = "guard"
    /\ alock[WorkerOf[p]] = None
    /\ alock' = [alock EXCEPT ![WorkerOf[p]] = p]
    /\ Goto(p, "flock")
    /\ UNCHANGED <<store, flock, caddy, boot, sess>>

\* Mutant: the flock is not exclusive.
TryFileLockShared(p) ==
    /\ pc[p] = "flock"
    /\ flock' = p
    /\ Goto(p, "inspect")
    /\ UNCHANGED <<store, alock, caddy, boot, sess>>

TryFileLock(p) ==
    /\ pc[p] = "flock"
    /\ flock = None
    /\ flock' = p
    /\ Goto(p, "inspect")
    /\ UNCHANGED <<store, alock, caddy, boot, sess>>

\* The deadline passes while another worker has the file: TimeoutError, the
\* asyncio lock is left and every caller ends without a commit.
FileLockTimeout(p) ==
    /\ pc[p] = "flock"
    /\ flock # None
    /\ alock' = [alock EXCEPT ![WorkerOf[p]] = None]
    /\ Rollback(p)
    /\ UNCHANGED <<flock, caddy>>

(***************************************************************************)
(* _sync_caddy_configuration_locked.                                       *)
(***************************************************************************)
Leave(p, res) ==
    /\ sess' = [sess EXCEPT ![p].result = res]
    /\ Goto(p, "unlock")

\* A failure is noted in the session; it survives only if the caller commits.
NoteError(p) == tx' = IF dbLock = p THEN [tx EXCEPT !.lastError = TRUE] ELSE tx

InspectUnmanaged(p) ==
    /\ pc[p] = "inspect"
    /\ sess[p].kind # "onboard"
    /\ ~file.managed
    /\ Leave(p, "failed")
    /\ UNCHANGED <<store, guard, caddy, boot>>

\* The marker is there: render.  Storing the rendered digest and the version
\* row is a DML, and so needs the write lock, only when the digest changes.
InspectAndRender(p) ==
    /\ pc[p] = "inspect"
    /\ sess[p].kind # "onboard"
    /\ file.managed
    /\ sess' = [sess EXCEPT ![p].rendered = RenderView(p)]
    /\ Goto(p, IF RenderView(p) = View(p).rendered THEN "check" ELSE "flush")
    /\ UNCHANGED <<store, guard, caddy, boot>>

FlushRendered(p) ==
    /\ pc[p] = "flush"
    /\ dbLock \in {None, p}
    /\ tx' = [View(p) EXCEPT !.rendered = sess[p].rendered]
    /\ dbLock' = p
    /\ Goto(p, "check")
    /\ UNCHANGED <<db, guard, caddy, boot, sess>>

\* Mutant: onboarding waits for the write lock without a timeout.
FlushBusyForever(p) ==
    /\ pc[p] \in {"flush", "record"}
    /\ Busy(p)
    /\ alock' = [alock EXCEPT ![WorkerOf[p]] = None]
    /\ flock' = None
    /\ Rollback(p)
    /\ UNCHANGED caddy

\* The write lock stays with another session for busy_timeout: the exception
\* leaves the guard and the request.
FlushBusy(p) ==
    /\ pc[p] \in {"import", "flush", "record"}
    /\ Busy(p)
    /\ alock' = [alock EXCEPT ![WorkerOf[p]] = None]
    /\ flock' = None
    /\ Rollback(p)
    /\ UNCHANGED caddy

\* Mutant: the content of the Caddyfile is not compared.
UnchangedDigests(p) ==
    /\ ~Forced(p)
    /\ ~View(p).lastError
    /\ sess[p].rendered = View(p).lastSynced

Unchanged(p) ==
    /\ ~Forced(p)
    /\ ~View(p).lastError
    /\ sess[p].rendered = View(p).lastSynced
    /\ file.managed
    /\ file.cfg = sess[p].rendered

CheckNoChange(p) ==
    /\ pc[p] = "check"
    /\ Unchanged(p)
    /\ Leave(p, "no_change")
    /\ UNCHANGED <<store, guard, caddy, boot>>

\* Mutant: a rejected configuration is deployed all the same.
CheckSkipped(p) ==
    /\ pc[p] = "check"
    /\ ~Unchanged(p)
    /\ Goto(p, "write")
    /\ UNCHANGED <<store, guard, caddy, boot, sess>>

\* Mutant: the configuration is loaded without being persisted.
CheckThenLoad(p) ==
    /\ pc[p] = "check"
    /\ ~Unchanged(p)
    /\ Valid(sess[p].rendered)
    /\ Goto(p, "load")
    /\ UNCHANGED <<store, guard, caddy, boot, sess>>

CheckValid(p) ==
    /\ pc[p] = "check"
    /\ ~Unchanged(p)
    /\ Valid(sess[p].rendered)
    /\ Goto(p, "write")
    /\ UNCHANGED <<store, guard, caddy, boot, sess>>

CheckFails(p) ==
    /\ pc[p] = "check"
    /\ ~Unchanged(p)
    /\ ~Valid(sess[p].rendered) \/ "adapt" \in Faults
    /\ NoteError(p)
    /\ Leave(p, "failed")
    /\ UNCHANGED <<db, dbLock, guard, caddy, boot>>

\* Mutant: the previous content is not kept.
WriteFileForgetting(p) ==
    /\ pc[p] = "write"
    /\ file' = [managed |-> TRUE, cfg |-> sess[p].rendered]
    /\ Goto(p, "load")
    /\ UNCHANGED <<store, guard, runtime, boot, sess>>

\* The file is persisted before the load, keeping what it held.
WriteFile(p) ==
    /\ pc[p] = "write"
    /\ file' = [managed |-> TRUE, cfg |-> sess[p].rendered]
    /\ sess' = [sess EXCEPT ![p].prev = file]
    /\ Goto(p, "load")
    /\ UNCHANGED <<store, guard, runtime, boot>>

\* OSError with the previous content kept: Caddy is not touched.
WriteFails(p) ==
    /\ pc[p] = "write"
    /\ "write" \in Faults
    /\ NoteError(p)
    /\ Leave(p, "failed")
    /\ UNCHANGED <<db, dbLock, guard, caddy, boot>>

Recorded(d, c) == [d EXCEPT !.lastSynced = c, !.lastError = FALSE]

\* The adapter may warn about a baseline that the formatter would change.
AfterLoad(p) ==
    \/ Goto(p, "unlock")
    \/ Formatted[sess[p].rendered.base] # sess[p].rendered.base /\ Goto(p, "reformat")

\* Caddy took the configuration: last_synced, last_error and the event go to
\* the open transaction.
Load(p) ==
    LET c == sess[p].rendered
    IN  /\ pc[p] = "load"
        /\ runtime' = c
        /\ IF dbLock = p
           THEN /\ tx' = Recorded(tx, c)
                /\ sess' = [sess EXCEPT ![p].result = "synced"]
                /\ AfterLoad(p)
           ELSE /\ Goto(p, "record")
                /\ UNCHANGED <<tx, sess>>
        /\ UNCHANGED <<db, dbLock, guard, file, boot>>

\* Without one, the SELECT of _set_state_value flushes version.synced_at and
\* so begins it: the write lock is waited for inside the guard.
RecordSync(p) ==
    /\ pc[p] = "record"
    /\ dbLock = None
    /\ dbLock' = p
    /\ tx' = Recorded(db, sess[p].rendered)
    /\ sess' = [sess EXCEPT ![p].result = "synced"]
    /\ AfterLoad(p)
    /\ UNCHANGED <<db, guard, caddy, boot>>

\* The baseline is replaced by its formatted text, which deploys nothing.
Reformat(p) ==
    LET b == BaselineOf(tx)
    IN  /\ pc[p] = "reformat"
        /\ tx' = IF Formatted[b] = b THEN tx ELSE [tx EXCEPT !.base = Formatted[b]]
        /\ Goto(p, "unlock")
        /\ UNCHANGED <<db, dbLock, guard, caddy, boot, sess>>

\* Caddy refused or was not reached, or ("lost") it took the configuration
\* but the answer came after the client's timeout.
LoadFails(p) ==
    /\ pc[p] = "load"
    /\ \/ "load" \in Faults /\ UNCHANGED runtime
       \/ "lost" \in Faults /\ runtime' = sess[p].rendered
    /\ Goto(p, "restore")
    /\ UNCHANGED <<store, guard, file, boot, sess>>

\* Mutant: a refused configuration stays in the Caddyfile.
RestoreNothing(p) ==
    /\ pc[p] = "restore"
    /\ NoteError(p)
    /\ Leave(p, "failed")
    /\ UNCHANGED <<db, dbLock, guard, caddy, boot>>

\* The previous content is put back; an OSError here is only logged.
RestoreFile(p) ==
    /\ pc[p] = "restore"
    /\ \/ file' = sess[p].prev
       \/ "restore" \in Faults /\ UNCHANGED file
    /\ NoteError(p)
    /\ Leave(p, "failed")
    /\ UNCHANGED <<db, dbLock, guard, runtime, boot>>

(***************************************************************************)
(* onboard_caddy up to its forced sync, under the same guard.              *)
(***************************************************************************)
\* The sites of the existing Caddyfile that the repository accepts (the others
\* are only logged).
Importable(c) == {s \in Site : c.site[s] \notin Skipped \cup {None}}

\* Its global block, or the default where there is neither one nor a site.
ImportedBase(new) == IF file.cfg.base = Blank /\ new = {} THEN Default ELSE file.cfg.base

\* Mutant: the default also replaces a global block without sites.
ImportedOverBlock(d) ==
    LET new == {s \in Importable(file.cfg) : d.rows[s] = None}
    IN  [d EXCEPT !.base = IF new = {} THEN Default ELSE file.cfg.base,
                  !.snap = file.cfg.base,
                  !.rows = [s \in Site |-> IF s \in new
                                            THEN [dir |-> file.cfg.site[s], on |-> TRUE]
                                            ELSE d.rows[s]]]

\* Those that are not stored yet become rows.
Imported(d) ==
    LET new == {s \in Importable(file.cfg) : d.rows[s] = None}
    IN  [d EXCEPT !.base = ImportedBase(new),
                  !.snap = file.cfg.base,
                  !.rows = [s \in Site |-> IF s \in new
                                            THEN [dir |-> file.cfg.site[s], on |-> TRUE]
                                            ELSE d.rows[s]]]

OnboardAlready(p) ==
    /\ pc[p] = "inspect"
    /\ sess[p].kind = "onboard"
    /\ file.managed
    /\ Leave(p, "already_managed")
    /\ UNCHANGED <<store, guard, caddy, boot>>

OnboardUnreachable(p) ==
    /\ pc[p] = "inspect"
    /\ sess[p].kind = "onboard"
    /\ ~file.managed
    /\ "adapt" \in Faults
    /\ Leave(p, "failed")
    /\ UNCHANGED <<store, guard, caddy, boot>>

OnboardReachable(p) ==
    /\ pc[p] = "inspect"
    /\ sess[p].kind = "onboard"
    /\ ~file.managed
    /\ Goto(p, "import")
    /\ UNCHANGED <<store, guard, caddy, boot, sess>>

OnboardImport(p) ==
    /\ pc[p] = "import"
    /\ dbLock = None
    /\ LET d == Imported(db)
       IN  /\ tx' = [d EXCEPT !.rendered = Render(d)]
           /\ sess' = [sess EXCEPT ![p].rendered = Render(d)]
    /\ dbLock' = p
    /\ Goto(p, "check")
    /\ UNCHANGED <<db, guard, caddy, boot>>

(***************************************************************************)
(* After the sync: the guard is left first, the caller commits later.      *)
(***************************************************************************)
LeaveGuard(p) ==
    /\ pc[p] = "unlock"
    /\ flock' = None
    /\ alock' = [alock EXCEPT ![WorkerOf[p]] = None]
    /\ Goto(p, "answer")
    /\ UNCHANGED <<store, caddy, boot, sess>>

\* save_site finds no certificate for the domain: a second, forced sync in
\* the same transaction.
FollowUp(p) ==
    /\ pc[p] = "answer"
    /\ sess[p].kind \in {"create", "update"}
    /\ ~sess[p].again
    /\ sess[p].result \in {"synced", "no_change"}
    /\ sess' = [sess EXCEPT ![p].again = TRUE, ![p].result = "none",
                            ![p].rendered = None, ![p].prev = None]
    /\ Goto(p, "guard")
    /\ UNCHANGED <<store, guard, caddy, boot>>

\* Mutant: the result of the sync is not looked at.
MustCommitAlways(p) == TRUE

\* A failed follow-up only flashes a warning: the request still commits.
\* (already_managed commits too, with nothing written.)
MustCommit(p) == sess[p].result \in {"saved", "synced", "no_change"} \/ sess[p].again

Commit(p) ==
    /\ pc[p] = "answer"
    /\ MustCommit(p)
    /\ ~Busy(p)
    /\ db' = View(p)
    /\ tx' = View(p)
    /\ Close(p)
    /\ UNCHANGED <<guard, caddy>>

\* The commit needs the write lock and does not get it, or fails.
CommitFails(p) ==
    /\ pc[p] = "answer"
    /\ MustCommit(p)
    /\ Busy(p) \/ "commit" \in Faults
    /\ Rollback(p)
    /\ UNCHANGED <<guard, caddy>>

AnswerFailure(p) ==
    /\ pc[p] = "answer"
    /\ ~MustCommit(p)
    /\ Rollback(p)
    /\ UNCHANGED <<guard, caddy>>

(***************************************************************************)
(* The environment: the application stops and starts, Caddy restarts.      *)
(***************************************************************************)
\* Mutant: the ready flag of the previous start is believed.
CrashStaysReady ==
    /\ crashes < MaxCrashes
    /\ crashes' = crashes + 1
    /\ tx' = db
    /\ dbLock' = None
    /\ alock' = [w \in Worker |-> None]
    /\ flock' = None
    /\ pc' = [p \in Request |-> "idle"]
    /\ sess' = [p \in Request |-> NewSession("sync")]
    /\ UNCHANGED <<db, caddy, ready>>

\* Nothing of an open transaction survives and the OS drops the flock.
Crash ==
    /\ crashes < MaxCrashes
    /\ crashes' = crashes + 1
    /\ tx' = db
    /\ dbLock' = None
    /\ alock' = [w \in Worker |-> None]
    /\ flock' = None
    /\ ready' = [w \in Worker |-> FALSE]
    /\ pc' = [p \in Request |-> "idle"]
    /\ sess' = [p \in Request |-> NewSession("sync")]
    /\ UNCHANGED <<db, caddy>>

\* Caddy comes back with what the Caddyfile says.
CaddyRestart ==
    /\ "caddy_restart" \in Faults
    /\ runtime' = file.cfg
    /\ UNCHANGED <<store, guard, file, boot, pc, sess>>

-----------------------------------------------------------------------------
SyncStep(p) ==
    \/ InspectUnmanaged(p) \/ InspectAndRender(p) \/ FlushRendered(p) \/ FlushBusy(p)
    \/ CheckNoChange(p) \/ CheckValid(p) \/ CheckFails(p)
    \/ WriteFile(p) \/ WriteFails(p) \/ Load(p) \/ LoadFails(p) \/ RecordSync(p)
    \/ Reformat(p) \/ RestoreFile(p)
    \/ OnboardAlready(p) \/ OnboardUnreachable(p) \/ OnboardReachable(p) \/ OnboardImport(p)

\* A request under way; EnterGuard is apart because only it can wait for ever.
Step(p) ==
    \/ StageRow(p) \/ SaveOnly(p) \/ StageRefused(p) \/ StageDelete(p) \/ StageBaseline(p) \/ StageBusy(p)
    \/ TryFileLock(p) \/ FileLockTimeout(p)
    \/ SyncStep(p)
    \/ LeaveGuard(p) \/ FollowUp(p) \/ Commit(p) \/ CommitFails(p) \/ AnswerFailure(p)

Begin(p) ==
    \/ \E s \in Site, r \in Row : BeginCreate(p, s, r) \/ BeginUpdate(p, s, r)
    \/ \E s \in Site : BeginDelete(p, s)
    \/ \E b \in Baseline : BeginBaseline(p, b)
    \/ \E k \in {"sync", "onboard"} : BeginGuarded(p, k)

Next ==
    \/ \E p \in Request : Begin(p) \/ BeginReconcile(p) \/ EnterGuard(p) \/ Step(p)
    \/ Crash
    \/ CaddyRestart

\* Before onboarding the database is empty and Caddy runs the operator's own
\* file; in a managed installation the three agree and the workers are ready.
InitManaged ==
    /\ db.lastSynced = Render(db) /\ db.rendered = Render(db) /\ ~db.lastError
    /\ Valid(Render(db))
    /\ file = [managed |-> TRUE, cfg |-> Render(db)]

InitFresh ==
    /\ db.rows = [s \in Site |-> None] /\ db.base = Blank /\ db.snap = Blank
    /\ db.lastSynced = None /\ db.rendered = None /\ ~db.lastError
    /\ ~file.managed

Init ==
    /\ \E rows \in [Site -> Row \cup {None}], b, sn \in Baseline, f \in File, c \in Config \cup {None} :
          /\ db = [rows |-> rows, base |-> b, snap |-> sn, rendered |-> c, lastSynced |-> c, lastError |-> FALSE]
          /\ file = f
    /\ IF Fresh THEN InitFresh ELSE InitManaged
    /\ Valid(file.cfg)
    /\ runtime = file.cfg
    /\ tx = db
    /\ dbLock = None
    /\ alock = [w \in Worker |-> None]
    /\ flock = None
    /\ ready = [w \in Worker |-> TRUE]
    /\ crashes = 0
    /\ pc = [p \in Request |-> "idle"]
    /\ sess = [p \in Request |-> NewSession("sync")]

Spec == Init /\ [][Next]_vars

\* A handler that can go on does; asyncio.Lock serves its waiters in order,
\* so nobody who waits for it is passed over for ever.
Fairness ==
    /\ \A p \in Request : WF_vars(Step(p)) /\ SF_vars(EnterGuard(p))
    /\ WF_vars(\E p \in Request : BeginReconcile(p))

FairSpec == Spec /\ Fairness
-----------------------------------------------------------------------------
(***************************************************************************)
(* Properties.                                                             *)
(***************************************************************************)
\* A configuration up to the formatting of its baseline.
Normal(c) == [c EXCEPT !.base = Formatted[@]]

\* The variables have their types.
TypeOK ==
    /\ db \in DB
    /\ tx \in DB
    /\ dbLock \in Request \cup {None}
    /\ alock \in [Worker -> Request \cup {None}]
    /\ flock \in Request \cup {None}
    /\ file \in File
    /\ runtime \in Config
    /\ ready \in [Worker -> BOOLEAN]
    /\ crashes \in 0..MaxCrashes
    /\ pc \in [Request -> PCs]
    /\ sess \in [Request -> Session]

\* _acquire_operation_guard: of all the requests of all the workers at most
\* one is between the inspection of the Caddyfile and the release.
GuardExclusion ==
    \A p, q \in Request : pc[p] \in Guarded /\ pc[q] \in Guarded => p = q

\* _sync_caddy_configuration_locked adapts a configuration before it writes
\* or loads it: neither Caddy nor the Caddyfile ever holds a rejected one,
\* whatever fails, is restored or restarts in between.
OnlyValidRuns == Valid(runtime) /\ Valid(file.cfg)

\* "The managed Caddyfile is persisted before the configuration is loaded":
\* Caddy changes only to what the Caddyfile already holds, whoever waits for
\* the guard or fails meanwhile.
PersistBeforeLoad ==
    [][runtime' # runtime => file.cfg = runtime']_vars

\* Every way out of the guard, after a failure of any step too, leaves the
\* Caddyfile and Caddy with the same configuration, as long as answers are not
\* lost and the restore succeeds.
FileIsRunning == flock = None => file.cfg = runtime

\* sync_caddy_configuration answers "no_change" only when Caddy is running
\* what it has just rendered.
NoChangeTruthful ==
    \A p \in Request :
        pc[p] = "unlock" /\ sess[p].result = "no_change" => runtime = sess[p].rendered

\* Once the workers are ready and no change is being saved, a managed
\* installation serves what the database describes: no committed change is
\* undone by a failed, a later or an interrupted request.
StoredIsDeployed ==
    (\A w \in Worker : ready[w]) /\ dbLock = None /\ flock = None /\ file.managed
        => Normal(runtime) = Normal(Render(db)) /\ file.cfg = runtime

\* onboard_caddy replaces the operator's Caddyfile by one that serves the same
\* for every site the repository can hold, with the same global block but for
\* the options that Settings own; only a file without either gets another.
TakeoverKeepsSites ==
    [][~file.managed /\ file'.managed =>
        /\ \/ file'.cfg.base = Injected[file.cfg.base]
           \/ file.cfg.base = Blank /\ Importable(file.cfg) = {}
        /\ \A s \in Site : file.cfg.site[s] \notin Skipped => file'.cfg.site[s] = file.cfg.site[s]]_vars

\* "Back up and take over the configuration Caddy already runs": until an
\* onboarding is stored Caddy goes on serving the operator's sites.
ServedUntilTakenOver ==
    [][db.lastSynced = None /\ db'.lastSynced = None => runtime'.site = runtime.site]_vars

\* Every request ends: the creation that holds the write lock and wants the
\* guard, and the onboarding that holds the guard and wants the write lock,
\* do not wait for each other for ever.
EveryRequestEnds == \A p \in Request : pc[p] # "idle" ~> pc[p] = "idle"

(***************************************************************************)
(* Refinement of DeployContract: a deployment is open from the write of    *)
(* the file until its transaction ends, and from a crash until the workers *)
(* have reconciled.                                                        *)
(***************************************************************************)
DeploymentOpen ==
    \/ \E w \in Worker : ~ready[w]
    \/ \E p \in Request :
          dbLock = p /\ (pc[p] = "load" \/ sess[p].result = "synced" \/ sess[p].again)

Contract == INSTANCE DeployContract WITH
    Configuration <- Config,
    Nothing <- None,
    running <- Normal(runtime),
    stored <- IF db.lastSynced = None THEN None ELSE Normal(Render(db)),
    open <- DeploymentOpen

ImplementsContract == Contract!ContractSpec
=============================================================================
