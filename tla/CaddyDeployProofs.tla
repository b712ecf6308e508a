------------------------- MODULE CaddyDeployProofs -------------------------
(***************************************************************************)
(* Theorems about CaddyDeploy for every number of requests, workers, sites *)
(* and configurations.                                                     *)
(***************************************************************************)
EXTENDS CaddyDeploy, TLAPS

(***************************************************************************)
(* The inductive invariants.                                               *)
(***************************************************************************)
\* What the types of the sessions do not say: which of the local variables of
\* a handler are bound where it uses them.
Bound(l, x) ==
    /\ x.kind \in {"create", "update"} => x.site \in Site /\ x.row \in Row
    /\ x.kind = "update" => x.seen \in Row
    /\ x.kind = "delete" => x.site \in Site
    /\ x.kind = "baseline" => x.base \in Baseline
    /\ l \in {"flush", "check", "write", "load", "record", "restore"} => x.rendered \in Config
    /\ l \in {"load", "restore"} => x.prev \in File

BoundLocals == \A p \in Request : Bound(pc[p], sess[p])

TypeInv == TypeOK /\ BoundLocals

\* Who is past a lock holds it.
GuardHeld ==
    \A p \in Request :
        /\ pc[p] \in Guarded => flock = p
        /\ pc[p] \in Guarded \cup {"flock"} => alock[WorkerOf[p]] = p

\* What is about to be written, loaded or restored was accepted by the adapter.
ValidLocals ==
    /\ OnlyValidRuns
    /\ \A p \in Request :
        /\ pc[p] \in {"write", "load"} => Valid(sess[p].rendered)
        /\ pc[p] \in {"load", "restore"} => Valid(sess[p].prev.cfg)

\* Between the write and the load the Caddyfile holds the configuration that
\* is about to be loaded.
Persisted ==
    \A p \in Request : pc[p] = "load" => file.cfg = sess[p].rendered

-----------------------------------------------------------------------------
(***************************************************************************)
(* Mutual exclusion.                                                       *)
(***************************************************************************)
LockTypes ==
    /\ pc \in [Request -> PCs]
    /\ alock \in [Worker -> Request \cup {None}]
    /\ flock \in Request \cup {None}

LEMMA GuardHeldInit == Init => GuardHeld
BY DEF Init, GuardHeld, Guarded

LEMMA GuardHeldStep ==
    ASSUME LockTypes, GuardHeld, [Next]_vars
    PROVE  GuardHeld'
<1> USE DeployAssumption DEF LockTypes, PCs, Guarded
<1>1. ASSUME NEW p \in Request, Begin(p) PROVE GuardHeld'
  <2>1. /\ pc' = [pc EXCEPT ![p] = "stage"] \/ pc' = [pc EXCEPT ![p] = "guard"]
        /\ UNCHANGED guard
    BY <1>1 DEF Begin, BeginCreate, BeginUpdate, BeginDelete, BeginBaseline, BeginGuarded, Arrive, Goto
  <2> QED BY <2>1 DEF GuardHeld, guard
<1>2. ASSUME NEW p \in Request, BeginReconcile(p) PROVE GuardHeld'
  BY <1>2 DEF BeginReconcile, Goto, GuardHeld, guard
<1>3. ASSUME NEW p \in Request, EnterGuard(p) PROVE GuardHeld'
  BY <1>3 DEF EnterGuard, Goto, GuardHeld
<1>4. ASSUME NEW p \in Request, TryFileLock(p) PROVE GuardHeld'
  BY <1>4 DEF TryFileLock, Goto, GuardHeld
<1>5. ASSUME NEW p \in Request, FileLockTimeout(p) PROVE GuardHeld'
  BY <1>5 DEF FileLockTimeout, Rollback, Close, GuardHeld
<1>6. ASSUME NEW p \in Request, LeaveGuard(p) PROVE GuardHeld'
  BY <1>6 DEF LeaveGuard, Goto, GuardHeld
<1>7. ASSUME NEW p \in Request, FlushBusy(p) PROVE GuardHeld'
  BY <1>7 DEF FlushBusy, Rollback, Close, GuardHeld
<1>8. ASSUME NEW p \in Request,
             StageRow(p) \/ SaveOnly(p) \/ StageRefused(p) \/ StageDelete(p) \/ StageBaseline(p)
               \/ StageBusy(p)
      PROVE  GuardHeld'
  BY <1>8 DEF StageRow, SaveOnly, StageRefused, StageDelete, StageBaseline, StageBusy,
              Rollback, Close, Goto, GuardHeld, guard
<1>9. ASSUME NEW p \in Request, FollowUp(p) \/ Commit(p) \/ CommitFails(p) \/ AnswerFailure(p)
      PROVE  GuardHeld'
  BY <1>9 DEF FollowUp, Commit, CommitFails, AnswerFailure, Rollback, Close, Goto, GuardHeld, guard
<1>10. ASSUME NEW p \in Request,
              \/ InspectUnmanaged(p) \/ InspectAndRender(p) \/ FlushRendered(p)
              \/ CheckNoChange(p) \/ CheckValid(p) \/ CheckFails(p)
              \/ WriteFile(p) \/ WriteFails(p) \/ Load(p) \/ LoadFails(p) \/ RecordSync(p)
              \/ Reformat(p) \/ RestoreFile(p)
              \/ OnboardAlready(p) \/ OnboardUnreachable(p) \/ OnboardReachable(p) \/ OnboardImport(p)
       PROVE  GuardHeld'
  \* inside the guard: both locks are kept and p stays inside
  <2>1. /\ pc[p] \in Guarded
        /\ \E l \in Guarded : pc' = [pc EXCEPT ![p] = l]
        /\ UNCHANGED <<alock, flock>>
    BY <1>10 DEF InspectUnmanaged, InspectAndRender, FlushRendered, CheckNoChange, CheckValid,
                 CheckFails, WriteFile, WriteFails, Load, AfterLoad, LoadFails, RecordSync, Reformat,
                 RestoreFile, OnboardAlready, OnboardUnreachable, OnboardReachable, OnboardImport,
                 Leave, Goto, guard
  <2> QED BY <2>1 DEF GuardHeld
<1>11. CASE Crash
  BY <1>11 DEF Crash, GuardHeld
<1>12. CASE CaddyRestart
  BY <1>12 DEF CaddyRestart, GuardHeld, guard
<1>13. CASE UNCHANGED vars
  BY <1>13 DEF vars, GuardHeld
<1> QED
  BY <1>1, <1>2, <1>3, <1>4, <1>5, <1>6, <1>7, <1>8, <1>9, <1>10, <1>11, <1>12, <1>13
     DEF Next, Step, SyncStep

-----------------------------------------------------------------------------
(***************************************************************************)
(* Type correctness.                                                       *)
(***************************************************************************)
\* A database renders to a configuration.
LEMMA RenderType == ASSUME NEW d \in DB PROVE Render(d) \in Config
BY DeployAssumption DEF Render, BaselineOf, SiteBlock, DB, Config, Row

\* Importing the operator's Caddyfile gives a database.
LEMMA ImportedType ==
    ASSUME file \in File, NEW d \in DB
    PROVE  Imported(d) \in DB
<1> DEFINE new == {s \in Importable(file.cfg) : d.rows[s] = None}
<1>1. \A s \in new : [dir |-> file.cfg.site[s], on |-> TRUE] \in Row
  BY DEF Importable, Config, File, Row
<1>2. ImportedBase(new) \in Baseline /\ file.cfg.base \in Baseline
  BY DeployAssumption DEF ImportedBase, Config, File
<1>3. [s \in Site |-> IF s \in new THEN [dir |-> file.cfg.site[s], on |-> TRUE] ELSE d.rows[s]]
        \in [Site -> Row \cup {None}]
  BY <1>1 DEF DB
<1> HIDE DEF new
<1> QED
  BY <1>2, <1>3 DEF Imported, DB, new

LEMMA ViewType == ASSUME TypeOK, NEW p \in Request PROVE View(p) \in DB
BY DEF TypeOK, View

LEMMA RenderViewType == ASSUME TypeInv, NEW p \in Request PROVE RenderView(p) \in Config
<1>1. View(p) \in DB
  BY ViewType DEF TypeInv
<1>2. ASSUME sess[p].kind = "update", View(p).rows[sess[p].site] # None
      PROVE  [View(p) EXCEPT !.rows[sess[p].site].dir = sess[p].row.dir] \in DB
  BY <1>1, <1>2 DEF TypeInv, BoundLocals, Bound, DB, Row
<1> QED
  BY <1>1, <1>2, RenderType DEF RenderView

LEMMA NewSessionType == ASSUME NEW k \in AllKinds PROVE NewSession(k) \in Session
BY DEF NewSession, Session, Results

SessionTypes ==
    /\ pc \in [Request -> PCs]
    /\ sess \in [Request -> Session]
    /\ BoundLocals

\* A step of one handler that leaves it with well-bound locals.
LEMMA SessionStep ==
    ASSUME SessionTypes, NEW p \in Request, NEW l \in PCs, NEW x \in Session, Bound(l, x),
           pc' = [pc EXCEPT ![p] = l], sess' = [sess EXCEPT ![p] = x]
    PROVE  SessionTypes'
BY DEF SessionTypes, BoundLocals

\* A step of one handler that assigns no local.
LEMMA GotoStep ==
    ASSUME SessionTypes, NEW p \in Request, NEW l \in PCs, Bound(l, sess[p]),
           Goto(p, l), sess' = sess
    PROVE  SessionTypes'
BY DEF SessionTypes, BoundLocals, Goto

LEMMA LeaveStep ==
    ASSUME SessionTypes, NEW p \in Request, NEW res \in Results, Leave(p, res)
    PROVE  SessionTypes'
<1> DEFINE x == [sess[p] EXCEPT !.result = res]
<1>1. x \in Session /\ Bound("unlock", x)
  BY DEF SessionTypes, BoundLocals, Bound, Session
<1>2. sess' = [sess EXCEPT ![p] = x] /\ pc' = [pc EXCEPT ![p] = "unlock"]
  BY DEF Leave, Goto
<1> QED
  BY <1>1, <1>2, SessionStep DEF PCs

LEMMA NoteErrorType ==
    ASSUME tx \in DB, NEW p \in Request, NoteError(p)
    PROVE  tx' \in DB
BY DEF NoteError, DB


StateTypes ==
    /\ db \in DB /\ tx \in DB
    /\ dbLock \in Request \cup {None}
    /\ alock \in [Worker -> Request \cup {None}]
    /\ flock \in Request \cup {None}
    /\ file \in File
    /\ runtime \in Config
    /\ ready \in [Worker -> BOOLEAN]
    /\ crashes \in 0..MaxCrashes

LEMMA TypeParts == TypeInv <=> StateTypes /\ SessionTypes
BY DEF TypeInv, TypeOK, StateTypes, SessionTypes

LEMMA TypeInit == Init => TypeInv
<1> SUFFICES ASSUME Init PROVE TypeInv
  OBVIOUS
<1>1. db \in DB /\ file \in File
  BY DEF Init, DB, File
<1>2. sess \in [Request -> Session] /\ pc \in [Request -> PCs]
  BY NewSessionType DEF Init, AllKinds, PCs
<1>3. BoundLocals
  BY DEF Init, BoundLocals, Bound, NewSession
<1>4. runtime \in Config
  BY <1>1 DEF Init, File
<1> QED
  BY <1>1, <1>2, <1>3, <1>4, DeployAssumption DEF Init, TypeInv, TypeOK

\* The end of a request.
LEMMA CloseStep ==
    ASSUME StateTypes, SessionTypes, NEW p \in Request, Close(p)
    PROVE  /\ SessionTypes'
           /\ dbLock' \in Request \cup {None}
           /\ ready' \in [Worker -> BOOLEAN]
           /\ crashes' \in 0..MaxCrashes
<1>1. NewSession("sync") \in Session /\ Bound("idle", NewSession("sync"))
  BY DEF NewSession, Session, Results, AllKinds, Bound
<1>2. SessionTypes'
  BY <1>1, SessionStep DEF Close, PCs
<1>3. dbLock' \in Request \cup {None} /\ crashes' \in 0..MaxCrashes
  BY DEF Close, StateTypes
<1>4. ready' \in [Worker -> BOOLEAN]
  BY DeployAssumption DEF Close, StateTypes
<1> QED
  BY <1>2, <1>3, <1>4

LEMMA RollbackStep ==
    ASSUME StateTypes, SessionTypes, NEW p \in Request, Rollback(p)
    PROVE  /\ SessionTypes'
           /\ db' \in DB /\ tx' \in DB
           /\ dbLock' \in Request \cup {None}
           /\ ready' \in [Worker -> BOOLEAN]
           /\ crashes' \in 0..MaxCrashes
<1>1. Close(p) /\ db' \in DB /\ tx' \in DB
  BY DEF Rollback, StateTypes
<1> QED
  BY <1>1, CloseStep

LEMMA RecordedType ==
    ASSUME NEW d \in DB, NEW c \in Config
    PROVE  Recorded(d, c) \in DB
BY DEF Recorded, DB

\* A handler whose configuration was loaded.
LEMMA SyncedType ==
    ASSUME SessionTypes, NEW p \in Request
    PROVE  /\ [sess[p] EXCEPT !.result = "synced"] \in Session
           /\ \A l \in {"unlock", "reformat"} : Bound(l, [sess[p] EXCEPT !.result = "synced"])
<1>1. sess[p] \in Session
  BY DEF SessionTypes
<1>2. [sess[p] EXCEPT !.result = "synced"] \in Session
  BY <1>1 DEF Session, Results
<1> QED
  BY <1>1, <1>2 DEF SessionTypes, BoundLocals, Bound, Session

LEMMA TypeStep ==
    ASSUME TypeInv, [Next]_vars
    PROVE  TypeInv'
<1>a. StateTypes /\ SessionTypes /\ TypeOK
  BY TypeParts DEF TypeInv
<1>0. TypeInv' <=> StateTypes' /\ SessionTypes'
  BY DEF TypeInv, TypeOK, StateTypes, SessionTypes
<1> USE DeployAssumption, <1>a, <1>0
<1>1. ASSUME NEW p \in Request, Begin(p) PROVE TypeInv'
  <2>1. ASSUME NEW q \in Site, NEW r \in Row, BeginCreate(p, q, r) PROVE SessionTypes'
    <3> DEFINE x == [NewSession("create") EXCEPT !.site = q, !.row = r]
    <3>1. x \in Session /\ Bound("stage", x)
      BY DEF NewSession, Session, Results, AllKinds, Bound
    <3> QED
      BY <2>1, <3>1, SessionStep DEF BeginCreate, Goto, PCs
  <2>2. ASSUME NEW q \in Site, NEW r \in Row, BeginUpdate(p, q, r) PROVE SessionTypes'
    <3> DEFINE x == [NewSession("update") EXCEPT !.site = q, !.row = r, !.seen = db.rows[q]]
    <3>0. db.rows[q] \in Row
      BY <2>2 DEF BeginUpdate, StateTypes, DB
    <3>1. x \in Session /\ Bound("stage", x)
      BY <3>0 DEF NewSession, Session, Results, AllKinds, Bound
    <3> QED
      BY <2>2, <3>1, SessionStep DEF BeginUpdate, Goto, PCs
  <2>3. ASSUME NEW q \in Site, BeginDelete(p, q) PROVE SessionTypes'
    <3> DEFINE x == [NewSession("delete") EXCEPT !.site = q, !.seen = db.rows[q]]
    <3>1. x \in Session /\ Bound("stage", x)
      BY <2>3 DEF BeginDelete, StateTypes, DB, NewSession, Session, Results, AllKinds, Bound
    <3> QED
      BY <2>3, <3>1, SessionStep DEF BeginDelete, Goto, PCs
  <2>4. ASSUME NEW b \in Baseline, BeginBaseline(p, b) PROVE SessionTypes'
    <3> DEFINE x == [NewSession("baseline") EXCEPT !.base = b]
    <3>1. x \in Session /\ Bound("stage", x)
      BY DEF NewSession, Session, Results, AllKinds, Bound
    <3> QED
      BY <2>4, <3>1, SessionStep DEF BeginBaseline, Goto, PCs
  <2>5. ASSUME NEW k \in {"sync", "onboard"}, BeginGuarded(p, k) PROVE SessionTypes'
    <3>1. NewSession(k) \in Session /\ Bound("guard", NewSession(k))
      BY DEF NewSession, Session, Results, AllKinds, Bound
    <3> QED
      BY <2>5, <3>1, SessionStep DEF BeginGuarded, Goto, PCs
  <2>6. UNCHANGED <<store, guard, caddy, boot>>
    BY <1>1 DEF Begin, BeginCreate, BeginUpdate, BeginDelete, BeginBaseline, BeginGuarded, Arrive
  <2> QED
    BY <1>1, <2>1, <2>2, <2>3, <2>4, <2>5, <2>6 DEF Begin, StateTypes, store, guard, caddy, boot
<1>2. ASSUME NEW p \in Request, BeginReconcile(p) PROVE TypeInv'
  <2>1. StateTypes'
    <3>1. ready' \in [Worker -> BOOLEAN]
      BY <1>2 DEF BeginReconcile, StateTypes
    <3> QED
      BY <1>2, <3>1 DEF BeginReconcile, StateTypes, store, guard, caddy
  <2>2. NewSession("reconcile") \in Session /\ Bound("guard", NewSession("reconcile"))
    BY DEF NewSession, Session, Results, AllKinds, Bound
  <2>3. SessionTypes'
    BY <1>2, <2>2, SessionStep DEF BeginReconcile, Goto, PCs, SessionTypes, BoundLocals
  <2> QED BY <2>1, <2>3
<1>3. ASSUME NEW p \in Request, EnterGuard(p) PROVE TypeInv'
  <2>1. StateTypes'
    BY <1>3 DEF EnterGuard, StateTypes, store, caddy, boot
  <2>2. SessionTypes'
    BY <1>3, GotoStep DEF EnterGuard, SessionTypes, BoundLocals, Bound, PCs
  <2> QED BY <2>1, <2>2
<1>4. ASSUME NEW p \in Request, StageRow(p) PROVE TypeInv'
  <2>1. tx' \in DB
    BY <1>4 DEF StageRow, StateTypes, SessionTypes, BoundLocals, Bound, DB, Row
  <2>2. StateTypes'
    BY <1>4, <2>1 DEF StageRow, StateTypes, guard, caddy, boot
  <2>3. SessionTypes'
    BY <1>4, GotoStep DEF StageRow, SessionTypes, BoundLocals, Bound, PCs
  <2> QED BY <2>2, <2>3
<1>5. ASSUME NEW p \in Request, SaveOnly(p) PROVE TypeInv'
  <2> DEFINE x == [sess[p] EXCEPT !.result = "saved"]
  <2>1. StateTypes'
    BY <1>5 DEF SaveOnly, StateTypes, guard, caddy, boot
  <2>2. x \in Session /\ Bound("answer", x)
    BY DEF SessionTypes, BoundLocals, Bound, Session, Results
  <2>3. SessionTypes'
    BY <1>5, <2>2, SessionStep DEF SaveOnly, Goto, PCs
  <2> QED BY <2>1, <2>3
<1>6. ASSUME NEW p \in Request, StageRefused(p) PROVE TypeInv'
  <2>1. Rollback(p)
    BY <1>6 DEF StageRefused
  <2>2. StateTypes'
    BY <1>6, <2>1, RollbackStep DEF StageRefused, StateTypes, guard, caddy
  <2> QED BY <2>1, <2>2, RollbackStep
<1>7. ASSUME NEW p \in Request, StageDelete(p) PROVE TypeInv'
  <2>1. tx' \in DB
    BY <1>7 DEF StageDelete, StateTypes, SessionTypes, BoundLocals, Bound, DB
  <2>2. StateTypes'
    BY <1>7, <2>1 DEF StageDelete, StateTypes, guard, caddy, boot
  <2>3. SessionTypes'
    BY <1>7, GotoStep DEF StageDelete, SessionTypes, BoundLocals, Bound, PCs
  <2> QED BY <2>2, <2>3
<1>8. ASSUME NEW p \in Request, StageBaseline(p) PROVE TypeInv'
  <2>1. tx' \in DB
    BY <1>8 DEF StageBaseline, StateTypes, SessionTypes, BoundLocals, Bound, DB
  <2>2. StateTypes'
    BY <1>8, <2>1 DEF StageBaseline, StateTypes, guard, caddy, boot
  <2>3. SessionTypes'
    BY <1>8, GotoStep DEF StageBaseline, SessionTypes, BoundLocals, Bound, PCs
  <2> QED BY <2>2, <2>3
<1>9. ASSUME NEW p \in Request, StageBusy(p) PROVE TypeInv'
  <2>1. Rollback(p)
    BY <1>9 DEF StageBusy
  <2>2. StateTypes'
    BY <1>9, <2>1, RollbackStep DEF StageBusy, StateTypes, guard, caddy
  <2> QED BY <2>1, <2>2, RollbackStep
<1>10. ASSUME NEW p \in Request, TryFileLock(p) PROVE TypeInv'
  <2>1. StateTypes'
    BY <1>10 DEF TryFileLock, StateTypes, store, caddy, boot
  <2>2. SessionTypes'
    BY <1>10, GotoStep DEF TryFileLock, SessionTypes, BoundLocals, Bound, PCs
  <2> QED BY <2>1, <2>2
<1>11. ASSUME NEW p \in Request, FileLockTimeout(p) PROVE TypeInv'
  <2>1. Rollback(p)
    BY <1>11 DEF FileLockTimeout
  <2>2. StateTypes'
    BY <1>11, <2>1, RollbackStep DEF FileLockTimeout, StateTypes, caddy
  <2> QED BY <2>1, <2>2, RollbackStep
<1>12. ASSUME NEW p \in Request, InspectUnmanaged(p) PROVE TypeInv'
  <2>1. StateTypes'
    BY <1>12 DEF InspectUnmanaged, StateTypes, store, guard, caddy, boot
  <2>2. SessionTypes'
    BY <1>12, LeaveStep DEF InspectUnmanaged, Results
  <2> QED BY <2>1, <2>2
<1>13. ASSUME NEW p \in Request, InspectAndRender(p) PROVE TypeInv'
  <2> DEFINE x == [sess[p] EXCEPT !.rendered = RenderView(p)]
  <2>1. StateTypes'
    BY <1>13 DEF InspectAndRender, StateTypes, store, guard, caddy, boot
  <2>2. x \in Session /\ Bound("check", x) /\ Bound("flush", x)
    BY RenderViewType DEF SessionTypes, BoundLocals, Bound, Session
  <2>3. SessionTypes'
    BY <1>13, <2>2, SessionStep DEF InspectAndRender, Goto, PCs
  <2> QED BY <2>1, <2>3
<1>14. ASSUME NEW p \in Request, FlushRendered(p) PROVE TypeInv'
  <2>1. tx' \in DB
    <3>1. sess[p].rendered \in Config
      BY <1>14 DEF FlushRendered, SessionTypes, BoundLocals, Bound
    <3>2. View(p) \in DB
      BY ViewType
    <3>3. tx' = [View(p) EXCEPT !.rendered = sess[p].rendered]
      BY <1>14 DEF FlushRendered
    <3> QED BY <3>1, <3>2, <3>3 DEF DB
  <2>2. StateTypes'
    BY <1>14, <2>1 DEF FlushRendered, StateTypes, guard, caddy, boot
  <2>3. SessionTypes'
    BY <1>14, GotoStep DEF FlushRendered, SessionTypes, BoundLocals, Bound, PCs
  <2> QED BY <2>2, <2>3
<1>15. ASSUME NEW p \in Request, FlushBusy(p) PROVE TypeInv'
  <2>1. Rollback(p)
    BY <1>15 DEF FlushBusy
  <2>2. StateTypes'
    BY <1>15, <2>1, RollbackStep DEF FlushBusy, StateTypes, caddy
  <2> QED BY <2>1, <2>2, RollbackStep
<1>16. ASSUME NEW p \in Request, CheckNoChange(p) PROVE TypeInv'
  <2>1. StateTypes'
    BY <1>16 DEF CheckNoChange, StateTypes, store, guard, caddy, boot
  <2>2. SessionTypes'
    BY <1>16, LeaveStep DEF CheckNoChange, Results
  <2> QED BY <2>1, <2>2
<1>17. ASSUME NEW p \in Request, CheckValid(p) PROVE TypeInv'
  <2>1. StateTypes'
    BY <1>17 DEF CheckValid, StateTypes, store, guard, caddy, boot
  <2>2. SessionTypes'
    BY <1>17, GotoStep DEF CheckValid, SessionTypes, BoundLocals, Bound, PCs
  <2> QED BY <2>1, <2>2
<1>18. ASSUME NEW p \in Request, CheckFails(p) PROVE TypeInv'
  <2>1. StateTypes'
    BY <1>18, NoteErrorType DEF CheckFails, StateTypes, guard, caddy, boot
  <2>2. SessionTypes'
    BY <1>18, LeaveStep DEF CheckFails, Results
  <2> QED BY <2>1, <2>2
<1>19. ASSUME NEW p \in Request, WriteFile(p) PROVE TypeInv'
  <2> DEFINE x == [sess[p] EXCEPT !.prev = file]
  <2>1. sess[p] \in Session /\ sess[p].rendered \in Config
    BY <1>19 DEF WriteFile, SessionTypes, BoundLocals, Bound
  <2>2. StateTypes'
    BY <1>19, <2>1 DEF WriteFile, StateTypes, File, store, guard, boot
  <2>3. x \in Session
    BY <2>1 DEF Session, StateTypes
  <2>4. Bound("load", x)
    BY <2>1 DEF SessionTypes, BoundLocals, Bound, Session, StateTypes
  <2>5. SessionTypes'
    BY <1>19, <2>3, <2>4, SessionStep DEF WriteFile, Goto, PCs
  <2> QED BY <2>2, <2>5
<1>20. ASSUME NEW p \in Request, WriteFails(p) PROVE TypeInv'
  <2>1. StateTypes'
    BY <1>20, NoteErrorType DEF WriteFails, StateTypes, guard, caddy, boot
  <2>2. SessionTypes'
    BY <1>20, LeaveStep DEF WriteFails, Results
  <2> QED BY <2>1, <2>2
<1>21. ASSUME NEW p \in Request, Load(p) PROVE TypeInv'
  <2> DEFINE x == [sess[p] EXCEPT !.result = "synced"]
  <2>1. sess[p].rendered \in Config
    BY <1>21 DEF Load, SessionTypes, BoundLocals, Bound
  <2>2. tx' \in DB
    BY <1>21, <2>1, RecordedType DEF Load, StateTypes
  <2>3. StateTypes'
    BY <1>21, <2>1, <2>2 DEF Load, StateTypes, guard, boot
  <2>4. CASE dbLock = p
    <3>1. sess' = [sess EXCEPT ![p] = x]
      BY <1>21, <2>4 DEF Load, SessionTypes, Session
    <3>2. pc' = [pc EXCEPT ![p] = "unlock"] \/ pc' = [pc EXCEPT ![p] = "reformat"]
      BY <1>21, <2>4 DEF Load, AfterLoad, Goto
    <3> QED BY <2>3, <3>1, <3>2, SyncedType, SessionStep DEF PCs
  <2>5. CASE dbLock # p
    <3>1. Goto(p, "record") /\ sess' = sess
      BY <1>21, <2>5 DEF Load
    <3>2. Bound("record", sess[p])
      BY <2>1 DEF SessionTypes, BoundLocals, Bound
    <3> QED BY <2>3, <3>1, <3>2, GotoStep DEF PCs
  <2> QED BY <2>4, <2>5
<1>37. ASSUME NEW p \in Request, RecordSync(p) PROVE TypeInv'
  <2> DEFINE x == [sess[p] EXCEPT !.result = "synced"]
  <2>1. sess[p].rendered \in Config
    BY <1>37 DEF RecordSync, SessionTypes, BoundLocals, Bound
  <2>2. tx' \in DB
    BY <1>37, <2>1, RecordedType DEF RecordSync, StateTypes
  <2>3. StateTypes'
    BY <1>37, <2>2 DEF RecordSync, StateTypes, guard, caddy, boot
  <2>4. sess' = [sess EXCEPT ![p] = x]
    BY <1>37 DEF RecordSync, SessionTypes, Session
  <2>5. pc' = [pc EXCEPT ![p] = "unlock"] \/ pc' = [pc EXCEPT ![p] = "reformat"]
    BY <1>37 DEF RecordSync, AfterLoad, Goto
  <2> QED BY <2>3, <2>4, <2>5, SyncedType, SessionStep DEF PCs
<1>22. ASSUME NEW p \in Request, LoadFails(p) PROVE TypeInv'
  <2>1. StateTypes'
    BY <1>22 DEF LoadFails, StateTypes, SessionTypes, BoundLocals, Bound, store, guard, boot
  <2>2. SessionTypes'
    BY <1>22, GotoStep DEF LoadFails, SessionTypes, BoundLocals, Bound, PCs
  <2> QED BY <2>1, <2>2
<1>23. ASSUME NEW p \in Request, Reformat(p) PROVE TypeInv'
  <2>1. tx' \in DB
    BY <1>23 DEF Reformat, BaselineOf, StateTypes, DB
  <2>2. StateTypes'
    BY <1>23, <2>1 DEF Reformat, StateTypes, guard, caddy, boot
  <2>3. SessionTypes'
    BY <1>23, GotoStep DEF Reformat, SessionTypes, BoundLocals, Bound, PCs
  <2> QED BY <2>2, <2>3
<1>24. ASSUME NEW p \in Request, RestoreFile(p) PROVE TypeInv'
  <2>1. StateTypes'
    BY <1>24, NoteErrorType DEF RestoreFile, StateTypes, SessionTypes, BoundLocals, Bound, guard, boot
  <2>2. SessionTypes'
    BY <1>24, LeaveStep DEF RestoreFile, Results
  <2> QED BY <2>1, <2>2
<1>25. ASSUME NEW p \in Request, OnboardAlready(p) PROVE TypeInv'
  <2>1. StateTypes'
    BY <1>25 DEF OnboardAlready, StateTypes, store, guard, caddy, boot
  <2>2. SessionTypes'
    BY <1>25, LeaveStep DEF OnboardAlready, Results
  <2> QED BY <2>1, <2>2
<1>26. ASSUME NEW p \in Request, OnboardUnreachable(p) PROVE TypeInv'
  <2>1. StateTypes'
    BY <1>26 DEF OnboardUnreachable, StateTypes, store, guard, caddy, boot
  <2>2. SessionTypes'
    BY <1>26, LeaveStep DEF OnboardUnreachable, Results
  <2> QED BY <2>1, <2>2
<1>27. ASSUME NEW p \in Request, OnboardImport(p) PROVE TypeInv'
  <2> DEFINE d == Imported(db)
             x == [sess[p] EXCEPT !.rendered = Render(d)]
  <2>1. d \in DB /\ Render(d) \in Config
    BY ImportedType, RenderType DEF StateTypes
  <2>2. [d EXCEPT !.rendered = Render(d)] \in DB
    BY <2>1 DEF DB
  <2>3. StateTypes'
    BY <1>27, <2>2 DEF OnboardImport, StateTypes, guard, caddy, boot
  <2>4. x \in Session /\ Bound("check", x)
    BY <2>1 DEF SessionTypes, BoundLocals, Bound, Session
  <2>5. SessionTypes'
    BY <1>27, <2>4, SessionStep DEF OnboardImport, Goto, PCs
  <2> QED BY <2>3, <2>5
<1>36. ASSUME NEW p \in Request, OnboardReachable(p) PROVE TypeInv'
  <2>1. StateTypes'
    BY <1>36 DEF OnboardReachable, StateTypes, store, guard, caddy, boot
  <2>2. SessionTypes'
    BY <1>36, GotoStep DEF OnboardReachable, SessionTypes, BoundLocals, Bound, PCs
  <2> QED BY <2>1, <2>2
<1>28. ASSUME NEW p \in Request, LeaveGuard(p) PROVE TypeInv'
  <2>1. StateTypes'
    BY <1>28 DEF LeaveGuard, StateTypes, store, caddy, boot
  <2>2. SessionTypes'
    BY <1>28, GotoStep DEF LeaveGuard, SessionTypes, BoundLocals, Bound, PCs
  <2> QED BY <2>1, <2>2
<1>29. ASSUME NEW p \in Request, FollowUp(p) PROVE TypeInv'
  <2> DEFINE x == [sess[p] EXCEPT !.again = TRUE, !.result = "none", !.rendered = None, !.prev = None]
  <2>1. StateTypes'
    BY <1>29 DEF FollowUp, StateTypes, store, guard, caddy, boot
  <2>a. sess[p] \in Session
    BY DEF SessionTypes
  <2>2. sess[p] \in Session /\ x \in Session
    BY <2>a DEF Session, Results
  <2>3. Bound("guard", x)
    BY <2>2 DEF SessionTypes, BoundLocals, Bound, Session
  <2>4. sess' = [sess EXCEPT ![p] = x]
    BY <1>29 DEF FollowUp, SessionTypes, Session
  <2>5. SessionTypes'
    BY <1>29, <2>2, <2>3, <2>4, SessionStep DEF FollowUp, Goto, PCs
  <2> QED BY <2>1, <2>5
<1>30. ASSUME NEW p \in Request, Commit(p) PROVE TypeInv'
  <2>1. View(p) \in DB
    BY ViewType
  <2>2. StateTypes'
    BY <1>30, <2>1, CloseStep DEF Commit, StateTypes, guard, caddy
  <2> QED BY <1>30, <2>2, CloseStep DEF Commit
<1>31. ASSUME NEW p \in Request, CommitFails(p) PROVE TypeInv'
  <2>1. Rollback(p)
    BY <1>31 DEF CommitFails
  <2>2. StateTypes'
    BY <1>31, <2>1, RollbackStep DEF CommitFails, StateTypes, guard, caddy
  <2> QED BY <2>1, <2>2, RollbackStep
<1>32. ASSUME NEW p \in Request, AnswerFailure(p) PROVE TypeInv'
  <2>1. Rollback(p)
    BY <1>32 DEF AnswerFailure
  <2>2. StateTypes'
    BY <1>32, <2>1, RollbackStep DEF AnswerFailure, StateTypes, guard, caddy
  <2> QED BY <2>1, <2>2, RollbackStep
<1>33. CASE Crash
  BY <1>33, NewSessionType DEF Crash, TypeInv, TypeOK, BoundLocals, Bound, NewSession, AllKinds, PCs, caddy
<1>34. CASE CaddyRestart
  <2>1. StateTypes'
    BY <1>34 DEF CaddyRestart, StateTypes, File, store, guard, boot
  <2>2. SessionTypes'
    BY <1>34 DEF CaddyRestart, SessionTypes, BoundLocals
  <2> QED BY <2>1, <2>2
<1>35. CASE UNCHANGED vars
  BY <1>35 DEF vars, TypeInv, TypeOK, BoundLocals
<1> QED
  BY <1>1, <1>2, <1>3, <1>4, <1>5, <1>6, <1>7, <1>8, <1>9, <1>10, <1>11, <1>12, <1>13, <1>14, <1>15, <1>16, <1>17, <1>18, <1>19, <1>20, <1>21, <1>22, <1>23, <1>24, <1>25, <1>26, <1>27, <1>28, <1>29, <1>30, <1>31, <1>32, <1>33, <1>34, <1>35, <1>36, <1>37
     DEF Next, Step, SyncStep
\* Type correctness of every behaviour.
THEOREM TypeCorrect == Spec => []TypeOK
<1>1. Init => TypeInv
  BY TypeInit
<1>2. TypeInv /\ [Next]_vars => TypeInv'
  BY TypeStep
<1>3. TypeInv => TypeOK
  BY DEF TypeInv
<1> QED
  BY <1>1, <1>2, <1>3, PTL DEF Spec

-----------------------------------------------------------------------------
(***************************************************************************)
(* Mutual exclusion, as an invariant.                                      *)
(***************************************************************************)
SafeInv == TypeInv /\ GuardHeld

LEMMA SafeStep == SafeInv /\ [Next]_vars => SafeInv'
BY TypeStep, GuardHeldStep DEF SafeInv, TypeInv, TypeOK, LockTypes

LEMMA SafeInvariant == Spec => []SafeInv
<1>1. Init => SafeInv
  BY TypeInit, GuardHeldInit DEF SafeInv
<1> QED
  BY <1>1, SafeStep, PTL DEF Spec

\* _acquire_operation_guard admits one operation at a time, however many
\* workers and requests there are.
THEOREM GuardIsExclusive == Spec => []GuardExclusion
<1>1. SafeInv => GuardExclusion
  BY DEF SafeInv, GuardHeld, GuardExclusion
<1> QED
  BY <1>1, SafeInvariant, PTL

-----------------------------------------------------------------------------
(***************************************************************************)
(* Most steps touch neither Caddy, nor the Caddyfile, nor what a handler   *)
(* is about to write, load or restore.                                     *)
(***************************************************************************)
Quiet(p) ==
    /\ UNCHANGED caddy
    /\ pc[p] \notin {"load", "restore"}
    /\ \E l \in PCs \ {"write", "load", "restore"} : pc' = [pc EXCEPT ![p] = l]
    /\ \A q \in Request \ {p} : sess'[q] = sess[q]

Noisy(p) == CheckValid(p) \/ WriteFile(p) \/ Load(p) \/ LoadFails(p) \/ RestoreFile(p)

LEMMA QuietOrNoisy ==
    ASSUME TypeInv, NEW p \in Request, Begin(p) \/ BeginReconcile(p) \/ EnterGuard(p) \/ Step(p)
    PROVE  Quiet(p) \/ Noisy(p)
<1> USE DEF TypeInv, TypeOK, PCs
<1>1. CASE Begin(p)
  BY <1>1 DEF Begin, BeginCreate, BeginUpdate, BeginDelete, BeginBaseline, BeginGuarded, Arrive,
              Goto, Quiet
<1>2. CASE BeginReconcile(p) \/ EnterGuard(p)
  BY <1>2 DEF BeginReconcile, EnterGuard, Goto, Quiet
<1>3. CASE StageRow(p) \/ SaveOnly(p) \/ StageDelete(p) \/ StageBaseline(p)
  BY <1>3 DEF StageRow, SaveOnly, StageDelete, StageBaseline, Goto, Quiet
<1>4. CASE StageRefused(p) \/ StageBusy(p) \/ FileLockTimeout(p) \/ FlushBusy(p)
           \/ CommitFails(p) \/ AnswerFailure(p) \/ Commit(p)
  BY <1>4 DEF StageRefused, StageBusy, FileLockTimeout, FlushBusy, CommitFails, AnswerFailure,
              Commit, Rollback, Close, Quiet
<1>5. CASE TryFileLock(p) \/ LeaveGuard(p) \/ FollowUp(p)
  BY <1>5 DEF TryFileLock, LeaveGuard, FollowUp, Goto, Quiet
<1>6. CASE InspectUnmanaged(p) \/ InspectAndRender(p) \/ FlushRendered(p)
  BY <1>6 DEF InspectUnmanaged, InspectAndRender, FlushRendered, Leave, Goto, Quiet
<1>7. CASE CheckNoChange(p) \/ CheckFails(p) \/ WriteFails(p)
  BY <1>7 DEF CheckNoChange, CheckFails, WriteFails, Leave, Goto, Quiet
<1>8. CASE OnboardAlready(p) \/ OnboardUnreachable(p) \/ OnboardReachable(p) \/ OnboardImport(p)
  BY <1>8 DEF OnboardAlready, OnboardUnreachable, OnboardReachable, OnboardImport, Leave, Goto, Quiet
<1>9. CASE RecordSync(p) \/ Reformat(p)
  BY <1>9 DEF RecordSync, AfterLoad, Reformat, Goto, Quiet
<1> QED
  BY <1>1, <1>2, <1>3, <1>4, <1>5, <1>6, <1>7, <1>8, <1>9 DEF Step, SyncStep, Noisy

-----------------------------------------------------------------------------
(***************************************************************************)
(* Nothing rejected is written or run.                                     *)
(***************************************************************************)
LEMMA ValidInit == Init => ValidLocals
BY DEF Init, ValidLocals, OnlyValidRuns

LEMMA ValidStep ==
    ASSUME TypeInv, ValidLocals, [Next]_vars
    PROVE  ValidLocals'
<1> USE DEF TypeInv, TypeOK, ValidLocals, OnlyValidRuns, Valid
<1>1. ASSUME NEW p \in Request, Quiet(p) PROVE ValidLocals'
  BY <1>1 DEF Quiet, caddy
<1>2. ASSUME NEW p \in Request, CheckValid(p) PROVE ValidLocals'
  BY <1>2 DEF CheckValid, Goto, caddy
<1>3. ASSUME NEW p \in Request, WriteFile(p) PROVE ValidLocals'
  BY <1>3 DEF WriteFile, Goto, Session
<1>4. ASSUME NEW p \in Request, Load(p) PROVE ValidLocals'
  <2>1. /\ runtime' = sess[p].rendered /\ file' = file
        /\ \E l \in PCs \ {"write", "load", "restore"} : pc' = [pc EXCEPT ![p] = l]
        /\ \A q \in Request \ {p} : sess'[q] = sess[q]
    BY <1>4 DEF Load, AfterLoad, Goto, PCs
  <2> QED BY <1>4, <2>1 DEF Load
<1>5. ASSUME NEW p \in Request, LoadFails(p) PROVE ValidLocals'
  BY <1>5 DEF LoadFails, Goto
<1>6. ASSUME NEW p \in Request, RestoreFile(p) PROVE ValidLocals'
  BY <1>6 DEF RestoreFile, Leave, Goto
<1>7. CASE Crash
  BY <1>7 DEF Crash, caddy
<1>8. CASE CaddyRestart
  BY <1>8 DEF CaddyRestart
<1>9. CASE UNCHANGED vars
  BY <1>9 DEF vars
<1> QED
  BY <1>1, <1>2, <1>3, <1>4, <1>5, <1>6, <1>7, <1>8, <1>9, QuietOrNoisy DEF Next, Noisy

\* Whatever is refused, fails, is lost or restarts, neither the Caddyfile nor
\* Caddy holds a configuration that the adapter rejects.
THEOREM RejectedNeverRuns == Spec => []OnlyValidRuns
<1>1. Init => TypeInv /\ ValidLocals
  BY TypeInit, ValidInit
<1>2. TypeInv /\ ValidLocals /\ [Next]_vars => (TypeInv /\ ValidLocals)'
  BY TypeStep, ValidStep
<1>3. ValidLocals => OnlyValidRuns
  BY DEF ValidLocals
<1> QED
  BY <1>1, <1>2, <1>3, PTL DEF Spec

-----------------------------------------------------------------------------
(***************************************************************************)
(* The Caddyfile is written before Caddy loads.                            *)
(***************************************************************************)
PersistInv == SafeInv /\ Persisted

LEMMA PersistInit == Init => PersistInv
BY TypeInit, GuardHeldInit DEF SafeInv, PersistInv, Persisted, Init

LEMMA PersistStep ==
    ASSUME PersistInv, [Next]_vars
    PROVE  PersistInv'
<1> USE DEF PersistInv, SafeInv, TypeInv, TypeOK, Persisted
<1>1. ASSUME NEW p \in Request, Quiet(p) PROVE Persisted'
  BY <1>1 DEF Quiet, caddy
<1>2. ASSUME NEW p \in Request, CheckValid(p) PROVE Persisted'
  BY <1>2 DEF CheckValid, Goto, caddy
\* p holds the guard, so that nobody else is about to load
<1>3. ASSUME NEW p \in Request, WriteFile(p) PROVE Persisted'
  BY <1>3 DEF WriteFile, Goto, Session, GuardHeld, Guarded
<1>4. ASSUME NEW p \in Request, Load(p) PROVE Persisted'
  BY <1>4 DEF Load, AfterLoad, Goto
<1>5. ASSUME NEW p \in Request, LoadFails(p) PROVE Persisted'
  BY <1>5 DEF LoadFails, Goto
<1>6. ASSUME NEW p \in Request, RestoreFile(p) PROVE Persisted'
  BY <1>6 DEF RestoreFile, Leave, Goto, GuardHeld, Guarded
<1>7. ASSUME Crash PROVE Persisted'
  BY <1>7 DEF Crash
<1>8. ASSUME CaddyRestart PROVE Persisted'
  BY <1>8 DEF CaddyRestart
<1>9. ASSUME UNCHANGED vars PROVE Persisted'
  BY <1>9 DEF vars
<1>10. SafeInv'
  BY SafeStep
<1> QED
  BY <1>1, <1>2, <1>3, <1>4, <1>5, <1>6, <1>7, <1>8, <1>9, <1>10, QuietOrNoisy DEF Next, Noisy

LEMMA PersistInvariant == Spec => []PersistInv
BY PersistInit, PersistStep, PTL DEF Spec

\* Every change of what Caddy runs is a change to what the Caddyfile holds.
THEOREM LoadedIsPersisted == Spec => PersistBeforeLoad
<1>1. PersistInv /\ [Next]_vars => [runtime' # runtime => file.cfg = runtime']_vars
  <2> SUFFICES ASSUME PersistInv, [Next]_vars, runtime' # runtime
               PROVE  file.cfg = runtime'
    OBVIOUS
  <2> USE DEF PersistInv, SafeInv, TypeInv, Persisted
  <2>1. ASSUME NEW p \in Request, Quiet(p) PROVE FALSE
    BY <2>1 DEF Quiet, caddy
  <2>2. ASSUME NEW p \in Request, Noisy(p) PROVE file.cfg = runtime'
    BY <2>2 DEF Noisy, CheckValid, WriteFile, Load, LoadFails, RestoreFile, caddy
  <2> QED
    BY <2>1, <2>2, QuietOrNoisy DEF Next, Crash, CaddyRestart, caddy, vars
<1> QED
  BY <1>1, PersistInvariant, PTL DEF Spec, PersistBeforeLoad
-----------------------------------------------------------------------------
(***************************************************************************)
(* Outside the load the Caddyfile and Caddy agree, when no answer is lost, *)
(* no restore fails and nobody restarts meanwhile.                         *)
(***************************************************************************)
CleanRun ==
    /\ Faults \cap {"lost", "restore", "caddy_restart"} = {}
    /\ MaxCrashes = 0

\* While a load is under way the saved content is what Caddy runs.
Agreement ==
    /\ \A p \in Request : pc[p] \in {"load", "restore"} => sess[p].prev.cfg = runtime
    /\ (\A p \in Request : pc[p] \notin {"load", "restore"}) => file.cfg = runtime

AgreeInv == PersistInv /\ Agreement

LEMMA AgreeInit == Init => AgreeInv
BY PersistInit DEF AgreeInv, Agreement, Init

LEMMA AgreeStep ==
    ASSUME CleanRun, AgreeInv, [Next]_vars
    PROVE  AgreeInv'
<1> USE DEF AgreeInv, PersistInv, SafeInv, TypeInv, TypeOK, Agreement, CleanRun
<1>1. ASSUME NEW p \in Request, Quiet(p) PROVE Agreement'
  BY <1>1 DEF Quiet, caddy
<1>2. ASSUME NEW p \in Request, CheckValid(p) PROVE Agreement'
  BY <1>2 DEF CheckValid, Goto, caddy
<1>3. ASSUME NEW p \in Request, WriteFile(p) PROVE Agreement'
  <2>1. \A q \in Request \ {p} : pc[q] \notin {"load", "restore"}
    BY <1>3 DEF WriteFile, GuardHeld, Guarded
  <2> QED BY <1>3, <2>1 DEF WriteFile, Goto, Session
<1>4. ASSUME NEW p \in Request, Load(p) PROVE Agreement'
  <2>1. \A q \in Request \ {p} : pc[q] \notin {"load", "restore"}
    BY <1>4 DEF Load, GuardHeld, Guarded
  <2>2. file' = file /\ runtime' = file.cfg /\ pc'[p] \notin {"load", "restore"}
    BY <1>4 DEF Load, AfterLoad, Goto, Persisted
  <2>3. \A q \in Request \ {p} : pc'[q] = pc[q]
    BY <1>4 DEF Load, AfterLoad, Goto
  <2> QED BY <2>1, <2>2, <2>3
<1>5. ASSUME NEW p \in Request, LoadFails(p) PROVE Agreement'
  BY <1>5 DEF LoadFails, Goto
<1>6. ASSUME NEW p \in Request, RestoreFile(p) PROVE Agreement'
  <2>1. \A q \in Request \ {p} : pc[q] \notin {"load", "restore"}
    BY <1>6 DEF RestoreFile, GuardHeld, Guarded
  <2> QED BY <1>6, <2>1 DEF RestoreFile, Leave, Goto
<1>7. ~Crash /\ ~CaddyRestart
  BY DEF Crash, CaddyRestart
<1>8. ASSUME UNCHANGED vars PROVE Agreement'
  BY <1>8 DEF vars
<1>9. PersistInv'
  BY PersistStep
<1> QED
  BY <1>1, <1>2, <1>3, <1>4, <1>5, <1>6, <1>7, <1>8, <1>9, QuietOrNoisy DEF Next, Noisy

LEMMA AgreeInvariant == ASSUME CleanRun PROVE Spec => []AgreeInv
<1>1. AgreeInv /\ [Next]_vars => AgreeInv'
  BY AgreeStep
<1> QED
  BY <1>1, AgreeInit, PTL DEF Spec

\* Whenever nobody holds the guard the Caddyfile is what Caddy runs: every
\* failure of a validation, a write or a load has been undone.
THEOREM FailuresAreUndone == ASSUME CleanRun PROVE Spec => []FileIsRunning
<1>1. AgreeInv => FileIsRunning
  BY DeployAssumption DEF AgreeInv, PersistInv, SafeInv, GuardHeld, Guarded, Agreement, FileIsRunning
<1> QED
  BY <1>1, AgreeInvariant, PTL

-----------------------------------------------------------------------------
(***************************************************************************)
(* "no_change" is only answered when Caddy runs what was rendered.         *)
(***************************************************************************)
Told ==
    \A p \in Request :
        /\ pc[p] = "reformat" => sess[p].result = "synced"
        /\ pc[p] = "unlock" /\ sess[p].result = "no_change" => file.cfg = sess[p].rendered

\* The steps that cannot make p answer "no_change".
LEMMA TellingStep ==
    ASSUME TypeInv, Told, NEW p \in Request,
           Begin(p) \/ BeginReconcile(p) \/ EnterGuard(p) \/ Step(p)
    PROVE  /\ \A q \in Request \ {p} : pc'[q] = pc[q] /\ sess'[q] = sess[q]
           /\ pc'[p] = "reformat" => sess'[p].result = "synced"
           /\ pc'[p] = "unlock" /\ sess'[p].result = "no_change" => CheckNoChange(p)
<1> USE DEF TypeInv, TypeOK, PCs, Session
<1>1. CASE Begin(p)
  BY <1>1 DEF Begin, BeginCreate, BeginUpdate, BeginDelete, BeginBaseline, BeginGuarded, Arrive, Goto
<1>2. CASE BeginReconcile(p) \/ EnterGuard(p)
  BY <1>2 DEF BeginReconcile, EnterGuard, Goto
<1>3. CASE StageRow(p) \/ SaveOnly(p) \/ StageDelete(p) \/ StageBaseline(p)
  BY <1>3 DEF StageRow, SaveOnly, StageDelete, StageBaseline, Goto
<1>4. CASE StageRefused(p) \/ StageBusy(p) \/ FileLockTimeout(p) \/ FlushBusy(p)
           \/ CommitFails(p) \/ AnswerFailure(p) \/ Commit(p)
  BY <1>4 DEF StageRefused, StageBusy, FileLockTimeout, FlushBusy, CommitFails, AnswerFailure,
              Commit, Rollback, Close
<1>5. CASE TryFileLock(p) \/ LeaveGuard(p) \/ FollowUp(p)
  BY <1>5 DEF TryFileLock, LeaveGuard, FollowUp, Goto
<1>6. CASE InspectUnmanaged(p) \/ InspectAndRender(p) \/ FlushRendered(p)
  BY <1>6 DEF InspectUnmanaged, InspectAndRender, FlushRendered, Leave, Goto
<1>7. CASE CheckNoChange(p)
  BY <1>7 DEF CheckNoChange, Leave, Goto
<1>8. CASE CheckFails(p) \/ CheckValid(p)
  BY <1>8 DEF CheckFails, CheckValid, Leave, Goto
<1>9. CASE WriteFile(p) \/ WriteFails(p)
  BY <1>9 DEF WriteFile, WriteFails, Leave, Goto
<1>10. CASE Load(p)
  BY <1>10 DEF Load, AfterLoad, Goto
<1>11. CASE LoadFails(p) \/ RestoreFile(p)
  BY <1>11 DEF LoadFails, RestoreFile, Leave, Goto
<1>12. CASE RecordSync(p) \/ Reformat(p)
  BY <1>12 DEF RecordSync, AfterLoad, Reformat, Goto, Told
<1>13. CASE OnboardAlready(p) \/ OnboardUnreachable(p) \/ OnboardReachable(p) \/ OnboardImport(p)
  BY <1>13 DEF OnboardAlready, OnboardUnreachable, OnboardReachable, OnboardImport, Leave, Goto
<1> QED
  BY <1>1, <1>2, <1>3, <1>4, <1>5, <1>6, <1>7, <1>8, <1>9, <1>10, <1>11, <1>12, <1>13
     DEF Step, SyncStep
LEMMA ToldStep ==
    ASSUME SafeInv, Told, [Next]_vars
    PROVE  Told'
<1> USE DEF SafeInv, TypeInv, TypeOK
<1>1. ASSUME NEW p \in Request, Begin(p) \/ BeginReconcile(p) \/ EnterGuard(p) \/ Step(p)
      PROVE  Told'
  <2>1. /\ \A q \in Request \ {p} : pc'[q] = pc[q] /\ sess'[q] = sess[q]
        /\ pc'[p] = "reformat" => sess'[p].result = "synced"
        /\ pc'[p] = "unlock" /\ sess'[p].result = "no_change" => CheckNoChange(p)
    BY <1>1, TellingStep
  <2>2. CheckNoChange(p) => file'.cfg = sess'[p].rendered
    BY DEF CheckNoChange, Unchanged, Leave, caddy, Session
  \* the file changes only in the hands of the holder of the guard
  <2>3. ASSUME NEW q \in Request \ {p}, pc[q] = "unlock" PROVE file' = file
    <3>1. pc[p] \notin {"write", "restore"}
      BY <2>3 DEF GuardHeld, Guarded
    <3> QED
      BY <1>1, <3>1, QuietOrNoisy
         DEF Quiet, Noisy, CheckValid, WriteFile, Load, LoadFails, RestoreFile, caddy
  <2> QED
    BY <2>1, <2>2, <2>3 DEF Told
<1>2. ASSUME Crash PROVE Told'
  BY <1>2 DEF Crash, Told
<1>3. ASSUME CaddyRestart PROVE Told'
  BY <1>3 DEF CaddyRestart, Told
<1>4. ASSUME UNCHANGED vars PROVE Told'
  BY <1>4 DEF vars, Told
<1> QED
  BY <1>1, <1>2, <1>3, <1>4 DEF Next

\* A caller told "no_change" can rely on Caddy running what it rendered.
THEOREM NoChangeIsTrue == ASSUME CleanRun PROVE Spec => []NoChangeTruthful
<1>1. Init => Told
  BY DEF Init, Told
<1>2. SafeInv /\ Told /\ [Next]_vars => Told'
  BY ToldStep
<1>3. AgreeInv /\ Told => NoChangeTruthful
  \* whoever is past its answer holds the guard, so that nobody is loading
  <2> SUFFICES ASSUME AgreeInv, Told, NEW p \in Request,
                      pc[p] = "unlock", sess[p].result = "no_change"
               PROVE  runtime = sess[p].rendered
    BY DEF NoChangeTruthful
  <2>1. \A q \in Request : pc[q] \notin {"load", "restore"}
    BY DEF AgreeInv, PersistInv, SafeInv, GuardHeld, Guarded
  <2> QED
    BY <2>1 DEF AgreeInv, Agreement, Told
<1> QED
  BY <1>1, <1>2, <1>3, SafeInvariant, AgreeInvariant, PTL DEF Spec
-----------------------------------------------------------------------------
(***************************************************************************)
(* The takeover: once a managed Caddyfile can no longer be put back to the *)
(* operator's own, the database may hold rows; before that it holds none,  *)
(* so that what onboarding imports is what the operator's file serves.     *)
(***************************************************************************)
\* The Caddyfile is managed and nobody can restore an unmanaged one.
Settled ==
    /\ file.managed
    /\ \A p \in Request : pc[p] \in {"load", "restore"} => sess[p].prev.managed

\* A handler at l with the locals x that has seen the site of an installation
\* in use, or has deployed.
InUse(l, x) ==
    \/ l # "idle" /\ x.kind = "update"
    \/ x.result \in {"saved", "synced", "no_change"}
    \/ x.again

\* c serves what the operator's configuration o serves.
Serves(c, o) ==
    /\ c.base = Injected[o.base] \/ (o.base = Blank /\ Importable(o) = {})
    /\ \A s \in Site : o.site[s] \notin Skipped => c.site[s] = o.site[s]

\* What a handler at l with the locals x knows of the Caddyfile f.
Knows(l, x, f) ==
    /\ l = "flush" => x.kind # "onboard" /\ f.managed
    /\ l \in {"check", "write"} =>
           IF x.kind = "onboard" THEN ~f.managed /\ Serves(x.rendered, f.cfg) ELSE f.managed
    /\ l \in {"load", "record", "restore"} => f.managed
    /\ l = "import" => x.kind = "onboard" /\ ~f.managed

TakeoverInv ==
    /\ ~Settled => \A s \in Site : db.rows[s] = None
    /\ \A p \in Request : InUse(pc[p], sess[p]) => Settled
    /\ \A p \in Request : Knows(pc[p], sess[p], file)

LEMMA TakeoverInit == Init => TakeoverInv
BY DEF Init, TakeoverInv, Settled, InUse, Knows, NewSession, InitFresh, InitManaged

\* What onboarding imports into an empty database serves the same sites.
LEMMA ImportServes ==
    ASSUME TypeInv, \A s \in Site : db.rows[s] = None
    PROVE  Serves(Render(Imported(db)), file.cfg)
<1>1. db \in DB /\ file.cfg.site \in [Site -> Directive \cup {None}]
  BY DEF TypeInv, TypeOK, File, Config
<1>2. \/ BaselineOf(Imported(db)) = file.cfg.base
      \/ file.cfg.base = Blank /\ Importable(file.cfg) = {}
  <2> DEFINE new == {s \in Importable(file.cfg) : db.rows[s] = None}
  <2>1. Imported(db).base = ImportedBase(new) /\ Imported(db).snap = file.cfg.base
    BY <1>1 DEF Imported, DB
  <2>2. new = Importable(file.cfg)
    BY DEF Importable
  <2> HIDE DEF new
  <2> QED BY <2>1, <2>2 DEF BaselineOf, ImportedBase
<1>3. ASSUME NEW s \in Site, file.cfg.site[s] \notin Skipped
      PROVE  SiteBlock(Imported(db).rows[s]) = file.cfg.site[s]
  <2>1. Imported(db).rows[s] = IF file.cfg.site[s] # None
                               THEN [dir |-> file.cfg.site[s], on |-> TRUE] ELSE None
    BY <1>1, <1>3 DEF Imported, Importable, DB
  <2>2. CASE file.cfg.site[s] # None
    <3> DEFINE r == [dir |-> file.cfg.site[s], on |-> TRUE]
    <3>1. r \in Row
      BY <1>1, <1>3, <2>2 DEF Row
    <3>2. r # None /\ r.on /\ r.dir = file.cfg.site[s]
      BY <3>1, DeployAssumption
    <3>3. Imported(db).rows[s] = r
      BY <2>1, <2>2
    <3> HIDE DEF r
    <3> QED BY <3>2, <3>3 DEF SiteBlock
  <2> QED BY <2>1, <2>2 DEF SiteBlock
<1> QED BY <1>2, <1>3 DEF Serves, Render

\* The committed database changes in a commit only.
LEMMA OnlyCommits ==
    ASSUME [Next]_vars, db' # db
    PROVE  \E p \in Request : Commit(p)
<1>1. ASSUME NEW p \in Request, Begin(p) \/ BeginReconcile(p) \/ EnterGuard(p) PROVE FALSE
  BY <1>1 DEF Begin, BeginCreate, BeginUpdate, BeginDelete, BeginBaseline, BeginGuarded, Arrive,
              BeginReconcile, EnterGuard, store
<1>2. ASSUME NEW p \in Request,
             \/ StageRow(p) \/ SaveOnly(p) \/ StageRefused(p) \/ StageDelete(p) \/ StageBaseline(p)
             \/ StageBusy(p) \/ TryFileLock(p) \/ FileLockTimeout(p)
      PROVE  FALSE
  BY <1>2 DEF StageRow, SaveOnly, StageRefused, StageDelete, StageBaseline, StageBusy, TryFileLock,
              FileLockTimeout, Rollback, store
<1>3. ASSUME NEW p \in Request, SyncStep(p) PROVE FALSE
  BY <1>3 DEF SyncStep, InspectUnmanaged, InspectAndRender, FlushRendered, FlushBusy, CheckNoChange,
              CheckValid, CheckFails, WriteFile, WriteFails, Load, LoadFails, RecordSync, Reformat, RestoreFile,
              OnboardAlready, OnboardUnreachable, OnboardReachable, OnboardImport, Rollback, store
<1>4. ASSUME NEW p \in Request,
             LeaveGuard(p) \/ FollowUp(p) \/ CommitFails(p) \/ AnswerFailure(p)
      PROVE  FALSE
  BY <1>4 DEF LeaveGuard, FollowUp, CommitFails, AnswerFailure, Rollback, store
<1> QED
  BY <1>1, <1>2, <1>3, <1>4 DEF Next, Step, Crash, CaddyRestart, vars, store

\* Nobody puts back the operator's Caddyfile once it is settled that it is gone.
LEMMA SettledStays ==
    ASSUME SafeInv, Settled, [Next]_vars
    PROVE  Settled'
<1> USE DEF SafeInv, TypeInv, TypeOK, Settled
<1>1. ASSUME NEW p \in Request, Quiet(p) PROVE Settled'
  BY <1>1 DEF Quiet, caddy
<1>2. ASSUME NEW p \in Request, CheckValid(p) PROVE Settled'
  BY <1>2 DEF CheckValid, Goto, caddy
<1>3. ASSUME NEW p \in Request, WriteFile(p) PROVE Settled'
  BY <1>3 DEF WriteFile, Goto, Session
<1>4. ASSUME NEW p \in Request, Load(p) PROVE Settled'
  BY <1>4 DEF Load, AfterLoad, Goto
<1>5. ASSUME NEW p \in Request, LoadFails(p) PROVE Settled'
  BY <1>5 DEF LoadFails, Goto
<1>6. ASSUME NEW p \in Request, RestoreFile(p) PROVE Settled'
  BY <1>6 DEF RestoreFile, Leave, Goto
<1>7. CASE Crash
  BY <1>7 DEF Crash, caddy
<1>8. CASE CaddyRestart
  BY <1>8 DEF CaddyRestart
<1>9. CASE UNCHANGED vars
  BY <1>9 DEF vars
<1> QED
  BY <1>1, <1>2, <1>3, <1>4, <1>5, <1>6, <1>7, <1>8, <1>9, QuietOrNoisy DEF Next, Noisy

\* A step of request p keeps what p knows, and makes the installation one in use
\* only where it is settled.
LEMMA TakeoverOwnStep ==
    ASSUME SafeInv, TakeoverInv, NEW p \in Request,
           Begin(p) \/ BeginReconcile(p) \/ EnterGuard(p) \/ Step(p)
    PROVE  /\ Knows(pc'[p], sess'[p], file')
           /\ InUse(pc'[p], sess'[p]) => Settled \/ Settled'
<1> USE DEF SafeInv, TypeInv, TypeOK, PCs, Session, Knows, InUse, TakeoverInv
<1>1. CASE Begin(p)
  <2>1. CASE \E s \in Site, r \in Row : BeginUpdate(p, s, r)
    BY <1>1, <2>1 DEF BeginUpdate, Goto, NewSession
  <2>2. CASE \E s \in Site, r \in Row : BeginCreate(p, s, r)
    BY <1>1, <2>2 DEF BeginCreate, Goto, NewSession
  <2>3. CASE \E s \in Site : BeginDelete(p, s)
    BY <1>1, <2>3 DEF BeginDelete, Goto, NewSession
  <2>5. CASE \E b \in Baseline : BeginBaseline(p, b)
    BY <1>1, <2>5 DEF BeginBaseline, Goto, NewSession
  <2>4. CASE \E k \in {"sync", "onboard"} : BeginGuarded(p, k)
    BY <1>1, <2>4 DEF BeginGuarded, Goto, NewSession
  <2> QED BY <1>1, <2>1, <2>2, <2>3, <2>4, <2>5 DEF Begin
<1>2. CASE BeginReconcile(p) \/ EnterGuard(p)
  BY <1>2 DEF BeginReconcile, EnterGuard, Goto, NewSession
<1>3. CASE StageRow(p) \/ SaveOnly(p) \/ StageDelete(p) \/ StageBaseline(p)
  BY <1>3 DEF StageRow, SaveOnly, StageDelete, StageBaseline, Goto
<1>4. CASE StageRefused(p) \/ StageBusy(p) \/ FileLockTimeout(p) \/ FlushBusy(p)
           \/ CommitFails(p) \/ AnswerFailure(p) \/ Commit(p)
  BY <1>4 DEF StageRefused, StageBusy, FileLockTimeout, FlushBusy, CommitFails, AnswerFailure,
              Commit, Rollback, Close, NewSession
<1>5. CASE TryFileLock(p) \/ LeaveGuard(p) \/ FollowUp(p)
  BY <1>5 DEF TryFileLock, LeaveGuard, FollowUp, Goto
<1>6. CASE InspectUnmanaged(p) \/ InspectAndRender(p) \/ FlushRendered(p)
  BY <1>6 DEF InspectUnmanaged, InspectAndRender, FlushRendered, Leave, Goto, caddy
\* p holds the guard, so that nobody else can restore
<1>7. CASE CheckNoChange(p)
  <2>1. \A q \in Request : pc[q] \notin {"load", "restore"}
    BY <1>7 DEF CheckNoChange, GuardHeld, Guarded
  <2>2. Settled
    BY <1>7, <2>1 DEF CheckNoChange, Unchanged, Settled
  <2> QED BY <1>7, <2>2 DEF CheckNoChange, Leave, Goto
<1>8. CASE CheckFails(p) \/ CheckValid(p)
  BY <1>8 DEF CheckFails, CheckValid, Leave, Goto, caddy
<1>9. CASE WriteFile(p) \/ WriteFails(p)
  BY <1>9 DEF WriteFile, WriteFails, Leave, Goto
<1>10. CASE Load(p)
  <2>1. \A q \in Request \ {p} : pc[q] \notin {"load", "restore"}
    BY <1>10 DEF Load, GuardHeld, Guarded
  <2>2. file.managed /\ file' = file
    BY <1>10 DEF Load
  <2>3. pc'[p] \in {"record", "unlock", "reformat"} /\ \A q \in Request \ {p} : pc'[q] = pc[q]
    BY <1>10 DEF Load, AfterLoad, Goto
  <2>4. Settled'
    BY <2>1, <2>2, <2>3 DEF Settled
  <2> QED BY <2>2, <2>3, <2>4
<1>15. CASE RecordSync(p)
  <2>1. \A q \in Request : pc[q] \notin {"load", "restore"}
    BY <1>15 DEF RecordSync, GuardHeld, Guarded
  <2>2. Settled
    BY <1>15, <2>1 DEF RecordSync, Settled
  <2>3. pc'[p] \in {"unlock", "reformat"}
    BY <1>15 DEF RecordSync, AfterLoad, Goto
  <2> QED BY <2>2, <2>3
<1>11. CASE LoadFails(p) \/ RestoreFile(p)
  BY <1>11 DEF LoadFails, RestoreFile, Leave, Goto
<1>12. CASE Reformat(p)
  BY <1>12 DEF Reformat, Goto
<1>13. CASE OnboardAlready(p) \/ OnboardUnreachable(p) \/ OnboardReachable(p)
  BY <1>13 DEF OnboardAlready, OnboardUnreachable, OnboardReachable, Leave, Goto, caddy
<1>14. CASE OnboardImport(p)
  <2>1. sess[p].kind = "onboard" /\ ~file.managed
    BY <1>14 DEF OnboardImport
  <2>2. Serves(Render(Imported(db)), file.cfg)
    BY <2>1, ImportServes DEF Settled
  <2>3. /\ pc'[p] = "check" /\ file' = file
        /\ sess'[p] = [sess[p] EXCEPT !.rendered = Render(Imported(db))]
    BY <1>14 DEF OnboardImport, Goto, caddy
  <2> HIDE DEF Session
  <2>4. /\ sess'[p].rendered = Render(Imported(db)) /\ sess'[p].kind = sess[p].kind
        /\ sess'[p].again = sess[p].again /\ sess'[p].result = sess[p].result
    BY <2>3 DEF Session
  <2>5. Knows(pc'[p], sess'[p], file')
    BY <2>1, <2>2, <2>3, <2>4
  <2> QED BY <2>1, <2>3, <2>4, <2>5
<1> QED
  BY <1>1, <1>2, <1>3, <1>4, <1>5, <1>6, <1>7, <1>8, <1>9, <1>10, <1>11, <1>12, <1>13, <1>14, <1>15
     DEF Step, SyncStep

\* A step of p leaves the other handlers where they are.
LEMMA OthersKept ==
    ASSUME TypeInv, NEW p \in Request,
           Begin(p) \/ BeginReconcile(p) \/ EnterGuard(p) \/ Step(p)
    PROVE  \A q \in Request \ {p} : pc'[q] = pc[q] /\ sess'[q] = sess[q]
<1> USE DEF TypeInv, TypeOK
<1>1. CASE Quiet(p)
  BY <1>1 DEF Quiet
<1>2. CASE CheckValid(p) \/ WriteFile(p) \/ LoadFails(p) \/ RestoreFile(p)
  BY <1>2 DEF CheckValid, WriteFile, LoadFails, RestoreFile, Leave, Goto
<1>3. CASE Load(p)
  BY <1>3 DEF Load, AfterLoad, Goto
<1> QED BY <1>1, <1>2, <1>3, QuietOrNoisy DEF Noisy

LEMMA TakeoverStep ==
    ASSUME SafeInv, TakeoverInv, [Next]_vars
    PROVE  TakeoverInv'
<1>1. ~Settled' => \A s \in Site : db'.rows[s] = None
  <2> SUFFICES ASSUME ~Settled' PROVE \A s \in Site : db'.rows[s] = None
    OBVIOUS
  <2>1. ~Settled
    BY SettledStays
  <2>2. ASSUME NEW p \in Request, Commit(p) PROVE FALSE
    BY <2>1, <2>2 DEF Commit, MustCommit, TakeoverInv, InUse
  <2> QED BY <2>1, <2>2, OnlyCommits DEF TakeoverInv
<1>2. ASSUME NEW p \in Request, Begin(p) \/ BeginReconcile(p) \/ EnterGuard(p) \/ Step(p)
      PROVE  /\ \A q \in Request : InUse(pc'[q], sess'[q]) => Settled'
             /\ \A q \in Request : Knows(pc'[q], sess'[q], file')
  <2>1. \A q \in Request \ {p} : pc'[q] = pc[q] /\ sess'[q] = sess[q]
    BY <1>2, OthersKept DEF SafeInv
  <2>2. /\ Knows(pc'[p], sess'[p], file')
        /\ InUse(pc'[p], sess'[p]) => Settled \/ Settled'
    BY <1>2, TakeoverOwnStep
  <2>3. Settled => Settled'
    BY SettledStays
  \* the file changes only in the hands of the holder of the guard
  <2>4. ASSUME NEW q \in Request \ {p}
        PROVE  Knows(pc[q], sess[q], file')
    <3>1. CASE pc[q] \in Guarded
      <4>1. pc[p] \notin {"write", "restore"}
        BY <3>1 DEF SafeInv, GuardHeld, Guarded
      <4>2. file' = file
        BY <1>2, <4>1, QuietOrNoisy
           DEF Quiet, Noisy, CheckValid, WriteFile, Load, LoadFails, RestoreFile, caddy, SafeInv
      <4> QED BY <4>2 DEF TakeoverInv
    <3>2. CASE pc[q] \notin Guarded
      BY <3>2 DEF Knows, Guarded
    <3> QED BY <3>1, <3>2
  <2> QED BY <2>1, <2>2, <2>3, <2>4 DEF TakeoverInv
<1>3. CASE Crash
  <2>1. \A q \in Request : pc'[q] = "idle" /\ sess'[q] = NewSession("sync")
    BY <1>3 DEF Crash
  <2> QED BY <1>1, <2>1 DEF TakeoverInv, InUse, Knows, NewSession
<1>4. CASE CaddyRestart \/ UNCHANGED vars
  <2>1. UNCHANGED <<pc, sess, file>>
    BY <1>4 DEF CaddyRestart, vars
  <2> QED BY <1>1, <2>1 DEF TakeoverInv, Settled
<1> QED BY <1>1, <1>2, <1>3, <1>4 DEF Next, TakeoverInv

\* Whatever fails, crashes or runs at once, the Caddyfile that replaces the
\* operator's own serves the same for every site that the repository can hold.
THEOREM TakeoverServesTheSame == Spec => TakeoverKeepsSites
<1> DEFINE Kept ==
        ~file.managed /\ file'.managed =>
            /\ \/ file'.cfg.base = Injected[file.cfg.base]
               \/ file.cfg.base = Blank /\ Importable(file.cfg) = {}
            /\ \A s \in Site : file.cfg.site[s] \notin Skipped => file'.cfg.site[s] = file.cfg.site[s]
<1>1. Init => SafeInv /\ TakeoverInv
  BY TypeInit, GuardHeldInit, TakeoverInit DEF SafeInv
<1>2. SafeInv /\ TakeoverInv /\ [Next]_vars => TakeoverInv'
  BY TakeoverStep
<1>3. SafeInv /\ TakeoverInv /\ [Next]_vars => Kept
  <2> SUFFICES ASSUME SafeInv, TakeoverInv, [Next]_vars, ~file.managed, file'.managed
               PROVE  Serves(file'.cfg, file.cfg)
    BY DEF Serves
  <2>1. ASSUME NEW p \in Request, Quiet(p) PROVE FALSE
    BY <2>1 DEF Quiet, caddy
  <2>2. ASSUME NEW p \in Request, CheckValid(p) \/ Load(p) \/ LoadFails(p) PROVE FALSE
    BY <2>2 DEF CheckValid, Load, LoadFails, caddy
  <2>3. ASSUME NEW p \in Request, RestoreFile(p) PROVE FALSE
    BY <2>3 DEF RestoreFile, TakeoverInv, Knows
  <2>4. ASSUME NEW p \in Request, WriteFile(p) PROVE Serves(file'.cfg, file.cfg)
    BY <2>4 DEF WriteFile, TakeoverInv, Knows
  <2> QED
    BY <2>1, <2>2, <2>3, <2>4, QuietOrNoisy DEF Next, Noisy, Crash, CaddyRestart, caddy, vars, SafeInv
<1> HIDE DEF Kept
<1>4. SafeInv /\ TakeoverInv /\ [Next]_vars => [Kept]_vars
  BY <1>3
<1>5. Spec => [][Kept]_vars
  BY <1>1, <1>2, <1>4, SafeInvariant, PTL DEF Spec
<1> QED BY <1>5 DEF Kept, TakeoverKeepsSites
-----------------------------------------------------------------------------
(***************************************************************************)
(* What runs is what is stored, and the refinement of DeployContract.      *)
(***************************************************************************)
\* The conditions.  An update renders a row it has not read again and a sync
\* renders a database that another request is about to commit over (see
\* CaddyDeployStaleUpdate.cfg and CaddyDeployStaleSync.cfg); a failed commit, a
\* lost answer or a failed restore leaves Caddy ahead of the database; and the
\* follow-up of a creation must not time out on the file lock, which it only
\* does where another worker can hold the lock without having written
\* (CaddyDeployFollowUpTimeout.cfg).
Steady ==
    /\ CleanRun
    /\ "commit" \notin Faults
    /\ Kinds \subseteq {"create", "delete", "onboard"}
    /\ {"create", "onboard"} \subseteq Kinds => \A v, w \in Worker : v = w

\* A handler with the locals x has made Caddy run its transaction.
Opened(x) == x.result = "synced" \/ x.again

\* The same, or it has found that Caddy runs it already.
Deployed(x) == Opened(x) \/ x.result = "no_change"

\* A handler with the locals x is taking over the operator's Caddyfile.
Takes(l, x) == x.kind = "onboard" /\ (l \in {"load", "restore"} \/ x.result = "synced")

\* Whether a handler at l with the locals x holds the write lock (h): a row
\* change before it asks for the guard, an onboarding when it has imported.
Discipline(l, x, h) ==
    /\ l # "idle" => x.kind \in Kinds
    /\ x.again => x.kind = "create" /\ l \notin {"idle", "stage"}
    /\ l # "record"
    /\ x.result # "saved" /\ (x.result = "no_change" => x.kind # "onboard")
    /\ x.result \in {"synced", "no_change"} => h /\ l \in {"unlock", "reformat", "answer"}
    /\ h => l \notin {"idle", "stage", "import"}
    /\ h /\ x.kind = "onboard" => l \notin {"guard", "flock", "inspect"}
    /\ l \in {"flush", "check", "write", "load", "reformat", "restore"} => h
    /\ l \notin {"idle", "stage"} /\ x.kind # "onboard" => h

Near(c, d) == Normal(c) = Normal(Render(d))

\* What the holder of the write lock has rendered and deployed is its own
\* transaction, and only an onboarding finds an installation never synced.
Carried(p) ==
    /\ pc[p] \in {"flush", "check", "write", "load"} => sess[p].rendered = Render(tx)
    /\ Deployed(sess[p]) => Near(runtime, tx) /\ tx.lastSynced # None
    /\ sess[p].kind # "onboard"
         /\ (pc[p] \in {"flush", "check", "write", "load", "restore"} \/ Deployed(sess[p]))
       => db.lastSynced # None
    /\ sess[p].kind = "onboard" /\ pc[p] \in {"load", "restore"} => ~sess[p].prev.managed

\* Until the holder of the write lock has deployed Caddy runs what is committed.
CommittedRuns ==
    db.lastSynced # None /\ (\A p \in Request : dbLock = p => ~Opened(sess[p])) => Near(runtime, db)

\* A managed Caddyfile was synced before, or is being taken over.
ManagedIsSynced ==
    file.managed => \/ db.lastSynced # None
                    \/ \E p \in Request : dbLock = p /\ Takes(pc[p], sess[p])

FlockUsed == flock # None => pc[flock] \in Guarded

StoredInv ==
    /\ \A w \in Worker : ready[w]
    /\ FlockUsed
    /\ \A p \in Request : Discipline(pc[p], sess[p], dbLock = p)
    /\ \A p \in Request : dbLock = p => Carried(p)
    /\ CommittedRuns
    /\ ManagedIsSynced

LEMMA StoredInit == ASSUME Steady PROVE Init => StoredInv
<1> SUFFICES ASSUME Init PROVE StoredInv
  OBVIOUS
<1> USE DeployAssumption
<1>1. \A p \in Request : Discipline(pc[p], sess[p], dbLock = p)
  BY DEF Init, Discipline, NewSession
<1>2. db.lastSynced # None => Near(runtime, db) /\ file.managed
  BY DEF Init, InitFresh, InitManaged, Near
<1>3. file.managed => db.lastSynced # None
  <2>1. CASE Fresh
    BY <2>1 DEF Init, InitFresh
  <2>2. CASE ~Fresh
    <3>1. db.lastSynced = Render(db) /\ db \in DB
      BY <2>2, TypeInit DEF Init, InitManaged, TypeInv, TypeOK
    <3> QED BY <3>1, RenderType
  <2> QED BY <2>1, <2>2
<1>4. (\A w \in Worker : ready[w]) /\ dbLock = None /\ flock = None
  BY DEF Init
<1> QED
  BY <1>1, <1>2, <1>3, <1>4 DEF StoredInv, FlockUsed, CommittedRuns, ManagedIsSynced

\* Nobody but p takes or loses the write lock in a step of p, and its holder
\* finds the database, its transaction and Caddy as it left them.
LEMMA HolderStep ==
    ASSUME Steady, SafeInv, StoredInv, NEW p \in Request,
           Begin(p) \/ EnterGuard(p) \/ Step(p)
    PROVE  /\ \A q \in Request \ {p} : dbLock' = q <=> dbLock = q
           /\ (\E q \in Request \ {p} : dbLock = q) => UNCHANGED <<db, tx, runtime>>
           /\ \A w \in Worker : ready'[w]
<1> USE DeployAssumption DEF SafeInv, TypeInv, TypeOK, StoredInv
<1>1. CASE Begin(p) \/ EnterGuard(p)
  <2>1. UNCHANGED <<store, caddy, boot>>
    BY <1>1 DEF Begin, BeginCreate, BeginUpdate, BeginDelete, BeginBaseline, BeginGuarded, Arrive,
                EnterGuard
  <2> QED BY <2>1 DEF store, caddy, boot
<1>2. CASE StageRow(p) \/ SaveOnly(p) \/ StageDelete(p) \/ StageBaseline(p)
  BY <1>2 DEF StageRow, SaveOnly, StageDelete, StageBaseline, caddy, boot
<1>3. CASE StageRefused(p) \/ StageBusy(p) \/ FileLockTimeout(p) \/ FlushBusy(p)
           \/ CommitFails(p) \/ AnswerFailure(p)
  BY <1>3 DEF StageRefused, StageBusy, FileLockTimeout, FlushBusy, CommitFails, AnswerFailure,
              Rollback, Close, caddy
<1>4. CASE Commit(p)
  BY <1>4 DEF Commit, Close, Busy, caddy
<1>5. CASE TryFileLock(p) \/ LeaveGuard(p) \/ FollowUp(p)
  BY <1>5 DEF TryFileLock, LeaveGuard, FollowUp, store, caddy, boot
<1>6. CASE InspectUnmanaged(p) \/ InspectAndRender(p) \/ FlushRendered(p)
  BY <1>6 DEF InspectUnmanaged, InspectAndRender, FlushRendered, store, caddy, boot
<1>7. CASE CheckNoChange(p) \/ CheckFails(p) \/ CheckValid(p)
  BY <1>7 DEF CheckNoChange, CheckFails, CheckValid, NoteError, store, caddy, boot
<1>8. CASE WriteFile(p) \/ WriteFails(p)
  BY <1>8 DEF WriteFile, WriteFails, NoteError, store, caddy, boot
<1>12. ~RecordSync(p)
  BY DEF RecordSync, Discipline
<1>9. CASE Load(p) \/ LoadFails(p)
  <2>1. dbLock = p
    BY <1>9 DEF Load, LoadFails, Discipline
  <2> QED BY <1>9, <2>1 DEF Load, LoadFails, store, boot
<1>10. CASE Reformat(p) \/ RestoreFile(p)
  <2>1. dbLock = p
    BY <1>10 DEF Reformat, RestoreFile, Discipline
  <2> QED BY <1>10, <2>1 DEF Reformat, RestoreFile, NoteError, store, caddy, boot
<1>11. CASE OnboardAlready(p) \/ OnboardUnreachable(p) \/ OnboardReachable(p) \/ OnboardImport(p)
  BY <1>11 DEF OnboardAlready, OnboardUnreachable, OnboardReachable, OnboardImport, store, caddy, boot
<1> QED
  BY <1>1, <1>2, <1>3, <1>4, <1>5, <1>6, <1>7, <1>8, <1>9, <1>10, <1>11, <1>12 DEF Step, SyncStep

\* Who has opened a deployment does not time out on the file lock.
LEMMA NoLateTimeout ==
    ASSUME Steady, SafeInv, StoredInv, NEW p \in Request, FileLockTimeout(p)
    PROVE  ~Opened(sess[p])
<1> SUFFICES ASSUME Opened(sess[p]) PROVE FALSE
  OBVIOUS
<1> USE DEF StoredInv, Discipline
<1>1. pc[p] = "flock" /\ sess[p].again /\ sess[p].kind = "create" /\ dbLock = p
  BY DEF FileLockTimeout, Opened
<1>2. PICK q \in Request : flock = q /\ pc[q] \in Guarded
  BY DEF FileLockTimeout, FlockUsed, SafeInv, TypeInv, TypeOK
<1>3. q # p
  BY <1>1, <1>2 DEF Guarded
<1>4. "create" \in Kinds
  BY <1>1
<1>5. CASE sess[q].kind = "onboard"
  <2>1. WorkerOf[q] = WorkerOf[p]
    BY <1>2, <1>4, <1>5, DeployAssumption DEF Guarded, Steady
  <2>2. alock[WorkerOf[q]] = q /\ alock[WorkerOf[p]] = p
    BY <1>1, <1>2 DEF SafeInv, GuardHeld
  <2> QED BY <1>3, <2>1, <2>2
<1>6. CASE sess[q].kind # "onboard"
  <2>1. dbLock = q
    BY <1>2, <1>6 DEF Guarded
  <2> QED BY <1>1, <1>3, <2>1
<1> QED BY <1>5, <1>6

\* The steps that leave what is committed, the Caddyfile and Caddy alone, and
\* keep the write lock of who has opened a deployment.
Plain(p) ==
    /\ UNCHANGED <<db, file, runtime>>
    /\ dbLock = p /\ Opened(sess[p]) => dbLock' = p /\ Opened(sess'[p])
    /\ dbLock = p /\ Takes(pc[p], sess[p]) => dbLock' = p /\ Takes(pc'[p], sess'[p])

\* The locals and the lock of p after its step.
Kept(p) ==
    /\ Discipline(pc'[p], sess'[p], dbLock' = p)
    /\ dbLock' = p => Carried(p)'

\* A row change, or lastError, does not change what a rendering depends on.
LEMMA SameRendering ==
    ASSUME NEW d, NEW e, d.base = e.base, d.snap = e.snap, d.rows = e.rows
    PROVE  Render(d) = Render(e)
BY DEF Render, BaselineOf

LEMMA NoteErrorKeeps ==
    ASSUME TypeOK, NEW p \in Request, NoteError(p)
    PROVE  Render(tx') = Render(tx) /\ tx'.lastSynced = tx.lastSynced
<1>1. /\ tx'.base = tx.base /\ tx'.snap = tx.snap /\ tx'.rows = tx.rows
      /\ tx'.lastSynced = tx.lastSynced
  BY DEF NoteError, TypeOK, DB
<1> QED BY <1>1, SameRendering

LEMMA BeginKept ==
    ASSUME Steady, SafeInv, StoredInv, NEW p \in Request, Begin(p)
    PROVE  Plain(p) /\ Kept(p)
<1> USE DEF SafeInv, TypeInv, TypeOK, PCs
<1>1. pc[p] = "idle" /\ UNCHANGED <<store, caddy>>
  BY DEF Begin, BeginCreate, BeginUpdate, BeginDelete, BeginBaseline, BeginGuarded, Arrive
<1>2. dbLock # p /\ dbLock' # p
  BY <1>1 DEF StoredInv, Discipline, store
<1>3. PICK k \in Kinds :
         /\ sess'[p].kind = k /\ ~sess'[p].again /\ sess'[p].result = "none"
         /\ pc'[p] = "stage" \/ (pc'[p] = "guard" /\ k = "onboard")
  <2>1. CASE \E s \in Site, r \in Row : BeginCreate(p, s, r)
    BY <2>1 DEF BeginCreate, Arrive, Goto, NewSession
  <2>2. CASE \E s \in Site, r \in Row : BeginUpdate(p, s, r)
    BY <2>2 DEF BeginUpdate, Arrive, Steady
  <2>3. CASE \E s \in Site : BeginDelete(p, s)
    BY <2>3 DEF BeginDelete, Arrive, Goto, NewSession
  <2>4. CASE \E b \in Baseline : BeginBaseline(p, b)
    BY <2>4 DEF BeginBaseline, Arrive, Steady
  <2>5. CASE \E k \in {"sync", "onboard"} : BeginGuarded(p, k)
    BY <2>5 DEF BeginGuarded, Arrive, Goto, NewSession, Steady
  <2> QED BY <2>1, <2>2, <2>3, <2>4, <2>5 DEF Begin
<1> QED BY <1>1, <1>2, <1>3 DEF Plain, Kept, Discipline, store, caddy

LEMMA GuardKept ==
    ASSUME Steady, SafeInv, StoredInv, NEW p \in Request,
           EnterGuard(p) \/ TryFileLock(p) \/ LeaveGuard(p)
    PROVE  Plain(p) /\ Kept(p)
<1> USE DEF SafeInv, TypeInv, TypeOK, PCs
<1>1. /\ UNCHANGED <<store, caddy, sess>>
      /\ \/ pc[p] = "guard" /\ pc'[p] = "flock"
         \/ pc[p] = "flock" /\ pc'[p] = "inspect"
         \/ pc[p] = "unlock" /\ pc'[p] = "answer"
  BY DEF EnterGuard, TryFileLock, LeaveGuard, Goto
<1>2. Discipline(pc[p], sess[p], dbLock = p) /\ (dbLock = p => Carried(p))
  BY DEF StoredInv
<1>3. Plain(p)
  BY <1>1, <1>2 DEF Plain, store, caddy, Takes
<1>4. Discipline(pc'[p], sess'[p], dbLock' = p)
  BY <1>1, <1>2 DEF Discipline, store
<1>5. dbLock' = p => Carried(p)'
  BY <1>1, <1>2 DEF Carried, store, caddy, Near
<1> QED BY <1>3, <1>4, <1>5 DEF Kept

LEMMA StageKept ==
    ASSUME Steady, SafeInv, StoredInv, NEW p \in Request,
           StageRow(p) \/ SaveOnly(p) \/ StageDelete(p) \/ StageBaseline(p)
    PROVE  Plain(p) /\ Kept(p)
<1> USE DEF SafeInv, TypeInv, TypeOK, PCs
<1>1. Discipline(pc[p], sess[p], dbLock = p) /\ pc[p] = "stage" /\ dbLock # p
  BY DEF StoredInv, Discipline, StageRow, SaveOnly, StageDelete, StageBaseline
<1>2. sess[p].kind \in {"create", "delete"}
  BY <1>1 DEF Discipline, Steady, StageRow, SaveOnly, StageDelete, StageBaseline
<1>3. dbLock' = p /\ pc'[p] = "guard" /\ UNCHANGED <<sess, db, file, runtime>>
  BY <1>2 DEF StageRow, SaveOnly, StageDelete, StageBaseline, Goto, caddy
<1> QED BY <1>1, <1>2, <1>3 DEF Plain, Kept, Discipline, Carried, Deployed, Opened

\* A request ends without a commit only if it has opened no deployment.
LEMMA RollbackKept ==
    ASSUME Steady, SafeInv, StoredInv, NEW p \in Request,
           \/ StageRefused(p) \/ StageBusy(p) \/ FileLockTimeout(p) \/ FlushBusy(p)
           \/ CommitFails(p) \/ AnswerFailure(p)
    PROVE  Plain(p) /\ Kept(p)
<1> USE DEF SafeInv, TypeInv, TypeOK, PCs
<1>1. Rollback(p) /\ UNCHANGED <<file, runtime>>
  BY DEF StageRefused, StageBusy, FileLockTimeout, FlushBusy, CommitFails, AnswerFailure, caddy
<1>2. Discipline(pc[p], sess[p], dbLock = p)
  BY DEF StoredInv
<1>3. ~Opened(sess[p])
  <2>1. CASE StageRefused(p) \/ StageBusy(p)
    BY <1>2, <2>1 DEF StageRefused, StageBusy, Discipline, Opened
  <2>2. CASE FileLockTimeout(p)
    BY <2>2, NoLateTimeout
  <2>3. CASE FlushBusy(p)
    BY <1>2, <2>3 DEF FlushBusy, Busy, Discipline, Opened
  <2>4. CASE CommitFails(p)
    BY <1>2, <2>4 DEF CommitFails, Busy, Discipline, Opened, Steady
  <2>5. CASE AnswerFailure(p)
    BY <2>5 DEF AnswerFailure, MustCommit, Opened
  <2> QED BY <2>1, <2>2, <2>3, <2>4, <2>5
<1>4. pc[p] \notin {"load", "restore"}
  BY DEF StageRefused, StageBusy, FileLockTimeout, FlushBusy, CommitFails, AnswerFailure
<1>5. Plain(p)
  BY <1>1, <1>3, <1>4 DEF Plain, Opened, Takes, Rollback
<1>6. pc'[p] = "idle" /\ sess'[p] = NewSession("sync") /\ dbLock' # p
  BY <1>1, DeployAssumption DEF Rollback, Close
<1> QED BY <1>5, <1>6 DEF Kept, Discipline, NewSession

\* The sync and the onboarding end with a failure, which may be noted.
LEMMA FailureKept ==
    ASSUME Steady, SafeInv, StoredInv, NEW p \in Request,
           \/ InspectUnmanaged(p) \/ CheckFails(p) \/ WriteFails(p)
           \/ OnboardAlready(p) \/ OnboardUnreachable(p)
    PROVE  Plain(p) /\ Kept(p)
<1> USE DEF SafeInv, TypeInv, TypeOK, PCs
<1>1. /\ \E res \in {"failed", "already_managed"} : Leave(p, res)
      /\ UNCHANGED <<db, dbLock, file, runtime>>
      /\ pc[p] \in {"inspect", "check", "write"}
      /\ UNCHANGED tx \/ NoteError(p)
  BY DEF InspectUnmanaged, CheckFails, WriteFails, OnboardAlready, OnboardUnreachable, store, caddy
<1>2. Discipline(pc[p], sess[p], dbLock = p) /\ (dbLock = p => Carried(p))
  BY DEF StoredInv
<1>3. /\ pc'[p] = "unlock" /\ sess'[p].result \in {"failed", "already_managed"}
      /\ sess'[p].kind = sess[p].kind /\ sess'[p].again = sess[p].again
  BY <1>1 DEF Leave, Goto, Session
<1>4. sess[p].result \notin {"synced", "no_change"}
  BY <1>1, <1>2 DEF Discipline
<1>5. Render(tx') = Render(tx) /\ tx'.lastSynced = tx.lastSynced
  BY <1>1, NoteErrorKeeps
<1>6. Plain(p)
  BY <1>1, <1>3, <1>4 DEF Plain, Opened, Takes
<1>7. Discipline(pc'[p], sess'[p], dbLock' = p)
  BY <1>1, <1>2, <1>3 DEF Discipline
<1>8. dbLock' = p => Carried(p)'
  BY <1>1, <1>2, <1>3, <1>4, <1>5 DEF Carried, Deployed, Opened, Near
<1> QED BY <1>6, <1>7, <1>8 DEF Kept


\* What a sync that finds a managed Caddyfile knows.
LEMMA FoundManaged ==
    ASSUME Steady, StoredInv, NEW p \in Request,
           pc[p] = "inspect", sess[p].kind # "onboard", file.managed
    PROVE  dbLock = p /\ sess[p].kind # "update" /\ db.lastSynced # None
<1>1. dbLock = p /\ sess[p].kind \in Kinds
  BY DEF StoredInv, Discipline
<1>2. ASSUME NEW q \in Request, dbLock = q, Takes(pc[q], sess[q]) PROVE FALSE
  BY <1>1, <1>2 DEF Takes
<1> QED BY <1>1, <1>2 DEF StoredInv, ManagedIsSynced, Steady

\* A sync up to the decision, and an onboarding that imports.
LEMMA RenderKept ==
    ASSUME Steady, SafeInv, StoredInv, TakeoverInv, NEW p \in Request,
           \/ InspectAndRender(p) \/ FlushRendered(p) \/ CheckValid(p)
           \/ OnboardReachable(p) \/ OnboardImport(p)
    PROVE  Plain(p) /\ Kept(p)
<1> USE DEF SafeInv, TypeInv, TypeOK, PCs
<1>1. Discipline(pc[p], sess[p], dbLock = p) /\ (dbLock = p => Carried(p))
  BY DEF StoredInv
<1>2. CASE InspectAndRender(p)
  <2>1. dbLock = p /\ sess[p].kind # "update" /\ db.lastSynced # None
    BY <1>2, FoundManaged DEF InspectAndRender
  <2>2. /\ UNCHANGED <<db, tx, dbLock, file, runtime>>
        /\ pc[p] = "inspect" /\ pc'[p] \in {"flush", "check"}
        /\ sess'[p] = [sess[p] EXCEPT !.rendered = Render(tx)]
    BY <1>2, <2>1 DEF InspectAndRender, Goto, store, caddy, RenderView, View
  <2>3. /\ sess'[p].rendered = Render(tx) /\ sess'[p].kind = sess[p].kind
        /\ sess'[p].again = sess[p].again /\ sess'[p].result = sess[p].result
    BY <2>2 DEF Session
  <2>4. Plain(p)
    BY <1>1, <2>1, <2>2, <2>3 DEF Plain, Opened, Takes, Discipline
  <2>5. Discipline(pc'[p], sess'[p], dbLock' = p)
    BY <1>1, <2>1, <2>2, <2>3 DEF Discipline
  <2>6. Carried(p)'
    BY <1>1, <2>1, <2>2, <2>3 DEF Carried, Deployed, Opened, Near
  <2> QED BY <2>4, <2>5, <2>6 DEF Kept
<1>3. CASE FlushRendered(p)
  <2>1. /\ dbLock = p /\ dbLock' = p /\ UNCHANGED <<db, file, runtime, sess>>
        /\ pc[p] = "flush" /\ pc'[p] = "check"
        /\ tx' = [tx EXCEPT !.rendered = sess[p].rendered]
    BY <1>1, <1>3 DEF FlushRendered, Discipline, Goto, View, caddy
  <2>2. /\ tx'.base = tx.base /\ tx'.snap = tx.snap /\ tx'.rows = tx.rows
        /\ tx'.lastSynced = tx.lastSynced
    BY <2>1 DEF DB
  <2>3. Render(tx') = Render(tx)
    BY <2>2, SameRendering
  <2>4. Plain(p)
    BY <1>1, <2>1 DEF Plain, Takes, Discipline
  <2>5. Discipline(pc'[p], sess'[p], dbLock' = p)
    BY <1>1, <2>1 DEF Discipline
  <2>6. Carried(p)'
    BY <1>1, <2>1, <2>2, <2>3 DEF Carried, Near
  <2> QED BY <2>4, <2>5, <2>6 DEF Kept
<1>4. CASE CheckValid(p) \/ OnboardReachable(p)
  <2>1. /\ UNCHANGED <<db, tx, dbLock, file, runtime, sess>>
        /\ \/ pc[p] = "check" /\ pc'[p] = "write"
           \/ pc[p] = "inspect" /\ pc'[p] = "import" /\ sess[p].kind = "onboard"
    BY <1>4 DEF CheckValid, OnboardReachable, Goto, store, caddy
  <2>2. Plain(p)
    BY <1>1, <2>1 DEF Plain, Takes, Discipline
  <2>3. Discipline(pc'[p], sess'[p], dbLock' = p)
    BY <1>1, <2>1 DEF Discipline
  <2>4. dbLock' = p => Carried(p)'
    BY <1>1, <2>1 DEF Carried, Near
  <2> QED BY <2>2, <2>3, <2>4 DEF Kept
<1>5. CASE OnboardImport(p)
  <2>1. sess[p].kind = "onboard" /\ pc[p] = "import" /\ dbLock # p
    BY <1>5, DeployAssumption DEF OnboardImport, TakeoverInv, Knows
  <2>2. /\ dbLock' = p /\ pc'[p] = "check" /\ UNCHANGED <<db, file, runtime>>
        /\ tx' = [Imported(db) EXCEPT !.rendered = Render(Imported(db))]
        /\ sess'[p] = [sess[p] EXCEPT !.rendered = Render(Imported(db))]
    BY <1>5 DEF OnboardImport, Goto, caddy
  <2>3. /\ sess'[p].rendered = Render(Imported(db)) /\ sess'[p].kind = sess[p].kind
        /\ sess'[p].again = sess[p].again /\ sess'[p].result = sess[p].result
    BY <2>2 DEF Session
  <2>4. Imported(db) \in DB
    BY ImportedType
  <2>5. /\ tx'.base = Imported(db).base /\ tx'.snap = Imported(db).snap
        /\ tx'.rows = Imported(db).rows
    BY <2>2, <2>4 DEF DB
  <2>6. Render(tx') = Render(Imported(db))
    BY <2>5, SameRendering
  <2>7. Plain(p)
    BY <2>1, <2>2 DEF Plain
  <2>8. ~Deployed(sess'[p]) /\ sess'[p].kind = "onboard" /\ sess'[p].result # "saved"
    BY <1>1, <2>1, <2>3 DEF Discipline, Deployed, Opened
  <2>9. Discipline(pc'[p], sess'[p], dbLock' = p)
    BY <1>1, <2>1, <2>2, <2>3, <2>8 DEF Discipline, Deployed, Opened
  <2>10. Carried(p)'
    BY <2>2, <2>3, <2>6, <2>8 DEF Carried
  <2> QED BY <2>7, <2>9, <2>10 DEF Kept
<1> QED BY <1>2, <1>3, <1>4, <1>5

\* "no_change": Caddy runs the transaction of the request already.
LEMMA NoChangeKept ==
    ASSUME Steady, AgreeInv, StoredInv, NEW p \in Request, CheckNoChange(p)
    PROVE  Plain(p) /\ Kept(p)
<1> USE DEF AgreeInv, PersistInv, SafeInv, TypeInv, TypeOK, PCs
<1>1. Discipline(pc[p], sess[p], dbLock = p) /\ pc[p] = "check" /\ dbLock = p /\ Carried(p)
  BY DEF StoredInv, Discipline, CheckNoChange
<1>2. /\ UNCHANGED <<db, tx, dbLock, file, runtime>>
      /\ pc'[p] = "unlock" /\ sess'[p] = [sess[p] EXCEPT !.result = "no_change"]
  BY DEF CheckNoChange, Leave, Goto, store, caddy
<1>3. /\ sess'[p].result = "no_change" /\ sess'[p].kind = sess[p].kind
      /\ sess'[p].again = sess[p].again
  BY <1>2 DEF Session
<1>4. ~sess[p].again /\ sess[p].kind # "onboard"
  BY DEF CheckNoChange, Unchanged, Forced
<1>5. sess[p].rendered = Render(tx) /\ tx.lastSynced = Render(tx) /\ file.cfg = Render(tx)
  BY <1>1 DEF Carried, CheckNoChange, Unchanged, View
\* p holds the guard, so that nobody is loading
<1>6. runtime = file.cfg
  <2>1. \A q \in Request : pc[q] \notin {"load", "restore"}
    BY <1>1 DEF GuardHeld, Guarded
  <2> QED BY <2>1 DEF Agreement
<1>7. Near(runtime, tx) /\ tx.lastSynced # None
  BY <1>5, <1>6, RenderType, DeployAssumption DEF Near
<1>8. sess[p].result # "synced"
  BY <1>1 DEF Discipline
<1>9. Plain(p)
  BY <1>1, <1>2, <1>4, <1>8 DEF Plain, Opened, Takes
<1>10. Discipline(pc'[p], sess'[p], dbLock' = p)
  BY <1>1, <1>2, <1>3, <1>4 DEF Discipline
<1>11. db.lastSynced # None
  BY <1>1, <1>4 DEF Carried
<1>12. Carried(p)'
  BY <1>2, <1>3, <1>4, <1>7, <1>11 DEF Carried, Near
<1> QED BY <1>9, <1>10, <1>12 DEF Kept

LEMMA LoadFailsKept ==
    ASSUME Steady, SafeInv, StoredInv, NEW p \in Request, LoadFails(p)
    PROVE  Plain(p) /\ Kept(p)
<1> USE DEF SafeInv, TypeInv, TypeOK, PCs
<1>1. Discipline(pc[p], sess[p], dbLock = p) /\ pc[p] = "load" /\ dbLock = p /\ Carried(p)
  BY DEF StoredInv, Discipline, LoadFails
<1>2. /\ UNCHANGED <<db, tx, dbLock, file, runtime, sess>>
      /\ pc'[p] = "restore"
  BY DEF LoadFails, Steady, CleanRun, Goto, store
<1>3. Plain(p)
  BY <1>1, <1>2 DEF Plain, Takes
<1>4. Discipline(pc'[p], sess'[p], dbLock' = p)
  BY <1>1, <1>2 DEF Discipline
<1>5. Carried(p)'
  BY <1>1, <1>2 DEF Carried, Near
<1> QED BY <1>3, <1>4, <1>5 DEF Kept

LEMMA NormalRender ==
    ASSUME NEW d
    PROVE  Normal(Render(d)) = [base |-> Formatted[Injected[BaselineOf(d)]],
                                site |-> [s \in Site |-> SiteBlock(d.rows[s])]]
<1> DEFINE f == [s \in Site |-> SiteBlock(d.rows[s])]
           b == Injected[BaselineOf(d)]
<1> HIDE DEF f, b
<1>1. [[base |-> b, site |-> f] EXCEPT !.base = Formatted[b]] = [base |-> Formatted[b], site |-> f]
  OBVIOUS
<1>2. Render(d) = [base |-> b, site |-> f] /\ Render(d).base = b
  BY DEF f, b, Render
<1> QED BY <1>1, <1>2 DEF f, b, Normal

\* Formatting the stored baseline changes its text, not what it stands for.
LEMMA ReformatSame ==
    ASSUME TypeOK, NEW p \in Request, Reformat(p)
    PROVE  /\ Normal(Render(tx')) = Normal(Render(tx))
           /\ tx'.rows = tx.rows /\ tx'.snap = tx.snap
           /\ tx'.lastSynced = tx.lastSynced /\ tx'.rendered = tx.rendered
<1> USE DeployAssumption DEF TypeOK
<1> DEFINE b == BaselineOf(tx)
<1>1. b \in Baseline
  BY DEF BaselineOf, DB
<1>2. /\ tx'.rows = tx.rows /\ tx'.snap = tx.snap
      /\ tx'.lastSynced = tx.lastSynced /\ tx'.rendered = tx.rendered
      /\ tx'.base = tx.base \/ (tx'.base = Formatted[b] /\ Formatted[b] # b)
  BY DEF Reformat, DB
<1>3. BaselineOf(tx') \in {b, Formatted[b]}
  <2>1. CASE tx'.base = tx.base
    BY <1>2, <2>1 DEF BaselineOf
  <2>2. CASE tx'.base = Formatted[b] /\ Formatted[b] # b
    <3>1. Formatted[b] # Blank
      BY <1>1, <2>2
    <3> QED BY <2>2, <3>1 DEF BaselineOf
  <2> QED BY <1>2, <2>1, <2>2
<1>4. Formatted[Injected[BaselineOf(tx')]] = Formatted[Injected[b]]
  BY <1>1, <1>3
<1>5. Normal(Render(tx')) = Normal(Render(tx))
  <2>1. Normal(Render(tx')) = [base |-> Formatted[Injected[BaselineOf(tx')]],
                               site |-> [s \in Site |-> SiteBlock(tx'.rows[s])]]
    BY NormalRender
  <2>2. Normal(Render(tx)) = [base |-> Formatted[Injected[b]],
                              site |-> [s \in Site |-> SiteBlock(tx.rows[s])]]
    BY NormalRender
  <2> QED BY <1>2, <1>4, <2>1, <2>2
<1> QED BY <1>2, <1>5

LEMMA ReformatKept ==
    ASSUME Steady, SafeInv, Told, StoredInv, NEW p \in Request, Reformat(p)
    PROVE  Plain(p) /\ Kept(p)
<1> USE DEF SafeInv, TypeInv, TypeOK, PCs
<1>1. Discipline(pc[p], sess[p], dbLock = p) /\ pc[p] = "reformat" /\ dbLock = p /\ Carried(p)
  BY DEF StoredInv, Discipline, Reformat
<1>2. sess[p].result = "synced"
  BY <1>1 DEF Told
<1>3. UNCHANGED <<db, dbLock, file, runtime, sess>> /\ pc'[p] = "unlock"
  BY DEF Reformat, Goto, caddy
<1>4. tx'.lastSynced = tx.lastSynced /\ Normal(Render(tx')) = Normal(Render(tx))
  BY ReformatSame
<1>5. Plain(p)
  BY <1>1, <1>2, <1>3 DEF Plain, Opened, Takes
<1>6. Discipline(pc'[p], sess'[p], dbLock' = p)
  BY <1>1, <1>3 DEF Discipline
<1>7. Carried(p)'
  BY <1>1, <1>2, <1>3, <1>4 DEF Carried, Deployed, Opened, Near
<1> QED BY <1>5, <1>6, <1>7 DEF Kept

LEMMA FollowUpKept ==
    ASSUME Steady, SafeInv, StoredInv, NEW p \in Request, FollowUp(p)
    PROVE  Plain(p) /\ Kept(p)
<1> USE DEF SafeInv, TypeInv, TypeOK, PCs
<1>1. Discipline(pc[p], sess[p], dbLock = p) /\ pc[p] = "answer" /\ dbLock = p /\ Carried(p)
  BY DEF StoredInv, Discipline, FollowUp
<1>2. Deployed(sess[p]) /\ sess[p].kind = "create"
  BY <1>1 DEF FollowUp, Deployed, Opened, Discipline, Steady
<1>3. UNCHANGED <<db, tx, dbLock, file, runtime>> /\ pc'[p] = "guard"
  BY DEF FollowUp, Goto, store, caddy
<1>4. /\ sess'[p].result = "none" /\ sess'[p].kind = sess[p].kind
      /\ sess'[p].again
  BY DEF FollowUp, Session
<1>5. Plain(p)
  BY <1>1, <1>2, <1>3, <1>4 DEF Plain, Opened, Takes
<1>6. Discipline(pc'[p], sess'[p], dbLock' = p)
  BY <1>1, <1>2, <1>3, <1>4 DEF Discipline
<1>7. Carried(p)'
  BY <1>1, <1>2, <1>3, <1>4 DEF Carried, Deployed, Opened, Near
<1> QED BY <1>5, <1>6, <1>7 DEF Kept

\* What stays true of the database, the Caddyfile and Caddy.
CommittedKept == CommittedRuns' /\ ManagedIsSynced'

LEMMA PlainKeeps ==
    ASSUME Steady, StoredInv, NEW p \in Request, Plain(p),
           \A q \in Request \ {p} : pc'[q] = pc[q] /\ sess'[q] = sess[q],
           \A q \in Request \ {p} : dbLock' = q <=> dbLock = q
    PROVE  CommittedKept
<1>1. CommittedRuns'
  <2> SUFFICES ASSUME db.lastSynced # None, \A q \in Request : dbLock' = q => ~Opened(sess'[q])
               PROVE  Near(runtime, db)
    BY DEF Plain, CommittedRuns, Near
  <2>1. \A q \in Request : dbLock = q => ~Opened(sess[q])
    BY DEF Plain
  <2> QED BY <2>1 DEF StoredInv, CommittedRuns
<1>2. ManagedIsSynced'
  <2> SUFFICES ASSUME file.managed, db.lastSynced = None
               PROVE  \E q \in Request : dbLock' = q /\ Takes(pc'[q], sess'[q])
    BY DEF Plain, ManagedIsSynced
  <2>1. PICK q \in Request : dbLock = q /\ Takes(pc[q], sess[q])
    BY DEF StoredInv, ManagedIsSynced
  <2>2. dbLock' = q /\ Takes(pc'[q], sess'[q])
    BY <2>1 DEF Plain
  <2> QED BY <2>2
<1> QED BY <1>1, <1>2 DEF CommittedKept

\* The Caddyfile of a takeover is written by the holder of the write lock.
LEMMA WriteKept ==
    ASSUME Steady, SafeInv, StoredInv, TakeoverInv, NEW p \in Request, WriteFile(p)
    PROVE  CommittedKept /\ Kept(p)
<1> USE DEF SafeInv, TypeInv, TypeOK, PCs
<1>1. Discipline(pc[p], sess[p], dbLock = p) /\ pc[p] = "write" /\ dbLock = p /\ Carried(p)
  BY DEF StoredInv, Discipline, WriteFile
<1>2. /\ UNCHANGED <<db, tx, dbLock, runtime>> /\ pc'[p] = "load"
      /\ \A q \in Request \ {p} : pc'[q] = pc[q] /\ sess'[q] = sess[q]
  BY DEF WriteFile, Goto, store
<1>3. sess'[p] = [sess[p] EXCEPT !.prev = file]
  BY DEF WriteFile
<1>4. /\ sess'[p].prev = file /\ sess'[p].rendered = sess[p].rendered
      /\ sess'[p].result = sess[p].result /\ sess'[p].kind = sess[p].kind
      /\ sess'[p].again = sess[p].again
  BY <1>3 DEF Session
<1>5. sess[p].kind = "onboard" => ~file.managed
  BY <1>1 DEF TakeoverInv, Knows
<1>6. sess[p].kind # "onboard" => db.lastSynced # None
  BY <1>1 DEF Carried
<1>7. Discipline(pc'[p], sess'[p], dbLock' = p)
  BY <1>1, <1>2, <1>4 DEF Discipline
<1>8. Carried(p)'
  BY <1>1, <1>2, <1>4, <1>5, <1>6 DEF Carried, Deployed, Opened, Near
<1>9. CommittedRuns'
  <2>1. \A q \in Request : Opened(sess'[q]) = Opened(sess[q])
    BY <1>2, <1>4 DEF Opened
  <2> QED BY <1>2, <2>1 DEF StoredInv, CommittedRuns, Near
<1>10. ManagedIsSynced'
  <2>1. CASE sess[p].kind = "onboard"
    <3>1. dbLock' = p /\ Takes(pc'[p], sess'[p])
      BY <1>1, <1>2, <1>4, <2>1 DEF Takes
    <3> QED BY <3>1 DEF ManagedIsSynced
  <2>2. CASE sess[p].kind # "onboard"
    BY <1>2, <1>6, <2>2 DEF ManagedIsSynced
  <2> QED BY <2>1, <2>2
<1> QED BY <1>7, <1>8, <1>9, <1>10 DEF Kept, CommittedKept

\* Caddy runs the transaction of p now.
LEMMA LoadKept ==
    ASSUME Steady, SafeInv, StoredInv, NEW p \in Request, Load(p)
    PROVE  CommittedKept /\ Kept(p)
<1> USE DEF SafeInv, TypeInv, TypeOK, PCs
<1>1. Discipline(pc[p], sess[p], dbLock = p) /\ pc[p] = "load" /\ dbLock = p /\ Carried(p)
  BY DEF StoredInv, Discipline, Load
<1>2. /\ UNCHANGED <<db, dbLock, file>> /\ pc'[p] \in {"unlock", "reformat"}
      /\ runtime' = sess[p].rendered
      /\ tx' = [tx EXCEPT !.lastSynced = sess[p].rendered, !.lastError = FALSE]
      /\ sess'[p] = [sess[p] EXCEPT !.result = "synced"]
  BY <1>1 DEF Load, AfterLoad, Recorded, Goto
<1>3. /\ sess'[p].result = "synced" /\ sess'[p].kind = sess[p].kind
      /\ sess'[p].again = sess[p].again
  BY <1>2 DEF Session
<1>4. /\ tx'.base = tx.base /\ tx'.snap = tx.snap /\ tx'.rows = tx.rows
      /\ tx'.lastSynced = sess[p].rendered
  BY <1>2 DEF DB
<1>5. Near(runtime', tx') /\ tx'.lastSynced # None
  <2>1. Render(tx') = Render(tx)
    BY <1>4, SameRendering
  <2>2. sess[p].rendered = Render(tx)
    BY <1>1 DEF Carried
  <2>3. Render(tx) # None
    BY RenderType, DeployAssumption
  <2> QED BY <1>2, <1>4, <2>1, <2>2, <2>3 DEF Near
<1>6. Discipline(pc'[p], sess'[p], dbLock' = p)
  BY <1>1, <1>2, <1>3 DEF Discipline
<1>7. sess[p].kind # "onboard" => db.lastSynced # None
  BY <1>1 DEF Carried
<1>8. Carried(p)'
  BY <1>2, <1>3, <1>5, <1>7 DEF Carried, Near
<1>9. CommittedRuns'
  BY <1>1, <1>2, <1>3 DEF CommittedRuns, Opened
<1>10. ManagedIsSynced'
  <2>1. CASE sess[p].kind = "onboard"
    <3>1. dbLock' = p /\ Takes(pc'[p], sess'[p])
      BY <1>1, <1>2, <1>3, <2>1 DEF Takes
    <3> QED BY <3>1 DEF ManagedIsSynced
  <2>2. CASE sess[p].kind # "onboard"
    BY <1>2, <1>7, <2>2 DEF ManagedIsSynced
  <2> QED BY <2>1, <2>2
<1> QED BY <1>6, <1>8, <1>9, <1>10 DEF Kept, CommittedKept

\* A refused takeover gives the operator's Caddyfile back.
LEMMA RestoreKept ==
    ASSUME Steady, SafeInv, StoredInv, NEW p \in Request, RestoreFile(p)
    PROVE  CommittedKept /\ Kept(p)
<1> USE DEF SafeInv, TypeInv, TypeOK, PCs
<1>1. Discipline(pc[p], sess[p], dbLock = p) /\ pc[p] = "restore" /\ dbLock = p /\ Carried(p)
  BY DEF StoredInv, Discipline, RestoreFile
<1>2. /\ UNCHANGED <<db, dbLock, runtime>> /\ pc'[p] = "unlock"
      /\ file' = sess[p].prev /\ NoteError(p)
      /\ sess' = [sess EXCEPT ![p].result = "failed"]
  BY DEF RestoreFile, Leave, Goto, Steady, CleanRun
<1>3. /\ sess'[p].result = "failed" /\ sess'[p].kind = sess[p].kind
      /\ sess'[p].again = sess[p].again
      /\ \A q \in Request \ {p} : sess'[q] = sess[q]
  BY <1>2 DEF Session
<1>4. sess[p].result \notin {"synced", "no_change"}
  BY <1>1 DEF Discipline
<1>5. Render(tx') = Render(tx) /\ tx'.lastSynced = tx.lastSynced
  BY <1>2, NoteErrorKeeps
<1>6. Discipline(pc'[p], sess'[p], dbLock' = p)
  BY <1>1, <1>2, <1>3 DEF Discipline
<1>7. Carried(p)'
  BY <1>1, <1>2, <1>3, <1>4, <1>5 DEF Carried, Deployed, Opened, Near
<1>8. CommittedRuns'
  <2>1. \A q \in Request : Opened(sess'[q]) = Opened(sess[q])
    BY <1>3, <1>4 DEF Opened
  <2> QED BY <1>2, <2>1 DEF StoredInv, CommittedRuns, Near
<1>9. ManagedIsSynced'
  BY <1>1, <1>2 DEF ManagedIsSynced, Carried
<1> QED BY <1>6, <1>7, <1>8, <1>9 DEF Kept, CommittedKept

\* Who commits holds the write lock and commits what Caddy runs.
LEMMA CommitDeployed ==
    ASSUME Steady, SafeInv, StoredInv, NEW p \in Request, Commit(p)
    PROVE  /\ dbLock = p /\ dbLock' = None /\ UNCHANGED <<file, runtime>>
           /\ Deployed(sess[p])
           /\ Render(db') = Render(tx) /\ db'.lastSynced = tx.lastSynced
           /\ Near(runtime, tx) /\ tx.lastSynced # None
           /\ pc'[p] = "idle" /\ sess'[p] = NewSession("sync")
<1> USE DEF SafeInv, TypeInv, TypeOK, PCs
<1>1. Discipline(pc[p], sess[p], dbLock = p) /\ pc[p] = "answer"
  BY DEF StoredInv, Commit
<1>2. dbLock = p /\ Deployed(sess[p])
  BY <1>1 DEF Commit, MustCommit, Discipline, Deployed, Opened, Steady
<1>3. Near(runtime, tx) /\ tx.lastSynced # None
  BY <1>2 DEF StoredInv, Carried
<1>4. db' = tx
  BY <1>2 DEF Commit, View
<1>7. /\ dbLock' = None /\ UNCHANGED <<file, runtime>>
      /\ pc'[p] = "idle" /\ sess'[p] = NewSession("sync")
  BY <1>2 DEF Commit, Close, caddy
<1> QED BY <1>2, <1>3, <1>4, <1>7

LEMMA CommitKept ==
    ASSUME Steady, SafeInv, StoredInv, NEW p \in Request, Commit(p)
    PROVE  CommittedKept /\ Kept(p)
<1>1. /\ dbLock = p /\ dbLock' = None /\ UNCHANGED <<file, runtime>>
      /\ Render(db') = Render(tx) /\ db'.lastSynced = tx.lastSynced
      /\ Near(runtime, tx) /\ tx.lastSynced # None
      /\ pc'[p] = "idle" /\ sess'[p] = NewSession("sync")
  BY CommitDeployed
<1>2. Kept(p)
  BY <1>1, DeployAssumption DEF Kept, Discipline, NewSession
<1>3. CommittedKept
  BY <1>1 DEF CommittedKept, CommittedRuns, ManagedIsSynced, Near
<1> QED BY <1>2, <1>3

\* The file lock stays with a handler that uses it.
LEMMA FlockStep ==
    ASSUME SafeInv, FlockUsed, NEW p \in Request,
           Begin(p) \/ EnterGuard(p) \/ Step(p)
    PROVE  FlockUsed'
<1> USE DeployAssumption DEF SafeInv, TypeInv, TypeOK, FlockUsed, Guarded, PCs
<1>1. CASE Begin(p) \/ EnterGuard(p)
  <2>1. pc[p] \in {"idle", "guard"} /\ UNCHANGED flock
    BY <1>1 DEF Begin, BeginCreate, BeginUpdate, BeginDelete, BeginBaseline, BeginGuarded, Arrive,
                EnterGuard, guard
  <2>2. \A q \in Request \ {p} : pc'[q] = pc[q]
    BY <1>1, OthersKept DEF SafeInv, TypeInv, TypeOK
  <2> QED BY <2>1, <2>2
<1>2. CASE StageRow(p) \/ SaveOnly(p) \/ StageDelete(p) \/ StageBaseline(p)
  BY <1>2 DEF StageRow, SaveOnly, StageDelete, StageBaseline, Goto, guard
<1>3. CASE \/ StageRefused(p) \/ StageBusy(p) \/ FileLockTimeout(p)
           \/ CommitFails(p) \/ AnswerFailure(p) \/ Commit(p)
  BY <1>3 DEF StageRefused, StageBusy, FileLockTimeout, CommitFails, AnswerFailure, Commit,
              Rollback, Close, guard
<1>4. CASE TryFileLock(p) \/ LeaveGuard(p) \/ FlushBusy(p)
  BY <1>4 DEF TryFileLock, LeaveGuard, FlushBusy, Goto
<1>5. CASE FollowUp(p) \/ CheckValid(p) \/ WriteFile(p) \/ LoadFails(p)
  BY <1>5 DEF FollowUp, CheckValid, WriteFile, LoadFails, Goto, guard
<1>6. CASE InspectUnmanaged(p) \/ InspectAndRender(p) \/ FlushRendered(p)
  BY <1>6 DEF InspectUnmanaged, InspectAndRender, FlushRendered, Leave, Goto, guard
<1>7. CASE CheckNoChange(p) \/ CheckFails(p) \/ WriteFails(p) \/ RestoreFile(p)
  BY <1>7 DEF CheckNoChange, CheckFails, WriteFails, RestoreFile, Leave, Goto, guard
<1>8. CASE Load(p) \/ RecordSync(p)
  BY <1>8 DEF Load, RecordSync, AfterLoad, Goto, guard
<1>9. CASE Reformat(p)
  BY <1>9 DEF Reformat, Goto, guard
<1>10. CASE OnboardAlready(p) \/ OnboardUnreachable(p) \/ OnboardReachable(p) \/ OnboardImport(p)
  BY <1>10 DEF OnboardAlready, OnboardUnreachable, OnboardReachable, OnboardImport, Leave, Goto, guard
<1> QED
  BY <1>1, <1>2, <1>3, <1>4, <1>5, <1>6, <1>7, <1>8, <1>9, <1>10 DEF Step, SyncStep

\* Everything that is needed for the rest.
DeployedInv == AgreeInv /\ Told /\ TakeoverInv /\ StoredInv

LEMMA OwnStepKept ==
    ASSUME Steady, DeployedInv, NEW p \in Request, Begin(p) \/ EnterGuard(p) \/ Step(p)
    PROVE  /\ Kept(p)
           /\ \/ Plain(p)
              \/ CommittedKept /\ (WriteFile(p) \/ Load(p) \/ RestoreFile(p) \/ Commit(p))
<1> USE DEF DeployedInv, AgreeInv, PersistInv
<1>1. CASE Begin(p)
  BY <1>1, BeginKept
<1>2. CASE EnterGuard(p) \/ TryFileLock(p) \/ LeaveGuard(p)
  BY <1>2, GuardKept
<1>3. CASE StageRow(p) \/ SaveOnly(p) \/ StageDelete(p) \/ StageBaseline(p)
  BY <1>3, StageKept
<1>4. CASE \/ StageRefused(p) \/ StageBusy(p) \/ FileLockTimeout(p) \/ FlushBusy(p)
           \/ CommitFails(p) \/ AnswerFailure(p)
  BY <1>4, RollbackKept
<1>5. CASE \/ InspectUnmanaged(p) \/ CheckFails(p) \/ WriteFails(p)
           \/ OnboardAlready(p) \/ OnboardUnreachable(p)
  BY <1>5, FailureKept
<1>6. CASE \/ InspectAndRender(p) \/ FlushRendered(p) \/ CheckValid(p)
           \/ OnboardReachable(p) \/ OnboardImport(p)
  BY <1>6, RenderKept
<1>7. CASE CheckNoChange(p)
  BY <1>7, NoChangeKept
<1>8. CASE LoadFails(p)
  BY <1>8, LoadFailsKept
<1>9. CASE Reformat(p)
  BY <1>9, ReformatKept
<1>10. CASE FollowUp(p)
  BY <1>10, FollowUpKept
<1>11. CASE WriteFile(p)
  BY <1>11, WriteKept
<1>12. CASE Load(p)
  BY <1>12, LoadKept
<1>13. CASE RestoreFile(p)
  BY <1>13, RestoreKept
<1>14. CASE Commit(p)
  BY <1>14, CommitKept
<1>15. ~RecordSync(p)
  BY DEF RecordSync, StoredInv, Discipline
<1> HIDE DEF DeployedInv, AgreeInv, PersistInv
<1> QED
  BY <1>1, <1>2, <1>3, <1>4, <1>5, <1>6, <1>7, <1>8, <1>9, <1>10, <1>11, <1>12, <1>13, <1>14, <1>15
     DEF Step, SyncStep

LEMMA StoredStep ==
    ASSUME Steady, DeployedInv, [Next]_vars
    PROVE  StoredInv'
<1>1. SafeInv /\ StoredInv
  BY DEF DeployedInv, AgreeInv, PersistInv
<1>2. ASSUME NEW p \in Request, Begin(p) \/ EnterGuard(p) \/ Step(p) PROVE StoredInv'
  <2>1. (Plain(p) \/ CommittedKept) /\ Kept(p)
    BY <1>2, OwnStepKept
  <2>2. \A q \in Request \ {p} : pc'[q] = pc[q] /\ sess'[q] = sess[q]
    BY <1>1, <1>2, OthersKept DEF SafeInv
  <2>3. /\ \A q \in Request \ {p} : dbLock' = q <=> dbLock = q
        /\ (\E q \in Request \ {p} : dbLock = q) => UNCHANGED <<db, tx, runtime>>
        /\ \A w \in Worker : ready'[w]
    BY <1>1, <1>2, HolderStep
  <2>4. CommittedKept
    BY <1>1, <2>1, <2>2, <2>3, PlainKeeps
  <2>5. FlockUsed'
    BY <1>1, <1>2, FlockStep DEF StoredInv
  <2>6. \A q \in Request \ {p} :
           /\ Discipline(pc'[q], sess'[q], dbLock' = q)
           /\ dbLock' = q => Carried(q)'
    <3> SUFFICES ASSUME NEW q \in Request \ {p}
                 PROVE  /\ Discipline(pc'[q], sess'[q], dbLock' = q)
                        /\ dbLock' = q => Carried(q)'
      OBVIOUS
    <3>1. Discipline(pc[q], sess[q], dbLock = q) /\ (dbLock = q => Carried(q))
      BY <1>1 DEF StoredInv
    <3>2. pc'[q] = pc[q] /\ sess'[q] = sess[q] /\ (dbLock' = q <=> dbLock = q)
      BY <2>2, <2>3
    <3>3. Discipline(pc'[q], sess'[q], dbLock' = q)
      BY <3>1, <3>2 DEF Discipline
    <3>4. dbLock' = q => Carried(q)'
      BY <2>3, <3>1, <3>2 DEF Carried, Near
    <3> QED BY <3>3, <3>4
  <2> QED BY <2>1, <2>3, <2>4, <2>5, <2>6 DEF StoredInv, Kept, CommittedKept
<1>3. ASSUME NEW p \in Request, BeginReconcile(p) PROVE FALSE
  BY <1>1, <1>3, DeployAssumption DEF BeginReconcile, StoredInv
<1>4. ~Crash /\ ~CaddyRestart
  BY DEF Crash, CaddyRestart, Steady, CleanRun, DeployedInv, AgreeInv, PersistInv, SafeInv, TypeInv, TypeOK
<1>5. CASE UNCHANGED vars
  <2>1. UNCHANGED <<db, tx, dbLock, flock, file, runtime, ready, pc, sess>>
    BY <1>5 DEF vars
  <2>2. \A q \in Request : Discipline(pc'[q], sess'[q], dbLock' = q)
    BY <1>1, <2>1 DEF StoredInv
  <2>3. \A q \in Request : dbLock' = q => Carried(q)'
    BY <1>1, <2>1 DEF StoredInv, Carried, Near
  <2> QED
    BY <1>1, <2>1, <2>2, <2>3 DEF StoredInv, FlockUsed, CommittedRuns, ManagedIsSynced, Near
<1> QED BY <1>2, <1>3, <1>4, <1>5 DEF Next

LEMMA DeployedInvariant == ASSUME Steady PROVE Spec => []DeployedInv
<1>1. Init => DeployedInv
  BY AgreeInit, TakeoverInit, StoredInit DEF DeployedInv, Init, Told
<1>2. DeployedInv /\ [Next]_vars => DeployedInv'
  BY AgreeStep, ToldStep, TakeoverStep, StoredStep DEF DeployedInv, AgreeInv, PersistInv, Steady
<1> QED
  BY <1>1, <1>2, PTL DEF Spec

\* Whenever nothing is being saved, a managed installation serves what its
\* database describes: a change is committed after Caddy has taken it and undone
\* when it has not, for any number of requests and workers.
THEOREM StoredRuns == ASSUME Steady PROVE Spec => []StoredIsDeployed
<1>1. DeployedInv => StoredIsDeployed
  <2> SUFFICES ASSUME DeployedInv, dbLock = None, flock = None, file.managed
               PROVE  Near(runtime, db) /\ file.cfg = runtime
    BY DEF StoredIsDeployed, Near
  <2>1. \A p \in Request : dbLock # p
    BY DeployAssumption
  <2>2. db.lastSynced # None
    BY <2>1 DEF DeployedInv, StoredInv, ManagedIsSynced
  <2>3. Near(runtime, db)
    BY <2>1, <2>2 DEF DeployedInv, StoredInv, CommittedRuns
  <2>4. \A p \in Request : pc[p] \notin {"load", "restore"}
    BY DeployAssumption DEF DeployedInv, AgreeInv, PersistInv, SafeInv, GuardHeld, Guarded
  <2> QED BY <2>3, <2>4 DEF DeployedInv, AgreeInv, Agreement
<1> QED
  BY <1>1, DeployedInvariant, PTL

(***************************************************************************)
(* The refinement: the write of the file and the load open a deployment or *)
(* go on with it, the commit and the failure of a load that was not the    *)
(* follow-up's end it, and every other step stutters.                      *)
(***************************************************************************)
LEMMA NormalType == ASSUME NEW c \in Config PROVE Normal(c) \in Config
BY DeployAssumption DEF Normal, Config

\* A handler that has opened a deployment holds the write lock.
Opening == \E p \in Request : pc[p] = "load" \/ Opened(sess[p])

LEMMA OpenIsOpening == StoredInv => (DeploymentOpen <=> Opening)
<1> SUFFICES ASSUME StoredInv PROVE DeploymentOpen <=> Opening
  OBVIOUS
<1>1. ASSUME NEW p \in Request, pc[p] = "load" \/ Opened(sess[p]) PROVE dbLock = p
  BY <1>1 DEF StoredInv, Discipline, Opened
<1> QED BY <1>1 DEF StoredInv, DeploymentOpen, Opening, Opened

\* Only Load, RecordSync and FollowUp give a handler a deployment, only WriteFile leads to
\* the load.
LEMMA OpenedBefore ==
    ASSUME TypeInv, NEW p \in Request, Begin(p) \/ EnterGuard(p) \/ Step(p),
           ~Load(p), ~RecordSync(p), ~FollowUp(p)
    PROVE  /\ Opened(sess'[p]) => Opened(sess[p])
           /\ pc'[p] = "load" => WriteFile(p)
<1> USE DEF TypeInv, TypeOK, PCs, Session, Opened
<1>1. CASE Begin(p)
  <2>1. CASE \E s \in Site, r \in Row : BeginCreate(p, s, r)
    BY <2>1 DEF BeginCreate, Goto, NewSession
  <2>2. CASE \E s \in Site, r \in Row : BeginUpdate(p, s, r)
    BY <2>2 DEF BeginUpdate, Goto, NewSession
  <2>3. CASE \E s \in Site : BeginDelete(p, s)
    BY <2>3 DEF BeginDelete, Goto, NewSession
  <2>4. CASE \E b \in Baseline : BeginBaseline(p, b)
    BY <2>4 DEF BeginBaseline, Goto, NewSession
  <2>5. CASE \E k \in {"sync", "onboard"} : BeginGuarded(p, k)
    BY <2>5 DEF BeginGuarded, Goto, NewSession
  <2> QED BY <1>1, <2>1, <2>2, <2>3, <2>4, <2>5 DEF Begin
<1>2. CASE EnterGuard(p) \/ TryFileLock(p) \/ LeaveGuard(p)
  BY <1>2 DEF EnterGuard, TryFileLock, LeaveGuard, Goto
<1>3. CASE StageRow(p) \/ SaveOnly(p) \/ StageDelete(p) \/ StageBaseline(p)
  BY <1>3 DEF StageRow, SaveOnly, StageDelete, StageBaseline, Goto
<1>4. CASE StageRefused(p) \/ StageBusy(p) \/ FileLockTimeout(p) \/ FlushBusy(p)
           \/ CommitFails(p) \/ AnswerFailure(p) \/ Commit(p)
  BY <1>4 DEF StageRefused, StageBusy, FileLockTimeout, FlushBusy, CommitFails, AnswerFailure,
              Commit, Rollback, Close, NewSession
<1>5. CASE InspectUnmanaged(p) \/ InspectAndRender(p) \/ FlushRendered(p)
  BY <1>5 DEF InspectUnmanaged, InspectAndRender, FlushRendered, Leave, Goto
<1>6. CASE CheckNoChange(p) \/ CheckFails(p) \/ CheckValid(p)
  BY <1>6 DEF CheckNoChange, CheckFails, CheckValid, Leave, Goto
<1>7. CASE WriteFile(p) \/ WriteFails(p)
  BY <1>7 DEF WriteFile, WriteFails, Leave, Goto
<1>8. CASE LoadFails(p) \/ RestoreFile(p)
  BY <1>8 DEF LoadFails, RestoreFile, Leave, Goto
<1>9. CASE Reformat(p)
  BY <1>9 DEF Reformat, Goto
<1>10. CASE OnboardAlready(p) \/ OnboardUnreachable(p) \/ OnboardReachable(p) \/ OnboardImport(p)
  BY <1>10 DEF OnboardAlready, OnboardUnreachable, OnboardReachable, OnboardImport, Leave, Goto
<1> QED
  BY <1>1, <1>2, <1>3, <1>4, <1>5, <1>6, <1>7, <1>8, <1>9, <1>10 DEF Step, SyncStep

\* A step that leaves the database, Caddy and the open deployments alone.
LEMMA StutterStep ==
    ASSUME StoredInv, StoredInv', UNCHANGED <<db, runtime>>, Opening' <=> Opening
    PROVE  UNCHANGED Contract!contractVars
<1>1. DeploymentOpen' <=> DeploymentOpen
  <2>1. DeploymentOpen <=> Opening
    BY OpenIsOpening
  <2>2. DeploymentOpen' <=> Opening'
    BY OpenIsOpening, PTL
  <2> QED BY <2>1, <2>2
<1> QED BY <1>1 DEF Contract!contractVars

LEMMA DeployWhenOpen ==
    ASSUME TypeInv', UNCHANGED db, DeploymentOpen'
    PROVE  Contract!Deploy
<1>1. Normal(runtime') \in Config
  BY NormalType DEF TypeInv, TypeOK
<1> QED BY <1>1 DEF Contract!Deploy

LEMMA DeployStep ==
    ASSUME DeployedInv', StoredInv', UNCHANGED db, Opening'
    PROVE  Contract!Deploy
<1>1. DeploymentOpen'
  BY OpenIsOpening, PTL
<1> QED BY <1>1, DeployWhenOpen DEF DeployedInv, AgreeInv, PersistInv, SafeInv

LEMMA ContractStep ==
    ASSUME Steady, DeployedInv, DeployedInv', [Next]_vars
    PROVE  [Contract!ContractNext]_(Contract!contractVars)
<1>1. /\ SafeInv /\ StoredInv /\ TakeoverInv /\ StoredInv'
  BY DEF DeployedInv, AgreeInv, PersistInv
<1>2. ASSUME NEW p \in Request, Begin(p) \/ EnterGuard(p) \/ Step(p)
      PROVE  [Contract!ContractNext]_(Contract!contractVars)
  <2>1. \A q \in Request \ {p} : pc'[q] = pc[q] /\ sess'[q] = sess[q]
    BY <1>1, <1>2, OthersKept DEF SafeInv
  <2>2. /\ Kept(p)
        /\ \/ Plain(p)
           \/ CommittedKept /\ (WriteFile(p) \/ Load(p) \/ RestoreFile(p) \/ Commit(p))
    BY <1>2, OwnStepKept
  <2>3. Discipline(pc[p], sess[p], dbLock = p)
    BY <1>1 DEF StoredInv
  \* nobody else can have opened a deployment
  <2>4. dbLock = p => \A q \in Request \ {p} : pc[q] # "load" /\ ~Opened(sess[q])
    BY <1>1 DEF StoredInv, Discipline, Opened
  <2>5. CASE WriteFile(p)
    <3>1. UNCHANGED db /\ pc'[p] = "load"
      BY <1>1, <2>5 DEF WriteFile, Goto, store, SafeInv, TypeInv, TypeOK
    <3>2. Opening'
      BY <3>1 DEF Opening
    <3> QED BY <1>1, <3>1, <3>2, DeployStep DEF Contract!ContractNext
  <2>6. CASE Load(p)
    <3>1. UNCHANGED db /\ sess'[p].result = "synced"
      BY <1>1, <2>3, <2>6 DEF Load, Discipline, SafeInv, TypeInv, TypeOK, Session
    <3>2. Opening'
      BY <3>1 DEF Opening, Opened
    <3> QED BY <1>1, <3>1, <3>2, DeployStep DEF Contract!ContractNext
  <2>7. CASE FollowUp(p)
    <3>1. UNCHANGED db /\ sess'[p].again
      BY <1>1, <2>7 DEF FollowUp, store, SafeInv, TypeInv, TypeOK, Session
    <3>2. Opening'
      BY <3>1 DEF Opening, Opened
    <3> QED BY <1>1, <3>1, <3>2, DeployStep DEF Contract!ContractNext
  \* a failed follow-up leaves the deployment of the first sync open; any other
  \* failed load finds in Caddy what is stored
  <2>8. CASE LoadFails(p)
    <3>1. dbLock = p /\ pc[p] = "load"
      BY <2>3, <2>8 DEF LoadFails, Discipline
    <3>2. UNCHANGED <<db, runtime, sess>> /\ pc'[p] = "restore"
      BY <1>1, <2>8 DEF LoadFails, Steady, CleanRun, Goto, store, SafeInv, TypeInv, TypeOK
    <3>3. CASE Opened(sess[p])
      <4>1. Opening /\ Opening'
        BY <3>2, <3>3 DEF Opening
      <4> QED BY <1>1, <3>2, <4>1, StutterStep
    <3>4. CASE ~Opened(sess[p])
      <4>1. Opening /\ ~Opening'
        BY <2>1, <2>4, <3>1, <3>2, <3>4 DEF Opening
      <4>2. DeploymentOpen /\ ~DeploymentOpen'
        <5>1. DeploymentOpen <=> Opening
          BY <1>1, OpenIsOpening
        <5>2. DeploymentOpen' <=> Opening'
          BY <1>1, OpenIsOpening, PTL
        <5> QED BY <4>1, <5>1, <5>2
      <4>3. db.lastSynced # None => Near(runtime, db)
        BY <1>1, <3>1, <3>4 DEF StoredInv, CommittedRuns
      <4>4. Contract!Store \/ Contract!GiveUp
        BY <3>2, <4>2, <4>3 DEF Contract!Store, Contract!GiveUp, Near
      <4> QED BY <4>4 DEF Contract!ContractNext
    <3> QED BY <3>3, <3>4
  \* what is committed is what Caddy runs; after "no_change" it was so before
  <2>9. CASE Commit(p)
    <3>1. /\ dbLock = p /\ dbLock' = None /\ UNCHANGED runtime
          /\ Deployed(sess[p])
          /\ Render(db') = Render(tx) /\ db'.lastSynced = tx.lastSynced
          /\ Near(runtime, tx) /\ tx.lastSynced # None
          /\ pc'[p] = "idle" /\ sess'[p] = NewSession("sync")
      BY <1>1, <2>9, CommitDeployed
    <3>2. ~Opening'
      BY <2>1, <2>4, <3>1 DEF Opening, Opened, NewSession
    <3>3. ~DeploymentOpen'
      <4>1. DeploymentOpen' <=> Opening'
        BY <1>1, OpenIsOpening, PTL
      <4> QED BY <3>2, <4>1
    <3>4. db'.lastSynced # None /\ Normal(Render(db')) = Normal(runtime)
      BY <3>1 DEF Near
    <3>5. DeploymentOpen <=> Opening
      BY <1>1, OpenIsOpening
    <3>6. CASE Opened(sess[p])
      <4>1. DeploymentOpen
        BY <3>5, <3>6 DEF Opening
      <4>2. Contract!Store
        BY <3>1, <3>3, <3>4, <4>1 DEF Contract!Store
      <4> QED BY <4>2 DEF Contract!ContractNext
    <3>7. CASE ~Opened(sess[p])
      <4>1. ~DeploymentOpen
        BY <2>4, <2>9, <3>1, <3>5, <3>7 DEF Opening, Commit
      <4>2. sess[p].kind # "onboard"
        BY <2>3, <3>1, <3>7 DEF Discipline, Deployed, Opened
      <4>3. db.lastSynced # None
        BY <1>1, <3>1, <4>2 DEF StoredInv, Carried
      <4>4. Near(runtime, db)
        BY <1>1, <3>1, <3>7, <4>3 DEF StoredInv, CommittedRuns
      <4>5. Normal(Render(db')) = Normal(Render(db)) /\ UNCHANGED runtime
        BY <3>1, <3>4, <4>4 DEF Near
      <4>6. DeploymentOpen' = DeploymentOpen
        BY <3>3, <4>1 DEF DeploymentOpen
      <4>7. UNCHANGED Contract!contractVars
        BY <3>4, <4>3, <4>5, <4>6 DEF Contract!contractVars
      <4> QED BY <4>7
    <3> QED BY <3>6, <3>7
  <2>10. CASE RestoreFile(p)
    <3>1. UNCHANGED <<db, runtime>> /\ pc[p] = "restore" /\ pc'[p] = "unlock"
      BY <1>1, <2>10 DEF RestoreFile, Leave, Goto, SafeInv, TypeInv, TypeOK
    <3>2. sess'[p].again = sess[p].again /\ sess'[p].result = "failed"
      BY <1>1, <2>10 DEF RestoreFile, Leave, SafeInv, TypeInv, TypeOK, Session
    <3>3. Opened(sess'[p]) <=> Opened(sess[p])
      BY <2>3, <3>1, <3>2 DEF Opened, Discipline
    <3>4. Opening' <=> Opening
      BY <2>1, <3>1, <3>3 DEF Opening
    <3> QED BY <1>1, <3>1, <3>4, StutterStep
  <2>12. ~RecordSync(p)
    BY <2>3 DEF RecordSync, Discipline
  <2>11. CASE /\ ~WriteFile(p) /\ ~Load(p) /\ ~FollowUp(p)
              /\ ~LoadFails(p) /\ ~Commit(p) /\ ~RestoreFile(p)
    <3>1. Plain(p)
      BY <2>2, <2>11
    <3>2. Opened(sess[p]) => Opened(sess'[p])
      BY <2>3, <3>1 DEF Plain, Discipline, Opened
    <3>3. Opened(sess'[p]) => Opened(sess[p])
      BY <1>1, <1>2, <2>11, <2>12, OpenedBefore DEF SafeInv
    <3>4. pc[p] # "load" /\ pc'[p] # "load"
      <4>1. pc'[p] # "load"
        BY <1>1, <1>2, <2>11, <2>12, OpenedBefore DEF SafeInv
      <4>2. pc[p] # "load"
        BY <1>1, <1>2, <2>11, QuietOrNoisy DEF Quiet, Noisy, CheckValid, SafeInv
      <4> QED BY <4>1, <4>2
    <3>5. Opening' <=> Opening
      BY <2>1, <3>2, <3>3, <3>4 DEF Opening
    <3> QED BY <1>1, <3>1, <3>5, StutterStep DEF Plain
  <2> QED BY <2>5, <2>6, <2>7, <2>8, <2>9, <2>10, <2>11
<1>3. ASSUME NEW p \in Request, BeginReconcile(p) PROVE FALSE
  BY <1>1, <1>3, DeployAssumption DEF BeginReconcile, StoredInv
<1>4. ~Crash /\ ~CaddyRestart
  BY <1>1 DEF Crash, CaddyRestart, Steady, CleanRun, SafeInv, TypeInv, TypeOK
<1>5. CASE UNCHANGED vars
  <2>1. UNCHANGED <<db, runtime, pc, sess>>
    BY <1>5 DEF vars
  <2>2. Opening' <=> Opening
    BY <2>1 DEF Opening
  <2> QED BY <1>1, <2>1, <2>2, StutterStep
<1> QED BY <1>2, <1>3, <1>4, <1>5 DEF Next

LEMMA ContractInitially == Init => Contract!ContractInit
<1> SUFFICES ASSUME Init PROVE Contract!ContractInit
  OBVIOUS
<1>1. Normal(runtime) \in Config
  BY TypeInit, NormalType DEF TypeInv, TypeOK
<1>2. ~DeploymentOpen
  BY DeployAssumption DEF Init, DeploymentOpen
<1>3. db.lastSynced # None => runtime = Render(db)
  BY DEF Init, InitFresh, InitManaged
<1> QED BY <1>1, <1>2, <1>3 DEF Contract!ContractInit

\* The handlers, the locks and the files implement "save and deploy": Caddy
\* changes only in a deployment, and a deployment ends with what Caddy runs
\* stored.
THEOREM DeployImplementsContract == ASSUME Steady PROVE Spec => Contract!ContractSafety
<1>1. Init => Contract!ContractInit
  BY ContractInitially
<1>2. DeployedInv /\ DeployedInv' /\ [Next]_vars => [Contract!ContractNext]_(Contract!contractVars)
  BY ContractStep
<1> QED
  BY <1>1, <1>2, DeployedInvariant, PTL DEF Spec, Contract!ContractSafety

-----------------------------------------------------------------------------
(***************************************************************************)
(* Crashes: the same refinement for one request at a time, of any kind but *)
(* onboarding, with crashes of the application at any step and restarts of *)
(* Caddy at any time.                                                      *)
(***************************************************************************)
\* The conditions.  One slot, for an update or a sync beside another request
\* breaks the contract without a crash; a managed installation, for a crash in
\* the takeover loses the operator's configuration (CaddyDeployTakeoverCrash.cfg);
\* and the reconcile succeeds: one that fails leaves the worker ready.
Recovering ==
    /\ \A p, q \in Request : p = q
    /\ \A v, w \in Worker : v = w
    /\ Faults \subseteq {"caddy_restart"}
    /\ "onboard" \notin Kinds
    /\ ~Fresh

AllReady == \A w \in Worker : ready[w]

\* p has Caddy in its hands, or has made it run what it is about to commit.
Deploying(p) == dbLock = p /\ (pc[p] = "load" \/ Opened(sess[p]))

\* What a handler at l with the locals x does and holds (h: the write lock).
Solo(l, x, h, r) ==
    /\ x.kind # "onboard" /\ l \notin {"import", "restore"}
    /\ l = "reformat" => h
    /\ l = "record" => ~h /\ x.kind \in {"sync", "reconcile", "baseline"}
    /\ l # "idle" => (x.kind = "reconcile" <=> ~r)
    /\ l \in {"idle", "stage"} => ~h /\ ~x.again /\ x.result = "none"
    /\ x.result \in {"saved", "synced", "no_change"} => l \in {"unlock", "reformat", "answer"}
    /\ x.result = "saved" => h /\ ~x.again /\ x.kind = "update"
    /\ x.again => x.kind \in {"create", "update"}
    /\ x.kind \in {"create", "update", "delete"} /\ l \notin {"idle", "stage"} => h
    /\ x.kind = "reconcile" /\ l \in {"unlock", "reformat", "answer"} => x.result = "synced"

\* What it has rendered is what it sees, and what Caddy runs once it says so.
Sees(p) ==
    /\ sess[p].kind = "update" /\ pc[p] = "stage" => db.rows[sess[p].site] = sess[p].seen
    /\ sess[p].kind = "update" /\ pc[p] \notin {"idle", "stage"} =>
           tx.rows[sess[p].site] = sess[p].row
    /\ pc[p] \in {"flush", "check", "write", "load"} => sess[p].rendered = Render(View(p))
    /\ Deployed(sess[p]) => Near(runtime, View(p))
    /\ sess[p].result = "saved" => Render(tx) = Render(db)
    /\ pc[p] = "record" => Near(runtime, db)
    /\ sess[p].kind = "reconcile" /\ pc[p] \in {"guard", "flock", "inspect", "flush", "check", "write"} =>
           Render(View(p)) = Render(db)

\* Any start finds a managed Caddyfile and rows that Caddy accepts.
Recoverable ==
    /\ file.managed
    /\ db.lastSynced # None /\ tx.lastSynced # None
    /\ Valid(Render(db))

RunsStored == AllReady /\ (\A p \in Request : ~Deploying(p)) => Near(runtime, db)

\* A Caddyfile is not what Caddy runs before the load, and after a crash until
\* the reconcile has loaded.
FileIsCaddys ==
    /\ \A p \in Request : pc[p] # "load"
    /\ AllReady \/ \E p \in Request : pc[p] = "record" \/ sess[p].result = "synced"
    => file.cfg = runtime

RecoverInv ==
    /\ FlockUsed
    /\ \A p \in Request : Solo(pc[p], sess[p], dbLock = p, ready[WorkerOf[p]])
    /\ \A p \in Request : Sees(p)
    /\ Recoverable
    /\ RunsStored
    /\ FileIsCaddys

RecoveryInv == PersistInv /\ ValidLocals /\ Told /\ RecoverInv

LEMMA RecoverInit == ASSUME Recovering PROVE Init => RecoverInv
<1> SUFFICES ASSUME Init PROVE RecoverInv
  OBVIOUS
<1> USE DeployAssumption
<1>1. db.lastSynced = Render(db) /\ Valid(Render(db)) /\ file.managed /\ tx = db /\ runtime = file.cfg
      /\ file.cfg = Render(db)
  BY DEF Init, InitManaged, Recovering
<1>2. Render(db) \in Config
  BY TypeInit, RenderType DEF TypeInv, TypeOK
<1>3. /\ \A p \in Request : pc[p] = "idle" /\ sess[p] = NewSession("sync") /\ ready[WorkerOf[p]]
      /\ dbLock = None /\ flock = None
  BY DEF Init
<1>4. \A p \in Request : Solo(pc[p], sess[p], dbLock = p, ready[WorkerOf[p]]) /\ Sees(p)
  BY <1>3 DEF Solo, Sees, NewSession, Deployed, Opened
<1> QED
  BY <1>1, <1>2, <1>3, <1>4 DEF RecoverInv, FlockUsed, Recoverable, RunsStored, FileIsCaddys, Near

\* The steps that leave what is stored, the Caddyfile and Caddy alone.
Still(p) ==
    /\ UNCHANGED <<db, file, runtime, ready>>
    /\ tx'.lastSynced # None
    /\ pc[p] # "load" /\ pc'[p] \notin {"load", "record"}
    /\ Deploying(p) => Deploying(p)'
    /\ sess'[p].result = "synced" => sess[p].result = "synced"

\* What p is after its step.
Next1(p) ==
    /\ Solo(pc'[p], sess'[p], dbLock' = p, ready'[WorkerOf[p]])
    /\ Sees(p)'

Stored1 == Recoverable' /\ RunsStored' /\ FileIsCaddys'

LEMMA StillKeeps ==
    ASSUME Recovering, RecoverInv, NEW p \in Request, Still(p)
    PROVE  Stored1
<1>1. \A q \in Request : q = p
  BY DEF Recovering
<1>2. Recoverable'
  BY DEF Still, Recoverable, RecoverInv
<1>3. RunsStored'
  <2>1. ~Deploying(p)' => ~Deploying(p)
    BY DEF Still
  <2>2. AllReady' <=> AllReady
    BY DEF Still, AllReady
  <2> SUFFICES ASSUME AllReady', ~Deploying(p)' PROVE Near(runtime, db)'
    BY DEF RunsStored
  <2>3. Near(runtime, db)
    BY <1>1, <2>1, <2>2 DEF RunsStored, RecoverInv
  <2> QED BY <2>3 DEF Near, Still
<1>4. FileIsCaddys'
  BY <1>1 DEF FileIsCaddys, RecoverInv, Still, AllReady
<1> QED BY <1>2, <1>3, <1>4 DEF Stored1

LEMMA RecoverBegin ==
    ASSUME Recovering, SafeInv, RecoverInv, NEW p \in Request, Begin(p) \/ BeginReconcile(p)
    PROVE  Still(p) /\ Next1(p)
<1> USE DEF SafeInv, TypeInv, TypeOK, PCs
<1>1. /\ pc[p] = "idle" /\ dbLock # p /\ Solo(pc[p], sess[p], FALSE, ready[WorkerOf[p]])
      /\ file.managed /\ tx.lastSynced # None
  BY DEF Begin, BeginCreate, BeginUpdate, BeginDelete, BeginBaseline, BeginGuarded, Arrive,
         BeginReconcile, RecoverInv, Recoverable, Solo
<1>2. UNCHANGED <<db, tx, dbLock, file, runtime, ready>>
  BY <1>1 DEF Begin, BeginCreate, BeginUpdate, BeginDelete, BeginBaseline, BeginGuarded, Arrive,
         BeginReconcile, store, caddy, boot
<1>3. /\ ~sess'[p].again /\ sess'[p].result = "none" /\ sess'[p].kind # "onboard"
      /\ sess'[p].kind = "reconcile" <=> ~ready[WorkerOf[p]]
      /\ \/ pc'[p] = "stage"
         \/ pc'[p] = "guard" /\ sess'[p].kind \in {"sync", "reconcile"}
      /\ sess'[p].kind = "update" => db.rows[sess'[p].site] = sess'[p].seen
  <2>1. CASE \E s \in Site, r \in Row : BeginCreate(p, s, r)
    BY <2>1 DEF BeginCreate, Arrive, Goto, NewSession
  <2>2. CASE \E s \in Site, r \in Row : BeginUpdate(p, s, r)
    BY <2>2 DEF BeginUpdate, Arrive, Goto, NewSession
  <2>3. CASE \E s \in Site : BeginDelete(p, s)
    BY <2>3 DEF BeginDelete, Arrive, Goto, NewSession
  <2>4. CASE \E b \in Baseline : BeginBaseline(p, b)
    BY <2>4 DEF BeginBaseline, Arrive, Goto, NewSession
  <2>5. CASE \E k \in {"sync", "onboard"} : BeginGuarded(p, k)
    BY <2>5 DEF BeginGuarded, Arrive, Goto, NewSession, Recovering
  <2>6. CASE BeginReconcile(p)
    BY <1>1, <2>6 DEF BeginReconcile, Goto, NewSession
  <2> QED BY <2>1, <2>2, <2>3, <2>4, <2>5, <2>6 DEF Begin
<1>4. Still(p)
  BY <1>1, <1>2, <1>3 DEF Still, Deploying
<1>5. Solo(pc'[p], sess'[p], dbLock' = p, ready'[WorkerOf[p]])
  BY <1>1, <1>2, <1>3 DEF Solo
<1>6. Sees(p)'
  BY <1>1, <1>2, <1>3 DEF Sees, Deployed, Opened, View
<1> QED BY <1>4, <1>5, <1>6 DEF Next1

\* What an update stores is the row it was given: nobody wrote it meanwhile.
LEMMA MergedIsNew ==
    ASSUME NEW new \in Row, NEW seen \in Row
    PROVE  [dir |-> IF new.dir # seen.dir THEN new.dir ELSE seen.dir,
            on  |-> IF new.on # seen.on THEN new.on ELSE seen.on] = new
<1>1. new = [dir |-> new.dir, on |-> new.on]
  BY DEF Row
<1> QED BY <1>1

LEMMA RecoverStage ==
    ASSUME Recovering, SafeInv, RecoverInv, NEW p \in Request,
           StageRow(p) \/ SaveOnly(p) \/ StageDelete(p) \/ StageBaseline(p)
    PROVE  Still(p) /\ Next1(p)
<1> USE DEF SafeInv, TypeInv, TypeOK, PCs
<1>1. /\ Solo(pc[p], sess[p], dbLock = p, ready[WorkerOf[p]]) /\ pc[p] = "stage" /\ dbLock # p
      /\ db.lastSynced # None /\ tx.lastSynced # None
  BY DEF RecoverInv, Recoverable, Solo, StageRow, SaveOnly, StageDelete, StageBaseline
<1>2. sess[p].kind = "update" =>
        /\ sess[p].site \in Site /\ sess[p].row \in Row /\ sess[p].seen \in Row
        /\ db.rows[sess[p].site] = sess[p].seen
  BY <1>1 DEF RecoverInv, Sees, BoundLocals, Bound
<1>3. /\ UNCHANGED <<db, file, runtime, ready>>
      /\ tx'.lastSynced # None
      /\ dbLock' = p \/ (sess[p].kind = "baseline" /\ dbLock' = dbLock)
      /\ \/ pc'[p] = "guard" /\ UNCHANGED sess
         \/ /\ pc'[p] = "answer" /\ sess[p].kind = "update" /\ tx' = db /\ dbLock' = p
            /\ sess' = [sess EXCEPT ![p].result = "saved"]
            /\ sess[p].row = sess[p].seen
  <2>1. CASE StageRow(p)
    BY <1>1, <2>1 DEF StageRow, Goto, caddy, boot, DB
  <2>2. CASE SaveOnly(p)
    BY <1>1, <2>2 DEF SaveOnly, Goto, caddy, boot
  <2>3. CASE StageDelete(p)
    BY <1>1, <2>3 DEF StageDelete, Goto, caddy, boot, DB
  <2>4. CASE StageBaseline(p)
    BY <1>1, <2>4 DEF StageBaseline, Goto, caddy, boot, DB
  <2> QED BY <2>1, <2>2, <2>3, <2>4
<1>4. /\ sess'[p].kind = sess[p].kind /\ sess'[p].again = sess[p].again
      /\ sess'[p].site = sess[p].site /\ sess'[p].row = sess[p].row
      /\ \/ sess'[p].result = "none" /\ pc'[p] = "guard"
         \/ sess'[p].result = "saved" /\ pc'[p] = "answer"
  BY <1>1, <1>3 DEF Solo, Session
<1>5. sess[p].kind = "update" => tx'.rows[sess[p].site] = sess[p].row
  <2> SUFFICES ASSUME sess[p].kind = "update" PROVE tx'.rows[sess[p].site] = sess[p].row
    OBVIOUS
  <2>1. CASE SaveOnly(p)
    BY <1>2, <2>1 DEF SaveOnly
  <2>2. CASE StageRow(p)
    <3> DEFINE new == sess[p].row
               seen == sess[p].seen
               merged == [dir |-> IF new.dir # seen.dir THEN new.dir ELSE seen.dir,
                          on  |-> IF new.on # seen.on THEN new.on ELSE seen.on]
    <3>1. seen # None
      BY <1>2, DeployAssumption
    <3>2. tx' = [db EXCEPT !.rows[sess[p].site] = merged]
      BY <1>2, <2>2, <3>1 DEF StageRow
    <3>3. merged = new
      BY <1>2, MergedIsNew
    <3> HIDE DEF merged, new
    <3>4. tx'.rows[sess[p].site] = new
      BY <1>2, <3>2, <3>3 DEF DB
    <3> QED BY <3>4 DEF new
  <2> QED BY <2>1, <2>2 DEF StageDelete, StageBaseline
<1>6. Still(p)
  BY <1>1, <1>3, <1>4 DEF Still, Deploying, Opened, Solo
<1>7. Solo(pc'[p], sess'[p], dbLock' = p, ready'[WorkerOf[p]])
  BY <1>1, <1>3, <1>4 DEF Solo
<1>8. Sees(p)'
  <2>1. ~Deployed(sess'[p])
    BY <1>1, <1>4 DEF Deployed, Opened, Solo
  <2>2. sess'[p].result = "saved" => Render(tx') = Render(db')
    BY <1>3, <1>4
  <2>3. sess'[p].kind # "reconcile"
    BY <1>4 DEF StageRow, SaveOnly, StageDelete, StageBaseline
  <2> QED BY <1>4, <1>5, <2>1, <2>2, <2>3 DEF Sees
<1> QED BY <1>6, <1>7, <1>8 DEF Next1

LEMMA RecoverGuard ==
    ASSUME Recovering, SafeInv, RecoverInv, NEW p \in Request,
           EnterGuard(p) \/ TryFileLock(p) \/ LeaveGuard(p)
    PROVE  Still(p) /\ Next1(p)
<1> USE DEF SafeInv, TypeInv, TypeOK, PCs
<1>1. /\ UNCHANGED <<db, tx, dbLock, file, runtime, ready, sess>>
      /\ \/ pc[p] = "guard" /\ pc'[p] = "flock"
         \/ pc[p] = "flock" /\ pc'[p] = "inspect"
         \/ pc[p] = "unlock" /\ pc'[p] = "answer"
  BY DEF EnterGuard, TryFileLock, LeaveGuard, Goto, store, caddy, boot
<1>2. Solo(pc[p], sess[p], dbLock = p, ready[WorkerOf[p]]) /\ Sees(p) /\ tx.lastSynced # None
  BY DEF RecoverInv, Recoverable
<1>3. Still(p)
  BY <1>1, <1>2 DEF Still, Deploying
<1>4. Solo(pc'[p], sess'[p], dbLock' = p, ready'[WorkerOf[p]])
  BY <1>1, <1>2 DEF Solo
<1>5. Sees(p)'
  BY <1>1, <1>2 DEF Sees, View, Near
<1> QED BY <1>3, <1>4, <1>5 DEF Next1

\* With one slot and nothing refused neither lock is ever waited for in vain.
LEMMA NobodyElse ==
    ASSUME Recovering, SafeInv, RecoverInv, NEW p \in Request
    PROVE  /\ ~Busy(p) /\ ~StageBusy(p) /\ ~FlushBusy(p) /\ ~FileLockTimeout(p) /\ ~CommitFails(p)
           /\ ~WriteFails(p) /\ ~LoadFails(p) /\ ~RestoreFile(p)
           /\ ~InspectUnmanaged(p)
           /\ ~OnboardAlready(p) /\ ~OnboardUnreachable(p) /\ ~OnboardReachable(p) /\ ~OnboardImport(p)
<1> USE DEF SafeInv, TypeInv, TypeOK, RecoverInv
<1>1. \A q \in Request : q = p
  BY DEF Recovering
<1>2. ~Busy(p)
  BY <1>1 DEF Busy
<1>3. ~FileLockTimeout(p)
  <2> SUFFICES ASSUME FileLockTimeout(p) PROVE FALSE
    OBVIOUS
  <2>1. flock = p /\ pc[p] = "flock"
    BY <1>1 DEF FileLockTimeout
  <2> QED BY <2>1, DeployAssumption DEF FlockUsed, Guarded
<1>4. Solo(pc[p], sess[p], dbLock = p, ready[WorkerOf[p]]) /\ file.managed
  BY DEF Recoverable
<1>5. ~RestoreFile(p) /\ ~OnboardAlready(p) /\ ~OnboardUnreachable(p) /\ ~OnboardReachable(p)
      /\ ~OnboardImport(p) /\ ~InspectUnmanaged(p)
  BY <1>4 DEF Solo, RestoreFile, OnboardAlready, OnboardUnreachable, OnboardReachable, OnboardImport,
              InspectUnmanaged
<1>6. ~StageBusy(p) /\ ~FlushBusy(p)
  BY <1>2 DEF StageBusy, FlushBusy
<1>7. ~CommitFails(p) /\ ~WriteFails(p) /\ ~LoadFails(p)
  BY <1>2 DEF CommitFails, WriteFails, LoadFails, Recovering
<1> QED BY <1>2, <1>3, <1>5, <1>6, <1>7

\* A request that ends without a commit has changed nothing that is left.
LEMMA RecoverRollback ==
    ASSUME Recovering, SafeInv, RecoverInv, NEW p \in Request,
           StageRefused(p) \/ AnswerFailure(p)
    PROVE  Still(p) /\ Next1(p)
<1> USE DEF SafeInv, TypeInv, TypeOK, PCs
<1>1. Solo(pc[p], sess[p], dbLock = p, ready[WorkerOf[p]])
      /\ db.lastSynced # None /\ tx.lastSynced # None
  BY DEF RecoverInv, Recoverable
<1>2. /\ Rollback(p) /\ UNCHANGED <<file, runtime>>
      /\ pc[p] \in {"stage", "answer"} /\ ~Opened(sess[p])
      /\ sess[p].kind # "reconcile"
  <2>1. CASE StageRefused(p)
    BY <1>1, <2>1 DEF StageRefused, Solo, Opened, caddy
  <2>2. CASE AnswerFailure(p)
    BY <1>1, <2>2 DEF AnswerFailure, MustCommit, Solo, Opened, caddy
  <2> QED BY <2>1, <2>2
<1>3. ready[WorkerOf[p]]
  BY <1>1, <1>2 DEF Solo
<1>4. /\ UNCHANGED <<db, ready>> /\ tx'.lastSynced # None
      /\ pc'[p] = "idle" /\ sess'[p] = NewSession("sync") /\ dbLock' # p
  <2>1. WorkerOf[p] \in Worker
    BY DeployAssumption
  <2>2. UNCHANGED ready
    BY <1>2, <1>3, <2>1 DEF Rollback, Close
  <2> QED BY <1>1, <1>2, <2>2, DeployAssumption DEF Rollback, Close
<1>5. Still(p)
  BY <1>2, <1>4 DEF Still, Deploying, NewSession
<1>6. Solo(pc'[p], sess'[p], dbLock' = p, ready'[WorkerOf[p]]) /\ Sees(p)'
  BY <1>4 DEF Solo, Sees, NewSession, Deployed, Opened
<1> QED BY <1>5, <1>6 DEF Next1

\* Only a rendering of a request's own can be refused: the rows of a start are
\* accepted.
LEMMA RecoverFailure ==
    ASSUME Recovering, SafeInv, RecoverInv, NEW p \in Request, CheckFails(p)
    PROVE  Still(p) /\ Next1(p)
<1> USE DEF SafeInv, TypeInv, TypeOK, PCs
<1>1. /\ Solo(pc[p], sess[p], dbLock = p, ready[WorkerOf[p]]) /\ Sees(p)
      /\ tx.lastSynced # None /\ Valid(Render(db)) /\ pc[p] = "check"
  BY DEF RecoverInv, Recoverable, CheckFails
<1>2. /\ UNCHANGED <<db, dbLock, file, runtime, ready>> /\ NoteError(p)
      /\ pc'[p] = "unlock" /\ sess'[p] = [sess[p] EXCEPT !.result = "failed"]
  BY DEF CheckFails, Leave, Goto, caddy, boot
<1>3. /\ sess'[p].result = "failed" /\ sess'[p].kind = sess[p].kind
      /\ sess'[p].again = sess[p].again /\ sess'[p].site = sess[p].site /\ sess'[p].row = sess[p].row
  BY <1>2 DEF Session
<1>4. sess[p].kind # "reconcile"
  BY <1>1 DEF CheckFails, Recovering, Sees
<1>5. Render(tx') = Render(tx) /\ tx'.lastSynced = tx.lastSynced
  BY <1>2, NoteErrorKeeps
<1>6. tx'.rows = tx.rows
  BY <1>2 DEF NoteError, DB
<1>7. Still(p)
  BY <1>1, <1>2, <1>3, <1>5 DEF Still, Deploying, Opened, Solo
<1>8. Solo(pc'[p], sess'[p], dbLock' = p, ready'[WorkerOf[p]])
  BY <1>1, <1>2, <1>3, <1>4 DEF Solo
<1>9. Sees(p)'
  <2>1. Render(View(p)') = Render(View(p))
    BY <1>2, <1>5 DEF View
  <2>2. Deployed(sess'[p]) => Deployed(sess[p])
    BY <1>3 DEF Deployed, Opened
  <2> QED BY <1>1, <1>2, <1>3, <1>4, <1>6, <2>1, <2>2 DEF Sees, Near
<1> QED BY <1>7, <1>8, <1>9 DEF Next1

\* A handler alone renders what it sees: its copy of a row is the stored one.
LEMMA RenderOwn ==
    ASSUME SafeInv, NEW p \in Request, pc[p] = "inspect", sess[p].kind # "onboard",
           Solo(pc[p], sess[p], dbLock = p, ready[WorkerOf[p]]), Sees(p)
    PROVE  RenderView(p) = Render(View(p))
<1> USE DEF SafeInv, TypeInv, TypeOK
<1>1. CASE sess[p].kind # "update"
  BY <1>1 DEF RenderView
<1>2. CASE sess[p].kind = "update"
  <2>1. View(p) = tx /\ tx.rows[sess[p].site] = sess[p].row /\ sess[p].site \in Site
    BY <1>2 DEF Solo, Sees, View, BoundLocals, Bound
  <2>a. sess[p].row \in Row
    BY <1>2 DEF BoundLocals, Bound
  <2>b. [tx.rows[sess[p].site] EXCEPT !.dir = sess[p].row.dir] = tx.rows[sess[p].site]
    BY <2>1, <2>a DEF Row
  <2>2. [tx.rows EXCEPT ![sess[p].site] =
            [tx.rows[sess[p].site] EXCEPT !.dir = sess[p].row.dir]] = tx.rows
    BY <2>1, <2>b DEF DB
  <2>3. [tx EXCEPT !.rows[sess[p].site].dir = sess[p].row.dir] = tx
    BY <2>2 DEF DB
  <2> QED BY <2>1, <2>3 DEF RenderView
<1> QED BY <1>1, <1>2

LEMMA RecoverRender ==
    ASSUME Recovering, SafeInv, RecoverInv, NEW p \in Request,
           InspectAndRender(p) \/ FlushRendered(p) \/ CheckValid(p)
    PROVE  Still(p) /\ Next1(p)
<1> USE DEF SafeInv, TypeInv, TypeOK, PCs
<1>1. /\ Solo(pc[p], sess[p], dbLock = p, ready[WorkerOf[p]]) /\ Sees(p)
      /\ db.lastSynced # None /\ tx.lastSynced # None
  BY DEF RecoverInv, Recoverable
<1>2. CASE InspectAndRender(p)
  <2>1. RenderView(p) = Render(View(p))
    BY <1>1, <1>2, RenderOwn DEF InspectAndRender
  <2>2. /\ UNCHANGED <<db, tx, dbLock, file, runtime, ready>>
        /\ pc[p] = "inspect" /\ pc'[p] \in {"flush", "check"}
        /\ sess'[p] = [sess[p] EXCEPT !.rendered = Render(View(p))]
    BY <1>2, <2>1 DEF InspectAndRender, Goto, store, caddy, boot
  <2>3. /\ sess'[p].rendered = Render(View(p)) /\ sess'[p].kind = sess[p].kind
        /\ sess'[p].again = sess[p].again /\ sess'[p].result = sess[p].result
        /\ sess'[p].site = sess[p].site /\ sess'[p].row = sess[p].row
    BY <2>2 DEF Session
  <2>4. Still(p)
    BY <1>1, <2>2, <2>3 DEF Still, Deploying, Opened
  <2>5. Solo(pc'[p], sess'[p], dbLock' = p, ready'[WorkerOf[p]])
    BY <1>1, <2>2, <2>3 DEF Solo
  <2>6. Sees(p)'
    BY <1>1, <2>2, <2>3 DEF Sees, View, Near, Deployed, Opened
  <2> QED BY <2>4, <2>5, <2>6 DEF Next1
<1>3. CASE FlushRendered(p)
  <2>1. /\ UNCHANGED <<db, file, runtime, ready, sess>>
        /\ pc[p] = "flush" /\ pc'[p] = "check" /\ dbLock' = p
        /\ tx' = [View(p) EXCEPT !.rendered = sess[p].rendered]
    BY <1>3 DEF FlushRendered, Goto, caddy, boot
  <2>2. View(p) \in DB /\ View(p).lastSynced # None
    BY <1>1, ViewType DEF View
  <2>3. /\ tx'.base = View(p).base /\ tx'.snap = View(p).snap /\ tx'.rows = View(p).rows
        /\ tx'.lastSynced # None
    BY <2>1, <2>2 DEF DB
  <2>4. Render(View(p)') = Render(View(p))
    BY <2>1, <2>3, SameRendering DEF View
  <2>5. sess[p].kind = "update" => tx'.rows = tx.rows
    BY <1>1, <2>1, <2>3 DEF Solo, View
  <2>6. sess[p].result # "saved"
    BY <1>1, <2>1 DEF Solo
  <2>7. Still(p)
    BY <1>1, <2>1, <2>3 DEF Still, Deploying
  <2>8. Solo(pc'[p], sess'[p], dbLock' = p, ready'[WorkerOf[p]])
    BY <1>1, <2>1 DEF Solo
  <2>9. Sees(p)'
    BY <1>1, <2>1, <2>4, <2>5, <2>6 DEF Sees, Near
  <2> QED BY <2>7, <2>8, <2>9 DEF Next1
<1>4. CASE CheckValid(p)
  <2>1. /\ UNCHANGED <<db, tx, dbLock, file, runtime, ready, sess>>
        /\ pc[p] = "check" /\ pc'[p] = "write"
    BY <1>4 DEF CheckValid, Goto, store, caddy, boot
  <2>2. Still(p)
    BY <1>1, <2>1 DEF Still, Deploying
  <2>3. Solo(pc'[p], sess'[p], dbLock' = p, ready'[WorkerOf[p]])
    BY <1>1, <2>1 DEF Solo
  <2>4. Sees(p)'
    BY <1>1, <2>1 DEF Sees, View, Near
  <2> QED BY <2>2, <2>3, <2>4 DEF Next1
<1> QED BY <1>2, <1>3, <1>4

LEMMA OneWorker ==
    ASSUME Recovering, NEW p \in Request
    PROVE  AllReady <=> ready[WorkerOf[p]]
BY DeployAssumption DEF Recovering, AllReady

LEMMA RecoverNoChange ==
    ASSUME Recovering, SafeInv, RecoverInv, NEW p \in Request, CheckNoChange(p)
    PROVE  Still(p) /\ Next1(p)
<1> USE DEF SafeInv, TypeInv, TypeOK, PCs
<1>1. /\ Solo(pc[p], sess[p], dbLock = p, ready[WorkerOf[p]]) /\ Sees(p)
      /\ tx.lastSynced # None /\ pc[p] = "check"
  BY DEF RecoverInv, Recoverable, CheckNoChange
<1>2. /\ UNCHANGED <<db, tx, dbLock, file, runtime, ready>>
      /\ pc'[p] = "unlock" /\ sess'[p] = [sess[p] EXCEPT !.result = "no_change"]
  BY <1>1 DEF CheckNoChange, Leave, Goto, store, caddy, boot
<1>3. /\ sess'[p].result = "no_change" /\ sess'[p].kind = sess[p].kind
      /\ sess'[p].again = sess[p].again /\ sess'[p].site = sess[p].site /\ sess'[p].row = sess[p].row
  BY <1>2 DEF Session
<1>4. ~sess[p].again /\ sess[p].kind # "reconcile" /\ file.cfg = sess[p].rendered
  BY DEF CheckNoChange, Unchanged, Forced
\* no crash since the last load: the Caddyfile is what Caddy runs
<1>5. Near(runtime, View(p))
  <2>1. AllReady
    BY <1>1, <1>4, OneWorker DEF Solo
  <2>2. \A q \in Request : pc[q] # "load"
    BY <1>1 DEF Recovering
  <2>3. file.cfg = runtime
    BY <2>1, <2>2 DEF RecoverInv, FileIsCaddys
  <2> QED BY <1>1, <1>4, <2>3 DEF Sees, Near
<1>6. Still(p)
  BY <1>1, <1>2, <1>3, <1>4 DEF Still, Deploying, Opened, Solo
<1>7. Solo(pc'[p], sess'[p], dbLock' = p, ready'[WorkerOf[p]])
  BY <1>1, <1>2, <1>3, <1>4 DEF Solo
<1>8. Sees(p)'
  BY <1>1, <1>2, <1>3, <1>4, <1>5 DEF Sees, View, Near
<1> QED BY <1>6, <1>7, <1>8 DEF Next1

LEMMA RecoverWrite ==
    ASSUME Recovering, SafeInv, RecoverInv, NEW p \in Request, WriteFile(p)
    PROVE  Stored1 /\ Next1(p)
<1> USE DEF SafeInv, TypeInv, TypeOK, PCs
<1>1. /\ Solo(pc[p], sess[p], dbLock = p, ready[WorkerOf[p]]) /\ Sees(p) /\ pc[p] = "write"
  BY DEF RecoverInv, WriteFile
<1>2. /\ UNCHANGED <<db, tx, dbLock, runtime, ready>> /\ pc'[p] = "load"
      /\ file'.managed /\ sess'[p] = [sess[p] EXCEPT !.prev = file]
  BY DEF WriteFile, Goto, store, boot
<1>3. /\ sess'[p].rendered = sess[p].rendered
      /\ sess'[p].result = sess[p].result /\ sess'[p].kind = sess[p].kind
      /\ sess'[p].again = sess[p].again /\ sess'[p].site = sess[p].site /\ sess'[p].row = sess[p].row
  BY <1>2 DEF Session
<1>4. Recoverable' /\ FileIsCaddys'
  BY <1>2 DEF RecoverInv, Recoverable, FileIsCaddys
<1>5. RunsStored'
  <2> SUFFICES ASSUME AllReady, dbLock # p PROVE Near(runtime, db)
    BY <1>2 DEF RunsStored, AllReady, Deploying, Near
  <2>1. \A q \in Request : ~Deploying(q)
    BY DEF Recovering, Deploying
  <2> QED BY <2>1 DEF RecoverInv, RunsStored
<1>6. Solo(pc'[p], sess'[p], dbLock' = p, ready'[WorkerOf[p]])
  BY <1>1, <1>2, <1>3 DEF Solo
<1>7. Sees(p)'
  BY <1>1, <1>2, <1>3 DEF Sees, View, Near, Deployed, Opened
<1> QED BY <1>4, <1>5, <1>6, <1>7 DEF Stored1, Next1

LEMMA RecoverLoad ==
    ASSUME Recovering, PersistInv, RecoverInv, NEW p \in Request, Load(p)
    PROVE  Stored1 /\ Next1(p)
<1> USE DEF PersistInv, SafeInv, TypeInv, TypeOK, PCs
<1>1. /\ Solo(pc[p], sess[p], dbLock = p, ready[WorkerOf[p]]) /\ Sees(p) /\ pc[p] = "load"
      /\ file.managed /\ db.lastSynced # None /\ tx.lastSynced # None /\ Valid(Render(db))
  BY DEF RecoverInv, Recoverable, Load
<1>2. /\ UNCHANGED <<db, dbLock, file, ready>>
      /\ runtime' = sess[p].rendered
      /\ IF dbLock = p
         THEN /\ tx' = Recorded(tx, sess[p].rendered)
              /\ pc'[p] \in {"unlock", "reformat"}
              /\ sess'[p] = [sess[p] EXCEPT !.result = "synced"]
         ELSE /\ UNCHANGED <<tx, sess>>
              /\ pc'[p] = "record"
  BY <1>1 DEF Load, AfterLoad, Goto, boot
<1>3. /\ sess'[p].kind = sess[p].kind /\ sess'[p].again = sess[p].again
      /\ sess'[p].site = sess[p].site /\ sess'[p].row = sess[p].row
      /\ sess'[p].result = IF dbLock = p THEN "synced" ELSE sess[p].result
  BY <1>2 DEF Session
<1>4. tx'.base = tx.base /\ tx'.snap = tx.snap /\ tx'.rows = tx.rows /\ tx'.lastSynced # None
  <2>1. sess[p].rendered # None
    BY <1>1, DeployAssumption DEF BoundLocals, Bound
  <2> QED BY <1>1, <1>2, <2>1 DEF Recorded, DB
<1>5. Render(View(p)') = Render(View(p))
  BY <1>2, <1>4, SameRendering DEF View
<1>6. runtime' = Render(View(p))
  BY <1>1, <1>2 DEF Sees
\* the request that changed a row before it asked for the guard holds the lock
<1>7. Solo(pc'[p], sess'[p], dbLock' = p, ready'[WorkerOf[p]])
  BY <1>1, <1>2, <1>3 DEF Solo, Session, AllKinds
<1>8. Sees(p)'
  <2>1. dbLock # p => Near(runtime', db')
    BY <1>2, <1>6 DEF View, Near
  <2> QED BY <1>1, <1>2, <1>3, <1>4, <1>5, <1>6, <2>1 DEF Sees, Near, Solo
<1>9. Recoverable'
  BY <1>1, <1>2, <1>4 DEF Recoverable
<1>10. RunsStored'
  <2> SUFFICES ASSUME dbLock # p PROVE Near(runtime', db')
    BY <1>2, <1>3 DEF RunsStored, Deploying, Opened, Near
  <2> QED BY <1>2, <1>6 DEF View, Near
<1>11. FileIsCaddys'
  BY <1>1, <1>2 DEF FileIsCaddys, Persisted
<1> QED BY <1>7, <1>8, <1>9, <1>10, <1>11 DEF Stored1, Next1

\* A sync that changed nothing before takes the write lock only now.
LEMMA RecoverRecord ==
    ASSUME Recovering, SafeInv, RecoverInv, NEW p \in Request, RecordSync(p)
    PROVE  Stored1 /\ Next1(p) /\ Deploying(p)'
<1> USE DEF SafeInv, TypeInv, TypeOK, PCs
<1>1. /\ Solo(pc[p], sess[p], FALSE, ready[WorkerOf[p]]) /\ Sees(p) /\ pc[p] = "record"
      /\ file.managed /\ db.lastSynced # None /\ Valid(Render(db)) /\ Near(runtime, db)
  BY DEF RecoverInv, Recoverable, RecordSync, Solo, Sees
<1>2. /\ UNCHANGED <<db, file, runtime, ready>> /\ dbLock' = p
      /\ tx' = Recorded(db, sess[p].rendered)
      /\ pc'[p] \in {"unlock", "reformat"}
      /\ sess'[p] = [sess[p] EXCEPT !.result = "synced"]
  BY DEF RecordSync, AfterLoad, Goto, caddy, boot
<1>3. /\ sess'[p].kind = sess[p].kind /\ sess'[p].again = sess[p].again
      /\ sess'[p].result = "synced"
  BY <1>2 DEF Session
<1>4. tx'.base = db.base /\ tx'.snap = db.snap /\ tx'.rows = db.rows /\ tx'.lastSynced # None
  <2>1. sess[p].rendered # None
    BY <1>1, DeployAssumption DEF BoundLocals, Bound
  <2> QED BY <1>2, <2>1 DEF Recorded, DB
<1>5. Near(runtime', View(p)')
  <2>1. Render(tx') = Render(db)
    BY <1>4, SameRendering
  <2>2. View(p)' = tx'
    BY <1>2 DEF View
  <2> QED BY <1>1, <1>2, <2>1, <2>2 DEF Near
<1>6. Solo(pc'[p], sess'[p], dbLock' = p, ready'[WorkerOf[p]])
  BY <1>1, <1>2, <1>3 DEF Solo
<1>7. Sees(p)'
  BY <1>1, <1>2, <1>3, <1>5 DEF Sees, Solo
<1>8. Recoverable'
  BY <1>1, <1>2, <1>4 DEF Recoverable
<1>9. Deploying(p)'
  BY <1>2, <1>3 DEF Deploying, Opened
<1>10. FileIsCaddys'
  <2>1. \A q \in Request : pc[q] # "load"
    BY <1>1 DEF Recovering
  <2>2. file.cfg = runtime
    BY <1>1, <2>1 DEF RecoverInv, FileIsCaddys
  <2> QED BY <1>2, <2>2 DEF FileIsCaddys
<1> QED BY <1>6, <1>7, <1>8, <1>9, <1>10 DEF Stored1, Next1, RunsStored

LEMMA RecoverReformat ==
    ASSUME Recovering, SafeInv, Told, RecoverInv, NEW p \in Request, Reformat(p)
    PROVE  Still(p) /\ Next1(p)
<1> USE DEF SafeInv, TypeInv, TypeOK, PCs
<1>1. /\ Solo(pc[p], sess[p], dbLock = p, ready[WorkerOf[p]]) /\ Sees(p) /\ pc[p] = "reformat"
      /\ dbLock = p /\ tx.lastSynced # None /\ sess[p].result = "synced"
  BY DEF RecoverInv, Recoverable, Reformat, Told, Solo
<1>2. UNCHANGED <<db, dbLock, file, runtime, ready, sess>> /\ pc'[p] = "unlock"
  BY DEF Reformat, Goto, caddy, boot
<1>3. /\ Normal(Render(tx')) = Normal(Render(tx))
      /\ tx'.rows = tx.rows /\ tx'.lastSynced = tx.lastSynced
  BY ReformatSame
<1>4. Still(p)
  BY <1>1, <1>2, <1>3 DEF Still, Deploying, Opened
<1>5. Solo(pc'[p], sess'[p], dbLock' = p, ready'[WorkerOf[p]])
  BY <1>1, <1>2 DEF Solo
<1>6. Sees(p)'
  BY <1>1, <1>2, <1>3 DEF Sees, View, Near
<1> QED BY <1>4, <1>5, <1>6 DEF Next1

LEMMA RecoverFollowUp ==
    ASSUME Recovering, SafeInv, RecoverInv, NEW p \in Request, FollowUp(p)
    PROVE  Still(p) /\ Next1(p)
<1> USE DEF SafeInv, TypeInv, TypeOK, PCs
<1>1. /\ Solo(pc[p], sess[p], dbLock = p, ready[WorkerOf[p]]) /\ Sees(p)
      /\ tx.lastSynced # None /\ pc[p] = "answer"
      /\ sess[p].kind \in {"create", "update"} /\ Deployed(sess[p])
  BY DEF RecoverInv, Recoverable, FollowUp, Deployed, Opened
<1>2. /\ UNCHANGED <<db, tx, dbLock, file, runtime, ready>> /\ pc'[p] = "guard"
      /\ sess'[p] = [sess[p] EXCEPT !.again = TRUE, !.result = "none", !.rendered = None, !.prev = None]
  BY DEF FollowUp, Goto, store, caddy, boot
<1>3. /\ sess'[p].result = "none" /\ sess'[p].kind = sess[p].kind
      /\ sess'[p].again /\ sess'[p].site = sess[p].site /\ sess'[p].row = sess[p].row
  BY <1>2 DEF Session
<1>4. Still(p)
  BY <1>1, <1>2, <1>3 DEF Still, Deploying, Opened
<1>5. Solo(pc'[p], sess'[p], dbLock' = p, ready'[WorkerOf[p]])
  BY <1>1, <1>2, <1>3 DEF Solo
<1>6. Sees(p)'
  BY <1>1, <1>2, <1>3 DEF Sees, View, Near
<1> QED BY <1>4, <1>5, <1>6 DEF Next1

\* The adapter judges a baseline and its formatted text alike.
LEMMA NearValid ==
    ASSUME NEW d \in DB, NEW c \in Config, Near(c, d), Valid(c)
    PROVE  Valid(Render(d))
<1> DEFINE f == [s \in Site |-> SiteBlock(d.rows[s])]
           b == Injected[BaselineOf(d)]
<1>1. Normal(Render(d)) = [base |-> Formatted[b], site |-> f]
  BY NormalRender
<1>2. Normal(c) = [base |-> Formatted[c.base], site |-> c.site]
  BY DEF Normal, Config
<1>3. Formatted[b] = Formatted[c.base] /\ f = c.site
  <2> HIDE DEF f, b
  <2>1. [base |-> Formatted[b], site |-> f] = [base |-> Formatted[c.base], site |-> c.site]
    BY <1>1, <1>2 DEF Near
  <2>2. /\ [base |-> Formatted[b], site |-> f].base = [base |-> Formatted[c.base], site |-> c.site].base
        /\ [base |-> Formatted[b], site |-> f].site = [base |-> Formatted[c.base], site |-> c.site].site
    BY <2>1
  <2> QED BY <2>2
<1>4. b \in Baseline /\ c.base \in Baseline
  BY DeployAssumption DEF BaselineOf, DB, Config
<1>5. b \notin Rejected
  BY <1>3, <1>4, DeployAssumption DEF Valid
<1>6. Render(d) = [base |-> b, site |-> f]
  BY DEF Render
<1> QED BY <1>3, <1>5, <1>6 DEF Valid

\* A commit stores what Caddy runs, and ends a reconcile that has succeeded.
LEMMA RecoverCommit ==
    ASSUME Recovering, PersistInv, ValidLocals, RecoverInv, NEW p \in Request, Commit(p)
    PROVE  /\ Stored1 /\ Next1(p)
           /\ AllReady' /\ UNCHANGED runtime
           /\ Near(runtime, db)'
           /\ ~Deploying(p)'
           /\ AllReady /\ ~Deploying(p) => Near(runtime, db)
<1> USE DEF PersistInv, SafeInv, TypeInv, TypeOK, PCs
<1>1. /\ Solo(pc[p], sess[p], dbLock = p, ready[WorkerOf[p]]) /\ Sees(p)
      /\ file.managed /\ db.lastSynced # None /\ tx.lastSynced # None /\ Valid(Render(db))
      /\ pc[p] = "answer"
  BY DEF RecoverInv, Recoverable, Commit
<1>2. View(p) \in DB /\ View(p).lastSynced # None
  BY <1>1, ViewType DEF View
<1>3. /\ db' = View(p) /\ tx' = db' /\ UNCHANGED <<file, runtime>>
      /\ pc'[p] = "idle" /\ sess'[p] = NewSession("sync") /\ dbLock' # p
      /\ ready' = [ready EXCEPT ![WorkerOf[p]] = @ \/ sess[p].kind = "reconcile"]
  BY DeployAssumption DEF Commit, Close, caddy
<1>4. AllReady'
  <2>1. ready'[WorkerOf[p]]
    BY <1>1, <1>3, DeployAssumption DEF Solo
  <2> QED BY <2>1, DeployAssumption DEF Recovering, AllReady
<1>5. Render(db') = Render(View(p)) /\ db'.lastSynced # None
  BY <1>2, <1>3
<1>6. Deployed(sess[p]) \/ sess[p].result = "saved"
  BY DEF Commit, MustCommit, Deployed, Opened
<1>7. AllReady /\ ~Deploying(p) => Near(runtime, db)
  BY DEF RecoverInv, RunsStored, Recovering
<1>8. sess[p].result = "saved" =>
        /\ View(p) = tx /\ Render(tx) = Render(db)
        /\ ready[WorkerOf[p]] /\ ~Deploying(p)
  BY <1>1 DEF Solo, Sees, View, Deploying, Opened
<1>9. sess[p].result = "saved" => Near(runtime, db)
  BY <1>7, <1>8, OneWorker
<1>10. Near(runtime, View(p))
  BY <1>1, <1>6, <1>8, <1>9 DEF Sees, Near
<1>11. Near(runtime, db)'
  BY <1>3, <1>5, <1>10 DEF Near
<1>12. Valid(Render(db'))
  BY <1>2, <1>5, <1>10, NearValid DEF ValidLocals, OnlyValidRuns
<1>13. Recoverable' /\ RunsStored'
  BY <1>1, <1>3, <1>5, <1>11, <1>12 DEF Recoverable, RunsStored
<1>14. FileIsCaddys'
  <2>1. \A q \in Request : pc[q] # "load"
    BY <1>1 DEF Recovering
  <2>2. AllReady \/ sess[p].result = "synced"
    BY <1>1, OneWorker DEF Solo
  <2> QED BY <1>3, <2>1, <2>2 DEF RecoverInv, FileIsCaddys
<1>15. ~Deploying(p)'
  BY <1>3 DEF Deploying
<1>16. Solo(pc'[p], sess'[p], dbLock' = p, ready'[WorkerOf[p]]) /\ Sees(p)'
  <2>1. ready'[WorkerOf[p]]
    BY <1>4, DeployAssumption DEF AllReady
  <2> QED BY <1>3, <2>1 DEF Solo, Sees, NewSession, Deployed, Opened
<1> QED
  BY <1>3, <1>4, <1>7, <1>11, <1>13, <1>14, <1>15, <1>16 DEF Stored1, Next1

\* A step of a request that commits nothing keeps its deployment open.
LEMMA RecoverOwnStep ==
    ASSUME Recovering, PersistInv, ValidLocals, Told, RecoverInv, NEW p \in Request,
           Begin(p) \/ BeginReconcile(p) \/ EnterGuard(p) \/ Step(p)
    PROVE  /\ Stored1 /\ Next1(p)
           /\ Commit(p) \/ (UNCHANGED <<db, ready>> /\ (Deploying(p) => Deploying(p)'))
<1>1. SafeInv
  BY DEF PersistInv
<1>2. CASE \/ Begin(p) \/ BeginReconcile(p) \/ EnterGuard(p) \/ TryFileLock(p) \/ LeaveGuard(p)
           \/ StageRow(p) \/ SaveOnly(p) \/ StageDelete(p) \/ StageBaseline(p)
           \/ StageRefused(p) \/ AnswerFailure(p) \/ CheckFails(p)
           \/ InspectAndRender(p) \/ FlushRendered(p) \/ CheckValid(p) \/ CheckNoChange(p)
           \/ Reformat(p) \/ FollowUp(p)
  <2>1. Still(p) /\ Next1(p)
    BY <1>1, <1>2, RecoverBegin, RecoverGuard, RecoverStage, RecoverRollback, RecoverFailure,
       RecoverRender, RecoverNoChange, RecoverReformat, RecoverFollowUp
  <2> QED BY <2>1, StillKeeps DEF Still
<1>3. CASE WriteFile(p)
  <2>1. Stored1 /\ Next1(p)
    BY <1>1, <1>3, RecoverWrite
  <2>2. UNCHANGED <<db, ready, dbLock>> /\ pc'[p] = "load"
    BY <1>1, <1>3 DEF WriteFile, Goto, store, boot, SafeInv, TypeInv, TypeOK
  <2> QED BY <2>1, <2>2 DEF Deploying
<1>4. CASE Load(p)
  <2>1. Stored1 /\ Next1(p)
    BY <1>4, RecoverLoad
  <2>2. UNCHANGED <<db, ready, dbLock>> /\ (dbLock = p => sess'[p].result = "synced")
    BY <1>1, <1>4 DEF Load, boot, SafeInv, TypeInv, TypeOK, Session
  <2> QED BY <2>1, <2>2 DEF Deploying, Opened
<1>6. CASE RecordSync(p)
  <2>1. UNCHANGED <<db, ready>>
    BY <1>6 DEF RecordSync, boot
  <2> QED BY <1>1, <1>6, <2>1, RecoverRecord
<1>5. CASE Commit(p)
  BY <1>5, RecoverCommit
<1> QED
  BY <1>1, <1>2, <1>3, <1>4, <1>5, <1>6, NobodyElse DEF Step, SyncStep

\* A crash loses the transaction: until the reconcile nothing is promised.
LEMMA RecoverCrash ==
    ASSUME Recovering, SafeInv, RecoverInv, Crash
    PROVE  RecoverInv' /\ UNCHANGED db /\ (DeploymentOpen => DeploymentOpen')
<1> USE DeployAssumption
<1>1. /\ UNCHANGED <<db, file, runtime>> /\ tx' = db /\ dbLock' = None /\ flock' = None
      /\ ready' = [w \in Worker |-> FALSE]
      /\ \A p \in Request : pc'[p] = "idle" /\ sess'[p] = NewSession("sync")
  BY DEF Crash, caddy
<1>2. \A p \in Request : Solo(pc'[p], sess'[p], dbLock' = p, ready'[WorkerOf[p]]) /\ Sees(p)'
  BY <1>1 DEF Solo, Sees, NewSession, Deployed, Opened
<1>3. Recoverable'
  BY <1>1 DEF RecoverInv, Recoverable
<1>4. FlockUsed'
  BY <1>1 DEF FlockUsed
<1>5. AllReady' => Worker = {} /\ Request = {} /\ AllReady
  BY <1>1 DEF AllReady
<1>6. RunsStored'
  BY <1>1, <1>5 DEF RecoverInv, RunsStored, Near
<1>7. FileIsCaddys'
  BY <1>1, <1>5 DEF RecoverInv, FileIsCaddys, NewSession
<1>8. DeploymentOpen => DeploymentOpen'
  BY <1>1, <1>5 DEF DeploymentOpen, AllReady
<1> QED BY <1>1, <1>2, <1>3, <1>4, <1>6, <1>7, <1>8 DEF RecoverInv

\* Caddy comes back with the Caddyfile: what it ran, or what is about to be loaded.
LEMMA RecoverCaddy ==
    ASSUME Recovering, PersistInv, RecoverInv, CaddyRestart
    PROVE  RecoverInv' /\ UNCHANGED db /\ (DeploymentOpen => DeploymentOpen')
<1> USE DEF PersistInv, SafeInv
<1>1. UNCHANGED <<db, tx, dbLock, flock, file, ready, pc, sess>> /\ runtime' = file.cfg
  BY DEF CaddyRestart, store, guard, boot
<1>2. \A p \in Request : Solo(pc[p], sess[p], dbLock = p, ready[WorkerOf[p]]) /\ Sees(p)
  BY DEF RecoverInv
<1>3. ASSUME NEW p \in Request, pc[p] = "load" PROVE runtime' = Render(View(p))
  BY <1>1, <1>2, <1>3 DEF Persisted, Sees
<1>4. ASSUME NEW p \in Request, pc[p] # "load",
             ready[WorkerOf[p]] \/ pc[p] = "record" \/ sess[p].result = "synced"
      PROVE  runtime' = runtime
  <2>1. \A q \in Request : pc[q] # "load"
    BY <1>4 DEF Recovering
  <2>2. AllReady \/ \E q \in Request : pc[q] = "record" \/ sess[q].result = "synced"
    BY <1>4, OneWorker
  <2>3. file.cfg = runtime
    BY <2>1, <2>2 DEF RecoverInv, FileIsCaddys
  <2> QED BY <1>1, <2>3
<1>5. ASSUME NEW p \in Request, Deployed(sess[p])
      PROVE  Near(runtime', View(p))
  <2>1. CASE pc[p] = "load"
    BY <1>3, <2>1 DEF Near
  <2>2. CASE pc[p] # "load"
    <3>1. ready[WorkerOf[p]] \/ sess[p].result = "synced"
      BY <1>2, <1>5 DEF Solo, Deployed, Opened
    <3>2. Near(runtime, View(p))
      BY <1>2, <1>5 DEF Sees
    <3> QED BY <1>4, <2>2, <3>1, <3>2
  <2> QED BY <2>1, <2>2
<1>6. \A p \in Request : Sees(p)'
  <2>1. ASSUME NEW p \in Request, pc[p] = "record" PROVE Near(runtime', db)
    BY <1>2, <1>4, <2>1 DEF Sees
  <2> QED BY <1>1, <1>2, <1>5, <2>1 DEF Sees, View, Near
<1>7. RunsStored'
  <2> SUFFICES ASSUME AllReady, \A p \in Request : ~Deploying(p) PROVE Near(runtime', db)
    BY <1>1 DEF RunsStored, AllReady, Deploying, Near
  <2>1. Near(runtime, db)
    BY DEF RecoverInv, RunsStored
  <2>2. CASE \E p \in Request : pc[p] = "load"
    <3>1. PICK p \in Request : pc[p] = "load"
      BY <2>2
    <3>2. View(p) = db
      BY <3>1 DEF Deploying, View
    <3> QED BY <1>3, <3>1, <3>2 DEF Near
  <2>3. CASE \A p \in Request : pc[p] # "load"
    <3>1. file.cfg = runtime
      BY <2>3 DEF RecoverInv, FileIsCaddys
    <3> QED BY <1>1, <2>1, <3>1
  <2> QED BY <2>2, <2>3
<1>8. FileIsCaddys' /\ Recoverable' /\ FlockUsed'
  BY <1>1 DEF RecoverInv, FileIsCaddys, Recoverable, FlockUsed
<1>9. \A p \in Request : Solo(pc'[p], sess'[p], dbLock' = p, ready'[WorkerOf[p]])
  BY <1>1, <1>2
<1>10. DeploymentOpen => DeploymentOpen'
  BY <1>1 DEF DeploymentOpen
<1> QED BY <1>1, <1>6, <1>7, <1>8, <1>9, <1>10 DEF RecoverInv

LEMMA OpenOrNotReady == DeploymentOpen <=> ~AllReady \/ \E p \in Request : Deploying(p)
BY DEF DeploymentOpen, AllReady, Deploying, Opened

\* Every step but a commit keeps what is stored, and leaves an open deployment open.
LEMMA RecoverStep ==
    ASSUME Recovering, RecoveryInv, [Next]_vars
    PROVE  /\ RecoverInv'
           /\ \/ \E p \in Request : Commit(p)
              \/ UNCHANGED db /\ (DeploymentOpen => DeploymentOpen')
<1> USE DEF RecoveryInv
<1>1. ASSUME NEW p \in Request, Begin(p) \/ BeginReconcile(p) \/ EnterGuard(p) \/ Step(p)
      PROVE  /\ RecoverInv'
             /\ Commit(p) \/ (UNCHANGED db /\ (DeploymentOpen => DeploymentOpen'))
  <2>1. /\ Stored1 /\ Next1(p)
        /\ Commit(p) \/ (UNCHANGED <<db, ready>> /\ (Deploying(p) => Deploying(p)'))
    BY <1>1, RecoverOwnStep
  <2>2. \A q \in Request : q = p
    BY DEF Recovering
  <2>3. FlockUsed'
    <3>1. CASE BeginReconcile(p)
      <4>1. pc[p] = "idle" /\ UNCHANGED flock
        BY <3>1 DEF BeginReconcile, guard
      <4>2. flock = None
        BY <2>2, <4>1 DEF RecoverInv, FlockUsed, Guarded, PersistInv, SafeInv, TypeInv, TypeOK
      <4> QED BY <4>1, <4>2 DEF FlockUsed
    <3>2. CASE Begin(p) \/ EnterGuard(p) \/ Step(p)
      BY <3>2, FlockStep DEF RecoverInv, PersistInv
    <3> QED BY <1>1, <3>1, <3>2
  <2>4. RecoverInv'
    BY <2>1, <2>2, <2>3 DEF RecoverInv, Stored1, Next1
  <2>5. ASSUME UNCHANGED ready, Deploying(p) => Deploying(p)'
        PROVE  DeploymentOpen => DeploymentOpen'
    <3>1. AllReady' <=> AllReady
      BY <2>5 DEF AllReady
    <3>2. DeploymentOpen <=> ~AllReady \/ Deploying(p)
      BY <2>2, OpenOrNotReady
    <3>3. DeploymentOpen' <=> ~AllReady' \/ \E q \in Request : Deploying(q)'
      BY DEF DeploymentOpen, AllReady, Deploying, Opened
    <3> QED BY <2>5, <3>1, <3>2, <3>3
  <2> QED BY <2>1, <2>4, <2>5
<1>2. CASE Crash
  BY <1>2, RecoverCrash DEF PersistInv
<1>3. CASE CaddyRestart
  BY <1>3, RecoverCaddy
<1>4. CASE UNCHANGED vars
  <2>1. UNCHANGED <<db, tx, dbLock, flock, file, runtime, ready, pc, sess>>
    BY <1>4 DEF vars
  <2>2. \A p \in Request : Solo(pc'[p], sess'[p], dbLock' = p, ready'[WorkerOf[p]]) /\ Sees(p)'
    BY <2>1 DEF RecoverInv, Sees, View, Near
  <2>3. FlockUsed' /\ Recoverable' /\ RunsStored' /\ FileIsCaddys'
    BY <2>1 DEF RecoverInv, FlockUsed, Recoverable, RunsStored, FileIsCaddys, AllReady, Deploying, Near
  <2>4. DeploymentOpen => DeploymentOpen'
    BY <2>1 DEF DeploymentOpen
  <2> QED BY <2>1, <2>2, <2>3, <2>4 DEF RecoverInv
<1> QED BY <1>1, <1>2, <1>3, <1>4 DEF Next

LEMMA RecoveryInvariant == ASSUME Recovering PROVE Spec => []RecoveryInv
<1>1. Init => RecoveryInv
  BY PersistInit, ValidInit, RecoverInit DEF RecoveryInv, Init, Told
<1>2. RecoveryInv /\ [Next]_vars => RecoveryInv'
  BY PersistStep, ValidStep, ToldStep, RecoverStep DEF RecoveryInv, PersistInv, SafeInv
<1> QED
  BY <1>1, <1>2, PTL DEF Spec

\* After any number of crashes, at any step, and restarts of Caddy: once the
\* workers are ready and nothing is being saved Caddy serves what the database
\* describes.
THEOREM RecoveredRuns == ASSUME Recovering PROVE Spec => []StoredIsDeployed
<1>1. RecoveryInv => StoredIsDeployed
  <2> SUFFICES ASSUME RecoveryInv, AllReady, dbLock = None, flock = None
               PROVE  Near(runtime, db) /\ file.cfg = runtime
    BY DEF StoredIsDeployed, AllReady, Near
  <2>1. \A p \in Request : pc[p] # "load" /\ ~Deploying(p)
    BY DeployAssumption DEF RecoveryInv, PersistInv, SafeInv, GuardHeld, Guarded, Deploying
  <2> QED BY <2>1 DEF RecoveryInv, RecoverInv, RunsStored, FileIsCaddys
<1> QED
  BY <1>1, RecoveryInvariant, PTL

LEMMA RecoveryContractStep ==
    ASSUME Recovering, RecoveryInv, RecoveryInv', [Next]_vars
    PROVE  [Contract!ContractNext]_(Contract!contractVars)
<1> USE DEF RecoveryInv, PersistInv, SafeInv
<1>1. RecoverInv' /\ TypeInv'
  OBVIOUS
<1>2. CASE UNCHANGED db /\ (DeploymentOpen => DeploymentOpen')
  <2>1. CASE DeploymentOpen'
    BY <1>1, <1>2, <2>1, DeployWhenOpen DEF Contract!ContractNext
  \* outside of deployments Caddy runs what is stored, before and after
  <2>2. CASE ~DeploymentOpen'
    <3>1. Near(runtime, db)
      BY <1>2, <2>2, OpenOrNotReady DEF RecoverInv, RunsStored
    <3>2. AllReady' /\ \A p \in Request : ~Deploying(p)'
      BY <2>2 DEF DeploymentOpen, AllReady, Deploying, Opened
    <3>3. Near(runtime, db)'
      BY <1>1, <3>2 DEF RecoverInv, RunsStored
    <3>4. Normal(runtime') = Normal(runtime)
      BY <1>2, <3>1, <3>3 DEF Near
    <3>5. DeploymentOpen' = DeploymentOpen
      BY <1>2, <2>2 DEF DeploymentOpen
    <3> QED BY <1>2, <3>4, <3>5 DEF Contract!contractVars
  <2> QED BY <2>1, <2>2
<1>3. ASSUME NEW p \in Request, Commit(p)
      PROVE  [Contract!ContractNext]_(Contract!contractVars)
  <2>1. /\ AllReady' /\ UNCHANGED runtime /\ Near(runtime, db)' /\ ~Deploying(p)'
        /\ AllReady /\ ~Deploying(p) => Near(runtime, db)
    BY <1>3, RecoverCommit
  <2>2. \A q \in Request : q = p
    BY DEF Recovering
  <2>3. ~DeploymentOpen'
    BY <2>1, <2>2 DEF DeploymentOpen, AllReady, Deploying, Opened
  <2>4. db.lastSynced # None /\ db'.lastSynced # None
    BY <1>1 DEF RecoverInv, Recoverable
  <2>5. Normal(Render(db')) = Normal(runtime)
    BY <2>1 DEF Near
  <2>6. CASE DeploymentOpen
    <3>1. Contract!Store
      BY <2>1, <2>3, <2>4, <2>5, <2>6 DEF Contract!Store
    <3> QED BY <3>1 DEF Contract!ContractNext
  <2>7. CASE ~DeploymentOpen
    <3>1. Near(runtime, db)
      BY <2>1, <2>7, OpenOrNotReady
    <3>2. Normal(Render(db')) = Normal(Render(db)) /\ UNCHANGED runtime
      BY <2>1, <2>5, <3>1 DEF Near
    <3>3. DeploymentOpen' = DeploymentOpen
      BY <2>3, <2>7 DEF DeploymentOpen
    <3>4. UNCHANGED Contract!contractVars
      BY <2>4, <3>2, <3>3 DEF Contract!contractVars
    <3> QED BY <3>4
  <2> QED BY <2>6, <2>7
<1> QED BY <1>2, <1>3, RecoverStep

\* The same contract with crashes: one opens a deployment, which the reconcile
\* ends with what Caddy runs stored.
THEOREM RecoveryImplementsContract == ASSUME Recovering PROVE Spec => Contract!ContractSafety
<1>1. Init => Contract!ContractInit
  BY ContractInitially
<1>2. RecoveryInv /\ RecoveryInv' /\ [Next]_vars => [Contract!ContractNext]_(Contract!contractVars)
  BY RecoveryContractStep
<1> QED
  BY <1>1, <1>2, RecoveryInvariant, PTL DEF Spec, Contract!ContractSafety
=============================================================================
