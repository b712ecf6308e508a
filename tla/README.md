# caddybuddy: a verification development

caddybuddy is a web front end for the Caddy server. It keeps sites in a SQLite
database, renders a *managed* Caddyfile from them, lets Caddy adapt (check) it,
writes it to disk and loads it through Caddy's Admin API. Around that core it
renews certificates, runs SSL Labs scans, streams events to browsers and
authenticates its operators (password, TOTP, recovery codes, passkeys).

This directory models what in that program is hard to get right and hard to
test: what overlapping requests, failures between two steps, crashes and
restarts do to state that lives in several places at once (database, file,
Caddy, browser, tasks of the event loop). Paths such as
`services/caddyfile_manager.py` are relative to `src/app/`, `run.py` and `docs/`
to `src/`.

    tlc -workers 4 -config CaddyDeployGuard.cfg MCCaddyDeploy.tla     # any run
    tlapm CaddyDeployProofs.tla                                       # the proofs of a module: a few minutes each

## 1. Inventory

| component | code | state it keeps | operations | hard behaviour | what makes it correct |
|---|---|---|---|---|---|
| Caddyfile manager | `services/caddyfile_manager.py` | operation guard (asyncio lock per process, flock between processes), Caddyfile with its managed marker, rendered digest, `last_synced`, `last_error` | sync, forced sync, onboard, reformat, restore | interleaved requests; failure between write, load and restore; a load whose answer is lost; stale digests | one operation at a time; nothing rejected is written or loaded; file, Caddy and database agree whenever no deployment is under way |
| Site repository | `repositories/sites.py` | site rows, domain rows, domain lock row | create, update, delete, list | uniqueness over concurrent writers; identity-mapped rows that went stale | a domain has one site; an edit is not lost |
| Site and Caddyfile routes | `routers/ui/sites.py`, `routers/ui/caddyfile.py`, `routers/caddy_api.py` | one database session per request | save, delete, save baseline, sync, onboard, renew | guard is left before the commit; follow-up sync inside the same transaction | what is answered as deployed is deployed |
| Database session | `database/session.py` | SQLite file, write lock | begin, commit, rollback, schema repair | one writer, `busy_timeout`, deferred transactions | no request waits for ever |
| Start-up and lifespan | `main.py` | `caddy_reconcile_ready` per worker | startup reconcile, blocking of mutating routes | crash recovery; retries with back-off | after a restart Caddy serves the stored sites before new changes are taken |
| Caddy Admin API client | `services/caddy.py` | none | adapt, load, config, purge certificates | timeouts, lost answers | failures are reported as failures |
| Onboarding wizard | `services/caddy_onboarding.py`, `routers/ui/onboarding.py` | the wizard's row, starter file and backups, an imported snapshot | location, mode, access check, repair of the Admin API, execution, restart | a request works for half a minute on the row it read; files outside the operation guard; three kinds of undoing (savepoint, file, Caddy) | what the operator had is never lost; a failure puts the file back or says where its backup is |
| Certificate renewal | `services/renewal.py` | renewal lock file, the plan, the thread that removes | plan, deploy, plan again, lock, purge, reload, restart, verify | a plan that is stale when it is used; a removal that outlives the request; partial failure after a purge | one renewal of a scope at a time; a renewal reported as done has a new certificate; every one ends |
| Caddy supervisor | `services/supervisor.py` | none | status, restart, reload over docker, systemd or a script | subprocess timeouts | none of its own |
| SSL Labs scans | `services/ssllabs.py`, `repositories/ssllabs.py` | targets, schedules, scan rows, `_active_tasks` | request, run, schedule, resume, prune, shut down | tasks against rows against restarts; staleness; exclusive index | one live scan per target; every scan ends; a due scan is started |
| Event bus | `services/events.py`, `routers/api.py`, `run.py` | subscribers, bounded queues | subscribe, publish, stream, shut down | slow readers, limits, streams never iterated | no gap in an open stream; the limit; a closed stream ends |
| Passkeys | `services/passkeys.py`, `repositories/passkeys.py` | credentials, one-time challenges, signature counters | register, authenticate, delete | concurrent ceremonies, identifiers that come back | a challenge is used once; a counter never falls; the limit holds |
| Accounts and second factor | `services/auth.py`, `repositories/users.py`, `routers/ui/auth.py` | password hash, TOTP secret and counter, recovery codes | set up, sign in, enrol, confirm, disable, change the password | sign-ins with one code; rows that went stale behind an await | a code opens one session; no session without the factor in force |
| Sessions and CSRF | `dependencies/web.py`, `middleware/` | a signed cookie in the browser | sign in, carry on, end | answers out of order | other sessions end when the account changes |
| Certificate scan and dashboard | `services/certificates.py`, `services/dashboard.py` | a cache of TLS lookups, the fetches under way | scan the storage, look up, invalidate | single flight, entries stored after their invalidation | one fetch per name; no entry older than its invalidation; every caller answered |
| Caddyfile parser and formatter | `utils/caddyfile.py` | none | parse, format, inject options | text algorithm | formatting is idempotent and keeps the meaning |
| Runtime settings | `services/runtime_settings.py`, `routers/ui/settings.py` | key-value rows | read, write | sequential, but for those of the accounts and of the wizard | |
| Pages, about, logging, browser code, tools | `routers/ui/`, `static/js/`, `tools/` | none | render | presentation | |

Interactions: routes open one database session, the repository writes rows in
it, the Caddyfile manager reads them through the same session, talks to Caddy
through the Admin API client and writes the file; the route commits. Renewal
calls the manager first and then Caddy and the supervisor. The SSL Labs service
has a task of its own per scan and one scheduler, and sessions of its own. It
and the routes publish on the event bus. `main.py` starts and stops all of them.

`PROJECT.json` lists the hazards with the line where each bites and, where one
exists, the property that covers it.

## 2. Modules

| module | models | extends or instantiates |
|---|---|---|
| `CaddyDeploy` | how a change reaches Caddy: handlers, write transaction, operation guard, Caddyfile, Caddy, start-up reconcile | instance of `DeployContract` as `Contract` |
| `DeployContract` | what "save and deploy" promises, with no database, file or lock | |
| `CaddyDeployProofs` | theorems and proofs about `CaddyDeploy` | `CaddyDeploy` |
| `OnboardingWizard`, `OnboardingWizardProofs` | the first-run wizard: row, file, backups, Admin API repair, takeover, beside a deployment | |
| `CertificateRenewal`, `CertificateRenewalProofs` | renewals of certificates: plan, lock, purge and its thread, reload, restart, waits; Caddy and its storage | |
| `CertificateCache`, `CertificateCacheProofs` | the shared cache of served certificates | |
| `SignIn`, `SignInProofs` | password, TOTP and recovery codes, enrolment, session cookies | |
| `PasskeyCeremony`, `PasskeyCeremonyProofs` | registration and sign-in with passkeys | |
| `EventBus`, `EventBusProofs` | the live updates: bus, queues, responses, exit signal | |
| `SslLabsScans`, `SslLabsScansProofs` | SSL Labs targets, schedules, scans, tasks, scheduler, stop, crash, start | |
| `MC...` | constants and symmetry for TLC, one module for each of the above | the module it is named after |

The modules do not share variables; where one needs what another shows, it takes
it as an input: whether a deployment succeeds (`CertificateRenewal`,
`OnboardingWizard`), what a handshake shows (`CertificateRenewal`), what a
verified passkey leads to (`FirstFactor` of `SignIn`), the effect of formatting
(`CaddyDeploy`).

`PROJECT.json` (`map`) names the source lines of every definition.

### CaddyDeploy

The step of the model is what a handler does between two awaits that another
handler can observe. State and code:

| variable | code |
|---|---|
| `db` | the committed rows: sites, the global baseline, the global block of the snapshot (`snap`), and of `CaddyBuddyState` the digests of the rendered and the last loaded configuration and whether an error is noted |
| `tx`, `dbLock` | the database as the one open write transaction sees it, and the session that has it |
| `alock`, `flock` | `_operation_lock` of each worker process, the flock on `.caddybuddy.caddy.lock` |
| `file` | the Caddyfile: has it the managed marker, and which configuration is it |
| `runtime` | the configuration Caddy is running |
| `ready` | `app.state.caddy_reconcile_ready` of each worker |
| `pc`, `sess` | where each request is; its local variables and what its ORM session holds |

A request arrives (`Begin...`), stages its row change (`Stage...`), enters the
guard (`EnterGuard`, `TryFileLock` or `FileLockTimeout`), runs
`_sync_caddy_configuration_locked` (`InspectAndRender`, `FlushRendered`,
`Check...`, `WriteFile`, `Load`, `RecordSync`, `Reformat`, `RestoreFile`) or `onboard_caddy`
(`Onboard...`, then the same steps, forced), leaves the guard (`LeaveGuard`),
may run a second, forced sync for a missing certificate (`FollowUp`), and
commits or rolls back. `BeginReconcile` is the start-up task of `main.py`.

Behaviour of the libraries the model relies on:

- *SQLite through aiosqlite.* A SELECT opens no transaction. The first INSERT,
  UPDATE or DELETE takes the write lock and keeps it until commit or rollback;
  whoever needs it meanwhile waits for `busy_timeout` and then fails
  (`StageBusy`, `FlushBusy`, `CommitFails`). Creations and updates upsert the
  domain-lock row first and deletions flush their DELETE, so these hold the
  lock before they ask for the guard. A bare sync, the reconcile, and a baseline
  saved unchanged do not. If they have not rendered anything new either, they take
  it only when the load has succeeded: `version.synced_at` is set
  (`services/caddyfile_manager.py` 757) and the SELECT of the next line flushes it
  (`RecordSync`). They wait for it inside the guard, with Caddy already changed.
- *SQLAlchemy.* An object loaded earlier in a session is not refreshed by a
  later SELECT. Whether a site is rendered is asked of the stored rows
  (`enabled_only`), its directives are those of the object in the session: an update
  renders the directives of its own copy (`RenderView`) while the UPDATE stores only
  the columns that differ from what was loaded (`merged` in `StageRow`).
- *Every caller rolls back after a failed sync*, except when the failed sync was
  the certificate follow-up (`routers/ui/sites.py` 373-387 commits anyway).
- *Only an unreachable Admin API is retried* by the reconcile; the retries end
  like one attempt and are one here.
- *A rendered configuration and its SHA-256 are identified.*

Abstracted: site blocks are members of `Directive`, the global baseline of
`Baseline`; the adapter refuses the members of `Rejected`; `Formatted` is what
the local formatter makes of a baseline (idempotent, it changes nothing about being
accepted, and makes nothing of nothing: `DeployAssumption`). The version and event
rows written beside the state follow the transaction they are in and are left out.

A baseline goes through four hands, each of which is in the model. `Blank` is the
empty one: with nothing stored the global block of the snapshot is used
(`BaselineOf`). `Injected` adds the options that Settings own and the standard
snippet whenever a configuration is rendered; it commutes with the formatter.
`Default` is the setting `caddy_baseline_caddyfile`, which the onboarding stores for a
file that has neither a global block nor a site it could import (`ImportedBase`). The
instances have an empty baseline, one that holds nothing but the injected options,
and, from before the onboarding, a default different from both.

### DeployContract

Three variables: what Caddy serves, what the database describes, and whether a
deployment is open. Caddy changes only while one is, and one ends with what
Caddy runs stored (`Store`, weakly fair); before onboarding it may be given up.
`ContractSafety` is the contract without that fairness: what may happen, which is
proved, apart from what must, which is model-checked.
`CaddyDeploy` implements it with `running` = the running configuration up to the
formatting of its baseline, `stored` = the rendering of the committed rows, and
`open` from the write of the file to the end of the transaction, and from a
crash until the workers have reconciled.

### SslLabsScans

| variable | code |
|---|---|
| `target`, `scan` | rows of `ssllabs_targets` and `ssllabs_scans` |
| `task`, `active` | the `_run_scan` tasks, and `_active_tasks` |
| `client` | the two callers of `request_scan` (routes, scheduler) and how far the call is; `_task_lock` is held from "row" on |
| `sched` | `_scheduler_loop`, with the targets `sync_targets` decided to drop and those that are due |
| `site`, `labs` | the stored sites, and SSL Labs' assessment of each host (external) |
| `proc`, `stops`, `clicks` | the process, how often it stopped, requests since the last tick |
| `reused` | for the properties: a new row was given an identifier that a task or a request still held |

Times are counted down: a row keeps how long it is until its next scan, until a
forced scan is allowed again, until it no longer counts as active. `Tick` is the
only step that takes time, it stands for a poll interval, and it happens when
every task sleeps and no call is open. The constants keep the order of the real
durations, not their proportions. `Tick` bounds nothing else: the answers of
SSL Labs (running, report, error, refusal, timeout before or after it took the
request) come in any order for as long as they like.

Identifiers: the tables have no AUTOINCREMENT, so SQLite gives a new row the
greatest identifier plus one, and that of a row just deleted comes back when it
was the newest (`NewTarget`, `NewScan`). Nothing in the code keeps a task from living
longer than its rows. With `Forget`, which only instances without edits have, settled
rows that no task refers to are dropped when a new one is inserted, since only the
latest is read; it saves identifiers. Bounds: `Asked` are the hosts the operator asks
scans of, `Room` is a row identifier and a task slot left.

Deliberately wide: `sync_targets` deletes what it decided on before (an autoflush
in between can close that window when targets are added too); a cancellation that
meets a completion just committed may overwrite it (`Cancelled`).

### OnboardingWizard

| variable | code |
|---|---|
| `db` | committed: the wizard's row, which settings are in force, whether the operator's sites and snapshot are stored |
| `dbLock`, `guard` | SQLite's write lock; the operation guard of `CaddyDeploy` |
| `file`, `backups` | the Caddyfile and the backups beside it: whose it is, does it open the Admin API, are the operator's sites in it |
| `caddy` | is it up, and what it runs |
| `sess` | each request: its command, the row it read and will save, the bytes it would put back (`was`, of the repair and of the starter file; `prev`, of the takeover) |
| `deploy` | a deployment of somebody else, under the guard |
| `original`, `accounted`, `uncovered` | for the properties: the first file; whether a change of it, or a loss, was announced; whether two writers had the file in their hands at once, or a takeover of an existing file could put nothing back after a refused load |

`Ask...` are the routes of `routers/ui/onboarding.py` and the restart in the settings.
`Probe` is `run_onboarding_preflight`, on its own, before an execution and after a
repair. An execution saves the result of its check (`Lock`: from then on it holds the
write lock), writes the starter file in mode "default" (`Prepare...`; `PrepareRefused`
before there is a backup, `PrepareFails` after), takes the guard and the file over
(`TakeOver`, `Load`), and commits; each failure goes back through what it has done
(`LoadFails`, `Undo`, `Restore`, `Fail`). The restore of `LoadFails` may fail, which
`_sync_caddy_configuration_locked` only logs: the managed file stays, and the savepoint
drops the snapshot and the imported sites all the same. The repair is `EditBackup`,
`EditWrite`, `Restart`, `Polled`, the check, `Save`, and on failure `Restore`,
`RestartAgain`, `Fail`.

`lock_onboarding_state` does not lock: its `BEGIN IMMEDIATE` is skipped when the
session is in a transaction, and `require_admin` has run a query by then. A
request therefore works on a row that others replace meanwhile, and the model has
that.

### CertificateRenewal

| variable | code |
|---|---|
| `disk` | Caddy's storage: per scope the number of its certificate, and whether key and metadata are there. 1 has expired, greater ones are valid |
| `issued`, `asked`, `runtime` | Caddy: certificates per name so far, names it tries to obtain one for, the number of its configuration |
| `control` | `caddy_control_mode` |
| `req` | the requests: step, plan (`mode`), second plan (`trusted`), the newest certificate when it began |
| `lock` | `cert-renewal-<scope>.lock` |
| `remover` | the thread of `purge_certificate_artifacts` |

`Plans` is `certificate_renewal_capability` over what the storage and a handshake
show, through the control mode. A request plans (`Ask`), deploys (`Sync`), plans
again (`PlanAgain`), compares and takes the lock (`TakeLock`) and goes the way of its
mode: purge, reload, monitor, restart, health, verification; restart; verification
alone; or Caddy's own configuration read and loaded again (`GetConfig`,
`LoadConfig`). The files go one by one (`RemoveFile`, `RemoveLast`), in a thread that
a timed-out request leaves behind (`PurgeTimeout`). Caddy obtains and writes
certificates when it likes (`Obtain`, `Complete`), or never.

### CertificateCache

`cache`, `gen`, `registry` and `permits` are `_cert_cache`, `_cert_cache_generations`,
`_cert_fetch_tasks` and the semaphore of `services/dashboard.py`; `fetch` the tasks,
`caller` the lookups with the generations they noted, `served` the certificates the
servers present. `floor` is for a property: what was served when the name was last
invalidated with no fetch under way.

### SignIn

`account` is the row of `users`, `jar` the session cookie each browser has, `req` the
requests with the copy of the cookie and of the row they work on; `clock` the TOTP
step, `uses` how often a code was accepted. A session is no record of the server:
what a browser has is what the last answer that reached it set. A handler is a read
with its checks (`Check...`), a write with its commit (`UseTotp`, `Confirm`, ...), and
an answer (`Reply`) which may be lost (`Lose`). Conditional updates are conditions on
the row as it is, everything else goes by the row as it was read.

### PasskeyCeremony

`passkey` and `stored` are the rows of credentials and challenges; `device` the counters
of the authenticators and `answers` what they have signed, which can be sent any
number of times; `req` the answers being verified. `OneRowEach` is the unique index on
the credential. `Consume` commits on its own, as
the code does, so that a failure afterwards (`Fail`) leaves the challenge spent. Row
identifiers are the greatest plus one and come back, as in SQLite.

### EventBus

`stream` holds each `_SubscriberStream` with its queue, where its reader is, and what
its browser has got; `listed` is `_subscribers` and `_pending_subscribers`; `exiting` the
exit signal of `run.py`. `Publish` serves every active queue and closes the full ones
in one step, as the loop does. `Read` and `Wake` are `__anext__`, `Heartbeat` its
cancellation, `Disconnect` a browser that leaves before or after the first read,
`Collect` the end of an object nothing refers to.

## 3. Runs

| run | checks | instance | distinct states |
|---|---|---|---|
| `deploy_guard` | `TypeOK`, `GuardExclusion`, `OnlyValidRuns`, `FileIsRunning`, `NoChangeTruthful`, `PersistBeforeLoad` | two requests in two workers; one site, one of its two contents rejected; create, update, delete, sync; adapt, write, load and commit may fail at any time; workers symmetric | 1,127,808 |
| `deploy_contract` | `StoredIsDeployed`, `ImplementsContract`, `TakeoverKeepsSites`, `EveryRequestEnds` | from before onboarding; two requests in one worker, two sites, one content that cannot be imported; files with and without a global block, a default for those without; create, delete, onboard; adapt, write and load may fail | 143,811 |
| `deploy_recovery` | `ImplementsContract` | one request at a time of any managed kind, an empty, a formatted and an unformatted baseline, two crashes at any step, restarts of Caddy | 22,564 |
| `deploy_stale_sync` | refutes `StoredIsDeployed` | a creation and a bare sync, nothing fails | |
| `onboarding_wizard` | `TypeOK`, `OwnKept`, `LossNamesBackup`, `CoveredFailureRestores`, `EveryRequestEnds` | two requests at a time, four in all, in all four situations; one deployment, one stop of Caddy; every step may fail, restores too; fair | 245,168 |
| `renewal` | `TypeOK`, `LockHeld`, `RenewedIsNew`, `AwaitedNotRemoved`, `EveryRenewalEnds` | two renewals at a time of a site of two names, one of them under a wildcard; no control mode or docker; every command may fail or not answer; one deployment of somebody else or crash; fair | 64,891 |
| `certificate_cache` | `TypeOK`, `OneFetch`, `NoStaleStore`, `EveryCallerAnswered` | two callers, two names, one permit, room for one entry; a new certificate and an invalidation; fair | 381,824 |
| `sign_in` | `TypeOK`, `SecondFactorGiven`, `CodesUsedOnce`, `SecretInForceConfirmed` | two browsers, two requests at a time, three hashes and secrets, two TOTP steps, a recovery code per secret; symmetric | 1,019,460 |
| `passkey_ceremony` | `TypeOK`, `AnsweredOnce`, `CounterNeverFalls` | an authenticator that counts and one that does not, three ceremonies, two answers at a time, two passkeys, three row ids; symmetric | 485,075 |
| `event_bus` | `TypeOK`, `NoGap`, `ListedIsOpen`, `ClosedReaderEnds` | three responses for two places, queues of two, three events; fair | 243,136 |
| `ssllabs_scans` | `TypeOK`, `OneLiveScan` | two hosts, the site of the first switched, deleted and created again; three target, two scan identifiers, two tasks; scans put off until they are older than the staleness limit; one stop or crash | 1,155,419 |
| `ssllabs_schedule` | `EveryScanEnds`, `DueIsScanned` | one target with two rows and two tasks; one stop or crash; fair | 195,434 |

Further configurations are demonstrations: each asks for one property that the
code does not have, and TLC prints the history that breaks it (section 6).

| configuration | module | refutes |
|---|---|---|
| `CaddyDeployStaleUpdate.cfg` | `MCCaddyDeploy` | `StoredIsDeployed` |
| `CaddyDeployFollowUpTimeout.cfg` | `MCCaddyDeploy` | `StoredIsDeployed` |
| `CaddyDeployLostAnswer.cfg` | `MCCaddyDeploy` | `NoChangeTruthful` |
| `CaddyDeployTakeoverCrash.cfg` | `MCCaddyDeploy` | `ServedUntilTakenOver` |
| `OnboardingRepair.cfg` | `MCOnboardingWizard` | `FailureRestores` |
| `OnboardingUnrestored.cfg` | `MCOnboardingWizard` | `FailureRestores` |
| `SignInSessions.cfg` | `MCSignIn` | `OtherSessionsEnded` |
| `PasskeyLimit.cfg` | `MCPasskeyCeremony` | `PasskeyLimit` |
| `SslLabsBlocked.cfg` | `MCSslLabsScans` | `StaleRowsDoNotBlock` |
| `SslLabsFresh.cfg` | `MCSslLabsScans` | `FreshIsFresh` |
| `SslLabsTwice.cfg` | `MCSslLabsScans` | `LiveOnce` |
| `SslLabsReuse.cfg` | `MCSslLabsScans` | `OwnReport` |

Others need a line only: put `PROPERTY DeployedStays` or `ReloadOrRestart` in place of
the properties of `CertificateRenewal.cfg`, `PlaceComesBack` or `ExitEndsStreams` in
`EventBus.cfg`, `CompletedStays` in `OnboardingWizard.cfg`, `RecordsOwnCounter` in
`PasskeyCeremony.cfg`.

Why the instances are enough for what they are asked:

- *Two requests, two workers.* Every property of `deploy_guard` and
  `deploy_contract` is about a pair (holder and waiter, writer and reader, first
  and second deployment). Two slots are reused without limit, so a pair can be
  preceded by any history. The theorems of section 5 lift every property of
  `deploy_guard` to any number of both, and those of `deploy_contract` but
  `EveryRequestEnds` to any number of requests.
- *One site in `deploy_guard`, two in `deploy_contract`.* Domains are unique, so
  requests about different sites interact only through the whole rendering; two
  sites with one request each show that, one site shows all conflicts on a row.
- *`deploy_contract` without update, baseline and sync.* With them the contract
  does not hold: `deploy_stale_sync` and `CaddyDeployStaleUpdate.cfg` show why. The
  passing run is the largest set of kinds for which it does.
- *`deploy_recovery` with one request.* For the same reason; its question is
  crashes, for which the request in flight is the one that matters. Two crashes
  allow one during the reconcile that follows the first. It assumes that Caddy
  accepts and answers; a reconcile that fails leaves the worker ready and the
  installation as it was.
- *Four requests in `onboarding_wizard`.* The choice of a situation, the access
  check and two that take over, repair or start anew; two of them overlap. The
  deployment and the stop of Caddy fall anywhere in between.
- *One site of two names in `renewal`.* Renewals of different scopes share nothing
  but Caddy's configuration; the second name makes the wait for a whole site
  differ from the wait for its scope, and lets the wildcard stand in for it. Three
  certificates per name are one that has expired, one that is valid and one new.
  The theorems lift the invariants to any number of all of them.
- *Three baselines in `deploy_contract` and `deploy_recovery`.* With one empty, the
  fallbacks to the snapshot and to the default happen; `Injected` maps it to the second,
  and the third is the default in the one, the unformatted one in the other run.
- *One permit and one entry in `certificate_cache`.* The smallest limits make the
  queue for the semaphore and the pruning happen with two names; two callers are
  enough to share a fetch, and for one to leave it before the other.
- *`sign_in`.* Two requests are the pair that races for a code; three secrets and
  hashes are enough to enrol, disable and enrol again or to change the password in
  between, and the second TOTP step gives the second enrolment a later code.
  The theorems lift its properties to any number of everything.
- *`passkey_ceremony`.* Two answers of two ceremonies race with one passkey, and the
  third ceremony registers another, after a deletion under the identifier of the
  first.
- *`event_bus`.* One response more than places, one event more than a queue holds.
- *Two hosts in `ssllabs_scans`.* Targets do not share anything but the lock, the
  client identities and the identifiers. The second host is there for the last: while
  its target has the greater identifier, the one of the deleted first target does not
  come back, and a task that outlives that target goes on beside the scan of the
  recreated one without `reused`; when it has the smaller one, or none, the identifier
  comes back under the task and `reused` is set. Both occur in the run.
- *`MaxStops = 1`.* Nothing of the process survives a stop, so a second one
  starts from the same kind of state: rows, sites, SSL Labs.
- *`MaxClicks = 1`* is the rate limiter seen from one tick; `SslLabsReuse.cfg` needs
  three actions in one.

Deadlock is checked where the system never runs out of steps. `CHECK_DEADLOCK FALSE`
stands in the configurations of `CertificateCache`, `CertificateRenewal`, `EventBus`,
`OnboardingWizard` and `PasskeyCeremony`: their counters of
events, certificates, requests and ceremonies run out, after which
everybody is idle. That nobody is left waiting is what the liveness properties say.

### Properties worth a word

- `StoredIsDeployed` is the point of the program: when no change is being saved,
  Caddy and the Caddyfile are what the committed rows describe, up to the
  formatting of the baseline. It relates four places and can be broken by any
  pair of handlers.
- `NoChangeTruthful`: "no_change" is decided from a stored digest, a stored
  error and the text of the file, never from Caddy.
- `EveryRequestEnds`: onboarding takes the guard and then SQLite's write lock,
  every other change the write lock and then the guard. What saves them is the
  time-outs.
- `OneLiveScan`: `_discard_scan_task` forgets whatever task is registered for the
  target by then, so that the register alone does not keep two scans apart; the
  row, and its staleness being counted from the next poll, do. Its exception, an
  identifier given out again under a task that holds it, is a defect of the code
  (section 6) and is recorded as it happens, in `reused`; nothing that leads to it
  is left out of the run.
- `DueIsScanned` has an exception for rows left behind by a stop, which is what
  `SslLabsBlocked.cfg` shows to be permanent.
- `OwnKept` looks for the operator's file in four places, because a takeover moves it
  through all of them; `CoveredFailureRestores` compares the file with its first bytes
  as long as nothing was announced. Both except what the code leaves `uncovered`: two
  writers that had the file at once (`OnboardingRepair.cfg`), and a takeover of an
  existing file whose load and restore both failed (`OnboardingUnrestored.cfg`). Over
  the starter file such a takeover is no exception: the wizard restores it once more.
- `TakeoverKeepsSites` has two parts. The sites have to go through parsing, storing and
  rendering; the global block has to survive an import from which the fallback to the
  default is one condition away.
- `RenewedIsNew` is about a success that is reported from files which other threads
  remove and Caddy writes at the same time; `AwaitedNotRemoved` excepts one thread,
  that of a purge which its own request has given up.
- `NoStaleStore`: an invalidation leaves a fetch under way alone, which is why `floor`
  does not count those (section 6).
- `CodesUsedOnce` spans sign-ins and enrolments. Disabling clears the last accepted
  step and the update of a sign-in does not look at the secret, so a code that was
  checked before and is written after a new enrolment is refused only because the
  enrolment's own code is not earlier.
- `AnsweredOnce` is all that keeps an authenticator without a counter from having one
  signature used twice.
- `NoGap` speaks of queue and browser together, so that an event lost between them
  counts.

## 4. Fairness

`CaddyDeploy!Fairness`: weak for the steps of each request and for the start of
the reconcile, because the event loop runs a handler that can go on and the
lifespan starts the reconcile; strong for `EnterGuard`, because `asyncio.Lock`
serves its waiters in the order they came, so nobody is passed over for ever. The
file lock needs none: it is polled with a deadline, after which the request ends
(`FileLockTimeout`). Arrivals, crashes and faults are not fair.

`SslLabsScans!Fairness`: weak for each task, each call and the scheduler (the
event loop), for `Tick` (time passes), `Exit` (`shutdown()` waits for what it
cancelled) and `Start` (a process that is down is started again; without it
`DueIsScanned` is about nothing); strong for `CheckTask`, again because
`_task_lock` is served in order. That SSL Labs ever finishes is not assumed:
`EveryScanEnds` rests on the maximum duration.

`CertificateRenewal!Fairness`: weak for the steps of each request and of each removal
thread. Every wait in the code has a timeout and every step of the model that waits
has the way out which that timeout takes. Caddy is not fair: it may obtain nothing.

`CertificateCache!Fairness`: weak for each caller and each fetch (the event loop; a
handshake has a timeout). The semaphore is a queue in the model, as in asyncio.

`OnboardingWizard!FairSpec`: weak for each request, and for the deployment that holds
the guard. Who waits for the guard or for SQLite has a timeout.

`EventBus!FairSpec`: weak for each reader and for the collection of what is left.
Browsers, the clock and the events are not fair.

`SignIn` and `PasskeyCeremony` state safety alone: their handlers wait for nobody.

## 5. Proofs

### CaddyDeploy

`CaddyDeployProofs.tla` proves, for every value of the constants that
`DeployAssumption` admits (any number of requests, workers, sites and contents,
any faults, any number of crashes, before or after onboarding):

| theorem | states |
|---|---|
| `TypeCorrect` | `Spec => []TypeOK` |
| `GuardIsExclusive` | `Spec => []GuardExclusion` |
| `RejectedNeverRuns` | `Spec => []OnlyValidRuns` |
| `LoadedIsPersisted` | `Spec => PersistBeforeLoad` |
| `FailuresAreUndone` | `CleanRun => (Spec => []FileIsRunning)` |
| `NoChangeIsTrue` | `CleanRun => (Spec => []NoChangeTruthful)` |
| `TakeoverServesTheSame` | `Spec => TakeoverKeepsSites` |
| `StoredRuns` | `Steady => (Spec => []StoredIsDeployed)` |
| `DeployImplementsContract` | `Steady => (Spec => Contract!ContractSafety)` |
| `RecoveredRuns` | `Recovering => (Spec => []StoredIsDeployed)` |
| `RecoveryImplementsContract` | `Recovering => (Spec => Contract!ContractSafety)` |

`CleanRun` is an assumption on the constants: no lost answer, no failed restore,
no restart of Caddy and no crash. With a lost answer both properties are false
(`CaddyDeployLostAnswer.cfg`), and a crash between write and load leaves file and Caddy
apart until the reconcile.

The argument, in the order the module takes it:

1. `GuardHeld` ties `pc` to the locks: who is in a guarded state holds the file
   lock and the asyncio lock of its worker. `GuardExclusion` follows, since
   `flock` has one value; by itself it is not inductive, as a step into the guard
   looks at the locks and not at the other requests.
2. `TypeInv` is `TypeOK` with the locals bounded (`Bound`): an update has a row it
   has seen, a request past the rendering has one, one past the write has the
   file's previous content. Without it a restore could put back nothing.
3. `ValidLocals`: a rendering that has passed the check and the content kept for
   the restore are accepted by the adapter, and so are file and Caddy. With it
   every write, load, restore and restart of Caddy keeps `OnlyValidRuns`.
4. `Persisted`: a request about to load has its rendering in the file. It needs
   `GuardHeld`, for no other request may write in between. A load changes Caddy
   to what the file holds, and so does a restart: `PersistBeforeLoad`.
5. `Agreement`: while a request is about to load or to restore, the content it
   keeps is what Caddy runs; when none is, file and Caddy agree. `FileIsRunning`
   is its case for a free file lock, again by `GuardHeld`.
6. `Told`: who is about to leave with "no_change" has found its rendering in the
   file, which by `Agreement` is what Caddy runs.

The lemma `QuietOrNoisy` divides the steps once and for all into those that touch
neither Caddy, nor the file, nor what a handler is about to write, load or
restore, and the five others; the proofs of 3 to 5 have a step for each of these.

`TakeoverServesTheSame` needs no condition on the constants. `TakeoverInv`: the database
has rows only once the takeover is `Settled` (something has been committed, or the file
is managed), every request past the point where that is decided relies on it (`InUse`),
and a request that carries a rendering while the file is still the operator's `Knows`
that it serves what the file serves. `ImportServes` is the fact about the operators:
rendering what `Imported` makes of an empty database gives every site of the file but
the `Skipped`, under the file's own global block with the injected options, unless the
file has neither a block nor a site that is imported (then the block is the default's).
`SettledStays` says that this state is never left, `OthersKept` that a step of one
request disturbs neither part for another.

*What is stored runs.* `StoredIsDeployed` and the contract do not hold of the code as it
is, so each theorem names conditions on the constants. TLC refutes `StoredIsDeployed`
without each of those of `Steady` (a restart of Caddy does harm only when the load then
fails):

| `Steady` | without it |
|---|---|
| no lost answer, failed restore or restart of Caddy, no crash (`CleanRun`) | Caddy keeps what the request has undone in file and database (`CaddyDeployLostAnswer.cfg`); for crashes see `Recovering` |
| no "commit" fault | Caddy runs what the database has rolled back |
| creations, deletions and the onboarding only | `deploy_stale_sync`, `CaddyDeployStaleUpdate.cfg`; a change of the baseline beside another request likewise |
| one worker where both creations and the onboarding occur | `CaddyDeployFollowUpTimeout.cfg` |

Adapt, write and load may fail at any point, and requests, sites and contents are any
number. `deploy_contract` checks an instance of this with two requests. The inductive
invariant is `DeployedInv`, the parts above together with `StoredInv`:

- `Discipline`: what a request may hold, know and have done at each place. From its
  first staged row to the end of its transaction it holds SQLite's write lock, except
  the onboarding, which takes it after the guard.
- `Carried`: the rendering of the holder of the write lock is that of its own
  transaction, and if it has deployed (`Deployed`), Caddy runs that. It is here that
  an update or a bare sync would fail.
- `CommittedRuns`: whenever no holder is between its load and its commit, Caddy runs
  the rendering of the committed rows, up to the formatting of the baseline (`Near`).
- `ManagedIsSynced`: a managed file was synced before, or its takeover is under way.
- `FlockUsed`: the file lock is held from inside the guard only. With one worker, or
  with handlers that all take the write lock first, it excludes the timeout of the
  follow-up (`NoLateTimeout`).

A step keeps all of it for its own request (`Kept`, one lemma per group of actions) and
does not disturb the others (`PlainKeeps`, `HolderStep`); the four that touch Caddy,
the file or the database have a lemma each (`WriteKept`, `LoadKept`, `RestoreKept`,
`CommitKept`).

The refinement takes `running`, `stored` and `open` as section 2 says. A write of the
file, a load and the decision for a follow-up are `Deploy`; a failed load ends the
deployment as `Store` of what was stored before, or as `GiveUp` before onboarding,
unless it is the follow-up's, after which the creation is still to be committed; a
commit after a deployment is `Store`; one after "no_change" and every other step
stutters. `OpenIsOpening` reduces `open` to the holder of the write lock, so that one
step says what becomes of it.

*Crashes.* `Recovering` is one request slot and one worker, any kind of request but the
onboarding, an installation that is managed, no failure but restarts of Caddy, and any
number of crashes at any step, in the reconcile too. Other failures are left out
because a reconcile that fails leaves the worker ready with the old configuration; the
onboarding because of `CaddyDeployTakeoverCrash.cfg`; a second slot because an update
or a sync beside another request breaks the contract without a crash. `RecoveryInv`:
`Recoverable` (the file is managed and the committed rows render to something that
Caddy accepts, so that the reconcile succeeds), `RunsStored` (once the workers are
ready and nothing is under way, Caddy runs what is stored), `FileIsCaddys` (the file is
what Caddy runs but between a write and its load, and from a crash to the load of the
reconcile), `Sees` (what a request has rendered is what it sees, and what Caddy runs once
it has deployed; the copy an update renders is then the row it merges: `MergedIsNew`;
who loads without the write lock, and records only then, loads what runs already, or
what the crash has left open). Every step but `Commit` keeps the database and leaves an
open deployment open, which is what the step of the refinement needs; a crash opens one
and the reconcile's commit ends it.

### CertificateRenewal

| theorem | states |
|---|---|
| `TypeCorrect` | `Spec => []TypeOK` |
| `LocksAreHeld` | `Spec => []LockHeld` |
| `RenewalIsNew` | `Spec => []RenewedIsNew` |
| `FilesAwaitedStay` | `Spec => AwaitedNotRemoved` |

For any names, sites, requests, control modes and faults. `RenewalInv` has three parts
that different steps disturb: `RequestInv` (requests and locks; a request at work has
a site and a mode, without which "its" lock means nothing), `FileInv` (storage and
threads), `ConfigInv` (configurations are numbered by deployments). `RenewedIsNew` needs
`PurgeInv`: from the end of the purge to the look at the storage, the scope of a
request has no certificate or one newer than the request. What makes it inductive is
`StorageMoves`, a fact about every step whoever takes it: a certificate appears only
with a greater number, and otherwise goes. The threads that outlive their request
need no case of their own after that.

`FilesAwaitedStay` follows from the same invariants: `OnlyRemoversEmpty` says that the
certificate of a scope goes only by a step of a removal thread of that scope, and a
request that still waits for its thread holds the lock of the scope, which the one
that awaits the files has.

### SignIn

| theorem | states |
|---|---|
| `TypeCorrect` | `Spec => []TypeOK` |
| `SecondFactorIsGiven` | `Spec => []SecondFactorGiven` |
| `CodesAreSpent` | `Spec => []CodesUsedOnce` |
| `SecretIsConfirmed` | `Spec => []SecretInForceConfirmed` |

For any browsers, requests, secrets, time steps and recovery codes. `SoundCookie`: a
session whose fingerprint has the second factor on names the secret it was given
for; it has to hold in the browsers, in the answers under way and in what handlers
know of the row (`RequestsInv`). `AccountInv`: no recovery code that is left was used,
no TOTP code later than the last accepted step was, none of a pending secret was.
The step that fails without more is `Confirm`, which sets the last accepted step to
that of its own code: `EnrolmentInv` says that a code which would confirm the pending
secret is not earlier than any code used so far, because it was checked after the
secret was issued and whatever was used since is of another request that would have
had to find the factor in force.

### PasskeyCeremony

| theorem | states |
|---|---|
| `TypeCorrect` | `Spec => []TypeOK` |
| `ChallengesAreSpent` | `Spec => []AnsweredOnce` |
| `CountersGrow` | `Spec => CounterNeverFalls` |

For any authenticators, requests, ceremonies and rows. `Fresh`: a challenge that is
stored, or not issued yet, has not been taken up. `CounterNeverFalls` is the condition
of the update, provided that the row is still that of the credential, which the
comparison of the two rows makes explicit.

### EventBus

| theorem | states |
|---|---|
| `TypeCorrect` | `Spec => []TypeOK` |
| `PlacesAreHeld` | `Spec => []ListedIsOpen` |
| `NothingIsMissed` | `Spec => []NoGap` |

For any finite set of responses, any limit and any length of the queues. The first two
are one invariant (`BusInv`): the limit is part of `TypeOK`, and a new response is not in
the list already because the list holds open streams only. `FewerPlaces` gives the
limit for every step that only takes away. `FollowInv` follows a stream event by event:
what the browser has got and what stands in the queue are the events from the first
read of the stream up to the last one published, each once and in order. It needs the
stream to be listed while it is open, since only listed streams are written to.

### CertificateCache

| theorem | states |
|---|---|
| `TypeCorrect` | `Spec => []TypeOK` |
| `FetchesAreShared` | `Spec => []OneFetch` |
| `NothingStaleIsStored` | `Spec => []NoStaleStore` |

For any callers, any finite sets of names and fetches, and any number of certificates
and invalidations. `FetchInv` ties three views of a fetch together: the queue of the
semaphore holds fetches that have not begun, once each; the register has every fetch
that goes on, under its own name; whoever waits for a fetch finds it. `OneFetch` is the
second. `FreshInv` says that a caller whose noted generation is still the name's holds,
or waits for, nothing below the floor; `FreshInvalidate` is the step it is made for,
since an invalidation leaves behind every caller that noted a generation before. The
permits left and the fetches that read make up `Permits` (`PermitInv`).

### SslLabsScans

| theorem | states |
|---|---|
| `TypeCorrect` | `Spec => []TypeOK` |
| `OneScanPerTarget` | `Spec => []OneLiveScan` |

For any hosts and edits, any number of identifiers and tasks, any delays with
`Poll <= Retry`, and any number of stops and crashes. `TypeInv` adds to `TypeOK`, which
says that a registered task runs and works on the target it is registered for, where
each task and each call has what it needs.

`OneLiveScan` is `LiveOnce` up to the first `reused`, and not inductive: that a request
finds no active row says something about tasks only if the task at work has one.
`ScanInv` is the order of the calls (`LockInv`), which holds always, and `LiveInv` as
long as `reused` is false; `ReusedStays` says that it is never false again. `WorkInv`:
the row of a task at work, if its target is still there, is active and stays so for
longer than the task sleeps, which is what a mark with a delay gives (`MarkKeepsFresh`)
and a tick keeps (`TickStep`, it takes as much from both). `SpawnInv`: between the
insertion of a row and the creation of its task nobody else works on the target.
`LockInv`: one caller at most is between the two. `OwnRows`: no two tasks share a row,
so that the end of one does not settle the row of another. `_active_tasks` is not
needed. That `reused` stays false is used in two steps: the insertion of a row
(`InsertStep`) and the targets added by `sync_targets` (`SyncEffect`), where an
identifier that a task holds would come back; the deletions before them, which leave
tasks without rows, need nothing. `QuietStep` covers every step that starts nothing.
Past `reused` the claim is false (`SslLabsTwice.cfg`).

### OnboardingWizard

| theorem | states |
|---|---|
| `TypeCorrect` | `Spec => []TypeOK` |
| `LossIsNamed` | `Spec => []LossNamesBackup` |
| `OperatorsFileIsKept` | `Spec => []OwnKept` |
| `FailuresRestore` | `Spec => []CoveredFailureRestores` |

For any requests, situations, faults and first files, and any number of deployments and
stops of Caddy. The sets are kept apart by `OnboardingFilesAssumption`: a request is not
called "deploy", and `None` is nobody's name.

`TypeInv`, `LockInv` (the second half of `TypeOK`) and `Edited` (who is about to restore
knows what) are the base of the three others. Each of those has an invariant of its own
and one lemma that says when a step of one request keeps it (`LossKept`, `UneditedKept`,
`SoloKept`), in terms of `Now`, what the request is after the step; the case of an action
then only has to say what its request becomes (`StepsNow`, `GotoNow`, `DoneNow`).

- `LossInv`: on a host that had a file there always is one, and every session and row with
  a loss, and every session that may still put an older file back, has it among the
  backups. The two places between an access check and the backup need to be free of a
  loss, for `PrepareFails` forgets the backup.
- `KeptInv`: until something is saved (`Saved`: a backup, the snapshot, or a takeover that
  can only commit) the file is the operator's, but for the takeover that has just written
  the managed one, and nobody has an edit in hand. `SavedStays` is what makes this enough:
  an edit comes after a backup, so that it starts with `Saved` true.
- `SoloInv`: one request at a time is engaged with the file and knows what to put back;
  where nobody is, and at the places `IntactAt` names, the file is the one of the
  beginning. `uncovered` is used in the steps that set it: the backups and the guard,
  where a second request would come in (`Alone`), and the failed restore of a takeover
  of an existing file. `Doomed`, a change about to be announced,
  leaves through `accounted` alone (`DoomedStays`).

### In all of them

Each theorem is proved by an initial lemma, one lemma per group of actions and a last
temporal step. TLC has checked the invariants on the instances above.

Every invariant and action property of a passing run is stated by a theorem, and the
safety part of the refinement of `DeployContract` is proved. Model-checked only:
everything under fairness, which is out of the prover's reach (`EveryRequestEnds`,
`EveryRenewalEnds`, `EveryCallerAnswered`, `ClosedReaderEnds`, `EveryScanEnds`,
`DueIsScanned`, and of `ImplementsContract` that an open deployment is stored in the end).

## 6. What the runs found

TLC refutes each of these properties. `deploy_stale_sync` is a run, and `PROJECT.json`
(`findings`) quotes the line it contradicts; the others are the configurations and
properties listed at the end of the table of runs.

- `deploy_stale_sync`: the guard is left before the commit. A creation has loaded its
  site and left the guard; a bare sync gets it, renders the last commit, which is
  without the site, writes and loads that, and waits for the write lock to record it.
  The creation commits and answers "created and deployed", and Caddy does not serve the
  site. The sync is recorded after that commit, or, if `busy_timeout` passes first,
  fails with Caddy changed (this is the history that TLC prints). The next sync mends it.
- `CaddyDeployStaleUpdate.cfg`: two edits of a site that loaded its row before either
  stored it. The database keeps the merge of both, Caddy gets the second's copy.
- `CaddyDeployFollowUpTimeout.cfg`: the certificate follow-up of a creation waits for
  the guard a second time while another worker holds the file lock. Its `TimeoutError`
  (`services/caddyfile_manager.py` 183) is raised inside `save_site`, which catches
  duplicates only (`routers/ui/sites.py` 423-425, 442); the session is rolled back after
  Caddy has taken the new site, and Caddy runs a site the database does not have. The
  next sync mends it.
- `CaddyDeployLostAnswer.cfg`: Caddy takes a configuration after the client gave up.
  The file and the session go back, and the next sync says "no_change" while Caddy
  runs something else. A forced sync (the next start, for instance) mends it.
- `CaddyDeployTakeoverCrash.cfg`: a stop between the onboarding's write and its commit.
  The marker is on disk and the database is empty, and the start-up reconcile
  loads the empty rendering.
- `OnboardingRepair.cfg`: two repairs of the Admin API at once (two tabs, a click
  sent twice). The second takes the first one's edit for the operator's file; when
  both fail, the file keeps the edit and no message says so, while
  `services/caddy_onboarding.py` 952-953 says that every failure restores the
  original bytes.
- `OnboardingUnrestored.cfg`: a takeover of an existing file whose load fails and whose
  restore fails too, with nobody else about. The failed restore is only logged
  (`services/caddyfile_manager.py` 731-742) and the wizard goes the way of an ordinary
  failure (879-893): the managed file stays in place, nothing says so, there is no
  backup in this situation, and the savepoint takes the snapshot and the imported sites
  back. The next deployment renders a database without the operator's sites over it.
- `CompletedStays`: the access check of a tab that was left open saves the row it
  read, and an onboarding completed meanwhile is open again.
- `DeployedStays`: `api_reload` loads the configuration it has read before
  (`services/renewal.py` 424) and undoes what another request deployed in between.
- `ReloadOrRestart`: a reload that is not answered in time ends the renewal; only one
  that is refused is followed by a restart. The certificate has been purged by then.
- `SignInSessions.cfg`: the session fingerprint has the hash, the secret and the
  switch of the second factor. Disabling it leads back to the fingerprint from before
  the enrolment, and sessions of that time are accepted again, while
  `docs/operations/security.md` 47 says that disabling invalidates all others.
- `PasskeyLimit.cfg`: the limit of ten is checked when a registration begins and not
  when it ends (`docs/operations/security.md` 30: "up to 10 per account").
- `RecordsOwnCounter`: a passkey deleted while a sign-in with it is verified, and
  another registered, which gets its row identifier: the other one is recorded.
- `PlaceComesBack`: a browser that leaves before the first read leaves a generator that
  was never started; nothing closes its stream and the bus keeps its place.
- `ExitEndsStreams`: a stream subscribed after the exit signal is closed by nobody, and
  the server waits for it.
- `SslLabsBlocked.cfg`: a stop, or the cancellation of the scheduler between the
  commit of a row and the creation of its task, leaves a row the partial unique
  index counts for ever; the staleness rule does not reach it.
- `SslLabsFresh.cfg`: `startNew` is cleared although the first call was refused or
  timed out; the retry stores the previous report as the fresh one.
- `SslLabsTwice.cfg`: a host is scanned, its site deleted and created again. The new
  target gets the identifier of the old one while the old task sleeps; a request finds
  no active row for it, takes the sleeping task out of the register as a finished one
  (`services/ssllabs.py` 530-537) and starts a second beside it (592).
- `SslLabsReuse.cfg`: a task outlives the rows of a deleted site, whose identifiers
  come back, and stores one host's report under another.

Met on the way:

- `onboard_caddy` only logs the site blocks the repository refuses (a wildcard
  label, an empty block; `services/caddyfile_manager.py` 846) and its forced sync
  then drops them, while the wizard says "Import its existing active config"
  (`services/caddy_onboarding.py` 100-101). In the model they are the members of
  `Skipped`, and `TakeoverKeepsSites` excepts them.
- An installation that was taken over from a file with global options cannot empty its
  baseline: an empty one counts as none, and `get_baseline_caddyfile` (436-447) falls back
  to the global block of the snapshot, which is what is rendered while the page says
  that the empty one was saved and deployed.
- The comment at `services/caddyfile_manager.py` 694-695 writes the file first "so
  a later restart can recover the same config even if the Admin API write fails";
  since the restore (731-742) was added, a failed load puts the previous file back,
  and a restart recovers that one. A failed restore is only logged and leaves the
  refused configuration in the file.
- The plan of a renewal is made again before the lock is taken. One that waits for
  its lookups while another renewal succeeds keeps its plan and purges the certificate
  just obtained; it obtains one itself, so that `RenewedIsNew` holds. A purge of a name
  that a wildcard covers is answered as a success without a certificate of its own.
- A sync with nothing to do leaves an event unflushed in the session; the next SELECT
  of the renewal flushes it, and the request holds SQLite's write lock while it waits
  for Caddy (`routers/ui/sites.py` 586).
- An invalidation of the certificate cache does not detach the fetch under way: a
  caller that comes after it joins the old fetch, notes the new generation, and stores
  a result from before the invalidation.
- An answer that arrives late replaces whatever cookie the browser has by then: a
  page loaded before a sign-in can end it.
- An event missed between two streams is not sent again; the page is stale until the
  next event or reload.
- A repair of the Admin API that overlaps a takeover can put the operator's file over
  the managed one, or the reverse. An access check that fails after a successful
  repair keeps the edit. A loss that meets a busy database is announced by a 500 only.
- When writing the Caddyfile fails after Caddy took the configuration, the managed file
  may be in place with the database rolled back; the wizard then finds a file that is
  managed already and completes with nothing imported. The model has no such fault.
- In mode "docker" the access check passes without a Caddyfile, and the execution then
  fails every time. A failed execution stays on its step with the button disabled
  until the check has run again.
- A cancellation during shutdown can overwrite a scan just completed with
  "failed".

## 7. Not modelled

- In the deployment model: the torn states of the in-place fallback of the file
  write; the wizard's own writes outside the guard; a certificate renewal;
  changes of the Admin API address, which alter the rendering without deploying;
  the onboarding at start-up (`auto_onboard`, off by default); the text of a
  Caddyfile; wrong or deleted files on disk.
- In the wizard's model: the fields of the row that only the pages read, addresses,
  paths and the text of the file; the torn states of a write; stops of the
  application, which are the subject of `deploy_recovery` and of
  `CaddyDeployTakeoverCrash.cfg`.
- In the renewal's model: events and messages, the account and ocsp files, names that
  share a certificate other than a wildcard; SQLite, which `CaddyDeploy` has, and
  with it the write lock held by a waiting renewal.
- In the cache's model: why a name could not be checked; callers that are cancelled,
  which happens when the process stops; the other metrics of the dashboard.
- In the sign-in's model: several accounts (there is one administrator), the rate
  limits and the captcha, the time of the last sign-in; CSRF tokens, for which the
  server keeps no state.
- In the passkeys' model: the cryptography, names, transports and time stamps.
- In the event bus's model: payloads and the limit of their size.
- In the SSL Labs model: when the e-mail address is set (a task may find it unset), rank
  history and its pruning, grades and payloads, the limit of 25 due targets, errors of
  SQLite other than those of the unique index.
- The Caddyfile parser, formatter and renderer (`utils/caddyfile.py`) are pure
  functions of strings. What the models need of them is a parameter (`Rejected`,
  `Formatted`, `Skipped`) or an effect (`EditWrite`); the text itself is the subject of
  the repository's tests.
- Not at all: schema repair, which runs alone before the server does; the other
  runtime settings, pages, logging, tools and browser code, which are sequential or
  presentation.

## 8. Plan

What is left, in this order:

1. `Recovering` with more than one slot (creations and deletions only), with loads
   that fail outside the reconcile, and with the onboarding after its first commit.
2. A composition of the renewal with the transaction of its route, for the write lock
   it holds while it waits.
3. `CaddyfileWrite`, the write of the file in its two forms, of which `WriteFile`
   becomes the abstraction.

Runs and bounds follow section 3: two actors of each kind, one or two of each
datum, and one failure or stop more than the shortest history that matters.
