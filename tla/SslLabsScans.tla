---------------------------- MODULE SslLabsScans ----------------------------
(***************************************************************************)
(* The SSL Labs assessments of app/services/ssllabs.py: targets and their  *)
(* schedules, scan rows, one asyncio task per scan, the scheduler, and the *)
(* stop, crash and start of the one process that runs them.  Rows survive  *)
(* the process, tasks and _active_tasks do not.                            *)
(*                                                                         *)
(* Every time is relative: a row keeps how long it is from the moment it   *)
(* matters, and Tick is the only step that takes time.  A tick stands for  *)
(* a poll interval; the constants keep the order of the real durations     *)
(* (poll 5-10 s < scheduler 60 s < gap 5 min < retry 15-60 min < staleness *)
(* and maximum duration 2 h < schedule 7 or 28 days and more).             *)
(*                                                                         *)
(* SQLite gives a new row the identifier after the greatest of its table,  *)
(* which may be that of a row just deleted, while a task or a request      *)
(* still holds it.  The history variable reused says that this happened.   *)
(*                                                                         *)
(* Out of the model: rank history and its pruning, grades and payloads,    *)
(* errors of SQLite other than those of the unique index.                  *)
(***************************************************************************)
EXTENDS Naturals, FiniteSets

CONSTANTS
    Host,         \* the hosts the sites serve (one each)
    Target,       \* identifiers of ssllabs_targets rows (bound)
    Scan,         \* identifiers of ssllabs_scans rows (bound)
    Task,         \* slots of _run_scan tasks (bound)
    Forget,       \* TRUE: settled rows nobody refers to are dropped, for want of
                  \* identifiers in instances whose rows nobody deletes (bound)
    Poll, Retry,  \* delay after an answer; longest delay after a refusal
    Gap,          \* _MIN_SECONDS_BETWEEN_NEW_SCANS
    StaleAfter,   \* ACTIVE_SCAN_STALE_AFTER
    MaxDuration,  \* _MAX_SCAN_DURATION_SECONDS
    Interval,     \* the schedule
    Edits,        \* what the operator makes of which site meanwhile
    Asked,        \* the hosts the operator asks scans and schedules of (bound)
    MaxClicks,    \* requests the rate limiter lets through between two ticks
    MaxStops,     \* how often the process stops (bound)
    None

Client == {"operator", "scheduler"}
Exclusive == {"queued", "running"}          \* queued, starting, dns, in_progress
Active == Exclusive \cup {"rate_limited"}
Settled == {"ready", "failed", "cancelled"} \* cancelled: failed, completed_at unset

TargetRow == [host : Host, wait : 0..Interval \cup {None}, cool : 0..Gap]
ScanRow == [target : Target, host : Host, status : Active \cup Settled,
            fresh : 0..(StaleAfter + Retry), report : Host \cup {None}]
TaskPC == {"none", "start", "call", "sleep", "final", "cancelled"}
TaskState == [pc : TaskPC, target : Target \cup {None}, scan : Scan \cup {None},
              host : Host \cup {None}, wake : 0..Retry, age : 0..(MaxDuration + 1),
              startNew : BOOLEAN, renewed : BOOLEAN]
ClientState == [pc : {"idle", "lock", "row", "spawn"}, target : Target \cup {None},
                force : BOOLEAN, scan : Scan \cup {None}]

ASSUME SslLabsAssumption ==
    /\ Target \subseteq Nat /\ Scan \subseteq Nat /\ Task \subseteq Nat
    /\ Edits \subseteq Host \X {"on", "off", "gone"}
    /\ Asked \subseteq Host
    /\ Forget \in BOOLEAN /\ (Forget => Edits = {})
    /\ {Poll, Retry, Gap, StaleAfter, MaxDuration, Interval, MaxClicks} \subseteq Nat \ {0}
    /\ Poll <= Retry
    /\ MaxStops \in Nat
    /\ None \notin Nat \cup Host \cup TargetRow \cup ScanRow

VARIABLES
    site,     \* how each host is served: https ("on"), without ("off"), or "gone"
    target,   \* ssllabs_targets; wait: until next_scheduled_at, None if there is
              \* no schedule; cool: until a forced scan may start again
    scan,     \* ssllabs_scans; fresh: until the row no longer counts as active
              \* (from coalesce(next_poll_at, started_at)); report: whose it is
    task,     \* the _run_scan tasks; age: since it started; renewed: an
              \* assessment ended since then, or none was asked for
    active,   \* _active_tasks
    client,   \* who calls request_scan, and how far the call is
    sched,    \* the scheduler loop: where it is, what it drops, what is due
    labs,     \* SSL Labs' assessment of each host: "none", "busy" or "done"
    clicks,   \* requests since the last tick
    proc,     \* the process: "up", "stopping" or "down"
    stops,    \* how often it stopped
    reused    \* history: an identifier was given to a new row that a task or
              \* a request still held

rows == <<target, scan>>
tasks == <<task, active>>
world == <<site, labs, clicks>>
life == <<proc, stops, reused>>
vars == <<site, target, scan, task, active, client, sched, labs, clicks, proc, stops, reused>>

Idle == [pc |-> "idle", target |-> None, force |-> FALSE, scan |-> None]
NoTask == [pc |-> "none", target |-> None, scan |-> None, host |-> None,
           wake |-> 0, age |-> 0, startNew |-> FALSE, renewed |-> TRUE]
SchedAt(l) == [pc |-> l, drop |-> {}, due |-> {}]

Running(k) == task[k].pc # "none"

\* Identifiers beyond the greatest in the table; the least are taken.
NewTarget == {t \in Target : \A u \in Target : u >= t => target[u] = None}
NewScan == {s \in Scan : \A r \in Scan : r >= s => scan[r] = None}

\* A task or a request holds the identifier.
HoldsTarget(t) ==
    \/ \E k \in Task : task[k].target = t
    \/ \E c \in Client : client[c].target = t
HoldsScan(s) ==
    \/ \E k \in Task : task[k].scan = s
    \/ \E c \in Client : client[c].scan = s

RowsOf(t) == {s \in Scan : scan[s] # None /\ scan[s].target = t}

\* Mutant: staleness is measured from started_at alone, and only runs down.
UntilStaleFromStart(s, delay) == scan[s].fresh

\* coalesce(next_poll_at, started_at) plus the staleness limit; a mark without
\* a next poll happens before the first one or settles the row.
UntilStale(s, delay) == IF delay = 0 THEN scan[s].fresh ELSE delay + StaleAfter

\* get_active_scan_for_target: active rows that are not stale.
HasActive(t) == \E s \in RowsOf(t) : scan[s].status \in Active /\ scan[s].fresh > 0

\* The partial unique index of ssllabs_scans knows no staleness.
IndexAllows(t) == \A s \in RowsOf(t) : scan[s].status \notin Exclusive

\* Rows of deleted targets go with them (ON DELETE CASCADE).
DropTargets(T) ==
    /\ target' = [t \in Target |-> IF t \in T THEN None ELSE target[t]]
    /\ scan' = [s \in Scan |-> IF scan[s] # None /\ scan[s].target \in T THEN None ELSE scan[s]]
-----------------------------------------------------------------------------
(***************************************************************************)
(* The operator: at most MaxClicks actions between two ticks.              *)
(***************************************************************************)
Click ==
    /\ proc = "up"
    /\ clicks < MaxClicks
    /\ clicks' = clicks + 1

Ask(c, t, f) == client' = [client EXCEPT ![c] = [Idle EXCEPT !.pc = "lock", !.target = t, !.force = f]]

\* POST /ssl-labs/{id}/scan, from the cache or fresh.
OperatorScan(t, f) ==
    /\ Click
    /\ target[t] # None /\ target[t].host \in Asked
    /\ client["operator"] = Idle
    /\ Ask("operator", t, f)
    /\ UNCHANGED <<site, rows, tasks, sched, labs, life>>

\* POST /ssl-labs/{id}/schedule: enabling it asks for a scan as well unless
\* the latest one is completed and recent.
SetSchedule(t, on) ==
    /\ Click
    /\ target[t] # None /\ target[t].host \in Asked
    /\ client["operator"] = Idle
    /\ target' = [target EXCEPT ![t].wait = IF on THEN Interval ELSE None]
    /\ \/ on /\ Ask("operator", t, FALSE)
       \/ /\ on => \E s \in RowsOf(t) : scan[s].status \in {"ready", "failed"}
          /\ UNCHANGED client
    /\ UNCHANGED <<site, scan, tasks, sched, labs, life>>

\* The site is stored, edited or deleted by the site routes; deleting it
\* takes its targets with it, whatever is running.
ChangeSite(h, to) ==
    /\ Click
    /\ site[h] # to
    /\ site' = [site EXCEPT ![h] = to]
    /\ IF to = "gone"
       THEN DropTargets({t \in Target : target[t] # None /\ target[t].host = h})
       ELSE UNCHANGED rows
    /\ UNCHANGED <<tasks, client, sched, labs, life>>
-----------------------------------------------------------------------------
(***************************************************************************)
(* request_scan, under _task_lock from "row" to the end.                   *)
(***************************************************************************)
Answer(c) == client' = [client EXCEPT ![c] = Idle]

\* The lock is taken and the registered task looked at: with an active row
\* the answer is "already running", without one its entry is forgotten.
CheckTask(c) ==
    LET t == client[c].target
    IN  /\ client[c].pc = "lock"
        /\ \A d \in Client : client[d].pc \in {"idle", "lock"}
        /\ IF active[t] # None /\ HasActive(t)
           THEN Answer(c) /\ UNCHANGED active
           ELSE /\ active' = [active EXCEPT ![t] = None]
                /\ client' = [client EXCEPT ![c].pc = "row"]
        /\ UNCHANGED <<rows, task, sched, world, life>>

\* Where Forget: only the latest row of a target is ever read.
Forgotten(t) ==
    {s \in RowsOf(t) : Forget /\ scan[s].status \in Settled /\ \A k \in Task : task[k].scan # s}

\* The instance has an identifier and a slot left (bound).
Room(t) ==
    /\ Forgotten(t) \cup NewScan # {}
    /\ \E k \in Task : ~Running(k)

MayInsert(c) ==
    LET t == client[c].target
    IN  /\ target[t] # None
        /\ ~HasActive(t)
        /\ client[c].force => target[t].cool = 0
        /\ IndexAllows(t)

\* No such target, already running, too soon after the last forced scan, or
\* the row is refused by the index ("state changed unexpectedly").
RefuseRow(c) ==
    /\ client[c].pc = "row"
    /\ ~MayInsert(c) \/ ~Room(client[c].target)
    /\ Answer(c)
    /\ UNCHANGED <<rows, tasks, sched, world, life>>

\* The row is inserted and committed.
InsertRow(c) ==
    LET t == client[c].target
        old == Forgotten(t)
        free == old \cup NewScan
        least == {s \in free : \A r \in free : s <= r}
        new == [target |-> t, host |-> target[t].host, status |-> "queued",
                fresh |-> StaleAfter, report |-> None]
    IN  /\ client[c].pc = "row"
        /\ MayInsert(c) /\ Room(t)
        /\ \E s \in least :
              /\ scan' = [r \in Scan |-> IF r = s THEN new ELSE IF r \in old THEN None ELSE scan[r]]
              /\ client' = [client EXCEPT ![c].pc = "spawn", ![c].scan = s]
              /\ reused' = (reused \/ HoldsScan(s))
        /\ target' = IF client[c].force THEN [target EXCEPT ![t].cool = Gap] ELSE target
        /\ UNCHANGED <<tasks, sched, world, proc, stops>>

\* The task is created and registered.
Spawn(c) ==
    /\ client[c].pc = "spawn"
    /\ \E k \in Task :
          /\ ~Running(k)
          /\ \A j \in Task : ~Running(j) => k <= j
          /\ task' = [task EXCEPT ![k] = [NoTask EXCEPT !.pc = "start", !.target = client[c].target,
                          !.scan = client[c].scan, !.startNew = client[c].force,
                          !.renewed = ~client[c].force]]
          /\ active' = [active EXCEPT ![client[c].target] = k]
    /\ Answer(c)
    /\ UNCHANGED <<rows, sched, world, life>>
-----------------------------------------------------------------------------
(***************************************************************************)
(* _run_scan.                                                              *)
(***************************************************************************)
\* _mark_scan_state: nothing if the target or the scan is gone.
Marks(k) == target[task[k].target] # None /\ scan[task[k].scan] # None

\* The index refuses to make the row an exclusive one beside another.
MarkAllowed(k) ==
    Marks(k) => \A r \in RowsOf(scan[task[k].scan].target) \ {task[k].scan} : scan[r].status \notin Exclusive

MarkActive(k, st, delay) ==
    /\ scan' = IF Marks(k)
               THEN [scan EXCEPT ![task[k].scan].status = st,
                                 ![task[k].scan].fresh = UntilStale(task[k].scan, delay)]
               ELSE scan
    /\ UNCHANGED target

MarkSettled(k, st) ==
    scan' = IF Marks(k)
            THEN [scan EXCEPT ![task[k].scan].status = st, ![task[k].scan].fresh = 0,
                              ![task[k].scan].report = IF st = "ready" THEN task[k].host ELSE None]
            ELSE scan

\* Mutant: a completion leaves a schedule that is due as it is.
RescheduleNever(k) == UNCHANGED target

\* A completed scan moves a schedule that is due to its next time after now.
Reschedule(k) ==
    LET t == task[k].target
    IN  IF Marks(k) /\ target[t].wait = 0
        THEN \E w \in 1..Interval : target' = [target EXCEPT ![t].wait = w]
        ELSE UNCHANGED target

Complete(k, st) ==
    /\ MarkSettled(k, st)
    /\ Reschedule(k)
    /\ task' = [task EXCEPT ![k].pc = "final"]
    /\ UNCHANGED <<active, client, sched, site, clicks, life>>

Sleep(k, delay) ==
    /\ task' = [task EXCEPT ![k].pc = "sleep", ![k].wake = delay, ![k].startNew = FALSE]
    /\ UNCHANGED <<active, client, sched, site, clicks, life>>

\* A target that is gone ends the task; else its host is read, once.
Begin(k) ==
    LET t == task[k].target
    IN  /\ task[k].pc = "start"
        /\ IF target[t] = None
           THEN task' = [task EXCEPT ![k].pc = "final"] /\ UNCHANGED rows
           ELSE /\ MarkAllowed(k)
                /\ task' = [task EXCEPT ![k].pc = "call", ![k].host = target[t].host]
                /\ MarkActive(k, "queued", 0)
        /\ UNCHANGED <<active, client, sched, world, life>>

\* The e-mail address is unset by now, or the index refuses the mark.
BeginFails(k) ==
    /\ task[k].pc = "start"
    /\ target[task[k].target] # None
    /\ Complete(k, "failed")
    /\ UNCHANGED labs

\* Mutant: the duration is measured from the last poll.
OverdueSincePoll(k) == task[k].wake > MaxDuration

Overdue(k) == task[k].age > MaxDuration

Expire(k) ==
    /\ task[k].pc = "call"
    /\ Overdue(k)
    /\ Complete(k, "failed")
    /\ UNCHANGED labs

\* What the call makes SSL Labs do when it arrives.
Starts(k) == task[k].startNew \/ labs[task[k].host] = "none"
LabsAfter(k) == IF Starts(k) THEN [labs EXCEPT ![task[k].host] = "busy"] ELSE labs

\* The assessment is under way.
Progress(k) ==
    /\ task[k].pc = "call"
    /\ ~Overdue(k)
    /\ labs' = LabsAfter(k)
    /\ labs'[task[k].host] = "busy"
    /\ MarkAllowed(k)
    /\ MarkActive(k, "running", Poll)
    /\ Sleep(k, Poll)

\* The answer is a report, or an assessment that ended in an error.
Report(k) ==
    /\ task[k].pc = "call"
    /\ ~Overdue(k)
    /\ ~Starts(k)
    /\ labs[task[k].host] = "done"
    /\ \E st \in {"ready", "failed"} : Complete(k, st)
    /\ UNCHANGED labs

\* 429, 503 and 529 (not accepted), or a timeout (accepted or not).
PutOff(k) ==
    /\ task[k].pc = "call"
    /\ ~Overdue(k)
    /\ labs' \in {labs, LabsAfter(k)}
    /\ \E delay \in {Poll, Retry} : MarkActive(k, "rate_limited", delay) /\ Sleep(k, delay)

\* Any other error of the call, or of the mark that follows it.
Refused(k) ==
    /\ task[k].pc = "call"
    /\ ~Overdue(k)
    /\ labs' \in {labs, LabsAfter(k)}
    /\ Complete(k, "failed")

\* Mutant: a task that ends stays registered.
EndRegistered(k) ==
    /\ task[k].pc = "final"
    /\ task' = [task EXCEPT ![k] = NoTask]
    /\ UNCHANGED <<rows, active, client, sched, world, life>>

\* The task ends, closed client and all; its done callback forgets whatever
\* task is registered for the target by now.
End(k) ==
    /\ task[k].pc = "final"
    /\ task' = [task EXCEPT ![k] = NoTask]
    /\ active' = [active EXCEPT ![task[k].target] = None]
    /\ UNCHANGED <<rows, client, sched, world, life>>

\* CancelledError: the scan is marked failed without being completed, also
\* one whose completion was committed while the cancellation came.
Cancelled(k) ==
    /\ task[k].pc = "cancelled"
    /\ MarkSettled(k, "cancelled")
    /\ task' = [task EXCEPT ![k] = NoTask]
    /\ active' = [active EXCEPT ![task[k].target] = None]
    /\ UNCHANGED <<target, client, sched, world, life>>
-----------------------------------------------------------------------------
(***************************************************************************)
(* _scheduler_loop.                                                        *)
(***************************************************************************)
\* sync_targets reads the sites and the targets, and which of the targets no
\* site wants any more have no active scan.
ReadTargets ==
    /\ sched.pc = "scan"
    /\ sched' = [SchedAt("sync") EXCEPT !.drop =
                    {t \in Target : target[t] # None /\ site[target[t].host] # "on" /\ ~HasActive(t)}]
    /\ UNCHANGED <<rows, tasks, client, world, life>>

\* The flush adds the missing targets, then deletes those by identifier;
\* after the commit the due targets are listed.  Hosts go without a target
\* when the instance has not enough identifiers left (bound).
SyncTargets ==
    LET has == {target[t].host : t \in {u \in Target : target[u] # None}}
        wanted == {h \in Host : site[h] = "on" /\ h \notin has}
        missing == IF Cardinality(wanted) > Cardinality(NewTarget) THEN {} ELSE wanted
        \* the least free identifiers, one for each
        ids == {a \in [missing -> NewTarget] :
                   /\ \A h, i \in missing : a[h] = a[i] => h = i
                   /\ \A h \in missing, t \in NewTarget : t < a[h] => \E i \in missing : a[i] = t}
    IN  /\ sched.pc = "sync"
        /\ \E add \in ids :
              /\ target' = [t \in Target |->
                    IF t \in sched.drop THEN None
                    ELSE IF t \in {add[h] : h \in missing}
                    THEN [host |-> CHOOSE h \in missing : add[h] = t, wait |-> None, cool |-> 0]
                    ELSE target[t]]
              /\ reused' = (reused \/ \E h \in missing : HoldsTarget(add[h]))
        /\ scan' = [s \in Scan |->
                IF scan[s] # None /\ scan[s].target \in sched.drop THEN None ELSE scan[s]]
        /\ sched' = [SchedAt("due") EXCEPT !.due =
                {t \in Target : target'[t] # None /\ target'[t].wait = 0}]
        /\ UNCHANGED <<tasks, client, world, proc, stops>>

\* One forced request after the other; a refusal is only logged.
ScanDue ==
    /\ sched.pc = "due"
    /\ client["scheduler"] = Idle
    /\ \E t \in sched.due :
          /\ Ask("scheduler", t, TRUE)
          /\ sched' = [sched EXCEPT !.due = @ \ {t}]
    /\ UNCHANGED <<rows, tasks, world, life>>

AllDueScanned ==
    /\ sched.pc = "due"
    /\ sched.due = {}
    /\ client["scheduler"] = Idle
    /\ sched' = SchedAt("sleep")
    /\ UNCHANGED <<rows, tasks, client, world, life>>
-----------------------------------------------------------------------------
(***************************************************************************)
(* Stop, crash and start of the process; SSL Labs; time.                   *)
(***************************************************************************)
\* Registered tasks are cancelled: one that has not begun never runs, one
\* past its last mark may get the cancellation too late to mark again.
\* The scheduler is cancelled wherever it is, also between the commit of a
\* row and the creation of its task.  Open requests were waited for.
Shutdown ==
    LET registered == {k \in Task : \E t \in Target : active[t] = k}
    IN  /\ proc = "up"
        /\ stops < MaxStops
        /\ client["operator"] = Idle
        /\ proc' = "stopping"
        /\ stops' = stops + 1
        /\ active' = [t \in Target |-> None]
        /\ \E late \in SUBSET {k \in registered : task[k].pc = "final"} :
              task' = [k \in Task |->
                  IF k \notin registered \/ k \in late THEN task[k]
                  ELSE IF task[k].pc = "start" THEN NoTask ELSE [task[k] EXCEPT !.pc = "cancelled"]]
        /\ Answer("scheduler")
        /\ sched' = SchedAt("off")
        /\ UNCHANGED <<rows, world, reused>>

\* The shutdown event, or the event loop when it is closed, cancels a task
\* that was not registered.
LoopCancel(k) ==
    /\ proc = "stopping"
    /\ task[k].pc \in {"call", "sleep"}
    /\ task' = [task EXCEPT ![k].pc = "cancelled"]
    /\ UNCHANGED <<rows, active, client, sched, world, life>>

Dies ==
    /\ proc' = "down"
    /\ task' = [k \in Task |-> NoTask]
    /\ active' = [t \in Target |-> None]
    /\ client' = [c \in Client |-> Idle]
    /\ sched' = SchedAt("off")
    /\ UNCHANGED <<rows, world, reused>>

\* shutdown() has awaited what it cancelled; what else runs dies.
Exit ==
    /\ proc = "stopping"
    /\ \A k \in Task : task[k].pc # "cancelled"
    /\ Dies
    /\ UNCHANGED stops

Crash ==
    /\ proc = "up"
    /\ stops < MaxStops
    /\ stops' = stops + 1
    /\ Dies

\* No row is looked at: what was running is neither resumed nor settled.
Start ==
    /\ proc = "down"
    /\ proc' = "up"
    /\ sched' = SchedAt("scan")
    /\ UNCHANGED <<rows, tasks, client, world, stops, reused>>

\* A time that has come stays come.
Less(n) == IF n \in {0, None} THEN n ELSE n - 1

\* What a tick does to a task, SSL Labs having finished the hosts in done.
Later(k, done) ==
    IF ~Running(k) THEN NoTask
    ELSE [task[k] EXCEPT !.pc = IF task[k].wake = 1 THEN "call" ELSE "sleep",
                         !.wake = @ - 1,
                         !.age = IF @ > MaxDuration THEN @ ELSE @ + 1,
                         !.renewed = @ \/ task[k].host \in done]

\* A tick passes when nothing is left to do but to wait; meanwhile SSL Labs
\* may finish assessments.
Tick ==
    /\ proc # "stopping"
    /\ \A k \in Task : task[k].pc \in {"none", "sleep"}
    /\ \A c \in Client : client[c] = Idle
    /\ sched.pc \in {"sleep", "off"}
    /\ target' = [t \in Target |-> IF target[t] = None THEN None
                      ELSE [target[t] EXCEPT !.wait = Less(@), !.cool = Less(@)]]
    /\ scan' = [s \in Scan |-> IF scan[s] = None THEN None ELSE [scan[s] EXCEPT !.fresh = Less(@)]]
    /\ \E done \in SUBSET {h \in Host : labs[h] = "busy"} :
          /\ labs' = [h \in Host |-> IF h \in done THEN "done" ELSE labs[h]]
          /\ task' = [k \in Task |-> Later(k, done)]
    /\ sched' = IF sched.pc = "sleep" THEN SchedAt("scan") ELSE sched
    /\ clicks' = 0
    /\ UNCHANGED <<site, active, client, life>>
-----------------------------------------------------------------------------
Operator ==
    \/ \E t \in Target, f \in BOOLEAN : OperatorScan(t, f) \/ SetSchedule(t, f)
    \/ \E e \in Edits : ChangeSite(e[1], e[2])

ClientStep(c) == CheckTask(c) \/ RefuseRow(c) \/ InsertRow(c) \/ Spawn(c)

TaskStep(k) ==
    \/ Begin(k) \/ BeginFails(k) \/ Expire(k) \/ Progress(k) \/ Report(k) \/ PutOff(k) \/ Refused(k)
    \/ End(k) \/ Cancelled(k)

SchedulerStep == ReadTargets \/ SyncTargets \/ ScanDue \/ AllDueScanned

Next ==
    \/ Operator
    \/ \E c \in Client : ClientStep(c)
    \/ \E k \in Task : TaskStep(k) \/ LoopCancel(k)
    \/ SchedulerStep
    \/ Shutdown \/ Exit \/ Crash \/ Start
    \/ Tick

\* A first start: some sites are there, no target is.
Init ==
    /\ site \in [Host -> {"on", "gone"}]
    /\ target = [t \in Target |-> None]
    /\ scan = [s \in Scan |-> None]
    /\ task = [k \in Task |-> NoTask]
    /\ active = [t \in Target |-> None]
    /\ client = [c \in Client |-> Idle]
    /\ sched = SchedAt("scan")
    /\ labs = [h \in Host |-> "none"]
    /\ clicks = 0
    /\ proc = "up"
    /\ stops = 0
    /\ reused = FALSE

Spec == Init /\ [][Next]_vars

\* The event loop runs what is ready, _task_lock serves its waiters in order,
\* time passes and a process that is down is started again.
Fairness ==
    /\ \A k \in Task : WF_vars(TaskStep(k))
    /\ \A c \in Client : SF_vars(CheckTask(c)) /\ WF_vars(ClientStep(c))
    /\ WF_vars(SchedulerStep)
    /\ WF_vars(Tick)
    /\ WF_vars(Exit)
    /\ WF_vars(Start)

FairSpec == Spec /\ Fairness
-----------------------------------------------------------------------------
(***************************************************************************)
(* Properties.                                                             *)
(***************************************************************************)
\* The variables have their types; what _active_tasks holds for a target is
\* a running task of that target.
TypeOK ==
    /\ site \in [Host -> {"on", "off", "gone"}]
    /\ target \in [Target -> TargetRow \cup {None}]
    /\ scan \in [Scan -> ScanRow \cup {None}]
    /\ task \in [Task -> TaskState]
    /\ active \in [Target -> Task \cup {None}]
    /\ \A t \in Target : active[t] # None => Running(active[t]) /\ task[active[t]].target = t
    /\ client \in [Client -> ClientState]
    /\ sched \in [pc : {"scan", "sync", "due", "sleep", "off"}, drop : SUBSET Target, due : SUBSET Target]
    /\ labs \in [Host -> {"none", "busy", "done"}]
    /\ clicks \in 0..MaxClicks
    /\ proc \in {"up", "stopping", "down"}
    /\ stops \in 0..MaxStops
    /\ reused \in BOOLEAN

Assesses(k) ==
    /\ task[k].pc \in {"start", "call", "sleep"}
    /\ target[task[k].target] # None

\* request_scan starts no second scan of a target while one is going on.  It
\* does so when the identifier of a deleted target or row comes back while a
\* task still holds it.
LiveOnce ==
    \A j, k \in Task : Assesses(j) /\ Assesses(k) /\ task[j].target = task[k].target => j = k

\* Unless that happened it holds, long delays between polls, finished and
\* forgotten tasks, tasks that outlive their target, sites deleted and
\* created again and restarts included.
OneLiveScan == ~reused => LiveOnce

\* Every _run_scan task ends, however long SSL Labs takes or puts it off.
EveryScanEnds == \A k \in Task : Running(k) ~> ~Running(k)

\* Rows that are active for the index and that nobody works on.
Orphan(s) ==
    /\ scan[s] # None
    /\ scan[s].status \in Exclusive
    /\ \A k \in Task : task[k].scan # s
    /\ \A c \in Client : client[c].scan # s

\* _scheduler_loop: a target that is due gets a scan and with it a new time,
\* over restarts, refusals and scans of the operator, unless a row is left
\* behind that the index takes for an active one.
DueIsScanned ==
    \A t \in Target :
        target[t] # None /\ target[t].wait = 0
            ~> target[t] = None \/ target[t].wait # 0 \/ \E s \in RowsOf(t) : Orphan(s)

\* "stale retry rows do not permanently block a new scan", and the creation
\* "ignores stale active rows": a request that finds no active scan and has
\* not to wait can insert its row.
StaleRowsDoNotBlock ==
    \A c \in Client :
        client[c].pc = "row" /\ target[client[c].target] # None /\ ~HasActive(client[c].target)
            => IndexAllows(client[c].target)

\* "start a fresh assessment": a forced scan ends with a report that is newer
\* than the request.
FreshIsFresh ==
    \A k \in Task :
        task[k].pc = "final" /\ Marks(k) /\ scan[task[k].scan].status = "ready" => task[k].renewed

\* The report a host's page shows is the report of that host.
OwnReport ==
    \A s \in Scan : scan[s] # None /\ scan[s].status = "ready" => scan[s].report = scan[s].host
=============================================================================
