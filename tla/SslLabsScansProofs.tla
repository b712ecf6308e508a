------------------------ MODULE SslLabsScansProofs ------------------------
(***************************************************************************)
(* Theorems about SslLabsScans for any hosts, identifiers, tasks, delays   *)
(* and stops.                                                              *)
(***************************************************************************)
EXTENDS SslLabsScans, TLAPS

USE SslLabsAssumption

\* Where a task is, it has what it needs there.
TaskBound(x) ==
    /\ x.pc # "none" => x.target \in Target /\ x.scan \in Scan
    /\ x.pc \in {"call", "sleep"} => x.host \in Host
    /\ x.pc = "sleep" => x.wake # 0

ClientBound(x) ==
    /\ x.pc # "idle" => x.target \in Target
    /\ x.pc = "spawn" => x.scan \in Scan

RowTypes ==
    /\ target \in [Target -> TargetRow \cup {None}]
    /\ scan \in [Scan -> ScanRow \cup {None}]
TaskTypes ==
    /\ task \in [Task -> TaskState]
    /\ \A k \in Task : TaskBound(task[k])
    /\ active \in [Target -> Task \cup {None}]
    /\ \A t \in Target : active[t] # None => Running(active[t]) /\ task[active[t]].target = t
ClientTypes ==
    /\ client \in [Client -> ClientState]
    /\ \A c \in Client : ClientBound(client[c])
WorldTypes ==
    /\ site \in [Host -> {"on", "off", "gone"}]
    /\ labs \in [Host -> {"none", "busy", "done"}]
    /\ clicks \in 0..MaxClicks
LifeTypes ==
    /\ sched \in [pc : {"scan", "sync", "due", "sleep", "off"}, drop : SUBSET Target, due : SUBSET Target]
    /\ proc \in {"up", "stopping", "down"}
    /\ stops \in 0..MaxStops
    /\ reused \in BOOLEAN

TypeInv == RowTypes /\ TaskTypes /\ ClientTypes /\ WorldTypes /\ LifeTypes

\* _task_lock is held from "row" on.
LockInv ==
    \A c, d \in Client :
        c # d /\ client[c].pc \in {"row", "spawn"} => client[d].pc \in {"idle", "lock"}

\* Every task, and every task about to be created, has a row of its own.
OwnRows ==
    /\ \A j, k \in Task : j # k /\ Running(j) /\ Running(k) => task[j].scan # task[k].scan
    /\ \A c \in Client, k \in Task :
           client[c].pc = "spawn" /\ Running(k) => client[c].scan # task[k].scan

AtWork(k) == task[k].pc \in {"start", "call", "sleep"}

\* The row s is an active one of t, and stays so for more than w ticks.
Fresh(t, s, w) ==
    /\ scan[s] # None
    /\ scan[s].target = t /\ scan[s].host = target[t].host
    /\ scan[s].status \in Active
    /\ scan[s].fresh > w

\* The row of a task at work outlives its sleep.
WorkInv ==
    \A k \in Task : AtWork(k) /\ target[task[k].target] # None =>
        /\ Fresh(task[k].target, task[k].scan, task[k].wake)
        /\ task[k].pc # "start" => task[k].host = target[task[k].target].host

\* Nobody works on a target for which a task is about to be created.
SpawnInv ==
    \A c \in Client : client[c].pc = "spawn" /\ target[client[c].target] # None =>
        /\ Fresh(client[c].target, client[c].scan, 0)
        /\ \A k \in Task : AtWork(k) => task[k].target # client[c].target

\* What holds as long as no identifier in use came back.
LiveInv == LockInv /\ OwnRows /\ WorkInv /\ SpawnInv /\ LiveOnce

ScanInv == LockInv /\ (~reused => LiveInv)
-----------------------------------------------------------------------------
(***************************************************************************)
(* Rows.                                                                   *)
(***************************************************************************)
LEMMA LessType ==
    ASSUME NEW m \in Nat
    PROVE  /\ \A n \in 0..m : Less(n) \in 0..m
           /\ \A n \in 0..m \cup {None} : Less(n) \in 0..m \cup {None}
BY DEF Less

LEMMA TargetEdit ==
    ASSUME NEW x \in TargetRow, NEW w \in 0..Interval \cup {None}, NEW n \in 0..Gap
    PROVE  /\ [x EXCEPT !.wait = w] \in TargetRow /\ [x EXCEPT !.cool = n] \in TargetRow
           /\ [x EXCEPT !.wait = w, !.cool = n] \in TargetRow
BY DEF TargetRow

LEMMA ScanEdit ==
    ASSUME NEW x \in ScanRow, NEW st \in Active \cup Settled, NEW n \in 0..(StaleAfter + Retry),
           NEW h \in Host \cup {None}
    PROVE  /\ [x EXCEPT !.fresh = n] \in ScanRow
           /\ [x EXCEPT !.status = st, !.fresh = n] \in ScanRow
           /\ [x EXCEPT !.status = st, !.fresh = n, !.report = h] \in ScanRow
BY DEF ScanRow

LEMMA DropTypes ==
    ASSUME RowTypes, NEW T, DropTargets(T)
    PROVE  RowTypes'
BY DEF RowTypes, DropTargets

\* What a mark does to the row of a running task.
LEMMA MarkActiveEffect ==
    ASSUME TypeInv, NEW k \in Task, Running(k), NEW st, NEW delay, MarkActive(k, st, delay)
    PROVE  LET s == task[k].scan
               r == [[scan[s] EXCEPT !.status = st] EXCEPT !.fresh = UntilStale(s, delay)]
           IN  /\ s \in Scan /\ task[k].target \in Target /\ target' = target
               /\ scan' = IF Marks(k) THEN [scan EXCEPT ![s] = r] ELSE scan
               /\ Marks(k) => scan[s] \in ScanRow
<1>1. task[k].scan \in Scan /\ task[k].target \in Target
  BY DEF TypeInv, TaskTypes, TaskBound, Running
<1>2. Marks(k) => scan[task[k].scan] \in ScanRow
  BY <1>1 DEF TypeInv, RowTypes, Marks
<1>3. scan \in [Scan -> ScanRow \cup {None}]
  BY DEF TypeInv, RowTypes
<1> QED BY <1>1, <1>2, <1>3 DEF MarkActive, ScanRow

LEMMA MarkSettledEffect ==
    ASSUME TypeInv, NEW k \in Task, Running(k), NEW st, MarkSettled(k, st)
    PROVE  LET s == task[k].scan
               h == IF st = "ready" THEN task[k].host ELSE None
               r == [[[scan[s] EXCEPT !.status = st] EXCEPT !.fresh = 0] EXCEPT !.report = h]
           IN  /\ s \in Scan /\ task[k].target \in Target
               /\ scan' = IF Marks(k) THEN [scan EXCEPT ![s] = r] ELSE scan
               /\ Marks(k) => scan[s] \in ScanRow
<1>1. task[k].scan \in Scan /\ task[k].target \in Target
  BY DEF TypeInv, TaskTypes, TaskBound, Running
<1>2. Marks(k) => scan[task[k].scan] \in ScanRow
  BY <1>1 DEF TypeInv, RowTypes, Marks
<1>3. scan \in [Scan -> ScanRow \cup {None}]
  BY DEF TypeInv, RowTypes
<1> QED BY <1>1, <1>2, <1>3 DEF MarkSettled, ScanRow

LEMMA MarkActiveTypes ==
    ASSUME TypeInv, NEW k \in Task, Running(k), NEW st \in Active, NEW delay \in 0..Retry,
           MarkActive(k, st, delay)
    PROVE  RowTypes'
<1> DEFINE s == task[k].scan
           f == UntilStale(s, delay)
           r == [[scan[s] EXCEPT !.status = st] EXCEPT !.fresh = f]
<1>1. /\ s \in Scan /\ target' = target
      /\ scan' = IF Marks(k) THEN [scan EXCEPT ![s] = r] ELSE scan
      /\ Marks(k) => scan[s] \in ScanRow
  BY MarkActiveEffect
<1>2. Marks(k) => f \in 0..(StaleAfter + Retry)
  <2>1. Marks(k) => scan[s].fresh \in 0..(StaleAfter + Retry)
    BY <1>1 DEF ScanRow
  <2> QED BY <2>1 DEF UntilStale
<1>3. Marks(k) => r \in ScanRow
  <2>1. ASSUME NEW x \in ScanRow, NEW n \in 0..(StaleAfter + Retry)
        PROVE  [[x EXCEPT !.status = st] EXCEPT !.fresh = n] \in ScanRow
    BY DEF ScanRow
  <2> HIDE DEF f, s, ScanRow
  <2> QED BY <1>1, <1>2, <2>1
<1> HIDE DEF r, s
<1> QED BY <1>1, <1>3 DEF RowTypes, TypeInv

LEMMA MarkSettledTypes ==
    ASSUME TypeInv, NEW k \in Task, Running(k), NEW st \in Settled, MarkSettled(k, st),
           st = "ready" => task[k].host \in Host
    PROVE  scan' \in [Scan -> ScanRow \cup {None}]
<1> DEFINE s == task[k].scan
           h == IF st = "ready" THEN task[k].host ELSE None
           r == [[[scan[s] EXCEPT !.status = st] EXCEPT !.fresh = 0] EXCEPT !.report = h]
<1>1. /\ s \in Scan
      /\ scan' = IF Marks(k) THEN [scan EXCEPT ![s] = r] ELSE scan
      /\ Marks(k) => scan[s] \in ScanRow
  BY MarkSettledEffect
<1>2. h \in Host \cup {None}
  OBVIOUS
<1>3. Marks(k) => r \in ScanRow
  <2>1. ASSUME NEW x \in ScanRow, NEW g \in Host \cup {None}
        PROVE  [[[x EXCEPT !.status = st] EXCEPT !.fresh = 0] EXCEPT !.report = g] \in ScanRow
    <3>1. st \in Active \cup Settled /\ 0 \in 0..(StaleAfter + Retry)
      OBVIOUS
    <3> HIDE DEF Active, Settled
    <3>2. [x EXCEPT !.status = st] \in ScanRow
      BY <3>1 DEF ScanRow
    <3>3. [[x EXCEPT !.status = st] EXCEPT !.fresh = 0] \in ScanRow
      BY <3>1, <3>2 DEF ScanRow
    <3> QED BY <3>3 DEF ScanRow
  <2> HIDE DEF h, s, ScanRow
  <2> QED BY <1>1, <1>2, <2>1
<1> HIDE DEF r, s
<1> QED BY <1>1, <1>3 DEF RowTypes, TypeInv

LEMMA CompleteTypes ==
    ASSUME TypeInv, NEW k \in Task, Running(k), NEW st \in {"ready", "failed"}, Complete(k, st),
           st = "ready" => task[k].pc = "call"
    PROVE  RowTypes'
<1>1. (st = "ready" => task[k].host \in Host) /\ task[k].target \in Target
  BY DEF Running, TypeInv, TaskTypes, TaskBound
<1>2. scan' \in [Scan -> ScanRow \cup {None}]
  BY <1>1, MarkSettledTypes DEF Complete, Settled
<1>3. target' \in [Target -> TargetRow \cup {None}]
  <2>1. target \in [Target -> TargetRow \cup {None}]
    BY DEF TypeInv, RowTypes
  <2>2. CASE target' = target
    BY <2>1, <2>2
  <2>3. ASSUME NEW w \in 1..Interval, Marks(k), target' = [target EXCEPT ![task[k].target].wait = w]
        PROVE  target' \in [Target -> TargetRow \cup {None}]
    <3>1. target[task[k].target] \in TargetRow
      BY <1>1, <2>1, <2>3 DEF Marks
    <3>2. [target[task[k].target] EXCEPT !.wait = w] \in TargetRow
      <4>1. w \in 0..Interval \cup {None} /\ 0 \in 0..Gap
        OBVIOUS
      <4> HIDE DEF TargetRow
      <4> QED BY <3>1, <4>1, TargetEdit
    <3> QED BY <2>1, <2>3, <3>2
  <2>4. \/ target' = target
        \/ Marks(k) /\ \E w \in 1..Interval : target' = [target EXCEPT ![task[k].target].wait = w]
    BY DEF Complete, Reschedule
  <2> QED BY <2>2, <2>3, <2>4
<1> QED BY <1>2, <1>3 DEF RowTypes

LEMMA InsertTypes ==
    ASSUME TypeInv, NEW c \in Client, InsertRow(c)
    PROVE  RowTypes'
<1> DEFINE t == client[c].target
           new == [target |-> t, host |-> target[t].host, status |-> "queued",
                   fresh |-> StaleAfter, report |-> None]
<1>1. t \in Target /\ target[t] \in TargetRow
  BY DEF InsertRow, MayInsert, TypeInv, RowTypes, ClientTypes, ClientBound
<1>2. new \in ScanRow
  <2>1. target[t].host \in Host
    BY <1>1 DEF TargetRow
  <2> QED BY <1>1, <2>1 DEF ScanRow, Active, Exclusive
<1>3. /\ target' = IF client[c].force THEN [target EXCEPT ![t].cool = Gap] ELSE target
      /\ \E s \in Scan, old \in SUBSET Scan :
            scan' = [r \in Scan |-> IF r = s THEN new ELSE IF r \in old THEN None ELSE scan[r]]
  <2> DEFINE old == Forgotten(t)
             free == old \cup NewScan
             least == {s \in free : \A r \in free : s <= r}
  <2>1. /\ target' = IF client[c].force THEN [target EXCEPT ![t].cool = Gap] ELSE target
        /\ \E s \in least :
              scan' = [r \in Scan |-> IF r = s THEN new ELSE IF r \in old THEN None ELSE scan[r]]
    BY DEF InsertRow
  <2>2. old \in SUBSET Scan /\ least \subseteq Scan
    BY DEF Forgotten, RowsOf, NewScan
  <2> HIDE DEF old, least, new, t
  <2> QED BY <2>1, <2>2
<1> HIDE DEF new, t, ScanRow
<1>4. [target[t] EXCEPT !.cool = Gap] \in TargetRow
  <2>1. Gap \in 0..Gap /\ 0 \in 0..Interval \cup {None}
    OBVIOUS
  <2> QED BY <1>1, <2>1, TargetEdit
<1> HIDE DEF TargetRow
<1> QED BY <1>1, <1>2, <1>3, <1>4 DEF RowTypes, TypeInv

LEMMA SyncTypes ==
    ASSUME TypeInv, SyncTargets
    PROVE  RowTypes'
<1>1. target' \in [Target -> TargetRow \cup {None}]
  <2> DEFINE has == {target[t].host : t \in {u \in Target : target[u] # None}}
             wanted == {h \in Host : site[h] = "on" /\ h \notin has}
             missing == IF Cardinality(wanted) > Cardinality(NewTarget) THEN {} ELSE wanted
             ids == {a \in [missing -> NewTarget] :
                        /\ \A h, i \in missing : a[h] = a[i] => h = i
                        /\ \A h \in missing, t \in NewTarget : t < a[h] => \E i \in missing : a[i] = t}
             Added(add, t) == [host |-> CHOOSE h \in missing : add[h] = t, wait |-> None, cool |-> 0]
  <2>0. \E add \in ids :
          /\ target' = [t \in Target |->
                  IF t \in sched.drop THEN None
                  ELSE IF t \in {add[h] : h \in missing}
                  THEN [host |-> CHOOSE h \in missing : add[h] = t, wait |-> None, cool |-> 0]
                  ELSE target[t]]
          /\ reused' = (reused \/ \E h \in missing : HoldsTarget(add[h]))
    BY DEF SyncTargets
  <2>1. PICK add \in ids : target' = [t \in Target |->
                     IF t \in sched.drop THEN None
                     ELSE IF t \in {add[h] : h \in missing} THEN Added(add, t) ELSE target[t]]
    <3> HIDE DEF ids, missing, HoldsTarget
    <3> QED BY Zenon, <2>0
  <2>2. ASSUME NEW t \in {add[h] : h \in missing}
        PROVE  Added(add, t) \in TargetRow
    <3>1. (CHOOSE h \in missing : add[h] = t) \in Host
      BY <2>2
    <3> QED BY <3>1 DEF TargetRow
  <2> HIDE DEF missing, Added
  <2> QED BY <2>1, <2>2 DEF TypeInv, RowTypes
<1>2. scan' \in [Scan -> ScanRow \cup {None}]
  BY DEF SyncTargets, TypeInv, RowTypes
<1> QED BY <1>1, <1>2 DEF RowTypes

LEMMA TickRows ==
    ASSUME TypeInv, Tick
    PROVE  RowTypes'
<1>1. target' \in [Target -> TargetRow \cup {None}]
  <2>1. target' = [t \in Target |-> IF target[t] = None THEN None
                      ELSE [target[t] EXCEPT !.wait = Less(@), !.cool = Less(@)]]
    BY DEF Tick
  <2>2. ASSUME NEW x \in TargetRow
        PROVE  [x EXCEPT !.wait = Less(@), !.cool = Less(@)] \in TargetRow
    <3>1. x.wait \in 0..Interval \cup {None} /\ x.cool \in 0..Gap
      BY DEF TargetRow
    <3>2. Less(x.wait) \in 0..Interval \cup {None} /\ Less(x.cool) \in 0..Gap
      BY <3>1, LessType
    <3> QED BY <3>2, TargetEdit
  <2> HIDE DEF TargetRow
  <2> QED BY <2>1, <2>2 DEF TypeInv, RowTypes
<1>2. scan' \in [Scan -> ScanRow \cup {None}]
  <2>1. scan' = [s \in Scan |-> IF scan[s] = None THEN None ELSE [scan[s] EXCEPT !.fresh = Less(@)]]
    BY DEF Tick
  <2>2. ASSUME NEW x \in ScanRow
        PROVE  [x EXCEPT !.fresh = Less(@)] \in ScanRow
    <3>1. x.fresh \in 0..(StaleAfter + Retry)
      BY DEF ScanRow
    <3>2. Less(x.fresh) \in 0..(StaleAfter + Retry)
      BY <3>1, LessType
    <3> QED BY <3>2 DEF ScanRow
  <2> HIDE DEF ScanRow
  <2> QED BY <2>1, <2>2 DEF TypeInv, RowTypes
<1> QED BY <1>1, <1>2 DEF RowTypes

LEMMA RowStep ==
    ASSUME TypeInv, [Next]_vars
    PROVE  RowTypes'
<1>1. ASSUME UNCHANGED rows
      PROVE  RowTypes'
  BY <1>1 DEF rows, TypeInv, RowTypes
<1>2. ASSUME NEW t \in Target, NEW f \in BOOLEAN, SetSchedule(t, f)
      PROVE  RowTypes'
  <2>1. target[t] \in TargetRow
    BY <1>2 DEF SetSchedule, TypeInv, RowTypes
  <2>2. /\ scan' = scan
        /\ target' = [target EXCEPT ![t].wait = IF f THEN Interval ELSE None]
    BY <1>2 DEF SetSchedule
  <2>3. (IF f THEN Interval ELSE None) \in 0..Interval \cup {None} /\ 0 \in 0..Gap
    OBVIOUS
  <2>4. [target[t] EXCEPT !.wait = IF f THEN Interval ELSE None] \in TargetRow
    <3> HIDE DEF TargetRow
    <3> QED BY <2>1, <2>3, TargetEdit
  <2> QED BY <2>2, <2>4 DEF TypeInv, RowTypes
<1>3. CASE Operator
  BY <1>1, <1>2, <1>3, DropTypes DEF Operator, OperatorScan, ChangeSite, TypeInv
<1>4. CASE \E c \in Client : ClientStep(c)
  BY <1>1, <1>4, InsertTypes DEF ClientStep, CheckTask, RefuseRow, Spawn
<1>5. ASSUME NEW k \in Task, TaskStep(k) \/ LoopCancel(k)
      PROVE  RowTypes'
  <2>1. CASE Begin(k)
    <3>1. CASE UNCHANGED rows
      BY <1>1, <3>1
    <3>2. CASE MarkActive(k, "queued", 0)
      <4>1. Running(k) /\ "queued" \in Active /\ 0 \in 0..Retry
        BY <2>1 DEF Begin, Running, Active, Exclusive
      <4> QED BY <3>2, <4>1, MarkActiveTypes
    <3> QED BY <2>1, <3>1, <3>2 DEF Begin
  <2>2. CASE BeginFails(k) \/ Expire(k) \/ Report(k) \/ Refused(k)
    BY <2>2, CompleteTypes DEF BeginFails, Expire, Report, Refused, Running
  <2>3. CASE Progress(k) \/ PutOff(k)
    <3>1. \E st \in Active, delay \in {Poll, Retry} : MarkActive(k, st, delay)
      BY <2>3 DEF Progress, PutOff, Active, Exclusive
    <3>2. Running(k) /\ {Poll, Retry} \subseteq 0..Retry
      BY <2>3 DEF Progress, PutOff, Running
    <3> QED BY <3>1, <3>2, MarkActiveTypes
  <2>4. CASE Cancelled(k)
    <3>1. Running(k) /\ MarkSettled(k, "cancelled") /\ "cancelled" \in Settled /\ target' = target
      BY <2>4 DEF Cancelled, Running, Settled
    <3>2. scan' \in [Scan -> ScanRow \cup {None}]
      BY <3>1, MarkSettledTypes
    <3> QED BY <3>1, <3>2 DEF TypeInv, RowTypes
  <2>5. CASE End(k) \/ LoopCancel(k)
    BY <1>1, <2>5 DEF End, LoopCancel
  <2> QED BY <1>5, <2>1, <2>2, <2>3, <2>4, <2>5 DEF TaskStep
<1>6. CASE SchedulerStep
  BY <1>1, <1>6, SyncTypes DEF SchedulerStep, ReadTargets, ScanDue, AllDueScanned
<1>7. CASE Shutdown \/ Exit \/ Crash \/ Start
  BY <1>1, <1>7 DEF Shutdown, Exit, Crash, Start, Dies
<1>8. CASE Tick
  BY <1>8, TickRows
<1>9. CASE UNCHANGED vars
  BY <1>1, <1>9 DEF vars, rows
<1> QED BY <1>3, <1>4, <1>5, <1>6, <1>7, <1>8, <1>9 DEF Next
-----------------------------------------------------------------------------
(***************************************************************************)
(* Tasks and callers.                                                      *)
(***************************************************************************)
LEMMA NoTaskType == NoTask \in TaskState /\ TaskBound(NoTask) /\ NoTask.pc = "none"
BY DEF NoTask, TaskState, TaskBound, TaskPC

LEMMA IdleType == Idle \in ClientState /\ ClientBound(Idle) /\ Idle.pc = "idle"
BY DEF Idle, ClientState, ClientBound

\* A running task goes on.
LEMMA TaskMoves ==
    ASSUME TaskTypes, NEW k \in Task, NEW y \in TaskState, TaskBound(y), Running(k),
           y.pc # "none", y.target = task[k].target,
           task' = [task EXCEPT ![k] = y], active' = active
    PROVE  TaskTypes'
<1> HIDE DEF TaskState
<1>1. \A j \in Task : task'[j] = IF j = k THEN y ELSE task[j]
  BY DEF TaskTypes
<1> QED BY <1>1 DEF TaskTypes, Running

\* A task ends and takes its entry with it.
LEMMA TaskEnds ==
    ASSUME TaskTypes, NEW k \in Task, task' = [task EXCEPT ![k] = NoTask],
           active' = [active EXCEPT ![task[k].target] = None]
    PROVE  TaskTypes'
<1> HIDE DEF TaskState
<1>1. \A j \in Task : task'[j] = IF j = k THEN NoTask ELSE task[j]
  BY DEF TaskTypes
<1>2. \A t \in Target : active'[t] = IF t = task[k].target THEN None ELSE active[t]
  BY DEF TaskTypes
<1>3. active' \in [Target -> Task \cup {None}]
  BY DEF TaskTypes
<1> QED BY <1>1, <1>2, <1>3, NoTaskType DEF TaskTypes, Running

LEMMA ClientMoves ==
    ASSUME ClientTypes, NEW c \in Client, NEW y \in ClientState, ClientBound(y),
           client' = [client EXCEPT ![c] = y]
    PROVE  ClientTypes'
<1> HIDE DEF ClientState
<1>1. \A d \in Client : client'[d] = IF d = c THEN y ELSE client[d]
  BY DEF ClientTypes
<1> QED BY <1>1 DEF ClientTypes

LEMMA SpawnTypes ==
    ASSUME TypeInv, NEW c \in Client, Spawn(c)
    PROVE  TaskTypes'
<1> DEFINE u == client[c].target
           v == client[c].scan
           f == client[c].force
           g == ~client[c].force
           y == [NoTask EXCEPT !.pc = "start", !.target = u, !.scan = v, !.startNew = f, !.renewed = g]
<1>1. PICK k \in Task : /\ ~Running(k)
                        /\ task' = [task EXCEPT ![k] = y]
                        /\ active' = [active EXCEPT ![u] = k]
  BY DEF Spawn
<1>2. u \in Target /\ v \in Scan /\ f \in BOOLEAN /\ g \in BOOLEAN
  BY DEF Spawn, TypeInv, ClientTypes, ClientBound, ClientState
<1>3. y \in TaskState /\ TaskBound(y) /\ y.pc = "start" /\ y.target = u
  <2> HIDE DEF u, v, f, g
  <2>1. ASSUME NEW x \in TaskState
        PROVE  /\ [x EXCEPT !.pc = "start"] \in TaskState /\ [x EXCEPT !.target = u] \in TaskState
               /\ [x EXCEPT !.scan = v] \in TaskState /\ [x EXCEPT !.startNew = f] \in TaskState
               /\ [x EXCEPT !.renewed = g] \in TaskState
    BY <1>2 DEF TaskState, TaskPC
  <2>2. NoTask \in TaskState
    BY NoTaskType
  <2>3. y \in TaskState
    <3> HIDE DEF TaskState
    <3> QED BY <2>1, <2>2
  <2>4. y.pc = "start" /\ y.target = u /\ y.scan = v
    BY <2>2 DEF TaskState
  <2> HIDE DEF y
  <2> QED BY <1>2, <2>3, <2>4 DEF TaskBound
<1> HIDE DEF y, u, v, f, g, TaskState
<1>4. \A j \in Task : task'[j] = IF j = k THEN y ELSE task[j]
  BY <1>1 DEF TypeInv, TaskTypes
<1>5. \A t \in Target : active'[t] = IF t = u THEN k ELSE active[t]
  BY <1>1 DEF TypeInv, TaskTypes
<1>6. task' \in [Task -> TaskState] /\ active' \in [Target -> Task \cup {None}]
  BY <1>1, <1>3 DEF TypeInv, TaskTypes
<1> QED BY <1>1, <1>3, <1>4, <1>5, <1>6 DEF TypeInv, TaskTypes, Running

LEMMA BeginTask ==
    ASSUME TypeInv, NEW k \in Task, Begin(k) \/ BeginFails(k)
    PROVE  TaskTypes'
<1> DEFINE t == task[k].target
           y == [task[k] EXCEPT !.pc = "final"]
           h == target[t].host
           z == [[task[k] EXCEPT !.pc = "call"] EXCEPT !.host = h]
<1>1. task[k] \in TaskState /\ TaskBound(task[k]) /\ task[k].pc = "start" /\ active' = active
  BY DEF Begin, BeginFails, Complete, TypeInv, TaskTypes
<1>2. t \in Target /\ task[k].scan \in Scan
  BY <1>1 DEF TaskBound
<1>3. y \in TaskState /\ TaskBound(y) /\ y.pc # "none" /\ y.target = t
  BY <1>1, <1>2 DEF TaskState, TaskBound, TaskPC
<1>4. target[t] # None => h \in Host
  BY <1>2 DEF TypeInv, RowTypes, TargetRow
<1>5. target[t] # None => z \in TaskState /\ TaskBound(z) /\ z.pc # "none" /\ z.target = t
  <2> HIDE DEF h
  <2> QED BY <1>1, <1>2, <1>4 DEF TaskState, TaskBound, TaskPC
<1>6. \/ task' = [task EXCEPT ![k] = y]
      \/ target[t] # None /\ task' = [task EXCEPT ![k] = z]
  <2>1. CASE Begin(k) /\ target[t] = None
    BY <2>1 DEF Begin
  <2>3. CASE BeginFails(k)
    BY <2>3 DEF BeginFails, Complete
  <2>2. CASE Begin(k) /\ target[t] # None
    <3>1. task' = [task EXCEPT ![k].pc = "call", ![k].host = target[t].host]
      BY <2>2 DEF Begin
    <3>2. task' = [task EXCEPT ![k] = z]
      BY <1>1, <3>1 DEF TaskState, TypeInv, TaskTypes
    <3> QED BY <2>2, <3>2
  <2> QED BY <2>1, <2>2, <2>3
<1>7. Running(k)
  BY <1>1 DEF Running
<1> HIDE DEF y, z, TaskState
<1> QED BY <1>1, <1>3, <1>5, <1>6, <1>7, TaskMoves DEF TypeInv

\* A call has been answered.
LEMMA AnsweredTask ==
    ASSUME TypeInv, NEW k \in Task, task[k].pc = "call",
           \/ \E st \in {"ready", "failed"} : Complete(k, st)
           \/ \E delay \in {Poll, Retry} : Sleep(k, delay)
    PROVE  TaskTypes'
<1> DEFINE y == [task[k] EXCEPT !.pc = "final"]
           Z(d) == [[[task[k] EXCEPT !.pc = "sleep"] EXCEPT !.wake = d] EXCEPT !.startNew = FALSE]
<1>1. task[k] \in TaskState /\ TaskBound(task[k]) /\ active' = active
  BY DEF Complete, Sleep, TypeInv, TaskTypes
<1>2. task[k].target \in Target /\ task[k].scan \in Scan /\ task[k].host \in Host
  BY <1>1 DEF TaskBound
<1>3. y \in TaskState /\ TaskBound(y) /\ y.pc # "none" /\ y.target = task[k].target
  BY <1>1, <1>2 DEF TaskState, TaskBound, TaskPC
<1>4. ASSUME NEW d \in {Poll, Retry}
      PROVE  Z(d) \in TaskState /\ TaskBound(Z(d)) /\ Z(d).pc # "none" /\ Z(d).target = task[k].target
  <2>1. d \in 0..Retry /\ d # 0
    OBVIOUS
  <2> QED BY <1>1, <1>2, <2>1 DEF TaskState, TaskBound, TaskPC
<1>5. \/ task' = [task EXCEPT ![k] = y]
      \/ \E d \in {Poll, Retry} : task' = [task EXCEPT ![k] = Z(d)]
  <2>1. CASE \E st \in {"ready", "failed"} : Complete(k, st)
    BY <1>1, <2>1 DEF Complete
  <2>2. CASE \E d \in {Poll, Retry} : Sleep(k, d)
    <3>1. PICK d \in {Poll, Retry} :
               task' = [task EXCEPT ![k].pc = "sleep", ![k].wake = d, ![k].startNew = FALSE]
      BY <2>2 DEF Sleep
    <3>2. task' = [task EXCEPT ![k] = Z(d)]
      <4>1. task \in [Task -> TaskState]
        BY DEF TypeInv, TaskTypes
      <4> QED BY <1>1, <3>1, <4>1 DEF TaskState
    <3> QED BY <3>2
  <2> QED BY <2>1, <2>2
<1>6. Running(k)
  BY DEF Running
<1> HIDE DEF y, Z, TaskState
<1> QED BY <1>1, <1>3, <1>4, <1>5, <1>6, TaskMoves DEF TypeInv

\* Registered tasks are running ones.
LEMMA ShutdownTasks ==
    ASSUME TypeInv, Shutdown
    PROVE  /\ task' \in [Task -> TaskState]
           /\ \A k \in Task :
                 \/ task'[k] = task[k]
                 \/ task'[k] = NoTask
                 \/ Running(k) /\ task'[k] = [task[k] EXCEPT !.pc = "cancelled"]
<1> DEFINE registered == {k \in Task : \E t \in Target : active[t] = k}
<1>1. PICK late \in SUBSET {k \in registered : task[k].pc = "final"} :
         task' = [k \in Task |->
            IF k \notin registered \/ k \in late THEN task[k]
            ELSE IF task[k].pc = "start" THEN NoTask ELSE [task[k] EXCEPT !.pc = "cancelled"]]
  BY DEF Shutdown
<1>2. \A k \in registered : Running(k)
  <2>1. None \notin Task
    OBVIOUS
  <2> QED BY <2>1 DEF TypeInv, TaskTypes
<1> HIDE DEF registered
<1>3. \A x \in TaskState : [x EXCEPT !.pc = "cancelled"] \in TaskState
  BY DEF TaskState, TaskPC
<1> HIDE DEF TaskState
<1>4. \A k \in Task : task[k] \in TaskState
  BY DEF TypeInv, TaskTypes
<1> DEFINE W(k) == [task[k] EXCEPT !.pc = "cancelled"]
<1>5. \A k \in Task :
         \/ task'[k] = task[k]
         \/ task'[k] = NoTask
         \/ k \in registered /\ task'[k] = W(k)
  <2>1. task' = [k \in Task |->
            IF k \notin registered \/ k \in late THEN task[k]
            ELSE IF task[k].pc = "start" THEN NoTask ELSE W(k)]
    BY <1>1
  <2> HIDE DEF W
  <2>2. ASSUME NEW k \in Task
        PROVE  task'[k] = IF k \notin registered \/ k \in late THEN task[k]
                          ELSE IF task[k].pc = "start" THEN NoTask ELSE W(k)
    BY <2>1, Zenon
  <2> QED BY <2>2
<1>6. NoTask \in TaskState
  BY NoTaskType
<1>7. task' \in [Task -> TaskState]
  <2>0. \A k \in Task : W(k) \in TaskState
    BY <1>3, <1>4
  <2> HIDE DEF W
  <2>1. \A k \in Task : task'[k] \in TaskState
    BY <1>4, <1>5, <1>6, <2>0
  <2>2. task' = [k \in Task |-> task'[k]]
    BY <1>1
  <2> QED BY <2>1, <2>2
<1> QED BY <1>2, <1>5, <1>7

LEMMA CancelledType ==
    ASSUME NEW x \in TaskState, TaskBound(x), x.pc # "none"
    PROVE  LET y == [x EXCEPT !.pc = "cancelled"]
           IN  y \in TaskState /\ TaskBound(y) /\ y.pc = "cancelled" /\ y.target = x.target /\ y.scan = x.scan
BY DEF TaskState, TaskBound, TaskPC

\* What a tick does to a task.
LEMMA LaterType ==
    ASSUME TypeInv, NEW k \in Task, task[k].pc \in {"none", "sleep"}, NEW done
    PROVE  LET y == Later(k, done)
           IN  /\ y \in TaskState /\ TaskBound(y)
               /\ y.pc # "none" <=> Running(k)
               /\ Running(k) => /\ y.target = task[k].target /\ y.scan = task[k].scan
                                /\ y.host = task[k].host /\ y.wake = task[k].wake - 1
                                /\ task[k].pc = "sleep" /\ task[k].wake \in 1..Retry
                                /\ y.pc \in {"call", "sleep"}
<1> DEFINE x == task[k]
           p == IF x.wake = 1 THEN "call" ELSE "sleep"
           w == x.wake - 1
           a == IF x.age > MaxDuration THEN x.age ELSE x.age + 1
           r == x.renewed \/ x.host \in done
           y == Later(k, done)
<1>1. x \in TaskState /\ TaskBound(x)
  BY DEF TypeInv, TaskTypes
<1>2. CASE ~Running(k)
  BY <1>2, NoTaskType DEF Later
<1>3. CASE Running(k)
  <2>1. x.pc = "sleep" /\ x.wake \in 1..Retry /\ x.target \in Target /\ x.scan \in Scan /\ x.host \in Host
    BY <1>1, <1>3 DEF Running, TaskBound, TaskState
  <2>2. p \in {"call", "sleep"} /\ w \in 0..Retry /\ (p = "sleep" => w # 0)
    BY <2>1
  <2>3. a \in 0..(MaxDuration + 1)
    <3>1. x.age \in 0..(MaxDuration + 1)
      BY <1>1 DEF TaskState
    <3> QED BY <3>1
  <2>4. r \in BOOLEAN
    OBVIOUS
  <2>5. y = [[[[x EXCEPT !.pc = p] EXCEPT !.wake = w] EXCEPT !.age = a] EXCEPT !.renewed = r]
    BY <1>1, <1>3 DEF Later, TaskState
  <2> HIDE DEF x, p, w, a, r, y
  <2>6. y \in TaskState /\ y.pc = p /\ y.wake = w /\ y.target = x.target /\ y.scan = x.scan /\ y.host = x.host
    BY <1>1, <2>2, <2>3, <2>4, <2>5 DEF TaskState, TaskPC
  <2> QED BY <1>3, <2>1, <2>2, <2>6 DEF TaskBound, x, w, y
<1> QED BY <1>2, <1>3

LEMMA TaskStepTypes ==
    ASSUME TypeInv, [Next]_vars
    PROVE  TaskTypes'
<1>1. ASSUME UNCHANGED tasks
      PROVE  TaskTypes'
  BY <1>1 DEF tasks, TypeInv, TaskTypes, Running
<1>2. CASE Operator
  BY <1>1, <1>2 DEF Operator, OperatorScan, SetSchedule, ChangeSite
<1>3. ASSUME NEW c \in Client, CheckTask(c)
      PROVE  TaskTypes'
  <2>1. task' = task /\ (active' = active \/ active' = [active EXCEPT ![client[c].target] = None])
    BY <1>3 DEF CheckTask
  <2>2. /\ active' \in [Target -> Task \cup {None}]
        /\ \A t \in Target : active'[t] # None => active'[t] = active[t]
    BY <2>1 DEF TypeInv, TaskTypes
  <2> QED BY <2>1, <2>2 DEF TypeInv, TaskTypes, Running
<1>4. CASE \E c \in Client : ClientStep(c)
  BY <1>1, <1>3, <1>4, SpawnTypes DEF ClientStep, RefuseRow, InsertRow
<1>5. ASSUME NEW k \in Task, TaskStep(k)
      PROVE  TaskTypes'
  <2>1. CASE Begin(k) \/ BeginFails(k)
    BY <2>1, BeginTask
  <2>2. CASE Expire(k) \/ Report(k) \/ Refused(k) \/ Progress(k) \/ PutOff(k)
    BY <2>2, AnsweredTask DEF Expire, Report, Refused, Progress, PutOff
  <2>3. CASE End(k) \/ Cancelled(k)
    BY <2>3, TaskEnds DEF End, Cancelled, TypeInv
  <2> QED BY <1>5, <2>1, <2>2, <2>3 DEF TaskStep
<1>6. ASSUME NEW k \in Task, LoopCancel(k)
      PROVE  TaskTypes'
  <2> DEFINE y == [task[k] EXCEPT !.pc = "cancelled"]
  <2>1. task[k] \in TaskState /\ TaskBound(task[k]) /\ Running(k) /\ task[k].pc # "none"
    BY <1>6 DEF LoopCancel, TypeInv, TaskTypes, Running
  <2>2. y \in TaskState /\ TaskBound(y) /\ y.pc # "none" /\ y.target = task[k].target
    BY <2>1, CancelledType
  <2>3. task' = [task EXCEPT ![k] = y] /\ active' = active
    BY <1>6 DEF LoopCancel
  <2> HIDE DEF y, TaskState
  <2> QED BY <2>1, <2>2, <2>3, TaskMoves DEF TypeInv
<1>7. CASE SchedulerStep
  BY <1>1, <1>7 DEF SchedulerStep, ReadTargets, SyncTargets, ScanDue, AllDueScanned
<1>8. CASE Shutdown
  <2>1. \A k \in Task : TaskBound(task'[k])
    <3> SUFFICES ASSUME NEW k \in Task PROVE TaskBound(task'[k])
      OBVIOUS
    <3>1. task[k] \in TaskState /\ TaskBound(task[k])
      BY DEF TypeInv, TaskTypes
    <3>2. CASE task'[k] = task[k]
      BY <3>1, <3>2
    <3>3. CASE task'[k] = NoTask
      BY <3>3, NoTaskType
    <3>4. CASE Running(k) /\ task'[k] = [task[k] EXCEPT !.pc = "cancelled"]
      <4> HIDE DEF TaskBound
      <4> QED BY <3>1, <3>4, CancelledType DEF Running
    <3> QED BY <1>8, <3>2, <3>3, <3>4, ShutdownTasks
  <2>2. active' = [t \in Target |-> None]
    BY <1>8 DEF Shutdown
  <2> QED BY <1>8, <2>1, <2>2, ShutdownTasks DEF TaskTypes
<1>9. CASE Exit \/ Crash
  <2>1. task' = [k \in Task |-> NoTask] /\ active' = [t \in Target |-> None]
    BY <1>9 DEF Exit, Crash, Dies
  <2> HIDE DEF TaskState
  <2> QED BY <2>1, NoTaskType DEF TaskTypes
<1>10. CASE Start
  BY <1>1, <1>10 DEF Start
<1>11. CASE Tick
  <2>1. PICK done : task' = [k \in Task |-> Later(k, done)]
    BY <1>11 DEF Tick
  <2>2. \A k \in Task : task[k].pc \in {"none", "sleep"}
    BY <1>11 DEF Tick
  <2>3. active' = active
    BY <1>11 DEF Tick
  <2>4. \A k \in Task :
           /\ task'[k] \in TaskState /\ TaskBound(task'[k])
           /\ task'[k].pc # "none" <=> Running(k)
           /\ Running(k) => task'[k].target = task[k].target
    <3> SUFFICES ASSUME NEW k \in Task
                 PROVE  /\ task'[k] \in TaskState /\ TaskBound(task'[k])
                        /\ task'[k].pc # "none" <=> Running(k)
                        /\ Running(k) => task'[k].target = task[k].target
      OBVIOUS
    <3>1. task'[k] = Later(k, done)
      BY <2>1
    <3> HIDE DEF TaskState, TaskBound
    <3> QED BY <2>2, <3>1, LaterType
  <2> HIDE DEF TaskState
  <2>5. task' \in [Task -> TaskState]
    BY <2>1, <2>4
  <2>6. \A t \in Target : active'[t] # None => Running(active[t])' /\ task'[active[t]].target = t
    <3> HIDE DEF TaskBound
    <3> SUFFICES ASSUME NEW t \in Target, active[t] # None
                 PROVE  Running(active[t])' /\ task'[active[t]].target = t
      BY <2>3
    <3>1. active[t] \in Task /\ Running(active[t]) /\ task[active[t]].target = t
      BY DEF TypeInv, TaskTypes
    <3>2. task'[active[t]].pc # "none" /\ task'[active[t]].target = t
      BY <2>4, <3>1
    <3> QED BY <2>3, <3>2 DEF Running
  <2> HIDE DEF TaskBound
  <2> QED BY <2>3, <2>4, <2>5, <2>6 DEF TypeInv, TaskTypes, Running
<1>12. CASE UNCHANGED vars
  BY <1>1, <1>12 DEF vars, tasks
<1> QED BY <1>2, <1>4, <1>5, <1>6, <1>7, <1>8, <1>9, <1>10, <1>11, <1>12 DEF Next

\* A request is made.
LEMMA AskTypes ==
    ASSUME ClientTypes, NEW c \in Client, NEW t \in Target, NEW f \in BOOLEAN, Ask(c, t, f)
    PROVE  ClientTypes'
<1> DEFINE y == [[[Idle EXCEPT !.pc = "lock"] EXCEPT !.target = t] EXCEPT !.force = f]
<1>1. Idle \in ClientState
  BY IdleType
<1>2. y \in ClientState /\ y.pc = "lock" /\ y.target = t
  BY <1>1 DEF ClientState
<1>3. client' = [client EXCEPT ![c] = y]
  BY DEF Ask
<1> HIDE DEF y, ClientState
<1>4. ClientBound(y)
  BY <1>2 DEF ClientBound
<1> QED BY <1>2, <1>3, <1>4, ClientMoves

LEMMA ClientStepTypes ==
    ASSUME TypeInv, [Next]_vars
    PROVE  ClientTypes'
<1>1. ASSUME UNCHANGED client
      PROVE  ClientTypes'
  BY <1>1 DEF TypeInv, ClientTypes
<1>2. ASSUME NEW c \in Client, Answer(c)
      PROVE  ClientTypes'
  <2>1. Idle \in ClientState /\ ClientBound(Idle)
    BY IdleType
  <2> HIDE DEF ClientState
  <2> QED BY <1>2, <2>1, ClientMoves DEF Answer, TypeInv
<1>3. CASE Operator
  <2>1. ASSUME NEW t \in Target, NEW f \in BOOLEAN, OperatorScan(t, f) \/ SetSchedule(t, f)
        PROVE  ClientTypes'
    <3>1. UNCHANGED client \/ \E g \in BOOLEAN : Ask("operator", t, g)
      BY <2>1 DEF OperatorScan, SetSchedule
    <3> QED BY <1>1, <3>1, AskTypes DEF TypeInv, Client
  <2> QED BY <1>1, <1>3, <2>1 DEF Operator, ChangeSite
<1>4. ASSUME NEW c \in Client, ClientStep(c)
      PROVE  ClientTypes'
  <2>1. CASE CheckTask(c)
    <3> DEFINE y == [client[c] EXCEPT !.pc = "row"]
    <3>1. client[c] \in ClientState /\ client[c].target \in Target
      BY <2>1 DEF CheckTask, TypeInv, ClientTypes, ClientBound
    <3>2. y \in ClientState /\ ClientBound(y)
      BY <3>1 DEF ClientState, ClientBound
    <3>3. Answer(c) \/ client' = [client EXCEPT ![c] = y]
      BY <2>1 DEF CheckTask
    <3> HIDE DEF y, ClientState
    <3> QED BY <1>2, <3>2, <3>3, ClientMoves DEF TypeInv
  <2>2. CASE RefuseRow(c) \/ Spawn(c)
    BY <1>2, <2>2 DEF RefuseRow, Spawn
  <2>3. CASE InsertRow(c)
    <3>1. client[c] \in ClientState /\ client[c].target \in Target
      BY <2>3 DEF InsertRow, TypeInv, ClientTypes, ClientBound
    <3>2. \E s \in Scan : client' = [client EXCEPT ![c].pc = "spawn", ![c].scan = s]
      BY <2>3 DEF InsertRow, Forgotten, RowsOf, NewScan
    <3>3. PICK s \in Scan : client' = [client EXCEPT ![c] = [[client[c] EXCEPT !.pc = "spawn"] EXCEPT !.scan = s]]
      BY <3>1, <3>2 DEF TypeInv, ClientTypes, ClientState
    <3> DEFINE y == [[client[c] EXCEPT !.pc = "spawn"] EXCEPT !.scan = s]
    <3>4. y \in ClientState /\ ClientBound(y)
      BY <3>1 DEF ClientState, ClientBound
    <3>5. client' = [client EXCEPT ![c] = y]
      BY <3>3
    <3> HIDE DEF y, ClientState
    <3> QED BY <3>4, <3>5, ClientMoves DEF TypeInv
  <2> QED BY <1>4, <2>1, <2>2, <2>3 DEF ClientStep
<1>5. CASE \E k \in Task : TaskStep(k) \/ LoopCancel(k)
  BY <1>1, <1>5 DEF TaskStep, LoopCancel, Begin, BeginFails, Expire, Progress, Report, PutOff, Refused, End,
                    Cancelled, Complete, Sleep
<1>6. CASE SchedulerStep
  <2>1. CASE ScanDue
    <3>1. sched.due \subseteq Target
      BY DEF TypeInv, LifeTypes
    <3> QED BY <2>1, <3>1, AskTypes DEF ScanDue, TypeInv, Client
  <2> QED BY <1>1, <1>6, <2>1 DEF SchedulerStep, ReadTargets, SyncTargets, AllDueScanned
<1>7. CASE Shutdown
  BY <1>2, <1>7 DEF Shutdown, Client
<1>8. CASE Exit \/ Crash
  <2>1. client' = [c \in Client |-> Idle]
    BY <1>8 DEF Exit, Crash, Dies
  <2> HIDE DEF ClientState
  <2> QED BY <2>1, IdleType DEF ClientTypes
<1>9. CASE Start \/ Tick
  BY <1>1, <1>9 DEF Start, Tick
<1>10. CASE UNCHANGED vars
  BY <1>1, <1>10 DEF vars
<1> QED BY <1>3, <1>4, <1>5, <1>6, <1>7, <1>8, <1>9, <1>10 DEF Next
-----------------------------------------------------------------------------
(***************************************************************************)
(* The world, the scheduler and the process.                               *)
(***************************************************************************)
LEMMA WorldStepTypes ==
    ASSUME TypeInv, [Next]_vars
    PROVE  WorldTypes'
<1>1. ASSUME UNCHANGED world
      PROVE  WorldTypes'
  BY <1>1 DEF world, TypeInv, WorldTypes
<1>2. CASE Operator
  <2>1. clicks' \in 0..MaxClicks /\ labs' = labs
    <3>1. clicks < MaxClicks /\ clicks' = clicks + 1 /\ labs' = labs
      BY <1>2 DEF Operator, OperatorScan, SetSchedule, ChangeSite, Click
    <3>2. clicks \in 0..MaxClicks /\ MaxClicks \in Nat
      BY DEF TypeInv, WorldTypes
    <3> QED BY <3>1, <3>2
  <2>2. site' \in [Host -> {"on", "off", "gone"}]
    BY <1>2 DEF Operator, OperatorScan, SetSchedule, ChangeSite, TypeInv, WorldTypes
  <2> QED BY <2>1, <2>2 DEF TypeInv, WorldTypes
<1>3. CASE \E c \in Client : ClientStep(c)
  BY <1>1, <1>3 DEF ClientStep, CheckTask, RefuseRow, InsertRow, Spawn
<1>4. ASSUME NEW k \in Task, TaskStep(k) \/ LoopCancel(k)
      PROVE  WorldTypes'
  <2>1. CASE Begin(k) \/ End(k) \/ Cancelled(k) \/ LoopCancel(k)
    BY <1>1, <2>1 DEF Begin, End, Cancelled, LoopCancel
  <2>2. CASE BeginFails(k) \/ Expire(k) \/ Report(k)
    BY <1>1, <2>2 DEF BeginFails, Expire, Report, Complete, world
  <2>3. CASE Progress(k) \/ PutOff(k) \/ Refused(k)
    <3>1. site' = site /\ clicks' = clicks /\ labs' \in {labs, LabsAfter(k)}
      BY <2>3 DEF Progress, PutOff, Refused, Complete, Sleep
    <3>2. LabsAfter(k) \in [Host -> {"none", "busy", "done"}]
      BY DEF LabsAfter, TypeInv, WorldTypes
    <3> QED BY <3>1, <3>2 DEF TypeInv, WorldTypes
  <2> QED BY <1>4, <2>1, <2>2, <2>3 DEF TaskStep
<1>5. CASE SchedulerStep \/ Shutdown \/ Exit \/ Crash \/ Start
  BY <1>1, <1>5 DEF SchedulerStep, ReadTargets, SyncTargets, ScanDue, AllDueScanned, Shutdown,
                    Exit, Crash, Start, Dies
<1>6. CASE Tick
  <2>1. site' = site /\ clicks' = 0
    BY <1>6 DEF Tick
  <2>2. labs' \in [Host -> {"none", "busy", "done"}]
    BY <1>6 DEF Tick, TypeInv, WorldTypes
  <2> QED BY <2>1, <2>2 DEF TypeInv, WorldTypes
<1>7. CASE UNCHANGED vars
  BY <1>1, <1>7 DEF vars, world
<1> QED BY <1>2, <1>3, <1>4, <1>5, <1>6, <1>7 DEF Next

LEMMA LifeStepTypes ==
    ASSUME TypeInv, [Next]_vars
    PROVE  LifeTypes'
<1> DEFINE SchedType == [pc : {"scan", "sync", "due", "sleep", "off"}, drop : SUBSET Target, due : SUBSET Target]
<1>1. ASSUME UNCHANGED <<sched, life>>
      PROVE  LifeTypes'
  BY <1>1 DEF life, TypeInv, LifeTypes
<1>2. \A l \in {"scan", "sync", "due", "sleep", "off"} : SchedAt(l) \in SchedType
  BY DEF SchedAt
<1>3. CASE Operator
  BY <1>1, <1>3 DEF Operator, OperatorScan, SetSchedule, ChangeSite
<1>10. ASSUME UNCHANGED <<sched, proc, stops>>, reused' \in BOOLEAN
       PROVE  LifeTypes'
  BY <1>10 DEF TypeInv, LifeTypes
<1>4. ASSUME NEW c \in Client, ClientStep(c)
      PROVE  LifeTypes'
  <2>1. CASE InsertRow(c)
    <3>1. reused' \in BOOLEAN /\ UNCHANGED <<sched, proc, stops>>
      BY <2>1 DEF InsertRow
    <3> QED BY <1>10, <3>1
  <2>2. CASE CheckTask(c) \/ RefuseRow(c) \/ Spawn(c)
    BY <1>1, <2>2 DEF CheckTask, RefuseRow, Spawn
  <2> QED BY <1>4, <2>1, <2>2 DEF ClientStep
<1>5. CASE \E k \in Task : TaskStep(k) \/ LoopCancel(k)
  BY <1>1, <1>5 DEF TaskStep, LoopCancel, Begin, BeginFails, Expire, Progress, Report, PutOff, Refused, End,
                    Cancelled, Complete, Sleep
<1>6. CASE SchedulerStep
  <2>1. UNCHANGED <<proc, stops>> /\ reused' \in BOOLEAN
    <3>1. CASE SyncTargets
      BY <3>1 DEF SyncTargets
    <3>2. CASE ReadTargets \/ ScanDue \/ AllDueScanned
      BY <3>2 DEF ReadTargets, ScanDue, AllDueScanned, life, TypeInv, LifeTypes
    <3> QED BY <1>6, <3>1, <3>2 DEF SchedulerStep
  <2>2. sched \in SchedType
    BY DEF TypeInv, LifeTypes
  <2>3. sched' \in SchedType
    <3>1. CASE ReadTargets
      BY <3>1, <1>2 DEF ReadTargets
    <3>2. CASE SyncTargets
      BY <3>2, <1>2 DEF SyncTargets
    <3>3. CASE ScanDue
      BY <2>2, <3>3 DEF ScanDue
    <3>4. CASE AllDueScanned
      BY <3>4, <1>2 DEF AllDueScanned
    <3> QED BY <1>6, <3>1, <3>2, <3>3, <3>4 DEF SchedulerStep
  <2> QED BY <2>1, <2>3 DEF TypeInv, LifeTypes
<1>7. CASE Shutdown \/ Exit \/ Crash \/ Start
  <2>1. sched' \in SchedType
    <3> HIDE DEF SchedType
    <3> QED BY <1>2, <1>7 DEF Shutdown, Exit, Crash, Start, Dies
  <2>2. proc' \in {"up", "stopping", "down"} /\ stops' \in 0..MaxStops
    BY <1>7 DEF Shutdown, Exit, Crash, Start, Dies, TypeInv, LifeTypes
  <2>3. reused' = reused
    BY <1>7 DEF Shutdown, Exit, Crash, Start, Dies
  <2> QED BY <2>1, <2>2, <2>3 DEF TypeInv, LifeTypes
<1>8. CASE Tick
  <2>1. sched' \in SchedType /\ life' = life
    BY <1>2, <1>8 DEF Tick, TypeInv, LifeTypes
  <2> QED BY <2>1 DEF TypeInv, LifeTypes, life
<1>9. CASE UNCHANGED vars
  BY <1>1, <1>9 DEF vars, life
<1> QED BY <1>3, <1>4, <1>5, <1>6, <1>7, <1>8, <1>9 DEF Next

LEMMA TypesInit ==
    ASSUME Init
    PROVE  TypeInv
<1>1. RowTypes
  BY DEF Init, RowTypes
<1>2. TaskTypes
  <2> HIDE DEF TaskState
  <2> QED BY NoTaskType DEF Init, TaskTypes
<1>3. ClientTypes
  <2> HIDE DEF ClientState
  <2> QED BY IdleType DEF Init, ClientTypes
<1>4. WorldTypes
  BY DEF Init, WorldTypes
<1>5. LifeTypes
  <2>1. reused \in BOOLEAN
    BY DEF Init
  <2> QED BY <2>1 DEF Init, LifeTypes, SchedAt
<1> QED BY <1>1, <1>2, <1>3, <1>4, <1>5 DEF TypeInv

LEMMA TypesAlways == Spec => []TypeInv
<1>1. TypeInv /\ [Next]_vars => TypeInv'
  BY RowStep, TaskStepTypes, ClientStepTypes, WorldStepTypes, LifeStepTypes DEF TypeInv
<1>2. Init => TypeInv
  BY TypesInit
<1> QED BY <1>1, <1>2, PTL DEF Spec

\* The variables have their types (TypeOK), over stops and reused identifiers.
THEOREM TypeCorrect == Spec => []TypeOK
<1>1. TypeInv => TypeOK
  BY DEF TypeInv, TypeOK, RowTypes, TaskTypes, ClientTypes, WorldTypes, LifeTypes
<1> QED BY <1>1, TypesAlways, PTL
-----------------------------------------------------------------------------
(***************************************************************************)
(* One live scan.                                                          *)
(***************************************************************************)
LEMMA LockStep ==
    ASSUME TypeInv, LockInv, [Next]_vars
    PROVE  LockInv'
<1>1. client \in [Client -> ClientState]
  BY DEF TypeInv, ClientTypes
<1>2. ASSUME UNCHANGED client
      PROVE  LockInv'
  BY <1>2 DEF LockInv
<1>3. ASSUME NEW c \in Client, NEW y, client' = [client EXCEPT ![c] = y],
             \/ y.pc \in {"idle", "lock"}
             \/ client[c].pc = "row" /\ y.pc = "spawn"
             \/ \A d \in Client : client[d].pc \in {"idle", "lock"}
      PROVE  LockInv'
  <2>1. \A d \in Client : client'[d] = IF d = c THEN y ELSE client[d]
    BY <1>1, <1>3
  <2> HIDE DEF Client
  <2>2. \A d \in Client : d # c => client'[d].pc = client[d].pc
    BY <2>1
  <2>3. client'[c].pc = y.pc
    BY <2>1
  <2> QED BY <1>3, <2>2, <2>3 DEF LockInv
<1>4. ASSUME NEW c \in Client, Answer(c)
      PROVE  LockInv'
  BY <1>3, <1>4, IdleType DEF Answer
<1>5. ASSUME NEW c \in Client, NEW t, NEW f, Ask(c, t, f)
      PROVE  LockInv'
  <2> DEFINE y == [Idle EXCEPT !.pc = "lock", !.target = t, !.force = f]
  <2>1. y.pc = "lock"
    BY DEF Idle
  <2>2. client' = [client EXCEPT ![c] = y]
    BY <1>5 DEF Ask
  <2> HIDE DEF y
  <2> QED BY <1>3, <2>1, <2>2
<1>6. CASE Operator
  BY <1>2, <1>5, <1>6 DEF Operator, OperatorScan, SetSchedule, ChangeSite, Client
<1>7. ASSUME NEW c \in Client, ClientStep(c)
      PROVE  LockInv'
  <2>1. CASE CheckTask(c)
    <3>1. CASE Answer(c)
      BY <1>4, <3>1
    <3>2. CASE client' = [client EXCEPT ![c].pc = "row"]
      <4>1. client' = [client EXCEPT ![c] = [client[c] EXCEPT !.pc = "row"]]
        BY <3>2
      <4>2. \A d \in Client : client[d].pc \in {"idle", "lock"}
        BY <2>1 DEF CheckTask
      <4> QED BY <1>3, <4>1, <4>2
    <3> QED BY <2>1, <3>1, <3>2 DEF CheckTask
  <2>2. CASE RefuseRow(c) \/ Spawn(c)
    BY <1>4, <2>2 DEF RefuseRow, Spawn
  <2>3. CASE InsertRow(c)
    <3>1. client[c].pc = "row" /\ client[c] \in ClientState
      BY <1>1, <2>3 DEF InsertRow
    <3>2. \E s : client' = [client EXCEPT ![c].pc = "spawn", ![c].scan = s]
      BY <2>3 DEF InsertRow
    <3>3. PICK s : client' = [client EXCEPT ![c] = [[client[c] EXCEPT !.pc = "spawn"] EXCEPT !.scan = s]]
      BY <1>1, <3>2 DEF ClientState
    <3> DEFINE y == [[client[c] EXCEPT !.pc = "spawn"] EXCEPT !.scan = s]
    <3>4. y.pc = "spawn"
      BY <3>1 DEF ClientState
    <3>5. client' = [client EXCEPT ![c] = y]
      BY <3>3
    <3> HIDE DEF y
    <3> QED BY <1>3, <3>1, <3>4, <3>5
  <2> QED BY <1>7, <2>1, <2>2, <2>3 DEF ClientStep
<1>8. CASE \E k \in Task : TaskStep(k) \/ LoopCancel(k)
  BY <1>2, <1>8 DEF TaskStep, LoopCancel, Begin, BeginFails, Expire, Progress, Report, PutOff, Refused, End,
                    Cancelled, Complete, Sleep
<1>9. CASE SchedulerStep
  BY <1>2, <1>5, <1>9 DEF SchedulerStep, ReadTargets, SyncTargets, ScanDue, AllDueScanned, Client
<1>10. CASE Shutdown
  BY <1>4, <1>10 DEF Shutdown, Client
<1>11. CASE Exit \/ Crash
  <2>1. \A c \in Client : client'[c].pc = "idle"
    BY <1>11, IdleType DEF Exit, Crash, Dies
  <2> QED BY <2>1 DEF LockInv
<1>12. CASE Start \/ Tick \/ UNCHANGED vars
  BY <1>2, <1>12 DEF Start, Tick, vars
<1> QED BY <1>6, <1>7, <1>8, <1>9, <1>10, <1>11, <1>12 DEF Next

\* A step that starts no task and brings no row back keeps the scans apart.
LEMMA QuietStep ==
    ASSUME TypeInv, TypeInv', LiveInv, LockInv',
           \A t \in Target :
               /\ target'[t] # None
               /\ \/ \E k \in Task : Running(k) /\ task[k].target = t
                  \/ \E c \in Client : client[c].pc = "spawn" /\ client[c].target = t
               => /\ target[t] # None /\ target'[t].host = target[t].host
                  /\ \A s \in Scan : scan[s] # None /\ scan[s].target = t => scan'[s] = scan[s],
           \A k \in Task :
               \/ task'[k] = task[k]
               \/ task'[k] = NoTask
               \/ Running(k) /\ task'[k] = [task[k] EXCEPT !.pc = "cancelled"],
           \A c \in Client : client'[c].pc = "spawn" => client'[c] = client[c]
    PROVE  LiveInv'
<1>1. \A k \in Task :
         /\ Running(k)' => Running(k) /\ task'[k].scan = task[k].scan
         /\ AtWork(k)' => AtWork(k) /\ task'[k] = task[k]
  <2>1. \A k \in Task : task[k] \in TaskState
    BY DEF TypeInv, TaskTypes
  <2> SUFFICES ASSUME NEW k \in Task
               PROVE  /\ Running(k)' => Running(k) /\ task'[k].scan = task[k].scan
                      /\ AtWork(k)' => AtWork(k) /\ task'[k] = task[k]
    OBVIOUS
  <2>2. CASE task'[k] = task[k]
    BY <2>2 DEF Running, AtWork
  <2>3. CASE task'[k] = NoTask
    BY <2>3, NoTaskType DEF Running, AtWork
  <2>4. CASE Running(k) /\ task'[k] = [task[k] EXCEPT !.pc = "cancelled"]
    BY <2>1, <2>4 DEF Running, AtWork, TaskState
  <2> QED BY <2>2, <2>3, <2>4
<1>2. \A k \in Task : AtWork(k) => Running(k) /\ task[k].target \in Target /\ task[k].scan \in Scan
  BY DEF AtWork, Running, TypeInv, TaskTypes, TaskBound
<1>3. \A c \in Client : client[c].pc = "spawn" => client[c].target \in Target /\ client[c].scan \in Scan
  BY DEF TypeInv, ClientTypes, ClientBound
<1> HIDE DEF Client, NoTask
<1>4. OwnRows'
  BY <1>1 DEF OwnRows, LiveInv
<1>5. WorkInv'
  <2> SUFFICES ASSUME NEW k \in Task, AtWork(k)', target'[task'[k].target] # None
               PROVE  /\ Fresh(task[k].target, task[k].scan, task[k].wake)'
                      /\ task'[k].pc # "start" => task'[k].host = target'[task'[k].target].host
    BY DEF WorkInv
  <2> DEFINE t == task[k].target
             s == task[k].scan
  <2>1. task'[k] = task[k] /\ AtWork(k) /\ Running(k) /\ t \in Target /\ s \in Scan
    BY <1>1, <1>2
  <2>2. /\ target[t] # None /\ target'[t].host = target[t].host
        /\ scan[s] # None /\ scan[s].target = t => scan'[s] = scan[s]
    BY <2>1
  <2>3. Fresh(t, s, task[k].wake) /\ (task[k].pc # "start" => task[k].host = target[t].host)
    BY <2>1, <2>2 DEF LiveInv, WorkInv
  <2> HIDE DEF Active
  <2> QED BY <2>1, <2>2, <2>3 DEF Fresh
<1>6. SpawnInv'
  <2> SUFFICES ASSUME NEW c \in Client, client'[c].pc = "spawn", target'[client'[c].target] # None
               PROVE  /\ Fresh(client[c].target, client[c].scan, 0)'
                      /\ \A k \in Task : AtWork(k)' => task'[k].target # client'[c].target
    BY DEF SpawnInv
  <2> DEFINE t == client[c].target
             s == client[c].scan
  <2>1. client'[c] = client[c] /\ client[c].pc = "spawn" /\ t \in Target /\ s \in Scan
    BY <1>3
  <2>2. /\ target[t] # None /\ target'[t].host = target[t].host
        /\ scan[s] # None /\ scan[s].target = t => scan'[s] = scan[s]
    BY <2>1
  <2>3. Fresh(t, s, 0) /\ \A k \in Task : AtWork(k) => task[k].target # t
    BY <2>1, <2>2 DEF LiveInv, SpawnInv
  <2> HIDE DEF Active
  <2>4. Fresh(client[c].target, client[c].scan, 0)'
    BY <2>1, <2>2, <2>3 DEF Fresh
  <2> QED BY <1>1, <2>1, <2>3, <2>4
<1>7. LiveOnce'
  <2>1. \A k \in Task : Assesses(k)' => Assesses(k) /\ task'[k] = task[k]
    BY <1>1, <1>2 DEF Assesses, AtWork
  <2> QED BY <2>1 DEF LiveInv, LiveOnce
<1> QED BY <1>4, <1>5, <1>6, <1>7 DEF LiveInv

\* What a step of one task may do to its row and to itself.
LEMMA OneTaskStep ==
    ASSUME TypeInv, LiveInv, NEW k \in Task, Running(k),
           \A t \in Target : /\ target'[t] # None => target[t] # None
                             /\ target'[t].host = target[t].host,
           \A s \in Scan : s # task[k].scan => scan'[s] = scan[s],
           \A j \in Task : j # k => task'[j] = task[j],
           Running(k)' => task'[k].target = task[k].target /\ task'[k].scan = task[k].scan,
           AtWork(k)' => AtWork(k),
           AtWork(k)' /\ target[task[k].target] # None =>
               /\ Fresh(task[k].target, task[k].scan, task[k].wake)'
               /\ task'[k].pc # "start" => task'[k].host = target[task[k].target].host,
           client' = client
    PROVE  LiveInv'
<1>1. \A j \in Task : AtWork(j) => Running(j)
  BY DEF AtWork, Running
<1>2. \A j \in Task : Running(j) => task[j].target \in Target /\ task[j].scan \in Scan
  BY DEF Running, TypeInv, TaskTypes, TaskBound
<1>3. \A j \in Task : AtWork(j)' => AtWork(j) /\ Running(j)' /\ task'[j].target = task[j].target
  BY <1>1 DEF AtWork, Running
<1>4. \A j \in Task : Running(j)' => Running(j) /\ task'[j].scan = task[j].scan
  BY DEF Running
<1> HIDE DEF Client
<1>5. LockInv'
  BY DEF LockInv, LiveInv
<1>6. OwnRows'
  <2>1. \A i, j \in Task : i # j /\ Running(i)' /\ Running(j)' => task'[i].scan # task'[j].scan
    <3> SUFFICES ASSUME NEW i \in Task, NEW j \in Task, i # j, Running(i)', Running(j)'
                 PROVE  task'[i].scan # task'[j].scan
      OBVIOUS
    <3>1. /\ Running(i) /\ task'[i].scan = task[i].scan
          /\ Running(j) /\ task'[j].scan = task[j].scan
      BY <1>4
    <3>2. task[i].scan # task[j].scan
      BY <3>1 DEF LiveInv, OwnRows
    <3> QED BY <3>1, <3>2
  <2>2. \A c \in Client, j \in Task :
           client'[c].pc = "spawn" /\ Running(j)' => client'[c].scan # task'[j].scan
    BY <1>4 DEF OwnRows, LiveInv
  <2> QED BY <2>1, <2>2 DEF OwnRows
<1>7. WorkInv'
  <2> SUFFICES ASSUME NEW j \in Task, AtWork(j)', target'[task'[j].target] # None
               PROVE  /\ Fresh(task[j].target, task[j].scan, task[j].wake)'
                      /\ task'[j].pc # "start" => task'[j].host = target'[task'[j].target].host
    BY DEF WorkInv
  <2>1. AtWork(j) /\ Running(j) /\ task'[j].target = task[j].target
    BY <1>1, <1>3
  <2>2. task[j].target \in Target /\ task[j].scan \in Scan
    BY <1>2, <2>1
  <2>3. target[task[j].target] # None /\ target'[task[j].target].host = target[task[j].target].host
    BY <2>1, <2>2
  <2>4. CASE j = k
    BY <2>1, <2>3, <2>4
  <2>5. CASE j # k
    <3>1. /\ Fresh(task[j].target, task[j].scan, task[j].wake)
          /\ task[j].pc # "start" => task[j].host = target[task[j].target].host
      BY <2>1, <2>3 DEF LiveInv, WorkInv
    <3>2. task[j].scan # task[k].scan
      BY <2>1, <2>5 DEF LiveInv, OwnRows
    <3>3. scan'[task[j].scan] = scan[task[j].scan] /\ task'[j] = task[j]
      BY <2>2, <2>5, <3>2
    <3> HIDE DEF Active
    <3> QED BY <2>3, <3>1, <3>3 DEF Fresh
  <2> QED BY <2>4, <2>5
<1>8. SpawnInv'
  <2> SUFFICES ASSUME NEW c \in Client, client[c].pc = "spawn", target'[client[c].target] # None
               PROVE  /\ Fresh(client[c].target, client[c].scan, 0)'
                      /\ \A j \in Task : AtWork(j)' => task'[j].target # client[c].target
    BY DEF SpawnInv
  <2> DEFINE t == client[c].target
             s == client[c].scan
  <2>1. t \in Target /\ s \in Scan
    BY DEF TypeInv, ClientTypes, ClientBound
  <2>2. target[t] # None /\ target'[t].host = target[t].host
    BY <2>1
  <2>3. Fresh(t, s, 0) /\ \A j \in Task : AtWork(j) => task[j].target # t
    BY <2>2 DEF LiveInv, SpawnInv
  <2>4. scan'[s] = scan[s]
    <3>1. s # task[k].scan
      BY DEF LiveInv, OwnRows
    <3> QED BY <2>1, <3>1
  <2> HIDE DEF Active
  <2>5. Fresh(client[c].target, client[c].scan, 0)'
    BY <2>2, <2>3, <2>4 DEF Fresh
  <2> QED BY <1>3, <2>3, <2>5
<1>9. LiveOnce'
  <2>1. \A j \in Task : Assesses(j)' => Assesses(j) /\ task'[j].target = task[j].target
    <3> SUFFICES ASSUME NEW j \in Task, Assesses(j)'
                 PROVE  Assesses(j) /\ task'[j].target = task[j].target
      OBVIOUS
    <3>1. AtWork(j)' /\ target'[task'[j].target] # None
      BY DEF Assesses, AtWork
    <3>2. AtWork(j) /\ task'[j].target = task[j].target /\ task[j].target \in Target
      BY <1>1, <1>2, <1>3, <3>1
    <3> QED BY <3>1, <3>2 DEF Assesses, AtWork
  <2> QED BY <2>1 DEF LiveInv, LiveOnce
<1> QED BY <1>5, <1>6, <1>7, <1>8, <1>9 DEF LiveInv

\* A completion and a cancellation: the task is not at work any more.
LEMMA SettledStep ==
    ASSUME TypeInv, LiveInv, NEW k \in Task,
           \/ Running(k) /\ \E st \in {"ready", "failed"} : Complete(k, st)
           \/ Cancelled(k)
    PROVE  LiveInv'
<1>1. Running(k)
  BY DEF Running, Cancelled
<1>2. \A t \in Target : /\ target'[t] # None => target[t] # None
                        /\ target'[t].host = target[t].host
  <2>1. target \in [Target -> TargetRow \cup {None}]
    BY DEF TypeInv, RowTypes
  <2>2. CASE target' = target
    BY <2>2
  <2>3. ASSUME NEW w \in 1..Interval, Marks(k), target' = [target EXCEPT ![task[k].target].wait = w]
        PROVE  \A t \in Target : /\ target'[t] # None => target[t] # None
                                 /\ target'[t].host = target[t].host
    <3> DEFINE u == task[k].target
    <3>1. u \in Target /\ target[u] \in TargetRow
      BY <1>1, <2>1, <2>3 DEF Marks, Running, TypeInv, TaskTypes, TaskBound
    <3>2. [target[u] EXCEPT !.wait = w].host = target[u].host
      BY <3>1 DEF TargetRow
    <3>3. \A t \in Target : target'[t] = IF t = u THEN [target[u] EXCEPT !.wait = w] ELSE target[t]
      BY <2>1, <2>3
    <3>4. target[u] # None
      BY <2>3 DEF Marks
    <3> QED BY <3>2, <3>3, <3>4
  <2>4. \/ target' = target
        \/ Marks(k) /\ \E w \in 1..Interval : target' = [target EXCEPT ![task[k].target].wait = w]
    BY DEF Complete, Reschedule, Cancelled
  <2> QED BY <2>2, <2>3, <2>4
<1>3. \A s \in Scan : s # task[k].scan => scan'[s] = scan[s]
  <2>1. PICK st : MarkSettled(k, st)
    BY DEF Complete, Cancelled
  <2> DEFINE u == task[k].scan
             r == [[[scan[u] EXCEPT !.status = st] EXCEPT !.fresh = 0] EXCEPT
                      !.report = IF st = "ready" THEN task[k].host ELSE None]
  <2>2. u \in Scan /\ scan' = IF Marks(k) THEN [scan EXCEPT ![u] = r] ELSE scan
    BY <1>1, <2>1, MarkSettledEffect
  <2> HIDE DEF r, u
  <2>3. \A s \in Scan : s # u => scan'[s] = scan[s]
    BY <2>2 DEF TypeInv, RowTypes
  <2> QED BY <2>3 DEF u
<1>4. client' = client
  BY DEF Complete, Cancelled
<1>5. \/ task' = [task EXCEPT ![k].pc = "final"]
      \/ task' = [task EXCEPT ![k] = NoTask]
  BY DEF Complete, Cancelled
<1>6. \A j \in Task : j # k => task'[j] = task[j]
  BY <1>5 DEF TypeInv, TaskTypes
<1>7. task'[k] = [task[k] EXCEPT !.pc = "final"] \/ task'[k] = NoTask
  BY <1>5 DEF TypeInv, TaskTypes
<1>8. ~AtWork(k)' /\ (Running(k)' => task'[k].target = task[k].target /\ task'[k].scan = task[k].scan)
  <2>1. task[k] \in TaskState
    BY DEF TypeInv, TaskTypes
  <2>2. CASE task'[k] = [task[k] EXCEPT !.pc = "final"]
    BY <2>1, <2>2 DEF TaskState, AtWork, Running
  <2>3. CASE task'[k] = NoTask
    BY <2>3, NoTaskType DEF AtWork, Running
  <2> QED BY <1>7, <2>2, <2>3
<1> QED BY <1>1, <1>2, <1>3, <1>4, <1>6, <1>8, OneTaskStep

\* A mark that leaves the row active leaves it active for longer than w.
LEMMA MarkKeepsFresh ==
    ASSUME TypeInv, NEW k \in Task, Running(k), NEW st \in Active, NEW delay \in 0..Retry,
           MarkActive(k, st, delay), target[task[k].target] # None,
           Fresh(task[k].target, task[k].scan, 0),
           NEW w \in Nat, w < UntilStale(task[k].scan, delay)
    PROVE  /\ \A s \in Scan : s # task[k].scan => scan'[s] = scan[s]
           /\ scan'[task[k].scan] # None
           /\ scan'[task[k].scan].target = task[k].target
           /\ scan'[task[k].scan].host = target[task[k].target].host
           /\ scan'[task[k].scan].status \in Active
           /\ scan'[task[k].scan].fresh > w
<1> DEFINE u == task[k].scan
           f == UntilStale(u, delay)
           r == [[scan[u] EXCEPT !.status = st] EXCEPT !.fresh = f]
<1>1. Marks(k)
  BY DEF Marks, Fresh
<1>2. u \in Scan /\ scan' = [scan EXCEPT ![u] = r] /\ scan[u] \in ScanRow
  BY <1>1, MarkActiveEffect
<1> HIDE DEF Active, f
<1>3. r.target = scan[u].target /\ r.host = scan[u].host /\ r.status = st /\ r.fresh = f /\ r # None
  <2>1. ASSUME NEW x \in ScanRow, NEW g
        PROVE  LET y == [[x EXCEPT !.status = st] EXCEPT !.fresh = g]
               IN  y.target = x.target /\ y.host = x.host /\ y.status = st /\ y.fresh = g
    BY DEF ScanRow
  <2>2. RowTypes'
    BY MarkActiveTypes
  <2>3. scan'[u] = r
    BY <1>2 DEF TypeInv, RowTypes
  <2>4. r # None
    <3>1. f \in 0..(StaleAfter + Retry)
      <4>1. scan[u].fresh \in 0..(StaleAfter + Retry)
        BY <1>2 DEF ScanRow
      <4> QED BY <4>1 DEF f, UntilStale
    <3>2. ASSUME NEW x \in ScanRow, NEW n \in 0..(StaleAfter + Retry)
          PROVE  [[x EXCEPT !.status = st] EXCEPT !.fresh = n] \in ScanRow
      BY DEF ScanRow, Active
    <3> HIDE DEF ScanRow
    <3>3. r \in ScanRow
      BY <1>2, <3>1, <3>2
    <3> HIDE DEF r
    <3> QED BY <3>3
  <2> HIDE DEF u, ScanRow
  <2> QED BY <1>2, <2>1, <2>4
<1>4. scan'[u] = r /\ \A s \in Scan : s # u => scan'[s] = scan[s]
  <2> HIDE DEF r, u
  <2> QED BY <1>2 DEF TypeInv, RowTypes
<1> HIDE DEF r
<1> QED BY <1>3, <1>4 DEF Fresh, f

LEMMA BeginStep ==
    ASSUME TypeInv, LiveInv, NEW k \in Task, Begin(k)
    PROVE  LiveInv'
<1> DEFINE t == task[k].target
           s == task[k].scan
<1>1. Running(k) /\ AtWork(k) /\ task[k].pc = "start" /\ task[k] \in TaskState /\ t \in Target
  BY DEF Begin, Running, AtWork, TypeInv, TaskTypes, TaskBound
<1>2. task \in [Task -> TaskState] /\ client' = client /\ target' = target
  BY DEF Begin, TypeInv, TaskTypes, MarkActive, rows
<1>3. CASE target[t] = None
  <2>1. task' = [task EXCEPT ![k] = [task[k] EXCEPT !.pc = "final"]] /\ scan' = scan
    BY <1>3 DEF Begin, rows
  <2>2. /\ \A j \in Task : j # k => task'[j] = task[j]
        /\ task'[k].pc = "final" /\ task'[k].target = t /\ task'[k].scan = s
    BY <1>1, <1>2, <2>1 DEF TaskState
  <2>3. ~AtWork(k)'
    BY <2>2 DEF AtWork
  <2> QED BY <1>1, <1>2, <2>1, <2>2, <2>3, OneTaskStep
<1>4. CASE target[t] # None
  <2> DEFINE h == target[t].host
             y == [[task[k] EXCEPT !.pc = "call"] EXCEPT !.host = h]
  <2>1. task' = [task EXCEPT ![k] = y] /\ MarkActive(k, "queued", 0)
    BY <1>2, <1>4 DEF Begin, TaskState
  <2>2. y.pc = "call" /\ y.target = t /\ y.scan = s /\ y.wake = task[k].wake /\ y.host = h
    <3> HIDE DEF h
    <3> QED BY <1>1 DEF TaskState
  <2>3. task'[k] = y /\ \A j \in Task : j # k => task'[j] = task[j]
    <3> HIDE DEF y
    <3> QED BY <1>2, <2>1
  <2>4. Fresh(t, s, task[k].wake) /\ task[k].wake \in Nat
    BY <1>1, <1>4 DEF LiveInv, WorkInv, TaskState
  <2>5. "queued" \in Active /\ 0 \in 0..Retry /\ UntilStale(s, 0) = scan[s].fresh
    BY DEF Active, Exclusive, UntilStale
  <2>6. task[k].wake < scan[s].fresh /\ Fresh(t, s, 0)
    <3>1. s \in Scan /\ scan[s] # None
      BY <1>1, <2>4 DEF Fresh, TypeInv, TaskTypes, TaskBound
    <3>2. scan[s].fresh \in Nat
      <4>1. scan[s] \in ScanRow
        BY <3>1 DEF TypeInv, RowTypes
      <4> QED BY <4>1 DEF ScanRow
    <3> HIDE DEF Active
    <3> QED BY <2>4, <3>2 DEF Fresh
  <2>7. /\ \A r \in Scan : r # s => scan'[r] = scan[r]
        /\ Fresh(t, s, task[k].wake)'
    <3> HIDE DEF Active
    <3>1. /\ \A r \in Scan : r # s => scan'[r] = scan[r]
          /\ scan'[s] # None /\ scan'[s].target = t /\ scan'[s].host = target[t].host
          /\ scan'[s].status \in Active /\ scan'[s].fresh > task[k].wake
      BY <1>1, <1>4, <2>1, <2>4, <2>5, <2>6, MarkKeepsFresh
    <3> HIDE DEF y
    <3>2. task'[k].target = t /\ task'[k].scan = s /\ task'[k].wake = task[k].wake
      BY <2>2, <2>3
    <3> QED BY <1>2, <3>1, <3>2 DEF Fresh
  <2>8. task'[k].host = target[t].host /\ task'[k].target = t /\ task'[k].scan = s
    <3> HIDE DEF y
    <3> QED BY <2>2, <2>3
  <2> HIDE DEF y
  <2> QED BY <1>1, <1>2, <2>3, <2>7, <2>8, OneTaskStep
<1> QED BY <1>3, <1>4

\* Progress and PutOff: the row outlives the sleep by the staleness limit.
LEMMA SleepStep ==
    ASSUME TypeInv, LiveInv, NEW k \in Task, task[k].pc = "call",
           NEW st \in Active, NEW delay \in {Poll, Retry}, MarkActive(k, st, delay), Sleep(k, delay)
    PROVE  LiveInv'
<1> DEFINE t == task[k].target
           s == task[k].scan
           y == [[[task[k] EXCEPT !.pc = "sleep"] EXCEPT !.wake = delay] EXCEPT !.startNew = FALSE]
<1>1. Running(k) /\ AtWork(k) /\ task[k] \in TaskState /\ t \in Target /\ s \in Scan
  BY DEF Running, AtWork, TypeInv, TaskTypes, TaskBound
<1>2. client' = client /\ target' = target /\ task' = [task EXCEPT ![k] = y]
  <2>1. task \in [Task -> TaskState]
    BY DEF TypeInv, TaskTypes
  <2> QED BY <1>1, <2>1 DEF MarkActive, Sleep, TaskState
<1>3. y.pc = "sleep" /\ y.target = t /\ y.scan = s /\ y.wake = delay /\ y.host = task[k].host
  BY <1>1 DEF TaskState
<1> HIDE DEF y
<1>4. task'[k] = y /\ \A j \in Task : j # k => task'[j] = task[j]
  BY <1>2 DEF TypeInv, TaskTypes
<1>5. delay \in 0..Retry /\ delay \in Nat /\ delay # 0 /\ StaleAfter \in Nat \ {0}
  OBVIOUS
<1>6. UntilStale(s, delay) = delay + StaleAfter /\ delay < delay + StaleAfter
  BY <1>5 DEF UntilStale
<1> HIDE DEF Active
<1>7. CASE target[t] = None
  <2>1. \A r \in Scan : r # s => scan'[r] = scan[r]
    <3>1. ~Marks(k)
      BY <1>7 DEF Marks
    <3> QED BY <3>1 DEF MarkActive
  <2> QED BY <1>1, <1>2, <1>3, <1>4, <1>7, <2>1, OneTaskStep
<1>8. CASE target[t] # None
  <2>1. Fresh(t, s, task[k].wake) /\ task[k].host = target[t].host
    BY <1>1, <1>8 DEF LiveInv, WorkInv
  <2>2. Fresh(t, s, 0)
    <3>1. task[k].wake \in Nat
      BY <1>1 DEF TaskState
    <3>2. scan[s] \in ScanRow
      BY <1>1, <2>1 DEF Fresh, TypeInv, RowTypes
    <3>3. scan[s].fresh \in Nat
      BY <3>2 DEF ScanRow
    <3> QED BY <2>1, <3>1, <3>3 DEF Fresh
  <2>3. /\ \A r \in Scan : r # s => scan'[r] = scan[r]
        /\ scan'[s] # None /\ scan'[s].target = t /\ scan'[s].host = target[t].host
        /\ scan'[s].status \in Active /\ scan'[s].fresh > delay
    BY <1>1, <1>5, <1>6, <1>8, <2>2, MarkKeepsFresh
  <2>4. task'[k].target = t /\ task'[k].scan = s /\ task'[k].wake = delay /\ task'[k].host = task[k].host
    BY <1>3, <1>4
  <2>5. Fresh(task[k].target, task[k].scan, task[k].wake)'
    BY <1>2, <2>3, <2>4 DEF Fresh
  <2> QED BY <1>1, <1>2, <1>4, <2>1, <2>3, <2>4, <2>5, OneTaskStep
<1> QED BY <1>7, <1>8

LEMMA TaskLive ==
    ASSUME TypeInv, TypeInv', LiveInv, LockInv', NEW k \in Task, TaskStep(k) \/ LoopCancel(k)
    PROVE  LiveInv'
<1>1. CASE Begin(k)
  BY <1>1, BeginStep
<1>2. CASE BeginFails(k) \/ Expire(k) \/ Report(k) \/ Refused(k) \/ Cancelled(k)
  BY <1>2, SettledStep DEF BeginFails, Expire, Report, Refused, Running
<1>3. CASE Progress(k) \/ PutOff(k)
  <2>1. task[k].pc = "call"
    BY <1>3 DEF Progress, PutOff
  <2>2. \E st \in Active, delay \in {Poll, Retry} : MarkActive(k, st, delay) /\ Sleep(k, delay)
    BY <1>3 DEF Progress, PutOff, Active, Exclusive
  <2> HIDE DEF Active
  <2> QED BY <2>1, <2>2, SleepStep
<1>4. CASE End(k) \/ LoopCancel(k)
  <2>1. UNCHANGED <<target, scan, client>>
    BY <1>4 DEF End, LoopCancel, rows
  <2>2. task \in [Task -> TaskState] /\ Running(k)
    BY <1>4 DEF End, LoopCancel, Running, TypeInv, TaskTypes
  <2>3. \/ task' = [task EXCEPT ![k] = NoTask]
        \/ task' = [task EXCEPT ![k] = [task[k] EXCEPT !.pc = "cancelled"]]
    BY <1>4 DEF End, LoopCancel
  <2>4. \A j \in Task : \/ task'[j] = task[j]
                        \/ task'[j] = NoTask
                        \/ Running(j) /\ task'[j] = [task[j] EXCEPT !.pc = "cancelled"]
    BY <2>2, <2>3
  <2>5. \A t \in Target : target[t] # None => target'[t] # None /\ target'[t].host = target[t].host
    BY <2>1
  <2> QED BY <2>1, <2>4, <2>5, QuietStep
<1> QED BY <1>1, <1>2, <1>3, <1>4 DEF TaskStep
-----------------------------------------------------------------------------
LEMMA InsertStep ==
    ASSUME TypeInv, LiveInv, LockInv', ~reused', NEW c \in Client, InsertRow(c)
    PROVE  LiveInv'
<1> DEFINE t == client[c].target
           new == [target |-> t, host |-> target[t].host, status |-> "queued",
                   fresh |-> StaleAfter, report |-> None]
<1>1. /\ client[c].pc = "row" /\ t \in Target /\ target[t] # None /\ ~HasActive(t) /\ task' = task
      /\ client[c] \in ClientState
  BY DEF InsertRow, MayInsert, TypeInv, ClientTypes, ClientBound, tasks
<1>2. \E s \in Scan, old \in SUBSET Scan :
         /\ \A k \in Task : task[k].scan # s
         /\ \A r \in old : \A k \in Task : task[k].scan # r
         /\ scan' = [r \in Scan |-> IF r = s THEN new ELSE IF r \in old THEN None ELSE scan[r]]
         /\ client' = [client EXCEPT ![c].pc = "spawn", ![c].scan = s]
  <2> DEFINE old == Forgotten(t)
             free == old \cup NewScan
             least == {s \in free : \A r \in free : s <= r}
  <2>1. \E s \in least :
          /\ scan' = [r \in Scan |-> IF r = s THEN new ELSE IF r \in old THEN None ELSE scan[r]]
          /\ client' = [client EXCEPT ![c].pc = "spawn", ![c].scan = s]
          /\ ~HoldsScan(s)
    BY DEF InsertRow
  <2>2. old \in SUBSET Scan /\ least \subseteq Scan
    BY DEF Forgotten, RowsOf, NewScan
  <2>3. \A r \in old : \A k \in Task : task[k].scan # r
    BY DEF Forgotten
  <2> HIDE DEF old, least, new, t
  <2> QED BY <2>1, <2>2, <2>3 DEF HoldsScan
<1>3. PICK s \in Scan, old \in SUBSET Scan :
         /\ \A k \in Task : task[k].scan # s
         /\ \A r \in old : \A k \in Task : task[k].scan # r
         /\ scan' = [r \in Scan |-> IF r = s THEN new ELSE IF r \in old THEN None ELSE scan[r]]
         /\ client' = [client EXCEPT ![c].pc = "spawn", ![c].scan = s]
  BY <1>2
<1>4. \A k \in Task : task[k].scan # s
  BY <1>3
<1>5. \A r \in Scan : (\E k \in Task : task[k].scan = r) => scan'[r] = scan[r]
  <2> HIDE DEF new
  <2> QED BY <1>3, <1>4
<1>6. /\ \A d \in Client : d # c => client'[d] = client[d]
      /\ client'[c].pc = "spawn" /\ client'[c].target = t /\ client'[c].scan = s
  <2>1. client' = [client EXCEPT ![c] = [[client[c] EXCEPT !.pc = "spawn"] EXCEPT !.scan = s]]
    BY <1>1, <1>3 DEF TypeInv, ClientTypes, ClientState
  <2> DEFINE y == [[client[c] EXCEPT !.pc = "spawn"] EXCEPT !.scan = s]
  <2>2. y.pc = "spawn" /\ y.target = t /\ y.scan = s
    BY <1>1 DEF ClientState
  <2>3. client' = [client EXCEPT ![c] = y]
    BY <2>1
  <2> HIDE DEF y, Client
  <2> QED BY <2>2, <2>3 DEF TypeInv, ClientTypes
<1>7. \A d \in Client : client'[d].pc = "spawn" => d = c
  <2> HIDE DEF Client
  <2> QED BY <1>1, <1>6 DEF LiveInv, LockInv
<1>8. \A u \in Target : /\ target'[u] # None => target[u] # None
                        /\ target'[u].host = target[u].host
  <2>1. target' = IF client[c].force THEN [target EXCEPT ![t].cool = Gap] ELSE target
    BY DEF InsertRow
  <2>2. target[t] \in TargetRow
    BY <1>1 DEF TypeInv, RowTypes
  <2>3. [target[t] EXCEPT !.cool = Gap].host = target[t].host
    BY <2>2 DEF TargetRow
  <2> HIDE DEF t
  <2>4. CASE client[c].force
    <3>1. \A u \in Target : target'[u] = IF u = t THEN [target[t] EXCEPT !.cool = Gap] ELSE target[u]
      BY <2>1, <2>4 DEF TypeInv, RowTypes
    <3> QED BY <1>1, <2>3, <3>1
  <2>5. CASE ~client[c].force
    BY <2>1, <2>5
  <2> QED BY <2>4, <2>5
<1>9. \A k \in Task : AtWork(k) => task[k].target # t
  <2> SUFFICES ASSUME NEW k \in Task, AtWork(k), task[k].target = t
               PROVE  FALSE
    OBVIOUS
  <2>1. Fresh(t, task[k].scan, task[k].wake)
    BY <1>1 DEF LiveInv, WorkInv
  <2>2. task[k].scan \in Scan /\ task[k].wake \in Nat
    BY DEF AtWork, TypeInv, TaskTypes, TaskBound, TaskState
  <2>3. scan[task[k].scan] \in ScanRow
    BY <2>1, <2>2 DEF Fresh, TypeInv, RowTypes
  <2>4. scan[task[k].scan].fresh > 0
    <3>1. scan[task[k].scan].fresh \in Nat
      BY <2>3 DEF ScanRow
    <3> QED BY <2>1, <2>2, <3>1 DEF Fresh
  <2> HIDE DEF t, Active
  <2> QED BY <1>1, <2>1, <2>2, <2>4 DEF HasActive, RowsOf, Fresh
<1>10. OwnRows'
  <2> HIDE DEF Client, t, new
  <2>1. \A i, j \in Task : i # j /\ Running(i)' /\ Running(j)' => task'[i].scan # task'[j].scan
    BY <1>1 DEF LiveInv, OwnRows, Running
  <2>2. \A d \in Client, j \in Task :
           client'[d].pc = "spawn" /\ Running(j)' => client'[d].scan # task'[j].scan
    BY <1>1, <1>4, <1>6, <1>7
  <2> QED BY <2>1, <2>2 DEF OwnRows
<1>11. WorkInv'
  <2> HIDE DEF t, new
  <2> SUFFICES ASSUME NEW k \in Task, AtWork(k)', target'[task'[k].target] # None
               PROVE  /\ Fresh(task[k].target, task[k].scan, task[k].wake)'
                      /\ task'[k].pc # "start" => task'[k].host = target'[task'[k].target].host
    BY DEF WorkInv
  <2>1. AtWork(k) /\ task'[k] = task[k]
    BY <1>1 DEF AtWork
  <2>2. task[k].scan \in Scan /\ task[k].target \in Target
    BY <2>1 DEF AtWork, TypeInv, TaskTypes, TaskBound
  <2>3. target[task[k].target] # None /\ target'[task[k].target].host = target[task[k].target].host
    BY <1>8, <2>1, <2>2
  <2>4. /\ Fresh(task[k].target, task[k].scan, task[k].wake)
        /\ task[k].pc # "start" => task[k].host = target[task[k].target].host
    BY <2>1, <2>3 DEF LiveInv, WorkInv
  <2>5. scan'[task[k].scan] = scan[task[k].scan]
    BY <1>5, <2>2
  <2> HIDE DEF Active
  <2> QED BY <2>1, <2>3, <2>4, <2>5 DEF Fresh
<1>12. SpawnInv'
  <2>1. scan'[s] = new /\ new.target = t /\ new.host = target[t].host /\ new.status = "queued"
        /\ new.fresh = StaleAfter /\ new \in ScanRow
    <3>1. target[t] \in TargetRow
      BY <1>1 DEF TypeInv, RowTypes
    <3>2. target[t].host \in Host
      BY <3>1 DEF TargetRow
    <3>3. new \in ScanRow
      BY <1>1, <3>2 DEF ScanRow, Active, Exclusive
    <3> QED BY <1>3, <3>3
  <2> HIDE DEF new
  <2>2. target'[t].host = target[t].host /\ scan'[s] # None
    BY <1>1, <1>8, <2>1
  <2>3. "queued" \in Active /\ StaleAfter > 0
    BY DEF Active, Exclusive
  <2> HIDE DEF t, Active
  <2>4. Fresh(client[c].target, client[c].scan, 0)'
    BY <1>6, <2>1, <2>2, <2>3 DEF Fresh
  <2>5. \A k \in Task : AtWork(k)' => task'[k].target # client'[c].target
    BY <1>1, <1>6, <1>9 DEF AtWork
  <2> HIDE DEF Client
  <2> QED BY <1>7, <2>4, <2>5 DEF SpawnInv
<1>13. LiveOnce'
  <2>1. \A k \in Task : Assesses(k)' => Assesses(k) /\ task'[k] = task[k]
    <3>1. \A k \in Task : task[k].pc \in {"start", "call", "sleep"} => task[k].target \in Target
      BY DEF TypeInv, TaskTypes, TaskBound
    <3> QED BY <1>1, <1>8, <3>1 DEF Assesses
  <2> QED BY <2>1 DEF LiveInv, LiveOnce
<1> QED BY <1>10, <1>11, <1>12, <1>13 DEF LiveInv

LEMMA SpawnStep ==
    ASSUME TypeInv, LiveInv, LockInv', NEW c \in Client, Spawn(c)
    PROVE  LiveInv'
<1> DEFINE u == client[c].target
           v == client[c].scan
           f == client[c].force
           g == ~client[c].force
           y == [NoTask EXCEPT !.pc = "start", !.target = u, !.scan = v, !.startNew = f, !.renewed = g]
<1>1. PICK n \in Task : ~Running(n) /\ task' = [task EXCEPT ![n] = y]
  BY DEF Spawn
<1>2. /\ client[c].pc = "spawn" /\ u \in Target /\ v \in Scan
      /\ client' = [client EXCEPT ![c] = Idle] /\ target' = target /\ scan' = scan
  BY DEF Spawn, Answer, rows, TypeInv, ClientTypes, ClientBound
<1>3. y.pc = "start" /\ y.target = u /\ y.scan = v /\ y.wake = 0
  BY DEF NoTask
<1> HIDE DEF y
<1>4. task'[n] = y /\ \A k \in Task : k # n => task'[k] = task[k]
  BY <1>1 DEF TypeInv, TaskTypes
<1>5. \A d \in Client : client'[d].pc = "spawn" => d # c /\ client'[d] = client[d]
  <2> HIDE DEF Client
  <2> QED BY <1>2, IdleType DEF TypeInv, ClientTypes
<1>6. \A d \in Client : client'[d].pc # "spawn"
  <2> HIDE DEF Client
  <2> QED BY <1>2, <1>5 DEF LiveInv, LockInv
<1> HIDE DEF Client, u, v
<1>7. \A k \in Task : Running(k) => task[k].scan # v
  BY <1>2 DEF LiveInv, OwnRows, v
<1>8. target[u] # None => Fresh(u, v, 0) /\ \A k \in Task : AtWork(k) => task[k].target # u
  BY <1>2 DEF LiveInv, SpawnInv, u, v
<1>9. OwnRows'
  <2>1. \A i, j \in Task : i # j /\ Running(i)' /\ Running(j)' => task'[i].scan # task'[j].scan
    BY <1>3, <1>4, <1>7 DEF LiveInv, OwnRows, Running
  <2> QED BY <1>6, <2>1 DEF OwnRows
<1>10. WorkInv'
  <2> SUFFICES ASSUME NEW k \in Task, AtWork(k)', target'[task'[k].target] # None
               PROVE  /\ Fresh(task[k].target, task[k].scan, task[k].wake)'
                      /\ task'[k].pc # "start" => task'[k].host = target'[task'[k].target].host
    BY DEF WorkInv
  <2> HIDE DEF Active
  <2>1. CASE k = n
    BY <1>2, <1>3, <1>4, <1>8, <2>1 DEF Fresh
  <2>2. CASE k # n
    <3>1. task'[k] = task[k] /\ AtWork(k)
      BY <1>4, <2>2 DEF AtWork
    <3>2. /\ Fresh(task[k].target, task[k].scan, task[k].wake)
          /\ task[k].pc # "start" => task[k].host = target[task[k].target].host
      BY <1>2, <3>1 DEF LiveInv, WorkInv
    <3> QED BY <1>2, <3>1, <3>2 DEF Fresh
  <2> QED BY <2>1, <2>2
<1>11. SpawnInv'
  BY <1>6 DEF SpawnInv
<1>12. LiveOnce'
  <2> SUFFICES ASSUME NEW j \in Task, NEW k \in Task, Assesses(j)', Assesses(k)',
                      task'[j].target = task'[k].target, j # k
               PROVE  FALSE
    BY DEF LiveOnce
  <2>1. ASSUME NEW i \in Task, i # n, Assesses(i)'
        PROVE  Assesses(i) /\ AtWork(i) /\ task'[i] = task[i]
    BY <1>2, <1>4, <2>1 DEF Assesses, AtWork
  <2>2. ASSUME NEW i \in Task, i # n, Assesses(i)', task'[i].target = u, target'[u] # None
        PROVE  FALSE
    BY <1>2, <1>8, <2>1, <2>2
  <2>3. CASE j = n
    BY <1>3, <1>4, <2>2, <2>3 DEF Assesses
  <2>4. CASE k = n
    BY <1>3, <1>4, <2>2, <2>4 DEF Assesses
  <2>5. CASE j # n /\ k # n
    BY <2>1, <2>5 DEF LiveInv, LiveOnce
  <2> QED BY <2>3, <2>4, <2>5
<1> QED BY <1>9, <1>10, <1>11, <1>12 DEF LiveInv

\* A tick takes as much from the sleep as from the row.
LEMMA TickStep ==
    ASSUME TypeInv, LiveInv, LockInv', Tick
    PROVE  LiveInv'
<1>1. PICK done : task' = [k \in Task |-> Later(k, done)]
  BY DEF Tick
<1>2. /\ client' = client /\ \A c \in Client : client[c].pc = "idle"
      /\ \A k \in Task : task[k].pc \in {"none", "sleep"}
  BY IdleType DEF Tick
<1>3. \A t \in Target : /\ target'[t] # None => target[t] # None
                        /\ target[t] # None => target'[t].host = target[t].host
  <2>1. ASSUME NEW x \in TargetRow
        PROVE  [x EXCEPT !.wait = Less(@), !.cool = Less(@)].host = x.host
    BY DEF TargetRow
  <2> DEFINE X(x) == [x EXCEPT !.wait = Less(@), !.cool = Less(@)]
  <2>2. \A t \in Target : target'[t] = IF target[t] = None THEN None ELSE X(target[t])
    BY DEF Tick
  <2>3. \A t \in Target : target[t] # None => target[t] \in TargetRow
    BY DEF TypeInv, RowTypes
  <2>4. \A t \in Target : target[t] # None => X(target[t]).host = target[t].host
    <3> HIDE DEF TargetRow
    <3> QED BY <2>1, <2>3
  <2> HIDE DEF X
  <2> QED BY <2>2, <2>4
<1>4. \A k \in Task : AtWork(k)' =>
         /\ task[k].pc = "sleep" /\ task'[k].target = task[k].target /\ task'[k].scan = task[k].scan
         /\ task'[k].host = task[k].host /\ task'[k].wake = task[k].wake - 1
         /\ task[k].wake \in Nat \ {0}
  <2> SUFFICES ASSUME NEW k \in Task, AtWork(k)'
               PROVE  /\ task[k].pc = "sleep" /\ task'[k].target = task[k].target
                      /\ task'[k].scan = task[k].scan /\ task'[k].host = task[k].host
                      /\ task'[k].wake = task[k].wake - 1 /\ task[k].wake \in Nat \ {0}
    OBVIOUS
  <2>1. task'[k] = Later(k, done) /\ task[k] \in TaskState
    BY <1>1 DEF TypeInv, TaskTypes
  <2>2. Running(k)
    BY <2>1, NoTaskType DEF AtWork, Later
  <2>3. task[k].pc = "sleep"
    BY <1>2, <2>2 DEF Running
  <2>4. task[k].wake \in Nat \ {0}
    BY <2>1, <2>3 DEF TypeInv, TaskTypes, TaskBound, TaskState
  <2>5. /\ task'[k].target = task[k].target /\ task'[k].scan = task[k].scan
        /\ task'[k].host = task[k].host /\ task'[k].wake = task[k].wake - 1
    BY <2>1, <2>2 DEF Later, TaskState
  <2> QED BY <2>3, <2>4, <2>5
<1>5. \A k \in Task : Running(k)' => Running(k) /\ task'[k].scan = task[k].scan
  <2> SUFFICES ASSUME NEW k \in Task, Running(k)'
               PROVE  Running(k) /\ task'[k].scan = task[k].scan
    OBVIOUS
  <2>1. task'[k] = Later(k, done) /\ task[k] \in TaskState
    BY <1>1 DEF TypeInv, TaskTypes
  <2>2. Running(k)
    BY <2>1, NoTaskType DEF Running, Later
  <2> QED BY <2>1, <2>2 DEF Later, TaskState
<1> HIDE DEF Client
<1>6. OwnRows'
  <2>1. \A i, j \in Task : i # j /\ Running(i)' /\ Running(j)' => task'[i].scan # task'[j].scan
    BY <1>5 DEF OwnRows, LiveInv
  <2> QED BY <1>2, <2>1 DEF OwnRows
<1>7. WorkInv'
  <2> SUFFICES ASSUME NEW k \in Task, AtWork(k)', target'[task'[k].target] # None
               PROVE  /\ Fresh(task[k].target, task[k].scan, task[k].wake)'
                      /\ task'[k].pc # "start" => task'[k].host = target'[task'[k].target].host
    BY DEF WorkInv
  <2> DEFINE t == task[k].target
             s == task[k].scan
             w == task[k].wake
  <2>1. AtWork(k) /\ t \in Target /\ s \in Scan
    BY <1>4 DEF AtWork, TypeInv, TaskTypes, TaskBound
  <2>2. target[t] # None /\ target'[t].host = target[t].host
    BY <1>3, <1>4, <2>1
  <2>3. Fresh(t, s, w) /\ task[k].host = target[t].host
    BY <1>4, <2>1, <2>2 DEF LiveInv, WorkInv
  <2>4. scan[s] \in ScanRow
    BY <2>1, <2>3 DEF Fresh, TypeInv, RowTypes
  <2>5. /\ scan'[s] # None /\ scan'[s].target = scan[s].target /\ scan'[s].host = scan[s].host
        /\ scan'[s].status = scan[s].status /\ scan'[s].fresh = Less(scan[s].fresh)
    <3>1. scan'[s] = [scan[s] EXCEPT !.fresh = Less(@)]
      BY <2>1, <2>3 DEF Tick, Fresh
    <3>2. scan'[s] \in ScanRow
      <4>1. scan[s].fresh \in 0..(StaleAfter + Retry) /\ StaleAfter + Retry \in Nat
        BY <2>4 DEF ScanRow
      <4>2. Less(scan[s].fresh) \in 0..(StaleAfter + Retry)
        BY <4>1, LessType
      <4> QED BY <2>4, <3>1, <4>2 DEF ScanRow
    <3>3. scan'[s] # None
      <4> HIDE DEF ScanRow
      <4> QED BY <3>2
    <3> QED BY <2>4, <3>1, <3>3 DEF ScanRow
  <2>6. Less(scan[s].fresh) > w - 1
    <3>1. scan[s].fresh \in Nat /\ w \in Nat \ {0} /\ scan[s].fresh > w
      BY <1>4, <2>3, <2>4 DEF Fresh, ScanRow
    <3> QED BY <3>1 DEF Less
  <2> HIDE DEF Active
  <2>7. Fresh(task[k].target, task[k].scan, task[k].wake)'
    BY <1>4, <2>2, <2>3, <2>5, <2>6 DEF Fresh
  <2> QED BY <1>4, <2>2, <2>3, <2>7
<1>8. SpawnInv'
  BY <1>2 DEF SpawnInv
<1>9. LiveOnce'
  <2>1. \A k \in Task : Assesses(k)' => Assesses(k) /\ task'[k].target = task[k].target
    <3>1. \A k \in Task : task[k].pc = "sleep" => task[k].target \in Target
      BY DEF TypeInv, TaskTypes, TaskBound
    <3> QED BY <1>3, <1>4, <3>1 DEF Assesses, AtWork
  <2> QED BY <2>1 DEF LiveInv, LiveOnce
<1> QED BY <1>6, <1>7, <1>8, <1>9 DEF LiveInv
-----------------------------------------------------------------------------
\* Deleted targets take their rows with them; a target somebody refers to
\* stays what it was.
LEMMA SyncEffect ==
    ASSUME TypeInv, ~reused', SyncTargets, NEW t \in Target, target'[t] # None, HoldsTarget(t)
    PROVE  target'[t] = target[t] /\ t \notin sched.drop
<1> DEFINE has == {target[u].host : u \in {x \in Target : target[x] # None}}
           wanted == {h \in Host : site[h] = "on" /\ h \notin has}
           missing == IF Cardinality(wanted) > Cardinality(NewTarget) THEN {} ELSE wanted
           ids == {a \in [missing -> NewTarget] :
                      /\ \A h, i \in missing : a[h] = a[i] => h = i
                      /\ \A h \in missing, u \in NewTarget : u < a[h] => \E i \in missing : a[i] = u}
<1>1. \E add \in ids :
          /\ target' = [u \in Target |->
                  IF u \in sched.drop THEN None
                  ELSE IF u \in {add[h] : h \in missing}
                  THEN [host |-> CHOOSE h \in missing : add[h] = u, wait |-> None, cool |-> 0]
                  ELSE target[u]]
          /\ reused' = (reused \/ \E h \in missing : HoldsTarget(add[h]))
  BY DEF SyncTargets
<1>2. PICK add \in ids :
          /\ target' = [u \in Target |->
                  IF u \in sched.drop THEN None
                  ELSE IF u \in {add[h] : h \in missing}
                  THEN [host |-> CHOOSE h \in missing : add[h] = u, wait |-> None, cool |-> 0]
                  ELSE target[u]]
          /\ reused' = (reused \/ \E h \in missing : HoldsTarget(add[h]))
  <2> HIDE DEF missing, ids, HoldsTarget
  <2> QED BY <1>1
<1> HIDE DEF missing, ids, HoldsTarget
<1>3. t \notin {add[h] : h \in missing}
  BY <1>2
<1> QED BY <1>2, <1>3

LEMMA SchedulerLive ==
    ASSUME TypeInv, TypeInv', LiveInv, LockInv', ~reused', SchedulerStep
    PROVE  LiveInv'
<1> DEFINE used(t) == \/ \E k \in Task : Running(k) /\ task[k].target = t
                      \/ \E c \in Client : client[c].pc = "spawn" /\ client[c].target = t
<1>1. task' = task
  BY DEF SchedulerStep, ReadTargets, SyncTargets, ScanDue, AllDueScanned, tasks
<1>2. CASE SyncTargets
  <2>1. client' = client
    BY <1>2 DEF SyncTargets
  <2>2. ASSUME NEW t \in Target, target'[t] # None, used(t)
        PROVE  /\ target[t] # None /\ target'[t].host = target[t].host
               /\ \A s \in Scan : scan[s] # None /\ scan[s].target = t => scan'[s] = scan[s]
    <3>1. target'[t] = target[t] /\ t \notin sched.drop
      BY <1>2, <2>2, SyncEffect DEF HoldsTarget
    <3>2. scan' = [s \in Scan |->
                IF scan[s] # None /\ scan[s].target \in sched.drop THEN None ELSE scan[s]]
      BY <1>2 DEF SyncTargets
    <3> QED BY <2>2, <3>1, <3>2
  <2> QED BY <1>1, <2>1, <2>2, QuietStep
<1>3. CASE ReadTargets \/ ScanDue \/ AllDueScanned
  <2>1. UNCHANGED <<target, scan>>
    BY <1>3 DEF ReadTargets, ScanDue, AllDueScanned, rows
  <2>2. client' = client \/ \E t \in sched.due : Ask("scheduler", t, TRUE)
    BY <1>3 DEF ReadTargets, ScanDue, AllDueScanned
  <2>3. \A c \in Client : client'[c].pc = "spawn" => client'[c] = client[c]
    <3>1. \A t : [Idle EXCEPT !.pc = "lock", !.target = t, !.force = TRUE].pc = "lock"
      BY DEF Idle
    <3> HIDE DEF Client, Idle
    <3> QED BY <2>2, <3>1 DEF Ask, TypeInv, ClientTypes
  <2> QED BY <1>1, <2>1, <2>3, QuietStep
<1> QED BY <1>2, <1>3 DEF SchedulerStep

LEMMA OperatorLive ==
    ASSUME TypeInv, TypeInv', LiveInv, LockInv', Operator
    PROVE  LiveInv'
<1>1. task' = task
  BY DEF Operator, OperatorScan, SetSchedule, ChangeSite, tasks
<1>2. \A c \in Client : client'[c].pc = "spawn" => client'[c] = client[c]
  <2>1. client' = client \/ \E t \in Target, f \in BOOLEAN : Ask("operator", t, f)
    BY DEF Operator, OperatorScan, SetSchedule, ChangeSite
  <2>2. ASSUME NEW t \in Target, NEW f \in BOOLEAN, Ask("operator", t, f), NEW c \in Client,
               client'[c].pc = "spawn"
        PROVE  client'[c] = client[c]
    <3> DEFINE y == [Idle EXCEPT !.pc = "lock", !.target = t, !.force = f]
    <3>1. client' = [client EXCEPT !["operator"] = y] /\ y.pc = "lock"
      BY <2>2 DEF Ask, Idle
    <3> HIDE DEF y, Client
    <3> QED BY <2>2, <3>1 DEF TypeInv, ClientTypes
  <2> HIDE DEF Client
  <2> QED BY <2>1, <2>2
<1>3. CASE UNCHANGED rows
  BY <1>1, <1>2, <1>3, QuietStep DEF rows
<1>4. ASSUME NEW u \in Target, NEW on \in BOOLEAN, SetSchedule(u, on)
      PROVE  LiveInv'
  <2>1. /\ scan' = scan /\ target[u] # None
        /\ target' = [target EXCEPT ![u].wait = IF on THEN Interval ELSE None]
    BY <1>4 DEF SetSchedule
  <2>2. \A t \in Target : target'[t] # None => target[t] # None /\ target'[t].host = target[t].host
    <3>1. target[u] \in TargetRow
      BY <2>1 DEF TypeInv, RowTypes
    <3>2. [target[u] EXCEPT !.wait = IF on THEN Interval ELSE None].host = target[u].host
      BY <3>1 DEF TargetRow
    <3>3. \A t \in Target : t # u => target'[t] = target[t]
      BY <2>1 DEF TypeInv, RowTypes
    <3>4. target'[u] = [target[u] EXCEPT !.wait = IF on THEN Interval ELSE None]
      BY <2>1 DEF TypeInv, RowTypes
    <3> QED BY <2>1, <3>2, <3>3, <3>4
  <2> QED BY <1>1, <1>2, <2>1, <2>2, QuietStep
<1>5. ASSUME NEW T, DropTargets(T)
      PROVE  LiveInv'
  <2>1. \A t \in Target : target'[t] # None =>
          /\ target'[t] = target[t]
          /\ \A s \in Scan : scan[s] # None /\ scan[s].target = t => scan'[s] = scan[s]
    BY <1>5 DEF DropTargets
  <2> QED BY <1>1, <1>2, <2>1, QuietStep
<1> QED BY <1>3, <1>4, <1>5 DEF Operator, OperatorScan, ChangeSite, rows

LEMMA ProcessLive ==
    ASSUME TypeInv, TypeInv', LiveInv, LockInv', Shutdown \/ Exit \/ Crash \/ Start
    PROVE  LiveInv'
<1>1. UNCHANGED <<target, scan>>
  BY DEF Shutdown, Exit, Crash, Start, Dies, rows
<1>2. \A k \in Task : \/ task'[k] = task[k]
                      \/ task'[k] = NoTask
                      \/ Running(k) /\ task'[k] = [task[k] EXCEPT !.pc = "cancelled"]
  <2>1. CASE Shutdown
    BY <2>1, ShutdownTasks
  <2>2. CASE Exit \/ Crash \/ Start
    BY <2>2 DEF Exit, Crash, Start, Dies, tasks
  <2> QED BY <2>1, <2>2
<1>3. \A c \in Client : client'[c].pc = "spawn" => client'[c] = client[c]
  <2>1. CASE Shutdown
    <3>1. client' = [client EXCEPT !["scheduler"] = Idle]
      BY <2>1 DEF Shutdown, Answer
    <3> HIDE DEF Client
    <3> QED BY <3>1, IdleType DEF TypeInv, ClientTypes
  <2>2. CASE Exit \/ Crash \/ Start
    BY <2>2, IdleType DEF Exit, Crash, Start, Dies
  <2> QED BY <2>1, <2>2
<1> QED BY <1>1, <1>2, <1>3, QuietStep

LEMMA ClientLive ==
    ASSUME TypeInv, TypeInv', LiveInv, LockInv', ~reused', NEW c \in Client, ClientStep(c)
    PROVE  LiveInv'
<1>1. CASE InsertRow(c)
  BY <1>1, InsertStep
<1>2. CASE Spawn(c)
  BY <1>2, SpawnStep
<1>3. CASE CheckTask(c) \/ RefuseRow(c)
  <2>1. UNCHANGED <<target, scan, task>>
    BY <1>3 DEF CheckTask, RefuseRow, rows, tasks
  <2>2. \/ client' = [client EXCEPT ![c] = Idle]
        \/ client' = [client EXCEPT ![c] = [client[c] EXCEPT !.pc = "row"]]
    BY <1>3 DEF CheckTask, RefuseRow, Answer
  <2>3. [client[c] EXCEPT !.pc = "row"].pc = "row"
    BY DEF TypeInv, ClientTypes, ClientState
  <2>4. \A d \in Client : client'[d].pc = "spawn" => client'[d] = client[d]
    <3> HIDE DEF Client
    <3> QED BY <2>2, <2>3, IdleType DEF TypeInv, ClientTypes
  <2> QED BY <2>1, <2>4, QuietStep
<1> QED BY <1>1, <1>2, <1>3 DEF ClientStep

LEMMA LiveStep ==
    ASSUME TypeInv, TypeInv', LiveInv, ~reused', [Next]_vars
    PROVE  LiveInv'
<1>1. LockInv'
  BY LockStep DEF LiveInv
<1>2. CASE \E k \in Task : TaskStep(k) \/ LoopCancel(k)
  BY <1>1, <1>2, TaskLive
<1>3. CASE \E c \in Client : ClientStep(c)
  BY <1>1, <1>3, ClientLive
<1>4. CASE UNCHANGED vars
  BY <1>1, <1>4, QuietStep DEF vars
<1> QED BY <1>1, <1>2, <1>3, <1>4, OperatorLive, SchedulerLive, ProcessLive, TickStep DEF Next

LEMMA LiveInit ==
    ASSUME Init
    PROVE  LiveInv
<1>1. \A k \in Task : task[k].pc = "none"
  BY NoTaskType DEF Init
<1>2. \A c \in Client : client[c].pc = "idle"
  BY IdleType DEF Init
<1> HIDE DEF Client
<1> QED BY <1>1, <1>2 DEF LiveInv, LockInv, OwnRows, WorkInv, SpawnInv, LiveOnce, Running,
                          AtWork, Assesses

LEMMA ReusedStays ==
    ASSUME TypeInv, [Next]_vars, reused
    PROVE  reused'
<1>1. ASSUME NEW c \in Client, ClientStep(c)
      PROVE  reused'
  BY <1>1 DEF ClientStep, CheckTask, RefuseRow, InsertRow, Spawn, life
<1>2. CASE Operator
  BY <1>2 DEF Operator, OperatorScan, SetSchedule, ChangeSite, life
<1>3. ASSUME NEW k \in Task, TaskStep(k) \/ LoopCancel(k)
      PROVE  reused'
  BY <1>3 DEF TaskStep, LoopCancel, Begin, BeginFails, Expire, Progress, Report, PutOff, Refused,
              End, Cancelled, Complete, Sleep, life
<1>4. CASE SchedulerStep
  BY <1>4 DEF SchedulerStep, ReadTargets, SyncTargets, ScanDue, AllDueScanned, life
<1>5. CASE Shutdown \/ Exit \/ Crash \/ Start \/ Tick
  BY <1>5 DEF Shutdown, Exit, Crash, Start, Dies, Tick, life
<1>6. CASE UNCHANGED vars
  BY <1>6 DEF vars
<1> QED BY <1>1, <1>2, <1>3, <1>4, <1>5, <1>6 DEF Next

LEMMA ScanAlways == Spec => []ScanInv
<1>1. TypeInv /\ TypeInv' /\ ScanInv /\ [Next]_vars => ScanInv'
  <2> SUFFICES ASSUME TypeInv, TypeInv', ScanInv, [Next]_vars
               PROVE  ScanInv'
    OBVIOUS
  <2>1. LockInv'
    BY LockStep DEF ScanInv
  <2>2. ASSUME ~reused'
        PROVE  LiveInv'
    <3>1. LiveInv
      BY <2>2, ReusedStays DEF ScanInv
    <3> QED BY <2>2, <3>1, LiveStep
  <2> QED BY <2>1, <2>2 DEF ScanInv
<1>2. Init => ScanInv
  BY LiveInit DEF ScanInv, LiveInv
<1> QED BY <1>1, <1>2, TypesAlways, PTL DEF Spec

\* request_scan: no two tasks assess one target unless the identifier of a
\* deleted row came back while it was in use (OneLiveScan), whatever the
\* delays of SSL Labs, the edits of sites, the stops and the crashes.  The
\* lock, the row that outlives the sleep of its task and the two row checks
\* are what keeps it; _active_tasks is not.
THEOREM OneScanPerTarget == Spec => []OneLiveScan
<1>1. ScanInv => OneLiveScan
  BY DEF ScanInv, LiveInv, OneLiveScan
<1> QED BY <1>1, ScanAlways, PTL
=============================================================================
