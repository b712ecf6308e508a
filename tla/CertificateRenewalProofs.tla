----------------------- MODULE CertificateRenewalProofs -----------------------
(***************************************************************************)
(* Theorems about CertificateRenewal for any names, sites, requests,       *)
(* control modes and faults, and any number of certificates and crashes.   *)
(***************************************************************************)
EXTENDS CertificateRenewal, TLAPS

USE RenewalAssumption

\* The requests and the locks: LockHeld needs to know that a request at work has
\* a site, and which work it has is what takes it past its lock.
RequestInv ==
    /\ req \in [Request -> RequestState]
    /\ lock \in [Name -> Request \cup {None}]
    /\ \A r \in Request : req[r].pc # "idle" => req[r].site # None /\ req[r].mode # None
    /\ LockHeld

\* The storage and the threads that remove files from it.
FileInv ==
    /\ disk \in [Scope -> Stored]
    /\ issued \in [Name -> 0..MaxIssued]
    /\ asked \subseteq Name
    /\ remover \in [Request -> Remover]
    /\ \A r \in Request : remover[r] # NoRemover => remover[r].scope # None

\* The numbers of the configurations: there is one per deployment.
ConfigInv ==
    /\ runtime \in Nat /\ others \in 0..MaxElse
    /\ runtime <= others
    /\ \A r \in Request : req[r].config <= others
    /\ control \in Modes

RenewalInv == RequestInv /\ FileInv /\ ConfigInv

\* No request gets hold of a configuration in a step.
ConfigsKept == \A q \in Request : req'[q].config \in {0, req[q].config}

-----------------------------------------------------------------------------
(***************************************************************************)
(* The moves of a request.                                                 *)
(***************************************************************************)
LEMMA IdleType == Idle \in RequestState
BY DEF Idle, RequestState, PC, Config

\* A request that holds its lock goes on with it.
LEMMA GoesOn ==
    ASSUME RequestInv, NEW r \in Request, NEW l \in Locked,
           req[r].pc \in Locked, Goto(r, l), UNCHANGED lock
    PROVE  RequestInv' /\ ConfigsKept
<1>1. req[r] \in RequestState /\ req[r].pc # "idle"
  BY DEF RequestInv, Locked
<1>2. [req[r] EXCEPT !.pc = l] \in RequestState
  BY <1>1 DEF RequestState, PC
<1>3. req' = [req EXCEPT ![r] = [req[r] EXCEPT !.pc = l]]
  BY DEF Goto
<1> DEFINE x == [req[r] EXCEPT !.pc = l]
<1>4. x \in RequestState /\ x.pc = l /\ x.site = req[r].site /\ x.mode = req[r].mode
      /\ x.config = req[r].config
  BY <1>1, <1>2 DEF RequestState
<1> HIDE DEF x
<1>5. req' = [req EXCEPT ![r] = x]
  BY <1>3 DEF x
<1>6. req' \in [Request -> RequestState] /\ ConfigsKept
  BY <1>4, <1>5 DEF RequestInv, ConfigsKept
<1>7. \A q \in Request : req'[q].pc # "idle" => req'[q].site # None /\ req'[q].mode # None
  BY <1>1, <1>4, <1>5 DEF RequestInv
<1>8. LockHeld'
  BY <1>4, <1>5 DEF RequestInv, LockHeld, Scoped
<1> QED BY <1>6, <1>7, <1>8 DEF RequestInv

\* A request moves outside of its lock, and it has let go of the lock.
LEMMA LetsGo ==
    ASSUME RequestInv, NEW r \in Request, NEW x \in RequestState,
           x.pc \notin Locked, x.pc # "idle" => x.site # None /\ x.mode # None,
           x.config \in {0, req[r].config},
           req' = [req EXCEPT ![r] = x],
           Unlocks(r) \/ (req[r].pc \notin Locked /\ UNCHANGED lock)
    PROVE  RequestInv' /\ ConfigsKept
<1>1. req' \in [Request -> RequestState] /\ ConfigsKept
  BY DEF RequestInv, ConfigsKept
<1>2. \A q \in Request : req'[q].pc # "idle" => req'[q].site # None /\ req'[q].mode # None
  BY DEF RequestInv
<1>3. lock' \in [Name -> Request \cup {None}]
  BY DEF RequestInv, Unlocks
<1>4. \A c \in Name : lock'[c] # r
  <2>1. CASE Unlocks(r)
    BY <2>1 DEF Unlocks
  <2>2. CASE req[r].pc \notin Locked /\ UNCHANGED lock
    BY <2>2 DEF RequestInv, LockHeld
  <2> QED BY <2>1, <2>2
<1>5. \A c \in Name, q \in Request \ {r} : lock'[c] = q <=> lock[c] = q
  BY DEF Unlocks
<1>6. LockHeld'
  BY <1>4, <1>5 DEF RequestInv, LockHeld, Scoped
<1> QED BY <1>1, <1>2, <1>3, <1>6 DEF RequestInv

LEMMA Answers ==
    ASSUME RequestInv, NEW r \in Request, Answer(r)
    PROVE  RequestInv' /\ ConfigsKept
<1>1. Idle.pc = "idle" /\ "idle" \notin Locked /\ Idle.config = 0
  BY DEF Idle, Locked
<1>2. Idle \in RequestState /\ Idle.config \in {0, req[r].config} /\ Idle.pc \notin Locked
      /\ (Idle.pc # "idle" => Idle.site # None /\ Idle.mode # None)
  BY <1>1, IdleType
<1>3. req' = [req EXCEPT ![r] = Idle] /\ Unlocks(r)
  BY DEF Answer
<1> QED BY <1>2, <1>3, LetsGo

LEMMA Succeeds ==
    ASSUME RequestInv, NEW r \in Request, req[r].pc \in Locked, Succeed(r)
    PROVE  RequestInv' /\ ConfigsKept
<1> DEFINE x == [req[r] EXCEPT !.pc = "renewed"]
<1>1. req[r] \in RequestState /\ req[r].pc # "idle"
  BY DEF RequestInv, Locked
<1>2. x \in RequestState /\ x.pc = "renewed" /\ "renewed" \notin Locked
      /\ x.site = req[r].site /\ x.mode = req[r].mode /\ x.config = req[r].config
  BY <1>1 DEF RequestState, PC, Locked
<1>3. req' = [req EXCEPT ![r] = x]
  BY DEF Succeed, Goto
<1>4. x.site # None /\ x.mode # None
  BY <1>1, <1>2 DEF RequestInv
<1> HIDE DEF x
<1>5. x.pc \notin Locked /\ x.config \in {0, req[r].config} /\ Unlocks(r)
  BY <1>2 DEF Succeed
<1> QED BY <1>2, <1>3, <1>4, <1>5, LetsGo

\* A plan is one of the kinds of work or one of the refusals.
LEMMA PlanType ==
    ASSUME NEW s \in Site, NEW mode, mode \in Plans(s)
    PROVE  mode \in Work \cup Refusal
<1>1. PICK readable \in BOOLEAN, served \in {"valid", "wildcard", "bad"} :
        mode = Controlled(Capability(Primary[s], readable, served))
  BY DEF Plans
<1>2. Capability(Primary[s], readable, served) \in Work \cup Refusal
  BY DEF Capability, Work, Refusal
<1> QED BY <1>1, <1>2 DEF Controlled, Work, Refusal

LEMMA AskStep ==
    ASSUME RequestInv, NEW r \in Request, NEW s \in Site, NEW confirmed \in BOOLEAN,
           issued \in [Name -> 0..MaxIssued], Ask(r, s, confirmed)
    PROVE  RequestInv' /\ ConfigsKept
<1>1. PICK mode \in Plans(s) :
        req' = [req EXCEPT ![r] =
             IF Refuses(mode, confirmed) THEN Idle
             ELSE [Idle EXCEPT !.pc = "sync", !.site = s, !.mode = mode,
                               !.seen = issued[Primary[s]]]]
  BY DEF Ask
<1>2. req[r].pc \notin Locked /\ UNCHANGED lock
  BY DEF Ask, Locked
<1>3. CASE Refuses(mode, confirmed)
  <2>1. Idle.pc = "idle" /\ "idle" \notin Locked /\ Idle.config = 0
    BY DEF Idle, Locked
  <2> QED BY <1>1, <1>2, <1>3, <2>1, IdleType, LetsGo
<1>4. CASE ~Refuses(mode, confirmed)
  <2> DEFINE x == [Idle EXCEPT !.pc = "sync", !.site = s, !.mode = mode,
                               !.seen = issued[Primary[s]]]
  <2>1. mode \in Work
    BY <1>4, PlanType DEF Refuses
  <2>2. issued[Primary[s]] \in 0..MaxIssued
    OBVIOUS
  <2>3. x \in RequestState /\ x.pc = "sync" /\ x.site = s /\ x.mode = mode /\ x.config = 0
    BY <2>1, <2>2, IdleType DEF Idle, RequestState, PC
  <2>4. "sync" \notin Locked
    BY DEF Locked
  <2>5. req' = [req EXCEPT ![r] = x]
    BY <1>1, <1>4
  <2> HIDE DEF x
  <2> QED BY <1>2, <2>1, <2>3, <2>4, <2>5, LetsGo
<1> QED BY <1>3, <1>4

LEMMA SyncStep ==
    ASSUME RequestInv, NEW r \in Request, Sync(r)
    PROVE  RequestInv' /\ ConfigsKept
<1>1. CASE Goto(r, "plan") /\ UNCHANGED lock
  <2> DEFINE x == [req[r] EXCEPT !.pc = "plan"]
  <2>1. req[r] \in RequestState /\ req[r].pc = "sync"
    BY DEF RequestInv, Sync
  <2>2. x \in RequestState /\ x.pc = "plan" /\ x.site = req[r].site /\ x.mode = req[r].mode
        /\ x.config = req[r].config
    BY <2>1 DEF RequestState, PC
  <2>3. req' = [req EXCEPT ![r] = x]
    BY <1>1 DEF Goto
  <2>4. x.site # None /\ x.mode # None
    BY <2>1, <2>2 DEF RequestInv
  <2>5. "sync" \notin Locked /\ "plan" \notin Locked
    BY DEF Locked
  <2> HIDE DEF x
  <2>6. x.pc \notin Locked /\ x.config \in {0, req[r].config} /\ req[r].pc \notin Locked
    BY <2>1, <2>2, <2>5
  <2> QED BY <1>1, <2>2, <2>3, <2>4, <2>6, LetsGo
<1>2. CASE Fail(r)
  BY <1>2, Answers DEF Fail
<1> QED BY <1>1, <1>2 DEF Sync

LEMMA PlanStep ==
    ASSUME RequestInv, NEW r \in Request, PlanAgain(r)
    PROVE  RequestInv' /\ ConfigsKept
<1>1. PICK mode \in Plans(req[r].site) :
        req' = [req EXCEPT ![r].pc = "lock", ![r].trusted = mode]
  BY DEF PlanAgain
<1>2. req[r] \in RequestState /\ req[r].pc = "plan" /\ UNCHANGED lock
  BY DEF RequestInv, PlanAgain
<1>3. req[r].site \in Site /\ req[r].mode # None
  BY <1>2 DEF RequestInv, RequestState
<1>4. mode \in Work \cup Refusal
  BY <1>3, PlanType
<1> DEFINE x == [req[r] EXCEPT !.pc = "lock", !.trusted = mode]
<1>5. x \in RequestState /\ x.pc = "lock" /\ x.site = req[r].site /\ x.mode = req[r].mode
      /\ x.config = req[r].config
  BY <1>2, <1>4 DEF RequestState, PC
<1>6. req' = [req EXCEPT ![r] = x]
  BY <1>1
<1>7. "plan" \notin Locked /\ "lock" \notin Locked
  BY DEF Locked
<1> HIDE DEF x
<1>8. x.pc \notin Locked /\ x.config \in {0, req[r].config} /\ req[r].pc \notin Locked
      /\ x.site # None /\ x.mode # None
  BY <1>2, <1>3, <1>5, <1>7
<1> QED BY <1>2, <1>5, <1>6, <1>8, LetsGo

LEMMA TakeLockStep ==
    ASSUME RequestInv, NEW r \in Request, TakeLock(r)
    PROVE  RequestInv' /\ ConfigsKept
<1>1. CASE Fail(r)
  BY <1>1, Answers DEF Fail
<1>2. CASE /\ Free(r)
           /\ lock' = [lock EXCEPT ![Scoped(r)] = r]
           /\ Goto(r, First[req[r].mode])
  <2> DEFINE x == [req[r] EXCEPT !.pc = First[req[r].mode]]
  <2>1. req[r] \in RequestState /\ req[r].pc = "lock" /\ "lock" \notin Locked
    BY DEF RequestInv, TakeLock, Locked
  <2>2. req[r].site \in Site /\ req[r].mode \in Work
    BY <2>1 DEF RequestInv, RequestState
  <2>3. First[req[r].mode] \in Locked
    BY <2>2 DEF First, Work, Locked
  <2>4. Scoped(r) \in Name
    BY <2>2 DEF Scoped
  <2>5. x \in RequestState /\ x.pc \in Locked /\ x.pc # "idle"
        /\ x.site = req[r].site /\ x.mode = req[r].mode /\ x.config = req[r].config
    BY <2>1, <2>3 DEF RequestState, PC, Locked
  <2>6. req' = [req EXCEPT ![r] = x]
    BY <1>2 DEF Goto
  <2> HIDE DEF x
  <2>7. req' \in [Request -> RequestState] /\ ConfigsKept /\ lock' \in [Name -> Request \cup {None}]
    BY <1>2, <2>5, <2>6 DEF RequestInv, ConfigsKept
  <2>8. \A q \in Request : req'[q].pc # "idle" => req'[q].site # None /\ req'[q].mode # None
    BY <2>2, <2>5, <2>6 DEF RequestInv
  <2>9. \A c \in Name : lock[c] # r
    BY <2>1 DEF RequestInv, LockHeld
  <2>10. LockHeld'
    <3> SUFFICES ASSUME NEW c \in Name, NEW q \in Request
                 PROVE  lock'[c] = q <=> req'[q].pc \in Locked /\ Primary[req'[q].site] = c
      BY DEF LockHeld, Scoped
    <3>1. CASE q = r
      BY <1>2, <2>4, <2>5, <2>6, <2>9, <3>1 DEF RequestInv, Scoped
    <3>2. CASE q # r
      <4>1. req'[q] = req[q]
        BY <2>6, <3>2 DEF RequestInv
      <4>2. lock'[c] = q <=> lock[c] = q
        BY <1>2, <2>4, <3>2 DEF RequestInv, Free
      <4> QED BY <4>1, <4>2 DEF RequestInv, LockHeld, Scoped
    <3> QED BY <3>1, <3>2
  <2> QED BY <2>7, <2>8, <2>10 DEF RequestInv
<1> QED BY <1>1, <1>2 DEF TakeLock

\* What a request does while it holds its lock.
LEMMA LockedStep ==
    ASSUME RequestInv, NEW r \in Request,
           \/ Status(r) \/ Collect(r) \/ PurgeTimeout(r) \/ Reload(r)
           \/ Await(r) \/ Restart(r) \/ Health(r) \/ Verify(r) \/ Remote(r)
    PROVE  RequestInv' /\ ConfigsKept
<1> USE DEF Locked
<1>1. CASE Answer(r)
  BY <1>1, Answers
<1>2. CASE Succeed(r) /\ req[r].pc = "remote"
  BY <1>2, Succeeds
<1>3. CASE UNCHANGED lock /\ req[r].pc \in Locked /\ \E l \in Locked : Goto(r, l)
  BY <1>3, GoesOn
<1>4. CASE Status(r) \/ Collect(r) \/ PurgeTimeout(r)
  BY <1>1, <1>3, <1>4 DEF Status, Collect, PurgeTimeout, Fail
<1>5. CASE Reload(r) \/ Await(r) \/ Restart(r)
  BY <1>1, <1>3, <1>5 DEF Reload, Await, Restart
<1>6. CASE Health(r) \/ Verify(r) \/ Remote(r)
  BY <1>1, <1>2, <1>3, <1>6 DEF Health, Verify, Remote, Fail
<1> QED BY <1>4, <1>5, <1>6

LEMMA GetConfigStep ==
    ASSUME RequestInv, ConfigInv, NEW r \in Request, GetConfig(r)
    PROVE  RequestInv' /\ ConfigInv'
<1>1. CASE Fail(r)
  <2>1. RequestInv' /\ ConfigsKept /\ UNCHANGED <<runtime, others, control>>
    BY <1>1, Answers DEF Fail, caddy
  <2> QED BY <2>1 DEF ConfigInv, ConfigsKept
<1>2. CASE /\ req' = [req EXCEPT ![r].pc = "load", ![r].config = runtime]
           /\ UNCHANGED <<caddy, control, lock, remover, others>>
  <2> DEFINE x == [req[r] EXCEPT !.pc = "load", !.config = runtime]
  <2>1. req[r] \in RequestState /\ req[r].pc = "get"
    BY DEF RequestInv, GetConfig
  <2>2. runtime \in Config
    BY DEF ConfigInv, Config
  <2>3. x \in RequestState /\ x.pc = "load" /\ x.site = req[r].site /\ x.mode = req[r].mode
        /\ x.config = runtime
    BY <2>1, <2>2 DEF RequestState, PC, Locked
  <2>4. req' = [req EXCEPT ![r] = x]
    BY <1>2
  <2> HIDE DEF x
  <2>5. req' \in [Request -> RequestState]
    BY <2>3, <2>4 DEF RequestInv
  <2>6. \A q \in Request : req'[q].pc # "idle" => req'[q].site # None /\ req'[q].mode # None
    BY <2>1, <2>3, <2>4 DEF RequestInv
  <2>7. LockHeld'
    BY <1>2, <2>1, <2>3, <2>4 DEF RequestInv, LockHeld, Scoped, Locked
  <2>8. UNCHANGED <<runtime, others, control, lock>>
    BY <1>2 DEF caddy
  <2>9. ConfigInv'
    BY <2>3, <2>4, <2>8 DEF ConfigInv, RequestInv
  <2> QED BY <2>5, <2>6, <2>7, <2>8, <2>9 DEF RequestInv
<1> QED BY <1>1, <1>2 DEF GetConfig

LEMMA LoadConfigStep ==
    ASSUME RequestInv, ConfigInv, NEW r \in Request, LoadConfig(r)
    PROVE  RequestInv' /\ ConfigInv'
<1>1. CASE Fail(r)
  <2>1. RequestInv' /\ ConfigsKept /\ UNCHANGED <<runtime, others, control>>
    BY <1>1, Answers DEF Fail, caddy
  <2> QED BY <2>1 DEF ConfigInv, ConfigsKept
<1>2. CASE runtime' = req[r].config /\ Succeed(r) /\ UNCHANGED <<control, others>>
  <2>1. req[r].pc \in Locked
    BY DEF LoadConfig, Locked
  <2>2. RequestInv' /\ ConfigsKept
    BY <1>2, <2>1, Succeeds
  <2>3. req[r].config \in 0..MaxElse
    BY DEF RequestInv, RequestState, Config
  <2> QED BY <1>2, <2>2, <2>3 DEF ConfigInv, ConfigsKept
<1> QED BY <1>1, <1>2 DEF LoadConfig

\* The removal thread, which tells the request if it still waits.
LEMMA RemoverRequests ==
    ASSUME RequestInv, NEW r \in Request, RemoverStep(r)
    PROVE  RequestInv' /\ ConfigsKept
<1>1. CASE UNCHANGED <<req, lock>>
  <2>1. \A q \in Request : req[q].config \in {0, req[q].config}
    OBVIOUS
  <2> QED BY <1>1, <2>1 DEF RequestInv, LockHeld, Scoped, ConfigsKept
<1>2. CASE Answer(r)
  BY <1>2, Answers
<1>3. CASE req[r].pc = "remove" /\ Goto(r, "reload") /\ UNCHANGED lock
  BY <1>3, GoesOn DEF Locked
<1>4. ASSUME NEW removed \in BOOLEAN, RemoverEnds(r, removed)
      PROVE  RequestInv' /\ ConfigsKept
  BY <1>1, <1>2, <1>3, <1>4 DEF RemoverEnds
<1>5. CASE RemoveFile(r)
  BY <1>1, <1>5 DEF RemoveFile
<1> QED BY <1>4, <1>5 DEF RemoverStep, RemoveLast, RemoveFails
-----------------------------------------------------------------------------
(***************************************************************************)
(* The storage.                                                            *)
(***************************************************************************)
\* A request starts a thread at most; what Caddy asks for is always a name.
LEMMA StepFiles ==
    ASSUME RequestInv, FileInv, NEW r \in Request, Step(r)
    PROVE  FileInv'
<1>1. UNCHANGED <<disk, issued>>
  BY DEF Step, Sync, PlanAgain, TakeLock, Status, Collect, PurgeTimeout, Reload, Await,
         Restart, Health, Verify, Remote, GetConfig, LoadConfig, Return, Fail, caddy
<1>2. asked' \subseteq Name
  <2>1. CASE UNCHANGED asked
    BY <2>1 DEF FileInv
  <2>2. CASE Reloaded \/ Restarted
    BY <2>2 DEF FileInv, Reloaded, Restarted, Lacking
  <2> QED
    BY <2>1, <2>2
    DEF Step, Sync, PlanAgain, TakeLock, Status, Collect, PurgeTimeout, Reload, Await,
        Restart, Health, Verify, Remote, GetConfig, LoadConfig, Return, Fail, caddy
<1>3. CASE UNCHANGED remover
  BY <1>1, <1>2, <1>3 DEF FileInv
<1>4. CASE Collect(r) /\ remover' = [remover EXCEPT ![r] = [at |-> "start", scope |-> Scoped(r)]]
  <2>1. Scoped(r) \in Name
    BY <1>4 DEF Collect, RequestInv, RequestState, Scoped
  <2>2. [at |-> "start", scope |-> Scoped(r)] \in Remover
    BY <2>1 DEF Remover
  <2>3. [at |-> "start", scope |-> Scoped(r)].scope # None
    BY <2>1
  <2> DEFINE t == [at |-> "start", scope |-> Scoped(r)]
  <2> HIDE DEF t
  <2>4. t \in Remover /\ t.scope # None /\ remover' = [remover EXCEPT ![r] = t]
    BY <1>4, <2>2, <2>3 DEF t
  <2> QED BY <1>1, <1>2, <2>4 DEF FileInv
<1> QED
  BY <1>3, <1>4
  DEF Step, Sync, PlanAgain, TakeLock, Status, Collect, PurgeTimeout, Reload, Await,
      Restart, Health, Verify, Remote, GetConfig, LoadConfig, Return, Fail

LEMMA RemoverFiles ==
    ASSUME FileInv, NEW r \in Request, RemoverStep(r)
    PROVE  FileInv'
<1>1. UNCHANGED <<issued, asked>>
  BY DEF RemoverStep, RemoveFile, RemoveLast, RemoveFails, RemoverEnds
<1>2. remover[r] # NoRemover /\ remover[r] \in Remover /\ remover[r].scope \in Name
  BY DEF FileInv, Remover, RemoverStep, RemoveFile, RemoveLast, RemoveFails
<1>3. disk[remover[r].scope] \in Stored
  BY <1>2 DEF FileInv, Scope
<1>4. disk' \in [Scope -> Stored]
  <2>1. [disk[remover[r].scope] EXCEPT !.gen = 0] \in Stored
    BY <1>3 DEF Stored
  <2>2. [disk[remover[r].scope] EXCEPT !.rest = FALSE] \in Stored
    BY <1>3 DEF Stored
  <2>3. Nothing \in Stored
    BY DEF Nothing, Stored
  <2>4. CASE RemoveFile(r)
    <3>1. PICK left \in Stored : disk' = [disk EXCEPT ![remover[r].scope] = left]
      BY <2>1, <2>2, <2>4 DEF RemoveFile
    <3> QED BY <3>1 DEF FileInv
  <2>5. CASE RemoveLast(r)
    BY <2>3, <2>5 DEF FileInv, RemoveLast
  <2>6. CASE RemoveFails(r)
    BY <2>6 DEF FileInv, RemoveFails
  <2> QED BY <2>4, <2>5, <2>6 DEF RemoverStep
<1>5. PICK t \in Remover : /\ remover' = [remover EXCEPT ![r] = t]
                           /\ t = NoRemover \/ t.scope # None
  <2>1. CASE RemoveFile(r)
    <3>1. [remover[r] EXCEPT !.at = "going"] \in Remover
          /\ [remover[r] EXCEPT !.at = "going"].scope # None
      BY <1>2 DEF Remover
    <3> QED BY <2>1, <3>1 DEF RemoveFile
  <2>2. CASE remover' = [remover EXCEPT ![r] = NoRemover]
    <3>1. NoRemover \in Remover
      BY DEF NoRemover, Remover
    <3> QED BY <2>2, <3>1
  <2> QED BY <2>1, <2>2 DEF RemoverStep, RemoveLast, RemoveFails, RemoverEnds
<1> QED BY <1>1, <1>4, <1>5 DEF FileInv

LEMMA CaddyFiles ==
    ASSUME FileInv, NEW n \in Name, Obtain(n) \/ Complete(n)
    PROVE  FileInv'
<1>1. n \in Scope /\ issued[n] \in 0..MaxIssued /\ disk[n] \in Stored
  BY DEF FileInv, Scope
<1>2. CASE Obtain(n)
  <2>1. issued[n] + 1 \in 0..MaxIssued
    BY <1>1, <1>2 DEF Obtain
  <2>2. [gen |-> issued[n] + 1, rest |-> FALSE] \in Stored
    BY <2>1 DEF Stored
  <2> QED BY <1>1, <1>2, <2>1, <2>2 DEF FileInv, Obtain
<1>3. CASE Complete(n)
  <2>1. [disk[n] EXCEPT !.rest = TRUE] \in Stored
    BY <1>1 DEF Stored
  <2>2. disk' = [disk EXCEPT ![n] = [disk[n] EXCEPT !.rest = TRUE]]
    BY <1>3 DEF Complete
  <2> QED BY <1>1, <1>3, <2>1, <2>2 DEF FileInv, Complete
<1> QED BY <1>2, <1>3
-----------------------------------------------------------------------------
LEMMA RenewalInit == Init => RenewalInv
<1> SUFFICES ASSUME Init PROVE RenewalInv
  OBVIOUS
<1>1. RequestInv
  <2>1. Idle.pc = "idle" /\ "idle" \notin Locked
    BY DEF Idle, Locked
  <2> QED BY <2>1, IdleType DEF Init, RequestInv, LockHeld
<1>2. FileInv
  <2>1. [gen |-> 2, rest |-> TRUE] \in Stored
    BY DEF Stored
  <2>2. NoRemover \in Remover
    BY DEF NoRemover, Remover
  <2>3. disk \in [Scope -> Stored]
    BY <2>1 DEF Init, Scope
  <2> QED BY <2>2, <2>3 DEF Init, FileInv
<1>3. ConfigInv
  BY DEF Init, ConfigInv, Idle
<1> QED BY <1>1, <1>2, <1>3 DEF RenewalInv

LEMMA RenewalStep ==
    ASSUME RenewalInv, [Next]_vars
    PROVE  RenewalInv'
<1> USE DEF RenewalInv
<1>0. RequestInv /\ UNCHANGED <<req, lock>> => RequestInv'
  BY DEF RequestInv, LockHeld, Scoped
<1>1. ConfigsKept /\ UNCHANGED <<runtime, others, control>> => ConfigInv'
  BY DEF ConfigInv, ConfigsKept
<1>2. ASSUME NEW r \in Request, Step(r) PROVE RenewalInv'
  <2>1. FileInv'
    BY <1>2, StepFiles
  <2>2. CASE GetConfig(r) \/ LoadConfig(r)
    BY <2>1, <2>2, GetConfigStep, LoadConfigStep
  <2>3. CASE /\ ~GetConfig(r) /\ ~LoadConfig(r)
    <3>1. RequestInv' /\ ConfigsKept
      BY <1>2, <2>3, SyncStep, PlanStep, TakeLockStep, LockedStep, Answers
      DEF Step, Return, Fail
    <3>2. UNCHANGED <<runtime, others, control>>
      BY <1>2, <2>3
      DEF Step, Sync, PlanAgain, TakeLock, Status, Collect, PurgeTimeout, Reload, Await,
          Restart, Health, Verify, Remote, Return, Fail, caddy
    <3> QED BY <1>1, <2>1, <3>1, <3>2
  <2> QED BY <2>2, <2>3
<1>3. ASSUME NEW r \in Request, RemoverStep(r) PROVE RenewalInv'
  <2>1. UNCHANGED <<runtime, others, control>>
    BY <1>3 DEF RemoverStep, RemoveFile, RemoveLast, RemoveFails, RemoverEnds
  <2> QED BY <1>1, <1>3, <2>1, RemoverFiles, RemoverRequests
<1>4. ASSUME NEW r \in Request, NEW s \in Site, NEW confirmed \in BOOLEAN, Ask(r, s, confirmed)
      PROVE  RenewalInv'
  <2>1. RequestInv' /\ ConfigsKept
    BY <1>4, AskStep DEF FileInv
  <2>2. UNCHANGED <<caddy, control, remover, others>>
    BY <1>4 DEF Ask
  <2> QED BY <1>1, <2>1, <2>2 DEF FileInv, caddy
<1>5. ASSUME NEW n \in Name, Obtain(n) \/ Complete(n) PROVE RenewalInv'
  <2>1. UNCHANGED <<runtime, control, req, lock, others>>
    BY <1>5 DEF Obtain, Complete
  <2> QED BY <1>0, <1>5, <2>1, CaddyFiles DEF ConfigInv
<1>6. CASE Deploy
  <2>1. asked' \subseteq Name
    BY <1>6 DEF Deploy, Reloaded, Lacking, FileInv
  <2>2. FileInv'
    BY <1>6, <2>1 DEF Deploy, FileInv
  <2>3. ConfigInv'
    <3>1. \A r \in Request : req[r].config \in Nat
      BY DEF RequestInv, RequestState, Config
    <3> QED BY <1>6, <3>1 DEF Deploy, ConfigInv
  <2> QED BY <1>0, <1>6, <2>2, <2>3 DEF Deploy
<1>7. CASE Crash
  <2>1. Idle.pc = "idle" /\ "idle" \notin Locked /\ Idle.config = 0
    BY DEF Idle, Locked
  <2>2. RequestInv'
    BY <1>7, <2>1, IdleType DEF Crash, RequestInv, LockHeld
  <2>3. FileInv'
    <3>1. NoRemover \in Remover
      BY DEF NoRemover, Remover
    <3> QED BY <1>7, <3>1 DEF Crash, FileInv, caddy
  <2>4. ConfigInv'
    BY <1>7, <2>1 DEF Crash, ConfigInv, caddy
  <2> QED BY <2>2, <2>3, <2>4
<1>8. CASE UNCHANGED vars
  BY <1>0, <1>8 DEF vars, FileInv, ConfigInv
<1> QED BY <1>2, <1>3, <1>4, <1>5, <1>6, <1>7, <1>8 DEF Next

LEMMA RenewalInvariant == Spec => []RenewalInv
BY RenewalInit, RenewalStep, PTL DEF Spec

\* Every reachable state of the requests, the locks and the storage is well
\* typed (services/renewal.py).
THEOREM TypeCorrect == Spec => []TypeOK
<1>1. RenewalInv => TypeOK
  BY DEF RenewalInv, RequestInv, FileInv, ConfigInv, TypeOK, Config
<1> QED BY <1>1, RenewalInvariant, PTL

\* The lock of a scope is held exactly by the request that works on it: no two
\* renewals work on one scope, and no way out of execute leaves its lock behind.
THEOREM LocksAreHeld == Spec => []LockHeld
<1>1. RenewalInv => LockHeld
  BY DEF RenewalInv, RequestInv
<1> QED BY <1>1, RenewalInvariant, PTL
-----------------------------------------------------------------------------
(***************************************************************************)
(* What a purge that is reported as a success has achieved.                *)
(***************************************************************************)
\* Between the purge and the look at the storage its scope is empty, or holds a
\* certificate from after the request; d and i are the storage and the counts.
PurgeOK(q, d, i) ==
    q.pc # "idle" =>
      /\ q.seen <= i[Primary[q.site]]
      /\ q.mode = "artifact_purge" /\ Primary[q.site] \notin Wildcarded =>
           /\ q.pc \in {"reload", "await", "restart", "health", "verify"} =>
                d[Primary[q.site]].gen = 0 \/ i[Primary[q.site]] > q.seen
           /\ q.pc \in {"remote", "renewed"} => i[Primary[q.site]] > q.seen
           /\ q.pc \notin {"get", "load"}

PurgeInv ==
    \A r \in Request :
        /\ PurgeOK(req[r], disk, issued)
        /\ req[r].pc = "remove" => remover[r].scope = Scoped(r)

\* Files appear with a new certificate only.
StorageMoves ==
    \A n \in Name : /\ issued'[n] \in Nat /\ issued'[n] >= issued[n]
                    /\ disk'[n].gen \in {0, disk[n].gen} \/ issued'[n] > issued[n]

LEMMA StorageKept ==
    ASSUME RenewalInv, UNCHANGED <<disk, issued>>
    PROVE  StorageMoves
<1>1. \A n \in Name : issued[n] \in Nat
  BY DEF RenewalInv, FileInv
<1> QED BY <1>1 DEF StorageMoves

LEMMA StorageStep ==
    ASSUME RenewalInv, [Next]_vars
    PROVE  StorageMoves
<1> USE DEF RenewalInv
<1>1. \A n \in Name : issued[n] \in Nat /\ disk[n] \in Stored /\ n \in Scope
  BY DEF FileInv, Scope
<1>2. ASSUME NEW n \in Name, Obtain(n) PROVE StorageMoves
  BY <1>1, <1>2 DEF StorageMoves, Obtain, FileInv
<1>3. ASSUME NEW n \in Name, Complete(n) PROVE StorageMoves
  <2>1. [disk[n] EXCEPT !.rest = TRUE].gen = disk[n].gen
    BY <1>1 DEF Stored
  <2>2. disk' = [disk EXCEPT ![n] = [disk[n] EXCEPT !.rest = TRUE]] /\ UNCHANGED issued
    BY <1>3 DEF Complete
  <2> QED BY <1>1, <2>1, <2>2 DEF StorageMoves, FileInv
<1>4. ASSUME NEW r \in Request, RemoverStep(r) PROVE StorageMoves
  <2>1. UNCHANGED issued
    BY <1>4 DEF RemoverStep, RemoveFile, RemoveLast, RemoveFails, RemoverEnds
  <2>2. remover[r].scope \in Scope /\ disk[remover[r].scope] \in Stored
    BY <1>4 DEF FileInv, Remover, Scope, RemoverStep, RemoveFile, RemoveLast, RemoveFails
  <2>3. ASSUME NEW left \in Stored, left.gen \in {0, disk[remover[r].scope].gen},
               disk' = [disk EXCEPT ![remover[r].scope] = left]
        PROVE  StorageMoves
    BY <1>1, <2>1, <2>2, <2>3 DEF StorageMoves, FileInv
  <2>4. CASE RemoveFile(r)
    <3>1. PICK left \in {[disk[remover[r].scope] EXCEPT !.gen = 0],
                         [disk[remover[r].scope] EXCEPT !.rest = FALSE]} :
                 disk' = [disk EXCEPT ![remover[r].scope] = left]
      BY <2>4 DEF RemoveFile
    <3>2. left \in Stored /\ left.gen \in {0, disk[remover[r].scope].gen}
      <4> DEFINE d == disk[remover[r].scope]
      <4>1. [d EXCEPT !.gen = 0] \in Stored /\ [d EXCEPT !.gen = 0].gen = 0
        BY <2>2 DEF Stored
      <4>2. [d EXCEPT !.rest = FALSE] \in Stored /\ [d EXCEPT !.rest = FALSE].gen = d.gen
        BY <2>2 DEF Stored
      <4> QED BY <4>1, <4>2
    <3> QED BY <2>3, <3>1, <3>2
  <2>5. CASE RemoveLast(r)
    <3>1. disk' = [disk EXCEPT ![remover[r].scope] = Nothing]
      BY <2>5 DEF RemoveLast
    <3>2. Nothing \in Stored /\ Nothing.gen \in {0, disk[remover[r].scope].gen}
      BY DEF Nothing, Stored
    <3> QED BY <2>3, <3>1, <3>2
  <2>6. CASE RemoveFails(r)
    BY <2>1, <2>6, StorageKept DEF RemoveFails
  <2> QED BY <1>4, <2>4, <2>5, <2>6 DEF RemoverStep
<1>5. CASE UNCHANGED <<disk, issued>>
  BY <1>5, StorageKept
<1>6. ASSUME NEW r \in Request, Step(r) PROVE UNCHANGED <<disk, issued>>
  BY <1>6 DEF Step, Sync, PlanAgain, TakeLock, Status, Collect, PurgeTimeout, Reload, Await,
         Restart, Health, Verify, Remote, GetConfig, LoadConfig, Return, Fail, caddy
<1> QED
  BY <1>2, <1>3, <1>4, <1>5, <1>6
  DEF Next, Ask, Deploy, Crash, vars, caddy

\* A request that does nothing itself loses nothing by what the others do.
LEMMA PurgeKept ==
    ASSUME RenewalInv, StorageMoves, NEW q \in Request, PurgeOK(req[q], disk, issued)
    PROVE  PurgeOK(req[q], disk', issued')
<1> SUFFICES ASSUME req[q].pc # "idle" PROVE PurgeOK(req[q], disk', issued')
  BY DEF PurgeOK
<1> DEFINE n == Primary[req[q].site]
<1>1. n \in Name /\ req[q].seen \in Nat
  BY DEF RenewalInv, RequestInv, RequestState
<1>2. issued[n] \in Nat /\ issued'[n] >= issued[n]
      /\ (disk'[n].gen \in {0, disk[n].gen} \/ issued'[n] > issued[n])
  BY <1>1 DEF RenewalInv, FileInv, StorageMoves
<1>3. req[q].seen <= issued[n] /\ req[q].seen <= issued'[n]
  BY <1>1, <1>2 DEF PurgeOK, StorageMoves
<1>4. issued'[n] > issued[n] \/ issued[n] > req[q].seen => issued'[n] > req[q].seen
  BY <1>1, <1>2, <1>3 DEF StorageMoves
<1>5. disk'[n].gen = 0 \/ disk'[n].gen = disk[n].gen \/ issued'[n] > req[q].seen
  BY <1>2, <1>4
<1> QED BY <1>3, <1>4, <1>5 DEF PurgeOK

LEMMA PurgeStep ==
    ASSUME RenewalInv, PurgeInv, NEW r \in Request, Step(r)
    PROVE  PurgeInv'
<1>1. UNCHANGED <<disk, issued>>
  BY DEF Step, Sync, PlanAgain, TakeLock, Status, Collect, PurgeTimeout, Reload, Await,
         Restart, Health, Verify, Remote, GetConfig, LoadConfig, Return, Fail, caddy
<1>2. req[r] \in RequestState /\ PurgeOK(req[r], disk, issued) /\ req \in [Request -> RequestState]
  BY DEF RenewalInv, RequestInv, PurgeInv
<1>3. ASSUME NEW x, req' = [req EXCEPT ![r] = x], PurgeOK(x, disk, issued),
             x.pc # "remove", UNCHANGED remover
      PROVE  PurgeInv'
  BY <1>1, <1>2, <1>3 DEF PurgeInv, Scoped
<1>4. CASE Answer(r) /\ UNCHANGED remover
  <2>1. PurgeOK(Idle, disk, issued) /\ Idle.pc # "remove"
    BY DEF PurgeOK, Idle
  <2> QED BY <1>3, <1>4, <2>1 DEF Answer
<1>5. ASSUME NEW l \in PC \ {"remove", "idle"}, Goto(r, l), UNCHANGED remover, req[r].pc # "idle",
             l \in {"reload", "await", "restart", "health", "verify"} =>
                 req[r].pc \in {"reload", "await", "restart", "health", "verify"}
                 \/ req[r].mode # "artifact_purge",
             l = "renewed" => req[r].pc \in {"remote", "get", "load"},
             l = "remote" => /\ req[r].pc = "verify"
                             /\ Primary[req[r].site] \notin Wildcarded =>
                                    disk[Primary[req[r].site]].gen # 0,
             l \in {"get", "load"} => req[r].mode # "artifact_purge" \/ req[r].pc \in {"get", "load"}
      PROVE  PurgeInv'
  <2> DEFINE x == [req[r] EXCEPT !.pc = l]
  <2>1. x.pc = l /\ x.site = req[r].site /\ x.mode = req[r].mode /\ x.seen = req[r].seen
    BY <1>2 DEF RequestState
  <2>2. req' = [req EXCEPT ![r] = x]
    BY <1>5 DEF Goto
  <2> HIDE DEF x
  <2>3. PurgeOK(x, disk, issued)
    BY <1>2, <1>5, <2>1 DEF PurgeOK
  <2> QED BY <1>3, <1>5, <2>1, <2>2, <2>3
<1>6. CASE Sync(r) \/ Status(r)
  BY <1>4, <1>5, <1>6 DEF Sync, Status, Fail, PC, Locked
<1>7. CASE PlanAgain(r)
  <2>1. PICK mode \in Plans(req[r].site) :
          req' = [req EXCEPT ![r].pc = "lock", ![r].trusted = mode]
    BY <1>7 DEF PlanAgain
  <2> DEFINE x == [req[r] EXCEPT !.pc = "lock", !.trusted = mode]
  <2>2. x.pc = "lock" /\ x.site = req[r].site /\ x.mode = req[r].mode /\ x.seen = req[r].seen
    BY <1>2 DEF RequestState
  <2>3. req' = [req EXCEPT ![r] = x] /\ UNCHANGED remover /\ req[r].pc = "plan"
    <3>1. req' = [req EXCEPT ![r] = x]
      BY <1>2, <2>1
    <3> QED BY <1>7, <3>1 DEF PlanAgain
  <2> HIDE DEF x
  <2>4. PurgeOK(x, disk, issued)
    BY <1>2, <2>2, <2>3 DEF PurgeOK
  <2> QED BY <1>3, <2>2, <2>3, <2>4
<1>8. CASE TakeLock(r)
  <2>1. req[r].pc = "lock" /\ req[r].mode \in Work
    BY <1>8 DEF TakeLock, RenewalInv, RequestInv, RequestState
  <2> DEFINE l == First[req[r].mode]
  <2>2. l \in PC \ {"remove", "idle", "renewed", "remote"}
        /\ (req[r].mode = "artifact_purge" => l = "status")
    BY <2>1 DEF First, Work, PC, Locked
  <2>3. CASE Goto(r, l) /\ UNCHANGED remover
    <3> HIDE DEF l
    <3> QED BY <1>5, <2>1, <2>2, <2>3
  <2> QED BY <1>4, <1>8, <2>3 DEF TakeLock, Fail
<1>9. CASE Collect(r)
  <2>1. CASE Fail(r)
    BY <1>4, <2>1 DEF Fail
  <2>2. CASE /\ Goto(r, "remove")
             /\ remover' = [remover EXCEPT ![r] = [at |-> "start", scope |-> Scoped(r)]]
    <3> DEFINE x == [req[r] EXCEPT !.pc = "remove"]
    <3>1. x.pc = "remove" /\ x.site = req[r].site /\ x.mode = req[r].mode /\ x.seen = req[r].seen
      BY <1>2 DEF RequestState
    <3>2. req' = [req EXCEPT ![r] = x] /\ req[r].pc = "collect"
      BY <1>9, <2>2 DEF Goto, Collect
    <3> HIDE DEF x
    <3>3. PurgeOK(x, disk, issued)
      BY <1>2, <3>1, <3>2 DEF PurgeOK
    <3>4. remover \in [Request -> Remover]
      BY DEF RenewalInv, FileInv
    <3> QED BY <1>1, <1>2, <2>2, <3>1, <3>2, <3>3, <3>4 DEF PurgeInv, Scoped
  <2> QED BY <1>9, <2>1, <2>2 DEF Collect
<1>10. CASE PurgeTimeout(r) \/ Return(r)
  BY <1>4, <1>10 DEF PurgeTimeout, Return, Fail
<1>11. CASE Reload(r) \/ Await(r) \/ Restart(r) \/ Health(r)
  BY <1>4, <1>5, <1>11 DEF Reload, Await, Restart, Health, Fail, PC, Locked
<1>12. CASE Verify(r)
  <2>1. Recreated(req[r].site) /\ req[r].pc = "verify" =>
          (Primary[req[r].site] \notin Wildcarded => disk[Primary[req[r].site]].gen # 0)
    <3> SUFFICES ASSUME Recreated(req[r].site), req[r].pc = "verify",
                        Primary[req[r].site] \notin Wildcarded
                 PROVE  disk[Primary[req[r].site]].gen # 0
      OBVIOUS
    <3>1. req[r].site \in Site
      BY <1>2 DEF RenewalInv, RequestInv, RequestState
    <3>2. Covering(Primary[req[r].site]) # {}
      BY <3>1 DEF Recreated
    <3>3. Present(Primary[req[r].site])
      BY <3>2 DEF Covering
    <3> QED BY <3>3 DEF Present
  <2> QED BY <1>4, <1>5, <1>12, <2>1 DEF Verify, Fail, PC, Locked
<1>13. CASE Remote(r)
  BY <1>4, <1>5, <1>13 DEF Remote, Succeed, Fail, PC, Locked
<1>14. CASE GetConfig(r)
  <2>1. CASE Fail(r)
    BY <1>4, <2>1 DEF Fail
  <2>2. CASE req' = [req EXCEPT ![r].pc = "load", ![r].config = runtime] /\ UNCHANGED remover
    <3> DEFINE x == [req[r] EXCEPT !.pc = "load", !.config = runtime]
    <3>1. x.pc = "load" /\ x.site = req[r].site /\ x.mode = req[r].mode /\ x.seen = req[r].seen
      BY <1>2 DEF RequestState
    <3>2. req' = [req EXCEPT ![r] = x] /\ req[r].pc = "get"
      BY <1>14, <2>2 DEF GetConfig
    <3> HIDE DEF x
    <3>3. PurgeOK(x, disk, issued)
      BY <1>2, <3>1, <3>2 DEF PurgeOK
    <3> QED BY <1>3, <2>2, <3>1, <3>2, <3>3
  <2> QED BY <1>14, <2>1, <2>2 DEF GetConfig
<1>15. CASE LoadConfig(r)
  BY <1>4, <1>5, <1>15 DEF LoadConfig, Succeed, Fail, PC, Locked
<1> QED
  BY <1>6, <1>7, <1>8, <1>9, <1>10, <1>11, <1>12, <1>13, <1>14, <1>15 DEF Step

\* Where the thread has taken the last file, nothing is left of the scope.
LEMMA PurgeRemoverStep ==
    ASSUME RenewalInv, PurgeInv, NEW r \in Request, RemoverStep(r)
    PROVE  PurgeInv'
<1>1. StorageMoves
  BY StorageStep DEF Next
<1>2. \A q \in Request : PurgeOK(req[q], disk', issued')
  BY <1>1, PurgeKept DEF PurgeInv
<1>3. req \in [Request -> RequestState] /\ remover \in [Request -> Remover]
  BY DEF RenewalInv, RequestInv, FileInv
<1>4. ASSUME UNCHANGED req, \A q \in Request : req[q].pc = "remove" => remover'[q].scope = remover[q].scope
      PROVE  PurgeInv'
  BY <1>2, <1>4 DEF PurgeInv, Scoped
<1>5. ASSUME NEW x, req' = [req EXCEPT ![r] = x], x.pc # "remove", PurgeOK(x, disk', issued'),
             remover' = [remover EXCEPT ![r] = NoRemover]
      PROVE  PurgeInv'
  BY <1>2, <1>3, <1>5 DEF PurgeInv, Scoped
<1>6. CASE Answer(r) /\ remover' = [remover EXCEPT ![r] = NoRemover]
  <2>1. PurgeOK(Idle, disk', issued') /\ Idle.pc # "remove"
    BY DEF PurgeOK, Idle
  <2> QED BY <1>5, <1>6, <2>1 DEF Answer
<1>7. CASE RemoveFile(r)
  <2>1. [remover[r] EXCEPT !.at = "going"].scope = remover[r].scope
    BY <1>3 DEF Remover
  <2>2. remover' = [remover EXCEPT ![r] = [remover[r] EXCEPT !.at = "going"]] /\ UNCHANGED req
    BY <1>7 DEF RemoveFile
  <2> QED BY <1>3, <1>4, <2>1, <2>2
<1>8. CASE req[r].pc # "remove" /\ UNCHANGED req /\ remover' = [remover EXCEPT ![r] = NoRemover]
  BY <1>3, <1>4, <1>8
<1>9. CASE /\ req[r].pc = "remove" /\ Goto(r, "reload") /\ RemoveLast(r)
           /\ remover' = [remover EXCEPT ![r] = NoRemover]
  <2> DEFINE x == [req[r] EXCEPT !.pc = "reload"]
             n == Primary[req[r].site]
  <2>1. x.pc = "reload" /\ x.site = req[r].site /\ x.mode = req[r].mode /\ x.seen = req[r].seen
    BY <1>3 DEF RequestState
  <2>2. req' = [req EXCEPT ![r] = x]
    BY <1>9 DEF Goto
  <2>3. n \in Name /\ n \in Scope /\ remover[r].scope = n
    BY <1>9 DEF RenewalInv, RequestInv, RequestState, PurgeInv, Scoped, Scope
  <2>4. disk'[n].gen = 0
    BY <1>9, <2>3 DEF RemoveLast, RenewalInv, FileInv, Nothing
  <2> HIDE DEF x
  <2>5. PurgeOK(x, disk', issued')
    BY <1>2, <1>9, <2>1, <2>4 DEF PurgeOK
  <2> QED BY <1>5, <1>9, <2>1, <2>2, <2>5
<1>10. CASE RemoveLast(r)
  BY <1>6, <1>8, <1>9, <1>10 DEF RemoveLast, RemoverEnds
<1>11. CASE RemoveFails(r)
  BY <1>6, <1>8, <1>11 DEF RemoveFails, RemoverEnds, After
<1> QED BY <1>7, <1>10, <1>11 DEF RemoverStep

LEMMA PurgeInvStep ==
    ASSUME RenewalInv, PurgeInv, [Next]_vars
    PROVE  PurgeInv'
<1>1. ASSUME UNCHANGED <<req, remover>> PROVE PurgeInv'
  BY <1>1, StorageStep, PurgeKept DEF PurgeInv, Scoped
<1>2. ASSUME NEW r \in Request, NEW s \in Site, NEW confirmed \in BOOLEAN, Ask(r, s, confirmed)
      PROVE  PurgeInv'
  <2>1. PICK mode \in Plans(s) :
          req' = [req EXCEPT ![r] =
             IF Refuses(mode, confirmed) THEN Idle
             ELSE [Idle EXCEPT !.pc = "sync", !.site = s, !.mode = mode,
                               !.seen = issued[Primary[s]]]]
    BY <1>2 DEF Ask
  <2> DEFINE x == IF Refuses(mode, confirmed) THEN Idle
                  ELSE [Idle EXCEPT !.pc = "sync", !.site = s, !.mode = mode,
                                    !.seen = issued[Primary[s]]]
  <2>2. issued[Primary[s]] \in Nat
    BY DEF RenewalInv, FileInv
  <2>3. PurgeOK(x, disk, issued) /\ x.pc # "remove"
    BY <2>2 DEF PurgeOK, Idle
  <2>4. req' = [req EXCEPT ![r] = x] /\ UNCHANGED <<disk, issued, remover>>
    BY <1>2, <2>1 DEF Ask, caddy
  <2> HIDE DEF x
  <2>5. req \in [Request -> RequestState]
    BY DEF RenewalInv, RequestInv
  <2> QED BY <2>3, <2>4, <2>5 DEF PurgeInv, Scoped
<1>3. CASE Crash
  <2>1. \A r \in Request : req'[r] = Idle
    BY <1>3 DEF Crash
  <2>2. PurgeOK(Idle, disk', issued') /\ Idle.pc # "remove"
    BY DEF PurgeOK, Idle
  <2> QED BY <2>1, <2>2 DEF PurgeInv
<1>4. ASSUME NEW n \in Name, Obtain(n) \/ Complete(n) PROVE UNCHANGED <<req, remover>>
  BY <1>4 DEF Obtain, Complete
<1> QED BY <1>1, <1>2, <1>3, <1>4, PurgeStep, PurgeRemoverStep DEF Next, Deploy, vars

\* A purge that is reported as a success has given its site a certificate that did
\* not exist when the renewal was asked for, whatever removal threads and other
\* renewals ran at once, unless a wildcard stands in for it.
THEOREM RenewalIsNew == Spec => []RenewedIsNew
<1>1. Init => PurgeInv
  BY DEF Init, PurgeInv, PurgeOK, Idle
<1>2. RenewalInv /\ PurgeInv /\ [Next]_vars => PurgeInv'
  BY PurgeInvStep
<1>3. PurgeInv => RenewedIsNew
  BY DEF PurgeInv, PurgeOK, RenewedIsNew, Scoped
<1> QED BY <1>1, <1>2, <1>3, RenewalInvariant, PTL DEF Spec
-----------------------------------------------------------------------------
(***************************************************************************)
(* Nobody empties the storage under a renewal that waits for its files.    *)
(***************************************************************************)
\* A step that takes the last file of a scope is one of a removal thread.
LEMMA OnlyRemoversEmpty ==
    ASSUME RenewalInv, [Next]_vars, NEW c \in Scope,
           disk'[c] = Nothing, disk[c] # Nothing
    PROVE  \E q \in Request : remover[q].scope = c
<1> USE DEF RenewalInv
<1>1. disk[c] \in Stored /\ disk \in [Scope -> Stored] /\ Name \subseteq Scope
  BY DEF FileInv, Scope
<1>2. ASSUME NEW n \in Name, Obtain(n) PROVE FALSE
  <2>1. disk' = [disk EXCEPT ![n] = [gen |-> issued[n] + 1, rest |-> FALSE]] /\ issued[n] \in Nat
    BY <1>2 DEF Obtain, FileInv
  <2>2. [gen |-> issued[n] + 1, rest |-> FALSE] # Nothing
    BY <2>1 DEF Nothing
  <2> QED BY <1>1, <2>1, <2>2
<1>3. ASSUME NEW n \in Name, Complete(n) PROVE FALSE
  <2>1. disk' = [disk EXCEPT ![n] = [disk[n] EXCEPT !.rest = TRUE]] /\ disk[n] \in Stored
    BY <1>1, <1>3 DEF Complete
  <2>2. [disk[n] EXCEPT !.rest = TRUE] # Nothing
    BY <2>1 DEF Nothing, Stored
  <2> QED BY <1>1, <2>1, <2>2
<1>4. ASSUME NEW q \in Request, RemoverStep(q) PROVE remover[q].scope = c
  <2>1. disk' = disk \/ \E left : disk' = [disk EXCEPT ![remover[q].scope] = left]
    BY <1>4 DEF RemoverStep, RemoveFile, RemoveLast, RemoveFails
  <2> QED BY <1>1, <2>1
<1>5. ASSUME NEW r \in Request, Step(r) PROVE FALSE
  BY <1>5 DEF Step, Sync, PlanAgain, TakeLock, Status, Collect, PurgeTimeout, Reload, Await,
         Restart, Health, Verify, Remote, GetConfig, LoadConfig, Return, Fail, caddy
<1> QED
  BY <1>2, <1>3, <1>4, <1>5 DEF Next, Ask, Deploy, Crash, vars, caddy

\* While a renewal waits for the files of its scope, or looks whether they are
\* there, no other renewal removes them: only a thread that a purge has given up
\* (PurgeTimeout) still can.
THEOREM FilesAwaitedStay == Spec => AwaitedNotRemoved
<1> DEFINE Kept == \A r \in Request :
        req[r].pc \in {"await", "verify"} /\ disk'[Scoped(r)] = Nothing
            => \/ disk[Scoped(r)] = Nothing
               \/ \E q \in Request : remover[q].scope = Scoped(r) /\ req[q].pc # "remove"
<1>1. Init => PurgeInv
  BY DEF Init, PurgeInv, PurgeOK, Idle
<1>2. RenewalInv /\ PurgeInv /\ [Next]_vars => PurgeInv'
  BY PurgeInvStep
<1>3. RenewalInv /\ PurgeInv /\ [Next]_vars => Kept
  <2> SUFFICES ASSUME RenewalInv, PurgeInv, [Next]_vars, NEW r \in Request,
                      req[r].pc \in {"await", "verify"},
                      disk'[Scoped(r)] = Nothing, disk[Scoped(r)] # Nothing
               PROVE  \E q \in Request : remover[q].scope = Scoped(r) /\ req[q].pc # "remove"
    OBVIOUS
  <2>1. Scoped(r) \in Name /\ Scoped(r) \in Scope
    BY DEF RenewalInv, RequestInv, RequestState, Scoped, Scope
  <2>2. PICK q \in Request : remover[q].scope = Scoped(r)
    BY <2>1, OnlyRemoversEmpty
  \* a purge that still waits for its thread would hold the same lock
  <2>3. ASSUME req[q].pc = "remove" PROVE FALSE
    <3>1. Scoped(q) = Scoped(r)
      BY <2>2, <2>3 DEF PurgeInv
    <3>2. lock[Scoped(r)] = q /\ lock[Scoped(r)] = r
      BY <2>1, <2>3, <3>1 DEF RenewalInv, RequestInv, LockHeld, Locked
    <3> QED BY <2>3, <3>2
  <2> QED BY <2>2, <2>3
<1> HIDE DEF Kept
<1>4. RenewalInv /\ PurgeInv /\ [Next]_vars => [Kept]_vars
  BY <1>3
<1>5. Spec => [][Kept]_vars
  BY <1>1, <1>2, <1>4, RenewalInvariant, PTL DEF Spec
<1> QED BY <1>5 DEF Kept, AwaitedNotRemoved
=============================================================================
