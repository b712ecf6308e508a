-------------------------- MODULE CertificateRenewal --------------------------
(***************************************************************************)
(* The certificate renewals of app/services/renewal.py, as the route       *)
(* POST /sites/{id}/renew-certificate drives them, with the supervisor     *)
(* that restarts Caddy, the purge of Caddy's storage, and Caddy itself.    *)
(*                                                                         *)
(* A renewal plans what to do from what the storage and the served         *)
(* certificate look like, deploys the configuration, plans again, and      *)
(* works under a lock of the scope, which is the site's first name.  The   *)
(* files are removed by a thread, which goes on when the request that      *)
(* waits for it gives up.                                                  *)
(*                                                                         *)
(* Certificates are numbered: 1 has expired, greater ones are valid.  What *)
(* a TLS handshake shows and whether a deployment succeeds are inputs (see *)
(* CertificateCache and CaddyDeploy).  Out of the model: events, flash     *)
(* messages, the account and ocsp files of a scope, and names that share a *)
(* certificate other than the wildcard.                                    *)
(***************************************************************************)
EXTENDS Naturals, FiniteSets

CONSTANTS
    Name,        \* the domain names the sites serve
    Wild,        \* the scope of the wildcard certificate in the storage, if any
    Wildcarded,  \* the names it covers
    Site,
    Names,       \* Names[s]: the names of site s
    Primary,     \* Primary[s]: the first of them
    Request,     \* slots of renewal requests (bound)
    Modes,       \* control modes the instance is started with
    Confirm,     \* caddy_restart_confirmation_required
    Faults,      \* what may go wrong
    MaxIssued,   \* certificates per name (bound)
    Start,       \* what the storage may hold of the names at first (bound)
    MaxElse,     \* deployments by other requests, and crashes (bound)
    None

Scope == Name \cup {Wild}
Config == 0..MaxElse
Stored == [gen : 0..MaxIssued, rest : BOOLEAN]   \* rest: the .key and .json files
Work == {"restart_repair", "acquisition_sync", "artifact_purge", "api_reload"}
Refusal == {"wildcard_scope_required", "storage_unavailable", "unavailable"}
Locked == {"status", "collect", "remove", "reload", "await", "restart", "health",
           "verify", "remote", "get", "load"}
PC == {"idle", "sync", "plan", "lock", "renewed"} \cup Locked
RequestState == [pc : PC, site : Site \cup {None}, mode : Work \cup {None},
                 trusted : Work \cup Refusal \cup {None}, seen : 0..MaxIssued,
                 config : Config]
Remover == [at : {"none", "start", "going"}, scope : Name \cup {None}]

ASSUME RenewalAssumption ==
    /\ Primary \in [Site -> Name] /\ Names \in [Site -> SUBSET Name]
    /\ \A s \in Site : Primary[s] \in Names[s]
    /\ Wild \notin Name /\ Wildcarded \subseteq Name
    /\ Modes \subseteq {"disabled", "systemd", "docker", "script"}
    /\ Confirm \in BOOLEAN
    /\ Faults \subseteq {"storage", "sync", "supervisor", "collect", "remove",
                         "purge_timeout", "reload", "reload_timeout", "restart", "api"}
    /\ {MaxIssued, MaxElse} \subseteq Nat /\ MaxIssued > 1
    /\ Start \subseteq [Name -> Stored]
    /\ None \notin Name \cup Site \cup Request \cup Work \cup Refusal

VARIABLES
    disk,     \* the storage: per scope, which certificate and whether its key is there
    issued,   \* how many certificates each name has had
    asked,    \* the names Caddy tries to obtain a certificate for
    runtime,  \* the configuration Caddy runs, numbered in the order of deployment
    control,  \* caddy_control_mode
    req,      \* the requests
    lock,     \* cert-renewal-<scope>.lock: who holds it
    remover,  \* the removal thread each request has started
    others      \* how often one of these has happened

caddy == <<disk, issued, asked, runtime>>
vars == <<disk, issued, asked, runtime, control, req, lock, remover, others>>

Nothing == [gen |-> 0, rest |-> FALSE]
Idle == [pc |-> "idle", site |-> None, mode |-> None, trusted |-> None, seen |-> 0,
         config |-> 0]
NoRemover == [at |-> "none", scope |-> None]

Present(c) == disk[c].gen > 0                 \* a .crt file: what a scan finds
Full(c) == Present(c) /\ disk[c].rest
Valid(c) == disk[c].gen > 1
Scoped(r) == Primary[req[r].site]
-----------------------------------------------------------------------------
(***************************************************************************)
(* What the storage says.                                                  *)
(***************************************************************************)
Covering(n) == {c \in {n} \cup (IF n \in Wildcarded THEN {Wild} ELSE {}) : Present(c)}

\* The match found: the valid ones first, then the complete, then the exact one.
Rank(c, n) == (IF Valid(c) THEN 0 ELSE 4) + (IF Full(c) THEN 0 ELSE 2) + (IF c = n THEN 0 ELSE 1)
Found(n) == CHOOSE c \in Covering(n) : \A e \in Covering(n) : Rank(c, n) <= Rank(e, n)

Recreated(s) == \A n \in Names[s] : Covering(n) # {} /\ Full(Found(n))

\* What can be done for a site whose storage is readable or not and whose server
\* presents a valid certificate, one of a wildcard, or neither.
Capability(n, readable, served) ==
    IF readable /\ Covering(n) # {} THEN
        CASE Found(n) = Wild -> "wildcard_scope_required"
          [] Found(n) = n /\ Full(n) -> "artifact_purge"
          [] Found(n) = n /\ ~Full(n) /\ Valid(n) -> "restart_repair"
          [] OTHER -> "acquisition_sync"
    ELSE CASE served = "wildcard" -> "wildcard_scope_required"
           [] served = "valid" -> "restart_repair"
           [] served = "bad" /\ ~readable -> "storage_unavailable"
           [] OTHER -> "acquisition_sync"

\* Without a control mode nothing is restarted and nothing is deleted.
Controlled(mode) ==
    CASE control = "disabled" /\ mode = "restart_repair" -> "unavailable"
      [] control = "disabled" /\ mode = "artifact_purge" -> "api_reload"
      [] OTHER -> mode

Plans(s) == {Controlled(Capability(Primary[s], readable, served)) :
                readable \in {ok \in BOOLEAN : ok \/ "storage" \in Faults},
                served \in {"valid", "wildcard", "bad"}}
-----------------------------------------------------------------------------
(***************************************************************************)
(* Caddy: it asks for the certificates its configuration names and it does *)
(* not have.  A reload may keep what the process has in memory, so that    *)
(* Caddy asks for nothing; a restart never does.                           *)
(***************************************************************************)
Lacking == {n \in Name : ~Full(n) \/ ~Valid(n)}
Reloaded == asked' \in {asked, asked \cup Lacking}
Restarted == asked' = asked \cup Lacking

\* The files of a new certificate appear one after the other.
Obtain(n) ==
    /\ n \in asked
    /\ issued[n] < MaxIssued
    /\ issued' = [issued EXCEPT ![n] = @ + 1]
    /\ disk' = [disk EXCEPT ![n] = [gen |-> issued[n] + 1, rest |-> FALSE]]
    /\ UNCHANGED <<asked, runtime, control, req, lock, remover, others>>

Complete(n) ==
    /\ n \in asked
    /\ Present(n) /\ disk[n].gen = issued[n]
    /\ disk' = [disk EXCEPT ![n].rest = TRUE]
    /\ asked' = asked \ {n}
    /\ UNCHANGED <<issued, runtime, control, req, lock, remover, others>>

\* Another request deploys a configuration.
Deploy ==
    /\ others < MaxElse
    /\ others' = others + 1
    /\ runtime' = runtime + 1
    /\ Reloaded
    /\ UNCHANGED <<disk, issued, control, req, lock, remover>>
-----------------------------------------------------------------------------
Goto(r, l) == req' = [req EXCEPT ![r].pc = l]

\* Mutant: an early return leaves the lock behind.
UnlocksNever(r) == UNCHANGED lock

Unlocks(r) == lock' = [c \in Name |-> IF lock[c] = r THEN None ELSE lock[c]]
Answer(r) == req' = [req EXCEPT ![r] = Idle] /\ Unlocks(r)
Succeed(r) == Goto(r, "renewed") /\ Unlocks(r)
Fail(r) == Answer(r) /\ UNCHANGED <<caddy, control, remover, others>>

\* Mutant: the route refuses nothing but an unconfirmed restart.
RefusesUnconfirmed(mode, confirmed) == mode = "restart_repair" /\ Confirm /\ ~confirmed

Refuses(mode, confirmed) ==
    mode \in Refusal \/ (mode = "restart_repair" /\ Confirm /\ ~confirmed)

\* The route: the first plan, and the refusals that need no lock.
Ask(r, s, confirmed) ==
    /\ req[r].pc = "idle" /\ remover[r] = NoRemover
    /\ \E mode \in Plans(s) :
         req' = [req EXCEPT ![r] =
             IF Refuses(mode, confirmed) THEN Idle
             ELSE [Idle EXCEPT !.pc = "sync", !.site = s, !.mode = mode,
                               !.seen = issued[Primary[s]]]]
    /\ UNCHANGED <<caddy, control, lock, remover, others>>

\* sync_caddy_configuration(force=False): nothing to do, deployed, or refused.
Sync(r) ==
    /\ req[r].pc = "sync"
    /\ \/ Goto(r, "plan") /\ Reloaded /\ UNCHANGED <<disk, issued, runtime, control, lock, remover, others>>
       \/ "sync" \in Faults /\ Fail(r)

\* execute plans again; the answer is compared when all lookups are done.
PlanAgain(r) ==
    /\ req[r].pc = "plan"
    /\ \E mode \in Plans(req[r].site) :
         req' = [req EXCEPT ![r].pc = "lock", ![r].trusted = mode]
    /\ UNCHANGED <<caddy, control, lock, remover, others>>

First == [restart_repair |-> "restart", acquisition_sync |-> "verify",
          artifact_purge |-> "status", api_reload |-> "get"]

Stale(r) == req[r].trusted # req[r].mode

\* Mutant: the lock is one of the process's own and not of all workers.
FreeForOwn(r) == TRUE

Free(r) == lock[Scoped(r)] = None

TakeLock(r) ==
    /\ req[r].pc = "lock"
    /\ \/ (Stale(r) \/ ~Free(r)) /\ Fail(r)
       \/ /\ ~Stale(r) /\ Free(r)
          /\ lock' = [lock EXCEPT ![Scoped(r)] = r]
          /\ Goto(r, First[req[r].mode])
          /\ UNCHANGED <<caddy, control, remover, others>>
-----------------------------------------------------------------------------
(***************************************************************************)
(* The supervisor, by its mode: a process that is asked for Caddy's status *)
(* or to reload or restart it.                                             *)
(***************************************************************************)
Says == {"active", "running", "ok", "inactive", "exited", "strange"}

\* systemctl is read whatever its exit status; the others have to succeed.
SystemdReady(says) == says = "active"
DockerReady(says, succeeded) == succeeded /\ says = "running"
ScriptReady(says, succeeded) == succeeded /\ says \in {"running", "active", "ok"}
Ready(says, succeeded) ==
    \/ control = "systemd" /\ SystemdReady(says)
    \/ control = "docker" /\ DockerReady(says, succeeded)
    \/ control = "script" /\ ScriptReady(says, succeeded)

\* How a command may end: a non-zero exit, a process that could not be started
\* and one killed at the timeout are all failures.
Ends(command) == {TRUE} \cup (IF command \in Faults THEN {FALSE} ELSE {})

Status(r) ==
    /\ req[r].pc = "status"
    /\ \/ \E says \in Says, succeeded \in BOOLEAN :
            /\ Ready(says, succeeded)
            /\ Goto(r, "collect")
            /\ UNCHANGED <<caddy, control, lock, remover, others>>
       \/ "supervisor" \in Faults /\ Fail(r)

\* purge_certificate_artifacts: the paths of the scope, unless a root is unsafe,
\* unreadable or too large; nothing found is no renewal.
Matches(c) == disk[c] # Nothing
MayRemove(r) == Matches(Scoped(r))

Collect(r) ==
    /\ req[r].pc = "collect"
    /\ \/ /\ MayRemove(r)
          /\ Goto(r, "remove")
          /\ remover' = [remover EXCEPT ![r] = [at |-> "start", scope |-> Scoped(r)]]
          /\ UNCHANGED <<caddy, control, lock, others>>
       \/ ~MayRemove(r) /\ Fail(r)
       \/ "collect" \in Faults /\ Fail(r)

\* Mutant: an error while deleting is logged and the renewal goes on.
AfterAnyway(removed) == "reload"

\* What follows the purge: an error, or nothing that was removed, ends the renewal.
After(removed) == IF removed THEN "reload" ELSE "idle"

\* The thread ends; the request learns of it if it still waits.
RemoverEnds(r, removed) ==
    /\ remover' = [remover EXCEPT ![r] = NoRemover]
    /\ IF req[r].pc # "remove" THEN UNCHANGED <<req, lock>>
       ELSE IF After(removed) = "reload" THEN Goto(r, "reload") /\ UNCHANGED lock
       ELSE Answer(r)
    /\ UNCHANGED <<issued, asked, runtime, control, others>>

\* rmtree takes the files in any order ...
RemoveFile(r) ==
    LET c == remover[r].scope IN
    /\ remover[r] # NoRemover /\ Full(c)
    /\ \E left \in {[disk[c] EXCEPT !.gen = 0], [disk[c] EXCEPT !.rest = FALSE]} :
         disk' = [disk EXCEPT ![c] = left]
    /\ remover' = [remover EXCEPT ![r].at = "going"]
    /\ UNCHANGED <<issued, asked, runtime, control, req, lock, others>>

\* ... then the directory;
RemoveLast(r) ==
    LET c == remover[r].scope IN
    /\ remover[r] # NoRemover /\ disk[c] # Nothing /\ ~Full(c)
    /\ disk' = [disk EXCEPT ![c] = Nothing]
    /\ RemoverEnds(r, TRUE)

\* it fails at any file, and where somebody else has been faster.
RemoveFails(r) ==
    /\ remover[r] # NoRemover
    /\ "remove" \in Faults \/ disk[remover[r].scope] = Nothing
    /\ RemoverEnds(r, FALSE)
    /\ UNCHANGED disk

\* The control timeout ends the wait for the purge, not the thread.
PurgeTimeout(r) ==
    /\ req[r].pc = "remove"
    /\ "purge_timeout" \in Faults
    /\ Fail(r)
-----------------------------------------------------------------------------
\* Reloaded; refused, which a restart makes up for; or not answered in time.
Reload(r) ==
    /\ req[r].pc = "reload"
    /\ \/ TRUE \in Ends("reload") /\ Goto(r, "await") /\ Reloaded /\ UNCHANGED lock
       \/ FALSE \in Ends("reload") /\ Goto(r, "restart") /\ UNCHANGED <<asked, lock>>
       \/ "reload_timeout" \in Faults /\ Answer(r) /\ Reloaded
    /\ UNCHANGED <<disk, issued, runtime, control, remover, others>>

\* Mutant: the monitor waits as long as it takes.
AwaitForever(r) ==
    /\ req[r].pc = "await"
    /\ Recreated(req[r].site) /\ Goto(r, "verify")
    /\ UNCHANGED <<caddy, control, lock, remover, others>>

\* The monitor polls the storage until its timeout; then Caddy is restarted.
Await(r) ==
    /\ req[r].pc = "await"
    /\ \/ Recreated(req[r].site) /\ Goto(r, "verify")
       \/ Goto(r, "restart")
    /\ UNCHANGED <<caddy, control, lock, remover, others>>

\* A restart that fails or is not answered in time may have happened.
Restart(r) ==
    /\ req[r].pc = "restart"
    /\ \/ TRUE \in Ends("restart") /\ Goto(r, "health") /\ Restarted /\ UNCHANGED lock
       \/ FALSE \in Ends("restart") /\ Answer(r) /\ Reloaded
    /\ UNCHANGED <<disk, issued, runtime, control, remover, others>>

Health(r) ==
    /\ req[r].pc = "health"
    /\ \/ Goto(r, "verify") /\ UNCHANGED <<caddy, control, lock, remover, others>>
       \/ "api" \in Faults /\ Fail(r)

Verify(r) ==
    /\ req[r].pc = "verify"
    /\ \/ /\ Recreated(req[r].site)
          /\ Goto(r, "remote") /\ UNCHANGED <<caddy, control, lock, remover, others>>
       \/ Fail(r)

\* The served certificates: valid or not to be looked at, or some are not valid.
Remote(r) ==
    /\ req[r].pc = "remote"
    /\ \/ Succeed(r) /\ UNCHANGED <<caddy, control, remover, others>>
       \/ Fail(r)

\* The answer, the event and the session's end.
Return(r) ==
    /\ req[r].pc = "renewed"
    /\ Fail(r)

\* api_reload: Caddy's own configuration is read and loaded again.
GetConfig(r) ==
    /\ req[r].pc = "get"
    /\ \/ /\ req' = [req EXCEPT ![r].pc = "load", ![r].config = runtime]
          /\ UNCHANGED <<caddy, control, lock, remover, others>>
       \/ "api" \in Faults /\ Fail(r)

LoadConfig(r) ==
    /\ req[r].pc = "load"
    /\ \/ /\ runtime' = req[r].config
          /\ Reloaded
          /\ Succeed(r)
          /\ UNCHANGED <<disk, issued, control, remover, others>>
       \/ "api" \in Faults /\ Fail(r)

\* The process dies: the locks are free, the threads are gone, the files stay.
Crash ==
    /\ others < MaxElse
    /\ others' = others + 1
    /\ req' = [r \in Request |-> Idle]
    /\ lock' = [c \in Name |-> None]
    /\ remover' = [r \in Request |-> NoRemover]
    /\ UNCHANGED <<caddy, control>>
-----------------------------------------------------------------------------
Init ==
    /\ \E files \in Start :
         disk = [c \in Scope |-> IF c = Wild THEN [gen |-> 2, rest |-> TRUE] ELSE files[c]]
    /\ issued = [n \in Name |-> 2]
    /\ asked = {}
    /\ runtime = 0
    /\ control \in Modes
    /\ req = [r \in Request |-> Idle]
    /\ lock = [c \in Name |-> None]
    /\ remover = [r \in Request |-> NoRemover]
    /\ others = 0

Step(r) ==
    \/ Sync(r) \/ PlanAgain(r) \/ TakeLock(r)
    \/ Status(r) \/ Collect(r) \/ PurgeTimeout(r) \/ Reload(r)
    \/ Await(r) \/ Restart(r) \/ Health(r) \/ Verify(r) \/ Remote(r)
    \/ GetConfig(r) \/ LoadConfig(r) \/ Return(r)

RemoverStep(r) == RemoveFile(r) \/ RemoveLast(r) \/ RemoveFails(r)

Next ==
    \/ \E r \in Request : Step(r) \/ RemoverStep(r)
    \/ \E r \in Request, s \in Site, confirmed \in BOOLEAN : Ask(r, s, confirmed)
    \/ \E n \in Name : Obtain(n) \/ Complete(n)
    \/ Deploy
    \/ Crash

Spec == Init /\ [][Next]_vars

\* Every wait of a request is bounded by a timeout, and a thread by its files.
\* Nothing is assumed of Caddy.
Fairness == \A r \in Request : WF_vars(Step(r)) /\ WF_vars(RemoverStep(r))
FairSpec == Spec /\ Fairness
-----------------------------------------------------------------------------
(***************************************************************************)
(* Properties.                                                             *)
(***************************************************************************)
\* The shape of the state.
TypeOK ==
    /\ disk \in [Scope -> Stored]
    /\ issued \in [Name -> 0..MaxIssued]
    /\ asked \subseteq Name
    /\ runtime \in Config
    /\ control \in Modes
    /\ req \in [Request -> RequestState]
    /\ lock \in [Name -> Request \cup {None}]
    /\ remover \in [Request -> Remover]
    /\ others \in 0..MaxElse

\* A scope's lock is held exactly by the request that works on it: two renewals
\* of a scope never run at once, and no answer or crash leaves a lock behind.
LockHeld ==
    \A c \in Name, r \in Request :
        lock[c] = r <=> req[r].pc \in Locked /\ Scoped(r) = c

\* A forced renewal that is reported as a success has got its site a certificate
\* that did not exist when it was asked for, unless a wildcard stands in.
RenewedIsNew ==
    \A r \in Request :
        req[r].pc = "renewed" /\ req[r].mode = "artifact_purge" /\ Scoped(r) \notin Wildcarded
            => issued[Scoped(r)] > req[r].seen

\* While a renewal waits for the files of its scope nobody removes them, except
\* the thread of a purge that its own request has given up.
AwaitedNotRemoved ==
    [][\A r \in Request :
        req[r].pc \in {"await", "verify"} /\ disk'[Scoped(r)] = Nothing
            => \/ disk[Scoped(r)] = Nothing
               \/ \E q \in Request : remover[q].scope = Scoped(r) /\ req[q].pc # "remove"]_vars

\* Every renewal that is asked for is answered.
EveryRenewalEnds == \A r \in Request : req[r].pc # "idle" ~> req[r].pc = "idle"

\* What the documentation promises: no request undoes another's deployment.
DeployedStays == [][runtime' >= runtime]_vars

\* What the documentation promises: a reload that does not succeed after the
\* purge is followed by a restart.
ReloadOrRestart ==
    [][\A r \in Request : req[r].pc = "reload" /\ others' = others => req'[r].pc # "idle"]_vars
=============================================================================
