--------------------------- MODULE CertificateCache ---------------------------
(***************************************************************************)
(* The cache of served certificates in app/services/dashboard.py: callers  *)
(* that look names up, one fetch per name that all of them wait for, a     *)
(* semaphore over the fetches, generations that keep an answer from being  *)
(* stored when the name has been invalidated meanwhile, a time to live and *)
(* a limit on the entries.  Everything is in the memory of one process;    *)
(* the steps are what runs between two awaits, or under _cert_cache_lock.  *)
(*                                                                         *)
(* A certificate is its number: a fetch sees the one that is served at the *)
(* moment of the handshake.  Why a name could not be checked is left out,  *)
(* and so are waiters that are cancelled, which happens when the process   *)
(* stops.                                                                  *)
(***************************************************************************)
EXTENDS Naturals, Sequences, FiniteSets, Functions

CONSTANTS
    Domain,
    Caller,
    Fetch,       \* slots of fetch tasks (bound)
    Permits,     \* _CERT_FETCH_CONCURRENCY
    MaxEntries,  \* _MAX_CERT_CACHE_ENTRIES
    MaxIssued,   \* certificates that replace the first ones (bound)
    MaxGen,      \* invalidations (bound)
    None

Version == Nat
FetchState == [pc : {"queued", "reading", "done"}, domain : Domain, ver : Version]
CallerState == [pc : {"idle", "note", "join", "wait"}, want : SUBSET Domain,
                gens : [Domain -> Nat],
                join : [Domain -> Fetch \cup {None}],
                got : [Domain -> Version \cup {None}]]

ASSUME CacheAssumption ==
    /\ {Permits, MaxEntries} \subseteq Nat \ {0}
    /\ {MaxIssued, MaxGen} \subseteq Nat
    /\ IsFiniteSet(Domain) /\ IsFiniteSet(Fetch)
    /\ None \notin FetchState \cup Fetch \cup Nat

VARIABLES
    served,    \* the certificate each name is served with
    cache,     \* _cert_cache
    gen,       \* _cert_cache_generations
    registry,  \* _cert_fetch_tasks
    fetch,     \* the tasks
    waiting,   \* the tasks that wait for the semaphore, in order
    permits,   \* what is left of it
    caller,
    floor      \* the certificate served at the last invalidation of the name
               \* that found no fetch under way

vars == <<served, cache, gen, registry, fetch, waiting, permits, caller, floor>>

Total(f) == FoldFunction(+, 0, f)
NoGens == [d \in Domain |-> 0]
NoFetch == [d \in Domain |-> None]
Idle == [pc |-> "idle", want |-> {}, gens |-> NoGens, join |-> NoFetch, got |-> NoFetch]

Free(f) == fetch[f] = None
InFlight(d) == registry[d] # None
Entries == {d \in Domain : cache[d] # None}
-----------------------------------------------------------------------------
(***************************************************************************)
(* Caddy, the renewals and the clock.                                      *)
(***************************************************************************)
Issue(d) ==
    /\ Total(served) < MaxIssued
    /\ served' = [served EXCEPT ![d] = @ + 1]
    /\ UNCHANGED <<cache, gen, registry, fetch, waiting, permits, caller, floor>>

\* invalidate_certificate_cache: a fetch under way goes on, and is still joined.
Invalidate(d) ==
    /\ Total(gen) < MaxGen
    /\ gen' = [gen EXCEPT ![d] = @ + 1]
    /\ cache' = [cache EXCEPT ![d] = None]
    /\ floor' = [floor EXCEPT ![d] = IF InFlight(d) THEN @ ELSE served[d]]
    /\ UNCHANGED <<served, registry, fetch, waiting, permits, caller>>

-----------------------------------------------------------------------------
(***************************************************************************)
(* A lookup of the names the local storage does not answer for.            *)
(***************************************************************************)
\* The entries are fresh, except for those that have outlived their time.
Missing(D, expired) == {d \in D : cache[d] = None \/ d \in expired}

Look(c, D, expired) ==
    /\ caller[c].pc = "idle"
    /\ Missing(D, expired) # {}
    /\ caller' = [caller EXCEPT ![c].pc = "note", ![c].want = Missing(D, expired)]
    /\ UNCHANGED <<served, cache, gen, registry, fetch, waiting, permits, floor>>

\* The generations are read under the lock again, after the look.
Note(c) ==
    /\ caller[c].pc = "note"
    /\ caller' = [caller EXCEPT ![c].pc = "join",
                  ![c].gens = [d \in Domain |-> IF d \in caller[c].want THEN gen[d] ELSE 0]]
    /\ UNCHANGED <<served, cache, gen, registry, fetch, waiting, permits, floor>>

Joined(c, d) == caller[c].join[d] # None \/ caller[c].got[d] # None

\* _get_or_start_certificate_fetch: the fetch under way, or a new one.
Join(c, d) ==
    /\ caller[c].pc = "join"
    /\ d \in caller[c].want /\ ~Joined(c, d)
    /\ IF InFlight(d)
       THEN /\ caller' = [caller EXCEPT ![c].join[d] = registry[d]]
            /\ UNCHANGED <<registry, fetch, waiting>>
       ELSE LET f == CHOOSE f \in Fetch : Free(f) IN
            /\ \E g \in Fetch : Free(g)
            /\ caller' = [caller EXCEPT ![c].join[d] = f]
            /\ registry' = [registry EXCEPT ![d] = f]
            /\ fetch' = [fetch EXCEPT ![f] = [pc |-> "queued", domain |-> d, ver |-> 0]]
            /\ waiting' = Append(waiting, f)
    /\ UNCHANGED <<served, cache, gen, permits, floor>>

\* Mutant: whoever leaves takes the name's fetch off the registry.
PopsAny(f, d) == TRUE

Pops(f, d) == registry[d] = f

\* The task that nobody waits for or finds any more is gone.
Forget(c, d, f) ==
    IF (registry'[d] # f) /\ \A e \in Caller, x \in Domain :
            caller[e].join[x] = f => e = c /\ x = d
    THEN fetch' = [fetch EXCEPT ![f] = None]
    ELSE UNCHANGED fetch

Leave(c, d) ==
    LET f == caller[c].join[d] IN
    /\ caller[c].pc = "join"
    /\ f # None
    /\ fetch[f].pc = "done"
    /\ caller' = [caller EXCEPT ![c].join[d] = None, ![c].got[d] = fetch[f].ver]
    /\ registry' = [registry EXCEPT ![d] = IF Pops(f, d) THEN None ELSE @]
    /\ Forget(c, d, f)
    /\ UNCHANGED <<served, cache, gen, waiting, permits, floor>>

\* Mutant: what has been fetched is stored.
StillCurrentAlways(c, d) == TRUE

StillCurrent(c, d) == gen[d] = caller[c].gens[d]

\* The entries that stay when there are too many: what was stored last goes last.
Prunes(all, new) ==
    {kept \in SUBSET all :
        /\ Cardinality(kept) = IF Cardinality(all) > MaxEntries THEN MaxEntries ELSE Cardinality(all)
        /\ kept \subseteq new \/ new \subseteq kept}

Store(c) ==
    /\ caller[c].pc = "join"
    /\ \A d \in caller[c].want : caller[c].got[d] # None
    /\ LET new == {d \in caller[c].want : StillCurrent(c, d)} IN
       \E kept \in Prunes(Entries \cup new, new) :
          cache' = [d \in Domain |->
              IF d \notin kept THEN None
              ELSE IF d \in new THEN caller[c].got[d]
              ELSE cache[d]]
    /\ caller' = [caller EXCEPT ![c] = Idle]
    /\ UNCHANGED <<served, gen, registry, fetch, waiting, permits, floor>>
-----------------------------------------------------------------------------
(***************************************************************************)
(* A fetch: the semaphore, the handshake in a thread, the answer.          *)
(***************************************************************************)
\* Mutant: the semaphore is not asked.
MayStartAlways == TRUE

MayStart == permits > 0

Start(f) ==
    /\ waiting # <<>> /\ f = Head(waiting)
    /\ MayStart
    /\ permits' = permits - 1
    /\ waiting' = Tail(waiting)
    /\ fetch' = [fetch EXCEPT ![f].pc = "reading"]
    /\ UNCHANGED <<served, cache, gen, registry, caller, floor>>

\* Mutant: a fetch that fails keeps its permit.
ReleasesOnSuccess == permits' \in {permits, permits + 1}

Releases == permits' = permits + 1

\* The handshake and the answer: what is seen does not change any more.
Finish(f) ==
    /\ ~Free(f) /\ fetch[f].pc = "reading"
    /\ fetch' = [fetch EXCEPT ![f].pc = "done", ![f].ver = served[fetch[f].domain]]
    /\ Releases
    /\ UNCHANGED <<served, cache, gen, registry, waiting, caller, floor>>
-----------------------------------------------------------------------------
Init ==
    /\ served = [d \in Domain |-> 0]
    /\ cache = [d \in Domain |-> None]
    /\ gen = NoGens
    /\ registry = NoFetch
    /\ fetch = [f \in Fetch |-> None]
    /\ waiting = <<>>
    /\ permits = Permits
    /\ caller = [c \in Caller |-> Idle]
    /\ floor = NoGens

CallerStep(c) == Note(c) \/ Store(c) \/ \E d \in Domain : Join(c, d) \/ Leave(c, d)
FetchStep(f) == Start(f) \/ Finish(f)

Next ==
    \/ \E c \in Caller, D \in SUBSET Domain : \E expired \in SUBSET D : Look(c, D, expired)
    \/ \E c \in Caller : CallerStep(c)
    \/ \E f \in Fetch : FetchStep(f)
    \/ \E d \in Domain : Issue(d) \/ Invalidate(d)

Spec == Init /\ [][Next]_vars

\* The event loop runs what is ready; every handshake has a timeout.
Fairness ==
    /\ \A c \in Caller : WF_vars(CallerStep(c))
    /\ \A f \in Fetch : WF_vars(FetchStep(f))
FairSpec == Spec /\ Fairness
-----------------------------------------------------------------------------
(***************************************************************************)
(* Properties.                                                             *)
(***************************************************************************)
\* The shape of the state; the cache never holds more than its limit.
TypeOK ==
    /\ Cardinality(Entries) <= MaxEntries
    /\ served \in [Domain -> Version]
    /\ cache \in [Domain -> Version \cup {None}]
    /\ gen \in [Domain -> Nat]
    /\ registry \in [Domain -> Fetch \cup {None}]
    /\ fetch \in [Fetch -> FetchState \cup {None}]
    /\ waiting \in Seq(Fetch)
    /\ permits \in 0..Permits
    /\ caller \in [Caller -> CallerState]
    /\ floor \in [Domain -> Version]

\* However many callers ask, a name is fetched once at a time: the registry is
\* only cleared by the callers of the fetch it holds.
OneFetch ==
    \A f, g \in Fetch :
        f # g /\ ~Free(f) /\ ~Free(g) /\ fetch[f].pc # "done" /\ fetch[g].pc # "done"
            => fetch[f].domain # fetch[g].domain

\* An entry is never older than the last invalidation of its name, as long as
\* that one found no fetch under way: callers that looked before it do not store.
NoStaleStore == \A d \in Entries : cache[d] >= floor[d]

\* Every caller is answered, whatever the other callers and fetches do.
EveryCallerAnswered == \A c \in Caller : caller[c].pc # "idle" ~> caller[c].pc = "idle"
=============================================================================
