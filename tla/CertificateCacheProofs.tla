----------------------- MODULE CertificateCacheProofs -----------------------
(***************************************************************************)
(* Theorems about CertificateCache for any names, callers, fetches and     *)
(* limits, and any number of certificates and invalidations.               *)
(***************************************************************************)
EXTENDS CertificateCache, TLAPS, FiniteSetTheorems, SequenceTheorems

USE CacheAssumption DEF Version

\* The parts of the state, without what is counted.
Shapes ==
    /\ served \in [Domain -> Nat] /\ floor \in [Domain -> Nat] /\ gen \in [Domain -> Nat]
    /\ cache \in [Domain -> Nat \cup {None}]
    /\ registry \in [Domain -> Fetch \cup {None}]
    /\ fetch \in [Fetch -> FetchState \cup {None}]
    /\ caller \in [Caller -> CallerState]

\* Who waits for the semaphore is queued, once.
QueueInv ==
    /\ waiting \in Seq(Fetch)
    /\ \A i \in 1..Len(waiting) : fetch[waiting[i]] # None /\ fetch[waiting[i]].pc = "queued"
    /\ \A i, j \in 1..Len(waiting) : waiting[i] = waiting[j] => i = j

\* The register knows every fetch that goes on, and none under another name.
RegisterInv ==
    /\ \A d \in Domain : registry[d] # None =>
           fetch[registry[d]] # None /\ fetch[registry[d]].domain = d
    /\ \A f \in Fetch : fetch[f] # None /\ fetch[f].pc # "done" => registry[fetch[f].domain] = f

\* A fetch that somebody waits for is there.
JoinInv ==
    /\ \A c \in Caller, d \in Domain : caller[c].join[d] # None =>
           fetch[caller[c].join[d]] # None /\ fetch[caller[c].join[d]].domain = d
    /\ \A c \in Caller, d \in Domain : caller[c].pc # "join" =>
           caller[c].join[d] = None /\ caller[c].got[d] = None

FetchInv == Shapes /\ QueueInv /\ RegisterInv /\ JoinInv
-----------------------------------------------------------------------------
LEMMA IdleType == Idle \in CallerState /\ \A d \in Domain : Idle.join[d] = None /\ Idle.got[d] = None
BY DEF Idle, CallerState, NoGens, NoFetch

\* A caller goes on in a step that moves no fetch.
LEMMA CallerMoves ==
    ASSUME FetchInv, NEW c \in Caller, NEW y \in CallerState,
           caller' = [caller EXCEPT ![c] = y],
           \A d \in Domain : y.join[d] # None =>
               fetch[y.join[d]] # None /\ fetch[y.join[d]].domain = d,
           y.pc # "join" => \A d \in Domain : y.join[d] = None /\ y.got[d] = None,
           UNCHANGED <<served, gen, registry, fetch, waiting, floor>>,
           cache' \in [Domain -> Nat \cup {None}]
    PROVE  FetchInv'
<1> USE DEF FetchInv
<1> HIDE DEF CallerState
<1>1. Shapes'
  BY DEF Shapes
<1>2. QueueInv' /\ RegisterInv'
  BY DEF QueueInv, RegisterInv
<1>3. \A e \in Caller : caller'[e] = IF e = c THEN y ELSE caller[e]
  BY DEF Shapes
<1>4. JoinInv'
  BY <1>3 DEF JoinInv
<1> QED BY <1>1, <1>2, <1>4

LEMMA LookStep ==
    ASSUME FetchInv, NEW c \in Caller, NEW D \in SUBSET Domain, NEW expired \in SUBSET D,
           Look(c, D, expired)
    PROVE  FetchInv'
<1> DEFINE y == [[caller[c] EXCEPT !.pc = "note"] EXCEPT !.want = Missing(D, expired)]
<1>1. caller[c] \in CallerState /\ caller[c].pc = "idle"
  BY DEF Look, FetchInv, Shapes
<1>2. y \in CallerState /\ y.join = caller[c].join /\ y.got = caller[c].got
  BY <1>1 DEF CallerState, Missing
<1>3. caller' = [caller EXCEPT ![c] = y]
  BY <1>1 DEF Look, FetchInv, Shapes
<1>4. \A d \in Domain : y.join[d] = None /\ y.got[d] = None
  BY <1>1, <1>2 DEF FetchInv, JoinInv
<1>5. cache' \in [Domain -> Nat \cup {None}]
  BY DEF Look, FetchInv, Shapes
<1> HIDE DEF y
<1> QED BY <1>2, <1>3, <1>4, <1>5, CallerMoves DEF Look

LEMMA NoteStep ==
    ASSUME FetchInv, NEW c \in Caller, Note(c)
    PROVE  FetchInv'
<1> DEFINE g == [d \in Domain |-> IF d \in caller[c].want THEN gen[d] ELSE 0]
           y == [[caller[c] EXCEPT !.pc = "join"] EXCEPT !.gens = g]
<1>1. caller[c] \in CallerState /\ g \in [Domain -> Nat]
  BY DEF FetchInv, Shapes
<1>2. y \in CallerState /\ y.join = caller[c].join /\ y.got = caller[c].got /\ y.pc = "join"
  BY <1>1 DEF CallerState
<1>3. caller' = [caller EXCEPT ![c] = y]
  BY <1>1 DEF Note, FetchInv, Shapes
<1>4. cache' \in [Domain -> Nat \cup {None}]
  BY DEF Note, FetchInv, Shapes
<1>5. \A d \in Domain : y.join[d] # None =>
          fetch[y.join[d]] # None /\ fetch[y.join[d]].domain = d
  BY <1>2 DEF FetchInv, JoinInv
<1> HIDE DEF y, g
<1> QED BY <1>2, <1>3, <1>4, <1>5, CallerMoves DEF Note

LEMMA StoreStep ==
    ASSUME FetchInv, NEW c \in Caller, Store(c)
    PROVE  FetchInv'
<1>1. caller' = [caller EXCEPT ![c] = Idle]
  BY DEF Store
<1>2. cache' \in [Domain -> Nat \cup {None}]
  <2> DEFINE new == {d \in caller[c].want : StillCurrent(c, d)}
  <2>1. PICK kept : cache' = [d \in Domain |->
                       IF d \notin kept THEN None
                       ELSE IF d \in new THEN caller[c].got[d]
                       ELSE cache[d]]
    BY DEF Store
  <2>2. caller[c] \in CallerState /\ cache \in [Domain -> Nat \cup {None}]
    BY DEF FetchInv, Shapes
  <2>3. caller[c].got \in [Domain -> Nat \cup {None}]
    BY <2>2 DEF CallerState
  <2> HIDE DEF new
  <2> QED BY <2>1, <2>2, <2>3
<1>3. Idle \in CallerState /\ \A d \in Domain : Idle.join[d] = None /\ Idle.got[d] = None
  BY IdleType
<1>4. UNCHANGED <<served, gen, registry, fetch, waiting, floor>>
  BY DEF Store
<1> HIDE DEF CallerState, FetchState
<1> QED BY <1>1, <1>2, <1>3, <1>4, CallerMoves

\* A lookup joins the fetch under way ...
LEMMA JoinOldStep ==
    ASSUME FetchInv, NEW c \in Caller, NEW d \in Domain, Join(c, d), InFlight(d)
    PROVE  FetchInv'
<1> DEFINE j == [caller[c].join EXCEPT ![d] = registry[d]]
           y == [caller[c] EXCEPT !.join = j]
<1>1. caller[c] \in CallerState /\ caller[c].pc = "join" /\ registry[d] \in Fetch
  BY DEF Join, FetchInv, Shapes, InFlight
<1>2. caller[c].join \in [Domain -> Fetch \cup {None}]
  BY <1>1 DEF CallerState
<1>3. y \in CallerState /\ y.join = j /\ y.pc = "join"
  BY <1>1, <1>2 DEF CallerState
<1>4. caller' = [caller EXCEPT ![c] = y]
  BY DEF Join, FetchInv, Shapes
<1>5. cache' \in [Domain -> Nat \cup {None}]
  BY DEF Join, FetchInv, Shapes
<1>6. \A e \in Domain : y.join[e] # None =>
          fetch[y.join[e]] # None /\ fetch[y.join[e]].domain = e
  <2>1. registry[d] # None
    BY DEF InFlight
  <2>2. fetch[registry[d]] # None /\ fetch[registry[d]].domain = d
    BY <2>1 DEF FetchInv, RegisterInv
  <2> QED BY <1>2, <1>3, <2>2 DEF FetchInv, JoinInv
<1> HIDE DEF y, j
<1> QED BY <1>3, <1>4, <1>5, <1>6, CallerMoves DEF Join

\* ... or begins one.
LEMMA JoinNewStep ==
    ASSUME FetchInv, NEW c \in Caller, NEW d \in Domain, Join(c, d), ~InFlight(d)
    PROVE  FetchInv'
<1> USE DEF FetchInv
<1> DEFINE f == CHOOSE g \in Fetch : Free(g)
           x == [pc |-> "queued", domain |-> d, ver |-> 0]
           j == [caller[c].join EXCEPT ![d] = f]
           y == [caller[c] EXCEPT !.join = j]
<1>1. f \in Fetch /\ fetch[f] = None
  BY DEF Join, Free
<1>2. x \in FetchState /\ x # None
  BY DEF FetchState
<1>3. caller[c] \in CallerState /\ caller[c].pc = "join"
  BY DEF Join, Shapes
<1>4. caller[c].join \in [Domain -> Fetch \cup {None}]
  BY <1>3 DEF CallerState
<1>5. y \in CallerState /\ y.join = j /\ y.pc = "join" /\ y.got = caller[c].got
  BY <1>1, <1>3, <1>4 DEF CallerState
<1>6. /\ caller' = [caller EXCEPT ![c] = y]
      /\ registry' = [registry EXCEPT ![d] = f]
      /\ fetch' = [fetch EXCEPT ![f] = x]
      /\ waiting' = Append(waiting, f)
      /\ UNCHANGED <<served, cache, gen, permits, floor>>
  BY DEF Join, Shapes
<1>7. registry[d] = None
  BY DEF InFlight
<1>8. x.pc = "queued" /\ x.domain = d
  OBVIOUS
<1> HIDE DEF x, j, y, f, FetchState, CallerState
<1>9. Shapes'
  BY <1>1, <1>2, <1>5, <1>6 DEF Shapes
<1>10. \A g \in Fetch : fetch'[g] = IF g = f THEN x ELSE fetch[g]
  BY <1>6 DEF Shapes
<1>11. QueueInv'
  <2>1. waiting \in Seq(Fetch)
    BY DEF QueueInv
  <2>2. /\ waiting' \in Seq(Fetch) /\ Len(waiting') = Len(waiting) + 1 /\ Len(waiting) \in Nat
        /\ waiting'[Len(waiting) + 1] = f
        /\ \A i \in 1..Len(waiting) : waiting'[i] = waiting[i] /\ waiting[i] \in Fetch
    BY <1>1, <1>6, <2>1, AppendProperties, ElementOfSeq
  <2>3. \A i \in 1..Len(waiting) : waiting[i] # f
    BY <1>1 DEF QueueInv
  <2>4. \A i \in 1..Len(waiting') : i \in 1..Len(waiting) \/ i = Len(waiting) + 1
    BY <2>2
  <2>5. \A i \in 1..Len(waiting') : fetch'[waiting'[i]] # None /\ fetch'[waiting'[i]].pc = "queued"
    BY <1>1, <1>2, <1>8, <1>10, <2>2, <2>3, <2>4 DEF QueueInv
  <2>6. \A i, k \in 1..Len(waiting') : waiting'[i] = waiting'[k] => i = k
    BY <2>2, <2>3, <2>4 DEF QueueInv
  <2> QED BY <2>2, <2>5, <2>6 DEF QueueInv
<1>12. RegisterInv'
  <2>1. \A e \in Domain : registry'[e] = IF e = d THEN f ELSE registry[e]
    BY <1>6 DEF Shapes
  <2>2. \A g \in Fetch : fetch[g] # None /\ fetch[g].pc # "done" => fetch[g].domain # d
    BY <1>7 DEF RegisterInv
  <2>3. \A e \in Domain : registry[e] # f
    BY <1>1 DEF RegisterInv, Shapes
  <2>4. \A g \in Fetch : fetch[g] # None => fetch[g].domain \in Domain
    BY DEF Shapes, FetchState
  <2>5. \A e \in Domain : registry[e] \in Fetch \cup {None}
    BY DEF Shapes
  <2> QED BY <1>1, <1>2, <1>8, <1>10, <2>1, <2>2, <2>3, <2>4, <2>5 DEF RegisterInv
<1>13. JoinInv'
  <2>1. \A e \in Caller : caller'[e] = IF e = c THEN y ELSE caller[e]
    BY <1>6 DEF Shapes
  <2>2. \A e \in Domain : y.join[e] = IF e = d THEN f ELSE caller[c].join[e]
    BY <1>4, <1>5 DEF j
  <2>3. \A e \in Caller, a \in Domain : caller[e].join[a] \in Fetch \cup {None}
    BY DEF Shapes, CallerState
  <2> QED BY <1>1, <1>2, <1>5, <1>8, <1>10, <2>1, <2>2, <2>3 DEF JoinInv
<1> QED BY <1>9, <1>11, <1>12, <1>13

\* Somebody leaves a fetch that has ended.
LEMMA LeaveStep ==
    ASSUME FetchInv, NEW c \in Caller, NEW d \in Domain, Leave(c, d)
    PROVE  FetchInv'
<1> USE DEF FetchInv
<1> DEFINE f == caller[c].join[d]
           j == [caller[c].join EXCEPT ![d] = None]
           h == [caller[c].got EXCEPT ![d] = fetch[f].ver]
           y == [[caller[c] EXCEPT !.join = j] EXCEPT !.got = h]
<1>1. caller[c] \in CallerState /\ caller[c].pc = "join" /\ f # None /\ fetch[f].pc = "done"
  BY DEF Leave, Shapes
<1>2. caller[c].join \in [Domain -> Fetch \cup {None}] /\ caller[c].got \in [Domain -> Nat \cup {None}]
  BY <1>1 DEF CallerState
<1>3. f \in Fetch /\ fetch[f] \in FetchState /\ fetch[f].domain = d
  BY <1>1, <1>2 DEF JoinInv, Shapes
<1>4. y \in CallerState /\ y.join = j /\ y.got = h /\ y.pc = "join"
  <2>1. fetch[f].ver \in Nat
    BY <1>3 DEF FetchState
  <2>2. j \in [Domain -> Fetch \cup {None}] /\ h \in [Domain -> Nat \cup {None}]
    BY <1>2, <2>1
  <2> HIDE DEF j, h
  <2> QED BY <1>1, <2>2 DEF CallerState
<1>5. /\ caller' = [caller EXCEPT ![c] = y]
      /\ registry' = [registry EXCEPT ![d] = IF registry[d] = f THEN None ELSE @]
      /\ Forget(c, d, f)
      /\ UNCHANGED <<served, cache, gen, waiting, permits, floor>>
  <2>1. caller' = [caller EXCEPT ![c].join[d] = None, ![c].got[d] = fetch[f].ver]
    BY DEF Leave
  <2>2. caller' = [caller EXCEPT ![c] = y]
    BY <1>1, <2>1 DEF Shapes, CallerState
  <2>3. registry' = [registry EXCEPT ![d] = IF Pops(f, d) THEN None ELSE @] /\ Forget(c, d, f)
    BY DEF Leave
  <2>4. UNCHANGED <<served, cache, gen, waiting, permits, floor>>
    BY DEF Leave
  <2> HIDE DEF y
  <2> QED BY <2>2, <2>3, <2>4 DEF Pops
<1>6. \A e \in Domain : registry'[e] = IF e = d /\ registry[d] = f THEN None ELSE registry[e]
  BY <1>5 DEF Shapes
<1>7. \A g \in Fetch : fetch'[g] = fetch[g] \/ (g = f /\ fetch'[g] = None)
  <2>1. fetch' = fetch \/ fetch' = [fetch EXCEPT ![f] = None]
    BY <1>5 DEF Forget
  <2> QED BY <2>1 DEF Shapes
<1>8. fetch' \in [Fetch -> FetchState \cup {None}]
  BY <1>3, <1>5 DEF Forget, Shapes
<1>9. fetch'[f] = None =>
          /\ registry'[d] # f
          /\ \A e \in Caller, x \in Domain : caller[e].join[x] = f => e = c /\ x = d
  BY <1>3, <1>5 DEF Forget, Shapes
<1> HIDE DEF j, h, y, FetchState, CallerState
<1>10. Shapes'
  <2>1. registry' \in [Domain -> Fetch \cup {None}]
    BY <1>5 DEF Shapes
  <2> QED BY <1>4, <1>5, <1>8, <2>1 DEF Shapes
<1>11. QueueInv'
  <2>1. \A i \in 1..Len(waiting) : waiting[i] \in Fetch /\ waiting[i] # f
    BY <1>1, ElementOfSeq DEF QueueInv
  <2>2. waiting' = waiting
    BY <1>5
  <2> QED BY <1>7, <2>1, <2>2 DEF QueueInv
<1>12. RegisterInv'
  <2>1. \A e \in Domain : registry[e] \in Fetch \cup {None}
    BY DEF Shapes
  <2>2. ASSUME NEW e \in Domain, registry'[e] # None
        PROVE  fetch'[registry'[e]] # None /\ fetch'[registry'[e]].domain = e
    <3>1. registry'[e] = registry[e] /\ registry[e] \in Fetch /\ registry[e] # None
      BY <1>6, <2>1, <2>2
    <3>2. fetch[registry[e]] # None /\ fetch[registry[e]].domain = e
      BY <3>1 DEF RegisterInv
    <3>3. CASE registry[e] # f
      BY <1>7, <3>1, <3>2, <3>3
    <3>4. CASE registry[e] = f
      <4>1. e = d
        BY <1>3, <3>2, <3>4
      <4> QED BY <1>6, <3>1, <3>4, <4>1
    <3> QED BY <3>3, <3>4
  <2>3. ASSUME NEW g \in Fetch, fetch'[g] # None, fetch'[g].pc # "done"
        PROVE  registry'[fetch'[g].domain] = g
    <3>1. fetch'[g] = fetch[g] /\ g # f
      BY <1>1, <1>7, <2>3
    <3>2. registry[fetch[g].domain] = g /\ fetch[g].domain \in Domain
      BY <2>3, <3>1 DEF RegisterInv, Shapes, FetchState
    <3> QED BY <1>6, <3>1, <3>2
  <2> QED BY <2>2, <2>3 DEF RegisterInv
<1>13. JoinInv'
  <2>1. \A e \in Caller : caller'[e] = IF e = c THEN y ELSE caller[e]
    BY <1>5 DEF Shapes
  <2>2. \A e \in Domain : y.join[e] = IF e = d THEN None ELSE caller[c].join[e]
    BY <1>2, <1>4 DEF j
  <2>3. \A e \in Caller, a \in Domain : caller[e].join[a] \in Fetch \cup {None}
    BY DEF Shapes, CallerState
  <2>4. ASSUME NEW e \in Caller, NEW a \in Domain, caller'[e].join[a] # None
        PROVE  fetch'[caller'[e].join[a]] # None /\ fetch'[caller'[e].join[a]].domain = a
    <3>1. caller'[e].join[a] = caller[e].join[a] /\ ~(e = c /\ a = d)
      BY <2>1, <2>2, <2>4
    <3>2. /\ caller[e].join[a] \in Fetch
          /\ fetch[caller[e].join[a]] # None /\ fetch[caller[e].join[a]].domain = a
      BY <2>3, <2>4, <3>1 DEF JoinInv
    <3> QED BY <1>7, <1>9, <3>1, <3>2
  <2> QED BY <1>4, <2>1, <2>4 DEF JoinInv
<1> QED BY <1>10, <1>11, <1>12, <1>13

\* Whoever starts is the first that waits, and queued.
LEMMA HeadQueued ==
    ASSUME FetchInv, NEW f \in Fetch, Start(f)
    PROVE  /\ waiting \in Seq(Fetch) /\ waiting # <<>> /\ f = waiting[1]
           /\ Len(waiting) \in Nat \ {0}
           /\ fetch[f] # None /\ fetch[f].pc = "queued" /\ fetch[f] \in FetchState
<1>1. waiting \in Seq(Fetch) /\ waiting # <<>> /\ f = Head(waiting)
  BY DEF Start, FetchInv, QueueInv
<1>2. f = waiting[1] /\ Len(waiting) \in Nat \ {0}
  BY <1>1, HeadTailProperties, EmptySeq
<1>3. 1 \in 1..Len(waiting)
  BY <1>2
<1>4. fetch[f] # None /\ fetch[f].pc = "queued"
  <2>1. \A i \in 1..Len(waiting) : fetch[waiting[i]] # None /\ fetch[waiting[i]].pc = "queued"
    BY DEF FetchInv, QueueInv
  <2> HIDE DEF FetchState
  <2> QED BY <1>2, <1>3, <2>1
<1>5. fetch[f] \in FetchState
  <2>1. fetch \in [Fetch -> FetchState \cup {None}]
    BY DEF FetchInv, Shapes
  <2> HIDE DEF FetchState
  <2> QED BY <1>4, <2>1
<1> QED BY <1>1, <1>2, <1>4, <1>5

\* The first in the queue gets a permit.
LEMMA StartStep ==
    ASSUME FetchInv, NEW f \in Fetch, Start(f)
    PROVE  FetchInv'
<1> USE DEF FetchInv
<1> DEFINE x == [fetch[f] EXCEPT !.pc = "reading"]
<1>1. waiting \in Seq(Fetch) /\ waiting # <<>> /\ f = waiting[1] /\ Len(waiting) \in Nat \ {0}
  BY HeadQueued
<1>2. fetch[f] # None /\ fetch[f].pc = "queued" /\ fetch[f] \in FetchState
  BY HeadQueued
<1>3. x \in FetchState /\ x # None /\ x.pc = "reading" /\ x.domain = fetch[f].domain
  BY <1>2 DEF FetchState
<1>4. /\ fetch' = [fetch EXCEPT ![f] = x]
      /\ waiting' = Tail(waiting)
      /\ UNCHANGED <<served, cache, gen, registry, caller, floor>>
  BY DEF Start
<1> HIDE DEF x, FetchState, CallerState
<1>5. \A g \in Fetch : fetch'[g] = IF g = f THEN x ELSE fetch[g]
  BY <1>4 DEF Shapes
<1>6. Shapes'
  BY <1>3, <1>4 DEF Shapes
<1>7. QueueInv'
  <2>1. /\ waiting' \in Seq(Fetch) /\ Len(waiting') = Len(waiting) - 1
        /\ \A i \in 1..Len(waiting') : waiting'[i] = waiting[i + 1]
    BY <1>1, <1>4, HeadTailProperties
  <2>2. \A i \in 1..Len(waiting') : i + 1 \in 1..Len(waiting) /\ i + 1 # 1 /\ 1 \in 1..Len(waiting)
    BY <1>1, <2>1
  <2>3. \A i \in 1..Len(waiting') : waiting'[i] \in Fetch /\ waiting'[i] # f
    <3> SUFFICES ASSUME NEW i \in 1..Len(waiting')
                 PROVE  waiting'[i] \in Fetch /\ waiting'[i] # f
      OBVIOUS
    <3>1. i + 1 \in 1..Len(waiting) /\ i + 1 # 1 /\ 1 \in 1..Len(waiting)
      BY <2>2
    <3>2. waiting[i + 1] # waiting[1]
      BY <3>1 DEF QueueInv
    <3>3. waiting[i + 1] \in Fetch
      BY <1>1, <3>1, ElementOfSeq
    <3> QED BY <1>1, <2>1, <3>2, <3>3
  <2>4. \A i \in 1..Len(waiting') : fetch'[waiting'[i]] # None /\ fetch'[waiting'[i]].pc = "queued"
    <3> SUFFICES ASSUME NEW i \in 1..Len(waiting')
                 PROVE  fetch'[waiting'[i]] # None /\ fetch'[waiting'[i]].pc = "queued"
      OBVIOUS
    <3>1. fetch[waiting[i + 1]] # None /\ fetch[waiting[i + 1]].pc = "queued"
      BY <2>2 DEF QueueInv
    <3>2. waiting'[i] = waiting[i + 1] /\ waiting'[i] \in Fetch /\ waiting'[i] # f
      BY <2>1, <2>3
    <3> QED BY <1>5, <3>1, <3>2
  <2>5. ASSUME NEW i \in 1..Len(waiting'), NEW k \in 1..Len(waiting'), waiting'[i] = waiting'[k]
        PROVE  i = k
    <3>1. i + 1 \in 1..Len(waiting) /\ k + 1 \in 1..Len(waiting)
      BY <2>2
    <3>2. waiting[i + 1] = waiting[k + 1]
      BY <2>1, <2>5
    <3>3. i + 1 = k + 1
      BY <3>1, <3>2 DEF QueueInv
    <3> QED BY <3>3
  <2>6. \A i, k \in 1..Len(waiting') : waiting'[i] = waiting'[k] => i = k
    BY <2>5
  <2> QED BY <2>1, <2>4, <2>6 DEF QueueInv
<1>8. RegisterInv'
  BY <1>2, <1>3, <1>4, <1>5 DEF RegisterInv, Shapes
<1>9. JoinInv'
  BY <1>3, <1>4, <1>5 DEF JoinInv, Shapes
<1> QED BY <1>6, <1>7, <1>8, <1>9

\* The handshake has ended.
LEMMA FinishStep ==
    ASSUME FetchInv, NEW f \in Fetch, Finish(f)
    PROVE  FetchInv'
<1> USE DEF FetchInv
<1> DEFINE v == served[fetch[f].domain]
           x == [[fetch[f] EXCEPT !.pc = "done"] EXCEPT !.ver = v]
<1>1. fetch[f] # None /\ fetch[f].pc = "reading" /\ fetch[f] \in FetchState
  BY DEF Finish, Free, Shapes
<1>2. v \in Nat
  BY <1>1 DEF Shapes, FetchState
<1>3. x \in FetchState /\ x # None /\ x.pc = "done" /\ x.domain = fetch[f].domain
  <2> HIDE DEF v
  <2> QED BY <1>1, <1>2 DEF FetchState
<1>4. /\ fetch' = [fetch EXCEPT ![f] = x]
      /\ UNCHANGED <<served, cache, gen, registry, waiting, caller, floor>>
  BY DEF Finish, Shapes
<1> HIDE DEF x, v, FetchState, CallerState
<1>5. \A g \in Fetch : fetch'[g] = IF g = f THEN x ELSE fetch[g]
  BY <1>4 DEF Shapes
<1>6. Shapes'
  BY <1>3, <1>4 DEF Shapes
<1>7. QueueInv'
  <2>1. \A i \in 1..Len(waiting) : waiting[i] \in Fetch /\ waiting[i] # f
    BY <1>1, ElementOfSeq DEF QueueInv
  <2> QED BY <1>4, <1>5, <2>1 DEF QueueInv
<1>8. RegisterInv'
  BY <1>1, <1>3, <1>4, <1>5 DEF RegisterInv, Shapes
<1>9. JoinInv'
  BY <1>3, <1>4, <1>5 DEF JoinInv, Shapes
<1> QED BY <1>6, <1>7, <1>8, <1>9

\* Certificates and invalidations move no fetch and no caller.
LEMMA OutsideStep ==
    ASSUME FetchInv, NEW d \in Domain, Issue(d) \/ Invalidate(d)
    PROVE  FetchInv'
<1> USE DEF FetchInv
<1>1. UNCHANGED <<registry, fetch, waiting, caller>>
  BY DEF Issue, Invalidate
<1>2. Shapes'
  <2>1. CASE Issue(d)
    BY <2>1 DEF Issue, Shapes
  <2>2. CASE Invalidate(d)
    BY <2>2 DEF Invalidate, Shapes
  <2> QED BY <2>1, <2>2
<1>3. QueueInv' /\ RegisterInv' /\ JoinInv'
  BY <1>1 DEF QueueInv, RegisterInv, JoinInv
<1> QED BY <1>2, <1>3

LEMMA FetchInit ==
    ASSUME Init
    PROVE  FetchInv
<1>1. Shapes
  BY IdleType DEF Init, Shapes, NoGens, NoFetch
<1>2. QueueInv
  BY EmptySeq DEF Init, QueueInv
<1>3. RegisterInv /\ JoinInv
  BY IdleType DEF Init, RegisterInv, JoinInv, NoFetch
<1> QED BY <1>1, <1>2, <1>3 DEF FetchInv

LEMMA FetchNext ==
    ASSUME FetchInv, [Next]_vars
    PROVE  FetchInv'
<1>1. CASE \E c \in Caller, D \in SUBSET Domain : \E expired \in SUBSET D : Look(c, D, expired)
  BY <1>1, LookStep
<1>2. CASE \E c \in Caller : CallerStep(c)
  BY <1>2, NoteStep, StoreStep, JoinOldStep, JoinNewStep, LeaveStep DEF CallerStep
<1>3. CASE \E f \in Fetch : FetchStep(f)
  BY <1>3, StartStep, FinishStep DEF FetchStep
<1>4. CASE \E d \in Domain : Issue(d) \/ Invalidate(d)
  BY <1>4, OutsideStep
<1>5. CASE UNCHANGED vars
  <2>1. UNCHANGED <<served, cache, gen, registry, fetch, waiting, caller, floor>>
    BY <1>5 DEF vars
  <2>2. Shapes'
    BY <2>1 DEF FetchInv, Shapes
  <2>3. QueueInv' /\ RegisterInv' /\ JoinInv'
    BY <2>1 DEF FetchInv, QueueInv, RegisterInv, JoinInv
  <2> QED BY <2>2, <2>3 DEF FetchInv
<1> QED BY <1>1, <1>2, <1>3, <1>4, <1>5 DEF Next

\* What the fetches and their callers hold on to is there, in every state.
LEMMA FetchAlways == Spec => []FetchInv
BY FetchInit, FetchNext, PTL DEF Spec

\* A name is fetched once at a time (OneFetch), however many callers ask.
THEOREM FetchesAreShared == Spec => []OneFetch
<1>1. ASSUME FetchInv
      PROVE  OneFetch
  BY <1>1 DEF FetchInv, RegisterInv, OneFetch, Free
<1> QED BY <1>1, FetchAlways, PTL
-----------------------------------------------------------------------------
(***************************************************************************)
(* What is stored is not stale: whatever a caller whose generation is the  *)
(* name's holds, or will get, is at least the floor.                       *)
(***************************************************************************)
Holds(y, d) == y.gens[d] = gen[d] /\ y.got[d] # None => y.got[d] >= floor[d]
Awaits(y, d) ==
    y.gens[d] = gen[d] /\ y.join[d] # None /\ fetch[y.join[d]].pc = "done"
        => fetch[y.join[d]].ver >= floor[d]

FreshInv ==
    /\ \A d \in Domain : served[d] >= floor[d]
    /\ \A d \in Domain : registry[d] # None /\ fetch[registry[d]].pc = "done"
           => fetch[registry[d]].ver >= floor[d]
    /\ \A c \in Caller, d \in Domain :
           caller[c].gens[d] <= gen[d] /\ Holds(caller[c], d) /\ Awaits(caller[c], d)
    /\ \A d \in Domain : cache[d] # None => cache[d] >= floor[d]

\* A caller goes on in a step that moves no fetch.
LEMMA FreshCallerMoves ==
    ASSUME FetchInv, FreshInv, NEW c \in Caller, NEW y,
           caller' = [caller EXCEPT ![c] = y],
           \A d \in Domain : y.gens[d] <= gen[d] /\ Holds(y, d) /\ Awaits(y, d),
           UNCHANGED <<served, gen, registry, fetch, floor>>,
           \A d \in Domain : cache'[d] # None => cache'[d] >= floor[d]
    PROVE  FreshInv'
<1>1. \A e \in Caller : caller'[e] = IF e = c THEN y ELSE caller[e]
  BY DEF FetchInv, Shapes
<1>2. \A e \in Caller, d \in Domain :
          caller'[e].gens[d] <= gen'[d] /\ Holds(caller[e], d)' /\ Awaits(caller[e], d)'
  BY <1>1 DEF FreshInv, Holds, Awaits
<1> QED BY <1>2 DEF FreshInv

LEMMA FreshLook ==
    ASSUME FetchInv, FreshInv, NEW c \in Caller, NEW D \in SUBSET Domain,
           NEW expired \in SUBSET D, Look(c, D, expired)
    PROVE  FreshInv'
<1> DEFINE y == [[caller[c] EXCEPT !.pc = "note"] EXCEPT !.want = Missing(D, expired)]
<1>1. caller[c] \in CallerState
  BY DEF FetchInv, Shapes
<1>2. y.join = caller[c].join /\ y.got = caller[c].got /\ y.gens = caller[c].gens
  BY <1>1 DEF CallerState
<1>3. caller' = [caller EXCEPT ![c] = y]
  BY <1>1 DEF Look, FetchInv, Shapes
<1> HIDE DEF y
<1>4. \A d \in Domain : y.gens[d] <= gen[d] /\ Holds(y, d) /\ Awaits(y, d)
  BY <1>2 DEF FreshInv, Holds, Awaits
<1>5. /\ UNCHANGED <<served, gen, registry, fetch, floor>>
      /\ \A d \in Domain : cache'[d] # None => cache'[d] >= floor[d]
  BY DEF Look, FreshInv
<1> QED BY <1>3, <1>4, <1>5, FreshCallerMoves

LEMMA FreshNote ==
    ASSUME FetchInv, FreshInv, NEW c \in Caller, Note(c)
    PROVE  FreshInv'
<1> DEFINE g == [d \in Domain |-> IF d \in caller[c].want THEN gen[d] ELSE 0]
           y == [[caller[c] EXCEPT !.pc = "join"] EXCEPT !.gens = g]
<1>1. caller[c] \in CallerState /\ \A d \in Domain : gen[d] \in Nat
  BY DEF FetchInv, Shapes
<1>2. y.join = caller[c].join /\ y.got = caller[c].got /\ y.gens = g
  BY <1>1 DEF CallerState
<1>3. caller' = [caller EXCEPT ![c] = y]
  BY <1>1 DEF Note, FetchInv, Shapes
<1>4. \A d \in Domain : g[d] <= gen[d]
  BY <1>1
<1>5. \A d \in Domain : caller[c].join[d] = None /\ caller[c].got[d] = None
  BY DEF Note, FetchInv, JoinInv
<1>6. /\ UNCHANGED <<served, gen, registry, fetch, floor>>
      /\ \A d \in Domain : cache'[d] # None => cache'[d] >= floor[d]
  BY DEF Note, FreshInv
<1> HIDE DEF y, g
<1>7. \A d \in Domain : y.gens[d] <= gen[d] /\ Holds(y, d) /\ Awaits(y, d)
  BY <1>2, <1>4, <1>5 DEF Holds, Awaits
<1> QED BY <1>3, <1>6, <1>7, FreshCallerMoves

\* What is stored is held by a caller whose generation is the name's.
LEMMA FreshStore ==
    ASSUME FetchInv, FreshInv, NEW c \in Caller, Store(c)
    PROVE  FreshInv'
<1>1. caller' = [caller EXCEPT ![c] = Idle] /\ UNCHANGED <<served, gen, registry, fetch, floor>>
  BY DEF Store
<1>2. \A d \in Domain : cache'[d] # None => cache'[d] >= floor[d]
  <2> DEFINE new == {d \in caller[c].want : StillCurrent(c, d)}
  <2>1. PICK kept : cache' = [d \in Domain |->
                       IF d \notin kept THEN None
                       ELSE IF d \in new THEN caller[c].got[d]
                       ELSE cache[d]]
    BY DEF Store
  <2>2. \A d \in Domain : d \in new /\ caller[c].got[d] # None => caller[c].got[d] >= floor[d]
    BY DEF StillCurrent, FreshInv, Holds
  <2> HIDE DEF new
  <2> QED BY <2>1, <2>2 DEF FreshInv
<1>3. \A d \in Domain : Idle.gens[d] <= gen[d] /\ Holds(Idle, d) /\ Awaits(Idle, d)
  <2>1. \A d \in Domain : Idle.gens[d] = 0 /\ gen[d] \in Nat
    BY DEF Idle, NoGens, FetchInv, Shapes
  <2> QED BY <2>1, IdleType DEF Holds, Awaits
<1> QED BY <1>1, <1>2, <1>3, FreshCallerMoves

LEMMA FreshJoinOld ==
    ASSUME FetchInv, FreshInv, NEW c \in Caller, NEW d \in Domain, Join(c, d), InFlight(d)
    PROVE  FreshInv'
<1> DEFINE j == [caller[c].join EXCEPT ![d] = registry[d]]
           y == [caller[c] EXCEPT !.join = j]
<1>1. caller[c] \in CallerState
  BY DEF FetchInv, Shapes
<1>2. \A e \in Domain : j[e] = IF e = d THEN registry[d] ELSE caller[c].join[e]
  BY <1>1 DEF CallerState
<1>3. y.join = j /\ y.got = caller[c].got /\ y.gens = caller[c].gens
  BY <1>1 DEF CallerState
<1>4. caller' = [caller EXCEPT ![c] = y]
  BY DEF Join, FetchInv, Shapes
<1>5. /\ UNCHANGED <<served, gen, registry, fetch, floor>>
      /\ \A e \in Domain : cache'[e] # None => cache'[e] >= floor[e]
  BY DEF Join, FreshInv
<1> HIDE DEF y, j
<1>6. \A e \in Domain : y.gens[e] <= gen[e] /\ Holds(y, e) /\ Awaits(y, e)
  BY <1>2, <1>3 DEF FreshInv, Holds, Awaits
<1> QED BY <1>4, <1>5, <1>6, FreshCallerMoves

LEMMA FreshJoinNew ==
    ASSUME FetchInv, FreshInv, NEW c \in Caller, NEW d \in Domain, Join(c, d), ~InFlight(d)
    PROVE  FreshInv'
<1> DEFINE f == CHOOSE g \in Fetch : Free(g)
           x == [pc |-> "queued", domain |-> d, ver |-> 0]
           j == [caller[c].join EXCEPT ![d] = f]
           y == [caller[c] EXCEPT !.join = j]
<1>1. f \in Fetch /\ fetch[f] = None
  BY DEF Join, Free
<1>2. caller[c] \in CallerState
  BY DEF FetchInv, Shapes
<1>3. \A e \in Domain : j[e] = IF e = d THEN f ELSE caller[c].join[e]
  BY <1>2 DEF CallerState
<1>4. y.join = j /\ y.got = caller[c].got /\ y.gens = caller[c].gens
  BY <1>2 DEF CallerState
<1>5. /\ caller' = [caller EXCEPT ![c] = y]
      /\ registry' = [registry EXCEPT ![d] = f]
      /\ fetch' = [fetch EXCEPT ![f] = x]
      /\ UNCHANGED <<served, cache, gen, floor>>
  BY DEF Join, FetchInv, Shapes
<1>6. x.pc # "done"
  OBVIOUS
<1> HIDE DEF x, j, y, f
<1>7. \A g \in Fetch : fetch'[g] = IF g = f THEN x ELSE fetch[g]
  BY <1>5 DEF FetchInv, Shapes
<1>8. \A e \in Domain : registry'[e] = IF e = d THEN f ELSE registry[e]
  BY <1>5 DEF FetchInv, Shapes
<1>9. \A e \in Caller : caller'[e] = IF e = c THEN y ELSE caller[e]
  BY <1>5 DEF FetchInv, Shapes
<1>10. /\ \A e \in Caller, a \in Domain : caller[e].join[a] \in Fetch \cup {None}
       /\ \A a \in Domain : registry[a] \in Fetch \cup {None}
  BY DEF FetchInv, Shapes, CallerState
<1>11. \A e \in Domain : registry'[e] # None /\ fetch'[registry'[e]].pc = "done"
           => fetch'[registry'[e]].ver >= floor[e]
  BY <1>1, <1>6, <1>7, <1>8, <1>10 DEF FreshInv
<1>12. \A e \in Caller, a \in Domain : /\ caller'[e].gens[a] <= gen[a]
                                       /\ Holds(caller[e], a)' /\ Awaits(caller[e], a)'
  BY <1>1, <1>3, <1>4, <1>5, <1>6, <1>7, <1>9, <1>10 DEF FreshInv, Holds, Awaits
<1> QED BY <1>5, <1>11, <1>12 DEF FreshInv

LEMMA FreshLeave ==
    ASSUME FetchInv, FreshInv, NEW c \in Caller, NEW d \in Domain, Leave(c, d)
    PROVE  FreshInv'
<1> DEFINE f == caller[c].join[d]
           j == [caller[c].join EXCEPT ![d] = None]
           v == fetch[f].ver
           h == [caller[c].got EXCEPT ![d] = v]
           y == [[caller[c] EXCEPT !.join = j] EXCEPT !.got = h]
<1>1. caller[c] \in CallerState /\ f # None /\ fetch[f].pc = "done"
  BY DEF Leave, FetchInv, Shapes
<1>2. /\ \A e \in Domain : j[e] = IF e = d THEN None ELSE caller[c].join[e]
      /\ \A e \in Domain : h[e] = IF e = d THEN v ELSE caller[c].got[e]
  <2> HIDE DEF v
  <2> QED BY <1>1 DEF CallerState
<1>3. y.join = j /\ y.got = h /\ y.gens = caller[c].gens
  <2> HIDE DEF j, h
  <2> QED BY <1>1 DEF CallerState
<1>4. caller' = [caller EXCEPT ![c] = y]
  <2>1. caller' = [caller EXCEPT ![c].join[d] = None, ![c].got[d] = fetch[f].ver]
    BY DEF Leave
  <2> QED BY <1>1, <2>1 DEF FetchInv, Shapes, CallerState
<1>5. registry' = [registry EXCEPT ![d] = IF Pops(f, d) THEN None ELSE @] /\ Forget(c, d, f)
  BY DEF Leave
<1>6. UNCHANGED <<served, cache, gen, floor>>
  BY DEF Leave
<1>7. Awaits(caller[c], d)
  BY DEF FreshInv
<1>8. \A e \in Domain : registry'[e] = registry[e] \/ registry'[e] = None
  BY <1>5 DEF FetchInv, Shapes
<1>9. \A g \in Fetch : fetch'[g] = fetch[g] \/ (g = f /\ fetch'[g] = None)
  <2>1. fetch' = fetch \/ fetch' = [fetch EXCEPT ![f] = None]
    BY <1>5 DEF Forget
  <2> QED BY <2>1 DEF FetchInv, Shapes
<1>10. f \in Fetch /\ fetch[f] # None
  BY <1>1 DEF FetchInv, JoinInv, CallerState
<1>11. fetch'[f] = None =>
          /\ registry'[d] # f
          /\ \A e \in Caller, x \in Domain : caller[e].join[x] = f => e = c /\ x = d
  BY <1>5, <1>10 DEF Forget, FetchInv, Shapes
<1>12. \A e \in Domain : registry[e] = f => e = d
  BY <1>10, <1>1 DEF FetchInv, RegisterInv, JoinInv
<1>13. /\ \A e \in Caller, a \in Domain : caller[e].join[a] \in Fetch \cup {None}
       /\ \A a \in Domain : registry[a] \in Fetch \cup {None}
  BY DEF FetchInv, Shapes, CallerState
<1>14. Holds(y, d)
  BY <1>1, <1>2, <1>3, <1>7 DEF Holds, Awaits
<1> HIDE DEF y, j, h, v, f
<1>15. \A e \in Caller : caller'[e] = IF e = c THEN y ELSE caller[e]
  BY <1>4 DEF FetchInv, Shapes
<1>16. ASSUME NEW e \in Domain, registry'[e] # None, fetch'[registry'[e]].pc = "done"
       PROVE  fetch'[registry'[e]].ver >= floor[e]
  <2>1. registry'[e] = registry[e] /\ registry[e] \in Fetch
    BY <1>8, <1>13, <1>16
  <2>2. fetch'[registry[e]] = fetch[registry[e]]
    BY <1>9, <1>11, <1>12, <2>1
  <2> QED BY <1>16, <2>1, <2>2 DEF FreshInv
<1>17. ASSUME NEW e \in Caller, NEW a \in Domain
       PROVE  caller'[e].gens[a] <= gen[a] /\ Holds(caller[e], a)' /\ Awaits(caller[e], a)'
  <2>1. /\ caller[e].gens[a] <= gen[a] /\ Holds(caller[e], a) /\ Awaits(caller[e], a)
        /\ caller'[e].gens[a] = caller[e].gens[a]
    BY <1>3, <1>15 DEF FreshInv
  <2>2. CASE e = c /\ a = d
    BY <1>2, <1>3, <1>6, <1>14, <1>15, <2>1, <2>2 DEF Holds, Awaits
  <2>3. CASE ~(e = c /\ a = d)
    <3>1. caller'[e].join[a] = caller[e].join[a] /\ caller'[e].got[a] = caller[e].got[a]
      BY <1>2, <1>3, <1>15, <2>3
    <3>2. caller[e].join[a] # None => fetch'[caller[e].join[a]] = fetch[caller[e].join[a]]
      BY <1>9, <1>11, <1>13, <2>3
    <3> QED BY <1>6, <2>1, <3>1, <3>2 DEF Holds, Awaits
  <2> QED BY <2>2, <2>3
<1> QED BY <1>6, <1>16, <1>17 DEF FreshInv

LEMMA FreshStart ==
    ASSUME FetchInv, FreshInv, NEW f \in Fetch, Start(f)
    PROVE  FreshInv'
<1> DEFINE x == [fetch[f] EXCEPT !.pc = "reading"]
<1>1. waiting \in Seq(Fetch) /\ waiting # <<>> /\ f = waiting[1] /\ Len(waiting) \in Nat \ {0}
  BY HeadQueued
<1>2. fetch[f] # None /\ fetch[f].pc = "queued" /\ fetch[f] \in FetchState
  BY HeadQueued
<1>3. x.pc = "reading"
  BY <1>2 DEF FetchState
<1>4. /\ fetch' = [fetch EXCEPT ![f] = x]
      /\ UNCHANGED <<served, cache, gen, registry, caller, floor>>
  BY DEF Start
<1> HIDE DEF x
<1>5. \A g \in Fetch : fetch'[g] = IF g = f THEN x ELSE fetch[g]
  BY <1>4 DEF FetchInv, Shapes
<1>6. /\ \A e \in Caller, a \in Domain : caller[e].join[a] \in Fetch \cup {None}
      /\ \A a \in Domain : registry[a] \in Fetch \cup {None}
  BY DEF FetchInv, Shapes, CallerState
<1>7. \A e \in Caller, a \in Domain : /\ caller'[e].gens[a] <= gen[a]
                                      /\ Holds(caller[e], a)' /\ Awaits(caller[e], a)'
  BY <1>3, <1>4, <1>5, <1>6 DEF FreshInv, Holds, Awaits
<1> QED BY <1>3, <1>4, <1>5, <1>6, <1>7 DEF FreshInv

\* A fetch that ends has seen the certificate that is served now.
LEMMA FreshFinish ==
    ASSUME FetchInv, FreshInv, NEW f \in Fetch, Finish(f)
    PROVE  FreshInv'
<1> DEFINE v == served[fetch[f].domain]
           x == [[fetch[f] EXCEPT !.pc = "done"] EXCEPT !.ver = v]
<1>1. fetch[f] # None /\ fetch[f].pc = "reading" /\ fetch[f] \in FetchState
  BY DEF Finish, Free, FetchInv, Shapes
<1>2. fetch[f].domain \in Domain
  BY <1>1 DEF FetchState
<1>3. x.ver = served[fetch[f].domain]
  <2> HIDE DEF v
  <2>1. x.ver = v
    BY <1>1 DEF FetchState
  <2> QED BY <2>1 DEF v
<1>4. /\ fetch' = [fetch EXCEPT ![f] = x]
      /\ UNCHANGED <<served, cache, gen, registry, caller, floor>>
  BY DEF Finish, FetchInv, Shapes
<1> HIDE DEF x, v
<1>5. \A g \in Fetch : fetch'[g] = IF g = f THEN x ELSE fetch[g]
  BY <1>4 DEF FetchInv, Shapes
<1>6. /\ \A e \in Caller, a \in Domain : caller[e].join[a] \in Fetch \cup {None}
      /\ \A a \in Domain : registry[a] \in Fetch \cup {None}
  BY DEF FetchInv, Shapes, CallerState
<1>7. x.ver >= floor[fetch[f].domain]
  BY <1>2, <1>3 DEF FreshInv
<1>8. /\ \A e \in Caller, a \in Domain : caller[e].join[a] = f => a = fetch[f].domain
      /\ \A a \in Domain : registry[a] = f => a = fetch[f].domain
  BY <1>1 DEF FetchInv, JoinInv, RegisterInv
<1>9. \A e \in Caller, a \in Domain : /\ caller'[e].gens[a] <= gen[a]
                                      /\ Holds(caller[e], a)' /\ Awaits(caller[e], a)'
  BY <1>4, <1>5, <1>6, <1>7, <1>8 DEF FreshInv, Holds, Awaits
<1> QED BY <1>4, <1>5, <1>6, <1>7, <1>8, <1>9 DEF FreshInv

LEMMA FreshIssue ==
    ASSUME FetchInv, FreshInv, NEW d \in Domain, Issue(d)
    PROVE  FreshInv'
<1>1. /\ served' = [served EXCEPT ![d] = @ + 1]
      /\ UNCHANGED <<cache, gen, registry, fetch, caller, floor>>
  BY DEF Issue
<1>2. \A e \in Domain : served[e] \in Nat /\ floor[e] \in Nat
  BY DEF FetchInv, Shapes
<1>3. \A e \in Domain : served'[e] = IF e = d THEN served[e] + 1 ELSE served[e]
  BY <1>1 DEF FetchInv, Shapes
<1>4. \A e \in Domain : served'[e] >= floor'[e]
  BY <1>1, <1>2, <1>3 DEF FreshInv
<1> QED BY <1>1, <1>4 DEF FreshInv, Holds, Awaits

\* An invalidation leaves every caller behind that noted a generation before it.
LEMMA FreshInvalidate ==
    ASSUME FetchInv, FreshInv, NEW d \in Domain, Invalidate(d)
    PROVE  FreshInv'
<1>1. /\ gen' = [gen EXCEPT ![d] = @ + 1]
      /\ cache' = [cache EXCEPT ![d] = None]
      /\ floor' = [floor EXCEPT ![d] = IF InFlight(d) THEN @ ELSE served[d]]
      /\ UNCHANGED <<served, registry, fetch, caller>>
  BY DEF Invalidate
<1>2. /\ \A e \in Domain : served[e] \in Nat /\ floor[e] \in Nat /\ gen[e] \in Nat
      /\ \A e \in Caller, a \in Domain : caller[e].gens[a] \in Nat
  BY DEF FetchInv, Shapes, CallerState
<1>3. /\ \A e \in Domain : gen'[e] = IF e = d THEN gen[e] + 1 ELSE gen[e]
      /\ \A e \in Domain : cache'[e] = IF e = d THEN None ELSE cache[e]
      /\ \A e \in Domain :
             floor'[e] = IF e = d /\ ~InFlight(d) THEN served[e] ELSE floor[e]
  BY <1>1 DEF FetchInv, Shapes
<1>4. \A e \in Domain : served'[e] >= floor'[e]
  BY <1>1, <1>2, <1>3 DEF FreshInv
<1>5. \A e \in Domain : registry'[e] # None /\ fetch'[registry'[e]].pc = "done"
          => fetch'[registry'[e]].ver >= floor'[e]
  BY <1>1, <1>3 DEF FreshInv, InFlight
<1>6. ASSUME NEW e \in Caller, NEW a \in Domain
      PROVE  caller'[e].gens[a] <= gen'[a] /\ Holds(caller[e], a)' /\ Awaits(caller[e], a)'
  <2>1. caller[e].gens[a] <= gen[a] /\ Holds(caller[e], a) /\ Awaits(caller[e], a)
    BY DEF FreshInv
  <2> DEFINE m == caller[e].gens[a]
             n == gen[a]
  <2>2. CASE a = d
    <3>1. m \in Nat /\ n \in Nat /\ m <= n
      BY <1>2, <2>1
    <3>2. gen'[a] = n + 1 /\ caller'[e].gens[a] = m
      BY <1>1, <1>3, <2>2
    <3> HIDE DEF m, n
    <3>3. m <= n + 1 /\ m # n + 1
      BY <3>1
    <3> QED BY <3>2, <3>3, <1>1 DEF Holds, Awaits, m
  <2>3. CASE a # d
    BY <1>1, <1>3, <2>1, <2>3 DEF Holds, Awaits
  <2> QED BY <2>2, <2>3
<1>7. \A e \in Domain : cache'[e] # None => cache'[e] >= floor'[e]
  BY <1>3 DEF FreshInv
<1> QED BY <1>4, <1>5, <1>6, <1>7 DEF FreshInv

LEMMA FreshInit ==
    ASSUME Init
    PROVE  FreshInv
<1>1. \A d \in Domain : Idle.gens[d] = 0
  BY DEF Idle, NoGens
<1> QED BY <1>1, IdleType DEF Init, FreshInv, Holds, Awaits, NoGens, NoFetch

LEMMA FreshNext ==
    ASSUME FetchInv, FreshInv, [Next]_vars
    PROVE  FreshInv'
<1>1. CASE \E c \in Caller, D \in SUBSET Domain : \E expired \in SUBSET D : Look(c, D, expired)
  BY <1>1, FreshLook
<1>2. CASE \E c \in Caller : CallerStep(c)
  BY <1>2, FreshNote, FreshStore, FreshJoinOld, FreshJoinNew, FreshLeave DEF CallerStep
<1>3. CASE \E f \in Fetch : FetchStep(f)
  BY <1>3, FreshStart, FreshFinish DEF FetchStep
<1>4. CASE \E d \in Domain : Issue(d) \/ Invalidate(d)
  BY <1>4, FreshIssue, FreshInvalidate
<1>5. CASE UNCHANGED vars
  BY <1>5 DEF vars, FreshInv, Holds, Awaits
<1> QED BY <1>1, <1>2, <1>3, <1>4, <1>5 DEF Next

\* What is cached is not older than the last invalidation of the name that found
\* no fetch under way (NoStaleStore), however many certificates, callers and
\* invalidations there are.
THEOREM NothingStaleIsStored == Spec => []NoStaleStore
<1>1. FreshInv => NoStaleStore
  BY DEF FreshInv, NoStaleStore, Entries
<1>2. FetchInv /\ FreshInv /\ [Next]_vars => FreshInv'
  BY FreshNext
<1>3. Init => FreshInv
  BY FreshInit
<1> QED BY <1>1, <1>2, <1>3, FetchAlways, PTL DEF Spec
-----------------------------------------------------------------------------
(***************************************************************************)
(* What is counted: the permits and the entries.                           *)
(***************************************************************************)
Reading == {f \in Fetch : fetch[f] # None /\ fetch[f].pc = "reading"}

PermitInv == permits \in Nat /\ permits + Cardinality(Reading) = Permits
EntryInv == Cardinality(Entries) <= MaxEntries

LEMMA PermitInit ==
    ASSUME Init
    PROVE  PermitInv
<1>1. Reading = {} /\ permits = Permits
  BY DEF Init, Reading
<1> QED BY <1>1, FS_EmptySet DEF PermitInv

LEMMA PermitNext ==
    ASSUME FetchInv, PermitInv, [Next]_vars
    PROVE  PermitInv'
<1> DEFINE n == Cardinality(Reading)
<1>1. IsFiniteSet(Reading) /\ n \in Nat /\ permits \in Nat /\ permits + n = Permits
  <2>1. IsFiniteSet(Reading)
    BY FS_Subset DEF Reading
  <2> QED BY <2>1, FS_CardinalityType DEF PermitInv
<1>2. ASSUME Reading' = Reading, permits' = permits
      PROVE  PermitInv'
  BY <1>2 DEF PermitInv
<1>3. ASSUME UNCHANGED <<fetch, permits>>
      PROVE  PermitInv'
  BY <1>2, <1>3 DEF Reading
<1>4. ASSUME NEW c \in Caller, NEW d \in Domain, Join(c, d)
      PROVE  PermitInv'
  <2>1. CASE InFlight(d)
    BY <1>3, <1>4, <2>1 DEF Join
  <2>2. CASE ~InFlight(d)
    <3> DEFINE f == CHOOSE g \in Fetch : Free(g)
               x == [pc |-> "queued", domain |-> d, ver |-> 0]
    <3>1. f \in Fetch /\ fetch[f] = None /\ fetch' = [fetch EXCEPT ![f] = x] /\ permits' = permits
      BY <1>4, <2>2 DEF Join, Free
    <3>2. x.pc # "reading"
      OBVIOUS
    <3> HIDE DEF f, x
    <3>3. \A g \in Fetch : fetch'[g] = IF g = f THEN x ELSE fetch[g]
      BY <3>1 DEF FetchInv, Shapes
    <3>4. Reading' = Reading
      BY <3>1, <3>2, <3>3 DEF Reading
    <3> QED BY <1>2, <3>1, <3>4
  <2> QED BY <2>1, <2>2
<1>5. ASSUME NEW c \in Caller, NEW d \in Domain, Leave(c, d)
      PROVE  PermitInv'
  <2> DEFINE f == caller[c].join[d]
  <2>1. fetch[f].pc = "done" /\ Forget(c, d, f) /\ permits' = permits
    BY <1>5 DEF Leave
  <2>2. fetch' = fetch \/ fetch' = [fetch EXCEPT ![f] = None]
    BY <2>1 DEF Forget
  <2> HIDE DEF f
  <2>3. \A g \in Fetch : fetch'[g] = fetch[g] \/ (g = f /\ fetch'[g] = None)
    BY <2>2 DEF FetchInv, Shapes
  <2>4. Reading' = Reading
    BY <2>1, <2>3 DEF Reading
  <2> QED BY <1>2, <2>1, <2>4
<1>6. ASSUME NEW f \in Fetch, Start(f)
      PROVE  PermitInv'
  <2> DEFINE x == [fetch[f] EXCEPT !.pc = "reading"]
  <2>1. waiting \in Seq(Fetch) /\ waiting # <<>> /\ f = waiting[1] /\ Len(waiting) \in Nat \ {0}
    BY <1>6, HeadQueued
  <2>2. fetch[f] # None /\ fetch[f].pc = "queued" /\ fetch[f] \in FetchState
    BY <1>6, HeadQueued
  <2>3. x.pc = "reading" /\ x # None
    BY <2>2 DEF FetchState
  <2>4. fetch' = [fetch EXCEPT ![f] = x] /\ permits > 0 /\ permits' = permits - 1
    BY <1>6 DEF Start, MayStart
  <2> HIDE DEF x
  <2>5. \A g \in Fetch : fetch'[g] = IF g = f THEN x ELSE fetch[g]
    BY <2>4 DEF FetchInv, Shapes
  <2>6. Reading' = Reading \cup {f} /\ f \notin Reading
    BY <2>2, <2>3, <2>5 DEF Reading
  <2>7. Cardinality(Reading') = n + 1
    BY <1>1, <2>6, FS_AddElement
  <2> HIDE DEF n
  <2> QED BY <1>1, <2>4, <2>7 DEF PermitInv
<1>7. ASSUME NEW f \in Fetch, Finish(f)
      PROVE  PermitInv'
  <2> DEFINE x == [[fetch[f] EXCEPT !.pc = "done"] EXCEPT !.ver = served[fetch[f].domain]]
  <2>1. fetch[f] # None /\ fetch[f].pc = "reading" /\ fetch[f] \in FetchState
    BY <1>7 DEF Finish, Free, FetchInv, Shapes
  <2>2. x.pc = "done"
    BY <2>1 DEF FetchState
  <2>3. fetch' = [fetch EXCEPT ![f] = x] /\ permits' = permits + 1
    BY <1>7 DEF Finish, Releases, FetchInv, Shapes
  <2> HIDE DEF x
  <2>4. \A g \in Fetch : fetch'[g] = IF g = f THEN x ELSE fetch[g]
    BY <2>3 DEF FetchInv, Shapes
  <2>5. Reading' = Reading \ {f} /\ f \in Reading
    BY <2>1, <2>2, <2>4 DEF Reading
  <2>6. Cardinality(Reading') = n - 1 /\ n # 0
    BY <1>1, <2>5, FS_RemoveElement, FS_EmptySet
  <2> HIDE DEF n
  <2> QED BY <1>1, <2>3, <2>6 DEF PermitInv
<1>8. CASE \E c \in Caller, D \in SUBSET Domain : \E expired \in SUBSET D : Look(c, D, expired)
  BY <1>3, <1>8 DEF Look
<1>9. CASE \E c \in Caller : CallerStep(c)
  BY <1>3, <1>4, <1>5, <1>9 DEF CallerStep, Note, Store
<1>10. CASE \E f \in Fetch : FetchStep(f)
  BY <1>6, <1>7, <1>10 DEF FetchStep
<1>11. CASE \E d \in Domain : Issue(d) \/ Invalidate(d)
  BY <1>3, <1>11 DEF Issue, Invalidate
<1>12. CASE UNCHANGED vars
  BY <1>3, <1>12 DEF vars
<1> QED BY <1>8, <1>9, <1>10, <1>11, <1>12 DEF Next

LEMMA EntryNext ==
    ASSUME FetchInv, EntryInv, [Next]_vars
    PROVE  EntryInv'
<1>1. ASSUME UNCHANGED cache
      PROVE  EntryInv'
  BY <1>1 DEF EntryInv, Entries
<1>2. ASSUME NEW c \in Caller, Store(c)
      PROVE  EntryInv'
  <2> DEFINE new == {d \in caller[c].want : StillCurrent(c, d)}
             all == Entries \cup new
  <2>1. PICK kept \in Prunes(all, new) :
              cache' = [d \in Domain |->
                 IF d \notin kept THEN None
                 ELSE IF d \in new THEN caller[c].got[d]
                 ELSE cache[d]]
    BY <1>2 DEF Store
  <2>2. all \subseteq Domain
    BY DEF Entries, FetchInv, Shapes, CallerState
  <2> HIDE DEF new, all
  <2>3. kept \in SUBSET all /\ Cardinality(kept) =
            IF Cardinality(all) > MaxEntries THEN MaxEntries ELSE Cardinality(all)
    BY DEF Prunes
  <2>4. IsFiniteSet(all) /\ IsFiniteSet(kept) /\ Cardinality(all) \in Nat /\ Cardinality(kept) \in Nat
    BY <2>2, <2>3, FS_Subset, FS_CardinalityType
  <2>5. Entries' \in SUBSET kept
    BY <2>1 DEF Entries
  <2>6. Cardinality(Entries') \in Nat /\ Cardinality(Entries') <= Cardinality(kept)
    BY <2>4, <2>5, FS_Subset, FS_CardinalityType
  <2> QED BY <2>3, <2>4, <2>6 DEF EntryInv
<1>3. ASSUME NEW d \in Domain, Invalidate(d)
      PROVE  EntryInv'
  <2>1. cache' = [cache EXCEPT ![d] = None]
    BY <1>3 DEF Invalidate
  <2>2. Entries' \in SUBSET Entries
    BY <2>1 DEF Entries, FetchInv, Shapes
  <2>3. IsFiniteSet(Entries)
    BY FS_Subset DEF Entries
  <2>4. /\ Cardinality(Entries) \in Nat /\ Cardinality(Entries') \in Nat
        /\ Cardinality(Entries') <= Cardinality(Entries)
    BY <2>2, <2>3, FS_Subset, FS_CardinalityType
  <2> QED BY <2>4 DEF EntryInv
<1>4. CASE \E c \in Caller, D \in SUBSET Domain : \E expired \in SUBSET D : Look(c, D, expired)
  BY <1>1, <1>4 DEF Look
<1>5. CASE \E c \in Caller : CallerStep(c)
  BY <1>1, <1>2, <1>5 DEF CallerStep, Note, Join, Leave
<1>6. CASE \E f \in Fetch : FetchStep(f)
  BY <1>1, <1>6 DEF FetchStep, Start, Finish
<1>7. CASE \E d \in Domain : Issue(d) \/ Invalidate(d)
  BY <1>1, <1>3, <1>7 DEF Issue
<1>8. CASE UNCHANGED vars
  BY <1>1, <1>8 DEF vars
<1> QED BY <1>4, <1>5, <1>6, <1>7, <1>8 DEF Next

\* The shape of the state, the permits and the limit on the entries (TypeOK), for
\* any number of permits and entries.
THEOREM TypeCorrect == Spec => []TypeOK
<1>1. Init => EntryInv
  <2>1. ASSUME Init
        PROVE  Entries = {}
    BY <2>1 DEF Init, Entries
  <2> QED BY <2>1, FS_EmptySet DEF EntryInv
<1>2. FetchInv /\ EntryInv /\ [Next]_vars => EntryInv'
  BY EntryNext
<1>3. Init => PermitInv
  BY PermitInit
<1>4. FetchInv /\ PermitInv /\ [Next]_vars => PermitInv'
  BY PermitNext
<1>5. FetchInv /\ PermitInv /\ EntryInv => TypeOK
  <2>1. ASSUME FetchInv, PermitInv, EntryInv
        PROVE  permits \in 0..Permits
    <3>1. IsFiniteSet(Reading)
      BY FS_Subset DEF Reading
    <3>2. Cardinality(Reading) \in Nat
      BY <3>1, FS_CardinalityType
    <3> QED BY <2>1, <3>2 DEF PermitInv
  <2> HIDE DEF FetchState
  <2> QED BY <2>1 DEF TypeOK, FetchInv, Shapes, QueueInv, EntryInv
<1> QED BY <1>1, <1>2, <1>3, <1>4, <1>5, FetchAlways, PTL DEF Spec
=============================================================================
