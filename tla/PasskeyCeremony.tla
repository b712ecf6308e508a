-------------------------- MODULE PasskeyCeremony --------------------------
(***************************************************************************)
(* The passkeys of the administrator (services/passkeys.py, repositories/  *)
(* passkeys.py, routers/passkeys.py): challenges that are stored when a    *)
(* ceremony begins and spent when it ends, credentials with a signature    *)
(* counter, and answers of authenticators that arrive late, twice or at    *)
(* once.  A step is what runs between two awaits with its commit.          *)
(*                                                                         *)
(* What a passkey that was verified leads to, a session or the question    *)
(* for the second factor, is FirstFactor of SignIn.                        *)
(***************************************************************************)
EXTENDS Naturals, FiniteSets, FiniteSetsExt

CONSTANTS
    Counting,       \* authenticators that count their signatures
    Silent,         \* authenticators that always report 0
    Request,        \* the answers under way at a time (bound)
    MaxPasskeys,    \* MAX_PASSKEYS_PER_USER
    MaxChallenges,  \* ceremonies (bound)
    MaxRows,        \* ids of rows (bound)
    None

Credential == Counting \cup Silent
Id == 1..MaxRows
Challenge == 1..MaxChallenges
Ceremony == {"registration", "authentication"}
Count == Nat
Passkey == [credential : Credential, count : Count]

\* What an authenticator has signed, as it is sent to the server.
SignedAnswer == [ceremony : Ceremony, challenge : Challenge, credential : Credential, count : Count]
RequestState == [pc : {"verify", "record"}, answer : SignedAnswer, id : Id \cup {0}]

ASSUME PasskeyAssumption ==
    /\ {MaxPasskeys, MaxChallenges, MaxRows} \subseteq Nat \ {0}
    /\ IsFiniteSet(Counting) /\ IsFiniteSet(Silent) /\ Counting \cap Silent = {}
    /\ None \notin Passkey \cup RequestState \cup Ceremony

VARIABLES
    passkey,    \* the rows of passkeys by id
    stored,     \* the rows of passkey_challenges by number
    expired,    \* the challenges whose time is up
    begun,      \* ceremonies begun so far
    device,     \* the counters of the authenticators
    answers,    \* what authenticators have signed so far
    req,        \* the answers that the server works on
    attempts    \* how often an answer to a challenge was taken up

vars == <<passkey, stored, expired, begun, device, answers, req, attempts>>

Rows == {i \in Id : passkey[i] # None}
Registered == {passkey[i].credential : i \in Rows}
OneRowEach == \A i, j \in Rows : passkey[i].credential = passkey[j].credential => i = j
-----------------------------------------------------------------------------
(***************************************************************************)
(* The authenticators and the clock.                                       *)
(***************************************************************************)
Sign(d, n) ==
    /\ n <= begun /\ stored[n] # None
    /\ ~\E a \in answers : a.challenge = n
    /\ LET k == IF stored[n] = "authentication" /\ d \in Counting THEN device[d] + 1 ELSE device[d] IN
       /\ device' = [device EXCEPT ![d] = k]
       /\ answers' = answers \cup
            {[ceremony |-> stored[n], challenge |-> n, credential |-> d, count |-> k]}
    /\ UNCHANGED <<passkey, stored, expired, begun, req, attempts>>

Expire(n) ==
    /\ n <= begun /\ n \notin expired
    /\ expired' = expired \cup {n}
    /\ UNCHANGED <<passkey, stored, begun, device, answers, req, attempts>>
-----------------------------------------------------------------------------
(***************************************************************************)
(* A ceremony begins.                                                      *)
(***************************************************************************)
\* _issue_challenge purges what has expired.
Issue(ceremony) ==
    /\ begun < MaxChallenges
    /\ begun' = begun + 1
    /\ stored' = [n \in Challenge |->
                    CASE n = begun + 1 -> ceremony
                      [] n \in expired -> None
                      [] OTHER -> stored[n]]
    /\ UNCHANGED <<passkey, expired, device, answers, req, attempts>>

\* The limit is looked at here, and not when the ceremony ends.
BeginRegistration == Cardinality(Rows) < MaxPasskeys /\ Issue("registration")

BeginAuthentication == Issue("authentication")
-----------------------------------------------------------------------------
(***************************************************************************)
(* A ceremony ends.                                                        *)
(***************************************************************************)
Acceptable(n, ceremony) == stored[n] = ceremony /\ n \notin expired

\* Mutant: the challenge is spent with the rest, when the request commits.
StillStored(n) == stored

Without(n) == [stored EXCEPT ![n] = None]

\* consume_challenge deletes the challenge and is committed on its own.
Consume(r, a) ==
    /\ req[r] = None
    /\ Acceptable(a.challenge, a.ceremony)
    /\ stored' = Without(a.challenge)
    /\ attempts' = [attempts EXCEPT ![a.challenge] = @ + 1]
    /\ req' = [req EXCEPT ![r] = [pc |-> "verify", answer |-> a, id |-> 0]]
    /\ UNCHANGED <<passkey, expired, begun, device, answers>>

Ends(r) == req' = [req EXCEPT ![r] = None]

\* The handler fails, or its process ends: the challenge remains spent.
Fail(r) ==
    /\ req[r] # None
    /\ Ends(r)
    /\ UNCHANGED <<passkey, stored, expired, begun, device, answers, attempts>>

At(r, pc, ceremony) == req[r] # None /\ req[r].pc = pc /\ req[r].answer.ceremony = ceremony

\* SQLite gives a new row the id after the largest there is.
NextId == IF Rows = {} THEN 1 ELSE Max(Rows) + 1

\* Mutant: a credential that is known is registered again.
RegisterAgain(r) ==
    /\ At(r, "verify", "registration")
    /\ LET a == req[r].answer IN
       /\ NextId \in Id
       /\ passkey' = [passkey EXCEPT ![NextId] = [credential |-> a.credential, count |-> a.count]]
    /\ Ends(r)
    /\ UNCHANGED <<stored, expired, begun, device, answers, attempts>>

\* finish_registration; a credential that is known is refused.
Register(r) ==
    /\ At(r, "verify", "registration")
    /\ LET a == req[r].answer IN
       /\ a.credential \notin Registered
       /\ NextId \in Id
       /\ passkey' = [passkey EXCEPT ![NextId] = [credential |-> a.credential, count |-> a.count]]
    /\ Ends(r)
    /\ UNCHANGED <<stored, expired, begun, device, answers, attempts>>

\* verify_authentication_response: the counter grows, unless both are zero.
Verified(old, new) == new > old \/ (new = 0 /\ old = 0)

\* get_by_credential_id and the verification, with the counter as it was read.
Verify(r) ==
    /\ At(r, "verify", "authentication")
    /\ \E i \in Rows :
         /\ passkey[i].credential = req[r].answer.credential
         /\ Verified(passkey[i].count, req[r].answer.count)
         /\ req' = [req EXCEPT ![r].pc = "record", ![r].id = i]
    /\ UNCHANGED <<passkey, stored, expired, begun, device, answers, attempts>>

\* Mutant: the counter was compared with the one that was read.
AdvancesAlways(old, new) == TRUE

Advances(old, new) == IF new = 0 THEN old = 0 ELSE old < new

\* record_authentication compares with the row as it is.
Record(r) ==
    /\ At(r, "record", "authentication")
    /\ LET i == req[r].id
           n == req[r].answer.count
       IN /\ passkey[i] # None
          /\ Advances(passkey[i].count, n)
          /\ passkey' = [passkey EXCEPT ![i].count = n]
    /\ Ends(r)
    /\ UNCHANGED <<stored, expired, begun, device, answers, attempts>>

Delete(i) ==
    /\ i \in Rows
    /\ passkey' = [passkey EXCEPT ![i] = None]
    /\ UNCHANGED <<stored, expired, begun, device, answers, req, attempts>>
-----------------------------------------------------------------------------
\* The passkeys are those registered before, with counters not yet advanced.
Init ==
    /\ passkey \in [Id -> {[credential |-> c, count |-> 0] : c \in Credential} \cup {None}]
    /\ OneRowEach
    /\ Cardinality(Rows) <= MaxPasskeys /\ Rows = 1..Cardinality(Rows)
    /\ stored = [n \in Challenge |-> None]
    /\ expired = {}
    /\ begun = 0
    /\ device = [d \in Credential |-> 0]
    /\ answers = {}
    /\ req = [r \in Request |-> None]
    /\ attempts = [n \in Challenge |-> 0]

Next ==
    \/ \E d \in Credential, n \in Challenge : Sign(d, n)
    \/ \E n \in Challenge : Expire(n)
    \/ BeginRegistration \/ BeginAuthentication
    \/ \E r \in Request :
         \/ \E a \in answers : Consume(r, a)
         \/ Register(r) \/ Verify(r) \/ Record(r) \/ Fail(r)
    \/ \E i \in Id : Delete(i)

Spec == Init /\ [][Next]_vars
-----------------------------------------------------------------------------
\* The rows, the requests and the counters are what they should be (Passkey and
\* PasskeyChallenge in models/entities.py); an authenticator has one row, over
\* registrations begun together.
TypeOK ==
    /\ passkey \in [Id -> Passkey \cup {None}]
    /\ OneRowEach
    /\ stored \in [Challenge -> Ceremony \cup {None}]
    /\ expired \subseteq Challenge
    /\ begun \in 0..MaxChallenges
    /\ device \in [Credential -> Count]
    /\ answers \subseteq SignedAnswer
    /\ req \in [Request -> RequestState \cup {None}]
    /\ attempts \in [Challenge -> Nat]

\* A challenge is answered once, whoever fails afterwards and however often the
\* answer is sent: for an authenticator that does not count, nothing else keeps
\* one signature from signing in twice (_consume_challenge).
AnsweredOnce == \A n \in Challenge : attempts[n] <= 1

\* The counter of a passkey never goes back, in whatever order overlapping
\* sign-ins with it are recorded (record_authentication).
CounterNeverFalls ==
    [][\A i \in Id :
          passkey[i] # None /\ passkey'[i] # None /\ passkey'[i].credential = passkey[i].credential
            => passkey'[i].count >= passkey[i].count]_vars

\* security.md: "up to 10 per account".
PasskeyLimit == Cardinality(Rows) <= MaxPasskeys

\* What a sign-in records is the counter of the passkey that signed.
RecordsOwnCounter ==
    [][\A r \in Request :
          Record(r) => passkey[req[r].id].credential = req[r].answer.credential]_vars
=============================================================================
