----------------------------- MODULE SignInProofs -----------------------------
(***************************************************************************)
(* Theorems about SignIn for any browsers and requests under way, and any  *)
(* number of secrets, time steps and recovery codes.                       *)
(***************************************************************************)
EXTENDS SignIn, TLAPS

USE SignInAssumption DEF Issued, Secret, Step

\* A session of an account with a second factor says which secret it was for.
SoundCookie(c) == c.kind = "user" /\ c.fp.enabled => c.factor = c.fp.secret

\* What the checks leave for the writes to rely on; there is an account or not,
\* i hashes and secrets have been issued, and t is the time step.
RequestOK(q, exists, i, t) ==
    /\ q.cookie # None => SoundCookie(q.cookie)
    /\ q.pc = "act" =>
         /\ q.cookie # None
         /\ q.kind # "setup" => exists /\ q.row # None /\ q.row.secret <= i
         /\ q.kind = "begin" => ~q.row.enabled
         /\ q.kind = "confirm" => q.code \in Totp
         /\ q.kind = "change" => q.cookie.kind = "user" /\ q.cookie.fp = FingerprintOf(q.row)
         /\ q.code # None => /\ q.code \in Totp => q.code.secret = q.row.secret /\ q.code.n <= t
                             /\ q.code \in Recovery => q.code \in q.row.codes
                             /\ q.kind # "setup"

RequestsInv ==
    \A r \in Request : req[r] # None => RequestOK(req[r], account # None, issued, clock)
JarInv == \A b \in Browser : SoundCookie(jar[b])

\* No code of a secret that is not in force yet has been used, no recovery code
\* that is left has, and no TOTP code later than the last accepted one.
UsedInv ==
    /\ \A c \in Code : uses[c] <= 1 /\ (uses[c] > 0 => c.secret <= issued)
    /\ \A c \in Totp : uses[c] > 0 => c.n <= clock
AccountInv ==
    account # None =>
      /\ account.secret <= issued
      /\ \A c \in account.codes : uses[c] = 0 /\ c.secret <= issued
      /\ account.enabled =>
           /\ \A c \in Totp : uses[c] > 0 => c.n <= account.last
           /\ \E c \in Totp : c.secret = account.secret /\ uses[c] > 0
      /\ ~account.enabled => \A c \in Code : c.secret = account.secret => uses[c] = 0

\* A code that would confirm the pending secret is later than all used codes.
EnrolmentInv ==
    \A r \in Request :
      (/\ req[r] # None /\ req[r].pc = "act" /\ req[r].kind = "confirm"
       /\ account # None /\ ~account.enabled /\ account.secret = req[r].row.secret)
      => \A c \in Totp : uses[c] > 0 => c.n <= req[r].code.n

Typed ==
    /\ account \in Account \cup {None}
    /\ jar \in [Browser -> Cookie]
    /\ req \in [Request -> RequestState \cup {None}]
    /\ clock \in Step
    /\ issued \in 0..MaxIssued
    /\ uses \in [Code -> Nat]

SignInInv == Typed /\ RequestsInv /\ JarInv /\ UsedInv /\ AccountInv /\ EnrolmentInv
-----------------------------------------------------------------------------
(***************************************************************************)
(* Sessions and requests.                                                  *)
(***************************************************************************)
LEMMA SessionType ==
    ASSUME NEW k \in {"pending", "user"}, NEW a \in Account \cup Known, NEW f \in Secret,
           k = "user" /\ a.enabled => f = a.secret
    PROVE  /\ NewSession(k, a, f) \in Cookie
           /\ NewSession(k, a, f) # None
           /\ SoundCookie(NewSession(k, a, f))
<1> DEFINE x == NewSession(k, a, f)
<1>1. FingerprintOf(a) \in Fingerprint
  BY DEF FingerprintOf, Fingerprint, Account, Known
<1>2. x \in Session
  BY <1>1 DEF NewSession, Session
<1>3. x.kind = k /\ x.fp.enabled = a.enabled /\ x.fp.secret = a.secret /\ x.factor = f
  BY DEF NewSession, FingerprintOf
<1>4. x \in Cookie
  BY <1>2 DEF Cookie
<1> HIDE DEF x
<1> QED BY <1>3, <1>4 DEF SoundCookie, x

LEMMA Zeros == 0 \in Secret /\ 0 \in 0..MaxStep /\ {} \in SUBSET Recovery
OBVIOUS

LEMMA NoSessionType == NoSession \in Cookie /\ NoSession # None /\ SoundCookie(NoSession)
BY DEF Cookie, NoSession, SoundCookie

LEMMA ReplyType ==
    ASSUME NEW b \in Browser, NEW c \in Cookie \cup {None}, c # None => SoundCookie(c),
           NEW exists, NEW i, NEW t
    PROVE  /\ ReplyTo(b, c) \in RequestState /\ ReplyTo(b, c).pc = "reply"
           /\ RequestOK(ReplyTo(b, c), exists, i, t)
<1>1. ReplyTo(b, c) \in RequestState /\ ReplyTo(b, c).pc = "reply" /\ ReplyTo(b, c).cookie = c
  BY DEF ReplyTo, RequestState
<1> QED BY <1>1 DEF RequestOK

\* The other requests rely on nothing that a step takes away.
LEMMA OtherRequests ==
    ASSUME SignInInv, NEW r \in Request, NEW x \in RequestState \cup {None},
           req' = [req EXCEPT ![r] = x],
           x # None => RequestOK(x, account' # None, issued', clock'),
           issued \in Nat, issued' \in Nat, issued' >= issued, clock' \in Nat, clock' >= clock,
           account # None => account' # None
    PROVE  req' \in [Request -> RequestState \cup {None}] /\ RequestsInv'
<1> USE DEF SignInInv
<1>1. req' \in [Request -> RequestState \cup {None}]
  BY DEF Typed
<1>2. ASSUME NEW q \in Request, req'[q] # None
      PROVE  RequestOK(req'[q], account' # None, issued', clock')
  <2>1. CASE q = r
    BY <1>2, <2>1 DEF Typed
  <2>2. CASE q # r
    <3>1. req'[q] = req[q] /\ RequestOK(req[q], account # None, issued, clock) /\ req[q] \in RequestState
      BY <1>2, <2>2 DEF Typed, RequestsInv
    <3>2. req[q].row # None => req[q].row.secret \in Nat
      BY <3>1 DEF RequestState, Known
    <3>3. \A c \in Totp : c.n \in Nat
      BY DEF Totp
    <3>4. \A m \in Nat : (m <= issued => m <= issued') /\ (m <= clock => m <= clock')
      BY DEF Typed
    <3> QED BY <3>1, <3>2, <3>3, <3>4 DEF RequestOK
  <2> QED BY <2>1, <2>2
<1> QED BY <1>1, <1>2 DEF RequestsInv

\* A request that has only an answer left.
LEMMA RepliesStep ==
    ASSUME SignInInv, NEW r \in Request, NEW b \in Browser, NEW c \in Cookie,
           SoundCookie(c), Replies(r, b, c)
    PROVE  SignInInv'
<1> USE DEF SignInInv
<1>1. UNCHANGED <<account, jar, clock, issued, uses>> /\ req' = [req EXCEPT ![r] = ReplyTo(b, c)]
  BY DEF Replies
<1>2. ReplyTo(b, c) \in RequestState /\ ReplyTo(b, c).pc = "reply" 
      /\ RequestOK(ReplyTo(b, c), account' # None, issued', clock')
  BY ReplyType
<1>3. issued \in Nat /\ clock \in Nat
  BY DEF Typed
<1>4. req' \in [Request -> RequestState \cup {None}] /\ RequestsInv'
  <2>1. /\ issued' \in Nat /\ issued' >= issued /\ clock' \in Nat /\ clock' >= clock
        /\ account # None => account' # None
    BY <1>1, <1>3
  <2> HIDE DEF SignInInv
  <2> QED BY <1>1, <1>2, <1>3, <2>1, OtherRequests
<1>5. Typed' /\ JarInv' /\ UsedInv' /\ AccountInv'
  BY <1>1, <1>4 DEF Typed, JarInv, UsedInv, AccountInv, SoundCookie
<1>6. EnrolmentInv'
  <2>1. \A q \in Request : q # r => req'[q] = req[q]
    BY <1>1 DEF Typed
  <2>2. req'[r].pc = "reply"
    BY <1>1, <1>2 DEF Typed
  <2> QED BY <1>1, <2>1, <2>2 DEF EnrolmentInv
<1> QED BY <1>4, <1>5, <1>6

\* A request that has been checked and goes on to write.
LEMMA GoesOnStep ==
    ASSUME SignInInv, NEW r \in Request, NEW b \in Browser, NEW k \in Kind,
           NEW code \in Code \cup {None}, GoesOn(r, b, k, code),
           k # "setup" => account # None,
           k = "begin" => ~account.enabled,
           k = "confirm" => code \in Totp,
           k = "change" => SignedIn(jar[b], account),
           code # None => k # "setup" /\ Verifies(code, account)
    PROVE  SignInInv'
<1> USE DEF SignInInv
<1> DEFINE row == IF account = None THEN None ELSE KnownOf(account)
           x == [pc |-> "act", kind |-> k, browser |-> b, cookie |-> jar[b],
                 row |-> row, code |-> code]
<1>1. UNCHANGED <<account, jar, clock, issued, uses>> /\ req' = [req EXCEPT ![r] = x]
  BY DEF GoesOn
<1>2. account # None => /\ row \in Known /\ row # None /\ row.secret = account.secret
                        /\ row.enabled = account.enabled /\ row.codes = account.codes
                        /\ row.secret <= issued
                        /\ FingerprintOf(row) = FingerprintOf(account)
  <2> SUFFICES ASSUME account # None
               PROVE  /\ row \in Known /\ row # None /\ row.secret = account.secret
                      /\ row.enabled = account.enabled /\ row.codes = account.codes
                      /\ row.secret <= issued
                      /\ FingerprintOf(row) = FingerprintOf(account)
    OBVIOUS
  <2>1. account \in Account /\ account.secret <= issued
    BY DEF Typed, AccountInv
  <2>2. row = KnownOf(account)
    OBVIOUS
  <2>3. row \in Known
    BY <2>1, <2>2 DEF KnownOf, Known, Account
  <2> QED BY <2>1, <2>2, <2>3 DEF KnownOf, FingerprintOf
<1>3. jar[b] \in Cookie /\ jar[b] # None /\ SoundCookie(jar[b])
  BY DEF Typed, JarInv
<1>4. x \in RequestState
  BY <1>2, <1>3 DEF RequestState, Kind
<1>5. /\ x.pc = "act" /\ x.kind = k /\ x.cookie = jar[b] /\ x.row = row /\ x.code = code
  OBVIOUS
<1>6. code # None => /\ code \in Totp => code.secret = account.secret /\ code.n <= clock
                     /\ code \in Recovery => code \in account.codes
  BY DEF Verifies, Typed
<1> HIDE DEF x, row
<1>7. RequestOK(x, account' # None, issued', clock')
  BY <1>1, <1>2, <1>3, <1>5, <1>6 DEF RequestOK, SignedIn, Kind
<1>8. issued \in Nat /\ clock \in Nat
  BY DEF Typed
<1>9. req' \in [Request -> RequestState \cup {None}] /\ RequestsInv'
  <2>1. /\ issued' \in Nat /\ issued' >= issued /\ clock' \in Nat /\ clock' >= clock
        /\ account # None => account' # None
    BY <1>1, <1>8
  <2> HIDE DEF SignInInv
  <2> QED BY <1>1, <1>4, <1>7, <1>8, <2>1, OtherRequests
<1>10. Typed' /\ JarInv' /\ UsedInv' /\ AccountInv'
  BY <1>1, <1>9 DEF Typed, JarInv, UsedInv, AccountInv, SoundCookie
<1>11. EnrolmentInv'
  <2>1. \A q \in Request : q # r => req'[q] = req[q]
    BY <1>1 DEF Typed
  <2>2. req'[r] = x
    BY <1>1 DEF Typed
  <2>3. k = "confirm" => \A c \in Totp : uses[c] > 0 => c.n <= code.n
    <3>1. k = "confirm" => code # None /\ code.n = clock
      BY DEF Verifies, Code
    <3> QED BY <3>1 DEF UsedInv
  <2> QED BY <1>1, <1>5, <2>1, <2>2, <2>3 DEF EnrolmentInv
<1> QED BY <1>9, <1>10, <1>11

LEMMA CheckStep ==
    ASSUME SignInInv, NEW r \in Request, NEW b \in Browser, Check(r, b)
    PROVE  SignInInv'
<1>1. jar[b] \in Cookie /\ SoundCookie(jar[b])
  BY DEF SignInInv, Typed, JarInv
<1>2. CASE Visit(r, b) \/ Refuse(r, b) \/ Prompt(r, b) \/ Leave(r, b) \/ DropChallenge(r, b)
  BY <1>1, <1>2, RepliesStep, NoSessionType DEF Visit, Refuse, Prompt, Leave, DropChallenge
<1>3. CASE FirstFactor(r, b)
  <2> DEFINE k == IF account.enabled THEN "pending" ELSE "user"
  <2>1. account \in Account
    BY <1>3 DEF FirstFactor, SignInInv, Typed
  <2>2. account.enabled \in BOOLEAN
    BY <2>1 DEF Account
  <2>3. k \in {"pending", "user"} /\ (k = "user" => ~account.enabled) /\ 0 \in Secret
    BY <2>2
  <2>4. Replies(r, b, NewSession(k, account, 0))
    BY <1>3 DEF FirstFactor
  <2> HIDE DEF k
  <2>5. NewSession(k, account, 0) \in Cookie /\ SoundCookie(NewSession(k, account, 0))
    BY <2>1, <2>3, SessionType
  <2> QED BY <2>4, <2>5, RepliesStep
<1>4. CASE CheckSetup(r, b)
  BY <1>4, GoesOnStep DEF CheckSetup, Kind
<1>5. ASSUME NEW k \in Kind, CheckPassword(r, b, k) PROVE SignInInv'
  BY <1>5, GoesOnStep DEF CheckPassword, SignedIn
<1>6. ASSUME NEW code \in Code, CheckCode(r, b, code) PROVE SignInInv'
  BY <1>6, GoesOnStep DEF CheckCode, Challenged, Kind
<1>7. ASSUME NEW code \in Code, CheckEnrolment(r, b, code) PROVE SignInInv'
  BY <1>7, GoesOnStep DEF CheckEnrolment, SignedIn, Kind
<1> QED BY <1>2, <1>3, <1>4, <1>5, <1>6, <1>7 DEF Check

\* A request ends, with its cookie or without; and the clock.
LEMMA EndStep ==
    ASSUME SignInInv, NEW r \in Request, Reply(r) \/ Lose(r)
    PROVE  SignInInv'
<1> USE DEF SignInInv
<1>1. UNCHANGED <<account, clock, issued, uses>> /\ req' = [req EXCEPT ![r] = None] /\ req[r] # None
  BY DEF Reply, Lose
<1>2. req' \in [Request -> RequestState \cup {None}]
  BY <1>1 DEF Typed
<1>3. \A q \in Request : req'[q] # None => req'[q] = req[q]
  BY <1>1 DEF Typed
<1>4. jar' \in [Browser -> Cookie] /\ JarInv'
  <2>1. CASE UNCHANGED jar
    BY <2>1 DEF Typed, JarInv, SoundCookie
  <2>2. CASE req[r].cookie # None /\ jar' = [jar EXCEPT ![req[r].browser] = req[r].cookie]
    <3>1. req[r].cookie \in Cookie /\ SoundCookie(req[r].cookie)
      BY <1>1, <2>2 DEF Typed, RequestsInv, RequestOK, RequestState
    <3> QED BY <2>2, <3>1 DEF Typed, JarInv, SoundCookie
  <2> QED BY <2>1, <2>2 DEF Reply, Lose
<1>5. RequestsInv' /\ EnrolmentInv'
  BY <1>1, <1>3 DEF RequestsInv, RequestOK, EnrolmentInv, SoundCookie
<1>6. Typed' /\ UsedInv' /\ AccountInv'
  BY <1>1, <1>2, <1>4 DEF Typed, UsedInv, AccountInv
<1> QED BY <1>4, <1>5, <1>6

LEMMA TickStep ==
    ASSUME SignInInv, Tick
    PROVE  SignInInv'
<1> USE DEF SignInInv, Tick
<1>1. Typed' /\ JarInv' /\ AccountInv' /\ EnrolmentInv'
  BY DEF Typed, JarInv, AccountInv, EnrolmentInv, SoundCookie
<1>2. clock \in Nat /\ \A c \in Totp : c.n \in Nat
  BY DEF Typed, Totp
<1>3. UsedInv'
  BY <1>2 DEF UsedInv
<1>4. RequestsInv'
  BY <1>2 DEF RequestsInv, RequestOK, SoundCookie
<1> QED BY <1>1, <1>3, <1>4
-----------------------------------------------------------------------------
(***************************************************************************)
(* The writes, each with what it makes of the account.                     *)
(***************************************************************************)
\* A handler that has written answers; the others rely on what they did.
LEMMA Answered ==
    ASSUME SignInInv, NEW r \in Request, req[r] # None, NEW c \in Cookie \cup {None},
           c # None => SoundCookie(c), Answer(r, c), UNCHANGED <<jar, clock>>,
           account' \in Account \cup {None}, account # None => account' # None,
           issued' \in 0..MaxIssued, issued' >= issued, uses' \in [Code -> Nat]
    PROVE  Typed' /\ RequestsInv' /\ JarInv'
<1>1. req[r].browser \in Browser
  BY DEF SignInInv, Typed, RequestState
<1> DEFINE x == ReplyTo(req[r].browser, c)
<1>2. /\ x \in RequestState
      /\ RequestOK(x, account' # None, issued', clock')
  BY <1>1, ReplyType
<1>3. req' = [req EXCEPT ![r] = x]
  BY DEF Answer
<1>4. issued \in Nat /\ issued' \in Nat /\ clock' \in Nat /\ clock' >= clock
  BY DEF SignInInv, Typed
<1> HIDE DEF x
<1>5. req' \in [Request -> RequestState \cup {None}] /\ RequestsInv'
  BY <1>2, <1>3, <1>4, OtherRequests
<1>6. Typed' /\ JarInv'
  BY <1>5 DEF SignInInv, Typed, JarInv
<1> QED BY <1>5, <1>6

\* Which requests still write: none but those that did before, and not this one.
LEMMA AnsweredOthers ==
    ASSUME SignInInv, NEW r \in Request, req[r] # None, NEW c, Answer(r, c)
    PROVE  \A q \in Request : req'[q] # None /\ req'[q].pc = "act" => q # r /\ req'[q] = req[q]
<1>1. ReplyTo(req[r].browser, c).pc = "reply"
  BY DEF ReplyTo
<1> QED BY <1>1 DEF SignInInv, Typed, Answer

\* What a request that writes has found out before.
LEMMA Read ==
    ASSUME SignInInv, NEW r \in Request, NEW k \in Kind, Acts(r, k)
    PROVE  /\ req[r] # None /\ req[r] \in RequestState /\ req[r].cookie \in Cookie
           /\ SoundCookie(req[r].cookie)
           /\ RequestOK(req[r], account # None, issued, clock)
           /\ k # "setup" => account \in Account /\ account # None /\ req[r].row \in Known
           /\ req[r].pc = "act" /\ req[r].kind = k
<1>1. req[r] # None /\ req[r] \in RequestState /\ RequestOK(req[r], account # None, issued, clock)
  BY DEF SignInInv, Typed, RequestsInv, Acts
<1>2. req[r].pc = "act" /\ req[r].kind = k
  BY DEF Acts
<1>3. req[r].cookie \in Cookie /\ SoundCookie(req[r].cookie)
  BY <1>1, <1>2 DEF RequestOK, RequestState
<1>4. k # "setup" => account \in Account /\ account # None /\ req[r].row \in Known
  BY <1>1, <1>2 DEF RequestOK, RequestState, SignInInv, Typed
<1> QED BY <1>1, <1>2, <1>3, <1>4

\* A refused write changes nothing but the request.
LEMMA RefusedStep ==
    ASSUME SignInInv, NEW r \in Request, NEW k \in Kind, Acts(r, k),
           NEW c \in Cookie \cup {None}, c # None => SoundCookie(c), Answer(r, c),
           UNCHANGED <<account, jar, clock, issued, uses>>
    PROVE  SignInInv'
<1>1. req[r] # None
  BY DEF Acts
<1>2. Typed' /\ RequestsInv' /\ JarInv'
  BY <1>1, Answered DEF SignInInv, Typed
<1>3. \A q \in Request : req'[q] # None /\ req'[q].pc = "act" => q # r /\ req'[q] = req[q]
  BY <1>1, AnsweredOthers
<1>4. UsedInv' /\ AccountInv'
  BY DEF SignInInv, UsedInv, AccountInv
<1>5. EnrolmentInv'
  BY <1>3 DEF SignInInv, EnrolmentInv
<1> QED BY <1>2, <1>4, <1>5 DEF SignInInv

LEMMA SetupStep ==
    ASSUME SignInInv, NEW r \in Request, Setup(r)
    PROVE  SignInInv'
<1>1. Acts(r, "setup") /\ "setup" \in Kind /\ req[r] # None
  BY DEF Setup, Kind, Acts
<1>2. CASE account # None
  <2>1. Answer(r, None) /\ UNCHANGED <<account, jar, clock, issued, uses>>
    BY <1>2 DEF Setup
  <2> QED BY <1>1, <2>1, RefusedStep
<1>3. CASE account = None
  <2>1. /\ issued < MaxIssued /\ issued' = issued + 1 /\ UNCHANGED <<jar, clock, uses>>
        /\ account' = Row(issued + 1, 0, FALSE, {}, 0)
        /\ Answer(r, NewSession("user", account', 0))
    BY <1>3 DEF Setup
  <2>2. issued \in 0..MaxIssued /\ issued' \in 0..MaxIssued /\ issued' >= issued
    BY <2>1 DEF SignInInv, Typed
  <2>3. account' \in Account /\ ~account'.enabled /\ account'.secret = 0 /\ account'.codes = {}
    BY <2>1, <2>2 DEF Row, Account
  <2>4. PICK a : a = account'
    OBVIOUS
  <2>5. NewSession("user", a, 0) \in Cookie /\ SoundCookie(NewSession("user", a, 0))
    BY <2>3, <2>4, SessionType
  <2>6. Typed' /\ RequestsInv' /\ JarInv'
    BY <1>1, <1>3, <2>1, <2>2, <2>3, <2>4, <2>5, Answered DEF SignInInv, Typed
  <2>7. \A q \in Request : req'[q] # None /\ req'[q].pc = "act" => q # r /\ req'[q] = req[q]
    BY <1>1, <2>1, <2>4, AnsweredOthers
  <2>8. UsedInv'
    BY <2>1, <2>2 DEF SignInInv, UsedInv, Code, Totp, Recovery
  <2>9. \A c \in Code : c.secret # 0
    BY DEF Code, Totp, Recovery
  <2>10. AccountInv'
    BY <2>2, <2>3, <2>9 DEF AccountInv
  <2>11. EnrolmentInv'
    <3>1. \A q \in Request : req'[q] # None /\ req'[q].pc = "act" => req'[q].kind = "setup"
      BY <1>3, <2>7 DEF SignInInv, RequestsInv, RequestOK
    <3> QED BY <3>1 DEF EnrolmentInv
  <2> QED BY <2>6, <2>8, <2>10, <2>11 DEF SignInInv
<1> QED BY <1>2, <1>3

\* A code that was checked is accepted: the account with its last step or its
\* codes changed and nothing else.
LEMMA UseStep ==
    ASSUME SignInInv, NEW r \in Request, Acts(r, "otp"), NEW a \in Account,
           account.enabled, req[r].code \in Code, uses[req[r].code] = 0,
           req[r].code.secret <= issued,
           account' = a, a.secret = account.secret, a.enabled,
           a.codes \subseteq account.codes \ {req[r].code},
           \A c \in Totp : c.n <= account.last \/ c = req[r].code => c.n <= a.last,
           req[r].code \in Totp => req[r].code.n <= clock,
           Used(req[r].code), UNCHANGED <<jar, clock, issued>>,
           Answer(r, NewSession("user", req[r].row, req[r].row.secret))
    PROVE  SignInInv'
<1> DEFINE code == req[r].code
           row == req[r].row
<1>1. /\ "otp" \in Kind /\ req[r] # None /\ row \in Known /\ account \in Account /\ account # None
  BY Read DEF Kind
<1>2. NewSession("user", row, row.secret) \in Cookie /\ SoundCookie(NewSession("user", row, row.secret))
  <2>1. row.secret \in Secret
    BY <1>1 DEF Known
  <2> QED BY <1>1, <2>1, SessionType
<1>3. uses \in [Code -> Nat] /\ uses' = [uses EXCEPT ![code] = 1]
  BY DEF SignInInv, Typed, Used
<1>4. Typed' /\ RequestsInv' /\ JarInv'
  <2>1. /\ account' \in Account \cup {None} /\ account' # None /\ uses' \in [Code -> Nat]
        /\ issued' \in 0..MaxIssued /\ issued' >= issued
    BY <1>3 DEF SignInInv, Typed
  <2> HIDE DEF row, code
  <2>2. Answer(r, NewSession("user", row, row.secret))
    BY DEF row
  <2> QED BY <1>1, <1>2, <2>1, <2>2, Answered
<1>5. \A q \in Request : req'[q] # None /\ req'[q].pc = "act" => q # r /\ req'[q] = req[q]
  BY <1>1, AnsweredOthers
<1>6. \A c \in Code : uses'[c] = IF c = code THEN 1 ELSE uses[c]
  BY <1>3
<1> HIDE DEF code
<1>7. UsedInv'
  <2>1. \A c \in Totp : c \in Code
    BY DEF Code
  <2>2. code.secret <= issued /\ (code \in Totp => code.n <= clock)
    BY DEF code
  <2> QED BY <1>6, <2>1, <2>2 DEF SignInInv, UsedInv
<1>8. AccountInv'
  <2>1. \A c \in a.codes : c # code /\ c \in account.codes /\ c \in Code
    BY <1>1 DEF code, Account, Code
  <2>2. \A c \in a.codes : uses'[c] = 0 /\ c.secret <= issued
    BY <1>1, <1>6, <2>1 DEF SignInInv, AccountInv
  <2>3. ASSUME NEW c \in Totp, uses'[c] > 0 PROVE c.n <= a.last
    <3>1. c \in Code
      BY DEF Code
    <3>2. c = code \/ c.n <= account.last
      BY <1>1, <1>6, <2>3, <3>1 DEF SignInInv, AccountInv
    <3> QED BY <3>2 DEF code
  <2>4. PICK c \in Totp : c.secret = account.secret /\ uses[c] > 0
    BY <1>1 DEF SignInInv, AccountInv
  <2>5. c.secret = a.secret /\ uses'[c] > 0
    BY <1>6, <2>4 DEF Code
  <2>6. a.secret <= issued
    BY <1>1 DEF SignInInv, AccountInv
  <2> QED BY <2>2, <2>3, <2>5, <2>6 DEF AccountInv
<1>9. EnrolmentInv'
  BY DEF EnrolmentInv
<1> QED BY <1>4, <1>7, <1>8, <1>9 DEF SignInInv

LEMMA UseTotpStep ==
    ASSUME SignInInv, NEW r \in Request, UseTotp(r)
    PROVE  SignInInv'
<1> DEFINE code == req[r].code
<1>1. /\ Acts(r, "otp") /\ "otp" \in Kind /\ code \in Totp /\ code \in Code
  BY DEF UseTotp, Kind, Code
<1>2. /\ req[r] # None /\ req[r].cookie \in Cookie /\ SoundCookie(req[r].cookie)
      /\ RequestOK(req[r], account # None, issued, clock)
      /\ account \in Account /\ account # None /\ req[r].row \in Known /\ req[r].pc = "act"
      /\ req[r].kind = "otp"
  BY <1>1, Read
<1>3. CASE ~StepIsNew(code.n)
  <2>1. Answer(r, req[r].cookie) /\ UNCHANGED <<account, jar, clock, issued, uses>>
    BY <1>3 DEF UseTotp, Same
  <2> QED BY <1>1, <1>2, <2>1, RefusedStep
<1>4. CASE StepIsNew(code.n)
  <2> DEFINE a == [account EXCEPT !.last = code.n]
  <2>1. account.enabled /\ account.last < code.n /\ code.n \in Step
    BY <1>1, <1>4 DEF StepIsNew, Totp
  <2>2. code.secret <= issued /\ code.n <= clock
    BY <1>1, <1>2 DEF RequestOK
  <2>3. uses[code] = 0
    <3>1. ~(code.n <= account.last) /\ uses[code] \in Nat
      BY <1>1, <1>2, <2>1 DEF Account, SignInInv, Typed
    <3> QED BY <1>1, <1>2, <2>1, <3>1 DEF SignInInv, AccountInv
  <2>4. a \in Account /\ a.secret = account.secret /\ a.enabled /\ a.codes = account.codes
        /\ a.last = code.n
    BY <1>2, <2>1 DEF Account
  <2>5. code \notin account.codes
    BY <1>1, <1>2 DEF Account, Totp, Recovery
  <2>6. \A c \in Totp : c.n <= account.last \/ c = code => c.n <= a.last
    BY <1>2, <2>1, <2>4 DEF Totp, Account
  <2>7. account' = a /\ Used(code) /\ Answer(r, NewSession("user", req[r].row, req[r].row.secret))
        /\ UNCHANGED <<jar, clock, issued>>
    BY <1>4 DEF UseTotp
  <2> HIDE DEF a
  <2> QED BY <1>1, <2>1, <2>2, <2>3, <2>4, <2>5, <2>6, <2>7, UseStep
<1> QED BY <1>3, <1>4

LEMMA UseRecoveryStep ==
    ASSUME SignInInv, NEW r \in Request, UseRecovery(r)
    PROVE  SignInInv'
<1> DEFINE code == req[r].code
<1>1. /\ Acts(r, "otp") /\ "otp" \in Kind /\ code \in Recovery /\ code \in Code
      /\ code # None /\ code \notin Totp
  BY DEF UseRecovery, Kind, Code, Totp, Recovery
<1>2. /\ req[r] # None /\ req[r].cookie \in Cookie /\ SoundCookie(req[r].cookie)
      /\ RequestOK(req[r], account # None, issued, clock)
      /\ account \in Account /\ account # None /\ req[r].row \in Known /\ req[r].pc = "act"
  BY <1>1, Read
<1>3. CASE ~(account.enabled /\ account.codes = req[r].row.codes)
  <2>1. Answer(r, req[r].cookie) /\ UNCHANGED <<account, jar, clock, issued, uses>>
    BY <1>3 DEF UseRecovery, Same
  <2> QED BY <1>1, <1>2, <2>1, RefusedStep
<1>4. CASE account.enabled /\ account.codes = req[r].row.codes
  <2> DEFINE a == [account EXCEPT !.codes = req[r].row.codes \ {code}]
  <2>1. code \in account.codes
    BY <1>1, <1>2, <1>4 DEF RequestOK
  <2>2. uses[code] = 0 /\ code.secret <= issued
    BY <1>2, <2>1 DEF SignInInv, AccountInv
  <2>3. a \in Account /\ a.secret = account.secret /\ a.enabled
        /\ a.codes = account.codes \ {code} /\ a.last = account.last
    BY <1>2, <1>4 DEF Account
  <2>4. \A c \in Totp : c.n <= account.last \/ c = code => c.n <= a.last
    BY <1>1, <2>3
  <2>5. account' = a /\ Used(code) /\ Answer(r, NewSession("user", req[r].row, req[r].row.secret))
        /\ UNCHANGED <<jar, clock, issued>>
    BY <1>4 DEF UseRecovery
  <2> HIDE DEF a
  <2> QED BY <1>1, <1>4, <2>2, <2>3, <2>4, <2>5, UseStep
<1> QED BY <1>3, <1>4

\* A change of the settings that uses no code.
LEMMA SettingsStep ==
    ASSUME SignInInv, NEW r \in Request, req[r] # None, NEW a \in Account,
           NEW c \in Cookie, SoundCookie(c), Answer(r, c),
           account' = a, UNCHANGED <<jar, clock, uses>>,
           issued' \in 0..MaxIssued, issued' >= issued, a.secret <= issued',
           AccountInv',
           \A q \in Request :
             (/\ req[q] # None /\ req[q].pc = "act" /\ req[q].kind = "confirm"
              /\ ~a.enabled /\ a.secret = req[q].row.secret)
             => account # None /\ ~account.enabled /\ account.secret = a.secret
    PROVE  SignInInv'
<1>1. Typed' /\ RequestsInv' /\ JarInv'
  <2>1. account' \in Account \cup {None} /\ account' # None /\ uses' \in [Code -> Nat]
    BY DEF SignInInv, Typed
  <2> QED BY <2>1, Answered
<1>2. \A q \in Request : req'[q] # None /\ req'[q].pc = "act" => q # r /\ req'[q] = req[q]
  BY AnsweredOthers
<1>3. UsedInv'
  <2>1. issued \in Nat /\ \A x \in Code : x.secret \in Nat
    BY DEF SignInInv, Typed, Code, Totp, Recovery
  <2> QED BY <2>1 DEF SignInInv, UsedInv
<1>4. EnrolmentInv'
  BY <1>2 DEF SignInInv, EnrolmentInv
<1> QED BY <1>1, <1>3, <1>4 DEF SignInInv

LEMMA BeginStep ==
    ASSUME SignInInv, NEW r \in Request, Begin(r)
    PROVE  SignInInv'
<1>1. Acts(r, "begin") /\ "begin" \in Kind
  BY DEF Begin, Kind
<1>2. /\ req[r] # None /\ req[r].cookie \in Cookie /\ SoundCookie(req[r].cookie)
      /\ RequestOK(req[r], account # None, issued, clock)
      /\ account \in Account /\ account # None /\ req[r].row \in Known
      /\ req[r].pc = "act" /\ req[r].kind = "begin"
  BY <1>1, Read
<1>3. CASE account.enabled
  <2>1. Answer(r, req[r].cookie) /\ UNCHANGED <<account, jar, clock, issued, uses>>
    BY <1>3 DEF Begin, Same
  <2> QED BY <1>1, <1>2, <2>1, RefusedStep
<1>4. CASE ~account.enabled
  <2> DEFINE a == [account EXCEPT !.secret = issued + 1, !.codes = {}, !.last = 0]
             known == [req[r].row EXCEPT !.secret = issued + 1]
  <2>1. /\ issued' = issued + 1 /\ account' = a /\ UNCHANGED <<jar, clock, uses>>
        /\ Answer(r, NewSession("user", known, 0))
    BY <1>4 DEF Begin, Renew
  <2>2. issued \in Nat /\ issued + 1 \in Secret /\ issued' \in 0..MaxIssued /\ issued' >= issued
    BY <1>4, <2>1 DEF Begin, SignInInv, Typed
  <2>3. a \in Account /\ a.secret = issued + 1 /\ ~a.enabled /\ a.codes = {}
    BY <1>2, <1>4, <2>2, Zeros DEF Account
  <2>4. known \in Known /\ ~known.enabled
    BY <1>2, <2>2 DEF Known, RequestOK
  <2> HIDE DEF a, known
  <2>5. NewSession("user", known, 0) \in Cookie /\ SoundCookie(NewSession("user", known, 0))
    BY <2>4, SessionType
  <2>6. \A c \in Code : c.secret = a.secret => uses[c] = 0
    <3>1. \A c \in Code : uses[c] \in Nat /\ c.secret \in Nat
      BY DEF SignInInv, Typed, Code, Totp, Recovery
    <3> QED BY <2>2, <2>3, <3>1 DEF SignInInv, UsedInv
  <2>7. AccountInv'
    BY <2>1, <2>2, <2>3, <2>6 DEF AccountInv
  <2>8. ASSUME NEW q \in Request, req[q] # None, req[q].pc = "act", req[q].kind = "confirm"
        PROVE  a.secret # req[q].row.secret
    <3>1. req[q].row.secret <= issued /\ req[q].row \in Known
      BY <2>8 DEF SignInInv, Typed, RequestsInv, RequestOK, RequestState
    <3> QED BY <2>2, <2>3, <3>1 DEF Known
  <2>9. a.secret <= issued'
    BY <2>1, <2>2, <2>3
  <2> QED BY <1>2, <2>1, <2>2, <2>3, <2>5, <2>7, <2>8, <2>9, SettingsStep
<1> QED BY <1>3, <1>4

LEMMA DisableStep ==
    ASSUME SignInInv, NEW r \in Request, Disable(r)
    PROVE  SignInInv'
<1>1. Acts(r, "disable") /\ "disable" \in Kind
  BY DEF Disable, Kind
<1>2. req[r] # None /\ account \in Account /\ account # None /\ req[r].row \in Known
  BY <1>1, Read
<1> DEFINE a == [account EXCEPT !.secret = 0, !.enabled = FALSE, !.codes = {}, !.last = 0]
           known == [req[r].row EXCEPT !.secret = 0, !.enabled = FALSE]
<1>3. account' = a /\ UNCHANGED <<jar, clock, issued, uses>> /\ Answer(r, NewSession("user", known, 0))
  BY DEF Disable, Renew
<1>4. issued \in 0..MaxIssued /\ issued' \in 0..MaxIssued /\ issued' >= issued
  BY <1>3 DEF SignInInv, Typed
<1>5. a \in Account /\ a.secret = 0 /\ ~a.enabled /\ a.codes = {}
  BY <1>2, Zeros DEF Account
<1>6. known \in Known /\ ~known.enabled
  BY <1>2, Zeros DEF Known
<1> HIDE DEF a, known
<1>7. NewSession("user", known, 0) \in Cookie /\ SoundCookie(NewSession("user", known, 0))
  BY <1>6, SessionType
<1>8. \A c \in Code : c.secret # 0
  BY DEF Code, Totp, Recovery
<1>9. AccountInv'
  BY <1>3, <1>4, <1>5, <1>8 DEF AccountInv
<1>10. ASSUME NEW q \in Request, req[q] # None, req[q].pc = "act", req[q].kind = "confirm"
       PROVE  a.secret # req[q].row.secret
  <2>1. req[q].code \in Totp /\ req[q].code # None
    BY <1>10 DEF SignInInv, RequestsInv, RequestOK, Code
  <2>2. req[q].code.secret = req[q].row.secret
    BY <1>10, <2>1 DEF SignInInv, RequestsInv, RequestOK
  <2> QED BY <1>5, <2>1, <2>2 DEF Totp
<1>11. a.secret <= issued'
  BY <1>4, <1>5
<1> QED BY <1>2, <1>3, <1>4, <1>5, <1>7, <1>9, <1>10, <1>11, SettingsStep

LEMMA ChangeStep ==
    ASSUME SignInInv, NEW r \in Request, Change(r)
    PROVE  SignInInv'
<1>1. Acts(r, "change") /\ "change" \in Kind
  BY DEF Change, Kind
<1>2. /\ req[r] # None /\ req[r].cookie \in Cookie /\ SoundCookie(req[r].cookie)
      /\ RequestOK(req[r], account # None, issued, clock)
      /\ account \in Account /\ account # None /\ req[r].row \in Known
      /\ req[r].pc = "act" /\ req[r].kind = "change"
  BY <1>1, Read
<1> DEFINE a == [account EXCEPT !.hash = issued + 1]
           known == [req[r].row EXCEPT !.hash = issued + 1]
           f == req[r].cookie.factor
<1>3. /\ account' = a /\ issued' = issued + 1 /\ issued < MaxIssued
      /\ UNCHANGED <<jar, clock, uses>> /\ Answer(r, NewSession("user", known, f))
  BY DEF Change, Renew
<1>4. issued \in Nat /\ issued + 1 \in Issued /\ issued' \in 0..MaxIssued /\ issued' >= issued
  BY <1>3 DEF SignInInv, Typed
<1>5. a \in Account /\ a.secret = account.secret /\ a.enabled = account.enabled
      /\ a.codes = account.codes /\ a.last = account.last
  BY <1>2, <1>4 DEF Account
<1>6. known \in Known /\ known.enabled = req[r].row.enabled /\ known.secret = req[r].row.secret
  BY <1>2, <1>4 DEF Known
<1>7. /\ req[r].cookie.kind = "user" /\ req[r].cookie.fp.enabled = req[r].row.enabled
      /\ req[r].cookie.fp.secret = req[r].row.secret
  BY <1>2 DEF RequestOK, FingerprintOf
<1>8. f \in Secret
  BY <1>2, <1>7 DEF Cookie, Session, NoSession
<1>9. known.enabled => f = known.secret
  BY <1>2, <1>6, <1>7 DEF SoundCookie
<1> HIDE DEF a, known, f
<1>10. NewSession("user", known, f) \in Cookie /\ SoundCookie(NewSession("user", known, f))
  BY <1>6, <1>8, <1>9, SessionType
<1>11. a.secret <= issued' /\ \A c \in a.codes : c.secret <= issued'
  <2>1. account.secret \in Nat /\ \A c \in account.codes : c.secret \in Nat
    BY <1>2 DEF Account, Recovery
  <2> QED BY <1>2, <1>3, <1>4, <1>5, <2>1 DEF SignInInv, AccountInv
<1>12. AccountInv'
  BY <1>2, <1>3, <1>5, <1>11 DEF SignInInv, AccountInv
<1> QED BY <1>2, <1>3, <1>4, <1>5, <1>10, <1>11, <1>12, SettingsStep

LEMMA ConfirmStep ==
    ASSUME SignInInv, NEW r \in Request, Confirm(r)
    PROVE  SignInInv'
<1> DEFINE code == req[r].code
           s == req[r].row.secret
<1>1. Acts(r, "confirm") /\ "confirm" \in Kind
  BY DEF Confirm, Kind
<1>2. /\ req[r] # None /\ req[r].cookie \in Cookie /\ SoundCookie(req[r].cookie)
      /\ RequestOK(req[r], account # None, issued, clock)
      /\ account \in Account /\ account # None /\ req[r].row \in Known
      /\ req[r].pc = "act" /\ req[r].kind = "confirm"
  BY <1>1, Read
<1>3. code \in Totp /\ code \in Code /\ code # None
  BY <1>2 DEF RequestOK, Code
<1>4. code.secret = s /\ code.n <= clock /\ s <= issued /\ code.n \in Step /\ s \in Secret
  BY <1>2, <1>3 DEF RequestOK, Totp, Known
<1>5. CASE ~StillPending(s)
  <2>1. Answer(r, req[r].cookie) /\ UNCHANGED <<account, jar, clock, issued, uses>>
    BY <1>5 DEF Confirm, Same
  <2> QED BY <1>1, <1>2, <2>1, RefusedStep
<1>6. CASE StillPending(s)
  <2> DEFINE a == [account EXCEPT !.enabled = TRUE, !.codes = CodesOf(s), !.last = code.n]
             known == [req[r].row EXCEPT !.enabled = TRUE]
  <2>1. /\ account' = a /\ Used(code) /\ UNCHANGED <<jar, clock, issued>>
        /\ Answer(r, NewSession("user", known, s))
    BY <1>6 DEF Confirm, Renew
  <2>2. ~account.enabled /\ account.secret = s
    BY <1>6 DEF StillPending
  <2>3. CodesOf(s) \subseteq Recovery /\ \A c \in CodesOf(s) : c.secret = s
    BY DEF CodesOf
  <2>4. a \in Account /\ a.secret = s /\ a.enabled /\ a.codes = CodesOf(s) /\ a.last = code.n
    <3>1. code.n \in 0..MaxStep /\ CodesOf(s) \in SUBSET Recovery
      BY <1>4, <2>3
    <3> HIDE DEF code, s
    <3> QED BY <1>2, <2>2, <3>1 DEF Account
  <2>5. known \in Known /\ known.secret = s
    BY <1>2 DEF Known
  <2>6. \A c \in Code : c.secret = s => uses[c] = 0
    BY <1>2, <2>2 DEF SignInInv, AccountInv
  <2>7. \A c \in Totp : uses[c] > 0 => c.n <= code.n
    BY <1>2, <2>2 DEF SignInInv, EnrolmentInv
  <2> HIDE DEF a, known, s, code
  <2>8. NewSession("user", known, s) \in Cookie /\ SoundCookie(NewSession("user", known, s))
    BY <1>4, <2>5, SessionType
  <2>9. uses \in [Code -> Nat] /\ uses' = [uses EXCEPT ![code] = 1]
    <3>1. uses \in [Code -> Nat] /\ uses[code] = 0
      BY <1>3, <1>4, <2>6 DEF SignInInv, Typed
    <3> QED BY <1>3, <2>1, <3>1 DEF Used
  <2>10. \A c \in Code : uses'[c] = IF c = code THEN 1 ELSE uses[c]
    BY <2>9
  <2>11. Typed' /\ RequestsInv' /\ JarInv'
    <3>1. /\ account' \in Account \cup {None} /\ account' # None /\ uses' \in [Code -> Nat]
          /\ issued' \in 0..MaxIssued /\ issued' >= issued
      <4>1. uses' \in [Code -> Nat]
        BY <1>3, <2>9
      <4>2. issued \in 0..MaxIssued
        BY DEF SignInInv, Typed
      <4> QED BY <2>1, <2>4, <4>1, <4>2
    <3> QED BY <1>2, <2>1, <2>8, <3>1, Answered
  <2>12. UsedInv'
    <3>1. \A c \in Totp : c \in Code
      BY DEF Code
    <3> QED BY <1>4, <2>1, <2>10, <3>1 DEF SignInInv, UsedInv
  <2>13. AccountInv'
    <3>1. \A c \in a.codes : uses'[c] = 0 /\ c.secret <= issued
      <4>1. \A c \in a.codes : c \in Code /\ c # code
        BY <1>3, <2>3, <2>4 DEF Code, Recovery, Totp
      <4> QED BY <1>4, <2>3, <2>4, <2>6, <2>10, <4>1
    <3>2. \A c \in Totp : uses'[c] > 0 => c.n <= a.last
      <4>1. \A c \in Totp : c \in Code
        BY DEF Code
      <4> QED BY <1>4, <2>4, <2>7, <2>10, <4>1
    <3>3. code \in Totp /\ code.secret = a.secret /\ uses'[code] > 0
      BY <1>3, <1>4, <2>4, <2>10
    <3> QED BY <1>4, <2>1, <2>4, <3>1, <3>2, <3>3 DEF AccountInv
  <2>14. EnrolmentInv'
    BY <2>1, <2>4 DEF EnrolmentInv
  <2> QED BY <2>11, <2>12, <2>13, <2>14 DEF SignInInv
<1> QED BY <1>5, <1>6
-----------------------------------------------------------------------------
LEMMA SignInInit == Init => SignInInv
<1> SUFFICES ASSUME Init PROVE SignInInv
  OBVIOUS
<1>1. account \in Account \cup {None} /\ issued \in 0..MaxIssued
  <2>1. Row(1, 0, FALSE, {}, 0) \in Account
    BY Zeros DEF Row, Account
  <2>2. MaxIssued \in Nat /\ MaxIssued >= 1
    OBVIOUS
  <2>3. issued \in 0..MaxIssued
    <3>1. 0 \in 0..MaxIssued /\ 1 \in 0..MaxIssued
      BY <2>2
    <3>2. issued = 0 \/ issued = 1
      BY DEF Init
    <3> QED BY <3>1, <3>2
  <2> QED BY <2>1, <2>3 DEF Init
<1>2. Typed
  BY <1>1, NoSessionType DEF Init, Typed
<1>3. RequestsInv /\ EnrolmentInv
  BY DEF Init, RequestsInv, EnrolmentInv
<1>4. JarInv
  BY NoSessionType DEF Init, JarInv
<1>5. UsedInv
  BY DEF Init, UsedInv, Code
<1>6. AccountInv
  BY DEF Init, AccountInv, Row
<1> QED BY <1>2, <1>3, <1>4, <1>5, <1>6 DEF SignInInv

LEMMA SignInStep ==
    ASSUME SignInInv, [Next]_vars
    PROVE  SignInInv'
<1>1. CASE UNCHANGED vars
  BY <1>1 DEF vars, SignInInv, Typed, RequestsInv, JarInv, UsedInv, AccountInv, EnrolmentInv
<1>2. ASSUME NEW r \in Request, Act(r) PROVE SignInInv'
  BY <1>2, SetupStep, UseTotpStep, UseRecoveryStep, BeginStep, ConfirmStep, DisableStep,
     ChangeStep
  DEF Act
<1> QED BY <1>1, <1>2, CheckStep, EndStep, TickStep DEF Next

LEMMA SignInInvariant == Spec => []SignInInv
BY SignInInit, SignInStep, PTL DEF Spec

\* What enrolment puts there, a sign-in takes from and disabling clears, are
\* the codes of one secret.
LEMMA RecoveryCodesStep ==
    ASSUME SignInInv, RecoveryCodesInForce, [Next]_vars
    PROVE  RecoveryCodesInForce'
<1>1. ASSUME NEW r \in Request, Act(r)
      PROVE  RecoveryCodesInForce'
  <2>1. CASE Setup(r)
    BY <2>1 DEF Setup, Row, RecoveryCodesInForce
  <2>3. CASE UseTotp(r)
    <3>1. account \in Account /\ account # None
      BY <2>3, Read DEF UseTotp, Kind
    <3> QED BY <2>3, <3>1 DEF UseTotp, RecoveryCodesInForce, Account
  <2>4. CASE UseRecovery(r)
    <3>1. account \in Account /\ account # None
      BY <2>4, Read DEF UseRecovery, Kind
    <3> QED BY <2>4, <3>1 DEF UseRecovery, RecoveryCodesInForce, Account
  <2>5. CASE Begin(r)
    <3>1. account \in Account /\ account # None
      BY <2>5, Read DEF Begin, Kind
    <3> QED BY <2>5, <3>1 DEF Begin, RecoveryCodesInForce, Account
  <2>6. CASE Confirm(r)
    <3>1. account \in Account /\ account # None
      BY <2>6, Read DEF Confirm, Kind
    <3> QED BY <2>6, <3>1 DEF Confirm, StillPending, RecoveryCodesInForce, Account
  <2>7. CASE Disable(r)
    <3>1. account \in Account /\ account # None
      BY <2>7, Read DEF Disable, Kind
    <3> QED BY <2>7, <3>1 DEF Disable, RecoveryCodesInForce, Account
  <2>8. CASE Change(r)
    <3>1. account \in Account /\ account # None
      BY <2>8, Read DEF Change, Kind
    <3> QED BY <2>8, <3>1 DEF Change, RecoveryCodesInForce, Account
  <2> QED BY <1>1, <2>1, <2>3, <2>4, <2>5, <2>6, <2>7, <2>8 DEF Act
<1>2. CASE UNCHANGED account
  BY <1>2 DEF RecoveryCodesInForce
<1>3. ASSUME NEW r \in Request, NEW b \in Browser, Check(r, b)
      PROVE  UNCHANGED account
  BY <1>3 DEF Check, Visit, Refuse, Prompt, Leave, FirstFactor, CheckSetup, DropChallenge,
              CheckPassword, CheckCode, CheckEnrolment, Replies, GoesOn
<1> QED BY <1>1, <1>2, <1>3 DEF Next, Tick, Reply, Lose, vars

\* Every reachable account, cookie and request is well typed, and no recovery
\* code outlives the secret it was made for (disable_otp, start_otp_enrollment).
THEOREM TypeCorrect == Spec => []TypeOK
<1>1. Init => RecoveryCodesInForce
  BY DEF Init, Row, RecoveryCodesInForce
<1>2. SignInInv /\ RecoveryCodesInForce /\ [Next]_vars => RecoveryCodesInForce'
  BY RecoveryCodesStep
<1>3. SignInInv /\ RecoveryCodesInForce => TypeOK
  BY DEF SignInInv, Typed, TypeOK
<1> QED BY <1>1, <1>2, <1>3, SignInInvariant, PTL DEF Spec

\* No session is accepted while the second factor is on unless it was made with a
\* code of the secret in force, whatever ran at once (initialize_user_session).
THEOREM SecondFactorIsGiven == Spec => []SecondFactorGiven
<1>1. SignInInv => SecondFactorGiven
  BY DEF SignInInv, JarInv, SoundCookie, SecondFactorGiven, SignedIn, FingerprintOf
<1> QED BY <1>1, SignInInvariant, PTL

\* A code is accepted once, by sign-ins and enrolments together, for any number
\* of requests and secrets (consume_otp_counter, consume_recovery_code).
THEOREM CodesAreSpent == Spec => []CodesUsedOnce
<1>1. SignInInv => CodesUsedOnce
  BY DEF SignInInv, UsedInv, CodesUsedOnce
<1> QED BY <1>1, SignInInvariant, PTL

\* The secret in force is one that a code has been verified for, whatever else
\* was begun in another window (confirm_otp_enrollment).
THEOREM SecretIsConfirmed == Spec => []SecretInForceConfirmed
<1>1. SignInInv => SecretInForceConfirmed
  BY DEF SignInInv, AccountInv, SecretInForceConfirmed
<1> QED BY <1>1, SignInInvariant, PTL
=============================================================================
