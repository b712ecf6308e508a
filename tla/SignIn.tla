------------------------------- MODULE SignIn -------------------------------
(***************************************************************************)
(* Signing in to CaddyBuddy and the second factor: routers/ui/auth.py,     *)
(* routers/ui/settings.py, services/auth.py, repositories/users.py and the *)
(* sessions of dependencies/web.py.                                        *)
(*                                                                         *)
(* There is one account, the administrator's.  A session is no record of   *)
(* the server but a signed cookie of a browser: a request works on the     *)
(* copy it was sent with, and its answer replaces what the browser has by  *)
(* then.  A handler reads the account, awaits (the hash, the form, the     *)
(* database) and writes: the steps here are the read with the checks that  *)
(* follow from it, the write with its commit, and the answer.  SQLite runs *)
(* the writing transactions one after the other.                           *)
(*                                                                         *)
(* Password hashes and TOTP secrets are numbers, never the same twice.  A  *)
(* timeout of a session or a challenge may strike at every check.          *)
(***************************************************************************)
EXTENDS Naturals, FiniteSets

CONSTANTS
    Browser,
    Request,     \* the requests under way at a time (bound)
    MaxIssued,   \* hashes and secrets (bound)
    MaxStep,     \* TOTP time steps (bound)
    NumCodes,    \* recovery codes of a secret
    None

Issued == 1..MaxIssued
Secret == 0..MaxIssued                  \* 0: there is none
Step == 1..MaxStep
Totp == [kind : {"totp"}, secret : Issued, n : Step]
Recovery == [kind : {"recovery"}, secret : Issued, n : 1..NumCodes]
Code == Totp \cup Recovery

CodesOf(s) == {c \in Recovery : c.secret = s}

Fingerprint == [hash : Issued, secret : Secret, enabled : BOOLEAN]

\* A row of users; last is otp_last_verified_counter, 0 for NULL.
Account == [hash : Issued, secret : Secret, enabled : BOOLEAN,
            codes : SUBSET Recovery, last : 0..MaxStep]

\* What a handler goes by of the row it has read.
Known == [hash : Issued, secret : Secret, enabled : BOOLEAN, codes : SUBSET Recovery]

\* factor is the secret whose code was accepted for the session, for the
\* properties only.
Session == [kind : {"pending", "user"}, fp : Fingerprint, factor : Secret]
NoSession == [kind |-> "none"]
Cookie == Session \cup {NoSession}

\* The requests that write after their checks.
Kind == {"setup", "otp", "begin", "confirm", "disable", "change"}
RequestState == [pc : {"act", "reply"}, kind : Kind \cup {"any"}, browser : Browser,
                 cookie : Cookie \cup {None}, row : Known \cup {None},
                 code : Code \cup {None}]

ASSUME SignInAssumption ==
    /\ {MaxIssued, MaxStep, NumCodes} \subseteq Nat \ {0}
    /\ None \notin Account \cup Known \cup Cookie \cup RequestState \cup Code

VARIABLES
    account,   \* the row of the administrator, None before the setup
    jar,       \* the session cookie of each browser
    req,       \* the requests under way
    clock,     \* the TOTP time step
    issued,    \* hashes and secrets so far
    uses       \* how often a code was accepted

vars == <<account, jar, req, clock, issued, uses>>

Row(hash, secret, enabled, codes, last) ==
    [hash |-> hash, secret |-> secret, enabled |-> enabled,
     codes |-> codes, last |-> last]

\* Mutant: the fingerprint does not cover the second factor.
FingerprintOfHash(a) == [hash |-> a.hash, secret |-> 0, enabled |-> FALSE]

\* user_session_fingerprint
FingerprintOf(a) == [hash |-> a.hash, secret |-> a.secret, enabled |-> a.enabled]

NewSession(kind, a, factor) ==
    [kind |-> kind, fp |-> FingerprintOf(a), factor |-> factor]

\* get_session_user
SignedIn(c, a) == c.kind = "user" /\ a # None /\ c.fp = FingerprintOf(a)

Acts(r, kind) == req[r] # None /\ req[r].pc = "act" /\ req[r].kind = kind

\* The answer to b will set cookie c, or no cookie at all.
ReplyTo(b, c) == [pc |-> "reply", kind |-> "any", browser |-> b, cookie |-> c,
                  row |-> None, code |-> None]

\* A request that only sets a cookie.  (One that does not even do that, a
\* redirect, changes nothing.)
Replies(r, b, c) ==
    /\ req[r] = None
    /\ req' = [req EXCEPT ![r] = ReplyTo(b, c)]
    /\ UNCHANGED <<account, jar, clock, issued, uses>>

KnownOf(a) == [hash |-> a.hash, secret |-> a.secret, enabled |-> a.enabled, codes |-> a.codes]

\* A request that goes on to write, with the account as it was read.
GoesOn(r, b, k, code) ==
    /\ req[r] = None
    /\ req' = [req EXCEPT ![r] = [pc |-> "act", kind |-> k, browser |-> b, cookie |-> jar[b],
                                  row |-> IF account = None THEN None ELSE KnownOf(account),
                                  code |-> code]]
    /\ UNCHANGED <<account, jar, clock, issued, uses>>

\* What a handler that has written answers, and one whose write was refused.
Answer(r, c) == req' = [req EXCEPT ![r] = ReplyTo(req[r].browser, c)]
Same(r) == Answer(r, req[r].cookie)
-----------------------------------------------------------------------------
(***************************************************************************)
(* The browsers and the clock.                                             *)
(***************************************************************************)
Reply(r) ==
    /\ req[r] # None /\ req[r].pc = "reply"
    /\ jar' = IF req[r].cookie = None THEN jar
              ELSE [jar EXCEPT ![req[r].browser] = req[r].cookie]
    /\ req' = [req EXCEPT ![r] = None]
    /\ UNCHANGED <<account, clock, issued, uses>>

\* The handler fails before its commit, or the answer does not arrive.
Lose(r) ==
    /\ req[r] # None
    /\ req' = [req EXCEPT ![r] = None]
    /\ UNCHANGED <<account, jar, clock, issued, uses>>

Tick ==
    /\ clock < MaxStep
    /\ clock' = clock + 1
    /\ UNCHANGED <<account, jar, req, issued, uses>>

-----------------------------------------------------------------------------
(***************************************************************************)
(* Pages, logout, and the first factor.                                    *)
(***************************************************************************)
\* A page, or a form that is not accepted, for a browser that is signed in.
Visit(r, b) == SignedIn(jar[b], account) /\ Replies(r, b, jar[b])

\* A session that does not hold any more, or has timed out, is cleared.
Refuse(r, b) == jar[b].kind = "user" /\ Replies(r, b, NoSession)

\* The sign-in pages for the others, and a password or code that is wrong.
Prompt(r, b) == jar[b].kind # "user" /\ Replies(r, b, jar[b])

\* logout_action, cancel_otp_login
Leave(r, b) == Replies(r, b, NoSession)

\* login_action with the right password, and finish_passkey_login with a
\* passkey that was verified.  The date of the sign-in that they write plays no
\* part here.
FirstFactor(r, b) ==
    /\ account # None
    /\ Replies(r, b, NewSession(IF account.enabled THEN "pending" ELSE "user", account, 0))

\* setup_action: the check, then the hash, then the row under a unique name.
CheckSetup(r, b) == account = None /\ GoesOn(r, b, "setup", None)

Setup(r) ==
    /\ Acts(r, "setup")
    /\ IF account = None
       THEN /\ issued < MaxIssued
            /\ issued' = issued + 1
            /\ account' = Row(issued + 1, 0, FALSE, {}, 0)
            /\ Answer(r, NewSession("user", account', 0))
       ELSE Answer(r, None) /\ UNCHANGED <<account, issued>>
    /\ UNCHANGED <<jar, clock, uses>>

-----------------------------------------------------------------------------
(***************************************************************************)
(* The second factor at sign-in: otp_login_action and verify_otp_factor.   *)
(***************************************************************************)
\* verify_totp accepts the current step only; a recovery code is looked up in
\* the row as it was read.
Verifies(c, a) ==
    /\ c \in Totp => c.secret = a.secret /\ c.n = clock
    /\ c \in Recovery => c \in a.codes

\* The challenge of the session, for the account as it was then.
Challenged(c, a) == c.kind = "pending" /\ a # None /\ c.fp = FingerprintOf(a)

CheckCode(r, b, code) ==
    /\ Challenged(jar[b], account)
    /\ account.enabled /\ Verifies(code, account)
    /\ GoesOn(r, b, "otp", code)

\* A challenge that was left too long, or that the account has outlived.
DropChallenge(r, b) == jar[b].kind = "pending" /\ Replies(r, b, NoSession)

Used(c) == uses' = [uses EXCEPT ![c] = @ + 1]

\* Mutant: the last step is accepted again.
StepIsLast(n) == account.enabled /\ account.last <= n

\* consume_otp_counter
StepIsNew(n) == account.enabled /\ account.last < n

UseTotp(r) ==
    /\ Acts(r, "otp")
    /\ req[r].code \in Totp
    /\ IF StepIsNew(req[r].code.n)
       THEN /\ account' = [account EXCEPT !.last = req[r].code.n]
            /\ Used(req[r].code)
            /\ Answer(r, NewSession("user", req[r].row, req[r].row.secret))
       ELSE Same(r) /\ UNCHANGED <<account, uses>>
    /\ UNCHANGED <<jar, clock, issued>>

\* consume_recovery_code replaces the list that was read, if it is still there.
UseRecovery(r) ==
    /\ Acts(r, "otp")
    /\ req[r].code \in Recovery
    /\ IF account.enabled /\ account.codes = req[r].row.codes
       THEN /\ account' = [account EXCEPT !.codes = req[r].row.codes \ {req[r].code}]
            /\ Used(req[r].code)
            /\ Answer(r, NewSession("user", req[r].row, req[r].row.secret))
       ELSE Same(r) /\ UNCHANGED <<account, uses>>
    /\ UNCHANGED <<jar, clock, issued>>

-----------------------------------------------------------------------------
(***************************************************************************)
(* The settings of the account.                                            *)
(***************************************************************************)
\* The password is right.
CheckPassword(r, b, k) ==
    /\ k \in {"begin", "disable", "change"}
    /\ SignedIn(jar[b], account)
    /\ k = "begin" => ~account.enabled
    /\ GoesOn(r, b, k, None)

CheckEnrolment(r, b, code) ==
    /\ SignedIn(jar[b], account)
    /\ ~account.enabled
    /\ code \in Totp /\ Verifies(code, account)
    /\ GoesOn(r, b, "confirm", code)

\* initialize_user_session with the row as the handler knows it.
Renew(r, known, factor) == Answer(r, NewSession("user", known, factor))

\* begin_two_factor_setup: a new secret, as long as none is in force.
Begin(r) ==
    /\ Acts(r, "begin")
    /\ IF account.enabled THEN Same(r) /\ UNCHANGED <<account, issued>>
       ELSE /\ issued < MaxIssued
            /\ issued' = issued + 1
            /\ account' = [account EXCEPT !.secret = issued + 1, !.codes = {}, !.last = 0]
            /\ Renew(r, [req[r].row EXCEPT !.secret = issued + 1], 0)
    /\ UNCHANGED <<jar, clock, uses>>

\* Mutant: whatever secret is pending is put in force.
StillPendingAny(s) == ~account.enabled

\* The condition of the update in confirm_otp_enrollment.
StillPending(s) == ~account.enabled /\ account.secret = s

Confirm(r) ==
    /\ Acts(r, "confirm")
    /\ LET s == req[r].row.secret IN
       IF StillPending(s)
       THEN /\ account' = [account EXCEPT !.enabled = TRUE, !.codes = CodesOf(s),
                                                  !.last = req[r].code.n]
            /\ Used(req[r].code)
            /\ Renew(r, [req[r].row EXCEPT !.enabled = TRUE], s)
       ELSE Same(r) /\ UNCHANGED <<account, uses>>
    /\ UNCHANGED <<jar, clock, issued>>

\* Mutant: the recovery codes stay behind.
DisableKeepsCodes(r) ==
    /\ Acts(r, "disable")
    /\ account' = [account EXCEPT !.secret = 0, !.enabled = FALSE, !.last = 0]
    /\ Renew(r, [req[r].row EXCEPT !.secret = 0, !.enabled = FALSE], 0)
    /\ UNCHANGED <<jar, clock, issued, uses>>

\* disable_otp
Disable(r) ==
    /\ Acts(r, "disable")
    /\ account' = [account EXCEPT !.secret = 0, !.enabled = FALSE,
                                          !.codes = {}, !.last = 0]
    /\ Renew(r, [req[r].row EXCEPT !.secret = 0, !.enabled = FALSE], 0)
    /\ UNCHANGED <<jar, clock, issued, uses>>

\* change_password
Change(r) ==
    /\ Acts(r, "change")
    /\ issued < MaxIssued
    /\ issued' = issued + 1
    /\ account' = [account EXCEPT !.hash = issued + 1]
    /\ Renew(r, [req[r].row EXCEPT !.hash = issued + 1], req[r].cookie.factor)
    /\ UNCHANGED <<jar, clock, uses>>
-----------------------------------------------------------------------------
Init ==
    /\ \/ account = None /\ issued = 0
       \/ account = Row(1, 0, FALSE, {}, 0) /\ issued = 1
    /\ jar = [b \in Browser |-> NoSession]
    /\ req = [r \in Request |-> None]
    /\ clock = 1
    /\ uses = [c \in Code |-> 0]

Check(r, b) ==
    \/ Visit(r, b) \/ Refuse(r, b) \/ Prompt(r, b) \/ Leave(r, b)
    \/ FirstFactor(r, b) \/ CheckSetup(r, b) \/ DropChallenge(r, b)
    \/ \E k \in Kind : CheckPassword(r, b, k)
    \/ \E code \in Code : CheckCode(r, b, code) \/ CheckEnrolment(r, b, code)

Act(r) ==
    \/ Setup(r)
    \/ UseTotp(r) \/ UseRecovery(r)
    \/ Begin(r) \/ Confirm(r) \/ Disable(r) \/ Change(r)

Next ==
    \/ Tick
    \/ \E r \in Request :
         \/ \E b \in Browser : Check(r, b)
         \/ Act(r) \/ Reply(r) \/ Lose(r)

Spec == Init /\ [][Next]_vars
-----------------------------------------------------------------------------
\* There are recovery codes only while the second factor is on, and they are
\* those of the secret in force.
RecoveryCodesInForce ==
    account # None =>
        account.codes \subseteq IF account.enabled THEN CodesOf(account.secret) ELSE {}

\* The account, the cookies, the requests and the counters are what they should
\* be (User in models/entities.py and the session of dependencies/web.py); the
\* recovery codes left are of the secret in force, over enrolments, sign-ins
\* and disabling that overlap.
TypeOK ==
    /\ account \in Account \cup {None}
    /\ RecoveryCodesInForce
    /\ jar \in [Browser -> Cookie]
    /\ req \in [Request -> RequestState \cup {None}]
    /\ clock \in Step
    /\ issued \in 0..MaxIssued
    /\ uses \in [Code -> Nat]

\* A session that a request would be accepted with, while the second factor is
\* on, was made with a code of the secret in force, whatever sign-ins, password
\* changes and enrolments were under way at once (initialize_user_session and
\* the fingerprint of get_session_user).
SecondFactorGiven ==
    \A b \in Browser :
        account # None /\ account.enabled /\ SignedIn(jar[b], account)
            => jar[b].factor = account.secret

\* A code signs in once: a TOTP time step of a secret and a recovery code are
\* accepted a single time, by sign-ins and enrolment together
\* (consume_otp_counter, consume_recovery_code, confirm_otp_enrollment).
CodesUsedOnce == \A c \in Code : uses[c] <= 1

\* The secret in force is one a code was verified for: an enrolment begun anew
\* in another window does not put a secret in force that nobody has scanned
\* (confirm_otp_enrollment).
SecretInForceConfirmed ==
    account # None /\ account.enabled
        => \E c \in Totp : c.secret = account.secret /\ uses[c] > 0

\* security.md: "Enabling, confirming, or disabling two-factor authentication
\* and changing the password invalidate all other sessions of that account": the
\* session of another browser is not accepted after such a change.
OtherSessionsEnded ==
    [][\A r \in Request, b \in Browser :
          (/\ account # None /\ FingerprintOf(account)' # FingerprintOf(account)
           /\ req[r] # None /\ req'[r] # req[r] /\ b # req[r].browser)
          => ~SignedIn(jar[b], account)']_vars
=============================================================================
