------------------------ MODULE PasskeyCeremonyProofs ------------------------
(***************************************************************************)
(* Theorems about PasskeyCeremony for every number of authenticators,      *)
(* ceremonies, answers under way and rows.                                 *)
(***************************************************************************)
EXTENDS PasskeyCeremony, TLAPS

USE PasskeyAssumption DEF Id, Challenge, Count

\* A challenge that is stored has been issued and not been taken up, and so has
\* one that is still to come.
Fresh ==
    \A n \in Challenge :
        /\ attempts[n] <= 1
        /\ n > begun \/ stored[n] # None => attempts[n] = 0
        /\ stored[n] # None => n <= begun

Typed ==
    /\ passkey \in [Id -> Passkey \cup {None}]
    /\ stored \in [Challenge -> Ceremony \cup {None}]
    /\ expired \subseteq Challenge
    /\ begun \in 0..MaxChallenges
    /\ device \in [Credential -> Count]
    /\ answers \subseteq SignedAnswer
    /\ req \in [Request -> RequestState \cup {None}]
    /\ attempts \in [Challenge -> Nat]

PasskeyInv == Typed /\ OneRowEach /\ Fresh

LEMMA TypeInit == Init => Typed
BY DEF Init, Typed, Passkey

LEMMA TypeStep ==
    ASSUME Typed, [Next]_vars
    PROVE  Typed'
<1> USE DEF Typed
<1>1. ASSUME NEW d \in Credential, NEW n \in Challenge, Sign(d, n) PROVE Typed'
  <2> DEFINE k == IF stored[n] = "authentication" /\ d \in Counting THEN device[d] + 1 ELSE device[d]
  <2>1. k \in Nat
    OBVIOUS
  <2>2. stored[n] \in Ceremony
    BY <1>1 DEF Sign
  <2>3. [ceremony |-> stored[n], challenge |-> n, credential |-> d, count |-> k] \in SignedAnswer
    BY <2>1, <2>2 DEF SignedAnswer
  <2> QED BY <1>1, <2>1, <2>3 DEF Sign
<1>2. ASSUME NEW n \in Challenge, Expire(n) PROVE Typed'
  BY <1>2 DEF Expire
<1>3. ASSUME BeginRegistration \/ BeginAuthentication PROVE Typed'
  BY <1>3 DEF BeginRegistration, BeginAuthentication, Issue, Ceremony
<1>4. ASSUME NEW r \in Request, NEW a \in answers, Consume(r, a) PROVE Typed'
  <2>1. a.challenge \in Challenge
    BY DEF SignedAnswer
  <2>2. [pc |-> "verify", answer |-> a, id |-> 0] \in RequestState
    BY DEF RequestState
  <2> QED BY <1>4, <2>1, <2>2 DEF Consume, Without
<1>5. ASSUME NEW r \in Request, Register(r) PROVE Typed'
  <2>1. [credential |-> req[r].answer.credential, count |-> req[r].answer.count] \in Passkey
    BY <1>5 DEF Register, At, RequestState, SignedAnswer, Passkey
  <2> QED BY <1>5, <2>1 DEF Register, Ends
<1>6. ASSUME NEW r \in Request, Verify(r) PROVE Typed'
  <2>1. PICK i \in Rows : req' = [req EXCEPT ![r].pc = "record", ![r].id = i]
    BY <1>6 DEF Verify
  <2>2. req[r] \in RequestState /\ i \in Id
    BY <1>6 DEF Verify, At, Rows
  <2>3. [req[r] EXCEPT !.pc = "record", !.id = i] \in RequestState
    BY <2>2 DEF RequestState
  <2>4. req' = [req EXCEPT ![r] = [req[r] EXCEPT !.pc = "record", !.id = i]]
    BY <2>1, <2>2 DEF RequestState
  <2> QED BY <1>6, <2>3, <2>4 DEF Verify
<1>7. ASSUME NEW r \in Request, Record(r) PROVE Typed'
  <2> DEFINE i == req[r].id
             n == req[r].answer.count
  <2>1. req[r] \in RequestState /\ n \in Nat /\ passkey[i] # None
    BY <1>7 DEF Record, At, RequestState, SignedAnswer
  <2>2. CASE i \in Id
    <3>1. passkey[i] \in Passkey /\ [passkey[i] EXCEPT !.count = n] \in Passkey
      BY <2>1, <2>2 DEF Passkey
    <3>2. passkey' = [passkey EXCEPT ![i] = [passkey[i] EXCEPT !.count = n]]
      BY <1>7 DEF Record
    <3> HIDE DEF i, n
    <3>3. passkey' \in [Id -> Passkey \cup {None}]
      BY <3>1, <3>2
    <3> QED BY <1>7, <3>3 DEF Record, Ends
  <2>3. CASE i \notin Id
    <3>1. passkey' = passkey
      BY <1>7, <2>3 DEF Record
    <3> QED BY <1>7, <3>1 DEF Record, Ends
  <2> QED BY <2>2, <2>3
<1>8. ASSUME NEW r \in Request, Fail(r) PROVE Typed'
  BY <1>8 DEF Fail, Ends
<1>9. ASSUME NEW i \in Id, Delete(i) PROVE Typed'
  BY <1>9 DEF Delete
<1>10. CASE UNCHANGED vars
  BY <1>10 DEF vars
<1> QED BY <1>1, <1>2, <1>3, <1>4, <1>5, <1>6, <1>7, <1>8, <1>9, <1>10 DEF Next

\* A registration that adds a row is for a credential without one; nothing else
\* gives a row its credential.
LEMMA RowsStep ==
    ASSUME Typed, OneRowEach, [Next]_vars
    PROVE  OneRowEach'
<1>1. ASSUME NEW r \in Request, Register(r) PROVE OneRowEach'
  <2> DEFINE a == req[r].answer
             new == [credential |-> a.credential, count |-> a.count]
  <2>1. NextId \in Id /\ a.credential \notin Registered /\ passkey' = [passkey EXCEPT ![NextId] = new]
    BY <1>1 DEF Register
  <2> DEFINE n == NextId
  <2>2. \A i \in Id : passkey'[i] = IF i = n THEN new ELSE passkey[i]
    BY <2>1 DEF Typed
  <2>3. new.credential = a.credential
    OBVIOUS
  <2>4. \A i \in Rows : passkey[i].credential # a.credential
    BY <2>1 DEF Registered
  <2> HIDE DEF n, new, a
  <2> QED BY <2>2, <2>3, <2>4 DEF OneRowEach, Rows
<1>2. ASSUME NEW r \in Request, Record(r) PROVE OneRowEach'
  <2> DEFINE k == req[r].id
             c == req[r].answer.count
  <2>1. passkey' = [passkey EXCEPT ![k].count = c]
    BY <1>2 DEF Record
  <2> HIDE DEF k, c
  <2>2. \A i \in Rows' : i \in Rows /\ passkey'[i].credential = passkey[i].credential
    <3> SUFFICES ASSUME NEW i \in Id, passkey'[i] # None
                 PROVE  passkey[i] # None /\ passkey'[i].credential = passkey[i].credential
      BY DEF Rows
    <3>1. CASE i # k
      BY <2>1, <3>1 DEF Typed
    <3>2. CASE i = k
      <4>1. passkey[k] # None
        BY <1>2 DEF Record, k
      <4>2. passkey[k] \in Passkey
        BY <3>2, <4>1 DEF Typed
      <4>3. passkey'[i] = [passkey[k] EXCEPT !.count = c]
        BY <2>1, <3>2 DEF Typed
      <4> QED BY <3>2, <4>1, <4>2, <4>3 DEF Passkey
    <3> QED BY <3>1, <3>2
  <2> QED BY <2>2 DEF OneRowEach
<1>3. ASSUME NEW i \in Id, Delete(i) PROVE OneRowEach'
  BY <1>3 DEF Delete, OneRowEach, Rows, Typed
<1>4. CASE UNCHANGED passkey
  BY <1>4 DEF OneRowEach, Rows
<1> QED
  BY <1>1, <1>2, <1>3, <1>4
  DEF Next, Sign, Expire, BeginRegistration, BeginAuthentication, Issue, Consume, Verify, Fail, vars

LEMMA FreshInit == Init => Fresh
BY DEF Init, Fresh

\* Only three actions touch what is stored, begun or taken up.
LEMMA FreshStep ==
    ASSUME Typed, Fresh, [Next]_vars
    PROVE  Fresh'
<1> USE DEF Typed, Fresh
<1>1. ASSUME BeginRegistration \/ BeginAuthentication PROVE Fresh'
  <2>1. /\ begun' = begun + 1 /\ begun \in Nat /\ UNCHANGED attempts
        /\ \A n \in Challenge : stored'[n] # None => n = begun + 1 \/ stored'[n] = stored[n]
    BY <1>1 DEF BeginRegistration, BeginAuthentication, Issue
  <2>2. ASSUME NEW n \in Challenge
        PROVE  /\ attempts'[n] <= 1
               /\ n > begun' \/ stored'[n] # None => attempts'[n] = 0
               /\ stored'[n] # None => n <= begun'
    BY <2>1
  <2> QED BY <2>2
<1>2. ASSUME NEW r \in Request, NEW a \in answers, Consume(r, a) PROVE Fresh'
  <2>1. a.challenge \in Challenge /\ a.ceremony \in Ceremony
    BY DEF SignedAnswer
  <2>2. attempts[a.challenge] = 0 /\ a.challenge <= begun
    BY <1>2, <2>1 DEF Consume, Acceptable
  <2>3. begun' = begun /\ begun \in Nat
    BY <1>2 DEF Consume
  <2>4. ASSUME NEW n \in Challenge
        PROVE  /\ attempts'[n] <= 1
               /\ n > begun' \/ stored'[n] # None => attempts'[n] = 0
               /\ stored'[n] # None => n <= begun'
    <3>1. CASE n = a.challenge
      <4>1. attempts'[n] = 1 /\ stored'[n] = None
        BY <1>2, <2>2, <3>1 DEF Consume, Without
      <4> QED BY <2>2, <2>3, <3>1, <4>1
    <3>2. CASE n # a.challenge
      <4>1. attempts'[n] = attempts[n] /\ stored'[n] = stored[n]
        BY <1>2, <3>2 DEF Consume, Without
      <4> QED BY <2>3, <4>1
    <3> QED BY <3>1, <3>2
  <2> QED BY <2>4
<1>3. CASE UNCHANGED <<stored, begun, attempts>>
  BY <1>3
<1> QED
  BY <1>1, <1>2, <1>3
  DEF Next, Sign, Expire, Register, Verify, Record, Fail, Delete, vars

LEMMA PasskeyInvariant == Spec => []PasskeyInv
<1>1. Init => PasskeyInv
  BY TypeInit, FreshInit DEF PasskeyInv, Init
<1>2. PasskeyInv /\ [Next]_vars => PasskeyInv'
  BY TypeStep, RowsStep, FreshStep DEF PasskeyInv
<1> QED BY <1>1, <1>2, PTL DEF Spec

\* Every reachable state is well typed: what is verified and recorded are the
\* answer, the row and the counter of a ceremony, and no authenticator has two
\* rows (finish_registration, finish_authentication).
THEOREM TypeCorrect == Spec => []TypeOK
<1>1. PasskeyInv => TypeOK
  BY DEF PasskeyInv, Typed, TypeOK
<1> QED BY <1>1, PasskeyInvariant, PTL

\* A challenge is answered once, whatever fails afterwards and however often and
\* by however many requests at a time the answer is sent (consume_challenge).
THEOREM ChallengesAreSpent == Spec => []AnsweredOnce
<1>1. PasskeyInv => AnsweredOnce
  BY DEF PasskeyInv, Fresh, AnsweredOnce
<1> QED BY <1>1, PasskeyInvariant, PTL

-----------------------------------------------------------------------------
LEMMA CounterStep ==
    ASSUME Typed, [Next]_vars,
           NEW i \in Id, passkey[i] # None, passkey'[i] # None,
           passkey'[i].credential = passkey[i].credential
    PROVE  passkey'[i].count >= passkey[i].count
<1> USE DEF Typed
<1>1. passkey[i] \in Passkey /\ passkey[i].count \in Nat
  BY DEF Passkey
<1>2. ASSUME NEW r \in Request, Register(r) PROVE passkey'[i].count >= passkey[i].count
  \* A credential that is registered is refused, so the row is another one.
  <2>1. passkey[i].credential # req[r].answer.credential
    BY <1>2 DEF Register, Registered, Rows
  <2>2. passkey'[i] = passkey[i]
    BY <1>2, <2>1 DEF Register
  <2> QED BY <1>1, <2>2
<1>3. ASSUME NEW r \in Request, Record(r) PROVE passkey'[i].count >= passkey[i].count
  <2> DEFINE j == req[r].id
             n == req[r].answer.count
  <2>1. CASE i = j
    <3>1. passkey'[i].count = n /\ Advances(passkey[i].count, n)
      BY <1>1, <1>3, <2>1 DEF Record, Passkey
    <3>2. n \in Nat
      BY <1>3 DEF Record, At, RequestState, SignedAnswer
    <3> QED BY <1>1, <3>1, <3>2 DEF Advances
  <2>2. CASE i # j
    BY <1>1, <1>3, <2>2 DEF Record
  <2> QED BY <2>1, <2>2
<1>4. ASSUME NEW k \in Id, Delete(k) PROVE passkey'[i].count >= passkey[i].count
  BY <1>1, <1>4 DEF Delete
<1>5. CASE UNCHANGED passkey
  BY <1>1, <1>5
<1> QED
  BY <1>2, <1>3, <1>4, <1>5
  DEF Next, Sign, Expire, BeginRegistration, BeginAuthentication, Issue, Consume, Verify, Fail, vars

\* The counter of a passkey never goes back, in whatever order any number of
\* overlapping sign-ins are recorded (record_authentication).
THEOREM CountersGrow == Spec => CounterNeverFalls
<1>1. Typed /\ [Next]_vars =>
        [\A i \in Id :
            passkey[i] # None /\ passkey'[i] # None /\ passkey'[i].credential = passkey[i].credential
              => passkey'[i].count >= passkey[i].count]_vars
  BY CounterStep
<1>2. TypeOK => Typed
  BY DEF TypeOK, Typed
<1> QED BY <1>1, <1>2, TypeCorrect, PTL DEF Spec, CounterNeverFalls
=============================================================================
