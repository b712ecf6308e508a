---------------------------- MODULE EventBusProofs ----------------------------
(***************************************************************************)
(* Theorems about EventBus for every number of responses, places, events   *)
(* and every length of the queues.                                         *)
(***************************************************************************)
EXTENDS EventBus, TLAPS, FiniteSetTheorems, SequenceTheorems

USE EventBusAssumption DEF Event, Closing

Streams == stream \in [Stream -> StreamState \cup {None}]

-----------------------------------------------------------------------------
(***************************************************************************)
(* What the helpers make of a stream.                                      *)
(***************************************************************************)
LEMMA EmptyQueue == <<>> \in Seq(Event \cup {Closing})
OBVIOUS

LEMMA ClosedType ==
    ASSUME NEW q \in StreamState
    PROVE  /\ Closed(q) \in StreamState /\ Closed(q).closed
           /\ Released(q) \in StreamState /\ Released(q).closed
<1>1. Released(q) \in StreamState /\ Released(q).closed
  BY DEF Released, StreamState
<1>2. Ended(Released(q)) \in StreamState /\ Ended(Released(q)).closed
  <2>1. <<0>> \in Seq(Event \cup {Closing})
    OBVIOUS
  <2> QED BY <2>1 DEF Released, Ended, StreamState
<1> QED BY <1>1, <1>2 DEF Closed

LEMMA ActivatedType ==
    ASSUME NEW q \in StreamState, published \in 0..MaxEvents
    PROVE  Activated(q) \in StreamState /\ Activated(q).closed = q.closed
BY DEF Activated, StreamState

\* Taking from the queue keeps an open stream open, or closes and unlists it.
LEMMA TakesType ==
    ASSUME Streams, NEW s \in Stream, NEW q \in StreamState, q.queue # <<>>, Takes(s, q)
    PROVE  \E x \in StreamState :
             /\ stream' = [stream EXCEPT ![s] = x]
             /\ \/ x.closed /\ listed' = listed \ {s}
                \/ x.closed = q.closed /\ listed' = listed
<1>1. CASE Head(q.queue) = Closing
  <2> DEFINE x == [Released(q) EXCEPT !.pc = "ended", !.queue = <<>>]
  <2>1. x \in StreamState /\ x.closed
    BY EmptyQueue DEF Released, StreamState
  <2> QED BY <1>1, <2>1 DEF Takes
<1>2. CASE Head(q.queue) # Closing
  <2> DEFINE x == [q EXCEPT !.pc = "sending", !.queue = Tail(@), !.got = Append(@, Head(q.queue))]
  <2>1. q.queue \in Seq(Event \cup {Closing}) /\ q.got \in Seq(Event)
    BY DEF StreamState
  <2>2. Head(q.queue) \in Event /\ Tail(q.queue) \in Seq(Event \cup {Closing})
    BY <1>2, <2>1
  <2>3. Append(q.got, Head(q.queue)) \in Seq(Event)
    BY <2>1, <2>2
  <2>4. x \in StreamState /\ x.closed = q.closed
    BY <2>2, <2>3 DEF StreamState
  <2> QED BY <1>2, <2>4 DEF Takes
<1> QED BY <1>1, <1>2

\* The steps of one response, as far as the bus can see them.
LEMMA ResponseStep ==
    ASSUME Streams, published \in 0..MaxEvents, NEW s \in Stream,
           Reader(s) \/ Heartbeat(s) \/ Sent(s) \/ Disconnect(s)
    PROVE  /\ stream[s] # None /\ published' = published
           /\ \E x \in StreamState :
                /\ stream' = [stream EXCEPT ![s] = x]
                /\ \/ x.closed /\ listed' = listed \ {s}
                   \/ x.closed = stream[s].closed /\ listed' = listed
<1> USE DEF Streams
<1>1. stream[s] # None /\ stream[s] \in StreamState /\ published' = published
  BY DEF Reader, Read, Wake, Heartbeat, Sent, Disconnect, Is
<1>2. CASE Read(s)
  <2>1. Activated(stream[s]) \in StreamState /\ Activated(stream[s]).closed = stream[s].closed
    BY <1>1, ActivatedType
  <2>2. CASE stream[s].closed
    <3> DEFINE x == [stream[s] EXCEPT !.pc = "ended", !.queue = <<>>]
    <3>1. x \in StreamState /\ x.closed
      BY <1>1, <2>2, EmptyQueue DEF StreamState
    <3>2. stream' = [stream EXCEPT ![s] = x] /\ listed' = listed \ {s}
      BY <1>1, <1>2, <2>2 DEF Read, StreamState
    <3> QED BY <1>1, <3>1, <3>2
  <2>3. CASE ~stream[s].closed /\ Activated(stream[s]).queue = <<>>
    <3> DEFINE x == [Activated(stream[s]) EXCEPT !.pc = "waiting"]
    <3>1. x \in StreamState /\ x.closed = stream[s].closed
      BY <2>1 DEF StreamState
    <3>2. stream' = [stream EXCEPT ![s] = x] /\ listed' = listed
      BY <1>2, <2>3 DEF Read
    <3> QED BY <1>1, <3>1, <3>2
  <2>4. CASE ~stream[s].closed /\ Activated(stream[s]).queue # <<>>
    <3>1. Takes(s, Activated(stream[s]))
      BY <1>2, <2>4 DEF Read
    <3> QED BY <1>1, <2>1, <2>4, <3>1, TakesType
  <2> QED BY <2>2, <2>3, <2>4
<1>3. CASE Wake(s)
  BY <1>1, <1>3, TakesType DEF Wake
<1>4. CASE Heartbeat(s)
  <2> DEFINE x == [stream[s] EXCEPT !.pc = "sending"]
  <2>1. x \in StreamState /\ x.closed = stream[s].closed
    BY <1>1 DEF StreamState
  <2>2. stream' = [stream EXCEPT ![s] = x] /\ listed' = listed
    BY <1>1, <1>4 DEF Heartbeat, StreamState
  <2> QED BY <1>1, <2>1, <2>2
<1>5. CASE Sent(s)
  <2> DEFINE x == [stream[s] EXCEPT !.pc = "ready"]
  <2>1. x \in StreamState /\ x.closed = stream[s].closed
    BY <1>1 DEF StreamState
  <2>2. stream' = [stream EXCEPT ![s] = x] /\ listed' = listed
    BY <1>1, <1>5 DEF Sent, StreamState
  <2> QED BY <1>1, <2>1, <2>2
<1>6. CASE Disconnect(s) /\ stream[s].pc = "unread"
  <2> DEFINE x == [stream[s] EXCEPT !.pc = "lost"]
  <2>1. x \in StreamState /\ x.closed = stream[s].closed
    BY <1>1 DEF StreamState
  <2>2. stream' = [stream EXCEPT ![s] = x] /\ listed' = listed
    BY <1>1, <1>6 DEF Disconnect, StreamState
  <2> QED BY <1>1, <2>1, <2>2
<1>7. CASE Disconnect(s) /\ stream[s].pc # "unread"
  <2> DEFINE x == [Released(stream[s]) EXCEPT !.pc = "ended", !.queue = <<>>]
  <2>1. x \in StreamState /\ x.closed
    BY <1>1, EmptyQueue DEF Released, StreamState
  <2>2. stream' = [stream EXCEPT ![s] = x] /\ listed' = listed \ {s}
    BY <1>7 DEF Disconnect
  <2> QED BY <1>1, <2>1, <2>2
<1> QED BY <1>2, <1>3, <1>4, <1>5, <1>6, <1>7 DEF Reader
-----------------------------------------------------------------------------
BusInv == TypeOK /\ ListedIsOpen

LEMMA BusInit == Init => BusInv
<1> SUFFICES ASSUME Init PROVE BusInv
  OBVIOUS
<1> USE DEF Init
<1>1. Cardinality(listed) = 0
  BY FS_EmptySet
<1>2. 0 \in 0..MaxEvents /\ 0 <= MaxSubscribers
  OBVIOUS
<1>3. stream \in [Stream -> StreamState \cup {None}]
  OBVIOUS
<1>4. Cardinality(listed) <= MaxSubscribers
  BY <1>1, <1>2
<1> QED BY <1>2, <1>3, <1>4 DEF BusInv, TypeOK, ListedIsOpen

\* Fewer places than before are no more than there may be.
LEMMA FewerPlaces ==
    ASSUME TypeOK, listed' \subseteq listed
    PROVE  Cardinality(listed') <= MaxSubscribers
<1>1. IsFiniteSet(listed)
  <2>1. listed \subseteq Stream
    BY DEF TypeOK
  <2> QED BY <2>1, FS_Subset
<1>2. Cardinality(listed') <= Cardinality(listed) /\ Cardinality(listed) \in Nat
      /\ Cardinality(listed') \in Nat
  BY <1>1, FS_Subset, FS_CardinalityType
<1> QED BY <1>2 DEF TypeOK

LEMMA SubscribeStep ==
    ASSUME BusInv, NEW s \in Stream, Subscribe(s)
    PROVE  BusInv'
<1> USE DEF BusInv, TypeOK, ListedIsOpen
<1>1. New \in StreamState /\ ~New.closed
  BY DEF New, StreamState
<1>2. Cardinality(listed') <= MaxSubscribers
  <2>1. IsFiniteSet(listed)
    <3>1. listed \subseteq Stream
      OBVIOUS
    <3> QED BY <3>1, FS_Subset
  <2>2. Cardinality(listed \cup {s}) \in {Cardinality(listed), Cardinality(listed) + 1}
        /\ Cardinality(listed) \in Nat
    BY <2>1, FS_AddElement, FS_CardinalityType
  <2>3. Cardinality(listed \cup {s}) \in Nat
    BY <2>1, FS_AddElement, FS_CardinalityType
  <2> QED BY <2>2, <2>3 DEF Subscribe, HasRoom
<1>3. stream' = [stream EXCEPT ![s] = New] /\ listed' = listed \cup {s} /\ UNCHANGED <<published, exiting>>
  BY DEF Subscribe
<1>4. None # New
  BY <1>1
<1> HIDE DEF StreamState
<1> QED BY <1>1, <1>2, <1>3, <1>4

LEMMA PublishStep ==
    ASSUME BusInv, Publish
    PROVE  BusInv'
<1> USE DEF BusInv, TypeOK, ListedIsOpen
<1> DEFINE slow == {s \in Active : Full(stream[s])}
           Served(q) == IF Len(q.queue) = QueueSize THEN q
                        ELSE [q EXCEPT !.queue = Append(@, published + 1)]
<1>1. /\ published' = published + 1 /\ published' \in 0..MaxEvents
      /\ listed' = listed \ slow /\ exiting' = exiting
      /\ stream' = [s \in Stream |->
                      CASE s \in slow -> Closed(stream[s])
                        [] s \in Active \ slow -> Served(stream[s])
                        [] OTHER -> stream[s]]
  BY DEF Publish
<1>2. ASSUME NEW s \in Stream, stream[s] # None
      PROVE  /\ stream'[s] \in StreamState
             /\ stream'[s].closed <=> stream[s].closed \/ s \in slow
  <2>1. stream[s] \in StreamState
    BY <1>2
  <2>2. Closed(stream[s]) \in StreamState /\ Closed(stream[s]).closed
    BY <2>1, ClosedType
  <2>3. Served(stream[s]) \in StreamState /\ Served(stream[s]).closed = stream[s].closed
    <3>1. CASE Len(stream[s].queue) = QueueSize
      BY <2>1, <3>1
    <3>2. CASE Len(stream[s].queue) # QueueSize
      <4>1. published + 1 \in Event
        BY <1>1
      <4>2. Append(stream[s].queue, published + 1) \in Seq(Event \cup {Closing})
        <5>1. stream[s].queue \in Seq(Event \cup {Closing})
          BY <2>1 DEF StreamState
        <5> QED BY <4>1, <5>1
      <4>3. [stream[s] EXCEPT !.queue = Append(@, published + 1)] \in StreamState
        BY <2>1, <4>2 DEF StreamState
      <4>4. [stream[s] EXCEPT !.queue = Append(@, published + 1)].closed = stream[s].closed
        BY <2>1 DEF StreamState
      <4> QED BY <3>2, <4>3, <4>4
    <3> QED BY <3>1, <3>2
  <2> HIDE DEF Served, slow
  <2>4. \/ s \in slow /\ stream'[s] = Closed(stream[s])
        \/ s \notin slow /\ stream'[s] \in {Served(stream[s]), stream[s]}
    BY <1>1
  <2>5. stream[s].closed \in BOOLEAN
    BY <2>1 DEF StreamState
  <2> QED BY <2>1, <2>2, <2>3, <2>4, <2>5
<1>3. ASSUME NEW s \in Stream, stream[s] = None PROVE stream'[s] = None /\ s \notin slow
  BY <1>1, <1>3 DEF Active
<1>4. Cardinality(listed') <= MaxSubscribers
  BY <1>1, FewerPlaces
<1> HIDE DEF slow
<1>5. ASSUME NEW s \in Stream PROVE stream'[s] \in StreamState \cup {None}
  BY <1>2, <1>3
<1>6. stream' \in [Stream -> StreamState \cup {None}]
  <2>1. stream' = [s \in Stream |-> stream'[s]]
    BY <1>1
  <2> QED BY <1>5, <2>1
<1>7. ASSUME NEW s \in Stream PROVE s \in listed' <=> stream'[s] # None /\ ~stream'[s].closed
  BY <1>1, <1>2, <1>3
<1>8. listed' \subseteq {s \in Stream : stream'[s] # None}
  BY <1>1, <1>7
<1> QED BY <1>1, <1>4, <1>6, <1>7, <1>8

LEMMA ExitStep ==
    ASSUME BusInv, Exit
    PROVE  BusInv'
<1> USE DEF BusInv, TypeOK, ListedIsOpen
<1>1. /\ listed' = {} /\ exiting' = TRUE /\ published' = published
      /\ stream' = [s \in Stream |-> IF s \in listed THEN Closed(stream[s]) ELSE stream[s]]
  BY DEF Exit
<1>2. ASSUME NEW s \in Stream
      PROVE  /\ stream'[s] \in StreamState \cup {None}
             /\ stream'[s] # None => stream'[s].closed
  <2>1. CASE s \in listed
    BY <1>1, <2>1, ClosedType
  <2>2. CASE s \notin listed
    BY <1>1, <2>2
  <2> QED BY <2>1, <2>2
<1>3. Cardinality(listed') <= MaxSubscribers
  BY <1>1, FewerPlaces
<1>4. stream' \in [Stream -> StreamState \cup {None}]
  <2>1. stream' = [s \in Stream |-> stream'[s]]
    BY <1>1
  <2> QED BY <1>2, <2>1
<1> QED BY <1>1, <1>2, <1>3, <1>4

LEMMA BusStep ==
    ASSUME BusInv, [Next]_vars
    PROVE  BusInv'
<1>1. ASSUME NEW s \in Stream, Reader(s) \/ Heartbeat(s) \/ Sent(s) \/ Disconnect(s) PROVE BusInv'
  <2> USE DEF BusInv, TypeOK, ListedIsOpen
  <2>1. PICK x \in StreamState :
             /\ stream' = [stream EXCEPT ![s] = x]
             /\ \/ x.closed /\ listed' = listed \ {s}
                \/ x.closed = stream[s].closed /\ listed' = listed
    BY <1>1, ResponseStep DEF Streams
  <2>2. stream[s] # None /\ published' = published /\ exiting' = exiting
    BY <1>1, ResponseStep
    DEF Streams, Reader, Read, Wake, Heartbeat, Sent, Disconnect
  <2>3. Cardinality(listed') <= MaxSubscribers
    BY <2>1, FewerPlaces
  <2>4. x # None
    OBVIOUS
  <2> HIDE DEF StreamState
  <2> QED BY <2>1, <2>2, <2>3, <2>4
<1>2. ASSUME NEW s \in Stream, Collect(s) PROVE BusInv'
  BY <1>2 DEF BusInv, TypeOK, ListedIsOpen, Collect
<1>3. CASE UNCHANGED vars
  BY <1>3 DEF BusInv, TypeOK, ListedIsOpen, vars
<1> QED BY <1>1, <1>2, <1>3, SubscribeStep, PublishStep, ExitStep DEF Next

LEMMA BusInvariant == Spec => []BusInv
BY BusInit, BusStep, PTL DEF Spec

\* Every reachable state is well typed, and the bus never lists more streams
\* than it allows, however many are subscribed and not yet read (subscribe).
THEOREM TypeCorrect == Spec => []TypeOK
BY BusInvariant, PTL DEF BusInv

\* The bus lists the open streams and no other: every way a stream ends, by its
\* reader, its browser, a full queue or the exit, hands the place back once.
THEOREM PlacesAreHeld == Spec => []ListedIsOpen
BY BusInvariant, PTL DEF BusInv
-----------------------------------------------------------------------------
(***************************************************************************)
(* What the browser has got and what is queued for it, event by event.     *)
(***************************************************************************)
\* Of a stream that is open, with p events published: the browser has got the
\* first ones since the first read and the queue has the others.  A stream that
\* is not active has at most the end in its queue.
Follows(q, p) ==
    /\ q.since + Len(q.got) <= p
    /\ \A i \in 1..Len(q.got) : q.got[i] = q.since + i
    /\ q.active => /\ ~q.closed
                   /\ q.since + Len(q.got) + Len(q.queue) = p
                   /\ \A i \in 1..Len(q.queue) : q.queue[i] = q.since + Len(q.got) + i
    /\ ~q.active => q.queue \in {<<>>, <<Closing>>}
    /\ ~q.active /\ ~q.closed => q.queue = <<>> /\ q.got = <<>>

FollowInv == \A s \in Stream : stream[s] # None => Follows(stream[s], published)

LEMMA NewFollows ==
    ASSUME published \in 0..MaxEvents
    PROVE  Follows(New, published)
BY DEF Follows, New

\* Events that are published do not concern a stream that is not active.
LEMMA LaterFollows ==
    ASSUME NEW q \in StreamState, NEW p \in Nat, Follows(q, p), ~q.active
    PROVE  Follows(q, p + 1)
BY DEF Follows, StreamState

LEMMA ClosedFollows ==
    ASSUME NEW q \in StreamState, NEW p \in Nat, Follows(q, p)
    PROVE  /\ Follows(Closed(q), p) /\ ~Closed(q).active
           /\ \A pc \in {"ended"} : Follows([Released(q) EXCEPT !.pc = pc, !.queue = <<>>], p)
<1>1. q.active \in BOOLEAN /\ q.since \in Nat /\ q.got \in Seq(Event)
  BY DEF StreamState
<1>2. Follows([Released(q) EXCEPT !.pc = "ended", !.queue = <<>>], p)
  BY <1>1 DEF Follows, Released, StreamState
<1>3. Follows(Closed(q), p) /\ ~Closed(q).active
  <2>1. CASE q.active
    BY <1>1, <2>1 DEF Follows, Closed, Ended, Released, StreamState
  <2>2. CASE ~q.active
    BY <1>1, <2>2 DEF Follows, Closed, Released, StreamState
  <2> QED BY <1>1, <2>1, <2>2
<1> QED BY <1>2, <1>3

LEMMA ActivatedFollows ==
    ASSUME NEW q \in StreamState, published \in 0..MaxEvents, Follows(q, published), ~q.closed
    PROVE  Follows(Activated(q), published) /\ Activated(q).active
BY DEF Follows, Activated, StreamState

\* The next event goes from the queue to the browser.
LEMMA TakenFollows ==
    ASSUME NEW q \in StreamState, NEW p \in Nat, Follows(q, p), q.active, q.queue # <<>>
    PROVE  /\ Head(q.queue) # Closing
           /\ Follows([q EXCEPT !.pc = "sending", !.queue = Tail(@),
                                !.got = Append(@, Head(q.queue))], p)
<1> DEFINE x == [q EXCEPT !.pc = "sending", !.queue = Tail(@), !.got = Append(@, Head(q.queue))]
           b == q.since
           n == Len(q.got)
           m == Len(q.queue)
<1>1. q.queue \in Seq(Event \cup {Closing}) /\ q.got \in Seq(Event)
  BY DEF StreamState
<1>2. b \in Nat /\ n \in Nat /\ m \in Nat /\ m # 0
  BY <1>1, EmptySeq DEF StreamState
<1>3. /\ b + n + m = p /\ ~q.closed
      /\ \A i \in 1..m : q.queue[i] = b + n + i
      /\ \A i \in 1..n : q.got[i] = b + i
  BY DEF Follows
<1>4. /\ x.since = b /\ x.active = q.active /\ x.closed = q.closed
      /\ x.queue = Tail(q.queue) /\ x.got = Append(q.got, Head(q.queue))
  BY DEF StreamState
<1>5. Head(q.queue) = q.queue[1]
  BY <1>1
<1>6. /\ Len(x.got) = n + 1 /\ x.got[n + 1] = Head(q.queue)
      /\ \A i \in 1..n : x.got[i] = q.got[i]
  BY <1>1, <1>4, <1>5, AppendProperties
<1>7. /\ Len(x.queue) = m - 1
      /\ \A i \in 1..(m - 1) : x.queue[i] = q.queue[i + 1]
  BY <1>1, <1>4, HeadTailProperties
<1> HIDE DEF x, b, n, m
<1>8. Head(q.queue) = b + n + 1
  BY <1>2, <1>3, <1>5
<1>9. \A i \in 1..Len(x.got) : x.got[i] = b + i
  <2> SUFFICES ASSUME NEW i \in 1..(n + 1) PROVE x.got[i] = b + i
    BY <1>6
  <2>1. CASE i \in 1..n
    BY <1>3, <1>6, <2>1
  <2>2. CASE i = n + 1
    BY <1>2, <1>6, <1>8, <2>2
  <2> QED BY <1>2, <2>1, <2>2
<1>10. \A i \in 1..Len(x.queue) : x.queue[i] = b + Len(x.got) + i
  <2> SUFFICES ASSUME NEW i \in 1..(m - 1) PROVE x.queue[i] = b + (n + 1) + i
    BY <1>6, <1>7
  <2>1. i + 1 \in 1..m /\ x.queue[i] = q.queue[i + 1]
    BY <1>2, <1>7
  <2>2. q.queue[i + 1] = b + n + (i + 1)
    BY <1>3, <2>1
  <2> QED BY <1>2, <2>1, <2>2
<1>11. b + Len(x.got) + Len(x.queue) = p /\ b + Len(x.got) <= p
  BY <1>2, <1>3, <1>6, <1>7
<1>12. Follows(x, p)
  BY <1>3, <1>4, <1>9, <1>10, <1>11 DEF Follows
<1>13. Head(q.queue) # Closing
  BY <1>2, <1>8
<1> QED BY <1>12, <1>13 DEF x

\* A published event goes to the end of an active queue.
LEMMA ServedFollows ==
    ASSUME NEW q \in StreamState, NEW p \in Nat, Follows(q, p), q.active
    PROVE  Follows([q EXCEPT !.queue = Append(@, p + 1)], p + 1)
<1> DEFINE x == [q EXCEPT !.queue = Append(@, p + 1)]
           b == q.since
           n == Len(q.got)
           m == Len(q.queue)
<1>1. q.queue \in Seq(Event \cup {Closing}) /\ q.got \in Seq(Event)
  BY DEF StreamState
<1>2. b \in Nat /\ n \in Nat /\ m \in Nat
  BY <1>1 DEF StreamState
<1>3. /\ b + n + m = p /\ ~q.closed
      /\ \A i \in 1..m : q.queue[i] = b + n + i
      /\ \A i \in 1..n : q.got[i] = b + i
  BY DEF Follows
<1>4. /\ x.since = b /\ x.active = q.active /\ x.closed = q.closed
      /\ x.got = q.got /\ x.queue = Append(q.queue, p + 1)
  BY DEF StreamState
<1>5. /\ Len(x.queue) = m + 1 /\ x.queue[m + 1] = p + 1
      /\ \A i \in 1..m : x.queue[i] = q.queue[i]
  BY <1>1, <1>4, AppendProperties
<1>6. Len(x.got) = n /\ \A i \in 1..n : x.got[i] = q.got[i]
  BY <1>4
<1> HIDE DEF x, b, n, m
<1>7. \A i \in 1..Len(x.queue) : x.queue[i] = b + Len(x.got) + i
  <2> SUFFICES ASSUME NEW i \in 1..(m + 1) PROVE x.queue[i] = b + n + i
    BY <1>5, <1>6
  <2>1. CASE i \in 1..m
    BY <1>3, <1>5, <2>1
  <2>2. CASE i = m + 1
    BY <1>2, <1>3, <1>5, <2>2
  <2> QED BY <1>2, <2>1, <2>2
<1>8. b + Len(x.got) + Len(x.queue) = p + 1 /\ b + Len(x.got) <= p + 1
  BY <1>2, <1>3, <1>5, <1>6
<1>9. \A i \in 1..Len(x.got) : x.got[i] = b + i
  BY <1>3, <1>6
<1>10. Follows(x, p + 1)
  BY <1>3, <1>4, <1>7, <1>8, <1>9 DEF Follows
<1> QED BY <1>10 DEF x
-----------------------------------------------------------------------------
LEMMA FollowInit == Init => FollowInv
BY DEF Init, FollowInv

LEMMA TakesFollows ==
    ASSUME Streams, NEW s \in Stream, NEW q \in StreamState, NEW p \in Nat, Follows(q, p),
           q.queue # <<>>, Takes(s, q)
    PROVE  \E x : stream' = [stream EXCEPT ![s] = x] /\ Follows(x, p)
<1>1. q.active \in BOOLEAN
  BY DEF StreamState
<1>2. CASE q.active
  BY <1>2, TakenFollows DEF Takes
<1>3. CASE ~q.active
  <2>1. Head(q.queue) = Closing
    BY <1>3 DEF Follows
  <2> QED BY <2>1, ClosedFollows DEF Takes
<1> QED BY <1>1, <1>2, <1>3

\* The steps of one response.
LEMMA ResponseFollows ==
    ASSUME BusInv, FollowInv, NEW s \in Stream,
           Reader(s) \/ Heartbeat(s) \/ Sent(s) \/ Disconnect(s)
    PROVE  \E x : stream' = [stream EXCEPT ![s] = x] /\ Follows(x, published)
<1> DEFINE q == stream[s]
<1>1. /\ q \in StreamState /\ Follows(q, published) /\ Streams
      /\ published \in 0..MaxEvents /\ published \in Nat
  BY DEF FollowInv, BusInv, TypeOK, Streams, Reader, Read, Wake, Heartbeat, Sent, Disconnect, Is
<1>2. ASSUME NEW pc PROVE Follows([q EXCEPT !.pc = pc], published)
  BY <1>1 DEF Follows, StreamState
<1>3. CASE Read(s)
  <2>1. CASE q.closed
    <3>1. Follows([q EXCEPT !.pc = "ended", !.queue = <<>>], published)
      BY <1>1, <2>1 DEF Follows, StreamState
    <3>2. stream' = [stream EXCEPT ![s] = [q EXCEPT !.pc = "ended", !.queue = <<>>]]
      BY <1>1, <1>3, <2>1 DEF Read, Streams, StreamState
    <3> QED BY <3>1, <3>2
  <2>2. CASE ~q.closed
    <3>1. /\ Activated(q) \in StreamState
          /\ Follows(Activated(q), published) /\ Activated(q).active
      BY <1>1, <2>2, ActivatedType, ActivatedFollows
    <3>2. Follows([Activated(q) EXCEPT !.pc = "waiting"], published)
      BY <3>1 DEF Follows, StreamState
    <3>3. CASE Activated(q).queue = <<>>
      BY <1>3, <2>2, <3>2, <3>3 DEF Read
    <3>4. CASE Activated(q).queue # <<>>
      <4>1. Takes(s, Activated(q))
        BY <1>3, <2>2, <3>4 DEF Read
      <4> QED BY <1>1, <3>1, <3>4, <4>1, TakesFollows
    <3> QED BY <3>3, <3>4
  <2> QED BY <2>1, <2>2
<1>4. CASE Wake(s)
  BY <1>1, <1>4, TakesFollows DEF Wake
<1>5. CASE Heartbeat(s)
  BY <1>1, <1>2, <1>5 DEF Heartbeat, Streams, StreamState
<1>6. CASE Sent(s)
  BY <1>1, <1>2, <1>6 DEF Sent, Streams, StreamState
<1>7. CASE Disconnect(s)
  BY <1>1, <1>2, <1>7, ClosedFollows DEF Disconnect, Streams, StreamState
<1> QED BY <1>3, <1>4, <1>5, <1>6, <1>7 DEF Reader

LEMMA PublishFollows ==
    ASSUME BusInv, FollowInv, Publish
    PROVE  FollowInv'
<1> DEFINE slow == {s \in Active : Full(stream[s])}
           Served(q) == IF Len(q.queue) = QueueSize THEN q
                        ELSE [q EXCEPT !.queue = Append(@, published + 1)]
<1>1. /\ published' = published + 1 /\ published \in Nat
      /\ stream' = [s \in Stream |->
                      CASE s \in slow -> Closed(stream[s])
                        [] s \in Active \ slow -> Served(stream[s])
                        [] OTHER -> stream[s]]
  BY DEF Publish, BusInv, TypeOK
<1> SUFFICES ASSUME NEW s \in Stream, stream'[s] # None
             PROVE  Follows(stream'[s], published + 1)
  BY <1>1 DEF FollowInv
<1>2. CASE stream[s] = None
  <2>1. s \notin Active
    BY <1>2 DEF Active, BusInv, TypeOK
  <2> QED BY <1>1, <1>2, <2>1
<1>3. CASE stream[s] # None
  <2>1. stream[s] \in StreamState /\ Follows(stream[s], published)
    BY <1>3 DEF FollowInv, BusInv, TypeOK
  <2>2. stream[s].active \in BOOLEAN /\ stream[s].closed \in BOOLEAN
    BY <2>1 DEF StreamState
  <2>3. s \in Active <=> stream[s].active
    BY <1>3, <2>1, <2>2 DEF Active, BusInv, ListedIsOpen, Follows
  <2>4. CASE s \in slow
    <3>1. Closed(stream[s]) \in StreamState
      BY <2>1, ClosedType
    <3>2. Follows(Closed(stream[s]), published) /\ ~Closed(stream[s]).active
      BY <1>1, <2>1, ClosedFollows
    <3>3. Follows(Closed(stream[s]), published + 1)
      BY <1>1, <3>1, <3>2, LaterFollows
    <3> QED BY <1>1, <2>4, <3>3
  <2>5. CASE s \in Active \ slow
    <3>1. Len(stream[s].queue) # QueueSize
      BY <2>5 DEF Full
    <3>2. Follows([stream[s] EXCEPT !.queue = Append(@, published + 1)], published + 1)
      BY <1>1, <2>1, <2>3, <2>5, ServedFollows
    <3>3. stream'[s] = [stream[s] EXCEPT !.queue = Append(@, published + 1)]
      BY <1>1, <2>5, <3>1
    <3> QED BY <3>2, <3>3
  <2>6. CASE s \notin Active
    <3>1. Follows(stream[s], published + 1)
      BY <1>1, <2>1, <2>3, <2>6, LaterFollows
    <3>2. stream'[s] = stream[s]
      BY <1>1, <2>6
    <3> QED BY <3>1, <3>2
  <2> QED BY <2>4, <2>5, <2>6
<1> QED BY <1>2, <1>3

LEMMA FollowStep ==
    ASSUME BusInv, FollowInv, [Next]_vars
    PROVE  FollowInv'
<1>0. stream \in [Stream -> StreamState \cup {None}]
  BY DEF BusInv, TypeOK
<1>1. ASSUME NEW s \in Stream, Reader(s) \/ Heartbeat(s) \/ Sent(s) \/ Disconnect(s)
      PROVE  FollowInv'
  <2>1. published' = published
    BY <1>1 DEF Reader, Read, Wake, Heartbeat, Sent, Disconnect
  <2>2. PICK x : stream' = [stream EXCEPT ![s] = x] /\ Follows(x, published)
    BY <1>1, ResponseFollows
  <2> QED BY <1>0, <2>1, <2>2 DEF FollowInv
<1>2. ASSUME NEW s \in Stream, Subscribe(s) PROVE FollowInv'
  BY <1>0, <1>2, NewFollows DEF FollowInv, Subscribe, BusInv, TypeOK
<1>3. ASSUME NEW s \in Stream, Collect(s) PROVE FollowInv'
  BY <1>0, <1>3 DEF FollowInv, Collect
<1>4. CASE Exit
  <2>1. /\ published' = published /\ published \in Nat
        /\ stream' = [s \in Stream |-> IF s \in listed THEN Closed(stream[s]) ELSE stream[s]]
    BY <1>4 DEF Exit, BusInv, TypeOK
  <2>2. ASSUME NEW s \in listed PROVE s \in Stream /\ stream[s] \in StreamState /\ stream[s] # None
    BY <1>0, <2>2 DEF BusInv, TypeOK
  <2>3. ASSUME NEW s \in listed PROVE Follows(Closed(stream[s]), published)
    BY <2>1, <2>2, ClosedFollows DEF FollowInv
  <2> QED BY <2>1, <2>3 DEF FollowInv
<1>5. CASE UNCHANGED vars
  BY <1>5 DEF vars, FollowInv
<1> QED BY <1>1, <1>2, <1>3, <1>4, <1>5, PublishFollows DEF Next

\* What is said event by event is what NoGap says of whole sequences.
LEMMA FollowsIsNoGap ==
    ASSUME BusInv, FollowInv
    PROVE  NoGap
<1> SUFFICES ASSUME NEW s \in Stream, stream[s] # None
             PROVE  LET q == stream[s] IN
                    IF q.active THEN q.got \o q.queue = Upto(q.since, published)
                    ELSE IsPrefix(q.got, Upto(q.since, published))
  BY DEF NoGap
<1> DEFINE q == stream[s]
           b == q.since
           n == Len(q.got)
           m == Len(q.queue)
           u == Upto(b, published)
<1>1. q \in StreamState /\ Follows(q, published) /\ published \in Nat
  BY DEF BusInv, TypeOK, FollowInv
<1>2. q.queue \in Seq(Nat) /\ q.got \in Seq(Nat)
  <2>1. q.queue \in Seq(Event \cup {Closing}) /\ q.got \in Seq(Event)
    BY <1>1 DEF StreamState
  <2>2. Event \cup {Closing} \subseteq Nat /\ Event \subseteq Nat
    OBVIOUS
  <2> QED BY <2>1, <2>2, SeqMonotonic
<1>3. b \in Nat /\ n \in Nat /\ m \in Nat
  BY <1>1, <1>2 DEF StreamState
<1>4. b + n <= published /\ \A i \in 1..n : q.got[i] = b + i
  BY <1>1 DEF Follows
<1>5. q.active => b + n + m = published /\ \A i \in 1..m : q.queue[i] = b + n + i
  BY <1>1 DEF Follows
<1>6. u = [i \in 1..(published - b) |-> b + i]
  BY DEF Upto
<1> HIDE DEF b, n, m, u
<1>7. u \in Seq(Nat) /\ Len(u) = published - b /\ \A i \in 1..(published - b) : u[i] = b + i
  BY <1>1, <1>3, <1>4, <1>6
<1>8. CASE q.active
  <2> DEFINE c == q.got \o q.queue
  <2>1. /\ c \in Seq(Nat) /\ Len(c) = n + m
        /\ \A i \in 1..(n + m) : i <= n => c[i] = q.got[i]
        /\ \A i \in 1..(n + m) : ~(i <= n) => c[i] = q.queue[i - n]
    <3> DEFINE s1 == q.got
               s2 == q.queue
    <3>0. s1 \in Seq(Nat) /\ s2 \in Seq(Nat) /\ n = Len(s1) /\ m = Len(s2) /\ c = s1 \o s2
      BY <1>2 DEF n, m, c
    <3>1. /\ c \in Seq(Nat) /\ Len(c) = n + m
          /\ \A i \in 1..(n + m) : c[i] = IF i <= n THEN q.got[i] ELSE q.queue[i - n]
      <4> HIDE DEF s1, s2, c
      <4>1. /\ s1 \o s2 \in Seq(Nat) /\ Len(s1 \o s2) = Len(s1) + Len(s2)
            /\ \A i \in 1..(Len(s1) + Len(s2)) :
                   (s1 \o s2)[i] = IF i <= Len(s1) THEN s1[i] ELSE s2[i - Len(s1)]
        BY <3>0, ConcatProperties
      <4> QED BY <3>0, <4>1 DEF s1, s2
    <3> HIDE DEF c
    <3> QED BY <3>1
  <2> HIDE DEF c
  <2>2. \A i \in 1..(n + m) : c[i] = b + i
    <3> SUFFICES ASSUME NEW i \in 1..(n + m) PROVE c[i] = b + i
      OBVIOUS
    <3>1. CASE i <= n
      <4>1. i \in 1..n /\ c[i] = q.got[i]
        BY <1>3, <2>1, <3>1
      <4>2. q.got[i] = b + i
        BY <1>4, <4>1
      <4> QED BY <4>1, <4>2
    <3>2. CASE ~(i <= n)
      <4>1. i - n \in 1..m /\ c[i] = q.queue[i - n]
        BY <1>3, <2>1, <3>2
      <4>2. q.queue[i - n] = b + n + (i - n)
        BY <1>5, <1>8, <4>1
      <4> QED BY <1>3, <4>1, <4>2
    <3> QED BY <3>1, <3>2
  <2>3. Len(u) = n + m
    BY <1>1, <1>3, <1>5, <1>7, <1>8
  <2>4. c = u
    <3>1. c \in Seq(Nat) /\ u \in Seq(Nat) /\ Len(c) = Len(u)
      BY <1>7, <2>1, <2>3
    <3>2. \A i \in 1..Len(c) : c[i] = u[i]
      <4>1. Len(c) = n + m /\ published - b = n + m
        BY <1>7, <2>1, <2>3
      <4> QED BY <1>7, <2>2, <4>1
    <3> QED BY <3>1, <3>2, SeqEqual
  <2> QED BY <1>8, <2>4 DEF c, u, b
<1>9. CASE ~q.active
  <2>1. n <= Len(u)
    BY <1>1, <1>3, <1>4, <1>7
  <2>2. /\ SubSeq(u, 1, n) \in Seq(Nat) /\ Len(SubSeq(u, 1, n)) = n
        /\ \A i \in 1..n : SubSeq(u, 1, n)[i] = u[i]
    BY <1>3, <1>7, <2>1
  <2>3. SubSeq(q.got, 1, n) = q.got
    BY <1>2, SubSeqFull DEF n
  <2>4. \A i \in 1..n : SubSeq(u, 1, n)[i] = q.got[i]
    BY <1>1, <1>3, <1>4, <1>7, <2>2
  <2>5. q.got = SubSeq(u, 1, n)
    BY <1>2, <2>2, <2>4, SeqEqual DEF n
  <2>6. IsPrefix(q.got, u)
    BY <2>1, <2>3, <2>5 DEF IsPrefix, n
  <2> QED BY <1>9, <2>6 DEF u, b
<1> QED BY <1>8, <1>9

LEMMA FollowInvariant == Spec => []FollowInv
<1>1. Init => FollowInv
  BY FollowInit
<1>2. BusInv /\ FollowInv /\ [Next]_vars => FollowInv'
  BY FollowStep
<1> QED BY <1>1, <1>2, BusInvariant, PTL DEF Spec

\* No open stream has a gap, for every length of the queues and however slowly
\* its browser reads: whoever cannot be told of an event is closed instead
\* (publish, deliver, __anext__).
THEOREM NothingIsMissed == Spec => []NoGap
<1>1. BusInv /\ FollowInv => NoGap
  BY FollowsIsNoGap
<1> QED BY <1>1, BusInvariant, FollowInvariant, PTL
=============================================================================
