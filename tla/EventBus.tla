------------------------------- MODULE EventBus -------------------------------
(***************************************************************************)
(* The live updates of the pages: the event bus of services/events.py, the *)
(* responses of routers/api.py that read it for a browser, and the exit    *)
(* signal of run.py.  All of it runs on one event loop: a step is what     *)
(* runs between two awaits, and an event reaches all subscribers in one.   *)
(*                                                                         *)
(* Events are numbered in the order they are published.  A browser reads   *)
(* when it likes and goes when it likes; a cancelled read loses nothing.   *)
(***************************************************************************)
EXTENDS Naturals, Sequences, FiniteSets, SequencesExt

CONSTANTS
    Stream,          \* the responses at a time (bound)
    MaxSubscribers,  \* EventBus(max_subscribers)
    QueueSize,       \* _MAX_SUBSCRIBER_QUEUE_SIZE
    MaxEvents,       \* events (bound)
    None

Event == 1..MaxEvents
Closing == 0                      \* the None that _close_queue leaves

\* A _SubscriberStream, where its reader is, and what the browser has got; since
\* is the number of events published before the first read.
StreamState == [pc : {"unread", "ready", "waiting", "sending", "ended", "lost"},
                active : BOOLEAN, closed : BOOLEAN, queue : Seq(Event \cup {Closing}),
                since : 0..MaxEvents, got : Seq(Event)]

ASSUME EventBusAssumption ==
    /\ {MaxSubscribers, QueueSize, MaxEvents} \subseteq Nat \ {0}
    /\ IsFiniteSet(Stream)
    /\ None \notin StreamState

VARIABLES
    stream,
    listed,      \* _subscribers and _pending_subscribers together
    published,   \* events so far
    exiting      \* an exit signal has come

vars == <<stream, listed, published, exiting>>

New == [pc |-> "unread", active |-> FALSE, closed |-> FALSE, queue |-> <<>>,
        since |-> 0, got |-> <<>>]

Is(s, pc) == stream[s] # None /\ stream[s].pc = pc
Active == {s \in listed : stream[s].active}

\* _release
Released(q) == [q EXCEPT !.closed = TRUE, !.active = FALSE]

\* Mutant: the queue is emptied and nothing tells the reader.
Silenced(q) == [q EXCEPT !.queue = <<>>]

\* _close_queue
Ended(q) == [q EXCEPT !.queue = <<Closing>>]

\* Mutant: a stream that was never read is left as it is.
ClosedIfActive(q) == IF q.active THEN Ended(Released(q)) ELSE q

\* close_from_bus: a stream that was never read has no reader to wake.
Closed(q) == IF q.active THEN Ended(Released(q)) ELSE Released(q)
-----------------------------------------------------------------------------
(***************************************************************************)
(* The bus.                                                                *)
(***************************************************************************)
\* Mutant: the places of streams that are not read yet are not counted.
HasRoomForActive == Cardinality(Active) < MaxSubscribers

HasRoom == Cardinality(listed) < MaxSubscribers

\* subscribe; one too many is answered with 429.
Subscribe(s) ==
    /\ stream[s] = None
    /\ HasRoom
    /\ stream' = [stream EXCEPT ![s] = New]
    /\ listed' = listed \cup {s}
    /\ UNCHANGED <<published, exiting>>

\* Mutant: a full queue loses the event and the stream goes on.
FullDrops(q) == FALSE

Full(q) == Len(q.queue) = QueueSize

\* publish: whoever does not keep up is closed.
Publish ==
    /\ published < MaxEvents
    /\ published' = published + 1
    /\ LET slow == {s \in Active : Full(stream[s])}
           Served(q) == IF Len(q.queue) = QueueSize THEN q
                        ELSE [q EXCEPT !.queue = Append(@, published + 1)]
       IN /\ stream' = [s \in Stream |->
                          CASE s \in slow -> Closed(stream[s])
                            [] s \in Active \ slow -> Served(stream[s])
                            [] OTHER -> stream[s]]
          /\ listed' = listed \ slow
    /\ UNCHANGED exiting

\* request_shutdown of the exit signal: _close_all_subscribers.
Exit ==
    /\ ~exiting
    /\ exiting' = TRUE
    /\ stream' = [s \in Stream |-> IF s \in listed THEN Closed(stream[s]) ELSE stream[s]]
    /\ listed' = {}
    /\ UNCHANGED published
-----------------------------------------------------------------------------
(***************************************************************************)
(* The response that reads the stream (_event_stream and __anext__).       *)
(***************************************************************************)
\* The head of the queue is an event to send, or the end.
Takes(s, q) ==
    IF Head(q.queue) = Closing
    THEN /\ stream' = [stream EXCEPT ![s] = [Released(q) EXCEPT !.pc = "ended", !.queue = <<>>]]
         /\ listed' = listed \ {s}
    ELSE /\ stream' = [stream EXCEPT ![s] = [q EXCEPT !.pc = "sending", !.queue = Tail(@),
                                                      !.got = Append(@, Head(q.queue))]]
         /\ UNCHANGED listed

\* _activate_subscriber at the first read
Activated(q) == IF q.active THEN q ELSE [q EXCEPT !.active = TRUE, !.since = published]

Read(s) ==
    /\ Is(s, "unread") \/ Is(s, "ready")
    /\ LET q == Activated(stream[s]) IN
       IF stream[s].closed
       THEN /\ stream' = [stream EXCEPT ![s].pc = "ended", ![s].queue = <<>>]
            /\ listed' = listed \ {s}
       ELSE IF q.queue = <<>>
       THEN stream' = [stream EXCEPT ![s] = [q EXCEPT !.pc = "waiting"]] /\ UNCHANGED listed
       ELSE Takes(s, q)
    /\ UNCHANGED <<published, exiting>>

Wake(s) ==
    /\ Is(s, "waiting")
    /\ stream[s].queue # <<>>
    /\ Takes(s, stream[s])
    /\ UNCHANGED <<published, exiting>>

\* The heartbeat cancels the read and sends a comment.
Heartbeat(s) ==
    /\ Is(s, "waiting")
    /\ stream' = [stream EXCEPT ![s].pc = "sending"]
    /\ UNCHANGED <<listed, published, exiting>>

\* The browser has taken what was sent.
Sent(s) ==
    /\ Is(s, "sending")
    /\ stream' = [stream EXCEPT ![s].pc = "ready"]
    /\ UNCHANGED <<listed, published, exiting>>

\* The browser goes: the generator is cancelled and its finally closes the
\* stream.  One that has not been started has no finally to run.
Disconnect(s) ==
    /\ stream[s] # None /\ stream[s].pc \notin {"ended", "lost"}
    /\ IF stream[s].pc = "unread"
       THEN stream' = [stream EXCEPT ![s].pc = "lost"] /\ UNCHANGED listed
       ELSE /\ stream' = [stream EXCEPT ![s] = [Released(@) EXCEPT !.pc = "ended", !.queue = <<>>]]
            /\ listed' = listed \ {s}
    /\ UNCHANGED <<published, exiting>>

\* The object goes when nothing refers to it; __del__ has nothing left to do.
Collect(s) ==
    /\ Is(s, "ended") \/ Is(s, "lost")
    /\ s \notin listed
    /\ stream' = [stream EXCEPT ![s] = None]
    /\ UNCHANGED <<listed, published, exiting>>
-----------------------------------------------------------------------------
Init ==
    /\ stream = [s \in Stream |-> None]
    /\ listed = {}
    /\ published = 0
    /\ exiting = FALSE

Reader(s) == Read(s) \/ Wake(s)

Next ==
    \/ Publish \/ Exit
    \/ \E s \in Stream :
         Subscribe(s) \/ Reader(s) \/ Heartbeat(s) \/ Sent(s) \/ Disconnect(s) \/ Collect(s)

Spec == Init /\ [][Next]_vars

\* The event loop runs a task that is ready, and collects what is left; nothing
\* is assumed of the browsers, the clock and the events.
FairSpec == Spec /\ \A s \in Stream : WF_vars(Reader(s)) /\ WF_vars(Collect(s))
-----------------------------------------------------------------------------
\* The streams are what they should be, and the bus lists no more than it allows
\* (_SubscriberStream and EventBus).
TypeOK ==
    /\ stream \in [Stream -> StreamState \cup {None}]
    /\ listed \subseteq {s \in Stream : stream[s] # None}
    /\ Cardinality(listed) <= MaxSubscribers
    /\ published \in 0..MaxEvents
    /\ exiting \in BOOLEAN

Upto(a, b) == [i \in 1..(b - a) |-> a + i]

\* A browser misses nothing between its first event and its last: as long as a
\* stream is open it has got, or will find in its queue, every event since its
\* first read in order, and what a closed one has got are the first of them
\* (deliver, __anext__, the heartbeat and publish).
NoGap ==
    \A s \in Stream : stream[s] # None =>
        LET q == stream[s] IN
        IF q.active THEN q.got \o q.queue = Upto(q.since, published)
        ELSE IsPrefix(q.got, Upto(q.since, published))

\* The bus lists the streams that are open, and no other: each close path hands
\* the place back at most once, and none is handed back that is still read
\* (_release, _release_subscriber).
ListedIsOpen == \A s \in Stream : s \in listed <=> stream[s] # None /\ ~stream[s].closed

\* A reader whose stream the bus has closed comes to its end, also when it was
\* blocked on its queue (_close_queue, close_from_bus).
ClosedReaderEnds ==
    \A s \in Stream :
        (stream[s] # None /\ stream[s].closed /\ stream[s].pc = "waiting")
            ~> ~Is(s, "waiting")

\* events.py, __anext__: "A real disconnect releases the stream through aclose()
\* instead": the place of a browser that has gone is free again.
PlaceComesBack ==
    \A s \in Stream : Is(s, "lost") ~> s \notin listed

\* run.py: "Uvicorn server that closes SSE subscribers on exit signals": the
\* server, which waits for its responses, can stop.
ExitEndsStreams ==
    exiting ~> \A s \in Stream : stream[s] # None => stream[s].closed
=============================================================================
