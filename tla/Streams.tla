------------------------------ MODULE Streams ------------------------------
(***************************************************************************)
(* The streams of one actor (stream.rs, and the loops of context.rs and      *)
(* system.rs that poll them) and how the task comes to be woken for them.    *)
(* Streams that user code adds are collected by its Context and are only     *)
(* polled once the loop has begun a new iteration:                          *)
(*                                                                         *)
(*   loop --TakeStreams--> recv --> streams --> signals --> sleep            *)
(*    ^                     |  ^       |                      |              *)
(*    `--- a handler ran ---'--|-------'                      |              *)
(*                             `--------------- Wake ---------'              *)
(*                                                                         *)
(* A source that was polled and had nothing keeps the task's waker (armed).  *)
(***************************************************************************)
EXTENDS Naturals, FiniteSets

CONSTANTS
    Streams,    \* the streams that user code may add
    MaxInputs   \* bound on items, messages and signals

\* What the select! polls besides streams. These two signals store a permit;
\* shutdown, which does not and may be lost, is a subject of Supervision.
Inbox == "inbox"
Signals == {"stop", "escalate"}
Sources == Streams \cup {Inbox} \cup Signals

ASSUME StreamsAssumption ==
    /\ Streams \cap ({Inbox} \cup Signals) = {}
    /\ MaxInputs \in Nat

VARIABLES
    phase,     \* where the task is
    attached,  \* the streams of the loop
    added,     \* Context.streams: added and not yet taken
    gone,      \* streams that ended, or were dropped with an incarnation
    items,     \* items[s]: items waiting in s
    closed,    \* streams whose producer is done
    mailbox,   \* messages waiting
    raised,    \* signals that hold a permit
    toPoll,    \* streams that the running poll_streams has yet to poll
    anyReady,  \* any_ready of the running poll_streams
    armed,     \* sources that will wake the task
    woken,     \* has the task been woken since its last poll began?
    inputs,    \* items, messages and signals so far
    late       \* history: streams added by a finished() hook

sourceVars == <<items, closed, mailbox, raised, inputs>>
loopVars   == <<phase, attached, added, gone, toPoll, anyReady, late>>
vars       == <<sourceVars, loopVars, armed, woken>>

\* A stream is in one place, and one that has ended is not polled again.
TypeOK ==
    /\ phase \in {"loop", "recv", "streams", "signals", "sleep", "ended"}
    /\ attached \subseteq Streams
    /\ added \subseteq Streams
    /\ gone \subseteq Streams
    /\ attached \cap added = {} /\ gone \cap (attached \cup added) = {}
    /\ items \in [Streams -> Nat]
    /\ closed \subseteq Streams
    /\ mailbox \in Nat
    /\ raised \subseteq Signals
    /\ toPoll \subseteq attached
    /\ anyReady \in BOOLEAN
    /\ armed \subseteq Sources
    /\ woken \in BOOLEAN
    /\ inputs \in 0 .. MaxInputs
    /\ late \subseteq Streams
-----------------------------------------------------------------------------
\* User code may add any streams it has not added before.
MayAdd(new) == new \subseteq Streams \ (attached \cup added \cup gone)

\* started() has run.
Init ==
    /\ phase = "loop"
    /\ attached = {}
    /\ added \in SUBSET Streams
    /\ gone = {}
    /\ items = [s \in Streams |-> 0]
    /\ closed = {}
    /\ mailbox = 0
    /\ raised = {}
    /\ toPoll = {}
    /\ anyReady = FALSE
    /\ armed = {}
    /\ woken = FALSE
    /\ inputs = 0
    /\ late = {}

Running == phase # "ended"

\* A source has something, and wakes the task if it was asked to.
Notify(k) ==
    /\ Running
    /\ inputs < MaxInputs
    /\ inputs' = inputs + 1
    /\ woken' = (woken \/ k \in armed)
    /\ armed' = armed \ {k}

\* The outside world; a stream may have items before it is added.
Produce(s) ==
    /\ s \notin closed
    /\ Notify(s)
    /\ items' = [items EXCEPT ![s] = @ + 1]
    /\ UNCHANGED <<closed, mailbox, raised, loopVars>>

EndOfStream(s) ==
    /\ s \notin closed
    /\ Notify(s)
    /\ closed' = closed \cup {s}
    /\ UNCHANGED <<items, mailbox, raised, loopVars>>

Send ==
    /\ Notify(Inbox)
    /\ mailbox' = mailbox + 1
    /\ UNCHANGED <<items, closed, raised, loopVars>>

Raise(k) ==
    /\ Notify(k)
    /\ raised' = raised \cup {k}
    /\ UNCHANGED <<items, closed, mailbox, loopVars>>
-----------------------------------------------------------------------------
\* Faulty variant: the streams taken replace those of the loop.
TakeStreamsOnly ==
    /\ phase = "loop"
    /\ attached' = added
    /\ added' = {}
    /\ phase' = "recv"
    /\ armed' = armed \ Signals
    /\ UNCHANGED <<sourceVars, gone, toPoll, anyReady, late, woken>>

\* A new iteration: take the streams that were added and create the futures of
\* the select! anew, those of the signals with no waker.
TakeStreams ==
    /\ phase = "loop"
    /\ attached' = attached \cup added
    /\ added' = {}
    /\ phase' = "recv"
    /\ armed' = armed \ Signals
    /\ UNCHANGED <<sourceVars, gone, toPoll, anyReady, late, woken>>

\* A message comes first; its handler runs to the end of the iteration.
Recv(new) ==
    /\ phase = "recv"
    /\ mailbox > 0
    /\ MayAdd(new)
    /\ mailbox' = mailbox - 1
    /\ added' = added \cup new
    /\ phase' = "loop"
    /\ UNCHANGED <<items, closed, raised, inputs, attached, gone, toPoll, anyReady,
                   late, armed, woken>>

\* The incarnation is over: its streams are dropped, and either a new one has
\* started or the task ends.
Fail(new, permits) ==
    /\ MayAdd(new)
    /\ phase' \in {"loop", "ended"}
    /\ gone' = gone \cup attached \cup added
    /\ attached' = {}
    /\ added' = IF phase' = "loop" THEN new ELSE {}
    /\ toPoll' = {}
    /\ armed' = armed \cap {Inbox}
    /\ raised' = permits \ {"escalate"}

\* The handler of a message panics.
RecvPanics(new) ==
    /\ phase = "recv"
    /\ mailbox > 0
    /\ mailbox' = mailbox - 1
    /\ Fail(new, raised)
    /\ UNCHANGED <<items, closed, inputs, anyReady, late, woken>>

\* No message: poll_streams begins.
RecvPending ==
    /\ phase = "recv"
    /\ mailbox = 0
    /\ phase' = "streams"
    /\ armed' = armed \cup {Inbox}
    /\ toPoll' = attached
    /\ anyReady' = FALSE
    /\ UNCHANGED <<sourceVars, attached, added, gone, late, woken>>
-----------------------------------------------------------------------------
(* poll_streams: one poll of every stream, in the order of the Vec, which is *)
(* left open here.                                                          *)

\* Faulty variant: any_ready is not set.
PollItemQuietly(s, new) ==
    /\ phase = "streams" /\ s \in toPoll
    /\ items[s] > 0
    /\ MayAdd(new)
    /\ items' = [items EXCEPT ![s] = @ - 1]
    /\ added' = added \cup new
    /\ toPoll' = toPoll \ {s}
    /\ UNCHANGED <<closed, mailbox, raised, inputs, phase, attached, gone, anyReady,
                   late, armed, woken>>

\* An item: handle(item) runs, and the stream is kept.
PollItem(s, new) ==
    /\ phase = "streams" /\ s \in toPoll
    /\ items[s] > 0
    /\ MayAdd(new)
    /\ items' = [items EXCEPT ![s] = @ - 1]
    /\ added' = added \cup new
    /\ toPoll' = toPoll \ {s}
    /\ anyReady' = TRUE
    /\ UNCHANGED <<closed, mailbox, raised, inputs, phase, attached, gone, late,
                   armed, woken>>

\* Faulty variant: retain_mut keeps a stream that has ended.
PollEndKeeps(s, new) ==
    /\ phase = "streams" /\ s \in toPoll
    /\ items[s] = 0 /\ s \in closed
    /\ MayAdd(new)
    /\ gone' = gone \cup {s}
    /\ added' = added \cup new
    /\ late' = late \cup new
    /\ toPoll' = toPoll \ {s}
    /\ UNCHANGED <<sourceVars, phase, attached, anyReady, armed, woken>>

\* The end: finished() runs and the stream is removed, but that is not an item.
PollEnd(s, new) ==
    /\ phase = "streams" /\ s \in toPoll
    /\ items[s] = 0 /\ s \in closed
    /\ MayAdd(new)
    /\ attached' = attached \ {s}
    /\ gone' = gone \cup {s}
    /\ added' = added \cup new
    /\ late' = late \cup new
    /\ toPoll' = toPoll \ {s}
    /\ UNCHANGED <<sourceVars, phase, anyReady, armed, woken>>

PollPending(s) ==
    /\ phase = "streams" /\ s \in toPoll
    /\ items[s] = 0 /\ s \notin closed
    /\ armed' = armed \cup {s}
    /\ toPoll' = toPoll \ {s}
    /\ UNCHANGED <<sourceVars, phase, attached, added, gone, anyReady, late, woken>>

\* handle(item) or finished() panics, which nothing catches: the task ends.
PollPanics(s) ==
    /\ phase = "streams" /\ s \in toPoll
    /\ items[s] > 0 \/ s \in closed
    /\ phase' = "ended"
    /\ gone' = gone \cup attached \cup added
    /\ attached' = {} /\ added' = {} /\ toPoll' = {}
    /\ UNCHANGED <<sourceVars, anyReady, late, armed, woken>>

\* poll_streams returns: with an item the iteration is over.
StreamsPolled ==
    /\ phase = "streams" /\ toPoll = {}
    /\ phase' = IF anyReady THEN "loop" ELSE "signals"
    /\ UNCHANGED <<sourceVars, attached, added, gone, toPoll, anyReady, late, armed,
                   woken>>

\* The stop branches of the select!, then the escalate branch.
PollStop ==
    /\ phase = "signals" /\ "stop" \in raised
    /\ phase' = "ended"
    /\ gone' = gone \cup attached \cup added
    /\ attached' = {} /\ added' = {}
    /\ UNCHANGED <<sourceVars, toPoll, anyReady, late, armed, woken>>

PollEscalate(new) ==
    /\ phase = "signals" /\ raised = {"escalate"}
    /\ Fail(new, raised)
    /\ UNCHANGED <<items, closed, mailbox, inputs, anyReady, late, woken>>

\* Nothing is ready: the task returns Pending.
Sleep ==
    /\ phase = "signals" /\ raised = {}
    /\ armed' = armed \cup Signals
    /\ phase' = "sleep"
    /\ UNCHANGED <<sourceVars, attached, added, gone, toPoll, anyReady, late, woken>>

\* The runtime polls the task again, and with it the same futures: the streams
\* that were added stay where they are.
Wake ==
    /\ phase = "sleep" /\ woken
    /\ woken' = FALSE
    /\ phase' = "recv"
    /\ UNCHANGED <<sourceVars, attached, added, gone, toPoll, anyReady, late, armed>>

TaskStep ==
    \/ TakeStreams \/ RecvPending \/ StreamsPolled
    \/ PollStop \/ Sleep \/ Wake
    \/ \E new \in SUBSET Streams :
        \/ Recv(new) \/ RecvPanics(new) \/ PollEscalate(new)
        \/ \E s \in Streams : PollItem(s, new) \/ PollEnd(s, new)
    \/ \E s \in Streams : PollPending(s) \/ PollPanics(s)

EnvStep ==
    \/ \E s \in Streams : Produce(s) \/ EndOfStream(s)
    \/ Send
    \/ \E k \in Signals : Raise(k)

Next == TaskStep \/ EnvStep

Spec == Init /\ [][Next]_vars

\* Handlers return and the runtime polls woken tasks.
FairSpec == Spec /\ WF_vars(TaskStep)
-----------------------------------------------------------------------------
\* No wake-up is lost: when the task sleeps and is not about to be polled, there
\* is no message, no signal, and nothing in any stream that the loop knows of,
\* whatever arrived while the branches of the select! were polled one by one.
\* Only a stream that a finished() hook added can be left behind in the Context,
\* for only that runs in a poll without ending the iteration (poll_streams).
SleepsWhenIdle ==
    phase = "sleep" /\ ~woken =>
        /\ mailbox = 0
        /\ raised = {}
        /\ \A s \in attached : items[s] = 0 /\ s \notin closed
        /\ added \subseteq late

Stranded(s) == phase = "sleep" /\ s \in added

Drained(s) == s \in gone \/ (items[s] = 0 /\ s \notin closed)

\* "Add a stream to be handled by this actor" (add_stream): every item and the
\* end of a stream is handled, streams and messages competing, as long as the
\* incarnation lasts; a stranded stream has to wait for something else, which
\* may be any message.
StreamsAreHandled ==
    \A s \in Streams :
        /\ s \in attached \cup added ~> Drained(s) \/ Stranded(s)
        /\ (s \in added /\ mailbox > 0) ~> s \notin added
=============================================================================
