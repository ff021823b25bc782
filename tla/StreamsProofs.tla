--------------------------- MODULE StreamsProofs ---------------------------
(***************************************************************************)
(* Type correctness of the stream loop, and that its task never sleeps      *)
(* through an input, for any number of streams and inputs.                  *)
(***************************************************************************)
EXTENDS Streams, TLAPS

\* Nothing is left to poll outside poll_streams, and past it there was no item.
PollsInPhase ==
    /\ phase # "streams" => toPoll = {}
    /\ phase \in {"signals", "sleep"} => ~anyReady

\* The part of the select! that has been polled in this poll of the task.
Past == {"streams", "signals", "sleep"}

\* Each source that was polled is empty and will wake the task, or the task will
\* be polled again anyway: it was woken, or the iteration is about to end.
InboxCovered == phase \in Past => woken \/ (mailbox = 0 /\ Inbox \in armed)

StreamCovered(s) == items[s] = 0 /\ s \notin closed /\ s \in armed

StreamsCovered ==
    phase \in Past =>
        \A s \in attached \ toPoll : woken \/ anyReady \/ StreamCovered(s)

SignalsCovered ==
    phase = "sleep" => woken \/ (raised = {} /\ Signals \subseteq armed)

\* What was added since the last TakeStreams, by other than finished(), will be
\* taken as the iteration is about to end.
AddedCovered ==
    /\ phase = "recv" => added \subseteq late
    /\ phase \in Past => anyReady \/ added \subseteq late

Covered == InboxCovered /\ StreamsCovered /\ SignalsCovered /\ AddedCovered

IInv == TypeOK /\ PollsInPhase
-----------------------------------------------------------------------------
LEMMA InitTypes == Init => IInv
<1> SUFFICES ASSUME Init PROVE IInv
    OBVIOUS
<1>1. inputs \in 0 .. MaxInputs
    BY StreamsAssumption DEF Init
<1>2. items \in [Streams -> Nat]
    BY DEF Init
<1> QED
    BY <1>1, <1>2 DEF Init, IInv, TypeOK, PollsInPhase

\* A step of the outside world changes the type of nothing.
LEMMA EnvTypes ==
    ASSUME IInv, EnvStep
    PROVE  IInv'
<1> USE StreamsAssumption DEF IInv, TypeOK, PollsInPhase, Notify, loopVars
<1>1. ASSUME NEW s \in Streams, Produce(s) PROVE IInv'
    BY <1>1 DEF Produce
<1>2. ASSUME NEW s \in Streams, EndOfStream(s) PROVE IInv'
    BY <1>2 DEF EndOfStream
<1>3. CASE Send
    BY <1>3 DEF Send
<1>4. ASSUME NEW k \in Signals, Raise(k) PROVE IInv'
    BY <1>4 DEF Raise
<1> QED
    BY <1>1, <1>2, <1>3, <1>4 DEF EnvStep

\* Dropping an incarnation leaves every stream in one place.
LEMMA FailTypes ==
    ASSUME IInv, NEW new \in SUBSET Streams, Fail(new, raised),
           UNCHANGED <<items, closed, inputs, anyReady, late, woken>>,
           mailbox' \in Nat
    PROVE  IInv'
BY DEF IInv, TypeOK, PollsInPhase, Fail, MayAdd, Sources

LEMMA TaskTypes ==
    ASSUME IInv, TaskStep
    PROVE  IInv'
<1> USE DEF sourceVars, Sources, IInv, TypeOK, PollsInPhase
<1>1. CASE TakeStreams
    BY <1>1 DEF TakeStreams
<1>2. CASE RecvPending
    BY <1>2 DEF RecvPending
<1>3. CASE StreamsPolled
    BY <1>3 DEF StreamsPolled
<1>4. CASE PollStop
    BY <1>4 DEF PollStop
<1>5. CASE Sleep
    BY <1>5 DEF Sleep
<1>6. CASE Wake
    BY <1>6 DEF Wake
<1>7. ASSUME NEW new \in SUBSET Streams, Recv(new) PROVE IInv'
    BY <1>7 DEF Recv, MayAdd
<1>8. ASSUME NEW new \in SUBSET Streams, RecvPanics(new) PROVE IInv'
    <2>1. mailbox' \in Nat
        BY <1>8 DEF RecvPanics
    <2> QED
        BY <1>8, <2>1, FailTypes DEF RecvPanics
<1>9. ASSUME NEW new \in SUBSET Streams, PollEscalate(new) PROVE IInv'
    BY <1>9, FailTypes DEF PollEscalate
<1>10. ASSUME NEW new \in SUBSET Streams, NEW s \in Streams, PollItem(s, new)
       PROVE  IInv'
    <2>1. items' \in [Streams -> Nat]
        BY <1>10 DEF PollItem
    <2> QED
        BY <1>10, <2>1 DEF PollItem, MayAdd
<1>11. ASSUME NEW new \in SUBSET Streams, NEW s \in Streams, PollEnd(s, new)
       PROVE  IInv'
    BY <1>11 DEF PollEnd, MayAdd
<1>12. ASSUME NEW s \in Streams, PollPending(s) PROVE IInv'
    BY <1>12 DEF PollPending
<1>13. ASSUME NEW s \in Streams, PollPanics(s) PROVE IInv'
    BY <1>13 DEF PollPanics
<1> QED
    BY <1>1, <1>2, <1>3, <1>4, <1>5, <1>6, <1>7, <1>8, <1>9, <1>10, <1>11,
       <1>12, <1>13 DEF TaskStep

LEMMA StutterTypes == IInv /\ UNCHANGED vars => IInv'
BY DEF IInv, TypeOK, PollsInPhase, vars, sourceVars, loopVars

LEMMA NextTypes == IInv /\ [Next]_vars => IInv'
BY EnvTypes, TaskTypes, StutterTypes DEF Next

LEMMA InvariantTypes == Spec => []IInv
BY InitTypes, NextTypes, PTL DEF Spec

\* The state of the loop keeps its type: a stream is in one place, and one that
\* has ended is not polled again.
THEOREM StreamsTypeCorrect == Spec => []TypeOK
<1>1. IInv => TypeOK
    BY DEF IInv
<1> QED
    BY <1>1, InvariantTypes, PTL
-----------------------------------------------------------------------------
\* An input wakes the task when it goes to a source that was polled, so each
\* source stays covered.
LEMMA EnvCovers ==
    ASSUME IInv, Covered, EnvStep
    PROVE  Covered'
<1> USE StreamsAssumption DEF IInv, TypeOK, Covered, Notify, loopVars, Signals
<1>1. AddedCovered'
    BY DEF EnvStep, Produce, EndOfStream, Send, Raise, AddedCovered, Past
<1>2. ASSUME NEW s \in Streams, Produce(s) PROVE Covered'
    <2>1. InboxCovered' /\ SignalsCovered'
        BY <1>2 DEF Produce, InboxCovered, SignalsCovered, Past
    <2>2. StreamsCovered'
        BY <1>2 DEF Produce, StreamsCovered, StreamCovered, Past
    <2> QED
        BY <1>1, <2>1, <2>2
<1>3. ASSUME NEW s \in Streams, EndOfStream(s) PROVE Covered'
    <2>1. InboxCovered' /\ SignalsCovered'
        BY <1>3 DEF EndOfStream, InboxCovered, SignalsCovered, Past
    <2>2. StreamsCovered'
        BY <1>3 DEF EndOfStream, StreamsCovered, StreamCovered, Past
    <2> QED
        BY <1>1, <2>1, <2>2
<1>4. CASE Send
    <2>1. InboxCovered' /\ SignalsCovered'
        BY <1>4 DEF Send, InboxCovered, SignalsCovered, Past
    <2>2. StreamsCovered'
        BY <1>4 DEF Send, StreamsCovered, StreamCovered, Past
    <2> QED
        BY <1>1, <2>1, <2>2
<1>5. ASSUME NEW k \in Signals, Raise(k) PROVE Covered'
    <2>1. InboxCovered' /\ SignalsCovered'
        BY <1>5 DEF Raise, InboxCovered, SignalsCovered, Past
    <2>2. StreamsCovered'
        BY <1>5 DEF Raise, StreamsCovered, StreamCovered, Past
    <2> QED
        BY <1>1, <2>1, <2>2
<1> QED
    BY <1>2, <1>3, <1>4, <1>5 DEF EnvStep

\* Each poll that finds nothing covers its source; the steps that forget a waker
\* begin a new poll.
LEMMA TaskCovers ==
    ASSUME IInv, Covered, TaskStep
    PROVE  Covered'
<1> USE StreamsAssumption
    DEF IInv, TypeOK, PollsInPhase, Covered, InboxCovered, StreamsCovered,
        StreamCovered, SignalsCovered, AddedCovered, Past, sourceVars
<1>1. CASE TakeStreams
    BY <1>1 DEF TakeStreams
<1>2. CASE RecvPending
    BY <1>2 DEF RecvPending
<1>3. CASE StreamsPolled
    BY <1>3 DEF StreamsPolled
<1>4. CASE PollStop
    BY <1>4 DEF PollStop
<1>5. CASE Sleep
    BY <1>5 DEF Sleep
<1>6. CASE Wake
    BY <1>6 DEF Wake
<1>7. ASSUME NEW new \in SUBSET Streams, Recv(new) PROVE Covered'
    BY <1>7 DEF Recv
<1>8. ASSUME NEW new \in SUBSET Streams, RecvPanics(new) PROVE Covered'
    BY <1>8 DEF RecvPanics, Fail
<1>9. ASSUME NEW new \in SUBSET Streams, PollEscalate(new) PROVE Covered'
    BY <1>9 DEF PollEscalate, Fail
<1>10. ASSUME NEW new \in SUBSET Streams, NEW s \in Streams, PollItem(s, new)
       PROVE  Covered'
    BY <1>10 DEF PollItem
<1>11. ASSUME NEW new \in SUBSET Streams, NEW s \in Streams, PollEnd(s, new)
       PROVE  Covered'
    BY <1>11 DEF PollEnd
<1>12. ASSUME NEW s \in Streams, PollPending(s) PROVE Covered'
    BY <1>12 DEF PollPending
<1>13. ASSUME NEW s \in Streams, PollPanics(s) PROVE Covered'
    BY <1>13 DEF PollPanics
<1> QED
    BY <1>1, <1>2, <1>3, <1>4, <1>5, <1>6, <1>7, <1>8, <1>9, <1>10, <1>11,
       <1>12, <1>13 DEF TaskStep

LEMMA StutterCovers == Covered /\ UNCHANGED vars => Covered'
BY DEF Covered, InboxCovered, StreamsCovered, StreamCovered, SignalsCovered,
       AddedCovered, Past, vars, sourceVars, loopVars

\* No wake-up is lost, whatever arrives between the polls of the branches of the
\* select!, and only streams that finished() added are left behind.
THEOREM IdleTheorem == Spec => []SleepsWhenIdle
<1>1. Init => Covered
    BY DEF Init, Covered, InboxCovered, StreamsCovered, SignalsCovered,
           AddedCovered, Past
<1>2. IInv /\ Covered /\ [Next]_vars => Covered'
    BY EnvCovers, TaskCovers, StutterCovers DEF Next
<1>3. IInv /\ Covered => SleepsWhenIdle
    BY DEF IInv, PollsInPhase, Covered, InboxCovered, StreamsCovered,
           StreamCovered, SignalsCovered, AddedCovered, Past, SleepsWhenIdle
<1> QED
    BY <1>1, <1>2, <1>3, InvariantTypes, PTL DEF Spec

\* What a step may never do: part with a stream of the actor that is not
\* exhausted, unless the whole incarnation ends with all its streams.
StreamIsKept ==
    \A s \in attached \cup added :
        \/ s \in attached' \cup added'
        \/ items[s] = 0 /\ s \in closed
        \/ attached' = {} /\ attached \cup added \subseteq gone'

\* Nothing but its own end, or that of the incarnation, takes a stream away from
\* the loop (retain_mut in poll_streams, the append of take_streams in the loops
\* of context.rs and system.rs): the safety half of StreamsAreHandled.
THEOREM StreamsAreKept == Spec => [][StreamIsKept]_vars
<1>1. ASSUME [Next]_vars PROVE [StreamIsKept]_vars
    <2> USE DEF StreamIsKept
    <2>1. CASE EnvStep
        BY <2>1 DEF EnvStep, Produce, EndOfStream, Send, Raise, Notify, loopVars
    <2>2. CASE TakeStreams \/ RecvPending \/ StreamsPolled \/ PollStop \/ Sleep \/ Wake
        BY <2>2 DEF TakeStreams, RecvPending, StreamsPolled, PollStop, Sleep, Wake
    <2>3. ASSUME NEW new \in SUBSET Streams,
                 Recv(new) \/ RecvPanics(new) \/ PollEscalate(new)
          PROVE  StreamIsKept
        BY <2>3 DEF Recv, RecvPanics, PollEscalate, Fail
    <2>4. ASSUME NEW new \in SUBSET Streams, NEW s \in Streams,
                 PollItem(s, new) \/ PollEnd(s, new)
          PROVE  StreamIsKept
        BY <2>4 DEF PollItem, PollEnd
    <2>5. ASSUME NEW s \in Streams, PollPending(s) \/ PollPanics(s)
          PROVE  StreamIsKept
        BY <2>5 DEF PollPending, PollPanics
    <2> QED
        BY <1>1, <2>1, <2>2, <2>3, <2>4, <2>5 DEF Next, TaskStep
<1> QED
    BY <1>1, PTL DEF Spec
=============================================================================
