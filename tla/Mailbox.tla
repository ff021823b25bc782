------------------------------ MODULE Mailbox ------------------------------
(***************************************************************************)
(* Calls on the address of one actor (address.rs, envelope.rs): a bounded  *)
(* mpsc channel from any number of callers to the receive loop, and one    *)
(* oneshot channel per request for the result.                             *)
(*                                                                         *)
(* The tokio channel grants a freed slot to the sender that waits longest; *)
(* that sender puts its message in when its task runs again.  Sync and     *)
(* async messages (send/send_async, do_send/do_send_async, ...) share the  *)
(* channel and differ only in how long the handler runs.                   *)
(***************************************************************************)
EXTENDS Naturals, Sequences, FiniteSets

CONSTANTS
    Sends,       \* requests made with send, send_async
    TimedSends,  \* requests made with send_timeout
    DoSends,     \* requests made with do_send, do_send_async
    TrySends,    \* requests made with try_send, try_send_async
    NoRequest,   \* "the actor is not in a handler"
    Capacity     \* capacity of the channel

Asks     == Sends \cup TimedSends
Tells    == DoSends \cup TrySends
Requests == Asks \cup Tells

ASSUME MailboxAssumption ==
    /\ NoRequest \notin Requests
    /\ Capacity \in Nat \ {0}
    /\ Asks \cap Tells = {} /\ Sends \cap TimedSends = {} /\ DoSends \cap TrySends = {}

VARIABLES
    call,      \* where each call is, or what it returned
    waiters,   \* senders blocked for a slot, in order of arrival
    granted,   \* senders that own a slot but have not run yet
    queue,     \* messages in the channel
    current,   \* the request whose handler runs
    open,      \* does the actor's task still hold rx?
    replied,   \* requests whose result was put in their oneshot
    dropped,   \* requests whose oneshot sender was dropped unused
    accepted,  \* history: requests in the order they entered the channel
    handled    \* history: requests in the order their handlers began

vars == <<call, waiters, granted, queue, current, open, replied, dropped,
          accepted, handled>>

Results == {"ok", "closed", "timeout", "full"}
Elems(s) == {s[i] : i \in 1..Len(s)}

\* The shape of the state; slots are never over-committed.
TypeOK ==
    /\ call \in [Requests -> {"idle", "blocked", "waiting"} \cup Results]
    /\ waiters \in Seq(Requests) /\ granted \subseteq Requests
    /\ queue \in Seq(Requests) /\ current \in Requests \cup {NoRequest}
    /\ open \in BOOLEAN
    /\ replied \subseteq Asks /\ dropped \subseteq Asks
    /\ accepted \in Seq(Requests) /\ handled \in Seq(Requests)
    /\ Len(queue) + Cardinality(granted) \leq Capacity

Init ==
    /\ call = [r \in Requests |-> "idle"]
    /\ waiters = <<>> /\ granted = {}
    /\ queue = <<>> /\ current = NoRequest
    /\ open = TRUE
    /\ replied = {} /\ dropped = {}
    /\ accepted = <<>> /\ handled = <<>>

-----------------------------------------------------------------------------
(* Callers.                                                                *)

Return(r, result) == call' = [call EXCEPT ![r] = result]

SlotFree == Len(queue) + Cardinality(granted) < Capacity

\* The message enters the channel: a Tell is done, an Ask awaits its oneshot.
Enter(r) ==
    /\ queue' = Append(queue, r)
    /\ accepted' = Append(accepted, r)
    /\ Return(r, IF r \in Asks THEN "waiting" ELSE "ok")

\* sender.send(..).await: fails on a closed channel, takes a free slot at once
\* if nobody waits for one, and otherwise waits.
Send(r) ==
    /\ call[r] = "idle" /\ r \notin TrySends
    /\ \/ /\ ~open
          /\ Return(r, "closed")
          /\ UNCHANGED <<queue, accepted, waiters>>
       \/ /\ open /\ SlotFree /\ waiters = <<>>
          /\ Enter(r)
          /\ UNCHANGED waiters
       \/ /\ open /\ ~(SlotFree /\ waiters = <<>>)
          /\ waiters' = Append(waiters, r)
          /\ Return(r, "blocked")
          /\ UNCHANGED <<queue, accepted>>
    /\ UNCHANGED <<granted, current, open, replied, dropped, handled>>

\* Faulty variant: a message that finds the mailbox full goes in regardless.
TrySendOvercommits(r) ==
    /\ call[r] = "idle" /\ r \in TrySends /\ open
    /\ Enter(r)
    /\ UNCHANGED <<waiters, granted, current, open, replied, dropped, handled>>

\* Faulty variant: a message that fills the mailbox is reported as refused.
TrySendFillsAndRefuses(r) ==
    /\ call[r] = "idle" /\ r \in TrySends /\ open /\ SlotFree
    /\ queue' = Append(queue, r)
    /\ accepted' = Append(accepted, r)
    /\ Return(r, IF Len(queue') = Capacity THEN "full" ELSE "ok")
    /\ UNCHANGED <<waiters, granted, current, open, replied, dropped, handled>>

\* sender.try_send(..): MailboxClosed, MailboxFull or accepted, never waiting.
TrySend(r) ==
    /\ call[r] = "idle" /\ r \in TrySends
    /\ \/ ~open /\ Return(r, "closed") /\ UNCHANGED <<queue, accepted>>
       \/ open /\ ~SlotFree /\ Return(r, "full") /\ UNCHANGED <<queue, accepted>>
       \/ open /\ SlotFree /\ Enter(r)
    /\ UNCHANGED <<waiters, granted, current, open, replied, dropped, handled>>

\* A blocked sender runs again: with its slot, or because the channel closed.
Unblock(r) ==
    /\ call[r] = "blocked"
    /\ \/ open /\ r \in granted /\ Enter(r)
       \/ ~open /\ Return(r, "closed") /\ UNCHANGED <<queue, accepted>>
    /\ granted' = granted \ {r}
    /\ UNCHANGED <<waiters, current, open, replied, dropped, handled>>

\* rx.await: the result, or MailboxClosed if the sender was dropped.
Await(r) ==
    /\ call[r] = "waiting"
    /\ \/ r \in replied /\ Return(r, "ok")
       \/ r \in dropped /\ Return(r, "closed")
    /\ UNCHANGED <<waiters, granted, queue, current, open, replied, dropped,
                   accepted, handled>>

\* tokio::time::timeout around rx: only the wait for the result is timed, and
\* the request stays where it is.
Timeout(r) ==
    /\ r \in TimedSends
    /\ call[r] = "waiting" /\ r \notin replied \cup dropped
    /\ Return(r, "timeout")
    /\ UNCHANGED <<waiters, granted, queue, current, open, replied, dropped,
                   accepted, handled>>

-----------------------------------------------------------------------------
(* The actor.                                                              *)

\* Faulty variant: the slot is freed but nobody who waits for it is told.
RecvKeepsSlot ==
    /\ open /\ current = NoRequest /\ queue # <<>>
    /\ current' = Head(queue)
    /\ queue' = Tail(queue)
    /\ handled' = Append(handled, Head(queue))
    /\ UNCHANGED <<call, waiters, granted, open, replied, dropped, accepted>>

\* Faulty variant: the newest message is handled first.
RecvNewest ==
    /\ open /\ current = NoRequest /\ queue # <<>>
    /\ current' = queue[Len(queue)]
    /\ queue' = SubSeq(queue, 1, Len(queue) - 1)
    /\ handled' = Append(handled, queue[Len(queue)])
    /\ UNCHANGED <<call, waiters, granted, open, replied, dropped, accepted>>

\* rx.recv() takes the oldest message and its slot goes to the first waiter.
Recv ==
    /\ open /\ current = NoRequest /\ queue # <<>>
    /\ current' = Head(queue)
    /\ queue' = Tail(queue)
    /\ handled' = Append(handled, Head(queue))
    /\ IF waiters = <<>>
       THEN UNCHANGED <<waiters, granted>>
       ELSE /\ granted' = granted \cup {Head(waiters)}
            /\ waiters' = Tail(waiters)
    /\ UNCHANGED <<call, open, replied, dropped, accepted>>

\* Envelope::handle: the handler returns and its result goes to the caller, if
\* there is one and it still waits.
HandlerReturns ==
    /\ current # NoRequest
    /\ current' = NoRequest
    /\ replied' = replied \cup ({current} \cap Asks)
    /\ UNCHANGED <<call, waiters, granted, queue, open, dropped, accepted, handled>>

\* Faulty variant: the envelope of a panicked handler is kept.
PanicKeepsEnvelope ==
    /\ current # NoRequest
    /\ current' = NoRequest
    /\ UNCHANGED <<call, waiters, granted, queue, open, replied, dropped,
                   accepted, handled>>

\* The handler panics: unwinding drops the envelope and the oneshot in it.  The
\* task goes on to restart the actor on the same channel, or to Close.
HandlerPanics ==
    /\ current # NoRequest
    /\ current' = NoRequest
    /\ dropped' = dropped \cup ({current} \cap Asks)
    /\ UNCHANGED <<call, waiters, granted, queue, open, replied, accepted, handled>>

\* The task ends and drops rx: the channel closes and what is in it goes.
Close ==
    /\ open /\ current = NoRequest
    /\ open' = FALSE
    /\ queue' = <<>>
    /\ dropped' = dropped \cup (Elems(queue) \cap Asks)
    /\ UNCHANGED <<call, waiters, granted, current, replied, accepted, handled>>

-----------------------------------------------------------------------------
CallStep(r)  == Send(r) \/ TrySend(r) \/ Unblock(r) \/ Await(r) \/ Timeout(r)
ActorStep    == Recv \/ HandlerReturns \/ HandlerPanics \/ Close

Next == ActorStep \/ \E r \in Requests : CallStep(r)

Spec == Init /\ [][Next]_vars

\* Handlers end, the receive loop keeps receiving, woken callers run.  Nothing
\* makes a caller call, a timer fire or the actor stop.
FairSpec ==
    /\ Spec
    /\ WF_vars(Recv) /\ WF_vars(HandlerReturns \/ HandlerPanics)
    /\ \A r \in Requests : WF_vars(Unblock(r)) /\ WF_vars(Await(r))

-----------------------------------------------------------------------------
\* Messages are handled one at a time in the order they were accepted, and
\* none disappears while the actor is open, panics included.
InOrder ==
    /\ Len(handled) \leq Len(accepted)
    /\ handled = SubSeq(accepted, 1, Len(handled))
    /\ open => queue = SubSeq(accepted, Len(handled) + 1, Len(accepted))

\* No sender waits for a slot while one is free: every slot is either occupied
\* or on its way to a sender.
NoLostWakeup == open /\ waiters # <<>> => ~SlotFree

\* What callers may conclude from the outcome of a call, see AtMostOnce.  An Ask
\* gets the same MailboxClosed from the channel and from its oneshot (59 and 61),
\* so that its caller cannot tell whether the message was accepted.
Status(r) ==
    CASE call[r] = "idle" -> "idle"
      [] call[r] \in {"blocked", "waiting"} -> "pending"
      [] call[r] = "ok" -> "ok"
      [] call[r] = "full" -> "refused"
      [] call[r] = "timeout" -> "doubt"
      [] call[r] = "closed" -> IF r \in Asks THEN "doubt" ELSE "refused"

Contract == INSTANCE AtMostOnce
    WITH status <- [r \in Requests |-> Status(r)], executed <- handled

\* The mailbox keeps the contract of AtMostOnce.
KeepsContract == Contract!Spec

\* Every call returns, on a full mailbox, through panics, and when the actor
\* stops with the request still queued.
EveryCallReturns ==
    \A r \in Requests : call[r] \in {"blocked", "waiting"} ~> call[r] \in Results
=============================================================================
