------------------------------- MODULE Timer -------------------------------
(***************************************************************************)
(* Timers of actors (context.rs run_later, run_interval; timer.rs): a task   *)
(* per timer that sleeps, looks at the cancel flag and then waits for a slot *)
(* in the mailbox of the actor, which it keeps a sender of.                  *)
(*                                                                         *)
(*   unset --RunTimer--> sleeping --Elapse/Tick--> sending --Fire--> done     *)
(*                          ^  `-- cancelled --> done         |               *)
(*                          `-------- an interval ------------'               *)
(***************************************************************************)
EXTENDS Lifetimes

CONSTANTS
    Laters,     \* timers of run_later
    Intervals,  \* timers of run_interval
    Owner,      \* Owner[t]: the actor that t belongs to
    Capacity    \* capacity of a mailbox

Timers == Laters \cup Intervals

ASSUME TimerAssumption ==
    /\ Laters \cap Intervals = {}
    /\ Owner \in [Timers -> Actors]
    /\ Capacity \in Nat \ {0}

VARIABLES
    phase,      \* where each timer's task is
    cancelled,  \* timers whose flag is set
    mailbox,    \* mailbox[a]: messages in a's channel
    fired,      \* history: timers whose message has gone in at least once
    inTime,     \* history: timers that were cancelled while they slept
    late        \* history: late[t] messages went in after t was cancelled

timerVars == <<phase, cancelled, mailbox, fired, inTime, late>>

TimerTypeOK ==
    /\ phase \in [Timers -> {"unset", "sleeping", "sending", "done"}]
    /\ cancelled \subseteq Timers
    /\ mailbox \in [Actors -> 0 .. Capacity]
    /\ fired \subseteq Timers
    /\ inTime \subseteq cancelled
    /\ late \in [Timers -> Nat]

TimerInit ==
    /\ phase = [t \in Timers |-> "unset"]
    /\ cancelled = {}
    /\ mailbox = [a \in Actors |-> 0]
    /\ fired = {}
    /\ inTime = {}
    /\ late = [t \in Timers |-> 0]
-----------------------------------------------------------------------------
\* run_later or run_interval, called from a handler of the actor.
RunTimer(t) ==
    /\ phase[t] = "unset"
    /\ Owner[t] \in alive
    /\ phase' = [phase EXCEPT ![t] = "sleeping"]
    /\ UNCHANGED <<cancelled, mailbox, fired, inTime, late>>

\* TimerHandle::cancel.  What counts is the first call.
Cancel(t) ==
    /\ phase[t] # "unset"
    /\ cancelled' = cancelled \cup {t}
    /\ inTime' = IF phase[t] = "sleeping" /\ t \notin cancelled
                 THEN inTime \cup {t} ELSE inTime
    /\ UNCHANGED <<phase, mailbox, fired, late>>

\* The delay of run_later is over, and the flag is read.
Elapse(t) ==
    /\ t \in Laters
    /\ phase[t] = "sleeping"
    /\ phase' = [phase EXCEPT ![t] = IF t \in cancelled THEN "done" ELSE "sending"]
    /\ UNCHANGED <<cancelled, mailbox, fired, inTime, late>>

\* Faulty variant: only the life of the actor ends the loop.
TickUncancelled(t) ==
    /\ t \in Intervals
    /\ phase[t] = "sleeping"
    /\ phase' = [phase EXCEPT ![t] = IF Owner[t] \in alive THEN "sending" ELSE "done"]
    /\ UNCHANGED <<cancelled, mailbox, fired, inTime, late>>

\* Faulty variant: only the flag ends the loop.
TickUndying(t) ==
    /\ t \in Intervals
    /\ phase[t] = "sleeping"
    /\ phase' = [phase EXCEPT ![t] = IF t \in cancelled THEN "done" ELSE "sending"]
    /\ UNCHANGED <<cancelled, mailbox, fired, inTime, late>>

\* An interval ticks: its loop ends with the actor or with the flag.
Tick(t) ==
    /\ t \in Intervals
    /\ phase[t] = "sleeping"
    /\ phase' = [phase EXCEPT ![t] = IF Owner[t] \notin alive \/ t \in cancelled
                                     THEN "done" ELSE "sending"]
    /\ UNCHANGED <<cancelled, mailbox, fired, inTime, late>>

AfterSend(t) == IF t \in Laters THEN "done" ELSE "sleeping"

\* Faulty variant: a full mailbox costs the message, as with try_send.
FireOrDrop(t) ==
    /\ phase[t] = "sending"
    /\ IF Owner[t] \in alive /\ mailbox[Owner[t]] < Capacity
       THEN /\ mailbox' = [mailbox EXCEPT ![Owner[t]] = @ + 1]
            /\ fired' = fired \cup {t}
            /\ late' = [late EXCEPT ![t] = IF t \in cancelled THEN @ + 1 ELSE @]
       ELSE UNCHANGED <<mailbox, fired, late>>
    /\ phase' = [phase EXCEPT ![t] = AfterSend(t)]
    /\ UNCHANGED <<cancelled, inTime>>

\* addr.do_send(msg).await: waits for a slot, the flag is not looked at again.
Fire(t) ==
    /\ phase[t] = "sending"
    /\ Owner[t] \in alive
    /\ mailbox[Owner[t]] < Capacity
    /\ mailbox' = [mailbox EXCEPT ![Owner[t]] = @ + 1]
    /\ fired' = fired \cup {t}
    /\ late' = [late EXCEPT ![t] = IF t \in cancelled THEN @ + 1 ELSE @]
    /\ phase' = [phase EXCEPT ![t] = AfterSend(t)]
    /\ UNCHANGED <<cancelled, inTime>>

\* The channel is closed: the error is ignored.
FireFails(t) ==
    /\ phase[t] = "sending"
    /\ Owner[t] \notin alive
    /\ phase' = [phase EXCEPT ![t] = AfterSend(t)]
    /\ UNCHANGED <<cancelled, mailbox, fired, inTime, late>>

\* Others send to the actor, and its receive loop takes messages.
OtherSend(a) ==
    /\ a \in alive
    /\ mailbox[a] < Capacity
    /\ mailbox' = [mailbox EXCEPT ![a] = @ + 1]
    /\ UNCHANGED <<phase, cancelled, fired, inTime, late>>

Receive(a) ==
    /\ a \in alive
    /\ mailbox[a] > 0
    /\ mailbox' = [mailbox EXCEPT ![a] = @ - 1]
    /\ UNCHANGED <<phase, cancelled, fired, inTime, late>>

TimerNext ==
    \/ \E t \in Timers :
        RunTimer(t) \/ Cancel(t) \/ Elapse(t) \/ Tick(t) \/ Fire(t) \/ FireFails(t)
    \/ \E a \in Actors : OtherSend(a) \/ Receive(a)

\* Time passes and tasks run; actors that live keep receiving, and the channel
\* gives slots in the order of waiting, so no sender is passed over for ever.
TimerFairness ==
    /\ \A t \in Timers :
        /\ WF_timerVars(Elapse(t))
        /\ WF_timerVars(Tick(t))
        /\ WF_timerVars(FireFails(t))
        /\ SF_timerVars(Fire(t))
    /\ \A a \in Actors : WF_timerVars(Receive(a))
=============================================================================
