--------------------------- MODULE LocalServices ---------------------------
(* The registry and the timers of one system, which both hold addresses of   *)
(* actors that end on their own.                                            *)
EXTENDS Registry, Timer

vars == <<alive, registryVars, timerVars>>

\* The shape of the state; timers respect the capacity of a mailbox, and only
\* names that are there count as registered.
TypeOK ==
    /\ alive \subseteq Actors
    /\ RegistryTypeOK
    /\ TimerTypeOK

Init ==
    /\ alive = Actors
    /\ RegistryInit
    /\ TimerInit

\* The task of an actor ends and its channel closes, with what is in it.
Die(a) ==
    /\ a \in alive
    /\ alive' = alive \ {a}
    /\ mailbox' = [mailbox EXCEPT ![a] = 0]
    /\ UNCHANGED <<registryVars, phase, cancelled, fired, inTime, late>>

Next ==
    \/ RegistryNext /\ UNCHANGED <<alive, timerVars>>
    \/ TimerNext /\ UNCHANGED <<alive, registryVars>>
    \/ \E a \in Actors : Die(a)

Spec == Init /\ [][Next]_vars

FairSpec == Spec /\ RegistryFairness /\ TimerFairness
-----------------------------------------------------------------------------
\* "Registry entries are automatically removed when actors stop" (README): a
\* name that leads to a dead actor by register does not do so for ever.
NamesAreFreed ==
    \A n \in Names, a \in Actors :
        (n \in automatic /\ LooksUp(n, a) /\ a \notin alive) ~>
            ~(n \in automatic /\ LooksUp(n, a))

\* A living actor loses its name behind the back of its users only if another,
\* dead by now, was registered under the same name: the task of that one
\* removes by name (registry.rs 45).  Names that are not reused are safe.
NamesAreKept ==
    [][\A n \in DOMAIN names \ DOMAIN names' :
        names[n] \in alive /\ calls' = calls =>
            \E a \in Actors \ alive : <<n, a>> \in registered]_vars

\* "Cancel the timer - it will not fire" (timer.rs 20) holds for a timer that is
\* cancelled while it sleeps; one that already waits for a slot may deliver one
\* more message, an interval included, and never a second.
CancelStops ==
    \A t \in Timers : late[t] \leq IF t \in inTime THEN 0 ELSE 1

\* A cancelled timer and a timer of a dead actor come to an end, also when they
\* wait for a slot in a full mailbox at that moment.
TimersEnd ==
    \A t \in Timers :
        (phase[t] # "unset" /\ (t \in cancelled \/ Owner[t] \notin alive)) ~>
            phase[t] = "done"

\* run_later delivers, on a busy mailbox too, unless it is cancelled or the
\* actor ends first.
LatersFire ==
    \A t \in Laters :
        phase[t] = "sleeping" ~>
            t \in fired \/ t \in cancelled \/ Owner[t] \notin alive
=============================================================================
