--------------------------- MODULE RestartTracker ---------------------------
(***************************************************************************)
(* Supervision with the clock of supervisor.rs: which restarts a tracker   *)
(* forgets is no longer open but a matter of their age.  Time passes       *)
(* between any two steps of any task.                                      *)
(*                                                                         *)
(* An Instant is kept as its age, and a restart that has left the window   *)
(* stays Expired: duration_since is only ever compared with within.        *)
(***************************************************************************)
EXTENDS Supervision

CONSTANT Within  \* within of the Restart strategy, in ticks of the clock

ASSUME WindowAssumption == Within \in Nat

VARIABLES
    ages,          \* history: the ages of all restarts of each actor, in order
    restart_times  \* RestartTracker.restart_times: which of them it holds

tracker   == <<ages, restart_times>>
timedVars == <<vars, tracker>>

Expired == Within + 1

TrackerInit ==
    /\ ages = [a \in Actors |-> <<>>]
    /\ restart_times = [a \in Actors |-> {}]

\* Time passes.
Tick ==
    /\ ages' = [a \in Actors |-> [k \in DOMAIN ages[a] |->
                  IF ages[a][k] < Expired THEN ages[a][k] + 1 ELSE Expired]]
    /\ UNCHANGED <<vars, restart_times>>

\* Faulty variant: a restart at the very edge of the window is forgotten.
RecentInside(a) == {k \in restart_times[a] : ages[a][k] < Within}

\* What retain leaves in restart_times.
Recent(a) == {k \in restart_times[a] : ages[a][k] \leq Within}

\* record_restart and what the task does with its answer.
TimedRestart(a) ==
    LET recent == Recent(a)
        kept   == Cardinality(recent)
    IN  /\ RecordRestart(a, kept)
        /\ IF kept < MaxRestarts
           THEN /\ ages' = [ages EXCEPT ![a] = Append(@, 0)]
                /\ restart_times' =
                     [restart_times EXCEPT ![a] = recent \cup {Len(ages[a]) + 1}]
           ELSE /\ restart_times' = [restart_times EXCEPT ![a] = recent]
                /\ UNCHANGED ages

TimedTaskStep(a) == (Progress(a) /\ UNCHANGED tracker) \/ TimedRestart(a)

TimedNext ==
    \/ Tick
    \/ Shutdown /\ UNCHANGED tracker
    \/ \E a \in Actors : (EnvStep(a) /\ UNCHANGED tracker) \/ TimedTaskStep(a)

TimedSpec == Init /\ TrackerInit /\ [][TimedNext]_timedVars

\* As FairSpec; nothing makes time pass.
TimedFairSpec == TimedSpec /\ \A a \in Actors : WF_timedVars(TimedTaskStep(a))

-----------------------------------------------------------------------------
\* All restarts of an actor in the last Within ticks, remembered or not.
InWindow(a) == {k \in DOMAIN ages[a] : ages[a][k] \leq Within}

\* record_restart answers from the window.
FollowsWindow(a) ==
    MayRestart(a) /\ pc'[a] \in {"starting", "notify"} =>
        (pc'[a] = "starting" <=> Cardinality(InWindow(a)) < MaxRestarts)
AllFollowWindow == \A a \in Actors : FollowsWindow(a)

\* "Restart on panic, up to N times within duration" (README): a panicked child
\* is started again if it was so fewer than max_restarts times in the window
\* that ends now, and given up otherwise, although the tracker only knows what
\* earlier calls of record_restart have left in it.
RestartsFollowWindow == [][AllFollowWindow]_timedVars

\* At no moment does the window that ends there hold more than max_restarts
\* restarts of one actor.
RestartsAreLimited ==
    \A a \in Actors : Cardinality(InWindow(a)) \leq MaxRestarts
=============================================================================
