---------------------------- MODULE Supervision ----------------------------
(***************************************************************************)
(* The local actor runtime of cineyma: the task that drives one actor      *)
(* (system.rs for top-level actors, context.rs for supervised children),   *)
(* its signals, death watch, and the three supervision strategies.         *)
(*                                                                         *)
(* An actor is a tokio task with a bounded mailbox.  Tasks run on a        *)
(* multi-threaded runtime, so every step below that touches shared state   *)
(* (a mailbox, a Notify, a watcher list) is an action of its own.          *)
(*                                                                         *)
(* The life of a task, pc[a]:                                              *)
(*                                                                         *)
(*   unborn -> starting -> select <-> handling                             *)
(*     one poll of the select!, that may end where it began:               *)
(*       select -> poll_signals [<-> streaming] -> poll_escalate -> select *)
(*     the end of an incarnation and of the task:                          *)
(*       child:  stopping -> notify -> dead, or stopping -> starting       *)
(*       top:    notify -> stopping -> dead                                *)
(*                                                                         *)
(* A panic outside the two catch_unwind calls kills the task: crashed.     *)
(***************************************************************************)
EXTENDS Naturals, Sequences, FiniteSets

CONSTANTS
    Actors,       \* pool of actor ids (ActorId::new hands out fresh ones)
    Tops,         \* bound: the ids the outside world may spawn at top level
    NoActor,      \* "no parent" / "no child being spawned"
    UserMsg,      \* a user message; a Terminated{id} message is the id itself
    Strategies,   \* supervision strategies a parent may choose
    Capacity,     \* mailbox capacity (default 256)
    MaxRestarts,  \* max_restarts of the Restart strategy
    MaxInputs,    \* bound: calls and stream items that user code feeds in
    HookPanics,   \* may started, stopped and stream handlers panic?
    StoppedSpawns \* may stopped() use its Context to spawn and watch?

AllStrategies == {"Stop", "Restart", "Escalate"}

ASSUME ActorsAssumption ==
    /\ Tops \subseteq Actors
    /\ NoActor \notin Actors
    /\ UserMsg \notin Actors
ASSUME StrategiesAssumption == Strategies \subseteq AllStrategies
ASSUME BoundsAssumption ==
    /\ Capacity \in Nat \ {0}
    /\ MaxRestarts \in Nat
    /\ MaxInputs \in Nat
    /\ HookPanics \in BOOLEAN
    /\ StoppedSpawns \in BOOLEAN

VARIABLES
    pc,            \* control state of each actor's task
    parent,        \* the actor that spawned it, NoActor for a top-level one
    strategy,      \* how its supervisor treats its panics ("None" at top level)
    children,      \* Context.children of the current incarnation
    spawning,      \* child spawned by the running spawn_child, not yet watched
    mailbox,       \* the bounded mpsc channel
    watchers,      \* Addr.watchers: a bag of watching actors
    stopSignal,    \* actors whose stop Notify holds a permit (notify_one)
    escalate,      \* actors whose incarnation's escalate Notify holds a permit
    shutdownSeen,  \* actors whose pending shutdown.notified() was notified
    panicked,      \* actors that last left the receive loop with break true
    restarts,      \* restarts the RestartTracker currently remembers
    heard,         \* history: Terminated{id} messages each actor has received
    shutdown,      \* history: the tasks that ran when shutdown() was called
    inputs         \* bound: calls and stream items so far

family  == <<parent, strategy, children, spawning>>
channel == <<mailbox, heard>>
signals == <<stopSignal, escalate, shutdownSeen, shutdown>>
outcome == <<panicked, restarts>>
vars    == <<pc, family, channel, watchers, signals, outcome, inputs>>

Msgs     == Actors \cup {UserMsg}
UserCode == {"starting", "handling", "streaming"}
            \cup (IF StoppedSpawns THEN {"stopping"} ELSE {})
InSelect == {"select", "poll_signals", "streaming", "poll_escalate"}
Ended    == {"dead", "crashed"}
PCs      == {"unborn", "starting", "handling", "stopping", "notify"}
            \cup InSelect \cup Ended

IsTop(a)   == parent[a] = NoActor
Born(a)    == pc[a] # "unborn"
Running(a) == pc[a] \notin Ended \cup {"unborn"}   \* the task holds rx

\* The shape of the state, the mailbox bound among it.
TypeOK ==
    /\ pc \in [Actors -> PCs]
    /\ parent \in [Actors -> Actors \cup {NoActor}]
    /\ strategy \in [Actors -> AllStrategies \cup {"None"}]
    /\ children \in [Actors -> SUBSET Actors]
    /\ spawning \in [Actors -> Actors \cup {NoActor}]
    /\ mailbox \in [Actors -> Seq(Msgs)]
    /\ \A a \in Actors : Len(mailbox[a]) \leq Capacity
    /\ watchers \in [Actors -> [Actors -> Nat]]
    /\ stopSignal \subseteq Actors
    /\ escalate \subseteq Actors
    /\ shutdownSeen \subseteq Actors
    /\ panicked \subseteq Actors
    /\ restarts \in [Actors -> 0..MaxRestarts]
    /\ heard \in [Actors -> SUBSET Actors]
    /\ shutdown \subseteq Actors
    /\ inputs \in 0..MaxInputs

Init ==
    /\ pc = [a \in Actors |-> "unborn"]
    /\ parent = [a \in Actors |-> NoActor]
    /\ strategy = [a \in Actors |-> "None"]
    /\ children = [a \in Actors |-> {}]
    /\ spawning = [a \in Actors |-> NoActor]
    /\ mailbox = [a \in Actors |-> <<>>]
    /\ watchers = [a \in Actors |-> [w \in Actors |-> 0]]
    /\ stopSignal = {}
    /\ escalate = {}
    /\ shutdownSeen = {}
    /\ panicked = {}
    /\ restarts = [a \in Actors |-> 0]
    /\ heard = [a \in Actors |-> {}]
    /\ shutdown = {}
    /\ inputs = 0

-----------------------------------------------------------------------------
(* The outside world: code that holds an ActorSystem or an Addr.           *)

Input == inputs < MaxInputs /\ inputs' = inputs + 1

\* ActorSystem::spawn: a new top-level task.
Spawn(a) ==
    /\ a \in Tops
    /\ pc[a] = "unborn"
    /\ pc' = [pc EXCEPT ![a] = "starting"]
    /\ UNCHANGED <<family, channel, watchers, signals, outcome, inputs>>

\* Faulty variant: the mailbox bound is not enforced.
SendUnbounded(a) ==
    /\ Running(a)
    /\ Input
    /\ mailbox' = [mailbox EXCEPT ![a] = Append(@, UserMsg)]
    /\ UNCHANGED <<pc, family, heard, watchers, signals, outcome>>

\* A user message is accepted by the mailbox of a task that still holds rx.
Send(a) ==
    /\ Running(a)
    /\ Len(mailbox[a]) < Capacity
    /\ Input
    /\ mailbox' = [mailbox EXCEPT ![a] = Append(@, UserMsg)]
    /\ UNCHANGED <<pc, family, heard, watchers, signals, outcome>>

\* ctx.stop() inside the actor, ChildHandle::stop() on its address: both are
\* notify_one on the same Notify, which keeps one permit until it is used.
Stop(a) ==
    /\ Born(a)
    /\ Input
    /\ stopSignal' = stopSignal \cup {a}
    /\ UNCHANGED <<pc, family, channel, watchers, escalate, shutdownSeen,
                   shutdown, outcome>>

\* ActorSystem::shutdown: notify_waiters reaches the notified() futures that
\* exist at this moment and stores nothing for later ones.
Shutdown ==
    /\ Input
    /\ shutdown' = shutdown \cup {a \in Actors : Running(a)}
    /\ shutdownSeen' = shutdownSeen \cup {a \in Actors : pc[a] \in InSelect}
    /\ UNCHANGED <<pc, family, channel, watchers, stopSignal, escalate, outcome>>

-----------------------------------------------------------------------------
(* User code: started(), message and stream handlers, stopped().  It may   *)
(* use its Context any number of times before it returns or panics.        *)

InUserCode(a) == pc[a] \in UserCode /\ spawning[a] = NoActor

\* spawn_child...: the child's task is spawned, with fresh signals, an empty
\* mailbox and a new tracker, before anyone watches it.
SpawnChild(a, c, s) ==
    /\ InUserCode(a)
    /\ pc[c] = "unborn"
    /\ pc' = [pc EXCEPT ![c] = "starting"]
    /\ parent' = [parent EXCEPT ![c] = a]
    /\ strategy' = [strategy EXCEPT ![c] = s]
    /\ children' = [children EXCEPT ![a] = @ \cup {c}]
    /\ spawning' = [spawning EXCEPT ![a] = c]
    /\ UNCHANGED <<channel, watchers, signals, outcome, inputs>>

\* add_watcher takes the mutex that notify_watchers holds during its loop.
AddWatcher(b, w) ==
    /\ pc[b] # "notify"
    /\ watchers' = [watchers EXCEPT ![b][w] = @ + 1]

\* ... the rest of spawn_child: self.watch(&child_addr).
WatchChild(a) ==
    /\ spawning[a] # NoActor
    /\ AddWatcher(spawning[a], a)
    /\ spawning' = [spawning EXCEPT ![a] = NoActor]
    /\ UNCHANGED <<pc, parent, strategy, children, channel, signals, outcome,
                   inputs>>

\* ctx.watch(&addr).
Watch(a, b) ==
    /\ InUserCode(a)
    /\ Born(b)
    /\ Input
    /\ AddWatcher(b, a)
    /\ UNCHANGED <<pc, family, channel, signals, outcome>>

\* started() or a handler returns and the loop creates new select! futures,
\* the shutdown.notified() among them.
UserCodeReturn(a) ==
    /\ InUserCode(a)
    /\ pc[a] # "stopping"
    /\ pc' = [pc EXCEPT ![a] = "select"]
    /\ shutdownSeen' = shutdownSeen \ {a}
    /\ UNCHANGED <<family, channel, watchers, stopSignal, escalate, shutdown,
                   outcome, inputs>>

-----------------------------------------------------------------------------
(* The receive loop: one biased select!.                                   *)

\* Faulty variant: a child's task leaves its loop without stop_children.
LeaveLoopOnly(a, permits) ==
    /\ pc' = [pc EXCEPT ![a] = IF IsTop(a) THEN "notify" ELSE "stopping"]
    /\ stopSignal' = permits

\* The loop is left with a break while the stop Notifys hold these permits.  A
\* top-level task goes on to notify its watchers; a child first calls
\* stop_children (notify_one on every child of this Context), then stopped().
LeaveLoop(a, permits) ==
    /\ pc' = [pc EXCEPT ![a] = IF IsTop(a) THEN "notify" ELSE "stopping"]
    /\ stopSignal' = IF IsTop(a) THEN permits ELSE permits \cup children[a]

\* A message handler panics; catch_unwind turns that into break true.
HandlerPanic(a) ==
    /\ InUserCode(a)
    /\ pc[a] = "handling"
    /\ LeaveLoop(a, stopSignal)
    /\ panicked' = panicked \cup {a}
    /\ UNCHANGED <<family, channel, watchers, escalate, shutdownSeen, shutdown,
                   restarts, inputs>>

\* rx.recv() is polled first and yields a message: the other futures are
\* dropped, a shutdown notification they had received with them.
RecvReady(a) ==
    /\ pc[a] = "select"
    /\ mailbox[a] # <<>>
    /\ pc' = [pc EXCEPT ![a] = "handling"]
    /\ mailbox' = [mailbox EXCEPT ![a] = Tail(@)]
    /\ heard' = [heard EXCEPT ![a] = @ \cup ({Head(mailbox[a])} \cap Actors)]
    /\ shutdownSeen' = shutdownSeen \ {a}
    /\ UNCHANGED <<family, watchers, stopSignal, escalate, shutdown, outcome,
                   inputs>>

\* rx.recv() is pending; a message may arrive before the next branch is polled.
RecvEmpty(a) ==
    /\ pc[a] = "select"
    /\ mailbox[a] = <<>>
    /\ pc' = [pc EXCEPT ![a] = "poll_signals"]
    /\ UNCHANGED <<family, channel, watchers, signals, outcome, inputs>>

\* A stream has an item or has ended: its handler runs inside the poll.
PollStream(a) ==
    /\ pc[a] = "poll_signals"
    /\ Input
    /\ pc' = [pc EXCEPT ![a] = "streaming"]
    /\ UNCHANGED <<family, channel, watchers, signals, outcome>>

\* poll_streams only ran finished() hooks: it is Pending and the same select!
\* goes on to its next branch.
StreamsEnded(a) ==
    /\ InUserCode(a)
    /\ pc[a] = "streaming"
    /\ pc' = [pc EXCEPT ![a] = "poll_signals"]
    /\ UNCHANGED <<family, channel, watchers, signals, outcome, inputs>>

\* shutdown.notified(), then stop_signal.notified(): break false.
PollSignals(a) ==
    /\ pc[a] = "poll_signals"
    /\ IF a \in shutdownSeen \cup stopSignal
       THEN /\ LeaveLoop(a, IF a \in shutdownSeen THEN stopSignal
                                                  ELSE stopSignal \ {a})
            /\ panicked' = panicked \ {a}
       ELSE /\ pc' = [pc EXCEPT ![a] = "poll_escalate"]
            /\ UNCHANGED <<panicked, stopSignal>>
    /\ UNCHANGED <<family, channel, watchers, escalate, shutdownSeen, shutdown,
                   restarts, inputs>>

\* Faulty variant: the select! has no escalate branch.
PollNoEscalate(a) ==
    /\ pc[a] = "poll_escalate"
    /\ pc' = [pc EXCEPT ![a] = "select"]
    /\ UNCHANGED <<family, channel, watchers, signals, outcome, inputs>>

\* escalate_signal.notified(), the last branch: break true.  If it is pending
\* too the task sleeps until something wakes it and polls from the top again.
PollEscalate(a) ==
    /\ pc[a] = "poll_escalate"
    /\ IF a \in escalate
       THEN /\ LeaveLoop(a, stopSignal)
            /\ panicked' = panicked \cup {a}
            /\ escalate' = escalate \ {a}
       ELSE /\ pc' = [pc EXCEPT ![a] = "select"]
            /\ UNCHANGED <<panicked, escalate, stopSignal>>
    /\ UNCHANGED <<family, channel, watchers, shutdownSeen, shutdown, restarts,
                   inputs>>

-----------------------------------------------------------------------------
(* The end of an incarnation and of a task.                                *)

\* stopped() has returned.
StoppedReturns(a) == pc[a] = "stopping" /\ spawning[a] = NoActor

\* The task's future is dropped: rx closes the mailbox, queued messages go.
DropTask(a, how) ==
    /\ pc' = [pc EXCEPT ![a] = how]
    /\ mailbox' = [mailbox EXCEPT ![a] = <<>>]

\* Nothing restarts a child that did not panic or whose strategy is Stop.
Finish(a) ==
    /\ StoppedReturns(a)
    /\ ~IsTop(a)
    /\ a \notin panicked \/ strategy[a] = "Stop"
    /\ pc' = [pc EXCEPT ![a] = "notify"]
    /\ UNCHANGED <<family, channel, watchers, signals, outcome, inputs>>

MayRestart(a) == /\ StoppedReturns(a) /\ ~IsTop(a)
                 /\ a \in panicked /\ strategy[a] = "Restart"

\* The next round of the 'restart loop: a new Context, with no children.
NewIncarnation(a, kept) ==
    /\ restarts' = [restarts EXCEPT ![a] = kept + 1]
    /\ pc' = [pc EXCEPT ![a] = "starting"]
    /\ children' = [children EXCEPT ![a] = {}]

\* Faulty variant: watchers are notified whenever an incarnation ends.
RecordNotifies(a, kept) ==
    /\ MayRestart(a)
    /\ NewIncarnation(a, kept)
    /\ escalate' = escalate \ {a}
    /\ mailbox' = [w \in Actors |->
                     IF watchers[a][w] > 0 /\ Running(w) /\ mailbox[w] = <<>>
                     THEN <<a>> ELSE mailbox[w]]
    /\ UNCHANGED <<parent, strategy, spawning, heard, watchers, stopSignal,
                   shutdownSeen, shutdown, panicked, inputs>>

\* Faulty variant: the escalate signal is shared by all incarnations.
RecordSharesEscalate(a, kept) ==
    /\ MayRestart(a)
    /\ NewIncarnation(a, kept)
    /\ UNCHANGED <<parent, strategy, spawning, channel, watchers, signals,
                   panicked, inputs>>

\* Faulty variant: each incarnation has a stop signal of its own.
RecordForgetsStop(a, kept) ==
    /\ MayRestart(a)
    /\ NewIncarnation(a, kept)
    /\ escalate' = escalate \ {a}
    /\ stopSignal' = stopSignal \ {a}
    /\ UNCHANGED <<parent, strategy, spawning, channel, watchers, shutdownSeen,
                   shutdown, panicked, inputs>>

\* Strategy Restart, with a tracker that still remembers so many restarts: below
\* the limit there is one more.  The mailbox and the stop signal are those of
\* the old incarnation, the escalate signal is a new one.
RecordRestart(a, kept) ==
    /\ MayRestart(a)
    /\ IF kept < MaxRestarts
       THEN /\ NewIncarnation(a, kept)
            /\ escalate' = escalate \ {a}
       ELSE /\ restarts' = [restarts EXCEPT ![a] = kept]
            /\ pc' = [pc EXCEPT ![a] = "notify"]
            /\ UNCHANGED <<children, escalate>>
    /\ UNCHANGED <<parent, strategy, spawning, channel, watchers, stopSignal,
                   shutdownSeen, shutdown, panicked, inputs>>

\* record_restart first forgets the restarts older than the window; which ones
\* these are is a matter of time, see RestartTracker.
Restart(a) == \E kept \in 0..restarts[a] : RecordRestart(a, kept)

\* Strategy Escalate: notify_one on the escalate signal of the incarnation of
\* the parent that spawned this child; after a restart nobody waits for it.
Escalate(a) ==
    /\ StoppedReturns(a)
    /\ ~IsTop(a) /\ a \in panicked /\ strategy[a] = "Escalate"
    /\ escalate' = escalate \cup {p \in {parent[a]} : a \in children[p]}
    /\ pc' = [pc EXCEPT ![a] = "notify"]
    /\ UNCHANGED <<family, channel, watchers, stopSignal, shutdownSeen,
                   shutdown, outcome, inputs>>

\* One iteration of notify_watchers: try_send(Terminated), its error ignored.
\* The count stands for the loop's cursor over the watcher list.
NotifyWatcher(a, w) ==
    /\ pc[a] = "notify"
    /\ watchers[a][w] > 0
    /\ watchers' = [watchers EXCEPT ![a][w] = @ - 1]
    /\ mailbox' = IF Running(w) /\ Len(mailbox[w]) < Capacity
                  THEN [mailbox EXCEPT ![w] = Append(@, a)] ELSE mailbox
    /\ UNCHANGED <<pc, family, heard, signals, outcome, inputs>>

NotifyDone(a) == pc[a] = "notify" /\ \A w \in Actors : watchers[a][w] = 0

\* Faulty variant: a top-level task forgets stop_children.
TopStopsAlone(a) ==
    /\ NotifyDone(a)
    /\ IsTop(a)
    /\ pc' = [pc EXCEPT ![a] = "stopping"]
    /\ UNCHANGED <<family, channel, watchers, signals, outcome, inputs>>

\* After the loop a top-level task calls stop_children and stopped().
TopStops(a) ==
    /\ NotifyDone(a)
    /\ IsTop(a)
    /\ pc' = [pc EXCEPT ![a] = "stopping"]
    /\ stopSignal' = stopSignal \cup children[a]
    /\ UNCHANGED <<family, channel, watchers, escalate, shutdownSeen, shutdown,
                   outcome, inputs>>

\* The end of the task: for a child after notify_watchers, for a top-level
\* actor after stopped().
TaskEnd(a) ==
    /\ IF IsTop(a) THEN StoppedReturns(a) ELSE NotifyDone(a)
    /\ DropTask(a, "dead")
    /\ UNCHANGED <<family, heard, watchers, signals, outcome, inputs>>

\* A panic in started(), stopped() or a stream handler is not caught: the
\* task dies where it stands, without stop_children or notify_watchers.
HookPanic(a) ==
    /\ HookPanics
    /\ spawning[a] = NoActor
    /\ pc[a] \in {"starting", "streaming", "stopping"}
    /\ DropTask(a, "crashed")
    /\ UNCHANGED <<family, heard, watchers, signals, outcome, inputs>>

-----------------------------------------------------------------------------
\* What the environment may do to an actor, or its user code may choose to do.
EnvStep(a) ==
    \/ Spawn(a) \/ Send(a) \/ Stop(a)
    \/ \E c \in Actors, s \in Strategies : SpawnChild(a, c, s)
    \/ \E b \in Actors : Watch(a, b)
    \/ PollStream(a)
    \/ HandlerPanic(a) \/ HookPanic(a)

\* What the runtime does with a task that can make progress, restarts apart.
Progress(a) ==
    \/ WatchChild(a)
    \/ UserCodeReturn(a) \/ StreamsEnded(a)
    \/ RecvReady(a) \/ RecvEmpty(a) \/ PollSignals(a) \/ PollEscalate(a)
    \/ Finish(a) \/ Escalate(a)
    \/ \E w \in Actors : NotifyWatcher(a, w)
    \/ TopStops(a)
    \/ TaskEnd(a)

TaskStep(a) == Progress(a) \/ Restart(a)

Next == Shutdown \/ \E a \in Actors : EnvStep(a) \/ TaskStep(a)

Spec == Init /\ [][Next]_vars

\* Handlers and hooks return and the runtime keeps polling woken tasks; what
\* user code does besides returning, and what the outside world does, is free.
FairSpec == Spec /\ \A a \in Actors : WF_vars(TaskStep(a))

-----------------------------------------------------------------------------
(* Safety.                                                                 *)

\* The points of a task after which it never runs its actor's handlers again:
\* from notify_watchers on, which a top-level task does before stop_children.
Gone(a) == \/ pc[a] \in {"notify"} \cup Ended
           \/ IsTop(a) /\ pc[a] = "stopping"

\* w has handled, or will find in its mailbox, the Terminated{a}.
Told(w, a) == \/ a \in heard[w]
              \/ \E i \in 1..Len(mailbox[w]) : mailbox[w][i] = a

\* Whoever is told of an actor's termination will never see that actor handle
\* another message: a supervised restart is invisible to the death watch
\* (notify_watchers in context.rs is after the 'restart loop).
TerminatedIsFinal == \A a, w \in Actors : Told(w, a) => Gone(a)

\* The incarnation that spawned c is past stop_children, or was replaced.
Abandoned(c) ==
    /\ parent[c] \in Actors
    /\ \/ c \notin children[parent[c]]
       \/ pc[parent[c]] \in {"stopping", "dead"}
       \/ pc[parent[c]] = "notify" /\ ~IsTop(parent[c])

\* c is past its last handler, or holds a stop that no panic, restart or
\* message can take away from it.
Doomed(c) == \/ c \in stopSignal
             \/ pc[c] = "stopping" /\ c \notin panicked
             \/ Gone(c)

\* No orphans: when an incarnation of a parent has ended, each child it had
\* spawned is stopping or has a stop request it cannot lose ("Stops when
\* parent stops", also across the restart of either of them).
NoOrphans ==
    ~StoppedSpawns => \A c \in Actors : Abandoned(c) => Doomed(c)

\* c was spawned by the current incarnation of p, panicked, and is gone.
FailedUnder(p, c) == /\ c \in children[p] /\ parent[c] = p
                     /\ strategy[c] = "Escalate" /\ c \in panicked
                     /\ pc[c] \in {"notify", "dead"}

\* An incarnation is only ever brought down by the failure of a child that it
\* spawned itself: an escalation addressed to an earlier incarnation is lost.
EscalationIsCurrent == \A p \in escalate : \E c \in Actors : FailedUnder(p, c)

-----------------------------------------------------------------------------
(* Liveness, under FairSpec.                                               *)

\* A stop request ends the task, whatever else the actor does meanwhile: the
\* permit outlives messages, panics and restarts.
StopIsObeyed ==
    \A a \in Actors : (a \in stopSignal /\ Running(a)) ~> pc[a] \in Ended

\* An escalation that reaches a parent in its receive loop, or on its way to
\* it, brings that incarnation down.
InLoop(a) == pc[a] \in InSelect \cup {"starting", "handling"}
EscalationIsObeyed ==
    \A a \in Actors : (a \in escalate /\ InLoop(a)) ~> ~InLoop(a)

\* spawn_child: "Stops when parent stops", as long as the parent's task comes to
\* its end. A panic outside catch_unwind (crashed) skips stop_children, and the
\* children run on without a parent.
Orphan(c) == parent[c] \in Actors /\ pc[parent[c]] = "dead" /\ Running(c)
ChildStopsWithParent == \A c \in Actors : Orphan(c) ~> ~Orphan(c)

\* ActorSystem::shutdown, "gracefully shutdown the actor system": a task that
\* ran when it was called ends.
ShutdownStopsAll == \A a \in Actors : a \in shutdown ~> pc[a] \in Ended

\* spawn_child: "Parent receives Terminated message when child stops", if the
\* parent does not end first.
ParentHearsTerminated ==
    \A p, c \in Actors :
        (parent[c] = p /\ pc[c] = "dead") ~> (c \in heard[p] \/ Gone(p))
=============================================================================
