# Verification of cineyma

cineyma is an actor framework on tokio: actors with bounded mailboxes,
supervision and death watch inside a process, typed remote calls over TCP, and a
gossip-based cluster that tells which node an actor lives on. This directory
holds TLA+ models of it, checked with TLC on small instances and, where the
result should hold for every instance, proved with TLAPS. `PROJECT.json` maps
every definition to the source lines it stands for.

## 1. Inventory

| Component | State | Operations | What makes it correct |
|---|---|---|---|
| Actor tasks and supervision (`system.rs`, `context.rs`, `actor.rs`) | a task per actor; per incarnation a `Context` with its children and an escalate `Notify`; per actor a stop `Notify`; one shutdown `Notify` per system | `spawn`, `spawn_child*`, `stop`, `shutdown`, the receive loop, hooks, restart / stop / escalate | stop requests, escalations and shutdown take effect; children end with their parents; a restart is invisible from outside |
| Death watch (`address.rs`, `watcher.rs`) | a mutex-protected watcher list per address | `watch`, `notify_watchers` | who is told is told the truth, and everyone is told |
| Restart tracker (`supervisor.rs`) | times of recent restarts | `record_restart` | at most `max_restarts` restarts in any window |
| Mailbox (`address.rs`, `envelope.rs`, `error.rs`) | bounded mpsc channel, a oneshot per request | `send`, `send_timeout`, `do_send`, `try_send`, async forms | FIFO, at most once, every call returns, errors mean what they say |
| Streams (`stream.rs`) | streams attached to an incarnation | `add_stream`, `poll_streams` | every item is handled, messages come first |
| Timers (`timer.rs`, `context.rs`) | a cancel flag per timer task | `run_later`, `run_interval`, `cancel` | a cancelled timer does not fire, an interval ends with its actor |
| Local registry (`registry.rs`) | name -> address | `register`, `register_manual`, `lookup`, `unregister`, a polling task per registration | a name leads to the actor last registered under it until that one dies |
| Remote calls (`remote/client.rs`, `server.rs`, `addr.rs`, `handler.rs`) | command channel, map of pending requests, a task on either side of a connection, id counter | `send`, `send_timeout`, `do_send`, the client loop, the server loop | answers reach their own callers, losses are reported, at most once |
| Transport (`remote/tcp.rs`, `transport.rs`) | a framed TCP stream | `send`, `recv`, `connect`, codec | frames arrive whole and in order |
| Cluster node (`remote/cluster.rs`) | members, heartbeats, actor locations | `merge_gossip`, failure detector, gossip rounds, `start_server` | views converge, dead nodes are found and their actors forgotten, live ones are not |
| Cluster client (`remote/cluster_client.rs`) | pool of connections | `send_to_actor`, `do_send_to_actor`, `clear_connection` | requests on one connection do not mix, broken connections are replaced |
| Remote message registry (`remote/registry.rs`) | type name -> decoder | `register_message`, `deserialize_payload` | - |

How they interact: an `Addr` is a sender on its actor's mailbox plus shared
pointers to the stop `Notify` and the watcher list; supervision, death watch,
timers and the registry all act through it. A remote call is a command to the
client task, a frame, a call of the handler closure, which is a local
`Addr::send` on the other side, and a frame back. The cluster client wraps such
calls in transport envelopes to the node that its copy of the actor directory
names. Everything runs on tokio's multi-threaded runtime.

What is hard: the biased `select!`, whose branches are polled in order and whose
futures are dropped whenever one is ready; three kinds of signal with different
memory (`notify_one` keeps a permit, `notify_waiters` keeps nothing, an escalate
signal belongs to one incarnation); panics that are caught in message handlers
and nowhere else; full mailboxes; a connection that breaks between any two
steps; and tasks that stop reading while they write. `PROJECT.json` lists these
hazards line by line.

## 2. Modules

### Supervision

One module for top-level and supervised actors, because they meet in every
interesting behaviour. `pc[a]` is the control state of a's task; the module's
header draws the graph. Correspondence with the code:

* `Spawn`, `SpawnChild`: the two places that call `tokio::spawn`. `spawn_child`
  is two actions, as the child's task runs from `tokio::spawn` on while its
  parent has yet to add itself as a watcher (`WatchChild`). No user code runs in
  between, so the child is put in `children` by the first of them.
* `UserCodeReturn`, `HandlerPanic`, `HookPanic`: how started, handlers, stream
  handlers and stopped end. While it runs, user code may `SpawnChild`, `Watch`,
  and `Stop`.
* `RecvReady`/`RecvEmpty`, `PollStream`/`StreamsEnded`, `PollSignals`,
  `PollEscalate`: one poll of the `select!`, branch by branch, as messages and
  signals may arrive between two branches. Creating the futures anew forgets a
  shutdown notification (`shutdownSeen`), as dropping a `Notified` that
  `notify_waiters` reached does. The `None => break` branch of `recv` is left
  out: the actor's own `Context` holds a sender, so the channel cannot close
  under it.
* `LeaveLoop`, `Finish`, `Restart`, `Escalate`, `TopStops`, `NotifyWatcher`,
  `TaskEnd`: what follows the loop, in the different orders of the two tasks
  (a child: stop_children, stopped, strategy, notify; a top-level actor: notify,
  stop_children, stopped). `notify_watchers` is one step per watcher, and holds
  the lock that `AddWatcher` needs.
* Data left out: a user message is one value, a Terminated message is the id it
  carries. How many restarts the window has kept is a free choice (`Restart`), and
  what follows from the number is `RecordRestart`; time is added by
  `RestartTracker`.

Bounds: `Actors` is the pool of ids, `Tops` the ids the outside world may spawn,
`MaxInputs` bounds messages, stops, watches, stream items and shutdowns.
`HookPanics` and `StoppedSpawns` switch on what user code may do wrong.

### RestartTracker

`Supervision` with the clock of `supervisor.rs`. `ages` are the ages of all
restarts that an actor ever had, in order, a history; `restart_times` says which
of them its tracker still holds. `Tick` lets time pass between any two steps.
`TimedRestart` is `record_restart`: it retains what is not older than `Within`
(`Recent`), then does `RecordRestart` with their number. All other steps are
those of `Supervision`. An age past the window stays at `Expired`, as
`duration_since` is only compared with `within`. The point of the history is
that the tracker forgets restarts on the way, when it retains and when it
refuses, and its answer should nevertheless be that of a window over all of
them (`RestartsFollowWindow`).

### Streams

The loop of one actor, seen from the task that runs it. The streams that user
code adds wait in its `Context` (`added`) until the next iteration of the loop
takes them (`TakeStreams`, `attached`); an ended stream, and those of a dropped
incarnation, are `gone`. One poll of the task goes through the branches of the
`select!` in order: `Recv`/`RecvPending`, the streams one by one (`PollItem`,
`PollEnd`, `PollPending`, `StreamsPolled`), `PollStop`, `PollEscalate`, and
`Sleep` when none is ready. Inputs may arrive between any two of these. A branch
that finds nothing leaves the task's waker with its source (`armed`), and an
input for an armed source wakes the task (`woken`), which is then polled again
from the first branch on, with the same futures (`Wake`). `Fail` is the end of
an incarnation, after which there is a new one with new streams or none; which,
is the subject of `Supervision`, as are shutdown and what handlers do besides
adding streams. That the runtime's cooperative budget may make a branch with
input return Pending after waking the task itself is left out: it adds polls
that find what the next one would have found. `late` is a history variable.

### AtMostOnce

The contract of a call, without queues: a request runs at most once, "ok" for a
request with a result means that it ran, a refusal that it never will, and
anything else leaves the caller in doubt. `Mailbox` and `RemoteRpc` both
implement it, each under its own refinement mapping (`Contract`). What a caller
may rely on is stated here once: `Promise` (a state) and `Finality` (a step).

### Mailbox

Any number of callers on one mailbox. The tokio channel gives a freed slot to
the sender that has waited longest (`granted`), which puts its message in when
it runs again (`Unblock`); this is how tokio's fair semaphore works and is taken
as given. `HandlerPanics` drops the envelope with its oneshot and leaves the
mailbox open, as for a restarted child; `Close` is the end of the task. The
status of a call for the contract (`Status`) is what its caller can see: an Ask
gets the same `MailboxClosed` from a channel that turned it away and from a
oneshot that was dropped, so both are doubt, as in `RemoteRpc`; a Tell that
fails was never accepted and is refused.

### RemoteRpc

One connection: callers, the client task, two bounded wires, the server task.
`pending` is the set of requests that are registered, each under `corr`; the
operator `SameId` is the map lookup. Ids are drawn when the call is made, before
the wait for a slot, so they reach the wire in any order. `UniqueIds` chooses
between `RemoteAddr` against `RemoteServer` and `ClusterClient` against the
cluster server, which differ in the ids and in what a failed response does.
Handing a result to a oneshot and waking its caller are one step: tokio's
timeout polls its future before the timer, so nothing can come between them.
`LinkDown` keeps any prefix of what is on the wires; a send on a broken
connection may still seem to succeed. It stands for a break that both ends come
to notice. The protocol has no heartbeat: a connection that dies in silence
cannot be told from a peer that is slow, is not modelled, and is not what
`LossIsReported` is about. A decode error ends a connection as well
(`Framed` yields its end after an error) and is not told apart from a break.
Local execution behind the handler closure is one step; its details are those
of `Mailbox`. Ids are unbounded: 2^64 calls on one process are out of reach.
`AtRest` says in terms of the state, without ENABLED, that neither task nor any
caller can move, so that `DeadlockIsGridlock` can be proved.

### Gossip

The nodes of a cluster: `members`, `silence` (the age of `last_heartbeat`) and
`registry` of each, and the gossip round of those that call
`start_periodic_gossip`. Correspondence with `remote/cluster.rs`:

* `Detect` and `Cleanup` are the two critical sections of a round, with the
  merges of other tasks in between; `GossipTo`/`NoGossip` pick a peer and
  connect.
* `Receive` and `Reply` are the peer's connection task (`start_server`),
  `MergeResponse` and `RecvError` the end of `send_gossip_to`. `link[n]` is the
  connection of n's exchange, of which there is one at a time because the loop
  awaits it. `Break` loses what is on it at any stage.
* `MergeGossip` holds all three locks at once, as the code does. An entry is
  replaced when the status differs and kept when it is the same, so that in a
  model without addresses the message's entry is simply taken.
* `Crash` and `Restart` keep an id and its seeds and lose the memory. The request
  that the crashed process had under way is among the `strays` and may still
  arrive (`ReceiveStray`), also after the restart, next to the exchange of the
  new process; the answer to it goes nowhere. Breaks, crashes and restarts count
  as inputs.
* `Tick` makes heartbeats older, up to `MaxSilence`, past which ages are alike.
  Only detectors read heartbeats, so only theirs grow.

Left out: the actor's type name next to its location, and addresses, as a node
keeps its own for ever. Only configured `Seeds` are given to `add_member`, and
as Up, which is what every caller in the repository does, although the method
takes a `Node` with any status.
`lapsed` and `announced` are history variables for the properties.

### ClusterClient

Calls of one `ClusterClient` and its pool. A connection is named after the call
that opened it. `Connect` keeps the pool's mutex until `Connected` or
`ConnectFails`, as `get_or_connect` awaits `connect` under it; `Reuse`,
`Removal` and `ClearConnection` hold it for one step. A request that is
registered while another waits on the same connection takes its place
(`Registered`), because all ids are 0; how answers then go to the wrong caller
is the subject of `RemoteRpc` and `rpc_cluster`. A frame that cannot be written
fails whoever is registered under 0 while the client task goes on: the caller
itself (`Registered` again), or, when it is the frame of a do_send, somebody else
(`TellWritten`). `AskFails` spawns the task that
removes the node from the pool by name (`Removal`). What the directory answers
is a free choice (`Lookup`): what it may say is the subject of `Gossip`.

### Lifetimes, Registry, Timer, LocalServices

`Registry` and `Timer` are two services that hold addresses of actors that end
on their own; `Lifetimes` declares what they see of an actor (`is_alive`) and
`LocalServices` composes them with the death of actors. In `Registry` the task
that `register` spawns is two steps, the poll that finds the actor dead and the
`unregister` that follows, for names may change hands between the two and long
before. In `Timer` a task reads the cancel flag (`Elapse`, `Tick`) and only then
waits for a slot (`Fire`); the mailbox is a number, as its order is the subject
of `Mailbox`. `RunTimer` names each timer once; a handler may start any number.

## 3. Runs

| Run | Instance | States | Shows |
|---|---|---|---|
| `sup_safety` | 3 actors, any tree, capacity 1, 1 restart, 2 inputs, panicking hooks, symmetric | 3.1 million | `TypeOK`, `TerminatedIsFinal`, `NoOrphans`, `EscalationIsCurrent` |
| `sup_liveness` | a parent and a child, 2 restarts within 1 tick, 3 inputs, panicking hooks | 130 000 | `RestartsFollowWindow`, `StopIsObeyed`, `EscalationIsObeyed`, `ChildStopsWithParent` |
| `sup_shutdown` | as above, hooks that do not panic | - | violated: `ShutdownStopsAll` |
| `sup_terminated` | as above, hooks that do not panic | - | violated: `ParentHearsTerminated` |
| `streams` | 2 streams, 4 inputs | 46 000 | `TypeOK`, `SleepsWhenIdle`, `StreamsAreHandled` |
| `mailbox` | 5 calls (2 sends, 1 timed, 1 do_send, 1 try_send), 2 slots | 195 000 | `TypeOK`, `InOrder`, `NoLostWakeup`, `KeepsContract`, `EveryCallReturns` |
| `rpc_safety` | 4 calls (2 plain, 1 timed, 1 tell), command channel and wires of 1, symmetric | 1.7 million | `TypeOK`, `AnswersMatch`, `NoForgottenCaller`, `DeadlockIsGridlock`, `KeepsContract` |
| `rpc_liveness` | 3 calls (1 of each kind) | 66 000 | `AnsweredUnlessStuck`, `LossIsReported` |
| `rpc_cluster` | 4 calls with ClusterClient's ids | - | violated: `AnswersMatch` |
| `gossip` | 3 nodes in a line (a knows b, b knows c), a gossips, 1 actor, timeout 1, 2 inputs | 467 000 | `TypeOK`, `DownIsEarned`, `DirectoryIsTrue`, `LocationsAreKept`, `DownIsForGood`, `FailureIsDetected`, `ActorsAreFound` |
| `cluster_client` | 2 asks and a tell, 2 nodes, 1 clear per node | 292 000 | `TypeOK`, `ReusesConnections`, `GoesToNode`, `FailureIsForgotten`, `EveryCallEnds` |
| `local_services` | 2 actors, 1 name, 3 registry calls, 1 later, 1 interval, capacity 1 | 129 000 | `CancelStops`, `NamesAreFreed`, `NamesAreKept`, `TimersEnd`, `LatersFire` |

Why these bounds: three actors are a grandparent, a parent and a child, the
smallest family in which a restart meets an escalation from below and a stop
from above, and also two top-level actors that watch each other's child. A limit
of two restarts within one tick has restarts inside the window, at its edge and
past it, held together by one tracker, and three messages are three panics, the
fewest after which a restart may be refused. A
mailbox of two slots for five callers makes "full" and "blocked" ordinary and
still lets messages overtake each other if anything could make them. Four remote calls on
wires of one frame fill every place between the two tasks, which is what the
gridlock of `DeadlockIsGridlock` takes; with the three calls of the liveness run
it cannot happen, and the disjunct of `AnsweredUnlessStuck` that allows for it
is exercised by the invariant of the safety run only. In the line of three
nodes c is known to a by hearsay only, b is both served and spoken of, and two
inputs are a registration and a crash, or a crash and a restart. One detector
makes the clock of the others irrelevant; the safety properties are proved for
any number of them. Three registry calls are a name that is given to one actor,
then to another, and taken away; two asks and a tell are the fewest calls that
displace, fail and reuse. Four inputs to two streams are enough for an item, an
end, a message and a signal in any order, or for a stream that finishes, the one
it adds and what wakes the task for it. Deadlock checking is off:
actors may all have ended, calls may all have returned.

Findings. The violated properties are sentences of the repository: a shutdown
is lost on every actor that is busy when it is called; a parent may miss the
Terminated of a child that ends at once, or whose message finds the mailbox
full; and concurrent requests of a cluster client are mixed up, because each has
id 0.

Some properties of passing runs say less than the documentation does, because
the code does:

* A child "stops when parent stops": `ChildStopsWithParent` is about a parent
  whose task comes to its end. A panic in started, stopped or a stream handler
  is outside `catch_unwind`, ends the task before `stop_children`, and leaves
  the children running.
* "Add a stream to be handled by this actor": a stream added by a `finished()`
  hook stays in the `Context` while the task sleeps, as the end of a stream does
  not end the iteration, and is taken up with the next message or item
  (the two parts of `StreamsAreHandled`).
* MailboxClosed ("actor has stopped") is also what a caller gets whose
  handler panicked, after which the actor may go on. `Contract` calls it doubt.
* "When a node goes DOWN, all its actors are removed from the registry": only
  at a node whose own detector found it (`LocationsAreKept` says when that is).
  Who learns it by gossip keeps the locations, and a peer's next message brings
  back the ones that were removed; no property says that they stay away.
* `DownIsForGood`: once everyone agrees that a node is Down, the node itself
  included, gossiping with it does not change that; nothing but `add_member` or
  a restart does.
* "failed connections auto-removed": after a failed request
  (`FailureIsForgotten` is about Asks); a failed do_send leaves its connection.
* "Cancel the timer - it will not fire": `CancelStops` allows one message of a
  timer that was already waiting for a slot.
* A living actor may lose its name to the task of a dead one that had it before
  (`NamesAreKept`).

## 4. Fairness

`Supervision!FairSpec` asks that a task that can take a step eventually takes
one: tokio polls woken tasks, and hooks and handlers are assumed to return. It
asks nothing of senders, streams, stops or panics. As `MaxInputs` bounds these,
no behaviour has an endless supply of messages; with one, the biased `select!`
may never look at its signals, and the liveness results say nothing about that.
`RestartTracker!TimedFairSpec` is the same with the clock, and nothing makes time
pass. `Streams!FairSpec` is the same for one task, with the same limit.
`Mailbox!FairSpec` asks the same of the receive loop and of woken callers;
nothing makes a timer fire, an actor stop or a caller call. `RemoteRpc!FairSpec`
asks it of the client task, the server task (so handlers return) and callers
for whom there is a slot; the `select!` of the client task is not biased, and
each of its steps consumes something finite.

`Gossip!FairSpec`: time passes, rounds and connection tasks go on, a reset
connection is noticed, and every member that can be reached is picked again and
again. The last is strong fairness of `GossipTo` per peer, which a random choice
gives with probability one. Breaks are finitely many (`MaxInputs`). A peer that
accepts and then says nothing while its connection stays up would hold a round
for ever, since `send_gossip_to` has no timeout; tasks that run exclude it.
`ClusterClient!FairSpec`: callers and spawned tasks run, and connecting ends one
way or the other; no peer is made to answer. The pool's mutex is first come,
first served, and with finitely many calls weak fairness is enough for it.
`LocalServices!FairSpec`: tasks run, time passes, living actors receive; strong
fairness of `Fire` stands for the order in which the channel serves those who
wait for a slot.

## 5. Proofs

All theorems hold for every value of the constants that satisfies the named
assumptions (`ActorsAssumption`, `StrategiesAssumption`, `BoundsAssumption`,
`WindowAssumption`, `RpcAssumption`, `MailboxAssumption`, `GossipAssumption`,
`ClientAssumption`, `RegistryAssumption`, `TimerAssumption`, `StreamsAssumption`):
any number of actors, requests or nodes, any capacity, any window and any bound.

`SupervisionProofs`:

* `TypeCorrect`: `TypeOK` is inductive by itself.
* `DeathWatchIsFinal`: `TerminatedIsFinal` with `TypeOK` is inductive. Two
  lemmas carry it: nothing brings a task back once it has begun to notify
  (`GoneStable`), and only a task that notifies puts its id into a mailbox
  (`ToldByNotify`).
* `EscalationsAreCurrent`: the child that explains a permit stays a failed child
  of that incarnation for as long as the permit is there (`FailedStable`); the
  restart that forgets the children makes a new signal.
* `NoChildIsOrphaned`: a child that holds a stop permit, is stopping without
  having panicked, or is gone, stays so (`DoomedStable`), and an incarnation
  abandons its children only in the step that stops them (`AbandonedIsDoomed`).
* `StopsAreKept`: the same lemmas as a property of steps. Whatever a task does,
  a stop request is not lost and an ended actor does not come back.
* `EscalationsAreKept`: nothing takes an escalation away from an incarnation that
  goes on with its loop.
* `TrackerRefines`, `WindowTheorem`, `LimitTheorem`: `TrackerOK` says that the
  tracker holds every restart that is still in the window (it may hold older
  ones until it next retains), and that the number of those it holds is the count
  of `Supervision`, which `TypeCorrect` keeps within `MaxRestarts`. Hence what
  `retain` leaves is the window itself (`RecentIsWindow`), the answer is the
  window's, and every timed step is one of `Supervision` with that number for
  the free choice: all theorems above hold of the tasks with the clock.
* `FamilyTheorem`: `Families` is inductive with `TypeOK`. An actor has one
  parent at most and is none of its own, and every child that an incarnation
  knows is one spawned through its `Context`.

`RemoteRpcProofs`:

* `RpcTypeCorrect`: `TypeOK` is inductive.
* `AnswersAreOwn`: `AnswersMatch` is not inductive; a response is matched long
  after its id was drawn. The invariant `RpcInv` adds that ids of calls that
  have been made are distinct and below the counter (`IdsAreFresh`), and that
  whatever is in a queue, in the map, on a wire or in a task has been called
  (`InFlight`). It is proved under the assumption `UniqueIds`; `rpc_cluster`
  shows that it fails without.
* `CallersAreReachable`: `NoForgottenCaller` is inductive with `TypeOK`, for
  either kind of ids.
* `GridlockTheorem`: `DeadlockIsGridlock` for any capacities and either kind of
  ids. `Tracked` says where the request of a waiting caller is (with the client
  task, on a wire, with the server task) unless its handler sent no response or
  the link is down; at rest each of these places but the two full wires is ruled
  out.
* `GridlockIsForever`: a gridlock lasts as long as the connection; calls that are
  made or given up meanwhile change nothing, and who waits gets a timeout or
  nothing.
* `LossTheorem`: when the client task has ended nobody waits for it, whatever
  their handlers did; at rest on a lost connection nobody waits at all. From
  `Tracked` again.
* `RunsOnceTheorem`, `RpcContractTheorem`: `JourneyInv` follows a request on its
  way. It is in one place at a time and nowhere twice (`Once`), where it stands
  agrees with what its caller knows (`Standing`), and what is on its way back has
  been executed (`Answered`). For any ids this gives that no request runs twice,
  before it was handed over, or after its do_send failed. With unique ids, and
  `RpcInv` for whose response it is, every action maps to a step of `AtMostOnce`
  or none.
* `RemotePromise`, `RemoteFinality`: `Promise` and `Finality` of the contract,
  carried over (see `AtMostOnceProofs`).

`StreamsProofs`:

* `StreamsTypeCorrect`: `TypeOK` needs that nothing is left to poll outside
  `poll_streams` (`PollsInPhase`).
* `IdleTheorem`: `SleepsWhenIdle` speaks of the end of a poll, `Covered` of every
  moment of it: each branch that has been polled is empty and armed, or the task
  was woken, or a stream had an item and the iteration is about to end.
* `StreamsAreKept`: a stream leaves the loop only exhausted or with its
  incarnation, never because a branch was cancelled by the `select!`.

`MailboxProofs`:

* `MailboxTypeCorrect`, `WakeupTheorem`: neither `TypeOK` nor `NoLostWakeup` is
  inductive alone. `recv` gives its slot to the first waiter, which fills it
  only if that one did not own a slot already; `SlotInv` adds that whoever waits
  or was granted a slot is blocked, stands in line once, and is not both.
* `OrderTheorem`: `Ordered` says `InOrder` entry by entry, where Append and Tail
  are easy to follow, and is inductive with `TypeOK`.
* `ContractTheorem`: `Outcomes` relates the result of a call to the fate of its
  message (nothing is accepted twice, who waits was accepted, a Tell that was
  accepted returned Ok, what was replied to was handled). With it each action maps to one step of `AtMostOnce`, or none
  (`ContractStep`).
* `LocalPromise`, `LocalFinality`: `Promise` and `Finality`, carried over.
* `OwedTheorem`: `CallersAreHeld` says that who is blocked is in line or has a
  slot, and that the message of who waits is in the mailbox, with the handler or
  done with. With `NoLostWakeup` it follows that nobody is owed anything when
  the actor has nothing left to do.

`AtMostOnceProofs`:

* The lemmas `ContractPromise` and `ContractFinality` say what follows from the
  contract alone: at most one execution, an answer only after it, no execution
  of what was refused, and no outcome taken back. They say nothing of the code by
  themselves. `MailboxProofs` and `RemoteRpcProofs` take both through INSTANCE under their refinement mappings;
  the lemma `SameContract` of each says that the two instances are the same
  specification. What is proved of the contract is thereby proved of local and
  remote calls, the latter with unique ids.

`GossipProofs`:

* `GossipTypeCorrect`: `TypeOK` is inductive; views and directories are maps, and
  a few lemmas say what inserting, merging and retaining do to them.
* `DownTheorem`, `DirectoryTheorem`: `GossipInv` adds that a heartbeat that is
  too old has been noted (`SilenceHasLapsed`) and that the nodes to clean up
  after were found Down because of one (`CleanupHasLapsed`). What is said in a
  message, on a link or stray (`FlightStep`), is as true as what was said in the
  view it was made from, for the history only grows. The encoding of a status as a number and back is part of
  the argument (`DownCode`).
* `LocationsTheorem`: from `CleanupHasLapsed`; merging only adds locations.
* `DownForGoodTheorem`: a node that is asked, also by a stray, is running and is
  not the one that asks (`PeerRuns`), so its view
  is one of those that agree, and a verdict of Down is never revised.
* `SilenceTheorem`: once a node has stopped and its last words have arrived
  (`Speechless`), there is no message of its own left for anyone to merge, again
  by `PeerRuns`; what others say about it does not refresh a heartbeat.

`ClusterClientProofs`:

* `ClientTypeCorrect`: `TypeOK`, in which the lock belongs to the call that
  connects.
* `ReuseTheorem`: by accounting. For each node, connections opened and removals
  to come are at most failures, clears and what the pool holds (`Balanced`).
  Opening one keeps the balance because the lock kept everyone else from putting
  one there (`ConnectsIfMissing`).
* `RouteTheorem`, `RemovalTheorem`: `RouteInv` adds to `TypeOK` which
  connections have been opened (`Opened`). A call goes over a connection to the
  node that the directory named, although connections are removed by the name of
  the node and not by identity; and as long as a connection on which a request
  failed is in the pool, some task is going to remove it.
* `OneWaiterTheorem`: the other side of the shared id 0. A caller drops who was
  registered before it, so at most one caller of a connection can be answered.

`LocalServicesProofs`:

* `ServicesTypeCorrect`: one lemma per service, and that neither touches the
  other's state.
* `CancelTheorem`: `CancelledTimers` says where a cancelled timer may be and how
  often it can still have fired.
* `NamesTheorem`: `Watchers` traces a task that is about to unregister back to
  the `register` that started it and the death it has seen.
* `WatchedTheorem`: as long as a name from `register` leads to an actor, a task
  that frees the name at its death is there.
* `TimersTheorem`: a timer's task ends with its run_later message sent, cancelled,
  or with its actor.

Liveness under fairness is out of the prover's reach. Where a liveness property
rests on an argument of safety, that half is proved: `OwedTheorem` for
`EveryCallReturns`, `GridlockTheorem` and `LossTheorem` for `AnsweredUnlessStuck`
and `LossIsReported`, `StopsAreKept` and `EscalationsAreKept` for `StopIsObeyed`
and `EscalationIsObeyed`, `StreamsAreKept` for `StreamsAreHandled`,
`SilenceTheorem` for `FailureIsDetected`, `RemovalTheorem` for
`FailureIsForgotten`, `WatchedTheorem` for `NamesAreFreed`, `TimersTheorem` for
`LatersFire`. What is left to fairness is that a step that stays possible is
taken.

Proved and not listed by a run: `StopIsKept`, `EscalationIsKept`, `Families`,
`StreamIsKept`, `RunsOnce`, `GridlockHolds`,
`LossLeavesNobody`, `NobodyIsOwed`, `RemovalIsDue`, `OneWaiter`,
`NamesAreWatched`, `TimersEndForCause` and `DeadStaySilent`, which are defined in
the proof modules, `Promise` and `Finality` of `AtMostOnce`, `RestartsAreLimited`
of `RestartTracker` and `TypeOK` of `LocalServices`.

Only model-checked: the liveness properties.

## 6. What is left

1. `Codec`: decoding of partial reads against the concatenation of frames.
   `RemoteRpc` and `Gossip` take it for granted that frames arrive whole.
2. `Gossip` with addresses that change when a node restarts.

Not modelled: the remote message registry (one map behind one lock), generated
protobuf code and re-exports, the examples, and deadlocks among user handlers
that wait for each other, which are a property of the user's code.
