------------------------------- MODULE Gossip -------------------------------
(***************************************************************************)
(* The nodes of a cluster (remote/cluster.rs): who is a member, when each   *)
(* was last heard, and which node every actor lives on.  A node that has    *)
(* called start_periodic_gossip runs rounds: detect failures, forget the    *)
(* actors of those it has just found Down, exchange views with one peer.    *)
(*                                                                         *)
(*   idle --Detect--> cleanup --Cleanup--> pick --GossipTo--> wait --> idle  *)
(*          `---------- nobody Down ------^  `-- connect fails --> idle      *)
(*                                                                         *)
(* link[n] is the connection of n's current exchange:                       *)
(*   request --Receive--> served --Reply--> response --MergeResponse--> none *)
(* and it may break at any point.  A request whose sender crashes may still   *)
(* arrive, also after the sender has started again: it is among the strays.  *)
(***************************************************************************)
EXTENDS Naturals, FiniteSets

CONSTANTS
    Nodes,          \* node ids; a node keeps its address for ever
    Actors,         \* actor ids
    Hosts,          \* Hosts[x]: the nodes that may register x
    Gossipers,      \* the nodes that call start_periodic_gossip
    Seeds,          \* <<n, m>>: n is configured to add_member(m)
    SuspectTimeout, \* suspect_timeout, in ticks of the clock
    MaxInputs       \* bound on add_member, register_actor, crashes, restarts

ASSUME GossipAssumption ==
    /\ Hosts \in [Actors -> SUBSET Nodes]
    /\ Gossipers \subseteq Nodes
    /\ Seeds \subseteq Nodes \X Nodes
    /\ SuspectTimeout \in Nat
    /\ MaxInputs \in Nat

VARIABLES
    alive,      \* the nodes whose process runs
    members,    \* members[n]: node id -> status, n's own entry included
    silence,    \* silence[n]: node id -> time since last_heartbeat
    registry,   \* registry[n]: actor id -> node id (actor_registry)
    pc,         \* where n's gossip round stands
    downNodes,  \* down_nodes of n's current round
    link,       \* the connection of n's current exchange
    strays,     \* requests under way whose sender has crashed
    inputs,     \* calls and crashes so far
    lapsed,     \* history: lapsed[n] are those n has not heard for too long
    announced   \* history: <<actor, node>> pairs given to register_actor

vars == <<alive, members, silence, registry, pc, downNodes, link, strays, inputs,
          lapsed, announced>>

Status == {"Up", "Suspect", "Down"}

\* Every function from a subset of S to T: the HashMaps of the code.
Maps(S, T) == UNION {[D -> T] : D \in SUBSET S}

\* Faulty variant: numbered from 1, as if 0 were kept for "unspecified".
StatusCodeFromOne(s) == CASE s = "Up" -> 1 [] s = "Suspect" -> 2 [] s = "Down" -> 3

\* From<&Node> for NodeInfo and back: the status travels as a number.
StatusCode(s) == CASE s = "Up" -> 0 [] s = "Suspect" -> 1 [] s = "Down" -> 2

CodeStatus(i) == CASE i = 0 -> "Up" [] i = 1 -> "Suspect" [] OTHER -> "Down"

\* Time is only compared with 2 * suspect_timeout: older is all the same.
MaxSilence == 2 * SuspectTimeout + 1

NoLink == [stage |-> "none"]
Reset == [stage |-> "reset"]

Messages == [members : Maps(Nodes, 0 .. 2), actors : Maps(Actors, Nodes)]

Links ==
    {NoLink, Reset}
        \cup [stage : {"request", "response"}, peer : Nodes, msg : Messages]
        \cup [stage : {"served"}, peer : Nodes]

Strays == [from : Nodes, peer : Nodes, msg : Messages]

\* The shape of views, directories and messages; only statuses that the
\* encoding knows are ever sent.
TypeOK ==
    /\ alive \subseteq Nodes
    /\ members \in [Nodes -> Maps(Nodes, Status)]
    /\ silence \in [Nodes -> Maps(Nodes, 0 .. MaxSilence)]
    /\ registry \in [Nodes -> Maps(Actors, Nodes)]
    /\ pc \in [Nodes -> {"idle", "cleanup", "pick", "wait"}]
    /\ downNodes \in [Nodes -> SUBSET Nodes]
    /\ link \in [Nodes -> Links]
    /\ strays \subseteq Strays
    /\ inputs \in 0 .. MaxInputs
    /\ lapsed \in [Nodes -> SUBSET Nodes]
    /\ announced \subseteq Actors \X Nodes
-----------------------------------------------------------------------------
\* HashMap operations: insert one entry, insert every entry of another map.
Put(map, key, value) ==
    [k \in DOMAIN map \cup {key} |-> IF k = key THEN value ELSE map[k]]

PutAll(map, other) ==
    [k \in DOMAIN map \cup DOMAIN other |->
        IF k \in DOMAIN other THEN other[k] ELSE map[k]]

\* The members and heartbeats of ClusterNode::new, then add_member of seeds.
Seeded(n) == {n} \cup {m \in Nodes : <<n, m>> \in Seeds}

Init ==
    /\ alive = Nodes
    /\ members = [n \in Nodes |-> [m \in Seeded(n) |-> "Up"]]
    /\ silence = [n \in Nodes |-> [m \in Seeded(n) |-> 0]]
    /\ registry = [n \in Nodes |-> [x \in {} |-> n]]
    /\ pc = [n \in Nodes |-> "idle"]
    /\ downNodes = [n \in Nodes |-> {}]
    /\ link = [n \in Nodes |-> NoLink]
    /\ strays = {}
    /\ inputs = 0
    /\ lapsed = [n \in Nodes |-> {}]
    /\ announced = {}

Input ==
    /\ inputs < MaxInputs
    /\ inputs' = inputs + 1

\* add_member takes a Node of any status; every caller gives it one that is Up.
AddMember(n, m) ==
    /\ Input
    /\ n \in alive
    /\ <<n, m>> \in Seeds
    /\ members' = [members EXCEPT ![n] = Put(@, m, "Up")]
    /\ silence' = [silence EXCEPT ![n] = Put(@, m, 0)]
    /\ UNCHANGED <<alive, registry, pc, downNodes, link, strays, lapsed,
                   announced>>

RegisterActor(n, x) ==
    /\ Input
    /\ n \in alive \cap Hosts[x]
    /\ registry' = [registry EXCEPT ![n] = Put(@, x, n)]
    /\ announced' = announced \cup {<<x, n>>}
    /\ UNCHANGED <<alive, members, silence, pc, downNodes, link, strays,
                   lapsed>>

\* create_gossip_message: the view of a node, as it goes on the wire.
GossipMessage(n) ==
    [members |-> [m \in DOMAIN members[n] |-> StatusCode(members[n][m])],
     actors |-> registry[n]]

\* The members and locations that a message brings to a node.  An entry with
\* the same status is kept and one with another status is replaced, whoever it
\* is about and whoever says so, which comes to the same: it is taken.
MergeMembers(mine, theirs) ==
    PutAll(mine, [m \in DOMAIN theirs |-> CodeStatus(theirs[m])])

\* Faulty variant: and_modify without or_insert, actors not known are skipped.
MergeKnownActors(mine, theirs) ==
    [x \in DOMAIN mine |-> IF x \in DOMAIN theirs THEN theirs[x] ELSE mine[x]]

MergeActors(mine, theirs) == PutAll(mine, theirs)

\* Faulty variant: actors are taken to live on the node that tells of them.
MergeGossipOfSender(n, msg, sender) ==
    /\ members' = [members EXCEPT ![n] = MergeMembers(@, msg.members)]
    /\ silence' = [silence EXCEPT ![n] = Put(@, sender, 0)]
    /\ registry' = [registry EXCEPT ![n] =
            MergeActors(@, [x \in DOMAIN msg.actors |-> sender])]

\* Faulty variant: whoever is mentioned counts as heard.
MergeGossipHearsAll(n, msg, sender) ==
    /\ members' = [members EXCEPT ![n] = MergeMembers(@, msg.members)]
    /\ silence' = [silence EXCEPT ![n] =
            PutAll(@, [m \in DOMAIN msg.members |-> 0])]
    /\ registry' = [registry EXCEPT ![n] = MergeActors(@, msg.actors)]

\* merge_gossip holds all three locks; only the sender counts as heard.
MergeGossip(n, msg, sender) ==
    /\ members' = [members EXCEPT ![n] = MergeMembers(@, msg.members)]
    /\ silence' = [silence EXCEPT ![n] = Put(@, sender, 0)]
    /\ registry' = [registry EXCEPT ![n] = MergeActors(@, msg.actors)]
-----------------------------------------------------------------------------
\* Faulty variant: the first timeout is enough to be Down.
VerdictEager(status, elapsed) ==
    IF elapsed > SuspectTimeout THEN "Down" ELSE status

\* Faulty variant: the branch for Suspect does not ask for the status.
VerdictRestless(status, elapsed) ==
    IF elapsed > 2 * SuspectTimeout /\ status # "Down" THEN "Down"
    ELSE IF elapsed > SuspectTimeout THEN "Suspect"
    ELSE status

\* What the failure detector makes of a member it has not heard for that long.
Verdict(status, elapsed) ==
    IF elapsed > 2 * SuspectTimeout /\ status # "Down" THEN "Down"
    ELSE IF elapsed > SuspectTimeout /\ status = "Up" THEN "Suspect"
    ELSE status

\* Members without a heartbeat, and the node itself, are passed over.
Judged(n) == (DOMAIN members[n] \cap DOMAIN silence[n]) \ {n}

\* Faulty variant: those that become Suspect are cleaned up after as well.
NewlyDoubted(n) ==
    {m \in Judged(n) : members[n][m] # Verdict(members[n][m], silence[n][m])}

NewlyDown(n) ==
    {m \in Judged(n) : /\ members[n][m] # "Down"
                       /\ Verdict(members[n][m], silence[n][m]) = "Down"}

\* A tick of the interval, and the first critical section of the round.
Detect(n) ==
    /\ n \in alive \cap Gossipers
    /\ pc[n] = "idle"
    /\ members' = [members EXCEPT ![n] =
            [m \in DOMAIN @ |-> IF m \in Judged(n)
                                THEN Verdict(@[m], silence[n][m]) ELSE @[m]]]
    /\ downNodes' = [downNodes EXCEPT ![n] = NewlyDown(n)]
    /\ pc' = [pc EXCEPT ![n] = IF NewlyDown(n) = {} THEN "pick" ELSE "cleanup"]
    /\ UNCHANGED <<alive, silence, registry, link, strays, inputs, lapsed,
                   announced>>

\* registry.retain(..): what is left of a directory without these nodes' actors.
Without(map, gone) ==
    [x \in {y \in DOMAIN map : map[y] \notin gone} |-> map[x]]

\* The second critical section; gossip may have been merged in between.
Cleanup(n) ==
    /\ n \in alive
    /\ pc[n] = "cleanup"
    /\ registry' = [registry EXCEPT ![n] = Without(@, downNodes[n])]
    /\ downNodes' = [downNodes EXCEPT ![n] = {}]
    /\ pc' = [pc EXCEPT ![n] = "pick"]
    /\ UNCHANGED <<alive, members, silence, link, strays, inputs, lapsed,
                   announced>>

\* Any member but oneself may be picked, those that are Down too.
Peers(n) == DOMAIN members[n] \ {n}

GossipTo(n, m) ==
    /\ n \in alive
    /\ pc[n] = "pick"
    /\ m \in Peers(n) \cap alive
    /\ link' = [link EXCEPT ![n] = [stage |-> "request", peer |-> m,
                                    msg |-> GossipMessage(n)]]
    /\ pc' = [pc EXCEPT ![n] = "wait"]
    /\ UNCHANGED <<alive, members, silence, registry, downNodes, strays,
                   inputs, lapsed, announced>>

\* There is nobody to pick, or connecting to the one picked fails.
NoGossip(n) ==
    /\ n \in alive
    /\ pc[n] = "pick"
    /\ pc' = [pc EXCEPT ![n] = "idle"]
    /\ UNCHANGED <<alive, members, silence, registry, downNodes, link, strays,
                   inputs, lapsed, announced>>
-----------------------------------------------------------------------------
(* The peer's task for the connection (start_server) and the end of the      *)
(* exchange (send_gossip_to).                                              *)

Receive(n) ==
    /\ link[n].stage = "request"
    /\ MergeGossip(link[n].peer, link[n].msg, n)
    /\ link' = [link EXCEPT ![n] = [stage |-> "served", peer |-> @.peer]]
    /\ UNCHANGED <<alive, pc, downNodes, strays, inputs, lapsed, announced>>

\* The same for a request whose sender has crashed; the answer goes nowhere.
ReceiveStray(q) ==
    /\ MergeGossip(q.peer, q.msg, q.from)
    /\ strays' = strays \ {q}
    /\ UNCHANGED <<alive, pc, downNodes, link, inputs, lapsed, announced>>

Reply(n) ==
    /\ link[n].stage = "served"
    /\ link' = [link EXCEPT ![n] = [stage |-> "response", peer |-> @.peer,
                                    msg |-> GossipMessage(@.peer)]]
    /\ UNCHANGED <<alive, members, silence, registry, pc, downNodes, strays,
                   inputs, lapsed, announced>>

MergeResponse(n) ==
    /\ n \in alive
    /\ link[n].stage = "response"
    /\ MergeGossip(n, link[n].msg, link[n].peer)
    /\ link' = [link EXCEPT ![n] = NoLink]
    /\ pc' = [pc EXCEPT ![n] = "idle"]
    /\ UNCHANGED <<alive, downNodes, strays, inputs, lapsed, announced>>

\* conn.recv() fails, the peer being gone: the round is over.
RecvError(n) ==
    /\ n \in alive
    /\ link[n].stage = "reset"
    /\ link' = [link EXCEPT ![n] = NoLink]
    /\ pc' = [pc EXCEPT ![n] = "idle"]
    /\ UNCHANGED <<alive, members, silence, registry, downNodes, strays,
                   inputs, lapsed, announced>>

\* The network breaks the connection at any stage, and what is on it is lost.
Break(n) ==
    /\ Input
    /\ link[n].stage \in {"request", "served", "response"}
    /\ link' = [link EXCEPT ![n] = Reset]
    /\ UNCHANGED <<alive, members, silence, registry, pc, downNodes, strays,
                   lapsed, announced>>
-----------------------------------------------------------------------------
\* The memory of a process that knows these nodes and has done nothing yet.
Boot(n, known) ==
    /\ members' = [members EXCEPT ![n] = [m \in known |-> "Up"]]
    /\ silence' = [silence EXCEPT ![n] = [m \in known |-> 0]]
    /\ registry' = [registry EXCEPT ![n] = [x \in {} |-> n]]
    /\ pc' = [pc EXCEPT ![n] = "idle"]
    /\ downNodes' = [downNodes EXCEPT ![n] = {}]

\* The request of n that is under way, if there is one.
Request(n) ==
    IF link[n].stage = "request"
    THEN {[from |-> n, peer |-> link[n].peer, msg |-> link[n].msg]} ELSE {}

\* The process of a node ends and its memory is lost.  Requests that it has not
\* yet answered are lost with it; its own may still arrive.
Crash(n) ==
    /\ Input
    /\ n \in alive
    /\ alive' = alive \ {n}
    /\ Boot(n, {})
    /\ link' = [k \in Nodes |->
            IF k = n THEN NoLink
            ELSE IF link[k].stage \in {"request", "served"} /\ link[k].peer = n
            THEN Reset
            ELSE link[k]]
    /\ strays' = {q \in strays : q.peer # n} \cup Request(n)
    /\ UNCHANGED <<lapsed, announced>>

\* It starts again, with its id and seeds and nothing else (ClusterNode::new).
Restart(n) ==
    /\ Input
    /\ n \notin alive
    /\ alive' = alive \cup {n}
    /\ Boot(n, Seeded(n))
    /\ UNCHANGED <<link, strays, lapsed, announced>>

\* Time passes for everyone (Instant::now and duration_since).  Only detectors
\* read heartbeats, and not their own: the others need not be kept.
Older(t) == IF t < MaxSilence THEN t + 1 ELSE t

Tick ==
    /\ silence' = [n \in Nodes |-> [m \in DOMAIN silence[n] |->
                        IF m = n \/ n \notin Gossipers
                        THEN 0 ELSE Older(silence[n][m])]]
    /\ lapsed' = [n \in Nodes |-> lapsed[n] \cup
            {m \in DOMAIN silence'[n] : silence'[n][m] > 2 * SuspectTimeout}]
    /\ UNCHANGED <<alive, members, registry, pc, downNodes, link, strays, inputs,
                   announced>>

Next ==
    \/ \E n \in Nodes :
        \/ \E m \in Nodes : AddMember(n, m)
        \/ \E x \in Actors : RegisterActor(n, x)
        \/ Detect(n)
        \/ Cleanup(n)
        \/ \E m \in Nodes : GossipTo(n, m)
        \/ NoGossip(n)
        \/ Receive(n)
        \/ Reply(n)
        \/ MergeResponse(n)
        \/ RecvError(n)
        \/ Break(n)
        \/ Crash(n)
        \/ Restart(n)
    \/ \E q \in strays : ReceiveStray(q)
    \/ Tick

Spec == Init /\ [][Next]_vars

\* Time passes, tasks run and notice a connection that has failed, and every
\* member that can be reached is picked again and again.
Fairness ==
    /\ WF_vars(Tick)
    /\ \A n \in Gossipers :
        /\ WF_vars(Detect(n) \/ Cleanup(n) \/ NoGossip(n))
        /\ WF_vars(Receive(n) \/ Reply(n) \/ MergeResponse(n) \/ RecvError(n))
        /\ \A m \in Nodes \ {n} : SF_vars(GossipTo(n, m))

FairSpec == Spec /\ Fairness
-----------------------------------------------------------------------------
\* m is held to be Down in this map of members, as kept or as sent.
HeldDown(map, m, down) == m \in DOMAIN map /\ map[m] = down

InTransit(n) == link[n].stage \in {"request", "response"}

\* The messages on the wire.
InFlight ==
    {link[n].msg : n \in {k \in Nodes : InTransit(k)}} \cup {q.msg : q \in strays}

\* Nobody is Down by hearsay alone: wherever a node is held to be Down, in a
\* view or on the wire, some detector had a heartbeat of it that grew older
\* than twice suspect_timeout (cluster.rs 309 and merge_gossip).
DownIsEarned ==
    \A m \in Nodes :
        (\/ \E n \in Nodes : HeldDown(members[n], m, "Down")
         \/ \E msg \in InFlight : HeldDown(msg.members, m, 2))
        => \E k \in Nodes : m \in lapsed[k]

\* The directory says nothing that was not so: every location, at any node or
\* on the wire, is one that this very node has registered (register_actor),
\* whatever was merged, forgotten, lost or delayed since.
DirectoryIsTrue ==
    /\ \A n \in Nodes : \A x \in DOMAIN registry[n] :
            <<x, registry[n][x]>> \in announced
    /\ \A msg \in InFlight : \A x \in DOMAIN msg.actors :
            <<x, msg.actors[x]>> \in announced

\* A node that runs forgets an actor only when it has itself not heard the
\* actor's node for twice suspect_timeout; it may do so late, as the nodes to
\* clean up after are collected before the directory is locked (322-337).
LocationsAreKept ==
    [][\A n \in alive \cap alive' : \A x \in DOMAIN registry[n] :
        x \notin DOMAIN registry'[n] => registry[n][x] \in lapsed[n]]_vars

\* Every view of a running node and every message that mentions m says Down.
AgreedDown(m) ==
    /\ \A n \in alive : m \in DOMAIN members[n] => members[n][m] = "Down"
    /\ \A msg \in InFlight : m \in DOMAIN msg.members => msg.members[m] = 2

\* Once every view and every message that mentions m says Down, m's own view
\* included, it is so for good: m may gossip as it likes, merge_gossip and the
\* detector never raise it again, only a call from outside or a restart does.
DownIsForGood ==
    [][inputs' = inputs =>
        \A m \in Nodes : AgreedDown(m) => AgreedDown(m)']_vars

\* Every peer that has crashed and that the detector of a node has a heartbeat
\* of is found Down by it, whatever others say about it in the meantime.
FailureIsDetected ==
    []<>(\A n \in alive \cap Gossipers : \A m \in Judged(n) \ alive :
            members[n][m] = "Down")

\* Locations spread: two nodes of which one gossips with the other end up
\* knowing the same actors, unless one of them crashes or some detector is late.
ActorsAreFound ==
    <>[](\/ \E k \in Nodes : lapsed[k] # {}
         \/ \A n \in alive \cap Gossipers : \A m \in Peers(n) \cap alive :
                DOMAIN registry[n] = DOMAIN registry[m])
=============================================================================
