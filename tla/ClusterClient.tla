--------------------------- MODULE ClusterClient ---------------------------
(***************************************************************************)
(* Calls through a ClusterClient (remote/cluster_client.rs) and its pool of *)
(* connections, one per node address, behind a tokio Mutex that is held     *)
(* while a connection is opened and released before it is used.             *)
(*                                                                         *)
(* A connection is named after the call that opened it.  Inside, it is the   *)
(* one of RemoteRpc with ids that are all 0: a request that is registered   *)
(* while another waits takes its place in the map of pending requests, and   *)
(* the oneshot of the other is dropped, which its caller sees as a failure.  *)
(* Likewise a frame that cannot be written fails whoever waits under id 0.   *)
(***************************************************************************)
EXTENDS Naturals, FiniteSets

CONSTANTS
    Asks,       \* calls of send_to_actor
    Tells,      \* calls of do_send_to_actor
    Nodes,      \* addresses of nodes
    NoCall,     \* "nobody holds the lock"
    MaxClears   \* bound on calls of clear_connection

\* The typed methods of ClusterRemoteAddr come to one of these.
Calls == Asks \cup Tells

ASSUME ClientAssumption ==
    /\ Asks \cap Tells = {}
    /\ NoCall \notin Calls
    /\ MaxClears \in Nat

VARIABLES
    pc,        \* where each call is, or what it returned
    target,    \* target[c]: the node that the directory named, once it has
    client,    \* client[c]: the connection that c was given, once it was
    pool,      \* node -> connection
    lock,      \* who holds the pool across an await
    up,        \* connections whose client task runs
    removals,  \* removals[n]: spawned tasks that have yet to remove n
    opened,    \* history: opened[n] connections to n were opened
    failed,    \* history: failed[n] requests on connections to n failed
    cleared    \* history: cleared[n] calls of clear_connection(n)

vars == <<pc, target, client, pool, lock, up, removals, opened, failed, cleared>>

\* What a caller has by now; "queued" is an Ok too, to a caller of do_send whose
\* frame is still with the client task.
Results == {"ok", "queued", "invalid", "not_found", "error"}

Maps(S, T) == UNION {[D -> T] : D \in SUBSET S}

\* Only a call that opens a connection keeps the lock over an await.
TypeOK ==
    /\ pc \in [Calls -> {"idle", "locking", "connecting", "sending", "waiting",
                         "dropped"} \cup Results]
    /\ target \in Maps(Calls, Nodes)
    /\ client \in Maps(Calls, Calls)
    /\ pool \in Maps(Nodes, Calls)
    /\ lock \in Calls \cup {NoCall}
    /\ up \subseteq Calls
    /\ removals \in [Nodes -> Nat]
    /\ opened \in [Nodes -> Nat]
    /\ failed \in [Nodes -> Nat]
    /\ cleared \in [Nodes -> Nat]
    /\ \A c \in Calls : pc[c] \in {"locking", "connecting"} => c \in DOMAIN target
    /\ \A c \in Calls : pc[c] \in {"sending", "waiting", "dropped", "queued"} =>
                            c \in DOMAIN target \cap DOMAIN client
    /\ \A c \in Calls : pc[c] = "connecting" <=> lock = c

Init ==
    /\ pc = [c \in Calls |-> "idle"]
    /\ target = [c \in {} |-> c]
    /\ client = [c \in {} |-> c]
    /\ pool = [n \in {} |-> n]
    /\ lock = NoCall
    /\ up = {}
    /\ removals = [n \in Nodes |-> 0]
    /\ opened = [n \in Nodes |-> 0]
    /\ failed = [n \in Nodes |-> 0]
    /\ cleared = [n \in Nodes |-> 0]
-----------------------------------------------------------------------------
Put(map, key, value) ==
    [k \in DOMAIN map \cup {key} |-> IF k = key THEN value ELSE map[k]]

Remove(map, key) == [k \in DOMAIN map \ {key} |-> map[k]]

Goto(c, where) == pc' = [pc EXCEPT ![c] = where]

\* lookup_actor and get_members: the directory and the members of the local
\* ClusterNode (Gossip) know nothing, or name a node, right or wrong.
Lookup(c) ==
    /\ pc[c] = "idle"
    /\ \/ Goto(c, "not_found") /\ UNCHANGED target
       \/ /\ \E n \in Nodes : target' = Put(target, c, n)
          /\ Goto(c, "locking")
    /\ UNCHANGED <<client, pool, lock, up, removals, opened, failed, cleared>>

\* Faulty variant: any connection will do, whichever node it leads to.
ReuseAny(c) ==
    /\ pc[c] = "locking"
    /\ lock = NoCall
    /\ \E n \in DOMAIN pool : client' = Put(client, c, pool[n])
    /\ Goto(c, "sending")
    /\ UNCHANGED <<target, pool, lock, up, removals, opened, failed, cleared>>

\* get_or_connect finds a connection, in whatever state that one is.
Reuse(c) ==
    /\ pc[c] = "locking"
    /\ lock = NoCall
    /\ target[c] \in DOMAIN pool
    /\ client' = Put(client, c, pool[target[c]])
    /\ Goto(c, "sending")
    /\ UNCHANGED <<target, pool, lock, up, removals, opened, failed, cleared>>

\* Faulty variant: the lock is only taken to look, and again to insert.
ConnectUnlocked(c) ==
    /\ pc[c] = "locking"
    /\ target[c] \notin DOMAIN pool
    /\ Goto(c, "connecting")
    /\ UNCHANGED <<target, client, pool, lock, up, removals, opened, failed, cleared>>

\* It finds none and starts to connect, holding the lock.
Connect(c) ==
    /\ pc[c] = "locking"
    /\ lock = NoCall
    /\ target[c] \notin DOMAIN pool
    /\ lock' = c
    /\ Goto(c, "connecting")
    /\ UNCHANGED <<target, client, pool, up, removals, opened, failed, cleared>>

\* RemoteClient::new starts a client task; the pool keeps one handle to it.
Connected(c) ==
    /\ pc[c] = "connecting"
    /\ pool' = Put(pool, target[c], c)
    /\ client' = Put(client, c, c)
    /\ up' = up \cup {c}
    /\ lock' = NoCall
    /\ opened' = [opened EXCEPT ![target[c]] = @ + 1]
    /\ Goto(c, "sending")
    /\ UNCHANGED <<target, removals, failed, cleared>>

\* Faulty variant: the guard is leaked when connecting fails.
ConnectFailsLocked(c) ==
    /\ pc[c] = "connecting"
    /\ pool' = Remove(pool, target[c])
    /\ Goto(c, "error")
    /\ UNCHANGED <<target, client, lock, up, removals, opened, failed, cleared>>

ConnectFails(c) ==
    /\ pc[c] = "connecting"
    /\ pool' = Remove(pool, target[c])
    /\ lock' = NoCall
    /\ Goto(c, "error")
    /\ UNCHANGED <<target, client, up, removals, opened, failed, cleared>>
-----------------------------------------------------------------------------
\* d's oneshot is in the map of pending requests of connection k.
WaitsOn(d, k) == pc[d] = "waiting" /\ client[d] = k

\* The client task registers the request under id 0, where another may be, and
\* writes it; if it cannot, the caller is told at once and the task goes on.
Registered(c) ==
    /\ c \in Asks
    /\ pc[c] = "sending"
    /\ client[c] \in up
    /\ \E outcome \in {"waiting", "dropped"} :
         pc' = [d \in Calls |-> IF d = c THEN outcome
                                ELSE IF WaitsOn(d, client[c]) THEN "dropped"
                                ELSE pc[d]]
    /\ UNCHANGED <<target, client, pool, lock, up, removals, opened, failed, cleared>>

\* A response with id 0 arrives; it may not be what the caller can unwrap or
\* decode, which is not held against the connection.
Answered(c) ==
    /\ pc[c] = "waiting"
    /\ client[c] \in up
    /\ \E result \in {"ok", "invalid"} : Goto(c, result)
    /\ UNCHANGED <<target, client, pool, lock, up, removals, opened, failed, cleared>>

\* Faulty variant: the caller is told, the pool is not.
AskFailsOnly(c) ==
    /\ c \in Asks
    /\ \/ pc[c] = "dropped"
       \/ pc[c] \in {"sending", "waiting"} /\ client[c] \notin up
    /\ failed' = [failed EXCEPT ![target[c]] = @ + 1]
    /\ Goto(c, "error")
    /\ UNCHANGED <<target, client, pool, lock, up, removals, opened, cleared>>

\* client.send fails, as the connection is gone, the request was displaced or a
\* frame could not be written, and a task is spawned to remove the node from the pool.
AskFails(c) ==
    /\ c \in Asks
    /\ \/ pc[c] = "dropped"
       \/ pc[c] \in {"sending", "waiting"} /\ client[c] \notin up
    /\ failed' = [failed EXCEPT ![target[c]] = @ + 1]
    /\ removals' = [removals EXCEPT ![target[c]] = @ + 1]
    /\ Goto(c, "error")
    /\ UNCHANGED <<target, client, pool, lock, up, opened, cleared>>

\* The spawned task removes whatever connection is there by now.
Removal(n) ==
    /\ lock = NoCall
    /\ removals[n] > 0
    /\ removals' = [removals EXCEPT ![n] = @ - 1]
    /\ pool' = Remove(pool, n)
    /\ UNCHANGED <<pc, target, client, lock, up, opened, failed, cleared>>

\* client.do_send hands over to the client task; if that one is gone the caller
\* is told, and the pool is left as it is.
Tell(c) ==
    /\ c \in Tells
    /\ pc[c] = "sending"
    /\ Goto(c, IF client[c] \in up THEN "queued" ELSE "error")
    /\ UNCHANGED <<target, client, pool, lock, up, removals, opened, failed, cleared>>

\* The client task writes the frame of a Tell.  If it cannot, it fails the request
\* that waits under the same id, which is somebody else's.
TellWritten(c) ==
    /\ pc[c] = "queued"
    /\ client[c] \in up
    /\ \E written \in BOOLEAN :
         pc' = [d \in Calls |-> IF d = c THEN "ok"
                                ELSE IF ~written /\ WaitsOn(d, client[c]) THEN "dropped"
                                ELSE pc[d]]
    /\ UNCHANGED <<target, client, pool, lock, up, removals, opened, failed, cleared>>

ClearConnection(n) ==
    /\ lock = NoCall
    /\ cleared[n] < MaxClears
    /\ cleared' = [cleared EXCEPT ![n] = @ + 1]
    /\ pool' = Remove(pool, n)
    /\ UNCHANGED <<pc, target, client, lock, up, removals, opened, failed>>

\* The connection is lost and its client task ends.
Disconnect(k) ==
    /\ k \in up
    /\ up' = up \ {k}
    /\ UNCHANGED <<pc, target, client, pool, lock, removals, opened, failed, cleared>>

Next ==
    \/ \E c \in Calls :
        \/ Lookup(c)
        \/ Reuse(c)
        \/ Connect(c)
        \/ Connected(c)
        \/ ConnectFails(c)
        \/ Registered(c)
        \/ Answered(c)
        \/ AskFails(c)
        \/ Tell(c)
        \/ TellWritten(c)
        \/ Disconnect(c)
    \/ \E n \in Nodes : Removal(n) \/ ClearConnection(n)

Spec == Init /\ [][Next]_vars

\* Callers and spawned tasks run, and connecting ends one way or the other.
\* Nothing makes a peer answer or a connection break.
FairSpec ==
    /\ Spec
    /\ \A c \in Calls :
        WF_vars(\/ Reuse(c) \/ Connect(c) \/ Connected(c) \/ ConnectFails(c)
                \/ Registered(c) \/ AskFails(c) \/ Tell(c))
    /\ \A n \in Nodes : WF_vars(Removal(n))
-----------------------------------------------------------------------------
\* README "Connection pooling - reuses connections per node": a further
\* connection to a node is only opened after a request to it failed or its
\* connection was cleared, one for one, however callers and the tasks that
\* remove connections by name interleave.
ReusesConnections ==
    \A n \in Nodes : opened[n] \leq 1 + failed[n] + cleared[n]

\* A connection leads to the node for which it is in the pool, and a call goes
\* over a connection to the very node that the directory named for it, whoever
\* opened that connection, and although spawned tasks remove connections by the
\* name of the node alone (get_or_connect, cluster_client.rs 113 and 130).
GoesToNode ==
    /\ \A n \in DOMAIN pool : pool[n] \in DOMAIN target /\ target[pool[n]] = n
    /\ \A c \in DOMAIN client :
         /\ c \in DOMAIN target /\ client[c] \in DOMAIN target
         /\ target[client[c]] = target[c]

\* A connection on which a request failed does not stay in the pool
\* (cluster_client.rs 126), even when others keep being called through it.
FailureIsForgotten ==
    \A c \in Asks :
        pc[c] = "error" ~>
            ~(c \in DOMAIN client /\ target[c] \in DOMAIN pool
                /\ pool[target[c]] = client[c])

\* Nobody waits for ever for the pool or on a connection that is gone: a call
\* returns, or waits for the answer of a peer that is connected.
EveryCallEnds ==
    \A c \in Calls :
        pc[c] # "idle" ~> \/ pc[c] \in Results
                          \/ pc[c] = "waiting" /\ client[c] \in up
=============================================================================
