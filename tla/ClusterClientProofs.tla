------------------------ MODULE ClusterClientProofs ------------------------
(***************************************************************************)
(* Proofs about ClusterClient, for any calls, nodes and bound on clears.     *)
(* ReusesConnections is an accounting argument: what was opened is what     *)
(* failed or was cleared, less the removals that are still to come, plus    *)
(* what the pool holds.                                                     *)
(***************************************************************************)
EXTENDS ClusterClient, TLAPS

\* A map is a function on some of the keys.
LEMMA MapsDef ==
    ASSUME NEW S, NEW T, NEW f \in Maps(S, T)
    PROVE  /\ DOMAIN f \subseteq S
           /\ \A k \in DOMAIN f : f[k] \in T
  BY DEF Maps

LEMMA MapsIntro ==
    ASSUME NEW S, NEW T, NEW D \in SUBSET S, NEW f \in [D -> T]
    PROVE  f \in Maps(S, T)
  BY DEF Maps

LEMMA PutMaps ==
    ASSUME NEW S, NEW T, NEW f \in Maps(S, T), NEW k \in S, NEW v \in T
    PROVE  /\ Put(f, k, v) \in Maps(S, T)
           /\ DOMAIN Put(f, k, v) = DOMAIN f \cup {k}
  <1>1. DOMAIN f \cup {k} \in SUBSET S  BY MapsDef
  <1>2. Put(f, k, v) \in [DOMAIN f \cup {k} -> T]  BY MapsDef DEF Put
  <1> QED  BY <1>1, <1>2, MapsIntro

LEMMA RemoveMaps ==
    ASSUME NEW S, NEW T, NEW f \in Maps(S, T), NEW k
    PROVE  /\ Remove(f, k) \in Maps(S, T)
           /\ DOMAIN Remove(f, k) = DOMAIN f \ {k}
  <1>1. DOMAIN f \ {k} \in SUBSET S  BY MapsDef
  <1>2. Remove(f, k) \in [DOMAIN f \ {k} -> T]  BY MapsDef DEF Remove
  <1> QED  BY <1>1, <1>2, MapsIntro

LEMMA EmptyMaps ==
    ASSUME NEW S, NEW T, NEW f, DOMAIN f = {}, f = [x \in {} |-> f[x]]
    PROVE  f \in Maps(S, T)
  BY DEF Maps
-----------------------------------------------------------------------------
LEMMA InitType == ASSUME ClientAssumption, Init PROVE TypeOK
  <1>1. /\ target \in Maps(Calls, Nodes)
        /\ client \in Maps(Calls, Calls)
        /\ pool \in Maps(Nodes, Calls)
    BY EmptyMaps DEF Init
  <1> QED  BY <1>1 DEF Init, TypeOK, ClientAssumption

\* Every step keeps the shape of the state, the lock included: the call that
\* connects is the one that holds it.
LEMMA StepType == ASSUME ClientAssumption, TypeOK, [Next]_vars PROVE TypeOK'
  <1> USE DEF TypeOK, ClientAssumption
  <1>a. target \in Maps(Calls, Nodes) /\ client \in Maps(Calls, Calls)
           /\ pool \in Maps(Nodes, Calls)
    OBVIOUS
  <1>0. /\ \A c \in DOMAIN target : target[c] \in Nodes
        /\ \A n \in DOMAIN pool : pool[n] \in Calls
    <2> HIDE DEF TypeOK
    <2> QED  BY <1>a, MapsDef
  <1>1. ASSUME NEW c \in Calls, Lookup(c) PROVE TypeOK'
    <2>1. CASE Goto(c, "not_found") /\ UNCHANGED target
      BY <1>1, <2>1 DEF Lookup, Goto, Results
    <2>2. ASSUME NEW n \in Nodes, target' = Put(target, c, n), Goto(c, "locking")
          PROVE  TypeOK'
      <3>1. /\ target' \in Maps(Calls, Nodes)
            /\ DOMAIN target' = DOMAIN target \cup {c}
        <4> HIDE DEF TypeOK
        <4> QED  BY <1>a, <2>2, PutMaps
      <3> QED  BY <1>1, <2>2, <3>1 DEF Lookup, Goto
    <2> QED  BY <1>1, <2>1, <2>2 DEF Lookup
  <1>2. ASSUME NEW c \in Calls, Reuse(c) PROVE TypeOK'
    <2>1. pool[target[c]] \in Calls  BY <1>0, <1>2 DEF Reuse
    <2>2. /\ client' \in Maps(Calls, Calls)
          /\ DOMAIN client' = DOMAIN client \cup {c}
      <3> HIDE DEF TypeOK
      <3>1. client' = Put(client, c, pool[target[c]])  BY <1>2 DEF Reuse
      <3>2. Put(client, c, pool[target[c]]) \in Maps(Calls, Calls)
        BY <1>a, <2>1, PutMaps
      <3> QED  BY <3>1, <3>2 DEF Put
    <2> QED  BY <1>2, <2>2 DEF Reuse, Goto
  <1>3. ASSUME NEW c \in Calls, Connect(c) PROVE TypeOK'
    BY <1>3 DEF Connect, Goto
  <1>4. ASSUME NEW c \in Calls, Connected(c) PROVE TypeOK'
    <2>1. target[c] \in Nodes  BY <1>0, <1>4 DEF Connected
    <2>2. pool' \in Maps(Nodes, Calls)
      <3> HIDE DEF TypeOK
      <3> QED  BY <1>a, <1>4, <2>1, PutMaps DEF Connected
    <2>3. /\ client' \in Maps(Calls, Calls)
          /\ DOMAIN client' = DOMAIN client \cup {c}
      <3> HIDE DEF TypeOK
      <3>1. client' = Put(client, c, c)  BY <1>4 DEF Connected
      <3>2. Put(client, c, c) \in Maps(Calls, Calls)  BY <1>a, PutMaps
      <3> QED  BY <3>1, <3>2 DEF Put
    <2> QED  BY <1>4, <2>1, <2>2, <2>3 DEF Connected, Goto
  <1>5. ASSUME NEW c \in Calls, ConnectFails(c) PROVE TypeOK'
    <2>1. pool' \in Maps(Nodes, Calls)  BY <1>5, RemoveMaps DEF ConnectFails
    <2> QED  BY <1>5, <2>1 DEF ConnectFails, Goto, Results
  <1>6. ASSUME NEW c \in Calls, Registered(c) PROVE TypeOK'
    BY <1>6 DEF Registered, WaitsOn
  <1>7. ASSUME NEW c \in Calls, Answered(c) PROVE TypeOK'
    BY <1>7 DEF Answered, Goto, Results
  <1>8. ASSUME NEW c \in Calls, AskFails(c) PROVE TypeOK'
    <2>1. target[c] \in Nodes  BY <1>0, <1>8 DEF AskFails
    <2> QED  BY <1>8, <2>1 DEF AskFails, Goto, Results
  <1>9. ASSUME NEW c \in Calls, Tell(c) PROVE TypeOK'
    BY <1>9 DEF Tell, Goto, Results
  <1>10. ASSUME NEW c \in Calls, Disconnect(c) PROVE TypeOK'
    BY <1>10 DEF Disconnect
  <1>11. ASSUME NEW n \in Nodes, Removal(n) PROVE TypeOK'
    <2>1. pool' \in Maps(Nodes, Calls)  BY <1>11, RemoveMaps DEF Removal
    <2> QED  BY <1>11, <2>1 DEF Removal
  <1>12. ASSUME NEW n \in Nodes, ClearConnection(n) PROVE TypeOK'
    <2>1. pool' \in Maps(Nodes, Calls)  BY <1>12, RemoveMaps DEF ClearConnection
    <2> QED  BY <1>12, <2>1 DEF ClearConnection
  <1>13. CASE UNCHANGED vars  BY <1>13 DEF vars
  <1>14. ASSUME NEW c \in Calls, TellWritten(c) PROVE TypeOK'
    BY <1>14 DEF TellWritten, WaitsOn, Results
  <1> QED
    BY <1>1, <1>2, <1>3, <1>4, <1>5, <1>6, <1>7, <1>8, <1>9, <1>10, <1>11, <1>12,
       <1>13, <1>14 DEF Next

\* The types, and that the pool is locked exactly while some call connects, for
\* any number of calls.
THEOREM ClientTypeCorrect == Spec => []TypeOK
  <1>1. Init => TypeOK  BY InitType, ClientAssumption
  <1>2. TypeOK /\ [Next]_vars => TypeOK'  BY StepType, ClientAssumption
  <1> QED  BY <1>1, <1>2, PTL DEF Spec
-----------------------------------------------------------------------------
\* Who connects to a node has seen that the pool has no connection to it, and
\* nobody has put one there since, as they hold the lock.
ConnectsIfMissing ==
    \A c \in Calls : pc[c] = "connecting" => target[c] \notin DOMAIN pool

\* The books of a node.
Pooled(n) == IF n \in DOMAIN pool THEN 1 ELSE 0

Balanced ==
    \A n \in Nodes : opened[n] + removals[n] \leq failed[n] + cleared[n] + Pooled(n)

LEMMA MissingStep ==
    ASSUME ClientAssumption, TypeOK, ConnectsIfMissing, [Next]_vars
    PROVE  ConnectsIfMissing'
  <1> USE DEF TypeOK, ClientAssumption, ConnectsIfMissing
  <1>1. ASSUME NEW c \in Calls, Lookup(c) PROVE ConnectsIfMissing'
    BY <1>1 DEF Lookup, Goto, Put
  <1>2. ASSUME NEW c \in Calls, Connect(c) PROVE ConnectsIfMissing'
    BY <1>2 DEF Connect, Goto
  <1>3. ASSUME NEW c \in Calls, Connected(c) PROVE ConnectsIfMissing'
    <2>1. \A d \in Calls : pc'[d] # "connecting"  BY <1>3 DEF Connected, Goto
    <2> QED  BY <2>1
  <1>4. ASSUME NEW k, pool' = Remove(pool, k), UNCHANGED target,
               \A d \in Calls : pc'[d] = "connecting" => pc[d] = "connecting"
        PROVE  ConnectsIfMissing'
    BY <1>4 DEF Remove
  <1>5. ASSUME NEW c \in Calls, ConnectFails(c) PROVE ConnectsIfMissing'
    BY <1>4, <1>5 DEF ConnectFails, Goto
  <1>6. ASSUME NEW n \in Nodes, Removal(n) \/ ClearConnection(n)
        PROVE  ConnectsIfMissing'
    BY <1>4, <1>6 DEF Removal, ClearConnection
  <1>7. CASE /\ UNCHANGED <<target, pool>>
             /\ \A d \in Calls : pc'[d] = "connecting" => pc[d] = "connecting"
    BY <1>7
  <1> QED
    BY <1>1, <1>2, <1>3, <1>5, <1>6, <1>7 DEF Next, vars, Reuse, Registered, Answered,
        AskFails, Tell, TellWritten, WaitsOn, Disconnect, Goto

LEMMA BalanceStep ==
    ASSUME ClientAssumption, TypeOK, ConnectsIfMissing, Balanced, [Next]_vars
    PROVE  Balanced'
  <1> USE DEF TypeOK, ClientAssumption, Balanced, Pooled
  <1>0. \A c \in DOMAIN target : target[c] \in Nodes  BY MapsDef
  <1>1. ASSUME NEW c \in Calls, Connected(c) PROVE Balanced'
    <2>1. target[c] \in Nodes /\ target[c] \notin DOMAIN pool
      BY <1>0, <1>1 DEF Connected, ConnectsIfMissing
    <2>2. DOMAIN pool' = DOMAIN pool \cup {target[c]}  BY <1>1 DEF Connected, Put
    <2> QED  BY <1>1, <2>1, <2>2 DEF Connected
  <1>2. ASSUME NEW c \in Calls, ConnectFails(c) PROVE Balanced'
    <2>1. target[c] \notin DOMAIN pool  BY <1>2 DEF ConnectFails, ConnectsIfMissing
    <2>2. DOMAIN pool' = DOMAIN pool  BY <1>2, <2>1 DEF ConnectFails, Remove
    <2> QED  BY <1>2, <2>2 DEF ConnectFails
  <1>3. ASSUME NEW c \in Calls, AskFails(c) PROVE Balanced'
    <2>1. target[c] \in Nodes  BY <1>0, <1>3 DEF AskFails
    <2> QED  BY <1>3, <2>1 DEF AskFails
  <1>4. ASSUME NEW n \in Nodes, Removal(n) PROVE Balanced'
    <2>1. DOMAIN pool' = DOMAIN pool \ {n}  BY <1>4 DEF Removal, Remove
    <2> QED  BY <1>4, <2>1 DEF Removal
  <1>5. ASSUME NEW n \in Nodes, ClearConnection(n) PROVE Balanced'
    <2>1. DOMAIN pool' = DOMAIN pool \ {n}  BY <1>5 DEF ClearConnection, Remove
    <2> QED  BY <1>5, <2>1 DEF ClearConnection
  <1>6. CASE UNCHANGED <<pool, removals, opened, failed, cleared>>  BY <1>6
  <1> QED
    BY <1>1, <1>2, <1>3, <1>4, <1>5, <1>6 DEF Next, vars, Lookup, Reuse, Connect,
        Registered, Answered, Tell, TellWritten, Disconnect

\* Connections are reused: a further one to a node is paid for by a failed request
\* or a clear_connection, for any number of callers.  Removal by name may take a
\* sound connection out, but each removal was earned by a failure of its own.
THEOREM ReuseTheorem == Spec => []ReusesConnections
  <1> DEFINE Inv == TypeOK /\ ConnectsIfMissing /\ Balanced
  <1>1. Init => Inv
    <2>1. Init => TypeOK  BY InitType, ClientAssumption
    <2> QED  BY <2>1 DEF Init, ConnectsIfMissing, Balanced, Pooled
  <1>2. Inv /\ [Next]_vars => Inv'
    BY StepType, MissingStep, BalanceStep, ClientAssumption
  <1>3. Inv => ReusesConnections
    BY DEF TypeOK, Balanced, Pooled, ReusesConnections
  <1> HIDE DEF Inv
  <1> QED  BY <1>1, <1>2, <1>3, PTL DEF Spec
-----------------------------------------------------------------------------
(* Which connection a call uses, and what becomes of it.                    *)

Early == {"idle", "locking", "connecting"}

\* A call is past get_or_connect when it has a connection, and so is the call
\* that opened it: no connection is ever opened twice under one name.
Opened ==
    /\ \A c \in DOMAIN client : pc[c] \notin Early /\ pc[client[c]] \notin Early
    /\ \A n \in DOMAIN pool : pc[pool[n]] \notin Early

\* As long as the pool holds a connection on which a request has failed, a task
\* that will take it out is on its way (cluster_client.rs 126).
RemovalIsDue ==
    \A c \in Asks :
        /\ pc[c] = "error" /\ c \in DOMAIN client
        /\ target[c] \in DOMAIN pool /\ pool[target[c]] = client[c]
        => removals[target[c]] > 0

RouteInv == TypeOK /\ Opened /\ GoesToNode /\ RemovalIsDue

\* No call goes back to get_or_connect.
LEMMA PastEarly ==
    ASSUME ClientAssumption, TypeOK, [Next]_vars
    PROVE  \A c \in Calls : pc[c] \notin Early => pc'[c] \notin Early
  BY DEF TypeOK, Early, Next, vars, Lookup, Reuse, Connect, Connected, ConnectFails,
      Registered, Answered, AskFails, Tell, TellWritten, WaitsOn, Disconnect, Removal,
      ClearConnection, Goto

LEMMA RouteStep ==
    ASSUME ClientAssumption, RouteInv, [Next]_vars
    PROVE  Opened' /\ GoesToNode' /\ RemovalIsDue'
  <1>0. /\ \A c \in Calls : pc[c] \notin Early => pc'[c] \notin Early
        /\ DOMAIN target \subseteq Calls /\ \A c \in DOMAIN target : target[c] \in Nodes
        /\ DOMAIN client \subseteq Calls /\ \A c \in DOMAIN client : client[c] \in Calls
        /\ DOMAIN pool \subseteq Nodes /\ \A n \in DOMAIN pool : pool[n] \in Calls
        /\ removals \in [Nodes -> Nat]
        /\ pc \in [Calls -> {"idle", "locking", "connecting", "sending", "waiting",
                            "dropped"} \cup Results]
    BY PastEarly, MapsDef DEF RouteInv, TypeOK
  <1>t. /\ \A c \in Calls : pc[c] \in {"locking", "connecting"} => c \in DOMAIN target
        /\ \A c \in Calls : pc[c] \in {"sending", "waiting", "dropped"} =>
                            c \in DOMAIN target /\ c \in DOMAIN client
        /\ Asks \cap Tells = {} /\ Calls = Asks \cup Tells
    BY DEF RouteInv, TypeOK, ClientAssumption, Calls
  <1>i. Opened /\ GoesToNode /\ RemovalIsDue  BY DEF RouteInv
  \* Nothing that matters here changes, except that calls go on.
  <1>k. ASSUME UNCHANGED <<target, client, pool>>,
               \A n \in Nodes : removals'[n] \geq removals[n],
               removals' \in [Nodes -> Nat],
               \A c \in Asks : pc'[c] = "error" =>
                   \/ pc[c] = "error" \/ c \notin DOMAIN client
                   \/ c \in DOMAIN target /\ removals'[target[c]] > 0
        PROVE  Opened' /\ GoesToNode' /\ RemovalIsDue'
    <2>1. Opened' /\ GoesToNode'  BY <1>0, <1>i, <1>k DEF Opened, GoesToNode
    <2>2. RemovalIsDue'  BY <1>0, <1>i, <1>k, <1>t DEF RemovalIsDue
    <2> QED  BY <2>1, <2>2
  \* The pool loses an entry.
  <1>r. ASSUME NEW n, UNCHANGED <<target, client>>, pool' = Remove(pool, n),
               \A m \in Nodes : m # n => removals'[m] = removals[m],
               \A c \in Asks : pc'[c] = "error" => pc[c] = "error" \/ c \notin DOMAIN client
        PROVE  Opened' /\ GoesToNode' /\ RemovalIsDue'
    <2>1. DOMAIN pool' = DOMAIN pool \ {n} /\ \A m \in DOMAIN pool' : pool'[m] = pool[m]
      BY <1>r DEF Remove
    <2>2. Opened' /\ GoesToNode'  BY <1>0, <1>i, <1>r, <2>1 DEF Opened, GoesToNode
    <2>3. RemovalIsDue'  BY <1>0, <1>i, <1>r, <1>t, <2>1 DEF RemovalIsDue
    <2> QED  BY <2>2, <2>3
  <1>1. ASSUME NEW c \in Calls, Lookup(c) PROVE Opened' /\ GoesToNode' /\ RemovalIsDue'
    <2>1. CASE Goto(c, "not_found") /\ UNCHANGED target
      BY <1>0, <1>1, <1>k, <2>1 DEF Lookup, Goto
    <2>2. ASSUME NEW n \in Nodes, target' = Put(target, c, n), Goto(c, "locking")
          PROVE  Opened' /\ GoesToNode' /\ RemovalIsDue'
      <3>1. /\ DOMAIN target' = DOMAIN target \cup {c}
            /\ \A d \in DOMAIN target : d # c => target'[d] = target[d]
        BY <2>2 DEF Put
      <3>2. pc[c] = "idle" /\ pc'[c] = "locking" /\ \A d \in Calls : d # c => pc'[d] = pc[d]
        BY <1>0, <1>1, <2>2 DEF Lookup, Goto
      <3>3. UNCHANGED <<client, pool, removals>>  BY <1>1 DEF Lookup
      <3>4. c \notin DOMAIN client /\ (\A d \in DOMAIN client : client[d] # c)
            /\ \A m \in DOMAIN pool : pool[m] # c
        BY <1>i, <3>2 DEF Opened, Early
      <3>5. Opened'  BY <1>0, <1>i, <3>3 DEF Opened
      <3>6. GoesToNode'  BY <1>i, <3>1, <3>3, <3>4 DEF GoesToNode
      <3>7. RemovalIsDue'  BY <1>i, <1>t, <3>1, <3>2, <3>3, <3>4 DEF RemovalIsDue, GoesToNode
      <3> QED  BY <3>5, <3>6, <3>7
    <2> QED  BY <1>1, <2>1, <2>2 DEF Lookup
  <1>2. ASSUME NEW c \in Calls, Reuse(c) PROVE Opened' /\ GoesToNode' /\ RemovalIsDue'
    <2>1. /\ DOMAIN client' = DOMAIN client \cup {c}
          /\ client'[c] = pool[target[c]]
          /\ \A d \in DOMAIN client : d # c => client'[d] = client[d]
      BY <1>2 DEF Reuse, Put
    <2>2. /\ pc[c] = "locking" /\ target[c] \in DOMAIN pool
          /\ UNCHANGED <<target, pool, removals>>
      BY <1>2 DEF Reuse
    <2>3. pc'[c] = "sending" /\ \A d \in Calls : d # c => pc'[d] = pc[d]
      BY <1>0, <1>2 DEF Reuse, Goto
    <2>4. Opened'
      <3>1. \A d \in DOMAIN client' : pc'[d] \notin Early /\ pc'[client'[d]] \notin Early
        BY <1>0, <1>i, <2>1, <2>2, <2>3 DEF Opened, Early
      <3>2. \A n \in DOMAIN pool' : pc'[pool'[n]] \notin Early
        BY <1>0, <1>i, <2>2 DEF Opened
      <3> QED  BY <3>1, <3>2 DEF Opened
    <2>5. GoesToNode'  BY <1>i, <1>t, <2>1, <2>2 DEF GoesToNode
    <2>6. RemovalIsDue'  BY <1>i, <1>t, <2>1, <2>2, <2>3 DEF RemovalIsDue
    <2> QED  BY <2>4, <2>5, <2>6
  <1>3. ASSUME NEW c \in Calls, Connected(c) PROVE Opened' /\ GoesToNode' /\ RemovalIsDue'
    <2>1. /\ DOMAIN client' = DOMAIN client \cup {c}
          /\ client'[c] = c
          /\ \A d \in DOMAIN client : d # c => client'[d] = client[d]
      BY <1>3 DEF Connected, Put
    <2>2. /\ DOMAIN pool' = DOMAIN pool \cup {target[c]}
          /\ pool'[target[c]] = c
          /\ \A n \in DOMAIN pool : n # target[c] => pool'[n] = pool[n]
      BY <1>3 DEF Connected, Put
    <2>3. pc[c] = "connecting" /\ UNCHANGED <<target, removals>>  BY <1>3 DEF Connected
    <2>4. pc'[c] = "sending" /\ \A d \in Calls : d # c => pc'[d] = pc[d]
      BY <1>0, <1>3 DEF Connected, Goto
    <2>5. Opened'
      <3>1. \A d \in DOMAIN client' : pc'[d] \notin Early /\ pc'[client'[d]] \notin Early
        BY <1>0, <1>i, <2>1, <2>4 DEF Opened, Early
      <3>2. \A n \in DOMAIN pool' : pc'[pool'[n]] \notin Early
        BY <1>0, <1>i, <2>2, <2>4 DEF Opened, Early
      <3> QED  BY <3>1, <3>2 DEF Opened
    <2>6. GoesToNode'  BY <1>i, <1>t, <2>1, <2>2, <2>3 DEF GoesToNode
    <2>7. \A d \in DOMAIN client : client[d] # c /\ d # c
      BY <1>i, <2>3 DEF Opened, Early
    <2>8. RemovalIsDue'  BY <1>i, <1>t, <2>1, <2>2, <2>3, <2>4, <2>7 DEF RemovalIsDue
    <2> QED  BY <2>5, <2>6, <2>8
  <1>4. ASSUME NEW c \in Calls, ConnectFails(c) PROVE Opened' /\ GoesToNode' /\ RemovalIsDue'
    <2>1. c \notin DOMAIN client  BY <1>4, <1>i DEF ConnectFails, Opened, Early
    <2>2. \A d \in Asks : pc'[d] = "error" => pc[d] = "error" \/ d \notin DOMAIN client
      BY <1>0, <1>4, <1>t, <2>1 DEF ConnectFails, Goto
    <2> QED  BY <1>4, <1>r, <2>2 DEF ConnectFails
  <1>5. ASSUME NEW c \in Calls, AskFails(c) PROVE Opened' /\ GoesToNode' /\ RemovalIsDue'
    <2>1. target[c] \in Nodes  BY <1>0, <1>5, <1>t DEF AskFails
    <2>2. /\ removals' \in [Nodes -> Nat] /\ removals'[target[c]] > 0
          /\ \A n \in Nodes : removals'[n] \geq removals[n]
      BY <1>0, <1>5, <2>1 DEF AskFails
    <2>3. \A d \in Calls : d # c => pc'[d] = pc[d]  BY <1>0, <1>5 DEF AskFails, Goto
    <2>4. c \in DOMAIN target /\ UNCHANGED <<target, client, pool>>
      BY <1>5, <1>t DEF AskFails
    <2> QED  BY <1>k, <1>t, <2>2, <2>3, <2>4
  <1>6. ASSUME NEW n \in Nodes, Removal(n) \/ ClearConnection(n)
        PROVE  Opened' /\ GoesToNode' /\ RemovalIsDue'
    <2>1. \A m \in Nodes : m # n => removals'[m] = removals[m]
      BY <1>0, <1>6 DEF Removal, ClearConnection
    <2> QED  BY <1>6, <1>r, <2>1 DEF Removal, ClearConnection
  <1>7. ASSUME NEW c \in Calls,
               \/ Connect(c) \/ Registered(c) \/ Answered(c)
               \/ Tell(c) \/ TellWritten(c) \/ Disconnect(c)
        PROVE  Opened' /\ GoesToNode' /\ RemovalIsDue'
    <2>1. \A d \in Asks : pc'[d] = "error" => pc[d] = "error"
      BY <1>0, <1>7, <1>t DEF Connect, Registered, Answered, Tell, TellWritten, WaitsOn,
          Disconnect, Goto
    <2>2. UNCHANGED <<target, client, pool, removals>>
      BY <1>7 DEF Connect, Registered, Answered, Tell, TellWritten, Disconnect
    <2> QED  BY <1>0, <1>k, <2>1, <2>2
  <1>8. CASE UNCHANGED vars  BY <1>0, <1>k, <1>8 DEF vars
  <1> QED  BY <1>1, <1>2, <1>3, <1>4, <1>5, <1>6, <1>7, <1>8 DEF Next

LEMMA RouteInvariant == Spec => []RouteInv
  <1>1. Init => RouteInv
    <2>1. Init => TypeOK  BY InitType, ClientAssumption
    <2> QED  BY <2>1 DEF Init, RouteInv, Opened, GoesToNode, RemovalIsDue, Calls
  <1>2. RouteInv /\ [Next]_vars => RouteInv'
    BY StepType, RouteStep, ClientAssumption DEF RouteInv
  <1> QED  BY <1>1, <1>2, PTL DEF Spec

\* Pooling never sends a call to the wrong node, although connections are shared
\* by callers, removed by name by others, and opened anew.
THEOREM RouteTheorem == Spec => []GoesToNode
  BY RouteInvariant, PTL DEF RouteInv

\* The safety half of FailureIsForgotten: a failed connection is out of the pool
\* or its removal is due, so that only the spawned task has to run.
THEOREM RemovalTheorem == Spec => []RemovalIsDue
  BY RouteInvariant, PTL DEF RouteInv

\* Of the requests on one connection at most one waits for an answer.
OneWaiter ==
    \A c, d \in Calls :
        pc[c] = "waiting" /\ pc[d] = "waiting" /\ client[c] = client[d] => c = d

\* With id 0 for all requests (cluster_client.rs 106) the last one registered is
\* the only one that an answer can reach; the others have been told of a failure.
THEOREM OneWaiterTheorem == Spec => []OneWaiter
  <1>1. Init => OneWaiter  BY DEF Init, OneWaiter
  <1>2. ASSUME TypeOK, OneWaiter, [Next]_vars PROVE OneWaiter'
    <2> USE <1>2 DEF OneWaiter
    <2>0. /\ pc \in [Calls -> {"idle", "locking", "connecting", "sending", "waiting",
                               "dropped"} \cup Results]
          /\ \A c \in Calls : pc[c] = "waiting" => c \in DOMAIN client
      BY DEF TypeOK
    <2>1. ASSUME NEW c \in Calls, Registered(c) PROVE OneWaiter'
      BY <2>0, <2>1 DEF Registered, WaitsOn
    <2>2. ASSUME \A c \in Calls : pc'[c] = "waiting" =>
                    pc[c] = "waiting" /\ client'[c] = client[c]
          PROVE  OneWaiter'
      BY <2>2
    <2>3. ASSUME NEW c \in Calls, Reuse(c) \/ Connected(c) PROVE OneWaiter'
      BY <2>0, <2>2, <2>3 DEF Reuse, Connected, Goto, Put
    <2>4. ASSUME NEW c \in Calls,
                 Lookup(c) \/ Connect(c) \/ ConnectFails(c) \/ Answered(c) \/ AskFails(c)
                   \/ Tell(c) \/ TellWritten(c) \/ Disconnect(c)
          PROVE  OneWaiter'
      BY <2>0, <2>2, <2>4 DEF Lookup, Connect, ConnectFails, Answered, AskFails, Tell,
          TellWritten, WaitsOn, Disconnect, Goto
    <2>5. CASE UNCHANGED <<pc, client>>  BY <2>5
    <2> QED
      BY <2>1, <2>3, <2>4, <2>5 DEF Next, vars, Removal, ClearConnection
  <1> QED  BY <1>1, <1>2, ClientTypeCorrect, PTL DEF Spec
=============================================================================
