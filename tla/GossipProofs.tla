---------------------------- MODULE GossipProofs ----------------------------
(***************************************************************************)
(* Proofs about Gossip, for any nodes, actors, seeds and timeout.  The        *)
(* inductive invariant GossipInv links what is said of a node, now or in a   *)
(* message, to what happened before: a lapse or a registration.             *)
(***************************************************************************)
EXTENDS Gossip, TLAPS

\* A map is a function on some of the keys.
LEMMA MapsDef ==
    ASSUME NEW S, NEW T, NEW f \in Maps(S, T)
    PROVE  /\ DOMAIN f \subseteq S
           /\ \A k \in DOMAIN f : f[k] \in T
           /\ f \in [DOMAIN f -> T]
  BY DEF Maps

LEMMA MapsIntro ==
    ASSUME NEW S, NEW T, NEW D \in SUBSET S, NEW f \in [D -> T]
    PROVE  f \in Maps(S, T)
  BY DEF Maps

LEMMA PutMaps ==
    ASSUME NEW S, NEW T, NEW f \in Maps(S, T), NEW k \in S, NEW v \in T
    PROVE  Put(f, k, v) \in Maps(S, T)
  <1>1. DOMAIN f \cup {k} \in SUBSET S  BY MapsDef
  <1>2. Put(f, k, v) \in [DOMAIN f \cup {k} -> T]  BY MapsDef DEF Put
  <1> QED  BY <1>1, <1>2, MapsIntro

LEMMA PutAllMaps ==
    ASSUME NEW S, NEW T, NEW f \in Maps(S, T), NEW g \in Maps(S, T)
    PROVE  PutAll(f, g) \in Maps(S, T)
  <1>1. DOMAIN f \cup DOMAIN g \in SUBSET S  BY MapsDef
  <1>2. PutAll(f, g) \in [DOMAIN f \cup DOMAIN g -> T]  BY MapsDef DEF PutAll
  <1> QED  BY <1>1, <1>2, MapsIntro

LEMMA WithoutMaps ==
    ASSUME NEW S, NEW T, NEW f \in Maps(S, T), NEW gone
    PROVE  Without(f, gone) \in Maps(S, T)
  <1> DEFINE D == {y \in DOMAIN f : f[y] \notin gone}
  <1>1. D \in SUBSET S  BY MapsDef
  <1>2. Without(f, gone) \in [D -> T]  BY MapsDef DEF Without
  <1> QED  BY <1>1, <1>2, MapsIntro

LEMMA EmptyMaps ==
    ASSUME NEW S, NEW T, NEW e
    PROVE  [x \in {} |-> e] \in Maps(S, T)
  BY DEF Maps
-----------------------------------------------------------------------------
\* What is on a link at each stage.
LEMMA LinkShape ==
    ASSUME TypeOK, NEW n \in Nodes
    PROVE  /\ link[n] \in Links
           /\ InTransit(n) => /\ link[n].peer \in Nodes
                              /\ link[n].msg \in Messages
                              /\ link[n].msg.members \in Maps(Nodes, 0 .. 2)
                              /\ link[n].msg.actors \in Maps(Actors, Nodes)
           /\ link[n].stage = "served" => link[n].peer \in Nodes
  <1>1. link[n] \in Links  BY DEF TypeOK
  <1>2. CASE link[n] = NoLink  BY <1>1, <1>2 DEF NoLink, InTransit
  <1>3. CASE link[n] = Reset  BY <1>1, <1>3 DEF Reset, InTransit
  <1>4. CASE link[n] \in [stage : {"request", "response"}, peer : Nodes, msg : Messages]
    <2>1. link[n].msg \in Messages /\ link[n].peer \in Nodes  BY <1>4
    <2>2. /\ link[n].msg.members \in Maps(Nodes, 0 .. 2)
          /\ link[n].msg.actors \in Maps(Actors, Nodes)
      BY <2>1 DEF Messages
    <2> QED  BY <1>1, <2>1, <2>2
  <1>5. CASE link[n] \in [stage : {"served"}, peer : Nodes]
    BY <1>1, <1>5 DEF InTransit
  <1> QED  BY <1>1, <1>2, <1>3, <1>4, <1>5 DEF Links

\* What strays and the messages in flight look like.
LEMMA StrayShape ==
    ASSUME TypeOK, NEW q \in strays
    PROVE  /\ q.from \in Nodes /\ q.peer \in Nodes /\ q.msg \in Messages
           /\ q.msg \in InFlight
  BY DEF TypeOK, Strays, InFlight

LEMMA FlightShape ==
    ASSUME TypeOK, NEW msg \in InFlight
    PROVE  /\ msg \in Messages
           /\ msg.members \in Maps(Nodes, 0 .. 2)
  <1>1. msg \in Messages  BY LinkShape, StrayShape DEF InFlight
  <1> QED  BY <1>1 DEF Messages

\* A node sends a message of the right shape.
LEMMA MessageShape ==
    ASSUME TypeOK, NEW n \in Nodes
    PROVE  GossipMessage(n) \in Messages
  <1>1. members[n] \in Maps(Nodes, Status)  BY DEF TypeOK
  <1>2. registry[n] \in Maps(Actors, Nodes)  BY DEF TypeOK
  <1> DEFINE ms == [m \in DOMAIN members[n] |-> StatusCode(members[n][m])]
  <1>3. \A s \in Status : StatusCode(s) \in 0 .. 2
    BY DEF Status, StatusCode
  <1>4. ms \in [DOMAIN members[n] -> 0 .. 2]  BY <1>1, <1>3, MapsDef
  <1>5. DOMAIN members[n] \in SUBSET Nodes  BY <1>1, MapsDef
  <1>6. ms \in Maps(Nodes, 0 .. 2)  BY <1>4, <1>5, MapsIntro
  <1> QED  BY <1>2, <1>6 DEF GossipMessage, Messages

\* What merging makes of a view: the entries of the message are taken.
LEMMA MergeShape ==
    ASSUME NEW mine \in Maps(Nodes, Status), NEW theirs \in Maps(Nodes, 0 .. 2)
    PROVE  /\ MergeMembers(mine, theirs) \in Maps(Nodes, Status)
           /\ DOMAIN MergeMembers(mine, theirs) = DOMAIN mine \cup DOMAIN theirs
           /\ \A m \in DOMAIN mine \cup DOMAIN theirs :
                MergeMembers(mine, theirs)[m] =
                    IF m \in DOMAIN theirs THEN CodeStatus(theirs[m]) ELSE mine[m]
  <1> DEFINE g == [m \in DOMAIN theirs |-> CodeStatus(theirs[m])]
  <1>1. \A i : CodeStatus(i) \in Status  BY DEF CodeStatus, Status
  <1>2. g \in [DOMAIN theirs -> Status]  BY <1>1
  <1>3. DOMAIN theirs \in SUBSET Nodes  BY MapsDef
  <1>4. g \in Maps(Nodes, Status)  BY <1>2, <1>3, MapsIntro
  <1>5. PutAll(mine, g) \in Maps(Nodes, Status)  BY <1>4, PutAllMaps
  <1> QED  BY <1>5 DEF MergeMembers, PutAll
-----------------------------------------------------------------------------
\* The initial state and the memory of a fresh process have the right shape.
LEMMA FreshShape ==
    ASSUME GossipAssumption, NEW n \in Nodes, NEW known \in SUBSET Nodes
    PROVE  /\ [m \in known |-> "Up"] \in Maps(Nodes, Status)
           /\ [m \in known |-> 0] \in Maps(Nodes, 0 .. MaxSilence)
           /\ [x \in {} |-> n] \in Maps(Actors, Nodes)
  <1>1. 0 \in 0 .. MaxSilence  BY DEF GossipAssumption, MaxSilence
  <1>2. [m \in known |-> "Up"] \in [known -> Status]  BY DEF Status
  <1>3. [m \in known |-> 0] \in [known -> 0 .. MaxSilence]  BY <1>1
  <1> QED  BY <1>2, <1>3, MapsIntro, EmptyMaps

LEMMA InitType == ASSUME GossipAssumption, Init PROVE TypeOK
  <1>1. \A n \in Nodes : Seeded(n) \in SUBSET Nodes  BY DEF Seeded
  <1>2. members \in [Nodes -> Maps(Nodes, Status)]  BY <1>1, FreshShape DEF Init
  <1>3. silence \in [Nodes -> Maps(Nodes, 0 .. MaxSilence)]  BY <1>1, FreshShape DEF Init
  <1>4. registry \in [Nodes -> Maps(Actors, Nodes)]  BY <1>1, FreshShape DEF Init
  <1>5. link \in [Nodes -> Links]  BY DEF Init, Links
  <1>6. inputs \in 0 .. MaxInputs  BY DEF Init, GossipAssumption
  <1> QED  BY <1>2, <1>3, <1>4, <1>5, <1>6 DEF Init, TypeOK

\* Every step keeps the shape of the state.
LEMMA StepType ==
    ASSUME GossipAssumption, TypeOK, [Next]_vars
    PROVE  TypeOK'
  <1> USE DEF TypeOK
  <1>0. \A n \in Nodes : 0 \in 0 .. MaxSilence  BY DEF GossipAssumption, MaxSilence
  <1>1. ASSUME NEW n \in Nodes, NEW m \in Nodes, AddMember(n, m) PROVE TypeOK'
    <2>1. Put(members[n], m, "Up") \in Maps(Nodes, Status)  BY PutMaps DEF Status
    <2>2. Put(silence[n], m, 0) \in Maps(Nodes, 0 .. MaxSilence)  BY <1>0, PutMaps
    <2>3. inputs' \in 0 .. MaxInputs  BY <1>1 DEF AddMember, Input, GossipAssumption
    <2>4. members' \in [Nodes -> Maps(Nodes, Status)]  BY <1>1, <2>1 DEF AddMember
    <2>5. silence' \in [Nodes -> Maps(Nodes, 0 .. MaxSilence)]  BY <1>1, <2>2 DEF AddMember
    <2> QED  BY <1>1, <2>3, <2>4, <2>5 DEF AddMember
  <1>2. ASSUME NEW n \in Nodes, NEW x \in Actors, RegisterActor(n, x) PROVE TypeOK'
    <2>1. Put(registry[n], x, n) \in Maps(Actors, Nodes)  BY PutMaps
    <2>2. inputs' \in 0 .. MaxInputs  BY <1>2 DEF RegisterActor, Input, GossipAssumption
    <2>3. registry' \in [Nodes -> Maps(Actors, Nodes)]  BY <1>2, <2>1 DEF RegisterActor
    <2> QED  BY <1>2, <2>2, <2>3 DEF RegisterActor
  <1>3. ASSUME NEW n \in Nodes, Detect(n) PROVE TypeOK'
    <2> DEFINE judged == [m \in DOMAIN members[n] |->
                            IF m \in Judged(n)
                            THEN Verdict(members[n][m], silence[n][m])
                            ELSE members[n][m]]
    <2>1. \A s \in Status : \A t : Verdict(s, t) \in Status  BY DEF Verdict, Status
    <2>2. judged \in [DOMAIN members[n] -> Status]  BY <2>1, MapsDef
    <2>3. judged \in Maps(Nodes, Status)
      <3>1. DOMAIN members[n] \in SUBSET Nodes  BY MapsDef
      <3> HIDE DEF judged
      <3> QED  BY <2>2, <3>1, MapsIntro
    <2>4. members' \in [Nodes -> Maps(Nodes, Status)]  BY <1>3, <2>3 DEF Detect
    <2>5. NewlyDown(n) \in SUBSET Nodes  BY MapsDef DEF NewlyDown, Judged
    <2> QED  BY <1>3, <2>4, <2>5 DEF Detect
  <1>4. ASSUME NEW n \in Nodes, Cleanup(n) PROVE TypeOK'
    <2>1. Without(registry[n], downNodes[n]) \in Maps(Actors, Nodes)  BY WithoutMaps
    <2>2. registry' \in [Nodes -> Maps(Actors, Nodes)]  BY <1>4, <2>1 DEF Cleanup
    <2> QED  BY <1>4, <2>2 DEF Cleanup
  <1>5. ASSUME NEW n \in Nodes, NEW m \in Nodes, GossipTo(n, m) PROVE TypeOK'
    <2>1. GossipMessage(n) \in Messages  BY MessageShape
    <2>2. link' \in [Nodes -> Links]  BY <1>5, <2>1 DEF GossipTo, Links
    <2> QED  BY <1>5, <2>2 DEF GossipTo
  <1>6. ASSUME NEW n \in Nodes, NoGossip(n) PROVE TypeOK'
    BY <1>6 DEF NoGossip
  <1>7. ASSUME NEW n \in Nodes, NEW msg \in Messages, NEW sender \in Nodes,
               MergeGossip(n, msg, sender)
        PROVE  /\ members' \in [Nodes -> Maps(Nodes, Status)]
               /\ silence' \in [Nodes -> Maps(Nodes, 0 .. MaxSilence)]
               /\ registry' \in [Nodes -> Maps(Actors, Nodes)]
    <2>1. MergeMembers(members[n], msg.members) \in Maps(Nodes, Status)
      BY MergeShape DEF Messages
    <2>2. Put(silence[n], sender, 0) \in Maps(Nodes, 0 .. MaxSilence)  BY <1>0, PutMaps
    <2>3. MergeActors(registry[n], msg.actors) \in Maps(Actors, Nodes)
      BY PutAllMaps DEF MergeActors, Messages
    <2> QED  BY <1>7, <2>1, <2>2, <2>3 DEF MergeGossip
  <1>8. ASSUME NEW n \in Nodes, Receive(n) PROVE TypeOK'
    <2>1. link[n].peer \in Nodes /\ link[n].msg \in Messages
      BY <1>8, LinkShape DEF Receive, InTransit
    <2>2. MergeGossip(link[n].peer, link[n].msg, n)  BY <1>8 DEF Receive
    <2>3. link' \in [Nodes -> Links]  BY <1>8, <2>1 DEF Receive, Links
    <2> QED  BY <1>7, <1>8, <2>1, <2>2, <2>3 DEF Receive
  <1>9. ASSUME NEW n \in Nodes, Reply(n) PROVE TypeOK'
    <2>1. link[n].peer \in Nodes  BY <1>9, LinkShape DEF Reply
    <2>2. GossipMessage(link[n].peer) \in Messages  BY <2>1, MessageShape
    <2>3. link' \in [Nodes -> Links]  BY <1>9, <2>1, <2>2 DEF Reply, Links
    <2> QED  BY <1>9, <2>3 DEF Reply
  <1>10. ASSUME NEW n \in Nodes, MergeResponse(n) PROVE TypeOK'
    <2>1. link[n].peer \in Nodes /\ link[n].msg \in Messages
      BY <1>10, LinkShape DEF MergeResponse, InTransit
    <2>2. MergeGossip(n, link[n].msg, link[n].peer)  BY <1>10 DEF MergeResponse
    <2>3. link' \in [Nodes -> Links]  BY <1>10 DEF MergeResponse, Links
    <2> QED  BY <1>7, <1>10, <2>1, <2>2, <2>3 DEF MergeResponse
  <1>11. ASSUME NEW n \in Nodes, RecvError(n) PROVE TypeOK'
    <2>1. link' \in [Nodes -> Links]  BY <1>11 DEF RecvError, Links
    <2> QED  BY <1>11, <2>1 DEF RecvError
  <1>12. ASSUME NEW n \in Nodes, Break(n) PROVE TypeOK'
    <2>1. link' \in [Nodes -> Links]  BY <1>12 DEF Break, Links
    <2>2. inputs' \in 0 .. MaxInputs  BY <1>12 DEF Break, Input, GossipAssumption
    <2> QED  BY <1>12, <2>1, <2>2 DEF Break
  <1>13. ASSUME NEW n \in Nodes, NEW known \in SUBSET Nodes, Boot(n, known)
         PROVE  /\ members' \in [Nodes -> Maps(Nodes, Status)]
                /\ silence' \in [Nodes -> Maps(Nodes, 0 .. MaxSilence)]
                /\ registry' \in [Nodes -> Maps(Actors, Nodes)]
                /\ pc' \in [Nodes -> {"idle", "cleanup", "pick", "wait"}]
                /\ downNodes' \in [Nodes -> SUBSET Nodes]
    BY <1>13, FreshShape DEF Boot
  <1>14. ASSUME NEW n \in Nodes, Crash(n) PROVE TypeOK'
    <2>1. link' \in [Nodes -> Links]  BY <1>14 DEF Crash, Links
    <2>2. inputs' \in 0 .. MaxInputs  BY <1>14 DEF Crash, Input, GossipAssumption
    <2>3. Boot(n, {})  BY <1>14 DEF Crash
    <2>4. Request(n) \subseteq Strays
      BY LinkShape DEF Request, Strays, InTransit
    <2>5. strays' \subseteq Strays  BY <1>14, <2>4 DEF Crash
    <2> QED  BY <1>13, <1>14, <2>1, <2>2, <2>3, <2>5 DEF Crash
  <1>15. ASSUME NEW n \in Nodes, Restart(n) PROVE TypeOK'
    <2>2. inputs' \in 0 .. MaxInputs  BY <1>15 DEF Restart, Input, GossipAssumption
    <2>3. Boot(n, Seeded(n))  BY <1>15 DEF Restart
    <2>4. Seeded(n) \in SUBSET Nodes  BY DEF Seeded
    <2> QED  BY <1>13, <1>15, <2>2, <2>3, <2>4 DEF Restart
  <1>16. ASSUME Tick PROVE TypeOK'
    <2>1. ASSUME NEW n \in Nodes
          PROVE  silence'[n] \in Maps(Nodes, 0 .. MaxSilence)
      <3>1. \A t \in 0 .. MaxSilence : Older(t) \in 0 .. MaxSilence
        BY DEF Older, MaxSilence, GossipAssumption
      <3>2. silence[n] \in Maps(Nodes, 0 .. MaxSilence)  OBVIOUS
      <3>3. /\ DOMAIN silence[n] \in SUBSET Nodes
            /\ \A m \in DOMAIN silence[n] : silence[n][m] \in 0 .. MaxSilence
        <4> DEFINE T == 0 .. MaxSilence
        <4>1. silence[n] \in Maps(Nodes, T)  BY <3>2
        <4> HIDE DEF T
        <4>2. /\ DOMAIN silence[n] \subseteq Nodes
              /\ \A m \in DOMAIN silence[n] : silence[n][m] \in T
          BY <4>1, MapsDef
        <4> QED  BY <4>2 DEF T
      <3>4. silence'[n] = [m \in DOMAIN silence[n] |->
                            IF m = n \/ n \notin Gossipers
                            THEN 0 ELSE Older(silence[n][m])]
        BY <1>16 DEF Tick
      <3>5. silence'[n] \in [DOMAIN silence[n] -> 0 .. MaxSilence]
        BY <1>0, <3>1, <3>3, <3>4
      <3> QED  BY <3>3, <3>5, MapsIntro
    <2>2. silence' \in [Nodes -> Maps(Nodes, 0 .. MaxSilence)]  BY <1>16, <2>1 DEF Tick
    <2>3. lapsed' \in [Nodes -> SUBSET Nodes]
      <3>1. \A n \in Nodes : DOMAIN silence'[n] \subseteq Nodes  BY <2>1, MapsDef
      <3> QED  BY <1>16, <3>1 DEF Tick
    <2> QED  BY <1>16, <2>2, <2>3 DEF Tick
  <1>17. CASE UNCHANGED vars  BY <1>17 DEF vars
  <1>18. ASSUME NEW q \in strays, ReceiveStray(q) PROVE TypeOK'
    <2>1. q.from \in Nodes /\ q.peer \in Nodes /\ q.msg \in Messages  BY StrayShape
    <2>2. MergeGossip(q.peer, q.msg, q.from)  BY <1>18 DEF ReceiveStray
    <2> QED  BY <1>7, <1>18, <2>1, <2>2 DEF ReceiveStray
  <1> QED
    BY <1>1, <1>2, <1>3, <1>4, <1>5, <1>6, <1>8, <1>9, <1>10, <1>11, <1>12,
       <1>14, <1>15, <1>16, <1>17, <1>18 DEF Next

\* TypeOK holds for every cluster: views, directories and messages keep their
\* shape through merges, breaks, crashes and restarts.
THEOREM GossipTypeCorrect == Spec => []TypeOK
  <1>1. Init => TypeOK  BY InitType, GossipAssumption
  <1>2. TypeOK /\ [Next]_vars => TypeOK'  BY StepType, GossipAssumption
  <1> QED  BY <1>1, <1>2, PTL DEF Spec
-----------------------------------------------------------------------------
\* A heartbeat that is too old has been noted, and who is being cleaned up after
\* was found Down because of one.
SilenceHasLapsed ==
    \A n \in Nodes : \A m \in DOMAIN silence[n] :
        silence[n][m] > 2 * SuspectTimeout => m \in lapsed[n]

CleanupHasLapsed == \A n \in Nodes : downNodes[n] \subseteq lapsed[n]

\* Nothing that has lapsed is forgotten.
LEMMA LapsedGrows ==
    ASSUME TypeOK, [Next]_vars, NEW n \in Nodes
    PROVE  lapsed[n] \subseteq lapsed'[n]
  <1>1. CASE Tick  BY <1>1 DEF Tick, TypeOK
  <1>2. CASE lapsed' = lapsed  BY <1>2
  <1> QED
    BY <1>1, <1>2 DEF Next, vars, AddMember, RegisterActor, Detect, Cleanup, GossipTo,
        NoGossip, Receive, ReceiveStray, Reply, MergeResponse, RecvError, Break, Crash,
        Restart

LEMMA LapseStep ==
    ASSUME GossipAssumption, TypeOK, SilenceHasLapsed, CleanupHasLapsed, [Next]_vars
    PROVE  SilenceHasLapsed' /\ CleanupHasLapsed'
  <1> USE DEF SilenceHasLapsed, CleanupHasLapsed
  <1>0. 2 * SuspectTimeout \in Nat  BY DEF GossipAssumption
  <1>a. ~(0 > 2 * SuspectTimeout)  BY <1>0
  <1>1. ASSUME NEW n \in Nodes, NEW m, silence' = [silence EXCEPT ![n] = Put(@, m, 0)],
               UNCHANGED lapsed
        PROVE  SilenceHasLapsed'
    BY <1>1, <1>a DEF Put, TypeOK
  <1>2. ASSUME NEW n \in Nodes, NEW known \in SUBSET Nodes, Boot(n, known), UNCHANGED lapsed
        PROVE  SilenceHasLapsed' /\ CleanupHasLapsed'
    BY <1>2, <1>a DEF Boot, TypeOK
  <1>3. ASSUME NEW n \in Nodes, Detect(n) PROVE SilenceHasLapsed' /\ CleanupHasLapsed'
    <2>1. NewlyDown(n) \subseteq lapsed[n]
      <3> SUFFICES ASSUME NEW m \in NewlyDown(n) PROVE m \in lapsed[n]  OBVIOUS
      <3>1. m \in DOMAIN silence[n]  BY DEF NewlyDown, Judged
      <3>2. silence[n][m] > 2 * SuspectTimeout  BY DEF NewlyDown, Verdict
      <3> QED  BY <3>1, <3>2
    <2> QED  BY <1>3, <2>1 DEF Detect, TypeOK
  <1>4. ASSUME NEW n \in Nodes, Cleanup(n) PROVE SilenceHasLapsed' /\ CleanupHasLapsed'
    BY <1>4 DEF Cleanup, TypeOK
  <1>5. ASSUME NEW n \in Nodes, Receive(n) PROVE SilenceHasLapsed' /\ CleanupHasLapsed'
    <2>1. link[n].peer \in Nodes  BY <1>5, LinkShape DEF Receive, InTransit
    <2> QED  BY <1>1, <1>5, <2>1 DEF Receive, MergeGossip
  <1>6. ASSUME NEW n \in Nodes, MergeResponse(n) PROVE SilenceHasLapsed' /\ CleanupHasLapsed'
    BY <1>1, <1>6 DEF MergeResponse, MergeGossip
  <1>7. ASSUME NEW n \in Nodes, NEW m \in Nodes, AddMember(n, m)
        PROVE  SilenceHasLapsed' /\ CleanupHasLapsed'
    BY <1>1, <1>7 DEF AddMember
  <1>8. ASSUME NEW n \in Nodes, Crash(n) \/ Restart(n)
        PROVE  SilenceHasLapsed' /\ CleanupHasLapsed'
    <2>1. Seeded(n) \in SUBSET Nodes  BY DEF Seeded
    <2> QED  BY <1>2, <1>8, <2>1 DEF Crash, Restart
  <1>9. ASSUME Tick PROVE SilenceHasLapsed' /\ CleanupHasLapsed'
    BY <1>9 DEF Tick, TypeOK
  <1>10. ASSUME NEW q \in strays, ReceiveStray(q)
         PROVE  SilenceHasLapsed' /\ CleanupHasLapsed'
    <2>1. q.peer \in Nodes  BY StrayShape
    <2> QED  BY <1>1, <1>10, <2>1 DEF ReceiveStray, MergeGossip
  <1>11. CASE UNCHANGED <<silence, lapsed, downNodes>>  BY <1>11
  <1> QED
    BY <1>3, <1>4, <1>5, <1>6, <1>7, <1>8, <1>9, <1>10, <1>11 DEF Next, vars,
        RegisterActor, GossipTo, NoGossip, Reply, RecvError, Break
-----------------------------------------------------------------------------
\* What may happen to the link of a node in a step: a message is put on it by
\* GossipTo or Reply, anything else leaves it alone or takes the message off.
LEMMA LinkStep ==
    ASSUME TypeOK, [Next]_vars, NEW n \in Nodes
    PROVE  \/ \E m \in Nodes : GossipTo(n, m)
           \/ Reply(n)
           \/ link'[n] = link[n]
           \/ link'[n].stage \notin {"request", "response"}
  <1>1. ASSUME NEW k \in Nodes, Receive(k) \/ MergeResponse(k) \/ RecvError(k) \/ Break(k)
                    \/ Crash(k) \/ Restart(k)
        PROVE  link'[n] = link[n] \/ link'[n].stage \notin {"request", "response"}
    BY <1>1 DEF Receive, MergeResponse, RecvError, Break, Crash, Restart, NoLink, Reset,
        TypeOK
  <1>2. ASSUME NEW k \in Nodes \ {n}, NEW m \in Nodes, GossipTo(k, m) \/ Reply(k)
        PROVE  link'[n] = link[n]
    BY <1>2 DEF GossipTo, Reply, TypeOK
  <1> QED
    BY <1>1, <1>2 DEF Next, vars, AddMember, RegisterActor, Detect, Cleanup, NoGossip,
        ReceiveStray, Tick

\* A request becomes a stray when its sender crashes, and in no other way.
LEMMA StraysStep ==
    ASSUME TypeOK, [Next]_vars, NEW q \in strays'
    PROVE  \/ q \in strays /\ ~Crash(q.peer)
           \/ \E n \in Nodes : /\ Crash(n) /\ link[n].stage = "request"
                              /\ q = [from |-> n, peer |-> link[n].peer,
                                      msg |-> link[n].msg]
  <1>1. ASSUME NEW n \in Nodes, Crash(n), q \notin Request(n)
        PROVE  q \in strays /\ ~Crash(q.peer)
    <2>1. q \in strays /\ q.peer # n  BY <1>1 DEF Crash
    <2>2. q.peer \in Nodes  BY <2>1, StrayShape
    <2>3. alive' = alive \ {n} /\ n \in alive  BY <1>1 DEF Crash
    <2>4. Crash(q.peer) => alive' = alive \ {q.peer}  BY DEF Crash
    <2> QED  BY <2>1, <2>3, <2>4 DEF Crash
  <1>2. ASSUME NEW n \in Nodes, Crash(n), q \in Request(n)
        PROVE  /\ link[n].stage = "request"
               /\ q = [from |-> n, peer |-> link[n].peer, msg |-> link[n].msg]
    BY <1>2 DEF Request
  <1>3. ASSUME \A n \in Nodes : ~Crash(n)
        PROVE  q \in strays /\ ~Crash(q.peer)
    <2>1. q \in strays
      BY <1>3 DEF Next, vars, AddMember, RegisterActor, Detect, Cleanup, GossipTo,
          NoGossip, Receive, ReceiveStray, Reply, MergeResponse, RecvError, Break,
          Restart, Tick
    <2> QED  BY <1>3, <2>1, StrayShape
  <1> QED  BY <1>1, <1>2, <1>3

\* A message in flight was so before, or is just being sent.
LEMMA FlightStep ==
    ASSUME TypeOK, [Next]_vars, NEW msg \in InFlight'
    PROVE  \/ msg \in InFlight
           \/ \E n, m \in Nodes : GossipTo(n, m) /\ msg = GossipMessage(n)
           \/ \E n \in Nodes : Reply(n) /\ msg = GossipMessage(link[n].peer)
  <1>1. ASSUME NEW n \in Nodes, InTransit(n)', msg = link'[n].msg
        PROVE  \/ msg \in InFlight
               \/ \E m \in Nodes : GossipTo(n, m) /\ msg = GossipMessage(n)
               \/ Reply(n) /\ msg = GossipMessage(link[n].peer)
    <2>1. ASSUME NEW m \in Nodes, GossipTo(n, m) PROVE msg = GossipMessage(n)
      BY <1>1, <2>1 DEF GossipTo, TypeOK
    <2>2. ASSUME Reply(n) PROVE msg = GossipMessage(link[n].peer)
      BY <1>1, <2>2 DEF Reply, TypeOK
    <2>3. CASE link'[n] = link[n]  BY <1>1, <2>3 DEF InTransit, InFlight
    <2>4. CASE link'[n].stage \notin {"request", "response"}  BY <1>1, <2>4 DEF InTransit
    <2> QED  BY <2>1, <2>2, <2>3, <2>4, LinkStep
  <1>2. ASSUME NEW q \in strays', msg = q.msg PROVE msg \in InFlight
    <2>1. CASE q \in strays  BY <1>2, <2>1 DEF InFlight
    <2>2. ASSUME NEW n \in Nodes, link[n].stage = "request", q.msg = link[n].msg
          PROVE  msg \in InFlight
      BY <1>2, <2>2 DEF InFlight, InTransit
    <2> QED  BY <2>1, <2>2, StraysStep
  <1>3. \/ \E n \in Nodes : InTransit(n)' /\ msg = link'[n].msg
        \/ \E q \in strays' : msg = q.msg
    BY DEF InFlight
  <1> QED  BY <1>1, <1>2, <1>3

\* The directory: every location is one that was announced.
LocationsTrue(map) == \A x \in DOMAIN map : <<x, map[x]>> \in announced

LEMMA DirectoryStep ==
    ASSUME TypeOK, DirectoryIsTrue, [Next]_vars
    PROVE  DirectoryIsTrue'
  <1>0. /\ \A n \in Nodes : LocationsTrue(registry[n])
        /\ \A msg \in InFlight : LocationsTrue(msg.actors)
    BY DEF DirectoryIsTrue, LocationsTrue
  <1>a. SUFFICES /\ \A n \in Nodes : LocationsTrue(registry[n])'
                 /\ \A msg \in InFlight' : LocationsTrue(msg.actors)'
    BY DEF DirectoryIsTrue, LocationsTrue
  <1>b. announced \subseteq announced'
    BY DEF Next, vars, AddMember, RegisterActor, Detect, Cleanup, GossipTo, NoGossip,
        Receive, ReceiveStray, Reply, MergeResponse, RecvError, Break, Crash, Restart, Tick
  <1> USE DEF LocationsTrue
  \* What becomes of a directory, and of a message.
  <1>1. ASSUME NEW n \in Nodes, NEW peer \in Nodes, NEW msg, LocationsTrue(msg.actors),
               MergeGossip(peer, msg, n), UNCHANGED announced
        PROVE  \A k \in Nodes : LocationsTrue(registry[k])'
    BY <1>0, <1>1 DEF MergeGossip, MergeActors, PutAll, TypeOK
  <1>2. ASSUME NEW n \in Nodes, NEW known, Boot(n, known), UNCHANGED announced
        PROVE  \A k \in Nodes : LocationsTrue(registry[k])'
    BY <1>0, <1>2 DEF Boot, TypeOK
  <1>3. ASSUME NEW n \in Nodes, NEW x \in Actors, RegisterActor(n, x)
        PROVE  \A k \in Nodes : LocationsTrue(registry[k])'
    BY <1>0, <1>3 DEF RegisterActor, Put, TypeOK
  <1>4. ASSUME NEW n \in Nodes, Cleanup(n)
        PROVE  \A k \in Nodes : LocationsTrue(registry[k])'
    BY <1>0, <1>4 DEF Cleanup, Without, TypeOK
  <1>5. \A k \in Nodes : LocationsTrue(registry[k])'
    <2>1. ASSUME NEW n \in Nodes, Receive(n)
          PROVE  \A k \in Nodes : LocationsTrue(registry[k])'
      <3>1. link[n].peer \in Nodes /\ link[n].msg \in InFlight
        BY <2>1, LinkShape DEF Receive, InTransit, InFlight
      <3> QED  BY <1>0, <1>1, <2>1, <3>1 DEF Receive
    <2>2. ASSUME NEW n \in Nodes, MergeResponse(n)
          PROVE  \A k \in Nodes : LocationsTrue(registry[k])'
      <3>1. link[n].peer \in Nodes /\ link[n].msg \in InFlight
        BY <2>2, LinkShape DEF MergeResponse, InTransit, InFlight
      <3> QED  BY <1>0, <1>1, <2>2, <3>1 DEF MergeResponse
    <2>3. ASSUME NEW n \in Nodes, Crash(n) \/ Restart(n)
          PROVE  \A k \in Nodes : LocationsTrue(registry[k])'
      BY <1>2, <2>3 DEF Crash, Restart
    <2>4. ASSUME NEW q \in strays, ReceiveStray(q)
          PROVE  \A k \in Nodes : LocationsTrue(registry[k])'
      BY <1>0, <1>1, <2>4, StrayShape DEF ReceiveStray
    <2>5. CASE UNCHANGED <<registry, announced>>  BY <1>0, <2>5
    <2> QED
      BY <1>3, <1>4, <2>1, <2>2, <2>3, <2>4, <2>5 DEF Next, vars, AddMember, Detect, GossipTo,
          NoGossip, Reply, RecvError, Break, Tick
  <1>6. ASSUME NEW msg \in InFlight' PROVE LocationsTrue(msg.actors)'
    <2>1. ASSUME NEW n \in Nodes, msg = GossipMessage(n) PROVE LocationsTrue(msg.actors)
      BY <1>0, <2>1 DEF GossipMessage
    <2>2. \A n \in Nodes : Reply(n) => link[n].peer \in Nodes  BY LinkShape DEF Reply
    <2>3. LocationsTrue(msg.actors)
      <3> HIDE DEF LocationsTrue
      <3> QED  BY <1>0, <2>1, <2>2, FlightStep
    <2> QED  BY <1>b, <2>3
  <1> QED  BY <1>5, <1>6
-----------------------------------------------------------------------------
\* Whom some detector has not heard for too long, and maps of members in which
\* nobody else is Down.
Condemned == {m \in Nodes : \E k \in Nodes : m \in lapsed[k]}

Earned(map, down) == \A m \in DOMAIN map : map[m] = down => m \in Condemned

\* Down is encoded as 2 and nothing else is; 2 is decoded as Down and, of what
\* is ever sent, nothing else is.
LEMMA DownCode ==
    /\ \A s \in Status : StatusCode(s) = 2 => s = "Down"
    /\ \A i \in 0 .. 2 : CodeStatus(i) = "Down" => i = 2
  <1>1. \A s \in Status : StatusCode(s) = 2 => s = "Down"  BY DEF Status, StatusCode
  <1>2. \A i \in 0 .. 2 : i = 0 \/ i = 1 \/ i = 2  OBVIOUS
  <1>3. \A i \in 0 .. 2 : CodeStatus(i) = "Down" => i = 2  BY <1>2 DEF CodeStatus
  <1> QED  BY <1>1, <1>3

\* DownIsEarned, one view and one message at a time.
LEMMA EarnedParts ==
    ASSUME TypeOK
    PROVE  DownIsEarned <=>
             /\ \A n \in Nodes : Earned(members[n], "Down")
             /\ \A msg \in InFlight : Earned(msg.members, 2)
  <1>1. \A n \in Nodes : DOMAIN members[n] \subseteq Nodes  BY MapsDef DEF TypeOK
  <1>2. \A msg \in InFlight : DOMAIN msg.members \subseteq Nodes
    BY FlightShape, MapsDef
  <1> QED  BY <1>1, <1>2 DEF DownIsEarned, HeldDown, Earned, Condemned

\* A message tells no more than the view it is made from.
LEMMA MessageEarned ==
    ASSUME TypeOK, NEW n \in Nodes, Earned(members[n], "Down")
    PROVE  Earned(GossipMessage(n).members, 2)
  <1>1. \A m \in DOMAIN members[n] : members[n][m] \in Status  BY MapsDef DEF TypeOK
  <1> QED  BY <1>1, DownCode DEF Earned, GossipMessage

LEMMA EarnedStep ==
    ASSUME GossipAssumption, TypeOK, TypeOK', SilenceHasLapsed, DownIsEarned, [Next]_vars
    PROVE  DownIsEarned'
  <1>0. /\ \A n \in Nodes : Earned(members[n], "Down")
        /\ \A msg \in InFlight : Earned(msg.members, 2)
    BY EarnedParts
  <1>a. SUFFICES /\ \A n \in Nodes : Earned(members[n], "Down")'
                 /\ \A msg \in InFlight' : Earned(msg.members, 2)'
    <2>1. (DownIsEarned <=>
             /\ \A n \in Nodes : Earned(members[n], "Down")
             /\ \A msg \in InFlight : Earned(msg.members, 2))'
      BY EarnedParts, PTL
    <2> QED  BY <2>1
  <1>b. Condemned \subseteq Condemned'  BY LapsedGrows DEF Condemned
  \* What becomes of a view.
  <1>1. ASSUME NEW n \in Nodes, NEW msg \in Messages, NEW sender, Earned(msg.members, 2),
               MergeGossip(n, msg, sender)
        PROVE  \A k \in Nodes : Earned(members[k], "Down")'
    <2>1. members[n] \in Maps(Nodes, Status) /\ msg.members \in Maps(Nodes, 0 .. 2)
      BY DEF TypeOK, Messages
    <2> DEFINE merged == MergeMembers(members[n], msg.members)
    <2>2. /\ DOMAIN merged = DOMAIN members[n] \cup DOMAIN msg.members
          /\ \A m \in DOMAIN merged : merged[m] =
                IF m \in DOMAIN msg.members THEN CodeStatus(msg.members[m])
                                            ELSE members[n][m]
      BY DEF MergeMembers, PutAll
    <2>3. \A m \in DOMAIN msg.members : msg.members[m] \in 0 .. 2
      <3> DEFINE T == 0 .. 2
      <3>1. msg.members \in Maps(Nodes, T)  BY <2>1
      <3> HIDE DEF T
      <3>2. \A m \in DOMAIN msg.members : msg.members[m] \in T  BY <3>1, MapsDef
      <3> QED  BY <3>2 DEF T
    <2>4. \A k \in Nodes : members'[k] = IF k = n THEN merged ELSE members[k]
      BY <1>1 DEF MergeGossip, TypeOK
    <2> HIDE DEF merged
    <2>5. \A m \in DOMAIN merged : merged[m] = "Down" => m \in Condemned
      BY <1>0, <1>1, <2>2, <2>3, DownCode DEF Earned
    <2> QED  BY <1>0, <1>b, <2>4, <2>5 DEF Earned
  <1>2. ASSUME NEW n \in Nodes, Detect(n)
        PROVE  \A k \in Nodes : Earned(members[k], "Down")'
    <2>1. \A m \in Judged(n) : Verdict(members[n][m], silence[n][m]) = "Down"
                => members[n][m] = "Down" \/ m \in lapsed[n]
      BY DEF Verdict, Judged, SilenceHasLapsed
    <2>2. \A m \in DOMAIN members[n] : m \in Nodes  BY MapsDef DEF TypeOK
    <2>3. \A m \in Judged(n) : Verdict(members[n][m], silence[n][m]) = "Down"
                => m \in Condemned
      BY <1>0, <2>1, <2>2 DEF Earned, Judged, Condemned
    <2>4. \A k \in Nodes : members'[k] =
                IF k = n
                THEN [m \in DOMAIN members[n] |-> IF m \in Judged(n)
                        THEN Verdict(members[n][m], silence[n][m]) ELSE members[n][m]]
                ELSE members[k]
      BY <1>2 DEF Detect, TypeOK
    <2> QED  BY <1>0, <1>b, <2>3, <2>4 DEF Earned
  <1>3. ASSUME NEW n \in Nodes, NEW known, Boot(n, known)
        PROVE  \A k \in Nodes : Earned(members[k], "Down")'
    BY <1>0, <1>3, <1>b DEF Boot, TypeOK, Earned
  <1>4. ASSUME NEW n \in Nodes, NEW m \in Nodes, AddMember(n, m)
        PROVE  \A k \in Nodes : Earned(members[k], "Down")'
    BY <1>0, <1>4, <1>b DEF AddMember, Put, TypeOK, Earned
  <1>5. \A k \in Nodes : Earned(members[k], "Down")'
    <2>1. ASSUME NEW n \in Nodes, Receive(n) \/ MergeResponse(n)
          PROVE  \A k \in Nodes : Earned(members[k], "Down")'
      <3>1. InTransit(n)  BY <2>1 DEF Receive, MergeResponse, InTransit
      <3>2. link[n].peer \in Nodes /\ link[n].msg \in Messages  BY <3>1, LinkShape
      <3>3. Earned(link[n].msg.members, 2)  BY <1>0, <3>1 DEF InFlight
      <3> QED  BY <1>1, <2>1, <3>2, <3>3 DEF Receive, MergeResponse
    <2>2. ASSUME NEW n \in Nodes, Crash(n) \/ Restart(n)
          PROVE  \A k \in Nodes : Earned(members[k], "Down")'
      BY <1>3, <2>2 DEF Crash, Restart
    <2>3. ASSUME NEW q \in strays, ReceiveStray(q)
          PROVE  \A k \in Nodes : Earned(members[k], "Down")'
      <3>1. q.peer \in Nodes /\ q.msg \in Messages /\ Earned(q.msg.members, 2)
        BY <1>0, StrayShape
      <3> QED  BY <1>1, <2>3, <3>1 DEF ReceiveStray
    <2>4. CASE UNCHANGED members  BY <1>0, <1>b, <2>4 DEF Earned
    <2> QED
      BY <1>2, <1>4, <2>1, <2>2, <2>3, <2>4 DEF Next, vars, RegisterActor, Cleanup, GossipTo,
          NoGossip, Reply, RecvError, Break, Tick
  \* What becomes of a message.
  <1>6. ASSUME NEW msg \in InFlight' PROVE Earned(msg.members, 2)'
    <2>1. \A n \in Nodes : Earned(GossipMessage(n).members, 2)  BY <1>0, MessageEarned
    <2>2. \A n \in Nodes : Reply(n) => link[n].peer \in Nodes  BY LinkShape DEF Reply
    <2>3. Earned(msg.members, 2)  BY <1>0, <2>1, <2>2, FlightStep
    <2> QED  BY <1>b, <2>3 DEF Earned
  <1> QED  BY <1>5, <1>6
-----------------------------------------------------------------------------
\* The inductive invariant: types, and where Down and locations come from.
GossipInv ==
    TypeOK /\ SilenceHasLapsed /\ CleanupHasLapsed /\ DownIsEarned /\ DirectoryIsTrue

LEMMA InitInv == ASSUME GossipAssumption, Init PROVE GossipInv
  <1>1. TypeOK  BY InitType
  <1>2. InFlight = {}  BY DEF Init, InFlight, InTransit, NoLink
  <1>3. SilenceHasLapsed  BY DEF Init, SilenceHasLapsed, GossipAssumption
  <1>4. CleanupHasLapsed  BY DEF Init, CleanupHasLapsed
  <1>5. DownIsEarned  BY <1>2 DEF Init, DownIsEarned, HeldDown
  <1>6. DirectoryIsTrue  BY <1>2 DEF Init, DirectoryIsTrue
  <1> QED  BY <1>1, <1>3, <1>4, <1>5, <1>6 DEF GossipInv

LEMMA StepInv == ASSUME GossipAssumption, GossipInv, [Next]_vars PROVE GossipInv'
  BY StepType, LapseStep, EarnedStep, DirectoryStep DEF GossipInv

LEMMA GossipInvariant == Spec => []GossipInv
  <1>1. Init => GossipInv  BY InitInv, GossipAssumption
  <1>2. GossipInv /\ [Next]_vars => GossipInv'  BY StepInv, GossipAssumption
  <1> QED  BY <1>1, <1>2, PTL DEF Spec

\* Nobody is held to be Down, in a view or in a message, unless some detector
\* has not heard it for twice suspect_timeout: detect_failures is the only
\* source of Down, and merge_gossip only passes it on.
THEOREM DownTheorem == Spec => []DownIsEarned
  <1>1. GossipInv => DownIsEarned  BY DEF GossipInv
  <1> QED  BY <1>1, GossipInvariant, PTL

\* Whatever is merged, lost, delayed or forgotten, a directory and a message
\* locate an actor only where register_actor was called for it.
THEOREM DirectoryTheorem == Spec => []DirectoryIsTrue
  <1>1. GossipInv => DirectoryIsTrue  BY DEF GossipInv
  <1> QED  BY <1>1, GossipInvariant, PTL

\* A running node forgets an actor only in the cleanup of a round that found the
\* actor's node Down, after a silence of its own of twice suspect_timeout.
THEOREM LocationsTheorem == Spec => LocationsAreKept
  <1> DEFINE Kept == \A n \in alive \cap alive' : \A x \in DOMAIN registry[n] :
                        x \notin DOMAIN registry'[n] => registry[n][x] \in lapsed[n]
  <1>1. ASSUME TypeOK, CleanupHasLapsed, [Next]_vars PROVE [Kept]_vars
    <2>1. ASSUME NEW n \in Nodes, NEW msg, NEW sender, MergeGossip(n, msg, sender)
          PROVE  \A k \in Nodes : DOMAIN registry[k] \subseteq DOMAIN registry'[k]
      BY <1>1, <2>1 DEF MergeGossip, MergeActors, PutAll, TypeOK
    <2>2. ASSUME NEW n \in Nodes, Receive(n) \/ MergeResponse(n) PROVE Kept
      <3>1. link[n].peer \in Nodes
        BY <1>1, <2>2, LinkShape DEF Receive, MergeResponse, InTransit
      <3> QED  BY <1>1, <2>1, <2>2, <3>1 DEF Receive, MergeResponse, TypeOK
    <2>3. ASSUME NEW n \in Nodes, NEW x \in Actors, RegisterActor(n, x) PROVE Kept
      BY <1>1, <2>3 DEF RegisterActor, Put, TypeOK
    <2>4. ASSUME NEW n \in Nodes, Cleanup(n) PROVE Kept
      BY <1>1, <2>4 DEF Cleanup, Without, CleanupHasLapsed, TypeOK
    <2>5. ASSUME NEW n \in Nodes, Crash(n) \/ Restart(n) PROVE Kept
      BY <1>1, <2>5 DEF Crash, Restart, Boot, TypeOK
    <2>6. ASSUME NEW q \in strays, ReceiveStray(q) PROVE Kept
      BY <1>1, <2>1, <2>6, StrayShape DEF ReceiveStray, TypeOK
    <2>7. CASE UNCHANGED registry  BY <2>7
    <2> QED
      BY <1>1, <2>2, <2>3, <2>4, <2>5, <2>6, <2>7 DEF Next, vars, AddMember, Detect, GossipTo,
          NoGossip, Reply, RecvError, Break, Tick
  <1>2. GossipInv => TypeOK /\ CleanupHasLapsed  BY DEF GossipInv
  <1> QED  BY <1>1, <1>2, GossipInvariant, PTL DEF Spec, LocationsAreKept
-----------------------------------------------------------------------------
\* Whoever has a request to handle or an answer to give is running, a crash
\* resets the connections it had accepted, and nobody gossips to itself.
PeerRuns ==
    /\ \A n \in Nodes : link[n].stage \in {"request", "served"} =>
            link[n].peer \in alive \ {n}
    /\ \A q \in strays : q.peer \in alive

LEMMA PeerRunsInvariant == Spec => []PeerRuns
  <1>1. Init => PeerRuns  BY DEF Init, PeerRuns, NoLink
  <1>2. ASSUME TypeOK, PeerRuns, [Next]_vars PROVE PeerRuns'
    <2> USE <1>2 DEF PeerRuns
    <2>1. ASSUME NEW n \in Nodes, NEW m \in Nodes, GossipTo(n, m) PROVE PeerRuns'
      BY <2>1 DEF GossipTo, Peers, TypeOK
    <2>2. ASSUME NEW n \in Nodes, Receive(n) PROVE PeerRuns'
      BY <2>2 DEF Receive, TypeOK
    <2>3. ASSUME NEW n \in Nodes, Reply(n) PROVE PeerRuns'
      BY <2>3 DEF Reply, TypeOK
    <2>4. ASSUME NEW n \in Nodes, MergeResponse(n) \/ RecvError(n) \/ Break(n)
          PROVE  PeerRuns'
      BY <2>4 DEF MergeResponse, RecvError, Break, NoLink, Reset, TypeOK
    <2>5. ASSUME NEW n \in Nodes, Crash(n) PROVE PeerRuns'
      BY <2>5 DEF Crash, Request, NoLink, Reset, TypeOK
    <2>6. ASSUME NEW n \in Nodes, Restart(n) PROVE PeerRuns'
      BY <2>6 DEF Restart, NoLink, TypeOK
    <2>7. ASSUME NEW q \in strays, ReceiveStray(q) PROVE PeerRuns'
      BY <2>7 DEF ReceiveStray
    <2>8. CASE UNCHANGED <<link, alive, strays>>  BY <2>8
    <2> QED
      BY <2>1, <2>2, <2>3, <2>4, <2>5, <2>6, <2>7, <2>8 DEF Next, vars, AddMember,
          RegisterActor, Detect, Cleanup, NoGossip, Tick
  <1> QED  BY <1>1, <1>2, GossipTypeCorrect, PTL DEF Spec

\* Once all that is said of a node is that it is Down, it stays so whatever the
\* nodes do by themselves: a verdict is never revised by detect_failures, and
\* merge_gossip has nothing else left to take.  Hearing from it does not help.
THEOREM DownForGoodTheorem == Spec => DownIsForGood
  <1> DEFINE Stays == inputs' = inputs =>
                        \A m \in Nodes : AgreedDown(m) => AgreedDown(m)'
  <1>1. ASSUME TypeOK, PeerRuns, [Next]_vars PROVE [Stays]_vars
    <2> SUFFICES ASSUME inputs' = inputs, NEW m \in Nodes, AgreedDown(m)
                 PROVE  AgreedDown(m)'
      OBVIOUS
    <2> DEFINE SaysDown(map, down) == m \in DOMAIN map => map[m] = down
    <2>0. /\ \A n \in alive : SaysDown(members[n], "Down")
          /\ \A msg \in InFlight : SaysDown(msg.members, 2)
      BY DEF AgreedDown
    <2>a. alive' = alive /\ alive \subseteq Nodes
      <3>1. inputs \in Nat  BY <1>1, GossipAssumption DEF TypeOK, GossipAssumption
      <3>2. \A n \in Nodes : ~Crash(n) /\ ~Restart(n)  BY <3>1 DEF Crash, Restart, Input
      <3> QED
        BY <1>1, <3>2 DEF TypeOK, Next, vars, AddMember, RegisterActor, Detect, Cleanup,
            GossipTo, NoGossip, Receive, ReceiveStray, Reply, MergeResponse, RecvError,
            Break, Tick
    <2>b. SUFFICES /\ \A n \in alive : SaysDown(members'[n], "Down")
                   /\ \A msg \in InFlight' : SaysDown(msg.members, 2)
      BY <2>a DEF AgreedDown
    <2>c. CodeStatus(2) = "Down" /\ StatusCode("Down") = 2
      BY DEF CodeStatus, StatusCode
    <2>1. \A n \in alive : SaysDown(members'[n], "Down")
      <3>1. ASSUME NEW n \in Nodes, NEW msg, NEW sender, SaysDown(msg.members, 2),
                   MergeGossip(n, msg, sender)
            PROVE  \A k \in alive : SaysDown(members'[k], "Down")
        BY <1>1, <2>0, <2>a, <2>c, <3>1 DEF MergeGossip, MergeMembers, PutAll, TypeOK
      <3>2. ASSUME NEW n \in Nodes, Receive(n) \/ MergeResponse(n)
            PROVE  \A k \in alive : SaysDown(members'[k], "Down")
        <4>1. InTransit(n)  BY <3>2 DEF Receive, MergeResponse, InTransit
        <4>2. link[n].peer \in Nodes  BY <1>1, <4>1, LinkShape
        <4>3. SaysDown(link[n].msg.members, 2)  BY <2>0, <4>1 DEF InFlight
        <4> HIDE DEF SaysDown
        <4> QED  BY <3>1, <3>2, <4>2, <4>3 DEF Receive, MergeResponse
      <3>3. ASSUME NEW n \in Nodes, Detect(n)
            PROVE  \A k \in alive : SaysDown(members'[k], "Down")
        <4>1. \A t : Verdict("Down", t) = "Down"  BY DEF Verdict
        <4>2. \A k \in Nodes : members'[k] =
                IF k = n
                THEN [j \in DOMAIN members[n] |-> IF j \in Judged(n)
                        THEN Verdict(members[n][j], silence[n][j]) ELSE members[n][j]]
                ELSE members[k]
          BY <1>1, <3>3 DEF Detect, TypeOK
        <4>3. SaysDown(members[n], "Down")  BY <2>0, <3>3 DEF Detect
        <4>4. m \in DOMAIN members'[n] =>
                /\ m \in DOMAIN members[n]
                /\ members'[n][m] \in {members[n][m], Verdict(members[n][m], silence[n][m])}
          BY <4>2
        <4>5. SaysDown(members'[n], "Down")  BY <4>1, <4>3, <4>4
        <4>6. \A k \in alive \ {n} : members'[k] = members[k]  BY <2>a, <4>2
        <4> QED  BY <2>0, <4>5, <4>6
      <3>4. \A n, k \in Nodes : ~AddMember(n, k) /\ ~Crash(n) /\ ~Restart(n)
        <4>1. inputs \in Nat  BY <1>1, GossipAssumption DEF TypeOK, GossipAssumption
        <4> QED  BY <4>1 DEF AddMember, Crash, Restart, Input
      <3>5. ASSUME NEW q \in strays, ReceiveStray(q)
            PROVE  \A k \in alive : SaysDown(members'[k], "Down")
        <4>1. q.peer \in Nodes /\ q.msg \in InFlight  BY <1>1, StrayShape
        <4>2. SaysDown(q.msg.members, 2)  BY <2>0, <4>1
        <4> HIDE DEF SaysDown
        <4> QED  BY <3>1, <3>5, <4>1, <4>2 DEF ReceiveStray
      <3>6. CASE UNCHANGED members  BY <2>0, <3>6
      <3> HIDE DEF SaysDown
      <3> QED
        BY <1>1, <3>2, <3>3, <3>4, <3>5, <3>6 DEF Next, vars, RegisterActor, Cleanup, GossipTo,
            NoGossip, Reply, RecvError, Break, Tick
    <2>2. ASSUME NEW msg \in InFlight' PROVE SaysDown(msg.members, 2)
      <3>1. ASSUME NEW n \in alive, msg = GossipMessage(n)
            PROVE  SaysDown(msg.members, 2)
        BY <1>1, <2>0, <2>c, <3>1 DEF GossipMessage, TypeOK
      <3>2. \A n, k \in Nodes : GossipTo(n, k) => n \in alive  BY DEF GossipTo
      <3>3. \A n \in Nodes : Reply(n) => link[n].peer \in alive
        BY <1>1 DEF Reply, PeerRuns
      <3> HIDE DEF SaysDown
      <3> QED  BY <1>1, <2>0, <3>1, <3>2, <3>3, FlightStep
    <2> HIDE DEF SaysDown
    <2> QED  BY <2>1, <2>2
  <1> QED  BY <1>1, GossipTypeCorrect, PeerRunsInvariant, PTL DEF Spec, DownIsForGood
-----------------------------------------------------------------------------
\* m does not run, and nothing that it said is still on its way.
Speechless(m) ==
    /\ m \notin alive
    /\ link[m].stage # "request"
    /\ \A n \in Nodes : link[n].stage = "response" => link[n].peer # m
    /\ \A q \in strays : q.from # m

\* What FailureIsDetected rests on: a node that has stopped and whose last words
\* have arrived is not heard again until it starts again, whatever the others
\* say about it.  Unless add_member is called, every detector keeps the
\* heartbeat that it has of it and only sees it grow older (merge_gossip
\* refreshes the entry of the sender alone).
DeadStaySilent ==
    \A m \in Nodes : Speechless(m) /\ m \notin alive' =>
        /\ Speechless(m)'
        /\ inputs' = inputs => \A n \in Gossipers \ {m} : m \in DOMAIN silence[n] =>
                /\ m \in DOMAIN silence'[n]
                /\ silence'[n][m] \geq silence[n][m]

\* A message is only put on a link by a node that runs.
LEMMA SpeechlessStep ==
    ASSUME TypeOK, PeerRuns, [Next]_vars, NEW m \in Nodes, Speechless(m), m \notin alive'
    PROVE  Speechless(m)'
  <1>1. link'[m].stage # "request"
    <2>1. \A k \in Nodes : ~GossipTo(m, k)  BY DEF GossipTo, Speechless
    <2>2. Reply(m) => link'[m].stage = "response"  BY DEF Reply, TypeOK
    <2> QED  BY <2>1, <2>2, LinkStep DEF Speechless
  <1>2. ASSUME NEW n \in Nodes, link'[n].stage = "response" PROVE link'[n].peer # m
    <2>1. \A k \in Nodes : ~GossipTo(n, k)  BY <1>2 DEF GossipTo, TypeOK
    <2>2. Reply(n) => link'[n].peer = link[n].peer /\ link[n].peer \in alive
      BY DEF Reply, PeerRuns, TypeOK
    <2> QED  BY <1>2, <2>1, <2>2, LinkStep DEF Speechless
  <1>3. ASSUME NEW q \in strays' PROVE q.from # m
    <2>1. link[m].stage # "request" /\ \A s \in strays : s.from # m  BY DEF Speechless
    <2> QED  BY <2>1, StraysStep
  <1> QED  BY <1>1, <1>2, <1>3 DEF Speechless

\* Only a tick of the clock touches what is known of when it was last heard.
LEMMA HeartbeatStep ==
    ASSUME GossipAssumption, TypeOK, [Next]_vars, NEW m \in Nodes, Speechless(m),
           inputs' = inputs, NEW n \in Gossipers \ {m}, m \in DOMAIN silence[n]
    PROVE  m \in DOMAIN silence'[n] /\ silence'[n][m] \geq silence[n][m]
  <1> DEFINE Kept == m \in DOMAIN silence'[n] /\ silence'[n][m] \geq silence[n][m]
  <1>a. n \in Nodes /\ silence[n][m] \in Nat
    <2>1. n \in Nodes  BY DEF GossipAssumption
    <2>2. silence[n] \in Maps(Nodes, 0 .. MaxSilence)  BY <2>1 DEF TypeOK
    <2>3. silence[n] \in [DOMAIN silence[n] -> 0 .. MaxSilence]  BY <2>2, MapsDef
    <2> QED  BY <2>1, <2>3 DEF MaxSilence, GossipAssumption
  <1>b. inputs \in Nat  BY DEF TypeOK, GossipAssumption
  <1>1. \A k, j \in Nodes : ~AddMember(k, j) /\ ~Crash(k) /\ ~Restart(k)
    BY <1>b DEF AddMember, Crash, Restart, Input
  <1>2. ASSUME NEW k \in Nodes, NEW msg, NEW sender, sender # m,
               MergeGossip(k, msg, sender)
        PROVE  Kept
    BY <1>a, <1>2 DEF MergeGossip, Put, TypeOK
  <1>3. ASSUME NEW k \in Nodes, Receive(k) PROVE Kept
    <2>1. k # m  BY <1>3 DEF Receive, Speechless
    <2>2. link[k].peer \in Nodes  BY <1>3, LinkShape DEF Receive, InTransit
    <2> QED  BY <1>2, <1>3, <2>1, <2>2 DEF Receive
  <1>4. ASSUME NEW k \in Nodes, MergeResponse(k) PROVE Kept
    <2>1. link[k].peer # m  BY <1>4 DEF MergeResponse, Speechless
    <2> QED  BY <1>2, <1>4, <2>1 DEF MergeResponse
  <1>5. ASSUME Tick PROVE Kept
    <2>1. silence'[n] = [j \in DOMAIN silence[n] |->
                IF j = n \/ n \notin Gossipers THEN 0 ELSE Older(silence[n][j])]
      BY <1>5, <1>a DEF Tick
    <2>2. m \in DOMAIN silence'[n] /\ silence'[n][m] = Older(silence[n][m])  BY <2>1
    <2> QED  BY <1>a, <2>2 DEF Older
  <1>6. ASSUME NEW q \in strays, ReceiveStray(q) PROVE Kept
    BY <1>2, <1>6, StrayShape DEF ReceiveStray, Speechless
  <1>7. ASSUME UNCHANGED silence PROVE Kept  BY <1>a, <1>7
  <1> HIDE DEF Kept
  <1>8. Kept
    BY <1>1, <1>3, <1>4, <1>5, <1>6, <1>7 DEF Next, vars, RegisterActor, Detect, Cleanup,
        GossipTo, NoGossip, Reply, RecvError, Break
  <1> QED  BY <1>8 DEF Kept

\* The dead are not heard: gossip about a node that has stopped never makes it
\* look alive to a failure detector, which is why its silence must lapse.
THEOREM SilenceTheorem == Spec => [][DeadStaySilent]_vars
  <1>1. ASSUME TypeOK, PeerRuns, [Next]_vars PROVE DeadStaySilent
    BY <1>1, GossipAssumption, SpeechlessStep, HeartbeatStep DEF DeadStaySilent
  <1> QED  BY <1>1, GossipTypeCorrect, PeerRunsInvariant, PTL DEF Spec
=============================================================================
