-------------------------- MODULE RemoteRpcProofs --------------------------
(***************************************************************************)
(* Proofs about remote calls, for any number of requests and any capacity  *)
(* of the command channel and of the wires.                                *)
(***************************************************************************)
EXTENDS RemoteRpc, TLAPS

-----------------------------------------------------------------------------
(* The elements of the queues.                                             *)

\* Append adds its argument to the elements of a queue.
LEMMA AppendElems ==
    ASSUME NEW S, NEW s \in Seq(S), NEW x \in S
    PROVE  /\ Append(s, x) \in Seq(S) /\ Len(Append(s, x)) = Len(s) + 1
           /\ Elems(Append(s, x)) = Elems(s) \cup {x}
<1>1. \A i \in 1..Len(s) : Append(s, x)[i] = s[i] /\ i \in 1..Len(Append(s, x))
  OBVIOUS
<1>2. Append(s, x)[Len(s) + 1] = x /\ Len(s) + 1 \in 1..Len(Append(s, x))
  OBVIOUS
<1>3. \A i \in 1..Len(Append(s, x)) : i \in 1..Len(s) \/ i = Len(s) + 1
  OBVIOUS
<1> QED BY <1>1, <1>2, <1>3 DEF Elems

\* Taking the head of a queue leaves its other elements.
LEMMA TailElems ==
    ASSUME NEW S, NEW s \in Seq(S), s # <<>>
    PROVE  /\ Head(s) \in S /\ Tail(s) \in Seq(S) /\ Len(Tail(s)) = Len(s) - 1
           /\ Elems(s) = {Head(s)} \cup Elems(Tail(s))
<1>1. /\ Head(s) \in S /\ Tail(s) \in Seq(S) /\ Len(Tail(s)) = Len(s) - 1
      /\ Len(s) \in Nat \ {0} /\ Head(s) = s[1]
  OBVIOUS
<1>2. \A i \in 1..Len(Tail(s)) : Tail(s)[i] = s[i + 1] /\ i + 1 \in 1..Len(s)
  OBVIOUS
<1>3. \A i \in 1..Len(s) : i = 1 \/ (i - 1 \in 1..Len(Tail(s)) /\ s[i] = Tail(s)[i - 1])
  BY <1>1, <1>2
<1>4. Elems(s) \subseteq {Head(s)} \cup Elems(Tail(s))
  <2> SUFFICES ASSUME NEW i \in 1..Len(s) PROVE s[i] \in {Head(s)} \cup Elems(Tail(s))
    BY DEF Elems
  <2>1. CASE i = 1 BY <1>1, <2>1
  <2>2. CASE i # 1
    <3>1. i - 1 \in 1..Len(Tail(s)) /\ s[i] = Tail(s)[i - 1] BY <1>3, <2>2
    <3> QED BY <3>1, Zenon DEF Elems
  <2> QED BY <2>1, <2>2
<1>5. {Head(s)} \cup Elems(Tail(s)) \subseteq Elems(s) BY <1>1, <1>2 DEF Elems
<1> QED BY <1>1, <1>4, <1>5

\* A prefix of a wire has no new elements.
LEMMA PrefixElems ==
    ASSUME NEW S, NEW s \in Seq(S), NEW n \in 0..Len(s)
    PROVE  /\ SubSeq(s, 1, n) \in Seq(S) /\ Len(SubSeq(s, 1, n)) = n
           /\ Elems(SubSeq(s, 1, n)) \subseteq Elems(s)
<1>1. /\ SubSeq(s, 1, n) \in Seq(S) /\ Len(SubSeq(s, 1, n)) = n
      /\ \A i \in 1..n : SubSeq(s, 1, n)[i] = s[i] /\ i \in 1..Len(s)
  OBVIOUS
<1> QED BY <1>1 DEF Elems

\* Elements are drawn from the queue's set, and a new queue has none.
LEMMA ElemsType ==
    ASSUME NEW S, NEW s \in Seq(S)
    PROVE  Elems(s) \subseteq S /\ Elems(<<>>) = {}
BY DEF Elems

-----------------------------------------------------------------------------
(* Type correctness.                                                       *)

\* A step of one of the callers keeps the shape of the state.
LEMMA CallType ==
    ASSUME TypeOK, NEW r \in Requests, CallStep(r)
    PROVE  TypeOK'
<1> USE RpcAssumption
<1>1. CASE Call(r)
  <2>1. corr' \in [Requests -> Nat] /\ nextId' \in Nat
    <3>1. CASE UniqueIds
      <4>1. NextCorrelationId(r) BY <1>1, <3>1, Zenon DEF Call
      <4> QED BY <4>1 DEF NextCorrelationId, TypeOK
    <3>2. CASE ~UniqueIds
      <4>1. UNCHANGED <<corr, nextId>>
        BY <1>1, <3>2, Zenon DEF Call, ClusterCorrelationId
      <4> QED BY <4>1 DEF TypeOK
    <3> QED BY <3>1, <3>2
  <2> QED BY <1>1, <2>1 DEF TypeOK, Call, clientv, serverv, wires, Results
<1>2. CASE Enqueue(r)
  <2>1. CASE client # "ended" /\ Len(cmds) < CmdCapacity /\ cmds' = Append(cmds, r)
    <3>1. cmds' \in Seq(Requests) /\ Len(cmds') \leq CmdCapacity
      BY <2>1, AppendElems DEF TypeOK
    <3>2. call' \in [Requests -> {"idle", "calling", "waiting"} \cup Results]
      BY <1>2, <2>1 DEF TypeOK, Enqueue, Return, Results
    <3> QED BY <1>2, <3>1, <3>2 DEF TypeOK, Enqueue, serverv, wires
  <2>2. CASE UNCHANGED cmds
    BY <1>2, <2>2 DEF TypeOK, Enqueue, Return, serverv, wires, Results
  <2> QED BY <1>2, <2>1, <2>2 DEF Enqueue
<1>3. CASE Timeout(r)
  BY <1>3 DEF TypeOK, Timeout, Return, clientv, serverv, wires, Results
<1> QED BY <1>1, <1>2, <1>3 DEF CallStep

\* A step of the client task keeps the shape of the state.
LEMMA ClientType ==
    ASSUME TypeOK, ClientStep
    PROVE  TypeOK'
<1> USE RpcAssumption
<1>1. CASE TakeCommand
  <2>1. /\ Head(cmds) \in Requests /\ Tail(cmds) \in Seq(Requests)
        /\ Len(Tail(cmds)) \leq CmdCapacity
    BY <1>1, TailElems DEF TypeOK, TakeCommand
  <2> QED BY <1>1, <2>1
          DEF TypeOK, TakeCommand, SameId, Return, serverv, wires, Results
<1>2. CASE ClientSend
  <2>1. CASE UNCHANGED toServer
    BY <1>2, <2>1 DEF TypeOK, ClientSend, callers, serverv
  <2>2. CASE Len(toServer) < WireCapacity /\ toServer' = Append(toServer, outgoing)
    BY <1>2, <2>2, AppendElems DEF TypeOK, ClientSend, callers, serverv
  <2> QED BY <1>2, <2>1, <2>2 DEF ClientSend
<1>3. CASE ClientSendFails
  BY <1>3 DEF TypeOK, ClientSendFails, SameId, Return, serverv, wires, Results
<1>4. CASE ClientRecv
  <2>1. /\ Head(toClient) \in Requests /\ Tail(toClient) \in Seq(Requests)
        /\ Len(Tail(toClient)) \leq WireCapacity
    BY <1>4, TailElems DEF TypeOK, ClientRecv
  <2> QED BY <1>4, <2>1 DEF TypeOK, ClientRecv, SameId, Return, serverv, Results
<1>5. CASE ClientDisconnect
  BY <1>5 DEF TypeOK, ClientDisconnect, Return, serverv, wires, Results
<1> QED BY <1>1, <1>2, <1>3, <1>4, <1>5 DEF ClientStep

\* A step of the server task keeps the shape of the state.
LEMMA ServerType ==
    ASSUME TypeOK, ServerStep
    PROVE  TypeOK'
<1> USE RpcAssumption
<1>1. CASE ServerRecv
  <2>1. /\ Head(toServer) \in Requests /\ Tail(toServer) \in Seq(Requests)
        /\ Len(Tail(toServer)) \leq WireCapacity
    BY <1>1, TailElems DEF TypeOK, ServerRecv
  <2> QED BY <1>1, <2>1 DEF TypeOK, ServerRecv, callers, clientv
<1>2. CASE HandlerAnswers
  BY <1>2, AppendElems DEF TypeOK, HandlerAnswers, callers, clientv, wires
<1>3. CASE HandlerSilent
  <2>1. executed' \in Seq(Requests)
    <3>1. serving \in Requests BY <1>3 DEF TypeOK, HandlerSilent
    <3>2. Append(executed, serving) \in Seq(Requests)
      BY <3>1, AppendElems DEF TypeOK
    <3> QED BY <1>3, <3>2 DEF TypeOK, HandlerSilent
  <2> QED BY <1>3, <2>1 DEF TypeOK, HandlerSilent, callers, clientv, wires
<1>4. CASE Respond
  <2>1. CASE UNCHANGED toClient
    BY <1>4, <2>1 DEF TypeOK, Respond, RespondFails, callers, clientv
  <2>2. CASE /\ Len(toClient) < WireCapacity /\ server' = "recv"
             /\ toClient' = Append(toClient, serving)
    BY <1>4, <2>2, AppendElems DEF TypeOK, Respond, callers, clientv
  <2> QED BY <1>4, <2>1, <2>2 DEF Respond
<1>5. CASE ServerDisconnect
  BY <1>5 DEF TypeOK, ServerDisconnect, callers, clientv, wires
<1> QED BY <1>1, <1>2, <1>3, <1>4, <1>5 DEF ServerStep

\* Every step keeps the shape of the state.
LEMMA TypeStep == TypeOK /\ [Next]_vars => TypeOK'
<1> SUFFICES ASSUME TypeOK, [Next]_vars PROVE TypeOK'
  OBVIOUS
<1>1. CASE UNCHANGED vars
  BY <1>1 DEF TypeOK, vars, callers, clientv, serverv, wires
<1>2. CASE LinkDown
  <2>1. /\ toServer' \in Seq(Requests) /\ Len(toServer') \leq WireCapacity
        /\ toClient' \in Seq(Requests) /\ Len(toClient') \leq WireCapacity
    BY <1>2, PrefixElems, RpcAssumption DEF TypeOK, LinkDown
  <2> QED BY <1>2, <2>1 DEF TypeOK, LinkDown, callers, clientv, serverv
<1> QED BY <1>1, <1>2, CallType, ClientType, ServerType DEF Next

\* The state keeps its shape: the command channel and the wires stay within
\* their capacity, and a task that sends or handles knows for whom.
THEOREM RpcTypeCorrect == Spec => []TypeOK
<1>1. Init => TypeOK
  BY RpcAssumption DEF Init, TypeOK
<1> QED BY <1>1, TypeStep, PTL DEF Spec

-----------------------------------------------------------------------------
(* A caller gets the result of its own request.  Ids are drawn when a call *)
(* is made, long before the response is matched, so the invariant follows  *)
(* every request that has been called through queues, tasks and wires.     *)

Called == {r \in Requests : call[r] # "idle"}

\* What is under way has been called.
InFlight == Elems(cmds) \cup Elems(toServer) \cup Elems(toClient) \cup pending
            \cup ({outgoing, serving} \ {NoRequest})

\* No two calls share an id, and no id is handed out twice.
IdsAreFresh ==
    /\ \A r \in Called : corr[r] < nextId
    /\ \A r, s \in Called : corr[r] = corr[s] => r = s

RpcInv == /\ UniqueIds => IdsAreFresh /\ AnswersMatch
          /\ InFlight \subseteq Called

\* No step makes a call that was made undone.
LEMMA CalledStable ==
    ASSUME TypeOK, [Next]_vars
    PROVE  Called \subseteq Called'
<1> SUFFICES ASSUME NEW r \in Called PROVE call'[r] # "idle"
  BY DEF Called
<1> USE DEF Called, Return, TypeOK
<1>1. CASE UNCHANGED call BY <1>1
<1>2. ASSUME NEW s \in Requests, CallStep(s) PROVE call'[r] # "idle"
  BY <1>2 DEF CallStep, Call, Enqueue, Timeout
<1>3. CASE ClientStep
  <2>1. CASE TakeCommand BY <2>1, <1>1 DEF TakeCommand
  <2>2. CASE ClientSend BY <2>2, <1>1 DEF ClientSend, callers
  <2>3. CASE ClientSendFails BY <2>3 DEF ClientSendFails
  <2>4. CASE ClientRecv BY <2>4 DEF ClientRecv
  <2>5. CASE ClientDisconnect BY <2>5 DEF ClientDisconnect
  <2> QED BY <1>3, <2>1, <2>2, <2>3, <2>4, <2>5 DEF ClientStep
<1>4. CASE ServerStep \/ LinkDown \/ UNCHANGED vars
  BY <1>4, <1>1 DEF ServerStep, ServerRecv, HandlerAnswers, HandlerSilent, Respond,
                    ServerDisconnect, LinkDown, vars, callers
<1> QED BY <1>2, <1>3, <1>4 DEF Next

\* Whatever is under way after a step was called by then.
LEMMA InFlightStep ==
    ASSUME TypeOK, InFlight \subseteq Called, [Next]_vars
    PROVE  (InFlight \subseteq Called)'
<1>0. Called \subseteq Called' BY CalledStable
<1> SUFFICES InFlight' \subseteq Called' OBVIOUS
<1>1. ASSUME NEW r \in Requests, CallStep(r) PROVE InFlight' \subseteq Called'
  <2>1. CASE Call(r) \/ Timeout(r)
    BY <1>0, <2>1 DEF Call, Timeout, InFlight, clientv, serverv, wires
  <2>2. CASE Enqueue(r)
    <3>1. r \in Called BY <2>2 DEF Enqueue, Called
    <3>2. Elems(cmds') \subseteq Elems(cmds) \cup {r}
      <4>1. Elems(Append(cmds, r)) = Elems(cmds) \cup {r} BY AppendElems DEF TypeOK
      <4>2. cmds' = Append(cmds, r) \/ cmds' = cmds BY <2>2 DEF Enqueue
      <4> QED BY <4>1, <4>2
    <3> QED BY <1>0, <2>2, <3>1, <3>2 DEF Enqueue, InFlight, serverv, wires
  <2> QED BY <1>1, <2>1, <2>2 DEF CallStep
<1>2. CASE ClientStep
  <2>1. CASE TakeCommand
    <3>1. Elems(cmds) = {Head(cmds)} \cup Elems(cmds')
      BY <2>1, TailElems DEF TakeCommand, TypeOK
    <3> QED BY <1>0, <2>1, <3>1 DEF TakeCommand, InFlight, serverv, wires
  <2>2. CASE ClientSend
    <3>1. outgoing \in Requests BY <2>2 DEF ClientSend, TypeOK
    <3>2. Elems(toServer') \subseteq Elems(toServer) \cup {outgoing}
      <4>1. Elems(Append(toServer, outgoing)) = Elems(toServer) \cup {outgoing}
        BY <3>1, AppendElems DEF TypeOK
      <4>2. toServer' = Append(toServer, outgoing) \/ toServer' = toServer
        BY <2>2 DEF ClientSend
      <4> QED BY <4>1, <4>2
    <3>3. outgoing \in Called BY <3>1, RpcAssumption DEF InFlight
    <3> QED BY <1>0, <2>2, <3>2, <3>3 DEF ClientSend, InFlight, callers, serverv
  <2>3. CASE ClientSendFails
    BY <1>0, <2>3 DEF ClientSendFails, InFlight, serverv, wires
  <2>4. CASE ClientRecv
    <3>1. Elems(toClient) = {Head(toClient)} \cup Elems(toClient')
      BY <2>4, TailElems DEF ClientRecv, TypeOK
    <3> QED BY <1>0, <2>4, <3>1 DEF ClientRecv, InFlight, serverv
  <2>5. CASE ClientDisconnect
    BY <1>0, <2>5, ElemsType DEF ClientDisconnect, InFlight, TypeOK, serverv, wires
  <2> QED BY <1>2, <2>1, <2>2, <2>3, <2>4, <2>5 DEF ClientStep
<1>3. CASE ServerStep
  <2>1. CASE ServerRecv
    <3>1. Elems(toServer) = {Head(toServer)} \cup Elems(toServer')
      BY <2>1, TailElems DEF ServerRecv, TypeOK
    <3> QED BY <1>0, <2>1, <3>1 DEF ServerRecv, InFlight, clientv
  <2>2. CASE HandlerAnswers \/ HandlerSilent \/ ServerDisconnect
    BY <1>0, <2>2
       DEF HandlerAnswers, HandlerSilent, ServerDisconnect, InFlight, clientv, wires
  <2>3. CASE Respond
    <3>1. serving \in Requests BY <2>3 DEF Respond, TypeOK
    <3>2. Elems(toClient') \subseteq Elems(toClient) \cup {serving}
      <4>1. Elems(Append(toClient, serving)) = Elems(toClient) \cup {serving}
        BY <3>1, AppendElems DEF TypeOK
      <4>2. toClient' = Append(toClient, serving) \/ toClient' = toClient
        BY <2>3 DEF Respond
      <4> QED BY <4>1, <4>2
    <3>3. serving \in Called BY <3>1, RpcAssumption DEF InFlight
    <3> QED BY <1>0, <2>3, <3>2, <3>3 DEF Respond, InFlight, clientv
  <2> QED BY <1>3, <2>1, <2>2, <2>3 DEF ServerStep
<1>4. CASE LinkDown
  <2>1. Elems(toServer') \subseteq Elems(toServer) /\ Elems(toClient') \subseteq Elems(toClient)
    BY <1>4, PrefixElems DEF LinkDown, TypeOK
  <2> QED BY <1>0, <1>4, <2>1 DEF LinkDown, InFlight, clientv, serverv
<1>5. CASE UNCHANGED vars
  BY <1>0, <1>5 DEF vars, InFlight, clientv, serverv, wires
<1> QED BY <1>1, <1>2, <1>3, <1>4, <1>5 DEF Next

\* Only Call hands out an id, to a request that had none, and it is a new one.
LEMMA IdsStep ==
    ASSUME TypeOK, UniqueIds, IdsAreFresh, [Next]_vars
    PROVE  IdsAreFresh'
<1>1. ASSUME NEW r \in Requests, Call(r) PROVE IdsAreFresh'
  <2>1. /\ Called' = Called \cup {r} /\ r \notin Called
        /\ corr' = [corr EXCEPT ![r] = nextId] /\ nextId' = nextId + 1
    BY <1>1 DEF Call, NextCorrelationId, Called, TypeOK
  <2>2. \A s \in Called : corr'[s] = corr[s] /\ corr[s] \in Nat /\ corr[s] < nextId
    BY <2>1 DEF TypeOK, Called, IdsAreFresh
  <2>3. corr'[r] = nextId /\ nextId \in Nat BY <2>1 DEF TypeOK
  <2> QED BY <2>1, <2>2, <2>3 DEF IdsAreFresh
<1>2. ASSUME UNCHANGED <<corr, nextId>>, Called' \subseteq Called
      PROVE  IdsAreFresh'
  BY <1>2 DEF IdsAreFresh
<1>3. ASSUME NEW r \in Requests, Enqueue(r) \/ Timeout(r) PROVE IdsAreFresh'
  <2>1. UNCHANGED <<corr, nextId>> BY <1>3 DEF Enqueue, Timeout
  <2>2. Called' \subseteq Called
    BY <1>3 DEF Enqueue, Timeout, Return, Called, TypeOK
  <2> QED BY <2>1, <2>2, <1>2
<1>4. CASE ClientStep
  <2>1. UNCHANGED <<corr, nextId>>
    BY <1>4 DEF ClientStep, TakeCommand, ClientSend, ClientSendFails, ClientRecv,
                ClientDisconnect, callers
  <2>2. CASE UNCHANGED call BY <2>1, <2>2, <1>2 DEF Called
  <2>3. ASSUME NEW R, NEW x \in Results, Return(R, x) PROVE IdsAreFresh'
    BY <2>1, <2>3, <1>2 DEF Return, Called, Results
  <2> QED BY <1>4, <2>2, <2>3
          DEF ClientStep, TakeCommand, ClientSend, ClientSendFails, ClientRecv,
              ClientDisconnect, callers, Results
<1>5. CASE ServerStep \/ LinkDown \/ UNCHANGED vars
  <2>1. UNCHANGED <<call, corr, nextId>>
    BY <1>5 DEF ServerStep, ServerRecv, HandlerAnswers, HandlerSilent, Respond,
                ServerDisconnect, LinkDown, vars, callers
  <2> QED BY <2>1, <1>2 DEF Called
<1> QED BY <1>1, <1>3, <1>4, <1>5 DEF Next, CallStep

\* Only ClientRecv delivers a result, to the one request with that id.
LEMMA AnswersStep ==
    ASSUME TypeOK, IdsAreFresh, AnswersMatch, InFlight \subseteq Called, [Next]_vars
    PROVE  AnswersMatch'
<1>1. CASE ClientRecv
  <2>1. Head(toClient) \in Called
    BY <1>1, TailElems DEF ClientRecv, TypeOK, InFlight
  <2>2. \A s \in SameId(Head(toClient)) : s = Head(toClient)
    BY <2>1 DEF SameId, InFlight, IdsAreFresh
  <2> QED BY <1>1, <2>2 DEF ClientRecv, AnswersMatch
<1>2. CASE UNCHANGED answer
  BY <1>2 DEF AnswersMatch
<1> QED BY <1>1, <1>2
        DEF Next, ClientStep, TakeCommand, ClientSend, ClientSendFails, ClientDisconnect,
            ServerStep, ServerRecv, HandlerAnswers, HandlerSilent, Respond,
            ServerDisconnect, LinkDown, CallStep, Call, Enqueue, Timeout, vars, callers

\* Ids are fresh and what is under way has been called, in every reachable state.
LEMMA RpcInvariant == Spec => []RpcInv
<1>1. Init => RpcInv
  BY DEF Init, RpcInv, IdsAreFresh, AnswersMatch, InFlight, Called, Elems
<1>2. TypeOK /\ RpcInv /\ [Next]_vars => RpcInv'
  <2> SUFFICES ASSUME TypeOK, RpcInv, [Next]_vars PROVE RpcInv'
    OBVIOUS
  <2>1. (InFlight \subseteq Called)' BY InFlightStep DEF RpcInv
  <2>2. ASSUME UniqueIds PROVE (IdsAreFresh /\ AnswersMatch)'
    BY <2>2, IdsStep, AnswersStep DEF RpcInv
  <2> QED BY <2>1, <2>2 DEF RpcInv
<1> QED BY <1>1, <1>2, RpcTypeCorrect, PTL DEF Spec

\* With RemoteAddr's ids a caller only ever gets the result of its own request,
\* for any number of requests and however calls, losses and timeouts interleave.
THEOREM AnswersAreOwn ==
    ASSUME UniqueIds
    PROVE  Spec => []AnswersMatch
<1>1. RpcInv => AnswersMatch BY DEF RpcInv
<1> QED BY <1>1, RpcInvariant, PTL

-----------------------------------------------------------------------------
\* Whatever takes a caller's oneshot out of the client task answers it.
LEMMA ReachableStep ==
    TypeOK /\ NoForgottenCaller /\ [Next]_vars => NoForgottenCaller'
<1> SUFFICES ASSUME TypeOK, NoForgottenCaller, [Next]_vars,
                    NEW r \in Asks, call'[r] = "waiting"
             PROVE  r \in pending' \cup Elems(cmds')
  BY DEF NoForgottenCaller
<1>0. r \in Requests /\ call \in [Requests -> {"idle", "calling", "waiting"} \cup Results]
  BY DEF Requests, TypeOK
<1>1. ASSUME call[r] = "waiting" PROVE r \in pending \cup Elems(cmds)
  BY <1>1 DEF NoForgottenCaller
<1>2. CASE UNCHANGED <<call, cmds, pending>>
  BY <1>1, <1>2
<1>3. ASSUME NEW s \in Requests, Enqueue(s) PROVE r \in pending' \cup Elems(cmds')
  <2>1. CASE cmds' = Append(cmds, s)
    <3>1. Elems(cmds') = Elems(cmds) \cup {s} BY <2>1, AppendElems DEF TypeOK
    <3>2. r = s \/ call[r] = "waiting" BY <1>0, <1>3 DEF Enqueue, Return, Results
    <3> QED BY <1>1, <1>3, <3>1, <3>2 DEF Enqueue
  <2>2. CASE UNCHANGED cmds /\ Return({s}, "disconnected")
    BY <1>0, <1>1, <1>3, <2>2 DEF Enqueue, Return
  <2> QED BY <1>3, <2>1, <2>2 DEF Enqueue
<1>4. ASSUME NEW s \in Requests, Call(s) \/ Timeout(s)
      PROVE  r \in pending' \cup Elems(cmds')
  BY <1>0, <1>1, <1>4 DEF Call, Timeout, Return, clientv
<1>5. CASE TakeCommand
  <2>1. Elems(cmds) = {Head(cmds)} \cup Elems(cmds')
    BY <1>5, TailElems DEF TakeCommand, TypeOK
  <2>2. call[r] = "waiting" /\ (Head(cmds) \in Asks => r \notin SameId(Head(cmds)))
    BY <1>0, <1>5 DEF TakeCommand, Return
  <2> QED BY <1>1, <1>5, <2>1, <2>2 DEF TakeCommand
<1>6. CASE ClientSendFails
  BY <1>0, <1>1, <1>6 DEF ClientSendFails, Return
<1>7. CASE ClientRecv
  BY <1>0, <1>1, <1>7 DEF ClientRecv, Return
<1>8. CASE ClientDisconnect
  BY <1>0, <1>1, <1>8 DEF ClientDisconnect, Return
<1>9. CASE ClientSend \/ ServerStep \/ LinkDown \/ UNCHANGED vars
  BY <1>2, <1>9 DEF ClientSend, ServerStep, ServerRecv, HandlerAnswers, HandlerSilent,
                    Respond, ServerDisconnect, LinkDown, vars, callers, clientv
<1> QED BY <1>3, <1>4, <1>5, <1>6, <1>7, <1>8, <1>9 DEF Next, ClientStep, CallStep

\* No caller is forgotten, id collisions included: as long as it waits, a
\* response, a failure or the end of the client task can still reach it.
THEOREM CallersAreReachable == Spec => []NoForgottenCaller
<1>1. Init => NoForgottenCaller BY DEF Init, NoForgottenCaller, Requests
<1> QED BY <1>1, ReachableStep, RpcTypeCorrect, PTL DEF Spec

-----------------------------------------------------------------------------
(* Rest.  While the connection is up, an entry of pending_requests has its *)
(* request or response somewhere between the two tasks.                    *)

Outbox   == {outgoing} \ {NoRequest}
UnderWay == Outbox \cup Elems(toServer) \cup {serving} \cup Elems(toClient)

Tracked ==
    /\ server = "ended" => ~link
    /\ client = "ended" => pending = {} /\ cmds = <<>>
    /\ \A r \in Tells : call[r] # "waiting"
    /\ link => pending \subseteq UnderWay \cup unanswered

\* Nothing that is tracked gets lost while the connection is up.
LEMMA TrackedStep == TypeOK /\ Tracked /\ [Next]_vars => Tracked'
<1> SUFFICES ASSUME TypeOK, Tracked, [Next]_vars PROVE Tracked'
  OBVIOUS
<1> USE RpcAssumption
<1>1. ASSUME NEW r \in Requests, CallStep(r) PROVE Tracked'
  <2>1. UNCHANGED <<server, link, client, pending, unanswered, UnderWay>>
    BY <1>1 DEF CallStep, Call, Enqueue, Timeout, clientv, serverv, wires, UnderWay, Outbox
  <2>2. client = "ended" => UNCHANGED cmds
    BY <1>1 DEF CallStep, Call, Enqueue, Timeout, clientv
  <2>3. \A s \in Tells : call'[s] # "waiting"
    BY <1>1 DEF CallStep, Call, Enqueue, Timeout, Return, Tracked, TypeOK, Requests
  <2> QED BY <2>1, <2>2, <2>3 DEF Tracked
<1>2. ASSUME NEW R, NEW x \in Results, Return(R, x) PROVE \A s \in Tells : call'[s] # "waiting"
  BY <1>2 DEF Return, Tracked, Requests, Results
<1>3. CASE TakeCommand
  <2>1. \A s \in Tells : call'[s] # "waiting"
    <3>1. Return(SameId(Head(cmds)), "disconnected") \/ UNCHANGED call
      BY <1>3 DEF TakeCommand
    <3> QED BY <3>1, <1>2 DEF Results, Tracked
  <2>2. Head(cmds) \in Requests BY <1>3, TailElems DEF TakeCommand, TypeOK
  <2>3. Outbox = {} BY <1>3 DEF TakeCommand, TypeOK, Outbox
  <2>4. Outbox' = {Head(cmds)} BY <1>3, <2>2 DEF TakeCommand, Outbox
  <2>5. pending' \subseteq pending \cup {Head(cmds)} BY <1>3 DEF TakeCommand, SameId
  <2>6. UNCHANGED <<server, serving, unanswered, toServer, toClient, link>> /\ client' # "ended"
    BY <1>3 DEF TakeCommand, serverv, wires
  <2> QED BY <2>1, <2>3, <2>4, <2>5, <2>6 DEF Tracked, UnderWay
<1>4. CASE ClientSend
  <2>1. link => Elems(toServer') = Elems(toServer) \cup {outgoing}
    <3>1. outgoing \in Requests BY <1>4 DEF ClientSend, TypeOK
    <3>2. Elems(Append(toServer, outgoing)) = Elems(toServer) \cup {outgoing}
      BY <3>1, AppendElems DEF TypeOK
    <3> QED BY <1>4, <3>2 DEF ClientSend
  <2>2. UNCHANGED <<call, pending, server, serving, unanswered, toClient, link>> /\ client' # "ended"
    BY <1>4 DEF ClientSend, callers, serverv
  <2> QED BY <2>1, <2>2 DEF Tracked, UnderWay, Outbox
<1>5. CASE ClientSendFails
  <2>1. ~link /\ client' # "ended" /\ UNCHANGED <<link, server>>
    BY <1>5 DEF ClientSendFails, serverv, wires
  <2>2. \A s \in Tells : call'[s] # "waiting"
    BY <1>5, <1>2 DEF ClientSendFails, Results
  <2> QED BY <2>1, <2>2 DEF Tracked
<1>6. CASE ClientRecv
  <2>1. Elems(toClient) = {Head(toClient)} \cup Elems(toClient')
    BY <1>6, TailElems DEF ClientRecv, TypeOK
  <2>2. \A s \in Tells : call'[s] # "waiting"
    BY <1>6, <1>2 DEF ClientRecv, Results
  <2>3. Head(toClient) \notin pending' /\ pending' \subseteq pending
    BY <1>6 DEF ClientRecv, SameId
  <2>4. UNCHANGED <<server, serving, unanswered, toServer, link, client, outgoing>> /\ client # "ended"
    BY <1>6 DEF ClientRecv, serverv
  <2> QED BY <2>1, <2>2, <2>3, <2>4 DEF Tracked, UnderWay, Outbox
<1>7. CASE ClientDisconnect
  <2>1. \A s \in Tells : call'[s] # "waiting"
    BY <1>7, <1>2 DEF ClientDisconnect, Results
  <2> QED BY <1>7, <2>1 DEF ClientDisconnect, Tracked, serverv, wires
<1>8. CASE ServerRecv
  <2>1. Elems(toServer) = {Head(toServer)} \cup Elems(toServer')
    BY <1>8, TailElems DEF ServerRecv, TypeOK
  <2>2. serving' = Head(toServer) /\ serving = NoRequest /\ server' # "ended"
    BY <1>8 DEF ServerRecv, TypeOK
  <2>3. pending \cap {NoRequest} = {} BY DEF TypeOK, Requests
  <2>4. UNCHANGED <<call, cmds, client, pending, unanswered, toClient, link, outgoing>>
    BY <1>8 DEF ServerRecv, callers, clientv
  <2> QED BY <2>1, <2>2, <2>3, <2>4 DEF Tracked, UnderWay, Outbox
<1>9. CASE HandlerAnswers
  BY <1>9 DEF HandlerAnswers, Tracked, UnderWay, Outbox, callers, clientv, wires
<1>10. CASE HandlerSilent
  BY <1>10 DEF HandlerSilent, Tracked, UnderWay, Outbox, callers, clientv, wires
<1>11. CASE Respond
  <2>1. link => Elems(toClient') = Elems(toClient) \cup {serving} /\ server' = "recv"
    <3>1. serving \in Requests BY <1>11 DEF Respond, TypeOK
    <3>2. Elems(Append(toClient, serving)) = Elems(toClient) \cup {serving}
      BY <3>1, AppendElems DEF TypeOK
    <3> QED BY <1>11, <3>2 DEF Respond
  <2>2. UNCHANGED <<call, cmds, client, pending, unanswered, toServer, link, outgoing>>
    BY <1>11 DEF Respond, callers, clientv
  <2> QED BY <2>1, <2>2 DEF Tracked, UnderWay, Outbox
<1>12. CASE ServerDisconnect \/ LinkDown
  BY <1>12 DEF ServerDisconnect, LinkDown, Tracked, callers, clientv, serverv, wires
<1>13. CASE UNCHANGED vars
  BY <1>13 DEF vars, callers, clientv, serverv, wires, Tracked, UnderWay, Outbox
<1> QED BY <1>1, <1>3, <1>4, <1>5, <1>6, <1>7, <1>8, <1>9, <1>10, <1>11, <1>12, <1>13
        DEF Next, ClientStep, ServerStep

\* Everything is tracked always.
LEMMA AlwaysTracked == Spec => [](TypeOK /\ Tracked /\ NoForgottenCaller)
<1>1. Init => Tracked
  BY DEF Init, Tracked, Requests
<1> QED BY <1>1, TrackedStep, RpcTypeCorrect, CallersAreReachable, PTL DEF Spec

\* Client task and server task only come to rest with everyone served, with
\* callers whose handler was silent, or blocked in send against each other: for
\* any number of calls and any capacity, id collisions included.
THEOREM GridlockTheorem == Spec => []DeadlockIsGridlock
<1>1. TypeOK /\ Tracked /\ NoForgottenCaller => DeadlockIsGridlock
  <2> SUFFICES ASSUME TypeOK, Tracked, NoForgottenCaller, AtRest,
                      NEW r \in Requests, call[r] \in {"calling", "waiting"}
               PROVE  Gridlock \/ r \in unanswered
    BY DEF DeadlockIsGridlock
  <2> USE RpcAssumption
  <2>1. CASE client = "ended"
    <3>1. call[r] # "calling" BY <2>1 DEF AtRest
    <3>2. r \in Asks /\ call[r] = "waiting" BY <3>1 DEF Tracked, Requests
    <3>3. pending = {} /\ Elems(cmds) = {} BY <2>1, ElemsType DEF Tracked, TypeOK
    <3> QED BY <3>2, <3>3 DEF NoForgottenCaller
  <2>2. CASE client = "sending"
    <3>1. link /\ Len(toServer) = WireCapacity BY <2>2 DEF AtRest
    <3>2. toServer # <<>> BY <3>1 DEF TypeOK
    <3>3. server = "responding" /\ Len(toClient) = WireCapacity
      BY <3>1, <3>2 DEF AtRest, Tracked
    <3> QED BY <2>2, <3>1, <3>3 DEF Gridlock
  <2>3. CASE client = "select"
    <3>1. link /\ cmds = <<>> /\ toClient = <<>> BY <2>3 DEF AtRest
    <3>2. Len(cmds) = 0 /\ Len(toClient) = 0 /\ Elems(cmds) = {} /\ Elems(toClient) = {}
      BY <3>1, ElemsType DEF TypeOK
    <3>3. server = "recv" /\ toServer = <<>> BY <3>1, <3>2 DEF AtRest, Tracked
    <3>4. call[r] = "waiting" BY <3>2 DEF AtRest
    <3>5. r \in pending BY <3>2, <3>4 DEF Tracked, NoForgottenCaller, Requests
    <3>6. serving = NoRequest /\ Outbox = {} /\ Elems(toServer) = {}
      BY <2>3, <3>3, ElemsType DEF TypeOK, Outbox
    <3> QED BY <3>1, <3>2, <3>5, <3>6 DEF Tracked, UnderWay
  <2> QED BY <2>1, <2>2, <2>3 DEF TypeOK
<1> QED BY <1>1, AlwaysTracked, PTL

\* What a lost connection leaves behind: once the client task has ended, nobody
\* waits for it, and when all come to rest nobody waits for a slot either.
LossLeavesNobody ==
    /\ client = "ended" => \A r \in Requests : call[r] # "waiting"
    /\ AtRest /\ ~link => \A r \in Requests : call[r] \notin {"calling", "waiting"}

\* The end of the client task (client.rs 75) takes every oneshot with it, those of
\* requests whose handler is silent too: the safety half of LossIsReported, for
\* either kind of ids.
THEOREM LossTheorem == Spec => []LossLeavesNobody
<1>1. ASSUME TypeOK, Tracked, NoForgottenCaller, client = "ended", NEW r \in Requests
      PROVE  call[r] # "waiting"
  <2>1. pending = {} /\ Elems(cmds) = {} BY <1>1, ElemsType DEF Tracked, TypeOK
  <2>2. CASE r \in Tells BY <1>1, <2>2 DEF Tracked
  <2>3. CASE r \in Asks BY <1>1, <2>1, <2>3 DEF NoForgottenCaller
  <2> QED BY <2>2, <2>3 DEF Requests
<1>2. ASSUME AtRest, ~link
      PROVE  client = "ended" /\ \A r \in Requests : call[r] # "calling"
  BY <1>2 DEF AtRest
<1>3. TypeOK /\ Tracked /\ NoForgottenCaller => LossLeavesNobody
  BY <1>1, <1>2 DEF LossLeavesNobody
<1> QED BY <1>3, AlwaysTracked, PTL

\* What a gridlock means to the callers: as long as the connection is up it
\* lasts, no handler runs, and whoever waits gets nothing but a timeout.
GridlockHolds ==
    Gridlock /\ link' =>
        /\ Gridlock'
        /\ UNCHANGED <<answer, executed, unanswered>>
        /\ \A r \in Requests : call[r] = "waiting" => call'[r] \in {"waiting", "timeout"}

\* Two ends that wait in send for each other never get out of it by themselves
\* (client.rs 53 does not read while it sends, nor does server.rs 42): neither
\* new calls nor calls that give up help, only the end of the connection does.
THEOREM GridlockIsForever == Spec => [][GridlockHolds]_vars
<1>1. ASSUME TypeOK, [Next]_vars PROVE GridlockHolds
  <2> SUFFICES ASSUME Gridlock, link' PROVE
                 /\ Gridlock'
                 /\ UNCHANGED <<answer, executed, unanswered>>
                 /\ \A r \in Requests : call[r] = "waiting" =>
                                          call'[r] \in {"waiting", "timeout"}
    BY DEF GridlockHolds
  <2>a. WireCapacity \in Nat \ {0} BY RpcAssumption DEF RpcAssumption
  <2>1. ~ClientStep
    BY <1>1, <2>a DEF Gridlock, ClientStep, TakeCommand, ClientSend, ClientSendFails,
       ClientRecv, ClientDisconnect
  <2>2. ~ServerStep
    BY <1>1, <2>a DEF Gridlock, ServerStep, ServerRecv, HandlerAnswers, HandlerSilent,
       Respond, ServerDisconnect
  <2>3. ~LinkDown BY DEF LinkDown
  <2>4. ASSUME NEW r \in Requests, CallStep(r)
        PROVE  /\ UNCHANGED <<client, serverv, wires, answer>>
               /\ \A s \in Requests : call[s] = "waiting" => call'[s] \in {"waiting", "timeout"}
    <3>1. CASE Call(r) BY <1>1, <3>1 DEF Call, TypeOK, clientv
    <3>2. CASE Enqueue(r)
      BY <1>1, <3>2 DEF Enqueue, Gridlock, TypeOK
    <3>3. CASE Timeout(r) BY <1>1, <3>3 DEF Timeout, Return, TypeOK, clientv
    <3> QED BY <2>4, <3>1, <3>2, <3>3 DEF CallStep
  <2>5. CASE UNCHANGED vars
    BY <2>5 DEF vars, callers, clientv, serverv, wires, Gridlock
  <2>6. ASSUME NEW r \in Requests, CallStep(r)
        PROVE  Gridlock' /\ UNCHANGED <<executed, unanswered>>
    BY <2>4, <2>6 DEF serverv, wires, Gridlock
  <2> QED BY <1>1, <2>1, <2>2, <2>3, <2>4, <2>5, <2>6 DEF Next
<1> QED BY <1>1, RpcTypeCorrect, PTL DEF Spec

-----------------------------------------------------------------------------
(* The contract.  A request travels from the command channel to the        *)
(* handlers and is in one place at a time, once.                           *)

Distinct(s) == \A i, j \in 1..Len(s) : s[i] = s[j] => i = j

Handling   == {r \in {serving} : server = "handling"}
Responding == {r \in {serving} : server = "responding"}

\* The places of the journey, each with those after it.
AfterServer  == Handling \cup Elems(executed)
AfterSending == Elems(toServer) \cup AfterServer
AfterCommand == Outbox \cup AfterSending
Journey      == Elems(cmds) \cup AfterCommand

Once ==
    /\ Distinct(cmds) /\ Distinct(toServer) /\ Distinct(executed)
    /\ Elems(cmds) \cap AfterCommand = {}
    /\ Outbox \cap AfterSending = {}
    /\ Elems(toServer) \cap AfterServer = {}
    /\ Handling \cap Elems(executed) = {}

\* Where the callers of those on the journey stand.
Standing ==
    /\ \A r \in Journey \cup pending : call[r] \notin {"idle", "calling"}
    /\ \A r \in Journey \cap Tells : call[r] = "ok"
    /\ \A r \in Tells : call[r] # "waiting"

\* A response is one of a request that was executed.
Answered == Elems(toClient) \cup Responding \subseteq Elems(executed)

JourneyInv == Once /\ Standing /\ Answered

\* Adding a new element keeps a queue free of repetitions.
LEMMA AppendDistinct ==
    ASSUME NEW S, NEW s \in Seq(S), NEW x \in S, Distinct(s), x \notin Elems(s)
    PROVE  Distinct(Append(s, x))
<1>1. /\ Len(s) \in Nat /\ Len(Append(s, x)) = Len(s) + 1
      /\ Append(s, x)[Len(s) + 1] = x
      /\ \A i \in 1..Len(s) : Append(s, x)[i] = s[i]
  OBVIOUS
<1>2. \A i \in 1..Len(s) : s[i] # x BY DEF Elems
<1>3. \A i \in 1..Len(s) + 1 : i \in 1..Len(s) \/ i = Len(s) + 1 BY <1>1
<1> QED BY <1>1, <1>2, <1>3 DEF Distinct

\* The head of a queue without repetitions is gone once it is taken.
LEMMA TailDistinct ==
    ASSUME NEW S, NEW s \in Seq(S), s # <<>>, Distinct(s)
    PROVE  Distinct(Tail(s)) /\ Head(s) \notin Elems(Tail(s))
<1>1. /\ Len(s) \in Nat \ {0} /\ Len(Tail(s)) = Len(s) - 1 /\ Head(s) = s[1]
      /\ \A i \in 1..Len(Tail(s)) : Tail(s)[i] = s[i + 1] /\ i + 1 \in 1..Len(s)
  OBVIOUS
<1>2. Distinct(Tail(s))
  <2> SUFFICES ASSUME NEW i \in 1..Len(Tail(s)), NEW j \in 1..Len(Tail(s)),
                      Tail(s)[i] = Tail(s)[j]
               PROVE  i = j
    BY DEF Distinct
  <2>1. s[i + 1] = s[j + 1] /\ i + 1 \in 1..Len(s) /\ j + 1 \in 1..Len(s) BY <1>1
  <2>2. i + 1 = j + 1 BY <2>1 DEF Distinct
  <2> QED BY <1>1, <2>2
<1>3. ASSUME NEW i \in 1..Len(Tail(s)), Tail(s)[i] = Head(s) PROVE FALSE
  <2>1. s[i + 1] = s[1] /\ i + 1 \in 1..Len(s) /\ 1 \in 1..Len(s) BY <1>1, <1>3
  <2>2. i + 1 = 1 BY <2>1 DEF Distinct
  <2> QED BY <1>1, <2>2
<1> QED BY <1>2, <1>3 DEF Elems

LEMMA PrefixDistinct ==
    ASSUME NEW S, NEW s \in Seq(S), NEW n \in 0..Len(s), Distinct(s)
    PROVE  Distinct(SubSeq(s, 1, n))
<1>1. /\ Len(SubSeq(s, 1, n)) = n
      /\ \A i \in 1..n : SubSeq(s, 1, n)[i] = s[i] /\ i \in 1..Len(s)
  OBVIOUS
<1> QED BY <1>1 DEF Distinct

\* A step of a caller: only Enqueue begins a journey.
LEMMA CallJourney ==
    ASSUME TypeOK, JourneyInv, NEW r \in Requests, CallStep(r)
    PROVE  JourneyInv'
<1> USE RpcAssumption
<1>1. UNCHANGED <<AfterCommand, AfterSending, AfterServer, Outbox, Handling, Responding,
                  toServer, toClient, executed, pending>>
  BY DEF CallStep, Call, Enqueue, Timeout, clientv, serverv, wires, AfterCommand,
         AfterSending, AfterServer, Outbox, Handling, Responding
<1>2. \A s \in Requests : s # r => call'[s] = call[s]
  BY DEF CallStep, Call, Enqueue, Timeout, Return, TypeOK
<1>3. Journey \cup pending \subseteq Requests
  BY ElemsType DEF Journey, AfterCommand, AfterSending, AfterServer, Outbox, Handling,
                   TypeOK, Requests
<1>4. CASE UNCHANGED cmds
  <2>1. UNCHANGED Journey BY <1>1, <1>4 DEF Journey
  <2>2. call[r] \in {"idle", "calling", "waiting"} /\ (call'[r] = "waiting" => r \in Asks)
    BY <1>4 DEF CallStep, Call, Enqueue, Timeout, Return, TypeOK
  <2>3. r \in Journey \cup pending => call'[r] \notin {"idle", "calling"} /\ r \notin Tells
    <3> SUFFICES ASSUME r \in Journey \cup pending PROVE call'[r] \notin {"idle", "calling"} /\ r \notin Tells
      OBVIOUS
    <3>1. call[r] = "waiting" BY <2>2 DEF JourneyInv, Standing
    <3>2. Timeout(r) BY <3>1 DEF CallStep, Call, Enqueue
    <3> QED BY <3>1, <3>2 DEF Timeout, Return, JourneyInv, Standing
  <2>4. Standing'
    BY <1>1, <1>2, <1>3, <2>1, <2>2, <2>3 DEF JourneyInv, Standing, Requests
  <2> QED BY <1>1, <1>4, <2>4 DEF JourneyInv, Once, Answered
<1>5. CASE cmds' = Append(cmds, r) /\ Enqueue(r)
  <2>1. call[r] = "calling" /\ call'[r] = (IF r \in Asks THEN "waiting" ELSE "ok")
    BY <1>5 DEF Enqueue, TypeOK, Return
  <2>2. r \notin Journey \cup pending BY <2>1 DEF JourneyInv, Standing
  <2>3. Elems(cmds') = Elems(cmds) \cup {r} BY <1>5, AppendElems DEF TypeOK
  <2>4. Distinct(cmds')
    BY <1>5, <2>2, AppendDistinct DEF TypeOK, JourneyInv, Once, Journey
  <2>5. Journey' = Journey \cup {r} BY <1>1, <2>3 DEF Journey
  <2>6. Once' BY <1>1, <2>2, <2>3, <2>4 DEF JourneyInv, Once, Journey
  <2>7. Standing'
    BY <1>1, <1>2, <1>3, <2>1, <2>2, <2>5 DEF JourneyInv, Standing, Requests
  <2> QED BY <1>1, <2>6, <2>7 DEF JourneyInv, Answered
<1> QED BY <1>4, <1>5 DEF CallStep, Call, Enqueue, Timeout, clientv

\* A step that leaves the queues alone, or moves a request along, and in which
\* calls that wait may return keeps the callers' standing.
LEMMA StandingStep ==
    ASSUME TypeOK, Standing, Journey' \subseteq Journey,
           pending' \subseteq pending \cup Journey,
           \/ UNCHANGED call
           \/ \E R : \E x \in Results : Return(R, x)
    PROVE  Standing'
<1>1. Journey \cup pending \subseteq Requests
  BY ElemsType DEF Journey, AfterCommand, AfterSending, AfterServer, Outbox, Handling,
                   TypeOK, Requests
<1>2. \A r \in Requests : \/ call'[r] = call[r]
                          \/ call[r] \in {"calling", "waiting"} /\ call'[r] \in Results
  BY DEF Return, TypeOK
<1>3. \A x \in Results : x \notin {"idle", "calling", "waiting"} BY DEF Results
<1> QED BY <1>1, <1>2, <1>3 DEF Standing, Requests

\* A step of the client task.
LEMMA ClientJourney ==
    ASSUME TypeOK, JourneyInv, ClientStep
    PROVE  JourneyInv'
<1> USE RpcAssumption
<1>0. Once /\ Standing /\ Answered BY DEF JourneyInv
<1>1. CASE TakeCommand
  <2>1. /\ Head(cmds) \in Requests
        /\ Elems(cmds) = {Head(cmds)} \cup Elems(cmds')
        /\ Distinct(cmds') /\ Head(cmds) \notin Elems(cmds')
    BY <1>0, <1>1, TailElems, TailDistinct DEF TakeCommand, TypeOK, Once
  <2>2. Outbox = {} /\ Outbox' = {Head(cmds)}
    BY <1>1, <2>1 DEF TakeCommand, TypeOK, Outbox
  <2>3. UNCHANGED <<toServer, toClient, executed, Handling, Responding, AfterServer, AfterSending>>
    BY <1>1 DEF TakeCommand, serverv, wires, Handling, Responding, AfterServer, AfterSending
  <2>4. AfterCommand' = AfterCommand \cup {Head(cmds)} BY <2>2, <2>3 DEF AfterCommand
  <2>5. Journey' = Journey BY <2>1, <2>4 DEF Journey
  <2>6. Once' BY <1>0, <2>1, <2>2, <2>3, <2>4 DEF Once, AfterCommand
  <2>7. pending' \subseteq pending \cup Journey
    BY <1>1, <2>1 DEF TakeCommand, SameId, Journey
  <2>8. UNCHANGED call \/ Return(SameId(Head(cmds)), "disconnected")
    BY <1>1 DEF TakeCommand
  <2>9. Standing' BY <1>0, <2>5, <2>7, <2>8, StandingStep DEF Results
  <2> QED BY <1>0, <2>3, <2>6, <2>9 DEF JourneyInv, Answered
<1>2. CASE ClientSend
  <2>1. outgoing \in Requests /\ Outbox = {outgoing} /\ Outbox' = {}
    BY <1>2 DEF ClientSend, TypeOK, Outbox
  <2>2. UNCHANGED <<call, cmds, pending, toClient, executed, Handling, Responding, AfterServer>>
    BY <1>2 DEF ClientSend, callers, serverv, Handling, Responding, AfterServer
  <2>3. outgoing \notin Elems(toServer) BY <1>0, <2>1 DEF Once, AfterSending
  <2>4. \/ UNCHANGED toServer
        \/ Elems(toServer') = Elems(toServer) \cup {outgoing} /\ Distinct(toServer')
    <3>1. Elems(Append(toServer, outgoing)) = Elems(toServer) \cup {outgoing}
      BY <2>1, AppendElems DEF TypeOK
    <3>2. Distinct(Append(toServer, outgoing))
      BY <1>0, <2>1, <2>3, AppendDistinct DEF TypeOK, Once
    <3> QED BY <1>2, <3>1, <3>2 DEF ClientSend
  <2>5. AfterSending' \subseteq AfterSending \cup {outgoing} BY <2>2, <2>4 DEF AfterSending
  <2>6. AfterCommand' \subseteq AfterCommand BY <2>1, <2>5 DEF AfterCommand
  <2>7. Once' BY <1>0, <2>1, <2>2, <2>4, <2>6 DEF Once, AfterSending
  <2>8. Journey' \subseteq Journey BY <2>2, <2>6 DEF Journey
  <2>9. Standing' BY <1>0, <2>2, <2>8, StandingStep
  <2> QED BY <1>0, <2>2, <2>7, <2>9 DEF JourneyInv, Answered
<1>3. CASE ClientSendFails
  <2>1. Outbox' = {} /\ pending' \subseteq pending
    BY <1>3 DEF ClientSendFails, Outbox
  <2>2. UNCHANGED <<cmds, toServer, toClient, executed, Handling, Responding, AfterServer, AfterSending>>
    BY <1>3 DEF ClientSendFails, serverv, wires, Handling, Responding, AfterServer, AfterSending
  <2>3. Once' BY <1>0, <2>1, <2>2 DEF Once, AfterCommand
  <2>4. Standing'
    BY <1>0, <1>3, <2>1, <2>2, StandingStep DEF ClientSendFails, Journey, AfterCommand, Results
  <2> QED BY <1>0, <2>2, <2>3, <2>4 DEF JourneyInv, Answered
<1>4. CASE ClientRecv
  <2>1. Elems(toClient) = {Head(toClient)} \cup Elems(toClient')
    BY <1>4, TailElems DEF ClientRecv, TypeOK
  <2>2. UNCHANGED <<cmds, toServer, executed, Outbox, Handling, Responding, AfterServer,
                    AfterSending, AfterCommand, Journey>> /\ pending' \subseteq pending
    BY <1>4 DEF ClientRecv, serverv, Outbox, Handling, Responding, AfterServer, AfterSending,
                AfterCommand, Journey
  <2>3. Once' BY <1>0, <2>2 DEF Once
  <2>4. Standing' BY <1>0, <1>4, <2>2, StandingStep DEF ClientRecv, Results
  <2> QED BY <1>0, <2>1, <2>2, <2>3, <2>4 DEF JourneyInv, Answered
<1>5. CASE ClientDisconnect
  <2>1. cmds' = <<>> /\ pending' = {} BY <1>5 DEF ClientDisconnect
  <2>2. UNCHANGED <<toServer, toClient, executed, Outbox, Handling, Responding, AfterServer,
                    AfterSending, AfterCommand>>
    BY <1>5 DEF ClientDisconnect, serverv, wires, Outbox, Handling, Responding, AfterServer,
                AfterSending, AfterCommand
  <2>3. Elems(cmds') = {} /\ Distinct(cmds') BY <2>1 DEF Elems, Distinct
  <2>4. Once' BY <1>0, <2>2, <2>3 DEF Once
  <2>5. Standing'
    BY <1>0, <1>5, <2>1, <2>2, <2>3, StandingStep DEF ClientDisconnect, Journey, Results
  <2> QED BY <1>0, <2>2, <2>4, <2>5 DEF JourneyInv, Answered
<1> QED BY <1>1, <1>2, <1>3, <1>4, <1>5 DEF ClientStep

\* A step of the server task, or the end of the connection.
LEMMA ServerJourney ==
    ASSUME TypeOK, JourneyInv, ServerStep \/ LinkDown
    PROVE  JourneyInv'
<1> USE RpcAssumption
<1>0. Once /\ Standing /\ Answered BY DEF JourneyInv
<1>1. UNCHANGED <<call, cmds, pending, Outbox>>
  BY DEF ServerStep, ServerRecv, HandlerAnswers, HandlerSilent, Respond, ServerDisconnect,
         LinkDown, callers, clientv, Outbox
<1>2. ASSUME AfterSending' \subseteq AfterSending PROVE Standing'
  <2>1. Journey' \subseteq Journey BY <1>1, <1>2 DEF Journey, AfterCommand
  <2> QED BY <1>0, <1>1, <2>1, StandingStep
<1>3. CASE ServerRecv
  <2>1. /\ Elems(toServer) = {Head(toServer)} \cup Elems(toServer')
        /\ Distinct(toServer') /\ Head(toServer) \notin Elems(toServer')
    BY <1>0, <1>3, TailElems, TailDistinct DEF ServerRecv, TypeOK, Once
  <2>2. Handling = {} /\ Handling' = {Head(toServer)} /\ Responding' = {}
    BY <1>3 DEF ServerRecv, Handling, Responding
  <2>3. UNCHANGED <<executed, toClient>> BY <1>3 DEF ServerRecv
  <2>4. AfterSending' = AfterSending BY <2>1, <2>2, <2>3 DEF AfterSending, AfterServer
  <2>5. Once' BY <1>0, <1>1, <2>1, <2>2, <2>3, <2>4 DEF Once, AfterServer, AfterCommand
  <2> QED BY <1>0, <1>2, <2>2, <2>3, <2>4, <2>5 DEF JourneyInv, Answered
<1>4. ASSUME server = "handling", executed' = Append(executed, serving),
             \/ server' = "responding" /\ serving' = serving
             \/ server' = "recv" /\ serving' = NoRequest,
             UNCHANGED <<toServer, toClient>>
      PROVE  JourneyInv'
  <2>1. serving \in Requests /\ Handling = {serving} /\ Handling' = {}
    BY <1>4 DEF TypeOK, Handling
  <2>2. serving \notin Elems(executed) BY <1>0, <2>1 DEF Once
  <2>3. Elems(executed') = Elems(executed) \cup {serving} /\ Distinct(executed')
    BY <1>0, <1>4, <2>1, <2>2, AppendElems, AppendDistinct DEF TypeOK, Once
  <2>4. AfterServer' = AfterServer BY <2>1, <2>3 DEF AfterServer
  <2>5. AfterSending' = AfterSending BY <1>4, <2>4 DEF AfterSending
  <2>6. Once' BY <1>0, <1>1, <1>4, <2>1, <2>3, <2>4, <2>5 DEF Once, AfterCommand
  <2>7. Responding' \subseteq {serving} BY <1>4 DEF Responding
  <2> QED BY <1>0, <1>2, <1>4, <2>3, <2>5, <2>6, <2>7 DEF JourneyInv, Answered
<1>5. ASSUME UNCHANGED <<executed, toServer>>, server' # "handling", server' # "responding",
             Elems(toClient') \subseteq Elems(toClient) \cup Responding
      PROVE  JourneyInv'
  <2>1. Handling' = {} /\ Responding' = {} BY <1>5 DEF Handling, Responding
  <2>2. AfterServer' \subseteq AfterServer /\ AfterSending' \subseteq AfterSending
    BY <1>5, <2>1 DEF AfterServer, AfterSending
  <2>3. Once' BY <1>0, <1>1, <1>5, <2>1, <2>2 DEF Once, AfterCommand
  <2> QED BY <1>0, <1>2, <1>5, <2>1, <2>2, <2>3 DEF JourneyInv, Answered
<1>6. CASE HandlerAnswers BY <1>4, <1>6 DEF HandlerAnswers, wires
<1>7. CASE HandlerSilent
  <2>1. CASE UNCHANGED executed BY <1>5, <1>7, <2>1 DEF HandlerSilent, wires
  <2> QED BY <1>4, <1>7, <2>1 DEF HandlerSilent, wires
<1>8. CASE Respond
  <2>1. serving \in Requests /\ Responding = {serving}
    BY <1>8 DEF Respond, TypeOK, Responding
  <2>2. Elems(Append(toClient, serving)) = Elems(toClient) \cup {serving}
    BY <2>1, AppendElems DEF TypeOK
  <2>3. Elems(toClient') \subseteq Elems(toClient) \cup Responding
    BY <1>8, <2>1, <2>2 DEF Respond
  <2>4. server' \in {"recv", "ended"} BY <1>8 DEF Respond, RespondFails
  <2> QED BY <1>5, <1>8, <2>3, <2>4 DEF Respond
<1>9. CASE ServerDisconnect BY <1>5, <1>9 DEF ServerDisconnect, wires
<1>10. CASE LinkDown
  <2>1. /\ Elems(toServer') \subseteq Elems(toServer) /\ Distinct(toServer')
        /\ Elems(toClient') \subseteq Elems(toClient)
    BY <1>0, <1>10, PrefixElems, PrefixDistinct DEF LinkDown, TypeOK, Once
  <2>2. UNCHANGED <<executed, Handling, Responding, AfterServer>>
    BY <1>10 DEF LinkDown, serverv, Handling, Responding, AfterServer
  <2>3. AfterSending' \subseteq AfterSending BY <2>1, <2>2 DEF AfterSending
  <2>4. Once' BY <1>0, <1>1, <2>1, <2>2, <2>3 DEF Once, AfterCommand
  <2> QED BY <1>0, <1>2, <2>1, <2>2, <2>3, <2>4 DEF JourneyInv, Answered
<1> QED BY <1>3, <1>6, <1>7, <1>8, <1>9, <1>10 DEF ServerStep

\* Requests are in one place, and once, in every reachable state.
LEMMA JourneyInvariant == Spec => []JourneyInv
<1>1. Init => JourneyInv
  <2> SUFFICES ASSUME Init PROVE JourneyInv
    OBVIOUS
  <2>1. /\ Elems(cmds) = {} /\ Elems(toServer) = {} /\ Elems(toClient) = {}
        /\ Elems(executed) = {} /\ Outbox = {} /\ Handling = {} /\ Responding = {}
    BY ElemsType DEF Init, Outbox, Handling, Responding, Elems
  <2>2. Distinct(cmds) /\ Distinct(toServer) /\ Distinct(executed)
    BY DEF Init, Distinct
  <2> QED BY <2>1, <2>2 DEF Init, JourneyInv, Once, Standing, Answered, Journey,
                            AfterCommand, AfterSending, AfterServer, Requests
<1>2. TypeOK /\ JourneyInv /\ [Next]_vars => JourneyInv'
  <2> SUFFICES ASSUME TypeOK, JourneyInv, [Next]_vars PROVE JourneyInv'
    OBVIOUS
  <2>1. CASE UNCHANGED vars
    BY <2>1 DEF vars, callers, clientv, serverv, wires, JourneyInv, Once, Standing, Answered,
                Journey, AfterCommand, AfterSending, AfterServer, Outbox, Handling, Responding
  <2> QED BY <2>1, CallJourney, ClientJourney, ServerJourney DEF Next
<1> QED BY <1>1, <1>2, RpcTypeCorrect, PTL DEF Spec

\* What holds of remote calls whatever ids the client gives them.
RunsOnce ==
    /\ Distinct(executed)
    /\ \A r \in Elems(executed) :
         /\ call[r] \notin {"idle", "calling"}
         /\ r \in Tells => call[r] = "ok"

\* Ids only steer answers: with those of ClusterClient too, which are all 0, no
\* request is executed twice, none before its caller has handed it over, and
\* none whose do_send failed.
THEOREM RunsOnceTheorem == Spec => []RunsOnce
<1>1. JourneyInv => RunsOnce
  BY DEF JourneyInv, Once, Standing, RunsOnce, Journey, AfterCommand, AfterSending,
         AfterServer
<1> QED
  BY <1>1, JourneyInvariant, PTL

-----------------------------------------------------------------------------
(* Each step is a step of the contract, or none.                           *)

LEMMA StatusDef ==
    ASSUME NEW r
    PROVE  /\ call[r] = "idle" => Status(r) = "idle"
           /\ call[r] \in {"calling", "waiting"} => Status(r) = "pending"
           /\ call[r] = "ok" => Status(r) = "ok"
           /\ call[r] \in Results \ {"ok"} =>
                Status(r) = IF r \in Asks THEN "doubt" ELSE "refused"
BY DEF Status, Results

\* What the contract calls executed.
LEMMA ExecutedElems ==
    ASSUME NEW r
    PROVE  Contract!Executed(r) <=> r \in Elems(executed)
BY DEF Contract!Executed, Elems

\* The calls that are told together return together in the contract.
LEMMA ReturnStep ==
    ASSUME TypeOK, NEW R, NEW x \in Results, Return(R, x), UNCHANGED executed,
           NEW outcome \in {"ok", "refused", "doubt"},
           \A r \in Requests \cap R : call[r] \in {"calling", "waiting"} =>
              \/ x = "ok" /\ outcome = "ok" /\ (r \in Asks => r \in Elems(executed))
              \/ x # "ok" /\ outcome = "doubt" /\ r \in Asks
              \/ x # "ok" /\ outcome = "refused" /\ r \notin Asks /\ r \notin Elems(executed)
    PROVE  Contract!Next
<1> DEFINE status == [r \in Requests |-> Status(r)]
           Told == {r \in Requests \cap R : call[r] \in {"calling", "waiting"}}
<1>1. Contract!Requests = Requests BY DEF Contract!Requests, Requests
<1>2. \A r \in Requests : call'[r] = IF r \in Told THEN x ELSE call[r]
  BY DEF Return
<1>3. \A r \in Told : Status(r) = "pending" BY StatusDef
<1>4. \A r \in Told : Status(r)' = outcome
  BY <1>2 DEF Status, Results
<1>5. \A r \in Requests \ Told : Status(r)' = Status(r)
  BY <1>2 DEF Status
<1>6. status' = [r \in Requests |-> IF r \in Told THEN outcome ELSE status[r]]
  BY <1>4, <1>5
<1>7. \A r \in Told : /\ status[r] \in {"idle", "pending"}
                      /\ \/ outcome = "ok" /\ (r \in Asks => Contract!Executed(r))
                         \/ outcome = "refused" /\ ~Contract!Executed(r)
                         \/ outcome = "doubt" /\ r \in Asks
  BY <1>3, ExecutedElems
<1>8. Contract!Return(Told, outcome)
  BY <1>1, <1>6, <1>7 DEF Contract!Return
<1>9. Told \in SUBSET Contract!Requests BY <1>1
<1> QED BY <1>8, <1>9 DEF Contract!Next

\* Every step is one of the contract, or none.
LEMMA RpcContractStep ==
    ASSUME TypeOK, TypeOK', RpcInv, JourneyInv, UniqueIds, [Next]_vars
    PROVE  [Contract!Next]_<<[r \in Requests |-> Status(r)], executed>>
<1> DEFINE status == [r \in Requests |-> Status(r)]
<1> USE RpcAssumption
<1>0. Once /\ Standing /\ Answered BY DEF JourneyInv
<1>a. Contract!Requests = Requests BY DEF Contract!Requests, Requests
<1>b. ASSUME UNCHANGED <<call, executed>> PROVE UNCHANGED <<status, executed>>
  BY <1>b DEF Status
\* Callers that a failure of the client task reaches are in doubt.
<1>c. ASSUME NEW R, R \subseteq pending \cup Elems(cmds), NEW x \in Results \ {"ok"},
             Return(R, x), UNCHANGED executed
      PROVE  Contract!Next
  <2>1. \A r \in R \cap Requests : call[r] \in {"calling", "waiting"} => r \in Asks
    BY <1>0, <1>c DEF Standing, Journey, Requests
  <2> QED BY <1>c, <2>1, ReturnStep
<1>1. ASSUME NEW r \in Requests, Call(r) PROVE Contract!Next
  <2>1. call[r] = "idle" /\ call' = [call EXCEPT ![r] = "calling"] /\ UNCHANGED executed
    BY <1>1 DEF Call, serverv
  <2>2. Status(r) = "idle" /\ Status(r)' = "pending"
    BY <2>1 DEF Status, TypeOK
  <2>3. \A s \in Requests \ {r} : Status(s)' = Status(s)
    BY <2>1 DEF Status, TypeOK
  <2>4. status' = [status EXCEPT ![r] = "pending"] BY <2>2, <2>3
  <2>5. Contract!Invoke(r) BY <2>1, <2>2, <2>4 DEF Contract!Invoke
  <2> QED BY <1>a, <2>5 DEF Contract!Next
<1>2. ASSUME NEW r \in Requests, Enqueue(r) PROVE [Contract!Next]_<<status, executed>>
  <2>1. call[r] = "calling" /\ UNCHANGED executed BY <1>2 DEF Enqueue, serverv
  <2>2. r \notin Elems(executed)
    BY <1>0, <2>1 DEF Standing, Journey, AfterCommand, AfterSending, AfterServer
  <2>3. CASE call' = [call EXCEPT ![r] = "waiting"]
    <3>1. \A s \in Requests : Status(s)' = Status(s)
      BY <2>1, <2>3 DEF Status, TypeOK
    <3> QED BY <2>1, <3>1
  <2>4. CASE r \notin Asks /\ call' = [call EXCEPT ![r] = "ok"]
    <3>1. Return({r}, "ok") BY <2>1, <2>4 DEF Return, TypeOK
    <3> QED BY <2>1, <2>4, <3>1, ReturnStep DEF Results
  <2>5. CASE Return({r}, "disconnected")
    <3>1. CASE r \in Asks BY <2>1, <2>5, <3>1, ReturnStep DEF Results
    <3>2. CASE r \notin Asks BY <2>1, <2>2, <2>5, <3>2, ReturnStep DEF Results
    <3> QED BY <3>1, <3>2
  <2> QED BY <1>2, <2>3, <2>4, <2>5 DEF Enqueue
<1>3. ASSUME NEW r \in Requests, Timeout(r) PROVE Contract!Next
  <2>1. r \in Asks BY <1>3 DEF Timeout, Asks
  <2> QED BY <1>3, <2>1, ReturnStep DEF Timeout, Results, serverv
<1>4. CASE TakeCommand
  <2>1. SameId(Head(cmds)) \subseteq pending BY DEF SameId
  <2> QED BY <1>4, <1>b, <1>c, <2>1 DEF TakeCommand, serverv, Results
<1>5. CASE ClientSendFails
  <2>1. SameId(outgoing) \subseteq pending BY DEF SameId
  <2> QED BY <1>5, <1>c, <2>1 DEF ClientSendFails, serverv, Results
<1>6. CASE ClientDisconnect
  BY <1>6, <1>c DEF ClientDisconnect, serverv, Results
<1>7. CASE ClientRecv
  <2>1. Head(toClient) \in Elems(toClient)
    BY <1>7, TailElems DEF ClientRecv, TypeOK
  <2>2. \A r \in SameId(Head(toClient)) : r = Head(toClient)
    BY <2>1 DEF SameId, RpcInv, InFlight, IdsAreFresh
  <2>3. \A r \in SameId(Head(toClient)) : r \in Elems(executed)
    BY <1>0, <2>1, <2>2 DEF Answered
  <2> QED BY <1>7, <2>3, ReturnStep DEF ClientRecv, serverv, Results
<1>8. ASSUME server = "handling", executed' = Append(executed, serving), UNCHANGED call
      PROVE  Contract!Next
  <2>1. serving \in Requests /\ serving \in Handling BY <1>8 DEF TypeOK, Handling
  <2>2. serving \notin Elems(executed) BY <1>0, <2>1 DEF Once
  <2>3. Status(serving) \in {"pending", "ok", "doubt"}
    <3>1. serving \in Journey
      BY <2>1 DEF Journey, AfterCommand, AfterSending, AfterServer
    <3>2. call[serving] \in {"waiting"} \cup Results BY <1>0, <2>1, <3>1 DEF Standing, TypeOK
    <3>3. serving \notin Asks => call[serving] = "ok"
      BY <1>0, <2>1, <3>1 DEF Standing, Requests
    <3> QED BY <3>2, <3>3, StatusDef
  <2>4. status' = status BY <1>8 DEF Status
  <2>5. Contract!Execute(serving)
    BY <1>8, <2>1, <2>2, <2>3, <2>4, ExecutedElems DEF Contract!Execute
  <2> QED BY <1>a, <2>1, <2>5 DEF Contract!Next
<1>9. CASE ServerStep \/ LinkDown \/ ClientSend \/ UNCHANGED vars
  <2>1. UNCHANGED call
    BY <1>9 DEF ServerStep, ServerRecv, HandlerAnswers, HandlerSilent, Respond,
                ServerDisconnect, LinkDown, ClientSend, vars, callers
  <2>2. UNCHANGED executed \/ (server = "handling" /\ executed' = Append(executed, serving))
    BY <1>9 DEF ServerStep, ServerRecv, HandlerAnswers, HandlerSilent, Respond,
                ServerDisconnect, LinkDown, ClientSend, vars, serverv
  <2> QED BY <1>8, <1>b, <2>1, <2>2
<1> QED BY <1>1, <1>2, <1>3, <1>4, <1>5, <1>6, <1>7, <1>9 DEF Next, ClientStep, CallStep

\* Remote calls with RemoteAddr's ids implement AtMostOnce, the contract that
\* local calls keep: a request runs at most once, an answer means that it ran,
\* and a do_send that is refused never runs, whatever breaks or times out.
THEOREM RpcContractTheorem ==
    ASSUME UniqueIds
    PROVE  Spec => KeepsContract
<1>1. Init => Contract!Init
  BY DEF Init, Contract!Init, Status, Contract!Requests, Requests
<1>2. TypeOK /\ TypeOK' /\ RpcInv /\ JourneyInv /\ [Next]_vars
          => [Contract!Next]_<<[r \in Requests |-> Status(r)], executed>>
  BY RpcContractStep
<1> QED
  BY <1>1, <1>2, RpcTypeCorrect, RpcInvariant, JourneyInvariant, PTL
     DEF Spec, KeepsContract, Contract!Spec

Promises == INSTANCE AtMostOnceProofs
    WITH status <- [r \in Requests |-> Status(r)]

\* The contract that remote calls keep is the one that AtMostOnceProofs is about.
LEMMA SameContract == KeepsContract => Promises!Spec
<1>1. Contract!Init => Promises!Init
  BY DEF Contract!Init, Promises!Init, Contract!Requests, Promises!Requests
<1>2. Contract!Next => Promises!Next
  BY DEF Contract!Next, Promises!Next, Contract!Requests, Promises!Requests,
         Contract!Invoke, Promises!Invoke, Contract!Execute, Promises!Execute,
         Contract!Return, Promises!Return, Contract!Executed, Promises!Executed
<1> QED
  BY <1>1, <1>2, PTL DEF KeepsContract, Contract!Spec, Promises!Spec

\* Over a connection that may break at any time, no remote request runs twice,
\* one whose caller got a result ran, and a do_send that failed never did.
THEOREM RemotePromise ==
    ASSUME UniqueIds
    PROVE  Spec => []Contract!Promise
<1>1. Promises!Promise => Contract!Promise
  BY DEF Promises!Promise, Contract!Promise, Promises!Executed, Contract!Executed,
         Promises!Requests, Contract!Requests
<1> QED
  BY <1>1, SameContract, RpcContractTheorem, Promises!ContractPromise, PTL

\* Nothing a remote caller was told is taken back by a late response, a timeout
\* or the end of either task, and a do_send that failed does not run afterwards.
THEOREM RemoteFinality ==
    ASSUME UniqueIds
    PROVE  Spec => [][Contract!Finality]_<<[r \in Requests |-> Status(r)], executed>>
<1>1. Promises!Finality => Contract!Finality
  BY DEF Promises!Finality, Contract!Finality, Promises!Executed, Contract!Executed,
         Promises!Requests, Contract!Requests
<1> QED
  BY <1>1, SameContract, RpcContractTheorem, Promises!ContractFinality, PTL
=============================================================================
