----------------------------- MODULE RemoteRpc -----------------------------
(***************************************************************************)
(* Remote calls over one TCP connection: RemoteAddr::send and do_send, the *)
(* task of RemoteClient that owns the connection (client.rs), and the task *)
(* that serves it on the other side (server.rs, and start_server in        *)
(* cluster.rs), which runs one handler at a time.                          *)
(*                                                                         *)
(* A response is matched to its request by correlation id.  RemoteAddr     *)
(* draws ids from a process-wide counter; ClusterClient puts id 0 in every *)
(* transport envelope.  A wire is a bounded FIFO: Framed::send waits until *)
(* the socket takes the frame, and while a task waits in send it does not  *)
(* read.                                                                   *)
(***************************************************************************)
EXTENDS Naturals, Sequences, FiniteSets

CONSTANTS
    PlainAsks,     \* requests made with RemoteClient::send
    TimedAsks,     \* requests made with send_timeout
    Tells,         \* requests made with do_send
    NoRequest,     \* "no request"
    UniqueIds,     \* TRUE: ids of RemoteAddr; FALSE: ids of ClusterClient
    CmdCapacity,   \* capacity of the command channel (32)
    WireCapacity   \* bound: frames the sockets hold in each direction

Asks     == PlainAsks \cup TimedAsks
Requests == Asks \cup Tells

ASSUME RpcAssumption ==
    /\ NoRequest \notin Requests
    /\ Asks \cap Tells = {} /\ PlainAsks \cap TimedAsks = {}
    /\ UniqueIds \in BOOLEAN
    /\ CmdCapacity \in Nat \ {0}
    /\ WireCapacity \in Nat \ {0}

VARIABLES
    call,       \* where each call is, or what it returned
    answer,     \* the request whose result a call returned
    corr,       \* correlation id of each request's envelope
    nextId,     \* CORRELATION_ID
    cmds,       \* the client's command channel
    client,     \* the client task: "select", "sending" or "ended"
    outgoing,   \* the request that the client task is sending
    pending,    \* pending_requests: requests registered under their ids
    toServer,   \* envelopes on their way to the server
    toClient,   \* responses on their way back, named by their request
    server,     \* the server task: "recv", "handling", "responding", "ended"
    serving,    \* the request that the server task is busy with
    link,       \* is the connection up?
    executed,   \* history: requests in the order their handlers ran
    unanswered  \* history: requests whose handler returned None

callers == <<call, answer, corr, nextId>>
clientv == <<cmds, client, outgoing, pending>>
serverv == <<server, serving, executed, unanswered>>
wires   == <<toServer, toClient, link>>
vars    == <<callers, clientv, serverv, wires>>

Results == {"ok", "io", "disconnected", "timeout"}
Elems(s) == {s[i] : i \in 1..Len(s)}

\* The shape of the state; the channel and the wires keep their bounds.
TypeOK ==
    /\ call \in [Requests -> {"idle", "calling", "waiting"} \cup Results]
    /\ answer \in [Requests -> Requests \cup {NoRequest}]
    /\ corr \in [Requests -> Nat] /\ nextId \in Nat
    /\ cmds \in Seq(Requests) /\ Len(cmds) \leq CmdCapacity
    /\ client \in {"select", "sending", "ended"}
    /\ outgoing \in Requests \cup {NoRequest}
    /\ (client = "sending") = (outgoing # NoRequest)
    /\ pending \subseteq Asks
    /\ toServer \in Seq(Requests) /\ Len(toServer) \leq WireCapacity
    /\ toClient \in Seq(Requests) /\ Len(toClient) \leq WireCapacity
    /\ server \in {"recv", "handling", "responding", "ended"}
    /\ serving \in Requests \cup {NoRequest}
    /\ (server \in {"handling", "responding"}) = (serving # NoRequest)
    /\ link \in BOOLEAN
    /\ executed \in Seq(Requests)
    /\ unanswered \subseteq Requests

Init ==
    /\ call = [r \in Requests |-> "idle"]
    /\ answer = [r \in Requests |-> NoRequest]
    /\ corr = [r \in Requests |-> 0] /\ nextId = 1
    /\ cmds = <<>> /\ client = "select" /\ outgoing = NoRequest /\ pending = {}
    /\ toServer = <<>> /\ toClient = <<>> /\ link = TRUE
    /\ server = "recv" /\ serving = NoRequest
    /\ executed = <<>> /\ unanswered = {}

-----------------------------------------------------------------------------
(* Callers.                                                                *)

\* The calls in R that still wait return the result.
Return(R, result) ==
    call' = [r \in Requests |-> IF r \in R /\ call[r] \in {"calling", "waiting"}
                                THEN result ELSE call[r]]

\* Faulty variant: the counter is read but not advanced.
CorrelationIdStuck(r) ==
    /\ corr' = [corr EXCEPT ![r] = nextId]
    /\ UNCHANGED nextId

\* RemoteAddr: next_correlation_id, an atomic fetch_add.
NextCorrelationId(r) ==
    /\ corr' = [corr EXCEPT ![r] = nextId]
    /\ nextId' = nextId + 1

\* ClusterClient: the literal 0, which every envelope has from Init.
ClusterCorrelationId(r) == corr[r] = 0 /\ UNCHANGED <<corr, nextId>>

\* RemoteAddr::send or do_send builds the envelope and asks for a slot of the
\* command channel.
Call(r) ==
    /\ call[r] = "idle"
    /\ call' = [call EXCEPT ![r] = "calling"]
    /\ IF UniqueIds THEN NextCorrelationId(r) ELSE ClusterCorrelationId(r)
    /\ UNCHANGED <<answer, clientv, serverv, wires>>

\* Faulty variant: the command channel is unbounded.
EnqueueUnbounded(r) ==
    /\ call[r] = "calling" /\ client # "ended"
    /\ cmds' = Append(cmds, r)
    /\ call' = [call EXCEPT ![r] = IF r \in Asks THEN "waiting" ELSE "ok"]
    /\ UNCHANGED <<answer, corr, nextId, client, outgoing, pending, serverv, wires>>

\* cmd_tx.send(..).await: a slot, or Disconnected once the client task is gone.
Enqueue(r) ==
    /\ call[r] = "calling"
    /\ \/ /\ client # "ended" /\ Len(cmds) < CmdCapacity
          /\ cmds' = Append(cmds, r)
          /\ call' = [call EXCEPT ![r] = IF r \in Asks THEN "waiting" ELSE "ok"]
       \/ /\ client = "ended"
          /\ Return({r}, "disconnected")
          /\ UNCHANGED cmds
    /\ UNCHANGED <<answer, corr, nextId, client, outgoing, pending, serverv, wires>>

\* send_timeout drops the future of send: a command not yet queued never will
\* be, one that is stays, and so does its entry in pending_requests.
Timeout(r) ==
    /\ r \in TimedAsks
    /\ call[r] \in {"calling", "waiting"}
    /\ Return({r}, "timeout")
    /\ UNCHANGED <<answer, corr, nextId, clientv, serverv, wires>>

-----------------------------------------------------------------------------
(* The client task.                                                        *)

SameId(r) == {s \in pending : corr[s] = corr[r]}

\* Faulty variant: the request is sent without being tracked.
TakeCommandUntracked ==
    /\ client = "select" /\ cmds # <<>>
    /\ cmds' = Tail(cmds)
    /\ client' = "sending" /\ outgoing' = Head(cmds)
    /\ UNCHANGED <<callers, pending, serverv, wires>>

\* Faulty variant: the command is not taken off the channel.
TakeCommandTwice ==
    /\ client = "select" /\ cmds # <<>>
    /\ client' = "sending" /\ outgoing' = Head(cmds)
    /\ pending' = pending \cup ({Head(cmds)} \cap Asks)
    /\ UNCHANGED <<callers, cmds, serverv, wires>>

\* cmd_rx.recv(): a request that wants a response is inserted under its id.  A
\* request that was there under the same id loses its oneshot and its caller
\* sees Disconnected.
TakeCommand ==
    /\ client = "select" /\ cmds # <<>>
    /\ LET r == Head(cmds) IN
         /\ cmds' = Tail(cmds)
         /\ client' = "sending" /\ outgoing' = r
         /\ IF r \in Asks
            THEN /\ pending' = (pending \ SameId(r)) \cup {r}
                 /\ Return(SameId(r), "disconnected")
            ELSE UNCHANGED <<pending, call>>
    /\ UNCHANGED <<answer, corr, nextId, serverv, wires>>

\* conn.send(envelope).await returns Ok.  On a broken connection the kernel
\* may still take the frame, and lose it.
ClientSend ==
    /\ client = "sending"
    /\ \/ /\ link /\ Len(toServer) < WireCapacity
          /\ toServer' = Append(toServer, outgoing)
       \/ ~link /\ UNCHANGED toServer
    /\ client' = "select" /\ outgoing' = NoRequest
    /\ UNCHANGED <<callers, cmds, pending, serverv, toClient, link>>

\* conn.send(envelope).await fails: whoever is registered under the id is told.
ClientSendFails ==
    /\ client = "sending" /\ ~link
    /\ client' = "select" /\ outgoing' = NoRequest
    /\ pending' = pending \ SameId(outgoing)
    /\ Return(SameId(outgoing), "io")
    /\ UNCHANGED <<answer, corr, nextId, cmds, serverv, wires>>

\* conn.recv() yields a response: its id is looked up and removed, and the
\* result goes to the caller if that still waits.
ClientRecv ==
    /\ client = "select" /\ toClient # <<>>
    /\ LET r == Head(toClient) IN
         /\ toClient' = Tail(toClient)
         /\ pending' = pending \ SameId(r)
         /\ Return(SameId(r), "ok")
         /\ answer' = [s \in Requests |->
                         IF s \in SameId(r) /\ call[s] = "waiting" THEN r
                                                                    ELSE answer[s]]
    /\ UNCHANGED <<corr, nextId, cmds, client, outgoing, serverv, toServer, link>>

\* Faulty variant: the loop goes on after Disconnected.
ClientDisconnectIgnored ==
    /\ client = "select" /\ ~link /\ toClient = <<>>
    /\ UNCHANGED vars

\* conn.recv() yields Disconnected: the task ends and drops the connection,
\* the commands still queued and pending_requests, oneshots included.
ClientDisconnect ==
    /\ client = "select" /\ ~link /\ toClient = <<>>
    /\ client' = "ended"
    /\ cmds' = <<>> /\ pending' = {}
    /\ Return(pending \cup Elems(cmds), "disconnected")
    /\ UNCHANGED <<answer, corr, nextId, outgoing, serverv, wires>>

-----------------------------------------------------------------------------
(* The server task.                                                        *)

ServerRecv ==
    /\ server = "recv" /\ toServer # <<>>
    /\ server' = "handling" /\ serving' = Head(toServer)
    /\ toServer' = Tail(toServer)
    /\ UNCHANGED <<callers, clientv, executed, unanswered, toClient, link>>

\* The EnvelopeHandler returns Some(response): the actor handled the message.
HandlerAnswers ==
    /\ server = "handling"
    /\ server' = "responding"
    /\ executed' = Append(executed, serving)
    /\ UNCHANGED <<callers, clientv, serving, unanswered, wires>>

\* The EnvelopeHandler returns None: a tell handler, no route, a payload that
\* does not decode, or an actor that stopped before or panicked while it
\* handled the message.  Nothing is sent back.
HandlerSilent ==
    /\ server = "handling"
    /\ server' = "recv" /\ serving' = NoRequest
    /\ unanswered' = unanswered \cup {serving}
    /\ executed' \in {executed, Append(executed, serving)}
    /\ UNCHANGED <<callers, clientv, wires>>

\* Faulty variant: a response that finds the socket full is dropped.
RespondOrDrop ==
    /\ server = "responding"
    /\ toClient' = IF link /\ Len(toClient) < WireCapacity
                   THEN Append(toClient, serving) ELSE toClient
    /\ server' = "recv" /\ serving' = NoRequest
    /\ UNCHANGED <<callers, clientv, executed, unanswered, toServer, link>>

\* The task after conn.send(response).await on a broken connection: the kernel
\* may still take the frame, or the send fails, which ends RemoteServer's task
\* and is ignored by that of the cluster server.
RespondFails == server' \in (IF UniqueIds THEN {"recv", "ended"} ELSE {"recv"})

\* conn.send(response).await.
Respond ==
    /\ server = "responding"
    /\ serving' = NoRequest
    /\ \/ /\ link /\ Len(toClient) < WireCapacity
          /\ toClient' = Append(toClient, serving)
          /\ server' = "recv"
       \/ ~link /\ RespondFails /\ UNCHANGED toClient
    /\ UNCHANGED <<callers, clientv, executed, unanswered, toServer, link>>

\* conn.recv() fails: the task ends.
ServerDisconnect ==
    /\ server = "recv" /\ ~link /\ toServer = <<>>
    /\ server' = "ended"
    /\ UNCHANGED <<callers, clientv, serving, executed, unanswered, wires>>

\* The connection breaks; of what is on the wires only a prefix arrives.  It is a
\* break that both ends come to notice: with no heartbeat in the protocol, one
\* that dies in silence looks like a peer that is slow, and is not modelled.
LinkDown ==
    /\ link
    /\ link' = FALSE
    /\ \E m \in 0..Len(toServer), n \in 0..Len(toClient) :
         /\ toServer' = SubSeq(toServer, 1, m)
         /\ toClient' = SubSeq(toClient, 1, n)
    /\ UNCHANGED <<callers, clientv, serverv>>

-----------------------------------------------------------------------------
ClientStep == \/ TakeCommand \/ ClientSend \/ ClientSendFails
              \/ ClientRecv \/ ClientDisconnect
ServerStep == \/ ServerRecv \/ HandlerAnswers \/ HandlerSilent
              \/ Respond \/ ServerDisconnect
CallStep(r) == Call(r) \/ Enqueue(r) \/ Timeout(r)

Next == ClientStep \/ ServerStep \/ LinkDown \/ \E r \in Requests : CallStep(r)

Spec == Init /\ [][Next]_vars

\* The two tasks run whenever they can, handlers end, and a caller takes a
\* slot that stays free.  Calls, timers and the network are free.
FairSpec ==
    /\ Spec
    /\ WF_vars(ClientStep) /\ WF_vars(ServerStep)
    /\ \A r \in Requests : WF_vars(Enqueue(r))

-----------------------------------------------------------------------------
\* A caller only ever gets the result of its own request, whatever was sent,
\* timed out or broke before ("Sends with correlation ID tracking for
\* concurrent requests").
AnswersMatch == \A r \in Requests : answer[r] \in {NoRequest, r}

\* A caller that waits can still be reached: its oneshot is in the command
\* channel or in pending_requests, where a response, a failure or the end of
\* the client task finds it.
NoForgottenCaller ==
    \A r \in Asks : call[r] = "waiting" => r \in pending \cup Elems(cmds)

\* What callers may conclude, see AtMostOnce.  An Ask refused by a client that
\* has ended is in doubt too: the error is the same one.
Status(r) ==
    CASE call[r] = "idle" -> "idle"
      [] call[r] \in {"calling", "waiting"} -> "pending"
      [] call[r] = "ok" -> "ok"
      [] OTHER -> IF r \in Asks THEN "doubt" ELSE "refused"

Contract == INSTANCE AtMostOnce
    WITH status <- [r \in Requests |-> Status(r)]

\* A remote call keeps the contract of a local one, at most one execution and
\* no answer without it, on a connection that may break at any time.
KeepsContract == Contract!Spec

\* Both tasks wait in send for the other to read.
Gridlock == /\ link /\ client = "sending" /\ Len(toServer) = WireCapacity
            /\ server = "responding" /\ Len(toClient) = WireCapacity

\* Neither task can go on, and no call can get a slot or be turned away.
AtRest ==
    /\ \/ client = "select" /\ link /\ cmds = <<>> /\ toClient = <<>>
       \/ client = "sending" /\ link /\ Len(toServer) = WireCapacity
       \/ client = "ended"
    /\ \/ server = "recv" /\ link /\ toServer = <<>>
       \/ server = "responding" /\ link /\ Len(toClient) = WireCapacity
       \/ server = "ended"
    /\ \A r \in Requests :
         call[r] = "calling" => client # "ended" /\ Len(cmds) = CmdCapacity

\* The two tasks never come to rest with a caller waiting for them, unless its
\* handler sent no response or the two ends block each other.
DeadlockIsGridlock ==
    AtRest =>
        \/ Gridlock
        \/ \A r \in Requests : call[r] \in {"calling", "waiting"} => r \in unanswered

\* Every call returns, unless its handler sends no response or the two ends
\* block each other.
AnsweredUnlessStuck ==
    \A r \in Requests :
        call[r] \in {"calling", "waiting"} ~>
            (call[r] \in Results \/ r \in unanswered \/ Gridlock)

\* When the connection breaks and its ends notice, everyone who waits is told.
LossIsReported ==
    \A r \in Requests :
        (~link /\ call[r] \in {"calling", "waiting"}) ~> call[r] \in Results
=============================================================================
