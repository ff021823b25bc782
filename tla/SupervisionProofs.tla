------------------------- MODULE SupervisionProofs -------------------------
(***************************************************************************)
(* Theorems about Supervision, for every set of actors and every bound.    *)
(***************************************************************************)
EXTENDS RestartTracker, FiniteSetTheorems, TLAPS

USE DEF family, channel, signals, outcome, vars

-----------------------------------------------------------------------------
(* Type correctness.                                                       *)

\* The initial state has the shape of a state.
LEMMA TypeInit == Init => TypeOK
BY BoundsAssumption DEF Init, TypeOK, PCs, InSelect, Ended, AllStrategies, Msgs

\* What LeaveLoop assigns has its type.
LEMMA LeaveLoopType ==
    ASSUME TypeOK, NEW a \in Actors, NEW permits \in SUBSET Actors,
           LeaveLoop(a, permits)
    PROVE  pc' \in [Actors -> PCs] /\ stopSignal' \subseteq Actors
BY DEF TypeOK, LeaveLoop, PCs

\* What the environment and user code do keeps the shape of the state.
LEMMA EnvType ==
    ASSUME TypeOK, NEW a \in Actors, EnvStep(a)
    PROVE  TypeOK'
<1> USE DEF TypeOK, PCs, InSelect, Ended, Input
<1>1. CASE Spawn(a)
      BY <1>1 DEF Spawn
<1>2. CASE Send(a)
      <2>1. Append(mailbox[a], UserMsg) \in Seq(Msgs)
            /\ Len(Append(mailbox[a], UserMsg)) = Len(mailbox[a]) + 1
            BY DEF Msgs
      <2> QED BY <1>2, <2>1, BoundsAssumption DEF Send
<1>3. CASE Stop(a)
      BY <1>3, BoundsAssumption DEF Stop
<1>4. ASSUME NEW c \in Actors, NEW s \in Strategies, SpawnChild(a, c, s)
      PROVE  TypeOK'
      BY <1>4, StrategiesAssumption DEF SpawnChild
<1>5. ASSUME NEW b \in Actors, Watch(a, b)
      PROVE  TypeOK'
      <2>1. watchers' \in [Actors -> [Actors -> Nat]]
            BY <1>5 DEF Watch, AddWatcher
      <2>2. inputs' \in 0..MaxInputs
            BY <1>5, BoundsAssumption DEF Watch
      <2>3. UNCHANGED <<pc, family, channel, signals, outcome>>
            BY <1>5 DEF Watch
      <2> QED BY <2>1, <2>2, <2>3 DEF family, channel, signals, outcome
<1>6. CASE PollStream(a)
      BY <1>6, BoundsAssumption DEF PollStream
<1>7. CASE HandlerPanic(a)
      BY <1>7, LeaveLoopType DEF HandlerPanic
<1>8. CASE HookPanic(a)
      BY <1>8, BoundsAssumption DEF HookPanic, DropTask
<1> QED BY <1>1, <1>2, <1>3, <1>4, <1>5, <1>6, <1>7, <1>8 DEF EnvStep

\* A child whose incarnation has panicked starts the next one, with a Context of
\* its own, or goes on to notify its watchers.
LEMMA RestartEffect ==
    ASSUME NEW a \in Actors, Restart(a)
    PROVE  /\ pc[a] = "stopping" /\ parent' = parent
           /\ \/ /\ pc' = [pc EXCEPT ![a] = "starting"]
                 /\ children' = [children EXCEPT ![a] = {}]
              \/ pc' = [pc EXCEPT ![a] = "notify"] /\ children' = children
BY Zenon DEF Restart, RecordRestart, MayRestart, StoppedReturns, NewIncarnation

\* What the runtime does with a task keeps the shape of the state.
LEMMA TaskType ==
    ASSUME TypeOK, NEW a \in Actors, TaskStep(a)
    PROVE  TypeOK'
<1> USE DEF TypeOK, PCs, InSelect, Ended
<1>1. CASE WatchChild(a)
      <2>1. spawning[a] \in Actors
            BY <1>1 DEF WatchChild
      <2>2. watchers' \in [Actors -> [Actors -> Nat]]
            BY <1>1, <2>1 DEF WatchChild, AddWatcher
      <2> QED BY <1>1, <2>2 DEF WatchChild
<1>2. CASE UserCodeReturn(a) \/ StreamsEnded(a) \/ RecvEmpty(a) \/ Finish(a)
      BY <1>2 DEF UserCodeReturn, StreamsEnded, RecvEmpty, Finish
<1>3. CASE RecvReady(a)
      <2>1. Tail(mailbox[a]) \in Seq(Msgs)
            /\ Len(Tail(mailbox[a])) = Len(mailbox[a]) - 1
            BY <1>3 DEF RecvReady
      <2>2. mailbox' \in [Actors -> Seq(Msgs)]
            /\ \A b \in Actors : Len(mailbox'[b]) \leq Capacity
            BY <1>3, <2>1, BoundsAssumption DEF RecvReady
      <2>3. heard' \in [Actors -> SUBSET Actors]
            BY <1>3 DEF RecvReady
      <2> QED BY <1>3, <2>2, <2>3 DEF RecvReady
<1>4. CASE PollSignals(a)
      BY <1>4, LeaveLoopType DEF PollSignals
<1>5. CASE PollEscalate(a)
      BY <1>5, LeaveLoopType DEF PollEscalate
<1>6. CASE Restart(a)
      <2>1. PICK kept \in 0..restarts[a] :
                \/ /\ kept < MaxRestarts
                   /\ restarts' = [restarts EXCEPT ![a] = kept + 1]
                   /\ pc' = [pc EXCEPT ![a] = "starting"]
                   /\ children' = [children EXCEPT ![a] = {}]
                   /\ escalate' = escalate \ {a}
                \/ /\ restarts' = [restarts EXCEPT ![a] = kept]
                   /\ pc' = [pc EXCEPT ![a] = "notify"]
                   /\ UNCHANGED <<children, escalate>>
            BY <1>6, Zenon DEF Restart, RecordRestart, NewIncarnation
      <2>2. restarts' \in [Actors -> 0..MaxRestarts]
            <3>1. restarts[a] \in 0..MaxRestarts
                  OBVIOUS
            <3>2. kept \in 0..MaxRestarts
                  /\ (kept < MaxRestarts => kept + 1 \in 0..MaxRestarts)
                  BY <3>1, BoundsAssumption
            <3> QED BY <2>1, <3>2
      <2>3. /\ pc' \in [Actors -> PCs]
            /\ children' \in [Actors -> SUBSET Actors]
            /\ escalate' \subseteq Actors
            BY <2>1
      <2> QED BY <1>6, <2>2, <2>3 DEF Restart, RecordRestart
<1>7. CASE Escalate(a)
      BY <1>7 DEF Escalate, IsTop
<1>8. ASSUME NEW w \in Actors, NotifyWatcher(a, w)
      PROVE  TypeOK'
      <2>1. Append(mailbox[w], a) \in Seq(Msgs)
            /\ Len(Append(mailbox[w], a)) = Len(mailbox[w]) + 1
            BY DEF Msgs
      <2>2. watchers[a][w] - 1 \in Nat
            BY <1>8 DEF NotifyWatcher
      <2>3. watchers' \in [Actors -> [Actors -> Nat]]
            BY <1>8, <2>2 DEF NotifyWatcher
      <2>4. mailbox' \in [Actors -> Seq(Msgs)]
            BY <1>8, <2>1 DEF NotifyWatcher
      <2>5. \A b \in Actors : Len(mailbox'[b]) \leq Capacity
            BY <1>8, <2>1, BoundsAssumption DEF NotifyWatcher
      <2> QED BY <1>8, <2>3, <2>4, <2>5 DEF NotifyWatcher
<1>9. CASE TopStops(a)
      BY <1>9 DEF TopStops
<1>10. CASE TaskEnd(a)
      BY <1>10, BoundsAssumption DEF TaskEnd, DropTask
<1> QED BY <1>1, <1>2, <1>3, <1>4, <1>5, <1>6, <1>7, <1>8, <1>9, <1>10
        DEF TaskStep, Progress

\* Every step keeps the shape of the state.
LEMMA TypeStep == TypeOK /\ [Next]_vars => TypeOK'
<1> SUFFICES ASSUME TypeOK, [Next]_vars PROVE TypeOK'
    OBVIOUS
<1>1. CASE Shutdown
      BY <1>1, BoundsAssumption DEF Shutdown, Input, TypeOK
<1>2. CASE UNCHANGED vars
      BY <1>2 DEF TypeOK
<1> QED BY <1>1, <1>2, EnvType, TaskType DEF Next

\* The state keeps its shape, no mailbox exceeds its capacity and no tracker
\* remembers more than max_restarts restarts.
THEOREM TypeCorrect == Spec => []TypeOK
BY TypeInit, TypeStep, PTL DEF Spec

-----------------------------------------------------------------------------
\* Append keeps the elements of a sequence and adds its argument.
LEMMA AppendElements ==
    ASSUME NEW S, NEW s \in Seq(S), NEW e \in S,
           NEW i \in 1..Len(Append(s, e))
    PROVE  \/ i \in 1..Len(s) /\ Append(s, e)[i] = s[i]
           \/ Append(s, e)[i] = e
<1>1. Len(s) \in Nat /\ Len(Append(s, e)) = Len(s) + 1
      OBVIOUS
<1>2. i \in 1..Len(s) \/ i = Len(s) + 1
      BY <1>1
<1> QED BY <1>1, <1>2

LEMMA NonEmptyLen ==
    ASSUME NEW S, NEW s \in Seq(S), s # <<>>
    PROVE  Len(s) \in Nat /\ Len(s) # 0
OBVIOUS

(* The death watch.                                                        *)

\* No step brings a task back from notify_watchers or from beyond it.
LEMMA GoneStable ==
    ASSUME TypeOK, [Next]_vars, NEW b \in Actors, Gone(b)
    PROVE  Gone(b)'
<1> USE DEF Gone, IsTop, Ended, TypeOK
<1>1. CASE Shutdown \/ UNCHANGED vars
      BY <1>1 DEF Shutdown
<1>2. ASSUME NEW a \in Actors, EnvStep(a)
      PROVE  Gone(b)'
      <2>1. CASE Spawn(a) \/ Send(a) \/ Stop(a) \/ PollStream(a) \/ HookPanic(a)
            BY <2>1 DEF Spawn, Send, Stop, PollStream, HookPanic, DropTask
      <2>2. ASSUME NEW c \in Actors, NEW s \in Strategies, SpawnChild(a, c, s)
            PROVE  Gone(b)'
            BY <2>2 DEF SpawnChild
      <2>3. ASSUME NEW c \in Actors, Watch(a, c)
            PROVE  Gone(b)'
            BY <2>3 DEF Watch
      <2>4. CASE HandlerPanic(a)
            BY <2>4 DEF HandlerPanic, LeaveLoop
      <2> QED BY <1>2, <2>1, <2>2, <2>3, <2>4 DEF EnvStep
<1>3. ASSUME NEW a \in Actors, TaskStep(a)
      PROVE  Gone(b)'
      <2>1. CASE WatchChild(a) \/ StreamsEnded(a) \/ RecvReady(a) \/ RecvEmpty(a)
            BY <2>1 DEF WatchChild, StreamsEnded, RecvReady, RecvEmpty
      <2>2. CASE UserCodeReturn(a)
            BY <2>2 DEF UserCodeReturn, InUserCode, UserCode
      <2>3. CASE PollSignals(a) \/ PollEscalate(a)
            BY <2>3 DEF PollSignals, PollEscalate, LeaveLoop
      <2>4. CASE Finish(a) \/ Restart(a) \/ Escalate(a)
            BY <2>4 DEF Finish, Restart, RecordRestart, MayRestart, NewIncarnation, Escalate,
                        StoppedReturns
      <2>5. ASSUME NEW w \in Actors, NotifyWatcher(a, w)
            PROVE  Gone(b)'
            BY <2>5 DEF NotifyWatcher
      <2>6. CASE TopStops(a) \/ TaskEnd(a)
            BY <2>6 DEF TopStops, TaskEnd, NotifyDone, StoppedReturns, DropTask
      <2> QED BY <1>3, <2>1, <2>2, <2>3, <2>4, <2>5, <2>6 DEF TaskStep, Progress
<1> QED BY <1>1, <1>2, <1>3 DEF Next

\* An actor is told of b's termination only by b's own notify_watchers.
LEMMA ToldByNotify ==
    ASSUME TypeOK, [Next]_vars, NEW b \in Actors, NEW w \in Actors, Told(w, b)'
    PROVE  Told(w, b) \/ pc[b] = "notify"
<1> USE DEF Told, TypeOK
<1>1. CASE UNCHANGED channel
      BY <1>1
<1>2. ASSUME NEW a \in Actors, Send(a)
      PROVE  Told(w, b)
      <2>1. CASE a = w
            <3>1. /\ mailbox'[w] = Append(mailbox[w], UserMsg)
                  /\ mailbox[w] \in Seq(Msgs) /\ UserMsg \in Msgs
                  /\ heard' = heard
                  BY <1>2, <2>1 DEF Send, Msgs
            <3>2. ASSUME NEW i \in 1..Len(mailbox'[w]), mailbox'[w][i] = b
                  PROVE  i \in 1..Len(mailbox[w]) /\ mailbox[w][i] = b
                  <4>1. b # UserMsg
                        BY ActorsAssumption
                  <4> HIDE DEF Told, TypeOK
                  <4> QED BY <3>1, <3>2, <4>1, AppendElements
            <3> QED BY <3>1, <3>2
      <2>2. CASE a # w
            BY <1>2, <2>2 DEF Send
      <2> QED BY <2>1, <2>2
<1>3. ASSUME NEW a \in Actors, RecvReady(a)
      PROVE  Told(w, b)
      <2>1. CASE a = w
            <3>1. /\ mailbox'[w] = Tail(mailbox[w])
                  /\ mailbox[w] \in Seq(Msgs) /\ mailbox[w] # <<>>
                  /\ heard'[w] = heard[w] \cup ({Head(mailbox[w])} \cap Actors)
                  BY <1>3, <2>1 DEF RecvReady
            <3>2. CASE b \in heard'[w]
                  <4>1. b \in heard[w] \/ b = mailbox[w][1]
                        BY <3>1, <3>2
                  <4>2. Len(mailbox[w]) \in Nat /\ Len(mailbox[w]) # 0
                        BY <3>1, NonEmptyLen
                  <4> HIDE DEF TypeOK
                  <4>3. 1 \in 1..Len(mailbox[w])
                        BY <4>2
                  <4> QED BY <4>1, <4>3
            <3>3. ASSUME NEW i \in 1..Len(mailbox'[w]), mailbox'[w][i] = b
                  PROVE  Told(w, b)
                  <4>1. i + 1 \in 1..Len(mailbox[w]) /\ mailbox[w][i + 1] = b
                        BY <3>1, <3>3
                  <4> QED BY <4>1
            <3> QED BY <3>2, <3>3
      <2>2. CASE a # w
            BY <1>3, <2>2 DEF RecvReady
      <2> QED BY <2>1, <2>2
<1>4. ASSUME NEW a \in Actors, NEW v \in Actors, NotifyWatcher(a, v)
      PROVE  Told(w, b) \/ pc[b] = "notify"
      <2>1. pc[a] = "notify" /\ heard' = heard
            /\ mailbox'[w] \in {mailbox[w], Append(mailbox[w], a)}
            BY <1>4 DEF NotifyWatcher
      <2>2. mailbox[w] \in Seq(Msgs) /\ a \in Msgs
            BY DEF Msgs
      <2>3. ASSUME NEW i \in 1..Len(mailbox'[w]), mailbox'[w][i] = b
            PROVE  \/ b = a
                   \/ i \in 1..Len(mailbox[w]) /\ mailbox[w][i] = b
            <3>1. CASE mailbox'[w] = mailbox[w]
                  BY <2>3, <3>1
            <3>2. CASE mailbox'[w] = Append(mailbox[w], a)
                  <4> HIDE DEF TypeOK
                  <4>1. i \in 1..Len(Append(mailbox[w], a))
                        BY <3>2
                  <4>2. \/ /\ i \in 1..Len(mailbox[w])
                           /\ Append(mailbox[w], a)[i] = mailbox[w][i]
                        \/ Append(mailbox[w], a)[i] = a
                        BY <2>2, <4>1, AppendElements
                  <4> QED BY <2>3, <3>2, <4>2
            <3> QED BY <2>1, <3>1, <3>2
      <2> QED BY <2>1, <2>3
<1>5. ASSUME NEW a \in Actors, DropTask(a, "dead") \/ DropTask(a, "crashed"),
             heard' = heard
      PROVE  Told(w, b)
      <2>1. mailbox'[w] = mailbox[w] \/ mailbox'[w] = <<>>
            BY <1>5 DEF DropTask
      <2>2. CASE mailbox'[w] = mailbox[w]
            BY <1>5, <2>2
      <2>3. CASE mailbox'[w] = <<>>
            <3>1. ~ \E i \in 1..Len(mailbox'[w]) : mailbox'[w][i] = b
                  BY <2>3
            <3> QED BY <1>5, <3>1
      <2> QED BY <2>1, <2>2, <2>3
<1>6. ASSUME NEW a \in Actors, EnvStep(a)
      PROVE  Told(w, b) \/ pc[b] = "notify"
      <2>1. \/ UNCHANGED channel \/ Send(a)
            \/ DropTask(a, "crashed") /\ heard' = heard
            BY <1>6 DEF EnvStep, Spawn, Stop, SpawnChild, Watch, PollStream,
                        HandlerPanic, HookPanic
      <2> QED BY <2>1, <1>1, <1>2, <1>5
<1>7. ASSUME NEW a \in Actors, TaskStep(a)
      PROVE  Told(w, b) \/ pc[b] = "notify"
      <2>1. \/ UNCHANGED channel \/ RecvReady(a)
            \/ \E v \in Actors : NotifyWatcher(a, v)
            \/ DropTask(a, "dead") /\ heard' = heard
            BY <1>7 DEF TaskStep, Progress, WatchChild, UserCodeReturn, StreamsEnded,
                        RecvEmpty, PollSignals, PollEscalate, Finish, Restart, RecordRestart,
                        Escalate, TopStops, TaskEnd
      <2> QED BY <2>1, <1>1, <1>3, <1>4, <1>5
<1>8. CASE Shutdown \/ UNCHANGED vars
      BY <1>8, <1>1 DEF Shutdown
<1> QED BY <1>6, <1>7, <1>8 DEF Next

\* No step tells of an end that is not final, or undoes one that was told.
LEMMA TerminatedStep ==
    TypeOK /\ TerminatedIsFinal /\ [Next]_vars => TerminatedIsFinal'
<1> SUFFICES ASSUME TypeOK, TerminatedIsFinal, [Next]_vars,
                    NEW a \in Actors, NEW w \in Actors, Told(w, a)'
             PROVE  Gone(a)'
    BY DEF TerminatedIsFinal
<1>1. Told(w, a) \/ pc[a] = "notify"
      BY ToldByNotify
<1>2. Gone(a)
      BY <1>1 DEF TerminatedIsFinal, Gone
<1> QED BY <1>2, GoneStable

\* Death watch is final: an actor that is told of another's termination will
\* never see it handle a message again, restarts or not.
THEOREM DeathWatchIsFinal == Spec => []TerminatedIsFinal
<1>1. Init => TerminatedIsFinal
      BY DEF Init, TerminatedIsFinal, Told
<1> QED BY <1>1, TypeInit, TypeStep, TerminatedStep, PTL DEF Spec

-----------------------------------------------------------------------------
(* Escalation.                                                             *)

\* As long as p's escalate permit is there, a failed child stays one.
LEMMA FailedStable ==
    ASSUME TypeOK, [Next]_vars, NEW p \in Actors, NEW c \in Actors,
           FailedUnder(p, c), p \in escalate'
    PROVE  FailedUnder(p, c)'
<1> USE DEF FailedUnder, TypeOK
<1>0. parent[c] # NoActor
      BY ActorsAssumption
<1>1. CASE Shutdown \/ UNCHANGED vars
      BY <1>1 DEF Shutdown
<1>2. ASSUME NEW a \in Actors, EnvStep(a)
      PROVE  FailedUnder(p, c)'
      <2>1. CASE Spawn(a) \/ Send(a) \/ Stop(a) \/ PollStream(a) \/ HookPanic(a)
            BY <2>1 DEF Spawn, Send, Stop, PollStream, HookPanic, DropTask
      <2>2. ASSUME NEW d \in Actors, NEW s \in Strategies, SpawnChild(a, d, s)
            PROVE  FailedUnder(p, c)'
            BY <2>2 DEF SpawnChild
      <2>3. ASSUME NEW d \in Actors, Watch(a, d)
            PROVE  FailedUnder(p, c)'
            BY <2>3 DEF Watch
      <2>4. CASE HandlerPanic(a)
            BY <2>4 DEF HandlerPanic, LeaveLoop
      <2> QED BY <1>2, <2>1, <2>2, <2>3, <2>4 DEF EnvStep
<1>3. ASSUME NEW a \in Actors, TaskStep(a)
      PROVE  FailedUnder(p, c)'
      <2>1. CASE WatchChild(a) \/ StreamsEnded(a) \/ RecvReady(a) \/ RecvEmpty(a)
            BY <2>1 DEF WatchChild, StreamsEnded, RecvReady, RecvEmpty
      <2>2. CASE UserCodeReturn(a)
            BY <2>2 DEF UserCodeReturn, InUserCode, UserCode
      <2>3. CASE PollSignals(a) \/ PollEscalate(a)
            BY <2>3 DEF PollSignals, PollEscalate, LeaveLoop
      <2>4. CASE Finish(a) \/ Escalate(a)
            BY <2>4 DEF Finish, Escalate, StoppedReturns
      <2>5. CASE Restart(a)
            <3>1. a # c /\ UNCHANGED <<parent, strategy, panicked>>
                  BY <2>5 DEF Restart, RecordRestart, MayRestart, StoppedReturns
            <3>2. \/ escalate' = escalate \ {a}
                  \/ UNCHANGED children
                  BY <2>5 DEF Restart, RecordRestart
            <3>3. \A b \in Actors : b # a => pc'[b] = pc[b] /\ children'[b] = children[b]
                  BY <2>5 DEF Restart, RecordRestart, NewIncarnation
            <3> QED BY <3>1, <3>2, <3>3
      <2>6. ASSUME NEW w \in Actors, NotifyWatcher(a, w)
            PROVE  FailedUnder(p, c)'
            BY <2>6 DEF NotifyWatcher
      <2>7. CASE TopStops(a) \/ TaskEnd(a)
            BY <2>7, <1>0 DEF TopStops, TaskEnd, NotifyDone, StoppedReturns,
                              DropTask, IsTop
      <2> QED BY <1>3, <2>1, <2>2, <2>3, <2>4, <2>5, <2>6, <2>7 DEF TaskStep, Progress
<1> QED BY <1>1, <1>2, <1>3 DEF Next

\* A permit appears only with the failed child that explains it.
LEMMA EscalationStep ==
    TypeOK /\ EscalationIsCurrent /\ [Next]_vars => EscalationIsCurrent'
<1> SUFFICES ASSUME TypeOK, EscalationIsCurrent, [Next]_vars,
                    NEW p \in Actors, p \in escalate'
             PROVE  \E c \in Actors : FailedUnder(p, c)'
    BY TypeStep DEF EscalationIsCurrent, TypeOK
<1>1. CASE p \in escalate
      BY <1>1, FailedStable DEF EscalationIsCurrent
<1>2. CASE p \notin escalate
      <2>1. PICK a \in Actors : Escalate(a)
            BY <1>2, ZenonT(60)
            DEF Next, Shutdown, EnvStep, Spawn, Send, Stop, SpawnChild,
                 Watch, PollStream, HandlerPanic, HookPanic, TaskStep, Progress,
                 WatchChild, UserCodeReturn, StreamsEnded, RecvReady, RecvEmpty,
                 PollSignals, PollEscalate, Finish, Restart, RecordRestart, NewIncarnation,
                 NotifyWatcher, TopStops, TaskEnd
      <2>2. FailedUnder(p, a)'
            BY <1>2, <2>1 DEF Escalate, FailedUnder, TypeOK
      <2> QED BY <2>2
<1> QED BY <1>1, <1>2

\* A parent's incarnation is only brought down by a child of its own.
THEOREM EscalationsAreCurrent == Spec => []EscalationIsCurrent
<1>1. Init => EscalationIsCurrent
      BY DEF Init, EscalationIsCurrent
<1> QED BY <1>1, TypeInit, TypeStep, EscalationStep, PTL DEF Spec

-----------------------------------------------------------------------------
(* Orphans.                                                                *)

\* A doomed actor stays doomed: its stop permit survives everything but the
\* exit it causes, and that exit is never followed by a restart.
LEMMA DoomedStable ==
    ASSUME TypeOK, [Next]_vars, NEW b \in Actors, Doomed(b)
    PROVE  Doomed(b)'
<1> USE DEF Doomed, TypeOK
<1>0. CASE Gone(b)
      BY <1>0, GoneStable
<1> SUFFICES ASSUME ~Gone(b) PROVE Doomed(b)'
    BY <1>0
<1>1. CASE Shutdown \/ UNCHANGED vars
      BY <1>1 DEF Shutdown, Gone, IsTop
<1>2. ASSUME NEW a \in Actors, EnvStep(a)
      PROVE  Doomed(b)'
      <2>1. CASE Spawn(a) \/ Send(a) \/ Stop(a) \/ PollStream(a) \/ HookPanic(a)
            BY <2>1 DEF Spawn, Send, Stop, PollStream, HookPanic, DropTask,
                        Gone, Ended
      <2>2. ASSUME NEW d \in Actors, NEW s \in Strategies, SpawnChild(a, d, s)
            PROVE  Doomed(b)'
            BY <2>2 DEF SpawnChild
      <2>3. ASSUME NEW d \in Actors, Watch(a, d)
            PROVE  Doomed(b)'
            BY <2>3 DEF Watch
      <2>4. CASE HandlerPanic(a)
            BY <2>4 DEF HandlerPanic, LeaveLoop
      <2> QED BY <1>2, <2>1, <2>2, <2>3, <2>4 DEF EnvStep
<1>3. ASSUME NEW a \in Actors, TaskStep(a)
      PROVE  Doomed(b)'
      <2>1. CASE WatchChild(a) \/ StreamsEnded(a) \/ RecvReady(a) \/ RecvEmpty(a)
            BY <2>1 DEF WatchChild, StreamsEnded, RecvReady, RecvEmpty
      <2>2. CASE UserCodeReturn(a)
            BY <2>2 DEF UserCodeReturn, InUserCode, UserCode
      <2>3. CASE PollSignals(a) \/ PollEscalate(a)
            BY <2>3 DEF PollSignals, PollEscalate, LeaveLoop, Gone, IsTop
      <2>4. CASE Finish(a) \/ Restart(a) \/ Escalate(a)
            BY <2>4 DEF Finish, Restart, RecordRestart, MayRestart, NewIncarnation, Escalate,
                        StoppedReturns, Gone
      <2>5. ASSUME NEW w \in Actors, NotifyWatcher(a, w)
            PROVE  Doomed(b)'
            BY <2>5 DEF NotifyWatcher
      <2>6. CASE TopStops(a) \/ TaskEnd(a)
            BY <2>6 DEF TopStops, TaskEnd, NotifyDone, StoppedReturns, DropTask,
                        Gone, Ended
      <2> QED BY <1>3, <2>1, <2>2, <2>3, <2>4, <2>5, <2>6 DEF TaskStep, Progress
<1> QED BY <1>1, <1>2, <1>3 DEF Next

\* An incarnation's children are abandoned only by the step that stops them.
LEMMA AbandonedIsDoomed ==
    ASSUME TypeOK, ~StoppedSpawns, [Next]_vars, NEW b \in Actors,
           Abandoned(b)', ~Abandoned(b)
    PROVE  Doomed(b)'
<1> USE DEF Abandoned
<1>t. /\ pc \in [Actors -> PCs] /\ parent \in [Actors -> Actors \cup {NoActor}]
      /\ children \in [Actors -> SUBSET Actors] /\ stopSignal \subseteq Actors
      BY DEF TypeOK
<1>0. ASSUME UNCHANGED <<parent, children>>, NEW a \in Actors,
             NEW q, q \notin {"stopping", "dead", "notify"},
             pc' = [pc EXCEPT ![a] = q]
      PROVE  FALSE
      BY <1>t, <1>0 DEF IsTop
<1> USE DEF TypeOK
<1>1. CASE Shutdown \/ UNCHANGED vars
      BY <1>1 DEF Shutdown, IsTop
<1>2. ASSUME NEW a \in Actors, EnvStep(a)
      PROVE  Doomed(b)'
      <2>1. CASE Spawn(a) \/ PollStream(a) \/ HookPanic(a)
            <3>1. /\ UNCHANGED <<parent, children>>
                  /\ \E q \in {"starting", "streaming", "crashed"} :
                        pc' = [pc EXCEPT ![a] = q]
                  BY <2>1 DEF Spawn, PollStream, HookPanic, DropTask, family
            <3>2. PICK q \in {"starting", "streaming", "crashed"} :
                        pc' = [pc EXCEPT ![a] = q]
                  BY <3>1
            <3> QED BY <1>0, <3>1, <3>2
      <2>5. CASE Send(a) \/ Stop(a)
            <3>1. UNCHANGED <<pc, parent, children>>
                  BY <2>5 DEF Send, Stop, family
            <3> QED BY <3>1 DEF IsTop
      <2>2. ASSUME NEW d \in Actors, NEW s \in Strategies, SpawnChild(a, d, s)
            PROVE  Doomed(b)'
            BY <2>2, ActorsAssumption
               DEF SpawnChild, InUserCode, UserCode, IsTop
      <2>3. ASSUME NEW d \in Actors, Watch(a, d)
            PROVE  Doomed(b)'
            BY <2>3 DEF Watch, IsTop
      <2>4. CASE HandlerPanic(a)
            BY <2>4 DEF HandlerPanic, LeaveLoop, IsTop, Doomed
      <2> QED BY <1>2, <2>1, <2>2, <2>3, <2>4, <2>5 DEF EnvStep
<1>3. ASSUME NEW a \in Actors, TaskStep(a)
      PROVE  Doomed(b)'
      <2>1. CASE WatchChild(a)
            <3>1. UNCHANGED <<pc, parent, children>>
                  BY <2>1 DEF WatchChild
            <3> QED BY <3>1 DEF IsTop
      <2>2. CASE UserCodeReturn(a) \/ StreamsEnded(a) \/ RecvReady(a) \/ RecvEmpty(a)
            <3>1. /\ UNCHANGED <<parent, children>>
                  /\ \E q \in {"select", "poll_signals", "handling"} :
                        pc' = [pc EXCEPT ![a] = q]
                  BY <2>2 DEF UserCodeReturn, StreamsEnded, RecvReady, RecvEmpty, family
            <3>2. PICK q \in {"select", "poll_signals", "handling"} :
                        pc' = [pc EXCEPT ![a] = q]
                  BY <3>1
            <3> QED BY <1>0, <3>1, <3>2
      <2>3. CASE PollSignals(a) \/ PollEscalate(a)
            <3>1. ASSUME NEW q \in {"poll_escalate", "select"},
                         pc' = [pc EXCEPT ![a] = q]
                  PROVE  Doomed(b)'
                  <4>1. UNCHANGED <<parent, children>>
                        BY <2>3 DEF PollSignals, PollEscalate, family
                  <4> QED BY <1>0, <3>1, <4>1
            <3>2. ASSUME NEW permits \in SUBSET Actors, LeaveLoop(a, permits)
                  PROVE  Doomed(b)'
                  <4>1. UNCHANGED <<parent, children>>
                        BY <2>3 DEF PollSignals, PollEscalate, family
                  <4> QED BY <3>2, <4>1 DEF LeaveLoop, IsTop, Doomed
            <3> QED BY <2>3, <3>1, <3>2 DEF PollSignals, PollEscalate
      <2>4. CASE Finish(a) \/ Escalate(a)
            <3>1. /\ pc' = [pc EXCEPT ![a] = "notify"] /\ pc[a] = "stopping"
                  /\ parent' = parent /\ children' = children
                  BY <2>4 DEF Finish, Escalate, StoppedReturns
            <3> QED BY <3>1 DEF IsTop
      <2>5. CASE Restart(a)
            <3>1. pc[a] = "stopping" /\ parent' = parent
                  BY <2>5, RestartEffect
            <3>2. \/ pc' = [pc EXCEPT ![a] = "starting"]
                     /\ children' = [children EXCEPT ![a] = {}]
                  \/ pc' = [pc EXCEPT ![a] = "notify"] /\ children' = children
                  BY <2>5, RestartEffect
            <3> QED BY <3>1, <3>2 DEF IsTop
      <2>6. ASSUME NEW w \in Actors, NotifyWatcher(a, w)
            PROVE  Doomed(b)'
            BY <2>6 DEF NotifyWatcher, IsTop
      <2>7. CASE TopStops(a)
            BY <2>7 DEF TopStops, IsTop, Doomed
      <2>8. CASE TaskEnd(a)
            BY <2>8 DEF TaskEnd, NotifyDone, StoppedReturns, DropTask, IsTop
      <2> QED BY <1>3, <2>1, <2>2, <2>3, <2>4, <2>5, <2>6, <2>7, <2>8
              DEF TaskStep, Progress
<1> QED BY <1>1, <1>2, <1>3 DEF Next

\* No step abandons a child without dooming it, or saves a doomed one.
LEMMA NoOrphansStep == TypeOK /\ NoOrphans /\ [Next]_vars => NoOrphans'
<1> SUFFICES ASSUME TypeOK, NoOrphans, [Next]_vars, ~StoppedSpawns,
                    NEW c \in Actors, Abandoned(c)'
             PROVE  Doomed(c)'
    BY DEF NoOrphans
<1>1. CASE Abandoned(c)
      BY <1>1, DoomedStable DEF NoOrphans
<1>2. CASE ~Abandoned(c)
      BY <1>2, AbandonedIsDoomed
<1> QED BY <1>1, <1>2

\* "Stops when parent stops": no incarnation that leaves its loop in an orderly
\* way leaves a child behind that is not stopping or about to be stopped,
\* unless stopped() itself spawns one.
THEOREM NoChildIsOrphaned == Spec => []NoOrphans
<1>1. Init => NoOrphans
      BY ActorsAssumption DEF Init, NoOrphans, Abandoned
<1> QED BY <1>1, TypeInit, TypeStep, NoOrphansStep, PTL DEF Spec

\* What a step may never do: lose a stop, or undo an end.
StopIsKept == \A c \in Actors : (Doomed(c) => Doomed(c)') /\ (Gone(c) => Gone(c)')

\* A stop cannot be lost and an end cannot be undone, by a message, a panic, a
\* restart, an escalation or the end of the parent: the safety half of
\* StopIsObeyed and of ChildStopsWithParent.
THEOREM StopsAreKept == Spec => [][StopIsKept]_vars
<1>1. TypeOK /\ [Next]_vars => [StopIsKept]_vars
      BY DoomedStable, GoneStable DEF StopIsKept
<1> QED BY <1>1, TypeCorrect, PTL DEF Spec

-----------------------------------------------------------------------------
(* Families.                                                               *)

\* Context.children of an incarnation holds only actors that were spawned through
\* it, the one being spawned among them, so that stop_children (context.rs 84)
\* reaches nobody else's child and two actors have none in common.
Families ==
    \A p \in Actors :
        /\ \A c \in children[p] : parent[c] = p /\ Born(c) /\ c # p
        /\ spawning[p] # NoActor => spawning[p] \in children[p]

\* Only spawn_child, its watch and a restart touch a family.
LEMMA FamiliesStep ==
    ASSUME TypeOK, Families, [Next]_vars
    PROVE  Families'
<1> USE DEF Families, Born, TypeOK
<1>1. CASE UNCHANGED family /\ \A c \in Actors : Born(c) => Born(c)'
      BY <1>1 DEF family
<1>2. ASSUME NEW a \in Actors, NEW c \in Actors, NEW s \in Strategies, SpawnChild(a, c, s)
      PROVE  Families'
      <2>1. a # c /\ \A p \in Actors : c \notin children[p]
            BY <1>2 DEF SpawnChild, InUserCode, UserCode
      <2>2. c # NoActor /\ spawning[a] = NoActor
            BY <1>2, ActorsAssumption DEF SpawnChild, InUserCode
      <2>3. /\ parent'[c] = a /\ \A d \in Actors : d # c => parent'[d] = parent[d]
            /\ pc'[c] = "starting" /\ \A d \in Actors : d # c => pc'[d] = pc[d]
            BY <1>2 DEF SpawnChild
      <2>4. /\ children'[a] = children[a] \cup {c} /\ spawning'[a] = c
            /\ \A p \in Actors : p # a => children'[p] = children[p]
                                       /\ spawning'[p] = spawning[p]
            BY <1>2 DEF SpawnChild
      <2>5. \A p \in Actors : children[p] \subseteq Actors
            OBVIOUS
      <2> HIDE DEF TypeOK
      <2> QED BY <2>1, <2>2, <2>3, <2>4, <2>5
<1>3. ASSUME NEW a \in Actors, WatchChild(a)
      PROVE  Families'
      <2>1. /\ UNCHANGED <<pc, parent, children>>
            /\ \A p \in Actors : spawning'[p] \in {spawning[p], NoActor}
            BY <1>3 DEF WatchChild
      <2> HIDE DEF TypeOK
      <2> QED BY <2>1
<1>4. ASSUME NEW a \in Actors, Restart(a)
      PROVE  Families'
      <2>1. spawning[a] = NoActor
            BY <1>4 DEF Restart, RecordRestart, MayRestart, StoppedReturns
      <2>2. \A c \in Actors : Born(c) => Born(c)'
            <3>1. pc' = [pc EXCEPT ![a] = "starting"] \/ pc' = [pc EXCEPT ![a] = "notify"]
                  BY <1>4 DEF Restart, RecordRestart, NewIncarnation
            <3> QED BY <3>1
      <2>3. /\ UNCHANGED <<parent, spawning>>
            /\ children' = children \/ children' = [children EXCEPT ![a] = {}]
            BY <1>4 DEF Restart, RecordRestart, NewIncarnation
      <2>4. children \in [Actors -> SUBSET Actors]
            OBVIOUS
      <2> HIDE DEF TypeOK
      <2>5. \A p \in Actors :
                \/ children'[p] = children[p]
                \/ p = a /\ children'[p] = {}
            BY <2>3, <2>4
      <2> QED BY <2>1, <2>2, <2>3, <2>4, <2>5
<1>5. ASSUME NEW a \in Actors, EnvStep(a) \/ TaskStep(a)
      PROVE  \/ \E c \in Actors, s \in Strategies : SpawnChild(a, c, s)
             \/ WatchChild(a) \/ Restart(a)
             \/ UNCHANGED family /\ \A c \in Actors : Born(c) => Born(c)'
      <2>1. CASE Spawn(a) \/ Send(a) \/ Stop(a) \/ PollStream(a) \/ HandlerPanic(a)
                 \/ HookPanic(a) \/ \E b \in Actors : Watch(a, b)
            BY <2>1 DEF Spawn, Send, Stop, PollStream, HandlerPanic, HookPanic, Watch,
                        LeaveLoop, DropTask
      <2>2. CASE UserCodeReturn(a) \/ StreamsEnded(a) \/ RecvReady(a) \/ RecvEmpty(a)
            BY <2>2 DEF UserCodeReturn, StreamsEnded, RecvReady, RecvEmpty
      <2>3. CASE PollSignals(a) \/ PollEscalate(a)
            BY <2>3 DEF PollSignals, PollEscalate, LeaveLoop
      <2>4. CASE Finish(a) \/ Escalate(a) \/ TopStops(a) \/ TaskEnd(a)
                 \/ \E w \in Actors : NotifyWatcher(a, w)
            BY <2>4 DEF Finish, Escalate, TopStops, TaskEnd, NotifyWatcher, DropTask
      <2> QED BY <1>5, <2>1, <2>2, <2>3, <2>4 DEF EnvStep, TaskStep, Progress
<1>6. CASE Shutdown \/ UNCHANGED vars
      BY <1>1, <1>6 DEF Shutdown, vars
<1> HIDE DEF Families, Born, TypeOK
<1> QED BY <1>1, <1>2, <1>3, <1>4, <1>5, <1>6 DEF Next

\* The family tree is sound: whoever is stopped with a parent, or brings one down
\* by escalation, is a child that this parent spawned, and no actor has two.
THEOREM FamilyTheorem == Spec => []Families
<1>1. Init => Families
      BY DEF Init, Families
<1>2. TypeOK /\ Families /\ [Next]_vars => Families'
      BY FamiliesStep
<1> QED BY <1>1, <1>2, TypeCorrect, PTL DEF Spec

-----------------------------------------------------------------------------
(* Escalations.                                                            *)

\* What a step may never do: take an escalation away from an incarnation that
\* goes on with its receive loop.
EscalationIsKept ==
    \A p \in escalate : InLoop(p) => p \in escalate' \/ ~InLoop(p)'

\* Messages, streams, stops and failures of others leave the permit where it is
\* until the last branch of the select! (context.rs 295) takes it and breaks: the
\* safety half of EscalationIsObeyed.
THEOREM EscalationsAreKept == Spec => [][EscalationIsKept]_vars
<1>1. ASSUME TypeOK, Next PROVE EscalationIsKept
      <2> USE <1>1 DEF EscalationIsKept
      <2>1. CASE Shutdown
            BY <2>1 DEF Shutdown
      <2>2. ASSUME NEW a \in Actors, EnvStep(a) PROVE escalate' = escalate
            BY <2>2 DEF EnvStep, Spawn, Send, Stop, SpawnChild, Watch, PollStream,
                        HandlerPanic, HookPanic
      <2>3. ASSUME NEW a \in Actors, PollEscalate(a) PROVE EscalationIsKept
            <3>1. CASE a \in escalate
                  <4>1. escalate' = escalate \ {a} /\ pc'[a] \in {"notify", "stopping"}
                        BY <2>3, <3>1 DEF PollEscalate, LeaveLoop, TypeOK
                  <4> QED BY <4>1 DEF InLoop, InSelect
            <3>2. CASE a \notin escalate
                  BY <2>3, <3>2 DEF PollEscalate
            <3> QED BY <3>1, <3>2
      <2>4. ASSUME NEW a \in Actors, Restart(a) PROVE EscalationIsKept
            <3>1. escalate' \in {escalate, escalate \ {a}}
                  BY <2>4 DEF Restart, RecordRestart
            <3>2. ~InLoop(a)
                  BY <2>4, RestartEffect DEF InLoop, InSelect
            <3> QED BY <3>1, <3>2
      <2>5. ASSUME NEW a \in Actors, Progress(a), ~PollEscalate(a)
            PROVE  escalate \subseteq escalate'
            BY <2>5 DEF Progress, WatchChild, UserCodeReturn, StreamsEnded, RecvReady,
                        RecvEmpty, PollSignals, Finish, Escalate, NotifyWatcher,
                        TopStops, TaskEnd
      <2> QED BY <2>1, <2>2, <2>3, <2>4, <2>5 DEF Next, TaskStep
<1>2. TypeOK /\ [Next]_vars => [EscalationIsKept]_vars
      BY <1>1
<1> QED BY <1>2, TypeCorrect, PTL DEF Spec

-----------------------------------------------------------------------------
(* The restart tracker.                                                    *)

\* The number that Supervision keeps is the length of restart_times, and of the
\* restarts in the window none is missing there.
TrackerOK ==
    /\ ages \in [Actors -> Seq(0..Expired)]
    /\ restart_times \in [Actors -> SUBSET Nat]
    /\ \A a \in Actors : /\ restart_times[a] \subseteq DOMAIN ages[a]
                         /\ InWindow(a) \subseteq restart_times[a]
                         /\ restarts[a] = Cardinality(restart_times[a])

\* What retain leaves is the window.
LEMMA RecentIsWindow ==
    ASSUME TrackerOK, NEW a \in Actors
    PROVE  /\ Recent(a) = InWindow(a) /\ IsFiniteSet(Recent(a))
           /\ Cardinality(Recent(a)) \in 0..restarts[a]
           /\ Recent(a) \subseteq 1..Len(ages[a]) /\ Len(ages[a]) \in Nat
<1>1. ages[a] \in Seq(0..Expired)
      BY DEF TrackerOK
<1>2. Len(ages[a]) \in Nat /\ DOMAIN ages[a] = 1..Len(ages[a])
      BY <1>1
<1>3. restart_times[a] \subseteq 1..Len(ages[a]) /\ Recent(a) = InWindow(a)
      BY <1>2 DEF TrackerOK, Recent, InWindow
<1>4. IsFiniteSet(1..Len(ages[a]))
      BY <1>2, FS_Interval
<1>5. IsFiniteSet(restart_times[a]) /\ Recent(a) \in SUBSET restart_times[a]
      BY <1>3, <1>4, FS_Subset DEF Recent
<1>6. IsFiniteSet(Recent(a)) /\ Cardinality(Recent(a)) \leq Cardinality(restart_times[a])
      BY <1>5, FS_Subset
<1>7. Cardinality(Recent(a)) \in Nat /\ Cardinality(restart_times[a]) \in Nat
      BY <1>5, <1>6, FS_CardinalityType
<1> QED BY <1>2, <1>3, <1>5, <1>6, <1>7 DEF TrackerOK

\* Time only takes restarts out of the window.
LEMMA TickKeepsTracker ==
    ASSUME TrackerOK, Tick
    PROVE  TrackerOK'
<1> USE WindowAssumption DEF Expired
<1>1. ASSUME NEW a \in Actors
      PROVE  /\ DOMAIN ages'[a] = DOMAIN ages[a]
             /\ ages'[a] \in Seq(0..Expired)
             /\ InWindow(a)' \subseteq InWindow(a)
      <2>1. ages[a] \in Seq(0..Expired)
            BY DEF TrackerOK
      <2>2. /\ Len(ages[a]) \in Nat /\ DOMAIN ages[a] = 1..Len(ages[a])
            /\ \A k \in DOMAIN ages[a] : ages[a][k] \in 0..Expired
            BY <2>1
      <2>3. ages'[a] = [k \in DOMAIN ages[a] |->
                          IF ages[a][k] < Expired THEN ages[a][k] + 1 ELSE Expired]
            BY DEF Tick
      <2>4. /\ DOMAIN ages'[a] = DOMAIN ages[a]
            /\ \A k \in DOMAIN ages[a] : /\ ages'[a][k] \in 0..Expired
                                         /\ ages'[a][k] \leq Within => ages[a][k] \leq Within
            BY <2>2, <2>3
      <2>5. ages'[a] \in [1..Len(ages[a]) -> 0..Expired]
            BY <2>2, <2>3, <2>4
      <2>6. ages'[a] \in Seq(0..Expired)
            BY <2>2, <2>5
      <2> QED BY <2>4, <2>6 DEF InWindow
<1>2. ages' \in [Actors -> Seq(0..Expired)]
      BY <1>1 DEF Tick
<1>3. UNCHANGED <<restarts, restart_times>>
      BY DEF Tick
<1> QED BY <1>1, <1>2, <1>3 DEF TrackerOK

\* A restart enters the window and restart_times in one step.
LEMMA RestartKeepsTracker ==
    ASSUME TypeOK, TrackerOK, NEW a \in Actors, TimedRestart(a)
    PROVE  TrackerOK' /\ Restart(a)
<1> DEFINE recent == Recent(a)
           kept   == Cardinality(recent)
           n      == Len(ages[a])
<1>1. /\ recent = InWindow(a) /\ IsFiniteSet(recent) /\ kept \in 0..restarts[a]
      /\ recent \subseteq 1..n /\ n \in Nat
      BY RecentIsWindow
<1>2. Restart(a)
      BY <1>1 DEF Restart, TimedRestart
<1>t. /\ restarts \in [Actors -> 0..MaxRestarts] /\ restarts[a] \in Nat /\ kept \in Nat
      BY <1>1, BoundsAssumption DEF TypeOK
<1>3. CASE kept < MaxRestarts
      <2>1. /\ ages' = [ages EXCEPT ![a] = Append(ages[a], 0)]
            /\ restart_times' = [restart_times EXCEPT ![a] = recent \cup {n + 1}]
            /\ restarts' = [restarts EXCEPT ![a] = kept + 1]
            BY <1>3 DEF TimedRestart, RecordRestart, NewIncarnation
      <2>2. ages[a] \in Seq(0..Expired) /\ 0 \in 0..Expired
            BY WindowAssumption DEF TrackerOK, Expired
      <2>3. /\ Append(ages[a], 0) \in Seq(0..Expired)
            /\ DOMAIN Append(ages[a], 0) = 1..(n + 1)
            /\ \A k \in 1..n : Append(ages[a], 0)[k] = ages[a][k]
            /\ DOMAIN ages[a] = 1..n
            BY <2>2
      <2>4. ages' \in [Actors -> Seq(0..Expired)] /\ ages'[a] = Append(ages[a], 0)
            BY <2>1, <2>3 DEF TrackerOK
      <2>5. /\ restart_times' \in [Actors -> SUBSET Nat]
            /\ restart_times'[a] = recent \cup {n + 1} /\ restarts'[a] = kept + 1
            BY <1>1, <1>t, <2>1 DEF TrackerOK
      <2>6. restart_times'[a] \subseteq DOMAIN ages'[a]
            BY <1>1, <2>3, <2>4, <2>5
      <2>7. InWindow(a)' \subseteq restart_times'[a]
            <3>1. ASSUME NEW k \in 1..(n + 1), ages'[a][k] \leq Within, k # n + 1
                  PROVE  k \in recent
                  <4>1. k \in 1..n
                        BY <1>1, <3>1
                  <4> QED BY <1>1, <2>3, <2>4, <3>1, <4>1 DEF InWindow
            <3> QED BY <2>3, <2>4, <2>5, <3>1 DEF InWindow
      <2>8. Cardinality(restart_times'[a]) = kept + 1
            <3>1. n + 1 \notin recent
                  BY <1>1
            <3> QED BY <1>1, <2>5, <3>1, FS_AddElement
      <2>9. \A b \in Actors \ {a} : /\ ages'[b] = ages[b] /\ restarts'[b] = restarts[b]
                                    /\ restart_times'[b] = restart_times[b]
            BY <1>t, <2>1 DEF TrackerOK
      <2> QED BY <1>2, <2>4, <2>5, <2>6, <2>7, <2>8, <2>9 DEF TrackerOK, InWindow
<1>4. CASE ~(kept < MaxRestarts)
      <2>1. /\ ages' = ages
            /\ restart_times' = [restart_times EXCEPT ![a] = recent]
            /\ restarts' = [restarts EXCEPT ![a] = kept]
            BY <1>4 DEF TimedRestart, RecordRestart
      <2>2. restart_times' \in [Actors -> SUBSET Nat] /\ restart_times'[a] = recent
            BY <1>1, <2>1 DEF TrackerOK
      <2>3. restarts'[a] = kept /\ recent \subseteq DOMAIN ages[a]
            BY <1>1, <1>t, <2>1 DEF InWindow
      <2>4. \A b \in Actors \ {a} : /\ restarts'[b] = restarts[b]
                                    /\ restart_times'[b] = restart_times[b]
            BY <1>t, <2>1 DEF TrackerOK
      <2> QED BY <1>1, <1>2, <2>1, <2>2, <2>3, <2>4 DEF TrackerOK, InWindow
<1> QED BY <1>3, <1>4

\* The steps that Supervision and the tracker have in common.
SharedStep == Shutdown \/ \E a \in Actors : EnvStep(a) \/ Progress(a)

\* Only record_restart counts restarts.
LEMMA SharedKeepsCount == SharedStep => UNCHANGED restarts
<1>1. Shutdown => UNCHANGED restarts
      BY DEF Shutdown
<1>2. ASSUME NEW a \in Actors, EnvStep(a) PROVE UNCHANGED restarts
      BY <1>2 DEF EnvStep, Spawn, Send, Stop, SpawnChild, Watch, PollStream, HandlerPanic,
                  HookPanic
<1>3. ASSUME NEW a \in Actors, Progress(a) PROVE UNCHANGED restarts
      BY <1>3 DEF Progress, WatchChild, UserCodeReturn, StreamsEnded, RecvReady, RecvEmpty,
                  PollSignals, PollEscalate, Finish, Escalate, NotifyWatcher, TopStops,
                  TaskEnd
<1> QED BY <1>1, <1>2, <1>3 DEF SharedStep

\* Every step of the timed tasks is one of Supervision, or time passes.
LEMMA TimedStep ==
    ASSUME TypeOK, TrackerOK, [TimedNext]_timedVars
    PROVE  TrackerOK' /\ [Next]_vars
<1>1. CASE Tick
      BY <1>1, TickKeepsTracker DEF Tick
<1>2. ASSUME NEW a \in Actors, TimedRestart(a) PROVE TrackerOK' /\ Next
      BY <1>2, RestartKeepsTracker DEF Next, TaskStep
<1>3. CASE SharedStep /\ UNCHANGED tracker
      <2>1. UNCHANGED restarts
            BY <1>3, SharedKeepsCount
      <2>2. TrackerOK'
            BY <1>3, <2>1 DEF TrackerOK, InWindow, tracker
      <2>3. Next
            BY <1>3 DEF SharedStep, Next, TaskStep
      <2> QED BY <2>2, <2>3
<1>4. CASE UNCHANGED timedVars
      BY <1>4 DEF TrackerOK, InWindow, timedVars, tracker
<1> QED BY <1>1, <1>2, <1>3, <1>4 DEF TimedNext, TimedTaskStep, SharedStep

\* At first nobody has restarted.
LEMMA TrackerStart == Init /\ TrackerInit => TrackerOK
BY FS_EmptySet DEF Init, TrackerInit, TrackerOK, InWindow

\* TypeOK and TrackerOK hold always.
LEMMA TrackerInvariant == TimedSpec => [](TypeOK /\ TrackerOK)
<1>1. TypeOK /\ TrackerOK /\ [TimedNext]_timedVars => TypeOK' /\ TrackerOK'
      BY TimedStep, TypeStep
<1> QED BY <1>1, TypeInit, TrackerStart, PTL DEF TimedSpec

\* With its clock the tracker does what Supervision leaves open: every behaviour
\* of the timed tasks is one of Supervision, whose theorems hold of it.
THEOREM TrackerRefines == TimedSpec => Spec
<1>1. TypeOK /\ TrackerOK /\ [TimedNext]_timedVars => [Next]_vars
      BY TimedStep
<1> QED BY <1>1, TrackerInvariant, PTL DEF TimedSpec, Spec

\* What record_restart did not let pass cannot be in the window.
THEOREM LimitTheorem == TimedSpec => []RestartsAreLimited
<1>1. ASSUME TypeOK, TrackerOK, NEW a \in Actors
      PROVE  Cardinality(InWindow(a)) \leq MaxRestarts
      <2>1. Cardinality(InWindow(a)) \in 0..restarts[a]
            BY <1>1, RecentIsWindow
      <2>2. restarts[a] \in 0..MaxRestarts
            BY <1>1 DEF TypeOK
      <2> QED BY <2>1, <2>2, BoundsAssumption
<1>2. TypeOK /\ TrackerOK => RestartsAreLimited
      BY <1>1 DEF RestartsAreLimited
<1> QED BY <1>2, TrackerInvariant, PTL

\* Nothing but record_restart decides about a child that has panicked.
LEMMA OnlyRecordDecides ==
    ASSUME TypeOK, SharedStep, NEW a \in Actors, MayRestart(a)
    PROVE  pc'[a] \notin {"starting", "notify"}
<1>1. /\ pc \in [Actors -> PCs] /\ pc[a] = "stopping" /\ ~IsTop(a)
      /\ a \in panicked /\ strategy[a] = "Restart"
      BY DEF TypeOK, MayRestart, StoppedReturns
<1>2. CASE Shutdown
      BY <1>1, <1>2 DEF Shutdown
<1>3. ASSUME NEW b \in Actors, EnvStep(b) PROVE pc'[a] \in {"stopping", "crashed"}
      <2>1. CASE Spawn(b)
            BY <1>1, <2>1 DEF Spawn
      <2>2. ASSUME NEW c \in Actors, NEW s \in Strategies, SpawnChild(b, c, s)
            PROVE  pc'[a] = "stopping"
            BY <1>1, <2>2 DEF SpawnChild
      <2>3. CASE HandlerPanic(b)
            BY <1>1, <2>3 DEF HandlerPanic, LeaveLoop
      <2>4. CASE PollStream(b) \/ HookPanic(b)
            BY <1>1, <2>4 DEF PollStream, HookPanic, DropTask
      <2>5. CASE Send(b) \/ Stop(b) \/ \E c \in Actors : Watch(b, c)
            BY <1>1, <2>5 DEF Send, Stop, Watch
      <2> QED BY <1>3, <2>1, <2>2, <2>3, <2>4, <2>5 DEF EnvStep
<1>4. ASSUME NEW b \in Actors, Progress(b) PROVE pc'[a] = "stopping"
      <2>1. CASE Finish(b) \/ Escalate(b)
            <3>1. b # a /\ pc' = [pc EXCEPT ![b] = "notify"]
                  BY <1>1, <2>1 DEF Finish, Escalate
            <3> QED BY <1>1, <3>1
      <2>2. CASE TaskEnd(b)
            <3>1. b # a /\ pc' = [pc EXCEPT ![b] = "dead"]
                  BY <1>1, <2>2 DEF TaskEnd, NotifyDone, DropTask
            <3> QED BY <1>1, <3>1
      <2>3. CASE TopStops(b)
            BY <1>1, <2>3 DEF TopStops
      <2>4. CASE WatchChild(b) \/ \E w \in Actors : NotifyWatcher(b, w)
            BY <1>1, <2>4 DEF WatchChild, NotifyWatcher
      <2>5. CASE UserCodeReturn(b) \/ StreamsEnded(b) \/ RecvReady(b) \/ RecvEmpty(b)
            BY <1>1, <2>5 DEF UserCodeReturn, StreamsEnded, RecvReady, RecvEmpty
      <2>6. CASE PollSignals(b) \/ PollEscalate(b)
            <3>1. b # a /\ \A c \in Actors : c # b => pc'[c] = pc[c]
                  BY <1>1, <2>6 DEF PollSignals, PollEscalate, LeaveLoop
            <3> QED BY <1>1, <3>1
      <2> QED BY <1>4, <2>1, <2>2, <2>3, <2>4, <2>5, <2>6 DEF Progress
<1> QED BY <1>2, <1>3, <1>4 DEF SharedStep

\* The answer of record_restart, for any window, any limit and any interleaving
\* with other tasks, is the one that the full history of restarts would give.
THEOREM WindowTheorem == TimedSpec => RestartsFollowWindow
<1>1. ASSUME TypeOK, TrackerOK, TimedNext, NEW a \in Actors
      PROVE  FollowsWindow(a)
      <2> USE DEF FollowsWindow
      <2>1. CASE Tick
            BY <2>1 DEF Tick, MayRestart, StoppedReturns
      <2>2. CASE SharedStep
            BY <1>1, <2>2, OnlyRecordDecides
      <2>3. ASSUME NEW b \in Actors, TimedRestart(b)
            PROVE  FollowsWindow(a)
            <3>1. pc \in [Actors -> PCs]
                  BY <1>1 DEF TypeOK
            <3>2. Recent(b) = InWindow(b)
                  BY <1>1, RecentIsWindow
            <3>3. \/ /\ Cardinality(InWindow(b)) < MaxRestarts
                     /\ pc' = [pc EXCEPT ![b] = "starting"]
                  \/ /\ ~(Cardinality(InWindow(b)) < MaxRestarts)
                     /\ pc' = [pc EXCEPT ![b] = "notify"]
                  BY <2>3, <3>2 DEF TimedRestart, RecordRestart, NewIncarnation
            <3>4. CASE a = b
                  BY <3>1, <3>3, <3>4
            <3>5. CASE a # b
                  <4>1. pc'[a] = pc[a]
                        BY <3>1, <3>3, <3>5
                  <4> QED BY <4>1 DEF MayRestart, StoppedReturns
            <3> QED BY <3>4, <3>5
      <2> QED BY <1>1, <2>1, <2>2, <2>3 DEF TimedNext, TimedTaskStep, SharedStep
<1>2. TypeOK /\ TrackerOK /\ [TimedNext]_timedVars => [AllFollowWindow]_timedVars
      BY <1>1 DEF AllFollowWindow
<1> QED BY <1>2, TrackerInvariant, PTL DEF TimedSpec, RestartsFollowWindow
=============================================================================
