--------------------------- MODULE MailboxProofs ---------------------------
(***************************************************************************)
(* Proofs about the calls on one actor's address, for any requests and any   *)
(* capacity: no wake-up is lost, messages are handled in order, and the      *)
(* mailbox implements the contract of AtMostOnce.                           *)
(***************************************************************************)
EXTENDS Mailbox, FiniteSetTheorems, SequenceTheorems, TLAPS

\* Append and Tail, entry by entry.
LEMMA AppendEntries ==
    ASSUME NEW S, NEW s \in Seq(S), NEW x \in S
    PROVE  /\ Append(s, x) \in Seq(S)
           /\ Len(Append(s, x)) = Len(s) + 1
           /\ Len(s) \in Nat
           /\ \A i \in 1 .. Len(s) + 1 :
                Append(s, x)[i] = IF i = Len(s) + 1 THEN x ELSE s[i]
  OBVIOUS

LEMMA TailEntries ==
    ASSUME NEW S, NEW s \in Seq(S), s # <<>>
    PROVE  /\ Tail(s) \in Seq(S)
           /\ Len(s) \in Nat \ {0}
           /\ Len(Tail(s)) = Len(s) - 1
           /\ Head(s) = s[1]
           /\ Head(s) \in S
           /\ \A i \in 1 .. Len(s) - 1 : Tail(s)[i] = s[i + 1]
  OBVIOUS
-----------------------------------------------------------------------------
(* Slots.                                                                  *)

\* Whoever waits for a slot or was granted one is still blocked, stands in the
\* queue once and is not both.
WaitersAreBlocked ==
    open =>
        /\ \A r \in granted : call[r] = "blocked"
        /\ \A i \in 1 .. Len(waiters) :
            /\ call[waiters[i]] = "blocked"
            /\ waiters[i] \notin granted
            /\ \A j \in 1 .. Len(waiters) : waiters[i] = waiters[j] => i = j

SlotInv == TypeOK /\ IsFiniteSet(granted) /\ WaitersAreBlocked /\ NoLostWakeup

\* The channel has a place for a message that enters: types and slots are kept
\* when a caller that nobody else knows of enters, and when a granted one does.
LEMMA SlotStep == ASSUME MailboxAssumption, SlotInv, [Next]_vars PROVE SlotInv'
  <1> USE DEF SlotInv, MailboxAssumption
  <1>0. /\ Len(queue) \in Nat /\ Len(waiters) \in Nat /\ Cardinality(granted) \in Nat
        /\ Len(queue) + Cardinality(granted) \leq Capacity
        /\ queue \in Seq(Requests) /\ waiters \in Seq(Requests)
        /\ accepted \in Seq(Requests) /\ handled \in Seq(Requests)
        /\ Capacity \in Nat
    BY FS_CardinalityType DEF TypeOK
  <1>a. waiters = <<>> <=> Len(waiters) = 0
    BY <1>0, EmptySeq
  <1>1. ASSUME NEW r \in Requests, Enter(r)
        PROVE  /\ call' \in [Requests -> {"idle", "blocked", "waiting"} \cup Results]
               /\ call'[r] # "blocked"
               /\ \A q \in Requests \ {r} : call'[q] = call[q]
               /\ queue' \in Seq(Requests) /\ Len(queue') = Len(queue) + 1
               /\ accepted' \in Seq(Requests)
    <2>1. /\ queue' \in Seq(Requests) /\ Len(queue') = Len(queue) + 1
          /\ accepted' \in Seq(Requests)
      BY <1>0, <1>1, AppendEntries DEF Enter
    <2> QED  BY <1>1, <2>1 DEF Enter, Return, TypeOK, Results
  <1>2. ASSUME NEW r \in Requests, NEW result \in {"blocked"} \cup Results, Return(r, result)
        PROVE  /\ call' \in [Requests -> {"idle", "blocked", "waiting"} \cup Results]
               /\ call'[r] = result
               /\ \A q \in Requests \ {r} : call'[q] = call[q]
    BY <1>2 DEF Return, TypeOK, Results
  \* Nobody whose call ends was in the queue for a slot.
  <1>3. ASSUME NEW r \in Requests, call[r] # "blocked",
               \A q \in Requests \ {r} : call'[q] = call[q],
               UNCHANGED <<waiters, granted, open>>
        PROVE  WaitersAreBlocked'
    <2>1. \A i \in 1 .. Len(waiters) : waiters[i] \in Requests  BY <1>0
    <2>2. granted \subseteq Requests  BY DEF TypeOK
    <2> QED  BY <1>3, <2>1, <2>2 DEF WaitersAreBlocked
  <1>4. ASSUME NEW r \in Requests, Send(r) PROVE SlotInv'
    <2> USE <1>4
    <2>1. CASE ~open /\ Return(r, "closed") /\ UNCHANGED <<queue, accepted, waiters>>
      <3>1. UNCHANGED <<open, granted, current, replied, dropped, handled>>  BY DEF Send
      <3>2. WaitersAreBlocked' /\ NoLostWakeup'
        BY <2>1, <3>1 DEF WaitersAreBlocked, NoLostWakeup
      <3> QED  BY <1>2, <2>1, <3>1, <3>2 DEF TypeOK, Results
    <2>2. CASE open /\ SlotFree /\ waiters = <<>> /\ Enter(r) /\ UNCHANGED waiters
      <3>1. UNCHANGED <<open, granted, current, replied, dropped, handled>>  BY DEF Send
      <3>2. call[r] # "blocked"  BY DEF Send
      <3>3. WaitersAreBlocked'  BY <1>1, <1>3, <2>2, <3>1, <3>2
      <3>4. NoLostWakeup'  BY <2>2 DEF NoLostWakeup
      <3>5. TypeOK'  BY <1>0, <1>1, <2>2, <3>1 DEF TypeOK, SlotFree
      <3> QED  BY <3>1, <3>3, <3>4, <3>5
    <2>3. CASE /\ open /\ ~(SlotFree /\ waiters = <<>>)
               /\ waiters' = Append(waiters, r) /\ Return(r, "blocked")
               /\ UNCHANGED <<queue, accepted>>
      <3>1. UNCHANGED <<open, granted, current, replied, dropped, handled>>  BY DEF Send
      <3>2. call[r] = "idle"  BY DEF Send
      <3>3. TypeOK'
        <4>1. waiters' \in Seq(Requests)  BY <1>0, <2>3, AppendEntries
        <4> QED  BY <1>2, <2>3, <3>1, <4>1 DEF TypeOK
      <3>4. ~SlotFree  BY <2>3 DEF NoLostWakeup
      <3>5. NoLostWakeup'  BY <2>3, <3>1, <3>4 DEF NoLostWakeup, SlotFree
      <3>6. WaitersAreBlocked'
        <4>1. granted \subseteq Requests  BY DEF TypeOK
        <4>2. \A i \in 1 .. Len(waiters) : waiters[i] \in Requests  BY <1>0
        <4>3. r \notin granted /\ \A i \in 1 .. Len(waiters) : waiters[i] # r
          BY <2>3, <3>2 DEF WaitersAreBlocked
        <4>4. /\ Len(waiters') = Len(waiters) + 1
              /\ \A i \in 1 .. Len(waiters) + 1 :
                    waiters'[i] = IF i = Len(waiters) + 1 THEN r ELSE waiters[i]
          BY <1>0, <2>3, AppendEntries
        <4>5. \A i \in 1 .. Len(waiters) + 1 : i = Len(waiters) + 1 \/ i \in 1 .. Len(waiters)
          BY <1>0
        <4>6. call'[r] = "blocked" /\ \A q \in Requests \ {r} : call'[q] = call[q]
          BY <1>2, <2>3
        <4>7. \A q \in granted' : call'[q] = "blocked"
          BY <2>3, <3>1, <4>1, <4>6 DEF WaitersAreBlocked
        <4>8. ASSUME NEW i \in 1 .. Len(waiters')
              PROVE  /\ call'[waiters'[i]] = "blocked"
                     /\ waiters'[i] \notin granted'
                     /\ \A j \in 1 .. Len(waiters') : waiters'[i] = waiters'[j] => i = j
          BY <2>3, <3>1, <4>2, <4>3, <4>4, <4>5, <4>6 DEF WaitersAreBlocked
        <4> QED  BY <4>7, <4>8 DEF WaitersAreBlocked
      <3> QED  BY <3>1, <3>3, <3>5, <3>6
    <2> QED  BY <2>1, <2>2, <2>3 DEF Send
  <1>5. ASSUME NEW r \in Requests, TrySend(r) PROVE SlotInv'
    <2>1. UNCHANGED <<open, granted, waiters, current, replied, dropped, handled>>
      BY <1>5 DEF TrySend
    <2>2. call[r] # "blocked"  BY <1>5 DEF TrySend
    <2>3. CASE open /\ SlotFree /\ Enter(r)
      <3>1. waiters = <<>>  BY <2>3 DEF NoLostWakeup
      <3>2. WaitersAreBlocked'  BY <1>1, <1>3, <2>1, <2>2, <2>3
      <3>3. NoLostWakeup'  BY <2>1, <3>1 DEF NoLostWakeup
      <3>4. TypeOK'  BY <1>0, <1>1, <2>1, <2>3 DEF TypeOK, SlotFree
      <3> QED  BY <2>1, <3>2, <3>3, <3>4
    <2>4. ASSUME NEW result \in {"closed", "full"}, Return(r, result),
                 UNCHANGED <<queue, accepted>>
          PROVE  SlotInv'
      <3>1. result \in {"blocked"} \cup Results  BY DEF Results
      <3>2. WaitersAreBlocked'  BY <1>2, <1>3, <2>1, <2>2, <2>4, <3>1
      <3>3. NoLostWakeup'  BY <2>1, <2>4 DEF NoLostWakeup, SlotFree
      <3>4. TypeOK'  BY <1>2, <2>1, <2>4, <3>1 DEF TypeOK
      <3> QED  BY <2>1, <3>2, <3>3, <3>4
    <2> QED  BY <1>5, <2>3, <2>4 DEF TrySend
  <1>6. ASSUME NEW r \in Requests, Unblock(r) PROVE SlotInv'
    <2>1. UNCHANGED <<open, waiters, current, replied, dropped, handled>>
      BY <1>6 DEF Unblock
    <2>2. granted' = granted \ {r}  BY <1>6 DEF Unblock
    <2>3. /\ IsFiniteSet(granted')
          /\ Cardinality(granted') =
                IF r \in granted THEN Cardinality(granted) - 1 ELSE Cardinality(granted)
      BY <2>2, FS_RemoveElement
    <2>4. CASE open /\ r \in granted /\ Enter(r)
      <3>1. TypeOK'  BY <1>0, <1>1, <2>1, <2>2, <2>3, <2>4 DEF TypeOK
      <3>2. NoLostWakeup'
        BY <1>0, <1>1, <2>1, <2>3, <2>4 DEF NoLostWakeup, SlotFree
      <3>3. WaitersAreBlocked'
        <4>1. granted \subseteq Requests  BY DEF TypeOK
        <4>2. \A i \in 1 .. Len(waiters) : waiters[i] \in Requests \ {r}
          BY <1>0, <2>4 DEF WaitersAreBlocked
        <4> QED  BY <1>1, <2>1, <2>2, <2>4, <4>1, <4>2 DEF WaitersAreBlocked
      <3> QED  BY <2>3, <3>1, <3>2, <3>3
    <2>5. CASE ~open /\ Return(r, "closed") /\ UNCHANGED <<queue, accepted>>
      <3>1. WaitersAreBlocked' /\ NoLostWakeup'
        BY <2>1, <2>5 DEF WaitersAreBlocked, NoLostWakeup
      <3>2. TypeOK'  BY <1>0, <1>2, <2>1, <2>2, <2>3, <2>5 DEF TypeOK, Results
      <3> QED  BY <2>3, <3>1, <3>2
    <2> QED  BY <1>6, <2>4, <2>5 DEF Unblock
  <1>7. ASSUME NEW r \in Requests, Await(r) \/ Timeout(r) PROVE SlotInv'
    <2>1. UNCHANGED <<waiters, granted, queue, current, open, replied, dropped,
                      accepted, handled>>
      BY <1>7 DEF Await, Timeout
    <2>2. call[r] # "blocked"  BY <1>7 DEF Await, Timeout
    <2>3. PICK result \in {"blocked"} \cup Results : Return(r, result)
      BY <1>7 DEF Await, Timeout, Results
    <2>4. WaitersAreBlocked'  BY <1>2, <1>3, <2>1, <2>2, <2>3
    <2>5. NoLostWakeup'  BY <2>1 DEF NoLostWakeup, SlotFree
    <2>6. TypeOK'  BY <1>2, <2>1, <2>3 DEF TypeOK
    <2> QED  BY <2>1, <2>4, <2>5, <2>6
  <1>8. ASSUME Recv PROVE SlotInv'
    <2>1. UNCHANGED <<call, open, replied, dropped, accepted>> /\ open  BY <1>8 DEF Recv
    <2>2. /\ queue' \in Seq(Requests) /\ Len(queue') = Len(queue) - 1
          /\ current' \in Requests /\ handled' \in Seq(Requests)
          /\ Len(queue) > 0
      <3>1. queue # <<>>  BY <1>8 DEF Recv
      <3>2. Head(queue) \in Requests  BY <1>0, <3>1, TailEntries
      <3>3. Append(handled, Head(queue)) \in Seq(Requests)
        BY <1>0, <3>2, AppendEntries
      <3> QED  BY <1>0, <1>8, <3>1, <3>2, <3>3, TailEntries DEF Recv
    <2>3. CASE waiters = <<>> /\ UNCHANGED <<waiters, granted>>
      BY <1>0, <2>1, <2>2, <2>3 DEF TypeOK, WaitersAreBlocked, NoLostWakeup
    <2>4. CASE /\ waiters # <<>>
               /\ granted' = granted \cup {Head(waiters)} /\ waiters' = Tail(waiters)
      <3>1. /\ waiters' \in Seq(Requests) /\ Len(waiters) \in Nat \ {0}
            /\ Len(waiters') = Len(waiters) - 1
            /\ Head(waiters) = waiters[1] /\ Head(waiters) \in Requests
            /\ \A i \in 1 .. Len(waiters) - 1 : waiters'[i] = waiters[i + 1]
        BY <1>0, <2>4, TailEntries
      <3>2. Head(waiters) \notin granted /\ call[Head(waiters)] = "blocked"
        BY <2>1, <3>1 DEF WaitersAreBlocked
      <3>3. IsFiniteSet(granted') /\ Cardinality(granted') = Cardinality(granted) + 1
        BY <2>4, <3>2, FS_AddElement
      <3>4. TypeOK'
        <4>1. granted' \subseteq Requests  BY <2>4, <3>1 DEF TypeOK
        <4>2. Len(queue') + Cardinality(granted') \leq Capacity  BY <1>0, <2>2, <3>3
        <4> QED  BY <2>1, <2>2, <3>1, <4>1, <4>2 DEF TypeOK
      <3>5. NoLostWakeup'
        BY <1>0, <2>1, <2>2, <2>4, <3>3 DEF NoLostWakeup, SlotFree
      <3>6. WaitersAreBlocked'
        <4>1. \A i \in 1 .. Len(waiters') :
                /\ i + 1 \in 1 .. Len(waiters) /\ i + 1 # 1
                /\ waiters'[i] = waiters[i + 1]
          BY <3>1
        <4>2. 1 \in 1 .. Len(waiters)  BY <3>1
        <4>3. \A i \in 1 .. Len(waiters') : waiters'[i] # Head(waiters)
          BY <2>1, <3>1, <4>1, <4>2 DEF WaitersAreBlocked
        <4>4. \A q \in granted' : call'[q] = "blocked"
          BY <2>1, <2>4, <3>2 DEF WaitersAreBlocked
        <4>5. ASSUME NEW i \in 1 .. Len(waiters')
              PROVE  /\ call'[waiters'[i]] = "blocked"
                     /\ waiters'[i] \notin granted'
                     /\ \A j \in 1 .. Len(waiters') : waiters'[i] = waiters'[j] => i = j
          <5>1. call'[waiters'[i]] = "blocked" /\ waiters'[i] \notin granted'
            BY <2>1, <2>4, <4>1, <4>3 DEF WaitersAreBlocked
          <5>2. ASSUME NEW j \in 1 .. Len(waiters'), waiters'[i] = waiters'[j] PROVE i = j
            <6>1. i + 1 = j + 1  BY <2>1, <4>1, <5>2 DEF WaitersAreBlocked
            <6> QED  BY <6>1
          <5> QED  BY <5>1, <5>2
        <4> QED  BY <4>4, <4>5 DEF WaitersAreBlocked
      <3> QED  BY <3>3, <3>4, <3>5, <3>6
    <2> QED  BY <1>8, <2>3, <2>4 DEF Recv
  <1>9. ASSUME HandlerReturns \/ HandlerPanics PROVE SlotInv'
    <2>1. UNCHANGED <<call, waiters, granted, queue, open, accepted, handled>>
      BY <1>9 DEF HandlerReturns, HandlerPanics
    <2>2. TypeOK'  BY <1>9 DEF HandlerReturns, HandlerPanics, TypeOK
    <2> QED  BY <2>1, <2>2 DEF WaitersAreBlocked, NoLostWakeup, SlotFree
  <1>10. ASSUME Close PROVE SlotInv'
    <2>1. UNCHANGED <<call, waiters, granted, current, replied, accepted, handled>>
      BY <1>10 DEF Close
    <2>2. ~open' /\ open' \in BOOLEAN /\ queue' = <<>> /\ Len(queue') = 0
      BY <1>10 DEF Close
    <2>3. dropped' \subseteq Asks  BY <1>10 DEF Close, TypeOK
    <2>4. TypeOK'  BY <1>0, <2>1, <2>2, <2>3 DEF TypeOK
    <2> QED  BY <2>1, <2>2, <2>4 DEF WaitersAreBlocked, NoLostWakeup
  <1>11. CASE UNCHANGED vars
    BY <1>11 DEF vars, TypeOK, WaitersAreBlocked, NoLostWakeup, SlotFree
  <1> QED
    BY <1>4, <1>5, <1>6, <1>7, <1>8, <1>9, <1>10, <1>11 DEF Next, ActorStep, CallStep

LEMMA SlotInvariant == Spec => []SlotInv
  <1>1. Init => SlotInv
    BY FS_EmptySet, MailboxAssumption DEF Init, SlotInv, TypeOK, WaitersAreBlocked,
        NoLostWakeup, MailboxAssumption
  <1>2. SlotInv /\ [Next]_vars => SlotInv'  BY SlotStep, MailboxAssumption
  <1> QED  BY <1>1, <1>2, PTL DEF Spec

\* The types, and that the channel never holds or promises more than Capacity.
THEOREM MailboxTypeCorrect == Spec => []TypeOK
  <1>1. SlotInv => TypeOK  BY DEF SlotInv
  <1> QED  BY <1>1, SlotInvariant, PTL

\* No sender waits for a slot of an open channel while one is free: a slot that
\* recv frees is handed to the first waiter, and nobody takes one past them.
THEOREM WakeupTheorem == Spec => []NoLostWakeup
  <1>1. SlotInv => NoLostWakeup  BY DEF SlotInv
  <1> QED  BY <1>1, SlotInvariant, PTL
-----------------------------------------------------------------------------
(* Order.                                                                  *)

\* InOrder, entry by entry: what was accepted is what was handled followed by
\* what is queued.
Ordered ==
    /\ Len(handled) \leq Len(accepted)
    /\ \A i \in 1 .. Len(handled) : handled[i] = accepted[i]
    /\ open => /\ Len(accepted) = Len(handled) + Len(queue)
               /\ \A i \in 1 .. Len(queue) : queue[i] = accepted[Len(handled) + i]

LEMMA OrderedStep == ASSUME TypeOK, Ordered, [Next]_vars PROVE Ordered'
  <1> USE DEF Ordered
  <1>0. /\ queue \in Seq(Requests) /\ accepted \in Seq(Requests) /\ handled \in Seq(Requests)
        /\ Len(queue) \in Nat /\ Len(accepted) \in Nat /\ Len(handled) \in Nat
    BY DEF TypeOK
  <1>1. ASSUME NEW r \in Requests, Enter(r), open, UNCHANGED <<open, handled>>
        PROVE  Ordered'
    <2>1. /\ Len(queue') = Len(queue) + 1
          /\ \A i \in 1 .. Len(queue) + 1 :
                queue'[i] = IF i = Len(queue) + 1 THEN r ELSE queue[i]
          /\ Len(accepted') = Len(accepted) + 1
          /\ \A i \in 1 .. Len(accepted) + 1 :
                accepted'[i] = IF i = Len(accepted) + 1 THEN r ELSE accepted[i]
      BY <1>0, <1>1, AppendEntries DEF Enter
    <2>2. \A i \in 1 .. Len(handled') : handled'[i] = accepted'[i]
      BY <1>0, <1>1, <2>1
    <2>3. ASSUME NEW i \in 1 .. Len(queue')
          PROVE  queue'[i] = accepted'[Len(handled') + i]
      <3>1. CASE i = Len(queue) + 1
        <4>1. Len(handled) + i = Len(accepted) + 1  BY <1>0, <1>1, <3>1
        <4> QED  BY <1>0, <1>1, <2>1, <3>1, <4>1
      <3>2. CASE i # Len(queue) + 1
        <4>1. i \in 1 .. Len(queue) /\ queue'[i] = queue[i]  BY <1>0, <2>1, <3>2
        <4>2. /\ Len(handled) + i \in 1 .. Len(accepted) + 1
              /\ Len(handled) + i # Len(accepted) + 1
          BY <1>0, <1>1, <4>1
        <4> QED  BY <1>1, <2>1, <4>1, <4>2
      <3> QED  BY <3>1, <3>2
    <2>4. /\ Len(handled') \leq Len(accepted')
          /\ Len(accepted') = Len(handled') + Len(queue')
      <3>1. Len(accepted) = Len(handled) + Len(queue) /\ handled' = handled
        BY <1>1
      <3>2. Len(queue') = Len(queue) + 1 /\ Len(accepted') = Len(accepted) + 1
        BY <2>1
      <3> HIDE DEF Ordered
      <3> QED  BY <1>0, <3>1, <3>2
    <2> QED  BY <2>2, <2>3, <2>4, Zenon
  <1>2. ASSUME Recv PROVE Ordered'
    <2>1. queue # <<>> /\ open  BY <1>2 DEF Recv
    <2>2. /\ Len(queue') = Len(queue) - 1 /\ Len(queue) > 0
          /\ Head(queue) = queue[1] /\ Head(queue) \in Requests
          /\ \A i \in 1 .. Len(queue) - 1 : queue'[i] = queue[i + 1]
      BY <1>0, <1>2, <2>1, TailEntries DEF Recv
    <2>3. /\ Len(handled') = Len(handled) + 1
          /\ \A i \in 1 .. Len(handled) + 1 :
                handled'[i] = IF i = Len(handled) + 1 THEN queue[1] ELSE handled[i]
      <3>1. handled' = Append(handled, queue[1]) /\ queue[1] \in Requests
        BY <1>2, <2>2 DEF Recv
      <3> QED  BY <1>0, <3>1, AppendEntries
    <2>4. UNCHANGED <<accepted, open>>  BY <1>2 DEF Recv
    <2>5. queue[1] = accepted[Len(handled) + 1]  BY <1>0, <2>1, <2>2
    <2>6. \A i \in 1 .. Len(queue') : queue'[i] = accepted'[Len(handled') + i]
      <3> SUFFICES ASSUME NEW i \in 1 .. Len(queue')
                   PROVE  queue'[i] = accepted'[Len(handled') + i]
        OBVIOUS
      <3>1. i + 1 \in 1 .. Len(queue) /\ queue'[i] = queue[i + 1]  BY <1>0, <2>2
      <3>2. queue[i + 1] = accepted[Len(handled) + (i + 1)]  BY <2>1, <3>1
      <3>3. Len(handled) + (i + 1) = Len(handled') + i  BY <1>0, <2>3, <3>1
      <3> QED  BY <2>4, <3>1, <3>2, <3>3
    <2>7. \A i \in 1 .. Len(handled') : handled'[i] = accepted'[i]
      BY <1>0, <2>3, <2>4, <2>5
    <2> QED  BY <1>0, <2>1, <2>2, <2>3, <2>4, <2>6, <2>7
  <1>3. ASSUME Close PROVE Ordered'  BY <1>3 DEF Close
  <1>4. CASE UNCHANGED <<queue, accepted, handled, open>>  BY <1>4
  <1> QED
    BY <1>1, <1>2, <1>3, <1>4 DEF Next, vars, ActorStep, CallStep, Send, TrySend, Unblock,
        Await, Timeout, HandlerReturns, HandlerPanics

LEMMA OrderedInvariant == Spec => []Ordered
  <1>1. Init => Ordered  BY DEF Init, Ordered
  <1>2. TypeOK /\ Ordered /\ [Next]_vars => Ordered'  BY OrderedStep
  <1> QED  BY <1>1, <1>2, MailboxTypeCorrect, PTL DEF Spec

\* Handlers run in the order of acceptance, and an open mailbox loses nothing,
\* whatever callers block, time out or try, and whichever handlers panic.
THEOREM OrderTheorem == Spec => []InOrder
  <1>1. ASSUME TypeOK, Ordered PROVE InOrder
    <2>0. /\ queue \in Seq(Requests) /\ accepted \in Seq(Requests) /\ handled \in Seq(Requests)
          /\ Len(queue) \in Nat /\ Len(accepted) \in Nat /\ Len(handled) \in Nat
          /\ \A i \in 1 .. Len(accepted) : accepted[i] \in Requests
      BY <1>1 DEF TypeOK
    <2>1. handled = SubSeq(accepted, 1, Len(handled))
      <3>1. \A i \in 1 .. Len(handled) : accepted[i] \in Requests
        BY <1>1, <2>0 DEF Ordered
      <3>2. /\ SubSeq(accepted, 1, Len(handled)) \in Seq(Requests)
            /\ Len(SubSeq(accepted, 1, Len(handled))) = Len(handled)
            /\ \A i \in 1 .. Len(handled) :
                    SubSeq(accepted, 1, Len(handled))[i] = accepted[i]
        BY <2>0, <3>1
      <3> QED  BY <1>1, <2>0, <3>2, SeqEqual DEF Ordered
    <2>2. ASSUME open PROVE queue = SubSeq(accepted, Len(handled) + 1, Len(accepted))
      <3> DEFINE rest == SubSeq(accepted, Len(handled) + 1, Len(accepted))
      <3>1. Len(accepted) = Len(handled) + Len(queue)  BY <1>1, <2>2 DEF Ordered
      <3>2. /\ rest \in Seq(Requests)
            /\ Len(rest) = Len(queue)
            /\ \A i \in 1 .. Len(queue) : rest[i] = accepted[Len(handled) + i]
        BY <2>0, <3>1
      <3> HIDE DEF rest
      <3>3. queue = rest  BY <1>1, <2>0, <2>2, <3>2, SeqEqual DEF Ordered
      <3> QED  BY <3>3 DEF rest
    <2> QED  BY <1>1, <2>1, <2>2 DEF InOrder, Ordered
  <1> QED  BY <1>1, OrderedInvariant, MailboxTypeCorrect, PTL
-----------------------------------------------------------------------------
(* The contract.                                                           *)

\* What the outcome of a call has to do with the fate of its message.
Outcomes ==
    /\ \A i, j \in 1 .. Len(accepted) : accepted[i] = accepted[j] => i = j
    /\ \A r \in Elems(accepted) :
         \/ call[r] = "ok"
         \/ r \in Asks /\ call[r] \in {"waiting", "timeout", "closed"}
    /\ \A r \in Requests : call[r] = "waiting" => r \in Asks /\ r \in Elems(accepted)
    /\ current # NoRequest => current \in Elems(handled)
    /\ replied \subseteq Elems(handled)

\* The elements after Append.
LEMMA AppendElems ==
    ASSUME NEW S, NEW s \in Seq(S), NEW x \in S
    PROVE  Elems(Append(s, x)) = Elems(s) \cup {x}
  <1>1. /\ Len(Append(s, x)) = Len(s) + 1 /\ Len(s) \in Nat
        /\ \A i \in 1 .. Len(s) + 1 :
                Append(s, x)[i] = IF i = Len(s) + 1 THEN x ELSE s[i]
    BY AppendEntries
  <1>2. \A i \in 1 .. Len(s) : i \in 1 .. Len(s) + 1 /\ i # Len(s) + 1  BY <1>1
  <1>3. Len(s) + 1 \in 1 .. Len(s) + 1  BY <1>1
  <1>4. \A i \in 1 .. Len(s) + 1 : i = Len(s) + 1 \/ i \in 1 .. Len(s)  BY <1>1
  <1> HIDE DEF Elems
  <1>5. Elems(s) \cup {x} \subseteq Elems(Append(s, x))  BY <1>1, <1>2, <1>3 DEF Elems
  <1>6. Elems(Append(s, x)) \subseteq Elems(s) \cup {x}  BY <1>1, <1>4 DEF Elems
  <1> QED  BY <1>5, <1>6

LEMMA OutcomesStep ==
    ASSUME MailboxAssumption, TypeOK, Ordered, Outcomes, [Next]_vars PROVE Outcomes'
  <1>0. /\ accepted \in Seq(Requests) /\ handled \in Seq(Requests)
        /\ Len(accepted) \in Nat
        /\ Elems(accepted) \subseteq Requests
    BY DEF TypeOK, Elems
  <1>1. ASSUME NEW r \in Requests, Enter(r), call[r] \in {"idle", "blocked"},
               UNCHANGED <<current, replied, handled>>
        PROVE  Outcomes'
    <2>1. r \notin Elems(accepted)  BY <1>1 DEF Outcomes
    <2>2. Elems(accepted') = Elems(accepted) \cup {r}
      BY <1>0, <1>1, AppendElems DEF Enter
    <2>3. /\ Len(accepted') = Len(accepted) + 1
          /\ \A i \in 1 .. Len(accepted) + 1 :
                accepted'[i] = IF i = Len(accepted) + 1 THEN r ELSE accepted[i]
      BY <1>0, <1>1, AppendEntries DEF Enter
    <2>4. \A i, j \in 1 .. Len(accepted') : accepted'[i] = accepted'[j] => i = j
      <3>1. \A i \in 1 .. Len(accepted) + 1 : i = Len(accepted) + 1 \/ i \in 1 .. Len(accepted)
        BY <1>0
      <3>2. \A i \in 1 .. Len(accepted) : accepted[i] # r  BY <2>1 DEF Elems
      <3> QED  BY <2>3, <3>1, <3>2 DEF Outcomes
    <2>5. /\ call'[r] = IF r \in Asks THEN "waiting" ELSE "ok"
          /\ \A q \in Requests \ {r} : call'[q] = call[q]
      BY <1>1 DEF Enter, Return, TypeOK
    <2>6. \A q \in Elems(accepted') :
            \/ call'[q] = "ok"
            \/ q \in Asks /\ call'[q] \in {"waiting", "timeout", "closed"}
      BY <1>0, <2>1, <2>2, <2>5 DEF Outcomes
    <2>7. \A q \in Requests : call'[q] = "waiting" => q \in Asks /\ q \in Elems(accepted')
      BY <2>2, <2>5 DEF Outcomes
    <2>8. /\ current' # NoRequest => current' \in Elems(handled')
          /\ replied' \subseteq Elems(handled')
      BY <1>1 DEF Outcomes
    <2> QED  BY <2>4, <2>6, <2>7, <2>8 DEF Outcomes
  <1>2. ASSUME NEW r \in Requests, NEW result, Return(r, result),
               \/ r \notin Elems(accepted) /\ result # "waiting"
               \/ r \in Asks /\ result \in {"ok", "timeout", "closed"},
               UNCHANGED <<current, replied, handled, accepted>>
        PROVE  Outcomes'
    <2>1. call'[r] = result /\ \A q \in Requests \ {r} : call'[q] = call[q]
      BY <1>2 DEF Return, TypeOK
    <2>2. UNCHANGED <<Elems(accepted), Elems(handled), Len(accepted)>>  BY <1>2
    <2> QED  BY <1>0, <1>2, <2>1, <2>2 DEF Outcomes
  <1>3. ASSUME NEW r \in Requests, CallStep(r) PROVE Outcomes'
    <2>1. call[r] \in {"idle", "blocked"} => r \notin Elems(accepted)  BY DEF Outcomes
    <2>2. CASE Enter(r) /\ (Send(r) \/ TrySend(r) \/ Unblock(r))
      BY <1>1, <2>2 DEF Send, TrySend, Unblock
    <2>3. CASE Send(r) /\ UNCHANGED accepted
      BY <1>2, <2>1, <2>3, <2>2 DEF Send
    <2>4. CASE TrySend(r) /\ UNCHANGED accepted
      BY <1>2, <2>1, <2>4, <2>2 DEF TrySend
    <2>5. CASE Unblock(r) /\ UNCHANGED accepted
      BY <1>2, <2>1, <2>5, <2>2 DEF Unblock
    <2>6. CASE Await(r) \/ Timeout(r)
      <3>1. call[r] = "waiting" /\ r \in Asks  BY <2>6 DEF Await, Timeout, Outcomes
      <3> QED  BY <1>2, <2>6, <3>1 DEF Await, Timeout
    <2> QED  BY <1>3, <2>2, <2>3, <2>4, <2>5, <2>6 DEF CallStep, Send, TrySend, Unblock
  <1>4. ASSUME Recv PROVE Outcomes'
    <2>1. queue # <<>> /\ queue \in Seq(Requests)  BY <1>4 DEF Recv, TypeOK
    <2>2. Head(queue) \in Requests  BY <2>1, TailEntries
    <2>3. Elems(handled') = Elems(handled) \cup {Head(queue)}
      BY <1>0, <1>4, <2>2, AppendElems DEF Recv
    <2> QED  BY <1>4, <2>3 DEF Recv, Outcomes
  <1>5. ASSUME HandlerReturns \/ HandlerPanics PROVE Outcomes'
    BY <1>5 DEF HandlerReturns, HandlerPanics, Outcomes
  <1>6. CASE UNCHANGED <<call, current, replied, accepted, handled>>
    BY <1>6 DEF Outcomes
  <1> QED  BY <1>3, <1>4, <1>5, <1>6 DEF Next, vars, ActorStep, Close

LEMMA OutcomesInvariant == Spec => []Outcomes
  <1>1. Init => Outcomes  BY DEF Init, Outcomes, Elems
  <1>2. TypeOK /\ Ordered /\ Outcomes /\ [Next]_vars => Outcomes'
    BY OutcomesStep, MailboxAssumption
  <1> QED  BY <1>1, <1>2, MailboxTypeCorrect, OrderedInvariant, PTL DEF Spec

\* What is executed, in terms of the contract.
LEMMA ExecutedElems ==
    ASSUME NEW r
    PROVE  Contract!Executed(r) <=> r \in Elems(handled)
  BY DEF Contract!Executed, Elems

\* The status of a call, case by case.
LEMMA StatusDef ==
    ASSUME NEW r
    PROVE  /\ call[r] = "idle" => Status(r) = "idle"
           /\ call[r] \in {"blocked", "waiting"} => Status(r) = "pending"
           /\ call[r] = "ok" => Status(r) = "ok"
           /\ call[r] = "full" => Status(r) = "refused"
           /\ call[r] = "timeout" => Status(r) = "doubt"
           /\ call[r] = "closed" /\ r \in Asks => Status(r) = "doubt"
           /\ call[r] = "closed" /\ r \notin Asks => Status(r) = "refused"
  BY DEF Status

\* Every step is one of the contract, or none.
LEMMA ContractStep ==
    ASSUME MailboxAssumption, TypeOK, TypeOK', Ordered, Outcomes, [Next]_vars
    PROVE  [Contract!Next]_<<[r \in Requests |-> Status(r)], handled>>
  <1> DEFINE status == [r \in Requests |-> Status(r)]
  <1>0. /\ accepted \in Seq(Requests) /\ handled \in Seq(Requests)
        /\ Len(accepted) \in Nat /\ Len(handled) \in Nat
    BY DEF TypeOK
  <1>a. Elems(handled) \subseteq Elems(accepted)
    <2>1. \A i \in 1 .. Len(handled) : i \in 1 .. Len(accepted)  BY <1>0 DEF Ordered
    <2> QED  BY <2>1 DEF Ordered, Elems
  <1>b. \A r : Contract!Executed(r) <=> r \in Elems(handled)  BY ExecutedElems
  <1>c. Contract!Requests = Requests  BY DEF Contract!Requests, Requests
  \* A step that changes one call, or none, is a step of the contract if the
  \* status of that call does the right thing.
  <1>1. ASSUME NEW r \in Requests, UNCHANGED handled,
               \A q \in Requests \ {r} : Status(q)' = Status(q),
               \/ Status(r)' = Status(r)
               \/ Status(r) = "idle" /\ Status(r)' = "pending"
               \/ /\ Status(r) \in {"idle", "pending"}
                  /\ \/ Status(r)' = "ok" /\ (r \in Asks => r \in Elems(handled))
                     \/ Status(r)' = "refused" /\ r \notin Elems(handled)
                     \/ Status(r)' = "doubt" /\ r \in Asks
        PROVE  [Contract!Next]_<<status, handled>>
    <2>1. status' = [status EXCEPT ![r] = Status(r)']  BY <1>1
    <2>2. CASE Status(r)' = Status(r)
      <3>1. status' = status  BY <2>1, <2>2
      <3> QED  BY <1>1, <3>1
    <2>3. CASE Status(r) = "idle" /\ Status(r)' = "pending"
      <3>1. Contract!Invoke(r)  BY <1>1, <2>1, <2>3 DEF Contract!Invoke
      <3> QED  BY <1>c, <3>1 DEF Contract!Next
    <2>4. ASSUME NEW outcome \in {"ok", "refused", "doubt"}, Status(r)' = outcome,
                 Status(r) \in {"idle", "pending"},
                 \/ outcome = "ok" /\ (r \in Asks => r \in Elems(handled))
                 \/ outcome = "refused" /\ r \notin Elems(handled)
                 \/ outcome = "doubt" /\ r \in Asks
          PROVE  Contract!Next
      <3>1. status' = [q \in Requests |-> IF q \in {r} THEN outcome ELSE status[q]]
        BY <2>1, <2>4
      <3>2. Contract!Return({r}, outcome)
        BY <1>1, <1>b, <1>c, <2>4, <3>1 DEF Contract!Return
      <3>3. {r} \in SUBSET Contract!Requests  BY <1>c
      <3> QED  BY <2>4, <3>2, <3>3 DEF Contract!Next
    <2> QED  BY <1>1, <2>2, <2>3, <2>4
  \* The others do not notice.
  <1>2. ASSUME NEW q \in Requests, call'[q] = call[q]
        PROVE  Status(q)' = Status(q)
    BY <1>2 DEF Status
  <1>3. ASSUME NEW r \in Requests, Enter(r), call[r] \in {"idle", "blocked"},
               UNCHANGED handled
        PROVE  [Contract!Next]_<<status, handled>>
    <2>1. /\ call'[r] = IF r \in Asks THEN "waiting" ELSE "ok"
          /\ \A q \in Requests \ {r} : call'[q] = call[q]
      BY <1>3 DEF Enter, Return, TypeOK
    <2>2. \A q \in Requests \ {r} : Status(q)' = Status(q)  BY <1>2, <2>1
    <2>3. Status(r) = IF call[r] = "idle" THEN "idle" ELSE "pending"
      BY <1>3, StatusDef
    <2>4. Status(r)' = IF r \in Asks THEN "pending" ELSE "ok"  BY <2>1 DEF Status
    <2> QED  BY <1>1, <1>3, <2>2, <2>3, <2>4
  <1>4. ASSUME NEW r \in Requests, NEW result, Return(r, result)
        PROVE  /\ call'[r] = result
               /\ \A q \in Requests \ {r} : Status(q)' = Status(q)
    <2>1. call'[r] = result /\ \A q \in Requests \ {r} : call'[q] = call[q]
      BY <1>4 DEF Return, TypeOK
    <2> QED  BY <1>2, <2>1
  \* A call is turned away, its message never having been accepted.
  <1>5. ASSUME NEW r \in Requests, call[r] \in {"idle", "blocked"},
               NEW result \in {"closed", "full", "blocked"}, Return(r, result),
               result = "blocked" => call[r] = "idle",
               UNCHANGED <<accepted, handled>>
        PROVE  [Contract!Next]_<<status, handled>>
    <2>1. r \notin Elems(accepted)  BY <1>5 DEF Outcomes
    <2>2. call'[r] = result  BY <1>4, <1>5
    <2>3. Status(r)' = IF result = "blocked" THEN "pending"
                       ELSE IF result = "closed" /\ r \in Asks THEN "doubt"
                       ELSE "refused"
      BY <1>5, <2>2 DEF Status
    <2>4. Status(r) = IF call[r] = "idle" THEN "idle" ELSE "pending"
      BY <1>5, StatusDef
    <2>5. r \notin Elems(handled)  BY <1>a, <2>1
    <2> QED  BY <1>1, <1>4, <1>5, <2>3, <2>4, <2>5
  \* A call that waits returns.
  <1>6. ASSUME NEW r \in Requests, call[r] = "waiting",
               NEW result \in {"ok", "closed", "timeout"}, Return(r, result),
               result = "ok" => r \in Elems(handled),
               UNCHANGED <<accepted, handled>>
        PROVE  [Contract!Next]_<<status, handled>>
    <2>1. r \in Asks  BY <1>6 DEF Outcomes
    <2>2. call'[r] = result  BY <1>4, <1>6
    <2>3. Status(r)' = IF result = "ok" THEN "ok" ELSE "doubt"
      BY <1>6, <2>1, <2>2 DEF Status
    <2>4. Status(r) = "pending"  BY <1>6, StatusDef
    <2> QED  BY <1>1, <1>4, <1>6, <2>1, <2>3, <2>4
  <1>7. ASSUME NEW r \in Requests, Send(r) PROVE [Contract!Next]_<<status, handled>>
    BY <1>3, <1>5, <1>7 DEF Send
  <1>8. ASSUME NEW r \in Requests, TrySend(r) PROVE [Contract!Next]_<<status, handled>>
    BY <1>3, <1>5, <1>8 DEF TrySend
  <1>9. ASSUME NEW r \in Requests, Unblock(r) PROVE [Contract!Next]_<<status, handled>>
    BY <1>3, <1>5, <1>9 DEF Unblock
  <1>10. ASSUME NEW r \in Requests, Await(r) PROVE [Contract!Next]_<<status, handled>>
    BY <1>6, <1>10 DEF Await, Outcomes
  <1>11. ASSUME NEW r \in Requests, Timeout(r) PROVE [Contract!Next]_<<status, handled>>
    BY <1>6, <1>11 DEF Timeout
  <1>12. ASSUME Recv PROVE [Contract!Next]_<<status, handled>>
    <2>1. queue # <<>> /\ open /\ queue \in Seq(Requests)  BY <1>12 DEF Recv, TypeOK
    <2> DEFINE r == Head(queue)
    <2>2. r \in Requests /\ r = queue[1] /\ Len(queue) > 0 /\ Len(queue) \in Nat
      BY <2>1, TailEntries
    <2>3. /\ r = accepted[Len(handled) + 1]
          /\ Len(handled) + 1 \in 1 .. Len(accepted)
      BY <1>0, <2>1, <2>2 DEF Ordered
    <2>4. r \notin Elems(handled)
      <3>1. \A i \in 1 .. Len(handled) : i # Len(handled) + 1 /\ i \in 1 .. Len(accepted)
        BY <1>0 DEF Ordered
      <3> QED  BY <2>3, <3>1 DEF Ordered, Outcomes, Elems
    <2>5. r \in Elems(accepted)  BY <2>3 DEF Elems
    <2>6. Status(r) \in {"pending", "ok", "doubt"}
      <3>1. \/ call[r] = "ok"
            \/ r \in Asks /\ call[r] \in {"waiting", "timeout", "closed"}
        BY <2>5 DEF Outcomes
      <3> QED  BY <3>1, StatusDef
    <2>7. status' = status  BY <1>12 DEF Recv, Status
    <2>8. handled' = Append(handled, r)  BY <1>12 DEF Recv
    <2>9. Contract!Execute(r)
      BY <1>b, <2>2, <2>4, <2>6, <2>7, <2>8 DEF Contract!Execute
    <2> QED  BY <1>c, <2>2, <2>9 DEF Contract!Next
  <1>13. CASE UNCHANGED <<call, handled>>
    BY <1>13 DEF Status
  <1> QED
    BY <1>7, <1>8, <1>9, <1>10, <1>11, <1>12, <1>13 DEF Next, vars, ActorStep, CallStep,
        HandlerReturns, HandlerPanics, Close

\* The mailbox implements AtMostOnce: no request is handled twice, an answer
\* means it was handled, an error of do_send or try_send that it never was and
\* never will be, and only an Ask whose error is MailboxClosed or Timeout is left
\* in doubt.
THEOREM ContractTheorem == Spec => KeepsContract
  <1>1. Init => Contract!Init
    BY DEF Init, Contract!Init, Status, Contract!Requests, Requests
  <1>2. TypeOK /\ TypeOK' /\ Ordered /\ Outcomes /\ [Next]_vars
            => [Contract!Next]_<<[r \in Requests |-> Status(r)], handled>>
    BY ContractStep, MailboxAssumption
  <1> QED
    BY <1>1, <1>2, MailboxTypeCorrect, OrderedInvariant, OutcomesInvariant, PTL
        DEF Spec, KeepsContract, Contract!Spec

Promises == INSTANCE AtMostOnceProofs
    WITH status <- [r \in Requests |-> Status(r)], executed <- handled

\* The contract that the mailbox keeps is the one that AtMostOnceProofs is about.
LEMMA SameContract == KeepsContract => Promises!Spec
  <1>1. Contract!Init => Promises!Init
    BY DEF Contract!Init, Promises!Init, Contract!Requests, Promises!Requests
  <1>2. Contract!Next => Promises!Next
    BY DEF Contract!Next, Promises!Next, Contract!Requests, Promises!Requests,
           Contract!Invoke, Promises!Invoke, Contract!Execute, Promises!Execute,
           Contract!Return, Promises!Return, Contract!Executed, Promises!Executed
  <1> QED
    BY <1>1, <1>2, PTL DEF KeepsContract, Contract!Spec, Promises!Spec

\* What a caller may conclude: no message is handled twice, an Ask whose send
\* returned Ok was handled, and a Tell that was turned away (MailboxFull or
\* MailboxClosed) never was.
THEOREM LocalPromise == Spec => []Contract!Promise
  <1>1. Promises!Promise => Contract!Promise
    BY DEF Promises!Promise, Contract!Promise, Promises!Executed, Contract!Executed,
           Promises!Requests, Contract!Requests
  <1> QED
    BY <1>1, SameContract, ContractTheorem, Promises!ContractPromise, PTL

\* Nothing a caller was told is taken back, no history is rewritten, and what
\* do_send or try_send refused is not handled afterwards.
THEOREM LocalFinality ==
    Spec => [][Contract!Finality]_<<[r \in Requests |-> Status(r)], handled>>
  <1>1. Promises!Finality => Contract!Finality
    BY DEF Promises!Finality, Contract!Finality, Promises!Executed, Contract!Executed,
           Promises!Requests, Contract!Requests
  <1> QED
    BY <1>1, SameContract, ContractTheorem, Promises!ContractFinality, PTL
-----------------------------------------------------------------------------
(* Nobody is forgotten.                                                    *)

\* A caller that waits is where something will find it: its message in the queue
\* or in a handler, its oneshot used or dropped; and on an open channel a blocked
\* sender stands in line or owns a slot.  A closed mailbox holds nothing back.
CallersAreHeld ==
    /\ \A r \in Requests :
         /\ call[r] = "waiting" =>
                r \in Elems(queue) \cup {current} \cup replied \cup dropped
         /\ open /\ call[r] = "blocked" => r \in Elems(waiters) \cup granted
    /\ ~open => queue = <<>> /\ current = NoRequest

\* The elements before Tail.
LEMMA TailElems ==
    ASSUME NEW S, NEW s \in Seq(S), s # <<>>
    PROVE  Elems(s) \subseteq {Head(s)} \cup Elems(Tail(s))
  <1>1. /\ Len(s) \in Nat \ {0} /\ Len(Tail(s)) = Len(s) - 1 /\ Head(s) = s[1]
        /\ \A i \in 1 .. Len(s) - 1 : Tail(s)[i] = s[i + 1]
    BY TailEntries
  <1>2. ASSUME NEW i \in 1 .. Len(s) PROVE s[i] \in {Head(s)} \cup Elems(Tail(s))
    <2>1. CASE i = 1  BY <1>1, <2>1
    <2>2. CASE i # 1
      <3>1. i - 1 \in 1 .. Len(s) - 1 /\ (i - 1) + 1 = i  BY <1>1, <2>2
      <3>2. Tail(s)[i - 1] = s[i]  BY <1>1, <3>1
      <3> QED  BY <1>1, <3>1, <3>2 DEF Elems
    <2> QED  BY <2>1, <2>2
  <1> QED  BY <1>2 DEF Elems

LEMMA HeldStep ==
    ASSUME MailboxAssumption, TypeOK, Outcomes, CallersAreHeld, [Next]_vars
    PROVE  CallersAreHeld'
  <1> USE DEF CallersAreHeld
  <1>0. /\ queue \in Seq(Requests) /\ waiters \in Seq(Requests)
        /\ call \in [Requests -> {"idle", "blocked", "waiting"} \cup Results]
    BY DEF TypeOK
  <1>1. ASSUME NEW r \in Requests, Enter(r), open,
               UNCHANGED <<waiters, current, open, replied, dropped>>,
               granted \ {r} \subseteq granted'
        PROVE  CallersAreHeld'
    <2>1. Elems(queue') = Elems(queue) \cup {r}  BY <1>0, <1>1, AppendElems DEF Enter
    <2>2. /\ call'[r] # "blocked"
          /\ \A q \in Requests \ {r} : call'[q] = call[q]
      BY <1>0, <1>1 DEF Enter, Return
    <2>3. UNCHANGED Elems(waiters)  BY <1>1
    <2> QED  BY <1>1, <2>1, <2>2, <2>3
  <1>2. ASSUME NEW r \in Requests, NEW result \in Results, Return(r, result),
               UNCHANGED <<waiters, queue, current, open, replied, dropped>>,
               granted \ {r} \subseteq granted'
        PROVE  CallersAreHeld'
    <2>1. /\ call'[r] \notin {"blocked", "waiting"}
          /\ \A q \in Requests \ {r} : call'[q] = call[q]
      BY <1>0, <1>2 DEF Return, Results
    <2>2. UNCHANGED <<Elems(waiters), Elems(queue)>>  BY <1>2
    <2> QED  BY <1>2, <2>1, <2>2
  <1>3. ASSUME NEW r \in Requests, Return(r, "blocked"), waiters' = Append(waiters, r),
               UNCHANGED <<granted, queue, current, open, replied, dropped>>
        PROVE  CallersAreHeld'
    <2>1. Elems(waiters') = Elems(waiters) \cup {r}  BY <1>0, <1>3, AppendElems
    <2>2. /\ call'[r] = "blocked"
          /\ \A q \in Requests \ {r} : call'[q] = call[q]
      BY <1>0, <1>3 DEF Return
    <2>3. UNCHANGED Elems(queue)  BY <1>3
    <2> QED  BY <1>3, <2>1, <2>2, <2>3
  <1>4. ASSUME NEW r \in Requests, Send(r) PROVE CallersAreHeld'
    BY <1>1, <1>2, <1>3, <1>4 DEF Send, Results
  <1>5. ASSUME NEW r \in Requests, TrySend(r) PROVE CallersAreHeld'
    BY <1>1, <1>2, <1>5 DEF TrySend, Results
  <1>6. ASSUME NEW r \in Requests, Unblock(r) PROVE CallersAreHeld'
    BY <1>1, <1>2, <1>6 DEF Unblock, Results
  <1>7. ASSUME NEW r \in Requests, Await(r) \/ Timeout(r) PROVE CallersAreHeld'
    BY <1>2, <1>7 DEF Await, Timeout, Results
  <1>8. ASSUME Recv PROVE CallersAreHeld'
    <2>1. Elems(queue) \subseteq {Head(queue)} \cup Elems(Tail(queue))
      BY <1>0, <1>8, TailElems DEF Recv
    <2>2. waiters # <<>> => Elems(waiters) \subseteq {Head(waiters)} \cup Elems(Tail(waiters))
      BY <1>0, TailElems
    <2>3. Elems(queue) \cup {current} \subseteq Elems(queue') \cup {current'} \cup {NoRequest}
      BY <1>8, <2>1 DEF Recv
    <2>4. Elems(waiters) \cup granted \subseteq Elems(waiters') \cup granted'
      BY <1>8, <2>2 DEF Recv
    <2>5. open /\ UNCHANGED <<call, open, replied, dropped>>  BY <1>8 DEF Recv
    <2> QED  BY <2>3, <2>4, <2>5 DEF MailboxAssumption
  <1>9. ASSUME HandlerReturns \/ HandlerPanics PROVE CallersAreHeld'
    <2>1. \A r \in Requests : call[r] = "waiting" => r \in Asks  BY DEF Outcomes
    <2>2. UNCHANGED <<call, open, queue, waiters, granted, Elems(queue), Elems(waiters)>>
      BY <1>9 DEF HandlerReturns, HandlerPanics
    <2>3. /\ replied \cup dropped \cup ({current} \cap Asks) = replied' \cup dropped'
          /\ current' = NoRequest
      BY <1>9 DEF HandlerReturns, HandlerPanics
    <2> QED  BY <2>1, <2>2, <2>3
  <1>10. ASSUME Close PROVE CallersAreHeld'
    <2>1. \A r \in Requests : call[r] = "waiting" => r \in Asks  BY DEF Outcomes
    <2> QED  BY <1>10, <2>1 DEF Close, MailboxAssumption
  <1>11. CASE UNCHANGED vars  BY <1>11 DEF vars
  <1> QED
    BY <1>4, <1>5, <1>6, <1>7, <1>8, <1>9, <1>10, <1>11 DEF Next, CallStep, ActorStep

\* What an actor at rest owes its callers: when an open mailbox is empty, no
\* handler runs and no slot is on its way, nobody waits for a slot and everyone
\* who waits for a result can have it; once the mailbox is closed, everyone can.
NobodyIsOwed ==
    (~open \/ (current = NoRequest /\ queue = <<>> /\ granted = {})) =>
        \A r \in Requests :
            /\ open => call[r] # "blocked"
            /\ call[r] = "waiting" => r \in replied \cup dropped

\* No interleaving of senders, timeouts, panics and the end of the actor leaves a
\* caller behind: the safety half of EveryCallReturns.
THEOREM OwedTheorem == Spec => []NobodyIsOwed
  <1>1. Init => CallersAreHeld  BY DEF Init, CallersAreHeld
  <1>2. TypeOK /\ Outcomes /\ CallersAreHeld /\ [Next]_vars => CallersAreHeld'
    BY HeldStep, MailboxAssumption
  <1>3. ASSUME TypeOK, Outcomes, CallersAreHeld, NoLostWakeup PROVE NobodyIsOwed
    <2>1. Elems(<<>>) = {}  BY DEF Elems
    <2>2. NoRequest \notin Requests /\ Capacity \in Nat \ {0}
      BY MailboxAssumption DEF MailboxAssumption
    <2>3. open /\ queue = <<>> /\ granted = {} => waiters = <<>>
      BY <1>3, <2>2, FS_EmptySet DEF NoLostWakeup, SlotFree
    <2> QED  BY <1>3, <2>1, <2>2, <2>3 DEF NobodyIsOwed, CallersAreHeld
  <1> QED
    BY <1>1, <1>2, <1>3, MailboxTypeCorrect, OutcomesInvariant, WakeupTheorem, PTL
        DEF Spec
=============================================================================
