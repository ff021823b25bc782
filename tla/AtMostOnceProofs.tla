-------------------------- MODULE AtMostOnceProofs --------------------------
(***************************************************************************)
(* What the contract of AtMostOnce promises, for any requests. MailboxProofs *)
(* and RemoteRpcProofs show that local and remote calls keep the contract.   *)
(***************************************************************************)
EXTENDS AtMostOnce, TLAPS

TypeOK ==
    /\ status \in [Requests -> {"idle", "pending", "ok", "refused", "doubt"}]
    /\ executed \in Seq(Requests)

Inv == TypeOK /\ Promise

LEMMA ExecuteStep ==
  ASSUME Inv, NEW r \in Requests, Execute(r)
  PROVE  Inv' /\ Finality
<1>1. /\ executed' \in Seq(Requests) /\ Len(executed') = Len(executed) + 1
      /\ executed'[Len(executed) + 1] = r
      /\ \A i \in 1..Len(executed) : executed'[i] = executed[i]
      /\ Len(executed) \in Nat
  BY DEF Inv, TypeOK, Execute
<1>2. \A q \in Requests : Executed(q)' <=> Executed(q) \/ q = r
  BY <1>1 DEF Executed
<1>3. TypeOK'
  BY <1>1 DEF Inv, TypeOK, Execute
<1>4. \A i, j \in 1..Len(executed') : executed'[i] = executed'[j] => i = j
  BY <1>1 DEF Inv, Promise, Execute, Executed
<1>5. Promise'
  BY <1>2, <1>4 DEF Inv, Promise, Execute
<1>6. Finality
  BY <1>1, <1>2 DEF Finality, Execute, Inv, Promise
<1> QED
  BY <1>3, <1>5, <1>6 DEF Inv

LEMMA InvokeStep ==
  ASSUME Inv, NEW r \in Requests, Invoke(r)
  PROVE  Inv' /\ Finality
<1>1. \A q \in Requests : Executed(q)' <=> Executed(q)
  BY DEF Invoke, Executed
<1>2. TypeOK'
  BY DEF Inv, TypeOK, Invoke
<1>3. Promise'
  BY <1>1 DEF Inv, TypeOK, Promise, Invoke
<1>4. Finality
  BY <1>1 DEF Finality, Invoke, Inv, TypeOK, Promise
<1> QED
  BY <1>2, <1>3, <1>4 DEF Inv

LEMMA ReturnStep ==
  ASSUME Inv, NEW R \in SUBSET Requests, NEW o \in {"ok", "refused", "doubt"},
         Return(R, o)
  PROVE  Inv' /\ Finality
<1>1. \A q \in Requests : Executed(q)' <=> Executed(q)
  BY DEF Return, Executed
<1>2. TypeOK'
  BY DEF Inv, TypeOK, Return
<1>3. \A q \in Requests : status'[q] = IF q \in R THEN o ELSE status[q]
  BY DEF Return
<1>4. Promise'
  BY <1>1, <1>3 DEF Inv, Promise, Return
<1>5. Finality
  BY <1>1, <1>3 DEF Finality, Return, Inv, TypeOK, Promise
<1> QED
  BY <1>2, <1>4, <1>5 DEF Inv

LEMMA InvStep ==
  ASSUME Inv, [Next]_<<status, executed>>
  PROVE  Inv' /\ [Finality]_<<status, executed>>
<1>1. CASE UNCHANGED <<status, executed>>
  BY <1>1 DEF Inv, TypeOK, Promise, Executed
<1>2. CASE Next
  BY <1>2, InvokeStep, ExecuteStep, ReturnStep DEF Next
<1> QED
  BY <1>1, <1>2

LEMMA InvInit == Init => Inv
BY DEF Init, Inv, TypeOK, Promise, Executed

\* A call that keeps the contract is executed at most once, answered only after
\* its execution and never executed once refused (address.rs, remote/client.rs).
LEMMA ContractPromise == Spec => []Promise
<1>1. Inv => Promise
  BY DEF Inv
<1> QED
  BY <1>1, InvInit, InvStep, PTL DEF Spec

\* No step takes back an outcome or an execution.
LEMMA ContractFinality == Spec => [][Finality]_<<status, executed>>
BY InvInit, InvStep, PTL DEF Spec
=============================================================================
