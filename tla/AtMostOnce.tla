----------------------------- MODULE AtMostOnce -----------------------------
(***************************************************************************)
(* What a call on an actor's address promises, whatever queues, wires and  *)
(* races lie between caller and handler: a request is executed at most     *)
(* once, an answer means it was executed, a refusal means it never was and *)
(* never will be, and any other error leaves the caller in doubt.          *)
(***************************************************************************)
EXTENDS Sequences, Naturals

CONSTANTS
    Asks,     \* requests whose caller waits for the handler's result
    Tells     \* fire-and-forget requests

VARIABLES
    status,   \* what the caller of each request knows
    executed  \* the requests handlers have run for, in order

Requests == Asks \cup Tells

Executed(r) == \E i \in 1..Len(executed) : executed[i] = r

Init == /\ status = [r \in Requests |-> "idle"]
        /\ executed = <<>>

\* The caller is made to wait.
Invoke(r) ==
    /\ status[r] = "idle"
    /\ status' = [status EXCEPT ![r] = "pending"]
    /\ UNCHANGED executed

Execute(r) ==
    /\ ~Executed(r)
    /\ status[r] \in {"pending", "ok", "doubt"}
    /\ executed' = Append(executed, r)
    /\ UNCHANGED status

\* Calls end, several at once when one failure ends them all: ok is an answer
\* to an Ask and an acceptance of a Tell.
Return(R, outcome) ==
    /\ \A r \in R :
         /\ status[r] \in {"idle", "pending"}
         /\ \/ outcome = "ok" /\ (r \in Asks => Executed(r))
            \/ outcome = "refused" /\ ~Executed(r)
            \/ outcome = "doubt" /\ r \in Asks
    /\ status' = [r \in Requests |-> IF r \in R THEN outcome ELSE status[r]]
    /\ UNCHANGED executed

Next ==
    \/ \E r \in Requests : Invoke(r) \/ Execute(r)
    \/ \E R \in SUBSET Requests, outcome \in {"ok", "refused", "doubt"} :
         Return(R, outcome)

Spec == Init /\ [][Next]_<<status, executed>>
-----------------------------------------------------------------------------
\* What follows for anyone who looks at callers and handlers from outside: no
\* request is executed twice, an Ask that was answered was executed, and one
\* that was refused, or not yet made, was not.
Promise ==
    /\ \A i, j \in 1..Len(executed) : executed[i] = executed[j] => i = j
    /\ \A r \in Requests :
         /\ r \in Asks /\ status[r] = "ok" => Executed(r)
         /\ status[r] \in {"idle", "refused"} => ~Executed(r)

\* What a step may never do: take back an outcome or an execution, or execute a
\* request whose caller was refused.
Finality ==
    /\ \A r \in Requests :
         /\ status[r] \in {"ok", "refused", "doubt"} => status'[r] = status[r]
         /\ status[r] = "refused" => ~Executed(r)'
    /\ \A i \in 1..Len(executed) : i \leq Len(executed') /\ executed'[i] = executed[i]
=============================================================================
