------------------------------ MODULE Registry ------------------------------
(***************************************************************************)
(* The registry of an ActorSystem (registry.rs, system.rs): names for       *)
(* addresses, and for every call of register a task that polls is_alive and  *)
(* removes the name when the actor it was started for is dead.              *)
(***************************************************************************)
EXTENDS Lifetimes

CONSTANTS
    Names,
    MaxRegistryCalls  \* bound on register, register_manual and unregister

ASSUME RegistryAssumption == MaxRegistryCalls \in Nat

VARIABLES
    names,       \* name -> actor
    polling,     \* polling[<<n, a>>]: tasks that watch a for the name n
    leaving,     \* leaving[<<n, a>>]: tasks that found a dead and will unregister n
    calls,       \* calls so far
    automatic,   \* history: names that were last registered with register
    registered   \* history: <<name, actor>> pairs ever given to register

registryVars == <<names, polling, leaving, calls, automatic, registered>>

Maps(S, T) == UNION {[D -> T] : D \in SUBSET S}

RegistryTypeOK ==
    /\ names \in Maps(Names, Actors)
    /\ polling \in [Names \X Actors -> Nat]
    /\ leaving \in [Names \X Actors -> Nat]
    /\ calls \in 0 .. MaxRegistryCalls
    /\ automatic \subseteq DOMAIN names
    /\ registered \subseteq Names \X Actors

RegistryInit ==
    /\ names = [n \in {} |-> n]
    /\ polling = [w \in Names \X Actors |-> 0]
    /\ leaving = [w \in Names \X Actors |-> 0]
    /\ calls = 0
    /\ automatic = {}
    /\ registered = {}
-----------------------------------------------------------------------------
Put(map, key, value) ==
    [k \in DOMAIN map \cup {key} |-> IF k = key THEN value ELSE map[k]]

Remove(map, key) == [k \in DOMAIN map \ {key} |-> map[k]]

\* lookup finds a under this name, dead or alive.
LooksUp(n, a) == n \in DOMAIN names /\ names[n] = a

RegistryCall ==
    /\ calls < MaxRegistryCalls
    /\ calls' = calls + 1

\* The entry that was there is replaced; its task is left to run.
Register(n, a) ==
    /\ RegistryCall
    /\ names' = Put(names, n, a)
    /\ polling' = [polling EXCEPT ![<<n, a>>] = @ + 1]
    /\ automatic' = automatic \cup {n}
    /\ registered' = registered \cup {<<n, a>>}
    /\ UNCHANGED leaving

RegisterManual(n, a) ==
    /\ RegistryCall
    /\ names' = Put(names, n, a)
    /\ automatic' = automatic \ {n}
    /\ UNCHANGED <<polling, leaving, registered>>

Unregister(n) ==
    /\ RegistryCall
    /\ names' = Remove(names, n)
    /\ automatic' = automatic \ {n}
    /\ UNCHANGED <<polling, leaving, registered>>

\* Faulty variant: the task looks once, "if" instead of "while".
PollOnce(n, a) ==
    /\ polling[<<n, a>>] > 0
    /\ polling' = [polling EXCEPT ![<<n, a>>] = @ - 1]
    /\ leaving' = [leaving EXCEPT ![<<n, a>>] = IF a \in alive THEN @ ELSE @ + 1]
    /\ UNCHANGED <<names, calls, automatic, registered>>

\* Faulty variant: the condition of the loop is the wrong way round.
PollWhileDead(n, a) ==
    /\ polling[<<n, a>>] > 0
    /\ a \in alive
    /\ polling' = [polling EXCEPT ![<<n, a>>] = @ - 1]
    /\ leaving' = [leaving EXCEPT ![<<n, a>>] = @ + 1]
    /\ UNCHANGED <<names, calls, automatic, registered>>

\* The loop of a watching task ends; while the actor lives it only sleeps.
PollFindsDead(n, a) ==
    /\ polling[<<n, a>>] > 0
    /\ a \notin alive
    /\ polling' = [polling EXCEPT ![<<n, a>>] = @ - 1]
    /\ leaving' = [leaving EXCEPT ![<<n, a>>] = @ + 1]
    /\ UNCHANGED <<names, calls, automatic, registered>>

\* registry.unregister(&name), whoever the name belongs to by now.
WatchEnds(n, a) ==
    /\ leaving[<<n, a>>] > 0
    /\ leaving' = [leaving EXCEPT ![<<n, a>>] = @ - 1]
    /\ names' = Remove(names, n)
    /\ automatic' = automatic \ {n}
    /\ UNCHANGED <<polling, calls, registered>>

RegistryNext ==
    \E n \in Names :
        \/ Unregister(n)
        \/ \E a \in Actors :
            \/ Register(n, a)
            \/ RegisterManual(n, a)
            \/ PollFindsDead(n, a)
            \/ WatchEnds(n, a)

\* Spawned tasks run: the polling task wakes up every 50 ms.
RegistryFairness ==
    \A n \in Names, a \in Actors :
        /\ WF_registryVars(PollFindsDead(n, a))
        /\ WF_registryVars(WatchEnds(n, a))
=============================================================================
