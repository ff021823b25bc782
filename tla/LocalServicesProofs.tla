------------------------ MODULE LocalServicesProofs ------------------------
(***************************************************************************)
(* Proofs about the registry and the timers of one system, for any actors,   *)
(* names, timers, mailbox capacity and bound on calls.                      *)
(***************************************************************************)
EXTENDS LocalServices, TLAPS

LEMMA MapsDef ==
    ASSUME NEW S, NEW T, NEW f \in Maps(S, T)
    PROVE  /\ DOMAIN f \subseteq S
           /\ \A k \in DOMAIN f : f[k] \in T
  BY DEF Maps

LEMMA MapsIntro ==
    ASSUME NEW S, NEW T, NEW D \in SUBSET S, NEW f \in [D -> T]
    PROVE  f \in Maps(S, T)
  BY DEF Maps

LEMMA PutMaps ==
    ASSUME NEW S, NEW T, NEW f \in Maps(S, T), NEW k \in S, NEW v \in T
    PROVE  /\ Put(f, k, v) \in Maps(S, T)
           /\ DOMAIN Put(f, k, v) = DOMAIN f \cup {k}
  <1>1. DOMAIN f \cup {k} \in SUBSET S  BY MapsDef
  <1>2. Put(f, k, v) \in [DOMAIN f \cup {k} -> T]  BY MapsDef DEF Put
  <1> QED  BY <1>1, <1>2, MapsIntro

LEMMA RemoveMaps ==
    ASSUME NEW S, NEW T, NEW f \in Maps(S, T), NEW k
    PROVE  /\ Remove(f, k) \in Maps(S, T)
           /\ DOMAIN Remove(f, k) = DOMAIN f \ {k}
  <1>1. DOMAIN f \ {k} \in SUBSET S  BY MapsDef
  <1>2. Remove(f, k) \in [DOMAIN f \ {k} -> T]  BY MapsDef DEF Remove
  <1> QED  BY <1>1, <1>2, MapsIntro
-----------------------------------------------------------------------------
\* The registry keeps the shape of its state.
LEMMA RegistryType ==
    ASSUME RegistryAssumption, RegistryTypeOK, RegistryNext
    PROVE  RegistryTypeOK'
  <1> USE DEF RegistryAssumption
  <1>a. names \in Maps(Names, Actors)  BY DEF RegistryTypeOK
  <1>1. ASSUME NEW n \in Names, Unregister(n) PROVE RegistryTypeOK'
    <2>1. /\ names' \in Maps(Names, Actors)
          /\ DOMAIN names' = DOMAIN names \ {n}
      BY <1>a, <1>1, RemoveMaps DEF Unregister
    <2> QED  BY <1>1, <2>1 DEF Unregister, RegistryCall, RegistryTypeOK
  <1>2. ASSUME NEW n \in Names, NEW a \in Actors, Register(n, a) PROVE RegistryTypeOK'
    <2>1. /\ names' \in Maps(Names, Actors)
          /\ DOMAIN names' = DOMAIN names \cup {n}
      BY <1>a, <1>2, PutMaps DEF Register
    <2>2. polling' \in [Names \X Actors -> Nat]  BY <1>2 DEF Register, RegistryTypeOK
    <2> QED  BY <1>2, <2>1, <2>2 DEF Register, RegistryCall, RegistryTypeOK
  <1>3. ASSUME NEW n \in Names, NEW a \in Actors, RegisterManual(n, a)
        PROVE  RegistryTypeOK'
    <2>1. /\ names' \in Maps(Names, Actors)
          /\ DOMAIN names' = DOMAIN names \cup {n}
      BY <1>a, <1>3, PutMaps DEF RegisterManual
    <2> QED  BY <1>3, <2>1 DEF RegisterManual, RegistryCall, RegistryTypeOK
  <1>4. ASSUME NEW n \in Names, NEW a \in Actors, PollFindsDead(n, a)
        PROVE  RegistryTypeOK'
    BY <1>4 DEF PollFindsDead, RegistryTypeOK
  <1>5. ASSUME NEW n \in Names, NEW a \in Actors, WatchEnds(n, a) PROVE RegistryTypeOK'
    <2>1. /\ names' \in Maps(Names, Actors)
          /\ DOMAIN names' = DOMAIN names \ {n}
      BY <1>a, <1>5, RemoveMaps DEF WatchEnds
    <2> QED  BY <1>5, <2>1 DEF WatchEnds, RegistryTypeOK
  <1> QED  BY <1>1, <1>2, <1>3, <1>4, <1>5 DEF RegistryNext

\* The timers keep the shape of their state, and mailboxes their capacity.
LEMMA TimerType ==
    ASSUME TimerAssumption, TimerTypeOK, TimerNext
    PROVE  TimerTypeOK'
  <1> USE DEF TimerTypeOK, TimerAssumption
  <1>1. ASSUME NEW t \in Timers, RunTimer(t) \/ Elapse(t) \/ Tick(t) PROVE TimerTypeOK'
    BY <1>1 DEF RunTimer, Elapse, Tick
  <1>2. ASSUME NEW t \in Timers, Cancel(t) PROVE TimerTypeOK'
    BY <1>2 DEF Cancel
  <1>3. ASSUME NEW t \in Timers, Fire(t) PROVE TimerTypeOK'
    <2>1. mailbox' \in [Actors -> 0 .. Capacity]  BY <1>3 DEF Fire
    <2>2. phase' \in [Timers -> {"unset", "sleeping", "sending", "done"}]
      BY <1>3 DEF Fire, AfterSend
    <2>3. late' \in [Timers -> Nat]  BY <1>3 DEF Fire
    <2> QED  BY <1>3, <2>1, <2>2, <2>3 DEF Fire
  <1>4. ASSUME NEW t \in Timers, FireFails(t) PROVE TimerTypeOK'
    BY <1>4 DEF FireFails, AfterSend
  <1>5. ASSUME NEW a \in Actors, OtherSend(a) \/ Receive(a) PROVE TimerTypeOK'
    BY <1>5 DEF OtherSend, Receive
  <1> QED  BY <1>1, <1>2, <1>3, <1>4, <1>5 DEF TimerNext

\* The state of the system keeps its shape: no step of the two services or of a
\* dying actor disturbs that of another.
THEOREM ServicesTypeCorrect == Spec => []TypeOK
  <1>1. Init => TypeOK
    <2>1. ASSUME Init PROVE names \in Maps(Names, Actors)
      <3>1. names \in [{} -> Actors]  BY <2>1 DEF Init, RegistryInit
      <3> QED  BY <3>1, MapsIntro
    <2> QED
      BY <2>1, RegistryAssumption, TimerAssumption DEF Init, RegistryInit, TimerInit, TypeOK,
          RegistryTypeOK, TimerTypeOK, RegistryAssumption, TimerAssumption
  <1>2. ASSUME TypeOK, [Next]_vars PROVE TypeOK'
    <2>1. CASE RegistryNext /\ UNCHANGED <<alive, timerVars>>
      BY <1>2, <2>1, RegistryType, RegistryAssumption DEF TypeOK, TimerTypeOK, timerVars
    <2>2. CASE TimerNext /\ UNCHANGED <<alive, registryVars>>
      BY <1>2, <2>2, TimerType, TimerAssumption DEF TypeOK, RegistryTypeOK, registryVars
    <2>3. ASSUME NEW a \in Actors, Die(a) PROVE TypeOK'
      BY <1>2, <2>3, TimerAssumption DEF Die, TypeOK, RegistryTypeOK, TimerTypeOK,
          registryVars, TimerAssumption
    <2>4. CASE UNCHANGED vars
      BY <1>2, <2>4 DEF vars, TypeOK, RegistryTypeOK, TimerTypeOK, registryVars, timerVars
    <2> QED  BY <1>2, <2>1, <2>2, <2>3, <2>4 DEF Next
  <1> QED  BY <1>1, <1>2, PTL DEF Spec
-----------------------------------------------------------------------------
\* What a cancelled timer may still do.  One cancelled in its sleep never gets
\* to send again; one that was past the look at the flag sends at most once,
\* and has not done so while it still waits.
CancelledTimers ==
    \A t \in Timers :
        /\ late[t] \leq 1
        /\ t \notin cancelled => late[t] = 0
        /\ t \in inTime => late[t] = 0 /\ phase[t] # "sending"
        /\ phase[t] = "sending" => late[t] = 0

LEMMA CancelStep ==
    ASSUME TypeOK, CancelledTimers, [Next]_vars
    PROVE  CancelledTimers'
  <1> USE DEF CancelledTimers
  <1>0. TimerTypeOK  BY DEF TypeOK
  <1>1. ASSUME NEW t \in Timers, RunTimer(t) PROVE CancelledTimers'
    BY <1>0, <1>1 DEF RunTimer, TimerTypeOK
  <1>2. ASSUME NEW t \in Timers, Cancel(t) PROVE CancelledTimers'
    BY <1>0, <1>2 DEF Cancel, TimerTypeOK
  <1>3. ASSUME NEW t \in Timers, Elapse(t) \/ Tick(t) PROVE CancelledTimers'
    <2>1. phase'[t] = "sending" => t \notin cancelled
      BY <1>0, <1>3 DEF Elapse, Tick, TimerTypeOK
    <2>2. \A u \in Timers \ {t} : phase'[u] = phase[u]
      BY <1>0, <1>3 DEF Elapse, Tick, TimerTypeOK
    <2>3. UNCHANGED <<cancelled, inTime, late>>  BY <1>3 DEF Elapse, Tick
    <2> QED  BY <1>0, <2>1, <2>2, <2>3 DEF TimerTypeOK
  <1>4. ASSUME NEW t \in Timers, Fire(t) \/ FireFails(t) PROVE CancelledTimers'
    <2>1. phase'[t] # "sending"  BY <1>0, <1>4 DEF Fire, FireFails, AfterSend, TimerTypeOK
    <2>2. \A u \in Timers \ {t} : phase'[u] = phase[u] /\ late'[u] = late[u]
      BY <1>0, <1>4 DEF Fire, FireFails, TimerTypeOK
    <2>3. late[t] = 0 /\ t \notin inTime  BY <1>4 DEF Fire, FireFails
    <2>4. late'[t] = 0 \/ (late'[t] = 1 /\ t \in cancelled)
      BY <1>0, <1>4, <2>3 DEF Fire, FireFails, TimerTypeOK
    <2>5. UNCHANGED <<cancelled, inTime>>  BY <1>4 DEF Fire, FireFails
    <2> QED  BY <2>1, <2>2, <2>3, <2>4, <2>5
  <1>5. CASE UNCHANGED <<phase, cancelled, inTime, late>>  BY <1>5
  <1> QED
    BY <1>1, <1>2, <1>3, <1>4, <1>5 DEF Next, vars, timerVars, TimerNext, OtherSend,
        Receive, Die

\* "Cancel the timer - it will not fire" holds for a timer that sleeps, and in
\* the worst case one message follows: an interval that was waiting for a slot
\* sees the flag at its next tick.
THEOREM CancelTheorem == Spec => []CancelStops
  <1>1. Init => CancelledTimers  BY DEF Init, TimerInit, CancelledTimers
  <1>2. TypeOK /\ CancelledTimers /\ [Next]_vars => CancelledTimers'  BY CancelStep
  <1>3. TypeOK /\ CancelledTimers => CancelStops
    BY DEF TypeOK, TimerTypeOK, CancelledTimers, CancelStops
  <1> QED  BY <1>1, <1>2, <1>3, ServicesTypeCorrect, PTL DEF Spec
-----------------------------------------------------------------------------
\* A task that watches was started by a register of its actor and name, and one
\* that is about to unregister has found that actor dead.
Watchers ==
    \A n \in Names, a \in Actors :
        /\ polling[<<n, a>>] > 0 => <<n, a>> \in registered
        /\ leaving[<<n, a>>] > 0 => <<n, a>> \in registered /\ a \notin alive

LEMMA WatchersStep ==
    ASSUME TypeOK, Watchers, [Next]_vars
    PROVE  Watchers'
  <1> USE DEF Watchers
  <1>0. RegistryTypeOK  BY DEF TypeOK
  <1>1. ASSUME NEW n \in Names, NEW a \in Actors, Register(n, a), UNCHANGED alive
        PROVE  Watchers'
    BY <1>0, <1>1 DEF Register, RegistryTypeOK
  <1>2. ASSUME NEW n \in Names, NEW a \in Actors, PollFindsDead(n, a), UNCHANGED alive
        PROVE  Watchers'
    BY <1>0, <1>2 DEF PollFindsDead, RegistryTypeOK
  <1>3. ASSUME NEW n \in Names, NEW a \in Actors, WatchEnds(n, a), UNCHANGED alive
        PROVE  Watchers'
    BY <1>0, <1>3 DEF WatchEnds, RegistryTypeOK
  <1>4. ASSUME NEW a \in Actors, Die(a) PROVE Watchers'
    BY <1>4 DEF Die, registryVars
  <1>5. CASE UNCHANGED <<polling, leaving, registered, alive>>  BY <1>5
  <1> QED
    BY <1>1, <1>2, <1>3, <1>4, <1>5 DEF Next, vars, registryVars, RegistryNext,
        Unregister, RegisterManual

\* A living actor loses its name without a call only to the task of another that
\* was registered under it and is dead: registrations of names that are not
\* shared are safe from the removal by name.
THEOREM NamesTheorem == Spec => NamesAreKept
  <1> DEFINE Kept == \A n \in DOMAIN names \ DOMAIN names' :
                        names[n] \in alive /\ calls' = calls =>
                            \E a \in Actors \ alive : <<n, a>> \in registered
  <1>1. Init => Watchers  BY DEF Init, RegistryInit, Watchers
  <1>2. TypeOK /\ Watchers /\ [Next]_vars => Watchers'  BY WatchersStep
  <1>3. ASSUME TypeOK, Watchers, [Next]_vars PROVE [Kept]_vars
    <2>0. calls \in Nat  BY <1>3, RegistryAssumption DEF TypeOK, RegistryTypeOK,
                                                         RegistryAssumption
    <2>1. ASSUME NEW n \in Names, NEW a \in Actors, WatchEnds(n, a) PROVE Kept
      <3>1. a \notin alive /\ <<n, a>> \in registered  BY <1>3, <2>1 DEF WatchEnds, Watchers
      <3>2. DOMAIN names' = DOMAIN names \ {n}  BY <2>1 DEF WatchEnds, Remove
      <3> QED  BY <3>1, <3>2
    <2>2. CASE calls' = calls + 1  BY <2>0, <2>2
    <2>3. CASE UNCHANGED names  BY <2>3
    <2> QED
      BY <1>3, <2>1, <2>2, <2>3 DEF Next, vars, registryVars, RegistryNext, Register,
          RegisterManual, Unregister, RegistryCall, PollFindsDead, Die
  <1> QED  BY <1>1, <1>2, <1>3, ServicesTypeCorrect, PTL DEF Spec, NamesAreKept
-----------------------------------------------------------------------------
\* The safety halves of NamesAreFreed, TimersEnd and LatersFire.

\* While a name from register leads to an actor, a task that register started
\* for that very actor polls it or is about to unregister the name (registry.rs
\* 41), even if the name was taken over and tasks of earlier owners have run.
NamesAreWatched ==
    \A n \in automatic : polling[<<n, names[n]>>] > 0 \/ leaving[<<n, names[n]>>] > 0

\* The task of a timer never ends without a reason (context.rs 129, 154).
TimersEndForCause ==
    \A t \in Timers :
        phase[t] = "done" => \/ t \in Laters \cap fired
                             \/ t \in cancelled
                             \/ Owner[t] \notin alive

LEMMA WatchedStep ==
    ASSUME TypeOK, NamesAreWatched, [Next]_vars
    PROVE  NamesAreWatched'
  <1> USE DEF NamesAreWatched
  <1>0. /\ automatic \subseteq Names /\ automatic \subseteq DOMAIN names
        /\ \A n \in DOMAIN names : names[n] \in Actors
        /\ polling \in [Names \X Actors -> Nat] /\ leaving \in [Names \X Actors -> Nat]
    BY MapsDef DEF TypeOK, RegistryTypeOK
  <1>1. ASSUME NEW n \in Names, NEW a \in Actors, Register(n, a) PROVE NamesAreWatched'
    <2>1. names'[n] = a /\ \A m \in DOMAIN names : m # n => names'[m] = names[m]
      BY <1>1 DEF Register, Put
    <2>2. /\ polling'[<<n, a>>] > 0 /\ leaving' = leaving
          /\ \A w \in Names \X Actors : polling'[w] \geq polling[w]
      BY <1>0, <1>1 DEF Register
    <2>3. automatic' = automatic \cup {n}  BY <1>1 DEF Register
    <2>4. ASSUME NEW m \in automatic', m # n
          PROVE  polling'[<<m, names'[m]>>] > 0 \/ leaving'[<<m, names'[m]>>] > 0
      <3>1. m \in automatic /\ names'[m] = names[m] /\ <<m, names[m]>> \in Names \X Actors
        BY <1>0, <2>1, <2>3, <2>4
      <3>2. polling'[<<m, names[m]>>] \geq polling[<<m, names[m]>>]
            /\ polling[<<m, names[m]>>] \in Nat /\ polling'[<<m, names[m]>>] \in Nat
        BY <1>0, <1>1, <2>2, <3>1 DEF Register
      <3> QED  BY <2>2, <3>1, <3>2
    <2> QED  BY <2>1, <2>2, <2>4
  <1>2. ASSUME NEW n \in Names, UNCHANGED polling,
               \A w \in Names \X Actors : w[1] # n => leaving'[w] = leaving[w],
               \A m \in DOMAIN names : m # n => names'[m] = names[m],
               automatic' = automatic \ {n}
        PROVE  NamesAreWatched'
    BY <1>0, <1>2
  <1>3. ASSUME NEW n \in Names, NEW a \in Actors, RegisterManual(n, a)
        PROVE  NamesAreWatched'
    BY <1>2, <1>3 DEF RegisterManual, Put
  <1>4. ASSUME NEW n \in Names, Unregister(n) PROVE NamesAreWatched'
    BY <1>0, <1>2, <1>4 DEF Unregister, Remove
  <1>5. ASSUME NEW n \in Names, NEW a \in Actors, PollFindsDead(n, a)
        PROVE  NamesAreWatched'
    <2>1. UNCHANGED <<names, automatic>>  BY <1>5 DEF PollFindsDead
    <2>2. \A w \in Names \X Actors :
            /\ w = <<n, a>> => leaving'[w] > 0
            /\ w # <<n, a>> => polling'[w] = polling[w] /\ leaving'[w] = leaving[w]
      BY <1>0, <1>5 DEF PollFindsDead
    <2>3. \A m \in automatic : <<m, names[m]>> \in Names \X Actors  BY <1>0
    <2> QED  BY <2>1, <2>2, <2>3
  <1>6. ASSUME NEW n \in Names, NEW a \in Actors, WatchEnds(n, a)
        PROVE  NamesAreWatched'
    <2>1. \A w \in Names \X Actors : w[1] # n => leaving'[w] = leaving[w]
      BY <1>0, <1>6 DEF WatchEnds
    <2>2. \A m \in automatic' : names'[m] = names[m]
      BY <1>0, <1>6 DEF WatchEnds, Remove
    <2>3. automatic' = automatic \ {n} /\ UNCHANGED polling  BY <1>6 DEF WatchEnds
    <2> QED  BY <1>0, <2>1, <2>2, <2>3
  <1>7. CASE UNCHANGED registryVars  BY <1>7 DEF registryVars
  <1> QED
    BY <1>1, <1>3, <1>4, <1>5, <1>6, <1>7 DEF Next, vars, RegistryNext, Die

\* A name whose actor dies does not depend on luck to be freed: the task that will
\* do it exists as long as the name does, so that it only has to run.
THEOREM WatchedTheorem == Spec => []NamesAreWatched
  <1>1. Init => NamesAreWatched  BY DEF Init, RegistryInit, NamesAreWatched
  <1>2. TypeOK /\ NamesAreWatched /\ [Next]_vars => NamesAreWatched'  BY WatchedStep
  <1> QED  BY <1>1, <1>2, ServicesTypeCorrect, PTL DEF Spec

LEMMA TimersStep ==
    ASSUME TypeOK, TimersEndForCause, [Next]_vars
    PROVE  TimersEndForCause'
  <1> USE TimerAssumption DEF TimersEndForCause, TimerAssumption, Timers
  <1>0. phase \in [Timers -> {"unset", "sleeping", "sending", "done"}]
    BY DEF TypeOK, TimerTypeOK
  <1>1. ASSUME NEW t \in Timers, UNCHANGED alive,
               RunTimer(t) \/ Cancel(t) \/ Elapse(t) \/ Tick(t) \/ Fire(t) \/ FireFails(t)
        PROVE  TimersEndForCause'
    BY <1>0, <1>1 DEF RunTimer, Cancel, Elapse, Tick, Fire, FireFails, AfterSend
  <1>2. CASE UNCHANGED <<phase, fired, cancelled>> /\ alive' \subseteq alive
    BY <1>2
  <1> QED
    BY <1>1, <1>2 DEF Next, vars, TimerNext, timerVars, OtherSend, Receive, Die

\* run_later ends when its message is in the mailbox, and otherwise a timer of
\* either kind ends only because it was cancelled or its actor is gone; a full
\* mailbox makes it wait, and is not a reason.
THEOREM TimersTheorem == Spec => []TimersEndForCause
  <1>1. Init => TimersEndForCause
    BY TimerAssumption DEF Init, TimerInit, TimersEndForCause, Timers
  <1>2. TypeOK /\ TimersEndForCause /\ [Next]_vars => TimersEndForCause'
    BY TimersStep
  <1> QED  BY <1>1, <1>2, ServicesTypeCorrect, PTL DEF Spec
=============================================================================
