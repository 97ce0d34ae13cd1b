----------------------- MODULE ProcessManager_proofs ------------------------
(***************************************************************************)
(* The inductive invariant IInv of the process manager, and the theorems   *)
(* that follow from it for every number of servers, processes and          *)
(* concurrent handlers, with auto restart, startup timeouts and wait       *)
(* errors on or off.                                                       *)
(*                                                                         *)
(* The last section is about RestartPolicy, whose decision the manager     *)
(* carries out when a process crashes: it gives up, and delays, by the     *)
(* number of crashes within the window, for every limit and window.        *)
(***************************************************************************)
EXTENDS ProcessManager, Integers, SequenceTheorems, FiniteSetTheorems, WellFoundedInduction, TLAPS

\* Nothing is started, registered or scheduled in the initial state.
LEMMA InitInv == Init => IInv
  <1> SUFFICES ASSUME Init PROVE IInv
    OBVIOUS
  <1> USE NoneAssumption DEF Init, Actors, Gone
  <1>1. TypeOK
    BY DEF TypeOK, Status, Exits, Watching, Points
  <1>2. RegistryMatches /\ StoppedIsDead /\ ExitsAreReal
    BY DEF RegistryMatches, StoppedIsDead, ExitsAreReal, Exits
  <1>3. PendingIsJustified
    BY DEF PendingIsJustified
  <1>4. StopReturnsDead /\ RestartWaitsForDeath
    BY DEF StopReturnsDead, RestartWaitsForDeath
  <1>5. FreshIsPristine /\ ActorsKnow
    BY DEF FreshIsPristine, ActorsKnow, Waiting
  <1>. QED
    BY <1>1, <1>2, <1>3, <1>4, <1>5 DEF IInv

-----------------------------------------------------------------------------
(* The steps of a child process, of the tasks start() spawned for it, of a *)
(* status watcher that learns of a change, and of start_process.           *)

\* The step Exit preserves the invariant.
LEMMA ExitStep ==
    ASSUME IInv, NEW p \in Procs, Exit(p)
    PROVE  IInv'
  <1> USE NoneAssumption, ActorAssumption
      DEF IInv, TypeOK, Gone, Actors, Exit, mgrVars, watchVars, taskVars, Points, Waiting,
          Watching, Status, Exits, Terminal
  <1>1. TypeOK'
    OBVIOUS
  <1>2. RegistryMatches'
    BY DEF RegistryMatches
  <1>3. PendingIsJustified'
    BY DEF PendingIsJustified
  <1>4. StoppedIsDead' /\ ExitsAreReal'
    BY DEF StoppedIsDead, ExitsAreReal
  <1>5. StopReturnsDead' /\ RestartWaitsForDeath'
    BY DEF StopReturnsDead, RestartWaitsForDeath
  <1>6. FreshIsPristine'
    BY DEF FreshIsPristine
  <1>7. ActorsKnow'
    BY DEF ActorsKnow, ServerOf
  <1>. QED
    BY <1>1, <1>2, <1>3, <1>4, <1>5, <1>6, <1>7

\* The step ReadySeen preserves the invariant.
LEMMA ReadySeenStep ==
    ASSUME IInv, NEW p \in Procs, ReadySeen(p)
    PROVE  IInv'
  <1> USE NoneAssumption, ActorAssumption
      DEF IInv, TypeOK, Gone, Actors, ReadySeen, mgrVars, watchVars, taskVars, Points, Waiting,
          Watching, Status, Exits, Terminal
  <1>1. TypeOK'
    OBVIOUS
  <1>2. RegistryMatches'
    BY DEF RegistryMatches
  <1>3. PendingIsJustified'
    BY DEF PendingIsJustified
  <1>4. StoppedIsDead' /\ ExitsAreReal'
    BY DEF StoppedIsDead, ExitsAreReal
  <1>5. StopReturnsDead' /\ RestartWaitsForDeath'
    BY DEF StopReturnsDead, RestartWaitsForDeath
  <1>6. FreshIsPristine'
    BY DEF FreshIsPristine
  <1>7. ActorsKnow'
    BY DEF ActorsKnow, ServerOf
  <1>. QED
    BY <1>1, <1>2, <1>3, <1>4, <1>5, <1>6, <1>7

\* The step ReadyPublish preserves the invariant.
LEMMA ReadyPublishStep ==
    ASSUME IInv, NEW p \in Procs, ReadyPublish(p)
    PROVE  IInv'
  <1> USE NoneAssumption, ActorAssumption
      DEF IInv, TypeOK, Gone, Actors, ReadyPublish, SetStatus, WakeWaiters, mgrVars,
          Points, Waiting, Watching, Status, Exits, Terminal
  <1>1. TypeOK'
    OBVIOUS
  <1>2. RegistryMatches'
    BY DEF RegistryMatches
  <1>3. PendingIsJustified'
    BY DEF PendingIsJustified
  <1>4. StoppedIsDead' /\ ExitsAreReal'
    BY DEF StoppedIsDead, ExitsAreReal
  <1>5. StopReturnsDead' /\ RestartWaitsForDeath'
    BY DEF StopReturnsDead, RestartWaitsForDeath
  <1>6. FreshIsPristine'
    BY DEF FreshIsPristine
  <1>7. ActorsKnow'
    BY DEF ActorsKnow, ServerOf
  <1>. QED
    BY <1>1, <1>2, <1>3, <1>4, <1>5, <1>6, <1>7

\* The step WatchdogFires preserves the invariant.
LEMMA WatchdogFiresStep ==
    ASSUME IInv, NEW p \in Procs, WatchdogFires(p)
    PROVE  IInv'
  <1> USE NoneAssumption, ActorAssumption
      DEF IInv, TypeOK, Gone, Actors, WatchdogFires, mgrVars, watchVars, taskVars,
          Points, Waiting, Watching, Status, Exits, Terminal
  <1>1. TypeOK'
    OBVIOUS
  <1>2. RegistryMatches'
    BY DEF RegistryMatches
  <1>3. PendingIsJustified'
    BY DEF PendingIsJustified
  <1>4. StoppedIsDead' /\ ExitsAreReal'
    BY DEF StoppedIsDead, ExitsAreReal
  <1>5. StopReturnsDead' /\ RestartWaitsForDeath'
    BY DEF StopReturnsDead, RestartWaitsForDeath
  <1>6. FreshIsPristine'
    BY DEF FreshIsPristine
  <1>7. ActorsKnow'
    BY DEF ActorsKnow, ServerOf
  <1>. QED
    BY <1>1, <1>2, <1>3, <1>4, <1>5, <1>6, <1>7

\* The step WatchdogPublish preserves the invariant.
LEMMA WatchdogPublishStep ==
    ASSUME IInv, NEW p \in Procs, WatchdogPublish(p)
    PROVE  IInv'
  <1> USE NoneAssumption, ActorAssumption
      DEF IInv, TypeOK, Gone, Actors, WatchdogPublish, SetStatus, WakeWaiters, mgrVars,
          Points, Waiting, Watching, Status, Exits, Terminal
  <1>1. TypeOK'
    OBVIOUS
  <1>2. RegistryMatches'
    BY DEF RegistryMatches
  <1>3. PendingIsJustified'
    BY DEF PendingIsJustified
  <1>4. StoppedIsDead' /\ ExitsAreReal'
    BY DEF StoppedIsDead, ExitsAreReal
  <1>5. StopReturnsDead' /\ RestartWaitsForDeath'
    BY DEF StopReturnsDead, RestartWaitsForDeath
  <1>6. FreshIsPristine'
    BY DEF FreshIsPristine
  <1>7. ActorsKnow'
    BY DEF ActorsKnow, ServerOf
  <1>. QED
    BY <1>1, <1>2, <1>3, <1>4, <1>5, <1>6, <1>7

\* The step ExitObserved preserves the invariant.
LEMMA ExitObservedStep ==
    ASSUME IInv, NEW p \in Procs, ExitObserved(p)
    PROVE  IInv'
  <1> USE NoneAssumption, ActorAssumption
      DEF IInv, TypeOK, Gone, Actors, ExitObserved, mgrVars, watchVars, taskVars,
          Points, Waiting, Watching, Status, Exits, Terminal
  <1>1. TypeOK'
    BY CodesAssumption
  <1>2. RegistryMatches'
    BY DEF RegistryMatches
  <1>3. PendingIsJustified'
    BY DEF PendingIsJustified
  <1>4. StoppedIsDead' /\ ExitsAreReal'
    BY DEF StoppedIsDead, ExitsAreReal
  <1>5. StopReturnsDead' /\ RestartWaitsForDeath'
    BY DEF StopReturnsDead, RestartWaitsForDeath
  <1>6. FreshIsPristine'
    BY DEF FreshIsPristine
  <1>7. ActorsKnow'
    BY DEF ActorsKnow, ServerOf
  <1>. QED
    BY <1>1, <1>2, <1>3, <1>4, <1>5, <1>6, <1>7

\* The step ExitPublish preserves the invariant.
LEMMA ExitPublishStep ==
    ASSUME IInv, NEW p \in Procs, ExitPublish(p)
    PROVE  IInv'
  <1> USE NoneAssumption, ActorAssumption
      DEF IInv, TypeOK, Gone, Actors, ExitPublish, SetStatus, WakeWaiters, mgrVars,
          Points, Waiting, Watching, Status, Exits, Terminal
  <1>1. TypeOK'
    OBVIOUS
  <1>2. RegistryMatches'
    BY DEF RegistryMatches
  <1>3. PendingIsJustified'
    BY SMTT(30) DEF PendingIsJustified, FreshIsPristine, ExitsAreReal, ActorsKnow
  <1>4. StoppedIsDead' /\ ExitsAreReal'
    BY DEF StoppedIsDead, ExitsAreReal
  <1>5. StopReturnsDead' /\ RestartWaitsForDeath'
    BY DEF StopReturnsDead, RestartWaitsForDeath
  <1>6. FreshIsPristine'
    BY DEF FreshIsPristine
  <1>7. ActorsKnow'
    BY DEF ActorsKnow, ServerOf
  <1>. QED
    BY <1>1, <1>2, <1>3, <1>4, <1>5, <1>6, <1>7

\* The step WaitFails preserves the invariant.
LEMMA WaitFailsStep ==
    ASSUME IInv, NEW p \in Procs, WaitFails(p)
    PROVE  IInv'
  <1> USE NoneAssumption, ActorAssumption
      DEF IInv, TypeOK, Gone, Actors, WaitFails, SetStatus, WakeWaiters, mgrVars,
          Points, Waiting, Watching, Status, Exits, Terminal
  <1>1. TypeOK'
    OBVIOUS
  <1>2. RegistryMatches'
    BY DEF RegistryMatches
  <1>3. PendingIsJustified'
    BY DEF PendingIsJustified
  <1>4. StoppedIsDead' /\ ExitsAreReal'
    BY DEF StoppedIsDead, ExitsAreReal
  <1>5. StopReturnsDead' /\ RestartWaitsForDeath'
    BY DEF StopReturnsDead, RestartWaitsForDeath
  <1>6. FreshIsPristine'
    BY DEF FreshIsPristine
  <1>7. ActorsKnow'
    BY DEF ActorsKnow, ServerOf
  <1>. QED
    BY <1>1, <1>2, <1>3, <1>4, <1>5, <1>6, <1>7

\* The step TimerFires preserves the invariant.
LEMMA TimerFiresStep ==
    ASSUME IInv, NEW p \in Procs, TimerFires(p)
    PROVE  IInv'
  <1> USE NoneAssumption, ActorAssumption
      DEF IInv, TypeOK, Gone, Actors, TimerFires, procVars, watchVars, Points, Waiting,
          Watching, Status, Exits, Terminal
  <1>1. TypeOK'
    OBVIOUS
  <1>2. RegistryMatches'
    BY DEF RegistryMatches
  <1>3. PendingIsJustified'
    BY DEF PendingIsJustified
  <1>4. StoppedIsDead' /\ ExitsAreReal'
    BY DEF StoppedIsDead, ExitsAreReal
  <1>5. StopReturnsDead' /\ RestartWaitsForDeath'
    BY DEF StopReturnsDead, RestartWaitsForDeath
  <1>6. FreshIsPristine'
    BY DEF FreshIsPristine
  <1>7. ActorsKnow'
    BY DEF ActorsKnow, ServerOf
  <1>. QED
    BY <1>1, <1>2, <1>3, <1>4, <1>5, <1>6, <1>7

\* The step Spawn preserves the invariant.
LEMMA SpawnStep ==
    ASSUME IInv, NEW a \in Actors, NEW p \in Procs, Spawn(a, p)
    PROVE  IInv'
  <1> USE NoneAssumption, ActorAssumption
      DEF IInv, TypeOK, Gone, Actors, Spawn, ServerOf, mgrVars, watchVars, Points, Waiting,
          Watching, Status, Exits, Terminal
  <1>1. TypeOK'
    OBVIOUS
  <1>2. RegistryMatches'
    BY DEF RegistryMatches
  <1>3. PendingIsJustified'
    BY DEF PendingIsJustified
  <1>4. StoppedIsDead' /\ ExitsAreReal'
    BY DEF StoppedIsDead, ExitsAreReal, ActorsKnow, FreshIsPristine
  <1>5. StopReturnsDead' /\ RestartWaitsForDeath'
    BY DEF StopReturnsDead, RestartWaitsForDeath, FreshIsPristine, StoppedIsDead,
        ActorsKnow
  <1>6. FreshIsPristine'
    BY DEF FreshIsPristine, ActorsKnow, RegistryMatches, PendingIsJustified
  <1>7. ActorsKnow'
    BY DEF ActorsKnow, FreshIsPristine, StoppedIsDead, RegistryMatches,
        PendingIsJustified, ServerOf
  <1>. QED
    BY <1>1, <1>2, <1>3, <1>4, <1>5, <1>6, <1>7

\* The step StartFails preserves the invariant.
LEMMA StartFailsStep ==
    ASSUME IInv, NEW a \in Actors, StartFails(a)
    PROVE  IInv'
  <1> USE NoneAssumption, ActorAssumption
      DEF IInv, TypeOK, Gone, Actors, StartFails, procVars, mgrVars, watchVars, Points, Waiting,
          Watching, Status, Exits, Terminal
  <1>1. TypeOK'
    OBVIOUS
  <1>2. RegistryMatches'
    BY DEF RegistryMatches
  <1>3. PendingIsJustified'
    BY DEF PendingIsJustified
  <1>4. StoppedIsDead' /\ ExitsAreReal'
    BY DEF StoppedIsDead, ExitsAreReal
  <1>5. StopReturnsDead' /\ RestartWaitsForDeath'
    BY DEF StopReturnsDead, RestartWaitsForDeath, FreshIsPristine, StoppedIsDead,
        ActorsKnow
  <1>6. FreshIsPristine'
    BY DEF FreshIsPristine
  <1>7. ActorsKnow'
    BY DEF ActorsKnow, ServerOf
  <1>. QED
    BY <1>1, <1>2, <1>3, <1>4, <1>5, <1>6, <1>7

\* The step Register preserves the invariant.
LEMMA RegisterStep ==
    ASSUME IInv, NEW a \in Actors, Register(a)
    PROVE  IInv'
  <1> USE NoneAssumption, ActorAssumption DEF IInv, TypeOK, Gone
  <1>a. PICK s \in Servers, q \in Procs :
            processes' = [processes EXCEPT ![s] = q] /\ owner[q] = s
    <2>1. tgt[a] \in Procs /\ owner[tgt[a]] = ServerOf(a)
      BY DEF Register, ActorsKnow
    <2>2. owner[tgt[a]] \in Servers
      BY <2>1 DEF FreshIsPristine
    <2>. QED
      BY <2>1, <2>2 DEF Register
  <1>b. pc' = [pc EXCEPT ![a] = "watch"] /\ pc[a] = "spawned"
    BY DEF Register
  <1>c. /\ UNCHANGED <<owner, status, alive, sig, stopReq, lastExit, reap, ready, dog>>
        /\ UNCHANGED <<handles, history, pending, wpc, wval, wnew>>
        /\ UNCHANGED <<tgt, op, srv, tnew, todo>>
    BY DEF Register, procVars, watchVars
  <1>d. processes' \in [Servers -> Procs \cup {None}] /\ pc' \in [Actors -> Points]
    BY <1>a, <1>b DEF Points
  <1>1. TypeOK'
    BY <1>c, <1>d
  <1>2. RegistryMatches'
    BY <1>a, <1>c DEF RegistryMatches
  <1>3. PendingIsJustified'
    BY <1>b, <1>c DEF PendingIsJustified, Actors
  <1>4. StoppedIsDead' /\ ExitsAreReal'
    BY <1>c DEF StoppedIsDead, ExitsAreReal
  <1>5. StopReturnsDead' /\ RestartWaitsForDeath'
    BY <1>b, <1>c DEF StopReturnsDead, RestartWaitsForDeath, Actors
  <1>6. FreshIsPristine'
    BY <1>a, <1>b, <1>c DEF FreshIsPristine, Actors
  <1>7. ActorsKnow'
    BY <1>b, <1>c DEF ActorsKnow, ServerOf, Actors, Waiting
  <1>. QED
    BY <1>1, <1>2, <1>3, <1>4, <1>5, <1>6, <1>7

\* The step SpawnWatcher preserves the invariant.
LEMMA SpawnWatcherStep ==
    ASSUME IInv, NEW a \in Actors, SpawnWatcher(a)
    PROVE  IInv'
  <1> USE NoneAssumption, ActorAssumption
      DEF IInv, TypeOK, Gone, Actors, SpawnWatcher, ServerOf, procVars, Points, Waiting,
          Watching, Status, Exits, Terminal
  <1>0. tgt[a] \in Procs /\ owner[tgt[a]] # None /\ ServerOf(a) \in Servers
    BY DEF ActorsKnow, FreshIsPristine
  <1>1. TypeOK'
    BY <1>0
  <1>2. RegistryMatches'
    BY DEF RegistryMatches
  <1>3. PendingIsJustified'
    BY DEF PendingIsJustified
  <1>4. StoppedIsDead' /\ ExitsAreReal'
    BY DEF StoppedIsDead, ExitsAreReal
  <1>5. StopReturnsDead' /\ RestartWaitsForDeath'
    BY DEF StopReturnsDead, RestartWaitsForDeath
  <1>6. FreshIsPristine'
    BY <1>0 DEF FreshIsPristine
  <1>7. ActorsKnow'
    BY DEF ActorsKnow, ServerOf
  <1>. QED
    BY <1>1, <1>2, <1>3, <1>4, <1>5, <1>6, <1>7

\* The step StopAllDone preserves the invariant.
LEMMA StopAllDoneStep ==
    ASSUME IInv, NEW t \in Tasks, StopAllDone(t)
    PROVE  IInv'
  <1> USE NoneAssumption, ActorAssumption
      DEF IInv, TypeOK, Gone, Actors, StopAllDone, procVars, mgrVars, watchVars,
          Points, Waiting, Watching, Status, Exits, Terminal
  <1>1. TypeOK'
    OBVIOUS
  <1>2. RegistryMatches'
    BY DEF RegistryMatches
  <1>3. PendingIsJustified'
    BY DEF PendingIsJustified
  <1>4. StoppedIsDead' /\ ExitsAreReal'
    BY DEF StoppedIsDead, ExitsAreReal
  <1>5. StopReturnsDead' /\ RestartWaitsForDeath'
    BY DEF StopReturnsDead, RestartWaitsForDeath, FreshIsPristine, StoppedIsDead,
        ActorsKnow
  <1>6. FreshIsPristine'
    BY DEF FreshIsPristine
  <1>7. ActorsKnow'
    BY DEF ActorsKnow, ServerOf
  <1>. QED
    BY <1>1, <1>2, <1>3, <1>4, <1>5, <1>6, <1>7

\* The step Subscribe preserves the invariant.
LEMMA SubscribeStep ==
    ASSUME IInv, NEW t \in Tasks, Subscribe(t)
    PROVE  IInv'
  <1> USE NoneAssumption, ActorAssumption
      DEF IInv, TypeOK, Gone, Actors, Subscribe, procVars, mgrVars, watchVars, Points, Waiting,
          Watching, Status, Exits, Terminal
  <1>1. TypeOK'
    OBVIOUS
  <1>2. RegistryMatches'
    BY DEF RegistryMatches
  <1>3. PendingIsJustified'
    BY DEF PendingIsJustified
  <1>4. StoppedIsDead' /\ ExitsAreReal'
    BY DEF StoppedIsDead, ExitsAreReal
  <1>5. StopReturnsDead' /\ RestartWaitsForDeath'
    BY DEF StopReturnsDead, RestartWaitsForDeath
  <1>6. FreshIsPristine'
    BY DEF FreshIsPristine
  <1>7. ActorsKnow'
    BY DEF ActorsKnow, ServerOf
  <1>. QED
    BY <1>1, <1>2, <1>3, <1>4, <1>5, <1>6, <1>7

\* The step WaitWakes preserves the invariant.
LEMMA WaitWakesStep ==
    ASSUME IInv, NEW t \in Tasks, WaitWakes(t)
    PROVE  IInv'
  <1> USE NoneAssumption, ActorAssumption
      DEF IInv, TypeOK, Gone, Actors, WaitWakes, AfterStop, procVars, mgrVars,
          watchVars, Points, Waiting, Watching, Status, Exits, Terminal
  <1>1. TypeOK'
    OBVIOUS
  <1>2. RegistryMatches'
    BY DEF RegistryMatches
  <1>3. PendingIsJustified'
    BY DEF PendingIsJustified
  <1>4. StoppedIsDead' /\ ExitsAreReal'
    BY DEF StoppedIsDead, ExitsAreReal
  <1>5. StopReturnsDead' /\ RestartWaitsForDeath'
    BY DEF StopReturnsDead, RestartWaitsForDeath, FreshIsPristine, StoppedIsDead,
        ActorsKnow
  <1>6. FreshIsPristine'
    BY DEF FreshIsPristine
  <1>7. ActorsKnow'
    BY DEF ActorsKnow, ServerOf
  <1>. QED
    BY <1>1, <1>2, <1>3, <1>4, <1>5, <1>6, <1>7

\* The step StopTimesOut preserves the invariant.
LEMMA StopTimesOutStep ==
    ASSUME IInv, NEW t \in Tasks, StopTimesOut(t)
    PROVE  IInv'
  <1> USE NoneAssumption, ActorAssumption
      DEF IInv, TypeOK, Gone, Actors, StopTimesOut, procVars, mgrVars, watchVars,
          Points, Waiting, Watching, Status, Exits, Terminal
  <1>1. TypeOK'
    OBVIOUS
  <1>2. RegistryMatches'
    BY DEF RegistryMatches
  <1>3. PendingIsJustified'
    BY DEF PendingIsJustified
  <1>4. StoppedIsDead' /\ ExitsAreReal'
    BY DEF StoppedIsDead, ExitsAreReal
  <1>5. StopReturnsDead' /\ RestartWaitsForDeath'
    BY DEF StopReturnsDead, RestartWaitsForDeath
  <1>6. FreshIsPristine'
    BY DEF FreshIsPristine
  <1>7. ActorsKnow'
    BY DEF ActorsKnow, ServerOf
  <1>. QED
    BY <1>1, <1>2, <1>3, <1>4, <1>5, <1>6, <1>7

\* The step ForceKill preserves the invariant.
LEMMA ForceKillStep ==
    ASSUME IInv, NEW t \in Tasks, ForceKill(t)
    PROVE  IInv'
  <1> USE NoneAssumption, ActorAssumption
      DEF IInv, TypeOK, Gone, Actors, ForceKill, mgrVars, watchVars, Points, Waiting, Watching,
          Status, Exits, Terminal
  <1>1. TypeOK'
    OBVIOUS
  <1>2. RegistryMatches'
    BY DEF RegistryMatches
  <1>3. PendingIsJustified'
    BY DEF PendingIsJustified
  <1>4. StoppedIsDead' /\ ExitsAreReal'
    BY DEF StoppedIsDead, ExitsAreReal
  <1>5. StopReturnsDead' /\ RestartWaitsForDeath'
    BY DEF StopReturnsDead, RestartWaitsForDeath
  <1>6. FreshIsPristine'
    BY DEF FreshIsPristine
  <1>7. ActorsKnow'
    BY DEF ActorsKnow, ServerOf
  <1>. QED
    BY <1>1, <1>2, <1>3, <1>4, <1>5, <1>6, <1>7

\* The step Return preserves the invariant.
LEMMA ReturnStep ==
    ASSUME IInv, NEW a \in Actors, Return(a)
    PROVE  IInv'
  <1> USE NoneAssumption, ActorAssumption
      DEF IInv, TypeOK, Gone, Actors, Return, procVars, mgrVars, watchVars, Points, Waiting,
          Watching, Status, Exits, Terminal
  <1>1. TypeOK'
    OBVIOUS
  <1>2. RegistryMatches'
    BY DEF RegistryMatches
  <1>3. PendingIsJustified'
    BY DEF PendingIsJustified
  <1>4. StoppedIsDead' /\ ExitsAreReal'
    BY DEF StoppedIsDead, ExitsAreReal
  <1>5. StopReturnsDead' /\ RestartWaitsForDeath'
    BY DEF StopReturnsDead, RestartWaitsForDeath
  <1>6. FreshIsPristine'
    BY DEF FreshIsPristine
  <1>7. ActorsKnow'
    BY DEF ActorsKnow, ServerOf
  <1>. QED
    BY <1>1, <1>2, <1>3, <1>4, <1>5, <1>6, <1>7

\* The step WatchChanged preserves the invariant.
LEMMA WatchChangedStep ==
    ASSUME IInv, NEW p \in Procs, WatchChanged(p)
    PROVE  IInv'
  <1> USE NoneAssumption, ActorAssumption
      DEF IInv, TypeOK, Gone, Actors, WatchChanged, procVars, mgrVars, taskVars,
          Points, Waiting, Watching, Status, Exits, Terminal
  <1>1. TypeOK'
    OBVIOUS
  <1>2. RegistryMatches'
    BY DEF RegistryMatches
  <1>3. PendingIsJustified'
    BY DEF PendingIsJustified
  <1>4. StoppedIsDead' /\ ExitsAreReal'
    BY DEF StoppedIsDead, ExitsAreReal
  <1>5. StopReturnsDead' /\ RestartWaitsForDeath'
    BY DEF StopReturnsDead, RestartWaitsForDeath
  <1>6. FreshIsPristine'
    BY DEF FreshIsPristine
  <1>7. ActorsKnow'
    BY DEF ActorsKnow, ServerOf
  <1>. QED
    BY <1>1, <1>2, <1>3, <1>4, <1>5, <1>6, <1>7

-----------------------------------------------------------------------------
(* The steps that publish a status on behalf of a request, cancel a        *)
(* pending restart, or handle a crash.                                     *)

\* A send on the watch channel keeps the types of the value and of the flags of
\* its receivers.
LEMMA SetStatusType ==
    ASSUME TypeOK, NEW p \in Procs, NEW v \in Status, SetStatus(p, v)
    PROVE  /\ status' \in [Procs -> Status]
           /\ wnew' \in [Procs -> BOOLEAN]
           /\ status'[p] = v
           /\ \A q \in Procs : q # p => status'[q] = status[q]
  <1>1. (wpc[p] \in Watching) \in BOOLEAN
    OBVIOUS
  <1>. QED
    BY <1>1 DEF TypeOK, SetStatus

\* WakeWaitersType
LEMMA WakeWaitersType ==
    ASSUME TypeOK, NEW p, WakeWaiters(p)
    PROVE  tnew' \in [Tasks -> BOOLEAN]
  BY DEF TypeOK, WakeWaiters, Waiting

\* What cancel_pending_restart does to the actors: its caller t goes on at k,
\* only restart timers are ended, every other handler stays where it is.
Cancelled(t, k) ==
    /\ pc' \in [Actors -> Points]
    /\ pending' \in [Servers -> Procs \cup {None}]
    /\ pc'[t] = k
    /\ \A b \in Tasks \ {t} : pc'[b] = pc[b]
    /\ \A p \in Procs : pc'[p] \in {pc[p], "idle"}
    /\ \A p \in Procs : pc'[p] = "sleep" <=> owner[p] # None /\ pending'[owner[p]] = p
    /\ \A s \in Servers : pending'[s] \in {pending[s], None}

\* CancelPendingPc
LEMMA CancelPendingPc ==
    ASSUME IInv, NEW S \in SUBSET Servers, NEW t \in Tasks,
           NEW k \in {"fetch", "returned", "next"}, CancelPending(S, t, k)
    PROVE  Cancelled(t, k)
  <1> USE NoneAssumption, ActorAssumption DEF IInv, TypeOK, Gone, CancelPending
  <1>1. k \in Points
    BY DEF Points
  <1>2. pc' \in [Actors -> Points]
    BY <1>1 DEF Points
  <1>3. pending' \in [Servers -> Procs \cup {None}]
    OBVIOUS
  <1>4. /\ pc'[t] = k
        /\ \A b \in Tasks \ {t} : pc'[b] = pc[b]
        /\ \A p \in Procs : pc'[p] \in {pc[p], "idle"}
        /\ \A s \in Servers : pending'[s] \in {pending[s], None}
    BY DEF Actors
  <1>5. \A p \in Procs : pc'[p] = "sleep" <=> owner[p] # None /\ pending'[owner[p]] = p
    BY DEF PendingIsJustified, Actors
  <1>. QED
    BY <1>2, <1>3, <1>4, <1>5 DEF Cancelled

\* What the first step of stop() or kill() on a registered process p does: the
\* caller holds p; either p is gone and the caller goes on at k, or the caller is
\* about to announce the stop.
Stopping(t, p, k) ==
    /\ p \in Procs /\ owner[p] # None
    /\ tgt' \in [Actors -> Procs \cup {None}]
    /\ stopReq' \in [Procs -> BOOLEAN]
    /\ pc' \in [Actors -> Points]
    /\ tgt'[t] = p
    /\ \A b \in Actors \ {t} : pc'[b] = pc[b] /\ tgt'[b] = tgt[b]
    /\ pc'[t] \in {k, "announce"}
    /\ pc'[t] = k => Gone(p)

\* What a request records about its caller t.
Asked(t) ==
    /\ op' \in [Tasks -> {"none", "start", "stop", "kill", "restart", "stop_all"}]
    /\ srv' \in [Tasks -> Servers \cup {None}]
    /\ todo' \in [Tasks -> SUBSET Servers]
    /\ \A b \in Tasks \ {t} : op'[b] = op[b] /\ srv'[b] = srv[b]
    /\ op'[t] = "restart" => srv'[t] \in Servers

\* A stop of a registered process p: the branch that finds it stopped already
\* and the branch that sets stop_requested.
LEMMA StopBegun ==
    ASSUME IInv, NEW t \in Tasks, NEW s \in Servers, processes[s] # None,
           NEW k \in {"returned", "poll", "next"}, BeginStop(t, processes[s], k)
    PROVE  Stopping(t, processes[s], k)
  <1> DEFINE p == processes[s]
  <1> USE NoneAssumption, ActorAssumption DEF IInv, TypeOK, BeginStop
  <1>1. p \in Procs /\ owner[p] # None /\ t \in Actors
    BY DEF FreshIsPristine, Actors
  <1>2. k \in Points /\ "announce" \in Points /\ "announce" # k
    BY DEF Points
  <1>3. status[p] = "stopped" => Gone(p)
    BY <1>1 DEF StoppedIsDead
  <1>4. /\ stopReq' \in [Procs -> BOOLEAN]
        /\ tgt' = [tgt EXCEPT ![t] = p]
    BY <1>1
  <1>5. /\ pc'[t] = IF status[p] = "stopped" THEN k ELSE "announce"
        /\ \A b \in Actors \ {t} : pc'[b] = pc[b]
        /\ pc' \in [Actors -> Points]
    BY <1>1, <1>2
  <1>. QED
    BY <1>1, <1>2, <1>3, <1>4, <1>5 DEF Stopping

\* A request whose effect is to cancel pending restarts preserves the invariant.
LEMMA CancelStep ==
    ASSUME IInv, NEW t \in Tasks, NEW k \in {"fetch", "returned", "next"},
           Cancelled(t, k), Asked(t), history' \in [Servers -> Nat],
           UNCHANGED <<owner, status, alive, sig, stopReq, lastExit, reap, ready, dog>>,
           UNCHANGED <<processes, handles, wpc, wval, wnew, tgt, tnew>>,
           k = "fetch" => op'[t] \in {"start", "restart"} /\ srv'[t] \in Servers,
           k = "next" => op'[t] = "stop_all",
           tgt[t] # None => op'[t] \notin {"stop", "kill"}
    PROVE  IInv'
  <1> USE NoneAssumption, ActorAssumption DEF IInv, TypeOK, Gone
  <1>1. TypeOK'
    BY DEF Cancelled, Asked
  <1>2. RegistryMatches'
    BY DEF RegistryMatches
  <1>3. PendingIsJustified'
    BY DEF PendingIsJustified, Cancelled
  <1>4. StoppedIsDead' /\ ExitsAreReal'
    BY DEF StoppedIsDead, ExitsAreReal
  <1>5. StopReturnsDead' /\ RestartWaitsForDeath'
    BY DEF StopReturnsDead, RestartWaitsForDeath, Cancelled, Asked
  <1>6. FreshIsPristine'
    BY DEF FreshIsPristine, Cancelled
  <1>7. ActorsKnow'
    BY DEF ActorsKnow, ServerOf, Waiting, Cancelled, Asked, Actors
  <1>. QED
    BY <1>1, <1>2, <1>3, <1>4, <1>5, <1>6, <1>7

\* A request that begins to stop a process preserves the invariant.
LEMMA StoppingStep ==
    ASSUME IInv, NEW t \in Tasks, NEW p, NEW k \in {"returned", "poll", "next"},
           Stopping(t, p, k), Asked(t),
           UNCHANGED <<owner, status, alive, sig, lastExit, reap, ready, dog>>,
           UNCHANGED <<processes, handles, pending, history, wpc, wval, wnew, tnew>>,
           k = "poll" => op'[t] = "restart",
           k = "next" => op'[t] = "stop_all"
    PROVE  IInv'
  <1> USE NoneAssumption, ActorAssumption DEF IInv, TypeOK, Gone
  <1>1. TypeOK'
    BY DEF Stopping, Asked
  <1>2. RegistryMatches'
    BY DEF RegistryMatches
  <1>3. PendingIsJustified'
    BY DEF PendingIsJustified, Stopping, Actors
  <1>4. StoppedIsDead' /\ ExitsAreReal'
    BY DEF StoppedIsDead, ExitsAreReal, Stopping
  <1>5. StopReturnsDead' /\ RestartWaitsForDeath'
    <2>1. \A b \in Tasks \ {t} : pc'[b] = pc[b] /\ tgt'[b] = tgt[b] /\ op'[b] = op[b]
      BY DEF Stopping, Asked, Actors
    <2>2. /\ pc'[t] = "returned" => Gone(tgt'[t])
          /\ pc'[t] \in {"poll", "cleanup"} => Gone(tgt'[t])
      BY DEF Stopping
    <2>. QED
      BY <2>1, <2>2 DEF StopReturnsDead, RestartWaitsForDeath
  <1>6. FreshIsPristine'
    <2>1. \A b \in Actors, q \in Procs : owner[q] = None => tgt'[b] # q
      BY DEF FreshIsPristine, Stopping
    <2>2. \A q \in Procs : pc'[q] = pc[q]
      BY DEF Stopping, Actors
    <2>. QED
      BY <2>1, <2>2 DEF FreshIsPristine
  <1>7. ActorsKnow'
    <2>1. \A b \in Actors \ {t} : pc'[b] = pc[b] /\ tgt'[b] = tgt[b]
      BY DEF Stopping
    <2>2. /\ tgt'[t] # None
          /\ pc'[t] \in {"returned", "poll", "next", "announce"}
          /\ pc'[t] = "poll" => op'[t] = "restart"
          /\ pc'[t] = "next" => op'[t] = "stop_all"
      BY DEF Stopping
    <2>3. \A a \in Actors : pc'[a] \in {"spawned", "watch"} => tgt'[a] # None /\ owner[tgt'[a]] = ServerOf(a)'
      BY SMTT(30), <2>1, <2>2 DEF ActorsKnow, ServerOf, Asked, Actors
    <2>4. \A b \in Tasks \ {t} : /\ pc'[b] = pc[b] /\ tgt'[b] = tgt[b]
                                /\ op'[b] = op[b] /\ srv'[b] = srv[b]
      BY <2>1 DEF Asked, Actors
    <2>5. \A q \in Procs : pc'[q] = pc[q]
      BY <2>1 DEF Actors
    <2>. QED
      BY SMTT(30), <2>2, <2>3, <2>4, <2>5 DEF ActorsKnow, Waiting, Asked
  <1>. QED
    BY <1>1, <1>2, <1>3, <1>4, <1>5, <1>6, <1>7

\* The step UserStart preserves the invariant.
LEMMA UserStartStep ==
    ASSUME IInv, NEW t \in Tasks, NEW s \in Servers, UserStart(t, s)
    PROVE  IInv'
  <1> USE DEF IInv, TypeOK, UserStart
  <1>1. PICK k \in {"fetch", "returned"} : Cancelled(t, k)
    BY CancelPendingPc DEF StartServer
  <1>2. Asked(t) /\ op'[t] = "start" /\ srv'[t] \in Servers /\ history' \in [Servers -> Nat]
    BY DEF Asked, StartServer
  <1>. QED
    BY <1>1, <1>2, CancelStep DEF procVars, watchVars

\* The step StopAll preserves the invariant.
LEMMA StopAllStep ==
    ASSUME IInv, NEW t \in Tasks, StopAll(t)
    PROVE  IInv'
  <1> USE DEF IInv, TypeOK, StopAll
  <1>1. Cancelled(t, "next")
    BY CancelPendingPc
  <1>2. Asked(t) /\ op'[t] = "stop_all"
    BY DEF Asked
  <1>. QED
    BY <1>1, <1>2, CancelStep DEF procVars, watchVars

\* The step UserStop preserves the invariant.
LEMMA UserStopStep ==
    ASSUME IInv, NEW t \in Tasks, NEW s \in Servers, UserStop(t, s)
    PROVE  IInv'
  <1> USE DEF IInv, TypeOK, UserStop, watchVars
  <1>1. Asked(t) /\ op'[t] = "stop"
    BY DEF Asked
  <1>2. CASE processes[s] # None
    <2>1. Stopping(t, processes[s], "returned") /\ UNCHANGED pending
      BY <1>2, StopBegun DEF StopServer
    <2>. QED
      BY <1>1, <2>1, StoppingStep
  <1>3. CASE processes[s] = None
    <2>1. Cancelled(t, "returned") /\ UNCHANGED <<stopReq, tgt>>
      BY <1>3, CancelPendingPc DEF StopServer
    <2>2. tgt[t] = None
      BY DEF ActorsKnow
    <2>. QED
      BY <1>1, <2>1, <2>2, CancelStep
  <1>. QED
    BY <1>2, <1>3

\* The step StopAllNext preserves the invariant.
LEMMA StopAllNextStep ==
    ASSUME IInv, NEW t \in Tasks, NEW s \in Servers, StopAllNext(t, s)
    PROVE  IInv'
  <1> USE DEF IInv, TypeOK, StopAllNext, watchVars
  <1>1. Asked(t) /\ op'[t] = "stop_all"
    BY DEF Asked, ActorsKnow
  <1>2. CASE processes[s] # None
    <2>1. Stopping(t, processes[s], "next") /\ UNCHANGED pending
      BY <1>2, StopBegun DEF StopServer
    <2>. QED
      BY <1>1, <2>1, StoppingStep
  <1>3. CASE processes[s] = None
    <2>1. Cancelled(t, "next") /\ UNCHANGED <<stopReq, tgt>>
      BY <1>3, CancelPendingPc DEF StopServer
    <2>. QED
      BY <1>1, <2>1, CancelStep
  <1>. QED
    BY <1>2, <1>3

\* The step UserRestart preserves the invariant.
LEMMA UserRestartStep ==
    ASSUME IInv, NEW t \in Tasks, NEW s \in Servers, UserRestart(t, s)
    PROVE  IInv'
  <1> USE DEF IInv, TypeOK, UserRestart, watchVars
  <1>1. Asked(t) /\ op'[t] = "restart" /\ srv'[t] \in Servers
    BY DEF Asked
  <1>2. CASE processes[s] # None
    <2>1. Stopping(t, processes[s], "poll") /\ UNCHANGED <<pending, history>>
      BY <1>2, StopBegun
    <2>. QED
      BY <1>1, <2>1, StoppingStep
  <1>3. CASE processes[s] = None
    <2>1. PICK k \in {"fetch", "returned"} : Cancelled(t, k)
      BY <1>3, CancelPendingPc DEF StartServer
    <2>2. history' \in [Servers -> Nat] /\ UNCHANGED <<stopReq, tgt>>
      BY <1>3 DEF StartServer
    <2>. QED
      BY <1>1, <2>1, <2>2, CancelStep
  <1>. QED
    BY <1>2, <1>3

\* The step UserKill preserves the invariant.
LEMMA UserKillStep ==
    ASSUME IInv, NEW t \in Tasks, NEW s \in Servers, UserKill(t, s)
    PROVE  IInv'
  <1> USE NoneAssumption, ActorAssumption DEF IInv, TypeOK, Gone, UserKill
  <1>1. Asked(t) /\ op'[t] = "kill"
    BY DEF Asked
  <1>2. CASE processes[s] # None
    <2> DEFINE p == processes[s]
    <2>1. p \in Procs /\ owner[p] # None /\ t \in Actors
      BY <1>2 DEF FreshIsPristine, Actors
    <2>2. /\ stopReq' = [stopReq EXCEPT ![p] = TRUE]
          /\ pc' = [pc EXCEPT ![t] = "announce"]
          /\ tgt' = [tgt EXCEPT ![t] = p]
          /\ UNCHANGED pending
      BY <1>2
    <2>3. "announce" \in Points
      BY DEF Points
    <2>4. Stopping(t, p, "returned")
      BY <2>1, <2>2, <2>3 DEF Stopping
    <2>. QED
      BY <1>1, <2>2, <2>4, StoppingStep DEF watchVars
  <1>3. CASE processes[s] = None
    <2>1. Cancelled(t, "returned") /\ UNCHANGED <<stopReq, tgt>>
      BY <1>3, CancelPendingPc
    <2>2. tgt[t] = None
      BY DEF ActorsKnow
    <2>. QED
      BY <1>1, <2>1, <2>2, CancelStep DEF watchVars
  <1>. QED
    BY <1>2, <1>3

\* The step KillTimesOut preserves the invariant.
LEMMA KillTimesOutStep ==
    ASSUME IInv, NEW t \in Tasks, KillTimesOut(t)
    PROVE  IInv'
  <1> DEFINE p == tgt[t]
  <1> USE NoneAssumption, ActorAssumption DEF IInv, TypeOK, Gone, KillTimesOut, mgrVars
  <1>0. p \in Procs /\ owner[p] # None /\ Gone(p) /\ t \in Actors
    BY DEF ActorsKnow, FreshIsPristine, Waiting, Actors
  <1>a. /\ status' \in [Procs -> Status]
        /\ wnew' \in [Procs -> BOOLEAN]
        /\ \A q \in Procs : q # p => status'[q] = status[q]
    <2>1. CASE status[p] = "stopped"
      BY <2>1
    <2>2. CASE status[p] # "stopped"
      BY <1>0, <2>2, SetStatusType DEF Status
    <2>. QED
      BY <2>1, <2>2
  <1>b. tnew' \in [Tasks -> BOOLEAN]
    <2>1. UNCHANGED tnew \/ WakeWaiters(p)
      OBVIOUS
    <2>. QED
      BY <2>1, WakeWaitersType
  <1>c. /\ AfterStop(t) \in {"poll", "next", "returned"}
        /\ pc' = [pc EXCEPT ![t] = AfterStop(t)]
        /\ AfterStop(t) = "poll" => op[t] = "restart"
        /\ AfterStop(t) = "next" => op[t] = "stop_all"
    BY DEF AfterStop
  <1>d. pc' \in [Actors -> Points]
    BY <1>c DEF Points
  <1>1. TypeOK'
    BY <1>a, <1>b, <1>d
  <1>2. RegistryMatches'
    BY DEF RegistryMatches
  <1>3. PendingIsJustified'
    BY <1>c DEF PendingIsJustified, Actors
  <1>4. StoppedIsDead' /\ ExitsAreReal'
    BY <1>0, <1>a DEF StoppedIsDead, ExitsAreReal
  <1>5. StopReturnsDead' /\ RestartWaitsForDeath'
    BY <1>0, <1>c DEF StopReturnsDead, RestartWaitsForDeath, Actors
  <1>6. FreshIsPristine'
    BY <1>0, <1>a, <1>c DEF FreshIsPristine, Actors
  <1>7. ActorsKnow'
    BY <1>0, <1>c DEF ActorsKnow, ServerOf, Waiting, Actors
  <1>. QED
    BY <1>1, <1>2, <1>3, <1>4, <1>5, <1>6, <1>7

\* The step Announce preserves the invariant.
LEMMA AnnounceStep ==
    ASSUME IInv, NEW t \in Tasks, Announce(t)
    PROVE  IInv'
  <1> DEFINE p == tgt[t]
  <1> USE NoneAssumption, ActorAssumption DEF IInv, TypeOK, Gone, Announce, mgrVars
  <1>0. p \in Procs /\ owner[p] # None /\ t \in Actors
    BY DEF ActorsKnow, FreshIsPristine, Waiting, Actors
  <1>a. /\ status' \in [Procs -> Status]
        /\ wnew' \in [Procs -> BOOLEAN]
        /\ status'[p] = "stopping"
        /\ \A q \in Procs : q # p => status'[q] = status[q]
    BY <1>0, SetStatusType DEF Status
  <1>b. tnew' \in [Tasks -> BOOLEAN]
    BY WakeWaitersType
  <1>c. PICK k \in {"stdin", "force"} : pc' = [pc EXCEPT ![t] = k]
    OBVIOUS
  <1>d. pc' \in [Actors -> Points]
    BY <1>c DEF Points
  <1>1. TypeOK'
    BY <1>a, <1>b, <1>d
  <1>2. RegistryMatches'
    BY DEF RegistryMatches
  <1>3. PendingIsJustified'
    BY <1>c DEF PendingIsJustified, Actors
  <1>4. StoppedIsDead' /\ ExitsAreReal'
    BY <1>0, <1>a DEF StoppedIsDead, ExitsAreReal
  <1>5. StopReturnsDead' /\ RestartWaitsForDeath'
    BY <1>0, <1>c DEF StopReturnsDead, RestartWaitsForDeath, Actors
  <1>6. FreshIsPristine'
    BY <1>0, <1>a, <1>c DEF FreshIsPristine, Actors
  <1>7. ActorsKnow'
    BY <1>0, <1>c DEF ActorsKnow, ServerOf, Waiting, Actors
  <1>. QED
    BY <1>1, <1>2, <1>3, <1>4, <1>5, <1>6, <1>7

\* The step RestartRemove preserves the invariant.
LEMMA RestartRemoveStep ==
    ASSUME IInv, NEW t \in Tasks, RestartRemove(t)
    PROVE  IInv'
  <1> USE NoneAssumption, ActorAssumption
      DEF IInv, TypeOK, Gone, Actors, RestartRemove, procVars, watchVars, Points, Waiting,
          Watching, Status, Exits, Terminal
  <1>0. srv[t] \in Servers /\ op[t] = "restart"
    BY DEF ActorsKnow
  <1>1. TypeOK'
    BY <1>0
  <1>2. RegistryMatches'
    BY <1>0 DEF RegistryMatches
  <1>3. PendingIsJustified'
    BY DEF PendingIsJustified
  <1>4. StoppedIsDead' /\ ExitsAreReal'
    BY DEF StoppedIsDead, ExitsAreReal
  <1>5. StopReturnsDead' /\ RestartWaitsForDeath'
    BY DEF StopReturnsDead, RestartWaitsForDeath
  <1>6. FreshIsPristine'
    BY <1>0 DEF FreshIsPristine
  <1>7. ActorsKnow'
    BY DEF ActorsKnow, ServerOf
  <1>. QED
    BY <1>1, <1>2, <1>3, <1>4, <1>5, <1>6, <1>7

\* The step RestartCleanup preserves the invariant.
LEMMA RestartCleanupStep ==
    ASSUME IInv, NEW t \in Tasks, RestartCleanup(t)
    PROVE  IInv'
  <1> DEFINE s == srv[t]
  <1> USE NoneAssumption, ActorAssumption DEF IInv, TypeOK, Gone, RestartCleanup, procVars
  <1>0. s \in Servers /\ t \in Actors /\ op[t] = "restart"
    BY DEF ActorsKnow, Actors
  <1>a. PICK k \in {"fetch", "returned"} : Cancelled(t, k)
    BY <1>0, CancelPendingPc DEF StartServer
  <1>b. history' \in [Servers -> Nat]
    BY <1>0 DEF StartServer
  <1>c. /\ wpc' \in [Procs -> Watching \cup {"off", "leave", "done", "aborted"}]
        /\ \A p \in Procs : wpc[p] = "off" => wpc'[p] = "off"
    BY DEF Watching
  <1>d. handles' \in [Servers -> Procs \cup {None}]
    BY <1>0
  <1>1. TypeOK'
    BY <1>0, <1>a, <1>b, <1>c, <1>d DEF Cancelled
  <1>2. RegistryMatches'
    BY DEF RegistryMatches
  <1>3. PendingIsJustified'
    BY <1>a DEF PendingIsJustified, Cancelled
  <1>4. StoppedIsDead' /\ ExitsAreReal'
    BY DEF StoppedIsDead, ExitsAreReal
  <1>5. StopReturnsDead' /\ RestartWaitsForDeath'
    BY <1>0, <1>a DEF StopReturnsDead, RestartWaitsForDeath, Cancelled, Actors
  <1>6. FreshIsPristine'
    BY <1>0, <1>a, <1>c DEF FreshIsPristine, Cancelled
  <1>7. ActorsKnow'
    BY <1>0, <1>a DEF ActorsKnow, ServerOf, Waiting, Cancelled, Actors
  <1>. QED
    BY <1>1, <1>2, <1>3, <1>4, <1>5, <1>6, <1>7

\* The step WatchReported preserves the invariant.
LEMMA WatchReportedStep ==
    ASSUME IInv, NEW p \in Procs, WatchReported(p)
    PROVE  IInv'
  <1> USE NoneAssumption, ActorAssumption
      DEF IInv, TypeOK, Gone, Actors, WatchReported, procVars, taskVars, Points, Waiting,
          Watching, Status, Exits, Terminal
  <1>0. owner[p] \in Servers
    BY DEF FreshIsPristine
  <1>1. TypeOK'
    <2>1. wpc' \in [Procs -> Watching \cup {"off", "leave", "done", "aborted"}]
      OBVIOUS
    <2>2. processes' \in [Servers -> Procs \cup {None}]
      <3>1. processes' = [processes EXCEPT ![owner[p]] = None] \/ processes' = processes
        OBVIOUS
      <3>. QED
        BY <3>1, <1>0
    <2>3. wnew' \in [Procs -> BOOLEAN]
      OBVIOUS
    <2>4. wval' \in [Procs -> Status \cup {"none"}]
      OBVIOUS
    <2>. QED
      BY <2>1, <2>2, <2>3, <2>4
  <1>2. RegistryMatches'
    BY <1>0 DEF RegistryMatches
  <1>3. PendingIsJustified'
    BY DEF PendingIsJustified
  <1>4. StoppedIsDead' /\ ExitsAreReal'
    BY DEF StoppedIsDead, ExitsAreReal
  <1>5. StopReturnsDead' /\ RestartWaitsForDeath'
    BY DEF StopReturnsDead, RestartWaitsForDeath
  <1>6. FreshIsPristine'
    BY <1>0 DEF FreshIsPristine
  <1>7. ActorsKnow'
    BY DEF ActorsKnow, ServerOf
  <1>. QED
    BY <1>1, <1>2, <1>3, <1>4, <1>5, <1>6, <1>7

\* The step WatcherLeaves preserves the invariant.
LEMMA WatcherLeavesStep ==
    ASSUME IInv, NEW p \in Procs, WatcherLeaves(p)
    PROVE  IInv'
  <1> DEFINE s == owner[p]
  <1> USE NoneAssumption, ActorAssumption DEF IInv, TypeOK, Gone
  <1>0. s \in Servers /\ p \in Actors
    BY DEF FreshIsPristine, Actors, WatcherLeaves
  \* Either nothing is scheduled, or p's restart is, over an older one.
  <1>a. /\ history' \in [Servers -> Nat]
        /\ \/ UNCHANGED <<pending, pc>>
           \/ /\ lastExit[p] = "crash"
              /\ pending' = [pending EXCEPT ![s] = p]
              /\ pc' = [a \in Actors |-> IF a = p THEN "sleep"
                                         ELSE IF a = pending[s] THEN "idle" ELSE pc[a]]
    <2>1. CASE UNCHANGED <<history, pending, pc>>
      BY <2>1
    <2>2. CASE lastExit[p] = "crash" /\ \E kept \in 0..history[s] : DecideRestart(p, kept)
      <3>1. PICK kept \in 0..history[s] : DecideRestart(p, kept)
        BY <2>2
      <3>. QED
        BY <1>0, <2>2, <3>1 DEF DecideRestart
    <2>. QED
      BY <2>1, <2>2 DEF HandleCrash, WatcherLeaves
  <1>b. /\ wpc' = [wpc EXCEPT ![p] = "done"]
        /\ wval' = [wval EXCEPT ![p] = "none"]
        /\ handles' = [handles EXCEPT ![s] = None]
        /\ wpc[p] = "leave"
        /\ UNCHANGED <<processes, wnew>>
    BY DEF WatcherLeaves
  <1>c. UNCHANGED <<owner, status, alive, sig, stopReq, lastExit, reap, ready, dog>>
        /\ UNCHANGED <<tgt, op, srv, tnew, todo>>
    BY DEF WatcherLeaves, procVars
  <1>e. /\ pc' \in [Actors -> Points]
        /\ pending' \in [Servers -> Procs \cup {None}]
    BY <1>0, <1>a DEF Points
  <1>1. TypeOK'
    BY <1>0, <1>a, <1>b, <1>c, <1>e
  <1>2. RegistryMatches'
    BY <1>b, <1>c DEF RegistryMatches
  <1>3. PendingIsJustified'
    BY <1>0, <1>a, <1>c DEF PendingIsJustified, ExitsAreReal, Actors
  <1>4. StoppedIsDead' /\ ExitsAreReal'
    BY <1>c DEF StoppedIsDead, ExitsAreReal
  <1>d. /\ \A t \in Tasks : pc'[t] = pc[t]
        /\ \A q \in Procs : pc'[q] \in {pc[q], "idle", "sleep"}
        /\ \A q \in Procs : owner[q] = None => pc'[q] = "idle"
    BY <1>0, <1>a DEF FreshIsPristine, Actors
  <1>5. StopReturnsDead' /\ RestartWaitsForDeath'
    BY <1>c, <1>d DEF StopReturnsDead, RestartWaitsForDeath
  <1>6. FreshIsPristine'
    BY <1>0, <1>a, <1>b, <1>c, <1>d DEF FreshIsPristine
  <1>7. ActorsKnow'
    BY <1>c, <1>d DEF ActorsKnow, ServerOf, Waiting, Actors
  <1>. QED
    BY <1>1, <1>2, <1>3, <1>4, <1>5, <1>6, <1>7

-----------------------------------------------------------------------------
\* Every step of the manager preserves the invariant.
LEMMA NextInv == IInv /\ [Next]_vars => IInv'
  <1> SUFFICES ASSUME IInv, [Next]_vars PROVE IInv'
    OBVIOUS
  <1>1. CASE UNCHANGED vars
    BY <1>1 DEF vars, procVars, mgrVars, watchVars, taskVars, IInv, TypeOK,
       RegistryMatches, PendingIsJustified, StoppedIsDead, StopReturnsDead, Gone,
       RestartWaitsForDeath, FreshIsPristine, ExitsAreReal, ActorsKnow,
       ServerOf
  <1>2. ASSUME NEW p \in Procs, Exit(p) PROVE IInv'
    BY <1>2, ExitStep
  <1>3. ASSUME NEW p \in Procs, ProcessStep(p) PROVE IInv'
    BY <1>3, ReadySeenStep, ReadyPublishStep, WatchdogFiresStep, WatchdogPublishStep,
       ExitObservedStep, ExitPublishStep, WaitFailsStep DEF ProcessStep
  <1>4. ASSUME NEW p \in Procs, WatcherStep(p) PROVE IInv'
    BY <1>4, WatchChangedStep, WatchReportedStep, WatcherLeavesStep DEF WatcherStep
  <1>5. ASSUME NEW p \in Procs, TimerFires(p) PROVE IInv'
    BY <1>5, TimerFiresStep
  <1>6. ASSUME NEW a \in Actors, StartStep(a) PROVE IInv'
    BY <1>6, SpawnStep, StartFailsStep, RegisterStep, SpawnWatcherStep, ReturnStep
       DEF StartStep
  <1>7. ASSUME NEW t \in Tasks, UserRequest(t) PROVE IInv'
    BY <1>7, UserStartStep, UserStopStep, UserKillStep, UserRestartStep, StopAllStep
       DEF UserRequest
  <1>8. ASSUME NEW t \in Tasks, TaskStep(t) PROVE IInv'
    BY <1>6, <1>8, AnnounceStep, SubscribeStep, WaitWakesStep, StopTimesOutStep, ForceKillStep,
       KillTimesOutStep, RestartRemoveStep, RestartCleanupStep, StopAllNextStep, StopAllDoneStep
       DEF TaskStep, Actors
  <1>. QED
    BY <1>1, <1>2, <1>3, <1>4, <1>5, <1>6, <1>7, <1>8 DEF Next, Actors

\* The variables keep their types and IInv holds in every reachable state.
THEOREM Invariance == Spec => []IInv
  <1>. QED
    BY InitInv, NextInv, PTL DEF Spec

\* Type correctness of the process manager.
THEOREM TypeCorrect == Spec => []TypeOK
  <1>1. IInv => TypeOK
    BY DEF IInv
  <1>. QED
    BY <1>1, Invariance, PTL

\* handle_crash schedules a restart only for a process that is dead and whose exit
\* was observed as a crash, and cancel_pending_restart reaches every sleeping timer.
THEOREM PendingJustified == Spec => []PendingIsJustified
  <1>1. IInv => PendingIsJustified
    BY DEF IInv
  <1>. QED
    BY <1>1, Invariance, PTL

\* A status of Stopped is never a lie, and stop_server and kill_server answer Ok
\* only once the process they hold is dead or SIGKILL was sent to it (the code
\* waits 3 s for the signal to act and no longer); restart_server goes on only then.
THEOREM StopIsTrue == Spec => []DeathIsTrue
  <1>1. IInv => DeathIsTrue
    BY DEF IInv, DeathIsTrue
  <1>. QED
    BY <1>1, Invariance, PTL
-----------------------------------------------------------------------------
(* The restart policy, which decides what the process manager does with a crash *)

CONSTANTS CrashLimit, CrashWindow, DefaultMaxRestarts, DefaultWindow, BackoffBase, BackoffMax, MaxTime
VARIABLES now, up, enabled, crashes, due, attempt, crashLog

R == INSTANCE RestartPolicy

PolicyAssumptions == R!ConfigAssumption /\ R!DefaultAssumption /\ R!BackoffAssumption

LEMMA PolicyNumbers == ASSUME PolicyAssumptions PROVE R!Window \in Nat \ {0} /\ R!MaxRestarts \in Nat \ {0} /\ MaxTime \in Nat
  BY DEF PolicyAssumptions, R!ConfigAssumption, R!DefaultAssumption, R!Window, R!MaxRestarts

LEMMA PolicySize == ASSUME NEW S PROVE R!Cardinality(S) = Cardinality(S)
  BY DEF R!Cardinality, Cardinality

\* Times in the order of the clock.
Times(h) ==
    /\ h \in Seq(Nat)
    /\ \A i \in 1 .. Len(h) : h[i] <= now
    /\ \A i, j \in 1 .. Len(h) : i <= j => h[i] <= h[j]

\* The kept history is the log without k crashes at its front, which are a window old.
Kept(k) ==
    /\ k \in 0 .. Len(crashLog) /\ Len(crashes) = Len(crashLog) - k
    /\ \A i \in 1 .. Len(crashes) : crashes[i] = crashLog[k + i]
    /\ \A i \in 1 .. k : now - crashLog[i] >= R!Window

PolicyInv ==
    /\ now \in Nat /\ (up => due = -1)
    /\ Times(crashes) /\ Times(crashLog)
    /\ enabled => \E k \in Nat : Kept(k)

\* A set of places in a history has a first one.
LEMMA FirstPlace ==
    ASSUME NEW S, S \subseteq Nat, S # {}
    PROVE  \E i \in S : \A j \in S : i <= j
<1>1. \E x \in S : \A y \in S : ~(<<y, x>> \in OpToRel(<, Nat))
  BY NatLessThanWellFounded, WFMin
<1>2. PICK x \in S : \A y \in S : ~(<<y, x>> \in OpToRel(<, Nat))
  BY <1>1
<1>3. ASSUME NEW y \in S PROVE <<y, x>> \in OpToRel(<, Nat) <=> y < x
  <2>1. <<y, x>> \in Nat \X Nat /\ <<y, x>>[1] = y /\ <<y, x>>[2] = x
    OBVIOUS
  <2> QED
    BY <2>1, Zenon DEF OpToRel
<1>4. \A y \in S : ~(y < x)
  BY <1>2, <1>3
<1>5. \A y \in S : x <= y
  BY <1>4
<1> QED
  BY <1>5

\* What Recent keeps of a history: from the first crash within the window on.
LEMMA RecentKeeps ==
    ASSUME PolicyAssumptions, NEW h, Times(h), now \in Nat
    PROVE  \E d \in 0 .. Len(h) :
              /\ R!Recent(h) \in Seq(Nat) /\ Len(R!Recent(h)) = Len(h) - d
              /\ \A i \in 1 .. Len(R!Recent(h)) : R!Recent(h)[i] = h[d + i] /\ now - h[d + i] < R!Window
              /\ \A i \in 1 .. d : now - h[i] >= R!Window
<1>0. h \in Seq(Nat) /\ Len(h) \in Nat /\ R!Window \in Nat /\ \A i \in 1 .. Len(h) : h[i] \in Nat
  BY PolicyNumbers DEF Times
<1>1. PICK fresh : fresh = {i \in 1 .. Len(h) : now - h[i] < R!Window}
  OBVIOUS
<1>2. CASE fresh = {}
  <2>1. R!Recent(h) = <<>>
    BY <1>1, <1>2 DEF R!Recent
  <2>2. \A i \in 1 .. Len(h) : now - h[i] >= R!Window
    BY <1>0, <1>1, <1>2
  <2>3. Len(h) \in 0 .. Len(h) /\ R!Recent(h) \in Seq(Nat) /\ Len(R!Recent(h)) = Len(h) - Len(h) /\ 1 .. Len(R!Recent(h)) = {}
    BY <1>0, <2>1
  <2> QED
    BY <2>2, <2>3
<1>3. CASE fresh # {}
  <2>1. PICK f : f = CHOOSE i \in fresh : \A j \in fresh : i <= j
    OBVIOUS
  <2>2. f \in fresh /\ \A j \in fresh : f <= j
    <3>1. \E i \in fresh : \A j \in fresh : i <= j
      <4>1. fresh \subseteq Nat
        BY <1>1
      <4> QED
        BY <1>3, <4>1, FirstPlace
    <3> QED
      BY <2>1, <3>1
  <2>3. f \in 1 .. Len(h) /\ f - 1 \in 0 .. Len(h) /\ now - h[f] < R!Window
    BY <1>0, <1>1, <2>2
  <2>4. R!Recent(h) = SubSeq(h, f, Len(h))
    BY <1>1, <1>3, <2>1 DEF R!Recent
  <2>5. /\ R!Recent(h) \in Seq(Nat) /\ Len(R!Recent(h)) = Len(h) - f + 1
        /\ \A i \in 1 .. Len(h) - f + 1 : R!Recent(h)[i] = h[f + i - 1]
    <3>1. f \in Int /\ Len(h) \in Int /\ f <= Len(h) /\ \A i \in f .. Len(h) : h[i] \in Nat
      BY <1>0, <2>3
    <3> QED
      BY <2>4, <3>1, SubSeqProperties
  <2>6. \A i \in f .. Len(h) : now - h[i] < R!Window
    <3>1. ASSUME NEW i \in f .. Len(h) PROVE now - h[i] < R!Window
      <4>1. i \in 1 .. Len(h) /\ f <= i
        BY <1>0, <2>3
      <4>2. h[f] <= h[i] /\ h[f] \in Nat /\ h[i] \in Nat
        BY <1>0, <2>3, <4>1 DEF Times
      <4>3. now - h[f] < R!Window /\ R!Window \in Int
        BY <1>0, <2>3
      <4> QED
        BY <4>2, <4>3
    <3> QED
      BY <3>1
  <2>7. \A i \in 1 .. f - 1 : now - h[i] >= R!Window
    <3>1. ASSUME NEW i \in 1 .. f - 1 PROVE now - h[i] >= R!Window
      <4>1. i \in 1 .. Len(h) /\ ~(f <= i) /\ h[i] \in Nat
        BY <1>0, <2>3
      <4>2. i \notin fresh
        BY <2>2, <4>1
      <4>3. ~(now - h[i] < R!Window)
        BY <1>1, <4>1, <4>2
      <4> QED
        BY <1>0, <4>1, <4>3
    <3> QED
      BY <3>1
  <2>8. \A i \in 1 .. Len(h) - f + 1 : f - 1 + i = f + i - 1 /\ f - 1 + i \in f .. Len(h)
    BY <1>0, <2>3
  <2>9. \A i \in 1 .. Len(R!Recent(h)) : R!Recent(h)[i] = h[f - 1 + i] /\ now - h[f - 1 + i] < R!Window
    BY <2>5, <2>6, <2>8
  <2>10. Len(R!Recent(h)) = Len(h) - (f - 1)
    BY <1>0, <2>3, <2>5
  <2> QED
    BY <2>3, <2>5, <2>7, <2>9, <2>10
<1> QED
  BY <1>2, <1>3

\* A crash that is recorded: the log grows by it, and so does what is kept.
LEMMA TimesGrow ==
    ASSUME NEW h, Times(h), now \in Nat
    PROVE  /\ Append(h, now) \in Seq(Nat) /\ Len(Append(h, now)) = Len(h) + 1 /\ Len(h) \in Nat
           /\ \A i \in 1 .. Len(h) : Append(h, now)[i] = h[i]
           /\ Append(h, now)[Len(h) + 1] = now
           /\ Times(Append(h, now))
<1>1. /\ Append(h, now) \in Seq(Nat) /\ Len(Append(h, now)) = Len(h) + 1 /\ Len(h) \in Nat
      /\ \A i \in 1 .. Len(h) : Append(h, now)[i] = h[i]
      /\ Append(h, now)[Len(h) + 1] = now
  BY AppendProperties DEF Times
<1>2. PICK g : g = Append(h, now)
  OBVIOUS
<1>3. \A i \in 1 .. Len(g) : (i \in 1 .. Len(h) /\ g[i] = h[i]) \/ (i = Len(h) + 1 /\ g[i] = now)
  BY <1>1, <1>2
<1>4. \A i \in 1 .. Len(g) : g[i] <= now
  BY <1>3 DEF Times
<1>5. \A i, j \in 1 .. Len(g) : i <= j => g[i] <= g[j]
  BY <1>1, <1>3 DEF Times
<1>6. Times(g)
  BY <1>1, <1>2, <1>4, <1>5 DEF Times
<1> QED
  BY <1>1, <1>2, <1>6

\* What decide keeps, with the crash at hand, is the crashes of the whole log that lie
\* within the window.
LEMMA DecideCounts ==
    ASSUME PolicyAssumptions, PolicyInv, enabled, NEW h, h = Append(R!Recent(crashes), now),
           NEW log, log = Append(crashLog, now)
    PROVE  \E m \in 0 .. Len(crashLog) :
              /\ Len(log) = Len(crashLog) + 1 /\ Len(h) = Len(log) - m /\ Times(h) /\ Times(log)
              /\ \A i \in 1 .. Len(h) : h[i] = log[m + i] /\ now - log[m + i] < R!Window
              /\ \A i \in 1 .. m : now - log[i] >= R!Window
<1>0. now \in Nat /\ Times(crashes) /\ Times(crashLog) /\ R!Window \in Nat \ {0}
  BY PolicyNumbers DEF PolicyInv
<1>1. PICK k \in Nat : Kept(k)
  BY DEF PolicyInv
<1>2. PICK r : r = R!Recent(crashes)
  OBVIOUS
<1>3. PICK d \in 0 .. Len(crashes) :
          /\ r \in Seq(Nat) /\ Len(r) = Len(crashes) - d
          /\ \A i \in 1 .. Len(r) : r[i] = crashes[d + i] /\ now - crashes[d + i] < R!Window
          /\ \A i \in 1 .. d : now - crashes[i] >= R!Window
  BY <1>0, <1>2, RecentKeeps
<1>4. Len(r) \in Nat /\ Len(crashes) \in Nat /\ Len(crashLog) \in Nat /\ Len(crashes) = Len(crashLog) - k
  BY <1>0, <1>1, <1>3 DEF Times, Kept
<1>5. PICK m : m = k + d
  OBVIOUS
<1>6. m \in 0 .. Len(crashLog) /\ Len(r) = Len(crashLog) - m
  BY <1>1, <1>3, <1>4, <1>5
<1>7. \A i \in 1 .. Len(r) : r[i] = crashLog[m + i] /\ now - crashLog[m + i] < R!Window
  <2>1. ASSUME NEW i \in 1 .. Len(r)
        PROVE  r[i] = crashLog[m + i] /\ now - crashLog[m + i] < R!Window
    <3>1. d + i \in 1 .. Len(crashes) /\ k + (d + i) = m + i
      BY <1>1, <1>3, <1>4, <1>5
    <3>2. crashes[d + i] = crashLog[m + i]
      BY <1>1, <3>1 DEF Kept
    <3> QED
      BY <1>3, <3>2
  <2> QED
    BY <2>1
<1>8. \A i \in 1 .. m : now - crashLog[i] >= R!Window
  <2>1. ASSUME NEW i \in 1 .. m
        PROVE  now - crashLog[i] >= R!Window
    <3>1. CASE i <= k
      <4>1. i \in 1 .. k
        BY <1>1, <3>1
      <4> QED
        BY <1>1, <4>1 DEF Kept
    <3>2. CASE i > k
      <4>1. i - k \in 1 .. d /\ i - k \in 1 .. Len(crashes) /\ k + (i - k) = i
        BY <1>1, <1>3, <1>4, <1>5, <3>2
      <4>2. crashes[i - k] = crashLog[i]
        BY <1>1, <4>1 DEF Kept
      <4> QED
        BY <1>3, <4>1, <4>2
    <3> QED
      BY <1>1, <3>1, <3>2
  <2> QED
    BY <2>1
<1>9. Times(r)
  <2>1. \A i \in 1 .. Len(r) : m + i \in 1 .. Len(crashLog)
    BY <1>4, <1>6
  <2>2. \A i, j \in 1 .. Len(r) : i <= j => m + i <= m + j
    BY <1>4, <1>6
  <2>3. \A i \in 1 .. Len(r) : r[i] <= now
    BY <1>0, <1>7, <2>1 DEF Times
  <2>4. \A i, j \in 1 .. Len(r) : i <= j => r[i] <= r[j]
    BY <1>0, <1>7, <2>1, <2>2 DEF Times
  <2> QED
    BY <1>3, <2>3, <2>4 DEF Times
<1>10. /\ Len(h) = Len(r) + 1 /\ Times(h) /\ (\A i \in 1 .. Len(r) : h[i] = r[i]) /\ h[Len(r) + 1] = now
       /\ Len(log) = Len(crashLog) + 1 /\ Times(log) /\ (\A i \in 1 .. Len(crashLog) : log[i] = crashLog[i])
       /\ log[Len(crashLog) + 1] = now
  BY <1>0, <1>2, <1>9, TimesGrow
<1>11. \A i \in 1 .. Len(h) : h[i] = log[m + i] /\ now - log[m + i] < R!Window
  <2>1. ASSUME NEW i \in 1 .. Len(h)
        PROVE  h[i] = log[m + i] /\ now - log[m + i] < R!Window
    <3>1. CASE i \in 1 .. Len(r)
      <4>1. m + i \in 1 .. Len(crashLog)
        BY <1>4, <1>6, <3>1
      <4> QED
        BY <1>7, <1>10, <3>1, <4>1
    <3>2. CASE i = Len(r) + 1
      <4>1. m + i = Len(crashLog) + 1
        BY <1>4, <1>6, <3>2
      <4> QED
        BY <1>0, <1>10, <3>2, <4>1
    <3>3. i \in 1 .. Len(r) \/ i = Len(r) + 1
      <4>1. Len(h) = Len(r) + 1
        BY <1>10
      <4> QED
        BY <1>4, <4>1
    <3> QED
      BY <3>1, <3>2, <3>3
  <2> QED
    BY <2>1
<1>12. \A i \in 1 .. m : now - log[i] >= R!Window
  BY <1>4, <1>6, <1>8, <1>10
<1>13. Len(h) = Len(log) - m
  BY <1>4, <1>6, <1>10
<1> QED
  BY <1>6, <1>10, <1>11, <1>12, <1>13

LEMMA PolicyInit == ASSUME PolicyAssumptions, R!Init PROVE PolicyInv
<1>1. now = 0 /\ up = FALSE /\ crashes = <<>> /\ crashLog = <<>>
  BY DEF R!Init
<1>2. Times(<<>>)
  BY DEF Times
<1>3. Kept(0)
  BY <1>1 DEF Kept
<1> QED
  BY <1>1, <1>2, <1>3 DEF PolicyInv

\* An exit, whatever it was.
LEMMA PolicyExits ==
    ASSUME PolicyAssumptions, PolicyInv, NEW e \in R!Exits, R!ProcessExits(e)
    PROVE  PolicyInv'
<1>0. /\ now' = now /\ enabled' = enabled /\ up' = FALSE /\ R!Decide(e)
      /\ crashLog' = IF e = "crash" THEN Append(crashLog, now) ELSE crashLog
      /\ now \in Nat /\ Times(crashes) /\ Times(crashLog)
  BY DEF R!ProcessExits, PolicyInv
<1>1. Times(crashLog)' /\ Times(crashLog')
  <2>1. Times(crashLog')
    BY <1>0, TimesGrow
  <2> QED
    BY <1>0, <2>1 DEF Times
<1>2. CASE e = "crash" /\ enabled
  <2>1. crashes' = Append(R!Recent(crashes), now) /\ crashLog' = Append(crashLog, now)
    BY <1>0, <1>2 DEF R!Decide
  <2>2. PICK m \in 0 .. Len(crashLog) :
            /\ Len(crashLog') = Len(crashLog) + 1 /\ Len(crashes') = Len(crashLog') - m /\ Times(crashes')
            /\ \A i \in 1 .. Len(crashes') : crashes'[i] = crashLog'[m + i]
            /\ \A i \in 1 .. m : now - crashLog'[i] >= R!Window
    BY <1>2, <2>1, DecideCounts
  <2>3. Times(crashes)'
    BY <1>0, <2>2 DEF Times
  <2>4. m \in Nat /\ Kept(m)'
    <3>1. Len(crashLog) \in Nat /\ m \in 0 .. Len(crashLog')
      BY <1>0, <2>2 DEF Times
    <3>2. R!Window' = R!Window
      BY DEF R!Window
    <3> QED
      BY <1>0, <2>2, <3>1, <3>2 DEF Kept
  <2> QED
    BY <1>0, <1>1, <2>3, <2>4 DEF PolicyInv
<1>3. CASE e # "crash" \/ ~enabled
  <2>1. crashes' = crashes
    BY <1>0, <1>3 DEF R!Decide
  <2>2. Times(crashes)'
    BY <1>0, <2>1 DEF Times
  <2>3. enabled => crashLog' = crashLog
    BY <1>0, <1>3
  <2>4. enabled' => \E k \in Nat : Kept(k)'
    <3>1. R!Window' = R!Window
      BY DEF R!Window
    <3> QED
      BY <1>0, <2>1, <2>3, <3>1 DEF PolicyInv, Kept
  <2> QED
    BY <1>0, <1>1, <2>2, <2>4 DEF PolicyInv
<1> QED
  BY <1>2, <1>3

LEMMA PolicyClock ==
    ASSUME PolicyAssumptions, PolicyInv, R!Tick
    PROVE  PolicyInv'
<1>0. now \in Nat /\ now' = now + 1 /\ UNCHANGED <<up, enabled, crashes, due, crashLog>> /\ Times(crashes) /\ Times(crashLog)
  BY DEF R!Tick, PolicyInv
<1>1. Times(crashes)' /\ Times(crashLog)'
  <2>1. ASSUME NEW h, Times(h) PROVE \A i \in 1 .. Len(h) : h[i] <= now + 1
    BY <1>0, <2>1 DEF Times
  <2> QED
    BY <1>0, <2>1 DEF Times
<1>2. ASSUME NEW k \in Nat, Kept(k) PROVE Kept(k)'
  <2>1. R!Window' = R!Window /\ R!Window \in Nat
    BY PolicyNumbers DEF R!Window
  <2>2. \A i \in 1 .. k : crashLog[i] \in Nat
    BY <1>0, <1>2 DEF Times, Kept
  <2>3. \A i \in 1 .. k : (now + 1) - crashLog[i] >= R!Window
    BY <1>0, <1>2, <2>1, <2>2 DEF Kept
  <2>4. \A i \in 1 .. k : now' - crashLog'[i] >= R!Window
    <3>1. now' = now + 1 /\ crashLog' = crashLog
      BY <1>0
    <3> QED
      BY <2>3, <3>1
  <2>5. /\ k \in 0 .. Len(crashLog') /\ Len(crashes') = Len(crashLog') - k
        /\ \A i \in 1 .. Len(crashes') : crashes'[i] = crashLog'[k + i]
    BY <1>0, <1>2 DEF Kept
  <2> QED
    BY <2>1, <2>4, <2>5 DEF Kept
<1> QED
  BY <1>0, <1>1, <1>2 DEF PolicyInv

LEMMA PolicyRests ==
    ASSUME PolicyInv, UNCHANGED <<now, enabled, crashes, crashLog>>, up' => due' = -1
    PROVE  PolicyInv'
<1>1. Times(crashes)' /\ Times(crashLog)'
  BY DEF PolicyInv, Times
<1>2. \A k \in Nat : Kept(k) => Kept(k)'
  BY DEF Kept, R!Window
<1> QED
  BY <1>1, <1>2 DEF PolicyInv

LEMMA PolicySteps == ASSUME PolicyAssumptions, PolicyInv, [R!Next]_(R!vars) PROVE PolicyInv'
<1>1. CASE \E e \in BOOLEAN : R!StartServer(e)
  <2>1. now' = now /\ due' = -1 /\ crashes' = <<>> /\ crashLog' = <<>>
    BY <1>1 DEF R!StartServer
  <2>2. Times(crashes)' /\ Times(crashLog)' /\ Kept(0)'
    BY <2>1 DEF Times, Kept
  <2> QED
    BY <2>1, <2>2 DEF PolicyInv
<1>2. CASE R!CancelRestart \/ R!RestartFires \/ UNCHANGED R!vars
  BY <1>2, PolicyRests DEF R!CancelRestart, R!RestartFires, R!vars, PolicyInv
<1>3. CASE \E e \in R!Exits : R!ProcessExits(e)
  BY <1>3, PolicyExits
<1>4. CASE R!Tick
  BY <1>4, PolicyClock
<1> QED
  BY <1>1, <1>2, <1>3, <1>4 DEF R!Next

\* decide prunes its history only of crashes that are a window old: what it keeps is the
\* end of the log of all crashes since the user's start, and a running server has no
\* restart pending.
THEOREM PolicyInductive == ASSUME PolicyAssumptions PROVE R!Spec => []PolicyInv
<1>1. R!Init => PolicyInv
  BY PolicyInit
<1>2. PolicyInv /\ [R!Next]_(R!vars) => PolicyInv'
  BY PolicySteps
<1> QED
  BY <1>1, <1>2, PTL DEF R!Spec

\* The crashes of the log within the window, counting the one at hand.
InWindow == R!Cardinality({i \in 1 .. Len(crashLog') : now - crashLog'[i] < R!Window})

LEMMA DecidesOnCount ==
    ASSUME PolicyAssumptions, PolicyInv, enabled, R!ProcessExits("crash")
    PROVE  InWindow \in Nat \ {0} /\ due' = IF InWindow > R!MaxRestarts THEN -1 ELSE now + R!Backoff(InWindow)
<1>0. up /\ due = -1 /\ crashLog' = Append(crashLog, now) /\ R!Decide("crash")
  BY DEF R!ProcessExits, PolicyInv
<1>1. PICK h : h = Append(R!Recent(crashes), now)
  OBVIOUS
<1>2. due' = IF Len(h) > R!MaxRestarts THEN -1 ELSE now + R!Backoff(Len(h))
  BY <1>0, <1>1 DEF R!Decide
<1>3. PICK m \in 0 .. Len(crashLog) :
          /\ Len(crashLog') = Len(crashLog) + 1 /\ Len(h) = Len(crashLog') - m /\ Times(crashLog')
          /\ \A i \in 1 .. Len(h) : now - crashLog'[m + i] < R!Window
          /\ \A i \in 1 .. m : now - crashLog'[i] >= R!Window
  BY <1>0, <1>1, DecideCounts
<1>4. Len(crashLog) \in Nat /\ Len(crashLog') \in Nat /\ now \in Nat /\ R!Window \in Nat
  BY <1>3, PolicyNumbers DEF PolicyInv, Times
<1>5. \A i \in 1 .. Len(crashLog') : now - crashLog'[i] < R!Window <=> i \in m + 1 .. Len(crashLog')
  <2>1. ASSUME NEW i \in 1 .. Len(crashLog') PROVE now - crashLog'[i] < R!Window <=> i \in m + 1 .. Len(crashLog')
    <3>1. CASE i > m
      <4>1. i - m \in 1 .. Len(h) /\ m + (i - m) = i /\ i \in m + 1 .. Len(crashLog')
        BY <1>3, <1>4, <3>1
      <4> QED
        BY <1>3, <4>1
    <3>2. CASE i <= m
      <4>1. i \in 1 .. m /\ i \notin m + 1 .. Len(crashLog')
        BY <1>3, <1>4, <3>2
      <4>2. now - crashLog'[i] >= R!Window /\ crashLog'[i] \in Nat
        BY <1>3, <4>1 DEF Times
      <4> QED
        BY <1>4, <4>1, <4>2
    <3> QED
      BY <1>3, <1>4, <3>1, <3>2
  <2> QED
    BY <2>1
<1>6. {i \in 1 .. Len(crashLog') : now - crashLog'[i] < R!Window} = m + 1 .. Len(crashLog')
  <2>1. m + 1 .. Len(crashLog') \subseteq 1 .. Len(crashLog')
    BY <1>3, <1>4
  <2> QED
    BY <1>5, <2>1
<1>7. Cardinality(m + 1 .. Len(crashLog')) = Len(crashLog') - (m + 1) + 1
  BY <1>3, <1>4, FS_Interval
<1>8. InWindow = Len(h) /\ Len(h) \in Nat \ {0}
  <2>1. InWindow = Cardinality(m + 1 .. Len(crashLog'))
    BY <1>6, PolicySize DEF InWindow
  <2>2. Len(crashLog') - (m + 1) + 1 = Len(h) /\ Len(h) \in Nat \ {0}
    BY <1>3, <1>4
  <2> QED
    BY <1>7, <2>1, <2>2
<1> QED
  BY <1>2, <1>8

\* Whatever starts, stops, exits and delays came before, handle_crash gives up, or waits
\* backoff(n), for the number n of crashes in the window over the whole log, for every
\* limit and window.
THEOREM GivesUpOnCount ==
    ASSUME PolicyAssumptions
    PROVE  R!Spec => [][R!ProcessExits("crash") /\ enabled =>
                           due' = IF InWindow > R!MaxRestarts THEN -1 ELSE now + R!Backoff(InWindow)]_(R!vars)
<1>1. PolicyInv => [R!ProcessExits("crash") /\ enabled =>
                       due' = IF InWindow > R!MaxRestarts THEN -1 ELSE now + R!Backoff(InWindow)]_(R!vars)
  BY DecidesOnCount
<1> QED
  BY <1>1, PolicyInductive, PTL DEF R!Spec

\* For limits up to 17, the default of 3 among them, backoff(n) has not reached its
\* saturated shift: the delay is 1, 2, 4 ... times the base, capped.
THEOREM GivesUpExactlyAlways == ASSUME PolicyAssumptions, R!MaxRestarts <= 17 PROVE R!Spec => R!GivesUpExactly
<1>1. ASSUME PolicyInv, NEW e \in R!Exits, R!ProcessExits(e), e = "crash", enabled
      PROVE  due' = IF InWindow > R!MaxRestarts THEN -1 ELSE now + R!Least(BackoffBase * 2^(InWindow - 1), BackoffMax)
  <2>1. InWindow \in Nat \ {0} /\ due' = IF InWindow > R!MaxRestarts THEN -1 ELSE now + R!Backoff(InWindow)
    BY <1>1, DecidesOnCount
  <2>2. CASE InWindow > R!MaxRestarts
    BY <2>1, <2>2
  <2>3. CASE ~(InWindow > R!MaxRestarts)
    <3>1. InWindow <= 17
      BY <2>1, <2>3, PolicyNumbers
    <3>2. R!Least(IF InWindow > 1 THEN InWindow - 1 ELSE 0, 16) = InWindow - 1
      BY <2>1, <3>1 DEF R!Least
    <3>3. R!Backoff(InWindow) = R!Least(BackoffBase * 2^(InWindow - 1), BackoffMax)
      BY <3>2 DEF R!Backoff
    <3> QED
      BY <2>1, <2>3, <3>3
  <2> QED
    BY <2>2, <2>3
<1>2. PolicyInv => [\A e \in R!Exits :
                      R!ProcessExits(e) /\ e = "crash" /\ enabled =>
                         LET n == R!Cardinality({i \in 1 .. Len(crashLog') : now - crashLog'[i] < R!Window}) IN
                         due' = IF n > R!MaxRestarts THEN -1 ELSE now + R!Least(BackoffBase * 2^(n - 1), BackoffMax)]_(R!vars)
  BY <1>1 DEF InWindow
<1> QED
  BY <1>2, PolicyInductive, PTL DEF R!Spec, R!GivesUpExactly
=============================================================================
