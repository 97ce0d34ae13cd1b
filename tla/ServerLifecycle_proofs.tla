----------------------- MODULE ServerLifecycle_proofs -----------------------
(***************************************************************************)
(* The types of ServerLifecycle, and that a server keeps its files, for    *)
(* every set of nodes, goroutines, requests and circumstances.             *)
(***************************************************************************)
EXTENDS ServerLifecycle, TLAPS

\* The inductive invariant by where the state is kept.
RowOK == row \in BOOLEAN /\ db \in Statuses /\ node \in Nodes /\ exitCode \in BOOLEAN /\ session \in BOOLEAN
WorkOK ==
    /\ work \in [Workers -> Worker]
    /\ \A w \in Workers :
          /\ work[w].at # "idle" => work[w].n \in Nodes
          /\ work[w].at \in {"archive", "import", "point"} => work[w].m \in Nodes
DaemonOK ==
    /\ up \in [Nodes -> BOOLEAN]
    /\ reg \in [Nodes -> Statuses \cup {"none"}] /\ told \in [Nodes -> Statuses \cup {"none"}]
    /\ pend \in [Nodes -> BOOLEAN] /\ joined \in [Nodes -> BOOLEAN]
    /\ \A n \in Nodes : ~up[n] => reg[n] = "none" /\ ~pend[n]
DiskOK ==
    /\ jar \in [Nodes -> BOOLEAN] /\ bak \in [Nodes -> BOOLEAN]
    /\ data \subseteq Nodes /\ cleaned \subseteq Nodes
ProvOK == prov \in [Workers -> Provision] /\ \A w \in Workers : prov[w].at # "none" => prov[w].n \in Nodes
RepOK ==
    /\ rep \in [Nodes \cup Workers -> Report]
    /\ \A x \in Nodes \cup Workers : rep[x].at # "none" => rep[x].n \in Nodes /\ rep[x].v \in Statuses
    /\ \A n \in Nodes : rep[n].at # "none" => rep[n].n = n /\ up[n]
BoundsOK ==
    /\ mode \in Modes
    /\ exits \in 0..mode.exits /\ deaths \in 0..mode.deaths /\ asked \in 0..mode.requests
TasksOK ==
    \A w \in Workers :
        /\ prov[w].at # "none" => work[w].at \in {"idle", "crash", "poll", "startAgain", "start"}
        /\ w \notin mode.workers => work[w].at = "idle" /\ prov[w].at = "none"

LEMMA Parts ==
    IInv <=> RowOK /\ WorkOK /\ DaemonOK /\ DiskOK /\ ProvOK /\ RepOK /\ BoundsOK /\ TasksOK
<1>1. ASSUME IInv
      PROVE  RowOK /\ WorkOK /\ DaemonOK /\ DiskOK /\ ProvOK /\ RepOK /\ BoundsOK /\ TasksOK
  <2>1. RowOK /\ WorkOK /\ DaemonOK
    BY <1>1 DEF IInv, TypeOK, Addressed, RowOK, WorkOK, DaemonOK
  <2>2. DiskOK /\ ProvOK /\ BoundsOK /\ TasksOK
    BY <1>1 DEF IInv, TypeOK, Addressed, DiskOK, ProvOK, BoundsOK, TasksOK
  <2>3. RepOK
    <3>1. \A n \in Nodes : rep[n].at # "none" => up[n]
      BY <1>1 DEF IInv, TypeOK
    <3> QED
      BY <1>1, <3>1 DEF IInv, TypeOK, Addressed, RepOK
  <2> QED
    BY <2>1, <2>2, <2>3
<1>2. ASSUME RowOK, WorkOK, DaemonOK, DiskOK, ProvOK, RepOK, BoundsOK, TasksOK
      PROVE  IInv
  <2>1. TypeOK
    BY <1>2 DEF TypeOK, RowOK, WorkOK, DaemonOK, DiskOK, ProvOK, RepOK, BoundsOK
  <2>2. Addressed
    BY <1>2 DEF Addressed, WorkOK, ProvOK, RepOK, TasksOK
  <2> QED
    BY <2>1, <2>2 DEF IInv
<1> QED
  BY <1>1, <1>2

LEMMA PartsNext ==
    IInv' <=> RowOK' /\ WorkOK' /\ DaemonOK' /\ DiskOK' /\ ProvOK' /\ RepOK' /\ BoundsOK' /\ TasksOK'
  BY Parts, PTL

LEMMA Frames ==
    ASSUME IInv
    PROVE  /\ UNCHANGED rowVars => RowOK'
           /\ UNCHANGED work => WorkOK'
           /\ UNCHANGED daemonVars => DaemonOK'
           /\ UNCHANGED diskVars => DiskOK'
           /\ UNCHANGED prov => ProvOK'
           /\ UNCHANGED <<rep, up>> => RepOK'
           /\ UNCHANGED bounds => BoundsOK'
           /\ UNCHANGED <<work, prov, mode>> => TasksOK'
<1> USE Parts
<1>1. UNCHANGED rowVars => RowOK'
  BY DEF RowOK, rowVars
<1>2. UNCHANGED work => WorkOK'
  BY DEF WorkOK
<1>3. UNCHANGED daemonVars => DaemonOK'
  BY DEF DaemonOK, daemonVars
<1>4. UNCHANGED diskVars => DiskOK'
  BY DEF DiskOK, diskVars
<1>5. UNCHANGED prov => ProvOK'
  BY DEF ProvOK
<1>6. UNCHANGED <<rep, up>> => RepOK'
  BY DEF RepOK
<1>7. UNCHANGED bounds => BoundsOK'
  BY DEF BoundsOK, bounds
<1>8. UNCHANGED <<work, prov, mode>> => TasksOK'
  BY DEF TasksOK
<1> QED
  BY <1>1, <1>2, <1>3, <1>4, <1>5, <1>6, <1>7, <1>8

-----------------------------------------------------------------------------
(* The parts that one step changes *)

\* A goroutine that goes on (Go).
LEMMA GoFacts ==
    ASSUME IInv, NEW w \in Workers, NEW k \in Points, Go(w, k)
    PROVE  /\ work' \in [Workers -> Worker]
           /\ \A v \in Workers : v # w => work'[v] = work[v]
           /\ work'[w].at = k
           /\ k # "idle" => work'[w].n = work[w].n /\ work'[w].m = work[w].m /\ work'[w].zip = work[w].zip
           /\ work'[w].zip \in SUBSET {"jar", "bak"}
<1>1. work \in [Workers -> Worker] /\ work[w] \in Worker
  BY DEF IInv, TypeOK
<1>2. CASE k = "idle"
  BY <1>1, <1>2 DEF Go, Worker, Idle, Points
<1>3. CASE k # "idle"
  <2>1. work' = [work EXCEPT ![w] = [@ EXCEPT !.at = k]]
    BY <1>3 DEF Go
  <2> QED
    BY <1>1, <1>3, <2>1 DEF Worker
<1> QED
  BY <1>2, <1>3

LEMMA GoStep ==
    ASSUME IInv, NEW w \in Workers, NEW k \in Points, work[w].at # "idle", Go(w, k),
           k \in {"archive", "import", "point"} => work[w].at \in {"archive", "import", "point"}
    PROVE  WorkOK'
<1>1. WorkOK
  BY Parts
<1> QED
  BY <1>1, GoFacts DEF WorkOK

\* What the tasks allow a goroutine.
LEMMA GoTasks ==
    ASSUME IInv, NEW w \in Workers, NEW k \in Points, work[w].at # "idle", Go(w, k),
           prov[w].at = "none" \/ k \in {"idle", "crash", "poll", "startAgain", "start"}, UNCHANGED <<prov, mode>>
    PROVE  TasksOK'
<1>1. TasksOK
  BY Parts
<1> QED
  BY <1>1, GoFacts DEF TasksOK

\* A status that is written (UpdateServerStatus).
LEMMA SetDbStep ==
    ASSUME IInv, NEW v \in Statuses, SetDb(v), exitCode' \in BOOLEAN
    PROVE  RowOK'
<1>1. RowOK
  BY Parts
<1> QED
  BY <1>1 DEF RowOK, SetDb

LEMMA WriteStep ==
    ASSUME IInv, NEW w \in Workers, NEW v \in Statuses, NEW k \in Points, Write(w, v, k), work[w].at # "idle",
           k \notin {"archive", "import", "point"},
           prov[w].at = "none" \/ k \in {"idle", "crash", "poll", "startAgain", "start"}
    PROVE  IInv'
<1>1. SetDb(v) /\ Go(w, k) /\ UNCHANGED <<exitCode, daemonVars, diskVars, prov, rep, bounds>>
  BY DEF Write
<1>2. RowOK'
  <2>1. exitCode' \in BOOLEAN
    BY <1>1 DEF IInv, TypeOK
  <2> QED
    BY <1>1, <2>1, SetDbStep
<1>3. WorkOK' /\ TasksOK'
  <2>1. UNCHANGED <<prov, mode>>
    BY <1>1 DEF bounds
  <2> QED
    BY <1>1, <2>1, GoStep, GoTasks
<1>4. DaemonOK' /\ DiskOK' /\ ProvOK' /\ RepOK' /\ BoundsOK'
  <2>1. UNCHANGED <<rep, up>>
    BY <1>1 DEF daemonVars
  <2> QED
    BY <1>1, <2>1, Frames
<1> QED
  BY <1>2, <1>3, <1>4, PartsNext

\* A goroutine's step that only goes on.
LEMMA OnlyGoes ==
    ASSUME IInv, NEW w \in Workers, NEW k \in Points, Go(w, k), work[w].at # "idle",
           k \in {"archive", "import", "point"} => work[w].at \in {"archive", "import", "point"},
           prov[w].at = "none" \/ k \in {"idle", "crash", "poll", "startAgain", "start"},
           UNCHANGED <<rowVars, daemonVars, diskVars, prov, rep, bounds>>
    PROVE  IInv'
<1>1. WorkOK' /\ TasksOK'
  <2>1. UNCHANGED <<prov, mode>>
    BY DEF bounds
  <2> QED
    BY <2>1, GoStep, GoTasks
<1>2. RowOK' /\ DaemonOK' /\ DiskOK' /\ ProvOK' /\ RepOK' /\ BoundsOK'
  <2>1. UNCHANGED <<rep, up>>
    BY DEF daemonVars
  <2> QED
    BY <2>1, Frames
<1> QED
  BY <1>1, <1>2, PartsNext

\* A failed call ends in crash, or with the goroutine (Fail).
LEMMA FailGoes ==
    ASSUME NEW w, NEW shared, Fail(w, shared)
    PROVE  \E k \in {"crash", "idle"} : Go(w, k)
  BY DEF Fail

\* The daemon's start_server.
LEMMA DaemonStartStep ==
    ASSUME IInv, NEW n \in Nodes, up[n], DaemonStart(n)
    PROVE  DaemonOK' /\ up' = up
<1>1. DaemonOK
  BY Parts
<1> QED
  BY <1>1 DEF DaemonOK, DaemonStart, Statuses

\* The daemon's stop_server and kill_server.
LEMMA DaemonStopStep ==
    ASSUME IInv, NEW w \in Workers, NEW n \in Nodes, up[n], NEW v \in {"stopping", "stopped"}, DaemonStop(w, n, v)
    PROVE  DaemonOK' /\ RepOK' /\ up' = up
<1>1. DaemonOK /\ RepOK
  BY Parts
<1>2. CASE reg[n] # "none"
  <2>1. UNCHANGED <<up, told, pend, joined, rep>> /\ reg' = IF reg[n] \in Down THEN reg ELSE [reg EXCEPT ![n] = v]
    BY <1>2 DEF DaemonStop
  <2>2. DaemonOK'
    BY <1>1, <2>1 DEF DaemonOK, Statuses
  <2>3. RepOK'
    BY <2>1, Frames
  <2> QED
    BY <2>1, <2>2, <2>3
<1>3. CASE reg[n] = "none"
  <2>1. /\ pend' = [pend EXCEPT ![n] = FALSE] /\ UNCHANGED <<up, reg, told, joined>>
        /\ rep' = IF pend[n] THEN [rep EXCEPT ![w] = Sent(n, "stopped", FALSE)] ELSE rep
    BY <1>3 DEF DaemonStop
  <2>2. DaemonOK'
    BY <1>1, <2>1 DEF DaemonOK
  <2>3. Sent(n, "stopped", FALSE) \in Report
    BY DEF Sent, Report, Statuses
  <2>4. RepOK'
    <3>1. CASE ~pend[n]
      BY <2>1, <3>1, Frames
    <3>2. CASE pend[n]
      <4>1. rep' = [rep EXCEPT ![w] = Sent(n, "stopped", FALSE)] /\ w \notin Nodes
        BY <2>1, <3>2, NameAssumption
      <4>2. rep' \in [Nodes \cup Workers -> Report]
        BY <1>1, <2>3, <4>1 DEF RepOK
      <4>3. \A x \in Nodes \cup Workers : x # w => rep'[x] = rep[x]
        BY <1>1, <4>1 DEF RepOK
      <4>4. rep'[w].n = n /\ rep'[w].v = "stopped"
        BY <1>1, <4>1 DEF RepOK, Sent
      <4> QED
        BY <1>1, <2>1, <4>1, <4>2, <4>3, <4>4 DEF RepOK, Statuses
    <3> QED
      BY <3>1, <3>2
  <2> QED
    BY <2>1, <2>2, <2>4
<1> QED
  BY <1>2, <1>3

-----------------------------------------------------------------------------
(* The types: requests and goroutines *)

\* A request that is taken up (Begin).
LEMMA BeginStep ==
    ASSUME IInv, NEW w \in Workers, NEW kind, NEW k \in Points, NEW m \in Nodes \cup {None}, Begin(w, kind, k, m),
           k \in {"archive", "import", "point"} => m \in Nodes
    PROVE  WorkOK' /\ DaemonOK' /\ DiskOK' /\ ProvOK' /\ RepOK' /\ BoundsOK' /\ TasksOK'
<1>1. work' = [work EXCEPT ![w] = [at |-> k, n |-> node, m |-> m, zip |-> {}]]
      /\ UNCHANGED <<daemonVars, diskVars, prov, rep, exits, deaths, mode>>
  BY DEF Begin
<1>2. RowOK /\ WorkOK /\ BoundsOK /\ TasksOK
  BY Parts
<1>3. [at |-> k, n |-> node, m |-> m, zip |-> {}] \in Worker
  BY <1>2 DEF Worker, RowOK
<1>4. WorkOK'
  BY <1>1, <1>2, <1>3 DEF WorkOK, RowOK
<1>5. BoundsOK'
  <2>1. asked < mode.requests /\ asked' = asked + 1 /\ UNCHANGED <<exits, deaths, mode>>
    BY <1>1 DEF Begin
  <2>2. mode.requests \in Nat
    BY <1>2, ModeAssumption DEF BoundsOK, Mode
  <2> QED
    BY <1>2, <2>1, <2>2 DEF BoundsOK
<1>6. TasksOK'
  BY <1>1, <1>2 DEF TasksOK, WorkOK, Begin
<1>7. UNCHANGED <<rep, up>>
  BY <1>1 DEF daemonVars
<1> QED
  BY <1>1, <1>4, <1>5, <1>6, <1>7, Frames

LEMMA PointNames ==
    /\ {"idle", "startSet", "startInstall", "provision", "poll", "startAgain", "start",
        "crash", "stop", "restart", "restartWait", "kill", "reinstallSet", "reinstall",
        "delete", "deleteRow", "archive", "import", "point"} = Points
    /\ "installing" \in Statuses /\ "stopped" \in Statuses /\ "starting" \in Statuses /\ "running" \in Statuses
    /\ "stopping" \in Statuses /\ "crashed" \in Statuses
  BY DEF Points, Statuses

LEMMA RequestTypes ==
    ASSUME IInv, NEW w \in Workers, Request(w)
    PROVE  IInv'
<1>1. ASSUME StartCheck(w) \/ ReinstallCheck(w) \/ DeleteRequest(w)
      PROVE  IInv'
  <2>1. UNCHANGED rowVars
    BY <1>1 DEF StartCheck, ReinstallCheck, DeleteRequest
  <2>2. \E kind \in {"start", "reinstall", "delete"}, k \in {"startSet", "reinstallSet", "delete"} : Begin(w, kind, k, None)
    BY <1>1 DEF StartCheck, ReinstallCheck, DeleteRequest
  <2> QED
    BY <2>1, <2>2, BeginStep, Frames, PartsNext, PointNames
<1>2. ASSUME StopRequest(w) \/ RestartRequest(w) \/ KillRequest(w)
      PROVE  IInv'
  <2>1. PICK kind \in {"stop", "restart", "kill"}, v \in {"stopping", "stopped"} : Power(w, kind, v)
    BY <1>2 DEF StopRequest, RestartRequest, KillRequest
  <2>2. Begin(w, kind, kind, None) /\ SetDb(v) /\ exitCode' = exitCode
    BY <2>1 DEF Power
  <2>3. RowOK'
    <3>1. exitCode' \in BOOLEAN
      BY <2>2 DEF IInv, TypeOK
    <3> QED
      BY <2>2, <3>1, SetDbStep, PointNames
  <2> QED
    BY <2>2, <2>3, BeginStep, PartsNext, PointNames
<1>3. ASSUME NEW m \in Nodes, MigrateCheck(w, m)
      PROVE  IInv'
  <2>1. Begin(w, "migrate", "archive", m) /\ UNCHANGED rowVars
    BY <1>3 DEF MigrateCheck
  <2> QED
    BY <2>1, BeginStep, Frames, PartsNext, PointNames
<1> QED
  BY <1>1, <1>2, <1>3 DEF Request

\* ProvisionServer and ReinstallServer.
LEMMA AskTypes ==
    ASSUME IInv, NEW w \in Workers, NEW re \in BOOLEAN, NEW k \in {"poll", "idle"}, AskProvision(w, re, k),
           work[w].at # "idle"
    PROVE  IInv'
<1>1. UNCHANGED <<rowVars, daemonVars, diskVars, rep, bounds>>
  BY DEF AskProvision
<1>2. PICK l \in {"poll", "idle", "crash"} : Go(w, l)
  <2>1. Go(w, k) \/ Fail(w, re)
    BY DEF AskProvision
  <2> QED
    BY <2>1, FailGoes
<1>3. CASE prov' = prov
  BY <1>1, <1>2, <1>3, OnlyGoes, PointNames
<1>4. CASE prov' = [prov EXCEPT ![w] = [at |-> "begin", n |-> work[w].n, re |-> re, aside |-> FALSE]]
  <2>1. ProvOK /\ WorkOK /\ TasksOK
    BY Parts
  <2>2. [at |-> "begin", n |-> work[w].n, re |-> re, aside |-> FALSE] \in Provision
    BY <2>1 DEF WorkOK, Provision
  <2>3. ProvOK'
    BY <1>4, <2>1, <2>2 DEF ProvOK, WorkOK
  <2>4. WorkOK'
    BY <1>2, GoStep, PointNames
  <2>5. TasksOK'
    <3>1. \A v \in Workers : v # w => prov'[v] = prov[v] /\ work'[v] = work[v]
      BY <1>2, <1>4, <2>1, GoFacts, PointNames DEF ProvOK
    <3>2. work'[w].at \in {"poll", "idle", "crash"} /\ mode' = mode
      BY <1>1, <1>2, GoFacts, PointNames DEF bounds
    <3> QED
      BY <2>1, <3>1, <3>2 DEF TasksOK
  <2>6. RowOK' /\ DaemonOK' /\ DiskOK' /\ RepOK' /\ BoundsOK'
    <3>1. UNCHANGED <<rep, up>>
      BY <1>1 DEF daemonVars
    <3> QED
      BY <1>1, <3>1, Frames
  <2> QED
    BY <2>3, <2>4, <2>5, <2>6, PartsNext
<1> QED
  BY <1>3, <1>4 DEF AskProvision

LEMMA StartTypes ==
    ASSUME IInv, NEW w \in Workers,
           StartSet(w) \/ StartInstall(w) \/ ProvisionCall(w) \/ Poll(w) \/ StartAgain(w) \/ SetCrashed(w)
    PROVE  IInv'
<1>0. prov[w].at # "none" => work[w].at \in {"idle", "crash", "poll", "startAgain", "start"}
  BY Parts DEF TasksOK
<1>1. CASE StartSet(w)
  BY <1>0, <1>1, WriteStep, PointNames DEF StartSet
<1>2. CASE StartInstall(w)
  BY <1>0, <1>2, WriteStep, PointNames DEF StartInstall
<1>3. CASE ProvisionCall(w)
  BY <1>3, AskTypes DEF ProvisionCall
<1>4. CASE Poll(w)
  BY <1>4, OnlyGoes, PointNames DEF Poll
<1>5. CASE StartAgain(w)
  BY <1>5, WriteStep, PointNames DEF StartAgain
<1>6. CASE SetCrashed(w)
  BY <1>6, WriteStep, PointNames DEF SetCrashed
<1> QED
  BY <1>1, <1>2, <1>3, <1>4, <1>5, <1>6

\* A goroutine's step that goes on and changes the daemon's processes.
LEMMA DaemonGoes ==
    ASSUME IInv, NEW w \in Workers, NEW k \in Points, Go(w, k), work[w].at # "idle",
           k \notin {"archive", "import", "point"},
           prov[w].at = "none" \/ k \in {"idle", "crash", "poll", "startAgain", "start"},
           DaemonOK', RepOK', UNCHANGED <<rowVars, diskVars, prov, bounds>>
    PROVE  IInv'
<1>1. WorkOK' /\ TasksOK'
  <2>1. UNCHANGED <<prov, mode>>
    BY DEF bounds
  <2> QED
    BY <2>1, GoStep, GoTasks
<1>2. RowOK' /\ DiskOK' /\ ProvOK' /\ BoundsOK'
  BY Frames
<1> QED
  BY <1>1, <1>2, PartsNext

LEMMA StartCallTypes ==
    ASSUME IInv, NEW w \in Workers, StartCall(w)
    PROVE  IInv'
<1>1. work[w].at = "start" /\ UNCHANGED <<rowVars, diskVars, prov, rep, bounds>>
  BY DEF StartCall
<1>2. work[w].n \in Nodes
  BY <1>1, Parts DEF WorkOK
<1>3. PICK k \in {"crash", "idle"} : Go(w, k)
  BY FailGoes DEF StartCall
<1>4. DaemonOK' /\ up' = up
  <2>1. CASE up[work[w].n] /\ DaemonStart(work[w].n)
    BY <1>2, <2>1, DaemonStartStep
  <2>2. CASE UNCHANGED daemonVars
    BY <2>2, Frames DEF daemonVars
  <2> QED
    BY <2>1, <2>2 DEF StartCall
<1>5. RepOK'
  BY <1>1, <1>4, Frames
<1> QED
  BY <1>1, <1>3, <1>4, <1>5, DaemonGoes, PointNames

LEMMA StopCallTypes ==
    ASSUME IInv, NEW w \in Workers, StopCall(w)
    PROVE  IInv'
<1>1. work[w].at \in {"stop", "kill"} /\ Go(w, "idle") /\ UNCHANGED <<rowVars, diskVars, prov, bounds>>
  BY DEF StopCall
<1>2. work[w].n \in Nodes
  BY <1>1, Parts DEF WorkOK
<1>4. DaemonOK' /\ RepOK'
  <2>1. CASE up[work[w].n] /\ \E v \in {"stopping", "stopped"} : DaemonStop(w, work[w].n, v)
    BY <1>2, <2>1, DaemonStopStep
  <2>2. CASE UNCHANGED <<daemonVars, rep>>
    BY <2>2, Frames DEF daemonVars
  <2> QED
    BY <2>1, <2>2 DEF StopCall
<1> QED
  BY <1>1, <1>4, DaemonGoes, PointNames

LEMMA RestartTypes ==
    ASSUME IInv, NEW w \in Workers, RestartCall(w) \/ RestartContinue(w)
    PROVE  IInv'
<1>1. work[w].at \in {"restart", "restartWait"} /\ UNCHANGED <<rowVars, diskVars, prov, rep, bounds>>
  BY DEF RestartCall, RestartContinue
<1>2. work[w].n \in Nodes /\ prov[w].at = "none"
  BY <1>1, Parts DEF WorkOK, TasksOK
<1>3. PICK k \in {"crash", "idle", "restartWait"} : Go(w, k)
  BY DEF RestartCall, RestartContinue
<1>4. DaemonOK' /\ up' = up
  <2>1. CASE up[work[w].n] /\ DaemonStart(work[w].n)
    BY <1>2, <2>1, DaemonStartStep
  <2>2. CASE UNCHANGED daemonVars
    BY <2>2, Frames DEF daemonVars
  <2>3. CASE /\ up[work[w].n] /\ UNCHANGED <<up, told, pend, joined>>
             /\ reg' = IF reg[work[w].n] \in Down THEN reg ELSE [reg EXCEPT ![work[w].n] = "stopping"]
    BY <1>2, <2>3, Parts DEF DaemonOK, Statuses
  <2> QED
    BY <2>1, <2>2, <2>3 DEF RestartCall, RestartContinue
<1>5. RepOK'
  BY <1>1, <1>4, Frames
<1> QED
  BY <1>1, <1>2, <1>3, <1>4, <1>5, DaemonGoes, PointNames

LEMMA ReinstallTypes ==
    ASSUME IInv, NEW w \in Workers, ReinstallSet(w) \/ ReinstallCall(w)
    PROVE  IInv'
<1>0. prov[w].at # "none" => work[w].at \in {"idle", "crash", "poll", "startAgain", "start"}
  BY Parts DEF TasksOK
<1>1. CASE ReinstallSet(w)
  BY <1>0, <1>1, WriteStep, PointNames DEF ReinstallSet
<1>2. CASE ReinstallCall(w)
  BY <1>2, AskTypes DEF ReinstallCall
<1> QED
  BY <1>1, <1>2

LEMMA DeleteTypes ==
    ASSUME IInv, NEW w \in Workers, DeleteCall(w) \/ DeleteRow(w)
    PROVE  IInv'
<1>0. prov[w].at # "none" => work[w].at \in {"idle", "crash", "poll", "startAgain", "start"}
  BY Parts DEF TasksOK
<1>1. CASE DeleteCall(w)
  <2>1. work[w].at = "delete" /\ Go(w, "deleteRow") /\ UNCHANGED <<rowVars, prov, bounds>>
    BY <1>1 DEF DeleteCall
  <2>2. work[w].n \in Nodes
    BY <2>1, Parts DEF WorkOK
  <2>3. DaemonOK' /\ RepOK'
    <3>1. CASE up[work[w].n] /\ DaemonStop(w, work[w].n, "stopped")
      BY <2>2, <3>1, DaemonStopStep
    <3>2. CASE UNCHANGED <<daemonVars, rep>>
      BY <3>2, Frames DEF daemonVars
    <3> QED
      BY <1>1, <3>1, <3>2 DEF DeleteCall
  <2>4. DiskOK'
    <3>1. CASE UNCHANGED diskVars
      BY <3>1, Frames
    <3>2. CASE /\ jar' = [jar EXCEPT ![work[w].n] = FALSE] /\ bak' = [bak EXCEPT ![work[w].n] = FALSE]
               /\ data' = data \ {work[w].n} /\ cleaned' = cleaned \cup {work[w].n}
      BY <2>2, <3>2, Parts DEF DiskOK
    <3> QED
      BY <1>1, <3>1, <3>2 DEF DeleteCall
  <2>5. WorkOK' /\ TasksOK'
    <3>1. UNCHANGED <<prov, mode>>
      BY <2>1 DEF bounds
    <3> QED
      BY <1>0, <2>1, <3>1, GoStep, GoTasks, PointNames
  <2> QED
    BY <2>1, <2>3, <2>4, <2>5, Frames, PartsNext
<1>2. CASE DeleteRow(w)
  <2>1. /\ work[w].at = "deleteRow" /\ row' \in {FALSE, row} /\ Go(w, "idle")
        /\ UNCHANGED <<db, node, exitCode, session, daemonVars, diskVars, prov, rep, bounds>>
    BY <1>2 DEF DeleteRow
  <2>2. RowOK'
    BY <2>1, Parts DEF RowOK
  <2>3. WorkOK' /\ TasksOK'
    <3>1. UNCHANGED <<prov, mode>>
      BY <2>1 DEF bounds
    <3> QED
      BY <2>1, <3>1, GoStep, GoTasks, PointNames
  <2>4. UNCHANGED <<rep, up>>
    BY <2>1 DEF daemonVars
  <2> QED
    BY <2>1, <2>2, <2>3, <2>4, Frames, PartsNext
<1> QED
  BY <1>1, <1>2

\* The archive that a migration has taken.
LEMMA ArchiveTaken ==
    ASSUME IInv, NEW w \in Workers, work[w].at = "archive", NEW z \in SUBSET {"jar", "bak"},
           work' = [work EXCEPT ![w].at = "import", ![w].zip = z]
    PROVE  /\ work' \in [Workers -> Worker]
           /\ \A v \in Workers : v # w => work'[v] = work[v]
           /\ work'[w].at = "import" /\ work'[w].n = work[w].n /\ work'[w].m = work[w].m /\ work'[w].zip = z
<1>1. work \in [Workers -> Worker] /\ work[w] \in Worker
  BY DEF IInv, TypeOK
<1> QED
  BY <1>1 DEF Worker, Points

LEMMA MigrateTypes ==
    ASSUME IInv, NEW w \in Workers, MigrateArchive(w) \/ MigrateImport(w) \/ MigratePoint(w)
    PROVE  IInv'
<1>0. work[w].at \in {"archive", "import", "point"}
  BY DEF MigrateArchive, MigrateImport, MigratePoint
<1>1. work[w].m \in Nodes /\ prov[w].at = "none"
  BY <1>0, Parts DEF WorkOK, TasksOK
<1>2. CASE MigrateArchive(w)
  <2>1. UNCHANGED <<rowVars, daemonVars, diskVars, prov, rep, bounds>>
    BY <1>2 DEF MigrateArchive
  <2>2. CASE Go(w, "idle")
    BY <1>0, <1>1, <2>1, <2>2, OnlyGoes, PointNames
  <2>3. CASE \E z \in SUBSET {"jar", "bak"} : work' = [work EXCEPT ![w].at = "import", ![w].zip = z]
    <3>1. WorkOK /\ TasksOK
      BY Parts
    <3>2. PICK z \in SUBSET {"jar", "bak"} : work' = [work EXCEPT ![w].at = "import", ![w].zip = z]
      BY <2>3
    <3>3. WorkOK'
      <4>1. work[w].at = "archive" /\ work[w].n \in Nodes
        BY <1>2, <3>1 DEF WorkOK, MigrateArchive
      <4>2. /\ work' \in [Workers -> Worker] /\ \A v \in Workers : v # w => work'[v] = work[v]
            /\ work'[w].at = "import" /\ work'[w].n = work[w].n /\ work'[w].m = work[w].m
        BY <3>2, <4>1, ArchiveTaken
      <4> QED
        BY <1>1, <3>1, <4>1, <4>2 DEF WorkOK
    <3>4. TasksOK'
      <4>1. UNCHANGED <<prov, mode>>
        BY <2>1 DEF bounds
      <4>2. \A v \in Workers : v # w => work'[v] = work[v]
        BY <1>2, <3>2, ArchiveTaken DEF MigrateArchive
      <4> QED
        BY <1>0, <1>1, <3>1, <4>1, <4>2 DEF TasksOK
    <3>5. UNCHANGED <<rep, up>>
      BY <2>1 DEF daemonVars
    <3> QED
      BY <2>1, <3>3, <3>4, <3>5, Frames, PartsNext
  <2> QED
    BY <1>2, <2>2, <2>3 DEF MigrateArchive
<1>3. CASE MigrateImport(w)
  <2>1. UNCHANGED <<rowVars, daemonVars, prov, rep, bounds>>
    BY <1>3 DEF MigrateImport
  <2>2. PICK k \in {"idle", "point"} : Go(w, k)
    BY <1>3 DEF MigrateImport
  <2>3. DiskOK'
    <3>1. CASE UNCHANGED diskVars
      BY <3>1, Frames
    <3>2. CASE /\ data' = data \cup {work[w].m} /\ cleaned' = cleaned \ {work[w].m}
               /\ jar' = [jar EXCEPT ![work[w].m] = @ \/ "jar" \in work[w].zip]
               /\ bak' = [bak EXCEPT ![work[w].m] = @ \/ "bak" \in work[w].zip]
      BY <1>1, <2>1, <3>2, Parts DEF DiskOK
    <3> QED
      BY <1>3, <3>1, <3>2 DEF MigrateImport
  <2>4. WorkOK' /\ TasksOK'
    <3>1. UNCHANGED <<prov, mode>>
      BY <2>1 DEF bounds
    <3> QED
      BY <1>0, <1>1, <2>2, <3>1, GoStep, GoTasks, PointNames
  <2>5. UNCHANGED <<rep, up>>
    BY <2>1 DEF daemonVars
  <2> QED
    BY <2>1, <2>3, <2>4, <2>5, Frames, PartsNext
<1>4. CASE MigratePoint(w)
  <2>1. /\ node' = IF row THEN work[w].m ELSE node
        /\ Go(w, "idle") /\ UNCHANGED <<row, db, exitCode, session, daemonVars, diskVars, prov, rep, bounds>>
    BY <1>4 DEF MigratePoint
  <2>2. RowOK'
    BY <1>1, <2>1, Parts DEF RowOK
  <2>3. WorkOK' /\ TasksOK'
    <3>1. UNCHANGED <<prov, mode>>
      BY <2>1 DEF bounds
    <3> QED
      BY <1>0, <1>1, <2>1, <3>1, GoStep, GoTasks, PointNames
  <2>4. UNCHANGED <<rep, up>>
    BY <2>1 DEF daemonVars
  <2> QED
    BY <2>1, <2>2, <2>3, <2>4, Frames, PartsNext
<1> QED
  BY <1>2, <1>3, <1>4

LEMMA WorkerTypes ==
    ASSUME IInv, NEW w \in Workers, WorkerStep(w)
    PROVE  IInv'
  BY StartTypes, StartCallTypes, StopCallTypes, RestartTypes, ReinstallTypes, DeleteTypes, MigrateTypes DEF WorkerStep

-----------------------------------------------------------------------------
(* The types: provisioning, reports, processes, daemons *)

\* A task that goes on at k.
LEMMA ProvStep ==
    ASSUME IInv, NEW w \in Workers, prov[w].at # "none", NEW p \in Provision,
           p.n = prov[w].n \/ p.at = "none", prov' = [prov EXCEPT ![w] = p], UNCHANGED <<work, mode>>
    PROVE  ProvOK' /\ TasksOK'
<1>1. ProvOK /\ TasksOK
  BY Parts
<1>2. \A v \in Workers : prov'[v] = IF v = w THEN p ELSE prov[v]
  BY <1>1 DEF ProvOK
<1>3. ProvOK'
  BY <1>1, <1>2 DEF ProvOK
<1> QED
  BY <1>1, <1>2, <1>3 DEF TasksOK

\* The forms of a task's next state.
LEMMA ProvForms ==
    ASSUME IInv, NEW w \in Workers, NEW k \in {"begin", "rename", "fetch", "report", "finish", "drop"}
    PROVE  /\ prov[w] \in Provision /\ NoProvision \in Provision /\ NoProvision.at = "none"
           /\ [prov[w] EXCEPT !.at = k] \in Provision /\ [prov[w] EXCEPT !.at = k].n = prov[w].n
           /\ [prov EXCEPT ![w].at = k] = [prov EXCEPT ![w] = [prov[w] EXCEPT !.at = k]]
<1>1. prov \in [Workers -> Provision] /\ prov[w] \in Provision
  BY DEF IInv, TypeOK
<1> QED
  BY <1>1 DEF Provision, NoProvision

\* A task's step.
LEMMA TaskTypes ==
    ASSUME IInv, NEW w \in Workers, prov[w].at # "none", ProvOK', TasksOK', DiskOK', RepOK',
           UNCHANGED <<rowVars, work, daemonVars, bounds>>
    PROVE  IInv'
  BY Frames, PartsNext

LEMMA ProvisionTypes ==
    ASSUME IInv, NEW w \in Workers, ProvisionStep(w)
    PROVE  IInv'
<1>1. prov[w].at # "none" /\ UNCHANGED <<rowVars, work, daemonVars, bounds>>
  BY DEF ProvisionStep, ProvisionBegin, SetAside, ProvisionFetch, ProvisionFinish, DropAside
<1>2. UNCHANGED <<work, mode>> /\ up' = up
  BY <1>1 DEF bounds, daemonVars
<1>3. prov[w].n \in Nodes
  BY <1>1, Parts DEF ProvOK
<1>4. CASE ProvisionBegin(w)
  <2>1. ProvOK' /\ TasksOK'
    <3>1. PICK k \in {"rename", "fetch"} : prov' = [prov EXCEPT ![w].at = k]
      BY <1>4 DEF ProvisionBegin
    <3> QED
      BY <1>1, <1>2, <3>1, ProvForms, ProvStep
  <2>2. DiskOK' /\ RepOK'
    <3>1. bak' \in [Nodes -> BOOLEAN]
      BY <1>4, <1>3, Parts DEF DiskOK, ProvisionBegin
    <3>2. DiskOK'
      BY <1>4, <3>1, Parts DEF DiskOK, ProvisionBegin
    <3>3. rep' = rep
      BY <1>4 DEF ProvisionBegin
    <3> QED
      BY <1>2, <3>2, <3>3, Frames
  <2> QED
    BY <1>1, <2>1, <2>2, TaskTypes
<1>5. CASE SetAside(w)
  <2>1. ProvOK' /\ TasksOK'
    <3>1. jar[prov[w].n] \in BOOLEAN /\ prov[w] \in Provision /\ prov \in [Workers -> Provision]
      BY <1>3 DEF IInv, TypeOK
    <3>2. PICK p : p = [prov[w] EXCEPT !.at = "fetch", !.aside = jar[prov[w].n]]
      OBVIOUS
    <3>3. p \in Provision /\ p.n = prov[w].n
      BY <3>1, <3>2 DEF Provision
    <3>4. prov' = [prov EXCEPT ![w] = p]
      BY <1>5, <3>1, <3>2 DEF SetAside
    <3> QED
      BY <1>1, <1>2, <3>3, <3>4, ProvStep
  <2>2. DiskOK'
    BY <1>3, <1>5, Parts DEF DiskOK, SetAside
  <2>3. RepOK'
    BY <1>2, <1>5, Frames DEF SetAside
  <2> QED
    BY <1>1, <2>1, <2>2, <2>3, TaskTypes
<1>6. CASE ProvisionFetch(w)
  <2>1. ProvOK' /\ TasksOK'
    <3>1. prov' = [prov EXCEPT ![w].at = "report"]
      BY <1>6 DEF ProvisionFetch
    <3> QED
      BY <1>1, <1>2, <3>1, ProvForms, ProvStep
  <2>2. DiskOK'
    BY <1>3, <1>6, Parts DEF DiskOK, ProvisionFetch
  <2>3. RepOK'
    <3>1. RepOK
      BY Parts
    <3>2. PICK v \in {"stopped", "crashed"} : rep' = [rep EXCEPT ![w] = Sent(prov[w].n, v, FALSE)]
      BY <1>6 DEF ProvisionFetch, Down
    <3>3. Sent(prov[w].n, v, FALSE) \in Report
      BY <1>3 DEF Sent, Report, Statuses
    <3>4. \A x \in Nodes \cup Workers : rep'[x] = IF x = w THEN Sent(prov[w].n, v, FALSE) ELSE rep[x]
      BY <3>1, <3>2 DEF RepOK
    <3>5. rep' \in [Nodes \cup Workers -> Report]
      BY <3>1, <3>2, <3>3 DEF RepOK
    <3>6. w \notin Nodes
      BY NameAssumption
    <3>7. Sent(prov[w].n, v, FALSE).n \in Nodes /\ Sent(prov[w].n, v, FALSE).v \in Statuses
      BY <1>3 DEF Sent, Statuses
    <3> QED
      BY <1>2, <3>1, <3>4, <3>5, <3>6, <3>7 DEF RepOK
  <2> QED
    BY <1>1, <2>1, <2>2, <2>3, TaskTypes
<1>7. CASE ProvisionFinish(w)
  <2>1. ProvOK' /\ TasksOK'
    <3>1. prov' = [prov EXCEPT ![w].at = "drop"] \/ prov' = [prov EXCEPT ![w] = NoProvision]
      BY <1>7 DEF ProvisionFinish
    <3> QED
      BY <1>1, <1>2, <3>1, ProvForms, ProvStep
  <2>2. DiskOK'
    <3>1. jar' \in [Nodes -> BOOLEAN] /\ bak' \in [Nodes -> BOOLEAN]
      BY <1>3, <1>7, Parts DEF DiskOK, ProvisionFinish
    <3> QED
      BY <1>7, <3>1, Parts DEF DiskOK, ProvisionFinish
  <2>3. RepOK'
    BY <1>2, <1>7, Frames DEF ProvisionFinish
  <2> QED
    BY <1>1, <2>1, <2>2, <2>3, TaskTypes
<1>8. CASE DropAside(w)
  <2>1. ProvOK' /\ TasksOK'
    <3>1. prov' = [prov EXCEPT ![w] = NoProvision]
      BY <1>8 DEF DropAside
    <3> QED
      BY <1>1, <1>2, <3>1, ProvForms, ProvStep
  <2>2. DiskOK'
    BY <1>3, <1>8, Parts DEF DiskOK, DropAside
  <2>3. RepOK'
    BY <1>2, <1>8, Frames DEF DropAside
  <2> QED
    BY <1>1, <2>1, <2>2, <2>3, TaskTypes
<1> QED
  BY <1>4, <1>5, <1>6, <1>7, <1>8 DEF ProvisionStep

\* What follows a report (AfterReport).
LEMMA AfterTypes ==
    ASSUME IInv, NEW x \in Nodes \cup Workers, rep[x].at # "none", AfterReport(x), RowOK'
    PROVE  IInv'
<1>1. /\ rep' = [rep EXCEPT ![x] = NoReport]
      /\ UNCHANGED <<work, up, told, joined, diskVars, bounds>>
  BY DEF AfterReport
<1>2. ProvOK /\ TasksOK /\ RepOK /\ DaemonOK
  BY Parts
<1>3. UNCHANGED <<work, mode>>
  BY <1>1 DEF bounds
<1>4. ProvOK' /\ TasksOK'
  <2>1. CASE prov' = prov
    BY <1>3, <2>1, Frames
  <2>2. CASE x \in Workers /\ prov[x].at = "report" /\ prov' = [prov EXCEPT ![x].at = "finish"]
    BY <1>3, <2>2, ProvForms, ProvStep
  <2> QED
    BY <2>1, <2>2 DEF AfterReport
<1>5. RepOK'
  <2>1. NoReport \in Report /\ NoReport.at = "none"
    BY DEF NoReport, Report
  <2>2. \A y \in Nodes \cup Workers : rep'[y] = IF y = x THEN NoReport ELSE rep[y]
    BY <1>1, <1>2 DEF RepOK
  <2>3. rep' \in [Nodes \cup Workers -> Report]
    BY <1>1, <1>2, <2>1 DEF RepOK
  <2> QED
    BY <1>1, <1>2, <2>1, <2>2, <2>3 DEF RepOK
<1>6. DaemonOK'
  <2>1. CASE UNCHANGED <<reg, pend>>
    BY <1>1, <1>2, <2>1 DEF DaemonOK
  <2>2. CASE x \in Nodes /\ rep[x].v \in Down
    <3>1. up[x]
      BY <1>2, <2>2 DEF RepOK
    <3>2. reg' = [reg EXCEPT ![x] = "none"] /\ \E p \in BOOLEAN : pend' = [pend EXCEPT ![x] = p]
      BY <2>2 DEF AfterReport
    <3> QED
      BY <1>1, <1>2, <2>2, <3>1, <3>2 DEF DaemonOK
  <2> QED
    BY <2>1, <2>2 DEF AfterReport
<1> QED
  BY <1>1, <1>4, <1>5, <1>6, Frames, PartsNext

LEMMA ReportTypes ==
    ASSUME IInv, NEW x \in Nodes \cup Workers, ReportStep(x) \/ ReportLost(x)
    PROVE  IInv'
<1>1. CASE ReportLost(x)
  BY <1>1, AfterTypes, Frames DEF ReportLost
<1>2. CASE ReportApply(x)
  <2>1. rep[x].at = "checked" /\ AfterReport(x) /\ SetDb(rep[x].v)
    BY <1>2 DEF ReportApply
  <2>2. rep[x].v \in Statuses
    BY <2>1, Parts DEF RepOK
  <2>3. exitCode' \in BOOLEAN
    <3>1. exitCode \in BOOLEAN /\ rep[x].code \in BOOLEAN
      BY Parts DEF RowOK, RepOK, Report
    <3> QED
      BY <1>2, <3>1 DEF ReportApply
  <2>4. RowOK'
    BY <2>1, <2>2, <2>3, SetDbStep
  <2> QED
    BY <2>1, <2>4, AfterTypes
<1>3. CASE ReportCheck(x)
  <2>1. rep[x].at = "sent" /\ UNCHANGED rowVars
    BY <1>3 DEF ReportCheck
  <2>2. CASE row /\ node = rep[x].n
    <3>1. rep' = [rep EXCEPT ![x].at = "checked"] /\ UNCHANGED <<work, daemonVars, diskVars, prov, bounds>>
      BY <1>3, <2>2 DEF ReportCheck
    <3>2. RepOK
      BY Parts
    <3>3. RepOK'
      <4>1. \A y \in Nodes \cup Workers : rep'[y] = IF y = x THEN [rep[x] EXCEPT !.at = "checked"] ELSE rep[y]
        BY <3>1, <3>2 DEF RepOK
      <4>2. rep[x] \in Report
        BY <3>2 DEF RepOK
      <4>3. [rep[x] EXCEPT !.at = "checked"] \in Report
        BY <4>2 DEF Report
      <4>4. [rep[x] EXCEPT !.at = "checked"].n = rep[x].n /\ [rep[x] EXCEPT !.at = "checked"].v = rep[x].v
        BY <4>2 DEF Report
      <4>5. rep' \in [Nodes \cup Workers -> Report]
        BY <3>1, <3>2, <4>1, <4>3 DEF RepOK
      <4>6. up' = up
        BY <3>1 DEF daemonVars
      <4> QED
        <5>1. /\ rep'[x].n = rep[x].n /\ rep'[x].v = rep[x].v
              /\ \A y \in Nodes \cup Workers : y # x => rep'[y] = rep[y]
          BY <4>1, <4>4
        <5>2. rep[x].at # "none"
          BY <2>1
        <5> QED
          BY <3>2, <4>5, <4>6, <5>1, <5>2 DEF RepOK
    <3>4. UNCHANGED <<work, prov, mode>>
      BY <3>1 DEF bounds
    <3> QED
      BY <2>1, <3>1, <3>3, <3>4, Frames, PartsNext
  <2>3. CASE ~(row /\ node = rep[x].n)
    BY <1>3, <2>1, <2>3, AfterTypes, Frames DEF ReportCheck
  <2> QED
    BY <2>2, <2>3
<1> QED
  BY <1>1, <1>2, <1>3 DEF ReportStep

LEMMA NodeTypes ==
    ASSUME IInv, NEW n \in Nodes, NodeStep(n) \/ PlayerJoins(n) \/ DaemonDies(n)
    PROVE  IInv'
<1>0. RowOK /\ DaemonOK /\ ProvOK /\ RepOK /\ BoundsOK /\ TasksOK
  BY Parts
<1>1. CASE ProcessMoves(n)
  <2>1. UNCHANGED <<rowVars, work, up, told, pend, joined, diskVars, prov, rep, deaths, asked, mode>>
    BY <1>1 DEF ProcessMoves
  <2>2. DaemonOK'
    <3>1. reg[n] # "none" /\ \E v \in Statuses : reg' = [reg EXCEPT ![n] = v]
      BY <1>1 DEF ProcessMoves, Statuses, Down
    <3> QED
      BY <1>0, <2>1, <3>1 DEF DaemonOK
  <2>3. BoundsOK'
    <3>1. exits' = exits \/ (exits < mode.exits /\ exits' = exits + 1)
      BY <1>1 DEF ProcessMoves
    <3>2. mode.exits \in Nat
      BY <1>0, ModeAssumption DEF BoundsOK, Mode
    <3> QED
      BY <1>0, <2>1, <3>1, <3>2 DEF BoundsOK
  <2> QED
    BY <2>1, <2>2, <2>3, Frames, PartsNext
<1>2. CASE WatcherReports(n)
  <2>1. UNCHANGED <<rowVars, work, up, reg, pend, joined, diskVars, prov, bounds>>
    BY <1>2 DEF WatcherReports
  <2>2. reg[n] # "none" /\ reg[n] \in Statuses /\ up[n]
    BY <1>0, <1>2 DEF WatcherReports, DaemonOK
  <2>3. DaemonOK'
    BY <1>0, <1>2, <2>1, <2>2 DEF DaemonOK, WatcherReports
  <2>4. RepOK'
    <3>1. PICK code \in BOOLEAN : rep' = [rep EXCEPT ![n] = Sent(n, reg[n], code)]
      BY <1>2 DEF WatcherReports
    <3>2. Sent(n, reg[n], code) \in Report /\ Sent(n, reg[n], code).n = n /\ Sent(n, reg[n], code).v = reg[n]
      BY <2>2 DEF Sent, Report
    <3>3. \A x \in Nodes \cup Workers : rep'[x] = IF x = n THEN Sent(n, reg[n], code) ELSE rep[x]
      BY <1>0, <3>1 DEF RepOK
    <3>4. rep' \in [Nodes \cup Workers -> Report]
      BY <1>0, <3>1, <3>2 DEF RepOK
    <3> QED
      BY <1>0, <2>1, <2>2, <3>2, <3>3, <3>4 DEF RepOK
  <2>5. UNCHANGED <<work, prov, mode>>
    BY <2>1 DEF bounds
  <2> QED
    BY <2>1, <2>3, <2>4, <2>5, Frames, PartsNext
<1>3. CASE RestartFires(n)
  <2>1. UNCHANGED <<rowVars, work, diskVars, prov, rep, bounds>> /\ pend[n] /\ DaemonStart(n)
    BY <1>3 DEF RestartFires
  <2>2. up[n]
    BY <1>0, <2>1 DEF DaemonOK
  <2>3. DaemonOK' /\ up' = up
    BY <2>1, <2>2, DaemonStartStep
  <2>4. UNCHANGED <<work, prov, mode>>
    BY <2>1 DEF bounds
  <2> QED
    BY <2>1, <2>3, <2>4, Frames, PartsNext
<1>4. CASE JoinArrives(n)
  <2>1. UNCHANGED <<row, db, node, exitCode, work, up, reg, told, pend, diskVars, prov, rep, bounds>>
    BY <1>4 DEF JoinArrives
  <2>2. RowOK' /\ DaemonOK'
    BY <1>0, <1>4, <2>1 DEF RowOK, DaemonOK, JoinArrives
  <2>3. UNCHANGED <<work, prov, mode>>
    BY <2>1 DEF bounds
  <2> QED
    BY <2>1, <2>2, <2>3, Frames, PartsNext
<1>5. CASE DaemonBoots(n)
  <2>1. UNCHANGED <<exitCode, work, reg, told, pend, joined, diskVars, prov, rep, bounds>> /\ up' = [up EXCEPT ![n] = TRUE]
    BY <1>5 DEF DaemonBoots
  <2>2. RowOK'
    <3>1. CASE SetDb("stopped")
      <4>1. exitCode' \in BOOLEAN
        BY <1>0, <2>1 DEF RowOK
      <4> QED
        BY <3>1, <4>1, SetDbStep, PointNames
    <3>2. CASE UNCHANGED <<row, db, node, session>>
      BY <1>0, <2>1, <3>2 DEF RowOK
    <3> QED
      BY <1>5, <3>1, <3>2 DEF DaemonBoots
  <2>3. DaemonOK' /\ RepOK'
    BY <1>0, <2>1 DEF DaemonOK, RepOK
  <2>4. UNCHANGED <<work, prov, mode>>
    BY <2>1 DEF bounds
  <2> QED
    BY <2>1, <2>2, <2>3, <2>4, Frames, PartsNext
<1>6. CASE PlayerJoins(n)
  <2>1. UNCHANGED <<rowVars, work, up, reg, told, pend, diskVars, prov, rep, bounds>>
    BY <1>6 DEF PlayerJoins
  <2>2. DaemonOK'
    BY <1>0, <1>6, <2>1 DEF DaemonOK, PlayerJoins
  <2>3. UNCHANGED <<work, prov, mode>>
    BY <2>1 DEF bounds
  <2> QED
    BY <2>1, <2>2, <2>3, Frames, PartsNext
<1>7. CASE DaemonDies(n)
  <2>1. UNCHANGED <<rowVars, work, diskVars, exits, asked, mode>> /\ up' = [up EXCEPT ![n] = FALSE]
    BY <1>7 DEF DaemonDies
  <2>2. DaemonOK'
    BY <1>0, <1>7 DEF DaemonOK, DaemonDies
  <2>3. ProvOK' /\ TasksOK'
    <3>1. \A w \in Workers : prov'[w] = IF prov[w].n = n THEN NoProvision ELSE prov[w]
      BY <1>7 DEF DaemonDies
    <3>2. NoProvision \in Provision /\ NoProvision.at = "none"
      BY DEF NoProvision, Provision
    <3>3. prov' \in [Workers -> Provision]
      BY <1>0, <1>7, <3>2 DEF DaemonDies, ProvOK
    <3>4. ProvOK'
      BY <1>0, <3>1, <3>2, <3>3 DEF ProvOK
    <3> QED
      BY <1>0, <2>1, <3>1, <3>2, <3>4 DEF TasksOK
  <2>4. RepOK'
    <3>1. \A x \in Nodes \cup Workers : rep'[x] = IF rep[x].n = n THEN NoReport ELSE rep[x]
      BY <1>7 DEF DaemonDies
    <3>2. NoReport \in Report /\ NoReport.at = "none"
      BY DEF NoReport, Report
    <3>3. rep' \in [Nodes \cup Workers -> Report]
      BY <1>0, <1>7, <3>2 DEF DaemonDies, RepOK
    <3>4. ASSUME NEW m \in Nodes, rep'[m].at # "none"
          PROVE  rep'[m].n = m /\ up'[m]
      <4>1. rep'[m] = rep[m] /\ rep[m].n # n
        BY <3>1, <3>2, <3>4
      <4>2. rep[m].n = m /\ up[m]
        BY <1>0, <3>4, <4>1 DEF RepOK
      <4> QED
        BY <1>0, <2>1, <4>1, <4>2 DEF DaemonOK
    <3>5. \A x \in Nodes \cup Workers : rep'[x].at # "none" => rep'[x].n \in Nodes /\ rep'[x].v \in Statuses
      BY <1>0, <3>1, <3>2 DEF RepOK
    <3> QED
      BY <3>3, <3>4, <3>5 DEF RepOK
  <2>5. BoundsOK'
    <3>1. deaths < mode.deaths /\ deaths' = deaths + 1
      BY <1>7 DEF DaemonDies
    <3>2. mode.deaths \in Nat
      BY <1>0, ModeAssumption DEF BoundsOK, Mode
    <3> QED
      BY <1>0, <2>1, <3>1, <3>2 DEF BoundsOK
  <2> QED
    BY <2>1, <2>2, <2>3, <2>4, <2>5, Frames, PartsNext
<1> QED
  BY <1>1, <1>2, <1>3, <1>4, <1>5, <1>6, <1>7 DEF NodeStep

LEMMA InitTypes == Init => IInv
<1> SUFFICES ASSUME Init PROVE IInv
  OBVIOUS
<1>1. RowOK /\ DiskOK /\ DaemonOK
  BY DEF Init, RowOK, DiskOK, DaemonOK, Statuses
<1>2. WorkOK
  BY DEF Init, WorkOK, Idle, Worker, Points
<1>3. ProvOK /\ TasksOK
  BY DEF Init, ProvOK, TasksOK, NoProvision, Provision, Idle
<1>4. RepOK
  <2>1. NoReport \in Report /\ NoReport.at = "none"
    BY DEF NoReport, Report
  <2> QED
    BY <2>1 DEF Init, RepOK
<1>5. BoundsOK
  <2>1. mode \in Mode
    BY ModeAssumption DEF Init
  <2> QED
    BY <2>1 DEF Init, BoundsOK, Mode
<1> QED
  BY <1>1, <1>2, <1>3, <1>4, <1>5, Parts

LEMMA StutterTypes == IInv /\ UNCHANGED vars => IInv'
<1> SUFFICES ASSUME IInv, UNCHANGED vars PROVE IInv'
  OBVIOUS
<1>1. UNCHANGED <<rowVars, work, daemonVars, diskVars, prov, rep, bounds>>
  BY DEF vars
<1>2. UNCHANGED <<rep, up>> /\ UNCHANGED <<work, prov, mode>>
  BY <1>1 DEF daemonVars, bounds
<1> QED
  BY <1>1, <1>2, Frames, PartsNext

\* Every goroutine, task and report names what it is about, whatever interleaves.
THEOREM Inductive == Spec => []IInv
<1>1. IInv /\ [Next]_vars => IInv'
  BY RequestTypes, WorkerTypes, ProvisionTypes, ReportTypes, NodeTypes, StutterTypes DEF Next
<1> QED
  BY <1>1, InitTypes, PTL DEF Spec

\* Every variable has its type, and a daemon that is down has no process, no pending
\* restart and no report on its way (stop_all in manager.rs).
THEOREM TypeCorrect == Spec => []TypeOK
<1>1. IInv => TypeOK
  BY DEF IInv
<1> QED
  BY <1>1, Inductive, PTL

-----------------------------------------------------------------------------
(* FilesKept *)

\* What is on disk, the row and what migrations and reinstalls hold stay.
LEMMA FilesFrame ==
    ASSUME IInv, FilesSafe, UNCHANGED <<jar, bak, data, cleaned, node, mode>>, row' => row,
           \A v \in Workers : work'[v].at \in {"import", "point"} => work'[v] = work[v],
           \A v \in Workers : prov'[v].at = "drop" => prov'[v] = prov[v]
    PROVE  FilesSafe'
  BY DEF FilesSafe, OneWorker

LEMMA FilesGo ==
    ASSUME IInv, FilesSafe, UNCHANGED <<diskVars, node, mode>>, row' => row,
           NEW w \in Workers, NEW k \in Points \ {"import", "point"}, Go(w, k),
           \A v \in Workers : prov'[v].at = "drop" => prov'[v] = prov[v]
    PROVE  FilesSafe'
<1>1. UNCHANGED <<jar, bak, data, cleaned, node, mode>>
  BY DEF diskVars
<1> QED
  BY <1>1, FilesFrame, GoFacts

LEMMA FilesStay ==
    ASSUME IInv, FilesSafe, UNCHANGED <<diskVars, rowVars, work, prov, mode>>
    PROVE  FilesSafe'
<1>1. UNCHANGED <<jar, bak, data, cleaned, node, row, mode>>
  BY DEF diskVars, rowVars
<1> QED
  BY <1>1, FilesFrame

\* A goroutine that is in a request or has left a provisioning task behind.
Busy(w) == work[w].at # "idle" \/ prov[w].at # "none"

\* One goroutine at a time is one that does something at a time.
LEMMA OneActs ==
    ASSUME IInv, OneWorker, NEW v \in Workers, NEW w \in Workers, Busy(v), Busy(w)
    PROVE  v = w
<1>1. v \in mode.workers /\ w \in mode.workers
  BY Parts DEF TasksOK, Busy
<1> QED
  BY <1>1 DEF OneWorker

LEMMA FilesRequest ==
    ASSUME IInv, FilesSafe, NEW w \in Workers, Request(w)
    PROVE  FilesSafe'
<1>1. ASSUME NEW kind, NEW k \in Points \ {"import", "point"}, NEW m, Begin(w, kind, k, m), UNCHANGED <<row, node>>
      PROVE  FilesSafe'
  <2>1. UNCHANGED <<jar, bak, data, cleaned, mode, prov>>
    BY <1>1 DEF Begin, diskVars
  <2>2. \A v \in Workers : work'[v] = IF v = w THEN [at |-> k, n |-> node, m |-> m, zip |-> {}] ELSE work[v]
    BY <1>1 DEF Begin, IInv, TypeOK
  <2> QED
    BY <1>1, <2>1, <2>2, FilesFrame
<1>2. ASSUME StartCheck(w) \/ ReinstallCheck(w) \/ DeleteRequest(w)
      PROVE  FilesSafe'
  <2>1. UNCHANGED <<row, node>>
    BY <1>2 DEF StartCheck, ReinstallCheck, DeleteRequest, rowVars
  <2>2. \E kind \in {"start", "reinstall", "delete"}, k \in {"startSet", "reinstallSet", "delete"} : Begin(w, kind, k, None)
    BY <1>2 DEF StartCheck, ReinstallCheck, DeleteRequest
  <2> QED
    BY <1>1, <2>1, <2>2, PointNames
<1>3. ASSUME StopRequest(w) \/ RestartRequest(w) \/ KillRequest(w)
      PROVE  FilesSafe'
  <2>1. PICK kind \in {"stop", "restart", "kill"}, v \in {"stopping", "stopped"} : Power(w, kind, v)
    BY <1>3 DEF StopRequest, RestartRequest, KillRequest
  <2>2. Begin(w, kind, kind, None) /\ UNCHANGED <<row, node>>
    BY <2>1 DEF Power, SetDb
  <2> QED
    BY <1>1, <2>2, PointNames
<1>4. ASSUME NEW m \in Nodes, MigrateCheck(w, m)
      PROVE  FilesSafe'
  <2>1. Begin(w, "migrate", "archive", m) /\ UNCHANGED <<row, node>>
    BY <1>4 DEF MigrateCheck, rowVars
  <2> QED
    BY <1>1, <2>1, PointNames
<1> QED
  BY <1>2, <1>3, <1>4 DEF Request

\* Steps of a goroutine that leave the files alone.
LEMMA FilesPower ==
    ASSUME IInv, FilesSafe, NEW w \in Workers,
           \/ StartSet(w) \/ StartInstall(w) \/ ProvisionCall(w) \/ Poll(w) \/ StartAgain(w) \/ SetCrashed(w)
           \/ StartCall(w) \/ StopCall(w) \/ RestartCall(w) \/ RestartContinue(w)
           \/ ReinstallSet(w) \/ ReinstallCall(w) \/ DeleteRow(w)
    PROVE  FilesSafe'
<1>1. ASSUME NEW v, NEW k \in Points \ {"import", "point"}, Write(w, v, k)
      PROVE  FilesSafe'
  <2>1. UNCHANGED <<diskVars, row, node, mode, prov>> /\ Go(w, k)
    BY <1>1 DEF Write, SetDb, bounds
  <2> QED
    BY <2>1, FilesGo
<1>2. ASSUME StartSet(w) \/ StartInstall(w) \/ StartAgain(w) \/ SetCrashed(w) \/ ReinstallSet(w)
      PROVE  FilesSafe'
  BY <1>1, <1>2, PointNames DEF StartSet, StartInstall, StartAgain, SetCrashed, ReinstallSet
<1>3. ASSUME NEW re, NEW l \in {"poll", "idle"}, AskProvision(w, re, l)
      PROVE  FilesSafe'
  <2>1. UNCHANGED <<diskVars, row, node, mode>>
    BY <1>3 DEF AskProvision, rowVars, bounds
  <2>2. PICK k \in {"poll", "idle", "crash"} : Go(w, k)
    BY <1>3, FailGoes DEF AskProvision
  <2>3. \A v \in Workers : prov'[v].at = "drop" => prov'[v] = prov[v]
    <3>1. prov \in [Workers -> Provision]
      BY DEF IInv, TypeOK
    <3>2. prov' = prov \/ prov' = [prov EXCEPT ![w] = [at |-> "begin", n |-> work[w].n, re |-> re, aside |-> FALSE]]
      BY <1>3 DEF AskProvision
    <3> QED
      BY <3>1, <3>2
  <2> QED
    BY <2>1, <2>2, <2>3, FilesGo, PointNames
<1>4. ASSUME ProvisionCall(w) \/ ReinstallCall(w)
      PROVE  FilesSafe'
  BY <1>3, <1>4 DEF ProvisionCall, ReinstallCall
<1>5. ASSUME Poll(w) \/ StartCall(w) \/ StopCall(w) \/ RestartCall(w) \/ RestartContinue(w)
      PROVE  FilesSafe'
  <2>1. UNCHANGED <<diskVars, row, node, mode, prov>>
    BY <1>5 DEF Poll, StartCall, StopCall, RestartCall, RestartContinue, rowVars, bounds
  <2>2. \E k \in {"idle", "startAgain", "crash", "restartWait"} : Go(w, k)
    <3>1. CASE Poll(w)
      BY <3>1 DEF Poll
    <3>2. CASE StartCall(w)
      BY <3>2, FailGoes DEF StartCall
    <3>3. CASE StopCall(w) \/ RestartContinue(w)
      BY <3>3 DEF StopCall, RestartContinue
    <3>4. CASE RestartCall(w)
      BY <3>4 DEF RestartCall
    <3> QED
      BY <1>5, <3>1, <3>2, <3>3, <3>4
  <2> QED
    BY <2>1, <2>2, FilesGo, PointNames
<1>6. ASSUME DeleteRow(w)
      PROVE  FilesSafe'
  <2>1. UNCHANGED <<diskVars, node, mode, prov>> /\ Go(w, "idle")
    BY <1>6 DEF DeleteRow, bounds
  <2>2. row' \in {FALSE, row}
    BY <1>6 DEF DeleteRow
  <2>3. row' => row
    BY Zenon, <2>2
  <2> QED
    BY <2>1, <2>3, FilesGo, PointNames
<1> QED
  BY <1>2, <1>4, <1>5, <1>6

\* A delete removes the data with the binaries (delete_server_data).
LEMMA FilesDelete ==
    ASSUME IInv, FilesSafe, NEW w \in Workers, DeleteCall(w)
    PROVE  FilesSafe'
<1>1. work[w].at = "delete" /\ Go(w, "deleteRow") /\ UNCHANGED <<row, node, mode, prov>>
  BY DEF DeleteCall, rowVars, bounds
<1>2. CASE UNCHANGED diskVars
  BY <1>1, <1>2, FilesGo, PointNames
<1>3. CASE /\ jar' = [jar EXCEPT ![work[w].n] = FALSE] /\ bak' = [bak EXCEPT ![work[w].n] = FALSE]
           /\ data' = data \ {work[w].n} /\ cleaned' = cleaned \cup {work[w].n}
  <2> SUFFICES ASSUME OneWorker
               PROVE  /\ \A n \in data' : jar'[n] \/ bak'[n]
                      /\ row /\ node \notin cleaned' => node \in data'
                      /\ \A v \in Workers :
                            /\ work'[v].at = "import" => work'[v].zip # {}
                            /\ work'[v].at = "point" => work'[v].m \in data'
                            /\ prov[v].at = "drop" /\ prov[v].n \in data' => jar'[prov[v].n]
    BY <1>1 DEF FilesSafe, OneWorker
  <2>1. DiskOK /\ TasksOK /\ work[w].n \in Nodes
    BY <1>1, Parts DEF WorkOK
  <2>2. \A n \in data' : n # work[w].n /\ n \in data /\ jar'[n] = jar[n] /\ bak'[n] = bak[n]
    BY <1>3, <2>1 DEF DiskOK
  <2>3. ASSUME NEW v \in Workers, work'[v].at \in {"import", "point"}
        PROVE  FALSE
    <3>1. v # w /\ work'[v] = work[v]
      BY <1>1, <2>3, GoFacts, PointNames
    <3>2. Busy(v) /\ Busy(w)
      BY <1>1, <2>3, <3>1 DEF Busy
    <3> QED
      BY <3>1, <3>2, OneActs
  <2>4. row /\ node \notin cleaned' => node \in data'
    BY <1>3 DEF FilesSafe
  <2> QED
    BY <2>2, <2>3, <2>4 DEF FilesSafe
<1> QED
  BY <1>2, <1>3 DEF DeleteCall

\* The steps of a migration (MigrateServer).
LEMMA FilesMigrate ==
    ASSUME IInv, FilesSafe, NEW w \in Workers, MigrateArchive(w) \/ MigrateImport(w) \/ MigratePoint(w)
    PROVE  FilesSafe'
<1>0. work[w].at \in {"archive", "import", "point"} /\ mode' = mode /\ prov' = prov /\ row' = row
        /\ cleaned \subseteq cleaned' \cup data'
  BY DEF MigrateArchive, MigrateImport, MigratePoint, bounds, rowVars, diskVars
<1>1. DiskOK /\ TasksOK /\ work[w].n \in Nodes /\ work[w].m \in Nodes
  BY <1>0, Parts DEF WorkOK
<1> SUFFICES ASSUME OneWorker
             PROVE  /\ \A n \in data' : jar'[n] \/ bak'[n]
                    /\ row /\ node' \notin cleaned => node' \in data'
                    /\ \A v \in Workers :
                          /\ work'[v].at = "import" => work'[v].zip # {}
                          /\ work'[v].at = "point" => work'[v].m \in data'
                          /\ prov[v].at = "drop" /\ prov[v].n \in data' => jar'[prov[v].n]
  BY <1>0 DEF FilesSafe, OneWorker
<1>2. ASSUME NEW v \in Workers
      PROVE  (v # w => work[v].at = "idle") /\ prov[v].at = "none"
  <2>1. Busy(w) /\ prov[w].at = "none"
    BY <1>0, <1>1 DEF Busy, TasksOK
  <2>2. v # w => ~Busy(v)
    BY <2>1, OneActs
  <2> QED
    BY <2>1, <2>2 DEF Busy
<1>3. CASE MigrateArchive(w)
  <2>1. UNCHANGED <<jar, bak, data, cleaned, node>>
    BY <1>3 DEF MigrateArchive, diskVars, rowVars
  <2>2. CASE Go(w, "idle")
    BY <1>2, <2>1, <2>2, GoFacts, PointNames DEF FilesSafe
  <2>3. CASE /\ work[w].n \in data
             /\ work' = [work EXCEPT ![w].at = "import", ![w].zip =
                      {f \in {"jar", "bak"} : IF f = "jar" THEN jar[work[w].n] ELSE bak[work[w].n]}]
    <3>1. PICK z : z = {f \in {"jar", "bak"} : IF f = "jar" THEN jar[work[w].n] ELSE bak[work[w].n]}
      OBVIOUS
    <3>2. z \in SUBSET {"jar", "bak"} /\ z # {}
      BY <2>3, <3>1 DEF FilesSafe
    <3>3. work' = [work EXCEPT ![w].at = "import", ![w].zip = z] /\ work[w].at = "archive"
      BY <1>3, <2>3, <3>1 DEF MigrateArchive
    <3>4. /\ \A v \in Workers : v # w => work'[v] = work[v]
          /\ work'[w].at = "import" /\ work'[w].zip = z
      BY <3>2, <3>3, ArchiveTaken
    <3> QED
      BY <1>2, <2>1, <3>2, <3>4 DEF FilesSafe
  <2> QED
    BY <1>3, <2>2, <2>3 DEF MigrateArchive
<1>4. CASE MigrateImport(w)
  <2>1. node' = node /\ work[w].at = "import" /\ work[w].zip # {} /\ work[w].zip \subseteq {"jar", "bak"}
    BY <1>4, Parts DEF MigrateImport, rowVars, FilesSafe, WorkOK, Worker
  <2>2. CASE UNCHANGED <<data, jar, bak>> /\ Go(w, "idle")
    BY <1>2, <2>1, <2>2, GoFacts, PointNames DEF FilesSafe
  <2>3. CASE /\ data' = data \cup {work[w].m}
             /\ jar' = [jar EXCEPT ![work[w].m] = @ \/ "jar" \in work[w].zip]
             /\ bak' = [bak EXCEPT ![work[w].m] = @ \/ "bak" \in work[w].zip]
    <3>1. "jar" \in work[w].zip \/ "bak" \in work[w].zip
      BY <2>1
    <3>2. \A n \in data' : jar'[n] \/ bak'[n]
      <4>1. \A n \in data : jar[n] \/ bak[n]
        BY DEF FilesSafe
      <4>2. jar \in [Nodes -> BOOLEAN] /\ bak \in [Nodes -> BOOLEAN] /\ data \subseteq Nodes
        BY <1>1 DEF DiskOK
      <4>3. \A n \in Nodes : jar'[n] = (IF n = work[w].m THEN jar[n] \/ "jar" \in work[w].zip ELSE jar[n])
        BY <2>3, <4>2
      <4>4. \A n \in Nodes : bak'[n] = (IF n = work[w].m THEN bak[n] \/ "bak" \in work[w].zip ELSE bak[n])
        BY <2>3, <4>2
      <4>5. work[w].m \in Nodes
        BY <2>1, Parts DEF WorkOK
      <4> QED
        BY <2>3, <3>1, <4>1, <4>2, <4>3, <4>4, <4>5
    <3>3. row /\ node' \notin cleaned => node' \in data'
      BY <2>1, <2>3 DEF FilesSafe
    <3>4. PICK k \in {"point", "idle"} : Go(w, k)
      BY <1>4 DEF MigrateImport
    <3>5. work'[w].at = k /\ (k = "point" => work'[w].m = work[w].m) /\ \A v \in Workers : v # w => work'[v] = work[v]
      BY <3>4, GoFacts, PointNames
    <3> QED
      BY <1>2, <2>3, <3>2, <3>3, <3>5
  <2> QED
    BY <1>4, <2>2, <2>3 DEF MigrateImport, diskVars
<1>5. CASE MigratePoint(w)
  <2>1. work[w].m \in data /\ UNCHANGED <<jar, bak, data>> /\ node' = (IF row THEN work[w].m ELSE node) /\ Go(w, "idle")
    BY <1>5 DEF MigratePoint, diskVars, FilesSafe
  <2>2. \A v \in Workers : work'[v].at = "idle"
    BY <1>2, <2>1, GoFacts, PointNames
  <2> QED
    BY <1>2, <2>1, <2>2 DEF FilesSafe
<1> QED
  BY <1>3, <1>4, <1>5

\* Provisioning sets the binaries aside, places new ones and drops or restores the copy
\* (set_aside_server_binaries, finish_reinstall).
LEMMA FilesProvision ==
    ASSUME IInv, FilesSafe, NEW w \in Workers, ProvisionStep(w)
    PROVE  FilesSafe'
<1>0. /\ prov[w].at # "none" /\ UNCHANGED <<row, node, work, mode>>
      /\ cleaned \subseteq cleaned' \cup data'
  BY DEF ProvisionStep, ProvisionBegin, SetAside, ProvisionFetch, ProvisionFinish, DropAside, rowVars, bounds
<1>1. DiskOK /\ prov[w].n \in Nodes /\ prov \in [Workers -> Provision]
  BY <1>0, Parts DEF ProvOK
<1> SUFFICES ASSUME OneWorker
             PROVE  /\ \A n \in data' : jar'[n] \/ bak'[n]
                    /\ row /\ node \notin cleaned => node \in data'
                    /\ \A v \in Workers :
                          /\ work[v].at = "import" => work[v].zip # {}
                          /\ work[v].at = "point" => work[v].m \in data'
                          /\ prov'[v].at = "drop" /\ prov'[v].n \in data' => jar'[prov'[v].n]
  BY <1>0 DEF FilesSafe, OneWorker
<1>2. ASSUME NEW v \in Workers, v # w
      PROVE  work[v].at = "idle" /\ prov[v].at = "none"
  <2>1. Busy(w)
    BY <1>0 DEF Busy
  <2> QED
    BY <1>2, <2>1, OneActs DEF Busy
<1>4. CASE ProvisionBegin(w)
  <2>1. jar' = jar /\ data' = data /\ \A v \in Workers : prov'[v].at = "drop" => prov'[v] = prov[v]
    <3>1. PICK k \in {"rename", "fetch"} : prov' = [prov EXCEPT ![w].at = k]
      BY <1>4 DEF ProvisionBegin
    <3>2. jar' = jar /\ data' = data
      BY <1>4 DEF ProvisionBegin
    <3> QED
      BY <1>1, <3>1, <3>2 DEF Provision
  <2>2. \A n \in Nodes : bak'[n] = bak[n] \/ jar[n]
    BY <1>1, <1>4 DEF ProvisionBegin, DiskOK
  <2> QED
    BY <1>1, <2>1, <2>2 DEF FilesSafe, DiskOK
<1>5. CASE SetAside(w)
  <2>1. data' = data /\ \A v \in Workers : prov'[v].at # "drop"
    <3>1. prov'[w].at = "fetch" /\ \A v \in Workers : v # w => prov'[v] = prov[v]
      BY <1>1, <1>5 DEF SetAside, Provision
    <3>2. data' = data
      BY <1>5 DEF SetAside
    <3> QED
      BY <1>2, <3>1, <3>2
  <2>2. \A n \in Nodes : jar[n] \/ bak[n] => jar'[n] \/ bak'[n]
    BY <1>1, <1>5 DEF SetAside, DiskOK
  <2> QED
    BY <1>1, <2>1, <2>2 DEF FilesSafe, DiskOK
<1>6. CASE ProvisionFetch(w)
  <2>1. bak' = bak /\ \A v \in Workers : prov'[v].at = "drop" => prov'[v] = prov[v]
    BY <1>1, <1>6 DEF ProvisionFetch, Provision
  <2>2. \/ jar' = [jar EXCEPT ![prov[w].n] = TRUE] /\ data' = data \cup {prov[w].n}
        \/ UNCHANGED <<jar, data>>
    BY <1>6 DEF ProvisionFetch
  <2>3. data \subseteq data' /\ \A n \in Nodes : (jar[n] => jar'[n]) /\ (n \in data' \ data => jar'[n])
    BY <1>1, <2>2 DEF DiskOK
  <2>4. data' \subseteq Nodes
    BY <1>1, <2>2 DEF DiskOK
  <2>5. \A n \in data' : jar'[n] \/ bak'[n]
    BY <2>1, <2>3, <2>4 DEF FilesSafe
  <2>6. ASSUME NEW v \in Workers, prov'[v].at = "drop", prov'[v].n \in data'
        PROVE  jar'[prov'[v].n]
    <3>1. prov[v].at = "drop" /\ prov'[v] = prov[v] /\ prov[v].n \in Nodes
      BY <2>1, <2>4, <2>6
    <3> QED
      BY <2>3, <2>6, <3>1 DEF FilesSafe
  <2> QED
    BY <2>3, <2>5, <2>6 DEF FilesSafe
<1>7. CASE ProvisionFinish(w)
  <2>1. data' = data
    BY <1>7 DEF ProvisionFinish
  <2>2. CASE prov[w].aside /\ jar[prov[w].n]
    <3>1. UNCHANGED <<jar, bak>> /\ prov' = [prov EXCEPT ![w].at = "drop"]
      BY <1>7, <2>2 DEF ProvisionFinish
    <3>2. prov'[w].n = prov[w].n /\ \A v \in Workers : v # w => prov'[v] = prov[v]
      BY <1>1, <3>1 DEF Provision
    <3> QED
      BY <2>1, <2>2, <3>1, <3>2 DEF FilesSafe
  <2>3. CASE ~(prov[w].aside /\ jar[prov[w].n])
    <3>1. /\ prov' = [prov EXCEPT ![w] = NoProvision]
          /\ jar' = IF prov[w].aside THEN [jar EXCEPT ![prov[w].n] = bak[prov[w].n]] ELSE jar
          /\ bak' = IF prov[w].aside THEN [bak EXCEPT ![prov[w].n] = FALSE] ELSE bak
      BY <1>7, <2>3 DEF ProvisionFinish
    <3>2. \A v \in Workers : prov'[v].at # "drop"
      BY <1>1, <1>2, <3>1 DEF NoProvision
    <3>3. \A n \in Nodes : jar[n] \/ bak[n] => jar'[n] \/ bak'[n]
      BY <1>1, <2>3, <3>1 DEF DiskOK
    <3> QED
      BY <1>1, <2>1, <3>2, <3>3 DEF FilesSafe, DiskOK
  <2> QED
    BY <2>2, <2>3
<1>8. CASE DropAside(w)
  <2>1. /\ prov' = [prov EXCEPT ![w] = NoProvision] /\ jar' = jar /\ data' = data
        /\ bak' = [bak EXCEPT ![prov[w].n] = FALSE] /\ prov[w].at = "drop"
    BY <1>8 DEF DropAside
  <2>2. \A v \in Workers : prov'[v].at # "drop"
    BY <1>1, <1>2, <2>1 DEF NoProvision
  <2>3. \A n \in data : jar'[n] \/ bak'[n]
    BY <1>1, <2>1 DEF FilesSafe, DiskOK
  <2> QED
    BY <2>1, <2>2, <2>3 DEF FilesSafe
<1> QED
  BY <1>4, <1>5, <1>6, <1>7, <1>8 DEF ProvisionStep

\* Reports and daemons leave the files alone.
LEMMA FilesReport ==
    ASSUME IInv, FilesSafe, NEW x \in Nodes \cup Workers, ReportStep(x) \/ ReportLost(x)
    PROVE  FilesSafe'
<1>1. UNCHANGED <<jar, bak, data, cleaned, node, mode, row, work>>
  <2>1. CASE ReportCheck(x)
    BY <2>1 DEF ReportCheck, AfterReport, rowVars, diskVars, bounds
  <2>2. CASE ReportApply(x)
    BY <2>2 DEF ReportApply, AfterReport, SetDb, diskVars, bounds
  <2>3. CASE ReportLost(x)
    BY <2>3 DEF ReportLost, AfterReport, rowVars, diskVars, bounds
  <2> QED
    BY <2>1, <2>2, <2>3 DEF ReportStep
<1>2. \A v \in Workers : prov'[v].at = "drop" => prov'[v] = prov[v]
  <2>1. prov' = prov \/ (x \in Workers /\ prov' = [prov EXCEPT ![x].at = "finish"])
    BY DEF ReportStep, ReportCheck, ReportApply, ReportLost, AfterReport
  <2>2. prov \in [Workers -> Provision]
    BY DEF IInv, TypeOK
  <2> QED
    BY <2>1, <2>2 DEF Provision
<1> QED
  BY <1>1, <1>2, FilesFrame

LEMMA FilesNode ==
    ASSUME IInv, FilesSafe, NEW n \in Nodes, NodeStep(n) \/ PlayerJoins(n) \/ DaemonDies(n)
    PROVE  FilesSafe'
<1>1. UNCHANGED <<jar, bak, data, cleaned, node, mode, row, work>>
  BY DEF NodeStep, ProcessMoves, WatcherReports, RestartFires, JoinArrives, DaemonBoots, PlayerJoins, DaemonDies,
         SetDb, rowVars, diskVars, bounds
<1>2. \A v \in Workers : prov'[v].at = "drop" => prov'[v] = prov[v]
  <2>1. prov' = prov \/ prov' = [w \in Workers |-> IF prov[w].n = n THEN NoProvision ELSE prov[w]]
    BY DEF NodeStep, ProcessMoves, WatcherReports, RestartFires, JoinArrives, DaemonBoots, PlayerJoins, DaemonDies
  <2> QED
    BY <2>1 DEF NoProvision
<1> QED
  BY <1>1, <1>2, FilesFrame

\* Binaries or their copy are beside the data, and the row points to the data, through
\* every step of a reinstall, a delete and a migration, with losses and deaths.
THEOREM FilesSafeAlways == Spec => []FilesSafe
<1>1. Init => FilesSafe
  <2> SUFFICES ASSUME Init PROVE FilesSafe
    OBVIOUS
  <2>1. data = {node} /\ \A n \in data : jar[n]
    BY DEF Init
  <2>2. \A w \in Workers : work[w].at = "idle" /\ prov[w].at = "none"
    BY DEF Init, Idle, NoProvision
  <2> QED
    BY <2>1, <2>2 DEF FilesSafe
<1>2. IInv /\ FilesSafe /\ [Next]_vars => FilesSafe'
  <2> SUFFICES ASSUME IInv, FilesSafe, [Next]_vars
               PROVE  FilesSafe'
    OBVIOUS
  <2>1. CASE UNCHANGED vars
    BY <2>1, FilesStay DEF vars, bounds
  <2>2. ASSUME NEW w \in Workers, WorkerStep(w)
        PROVE  FilesSafe'
    BY <2>2, FilesPower, FilesDelete, FilesMigrate DEF WorkerStep
  <2> QED
    BY <2>1, <2>2, FilesRequest, FilesProvision, FilesReport, FilesNode DEF Next
<1> QED
  BY <1>1, <1>2, Inductive, PTL DEF Spec

\* No reinstall and no migration that fails half way leaves a server without files
\* (FilesKept), for goroutines that come one after the other.
THEOREM FilesStayKept == Spec => []FilesKept
<1>1. FilesSafe => FilesKept
  BY DEF FilesSafe, FilesKept, BinariesKept, MigrationKeepsData
<1> QED
  BY <1>1, FilesSafeAlways, PTL
=============================================================================
