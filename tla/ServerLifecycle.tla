--------------------------- MODULE ServerLifecycle ---------------------------
(***************************************************************************)
(* The life of one server as the panel sees it: the power, reinstall,      *)
(* delete and migrate handlers of services/api/internal/handlers/          *)
(* servers.go, the status column they share with the daemons' reports, and *)
(* what the daemons do behind them (provisioning, process, status watcher, *)
(* automatic restart).                                                     *)
(*                                                                         *)
(* Every API goroutine is a worker; a step is one statement sent to        *)
(* PostgreSQL or one call to a daemon.  A call may be lost, with or        *)
(* without its effect.  A daemon is one state machine per node here; the   *)
(* races inside it are the subject of ProcessManager.                      *)
(***************************************************************************)
EXTENDS Naturals

CONSTANTS
    Nodes,
    Workers,       \* API goroutines
    None,
    Requests,      \* operations that are asked for
    Modes          \* the circumstances to look at, see Mode

ASSUME NameAssumption == Nodes # {} /\ None \notin Nodes /\ Nodes \cap Workers = {}
ASSUME RequestAssumption ==
    Requests \subseteq {"start", "stop", "restart", "kill", "reinstall", "delete", "migrate", "join"}

\* Circumstances: requests wait until everything has come to rest, API goroutines
\* that run at the same time, servers.auto_restart, panel and daemon are configured
\* for development, what may be lost although both sides are up, and the bounds:
\* exits of the process on its own, restarts of a daemon, requests.
Mode == [patient : BOOLEAN, workers : SUBSET Workers, auto : BOOLEAN, dev : BOOLEAN,
         lost : SUBSET {"call", "report"}, exits : Nat, deaths : Nat, requests : Nat]
ASSUME ModeAssumption == Modes \subseteq Mode

VARIABLES
    \* table servers: the row exists, status, node_id, last_exit_code is set;
    \* player_sessions: one is open
    row, db, node, exitCode, session,
    work,      \* what each API goroutine is doing, see Worker
    \* each daemon: it runs, status of the registered process, last status the
    \* watcher has taken, a pending automatic restart, a join in the log relay
    up, reg, told, pend, joined,
    \* each node: HytaleServer.jar, its .pre-reinstall copy, the server's data
    jar, bak, data,
    prov,      \* the provisioning task a worker has asked for, see Provision
    rep,       \* the report a watcher or a task is sending, see Report
    \* bounds, and history: nodes where a delete has removed the data and nothing
    \* has put it back
    exits, deaths, asked, cleaned,
    mode       \* the circumstances, which never change

rowVars == <<row, db, node, exitCode, session>>
daemonVars == <<up, reg, told, pend, joined>>
diskVars == <<jar, bak, data, cleaned>>
bounds == <<exits, deaths, asked, mode>>
vars == <<rowVars, work, daemonVars, diskVars, prov, rep, bounds>>

Statuses == {"installing", "stopped", "starting", "running", "stopping", "crashed"}
Down == {"stopped", "crashed"}
Points == {"idle", "startSet", "startInstall", "provision", "poll", "startAgain", "start",
           "crash", "stop", "restart", "restartWait", "kill", "reinstallSet", "reinstall",
           "delete", "deleteRow", "archive", "import", "point"}

\* A goroutine: where it is, the node it has read; a migration's target and the
\* binaries in its archive.
Worker == [at : Points, n : Nodes \cup {None}, m : Nodes \cup {None}, zip : SUBSET {"jar", "bak"}]
Idle == [at |-> "idle", n |-> None, m |-> None, zip |-> {}]

\* A provisioning task: where it is, its node, reinstall, binaries set aside.
Provision == [at : {"none", "begin", "rename", "fetch", "report", "finish", "drop"}, n : Nodes \cup {None},
              re : BOOLEAN, aside : BOOLEAN]
NoProvision == [at |-> "none", n |-> None, re |-> FALSE, aside |-> FALSE]

\* A report in flight: sent, or past the API's ownership check.
Report == [at : {"none", "sent", "checked"}, n : Nodes \cup {None},
           v : Statuses \cup {"none"}, code : BOOLEAN]
NoReport == [at |-> "none", n |-> None, v |-> "none", code |-> FALSE]
Sent(n, v, code) == [at |-> "sent", n |-> n, v |-> v, code |-> code]

\* The state after CreateServer and its provisioning.
Init ==
    /\ mode \in Modes
    /\ row = TRUE /\ db = "stopped" /\ exitCode = FALSE /\ session = FALSE
    /\ node \in Nodes
    /\ work = [w \in Workers |-> Idle]
    /\ up = [n \in Nodes |-> TRUE]
    /\ reg = [n \in Nodes |-> "none"] /\ told = [n \in Nodes |-> "none"]
    /\ pend = [n \in Nodes |-> FALSE] /\ joined = [n \in Nodes |-> FALSE]
    /\ jar = [n \in Nodes |-> n = node] /\ bak = [n \in Nodes |-> FALSE]
    /\ data = {node} /\ cleaned = {}
    /\ prov = [w \in Workers |-> NoProvision]
    /\ rep = [x \in Nodes \cup Workers |-> NoReport]
    /\ exits = 0 /\ deaths = 0 /\ asked = 0

Go(w, k) == work' = [work EXCEPT ![w] = IF k = "idle" THEN Idle ELSE [@ EXCEPT !.at = k]]

\* A daemon call of goroutine w has failed: crashed is written next, unless the
\* call has used up the context that the write also needs.
Fail(w, shared) == Go(w, "crash") \/ (shared /\ "call" \in mode.lost /\ Go(w, "idle"))

\* UpdateServerStatus: nothing without the row; a server that is down has
\* nobody online.
SetDb(v) ==
    /\ db' = IF row THEN v ELSE db
    /\ session' = IF row /\ v \in Down THEN FALSE ELSE session
    /\ UNCHANGED <<row, node>>

\* A goroutine's step that writes the status and goes on at k.
Write(w, v, k) ==
    /\ SetDb(v)
    /\ Go(w, k)
    /\ UNCHANGED <<exitCode, daemonVars, diskVars, prov, rep, bounds>>

\* Nothing is under way in the panel or in a daemon.
Quiet ==
    /\ \A w \in Workers : work[w].at = "idle" /\ prov[w].at = "none"
    /\ \A x \in Nodes \cup Workers : rep[x].at = "none"
    /\ \A n \in Nodes : up[n] /\ ~pend[n] /\ (reg[n] = "none" \/ (reg[n] = "running" /\ told[n] = "running"))

\* A request arrives at a free goroutine and finds the row; it goes on at k.
Begin(w, kind, k, m) ==
    /\ kind \in Requests /\ w \in mode.workers
    /\ asked < mode.requests /\ asked' = asked + 1
    /\ work[w].at = "idle" /\ prov[w].at = "none" /\ rep[w].at = "none"
    /\ mode.patient => Quiet
    /\ row
    /\ work' = [work EXCEPT ![w] = [at |-> k, n |-> node, m |-> m, zip |-> {}]]
    /\ UNCHANGED <<daemonVars, diskVars, prov, rep, exits, deaths, mode>>

-----------------------------------------------------------------------------
(* StartServer and dispatchStart *)

StartCheck(w) ==
    /\ Begin(w, "start", "startSet", None)
    /\ db \notin {"running", "starting"}
    /\ UNCHANGED rowVars

StartSet(w) == work[w].at = "startSet" /\ Write(w, "starting", "startInstall")

\* No client for the node, or on to the provisioning.
StartInstall(w) ==
    /\ work[w].at = "startInstall"
    /\ \/ Write(w, "crashed", "idle")
       \/ Write(w, "installing", "provision")

\* ProvisionServer (re = FALSE) or ReinstallServer: the daemon spawns the task,
\* but refuses to reinstall under a registered process.
Accepts(n, re) == up[n] /\ (re => reg[n] = "none")
AskProvision(w, re, k) ==
    /\ \/ /\ Accepts(work[w].n, re)
          /\ prov' = [prov EXCEPT ![w] =
                [at |-> "begin", n |-> work[w].n, re |-> re, aside |-> FALSE]]
          /\ Go(w, k) \/ ("call" \in mode.lost /\ Fail(w, re))
       \/ /\ "call" \in mode.lost \/ ~Accepts(work[w].n, re)
          /\ prov' = prov /\ Fail(w, re)
    /\ UNCHANGED <<rowVars, daemonVars, diskVars, rep, bounds>>

ProvisionCall(w) == work[w].at = "provision" /\ AskProvision(w, FALSE, "poll")

\* Mutant: the polling loop has no deadline.
PollForever(w) ==
    /\ work[w].at = "poll"
    /\ row /\ db \in Down
    /\ Go(w, IF db = "crashed" THEN "idle" ELSE "startAgain")
    /\ UNCHANGED <<rowVars, daemonVars, diskVars, prov, rep, bounds>>

\* The status is polled until it is crashed or stopped, or ten minutes are over.
Poll(w) ==
    /\ work[w].at = "poll"
    /\ \/ row /\ db \in Down /\ Go(w, IF db = "crashed" THEN "idle" ELSE "startAgain")
       \/ Go(w, "crash")
    /\ UNCHANGED <<rowVars, daemonVars, diskVars, prov, rep, bounds>>

StartAgain(w) == work[w].at = "startAgain" /\ Write(w, "starting", "start")

SetCrashed(w) == work[w].at = "crash" /\ Write(w, "crashed", "idle")

\* The daemon's start_server on n: cancels a pending restart, refuses a second
\* process, needs the JAR.
CanStart(n) == reg[n] = "none" /\ jar[n]
DaemonStart(n) ==
    /\ pend' = [pend EXCEPT ![n] = FALSE]
    /\ reg' = IF CanStart(n) THEN [reg EXCEPT ![n] = "starting"] ELSE reg
    /\ told' = IF CanStart(n) THEN [told EXCEPT ![n] = "none"] ELSE told
    /\ UNCHANGED <<up, joined>>

StartCall(w) ==
    /\ work[w].at = "start"
    /\ \/ /\ up[work[w].n]
          /\ DaemonStart(work[w].n)
          /\ \/ CanStart(work[w].n) /\ Go(w, "idle")
             \/ ("call" \in mode.lost \/ ~CanStart(work[w].n)) /\ Fail(w, TRUE)
       \/ ("call" \in mode.lost \/ ~up[work[w].n]) /\ UNCHANGED daemonVars /\ Fail(w, TRUE)
    /\ UNCHANGED <<rowVars, diskVars, prov, rep, bounds>>

-----------------------------------------------------------------------------
(* StopServer, RestartServer, KillServer, ReinstallServer *)

\* Handlers without a condition on the status: they write v and dispatch.
Power(w, kind, v) ==
    /\ Begin(w, kind, kind, None)
    /\ SetDb(v)
    /\ UNCHANGED exitCode

StopRequest(w) == Power(w, "stop", "stopping")
RestartRequest(w) == Power(w, "restart", "stopping")
KillRequest(w) == Power(w, "kill", "stopped")

\* stop_server (v = stopping: the process ends later) and kill_server (v =
\* stopped) on n; without a process a pending restart is cancelled and reported.
DaemonStop(w, n, v) ==
    IF reg[n] # "none"
    THEN /\ reg' = IF reg[n] \in Down THEN reg ELSE [reg EXCEPT ![n] = v]
         /\ UNCHANGED <<up, told, pend, joined, rep>>
    ELSE /\ pend' = [pend EXCEPT ![n] = FALSE]
         /\ rep' = IF pend[n] THEN [rep EXCEPT ![w] = Sent(n, "stopped", FALSE)] ELSE rep
         /\ UNCHANGED <<up, reg, told, joined>>

\* The call is made, or fails; either way only the log knows.
StopCall(w) ==
    /\ work[w].at \in {"stop", "kill"}
    /\ \/ /\ up[work[w].n]
          /\ DaemonStop(w, work[w].n, IF work[w].at = "stop" THEN "stopping" ELSE "stopped")
       \/ ("call" \in mode.lost \/ ~up[work[w].n]) /\ UNCHANGED <<daemonVars, rep>>
    /\ Go(w, "idle")
    /\ UNCHANGED <<rowVars, diskVars, prov, bounds>>

\* restart_server: a pending restart is replaced by a start; a process is
\* stopped first and the call waits.  Without a client nothing is written.
RestartCall(w) ==
    LET n == work[w].n IN
    /\ work[w].at = "restart"
    /\ \/ /\ up[n] /\ reg[n] = "none" /\ pend[n]
          /\ DaemonStart(n)
          /\ Go(w, IF CanStart(n) THEN "idle" ELSE "crash")
       \/ /\ up[n] /\ reg[n] # "none"
          /\ reg' = IF reg[n] \in Down THEN reg ELSE [reg EXCEPT ![n] = "stopping"]
          /\ Go(w, "restartWait")
          /\ UNCHANGED <<up, told, pend, joined>>
       \/ /\ "call" \in mode.lost \/ ~up[n] \/ (reg[n] = "none" /\ ~pend[n])
          /\ Go(w, "crash") \/ ("call" \in mode.lost /\ Go(w, "idle"))
          /\ UNCHANGED daemonVars
    /\ UNCHANGED <<rowVars, diskVars, prov, rep, bounds>>

\* The old process is gone and start_server follows, or the call times out.
RestartContinue(w) ==
    LET n == work[w].n IN
    /\ work[w].at = "restartWait"
    /\ \/ /\ up[n] /\ reg[n] = "none"
          /\ DaemonStart(n)
          /\ Go(w, IF CanStart(n) THEN "idle" ELSE "crash")
       \/ Go(w, "crash") /\ UNCHANGED daemonVars
    /\ UNCHANGED <<rowVars, diskVars, prov, rep, bounds>>

ReinstallCheck(w) ==
    /\ Begin(w, "reinstall", "reinstallSet", None)
    /\ db \in Down
    /\ UNCHANGED rowVars

ReinstallSet(w) == work[w].at = "reinstallSet" /\ Write(w, "installing", "reinstall")
ReinstallCall(w) == work[w].at = "reinstall" /\ AskProvision(w, TRUE, "idle")

-----------------------------------------------------------------------------
(* DeleteServer, MigrateServer *)

DeleteRequest(w) == Begin(w, "delete", "delete", None) /\ UNCHANGED rowVars

\* delete_server_data: kill, then remove the directory; a failure is a warning.
DeleteCall(w) ==
    LET n == work[w].n IN
    /\ work[w].at = "delete"
    /\ \/ /\ up[n]
          /\ DaemonStop(w, n, "stopped")
          /\ jar' = [jar EXCEPT ![n] = FALSE] /\ bak' = [bak EXCEPT ![n] = FALSE]
          /\ data' = data \ {n} /\ cleaned' = cleaned \cup {n}
       \/ ("call" \in mode.lost \/ ~up[n]) /\ UNCHANGED <<daemonVars, rep, diskVars>>
    /\ Go(w, "deleteRow")
    /\ UNCHANGED <<rowVars, prov, bounds>>

\* The row is deleted, unless the caller, whom a grant of server.delete has let
\* in, is neither admin nor owner, or the statement fails.
DeleteRow(w) ==
    /\ work[w].at = "deleteRow"
    /\ row' \in {FALSE, row}
    /\ Go(w, "idle")
    /\ UNCHANGED <<db, node, exitCode, session, daemonVars, diskVars, prov, rep, bounds>>

\* MigratePreflight
MigrateCheck(w, m) ==
    /\ Begin(w, "migrate", "archive", m)
    /\ db = "stopped" /\ m # node
    /\ UNCHANGED rowVars

\* CreateBackup and DownloadBackup on the source.
MigrateArchive(w) ==
    /\ work[w].at = "archive"
    /\ \/ /\ up[work[w].n] /\ work[w].n \in data
          /\ work' = [work EXCEPT ![w].at = "import", ![w].zip =
                {f \in {"jar", "bak"} : IF f = "jar" THEN jar[work[w].n] ELSE bak[work[w].n]}]
       \/ Go(w, "idle")
    /\ UNCHANGED <<rowVars, daemonVars, diskVars, prov, rep, bounds>>

\* ImportServer on the target: the archive is unpacked there.
MigrateImport(w) ==
    LET m == work[w].m IN
    /\ work[w].at = "import"
    /\ \/ /\ up[m]
          /\ data' = data \cup {m} /\ cleaned' = cleaned \ {m}
          /\ jar' = [jar EXCEPT ![m] = @ \/ "jar" \in work[w].zip]
          /\ bak' = [bak EXCEPT ![m] = @ \/ "bak" \in work[w].zip]
          /\ Go(w, "point") \/ ("call" \in mode.lost /\ Go(w, "idle"))
       \/ UNCHANGED diskVars /\ Go(w, "idle")
    /\ UNCHANGED <<rowVars, daemonVars, prov, rep, bounds>>

\* CompleteMigration
MigratePoint(w) ==
    /\ work[w].at = "point"
    /\ node' = IF row THEN work[w].m ELSE node
    /\ Go(w, "idle")
    /\ UNCHANGED <<row, db, exitCode, session, daemonVars, diskVars, prov, rep, bounds>>

-----------------------------------------------------------------------------
(* The daemon: provisioning *)

\* Mutant: the reinstall deletes the old binaries instead of setting them aside.
SetAsideDeletes(w) ==
    LET n == prov[w].n IN
    /\ prov[w].at = "rename"
    /\ prov' = [prov EXCEPT ![w].at = "fetch"]
    /\ jar' = [jar EXCEPT ![n] = FALSE]
    /\ UNCHANGED <<rowVars, work, daemonVars, bak, data, cleaned, rep, bounds>>

\* set_aside_server_binaries, of a reinstall: a JAR is there, an older copy of
\* it goes ...
ProvisionBegin(w) ==
    LET n == prov[w].n
        aside == prov[w].re /\ jar[n]
    IN
    /\ prov[w].at = "begin"
    /\ prov' = [prov EXCEPT ![w].at = IF aside THEN "rename" ELSE "fetch"]
    /\ bak' = IF aside THEN [bak EXCEPT ![n] = FALSE] ELSE bak
    /\ UNCHANGED <<rowVars, work, daemonVars, jar, data, cleaned, rep, bounds>>

\* ... and the JAR is renamed, if it still is there.
SetAside(w) ==
    LET n == prov[w].n IN
    /\ prov[w].at = "rename"
    /\ prov' = [prov EXCEPT ![w].at = "fetch", ![w].aside = jar[n]]
    /\ jar' = [jar EXCEPT ![n] = FALSE]
    /\ bak' = [bak EXCEPT ![n] = @ \/ jar[n]]
    /\ UNCHANGED <<rowVars, work, daemonVars, data, cleaned, rep, bounds>>

\* Files that are there are kept; otherwise they are placed, or that fails,
\* before or after the JAR is in its place.
ProvisionFetch(w) ==
    LET n == prov[w].n IN
    /\ prov[w].at = "fetch"
    /\ prov' = [prov EXCEPT ![w].at = "report"]
    /\ \E placed \in BOOLEAN, v \in Down :
          /\ v = "stopped" => placed
          /\ jar[n] => v = "stopped"
          /\ rep' = [rep EXCEPT ![w] = Sent(n, v, FALSE)]
          /\ IF placed
             THEN jar' = [jar EXCEPT ![n] = TRUE] /\ data' = data \cup {n} /\ cleaned' = cleaned \ {n}
             ELSE UNCHANGED <<jar, data, cleaned>>
    /\ UNCHANGED <<rowVars, work, daemonVars, bak, bounds>>

\* finish_reinstall, after the report: without a new JAR the old one comes back;
\* with one ...
ProvisionFinish(w) ==
    LET n == prov[w].n IN
    /\ prov[w].at = "finish"
    /\ IF prov[w].aside /\ jar[n]
       THEN prov' = [prov EXCEPT ![w].at = "drop"] /\ UNCHANGED <<jar, bak>>
       ELSE /\ prov' = [prov EXCEPT ![w] = NoProvision]
            /\ jar' = IF prov[w].aside THEN [jar EXCEPT ![n] = bak[n]] ELSE jar
            /\ bak' = IF prov[w].aside THEN [bak EXCEPT ![n] = FALSE] ELSE bak
    /\ UNCHANGED <<rowVars, work, daemonVars, data, cleaned, rep, bounds>>

\* ... the copy is removed.
DropAside(w) ==
    /\ prov[w].at = "drop"
    /\ prov' = [prov EXCEPT ![w] = NoProvision]
    /\ bak' = [bak EXCEPT ![prov[w].n] = FALSE]
    /\ UNCHANGED <<rowVars, work, daemonVars, jar, data, cleaned, rep, bounds>>

-----------------------------------------------------------------------------
(* The daemon: process, status watcher, automatic restart, reports *)

\* The process is ready, or ends: on its own with a crash or a clean exit
\* (bounded), or after a stop.
ProcessMoves(n) ==
    /\ \/ reg[n] = "starting" /\ reg' = [reg EXCEPT ![n] = "running"] /\ exits' = exits
       \/ reg[n] = "stopping" /\ reg' = [reg EXCEPT ![n] = "stopped"] /\ exits' = exits
       \/ /\ reg[n] \in {"starting", "running"} /\ exits < mode.exits
          /\ \E v \in Down : reg' = [reg EXCEPT ![n] = v]
          /\ exits' = exits + 1
    /\ UNCHANGED <<rowVars, work, up, told, pend, joined, diskVars, prov, rep, deaths, asked, mode>>

\* The watcher takes the latest status and reports it.
WatcherReports(n) ==
    /\ reg[n] # "none" /\ told[n] # reg[n] /\ rep[n].at = "none"
    /\ told' = [told EXCEPT ![n] = reg[n]]
    /\ \E code \in BOOLEAN :
          /\ code => reg[n] = "crashed"
          /\ rep' = [rep EXCEPT ![n] = Sent(n, reg[n], code)]
    /\ UNCHANGED <<rowVars, work, up, reg, pend, joined, diskVars, prov, bounds>>

\* What follows a report: a provisioning task finishes; the watcher removes a
\* process that has ended and, after a crash, may schedule a restart.
AfterReport(x) ==
    /\ rep' = [rep EXCEPT ![x] = NoReport]
    /\ prov' = IF x \in Workers /\ prov[x].at = "report"
               THEN [prov EXCEPT ![x].at = "finish"] ELSE prov
    /\ IF x \in Nodes /\ rep[x].v \in Down
       THEN /\ reg' = [reg EXCEPT ![x] = "none"]
            /\ \E p \in BOOLEAN :
                  /\ p => mode.auto /\ rep[x].v = "crashed"
                  /\ pend' = [pend EXCEPT ![x] = p]
       ELSE UNCHANGED <<reg, pend>>
    /\ UNCHANGED <<work, up, told, joined, diskVars, bounds>>

\* daemonOwnsServer: a report for a server that is elsewhere is rejected; a
\* report may also be lost.
ReportCheck(x) ==
    /\ rep[x].at = "sent"
    /\ IF row /\ node = rep[x].n
       THEN /\ rep' = [rep EXCEPT ![x].at = "checked"]
            /\ UNCHANGED <<work, daemonVars, diskVars, prov, bounds>>
       ELSE AfterReport(x)
    /\ UNCHANGED rowVars

ReportLost(x) ==
    /\ "report" \in mode.lost /\ rep[x].at = "sent"
    /\ AfterReport(x)
    /\ UNCHANGED rowVars

\* Mutant: a crash without an exit code is not written.
ReportApplyWithCode(x) ==
    /\ rep[x].at = "checked"
    /\ IF rep[x].v = "crashed" /\ ~rep[x].code THEN UNCHANGED rowVars
       ELSE /\ SetDb(rep[x].v)
            /\ exitCode' = (rep[x].v = "crashed")
    /\ AfterReport(x)

\* DaemonStatusUpdate: the status, then the exit code of a crash is remembered
\* or forgotten.
ReportApply(x) ==
    /\ rep[x].at = "checked"
    /\ SetDb(rep[x].v)
    /\ exitCode' = IF ~row THEN exitCode
                   ELSE IF rep[x].v = "crashed" THEN exitCode \/ rep[x].code
                   ELSE IF rep[x].v \in {"starting", "running", "stopped"} THEN FALSE ELSE exitCode
    /\ AfterReport(x)

\* The restart timer: start_process without the bookkeeping.
RestartFires(n) ==
    /\ pend[n]
    /\ DaemonStart(n)
    /\ UNCHANGED <<rowVars, work, diskVars, prov, rep, bounds>>

\* A player joins; the event travels with the log relay.
PlayerJoins(n) ==
    /\ "join" \in Requests
    /\ reg[n] = "running" /\ ~joined[n]
    /\ joined' = [joined EXCEPT ![n] = TRUE]
    /\ UNCHANGED <<rowVars, work, up, reg, told, pend, diskVars, prov, rep, bounds>>

JoinArrives(n) ==
    /\ joined[n]
    /\ joined' = [joined EXCEPT ![n] = FALSE]
    /\ session' = (session \/ (row /\ node = n))
    /\ UNCHANGED <<row, db, node, exitCode, work, up, reg, told, pend, diskVars, prov, rep, bounds>>

\* The daemon ends, its children, its tasks and the requests it had open (their
\* contexts are cancelled) with it ...
DaemonDies(n) ==
    /\ up[n] /\ deaths < mode.deaths /\ deaths' = deaths + 1
    /\ up' = [up EXCEPT ![n] = FALSE]
    /\ reg' = [reg EXCEPT ![n] = "none"] /\ told' = [told EXCEPT ![n] = "none"]
    /\ pend' = [pend EXCEPT ![n] = FALSE] /\ joined' = [joined EXCEPT ![n] = FALSE]
    /\ prov' = [w \in Workers |-> IF prov[w].n = n THEN NoProvision ELSE prov[w]]
    /\ rep' = [x \in Nodes \cup Workers |-> IF rep[x].n = n THEN NoReport ELSE rep[x]]
    /\ UNCHANGED <<rowVars, work, diskVars, exits, asked, mode>>

\* ... and starts again.  In development it registers itself, which marks its
\* servers stopped and closes their sessions; a failure is a warning.  In
\* production the daemon does not ask and the panel would answer 410.
DaemonBoots(n) ==
    /\ ~up[n]
    /\ up' = [up EXCEPT ![n] = TRUE]
    /\ \/ mode.dev /\ node = n /\ SetDb("stopped")
       \/ (mode.dev /\ node = n => "call" \in mode.lost) /\ UNCHANGED <<row, db, node, session>>
    /\ UNCHANGED <<exitCode, work, reg, told, pend, joined, diskVars, prov, rep, bounds>>

-----------------------------------------------------------------------------
Request(w) ==
    \/ StartCheck(w) \/ StopRequest(w) \/ RestartRequest(w) \/ KillRequest(w)
    \/ ReinstallCheck(w) \/ DeleteRequest(w) \/ \E m \in Nodes : MigrateCheck(w, m)

WorkerStep(w) ==
    \/ StartSet(w) \/ StartInstall(w) \/ ProvisionCall(w) \/ Poll(w) \/ StartAgain(w)
    \/ StartCall(w) \/ SetCrashed(w) \/ StopCall(w) \/ RestartCall(w) \/ RestartContinue(w)
    \/ ReinstallSet(w) \/ ReinstallCall(w) \/ DeleteCall(w) \/ DeleteRow(w)
    \/ MigrateArchive(w) \/ MigrateImport(w) \/ MigratePoint(w)

ProvisionStep(w) ==
    \/ ProvisionBegin(w) \/ SetAside(w) \/ ProvisionFetch(w) \/ ProvisionFinish(w) \/ DropAside(w)
ReportStep(x) == ReportCheck(x) \/ ReportApply(x)
NodeStep(n) == ProcessMoves(n) \/ WatcherReports(n) \/ RestartFires(n) \/ JoinArrives(n) \/ DaemonBoots(n)

Next ==
    \/ \E w \in Workers : Request(w) \/ WorkerStep(w) \/ ProvisionStep(w)
    \/ \E x \in Nodes \cup Workers : ReportStep(x) \/ ReportLost(x)
    \/ \E n \in Nodes : NodeStep(n) \/ PlayerJoins(n) \/ DaemonDies(n)

Spec == Init /\ [][Next]_vars

\* Goroutines, tasks and reports go on (every call has a timeout), a process
\* gets ready or ends (startup watchdog, stop timeout), a daemon is restarted.
\* Requests, exits, joins, losses and deaths are not fair.
Fairness ==
    /\ \A w \in Workers : WF_vars(WorkerStep(w)) /\ WF_vars(ProvisionStep(w))
    /\ \A x \in Nodes \cup Workers : WF_vars(ReportStep(x))
    /\ \A n \in Nodes :
          /\ WF_vars(ProcessMoves(n)) /\ WF_vars(WatcherReports(n))
          /\ WF_vars(RestartFires(n)) /\ WF_vars(DaemonBoots(n))

FairSpec == Spec /\ Fairness

-----------------------------------------------------------------------------
(* Properties that hold *)

\* Every variable has its type; a daemon that is down has no process, no
\* pending restart and no report on its way (stop_all in manager.rs).
TypeOK ==
    /\ row \in BOOLEAN /\ db \in Statuses /\ node \in Nodes
    /\ exitCode \in BOOLEAN /\ session \in BOOLEAN
    /\ work \in [Workers -> Worker]
    /\ up \in [Nodes -> BOOLEAN]
    /\ reg \in [Nodes -> Statuses \cup {"none"}] /\ told \in [Nodes -> Statuses \cup {"none"}]
    /\ pend \in [Nodes -> BOOLEAN] /\ joined \in [Nodes -> BOOLEAN]
    /\ jar \in [Nodes -> BOOLEAN] /\ bak \in [Nodes -> BOOLEAN]
    /\ data \subseteq Nodes /\ cleaned \subseteq Nodes
    /\ prov \in [Workers -> Provision]
    /\ rep \in [Nodes \cup Workers -> Report]
    /\ mode \in Modes
    /\ exits \in 0..mode.exits /\ deaths \in 0..mode.deaths /\ asked \in 0..mode.requests
    /\ \A n \in Nodes : ~up[n] => reg[n] = "none" /\ ~pend[n] /\ rep[n].at = "none"

\* One goroutine at a time.
OneWorker == \A v, w \in mode.workers : v = w

\* A node that holds the server's data holds its binaries, or the copy that a
\* reinstall has set aside, at every moment of a reinstall (set_aside_server_
\* binaries, finish_reinstall); holds of reinstalls that do not overlap.
BinariesKept == OneWorker => \A n \in data : jar[n] \/ bak[n]

\* The server's row never points to a node that does not hold its data, whatever
\* step of a migration fails (MigrateServer, CompleteMigration), except after a
\* delete has removed the data there.
MigrationKeepsData == OneWorker /\ row /\ node \notin cleaned => node \in data

\* Both: no reinstall and no migration that fails half way leaves a server without files.
FilesKept == BinariesKept /\ MigrationKeepsData

\* Requests wait for each other, nothing restarts on its own, nothing is lost and no
\* daemon dies.
Orderly == mode.patient /\ ~mode.auto /\ mode.lost = {} /\ mode.deaths = 0

\* Once everything has come to rest, the status column says running exactly when
\* the server's node has a running process (UpdateServerStatus is called by the
\* handlers, the watcher's reports and the provisioning's reports), and a server
\* that was deleted has left neither process nor files on its node (DeleteServer:
\* "stop the process AND remove the on-disk data directory").  Holds when every
\* request waits until the one before has come to rest, no automatic restart
\* interferes and no call between two sides that are up is lost.
RestAgrees ==
    Orderly /\ Quiet =>
        IF row THEN db = "running" <=> reg[node] = "running"
        ELSE \A n \in cleaned : reg[n] = "none" /\ ~jar[n]

\* A goroutine that has been dispatched comes to its end (the polling loop of
\* dispatchStart, the timeouts of the daemon calls).
DispatchReturns == \A w \in Workers : work[w].at # "idle" ~> work[w].at = "idle"

-----------------------------------------------------------------------------
(* The inductive invariant behind TypeOK. *)

\* Goroutines, tasks and reports that are under way name their nodes; a provisioning
\* task is left behind only by a start or a reinstall.
Addressed ==
    /\ \A w \in Workers :
          /\ work[w].at # "idle" => work[w].n \in Nodes
          /\ work[w].at \in {"archive", "import", "point"} => work[w].m \in Nodes
          /\ prov[w].at # "none" => prov[w].n \in Nodes /\ work[w].at \in {"idle", "crash", "poll", "startAgain", "start"}
          /\ w \notin mode.workers => work[w].at = "idle" /\ prov[w].at = "none"
    /\ \A x \in Nodes \cup Workers : rep[x].at # "none" => rep[x].n \in Nodes /\ rep[x].v \in Statuses
    /\ \A n \in Nodes : rep[n].at # "none" => rep[n].n = n

IInv == TypeOK /\ Addressed

-----------------------------------------------------------------------------
(* What FilesKept rests on. *)

\* A migration's archive is not empty, and what it unpacked is still there when the row
\* is pointed to it; the copy is dropped only beside the new binaries.
FilesSafe ==
    OneWorker =>
        /\ \A n \in data : jar[n] \/ bak[n]
        /\ row /\ node \notin cleaned => node \in data
        /\ \A w \in Workers :
              /\ work[w].at = "import" => work[w].zip # {}
              /\ work[w].at = "point" => work[w].m \in data
              /\ prov[w].at = "drop" /\ prov[w].n \in data => jar[prov[w].n]

-----------------------------------------------------------------------------
(* What the repository says, and what does not hold *)

\* StartServer refuses a server that is "already running or starting": no two
\* goroutines are between the check and the daemon's start call.
OneStartAtATime ==
    \A v, w \in Workers :
        (\A u \in {v, w} : work[u].at \in {"startInstall", "provision", "poll", "startAgain", "start"})
            => v = w

\* dispatchStart: "Wait for the daemon to report back that provisioning is
\* done": the start call follows the end of the goroutine's own provisioning.
StartAfterProvision ==
    \A w \in Workers : work[w].at = "start" => prov[w].at \notin {"begin", "rename", "fetch"}

\* ReinstallServer: "The server must be down" while its binaries are replaced.
ReinstallNeedsDown ==
    \A w \in Workers :
        prov[w].re /\ prov[w].at \in {"begin", "rename", "fetch"}
            => reg[prov[w].n] \notin {"starting", "running"}

\* MigratePreflight: "The server must be stopped before migration can be
\* requested": no process runs on the source while it is archived.
MigrateNeedsStopped ==
    \A w \in Workers : work[w].at = "archive" => reg[work[w].n] \notin {"starting", "running"}

\* DeleteServer: "Callers must hold at least admin role or be the server owner":
\* a delete that is refused leaves the files alone.
RefusedDeleteKeepsFiles == OneWorker /\ Quiet /\ row => node \notin cleaned

\* UpdateServerStatus: "Nobody is online on a server that is down."
NobodyOnlineWhenDown == row /\ db \in Down => ~session

\* dispatchStart, after a failed start call: "Daemon reports status back ... DB
\* updated there": no server stays in starting, even if nothing is lost.
StartSettles == (row /\ db = "starting" /\ mode.lost = {}) ~> (~row \/ db # "starting")
=============================================================================
