--------------------------- MODULE ProcessManager ---------------------------
(***************************************************************************)
(* The daemon's process manager: services/daemon/src/process/manager.rs    *)
(* (registry, status watchers, auto restart) together with the child       *)
(* processes it owns, services/daemon/src/process/hytale.rs (start, stop,  *)
(* kill, exit watcher, startup watchdog).                                  *)
(*                                                                         *)
(* Granularity.  The daemon runs on tokio's multi-threaded runtime.  A     *)
(* step of the model runs from one await to the next; where a task reads   *)
(* or writes shared state and acts on it later without an await in         *)
(* between, and another thread can get in between, these are two steps     *)
(* (registry insert / watcher spawned, registry remove / watcher aborted,  *)
(* ready signal seen / published, stop flag set / announced, ...).         *)
(*                                                                         *)
(* Time is abstract: a timeout, a backoff or a polling period may end at   *)
(* any moment.  SIGKILL is sent in one step and the child dies in another, *)
(* if it does: the code waits 3 s for it and no longer.                    *)
(***************************************************************************)
EXTENDS Naturals, FiniteSets

CONSTANTS
    Servers,            \* server ids of this node
    Procs,              \* HytaleServerProcess objects (bound: starts of a run)
    Tasks,              \* concurrent HTTP handlers / command executions
    None,               \* no process, no server
    Requests,           \* operations that are asked for
    Codes,              \* classes of exit codes a child may end with
    MaxServers,         \* config.resources.max_servers
    MaxRestarts,        \* RestartPolicy.max_restarts
    AutoRestart,        \* RestartPolicy.enabled
    StartupCanTimeOut,  \* a server may miss startup_timeout_s
    WaitCanFail         \* child.wait() may return an error

ASSUME NoneAssumption == None \notin Servers \cup Procs \cup Tasks
ASSUME ActorAssumption == Tasks \cap Procs = {}
ASSUME RequestsAssumption ==
    Requests \subseteq {"start", "stop", "kill", "restart", "stop_all"}
\* ExitStatus::code() by what the code tells apart: 0, 8 or 11, anything else
\* (death by a signal included).
ASSUME CodesAssumption == Codes \subseteq {"zero", "attention", "crash"}
ASSUME LimitAssumption == MaxServers \in Nat /\ MaxRestarts \in Nat
ASSUME FlagAssumption ==
    /\ AutoRestart \in BOOLEAN
    /\ StartupCanTimeOut \in BOOLEAN
    /\ WaitCanFail \in BOOLEAN

VARIABLES
    \* HytaleServerProcess, one per start (hytale.rs)
    owner,      \* the server a process was started for
    status,     \* the watch channel's value
    alive,      \* the OS process exists and has not exited
    sig,        \* SIGKILL was sent to it and it is still alive
    stopReq,    \* stop_requested
    lastExit,   \* last_exit
    reap,       \* the exit-watcher task
    ready,      \* the stdout reader read Starting and a ready line
    dog,        \* the startup watchdog task
    \* ProcessManager (manager.rs)
    processes,  \* registry: server -> process
    handles,    \* status_watcher_handles: server -> watched process
    history,    \* crash_history: crashes in the window
    pending,    \* pending_restarts: server -> process that crashed
    \* status watcher task of each process
    wpc, wval, wnew,
    \* what a handler (a Task) or the restart timer of a crashed process (named
    \* by that process) is doing, and the process it holds
    pc, tgt,
    \* a handler's operation, server, wait_for_status receiver, stop_all list
    op, srv, tnew, todo

procVars == <<owner, status, alive, sig, stopReq, lastExit, reap, ready, dog>>
mgrVars  == <<processes, handles, history, pending>>
watchVars == <<wpc, wval, wnew>>
taskVars == <<pc, tgt, op, srv, tnew, todo>>
vars == <<procVars, mgrVars, watchVars, taskVars>>

Status == {"stopped", "starting", "running", "stopping", "crashed"}
Terminal == {"stopped", "crashed"}

\* ProcessExit: after a stop request, or on its own.
Exits == {"requested", "zero", "attention", "crash"}

\* Who can be inside start_process: a handler, or the restart timer that
\* handle_crash spawned for a crashed process.
Actors == Tasks \cup Procs
Waiting == {"waitStop", "waitKill"}

\* Where an actor can be between two steps.
Points == Waiting \cup {"idle", "fetch", "spawned", "stdin", "force", "poll",
                        "next", "returned", "sleep", "watch", "announce",
                        "cleanup"}

\* A status watcher task that exists.
Watching == {"loop", "report"}

Init ==
    /\ owner = [p \in Procs |-> None]
    /\ status = [p \in Procs |-> "stopped"]
    /\ alive = [p \in Procs |-> FALSE]
    /\ sig = [p \in Procs |-> FALSE]
    /\ stopReq = [p \in Procs |-> FALSE]
    /\ lastExit = [p \in Procs |-> "none"]
    /\ reap = [p \in Procs |-> "off"]
    /\ ready = [p \in Procs |-> FALSE]
    /\ dog = [p \in Procs |-> "off"]
    /\ processes = [s \in Servers |-> None]
    /\ handles = [s \in Servers |-> None]
    /\ history = [s \in Servers |-> 0]
    /\ pending = [s \in Servers |-> None]
    /\ wpc = [p \in Procs |-> "off"]
    /\ wval = [p \in Procs |-> "none"]
    /\ wnew = [p \in Procs |-> FALSE]
    /\ pc = [a \in Actors |-> "idle"]
    /\ tgt = [a \in Actors |-> None]
    /\ op = [t \in Tasks |-> "none"]
    /\ srv = [t \in Tasks |-> None]
    /\ tnew = [t \in Tasks |-> FALSE]
    /\ todo = [t \in Tasks |-> {}]

-----------------------------------------------------------------------------
(* The watch channel: a send replaces the value and wakes every receiver.  *)
(* A receiver sees only the latest value.                                  *)

SetStatus(p, s) ==
    /\ status' = [status EXCEPT ![p] = s]
    /\ wnew' = [wnew EXCEPT ![p] = wpc[p] \in Watching]

\* Receivers made by wait_for_status (the value they subscribed at is seen).
WakeWaiters(p) ==
    tnew' = [t \in Tasks |-> tnew[t] \/ (pc[t] \in Waiting /\ tgt[t] = p)]

-----------------------------------------------------------------------------
(* The child process and the tasks start() spawns for it.                  *)

\* The OS process ends, on its own or of a signal.
Exit(p) ==
    /\ alive[p]
    /\ alive' = [alive EXCEPT ![p] = FALSE]
    /\ sig' = [sig EXCEPT ![p] = FALSE]
    /\ UNCHANGED <<owner, status, stopReq, lastExit, reap, ready, dog>>
    /\ UNCHANGED <<mgrVars, watchVars, taskVars>>

\* Stdout reader, first half: the status is Starting and the line is a ready
\* signal.  (A line still in the pipe is read after the process died.)
ReadySeen(p) ==
    /\ reap[p] # "off"
    /\ ~ready[p]
    /\ status[p] = "starting"
    /\ ready' = [ready EXCEPT ![p] = TRUE]
    /\ UNCHANGED <<owner, status, alive, sig, stopReq, lastExit, reap, dog>>
    /\ UNCHANGED <<mgrVars, watchVars, taskVars>>

\* Stdout reader, second half: publish Running.
ReadyPublish(p) ==
    /\ ready[p]
    /\ ready' = [ready EXCEPT ![p] = FALSE]
    /\ SetStatus(p, "running")
    /\ WakeWaiters(p)
    /\ UNCHANGED <<owner, alive, sig, stopReq, lastExit, reap, dog>>
    /\ UNCHANGED <<mgrVars, wpc, wval, pc, tgt, op, srv, todo>>

\* Startup watchdog, first half: the sleep is over and the status is Starting
\* (with any other status the task just ends).
WatchdogFires(p) ==
    /\ StartupCanTimeOut
    /\ dog[p] = "armed"
    /\ status[p] = "starting"
    /\ dog' = [dog EXCEPT ![p] = "fired"]
    /\ UNCHANGED <<owner, status, alive, sig, stopReq, lastExit, reap, ready>>
    /\ UNCHANGED <<mgrVars, watchVars, taskVars>>

\* Startup watchdog, second half: publish Crashed; the process is left alone.
WatchdogPublish(p) ==
    /\ dog[p] = "fired"
    /\ dog' = [dog EXCEPT ![p] = "off"]
    /\ SetStatus(p, "crashed")
    /\ WakeWaiters(p)
    /\ UNCHANGED <<owner, alive, sig, stopReq, lastExit, reap, ready>>
    /\ UNCHANGED <<mgrVars, wpc, wval, pc, tgt, op, srv, todo>>

\* watch_exit, first half: the child is reaped, stop_requested is read, and
\* without a stop request the exit code decides.
ExitObserved(p) ==
    /\ reap[p] = "wait"
    /\ ~alive[p]
    /\ \E e \in IF stopReq[p] THEN {"requested"} ELSE Codes :
          reap' = [reap EXCEPT ![p] = e]
    /\ UNCHANGED <<owner, status, alive, sig, stopReq, lastExit, ready, dog>>
    /\ UNCHANGED <<mgrVars, watchVars, taskVars>>

\* watch_exit, second half: record last_exit, then publish the terminal status.
ExitPublish(p) ==
    /\ reap[p] \in Exits
    /\ lastExit' = [lastExit EXCEPT ![p] = reap[p]]
    /\ reap' = [reap EXCEPT ![p] = "done"]
    /\ SetStatus(p, IF reap[p] \in {"requested", "zero"} THEN "stopped" ELSE "crashed")
    /\ WakeWaiters(p)
    /\ UNCHANGED <<owner, alive, sig, stopReq, ready, dog>>
    /\ UNCHANGED <<mgrVars, wpc, wval, pc, tgt, op, srv, todo>>

\* watch_exit when child.wait() fails: Crashed, and last_exit stays None.
WaitFails(p) ==
    /\ WaitCanFail
    /\ reap[p] = "wait"
    /\ reap' = [reap EXCEPT ![p] = "done"]
    /\ SetStatus(p, "crashed")
    /\ WakeWaiters(p)
    /\ UNCHANGED <<owner, alive, sig, stopReq, lastExit, ready, dog>>
    /\ UNCHANGED <<mgrVars, wpc, wval, pc, tgt, op, srv, todo>>

-----------------------------------------------------------------------------
(* start_server and start_process, by a handler or by a restart timer.     *)

ServerOf(a) == IF a \in Procs THEN owner[a] ELSE srv[a]

\* The guards of start_process.
CanStart(s) ==
    /\ processes[s] = None
    /\ Cardinality({x \in Servers : processes[x] # None}) < MaxServers

\* cancel_pending_restart for every server in S, and actor a goes on at k.
CancelPending(S, a, k) ==
    /\ pending' = [s \in Servers |-> IF s \in S THEN None ELSE pending[s]]
    /\ pc' = [b \in Actors |->
                 IF b = a THEN k
                 ELSE IF \E s \in S : pending[s] = b THEN "idle" ELSE pc[b]]

\* start_server up to its first await (fetch_game_session).
StartServer(t, s) ==
    /\ CancelPending({s}, t, IF CanStart(s) THEN "fetch" ELSE "returned")
    /\ history' = [history EXCEPT ![s] = 0]

UserStart(t, s) ==
    /\ pc[t] = "idle"
    /\ StartServer(t, s)
    /\ op' = [op EXCEPT ![t] = "start"]
    /\ srv' = [srv EXCEPT ![t] = s]
    /\ UNCHANGED <<procVars, processes, handles, watchVars, tgt, tnew, todo>>

\* The restart timer's sleep is over: it takes its pending entry, or finds it
\* cancelled, and runs start_process up to the await.
TimerFires(p) ==
    LET s == owner[p] IN
    /\ pc[p] = "sleep"
    /\ pending' = [pending EXCEPT ![s] = None]
    /\ pc' = [pc EXCEPT ![p] =
                 IF pending[s] # None /\ CanStart(s) THEN "fetch" ELSE "idle"]
    /\ UNCHANGED <<procVars, processes, handles, history, watchVars>>
    /\ UNCHANGED <<tgt, op, srv, tnew, todo>>

\* fetch_game_session returned (its failure changes nothing); process.start()
\* finds the jar and spawns the child and its tasks.
Spawn(a, p) ==
    /\ pc[a] = "fetch"
    /\ owner[p] = None
    /\ owner' = [owner EXCEPT ![p] = ServerOf(a)]
    /\ status' = [status EXCEPT ![p] = "starting"]
    /\ alive' = [alive EXCEPT ![p] = TRUE]
    /\ reap' = [reap EXCEPT ![p] = "wait"]
    /\ dog' = [dog EXCEPT ![p] = "armed"]
    /\ pc' = [pc EXCEPT ![a] = "spawned"]
    /\ tgt' = [tgt EXCEPT ![a] = p]
    /\ UNCHANGED <<sig, stopReq, lastExit, ready, mgrVars, watchVars>>
    /\ UNCHANGED <<op, srv, tnew, todo>>

\* process.start() fails (jar missing, spawn error): the object is dropped.
StartFails(a) ==
    /\ pc[a] = "fetch"
    /\ pc' = [pc EXCEPT ![a] = "returned"]
    /\ UNCHANGED <<procVars, mgrVars, watchVars, tgt, op, srv, tnew, todo>>

\* start_process after process.start(): the registry insert.
Register(a) ==
    /\ pc[a] = "spawned"
    /\ processes' = [processes EXCEPT ![ServerOf(a)] = tgt[a]]
    /\ pc' = [pc EXCEPT ![a] = "watch"]
    /\ UNCHANGED <<procVars, handles, history, pending, watchVars>>
    /\ UNCHANGED <<tgt, op, srv, tnew, todo>>

\* spawn_status_watcher: the watcher subscribes (the value it subscribes at
\* counts as seen) and its handle replaces the one of the server.
SpawnWatcher(a) ==
    LET p == tgt[a] IN
    /\ pc[a] = "watch"
    /\ handles' = [handles EXCEPT ![ServerOf(a)] = p]
    /\ wpc' = [wpc EXCEPT ![p] = "loop"]
    /\ wnew' = [wnew EXCEPT ![p] = FALSE]
    /\ pc' = [pc EXCEPT ![a] = "returned"]
    /\ tgt' = [tgt EXCEPT ![a] = None]
    /\ UNCHANGED <<procVars, processes, history, pending, wval, op, srv, tnew, todo>>

-----------------------------------------------------------------------------
(* stop_server, kill_server, restart_server, stop_all.                     *)

\* HytaleServerProcess::stop reads the status; a process that is stopped
\* already leaves nothing to do (pc k), for another stop_requested is set.  The
\* read and the store are one step: the store is read by watch_exit only, and
\* what publishes Stopped between them has seen the child's exit or set the
\* flag itself.
BeginStop(t, p, k) ==
    /\ tgt' = [tgt EXCEPT ![t] = p]
    /\ pc' = [pc EXCEPT ![t] = IF status[p] = "stopped" THEN k ELSE "announce"]
    /\ stopReq' = [stopReq EXCEPT ![p] = @ \/ status[p] # "stopped"]

\* stop() and kill(): Stopping is published, whatever was published since;
\* then stop writes to stdin and kill sends the signal.
Announce(t) ==
    /\ pc[t] = "announce"
    /\ SetStatus(tgt[t], "stopping")
    /\ WakeWaiters(tgt[t])
    /\ pc' = [pc EXCEPT ![t] = IF op[t] = "kill" THEN "force" ELSE "stdin"]
    /\ UNCHANGED <<owner, alive, sig, stopReq, lastExit, reap, ready, dog>>
    /\ UNCHANGED <<mgrVars, wpc, wval, tgt, op, srv, todo>>

\* stop_server: a registered process is stopped; otherwise a pending auto
\* restart is cancelled (and with neither, the request fails).
StopServer(t, s, k) ==
    \/ /\ processes[s] # None
       /\ BeginStop(t, processes[s], k)
       /\ UNCHANGED pending
    \/ /\ processes[s] = None
       /\ CancelPending({s}, t, k)
       /\ UNCHANGED <<tgt, stopReq>>

UserStop(t, s) ==
    /\ pc[t] = "idle"
    /\ StopServer(t, s, "returned")
    /\ op' = [op EXCEPT ![t] = "stop"]
    /\ srv' = [srv EXCEPT ![t] = s]
    /\ UNCHANGED <<owner, status, alive, sig, lastExit, reap, ready, dog>>
    /\ UNCHANGED <<processes, handles, history, watchVars, tnew, todo>>

\* kill_server: HytaleServerProcess::kill does not look at the status first.
UserKill(t, s) ==
    /\ pc[t] = "idle"
    /\ op' = [op EXCEPT ![t] = "kill"]
    /\ srv' = [srv EXCEPT ![t] = s]
    /\ \/ /\ processes[s] # None
          /\ tgt' = [tgt EXCEPT ![t] = processes[s]]
          /\ pc' = [pc EXCEPT ![t] = "announce"]
          /\ stopReq' = [stopReq EXCEPT ![processes[s]] = TRUE]
          /\ UNCHANGED pending
       \/ /\ processes[s] = None
          /\ CancelPending({s}, t, "returned")
          /\ UNCHANGED <<tgt, stopReq>>
    /\ UNCHANGED <<owner, status, alive, sig, lastExit, reap, ready, dog>>
    /\ UNCHANGED <<processes, handles, history, watchVars, tnew, todo>>

\* restart_server: stop the registered process, or replace a pending auto
\* restart by a start, or fail.
UserRestart(t, s) ==
    /\ pc[t] = "idle"
    /\ op' = [op EXCEPT ![t] = "restart"]
    /\ srv' = [srv EXCEPT ![t] = s]
    /\ \/ /\ processes[s] # None
          /\ BeginStop(t, processes[s], "poll")
          /\ UNCHANGED <<pending, history>>
       \/ /\ processes[s] = None
          /\ pending[s] # None
          /\ StartServer(t, s)
          /\ UNCHANGED <<tgt, stopReq>>
    /\ UNCHANGED <<owner, status, alive, sig, lastExit, reap, ready, dog>>
    /\ UNCHANGED <<processes, handles, watchVars, tnew, todo>>

\* stop_all at shutdown: cancel every pending restart, list the registry, then
\* stop one server after the other.
StopAll(t) ==
    /\ pc[t] = "idle"
    /\ op' = [op EXCEPT ![t] = "stop_all"]
    /\ srv' = [srv EXCEPT ![t] = None]
    /\ CancelPending(Servers, t, "next")
    /\ todo' = [todo EXCEPT ![t] = {s \in Servers : processes[s] # None}]
    /\ UNCHANGED <<procVars, processes, handles, history, watchVars, tgt, tnew>>

StopAllNext(t, s) ==
    /\ pc[t] = "next"
    /\ s \in todo[t]
    /\ todo' = [todo EXCEPT ![t] = @ \ {s}]
    /\ StopServer(t, s, "next")
    /\ UNCHANGED <<owner, status, alive, sig, lastExit, reap, ready, dog>>
    /\ UNCHANGED <<processes, handles, history, watchVars, op, srv, tnew>>

StopAllDone(t) ==
    /\ pc[t] = "next"
    /\ todo[t] = {}
    /\ pc' = [pc EXCEPT ![t] = "returned"]
    /\ UNCHANGED <<procVars, mgrVars, watchVars, tgt, op, srv, tnew, todo>>

\* Where a handler goes on once HytaleServerProcess::stop or kill is over.
AfterStop(t) == CASE op[t] = "restart"  -> "poll"
                  [] op[t] = "stop_all" -> "next"
                  [] OTHER              -> "returned"

\* stop(): the write of "stop" to stdin has ended (a failure is only logged),
\* and wait_for_status subscribes.  The write has no deadline: while the child
\* lives and does not read, it need not end (see Fairness).
Subscribe(t) ==
    /\ pc[t] = "stdin"
    /\ pc' = [pc EXCEPT ![t] = "waitStop"]
    /\ tnew' = [tnew EXCEPT ![t] = FALSE]
    /\ UNCHANGED <<procVars, mgrVars, watchVars, tgt, op, srv, todo>>

\* wait_for_status: the receiver changed; done if the value is Stopped.
WaitWakes(t) ==
    /\ pc[t] \in Waiting
    /\ tnew[t]
    /\ tnew' = [tnew EXCEPT ![t] = FALSE]
    /\ pc' = [pc EXCEPT ![t] = IF status[tgt[t]] = "stopped" THEN AfterStop(t) ELSE @]
    /\ UNCHANGED <<procVars, mgrVars, watchVars, tgt, op, srv, todo>>

\* Mutant: the wait for a live process has no deadline.
StopWaitsForever(t) ==
    /\ pc[t] = "waitStop"
    /\ ~alive[tgt[t]]
    /\ pc' = [pc EXCEPT ![t] = "force"]
    /\ UNCHANGED <<procVars, mgrVars, watchVars, tgt, op, srv, tnew, todo>>

\* stop(): stop_timeout_s is over.
StopTimesOut(t) ==
    /\ pc[t] = "waitStop"
    /\ pc' = [pc EXCEPT ![t] = "force"]
    /\ UNCHANGED <<procVars, mgrVars, watchVars, tgt, op, srv, tnew, todo>>

\* Mutant: the signal is not sent.
ForceKillNoSignal(t) ==
    /\ pc[t] = "force"
    /\ pc' = [pc EXCEPT ![t] = "waitKill"]
    /\ tnew' = [tnew EXCEPT ![t] = FALSE]
    /\ UNCHANGED <<procVars, mgrVars, watchVars, tgt, op, srv, todo>>

\* force_kill: SIGKILL to the stored pid, which start() has set (so it is not
\* 0), then wait_for_status subscribes.
ForceKill(t) ==
    /\ pc[t] = "force"
    /\ sig' = [sig EXCEPT ![tgt[t]] = alive[tgt[t]]]
    /\ pc' = [pc EXCEPT ![t] = "waitKill"]
    /\ tnew' = [tnew EXCEPT ![t] = FALSE]
    /\ UNCHANGED <<owner, status, alive, stopReq, lastExit, reap, ready, dog>>
    /\ UNCHANGED <<mgrVars, watchVars, tgt, op, srv, todo>>

\* Mutant: when the 3 s are over nothing is published.
KillTimesOutSilently(t) ==
    /\ pc[t] = "waitKill"
    /\ pc' = [pc EXCEPT ![t] = AfterStop(t)]
    /\ UNCHANGED <<procVars, mgrVars, watchVars, tgt, op, srv, tnew, todo>>

\* force_kill: 3 s are over; publish Stopped unless somebody did, whether or
\* not the child is gone.
KillTimesOut(t) ==
    LET p == tgt[t] IN
    /\ pc[t] = "waitKill"
    /\ pc' = [pc EXCEPT ![t] = AfterStop(t)]
    /\ IF status[p] = "stopped"
       THEN UNCHANGED <<status, wnew, tnew>>
       ELSE SetStatus(p, "stopped") /\ WakeWaiters(p)
    /\ UNCHANGED <<owner, alive, sig, stopReq, lastExit, reap, ready, dog>>
    /\ UNCHANGED <<mgrVars, wpc, wval, tgt, op, srv, todo>>

\* restart_server after stop(): the entry is gone or 20 polls are over; what
\* the registry has for the server is removed.
RestartRemove(t) ==
    /\ pc[t] = "poll"
    /\ processes' = [processes EXCEPT ![srv[t]] = None]
    /\ pc' = [pc EXCEPT ![t] = "cleanup"]
    /\ UNCHANGED <<procVars, handles, history, pending, watchVars>>
    /\ UNCHANGED <<tgt, op, srv, tnew, todo>>

\* cleanup_relay aborts the watcher the server has by now (one that is past its
\* last await ends by itself), and start_server begins.
RestartCleanup(t) ==
    LET s == srv[t]
        q == handles[s]
    IN
    /\ pc[t] = "cleanup"
    /\ handles' = [handles EXCEPT ![s] = None]
    /\ wpc' = [p \in Procs |-> IF p = q /\ wpc[p] \in Watching THEN "aborted" ELSE wpc[p]]
    /\ wval' = [p \in Procs |-> IF p = q /\ wpc[p] \in Watching THEN "none" ELSE wval[p]]
    /\ wnew' = [p \in Procs |-> p # q /\ wnew[p]]
    /\ StartServer(t, s)
    /\ tgt' = [tgt EXCEPT ![t] = None]
    /\ UNCHANGED <<procVars, processes, op, srv, tnew, todo>>

\* A request answers, or a restart timer's task ends.
Return(a) ==
    /\ pc[a] = "returned"
    /\ pc' = [pc EXCEPT ![a] = "idle"]
    /\ tgt' = [tgt EXCEPT ![a] = None]
    /\ op' = [t \in Tasks |-> IF t = a THEN "none" ELSE op[t]]
    /\ srv' = [t \in Tasks |-> IF t = a THEN None ELSE srv[t]]
    /\ tnew' = [t \in Tasks |-> t # a /\ tnew[t]]
    /\ UNCHANGED <<procVars, mgrVars, watchVars, todo>>

-----------------------------------------------------------------------------
(* The status watcher task and handle_crash.                               *)

\* changed() returns (after the initial status was reported, if that is still
\* under way): read the latest value and send the report.
WatchChanged(p) ==
    /\ wpc[p] = "loop"
    /\ wnew[p]
    /\ wpc' = [wpc EXCEPT ![p] = "report"]
    /\ wval' = [wval EXCEPT ![p] = status[p]]
    /\ wnew' = [wnew EXCEPT ![p] = FALSE]
    /\ UNCHANGED <<procVars, mgrVars, taskVars>>

\* CrashHistory::decide on an exit that counts: some oldest crashes have left
\* the window (kept stay), the new one is recorded, the limit is applied.
\* A restart is scheduled over (and aborts) one already pending.
DecideRestart(p, kept) ==
    LET s == owner[p] IN
    /\ history' = [history EXCEPT ![s] = kept + 1]
    /\ IF kept + 1 > MaxRestarts
       THEN UNCHANGED <<pending, pc>>
       ELSE /\ pending' = [pending EXCEPT ![s] = p]
            /\ pc' = [a \in Actors |-> IF a = p THEN "sleep"
                                       ELSE IF a = pending[s] THEN "idle" ELSE pc[a]]

\* Mutant: a crash without an observed exit is restarted too.
HandleUnobservedCrash(p) ==
    IF lastExit[p] \in {"crash", "none"} /\ AutoRestart
    THEN \E kept \in 0..history[owner[p]] : DecideRestart(p, kept)
    ELSE UNCHANGED <<history, pending, pc>>

\* handle_crash: nothing without an observed exit, nothing for an exit that
\* was requested, clean or needs attention, nothing with auto restart off.
HandleCrash(p) ==
    IF lastExit[p] = "crash" /\ AutoRestart
    THEN \E kept \in 0..history[owner[p]] : DecideRestart(p, kept)
    ELSE UNCHANGED <<history, pending, pc>>

\* The report returned (or failed): back to the loop, or on a terminal status
\* the server's registry entry is removed, whose ever it is.
WatchReported(p) ==
    /\ wpc[p] = "report"
    /\ IF wval[p] \in Terminal
       THEN /\ wpc' = [wpc EXCEPT ![p] = "leave"]
            /\ processes' = [processes EXCEPT ![owner[p]] = None]
            /\ wnew' = [wnew EXCEPT ![p] = FALSE]
            /\ UNCHANGED wval
       ELSE /\ wpc' = [wpc EXCEPT ![p] = "loop"]
            /\ wval' = [wval EXCEPT ![p] = "none"]
            /\ UNCHANGED <<processes, wnew>>
    /\ UNCHANGED <<procVars, handles, history, pending, taskVars>>

\* Then the server's watcher handle is forgotten, a crash is handled, and the
\* task ends.
WatcherLeaves(p) ==
    /\ wpc[p] = "leave"
    /\ wpc' = [wpc EXCEPT ![p] = "done"]
    /\ wval' = [wval EXCEPT ![p] = "none"]
    /\ handles' = [handles EXCEPT ![owner[p]] = None]
    /\ IF wval[p] = "crashed" THEN HandleCrash(p) ELSE UNCHANGED <<history, pending, pc>>
    /\ UNCHANGED <<procVars, processes, wnew, tgt, op, srv, tnew, todo>>

-----------------------------------------------------------------------------
ProcessStep(p) ==
    \/ ReadySeen(p) \/ ReadyPublish(p)
    \/ WatchdogFires(p) \/ WatchdogPublish(p)
    \/ ExitObserved(p) \/ ExitPublish(p) \/ WaitFails(p)

WatcherStep(p) == WatchChanged(p) \/ WatchReported(p) \/ WatcherLeaves(p)

StartStep(a) == (\E p \in Procs : Spawn(a, p)) \/ StartFails(a) \/ Register(a)
                \/ SpawnWatcher(a) \/ Return(a)

TaskStep(t) ==
    \/ StartStep(t)
    \/ Announce(t)
    \/ Subscribe(t) \/ WaitWakes(t) \/ StopTimesOut(t)
    \/ ForceKill(t) \/ KillTimesOut(t)
    \/ RestartRemove(t) \/ RestartCleanup(t)
    \/ (\E s \in Servers : StopAllNext(t, s)) \/ StopAllDone(t)

UserRequest(t) ==
    \/ "start" \in Requests /\ \E s \in Servers : UserStart(t, s)
    \/ "stop" \in Requests /\ \E s \in Servers : UserStop(t, s)
    \/ "kill" \in Requests /\ \E s \in Servers : UserKill(t, s)
    \/ "restart" \in Requests /\ \E s \in Servers : UserRestart(t, s)
    \/ "stop_all" \in Requests /\ StopAll(t)

Next ==
    \/ \E p \in Procs : \/ Exit(p) \/ ProcessStep(p) \/ WatcherStep(p)
                        \/ TimerFires(p) \/ StartStep(p)
    \/ \E t \in Tasks : UserRequest(t) \/ TaskStep(t)

Spec == Init /\ [][Next]_vars

\* A handler whose write to the stdin of a live child does not end.
BlockedAtStdin(t) == pc[t] = "stdin" /\ alive[tgt[t]]

\* The runtime polls every task that can go on and every timeout ends.  A
\* child may run forever, signalled or not, and never read its stdin; a write
\* to a dead one fails.  A user may never ask for anything.
Fairness ==
    /\ \A p \in Procs :
          /\ WF_vars(ReadyPublish(p)) /\ WF_vars(WatchdogPublish(p))
          /\ WF_vars(ExitObserved(p)) /\ WF_vars(ExitPublish(p))
          /\ WF_vars(WatcherStep(p))
          /\ WF_vars(TimerFires(p) \/ StartStep(p))
    /\ \A t \in Tasks :
          /\ WF_vars(~BlockedAtStdin(t) /\ TaskStep(t))
          /\ WF_vars(StopTimesOut(t) \/ KillTimesOut(t))

FairSpec == Spec /\ Fairness

-----------------------------------------------------------------------------
(* Properties *)

TypeOK ==
    /\ owner \in [Procs -> Servers \cup {None}]
    /\ status \in [Procs -> Status]
    /\ alive \in [Procs -> BOOLEAN]
    /\ sig \in [Procs -> BOOLEAN]
    /\ stopReq \in [Procs -> BOOLEAN]
    /\ lastExit \in [Procs -> Exits \cup {"none"}]
    /\ reap \in [Procs -> Exits \cup {"off", "wait", "done"}]
    /\ ready \in [Procs -> BOOLEAN]
    /\ dog \in [Procs -> {"off", "armed", "fired"}]
    /\ processes \in [Servers -> Procs \cup {None}]
    /\ handles \in [Servers -> Procs \cup {None}]
    /\ history \in [Servers -> Nat]
    /\ pending \in [Servers -> Procs \cup {None}]
    /\ wpc \in [Procs -> Watching \cup {"off", "leave", "done", "aborted"}]
    /\ wval \in [Procs -> Status \cup {"none"}]
    /\ wnew \in [Procs -> BOOLEAN]
    /\ pc \in [Actors -> Points]
    /\ tgt \in [Actors -> Procs \cup {None}]
    /\ op \in [Tasks -> {"none", "start", "stop", "kill", "restart", "stop_all"}]
    /\ srv \in [Tasks -> Servers \cup {None}]
    /\ tnew \in [Tasks -> BOOLEAN]
    /\ todo \in [Tasks -> SUBSET Servers]

\* Every registry entry has a status watcher task, or is about to get it, so
\* that somebody is left who can deregister it (start_process, cleanup_relay).
RegistryIsWatched ==
    \A s \in Servers : processes[s] # None =>
        \/ wpc[processes[s]] \in Watching
        \/ \E a \in Actors : pc[a] = "watch" /\ tgt[a] = processes[s]

\* An auto restart waits out its backoff only for a process of that server that
\* is dead and whose exit was observed to be a crash nobody had asked for when
\* it happened; and every sleeping timer is the one the map names, so that a
\* cancel reaches it (handle_crash, cancel_pending_restart).
PendingIsJustified ==
    /\ \A s \in Servers : pending[s] # None =>
          /\ owner[pending[s]] = s
          /\ ~alive[pending[s]]
          /\ lastExit[pending[s]] = "crash"
    /\ \A p \in Procs : pc[p] = "sleep" <=> owner[p] # None /\ pending[owner[p]] = p

\* A process that is dead, or that SIGKILL was sent to.
Gone(p) == ~alive[p] \/ sig[p]

\* A process whose status says Stopped is gone: what the watcher then reports
\* to the panel is true, and start_server may run next to it (watch_exit,
\* force_kill).
StoppedIsDead ==
    \A p \in Procs : status[p] = "stopped" => Gone(p)

\* When stop_server or kill_server answers Ok for a process, that process is
\* gone (HytaleServerProcess::stop falls back to SIGKILL).
StopReturnsDead ==
    \A t \in Tasks : pc[t] = "returned" /\ op[t] \in {"stop", "kill"} /\ tgt[t] # None
                        => Gone(tgt[t])

\* A restart that goes on to start the new process has seen the old one off.
RestartWaitsForDeath ==
    \A t \in Tasks : pc[t] \in {"poll", "cleanup"} => Gone(tgt[t])

\* What the manager says of a death is true: the three above together.
DeathIsTrue == StoppedIsDead /\ StopReturnsDead /\ RestartWaitsForDeath

\* Never two live processes of one server: they would share a port and a world
\* directory.
OneProcessPerServer ==
    \A p, q \in Procs : alive[p] /\ alive[q] /\ owner[p] = owner[q] => p = q

\* The panel's stop is final for the process it stopped: no auto restart is
\* scheduled for a process whose stop was requested.
StopNeverRestarts ==
    \A p \in Procs : pc[p] = "sleep" => ~stopReq[p]

\* The registry never holds more than max_servers servers.
CapRespected ==
    Cardinality({s \in Servers : processes[s] # None}) <= MaxServers

\* No second process is started next to one that is called Crashed without an
\* observed exit and may still be alive.
NoneNextToUnobserved ==
    \A p, q \in Procs :
        /\ status[p] = "crashed" /\ lastExit[p] = "none" /\ alive[p]
        /\ owner[q] = owner[p] /\ alive[q]
        => q = p

\* last_exit is None while the status is Running.
RunningHasNoExit ==
    \A p \in Procs : status[p] = "running" => lastExit[p] = "none"

\* SIGKILL goes to a child that has not been reaped: after that its pid is free
\* for the OS to give to somebody else.
KillHitsOwnChild ==
    [][\A t \in Tasks : ForceKill(t) => reap[tgt[t]] = "wait"]_vars

\* A registered process that has ended is deregistered, so that a fresh
\* start_server can succeed.
EndedIsDeregistered ==
    \A s \in Servers, p \in Procs :
        (processes[s] = p /\ lastExit[p] # "none") ~> processes[s] # p

\* Every request is answered and every restart timer's task ends again and
\* again, or hangs from some time on in the one wait that has no deadline: the
\* write of "stop" to the stdin of a child that lives and does not read.  So a
\* kill is always answered, and the death of the child frees the handler.
EveryActorReturns ==
    \A a \in Actors : \/ []<>(pc[a] = "idle")
                      \/ <>[](a \in Tasks /\ BlockedAtStdin(a))

\* Every wait of a stop has a deadline ("wait up to stop_timeout_s, then
\* SIGKILL if it doesn't exit in time").
StopReturns ==
    \A t \in Tasks : (pc[t] # "idle") ~> (pc[t] = "idle")

\* A kill deregisters the process it kills, also one whose end its status
\* watcher has missed, so that a fresh start_server can succeed; except where a
\* restart that overlaps has aborted the watcher, the process is stopped or
\* killed again before the watcher has seen it Stopped, or a ready line that was
\* read before is published after it (kill, spawn_status_watcher).
KillDeregisters ==
    \A t \in Tasks, p \in Procs :
        (/\ op[t] = "kill" /\ pc[t] = "force" /\ tgt[t] = p /\ status[p] = "stopping"
         /\ wpc[p] \in Watching /\ ~ready[p])
            ~> \/ owner[p] # None /\ processes[owner[p]] # p
               \/ wpc[p] = "aborted"
               \/ \E u \in Tasks : tgt[u] = p /\ pc[u] = "announce"

-----------------------------------------------------------------------------
(* The inductive invariant behind the safety properties. *)

\* A process object nobody has started is untouched and unknown.
FreshIsPristine ==
    \A p \in Procs : owner[p] = None =>
        /\ status[p] = "stopped" /\ ~alive[p] /\ ~sig[p] /\ reap[p] = "off"
        /\ ~ready[p] /\ dog[p] = "off" /\ lastExit[p] = "none"
        /\ wpc[p] = "off" /\ pc[p] = "idle"
        /\ \A s \in Servers : processes[s] # p /\ handles[s] # p /\ pending[s] # p
        /\ \A a \in Actors : tgt[a] # p

\* The exit watcher concludes only about a dead process.
ExitsAreReal ==
    \A p \in Procs :
        /\ reap[p] \in Exits => ~alive[p]
        /\ lastExit[p] # "none" => ~alive[p] /\ reap[p] = "done"

\* The registry holds a process of the server.
RegistryMatches == \A s \in Servers : processes[s] # None => owner[processes[s]] = s

\* What an actor knows at each point of its operation.
ActorsKnow ==
    /\ \A p \in Procs : pc[p] \in {"idle", "sleep", "fetch", "spawned", "watch", "returned"}
    /\ \A a \in Actors : pc[a] \in {"spawned", "watch"} =>
          tgt[a] # None /\ owner[tgt[a]] = ServerOf(a)
    /\ \A t \in Tasks :
          /\ pc[t] # "sleep"
          /\ pc[t] = "idle" => tgt[t] = None
          /\ pc[t] \in {"fetch", "spawned", "watch"} => op[t] \in {"start", "restart"}
          /\ pc[t] \in {"poll", "cleanup"} => op[t] = "restart"
          /\ pc[t] = "next" => op[t] = "stop_all"
          /\ pc[t] \in {"fetch", "spawned", "watch", "poll", "cleanup"} => srv[t] \in Servers
          /\ op[t] = "restart" => srv[t] \in Servers
          /\ pc[t] \in Waiting \cup {"announce", "stdin", "force", "poll", "cleanup"}
                => tgt[t] # None
          /\ pc[t] = "waitKill" => Gone(tgt[t])

IInv ==
    /\ TypeOK
    /\ PendingIsJustified /\ StoppedIsDead /\ StopReturnsDead /\ RestartWaitsForDeath
    /\ FreshIsPristine /\ ExitsAreReal /\ RegistryMatches /\ ActorsKnow

=============================================================================
