--------------------------- MODULE RestartPolicy ---------------------------
(***************************************************************************)
(* The auto-restart policy of one server over time:                        *)
(* services/daemon/src/process/restart.rs (policy, backoff, crash history) *)
(* driven the way ProcessManager::handle_crash and start_server drive it.  *)
(*                                                                         *)
(* ProcessManager treats the number of crashes in the window as a counter  *)
(* that may shrink at any moment; here the clock is explicit and the       *)
(* window is what restart.rs computes.  Overlapping requests are the       *)
(* subject of ProcessManager: here a start, a stop and an exit are atomic. *)
(***************************************************************************)
EXTENDS Integers, Sequences, FiniteSets

CONSTANTS
    CrashLimit,          \* ServerConfig.crash_limit (0: not sent)
    CrashWindow,         \* ServerConfig.crash_window_s (0: not sent)
    DefaultMaxRestarts,  \* DEFAULT_MAX_RESTARTS
    DefaultWindow,       \* DEFAULT_WINDOW
    BackoffBase,         \* BACKOFF_BASE
    BackoffMax,          \* BACKOFF_MAX
    MaxTime              \* bound: the clock

ASSUME ConfigAssumption == CrashLimit \in Nat /\ CrashWindow \in Nat /\ MaxTime \in Nat
ASSUME DefaultAssumption == DefaultMaxRestarts \in Nat \ {0} /\ DefaultWindow \in Nat \ {0}
ASSUME BackoffAssumption == BackoffBase \in Nat \ {0} /\ BackoffMax \in Nat \ {0}

VARIABLES
    now,       \* the clock
    up,        \* the server's process is running
    enabled,   \* RestartPolicy.enabled of the process that runs or ran last
    crashes,   \* CrashHistory.crashes: times, oldest first
    due,       \* when the pending restart fires, -1 for none
    attempt,   \* the attempt it was scheduled as
    crashLog   \* history: the time of every crash since a user's last start

vars == <<now, up, enabled, crashes, due, attempt, crashLog>>

\* RestartPolicy::from_config
MaxRestarts == IF CrashLimit = 0 THEN DefaultMaxRestarts ELSE CrashLimit
Window == IF CrashWindow = 0 THEN DefaultWindow ELSE CrashWindow

\* How a process can end: on request, code 0, code 8 or 11, anything else.
Exits == {"requested", "zero", "attention", "crash"}

Least(a, b) == IF a <= b THEN a ELSE b

\* Delay before restart number n; the shift saturates at 16.
Backoff(n) == Least(BackoffBase * 2^Least(IF n > 1 THEN n - 1 ELSE 0, 16), BackoffMax)

\* The history without the front entries that are a window old or older.
Recent(h) ==
    LET fresh == {i \in 1..Len(h) : now - h[i] < Window}
    IN  IF fresh = {} THEN <<>> ELSE SubSeq(h, CHOOSE i \in fresh : \A j \in fresh : i <= j, Len(h))

Init ==
    /\ now = 0
    /\ up = FALSE
    /\ enabled \in BOOLEAN
    /\ crashes = <<>>
    /\ due = -1 /\ attempt = 0
    /\ crashLog = <<>>

\* Mutant: a start by a user keeps the crash count.
StartServerKeeps(e) ==
    /\ ~up
    /\ up' = TRUE /\ enabled' = e
    /\ due' = -1 /\ attempt' = 0
    /\ crashLog' = <<>>
    /\ UNCHANGED <<now, crashes>>

\* start_server: cancels a pending restart and resets the crash count.
StartServer(e) ==
    /\ ~up
    /\ up' = TRUE /\ enabled' = e
    /\ crashes' = <<>>
    /\ due' = -1 /\ attempt' = 0
    /\ crashLog' = <<>>
    /\ UNCHANGED now

\* stop_pending_restart
CancelRestart ==
    /\ ~up /\ due >= 0
    /\ due' = -1
    /\ UNCHANGED <<now, up, enabled, crashes, attempt, crashLog>>

\* CrashHistory::decide and what handle_crash does with the result: only an
\* exit that counts as a crash is recorded; within the limit a restart is
\* scheduled, beyond it the server is left crashed.
Decide(e) ==
    LET h == Append(Recent(crashes), now) IN
    IF e # "crash" \/ ~enabled
    THEN UNCHANGED <<crashes, due, attempt>>
    ELSE /\ crashes' = h
         /\ IF Len(h) > MaxRestarts
            THEN UNCHANGED <<due, attempt>>
            ELSE /\ attempt' = Len(h)
                 /\ due' = now + Backoff(Len(h))

ProcessExits(e) ==
    /\ up
    /\ up' = FALSE
    /\ Decide(e)
    /\ crashLog' = IF e = "crash" THEN Append(crashLog, now) ELSE crashLog
    /\ UNCHANGED <<now, enabled>>

\* The restart task wakes after its delay (or later) and starts the process.
RestartFires ==
    /\ due >= 0 /\ now >= due
    /\ up' = TRUE
    /\ due' = -1
    /\ UNCHANGED <<now, enabled, crashes, attempt, crashLog>>

Tick ==
    /\ now < MaxTime
    /\ now' = now + 1
    /\ UNCHANGED <<up, enabled, crashes, due, attempt, crashLog>>

Next ==
    \/ \E e \in BOOLEAN : StartServer(e)
    \/ CancelRestart
    \/ \E e \in Exits : ProcessExits(e)
    \/ RestartFires
    \/ Tick

Spec == Init /\ [][Next]_vars

-----------------------------------------------------------------------------
(* Properties *)

TypeOK ==
    /\ now \in 0..MaxTime
    /\ up \in BOOLEAN /\ enabled \in BOOLEAN
    /\ crashes \in Seq(0..MaxTime)
    /\ due \in Int /\ due >= -1
    /\ attempt \in 0..MaxRestarts
    /\ crashLog \in Seq(0..MaxTime)

\* Giving up is earned, and so is the delay: when a server whose restart is
\* enabled crashes for the n-th time within the window, counted over the whole
\* log of crashes since the user's start, the policy schedules a restart after
\* 1, 2, 4 ... times the base, capped (restart.rs: "5s, 10s, 20s, 40s, then
\* 60s"), or leaves it crashed exactly when n exceeds MaxRestarts.  The reference
\* looks at all crashes, decide at what it has kept.
GivesUpExactly ==
    [][\A e \in Exits :
         ProcessExits(e) /\ e = "crash" /\ enabled =>
            LET n == Cardinality({i \in 1..Len(crashLog') : now - crashLog'[i] < Window}) IN
            due' = IF n > MaxRestarts THEN -1
                   ELSE now + Least(BackoffBase * 2^(n - 1), BackoffMax)
      ]_vars

\* Not so: "it gives up after 3 crashes in 10 minutes": no restart is scheduled once
\* MaxRestarts crashes lie within one window.
GivesUpAtLimit ==
    due >= 0 =>
        Cardinality({i \in 1..Len(crashes) : now - crashes[i] < Window}) < MaxRestarts
=============================================================================
