---------------------------- MODULE CommandQueue ----------------------------
(***************************************************************************)
(* The command queue of one node: rows of node_commands that the panel     *)
(* inserts, and the daemon's poller that fetches the pending ones, runs    *)
(* them one after another and acknowledges each.  A command whose answer   *)
(* is lost stays pending and is run again; one that fails is settled too.  *)
(*                                                                         *)
(* What a command does is the business of the modules that extend this.    *)
(***************************************************************************)
EXTENDS Naturals, Sequences, FiniteSets

CONSTANTS
    MaxFaults,      \* disturbances (bound)
    MaxMoves        \* disturbances, and what else is counted with them (bound)

ASSUME QueueAssumption == {MaxFaults, MaxMoves} \subseteq Nat

VARIABLES
    queue,          \* pending rows of node_commands, by created_at
    todo,           \* what the poller has fetched and not yet acknowledged: places in the queue
    ran,            \* the result of the first of them, once it has run
    dist,           \* kinds of disturbance that have happened
    faults, moves

queueVars == <<queue, todo, ran, dist, faults, moves>>

QueueInit == queue = <<>> /\ todo = <<>> /\ ran = "no" /\ dist = {} /\ faults = 0 /\ moves = 0

\* A disturbance of some kind happens.
Move == moves < MaxMoves /\ moves' = moves + 1
Disturb(kind) == Move /\ faults < MaxFaults /\ faults' = faults + 1 /\ dist' = dist \cup {kind}

\* One INSERT that adds the commands cs.
Insert(cs) == queue' = queue \o cs

\* The command at place p is pending no more.
Settle(p) ==
    /\ queue' = [i \in 1 .. Len(queue) - 1 |-> queue[IF i < p THEN i ELSE i + 1]]
    /\ todo' = [i \in 1 .. Len(todo) - 1 |-> IF todo[i + 1] < p THEN todo[i + 1] ELSE todo[i + 1] - 1]

-----------------------------------------------------------------------------

\* Mutant: the rows come in no particular order.
FetchUnordered ==
    /\ todo = <<>> /\ queue # <<>>
    /\ todo' = [i \in DOMAIN queue |-> Len(queue) + 1 - i]
    /\ UNCHANGED <<queue, ran, dist, faults, moves>>

\* The pending rows, oldest first.
GetPendingCommands ==
    /\ todo = <<>> /\ queue # <<>>
    /\ todo' = [i \in DOMAIN queue |-> i]
    /\ UNCHANGED <<queue, ran, dist, faults, moves>>

\* The poller's next command, to be run by the module that knows what it does.
Running(c, ok) == todo # <<>> /\ ran = "no" /\ c = queue[Head(todo)] /\ ran' = (IF ok THEN "ok" ELSE "failed")

\* Mutant: a failed command stays pending.
AckSuccess ==
    /\ ran # "no" /\ ran' = "no"
    /\ IF ran = "ok" THEN Settle(Head(todo)) ELSE todo' = Tail(todo) /\ UNCHANGED queue
    /\ UNCHANGED <<dist, faults, moves>>

\* The row is no longer pending, acked or failed.
AckCommand ==
    /\ ran # "no" /\ ran' = "no"
    /\ Settle(Head(todo))
    /\ UNCHANGED <<dist, faults, moves>>

\* The acknowledgement fails; the daemon goes on with its list.
AckLost ==
    /\ ran # "no" /\ ran' = "no"
    /\ todo' = Tail(todo)
    /\ Disturb("ackLost")
    /\ UNCHANGED queue

\* What the daemon had fetched is gone with it.
PollerRestarts ==
    /\ todo' = <<>> /\ ran' = "no"
    /\ Disturb("restart")
    /\ UNCHANGED queue

Poller == GetPendingCommands \/ AckCommand

\* What the poller holds are places of pending commands, in order and each once;
\* the result it owes is of the first of them.
Places ==
    /\ todo \in Seq(Nat)
    /\ \A i \in 1 .. Len(todo) : todo[i] \in 1 .. Len(queue)
    /\ \A i, j \in 1 .. Len(todo) : i < j => todo[i] < todo[j]
    /\ ran # "no" => todo # <<>>

QueueQuiet == queue = <<>> /\ todo = <<>>
=============================================================================
