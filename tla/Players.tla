------------------------------- MODULE Players -------------------------------
(***************************************************************************)
(* Players: what the panel records of one account on every server, its     *)
(* sessions, and the moderation that the panel asks of the game servers    *)
(* through the command queue.                                              *)
(*                                                                         *)
(* A request is a few SQL statements, each a step of its own; a join is a  *)
(* transaction that holds the player's row from its first statement on.    *)
(* The game server is external: it keeps a ban list by name, drops whoever *)
(* it bans or kicks, and logs who comes and goes.                          *)
(***************************************************************************)
EXTENDS CommandQueue

CONSTANTS
    Servers, Names,
    FirstName,      \* the name that the account begins with
    FirstServer,    \* and the server that knows it
    Flags,          \* "ban" and what else is kept of a player: whitelist, op, mute
    Requests,       \* requests in flight
    Asked,          \* what may be asked of the panel: op, val, srv
    MaxCalls        \* requests made (bound); joins are counted as moves

None == "none"
NoReport == [name |-> None, kick |-> FALSE]

ASSUME PlayersAssumption ==
    /\ FirstName \in Names /\ FirstServer \in Servers /\ None \notin Names \cup Servers /\ Requests \subseteq Nat
    /\ "ban" \in Flags /\ Flags \cap {"kick", "network", None} = {}
    /\ MaxCalls \in Nat /\ IsFiniteSet(Servers)
    /\ Asked \subseteq [op : Flags \cup {"kick", "network"}, val : BOOLEAN, srv : Servers]

VARIABLES
    row,            \* players, by server
    seen,           \* the server with the latest last_seen
    net,            \* network_bans: the name banned, or None
    open,           \* open rows of player_sessions, by server
    job,            \* requests in flight
    rep,            \* joins being recorded, by server
    calls,
    game,           \* what each game server holds: flags by name
    online, up,
    events,         \* joins and leaves that the daemon has still to report
    barred          \* servers joined under the network ban

panelVars == <<row, seen, net, open, calls>>
gameVars == <<game, online, up, events, barred>>
vars == <<queueVars, panelVars, gameVars, job, rep>>

NoRow == [in |-> FALSE, name |-> None, flags |-> {}]
Idle == [at |-> "idle", live |-> TRUE, op |-> None, val |-> FALSE, srv |-> None, name |-> None]
NoRequests == \A w \in Requests : job[w] = Idle

Init ==
    /\ QueueInit
    /\ row = [s \in Servers |-> IF s = FirstServer THEN [in |-> TRUE, name |-> FirstName, flags |-> {}] ELSE NoRow]
    /\ seen = FirstServer
    /\ net = None /\ open = [s \in Servers |-> 0] /\ calls = 0
    /\ job = [w \in Requests |-> Idle] /\ rep = [s \in Servers |-> NoReport]
    /\ game = [s \in Servers |-> {}]
    /\ online = [s \in Servers |-> None] /\ up = [s \in Servers |-> TRUE]
    /\ events = [s \in Servers |-> <<>>] /\ barred = {}

Go(w, j) == job' = [job EXCEPT ![w] = j]
At(w, at) == job[w].at = at
Locked(s) == rep[s] # NoReport
Command(j) == [op |-> j.op, val |-> j.val, srv |-> j.srv, name |-> j.name]

-----------------------------------------------------------------------------
(* What moderators ask of one server *)

\* A request begins with the statement that finds the name to act on.
Begin(w, at, op, val, s, name) ==
    /\ job[w] = Idle /\ (\A v \in Requests : v < w => job[v] # Idle)
    /\ calls < MaxCalls /\ calls' = calls + 1
    /\ [op |-> op, val |-> val, srv |-> s] \in Asked
    /\ Go(w, [Idle EXCEPT !.at = at, !.op = op, !.val = val, !.srv = s, !.name = name])
    /\ dist' = IF NoRequests THEN dist ELSE dist \cup {"overlap"}
    /\ UNCHANGED <<queue, todo, ran, faults, moves, row, seen, open, game, online, up, events, rep>>

\* The name that the player goes by on that server; without a row the request ends.
PlayerTarget(s, n) == row[s].in /\ n = row[s].name /\ UNCHANGED <<net, barred>>

HandleBanPlayer(w, s) == \E n \in Names : PlayerTarget(s, n) /\ Begin(w, "flag", "ban", TRUE, s, n)
HandleUnbanPlayer(w, s) == \E n \in Names : PlayerTarget(s, n) /\ Begin(w, "flag", "ban", FALSE, s, n)
HandleSetFlag(w, s, f, v) == f # "ban" /\ \E n \in Names : PlayerTarget(s, n) /\ Begin(w, "flag", f, v, s, n)
HandleKickPlayer(w, s) == \E n \in Names : PlayerTarget(s, n) /\ Begin(w, "enqueue", "kick", TRUE, s, n)

UpdateFlag(w, f, v) ==
    LET s == job[w].srv IN
    /\ At(w, "flag") /\ job[w].op = f /\ job[w].val = v /\ ~Locked(s)
    /\ IF job[w].live
       THEN /\ row' = [row EXCEPT ![s].flags = IF v THEN @ \cup {f} ELSE @ \ {f}]
            /\ Go(w, [job[w] EXCEPT !.at = "enqueue"])
       ELSE Go(w, Idle) /\ UNCHANGED row
    /\ UNCHANGED <<queueVars, seen, net, open, calls, gameVars, rep>>

BanPlayer(w) == UpdateFlag(w, "ban", TRUE)
UnbanPlayer(w) == UpdateFlag(w, "ban", FALSE)
SetFlag(w, f, v) == f # "ban" /\ UpdateFlag(w, f, v)

\* Best effort: the flag is set already.
EnqueueConsoleCommand(w) ==
    /\ At(w, "enqueue") /\ job[w].op # "kick"
    /\ IF job[w].live THEN Insert(<<Command(job[w])>>) ELSE UNCHANGED queue
    /\ Go(w, Idle)
    /\ UNCHANGED <<todo, ran, dist, faults, moves, panelVars, gameVars, rep>>

KickPlayer(w) ==
    /\ At(w, "enqueue") /\ job[w].op = "kick"
    /\ IF job[w].live THEN Insert(<<Command(job[w])>>) ELSE UNCHANGED queue
    /\ Go(w, Idle)
    /\ UNCHANGED <<todo, ran, dist, faults, moves, panelVars, gameVars, rep>>

-----------------------------------------------------------------------------
(* Network bans *)

LatestUsername == row[seen].name

HandleBanNetworkPlayer(w, s) == Begin(w, "record", "network", TRUE, s, LatestUsername) /\ UNCHANGED <<net, barred>>

\* Without a ban there is nothing to lift.
HandleUnbanNetworkPlayer(w, s) == net # None /\ net' = None /\ barred' = {} /\ Begin(w, "latest", "network", FALSE, s, net)

\* The ban by account.
BanNetworkPlayer(w) ==
    /\ At(w, "record")
    /\ IF job[w].live
       THEN /\ net' = IF net = None THEN job[w].name ELSE net
            /\ Go(w, [job[w] EXCEPT !.at = "mark"])
       ELSE Go(w, Idle) /\ UNCHANGED net
    /\ UNCHANGED <<queueVars, row, seen, open, calls, gameVars, rep>>

\* The flag of every row that there is; after it the fan-out, or the end of a lifted ban.
MarkRows(w) ==
    /\ At(w, "mark") /\ \A s \in Servers : row[s].in => ~Locked(s)
    /\ row' = [s \in Servers |-> IF ~row[s].in \/ ~job[w].live THEN row[s]
                                 ELSE [row[s] EXCEPT !.flags = IF job[w].val THEN @ \cup {"ban"} ELSE @ \ {"ban"}]]
    /\ Go(w, IF job[w].live /\ job[w].val THEN [job[w] EXCEPT !.at = "fanout"] ELSE Idle)
    /\ UNCHANGED <<queueVars, seen, net, open, calls, gameVars, rep>>

\* Rather the name that the player has now than the one of the ban.
UnbanNetworkPlayer(w) ==
    /\ At(w, "latest")
    /\ Go(w, [job[w] EXCEPT !.at = "fanout", !.name = IF job[w].live THEN LatestUsername ELSE @])
    /\ UNCHANGED <<queueVars, panelVars, gameVars, rep>>

\* One statement queues the command for every server.  Best effort.
FanOutConsoleCommand(w) ==
    LET every == CHOOSE q \in [1 .. Cardinality(Servers) -> Servers] : \A s \in Servers : \E i \in DOMAIN q : q[i] = s IN
    /\ At(w, "fanout")
    /\ IF job[w].live
       THEN Insert([i \in DOMAIN every |-> [op |-> "ban", val |-> job[w].val, srv |-> every[i], name |-> job[w].name]])
       ELSE UNCHANGED queue
    /\ Go(w, IF job[w].val THEN Idle ELSE [job[w] EXCEPT !.at = "mark"])
    /\ UNCHANGED <<todo, ran, dist, faults, moves, panelVars, gameVars, rep>>

-----------------------------------------------------------------------------
(* Joins and leaves *)

\* Mutant: the ban is looked up in the player's row.
EnforceByRow(s) == "ban" \in row[s].flags

\* Whoever is banned by account is kicked.
EnforceNetworkBanOnJoin(s) == net # None

\* Mutant: what is open stays open.
LeaveOpen(s) == open

CloseOpenSessions(s) == [open EXCEPT ![s] = 0]

\* Event i of a server's log reaches the panel.  A join is a transaction that has
\* the player's row, and has looked for a ban, until it commits; a leave closes
\* the session at once, and one that matches no row does nothing.
RecordPlayerEvent(s, i) ==
    LET e == events[s][i] IN
    /\ ~Locked(s)
    /\ IF e.act = "join"
       THEN /\ rep' = [rep EXCEPT ![s] = [name |-> e.name, kick |-> EnforceNetworkBanOnJoin(s)]]
            /\ UNCHANGED <<seen, open>>
       ELSE /\ IF row[s].in THEN seen' = s /\ open' = CloseOpenSessions(s) ELSE UNCHANGED <<seen, open>>
            /\ UNCHANGED rep
    /\ events' = [events EXCEPT ![s] = [k \in 1 .. Len(@) - 1 |-> @[IF k < i THEN k ELSE k + 1]]]
    /\ UNCHANGED <<queueVars, row, net, calls, game, online, up, barred, job>>

\* Mutant: a task per event.
DaemonPlayerReportAny(s) == \E i \in DOMAIN events[s] : RecordPlayerEvent(s, i)

\* A server's events are reported one by one, in the order of its log.
DaemonPlayerReport(s) == events[s] # <<>> /\ RecordPlayerEvent(s, 1)

\* The row, the session and the kick become visible together.
CommitJoin(s) ==
    /\ Locked(s) /\ rep' = [rep EXCEPT ![s] = NoReport]
    /\ row' = [row EXCEPT ![s].in = TRUE, ![s].name = rep[s].name]
    /\ seen' = s
    /\ open' = [CloseOpenSessions(s) EXCEPT ![s] = @ + 1]
    /\ IF rep[s].kick THEN Insert(<<[op |-> "kick", val |-> TRUE, srv |-> s, name |-> rep[s].name]>>) ELSE UNCHANGED queue
    /\ UNCHANGED <<todo, ran, dist, faults, moves, net, calls, gameVars, job>>

-----------------------------------------------------------------------------
(* The game servers and the daemon *)

GameJoin(s, n) ==
    /\ up[s]
    /\ \A t \in Servers : online[t] = None
    /\ <<"ban", n>> \notin game[s]
    /\ online' = [online EXCEPT ![s] = n]
    /\ events' = [events EXCEPT ![s] = Append(@, [act |-> "join", name |-> n])]
    /\ IF n = FirstName THEN Move /\ UNCHANGED <<dist, faults>> ELSE Disturb("renamed")
    /\ barred' = IF net = None THEN barred \ {s} ELSE barred \cup {s}
    /\ UNCHANGED <<queue, todo, ran, panelVars, game, up, job, rep>>

Drops(s) ==
    /\ online' = [online EXCEPT ![s] = None]
    /\ events' = IF online[s] = None THEN events
                 ELSE [events EXCEPT ![s] = Append(@, [act |-> "leave", name |-> online[s]])]

GameLeave(s) ==
    /\ online[s] # None /\ Drops(s)
    /\ UNCHANGED <<queueVars, panelVars, game, up, barred, job, rep>>

\* A server that is not managed refuses the line; the game obeys what it is sent.
SendCommand(c) ==
    LET s == c.srv IN
    /\ Running(c, up[s])
    /\ game' = IF ~up[s] \/ c.op = "kick" THEN game
               ELSE [game EXCEPT ![s] = IF c.val THEN @ \cup {<<c.op, c.name>>} ELSE @ \ {<<c.op, c.name>>}]
    /\ IF up[s] /\ c.op \in {"kick", "ban"} /\ c.val /\ online[s] = c.name THEN Drops(s) ELSE UNCHANGED <<online, events>>
    /\ dist' = IF up[s] THEN dist ELSE dist \cup {"failed"}
    /\ UNCHANGED <<queue, todo, faults, moves, panelVars, up, barred, job, rep>>

\* A server ends, and the panel hears of it: nobody is on it, and its sessions
\* are closed.  It may lose its files too, its ban list among them.
UpdateServerStatus(s, kept) ==
    /\ up[s] /\ Disturb(IF kept THEN "stopped" ELSE "forgot")
    /\ up' = [up EXCEPT ![s] = FALSE] /\ online' = [online EXCEPT ![s] = None]
    /\ game' = IF kept THEN game ELSE [game EXCEPT ![s] = {}]
    /\ open' = CloseOpenSessions(s)
    /\ UNCHANGED <<queue, todo, ran, row, seen, net, calls, events, barred, job, rep>>

ServerStarts(s) ==
    /\ ~up[s] /\ up' = [up EXCEPT ![s] = TRUE]
    /\ UNCHANGED <<queueVars, panelVars, game, online, events, barred, job, rep>>

\* A daemon that registers closes the sessions of its servers.
DaemonSelfRegister == open' = [s \in Servers |-> 0]

\* The daemon starts again: no server is managed and nothing is left to report.
\* It registers in development only, and may fail to; in production it does not
\* ask and the panel would answer 410, so the sessions stay open.
DaemonBoots ==
    /\ PollerRestarts
    /\ up' = [s \in Servers |-> FALSE] /\ online' = [s \in Servers |-> None]
    /\ events' = [s \in Servers |-> <<>>]
    /\ DaemonSelfRegister \/ UNCHANGED open
    /\ UNCHANGED <<row, seen, net, calls, game, barred, job, rep>>

\* A caller gives up: the statements that are left fail.
Abort(w) ==
    /\ job[w] # Idle /\ job[w].live /\ Disturb("abort")
    /\ Go(w, [job[w] EXCEPT !.live = FALSE])
    /\ UNCHANGED <<queue, todo, ran, panelVars, gameVars, rep>>

\* A report never arrives.
ReportLost(s) ==
    /\ events[s] # <<>> /\ ~Locked(s) /\ Disturb("reportLost")
    /\ events' = [events EXCEPT ![s] = Tail(@)]
    /\ UNCHANGED <<queue, todo, ran, panelVars, game, online, up, barred, job, rep>>

-----------------------------------------------------------------------------

Ask(w) ==
    \/ \E s \in Servers :
         \/ HandleBanPlayer(w, s) \/ HandleUnbanPlayer(w, s) \/ HandleKickPlayer(w, s)
         \/ \E f \in Flags, v \in BOOLEAN : HandleSetFlag(w, s, f, v)
         \/ HandleBanNetworkPlayer(w, s) \/ HandleUnbanNetworkPlayer(w, s)

Work(w) ==
    \/ BanPlayer(w) \/ UnbanPlayer(w) \/ KickPlayer(w) \/ EnqueueConsoleCommand(w)
    \/ \E f \in Flags, v \in BOOLEAN : SetFlag(w, f, v)
    \/ BanNetworkPlayer(w) \/ MarkRows(w) \/ UnbanNetworkPlayer(w) \/ FanOutConsoleCommand(w)

Record(s) == DaemonPlayerReport(s) \/ CommitJoin(s)
Polls == (Poller /\ UNCHANGED <<panelVars, gameVars, job, rep>>) \/ (todo # <<>> /\ SendCommand(queue[Head(todo)]))

Next ==
    \/ \E w \in Requests : Ask(w) \/ Work(w)
    \/ \E s \in Servers : Record(s)
    \/ Polls
    \/ \E s \in Servers : (\E n \in Names : GameJoin(s, n)) \/ GameLeave(s) \/ (\E k \in {TRUE, game[s] = {}} : UpdateServerStatus(s, k))
                          \/ ServerStarts(s) \/ ReportLost(s)
    \/ (AckLost /\ UNCHANGED <<panelVars, gameVars, job, rep>>) \/ DaemonBoots
    \/ \E w \in Requests : Abort(w)

Spec == Init /\ [][Next]_vars

-----------------------------------------------------------------------------
(* What is shown *)

\* Whether the page of all players shows the account as banned, to a user who sees these servers.
ListNetworkPlayers(visible) == net # None \/ \E s \in visible : row[s].in /\ "ban" \in row[s].flags

\* How many players the dashboard counts on a server.
PlayerActivity(s) == open[s]

-----------------------------------------------------------------------------
(* Properties *)

Quiet == QueueQuiet /\ NoRequests /\ \A s \in Servers : events[s] = <<>> /\ ~Locked(s)

Called == Names \cup {None}
Jobs == [at : {"idle", "flag", "enqueue", "record", "mark", "latest", "fanout"}, live : BOOLEAN,
         op : Flags \cup {"kick", "network", None}, val : BOOLEAN, srv : Servers \cup {None}, name : Called]
Commands == [op : Flags \cup {"kick", "network", None}, val : BOOLEAN, srv : Servers, name : Called]

TypeOK ==
    /\ row \in [Servers -> [in : BOOLEAN, name : Called, flags : SUBSET Flags]]
    /\ seen \in Servers /\ net \in Called /\ open \in [Servers -> Nat] /\ calls \in Nat
    /\ job \in [Requests -> Jobs]
    /\ rep \in [Servers -> [name : Called, kick : BOOLEAN]]
    /\ game \in [Servers -> SUBSET ((Flags \cup {"kick", "network", None}) \X Called)]
    /\ online \in [Servers -> Called] /\ up \in [Servers -> BOOLEAN] /\ barred \subseteq Servers
    /\ events \in [Servers -> Seq([act : {"join", "leave"}, name : Names])]
    /\ queue \in Seq(Commands)

\* A network ban keeps the account off every server once everything has settled.
\* Who joined under the ban is out, whatever name they came back under, whatever
\* was asked at the same time or given up, and whether or not the servers kept
\* their ban lists; who was on a server already can only be there still if the
\* request was cut short or the account has gone by two names.
\* (BanNetworkPlayer's fan-out, and the check in RecordPlayerEvent.)
BanIsKept ==
    Quiet /\ net # None /\ "reportLost" \notin dist =>
        \A s \in Servers : online[s] # None => s \notin barred /\ dist \cap {"abort", "renamed"} # {}

\* No player has two sessions open at once, so playtime is counted once, however
\* joins, leaves, repeated reports and stops interleave.  (RecordPlayerEvent.)
OneOpenSession == \A s \in Servers : open[s] <= 1

\* While servers stay up and every report arrives, the dashboard counts exactly
\* who is on a server once the reports are through.  (The ordered event queue of
\* the daemon, and RecordPlayerEvent.)
SessionsAgree ==
    \A s \in Servers :
        /\ events[s] = <<>> /\ ~Locked(s) /\ dist \cap {"stopped", "forgot", "restart", "reportLost"} = {}
        => PlayerActivity(s) = IF online[s] = None THEN 0 ELSE 1

\* What the panel shows is what the game holds once the queue is empty, if
\* requests came one at a time and ran to their end, no command failed, no
\* acknowledgement was lost and the account kept its name; a daemon that starts
\* again between running a command and acknowledging it does no harm.
\* (UpdateFlag, then EnqueueConsoleCommand; the poll in order of created_at.)
FlagsConverge ==
    Quiet /\ dist \cap {"overlap", "abort", "failed", "ackLost", "renamed", "forgot"} = {} =>
        \A s \in Servers :
            /\ \A f \in row[s].flags : <<f, FirstName>> \in game[s]
            /\ \A f \in Flags \ {"ban"} : <<f, FirstName>> \in game[s] => f \in row[s].flags
            /\ <<"ban", FirstName>> \in game[s] => ListNetworkPlayers({s})

-----------------------------------------------------------------------------
(* The inductive invariant behind OneOpenSession and SessionsAgree. *)

\* No server has gone down and no report has been lost.
Steady == dist \cap {"stopped", "forgot", "restart", "reportLost"} = {}

\* The last that is still to be reported of a server says who is on it: the last
\* event of its log, else the join being recorded, else the open session.
LastWord(s) ==
    IF events[s] # <<>> THEN events[s][Len(events[s])].act = "join" <=> online[s] # None
    ELSE IF Locked(s) THEN online[s] # None
    ELSE open[s] = IF online[s] = None THEN 0 ELSE 1

SessionsMatch ==
    \A s \in Servers :
        /\ open[s] \in {0, 1} /\ (open[s] = 1 => row[s].in)
        /\ Steady => LastWord(s)

\* A request that is under way has its server.
JobsPlaced == \A w \in Requests : job[w].at # "idle" => job[w].srv \in Servers

IInv == TypeOK /\ Places /\ JobsPlaced /\ SessionsMatch

-----------------------------------------------------------------------------
(* What BanIsKept rests on. *)

\* The command is in the queue, and is still to be run.
Pending(c) == \E i \in 1 .. Len(queue) : queue[i] = c /\ (ran # "no" => Head(todo) # i)

\* Who is on the server is to be kicked: the join is in the log, or is being
\* recorded, or has been.
Leaving(s) ==
    \/ events[s] # <<>> /\ events[s][Len(events[s])] = [act |-> "join", name |-> online[s]]
    \/ rep[s] = [name |-> online[s], kick |-> TRUE]
    \/ Pending([op |-> "kick", val |-> TRUE, srv |-> s, name |-> online[s]])

\* The ban is to reach the server.
BanComes(s) ==
    \/ \E w \in Requests : job[w].at \in {"mark", "fanout"} /\ job[w].val
    \/ Pending([op |-> "ban", val |-> TRUE, srv |-> s, name |-> FirstName])

DownIsEmpty == \A s \in Servers : ~up[s] => online[s] = None

\* The server last seen has a row, and until it is renamed the account has one name.
OneName ==
    /\ row[seen].in
    /\ "renamed" \notin dist =>
         /\ \A s \in Servers :
              /\ online[s] \in {FirstName, None} /\ (Locked(s) => rep[s].name = FirstName)
              /\ row[s].in => row[s].name = FirstName
              /\ \A i \in 1 .. Len(events[s]) : events[s][i].name = FirstName
         /\ \A w \in Requests : job[w].at \in {"record", "mark", "fanout"} /\ job[w].val => job[w].name = FirstName

NetworkJobs ==
    \A w \in Requests :
        /\ At(w, "record") => job[w].val
        /\ At(w, "latest") => ~job[w].val
        /\ "abort" \notin dist => job[w].live

BarredLeave ==
    /\ net = None => barred = {}
    /\ "reportLost" \notin dist => \A s \in barred : online[s] = None \/ Leaving(s)

PresentLeave ==
    net # None /\ dist \cap {"abort", "renamed"} = {} => \A s \in Servers \ barred : online[s] = None \/ BanComes(s)

BanSafe == DownIsEmpty /\ OneName /\ NetworkJobs /\ BarredLeave /\ PresentLeave

-----------------------------------------------------------------------------
(* What FlagsConverge rests on. *)

Smooth == dist \cap {"overlap", "abort", "failed", "ackLost", "renamed", "forgot"} = {}

\* A command about the flag f on s; and whether the game holds the flag once the
\* queue has been run: the commands after place i say so, the one at i says it, or
\* it does so now.
Sets(c, s, f) == c.op = f /\ c.srv = s /\ c.name = FirstName
HeldAt(i, s, f, v) ==
    IF i = 0 THEN <<f, FirstName>> \in game[s] <=> v ELSE Sets(queue[i], s, f) /\ queue[i].val = v
HeldAfter(s, f, v) ==
    \E i \in 0 .. Len(queue) :
        HeldAt(i, s, f, v) /\ \A k \in i + 1 .. Len(queue) : Sets(queue[k], s, f) => queue[k].val = v

\* What the panel shows fits what the game holds.
Fits(s, f, v) ==
    /\ f \in row[s].flags => v
    /\ v => f \in row[s].flags \/ (f = "ban" /\ net # None)

\* The request has changed the panel's side and is about to enqueue the command, or the reverse.
Owes(w, s, f) ==
    \/ At(w, "enqueue") /\ job[w].op = f /\ job[w].srv = s
    \/ f = "ban" /\ (At(w, "fanout") \/ At(w, "latest") \/ (At(w, "mark") /\ ~job[w].val))

InTurn ==
    /\ \A i \in 1 .. Len(todo) : todo[i] = i
    /\ ran # "no" => /\ ran = "ok"
                     /\ \A s \in Servers, f \in Flags : Sets(queue[1], s, f) => (<<f, FirstName>> \in game[s] <=> queue[1].val)

OneByOne ==
    /\ \A v, w \in Requests : ~At(v, "idle") /\ ~At(w, "idle") => v = w
    /\ \A w \in Requests :
         LET j == job[w] IN
         /\ At(w, "flag") => j.op \in Flags /\ row[j.srv].in /\ j.name = FirstName
         /\ At(w, "enqueue") /\ j.op \in Flags => j.name = FirstName /\ (j.val <=> j.op \in row[j.srv].flags)
         /\ At(w, "latest") => ~j.val
         /\ At(w, "fanout") => j.name = FirstName /\ (j.val => net # None)
         /\ At(w, "mark") => IF j.val THEN net # None ELSE \A s \in Servers : HeldAfter(s, "ban", FALSE)

RowsAgree ==
    \A s \in Servers :
        /\ row[s].flags # {} => row[s].in
        /\ \A f \in Flags : (\E w \in Requests : Owes(w, s, f)) \/ \E v \in BOOLEAN : HeldAfter(s, f, v) /\ Fits(s, f, v)

FlagsSafe == Smooth => InTurn /\ OneByOne /\ RowsAgree

-----------------------------------------------------------------------------
(* Claims that do not hold; see the README. *)

\* player_service.go: "an open session means the player is on the server".
OpenMeansOnline == Quiet => \A s \in Servers : open[s] > 0 => online[s] # None

\* network_player_service.go: "the join check is what actually guarantees the ban".
BanAlwaysKept == Quiet /\ net # None => \A s \in Servers : online[s] = None

\* player_service.go: "the queue is retried by the daemon's poll loop".
BanReachesGame == Quiet /\ dist \subseteq {"failed", "stopped"} => \A s \in Servers : "ban" \in row[s].flags => <<"ban", FirstName>> \in game[s]

\* A repeated command never undoes a later one.
LastCommandWins == Quiet /\ dist \subseteq {"ackLost"} => \A s \in Servers : <<"ban", FirstName>> \in game[s] => ListNetworkPlayers({s})
=============================================================================
