--------------------------- MODULE Players_proofs ---------------------------
(***************************************************************************)
(* The types of Players, that sessions are counted once and agree with who *)
(* is on a server, that a network ban keeps an account out and that the    *)
(* flags shown are those of the game, for every set of servers, names,     *)
(* flags and requests.                                                     *)
(***************************************************************************)
EXTENDS Players, SequenceTheorems, FiniteSetTheorems, TLAPS

-----------------------------------------------------------------------------
(* The command queue: the poller holds places of pending commands, in order and each *)
(* once, whatever is inserted, lost or begun again meanwhile.                         *)

\* Between two states, no command is in the queue that was not there before.
NothingNew == \A i \in DOMAIN queue' : \E j \in DOMAIN queue : queue'[i] = queue[j]

\* An insert keeps the places that were fetched (Insert of any request).
LEMMA InsertKeeps ==
    ASSUME NEW S, queue \in Seq(S), Places, NEW cs \in Seq(S), Insert(cs), UNCHANGED <<todo, ran>>
    PROVE  queue' \in Seq(S) /\ Places'
  BY DEF Insert, Places

\* A fetch holds every pending row, oldest first (GetPendingCommands).
LEMMA FetchKeeps ==
    ASSUME NEW S, queue \in Seq(S), Places, GetPendingCommands
    PROVE  queue' \in Seq(S) /\ Places' /\ NothingNew
<1>1. todo' = [i \in 1 .. Len(queue) |-> i] /\ Len(queue) \in Nat /\ queue # <<>> /\ UNCHANGED <<queue, ran>>
  BY DEF GetPendingCommands
<1>2. todo' \in Seq(Nat) /\ Len(todo') = Len(queue)
  BY <1>1
<1> QED
  BY <1>1, <1>2 DEF Places, NothingNew

\* Acknowledging the first fetched command leaves the others at their places
\* (AckCommand's UPDATE ... WHERE status = 'pending').
LEMMA AckKeeps ==
    ASSUME NEW S, queue \in Seq(S), Places, AckCommand
    PROVE  queue' \in Seq(S) /\ Places' /\ NothingNew
<1> DEFINE p == Head(todo)
           n == Len(queue)
           k == Len(todo)
<1>1. n \in Nat /\ k \in Nat /\ k > 0 /\ p \in 1 .. n /\ p = todo[1] /\ n > 0
  BY DEF Places, AckCommand
<1>2. queue' = [i \in 1 .. n - 1 |-> queue[IF i < p THEN i ELSE i + 1]]
  BY DEF AckCommand, Settle
<1>3. todo' = [i \in 1 .. k - 1 |-> IF todo[i + 1] < p THEN todo[i + 1] ELSE todo[i + 1] - 1]
  BY DEF AckCommand, Settle
<1>4. \A i \in 1 .. n - 1 : (IF i < p THEN i ELSE i + 1) \in 1 .. n
  BY <1>1
<1>5. queue' \in Seq(S) /\ Len(queue') = n - 1 /\ DOMAIN queue' = 1 .. n - 1
  BY <1>1, <1>2, <1>4
<1>6. NothingNew
  BY <1>1, <1>2, <1>4, <1>5 DEF NothingNew
<1>7. \A i \in 1 .. k - 1 : todo[i + 1] \in 1 .. n /\ todo[i + 1] > p
  BY <1>1 DEF Places
<1>8. \A i \in 1 .. k - 1 : todo'[i] = todo[i + 1] - 1 /\ todo'[i] \in 1 .. n - 1
  BY <1>1, <1>3, <1>7
<1>9. todo' \in Seq(Nat) /\ Len(todo') = k - 1
  BY <1>1, <1>3, <1>8
<1>10. ASSUME NEW i \in 1 .. k - 1, NEW j \in 1 .. k - 1, i < j
       PROVE  todo'[i] < todo'[j]
  <2>1. i + 1 \in 1 .. k /\ j + 1 \in 1 .. k /\ i + 1 < j + 1
    BY <1>1, <1>10
  <2>2. todo[i + 1] < todo[j + 1]
    BY <2>1 DEF Places
  <2> QED
    BY <1>1, <1>7, <1>8, <2>2
<1>11. ran' = "no"
  BY DEF AckCommand
<1> QED
  BY <1>1, <1>5, <1>6, <1>8, <1>9, <1>10, <1>11 DEF Places

\* A lost acknowledgement only shortens what the poller holds (AckLost).
LEMMA LossKeeps ==
    ASSUME NEW S, queue \in Seq(S), Places, AckLost
    PROVE  queue' \in Seq(S) /\ Places' /\ NothingNew
<1>1. todo \in Seq(Nat) /\ todo # <<>> /\ todo' = Tail(todo) /\ ran' = "no" /\ queue' = queue
  BY DEF AckLost, Places
<1>2. todo' \in Seq(Nat) /\ Len(todo') = Len(todo) - 1 /\ \A i \in 1 .. Len(todo') : todo'[i] = todo[i + 1]
  BY <1>1
<1> QED
  BY <1>1, <1>2 DEF Places, NothingNew

\* A poller that starts again holds nothing.
LEMMA RestartKeeps ==
    ASSUME NEW S, queue \in Seq(S), Places, PollerRestarts
    PROVE  queue' \in Seq(S) /\ Places' /\ NothingNew
<1>1. todo' = <<>> /\ ran' = "no" /\ queue' = queue
  BY DEF PollerRestarts
<1> QED
  BY <1>1 DEF Places, NothingNew

\* A command that runs is one of the queue, and stays in it until it is
\* acknowledged (the poll loop).
LEMMA RunKeeps ==
    ASSUME NEW S, queue \in Seq(S), Places, NEW c, NEW ok, Running(c, ok), UNCHANGED <<queue, todo>>
    PROVE  queue' \in Seq(S) /\ Places' /\ NothingNew /\ c \in S /\ \E i \in DOMAIN queue : c = queue[i]
<1>1. todo \in Seq(Nat) /\ todo # <<>> /\ Head(todo) \in 1 .. Len(queue) /\ c = queue[Head(todo)]
  BY DEF Running, Places
<1>2. Places' /\ NothingNew
  BY <1>1 DEF Places, NothingNew
<1> QED
  BY <1>1, <1>2

\* A step that leaves the queue alone.
LEMMA IdleKeeps ==
    ASSUME NEW S, queue \in Seq(S), Places, UNCHANGED <<queue, todo, ran>>
    PROVE  queue' \in Seq(S) /\ Places' /\ NothingNew
  BY DEF Places, NothingNew

-----------------------------------------------------------------------------
(* Types *)

Row == [in : BOOLEAN, name : Called, flags : SUBSET Flags]
Event == [act : {"join", "leave"}, name : Names]
Ops == Flags \cup {"kick", "network", None}

\* The types by where the state is kept.
PanelTypes == row \in [Servers -> Row] /\ seen \in Servers /\ net \in Called /\ open \in [Servers -> Nat] /\ calls \in Nat
JobTypes == job \in [Requests -> Jobs]
RepTypes == rep \in [Servers -> [name : Called, kick : BOOLEAN]]
GameTypes ==
    /\ game \in [Servers -> SUBSET (Ops \X Called)]
    /\ online \in [Servers -> Called] /\ up \in [Servers -> BOOLEAN] /\ barred \subseteq Servers
    /\ events \in [Servers -> Seq(Event)]

LEMMA Types == TypeOK <=> PanelTypes /\ JobTypes /\ RepTypes /\ GameTypes /\ queue \in Seq(Commands)
  BY DEF TypeOK, PanelTypes, JobTypes, RepTypes, GameTypes, Row, Event, Ops

LEMMA TypesNext == TypeOK' <=> PanelTypes' /\ JobTypes' /\ RepTypes' /\ GameTypes' /\ queue' \in Seq(Commands)
  BY DEF TypeOK, PanelTypes, JobTypes, RepTypes, GameTypes, Row, Event, Ops

-----------------------------------------------------------------------------
(* Frames *)

LEMMA IdleJob == Idle \in Jobs /\ Idle.at = "idle"
<1>1. None \in Called
  BY DEF Called
<1> QED
  BY <1>1 DEF Idle, Jobs

LEMMA JobStep ==
    ASSUME IInv, NEW w \in Requests, NEW j \in Jobs, Go(w, j), j.at # "idle" => j.srv \in Servers
    PROVE  JobTypes' /\ JobsPlaced'
<1>1. JobTypes /\ JobsPlaced /\ job' = [job EXCEPT ![w] = j]
  BY Types DEF IInv, Go
<1>2. JobTypes'
  BY <1>1 DEF JobTypes
<1>3. ASSUME NEW v \in Requests PROVE job'[v].at # "idle" => job'[v].srv \in Servers
  BY <1>1 DEF JobsPlaced, JobTypes
<1> QED
  BY <1>2, <1>3 DEF JobsPlaced

LEMMA JobsAlone == ASSUME IInv, job' = job PROVE JobTypes' /\ JobsPlaced'
  BY Types DEF IInv, JobTypes, JobsPlaced

LEMMA QueueAlone == ASSUME IInv, UNCHANGED <<queue, todo, ran>> PROVE queue' \in Seq(Commands) /\ Places'
<1>1. queue \in Seq(Commands) /\ Places
  BY DEF IInv, TypeOK
<1> QED
  BY <1>1, IdleKeeps

LEMMA GameAlone == ASSUME IInv, UNCHANGED gameVars PROVE GameTypes'
  BY Types DEF IInv, GameTypes, gameVars

LEMMA RepAlone == ASSUME IInv, rep' = rep PROVE RepTypes'
  BY Types DEF IInv, RepTypes

LEMMA PanelAlone == ASSUME IInv, UNCHANGED panelVars PROVE PanelTypes'
  BY Types DEF IInv, PanelTypes, panelVars

\* Sessions are left alone by what leaves the rows, the sessions and the players
\* alone; disturbances are never forgotten.
LEMMA SessionFrame ==
    ASSUME IInv, UNCHANGED <<open, events, online, rep>>, dist \subseteq dist',
           \A s \in Servers : row'[s].in = row[s].in
    PROVE  SessionsMatch'
<1> SUFFICES ASSUME NEW s \in Servers
             PROVE  /\ open'[s] \in {0, 1} /\ (open'[s] = 1 => row'[s].in)
                    /\ Steady' => LastWord(s)'
  BY DEF SessionsMatch
<1>1. open[s] \in {0, 1} /\ (open[s] = 1 => row[s].in) /\ (Steady => LastWord(s))
  BY DEF IInv, SessionsMatch
<1>2. Steady' => Steady
  BY DEF Steady
<1>3. LastWord(s)' <=> LastWord(s)
  BY DEF LastWord, Locked
<1> QED
  BY <1>1, <1>2, <1>3

\* A step of a request that leaves game and reports alone.
LEMMA RequestStep ==
    ASSUME IInv, PanelTypes', NEW w \in Requests, NEW j \in Jobs, Go(w, j), j.at # "idle" => j.srv \in Servers,
           queue' \in Seq(Commands), Places', UNCHANGED <<open, game, online, up, events, rep>>, dist \subseteq dist',
           barred' \subseteq Servers, \A s \in Servers : row'[s].in = row[s].in
    PROVE  IInv'
<1>1. JobTypes' /\ JobsPlaced'
  BY JobStep
<1>2. GameTypes' /\ RepTypes'
  BY Types, RepAlone DEF IInv, GameTypes
<1>3. SessionsMatch'
  BY SessionFrame
<1> QED
  BY <1>1, <1>2, <1>3, TypesNext DEF IInv

-----------------------------------------------------------------------------
(* Requests *)

LEMMA BeginInv ==
    ASSUME IInv, NEW w \in Requests, NEW at \in {"flag", "enqueue", "record", "latest"}, NEW op \in Ops, NEW val \in BOOLEAN,
           NEW s \in Servers, NEW name \in Called, Begin(w, at, op, val, s, name),
           net' \in Called, barred' \subseteq Servers
    PROVE  IInv'
<1> DEFINE j == [Idle EXCEPT !.at = at, !.op = op, !.val = val, !.srv = s, !.name = name]
<1>1. j \in Jobs /\ j.at = at /\ j.srv = s
  BY IdleJob DEF Jobs, Ops
<1>2. Go(w, j) /\ calls' = calls + 1 /\ dist \subseteq dist' /\ UNCHANGED <<queue, todo, ran, row, seen, open, game, online, up, events, rep>>
  BY DEF Begin
<1>3. PanelTypes'
  BY <1>2, Types DEF IInv, PanelTypes
<1>4. queue' \in Seq(Commands) /\ Places'
  BY <1>2, QueueAlone
<1> HIDE DEF j
<1> QED
  BY <1>1, <1>2, <1>3, <1>4, RequestStep

LEMMA AskInv ==
    ASSUME IInv, NEW w \in Requests, Ask(w)
    PROVE  IInv'
<1>0. PanelTypes /\ barred \subseteq Servers /\ Names \subseteq Called /\ None \in Called /\ "ban" \in Ops /\ Flags \subseteq Ops
      /\ "kick" \in Ops /\ "network" \in Ops
  BY Types, PlayersAssumption DEF IInv, GameTypes, Called, Ops
<1>1. ASSUME NEW s \in Servers, HandleBanPlayer(w, s) \/ HandleUnbanPlayer(w, s) PROVE IInv'
  <2>1. PICK n \in Names, v \in BOOLEAN : PlayerTarget(s, n) /\ Begin(w, "flag", "ban", v, s, n)
    BY <1>1 DEF HandleBanPlayer, HandleUnbanPlayer
  <2>2. n \in Called /\ net' \in Called /\ barred' \subseteq Servers
    BY <1>0, <2>1 DEF PlayerTarget, PanelTypes
  <2> QED
    BY <1>0, <2>1, <2>2, BeginInv
<1>2. ASSUME NEW s \in Servers, NEW f \in Flags, NEW v \in BOOLEAN, HandleSetFlag(w, s, f, v) PROVE IInv'
  <2>1. PICK n \in Names : PlayerTarget(s, n) /\ Begin(w, "flag", f, v, s, n)
    BY <1>2 DEF HandleSetFlag
  <2>2. n \in Called /\ f \in Ops /\ net' \in Called /\ barred' \subseteq Servers
    BY <1>0, <2>1 DEF PlayerTarget, PanelTypes
  <2> QED
    BY <2>1, <2>2, BeginInv
<1>3. ASSUME NEW s \in Servers, HandleKickPlayer(w, s) PROVE IInv'
  <2>1. PICK n \in Names : PlayerTarget(s, n) /\ Begin(w, "enqueue", "kick", TRUE, s, n)
    BY <1>3 DEF HandleKickPlayer
  <2>2. n \in Called /\ net' \in Called /\ barred' \subseteq Servers
    BY <1>0, <2>1 DEF PlayerTarget, PanelTypes
  <2> QED
    BY <1>0, <2>1, <2>2, BeginInv
<1>4. ASSUME NEW s \in Servers, HandleBanNetworkPlayer(w, s) PROVE IInv'
  <2>1. LatestUsername \in Called /\ net' \in Called /\ barred' \subseteq Servers
    BY <1>0, <1>4 DEF HandleBanNetworkPlayer, LatestUsername, PanelTypes, Row
  <2> QED
    BY <1>0, <1>4, <2>1, BeginInv DEF HandleBanNetworkPlayer
<1>5. ASSUME NEW s \in Servers, HandleUnbanNetworkPlayer(w, s) PROVE IInv'
  <2>1. net \in Called /\ net' \in Called /\ barred' \subseteq Servers
    BY <1>0, <1>5 DEF HandleUnbanNetworkPlayer, PanelTypes
  <2> QED
    BY <1>0, <1>5, <2>1, BeginInv DEF HandleUnbanNetworkPlayer
<1> QED
  BY <1>1, <1>2, <1>3, <1>4, <1>5 DEF Ask

\* A request at another place.
LEMMA JobAt ==
    ASSUME IInv, NEW w \in Requests, NEW at \in {"enqueue", "mark", "fanout"}
    PROVE  /\ job[w] \in Jobs /\ (job[w].at # "idle" => job[w].srv \in Servers)
           /\ [job[w] EXCEPT !.at = at] \in Jobs
           /\ [job[w] EXCEPT !.at = at].at = at /\ [job[w] EXCEPT !.at = at].srv = job[w].srv
<1>1. job[w] \in Jobs /\ (job[w].at # "idle" => job[w].srv \in Servers)
  BY Types DEF IInv, JobTypes, JobsPlaced
<1> QED
  BY <1>1 DEF Jobs

\* A step of a request that only writes rows of the panel.
LEMMA RowStep ==
    ASSUME IInv, PanelTypes', NEW w \in Requests, NEW j \in Jobs, Go(w, j), j.at # "idle" => j.srv \in Servers,
           UNCHANGED <<queueVars, open, gameVars, rep>>, \A s \in Servers : row'[s].in = row[s].in
    PROVE  IInv'
<1>1. UNCHANGED <<queue, todo, ran, dist, game, online, up, events, barred>>
  BY DEF queueVars, gameVars
<1>2. queue' \in Seq(Commands) /\ Places'
  BY <1>1, QueueAlone
<1>3. barred' \subseteq Servers
  BY <1>1, Types DEF IInv, GameTypes
<1> QED
  BY <1>1, <1>2, <1>3, RequestStep

LEMMA UpdateFlagInv ==
    ASSUME IInv, NEW w \in Requests, NEW f \in Flags, NEW v \in BOOLEAN, UpdateFlag(w, f, v)
    PROVE  IInv'
<1>0. PanelTypes /\ job[w].srv \in Servers
  BY Types DEF IInv, JobsPlaced, UpdateFlag, At
<1>1. CASE job[w].live
  <2>1. row' = [row EXCEPT ![job[w].srv].flags = IF v THEN @ \cup {f} ELSE @ \ {f}] /\ UNCHANGED <<seen, net, open, calls>>
    BY <1>1 DEF UpdateFlag
  <2>2. row' \in [Servers -> Row] /\ \A s \in Servers : row'[s].in = row[s].in
    BY <1>0, <2>1 DEF PanelTypes, Row
  <2>3. PanelTypes'
    BY <1>0, <2>1, <2>2 DEF PanelTypes
  <2>4. Go(w, [job[w] EXCEPT !.at = "enqueue"]) /\ UNCHANGED <<queueVars, open, gameVars, rep>>
    BY <1>1 DEF UpdateFlag
  <2> QED
    BY <1>0, <2>2, <2>3, <2>4, JobAt, RowStep
<1>2. CASE ~job[w].live
  <2>1. UNCHANGED panelVars /\ Go(w, Idle) /\ UNCHANGED <<queueVars, open, gameVars, rep>> /\ row' = row
    BY <1>2 DEF UpdateFlag, panelVars
  <2> QED
    BY <2>1, PanelAlone, IdleJob, RowStep
<1> QED
  BY <1>1, <1>2

LEMMA EnqueueInv ==
    ASSUME IInv, NEW w \in Requests, EnqueueConsoleCommand(w) \/ KickPlayer(w)
    PROVE  IInv'
<1>1. Go(w, Idle) /\ UNCHANGED <<todo, ran, dist, panelVars, gameVars, rep>> /\ job[w].at = "enqueue"
  BY DEF EnqueueConsoleCommand, KickPlayer, At
<1>2. Insert(<<Command(job[w])>>) \/ queue' = queue
  BY DEF EnqueueConsoleCommand, KickPlayer
<1>3. job[w] \in Jobs /\ job[w].srv \in Servers
  BY <1>1, JobAt
<1>4. Command(job[w]) \in Commands
  BY <1>3 DEF Command, Commands, Jobs
<1>5. <<Command(job[w])>> \in Seq(Commands)
  BY <1>4
<1>6. queue \in Seq(Commands) /\ Places
  BY DEF IInv, TypeOK
<1>7. queue' \in Seq(Commands) /\ Places'
  BY <1>1, <1>2, <1>5, <1>6, InsertKeeps, QueueAlone
<1>8. PanelTypes' /\ UNCHANGED <<row, open, game, online, up, events, barred>> /\ barred \subseteq Servers
  BY <1>1, PanelAlone, Types DEF panelVars, gameVars, IInv, GameTypes
<1> QED
  BY <1>1, <1>7, <1>8, IdleJob, RequestStep

LEMMA NetworkInv ==
    ASSUME IInv, NEW w \in Requests, BanNetworkPlayer(w) \/ MarkRows(w) \/ UnbanNetworkPlayer(w)
    PROVE  IInv'
<1>0. PanelTypes /\ job[w] \in Jobs /\ (job[w].at # "idle" => job[w].srv \in Servers)
  BY Types, JobAt DEF IInv
<1>1. CASE BanNetworkPlayer(w)
  <2>1. net' \in {net, job[w].name} /\ UNCHANGED <<row, seen, open, calls, queueVars, gameVars, rep>> /\ job[w].at = "record"
    BY <1>1 DEF BanNetworkPlayer, At
  <2>2. PanelTypes'
    BY <1>0, <2>1 DEF PanelTypes, Jobs
  <2>3. Go(w, Idle) \/ Go(w, [job[w] EXCEPT !.at = "mark"])
    BY <1>1 DEF BanNetworkPlayer
  <2> QED
    BY <1>0, <2>1, <2>2, <2>3, IdleJob, JobAt, RowStep
<1>2. CASE MarkRows(w)
  <2>1. row' = [s \in Servers |-> IF ~row[s].in \/ ~job[w].live THEN row[s]
                                 ELSE [row[s] EXCEPT !.flags = IF job[w].val THEN @ \cup {"ban"} ELSE @ \ {"ban"}]]
    BY <1>2 DEF MarkRows
  <2>2. row' \in [Servers -> Row] /\ \A s \in Servers : row'[s].in = row[s].in
    BY <1>0, <2>1, PlayersAssumption DEF PanelTypes, Row
  <2>3. UNCHANGED <<seen, net, open, calls, queueVars, gameVars, rep>> /\ job[w].at = "mark"
    BY <1>2 DEF MarkRows, At
  <2>4. PanelTypes'
    BY <1>0, <2>2, <2>3 DEF PanelTypes
  <2>5. Go(w, Idle) \/ Go(w, [job[w] EXCEPT !.at = "fanout"])
    BY <1>2 DEF MarkRows
  <2> QED
    BY <1>0, <2>2, <2>3, <2>4, <2>5, IdleJob, JobAt, RowStep
<1>3. CASE UnbanNetworkPlayer(w)
  <2> DEFINE n == IF job[w].live THEN LatestUsername ELSE job[w].name
             j == [job[w] EXCEPT !.at = "fanout", !.name = n]
  <2>1. n \in Called
    BY <1>0 DEF LatestUsername, PanelTypes, Row, Jobs
  <2>2. Go(w, j) /\ UNCHANGED <<queueVars, panelVars, gameVars, rep>> /\ job[w].at = "latest"
    BY <1>3 DEF UnbanNetworkPlayer, At
  <2> HIDE DEF n
  <2>3. j \in Jobs /\ j.srv = job[w].srv
    BY <1>0, <2>1 DEF Jobs
  <2> HIDE DEF j
  <2>4. PanelTypes' /\ row' = row /\ open' = open
    BY <2>2, PanelAlone DEF panelVars
  <2> QED
    BY <1>0, <2>2, <2>3, <2>4, RowStep
<1> QED
  BY <1>1, <1>2, <1>3

\* One command for every server.
LEMMA FanOutInv ==
    ASSUME IInv, NEW w \in Requests, FanOutConsoleCommand(w)
    PROVE  IInv'
<1> DEFINE every == CHOOSE q \in [1 .. Cardinality(Servers) -> Servers] : \A s \in Servers : \E i \in DOMAIN q : q[i] = s
           cs == [i \in DOMAIN every |-> [op |-> "ban", val |-> job[w].val, srv |-> every[i], name |-> job[w].name]]
<1>0. job[w] \in Jobs /\ job[w].at = "fanout" /\ job[w].srv \in Servers
  BY JobAt DEF FanOutConsoleCommand, At
<1>1. Cardinality(Servers) \in Nat /\ \E q \in [1 .. Cardinality(Servers) -> Servers] : \A s \in Servers : \E i \in DOMAIN q : q[i] = s
  <2>1. Cardinality(Servers) \in Nat /\ ExistsBijection(1 .. Cardinality(Servers), Servers)
    BY PlayersAssumption, FS_CardinalityType
  <2>2. PICK q : q \in Bijection(1 .. Cardinality(Servers), Servers)
    BY <2>1 DEF ExistsBijection
  <2>3. q \in [1 .. Cardinality(Servers) -> Servers] /\ \A s \in Servers : \E i \in 1 .. Cardinality(Servers) : q[i] = s
    BY <2>2 DEF Bijection, Surjection
  <2> QED
    BY <2>1, <2>3
<1>2. every \in [1 .. Cardinality(Servers) -> Servers]
  BY <1>1
<1>3. Insert(cs) \/ queue' = queue
  BY DEF FanOutConsoleCommand
<1> HIDE DEF every
<1>4. cs \in Seq(Commands)
  <2>1. ASSUME NEW i \in DOMAIN every
        PROVE  [op |-> "ban", val |-> job[w].val, srv |-> every[i], name |-> job[w].name] \in Commands
    BY <1>0, <1>2, PlayersAssumption DEF Commands, Jobs
  <2> QED
    BY <1>1, <1>2, <2>1
<1> HIDE DEF cs
<1>5. Go(w, Idle) \/ Go(w, [job[w] EXCEPT !.at = "mark"])
  BY DEF FanOutConsoleCommand
<1>6. UNCHANGED <<todo, ran, dist, panelVars, gameVars, rep>>
  BY DEF FanOutConsoleCommand
<1>7. queue \in Seq(Commands) /\ Places
  BY DEF IInv, TypeOK
<1>8. queue' \in Seq(Commands) /\ Places'
  BY <1>3, <1>4, <1>6, <1>7, InsertKeeps, QueueAlone
<1>9. PanelTypes' /\ UNCHANGED <<row, open, game, online, up, events, barred>> /\ barred \subseteq Servers
  BY <1>6, PanelAlone, Types DEF panelVars, gameVars, IInv, GameTypes
<1> QED
  BY <1>0, <1>5, <1>6, <1>8, <1>9, IdleJob, JobAt, RequestStep

LEMMA WorkInv ==
    ASSUME IInv, NEW w \in Requests, Work(w)
    PROVE  IInv'
<1>1. "ban" \in Flags
  BY PlayersAssumption
<1> QED
  BY <1>1, UpdateFlagInv, EnqueueInv, NetworkInv, FanOutInv DEF Work, BanPlayer, UnbanPlayer, SetFlag

-----------------------------------------------------------------------------
(* Joins and leaves *)

\* A step that concerns one server.
LEMMA SessionStep ==
    ASSUME IInv, NEW s \in Servers, dist \subseteq dist',
           \A t \in Servers \ {s} : open'[t] = open[t] /\ events'[t] = events[t] /\ online'[t] = online[t]
                                    /\ rep'[t] = rep[t] /\ row'[t].in = row[t].in,
           open'[s] \in {0, 1}, open'[s] = 1 => row'[s].in, Steady' => LastWord(s)'
    PROVE  SessionsMatch'
<1> SUFFICES ASSUME NEW t \in Servers
             PROVE  /\ open'[t] \in {0, 1} /\ (open'[t] = 1 => row'[t].in)
                    /\ Steady' => LastWord(t)'
  BY DEF SessionsMatch
<1>1. CASE t = s
  BY <1>1
<1>2. CASE t # s
  <2>1. open[t] \in {0, 1} /\ (open[t] = 1 => row[t].in) /\ (Steady => LastWord(t))
    BY DEF IInv, SessionsMatch
  <2>2. Steady' => Steady
    BY DEF Steady
  <2>3. LastWord(t)' <=> LastWord(t)
    BY <1>2 DEF LastWord, Locked
  <2> QED
    BY <1>2, <2>1, <2>2, <2>3
<1> QED
  BY <1>1, <1>2

\* What is known of one server.
LEMMA ServerFacts ==
    ASSUME IInv, NEW s \in Servers
    PROVE  /\ open[s] \in {0, 1} /\ (open[s] = 1 => row[s].in) /\ (Steady => LastWord(s))
           /\ row[s] \in Row /\ online[s] \in Called /\ events[s] \in Seq(Event)
           /\ rep[s] \in [name : Called, kick : BOOLEAN]
  BY Types DEF IInv, SessionsMatch, PanelTypes, GameTypes, RepTypes

\* The first event of a log is reported, the last word stays what it was
\* (RecordPlayerEvent in the order of the log).
LEMMA ReportInv ==
    ASSUME IInv, NEW s \in Servers, DaemonPlayerReport(s)
    PROVE  IInv'
<1> DEFINE q == events[s]
           e == q[1]
           r == [k \in 1 .. Len(q) - 1 |-> q[k + 1]]
<1>1. q \in Seq(Event) /\ q # <<>> /\ Len(q) \in Nat \ {0} /\ e \in Event
  BY ServerFacts DEF DaemonPlayerReport
<1>2. r \in Seq(Event) /\ Len(r) = Len(q) - 1 /\ (r # <<>> => Len(q) > 1 /\ r[Len(r)] = q[Len(q)]) /\ (r = <<>> => q[Len(q)] = e)
  <2>1. \A k \in 1 .. Len(q) - 1 : k + 1 \in 1 .. Len(q) /\ q[k + 1] \in Event
    BY <1>1
  <2>2. r \in Seq(Event) /\ Len(r) = Len(q) - 1
    BY <1>1, <2>1
  <2>3. r = <<>> => Len(q) = 1
    <3> HIDE DEF r, q
    <3> QED
      BY <1>1, <2>2
  <2>4. r # <<>> => Len(q) > 1
    BY <1>1, <2>2
  <2>5. Len(q) > 1 => r[Len(r)] = q[Len(q)]
    BY <1>1, <2>2
  <2> QED
    BY <2>2, <2>3, <2>4, <2>5
<1>3. events' = [events EXCEPT ![s] = r] /\ ~Locked(s)
  <2>1. RecordPlayerEvent(s, 1)
    BY DEF DaemonPlayerReport
  <2>2. events' = [events EXCEPT ![s] = [k \in 1 .. Len(@) - 1 |-> @[IF k < 1 THEN k ELSE k + 1]]] /\ ~Locked(s)
    BY <2>1 DEF RecordPlayerEvent
  <2>3. [k \in 1 .. Len(q) - 1 |-> q[IF k < 1 THEN k ELSE k + 1]] = r
    BY <1>1
  <2> QED
    BY <2>2, <2>3
<1>4. UNCHANGED <<queueVars, row, net, calls, game, online, up, barred, job>>
  BY DEF DaemonPlayerReport, RecordPlayerEvent
<1>5. events \in [Servers -> Seq(Event)] /\ rep \in [Servers -> [name : Called, kick : BOOLEAN]] /\ open \in [Servers -> Nat]
  BY Types DEF IInv, GameTypes, RepTypes, PanelTypes
<1> HIDE DEF r
<1>6. events' \in [Servers -> Seq(Event)] /\ events'[s] = r /\ \A t \in Servers \ {s} : events'[t] = events[t]
  BY <1>2, <1>3, <1>5
<1>7. GameTypes'
  BY <1>4, <1>6, Types DEF IInv, GameTypes
<1>8. queue' \in Seq(Commands) /\ Places' /\ JobTypes' /\ JobsPlaced'
  BY <1>4, QueueAlone, JobsAlone DEF queueVars
<1>9. Steady' => Steady /\ (q[Len(q)].act = "join" <=> online[s] # None)
  BY <1>1, <1>4, ServerFacts DEF Steady, queueVars, LastWord
<1>10. CASE e.act = "join"
  <2>1. rep' = [rep EXCEPT ![s] = [name |-> e.name, kick |-> EnforceNetworkBanOnJoin(s)]] /\ UNCHANGED <<seen, open>>
    BY <1>10 DEF DaemonPlayerReport, RecordPlayerEvent
  <2>2. e.name \in Called /\ e.name # None /\ EnforceNetworkBanOnJoin(s) \in BOOLEAN
    BY <1>1, PlayersAssumption DEF Event, Called, EnforceNetworkBanOnJoin
  <2>3. RepTypes' /\ rep'[s] # NoReport /\ \A t \in Servers \ {s} : rep'[t] = rep[t]
    BY <1>5, <2>1, <2>2 DEF RepTypes, NoReport
  <2>4. PanelTypes'
    BY <1>4, <2>1, Types DEF IInv, PanelTypes
  <2>5. Steady' => LastWord(s)'
    BY <1>2, <1>4, <1>6, <1>9, <1>10, <2>3 DEF LastWord, Locked
  <2>6. SessionsMatch'
    BY <1>4, <1>6, <2>1, <2>3, <2>5, ServerFacts, SessionStep DEF queueVars
  <2> QED
    BY <1>7, <1>8, <2>3, <2>4, <2>6, TypesNext DEF IInv
<1>11. CASE e.act # "join"
  <2>1. rep' = rep /\ (IF row[s].in THEN seen' = s /\ open' = [open EXCEPT ![s] = 0] ELSE UNCHANGED <<seen, open>>)
    BY <1>11 DEF DaemonPlayerReport, RecordPlayerEvent, CloseOpenSessions
  <2>2. open' \in [Servers -> Nat] /\ open'[s] = 0 /\ \A t \in Servers \ {s} : open'[t] = open[t]
    <3>1. CASE row[s].in
      BY <1>5, <2>1, <3>1
    <3>2. CASE ~row[s].in
      <4>1. open[s] = 0
        BY <3>2, ServerFacts
      <4> QED
        BY <1>5, <2>1, <3>2, <4>1
    <3> QED
      BY <3>1, <3>2
  <2>3. PanelTypes'
    BY <1>4, <2>1, <2>2, Types DEF IInv, PanelTypes
  <2>4. Steady' => LastWord(s)'
    BY <1>2, <1>3, <1>4, <1>6, <1>9, <1>11, <2>1, <2>2 DEF LastWord, Locked
  <2>5. SessionsMatch'
    BY <1>4, <1>6, <2>1, <2>2, <2>4, SessionStep DEF queueVars
  <2> QED
    BY <1>7, <1>8, <2>1, <2>3, <2>5, RepAlone, TypesNext DEF IInv
<1> QED
  BY <1>10, <1>11

\* A join that commits opens the one session.
LEMMA CommitJoinInv ==
    ASSUME IInv, NEW s \in Servers, CommitJoin(s)
    PROVE  IInv'
<1> DEFINE c == [op |-> "kick", val |-> TRUE, srv |-> s, name |-> rep[s].name]
<1>0. /\ row \in [Servers -> Row] /\ open \in [Servers -> Nat] /\ rep \in [Servers -> [name : Called, kick : BOOLEAN]]
      /\ queue \in Seq(Commands) /\ Places /\ None \in Called
  BY Types DEF IInv, PanelTypes, RepTypes, Called
<1>1. UNCHANGED <<todo, ran, dist, net, calls, gameVars, job>> /\ seen' = s /\ Locked(s)
  BY DEF CommitJoin
<1>2. rep' = [rep EXCEPT ![s] = NoReport] /\ RepTypes'
  BY <1>0 DEF CommitJoin, RepTypes, NoReport
<1>3. row' = [row EXCEPT ![s].in = TRUE, ![s].name = rep[s].name]
  BY DEF CommitJoin
<1>4. row' \in [Servers -> Row] /\ row'[s].in /\ \A t \in Servers \ {s} : row'[t] = row[t]
  BY <1>0, <1>3 DEF Row
<1>5. open' = [[open EXCEPT ![s] = 0] EXCEPT ![s] = @ + 1]
  BY DEF CommitJoin, CloseOpenSessions
<1>6. open' \in [Servers -> Nat] /\ open'[s] = 1 /\ \A t \in Servers \ {s} : open'[t] = open[t]
  BY <1>0, <1>5
<1>7. PanelTypes'
  BY <1>1, <1>4, <1>6, Types DEF IInv, PanelTypes
<1>8. c \in Commands
  BY <1>0 DEF Commands
<1>9. Insert(<<c>>) \/ queue' = queue
  BY DEF CommitJoin
<1> HIDE DEF c
<1>10. queue' \in Seq(Commands) /\ Places'
  <2>1. <<c>> \in Seq(Commands)
    BY <1>8
  <2>2. CASE Insert(<<c>>)
    BY <1>0, <1>1, <2>1, <2>2, InsertKeeps
  <2>3. CASE queue' = queue
    BY <1>1, <2>3, QueueAlone
  <2> QED
    BY <1>9, <2>2, <2>3
<1>11. GameTypes' /\ JobTypes' /\ JobsPlaced' /\ UNCHANGED <<events, online>>
  BY <1>1, GameAlone, JobsAlone DEF gameVars
<1>12. Steady' => LastWord(s)'
  BY <1>0, <1>1, <1>2, <1>6, <1>11, ServerFacts DEF Steady, LastWord, Locked
<1>13. SessionsMatch'
  BY <1>0, <1>1, <1>2, <1>4, <1>6, <1>11, <1>12, SessionStep
<1> QED
  BY <1>2, <1>7, <1>10, <1>11, <1>13, TypesNext DEF IInv

-----------------------------------------------------------------------------
(* The game servers and the daemon *)

\* A log that ends in a given event.
LEMMA Appended ==
    ASSUME NEW q \in Seq(Event), NEW e \in Event
    PROVE  Append(q, e) \in Seq(Event) /\ Append(q, e) # <<>> /\ Append(q, e)[Len(Append(q, e))] = e
  OBVIOUS

\* Whoever comes on a server, or leaves it, is the last word of its log.
LEMMA GameStep ==
    ASSUME IInv, NEW s \in Servers, NEW n \in Called, NEW e \in Event, e.act = "join" <=> n # None,
           online' = [online EXCEPT ![s] = n], events' = [events EXCEPT ![s] = Append(@, e)],
           UNCHANGED <<row, open, rep>>, dist \subseteq dist'
    PROVE  SessionsMatch' /\ online' \in [Servers -> Called] /\ events' \in [Servers -> Seq(Event)]
<1>1. online \in [Servers -> Called] /\ events \in [Servers -> Seq(Event)]
  BY Types DEF IInv, GameTypes
<1>2. Append(events[s], e) \in Seq(Event) /\ Append(events[s], e) # <<>> /\ Append(events[s], e)[Len(Append(events[s], e))] = e
  BY <1>1, Appended
<1>3. online'[s] = n /\ events'[s] = Append(events[s], e) /\ \A t \in Servers \ {s} : events'[t] = events[t] /\ online'[t] = online[t]
  BY <1>1
<1>4. LastWord(s)'
  BY <1>2, <1>3 DEF LastWord
<1>5. SessionsMatch'
  BY <1>3, <1>4, ServerFacts, SessionStep
<1> QED
  BY <1>1, <1>2, <1>5

LEMMA GameJoinInv ==
    ASSUME IInv, NEW s \in Servers, NEW n \in Names, GameJoin(s, n)
    PROVE  IInv'
<1> DEFINE e == [act |-> "join", name |-> n]
<1>1. e \in Event /\ e.act = "join" /\ n \in Called /\ n # None
  BY PlayersAssumption DEF Event, Called
<1>2. online' = [online EXCEPT ![s] = n] /\ events' = [events EXCEPT ![s] = Append(@, e)]
      /\ UNCHANGED <<queue, todo, ran, panelVars, game, up, job, rep>>
  BY DEF GameJoin
<1>3. dist \subseteq dist'
  BY DEF GameJoin, Disturb
<1>4. barred' \subseteq Servers
  BY Types DEF IInv, GameTypes, GameJoin
<1> HIDE DEF e
<1>5. row' = row /\ open' = open /\ rep' = rep
  BY <1>2 DEF panelVars
<1>6. SessionsMatch' /\ online' \in [Servers -> Called] /\ events' \in [Servers -> Seq(Event)]
  BY <1>1, <1>2, <1>3, <1>5, GameStep
<1>7. GameTypes'
  BY <1>2, <1>4, <1>6, Types DEF IInv, GameTypes
<1> QED
  BY <1>2, <1>6, <1>7, PanelAlone, RepAlone, JobsAlone, QueueAlone, TypesNext DEF IInv

\* Whoever is on a server drops off it (a leave, a kick or a ban).
LEMMA DropStep ==
    ASSUME IInv, NEW s \in Servers, online[s] # None, Drops(s), UNCHANGED <<row, open, rep>>, dist \subseteq dist'
    PROVE  SessionsMatch' /\ online' \in [Servers -> Called] /\ events' \in [Servers -> Seq(Event)]
<1> DEFINE e == [act |-> "leave", name |-> online[s]]
<1>1. online[s] \in Names /\ None \in Called
  BY ServerFacts DEF Called
<1>2. e \in Event /\ e.act # "join"
  BY <1>1 DEF Event
<1>3. online' = [online EXCEPT ![s] = None] /\ events' = [events EXCEPT ![s] = Append(@, e)]
  BY DEF Drops
<1> HIDE DEF e
<1> QED
  BY <1>1, <1>2, <1>3, GameStep

LEMMA GameLeaveInv ==
    ASSUME IInv, NEW s \in Servers, GameLeave(s)
    PROVE  IInv'
<1>1. online[s] # None /\ Drops(s) /\ UNCHANGED <<queueVars, panelVars, game, up, barred, job, rep>>
  BY DEF GameLeave
<1>2. UNCHANGED <<queue, todo, ran, dist, row, open, rep>>
  BY <1>1 DEF queueVars, panelVars
<1>3. SessionsMatch' /\ online' \in [Servers -> Called] /\ events' \in [Servers -> Seq(Event)]
  BY <1>1, <1>2, DropStep
<1>4. GameTypes'
  BY <1>1, <1>3, Types DEF IInv, GameTypes
<1> QED
  BY <1>1, <1>2, <1>3, <1>4, PanelAlone, RepAlone, JobsAlone, QueueAlone, TypesNext DEF IInv

LEMMA SendInv ==
    ASSUME IInv, NEW c, SendCommand(c)
    PROVE  IInv'
<1>1. UNCHANGED <<queue, todo, panelVars, up, barred, job, rep>> /\ Running(c, up[c.srv]) /\ dist \subseteq dist'
  BY DEF SendCommand
<1>2. queue \in Seq(Commands) /\ Places
  BY DEF IInv, TypeOK
<1>3. queue' \in Seq(Commands) /\ Places' /\ c \in Commands
  BY <1>1, <1>2, RunKeeps
<1> DEFINE s == c.srv
<1>4. s \in Servers /\ c.op \in Ops /\ c.name \in Called
  BY <1>3 DEF Commands, Ops
<1>5. game \in [Servers -> SUBSET (Ops \X Called)] /\ online \in [Servers -> Called] /\ events \in [Servers -> Seq(Event)]
      /\ up \in [Servers -> BOOLEAN] /\ barred \subseteq Servers
  BY Types DEF IInv, GameTypes
<1>6. game' \in [Servers -> SUBSET (Ops \X Called)]
  <2>1. game' = game \/ game' = [game EXCEPT ![s] = @ \cup {<<c.op, c.name>>}] \/ game' = [game EXCEPT ![s] = @ \ {<<c.op, c.name>>}]
    BY DEF SendCommand
  <2> DEFINE pair == <<c.op, c.name>>
             Held == Ops \X Called
  <2>2. pair \in Held
    BY <1>4
  <2>3. game \in [Servers -> SUBSET Held]
    BY <1>5
  <2>4. game' = game \/ game' = [game EXCEPT ![s] = @ \cup {pair}] \/ game' = [game EXCEPT ![s] = @ \ {pair}]
    BY <2>1
  <2> HIDE DEF pair, Held
  <2>5. game' \in [Servers -> SUBSET Held]
    BY <1>4, <2>2, <2>3, <2>4
  <2> QED
    BY <2>5 DEF Held
<1>7. UNCHANGED <<row, open>>
  BY <1>1 DEF panelVars
<1>8. SessionsMatch' /\ online' \in [Servers -> Called] /\ events' \in [Servers -> Seq(Event)]
  <2>1. CASE up[s] /\ c.op \in {"kick", "ban"} /\ c.val /\ online[s] = c.name
    <3>1. Drops(s)
      BY <2>1 DEF SendCommand
    <3>2. CASE online[s] # None
      BY <1>1, <1>4, <1>7, <3>1, <3>2, DropStep
    <3>3. CASE online[s] = None
      <4>1. online' = online /\ events' = events
        BY <1>4, <1>5, <3>1, <3>3 DEF Drops
      <4> QED
        BY <1>1, <1>5, <1>7, <4>1, SessionFrame
    <3> QED
      BY <3>2, <3>3
  <2>2. CASE ~(up[s] /\ c.op \in {"kick", "ban"} /\ c.val /\ online[s] = c.name)
    <3>1. UNCHANGED <<online, events>>
      BY <2>2 DEF SendCommand
    <3> QED
      BY <1>1, <1>5, <1>7, <3>1, SessionFrame
  <2> QED
    BY <2>1, <2>2
<1>9. GameTypes'
  BY <1>1, <1>5, <1>6, <1>8 DEF GameTypes
<1> QED
  BY <1>1, <1>3, <1>8, <1>9, PanelAlone, RepAlone, JobsAlone, TypesNext DEF IInv

\* A server that ends, and a report that is lost: nothing is claimed any more.
LEMMA StopInv ==
    ASSUME IInv, NEW s \in Servers, NEW kept \in BOOLEAN, UpdateServerStatus(s, kept)
    PROVE  IInv'
<1>1. UNCHANGED <<queue, todo, ran, row, seen, net, calls, events, barred, job, rep>> /\ open' = [open EXCEPT ![s] = 0]
      /\ up' = [up EXCEPT ![s] = FALSE] /\ online' = [online EXCEPT ![s] = None] /\ (game' = game \/ game' = [game EXCEPT ![s] = {}])
  BY DEF UpdateServerStatus, CloseOpenSessions
<1>2. dist \subseteq dist' /\ ~Steady'
  BY DEF UpdateServerStatus, Disturb, Steady
<1>3. PanelTypes /\ GameTypes /\ None \in Called
  BY Types DEF IInv, Called
<1>4. PanelTypes'
  BY <1>1, <1>3 DEF PanelTypes
<1>5. GameTypes'
  BY <1>1, <1>3 DEF GameTypes
<1>6. open'[s] = 0 /\ \A t \in Servers \ {s} : open'[t] = open[t] /\ online'[t] = online[t]
  BY <1>1, <1>3 DEF PanelTypes, GameTypes
<1>7. SessionsMatch'
  BY <1>1, <1>2, <1>6, SessionStep
<1> QED
  BY <1>1, <1>4, <1>5, <1>7, RepAlone, JobsAlone, QueueAlone, TypesNext DEF IInv

LEMMA StartInv ==
    ASSUME IInv, NEW s \in Servers, ServerStarts(s)
    PROVE  IInv'
<1>1. UNCHANGED <<queueVars, panelVars, game, online, events, barred, job, rep>> /\ up' = [up EXCEPT ![s] = TRUE]
  BY DEF ServerStarts
<1>2. UNCHANGED <<queue, todo, ran, dist, row, open>>
  BY <1>1 DEF queueVars, panelVars
<1>3. GameTypes'
  BY <1>1, Types DEF IInv, GameTypes
<1>4. SessionsMatch'
  BY <1>1, <1>2, SessionFrame
<1> QED
  BY <1>1, <1>2, <1>3, <1>4, PanelAlone, RepAlone, JobsAlone, QueueAlone, TypesNext DEF IInv

LEMMA BootsInv ==
    ASSUME IInv, DaemonBoots
    PROVE  IInv'
<1>1. PollerRestarts /\ UNCHANGED <<row, seen, net, calls, game, barred, job, rep>>
  BY DEF DaemonBoots
<1>2. /\ up' = [s \in Servers |-> FALSE] /\ online' = [s \in Servers |-> None]
      /\ events' = [s \in Servers |-> <<>>] /\ (open' = [s \in Servers |-> 0] \/ open' = open)
  BY DEF DaemonBoots, DaemonSelfRegister
<1>3. ~Steady'
  BY <1>1 DEF PollerRestarts, Disturb, Steady
<1>4. queue' \in Seq(Commands) /\ Places'
  <2>1. queue \in Seq(Commands) /\ Places
    BY DEF IInv, TypeOK
  <2> QED
    BY <1>1, <2>1, RestartKeeps
<1>5. PanelTypes /\ GameTypes /\ None \in Called
  BY Types DEF IInv, Called
<1>6. PanelTypes'
  BY <1>1, <1>2, <1>5 DEF PanelTypes
<1>7. GameTypes'
  <2>1. <<>> \in Seq(Event)
    OBVIOUS
  <2> QED
    BY <1>1, <1>2, <1>5, <2>1 DEF GameTypes
<1>8. SessionsMatch'
  BY <1>1, <1>2, <1>3 DEF SessionsMatch, IInv
<1> QED
  BY <1>1, <1>4, <1>6, <1>7, <1>8, RepAlone, JobsAlone, TypesNext DEF IInv

LEMMA LostInv ==
    ASSUME IInv, NEW s \in Servers, ReportLost(s)
    PROVE  IInv'
<1>1. UNCHANGED <<queue, todo, ran, panelVars, game, online, up, barred, job, rep>> /\ events[s] # <<>>
      /\ events' = [events EXCEPT ![s] = Tail(@)]
  BY DEF ReportLost
<1>2. dist \subseteq dist' /\ ~Steady'
  BY DEF ReportLost, Disturb, Steady
<1>3. events \in [Servers -> Seq(Event)] /\ Tail(events[s]) \in Seq(Event)
  BY <1>1, Types DEF IInv, GameTypes
<1>4. events' \in [Servers -> Seq(Event)] /\ \A t \in Servers \ {s} : events'[t] = events[t]
  BY <1>1, <1>3
<1>5. GameTypes'
  BY <1>1, <1>4, Types DEF IInv, GameTypes
<1>6. UNCHANGED <<row, open>>
  BY <1>1 DEF panelVars
<1>7. SessionsMatch'
  BY <1>1, <1>2, <1>4, <1>6, ServerFacts, SessionStep
<1> QED
  BY <1>1, <1>5, <1>7, PanelAlone, RepAlone, JobsAlone, QueueAlone, TypesNext DEF IInv

LEMMA AbortInv ==
    ASSUME IInv, NEW w \in Requests, Abort(w)
    PROVE  IInv'
<1> DEFINE j == [job[w] EXCEPT !.live = FALSE]
<1>1. Go(w, j) /\ UNCHANGED <<queue, todo, ran, panelVars, gameVars, rep>> /\ dist \subseteq dist'
  BY DEF Abort, Disturb
<1>2. job[w] \in Jobs /\ (job[w].at # "idle" => job[w].srv \in Servers)
  BY JobAt
<1>3. j \in Jobs /\ (j.at # "idle" => j.srv \in Servers)
  BY <1>2 DEF Jobs
<1> HIDE DEF j
<1>4. PanelTypes' /\ UNCHANGED <<row, open, game, online, up, events, barred>> /\ barred \subseteq Servers
  BY <1>1, PanelAlone, Types DEF panelVars, gameVars, IInv, GameTypes
<1>5. queue' \in Seq(Commands) /\ Places'
  BY <1>1, QueueAlone
<1> QED
  BY <1>1, <1>3, <1>4, <1>5, RequestStep

\* A step of the queue alone.
LEMMA QueueOnly ==
    ASSUME IInv, Poller \/ AckLost, UNCHANGED <<panelVars, gameVars, job, rep>>
    PROVE  IInv'
<1>1. queue \in Seq(Commands) /\ Places
  BY DEF IInv, TypeOK
<1>2. queue' \in Seq(Commands) /\ Places'
  BY <1>1, FetchKeeps, AckKeeps, LossKeeps DEF Poller
<1>3. dist \subseteq dist'
  BY DEF Poller, GetPendingCommands, AckCommand, AckLost, Disturb
<1>4. UNCHANGED <<row, open, events, online>>
  BY DEF panelVars, gameVars
<1>5. SessionsMatch'
  BY <1>3, <1>4, SessionFrame
<1> QED
  BY <1>2, <1>5, PanelAlone, GameAlone, RepAlone, JobsAlone, TypesNext DEF IInv

-----------------------------------------------------------------------------
(* The invariant *)

LEMMA InitInv == Init => IInv
<1> SUFFICES ASSUME Init PROVE IInv
  OBVIOUS
<1>1. queue = <<>> /\ todo = <<>> /\ ran = "no"
  BY DEF Init, QueueInit
<1>2. queue \in Seq(Commands) /\ Places
  BY <1>1 DEF Places
<1>3. FirstName \in Called /\ None \in Called /\ FirstServer \in Servers
  BY PlayersAssumption DEF Called
<1>4. PanelTypes
  BY <1>3 DEF Init, PanelTypes, Row, NoRow
<1>5. JobTypes /\ JobsPlaced
  BY IdleJob DEF Init, JobTypes, JobsPlaced
<1>6. RepTypes
  BY <1>3 DEF Init, RepTypes, NoReport
<1>7. GameTypes
  <2>1. <<>> \in Seq(Event)
    OBVIOUS
  <2> QED
    BY <1>3, <2>1 DEF Init, GameTypes
<1>8. SessionsMatch
  BY DEF Init, SessionsMatch, LastWord, Locked
<1> QED
  BY <1>2, <1>4, <1>5, <1>6, <1>7, <1>8, Types DEF IInv

LEMMA NextInv == IInv /\ [Next]_vars => IInv'
<1> SUFFICES ASSUME IInv, [Next]_vars PROVE IInv'
  OBVIOUS
<1>1. CASE UNCHANGED vars
  <2>1. UNCHANGED <<queue, todo, ran, dist, row, open, events, online, panelVars, gameVars, job, rep>>
    BY <1>1 DEF vars, queueVars, panelVars, gameVars
  <2>2. SessionsMatch'
    BY <2>1, SessionFrame
  <2> QED
    BY <2>1, <2>2, PanelAlone, GameAlone, RepAlone, JobsAlone, QueueAlone, TypesNext DEF IInv
<1>2. ASSUME NEW w \in Requests, Ask(w) \/ Work(w) \/ Abort(w) PROVE IInv'
  BY <1>2, AskInv, WorkInv, AbortInv
<1>3. ASSUME NEW s \in Servers, Record(s) PROVE IInv'
  BY <1>3, ReportInv, CommitJoinInv DEF Record
<1>4. CASE Polls
  BY <1>4, QueueOnly, SendInv DEF Polls
<1>5. ASSUME NEW s \in Servers,
             (\E n \in Names : GameJoin(s, n)) \/ GameLeave(s) \/ (\E k \in {TRUE, game[s] = {}} : UpdateServerStatus(s, k))
             \/ ServerStarts(s) \/ ReportLost(s)
      PROVE  IInv'
  <2>1. {TRUE, game[s] = {}} \subseteq BOOLEAN
    OBVIOUS
  <2> QED
    BY <1>5, <2>1, GameJoinInv, GameLeaveInv, StopInv, StartInv, LostInv
<1>6. CASE (AckLost /\ UNCHANGED <<panelVars, gameVars, job, rep>>) \/ DaemonBoots
  BY <1>6, QueueOnly, BootsInv
<1> QED
  BY <1>1, <1>2, <1>3, <1>4, <1>5, <1>6 DEF Next

\* The rows, sessions, reports and commands keep their types, the poller's places
\* are places of the queue, and the last word on a server is who is on it.
THEOREM Inductive == Spec => []IInv
  BY InitInv, NextInv, PTL DEF Spec

\* The types of the panel's rows, the reports and the game servers.
THEOREM TypeCorrect == Spec => []TypeOK
<1>1. IInv => TypeOK
  BY DEF IInv
<1> QED
  BY <1>1, Inductive, PTL

\* However joins, leaves, stops, lost reports and restarts interleave, no player
\* ever has two sessions open on a server (RecordPlayerEvent closes what is open
\* in the transaction that opens the next).
THEOREM SessionOpenOnce == Spec => []OneOpenSession
<1>1. IInv => OneOpenSession
  BY DEF IInv, SessionsMatch, OneOpenSession
<1> QED
  BY <1>1, Inductive, PTL

\* With servers that stay up and reports that arrive, the dashboard's count of a
\* server whose reports are through is who is on it (the ordered event queue).
THEOREM SessionsAgreeAlways == Spec => []SessionsAgree
<1>1. IInv => SessionsAgree
  BY DEF IInv, SessionsMatch, SessionsAgree, PlayerActivity, LastWord, Steady
<1> QED
  BY <1>1, Inductive, PTL

-----------------------------------------------------------------------------
(* The network ban *)

\* What is still to be run stays so.
PendingStays == \A c : Pending(c) => Pending(c)'

LEMMA PendingSame == ASSUME UNCHANGED <<queue, todo, ran>> PROVE PendingStays
  BY DEF PendingStays, Pending

LEMMA PendingInsert ==
    ASSUME IInv, NEW cs \in Seq(Commands), Insert(cs), UNCHANGED <<todo, ran>>
    PROVE  PendingStays /\ \A p \in 1 .. Len(cs) : Pending(cs[p])'
<1>0. PICK n, m : n = Len(queue) /\ m = Len(queue')
  OBVIOUS
<1>1. queue \in Seq(Commands) /\ queue' = queue \o cs /\ Places
  BY DEF IInv, TypeOK, Insert
<1>2. n \in Nat /\ Len(cs) \in Nat /\ m = n + Len(cs) /\ \A i \in 1 .. n : queue'[i] = queue[i]
  BY <1>0, <1>1
<1>3. PendingStays
  BY <1>0, <1>2 DEF PendingStays, Pending
<1>4. ASSUME NEW p \in 1 .. Len(cs) PROVE Pending(cs[p])'
  <2>1. PICK i, c : i = n + p /\ c = cs[p]
    OBVIOUS
  <2>2. i \in 1 .. m /\ i > n /\ queue'[i] = c
    BY <1>0, <1>1, <1>2, <2>1
  <2>3. ran # "no" => Head(todo) \in 1 .. n
    BY <1>0, <1>1 DEF Places
  <2>4. ran' # "no" => Head(todo') # i
    BY <1>2, <2>2, <2>3
  <2> QED
    BY <1>0, <2>1, <2>2, <2>4 DEF Pending, Insert
<1> QED
  BY <1>3, <1>4

LEMMA PendingPoll ==
    ASSUME IInv, Poller \/ AckLost \/ PollerRestarts
    PROVE  PendingStays
<1>0. queue \in Seq(Commands) /\ Places
  BY DEF IInv, TypeOK
<1>1. CASE GetPendingCommands
  BY <1>0, <1>1 DEF GetPendingCommands, PendingStays, Pending, Places
<1>2. CASE AckLost \/ PollerRestarts
  BY <1>2 DEF AckLost, PollerRestarts, PendingStays, Pending
<1>3. CASE AckCommand
  <2>0. PICK n, m, p : n = Len(queue) /\ m = Len(queue') /\ p = Head(todo)
    OBVIOUS
  <2>1. n \in Nat /\ p \in 1 .. n /\ ran # "no" /\ ran' = "no"
    BY <1>0, <1>3, <2>0 DEF AckCommand, Places
  <2>2. queue' = [i \in 1 .. n - 1 |-> queue[IF i < p THEN i ELSE i + 1]]
    BY <1>3, <2>0 DEF AckCommand, Settle
  <2>3. m = n - 1
    BY <2>0, <2>1, <2>2
  <2>4. ASSUME NEW c, NEW i \in 1 .. n, queue[i] = c, p # i PROVE \E k \in 1 .. m : queue'[k] = c
    <3>1. CASE i < p
      BY <2>1, <2>2, <2>3, <2>4, <3>1
    <3>2. CASE i > p
      <4>1. i - 1 \in 1 .. m /\ ~(i - 1 < p) /\ (i - 1) + 1 = i
        BY <2>1, <2>3, <3>2
      <4> QED
        BY <2>2, <2>3, <2>4, <4>1
    <3> QED
      BY <2>1, <2>4, <3>1, <3>2
  <2> QED
    BY <2>0, <2>1, <2>4 DEF PendingStays, Pending
<1> QED
  BY <1>1, <1>2, <1>3 DEF Poller

\* Only the command that runs is pending no more.
LEMMA PendingRun ==
    ASSUME IInv, NEW d, NEW ok, Running(d, ok), UNCHANGED <<queue, todo>>
    PROVE  \A c : c # d /\ Pending(c) => Pending(c)'
  BY DEF Running, Pending

\* Who is to be kicked still is.
LEMMA LeavingKept ==
    ASSUME NEW s \in Servers, online'[s] = online[s], events'[s] = events[s], rep'[s] = rep[s], PendingStays, Leaving(s)
    PROVE  Leaving(s)'
<1>1. PICK c : c = [op |-> "kick", val |-> TRUE, srv |-> s, name |-> online[s]]
  OBVIOUS
<1>2. CASE Pending(c)
  <2>1. Pending(c)'
    BY <1>2 DEF PendingStays
  <2> QED
    BY <1>1, <2>1 DEF Leaving, Pending
<1>3. CASE ~Pending(c)
  BY <1>1, <1>3 DEF Leaving
<1> QED
  BY <1>2, <1>3

LEMMA LeavingQueued ==
    ASSUME NEW s \in Servers, NEW c, c = [op |-> "kick", val |-> TRUE, srv |-> s, name |-> online'[s]], Pending(c)'
    PROVE  Leaving(s)'
  BY DEF Leaving, Pending

LEMMA BarredKept ==
    ASSUME IInv, BarredLeave, UNCHANGED <<online, events, rep, net, barred>>, dist \subseteq dist', PendingStays
    PROVE  BarredLeave'
<1>1. barred \subseteq Servers
  BY DEF IInv, TypeOK
<1>2. ASSUME NEW s \in barred, Leaving(s) PROVE Leaving(s)'
  BY <1>1, <1>2, LeavingKept
<1> QED
  BY <1>2 DEF BarredLeave

LEMMA PresentKept ==
    ASSUME PresentLeave, UNCHANGED <<online, net, barred>>, dist \subseteq dist', PendingStays,
           \A w \in Requests : job[w].at \in {"mark", "fanout"} /\ job[w].val => job'[w].at \in {"mark", "fanout"} /\ job'[w].val
    PROVE  PresentLeave'
<1>1. ASSUME NEW s \in Servers, BanComes(s) PROVE BanComes(s)'
  BY <1>1 DEF BanComes, PendingStays
<1> QED
  BY <1>1 DEF PresentLeave

\* A step that leaves the game, the reports and the ban alone.
LEMMA NamesKept ==
    ASSUME IInv, OneName, UNCHANGED <<online, events, rep, seen>>, dist \subseteq dist',
           \A s \in Servers : row'[s].in = row[s].in /\ row'[s].name = row[s].name,
           \A w \in Requests : "renamed" \notin dist /\ job'[w].at \in {"record", "mark", "fanout"} /\ job'[w].val => job'[w].name = FirstName
    PROVE  OneName'
<1>1. seen \in Servers
  BY DEF IInv, TypeOK
<1> QED
  BY <1>1 DEF OneName, Locked

LEMMA Went ==
    ASSUME IInv, NEW w \in Requests, NEW j, Go(w, j)
    PROVE  job'[w] = j /\ \A v \in Requests : v # w => job'[v] = job[v]
  BY DEF IInv, TypeOK, Go

\* A request goes on to j, which is as good as j is.
LEMMA BanRequest ==
    ASSUME IInv, BanSafe, NEW w \in Requests, NEW j, Go(w, j), UNCHANGED <<online, up, events, rep, seen>>, dist \subseteq dist',
           \A s \in Servers : row'[s].in = row[s].in /\ row'[s].name = row[s].name,
           j.at = "record" => j.val, j.at = "latest" => ~j.val, "abort" \notin dist' => j.live,
           "renamed" \notin dist /\ j.at \in {"record", "mark", "fanout"} /\ j.val => j.name = FirstName
    PROVE  DownIsEmpty' /\ OneName' /\ NetworkJobs'
<1>1. job'[w] = j /\ \A v \in Requests : v # w => job'[v] = job[v]
  BY Went
<1>2. DownIsEmpty'
  BY DEF BanSafe, DownIsEmpty
<1>3. OneName
  BY DEF BanSafe
<1>4. \A v \in Requests : "renamed" \notin dist /\ job'[v].at \in {"record", "mark", "fanout"} /\ job'[v].val => job'[v].name = FirstName
  BY <1>1, <1>3 DEF OneName
<1>5. OneName'
  BY <1>3, <1>4, NamesKept
<1>6. NetworkJobs'
  <2> SUFFICES ASSUME NEW v \in Requests
               PROVE  /\ job'[v].at = "record" => job'[v].val
                      /\ job'[v].at = "latest" => ~job'[v].val
                      /\ "abort" \notin dist' => job'[v].live
    BY DEF NetworkJobs, At
  <2> QED
    BY <1>1 DEF BanSafe, NetworkJobs, At
<1> QED
  BY <1>2, <1>5, <1>6

\* The same, of a request that is not about to ban.
LEMMA BanElse ==
    ASSUME IInv, BanSafe, NEW w \in Requests, NEW j, Go(w, j), UNCHANGED <<online, up, events, rep, seen, net, barred>>,
           dist \subseteq dist', PendingStays, \A s \in Servers : row'[s].in = row[s].in /\ row'[s].name = row[s].name,
           j.at = "record" => j.val, j.at = "latest" => ~j.val, "abort" \notin dist' => j.live,
           "renamed" \notin dist /\ j.at \in {"record", "mark", "fanout"} /\ j.val => j.name = FirstName,
           job[w].at \in {"mark", "fanout"} /\ job[w].val => j.at \in {"mark", "fanout"} /\ j.val
    PROVE  BanSafe'
<1>1. DownIsEmpty' /\ OneName' /\ NetworkJobs'
  BY BanRequest
<1>2. BarredLeave'
  BY BarredKept DEF BanSafe
<1>3. \A v \in Requests : job[v].at \in {"mark", "fanout"} /\ job[v].val => job'[v].at \in {"mark", "fanout"} /\ job'[v].val
  BY Went
<1>4. PresentLeave'
  BY <1>3, PresentKept DEF BanSafe
<1> QED
  BY <1>1, <1>2, <1>4 DEF BanSafe

LEMMA AskBan ==
    ASSUME IInv, BanSafe, NEW w \in Requests, Ask(w)
    PROVE  BanSafe'
<1>1. PICK at, op, val, s, name :
        /\ Begin(w, at, op, val, s, name) /\ at \in {"flag", "enqueue", "record", "latest"}
        /\ at = "record" => val /\ name = row[seen].name
        /\ at = "latest" => ~val
        /\ UNCHANGED <<net, barred>> \/ (net' = None /\ barred' = {})
  <2>1. ASSUME NEW s \in Servers, HandleBanPlayer(w, s) \/ HandleUnbanPlayer(w, s) \/ HandleKickPlayer(w, s)
                                  \/ \E f \in Flags, v \in BOOLEAN : HandleSetFlag(w, s, f, v)
        PROVE  \E at, op, val, name : /\ Begin(w, at, op, val, s, name) /\ at \in {"flag", "enqueue"}
                                      /\ UNCHANGED <<net, barred>>
    BY <2>1 DEF HandleBanPlayer, HandleUnbanPlayer, HandleSetFlag, HandleKickPlayer, PlayerTarget
  <2>2. ASSUME NEW s \in Servers, HandleBanNetworkPlayer(w, s)
        PROVE  Begin(w, "record", "network", TRUE, s, row[seen].name) /\ UNCHANGED <<net, barred>>
    BY <2>2 DEF HandleBanNetworkPlayer, LatestUsername
  <2>3. ASSUME NEW s \in Servers, HandleUnbanNetworkPlayer(w, s)
        PROVE  Begin(w, "latest", "network", FALSE, s, net) /\ net' = None /\ barred' = {}
    BY <2>3 DEF HandleUnbanNetworkPlayer
  <2>4. PICK s \in Servers :
          \/ HandleBanPlayer(w, s) \/ HandleUnbanPlayer(w, s) \/ HandleKickPlayer(w, s)
          \/ \E f \in Flags, v \in BOOLEAN : HandleSetFlag(w, s, f, v)
          \/ HandleBanNetworkPlayer(w, s) \/ HandleUnbanNetworkPlayer(w, s)
    BY DEF Ask
  <2>5. CASE HandleBanNetworkPlayer(w, s)
    <3>1. PICK at, val, name : at = "record" /\ val = TRUE /\ name = row[seen].name
      OBVIOUS
    <3>2. Begin(w, at, "network", val, s, name) /\ UNCHANGED <<net, barred>>
      BY <2>2, <2>5, <3>1
    <3>3. at \in {"flag", "enqueue", "record", "latest"} /\ val /\ at # "latest"
      BY <3>1
    <3> QED
      BY <3>1, <3>2, <3>3
  <2>6. CASE HandleUnbanNetworkPlayer(w, s)
    <3>1. PICK at, val : at = "latest" /\ val = FALSE
      OBVIOUS
    <3>2. Begin(w, at, "network", val, s, net) /\ net' = None /\ barred' = {}
      BY <2>3, <2>6, <3>1
    <3>3. at \in {"flag", "enqueue", "record", "latest"} /\ ~val /\ at # "record"
      BY <3>1
    <3> QED
      BY <3>2, <3>3
  <2>7. CASE HandleBanPlayer(w, s) \/ HandleUnbanPlayer(w, s) \/ HandleKickPlayer(w, s)
             \/ \E f \in Flags, v \in BOOLEAN : HandleSetFlag(w, s, f, v)
    <3>1. PICK at, op, val, name : Begin(w, at, op, val, s, name) /\ at \in {"flag", "enqueue"} /\ UNCHANGED <<net, barred>>
      BY <2>1, <2>7
    <3>2. at # "record" /\ at # "latest"
      BY <3>1
    <3> QED
      BY <3>1, <3>2
  <2> QED
    BY <2>4, <2>5, <2>6, <2>7
<1>2. PICK j : j = [Idle EXCEPT !.at = at, !.op = op, !.val = val, !.srv = s, !.name = name]
  OBVIOUS
<1>3. j.at = at /\ j.val = val /\ j.name = name /\ j.live
  BY <1>2 DEF Idle
<1>4. /\ Go(w, j) /\ job[w] = Idle /\ dist \subseteq dist'
      /\ UNCHANGED <<queue, todo, ran, row, online, up, events, rep, seen>>
  BY <1>1, <1>2 DEF Begin
<1>5. job[w].at = "idle"
  BY <1>4 DEF Idle
<1>6. "renamed" \notin dist /\ at = "record" => name = FirstName
  <2>1. seen \in Servers
    BY DEF IInv, TypeOK
  <2> QED
    BY <1>1, <2>1 DEF BanSafe, OneName
<1>7. CASE UNCHANGED <<net, barred>>
  BY <1>1, <1>3, <1>4, <1>5, <1>6, <1>7, PendingSame, BanElse
<1>8. CASE net' = None /\ barred' = {}
  <2>1. DownIsEmpty' /\ OneName' /\ NetworkJobs'
    BY <1>1, <1>3, <1>4, <1>6, BanRequest
  <2>2. BarredLeave' /\ PresentLeave'
    BY <1>8 DEF BarredLeave, PresentLeave
  <2> QED
    BY <2>1, <2>2 DEF BanSafe
<1> QED
  BY <1>1, <1>7, <1>8

\* One command for every server (FanOutConsoleCommand).
LEMMA FanOutAll ==
    ASSUME IInv, NEW w \in Requests, FanOutConsoleCommand(w), job[w].live
    PROVE  \E cs \in Seq(Commands) :
              /\ Insert(cs)
              /\ \A i \in 1 .. Len(cs) : cs[i].op = "ban" /\ cs[i].val = job[w].val /\ cs[i].name = job[w].name
              /\ \A s \in Servers : \E i \in 1 .. Len(cs) : cs[i] = [op |-> "ban", val |-> job[w].val, srv |-> s, name |-> job[w].name]
<1> DEFINE every == CHOOSE q \in [1 .. Cardinality(Servers) -> Servers] : \A s \in Servers : \E i \in DOMAIN q : q[i] = s
           cs == [i \in DOMAIN every |-> [op |-> "ban", val |-> job[w].val, srv |-> every[i], name |-> job[w].name]]
<1>0. job[w] \in Jobs
  BY JobAt
<1>1. Cardinality(Servers) \in Nat /\ \E q \in [1 .. Cardinality(Servers) -> Servers] : \A s \in Servers : \E i \in DOMAIN q : q[i] = s
  <2>1. Cardinality(Servers) \in Nat /\ ExistsBijection(1 .. Cardinality(Servers), Servers)
    BY PlayersAssumption, FS_CardinalityType
  <2>2. PICK q : q \in Bijection(1 .. Cardinality(Servers), Servers)
    BY <2>1 DEF ExistsBijection
  <2>3. q \in [1 .. Cardinality(Servers) -> Servers] /\ \A s \in Servers : \E i \in 1 .. Cardinality(Servers) : q[i] = s
    BY <2>2 DEF Bijection, Surjection
  <2> QED
    BY <2>1, <2>3
<1>2. every \in [1 .. Cardinality(Servers) -> Servers] /\ \A s \in Servers : \E i \in DOMAIN every : every[i] = s
  BY <1>1
<1>3. Insert(cs)
  BY DEF FanOutConsoleCommand
<1> HIDE DEF every
<1>4. cs \in Seq(Commands) /\ Len(cs) = Cardinality(Servers)
  <2>1. ASSUME NEW i \in DOMAIN every
        PROVE  [op |-> "ban", val |-> job[w].val, srv |-> every[i], name |-> job[w].name] \in Commands
    BY <1>0, <1>2, PlayersAssumption DEF Commands, Jobs
  <2> QED
    BY <1>1, <1>2, <2>1
<1>5. \A i \in 1 .. Len(cs) : cs[i] = [op |-> "ban", val |-> job[w].val, srv |-> every[i], name |-> job[w].name]
  BY <1>2, <1>4
<1>6. \A s \in Servers : \E i \in 1 .. Len(cs) : every[i] = s
  BY <1>2, <1>4
<1> HIDE DEF cs
<1> QED
  BY <1>3, <1>4, <1>5, <1>6

LEMMA WorkBan ==
    ASSUME IInv, BanSafe, NEW w \in Requests, Work(w)
    PROVE  BanSafe'
<1>0. /\ job[w] \in Jobs /\ Idle.at = "idle" /\ Idle.live
      /\ \A at \in {"enqueue", "mark", "fanout"} : LET j == [job[w] EXCEPT !.at = at] IN
            j.at = at /\ j.val = job[w].val /\ j.name = job[w].name /\ j.live = job[w].live
  <2>1. job[w] \in Jobs
    BY JobAt
  <2> QED
    BY <2>1 DEF Jobs, Idle
<1>a. /\ "abort" \notin dist => job[w].live
      /\ At(w, "record") => job[w].val
      /\ At(w, "latest") => ~job[w].val
      /\ "renamed" \notin dist /\ job[w].at \in {"record", "mark", "fanout"} /\ job[w].val => job[w].name = FirstName
  BY DEF BanSafe, NetworkJobs, OneName
<1>1. ASSUME NEW f \in Flags, NEW v \in BOOLEAN, UpdateFlag(w, f, v) PROVE BanSafe'
  <2>1. job[w].at = "flag" /\ UNCHANGED <<queue, todo, ran, dist, seen, net, online, up, events, barred, rep>>
    BY <1>1 DEF UpdateFlag, At, queueVars, gameVars
  <2>2. \A s \in Servers : row'[s].in = row[s].in /\ row'[s].name = row[s].name
    <3>1. row \in [Servers -> Row]
      BY Types DEF IInv, PanelTypes
    <3> QED
      BY <1>1, <3>1 DEF UpdateFlag, Row
  <2>3. Go(w, Idle) \/ (job[w].live /\ Go(w, [job[w] EXCEPT !.at = "enqueue"]))
    BY <1>1 DEF UpdateFlag
  <2>4. PICK j : Go(w, j) /\ j.at \in {"idle", "enqueue"} /\ ("abort" \notin dist => j.live)
    BY <1>0, <1>a, <2>3
  <2> QED
    BY <2>1, <2>2, <2>4, PendingSame, BanElse
<1>2. CASE EnqueueConsoleCommand(w) \/ KickPlayer(w)
  <2>1. /\ job[w].at = "enqueue" /\ Go(w, Idle)
        /\ UNCHANGED <<todo, ran, dist, row, seen, net, online, up, events, barred, rep>>
    BY <1>2 DEF EnqueueConsoleCommand, KickPlayer, At, panelVars, gameVars
  <2>2. Insert(<<Command(job[w])>>) \/ queue' = queue
    BY <1>2 DEF EnqueueConsoleCommand, KickPlayer
  <2>3. <<Command(job[w])>> \in Seq(Commands)
    <3>1. job[w].srv \in Servers
      BY <2>1, JobAt
    <3>2. Command(job[w]) \in Commands
      BY <1>0, <3>1 DEF Command, Commands, Jobs
    <3> QED
      BY <3>2
  <2>4. PendingStays
    BY <2>1, <2>2, <2>3, PendingInsert, PendingSame
  <2> QED
    BY <1>0, <2>1, <2>4, BanElse
<1>3. CASE BanNetworkPlayer(w)
  <2>1. /\ job[w].at = "record" /\ job[w].val
        /\ UNCHANGED <<queue, todo, ran, dist, row, seen, online, up, events, barred, rep>>
    BY <1>3, <1>a DEF BanNetworkPlayer, At, queueVars, gameVars
  <2>2. CASE ~job[w].live
    <3>1. Go(w, Idle) /\ net' = net
      BY <1>3, <2>2 DEF BanNetworkPlayer
    <3> QED
      BY <1>0, <2>1, <3>1, PendingSame, BanElse
  <2>3. CASE job[w].live
    <3>1. Go(w, [job[w] EXCEPT !.at = "mark"]) /\ net' = (IF net = None THEN job[w].name ELSE net)
      BY <1>3, <2>3 DEF BanNetworkPlayer
    <3>2. PICK j : Go(w, j) /\ j.at = "mark" /\ j.val /\ j.live /\ j.name = job[w].name
      BY <1>0, <2>1, <2>3, <3>1
    <3>3. DownIsEmpty' /\ OneName' /\ NetworkJobs'
      BY <1>a, <2>1, <3>2, BanRequest
    <3>4. job'[w].at = "mark" /\ job'[w].val
      BY <3>2, Went
    <3>5. PresentLeave'
      BY <3>4 DEF PresentLeave, BanComes
    <3>6. BarredLeave'
      <4>1. CASE net' = net
        BY <2>1, <4>1, PendingSame, BarredKept DEF BanSafe
      <4>2. CASE net' # net
        BY <2>1, <3>1, <4>2 DEF BanSafe, BarredLeave
      <4> QED
        BY <4>1, <4>2
    <3> QED
      BY <3>3, <3>5, <3>6 DEF BanSafe
  <2> QED
    BY <2>2, <2>3
<1>4. CASE MarkRows(w)
  <2>1. job[w].at = "mark" /\ UNCHANGED <<queue, todo, ran, dist, seen, net, online, up, events, barred, rep>>
    BY <1>4 DEF MarkRows, At, queueVars, gameVars
  <2>2. \A s \in Servers : row'[s].in = row[s].in /\ row'[s].name = row[s].name
    <3>1. row \in [Servers -> Row]
      BY Types DEF IInv, PanelTypes
    <3> QED
      BY <1>4, <3>1 DEF MarkRows, Row
  <2>3. CASE job[w].live /\ job[w].val
    <3>1. Go(w, [job[w] EXCEPT !.at = "fanout"])
      BY <1>4, <2>3 DEF MarkRows
    <3>2. PICK j : Go(w, j) /\ j.at = "fanout" /\ j.val /\ j.live /\ j.name = job[w].name
      BY <1>0, <2>3, <3>1
    <3>3. "renamed" \notin dist => j.name = FirstName
      BY <1>a, <2>1, <2>3, <3>2
    <3> QED
      BY <2>1, <2>2, <3>2, <3>3, PendingSame, BanElse
  <2>4. CASE ~(job[w].live /\ job[w].val)
    <3>1. Go(w, Idle)
      BY <1>4, <2>4 DEF MarkRows
    <3>2. DownIsEmpty' /\ OneName' /\ NetworkJobs'
      BY <1>0, <2>1, <2>2, <3>1, BanRequest
    <3>3. BarredLeave'
      BY <2>1, PendingSame, BarredKept DEF BanSafe
    <3>4. PresentLeave'
      <4>1. CASE "abort" \in dist
        BY <2>1, <4>1 DEF PresentLeave
      <4>2. CASE "abort" \notin dist
        <5>1. ~job[w].val
          BY <1>a, <2>4, <4>2
        <5> QED
          BY <2>1, <3>1, <5>1, Went, PendingSame, PresentKept DEF BanSafe
      <4> QED
        BY <4>1, <4>2
    <3> QED
      BY <3>2, <3>3, <3>4 DEF BanSafe
  <2> QED
    BY <2>3, <2>4
<1>5. CASE UnbanNetworkPlayer(w)
  <2>1. PICK n : Go(w, [job[w] EXCEPT !.at = "fanout", !.name = n])
    BY <1>5 DEF UnbanNetworkPlayer
  <2>2. job[w].at = "latest" /\ UNCHANGED <<queue, todo, ran, dist, row, seen, net, online, up, events, barred, rep>>
    BY <1>5 DEF UnbanNetworkPlayer, At, queueVars, panelVars, gameVars
  <2>3. PICK j : Go(w, j) /\ j.at = "fanout" /\ ~j.val /\ j.live = job[w].live
    <3>1. ~job[w].val
      BY <1>a, <2>2 DEF At
    <3>2. PICK j : j = [job[w] EXCEPT !.at = "fanout", !.name = n]
      OBVIOUS
    <3>3. j.at = "fanout" /\ j.val = job[w].val /\ j.live = job[w].live
      BY <1>0, <3>2 DEF Jobs
    <3> QED
      BY <2>1, <3>1, <3>2, <3>3
  <2> QED
    BY <1>a, <2>2, <2>3, PendingSame, BanElse
<1>6. CASE FanOutConsoleCommand(w)
  <2>1. job[w].at = "fanout" /\ UNCHANGED <<todo, ran, dist, row, seen, net, online, up, events, barred, rep>>
    BY <1>6 DEF FanOutConsoleCommand, At, panelVars, gameVars
  <2>2. PICK v, n : v = job[w].val /\ n = job[w].name
    OBVIOUS
  <2>3. PendingStays /\ (job[w].live => \A s \in Servers : Pending([op |-> "ban", val |-> v, srv |-> s, name |-> n])')
    <3>1. CASE job[w].live
      <4>1. PICK cs \in Seq(Commands) :
              /\ Insert(cs)
              /\ \A s \in Servers : \E i \in 1 .. Len(cs) : cs[i] = [op |-> "ban", val |-> v, srv |-> s, name |-> n]
        BY <1>6, <2>2, <3>1, FanOutAll
      <4>2. PendingStays /\ \A i \in 1 .. Len(cs) : Pending(cs[i])'
        BY <2>1, <4>1, PendingInsert
      <4> QED
        BY <4>1, <4>2
    <3>2. CASE ~job[w].live
      BY <1>6, <2>1, <3>2, PendingSame DEF FanOutConsoleCommand
    <3> QED
      BY <3>1, <3>2
  <2>4. PICK j : /\ Go(w, j) /\ j.at \in {"idle", "mark"} /\ (j.at = "mark" => ~job[w].val /\ ~j.val)
                 /\ ("abort" \notin dist => j.live)
    <3>1. CASE job[w].val
      BY <1>0, <1>6, <3>1 DEF FanOutConsoleCommand
    <3>2. CASE ~job[w].val
      <4>1. Go(w, [job[w] EXCEPT !.at = "mark"])
        BY <1>6, <3>2 DEF FanOutConsoleCommand
      <4> QED
        BY <1>0, <1>a, <3>2, <4>1
    <3> QED
      BY <3>1, <3>2
  <2>5. DownIsEmpty' /\ OneName' /\ NetworkJobs'
    BY <2>1, <2>4, BanRequest
  <2>6. BarredLeave'
    BY <2>1, <2>3, BarredKept DEF BanSafe
  <2>7. PresentLeave'
    <3>1. CASE ~job[w].val
      BY <2>1, <2>3, <2>4, <3>1, Went, PresentKept DEF BanSafe
    <3>2. CASE job[w].val /\ dist \cap {"abort", "renamed"} = {}
      <4>1. job[w].live /\ v = TRUE /\ n = FirstName
        <5>1. job[w].val = TRUE
          BY <1>0, <3>2 DEF Jobs
        <5> QED
          BY <1>a, <2>1, <2>2, <3>2, <5>1
      <4> QED
        BY <2>3, <4>1 DEF PresentLeave, BanComes
    <3>3. CASE dist \cap {"abort", "renamed"} # {}
      BY <2>1, <3>3 DEF PresentLeave
    <3> QED
      BY <3>1, <3>2, <3>3
  <2> QED
    BY <2>5, <2>6, <2>7 DEF BanSafe
<1> QED
  BY <1>1, <1>2, <1>3, <1>4, <1>5, <1>6, PlayersAssumption DEF Work, BanPlayer, UnbanPlayer, SetFlag

\* A join under the ban is recorded with a kick.
LEMMA ReportBan ==
    ASSUME IInv, BanSafe, NEW s \in Servers, DaemonPlayerReport(s)
    PROVE  BanSafe'
<1>0. /\ row \in [Servers -> Row] /\ seen \in Servers /\ events \in [Servers -> Seq(Event)] /\ barred \subseteq Servers
      /\ rep \in [Servers -> [name : Called, kick : BOOLEAN]] /\ online \in [Servers -> Called]
  BY Types DEF IInv, PanelTypes, RepTypes, GameTypes
<1>1. PICK n, e : n = Len(events[s]) /\ e = events[s][1]
  OBVIOUS
<1>2. n \in Nat /\ n >= 1 /\ e \in Event
  BY <1>0, <1>1 DEF DaemonPlayerReport
<1>3. /\ rep[s] = NoReport /\ UNCHANGED <<queue, todo, ran, dist, row, net, online, up, barred, job>>
      /\ events' = [events EXCEPT ![s] = [k \in 1 .. n - 1 |-> events[s][IF k < 1 THEN k ELSE k + 1]]]
      /\ rep' = rep \/ (e.act = "join" /\ rep' = [rep EXCEPT ![s] = [name |-> e.name, kick |-> net # None]])
      /\ e.act = "join" => rep' = [rep EXCEPT ![s] = [name |-> e.name, kick |-> net # None]]
      /\ seen' = seen \/ (row[s].in /\ seen' = s)
  BY <1>1 DEF DaemonPlayerReport, RecordPlayerEvent, Locked, EnforceNetworkBanOnJoin, queueVars
<1>4. /\ \A t \in Servers : t # s => events'[t] = events[t] /\ rep'[t] = rep[t]
      /\ Len(events'[s]) = n - 1 /\ \A k \in 1 .. n - 1 : events'[s][k] = events[s][k + 1]
  BY <1>0, <1>2, <1>3
<1>5. DownIsEmpty' /\ NetworkJobs'
  BY <1>3 DEF BanSafe, DownIsEmpty, NetworkJobs, At
<1>6. OneName'
  <2>1. row'[seen'].in
    BY <1>3 DEF BanSafe, OneName
  <2>2. ASSUME "renamed" \notin dist, NEW t \in Servers
        PROVE  (rep'[t] # NoReport => rep'[t].name = FirstName) /\ \A i \in 1 .. Len(events'[t]) : events'[t][i].name = FirstName
    <3>1. (rep[t] # NoReport => rep[t].name = FirstName) /\ \A i \in 1 .. Len(events[t]) : events[t][i].name = FirstName
      BY <2>2 DEF BanSafe, OneName, Locked
    <3>2. CASE t # s
      BY <1>4, <3>1, <3>2
    <3>3. CASE t = s
      <4>1. e.name = FirstName
        BY <1>1, <1>2, <3>1, <3>3
      <4>2. rep'[t] # NoReport => rep'[t].name = FirstName
        BY <1>0, <1>3, <3>1, <3>3, <4>1
      <4>3. \A i \in 1 .. n - 1 : i + 1 \in 1 .. n
        BY <1>2
      <4> QED
        BY <1>1, <1>4, <3>1, <3>3, <4>2, <4>3, SMTT(30)
    <3> QED
      BY <3>2, <3>3
  <2> QED
    BY <1>3, <2>1, <2>2 DEF BanSafe, OneName, Locked
<1>7. PresentLeave'
  BY <1>3, PendingSame, PresentKept DEF BanSafe
<1>8. BarredLeave'
  <2>1. net' = None => barred' = {}
    BY <1>3 DEF BanSafe, BarredLeave
  <2>2. ASSUME "reportLost" \notin dist, NEW t \in barred, online[t] # None PROVE Leaving(t)'
    <3>1. Leaving(t) /\ net # None /\ t \in Servers
      BY <1>0, <2>2 DEF BanSafe, BarredLeave
    <3>2. CASE t # s
      BY <1>3, <1>4, <3>1, <3>2, PendingSame, LeavingKept
    <3>3. CASE t = s
      <4>1. CASE events[s] # <<>> /\ events[s][n] = [act |-> "join", name |-> online[s]]
        <5>1. CASE n = 1
          <6>1. e.act = "join" /\ e.name = online[s]
            BY <1>1, <4>1, <5>1
          <6>2. rep'[s] = [name |-> online'[s], kick |-> TRUE]
            BY <1>0, <1>3, <3>1, <6>1
          <6> QED
            BY <3>3, <6>2 DEF Leaving
        <5>2. CASE n # 1
          <6>1. n - 1 \in 1 .. n - 1 /\ (n - 1) + 1 = n
            BY <1>2, <5>2
          <6>2. events'[s][n - 1] = [act |-> "join", name |-> online'[s]] /\ events'[s] # <<>>
            BY <1>3, <1>4, <4>1, <6>1
          <6> QED
            BY <1>4, <3>3, <6>2 DEF Leaving
        <5> QED
          BY <5>1, <5>2
      <4>2. rep[s] # [name |-> online[s], kick |-> TRUE]
        BY <1>3 DEF NoReport
      <4>3. PICK c : c = [op |-> "kick", val |-> TRUE, srv |-> s, name |-> online[s]]
        OBVIOUS
      <4>4. CASE Pending(c)
        <5>1. Pending(c)'
          BY <1>3, <4>4, PendingSame DEF PendingStays
        <5> QED
          BY <1>3, <3>3, <4>3, <5>1, LeavingQueued
      <4> QED
        BY <1>1, <3>1, <3>3, <4>1, <4>2, <4>3, <4>4 DEF Leaving
    <3> QED
      BY <3>2, <3>3
  <2> QED
    BY <1>3, <2>1, <2>2 DEF BarredLeave
<1> QED
  BY <1>5, <1>6, <1>7, <1>8 DEF BanSafe

LEMMA CommitBan ==
    ASSUME IInv, BanSafe, NEW s \in Servers, CommitJoin(s)
    PROVE  BanSafe'
<1>0. /\ row \in [Servers -> Row] /\ barred \subseteq Servers
      /\ rep \in [Servers -> [name : Called, kick : BOOLEAN]] /\ online \in [Servers -> Called]
  BY Types DEF IInv, PanelTypes, RepTypes, GameTypes
<1>1. /\ rep[s] # NoReport /\ rep' = [rep EXCEPT ![s] = NoReport]
      /\ row' = [row EXCEPT ![s].in = TRUE, ![s].name = rep[s].name] /\ seen' = s
      /\ UNCHANGED <<todo, ran, dist, net, online, up, events, barred, job>>
  BY DEF CommitJoin, Locked, gameVars
<1>2. PICK c : c = [op |-> "kick", val |-> TRUE, srv |-> s, name |-> rep[s].name]
  OBVIOUS
<1>3. PendingStays /\ (rep[s].kick => Pending(c)')
  <2>1. <<c>> \in Seq(Commands) /\ Len(<<c>>) = 1 /\ <<c>>[1] = c
    <3>1. c \in Commands
      BY <1>0, <1>2 DEF Commands
    <3> QED
      BY <3>1
  <2>2. IF rep[s].kick THEN Insert(<<c>>) ELSE queue' = queue
    BY <1>2 DEF CommitJoin
  <2>3. CASE rep[s].kick
    <3>1. \A p \in 1 .. Len(<<c>>) : Pending(<<c>>[p])'
      BY <1>1, <2>1, <2>2, <2>3, PendingInsert
    <3>2. PendingStays
      BY <1>1, <2>1, <2>2, <2>3, PendingInsert
    <3> QED
      BY <2>1, <3>1, <3>2
  <2>4. CASE ~rep[s].kick
    BY <1>1, <2>2, <2>4, PendingSame
  <2> QED
    BY <2>3, <2>4
<1>4. DownIsEmpty' /\ NetworkJobs'
  BY <1>1 DEF BanSafe, DownIsEmpty, NetworkJobs, At
<1>5. OneName'
  <2>1. row'[seen'].in
    BY <1>0, <1>1 DEF Row
  <2>2. ASSUME "renamed" \notin dist, NEW t \in Servers
        PROVE  (rep'[t] # NoReport => rep'[t].name = FirstName) /\ (row'[t].in => row'[t].name = FirstName)
    BY <1>0, <1>1, <2>2 DEF BanSafe, OneName, Locked, Row
  <2> QED
    BY <1>1, <2>1, <2>2 DEF BanSafe, OneName, Locked
<1>6. PresentLeave'
  BY <1>1, <1>3, PresentKept DEF BanSafe
<1>7. BarredLeave'
  <2>1. net' = None => barred' = {}
    BY <1>1 DEF BanSafe, BarredLeave
  <2>2. ASSUME "reportLost" \notin dist, NEW t \in barred, online[t] # None PROVE Leaving(t)'
    <3>1. Leaving(t) /\ t \in Servers
      BY <1>0, <2>2 DEF BanSafe, BarredLeave
    <3>2. CASE t = s /\ rep[s] = [name |-> online[s], kick |-> TRUE]
      <4>1. Pending(c)' /\ c = [op |-> "kick", val |-> TRUE, srv |-> t, name |-> online'[t]]
        BY <1>1, <1>2, <1>3, <3>2
      <4> QED
        BY <3>1, <4>1, LeavingQueued
    <3>3. CASE ~(t = s /\ rep[s] = [name |-> online[s], kick |-> TRUE])
      <4>0. PICK d : d = [op |-> "kick", val |-> TRUE, srv |-> t, name |-> online[t]]
        OBVIOUS
      <4>1. CASE Pending(d)
        <5>1. Pending(d)'
          BY <1>3, <4>1 DEF PendingStays
        <5> QED
          BY <1>1, <3>1, <4>0, <5>1, LeavingQueued
      <4>2. CASE ~Pending(d)
        <5>1. \/ events[t] # <<>> /\ events[t][Len(events[t])] = [act |-> "join", name |-> online[t]]
              \/ t # s /\ rep[t] = [name |-> online[t], kick |-> TRUE]
          BY <3>1, <3>3, <4>0, <4>2 DEF Leaving
        <5> QED
          BY <1>0, <1>1, <3>1, <5>1 DEF Leaving
      <4> QED
        BY <4>1, <4>2
    <3> QED
      BY <3>2, <3>3
  <2> QED
    BY <1>1, <2>1, <2>2 DEF BarredLeave
<1> QED
  BY <1>4, <1>5, <1>6, <1>7 DEF BanSafe

\* A step of the game that concerns the server s, on which someone is then to be
\* kicked, or no one is; it logs a join or a leave of its own, or nothing.
LEMMA GameBan ==
    ASSUME IInv, BanSafe, NEW s \in Servers, UNCHANGED <<row, seen, net, job, rep>>, PendingStays, dist \subseteq dist',
           barred' \in SUBSET Servers, barred \ {s} = barred' \ {s},
           \A t \in Servers : t # s => online'[t] = online[t] /\ events'[t] = events[t] /\ up'[t] = up[t],
           ~up'[s] => online'[s] = None,
           "renamed" \notin dist' => online'[s] \in {FirstName, None} /\ \A i \in 1 .. Len(events'[s]) : events'[s][i].name = FirstName,
           net = None => barred' = {},
           s \in barred' => online'[s] = None \/ Leaving(s)',
           net # None /\ s \notin barred' => online'[s] = None
    PROVE  BanSafe'
<1>1. DownIsEmpty'
  BY DEF BanSafe, DownIsEmpty
<1>2. OneName'
  <2>1. OneName
    BY DEF BanSafe
  <2>2. ASSUME "renamed" \notin dist', NEW t \in Servers
        PROVE  online'[t] \in {FirstName, None} /\ \A i \in 1 .. Len(events'[t]) : events'[t][i].name = FirstName
    BY <2>1, <2>2 DEF OneName
  <2> QED
    BY <2>1, <2>2 DEF OneName, Locked
<1>3. NetworkJobs'
  BY DEF BanSafe, NetworkJobs, At
<1>4. BarredLeave'
  <2>1. ASSUME NEW t \in barred', "reportLost" \notin dist', t # s PROVE online'[t] = None \/ Leaving(t)'
    <3>1. t \in barred /\ t \in Servers
      BY <2>1
    <3>2. online[t] = None \/ Leaving(t)
      BY <2>1, <3>1 DEF BanSafe, BarredLeave
    <3> QED
      BY <2>1, <3>1, <3>2, LeavingKept
  <2> QED
    BY <2>1 DEF BarredLeave
<1>5. PresentLeave'
  <2>1. ASSUME NEW t \in Servers \ barred', net' # None, dist' \cap {"abort", "renamed"} = {}, t # s
        PROVE  online'[t] = None \/ BanComes(t)'
    <3>1. t \in Servers \ barred
      BY <2>1
    <3>2. online[t] = None \/ BanComes(t)
      BY <2>1, <3>1 DEF BanSafe, PresentLeave
    <3>3. BanComes(t) => BanComes(t)'
      BY DEF BanComes, PendingStays
    <3> QED
      BY <2>1, <3>2, <3>3
  <2> QED
    BY <2>1 DEF PresentLeave
<1> QED
  BY <1>1, <1>2, <1>3, <1>4, <1>5 DEF BanSafe

LEMMA GameJoinBan ==
    ASSUME IInv, BanSafe, NEW s \in Servers, NEW n \in Names, GameJoin(s, n)
    PROVE  BanSafe'
<1>0. online \in [Servers -> Called] /\ events \in [Servers -> Seq(Event)] /\ barred \subseteq Servers
  BY Types DEF IInv, GameTypes
<1>1. /\ up[s] /\ online' = [online EXCEPT ![s] = n] /\ UNCHANGED <<queue, todo, ran, row, seen, net, job, rep, up>>
      /\ events' = [events EXCEPT ![s] = Append(@, [act |-> "join", name |-> n])]
      /\ barred' = IF net = None THEN barred \ {s} ELSE barred \cup {s}
  BY DEF GameJoin, panelVars
<1>2. dist \subseteq dist' /\ (n # FirstName => "renamed" \in dist')
  BY DEF GameJoin, Disturb
<1>3. PICK e, q, m : e = [act |-> "join", name |-> n] /\ q = events[s] /\ m = Len(q)
  OBVIOUS
<1>4. /\ e \in Event /\ q \in Seq(Event) /\ m \in Nat /\ events'[s] = Append(q, e) /\ online'[s] = n /\ e.name = n
      /\ Append(q, e) # <<>> /\ Len(Append(q, e)) = m + 1 /\ Append(q, e)[m + 1] = e /\ \A i \in 1 .. m : Append(q, e)[i] = q[i]
  <2>1. e \in Event /\ q \in Seq(Event) /\ m \in Nat /\ e.name = n
    <3>1. e \in Event /\ e.name = n
      BY <1>3 DEF Event
    <3>2. q \in Seq(Event)
      BY <1>0, <1>3
    <3> QED
      BY <1>3, <3>1, <3>2
  <2>2. events'[s] = Append(q, e) /\ online'[s] = n
    BY <1>0, <1>1, <1>3
  <2>3. Append(q, e) # <<>> /\ Len(Append(q, e)) = m + 1 /\ Append(q, e)[m + 1] = e /\ \A i \in 1 .. m : Append(q, e)[i] = q[i]
    BY <1>3, <2>1
  <2> QED
    BY <2>1, <2>2, <2>3
<1>5. Leaving(s)'
  BY <1>3, <1>4 DEF Leaving
<1>6. "renamed" \notin dist' => online'[s] = FirstName /\ \A i \in 1 .. Len(events'[s]) : events'[s][i].name = FirstName
  <2>1. "renamed" \notin dist' => \A i \in 1 .. m : q[i].name = FirstName
    BY <1>2, <1>3 DEF BanSafe, OneName
  <2>2. \A i \in 1 .. m + 1 : i \in 1 .. m \/ i = m + 1
    BY <1>4
  <2> QED
    BY <1>2, <1>4, <2>1, <2>2
<1>7. \A t \in Servers : t # s => online'[t] = online[t] /\ events'[t] = events[t] /\ up'[t] = up[t]
  BY <1>0, <1>1
<1>8. net = None => barred' = {}
  BY <1>1 DEF BanSafe, BarredLeave
<1>9. barred' \in SUBSET Servers /\ barred \ {s} = barred' \ {s} /\ (net # None => s \in barred')
  BY <1>0, <1>1
<1> QED
  BY <1>1, <1>2, <1>5, <1>6, <1>7, <1>8, <1>9, PendingSame, GameBan

\* Whoever was on the server is so no more.
LEMMA OffBan ==
    ASSUME IInv, BanSafe, NEW s \in Servers, UNCHANGED <<row, seen, net, job, rep, barred>>, PendingStays, dist \subseteq dist',
           online' = [online EXCEPT ![s] = None], \A t \in Servers : t # s => up'[t] = up[t],
           events' = events \/ (online[s] # None /\ events' = [events EXCEPT ![s] = Append(@, [act |-> "leave", name |-> online[s]])])
    PROVE  BanSafe'
<1>0. online \in [Servers -> Called] /\ events \in [Servers -> Seq(Event)] /\ barred \subseteq Servers
  BY Types DEF IInv, GameTypes
<1>1. online'[s] = None /\ \A t \in Servers : t # s => online'[t] = online[t] /\ events'[t] = events[t] /\ up'[t] = up[t]
  BY <1>0
<1>2. ASSUME "renamed" \notin dist' PROVE \A i \in 1 .. Len(events'[s]) : events'[s][i].name = FirstName
  <2>1. (\A i \in 1 .. Len(events[s]) : events[s][i].name = FirstName) /\ online[s] \in {FirstName, None}
    BY <1>2 DEF BanSafe, OneName
  <2>2. CASE online[s] # None /\ events' = [events EXCEPT ![s] = Append(@, [act |-> "leave", name |-> online[s]])]
    <3>1. PICK e, q, m : e = [act |-> "leave", name |-> online[s]] /\ q = events[s] /\ m = Len(q)
      OBVIOUS
    <3>2. e.name = FirstName /\ q \in Seq(Event) /\ m \in Nat /\ events'[s] = Append(q, e)
      BY <1>0, <2>1, <2>2, <3>1
    <3>3. Len(Append(q, e)) = m + 1 /\ \A i \in 1 .. m + 1 : Append(q, e)[i] = IF i = m + 1 THEN e ELSE q[i]
      BY <3>1, <3>2
    <3>4. \A i \in 1 .. m + 1 : i = m + 1 \/ i \in 1 .. m
      BY <3>2
    <3> QED
      BY <2>1, <3>1, <3>2, <3>3, <3>4
  <2> QED
    BY <2>1, <2>2
<1>3. net = None => barred' = {}
  BY DEF BanSafe, BarredLeave
<1> QED
  BY <1>0, <1>1, <1>2, <1>3, GameBan

LEMMA LeaveBan ==
    ASSUME IInv, BanSafe, NEW s \in Servers,
           GameLeave(s) \/ (\E kept \in BOOLEAN : UpdateServerStatus(s, kept))
    PROVE  BanSafe'
<1>1. CASE GameLeave(s)
  <2>1. online[s] # None /\ Drops(s) /\ UNCHANGED <<queue, todo, ran, dist, row, seen, net, up, barred, job, rep>>
    BY <1>1 DEF GameLeave, queueVars, panelVars
  <2> QED
    BY <2>1, PendingSame, OffBan DEF Drops
<1>2. CASE \E kept \in BOOLEAN : UpdateServerStatus(s, kept)
  <2>1. /\ UNCHANGED <<queue, todo, ran, row, seen, net, events, barred, job, rep>> /\ dist \subseteq dist'
        /\ up' = [up EXCEPT ![s] = FALSE] /\ online' = [online EXCEPT ![s] = None]
    BY <1>2 DEF UpdateServerStatus, Disturb
  <2>2. up \in [Servers -> BOOLEAN]
    BY Types DEF IInv, GameTypes
  <2> QED
    BY <2>1, <2>2, PendingSame, OffBan
<1> QED
  BY <1>1, <1>2

\* The command that is run drops whoever it was to drop (a kick, or the ban).
LEMMA SendBan ==
    ASSUME IInv, BanSafe, NEW c, SendCommand(c)
    PROVE  BanSafe'
<1>0. /\ online \in [Servers -> Called] /\ events \in [Servers -> Seq(Event)] /\ barred \subseteq Servers /\ c \in Commands
      /\ c.srv \in Servers /\ up \in [Servers -> BOOLEAN]
  <2>1. queue \in Seq(Commands) /\ Places /\ Running(c, up[c.srv]) /\ UNCHANGED <<queue, todo>>
    BY DEF IInv, TypeOK, SendCommand
  <2>2. c \in Commands
    BY <2>1, RunKeeps
  <2> QED
    BY <2>2, Types DEF IInv, GameTypes, Commands
<1>1. Running(c, up[c.srv]) /\ UNCHANGED <<queue, todo, row, seen, net, up, barred, job, rep>> /\ dist \subseteq dist'
  BY DEF SendCommand, panelVars
<1>2. PICK s \in Servers : s = c.srv
  BY <1>0
<1>3. \A d : d # c /\ Pending(d) => Pending(d)'
  BY <1>1, PendingRun
<1>4. \/ UNCHANGED <<online, events>>
      \/ /\ online' = [online EXCEPT ![s] = None]
         /\ events' = events \/ (online[s] # None /\ events' = [events EXCEPT ![s] = Append(@, [act |-> "leave", name |-> online[s]])])
  BY <1>2 DEF SendCommand, Drops
<1>5. c.op \in {"kick", "ban"} /\ c.val /\ online[s] = c.name => online'[s] = None
  <2>1. ~up[s] => online[s] = None
    BY DEF BanSafe, DownIsEmpty
  <2>2. CASE up[s]
    BY <1>0, <1>2, <2>2 DEF SendCommand, Drops
  <2>3. CASE ~up[s]
    BY <1>0, <1>2, <1>4, <2>1, <2>3
  <2> QED
    BY <2>2, <2>3
<1>6. /\ \A t \in Servers : t # s => online'[t] = online[t] /\ events'[t] = events[t]
      /\ online'[s] = None \/ (online'[s] = online[s] /\ events'[s] = events[s])
  BY <1>0, <1>4
<1>7. DownIsEmpty' /\ NetworkJobs'
  BY <1>1, <1>6 DEF BanSafe, DownIsEmpty, NetworkJobs, At
<1>8. BarredLeave'
  <2>1. ASSUME NEW t \in barred, "reportLost" \notin dist', online'[t] # None PROVE Leaving(t)'
    <3>1. t \in Servers /\ online'[t] = online[t] /\ events'[t] = events[t] /\ rep'[t] = rep[t]
      BY <1>0, <1>1, <1>6, <2>1
    <3>2. Leaving(t)
      BY <1>1, <2>1, <3>1 DEF BanSafe, BarredLeave
    <3>3. PICK d : d = [op |-> "kick", val |-> TRUE, srv |-> t, name |-> online[t]]
      OBVIOUS
    <3>4. d # c
      BY <1>2, <1>5, <2>1, <3>1, <3>3
    <3>5. CASE Pending(d)
      BY <1>3, <3>1, <3>3, <3>4, <3>5, LeavingQueued
    <3>6. CASE ~Pending(d)
      BY <3>1, <3>2, <3>3, <3>6 DEF Leaving
    <3> QED
      BY <3>5, <3>6
  <2> QED
    BY <1>1, <2>1 DEF BanSafe, BarredLeave
<1>9. PresentLeave'
  <2>1. ASSUME NEW t \in Servers \ barred, net # None, dist' \cap {"abort", "renamed"} = {}, online'[t] # None PROVE BanComes(t)'
    <3>1. online'[t] = online[t]
      BY <1>6, <2>1
    <3>2. BanComes(t) /\ online[t] = FirstName
      BY <1>1, <2>1, <3>1 DEF BanSafe, PresentLeave, OneName
    <3>3. PICK d : d = [op |-> "ban", val |-> TRUE, srv |-> t, name |-> FirstName]
      OBVIOUS
    <3>4. d # c
      BY <1>2, <1>5, <2>1, <3>2, <3>3
    <3> QED
      BY <1>1, <1>3, <3>2, <3>3, <3>4 DEF BanComes
  <2> QED
    BY <1>1, <2>1 DEF PresentLeave
<1>10. OneName'
  <2>0. OneName
    BY DEF BanSafe
  <2>1. ASSUME "renamed" \notin dist', NEW t \in Servers
        PROVE  online'[t] \in {FirstName, None} /\ \A i \in 1 .. Len(events'[t]) : events'[t][i].name = FirstName
    <3>1. online[t] \in {FirstName, None} /\ (\A i \in 1 .. Len(events[t]) : events[t][i].name = FirstName)
      BY <1>1, <2>0, <2>1 DEF OneName
    <3>2. CASE events'[t] = events[t]
      BY <1>6, <3>1, <3>2
    <3>3. CASE events'[t] # events[t]
      <4>1. t = s /\ online[t] # None /\ events'[t] = Append(events[t], [act |-> "leave", name |-> online[t]])
        BY <1>0, <1>4, <3>3
      <4>2. PICK e, q, m : e = [act |-> "leave", name |-> online[t]] /\ q = events[t] /\ m = Len(q)
        OBVIOUS
      <4>3. e.name = FirstName /\ q \in Seq(Event) /\ m \in Nat /\ events'[t] = Append(q, e)
        BY <1>0, <3>1, <4>1, <4>2
      <4>4. Len(Append(q, e)) = m + 1 /\ \A i \in 1 .. m + 1 : Append(q, e)[i] = IF i = m + 1 THEN e ELSE q[i]
        BY <4>2, <4>3
      <4>5. \A i \in 1 .. m + 1 : i = m + 1 \/ i \in 1 .. m
        BY <4>3
      <4>6. \A i \in 1 .. Len(events'[t]) : events'[t][i].name = FirstName
        BY <3>1, <4>2, <4>3, <4>4, <4>5
      <4> QED
        BY <1>6, <3>1, <4>6
    <3> QED
      BY <3>2, <3>3
  <2> QED
    BY <1>1, <2>0, <2>1 DEF OneName, Locked
<1> QED
  BY <1>7, <1>8, <1>9, <1>10 DEF BanSafe

LEMMA RestBan ==
    ASSUME IInv, BanSafe, DaemonBoots \/ (\E s \in Servers : ServerStarts(s) \/ ReportLost(s))
    PROVE  BanSafe'
<1>0. events \in [Servers -> Seq(Event)] /\ up \in [Servers -> BOOLEAN]
  BY Types DEF IInv, GameTypes
<1>1. CASE DaemonBoots
  <2>1. /\ PendingStays /\ dist \subseteq dist' /\ UNCHANGED <<row, seen, net, barred, job, rep>>
        /\ \A s \in Servers : online'[s] = None /\ events'[s] = <<>>
    BY <1>1, PendingPoll DEF DaemonBoots, PollerRestarts, Disturb
  <2>2. DownIsEmpty' /\ NetworkJobs'
    BY <2>1 DEF BanSafe, DownIsEmpty, NetworkJobs, At
  <2>3. OneName'
    BY <2>1 DEF BanSafe, OneName, Locked
  <2>4. barred \subseteq Servers
    BY DEF IInv, TypeOK
  <2>5. BarredLeave' /\ PresentLeave'
    BY <2>1, <2>4 DEF BanSafe, BarredLeave, PresentLeave
  <2> QED
    BY <2>2, <2>3, <2>5 DEF BanSafe
<1>2. ASSUME NEW s \in Servers, ServerStarts(s) PROVE BanSafe'
  <2>1. /\ UNCHANGED <<queue, todo, ran, dist, row, seen, net, online, events, barred, job, rep>>
        /\ up' = [up EXCEPT ![s] = TRUE]
    BY <1>2 DEF ServerStarts, queueVars, panelVars
  <2>2. DownIsEmpty' /\ NetworkJobs'
    BY <1>0, <2>1 DEF BanSafe, DownIsEmpty, NetworkJobs, At
  <2>3. OneName'
    BY <2>1 DEF BanSafe, OneName, Locked
  <2>4. BarredLeave' /\ PresentLeave'
    BY <2>1, PendingSame, BarredKept, PresentKept DEF BanSafe
  <2> QED
    BY <2>2, <2>3, <2>4 DEF BanSafe
<1>3. ASSUME NEW s \in Servers, ReportLost(s) PROVE BanSafe'
  <2>1. /\ UNCHANGED <<queue, todo, ran, row, seen, net, online, up, barred, job, rep>> /\ events[s] # <<>>
        /\ events' = [events EXCEPT ![s] = Tail(@)] /\ dist' = dist \cup {"reportLost"}
    BY <1>3 DEF ReportLost, Disturb, panelVars
  <2>2. DownIsEmpty' /\ NetworkJobs'
    BY <2>1 DEF BanSafe, DownIsEmpty, NetworkJobs, At
  <2>3. OneName'
    <3>1. ASSUME "renamed" \notin dist', NEW t \in Servers PROVE \A i \in 1 .. Len(events'[t]) : events'[t][i].name = FirstName
      <4>1. \A i \in 1 .. Len(events[t]) : events[t][i].name = FirstName
        BY <2>1, <3>1 DEF BanSafe, OneName
      <4>2. CASE t # s
        BY <1>0, <2>1, <4>1, <4>2
      <4>3. CASE t = s
        <5>1. PICK q : q = events[s]
          OBVIOUS
        <5>2. q \in Seq(Event) /\ q # <<>> /\ events'[s] = Tail(q)
          BY <1>0, <2>1, <5>1
        <5>3. \A i \in 1 .. Len(Tail(q)) : i + 1 \in 1 .. Len(q) /\ Tail(q)[i] = q[i + 1]
          BY <5>2
        <5> QED
          BY <4>1, <4>3, <5>1, <5>2, <5>3
      <4> QED
        BY <4>2, <4>3
    <3> QED
      BY <2>1, <3>1 DEF BanSafe, OneName, Locked
  <2>4. BarredLeave'
    BY <2>1 DEF BanSafe, BarredLeave
  <2>5. PresentLeave'
    BY <2>1, PendingSame, PresentKept DEF BanSafe
  <2> QED
    BY <2>2, <2>3, <2>4, <2>5 DEF BanSafe
<1> QED
  BY <1>1, <1>2, <1>3

LEMMA AbortBan ==
    ASSUME IInv, BanSafe, NEW w \in Requests, Abort(w)
    PROVE  BanSafe'
<1>0. job[w] \in Jobs
  BY JobAt
<1>1. PICK j : j = [job[w] EXCEPT !.live = FALSE]
  OBVIOUS
<1>2. j.at = job[w].at /\ j.val = job[w].val /\ j.name = job[w].name
  BY <1>0, <1>1 DEF Jobs
<1>3. /\ Go(w, j) /\ dist' = dist \cup {"abort"}
      /\ UNCHANGED <<queue, todo, ran, row, seen, net, online, up, events, barred, rep>>
  BY <1>1 DEF Abort, Disturb, panelVars, gameVars
<1>4. /\ j.at = "record" => j.val
      /\ j.at = "latest" => ~j.val
      /\ "renamed" \notin dist /\ j.at \in {"record", "mark", "fanout"} /\ j.val => j.name = FirstName
  BY <1>2 DEF BanSafe, NetworkJobs, OneName, At
<1> QED
  BY <1>2, <1>3, <1>4, PendingSame, BanElse

LEMMA QueueBan ==
    ASSUME IInv, BanSafe, Poller \/ AckLost, UNCHANGED <<panelVars, gameVars, job, rep>>
    PROVE  BanSafe'
<1>1. dist \subseteq dist' /\ UNCHANGED <<row, seen, net, online, up, events, barred>>
  BY DEF Poller, GetPendingCommands, AckCommand, AckLost, Disturb, panelVars, gameVars
<1>2. DownIsEmpty' /\ NetworkJobs'
  BY <1>1 DEF BanSafe, DownIsEmpty, NetworkJobs, At
<1>3. OneName'
  BY <1>1 DEF BanSafe, OneName, Locked
<1>4. BarredLeave' /\ PresentLeave'
  BY <1>1, PendingPoll, BarredKept, PresentKept DEF BanSafe
<1> QED
  BY <1>2, <1>3, <1>4 DEF BanSafe

LEMMA BanInit == Init => BanSafe
<1> SUFFICES ASSUME Init PROVE BanSafe
  OBVIOUS
<1>1. DownIsEmpty /\ BarredLeave /\ PresentLeave
  BY DEF Init, DownIsEmpty, BarredLeave, PresentLeave
<1>2. OneName
  BY PlayersAssumption DEF Init, OneName, Locked, NoRow, Idle
<1>3. NetworkJobs
  BY DEF Init, NetworkJobs, At, Idle
<1> QED
  BY <1>1, <1>2, <1>3 DEF BanSafe

LEMMA BanNext == IInv /\ BanSafe /\ [Next]_vars => BanSafe'
<1> SUFFICES ASSUME IInv, BanSafe, [Next]_vars PROVE BanSafe'
  OBVIOUS
<1>1. CASE UNCHANGED vars
  <2>1. UNCHANGED <<queue, todo, ran, dist, row, seen, net, online, up, events, barred, job, rep>>
    BY <1>1 DEF vars, queueVars, panelVars, gameVars
  <2>2. DownIsEmpty' /\ NetworkJobs'
    BY <2>1 DEF BanSafe, DownIsEmpty, NetworkJobs, At
  <2>3. OneName'
    BY <2>1 DEF BanSafe, OneName, Locked
  <2>4. BarredLeave' /\ PresentLeave'
    BY <2>1, PendingSame, BarredKept, PresentKept DEF BanSafe
  <2> QED
    BY <2>2, <2>3, <2>4 DEF BanSafe
<1>2. ASSUME NEW w \in Requests, Ask(w) \/ Work(w) \/ Abort(w) PROVE BanSafe'
  BY <1>2, AskBan, WorkBan, AbortBan
<1>3. ASSUME NEW s \in Servers, Record(s) PROVE BanSafe'
  BY <1>3, ReportBan, CommitBan DEF Record
<1>4. CASE Polls
  BY <1>4, QueueBan, SendBan DEF Polls
<1>5. ASSUME NEW s \in Servers,
             (\E n \in Names : GameJoin(s, n)) \/ GameLeave(s) \/ (\E k \in {TRUE, game[s] = {}} : UpdateServerStatus(s, k))
             \/ ServerStarts(s) \/ ReportLost(s)
      PROVE  BanSafe'
  <2>1. {TRUE, game[s] = {}} \subseteq BOOLEAN
    OBVIOUS
  <2> QED
    BY <1>5, <2>1, GameJoinBan, LeaveBan, RestBan
<1>6. CASE (AckLost /\ UNCHANGED <<panelVars, gameVars, job, rep>>) \/ DaemonBoots
  BY <1>6, QueueBan, RestBan
<1> QED
  BY <1>1, <1>2, <1>3, <1>4, <1>5, <1>6 DEF Next

\* Whoever is on a server under a network ban is on the way out: the join is still to be
\* recorded or its kick to be run, or the ban is still to reach the server.
THEOREM BanSafeAlways == Spec => []BanSafe
<1>1. Init => BanSafe
  BY BanInit
<1>2. IInv /\ BanSafe /\ [Next]_vars => BanSafe'
  BY BanNext
<1> QED
  BY <1>1, <1>2, Inductive, PTL DEF Spec

\* A network ban keeps the account off every server once everything has settled, for any
\* number of servers, names, requests and disturbances (BanNetworkPlayer's fan-out, and
\* the check that RecordPlayerEvent makes at a join).
THEOREM BanStaysKept == Spec => []BanIsKept
<1>1. IInv /\ BanSafe => BanIsKept
  <2> SUFFICES ASSUME IInv, BanSafe, Quiet, net # None, "reportLost" \notin dist, NEW s \in Servers, online[s] # None
               PROVE  s \notin barred /\ dist \cap {"abort", "renamed"} # {}
    BY DEF BanIsKept
  <2>1. queue = <<>> /\ events[s] = <<>> /\ rep[s] = NoReport /\ \A w \in Requests : job[w] = Idle
    BY DEF Quiet, QueueQuiet, Locked, NoRequests
  <2>2. \A c : ~Pending(c)
    BY <2>1 DEF Pending
  <2>3. s \notin barred
    <3>1. rep[s] # [name |-> online[s], kick |-> TRUE]
      BY <2>1 DEF NoReport
    <3>2. ~Leaving(s)
      BY <2>1, <2>2, <3>1 DEF Leaving
    <3> QED
      BY <3>2 DEF BanSafe, BarredLeave
  <2>4. ~BanComes(s)
    BY <2>1, <2>2 DEF BanComes, Idle
  <2>5. dist \cap {"abort", "renamed"} # {}
    BY <2>3, <2>4 DEF BanSafe, PresentLeave
  <2> QED
    BY <2>3, <2>5
<1> QED
  BY <1>1, Inductive, BanSafeAlways, PTL

-----------------------------------------------------------------------------
(* The flags *)

LEMMA DistGrows == ASSUME [Next]_vars PROVE dist \subseteq dist'
<1>1. CASE UNCHANGED vars
  BY <1>1 DEF vars, queueVars
<1>2. ASSUME NEW w \in Requests, Ask(w) PROVE dist \subseteq dist'
  <2>1. \A at, op, val, s, name : Begin(w, at, op, val, s, name) => dist \subseteq dist'
    BY DEF Begin
  <2> QED
    BY <1>2, <2>1 DEF Ask, HandleBanPlayer, HandleUnbanPlayer, HandleSetFlag, HandleKickPlayer, HandleBanNetworkPlayer,
       HandleUnbanNetworkPlayer
<1>3. ASSUME NEW w \in Requests, Work(w) PROVE dist' = dist
  BY <1>3 DEF Work, BanPlayer, UnbanPlayer, SetFlag, UpdateFlag, KickPlayer, EnqueueConsoleCommand, BanNetworkPlayer, MarkRows,
     UnbanNetworkPlayer, FanOutConsoleCommand, queueVars
<1>4. ASSUME NEW s \in Servers, Record(s) PROVE dist' = dist
  BY <1>4 DEF Record, DaemonPlayerReport, RecordPlayerEvent, CommitJoin, queueVars
<1>5. CASE Polls \/ AckLost \/ DaemonBoots
  BY <1>5 DEF Polls, Poller, GetPendingCommands, AckCommand, SendCommand, AckLost, DaemonBoots, PollerRestarts, Disturb
<1>6. ASSUME NEW s \in Servers,
             (\E n \in Names : GameJoin(s, n)) \/ GameLeave(s) \/ (\E k \in {TRUE, game[s] = {}} : UpdateServerStatus(s, k))
             \/ ServerStarts(s) \/ ReportLost(s)
      PROVE  dist \subseteq dist'
  BY <1>6 DEF GameJoin, GameLeave, UpdateServerStatus, ServerStarts, ReportLost, Disturb, queueVars
<1>7. ASSUME NEW w \in Requests, Abort(w) PROVE dist \subseteq dist'
  BY <1>7 DEF Abort, Disturb
<1> QED
  BY <1>1, <1>2, <1>3, <1>4, <1>5, <1>6, <1>7 DEF Next

\* What the game will hold of a flag once the queue has been run.
HeldKept == \A s \in Servers, f \in Flags, v \in BOOLEAN : HeldAfter(s, f, v) => HeldAfter(s, f, v)'

LEMMA HeldSame == ASSUME UNCHANGED <<queue, game>> PROVE HeldKept
  BY DEF HeldKept, HeldAfter, HeldAt

\* The commands that are added say nothing else.
LEMMA HeldInsert ==
    ASSUME IInv, NEW cs \in Seq(Commands), Insert(cs), game' = game, NEW s, NEW f, NEW v,
           \A p \in 1 .. Len(cs) : Sets(cs[p], s, f) => cs[p].val = v
    PROVE  /\ HeldAfter(s, f, v) => HeldAfter(s, f, v)'
           /\ (\E p \in 1 .. Len(cs) : Sets(cs[p], s, f)) => HeldAfter(s, f, v)'
<1>0. PICK n, m : n = Len(queue) /\ m = Len(queue')
  OBVIOUS
<1>1. queue \in Seq(Commands) /\ queue' = queue \o cs
  BY DEF IInv, TypeOK, Insert
<1>2. /\ n \in Nat /\ Len(cs) \in Nat /\ m = n + Len(cs) /\ \A i \in 1 .. n : queue'[i] = queue[i]
      /\ \A i \in n + 1 .. m : i - n \in 1 .. Len(cs) /\ queue'[i] = cs[i - n]
  BY <1>0, <1>1
<1>3. \A k \in n + 1 .. m : Sets(queue'[k], s, f) => queue'[k].val = v
  BY <1>2
<1>4. ASSUME HeldAfter(s, f, v) PROVE HeldAfter(s, f, v)'
  <2>1. PICK i \in 0 .. n : HeldAt(i, s, f, v) /\ \A k \in i + 1 .. n : Sets(queue[k], s, f) => queue[k].val = v
    BY <1>0, <1>4 DEF HeldAfter
  <2>2. i \in 0 .. m /\ (i # 0 => i \in 1 .. n)
    BY <1>2
  <2>3. HeldAt(i, s, f, v)'
    BY <1>2, <2>1, <2>2 DEF HeldAt
  <2>4. \A k \in i + 1 .. m : k \in i + 1 .. n \/ k \in n + 1 .. m
    BY <1>2
  <2>5. \A k \in i + 1 .. n : k \in 1 .. n
    BY <1>2
  <2>6. \A k \in i + 1 .. m : Sets(queue'[k], s, f) => queue'[k].val = v
    BY <1>2, <1>3, <2>1, <2>4, <2>5
  <2> QED
    BY <1>0, <2>2, <2>3, <2>6 DEF HeldAfter
<1>5. ASSUME NEW p \in 1 .. Len(cs), Sets(cs[p], s, f) PROVE HeldAfter(s, f, v)'
  <2>1. PICK i : i = n + p
    OBVIOUS
  <2>2. i \in n + 1 .. m /\ i \in 0 .. m /\ i # 0 /\ i - n = p /\ \A k \in i + 1 .. m : k \in n + 1 .. m
    BY <1>2, <2>1
  <2>3. queue'[i] = cs[p]
    BY <1>2, <2>2
  <2>4. HeldAt(i, s, f, v)'
    BY <1>5, <2>2, <2>3 DEF HeldAt
  <2> QED
    BY <1>0, <1>3, <2>2, <2>4 DEF HeldAfter
<1> QED
  BY <1>4, <1>5

LEMMA AckFlags ==
    ASSUME IInv, InTurn, AckCommand, game' = game
    PROVE  InTurn' /\ HeldKept
<1>0. PICK n, m : n = Len(queue) /\ m = Len(queue')
  OBVIOUS
<1>1. /\ queue \in Seq(Commands) /\ todo \in Seq(Nat) /\ Len(todo) >= 1 /\ Len(todo) \in Nat /\ Head(todo) = 1
      /\ n \in Nat /\ n >= 1
  <2>1. queue \in Seq(Commands) /\ todo \in Seq(Nat) /\ todo # <<>> /\ todo[1] \in 1 .. Len(queue)
    BY DEF IInv, TypeOK, Places, AckCommand
  <2> QED
    BY <1>0, <2>1 DEF InTurn
<1>2. ran' = "no" /\ \A s \in Servers, f \in Flags : Sets(queue[1], s, f) => (<<f, FirstName>> \in game[s] <=> queue[1].val)
  BY DEF AckCommand, InTurn
<1>3. queue' = [i \in 1 .. n - 1 |-> queue[IF i < 1 THEN i ELSE i + 1]]
  BY <1>0, <1>1 DEF AckCommand, Settle
<1>4. m = n - 1 /\ \A i \in 1 .. n - 1 : queue'[i] = queue[i + 1]
  BY <1>0, <1>1, <1>3
<1>5. \A i \in 1 .. Len(todo') : todo'[i] = i
  <2>1. todo' = [i \in 1 .. Len(todo) - 1 |-> IF todo[i + 1] < 1 THEN todo[i + 1] ELSE todo[i + 1] - 1]
    BY <1>1 DEF AckCommand, Settle
  <2>2. \A i \in 1 .. Len(todo) - 1 : todo[i + 1] = i + 1
    BY <1>1 DEF InTurn
  <2>3. Len(todo') = Len(todo) - 1
    BY <1>1, <2>1
  <2> QED
    BY <1>1, <2>1, <2>2, <2>3
<1>6. HeldKept
  <2> SUFFICES ASSUME NEW s \in Servers, NEW f \in Flags, NEW v \in BOOLEAN, HeldAfter(s, f, v) PROVE HeldAfter(s, f, v)'
    BY DEF HeldKept
  <2>1. PICK i \in 0 .. n : HeldAt(i, s, f, v) /\ \A k \in i + 1 .. n : Sets(queue[k], s, f) => queue[k].val = v
    BY <1>0 DEF HeldAfter
  <2>2. PICK h : h = IF i = 0 THEN 0 ELSE i - 1
    OBVIOUS
  <2>3. h \in 0 .. m /\ (h # 0 => h \in 1 .. n - 1 /\ h + 1 = i /\ i # 0)
    BY <1>1, <1>4, <2>2
  <2>4. \A k \in h + 1 .. m : k \in 1 .. n - 1 /\ k + 1 \in i + 1 .. n
    BY <1>1, <1>4, <2>2
  <2>5. \A k \in h + 1 .. m : Sets(queue'[k], s, f) => queue'[k].val = v
    BY <1>4, <2>1, <2>4
  <2>6. HeldAt(h, s, f, v)'
    <3>1. CASE h # 0
      BY <1>4, <2>1, <2>3, <3>1 DEF HeldAt
    <3>2. CASE h = 0 /\ i = 0
      BY <2>1, <3>2 DEF HeldAt
    <3>3. CASE h = 0 /\ i = 1
      BY <1>2, <2>1, <3>3 DEF HeldAt
    <3> QED
      BY <2>2, <3>1, <3>2, <3>3
  <2> QED
    BY <1>0, <2>3, <2>5, <2>6 DEF HeldAfter
<1> QED
  BY <1>2, <1>5, <1>6 DEF InTurn

LEMMA FetchFlags ==
    ASSUME IInv, InTurn, GetPendingCommands \/ PollerRestarts, game' = game
    PROVE  InTurn' /\ HeldKept
<1>1. queue \in Seq(Commands) /\ queue' = queue
  BY DEF IInv, TypeOK, GetPendingCommands, PollerRestarts
<1>2. \A i \in 1 .. Len(todo') : todo'[i] = i
  BY <1>1 DEF GetPendingCommands, PollerRestarts
<1>3. ran' = ran \/ ran' = "no"
  BY DEF GetPendingCommands, PollerRestarts
<1> QED
  BY <1>1, <1>2, <1>3, HeldSame DEF InTurn

\* The game obeys (SendCommand); a server that is not up would have refused.
LEMMA SendFlags ==
    ASSUME IInv, InTurn, NEW c, SendCommand(c), Smooth'
    PROVE  InTurn' /\ HeldKept
<1>1. Running(c, up[c.srv]) /\ UNCHANGED <<queue, todo>> /\ up[c.srv]
  BY DEF SendCommand, Smooth
<1>2. queue \in Seq(Commands) /\ Places
  BY DEF IInv, TypeOK
<1>3. PICK n : n = Len(queue)
  OBVIOUS
<1>4. c \in Commands /\ c = queue[1] /\ n \in Nat /\ n >= 1 /\ ran' = "ok" /\ ran = "no"
  <2>1. todo # <<>> /\ todo \in Seq(Nat) /\ todo[1] \in 1 .. n /\ c = queue[Head(todo)]
    BY <1>1, <1>2, <1>3 DEF Running, Places
  <2>2. Head(todo) = 1
    BY <2>1 DEF InTurn
  <2> QED
    BY <1>1, <1>2, <1>3, <2>1, <2>2 DEF Running
<1>5. c.srv \in Servers /\ c.val \in BOOLEAN /\ game \in [Servers -> SUBSET (Ops \X Called)]
  BY <1>4, Types DEF Commands, IInv, GameTypes
<1>6. ASSUME NEW s \in Servers, NEW f \in Flags
      PROVE  /\ Sets(c, s, f) => (<<f, FirstName>> \in game'[s] <=> c.val)
             /\ ~Sets(c, s, f) => (<<f, FirstName>> \in game'[s] <=> <<f, FirstName>> \in game[s])
  <2>1. CASE c.op = "kick"
    <3>1. game' = game /\ f # "kick"
      BY <2>1, PlayersAssumption DEF SendCommand
    <3> QED
      BY <2>1, <3>1 DEF Sets
  <2>2. CASE c.op # "kick" /\ c.val
    <3>1. PICK a : a = <<c.op, c.name>>
      OBVIOUS
    <3>2. game' = [game EXCEPT ![c.srv] = @ \cup {a}]
      BY <1>1, <2>2, <3>1 DEF SendCommand
    <3>3. game'[s] = IF s = c.srv THEN game[s] \cup {a} ELSE game[s]
      BY <1>5, <3>2
    <3>4. <<f, FirstName>> = a <=> c.op = f /\ c.name = FirstName
      BY <3>1
    <3> QED
      BY <2>2, <3>3, <3>4 DEF Sets
  <2>3. CASE c.op # "kick" /\ ~c.val
    <3>1. PICK a : a = <<c.op, c.name>>
      OBVIOUS
    <3>2. game' = [game EXCEPT ![c.srv] = @ \ {a}]
      BY <1>1, <2>3, <3>1 DEF SendCommand
    <3>3. game'[s] = IF s = c.srv THEN game[s] \ {a} ELSE game[s]
      BY <1>5, <3>2
    <3>4. <<f, FirstName>> = a <=> c.op = f /\ c.name = FirstName
      BY <3>1
    <3> QED
      BY <2>3, <3>3, <3>4 DEF Sets
  <2> QED
    BY <2>1, <2>2, <2>3
<1>7. InTurn'
  BY <1>1, <1>4, <1>6 DEF InTurn
<1>8. HeldKept
  <2> SUFFICES ASSUME NEW s \in Servers, NEW f \in Flags, NEW v \in BOOLEAN, HeldAfter(s, f, v) PROVE HeldAfter(s, f, v)'
    BY DEF HeldKept
  <2>1. PICK i \in 0 .. n : HeldAt(i, s, f, v) /\ \A k \in i + 1 .. n : Sets(queue[k], s, f) => queue[k].val = v
    BY <1>3 DEF HeldAfter
  <2>2. HeldAt(i, s, f, v)'
    <3>1. CASE i # 0
      BY <1>1, <2>1, <3>1 DEF HeldAt
    <3>2. CASE i = 0
      <4>1. 1 \in i + 1 .. n
        BY <1>4, <3>2
      <4>2. Sets(c, s, f) => c.val = v
        BY <1>4, <2>1, <4>1
      <4> QED
        BY <1>6, <2>1, <3>2, <4>2 DEF HeldAt
    <3> QED
      BY <3>1, <3>2
  <2> QED
    BY <1>1, <1>3, <2>1, <2>2 DEF HeldAfter
<1> QED
  BY <1>7, <1>8

\* Of the flag f on s: the panel and the game agree.
Agrees(s, f) == \E v \in BOOLEAN : HeldAfter(s, f, v) /\ Fits(s, f, v)

\* What is known of one request that is under way (OneByOne).
JobFits(w) ==
    LET j == job[w] IN
    /\ At(w, "flag") => j.op \in Flags /\ row[j.srv].in /\ j.name = FirstName
    /\ At(w, "enqueue") /\ j.op \in Flags => j.name = FirstName /\ (j.val <=> j.op \in row[j.srv].flags)
    /\ At(w, "latest") => ~j.val
    /\ At(w, "fanout") => j.name = FirstName /\ (j.val => net # None)
    /\ At(w, "mark") => IF j.val THEN net # None ELSE \A s \in Servers : HeldAfter(s, "ban", FALSE)

LEMMA JobsFit == OneByOne <=> /\ \A v, w \in Requests : ~At(v, "idle") /\ ~At(w, "idle") => v = w
                              /\ \A w \in Requests : JobFits(w)
  BY DEF OneByOne, JobFits

LEMMA JobsFitNext == OneByOne' <=> /\ \A v, w \in Requests : ~At(v, "idle")' /\ ~At(w, "idle")' => v = w
                                   /\ \A w \in Requests : JobFits(w)'
  BY DEF OneByOne, JobFits

\* Only one request is under way: the others owe nothing.
Lone(w) == \A v \in Requests : v # w => At(v, "idle")

LEMMA LoneOne ==
    ASSUME OneByOne, NEW w \in Requests, ~At(w, "idle")
    PROVE  Lone(w)
  BY DEF OneByOne, Lone

LEMMA LoneAgrees ==
    ASSUME RowsAgree, NEW w \in Requests, Lone(w), NEW s \in Servers, NEW f \in Flags, ~Owes(w, s, f)
    PROVE  Agrees(s, f)
<1>1. \A v \in Requests : ~Owes(v, s, f)
  BY DEF Lone, Owes, At
<1> QED
  BY <1>1 DEF RowsAgree, Agrees

\* A step of the one request.
LEMMA FlagStep ==
    ASSUME IInv, NEW w \in Requests, Lone(w), NEW j, Go(w, j), JobFits(w)',
           \A s \in Servers : row'[s].flags # {} => row'[s].in,
           \A s \in Servers, f \in Flags : Owes(w, s, f)' \/ Agrees(s, f)'
    PROVE  OneByOne' /\ RowsAgree'
<1>1. \A v \in Requests : v # w => job'[v].at = "idle"
  BY Went DEF Lone, At
<1>2. \A v \in Requests : v # w => JobFits(v)'
  BY <1>1 DEF JobFits, At
<1>3. OneByOne'
  BY <1>1, <1>2, JobsFitNext DEF At
<1>4. RowsAgree'
  BY DEF RowsAgree, Agrees
<1> QED
  BY <1>3, <1>4

\* A step that leaves requests, rows and the ban alone.
LEMMA FlagFrame ==
    ASSUME IInv, OneByOne, RowsAgree, HeldKept, UNCHANGED <<job, net>>,
           \A s \in Servers : row'[s].flags = row[s].flags /\ (row[s].in => row'[s].in)
    PROVE  OneByOne' /\ RowsAgree'
<1>0. "ban" \in Flags
  BY PlayersAssumption
<1>1. \A w, s, f : Owes(w, s, f)' <=> Owes(w, s, f)
  BY DEF Owes, At
<1>2. \A s \in Servers : \A f, v : Fits(s, f, v)' <=> Fits(s, f, v)
  BY DEF Fits
<1>3. RowsAgree'
  BY <1>1, <1>2 DEF RowsAgree, HeldKept
<1>4. ASSUME NEW w \in Requests PROVE JobFits(w)'
  <2>1. JobFits(w) /\ (~At(w, "idle") => job[w].srv \in Servers)
    BY JobsFit DEF IInv, JobsPlaced, At
  <2>2. \A s \in Servers : HeldAfter(s, "ban", FALSE) => HeldAfter(s, "ban", FALSE)'
    BY <1>0 DEF HeldKept
  <2> QED
    BY <2>1, <2>2 DEF JobFits, At
<1>5. OneByOne'
  BY <1>4, JobsFit, JobsFitNext DEF At
<1> QED
  BY <1>3, <1>5

LEMMA TurnSame == ASSUME InTurn, UNCHANGED <<queue, todo, ran, game>> PROVE InTurn' /\ HeldKept
  BY HeldSame DEF InTurn

LEMMA TurnInsert ==
    ASSUME IInv, InTurn, NEW cs \in Seq(Commands), Insert(cs), UNCHANGED <<todo, ran, game>>
    PROVE  InTurn'
<1>1. ASSUME ran # "no" PROVE queue'[1] = queue[1]
  <2>1. queue \in Seq(Commands) /\ queue' = queue \o cs /\ todo # <<>> /\ todo \in Seq(Nat) /\ todo[1] \in 1 .. Len(queue)
    BY <1>1 DEF IInv, TypeOK, Insert, Places
  <2>2. 1 \in 1 .. Len(queue)
    BY <2>1
  <2> QED
    BY <2>1, <2>2
<1> QED
  BY <1>1 DEF InTurn

\* The first statement of a request finds no other under way, or they overlap.
LEMMA AskFlags ==
    ASSUME IInv, BanSafe, InTurn, OneByOne, RowsAgree, NEW w \in Requests, Ask(w), Smooth'
    PROVE  InTurn' /\ OneByOne' /\ RowsAgree'
<1>1. PICK at, op, val, s, name :
        /\ Begin(w, at, op, val, s, name) /\ at \in {"flag", "enqueue", "record", "latest"}
        /\ at = "flag" => op \in Flags /\ row[s].in /\ name = row[s].name /\ s \in Servers
        /\ at = "enqueue" => op = "kick"
        /\ at = "latest" => ~val /\ net' = None
        /\ at # "latest" => net' = net
  <2>1. PICK s \in Servers :
          \/ HandleBanPlayer(w, s) \/ HandleUnbanPlayer(w, s) \/ HandleKickPlayer(w, s)
          \/ \E f \in Flags, v \in BOOLEAN : HandleSetFlag(w, s, f, v)
          \/ HandleBanNetworkPlayer(w, s) \/ HandleUnbanNetworkPlayer(w, s)
    BY DEF Ask
  <2>2. CASE HandleBanPlayer(w, s) \/ HandleUnbanPlayer(w, s) \/ \E f \in Flags, v \in BOOLEAN : HandleSetFlag(w, s, f, v)
    <3>1. PICK at, op, val, name : /\ Begin(w, at, op, val, s, name) /\ at = "flag" /\ op \in Flags
                                   /\ row[s].in /\ name = row[s].name /\ net' = net
      BY <2>2, PlayersAssumption DEF HandleBanPlayer, HandleUnbanPlayer, HandleSetFlag, PlayerTarget
    <3>2. at # "enqueue" /\ at # "latest" /\ at \in {"flag", "enqueue", "record", "latest"}
      BY <3>1
    <3> QED
      BY <3>1, <3>2
  <2>3. CASE HandleKickPlayer(w, s)
    <3>1. PICK at, op, val, name : Begin(w, at, op, val, s, name) /\ at = "enqueue" /\ op = "kick" /\ net' = net
      BY <2>3 DEF HandleKickPlayer, PlayerTarget
    <3>2. at # "flag" /\ at # "latest" /\ at \in {"flag", "enqueue", "record", "latest"}
      BY <3>1
    <3> QED
      BY <3>1, <3>2
  <2>4. CASE HandleBanNetworkPlayer(w, s)
    <3>1. PICK at, op, val, name : Begin(w, at, op, val, s, name) /\ at = "record" /\ net' = net
      BY <2>4 DEF HandleBanNetworkPlayer
    <3>2. at # "flag" /\ at # "latest" /\ at # "enqueue" /\ at \in {"flag", "enqueue", "record", "latest"}
      BY <3>1
    <3> QED
      BY <3>1, <3>2
  <2>5. CASE HandleUnbanNetworkPlayer(w, s)
    <3>1. PICK at, op, val, name : Begin(w, at, op, val, s, name) /\ at = "latest" /\ val = FALSE /\ net' = None
      BY <2>5 DEF HandleUnbanNetworkPlayer
    <3>2. at # "flag" /\ at # "enqueue" /\ ~val /\ at \in {"flag", "enqueue", "record", "latest"}
      BY <3>1
    <3> QED
      BY <3>1, <3>2
  <2> QED
    BY <2>1, <2>2, <2>3, <2>4, <2>5
<1>2. PICK j : j = [Idle EXCEPT !.at = at, !.op = op, !.val = val, !.srv = s, !.name = name]
  OBVIOUS
<1>3. j.at = at /\ j.val = val /\ j.name = name /\ j.op = op /\ j.srv = s
  BY <1>2 DEF Idle
<1>4. /\ Go(w, j) /\ NoRequests /\ dist' = dist /\ UNCHANGED <<queue, todo, ran, game, row>>
  BY <1>1, <1>2 DEF Begin, Smooth
<1>5. job'[w] = j
  BY <1>4, Went
<1>6. Lone(w) /\ \A t, f : ~Owes(w, t, f)
  BY <1>4 DEF Lone, NoRequests, Idle, At, Owes
<1>7. JobFits(w)'
  <2>1. "renamed" \notin dist
    BY <1>4 DEF Smooth
  <2>2. at = "flag" => name = FirstName
    BY <1>1, <2>1 DEF BanSafe, OneName
  <2>3. "kick" \notin Flags
    BY PlayersAssumption
  <2> QED
    BY <1>1, <1>3, <1>4, <1>5, <2>2, <2>3 DEF JobFits, At
<1>8. ASSUME NEW t \in Servers, NEW f \in Flags PROVE Owes(w, t, f)' \/ Agrees(t, f)'
  <2>1. PICK v \in BOOLEAN : HeldAfter(t, f, v) /\ Fits(t, f, v)
    BY <1>6, LoneAgrees DEF Agrees
  <2>2. HeldAfter(t, f, v)'
    BY <1>4, <2>1, HeldSame DEF HeldKept
  <2>3. CASE at = "latest" /\ f = "ban"
    BY <1>3, <1>5, <2>3 DEF Owes, At
  <2>4. CASE at # "latest" \/ f # "ban"
    BY <1>1, <1>4, <2>1, <2>2, <2>4 DEF Agrees, Fits
  <2> QED
    BY <2>3, <2>4
<1>9. \A t \in Servers : row'[t].flags # {} => row'[t].in
  BY <1>4 DEF RowsAgree
<1> QED
  BY <1>4, <1>6, <1>7, <1>8, <1>9, FlagStep, TurnSame

\* What each statement of the one request does to what it owes.
LEMMA WorkFlags ==
    ASSUME IInv, BanSafe, InTurn, OneByOne, RowsAgree, NEW w \in Requests, Work(w), Smooth'
    PROVE  InTurn' /\ OneByOne' /\ RowsAgree'
<1>0. /\ job[w] \in Jobs /\ Idle.at = "idle" /\ "ban" \in Flags /\ "kick" \notin Flags
      /\ \A at \in {"enqueue", "mark", "fanout"} : LET j == [job[w] EXCEPT !.at = at] IN
            j.at = at /\ j.val = job[w].val /\ j.name = job[w].name /\ j.op = job[w].op /\ j.srv = job[w].srv
  <2>1. job[w] \in Jobs
    BY JobAt
  <2> QED
    BY <2>1, PlayersAssumption DEF Jobs, Idle
<1>a. dist' = dist /\ "abort" \notin dist /\ "renamed" \notin dist
  <2>1. dist' = dist
    BY DEF Work, BanPlayer, UnbanPlayer, SetFlag, UpdateFlag, KickPlayer, EnqueueConsoleCommand, BanNetworkPlayer, MarkRows,
       UnbanNetworkPlayer, FanOutConsoleCommand, queueVars
  <2> QED
    BY <2>1 DEF Smooth
<1>b. /\ job[w].live
      /\ At(w, "record") => job[w].val
      /\ job[w].at \in {"record", "mark", "fanout"} /\ job[w].val => job[w].name = FirstName
      /\ row[seen].in /\ \A s \in Servers : row[s].in => row[s].name = FirstName
  BY <1>a DEF BanSafe, NetworkJobs, OneName
<1>c. JobFits(w) /\ (~At(w, "idle") => Lone(w) /\ job[w].srv \in Servers)
  BY JobsFit, LoneOne DEF IInv, JobsPlaced, At
<1>d. row \in [Servers -> Row] /\ seen \in Servers /\ \A s \in Servers : row[s].flags # {} => row[s].in
  BY Types DEF IInv, PanelTypes, RowsAgree
<1>e. \A s, f : Idle = job'[w] => ~Owes(w, s, f)' /\ JobFits(w)'
  BY <1>0 DEF Owes, JobFits, At
<1>1. ASSUME NEW f0 \in Flags, NEW v0 \in BOOLEAN, UpdateFlag(w, f0, v0) PROVE InTurn' /\ OneByOne' /\ RowsAgree'
  <2>0. PICK s0 \in Servers : s0 = job[w].srv
    BY <1>1, <1>c DEF UpdateFlag, At
  <2>1. /\ job[w].at = "flag" /\ job[w].op = f0 /\ job[w].val = v0 /\ UNCHANGED <<queue, todo, ran, game, net>>
        /\ row' = [row EXCEPT ![s0].flags = IF v0 THEN @ \cup {f0} ELSE @ \ {f0}]
        /\ Go(w, [job[w] EXCEPT !.at = "enqueue"])
    BY <1>1, <1>b, <2>0 DEF UpdateFlag, At, queueVars, gameVars
  <2>2. /\ Lone(w) /\ row[s0].in /\ job[w].name = FirstName /\ \A s, f : ~Owes(w, s, f)
    BY <1>c, <2>0, <2>1 DEF JobFits, At, Owes
  <2>3. PICK j : Go(w, j) /\ j.at = "enqueue" /\ j.op = f0 /\ j.val = v0 /\ j.srv = s0 /\ j.name = FirstName
    BY <1>0, <2>0, <2>1, <2>2
  <2>4. job'[w] = j
    BY <2>3, Went
  <2>5. /\ row'[s0].flags = (IF v0 THEN row[s0].flags \cup {f0} ELSE row[s0].flags \ {f0}) /\ row'[s0].in
        /\ \A s \in Servers : s # s0 => row'[s] = row[s]
    BY <1>d, <2>1, <2>2 DEF Row
  <2>6. JobFits(w)'
    BY <2>3, <2>4, <2>5 DEF JobFits, At
  <2>7. ASSUME NEW s \in Servers, NEW f \in Flags PROVE Owes(w, s, f)' \/ Agrees(s, f)'
    <3>1. CASE s = s0 /\ f = f0
      BY <2>3, <2>4, <3>1 DEF Owes, At
    <3>2. CASE ~(s = s0 /\ f = f0)
      <4>1. PICK v \in BOOLEAN : HeldAfter(s, f, v) /\ Fits(s, f, v)
        BY <2>2, LoneAgrees DEF Agrees
      <4>2. HeldAfter(s, f, v)'
        BY <2>1, <4>1, HeldSame DEF HeldKept
      <4>3. f \in row'[s].flags <=> f \in row[s].flags
        BY <2>5, <3>2
      <4> QED
        BY <2>1, <4>1, <4>2, <4>3 DEF Agrees, Fits
    <3> QED
      BY <3>1, <3>2
  <2>8. \A s \in Servers : row'[s].flags # {} => row'[s].in
    BY <1>d, <2>5
  <2> QED
    BY <2>1, <2>2, <2>3, <2>6, <2>7, <2>8, FlagStep, TurnSame
<1>2. CASE EnqueueConsoleCommand(w) \/ KickPlayer(w)
  <2>1. /\ job[w].at = "enqueue" /\ Go(w, Idle) /\ UNCHANGED <<todo, ran, game, row, net>> /\ Insert(<<Command(job[w])>>)
    BY <1>2, <1>b DEF EnqueueConsoleCommand, KickPlayer, At, panelVars, gameVars
  <2>2. Lone(w) /\ job[w].srv \in Servers /\ job'[w] = Idle
    BY <1>c, <2>1, Went DEF At
  <2>3. PICK c : c = Command(job[w])
    OBVIOUS
  <2>4. c \in Commands /\ c.op = job[w].op /\ c.val = job[w].val /\ c.srv = job[w].srv /\ c.name = job[w].name
    BY <1>0, <2>2, <2>3 DEF Command, Commands, Jobs
  <2>5. <<c>> \in Seq(Commands) /\ Len(<<c>>) = 1 /\ <<c>>[1] = c /\ 1 \in 1 .. Len(<<c>>) /\ \A p \in 1 .. Len(<<c>>) : p = 1
    BY <2>4
  <2>6. InTurn'
    BY <2>1, <2>3, <2>5, TurnInsert
  <2>7. ASSUME NEW s \in Servers, NEW f \in Flags PROVE Agrees(s, f)'
    <3>1. CASE Owes(w, s, f)
      <4>1. job[w].op = f /\ job[w].srv = s
        BY <2>1, <3>1 DEF Owes, At
      <4>2. job[w].name = FirstName /\ (job[w].val <=> f \in row[s].flags) /\ job[w].val \in BOOLEAN
        BY <1>0, <1>c, <2>1, <4>1 DEF JobFits, At, Jobs
      <4>3. PICK v \in BOOLEAN : v = job[w].val
        BY <4>2
      <4>4. Sets(<<c>>[1], s, f) /\ c.val = v
        BY <2>4, <2>5, <4>1, <4>2, <4>3 DEF Sets
      <4>5. \A p \in 1 .. Len(<<c>>) : Sets(<<c>>[p], s, f) => <<c>>[p].val = v
        BY <2>5, <4>4
      <4>6. HeldAfter(s, f, v)'
        BY <2>1, <2>3, <2>5, <4>4, <4>5, HeldInsert
      <4>7. Fits(s, f, v)'
        BY <2>1, <4>2, <4>3 DEF Fits
      <4> QED
        BY <4>6, <4>7 DEF Agrees
    <3>2. CASE ~Owes(w, s, f)
      <4>1. PICK v \in BOOLEAN : HeldAfter(s, f, v) /\ Fits(s, f, v)
        BY <2>2, <3>2, LoneAgrees DEF Agrees
      <4>2. ~Sets(c, s, f)
        BY <2>1, <2>4, <3>2 DEF Sets, Owes, At
      <4>3. HeldAfter(s, f, v)'
        BY <2>1, <2>3, <2>5, <4>1, <4>2, HeldInsert
      <4> QED
        BY <2>1, <4>1, <4>3 DEF Agrees, Fits
    <3> QED
      BY <3>1, <3>2
  <2> QED
    BY <1>d, <1>e, <2>1, <2>2, <2>6, <2>7, FlagStep
<1>3. CASE BanNetworkPlayer(w)
  <2>1. /\ job[w].at = "record" /\ job[w].val /\ job[w].name = FirstName /\ UNCHANGED <<queue, todo, ran, game, row>>
        /\ Go(w, [job[w] EXCEPT !.at = "mark"]) /\ net' = IF net = None THEN job[w].name ELSE net
    BY <1>3, <1>b DEF BanNetworkPlayer, At, queueVars, gameVars
  <2>2. PICK j : Go(w, j) /\ j.at = "mark" /\ j.val
    BY <1>0, <2>1
  <2>3. job'[w] = j /\ Lone(w) /\ \A s, f : ~Owes(w, s, f)
    BY <1>c, <2>1, <2>2, Went DEF At, Owes
  <2>4. net' # None
    BY <2>1, PlayersAssumption
  <2>5. JobFits(w)'
    BY <2>2, <2>3, <2>4 DEF JobFits, At
  <2>6. ASSUME NEW s \in Servers, NEW f \in Flags PROVE Agrees(s, f)'
    <3>1. PICK v \in BOOLEAN : HeldAfter(s, f, v) /\ Fits(s, f, v)
      BY <2>3, LoneAgrees DEF Agrees
    <3>2. HeldAfter(s, f, v)'
      BY <2>1, <3>1, HeldSame DEF HeldKept
    <3> QED
      BY <2>1, <2>4, <3>1, <3>2 DEF Agrees, Fits
  <2> QED
    BY <1>d, <2>1, <2>2, <2>3, <2>5, <2>6, FlagStep, TurnSame
<1>4. CASE MarkRows(w)
  <2>1. /\ job[w].at = "mark" /\ UNCHANGED <<queue, todo, ran, game, net>>
        /\ row' = [s \in Servers |-> IF ~row[s].in THEN row[s]
                                     ELSE [row[s] EXCEPT !.flags = IF job[w].val THEN @ \cup {"ban"} ELSE @ \ {"ban"}]]
        /\ Go(w, IF job[w].val THEN [job[w] EXCEPT !.at = "fanout"] ELSE Idle)
    BY <1>4, <1>b DEF MarkRows, At, queueVars, gameVars
  <2>2. Lone(w) /\ \A s, f : Owes(w, s, f) => f = "ban"
    BY <1>c, <2>1 DEF At, Owes
  <2>3. /\ \A s \in Servers : row'[s].in = row[s].in /\ (row'[s].flags # {} => row'[s].in)
        /\ \A s \in Servers : \A f : f # "ban" => (f \in row'[s].flags <=> f \in row[s].flags)
        /\ \A s \in Servers : ~job[w].val => "ban" \notin row'[s].flags
    BY <1>d, <2>1 DEF Row
  <2>4. ASSUME NEW s \in Servers, NEW f \in Flags, f # "ban" PROVE Agrees(s, f)'
    <3>1. PICK v \in BOOLEAN : HeldAfter(s, f, v) /\ Fits(s, f, v)
      BY <2>2, <2>4, LoneAgrees DEF Agrees
    <3>2. HeldAfter(s, f, v)'
      BY <2>1, <3>1, HeldSame DEF HeldKept
    <3> QED
      BY <2>1, <2>3, <2>4, <3>1, <3>2 DEF Agrees, Fits
  <2>5. CASE job[w].val
    <3>1. PICK j : Go(w, j) /\ j.at = "fanout" /\ j.name = FirstName
      BY <1>0, <1>b, <2>1, <2>5
    <3>2. job'[w] = j /\ net' # None
      BY <1>c, <2>1, <2>5, <3>1, Went DEF JobFits, At
    <3>3. JobFits(w)'
      BY <3>1, <3>2 DEF JobFits, At
    <3>4. \A s : Owes(w, s, "ban")'
      BY <3>1, <3>2 DEF Owes, At
    <3> QED
      BY <2>1, <2>2, <2>3, <2>4, <3>1, <3>3, <3>4, FlagStep, TurnSame
  <2>6. CASE ~job[w].val
    <3>1. Go(w, Idle) /\ job'[w] = Idle
      BY <2>1, <2>6, Went
    <3>2. ASSUME NEW s \in Servers PROVE Agrees(s, "ban")'
      <4>1. HeldAfter(s, "ban", FALSE)
        BY <1>c, <2>1, <2>6 DEF JobFits, At
      <4>2. HeldAfter(s, "ban", FALSE)'
        BY <1>0, <2>1, <4>1, HeldSame DEF HeldKept
      <4>3. Fits(s, "ban", FALSE)'
        BY <2>3, <2>6 DEF Fits
      <4> QED
        BY <4>2, <4>3 DEF Agrees
    <3> QED
      BY <1>e, <2>1, <2>2, <2>3, <2>4, <3>1, <3>2, FlagStep, TurnSame
  <2> QED
    BY <2>5, <2>6
<1>5. CASE UnbanNetworkPlayer(w)
  <2>1. /\ job[w].at = "latest" /\ UNCHANGED <<queue, todo, ran, game, net, row>>
        /\ Go(w, [job[w] EXCEPT !.at = "fanout", !.name = row[seen].name])
    BY <1>5, <1>b DEF UnbanNetworkPlayer, At, queueVars, panelVars, gameVars, LatestUsername
  <2>2. ~job[w].val /\ row[seen].name = FirstName /\ Lone(w) /\ \A s, f : Owes(w, s, f) => f = "ban"
    BY <1>b, <1>c, <1>d, <2>1 DEF JobFits, At, Owes
  <2>3. PICK j : Go(w, j) /\ j.at = "fanout" /\ j.name = FirstName /\ ~j.val
    <3>1. PICK j : j = [job[w] EXCEPT !.at = "fanout", !.name = row[seen].name]
      OBVIOUS
    <3>2. j.at = "fanout" /\ j.name = FirstName /\ ~j.val
      BY <1>0, <2>2, <3>1 DEF Jobs
    <3> QED
      BY <2>1, <3>1, <3>2
  <2>4. job'[w] = j
    BY <2>3, Went
  <2>5. JobFits(w)' /\ \A s : Owes(w, s, "ban")'
    BY <2>3, <2>4 DEF JobFits, At, Owes
  <2>6. ASSUME NEW s \in Servers, NEW f \in Flags, f # "ban" PROVE Agrees(s, f)'
    <3>1. PICK v \in BOOLEAN : HeldAfter(s, f, v) /\ Fits(s, f, v)
      BY <2>2, <2>6, LoneAgrees DEF Agrees
    <3>2. HeldAfter(s, f, v)'
      BY <2>1, <3>1, HeldSame DEF HeldKept
    <3> QED
      BY <2>1, <3>1, <3>2 DEF Agrees, Fits
  <2> QED
    BY <1>d, <2>1, <2>2, <2>3, <2>5, <2>6, FlagStep, TurnSame
<1>6. CASE FanOutConsoleCommand(w)
  <2>1. job[w].at = "fanout" /\ UNCHANGED <<todo, ran, game, row, net>> /\ job[w].val \in BOOLEAN
    BY <1>0, <1>6 DEF FanOutConsoleCommand, At, panelVars, gameVars, Jobs
  <2>2. PICK cs \in Seq(Commands) :
          /\ Insert(cs)
          /\ \A i \in 1 .. Len(cs) : cs[i].op = "ban" /\ cs[i].val = job[w].val /\ cs[i].name = job[w].name
          /\ \A s \in Servers : \E i \in 1 .. Len(cs) : cs[i] = [op |-> "ban", val |-> job[w].val, srv |-> s, name |-> job[w].name]
    BY <1>6, <1>b, FanOutAll
  <2>3. InTurn'
    BY <2>1, <2>2, TurnInsert
  <2>4. Lone(w) /\ job[w].name = FirstName /\ (job[w].val => net # None) /\ \A s, f : Owes(w, s, f) => f = "ban"
    BY <1>c, <2>1 DEF JobFits, At, Owes
  <2>5. PICK v \in BOOLEAN : v = job[w].val
    BY <2>1
  <2>6. ASSUME NEW s \in Servers PROVE HeldAfter(s, "ban", v)'
    <3>1. \E p \in 1 .. Len(cs) : Sets(cs[p], s, "ban")
      <4>1. PICK p \in 1 .. Len(cs) : cs[p] = [op |-> "ban", val |-> job[w].val, srv |-> s, name |-> job[w].name]
        BY <2>2
      <4>2. cs[p].op = "ban" /\ cs[p].srv = s /\ cs[p].name = FirstName
        BY <2>4, <4>1
      <4> QED
        BY <4>2 DEF Sets
    <3>2. \A p \in 1 .. Len(cs) : Sets(cs[p], s, "ban") => cs[p].val = v
      BY <2>2, <2>5
    <3> QED
      BY <2>1, <2>2, <3>1, <3>2, HeldInsert
  <2>7. ASSUME NEW s \in Servers, NEW f \in Flags, f # "ban" PROVE Agrees(s, f)'
    <3>1. PICK x \in BOOLEAN : HeldAfter(s, f, x) /\ Fits(s, f, x)
      BY <2>4, <2>7, LoneAgrees DEF Agrees
    <3>2. \A p \in 1 .. Len(cs) : ~Sets(cs[p], s, f)
      BY <2>2, <2>7 DEF Sets
    <3>3. HeldAfter(s, f, x)'
      BY <2>1, <2>2, <3>1, <3>2, HeldInsert
    <3> QED
      BY <2>1, <3>1, <3>3 DEF Agrees, Fits
  <2>8. CASE v
    <3>1. Go(w, Idle) /\ job'[w] = Idle
      BY <1>6, <2>5, <2>8, Went DEF FanOutConsoleCommand
    <3>2. ASSUME NEW s \in Servers PROVE Agrees(s, "ban")'
      <4>1. Fits(s, "ban", v)'
        BY <2>1, <2>4, <2>5, <2>8 DEF Fits
      <4> QED
        BY <2>6, <4>1 DEF Agrees
    <3> QED
      BY <1>d, <1>e, <2>1, <2>3, <2>4, <2>7, <3>1, <3>2, FlagStep
  <2>9. CASE ~v
    <3>1. PICK j : Go(w, j) /\ j.at = "mark" /\ ~j.val
      BY <1>0, <1>6, <2>5, <2>9 DEF FanOutConsoleCommand
    <3>2. job'[w] = j
      BY <3>1, Went
    <3>3. v = FALSE
      BY <2>9
    <3>4. JobFits(w)'
      BY <2>6, <3>1, <3>2, <3>3 DEF JobFits, At
    <3>5. \A s : Owes(w, s, "ban")'
      BY <3>1, <3>2 DEF Owes, At
    <3> QED
      BY <1>d, <2>1, <2>3, <2>4, <2>7, <3>1, <3>4, <3>5, FlagStep
  <2> QED
    BY <2>8, <2>9
<1> QED
  BY <1>0, <1>1, <1>2, <1>3, <1>4, <1>5, <1>6 DEF Work, BanPlayer, UnbanPlayer, SetFlag

LEMMA FlagsNext == IInv /\ BanSafe /\ FlagsSafe /\ [Next]_vars => FlagsSafe'
<1> SUFFICES ASSUME IInv, BanSafe, FlagsSafe, [Next]_vars, Smooth' PROVE InTurn' /\ OneByOne' /\ RowsAgree'
  BY DEF FlagsSafe
<1>0. InTurn /\ OneByOne /\ RowsAgree
  BY DistGrows DEF FlagsSafe, Smooth
<1>a. ASSUME UNCHANGED <<queue, todo, ran, game, job, row, net>> PROVE InTurn' /\ OneByOne' /\ RowsAgree'
  <2>1. \A s \in Servers : row'[s].flags = row[s].flags /\ (row[s].in => row'[s].in)
    BY <1>a
  <2> QED
    BY <1>0, <1>a, <2>1, TurnSame, FlagFrame
<1>1. CASE UNCHANGED vars
  BY <1>1, <1>a DEF vars, queueVars, panelVars, gameVars
<1>2. ASSUME NEW w \in Requests, Ask(w) \/ Work(w) PROVE InTurn' /\ OneByOne' /\ RowsAgree'
  BY <1>0, <1>2, AskFlags, WorkFlags
<1>3. ASSUME NEW w \in Requests, Abort(w) PROVE FALSE
  BY <1>3 DEF Abort, Disturb, Smooth
<1>4. ASSUME NEW s \in Servers, DaemonPlayerReport(s) PROVE InTurn' /\ OneByOne' /\ RowsAgree'
  <2>1. UNCHANGED <<queue, todo, ran, game, job, row, net>>
    BY <1>4 DEF DaemonPlayerReport, RecordPlayerEvent, queueVars
  <2> QED
    BY <1>a, <2>1
<1>5. ASSUME NEW s \in Servers, CommitJoin(s) PROVE InTurn' /\ OneByOne' /\ RowsAgree'
  <2>1. row \in [Servers -> Row] /\ rep \in [Servers -> [name : Called, kick : BOOLEAN]]
    BY Types DEF IInv, PanelTypes, RepTypes
  <2>2. /\ UNCHANGED <<todo, ran, game, job, net>>
        /\ row' = [row EXCEPT ![s].in = TRUE, ![s].name = rep[s].name]
    BY <1>5 DEF CommitJoin, gameVars
  <2>3. \A t \in Servers : row'[t].flags = row[t].flags /\ (row[t].in => row'[t].in)
    BY <2>1, <2>2 DEF Row
  <2>4. PICK c : c = [op |-> "kick", val |-> TRUE, srv |-> s, name |-> rep[s].name]
    OBVIOUS
  <2>5. Insert(<<c>>) \/ queue' = queue
    BY <1>5, <2>4 DEF CommitJoin
  <2>6. /\ <<c>> \in Seq(Commands) /\ c.op = "kick" /\ Len(<<c>>) = 1 /\ <<c>>[1] = c /\ \A p \in 1 .. Len(<<c>>) : p = 1
    <3>1. c \in Commands /\ c.op = "kick"
      BY <2>1, <2>4 DEF Commands
    <3> QED
      BY <3>1
  <2>7. CASE Insert(<<c>>)
    <3>1. InTurn'
      BY <1>0, <2>2, <2>6, <2>7, TurnInsert
    <3>2. ASSUME NEW t \in Servers, NEW f \in Flags, NEW v \in BOOLEAN, HeldAfter(t, f, v) PROVE HeldAfter(t, f, v)'
      <4>1. \A p \in 1 .. Len(<<c>>) : ~Sets(<<c>>[p], t, f)
        BY <2>6, PlayersAssumption DEF Sets
      <4> QED
        BY <2>2, <2>6, <2>7, <3>2, <4>1, HeldInsert
    <3>3. HeldKept
      BY <3>2 DEF HeldKept
    <3> QED
      BY <1>0, <2>2, <2>3, <3>1, <3>3, FlagFrame
  <2>8. CASE queue' = queue
    BY <1>0, <2>2, <2>3, <2>8, TurnSame, FlagFrame
  <2> QED
    BY <2>5, <2>7, <2>8
<1>6. CASE Polls
  <2>0. UNCHANGED <<job, net, row>>
    BY <1>6 DEF Polls, SendCommand, panelVars
  <2>1. CASE Poller /\ UNCHANGED <<panelVars, gameVars, job, rep>>
    <3>1. game' = game
      BY <2>1 DEF gameVars
    <3>2. InTurn' /\ HeldKept
      BY <1>0, <2>1, <3>1, AckFlags, FetchFlags DEF Poller
    <3> QED
      BY <1>0, <2>0, <3>2, FlagFrame
  <2>2. CASE todo # <<>> /\ SendCommand(queue[Head(todo)])
    <3>1. InTurn' /\ HeldKept
      BY <1>0, <2>2, SendFlags
    <3> QED
      BY <1>0, <2>0, <3>1, FlagFrame
  <2> QED
    BY <1>6, <2>1, <2>2 DEF Polls
<1>7. ASSUME NEW s \in Servers, (\E n \in Names : GameJoin(s, n)) \/ GameLeave(s) \/ ServerStarts(s) \/ ReportLost(s)
      PROVE  InTurn' /\ OneByOne' /\ RowsAgree'
  <2>1. UNCHANGED <<queue, todo, ran, game, job, row, net>>
    BY <1>7 DEF GameJoin, GameLeave, ServerStarts, ReportLost, queueVars, panelVars
  <2> QED
    BY <1>a, <2>1
<1>8. ASSUME NEW s \in Servers, NEW kept, UpdateServerStatus(s, kept) PROVE InTurn' /\ OneByOne' /\ RowsAgree'
  <2>1. UNCHANGED <<queue, todo, ran, game, job, row, net>>
    BY <1>8 DEF UpdateServerStatus, Disturb, Smooth
  <2> QED
    BY <1>a, <2>1
<1>9. CASE AckLost
  BY <1>9 DEF AckLost, Disturb, Smooth
<1>10. CASE DaemonBoots
  <2>1. PollerRestarts /\ UNCHANGED <<game, job, row, net>>
    BY <1>10 DEF DaemonBoots
  <2> QED
    BY <1>0, <2>1, FetchFlags, FlagFrame
<1> QED
  BY <1>1, <1>2, <1>3, <1>4, <1>5, <1>6, <1>7, <1>8, <1>9, <1>10 DEF Next, Record

LEMMA FlagsInit == Init => FlagsSafe
<1> SUFFICES ASSUME Init PROVE FlagsSafe
  OBVIOUS
<1>1. todo = <<>> /\ ran = "no" /\ queue = <<>>
  BY DEF Init, QueueInit
<1>2. InTurn
  BY <1>1 DEF InTurn
<1>3. OneByOne
  BY DEF Init, OneByOne, At, Idle
<1>4. ASSUME NEW s \in Servers PROVE row[s].flags = {} /\ game[s] = {}
  BY DEF Init, NoRow
<1>5. ASSUME NEW s \in Servers, NEW f \in Flags PROVE HeldAfter(s, f, FALSE) /\ Fits(s, f, FALSE)
  <2>1. Len(queue) = 0 /\ 0 \in 0 .. 0 /\ \A k \in 0 + 1 .. 0 : FALSE
    BY <1>1
  <2>2. HeldAt(0, s, f, FALSE)
    BY <1>4 DEF HeldAt
  <2> QED
    BY <1>4, <2>1, <2>2 DEF HeldAfter, Fits
<1>6. RowsAgree
  BY <1>4, <1>5 DEF RowsAgree
<1> QED
  BY <1>2, <1>3, <1>6 DEF FlagsSafe

\* What the panel shows of a flag is what the game will hold of it once the queue has been
\* run, or the one request that is under way has yet to do its other half.
THEOREM FlagsSafeAlways == Spec => []FlagsSafe
<1>1. Init => FlagsSafe
  BY FlagsInit
<1>2. IInv /\ BanSafe /\ FlagsSafe /\ [Next]_vars => FlagsSafe'
  BY FlagsNext
<1> QED
  BY <1>1, <1>2, Inductive, BanSafeAlways, PTL DEF Spec

\* What the panel shows is what the game holds once the queue is empty, for any number of
\* servers, flags and requests, also if the daemon starts again between running a command
\* and acknowledging it (UpdateFlag then EnqueueConsoleCommand; MarkRows and the fan-out;
\* the poll in order of created_at).
THEOREM FlagsAgree == Spec => []FlagsConverge
<1>1. IInv /\ FlagsSafe => FlagsConverge
  <2> SUFFICES ASSUME IInv, FlagsSafe, Quiet, Smooth, NEW s \in Servers
               PROVE  /\ \A f \in row[s].flags : <<f, FirstName>> \in game[s]
                      /\ \A f \in Flags \ {"ban"} : <<f, FirstName>> \in game[s] => f \in row[s].flags
                      /\ <<"ban", FirstName>> \in game[s] => net # None \/ (row[s].in /\ "ban" \in row[s].flags)
    BY DEF FlagsConverge, Smooth, ListNetworkPlayers
  <2>1. queue = <<>> /\ \A w \in Requests : job[w].at = "idle"
    BY DEF Quiet, QueueQuiet, NoRequests, Idle
  <2>2. \A w \in Requests, f \in Flags : ~Owes(w, s, f)
    BY <2>1 DEF Owes, At
  <2>3. ASSUME NEW f \in Flags
        PROVE  /\ f \in row[s].flags => <<f, FirstName>> \in game[s]
               /\ <<f, FirstName>> \in game[s] => f \in row[s].flags \/ (f = "ban" /\ net # None)
    <3>1. PICK v \in BOOLEAN : HeldAfter(s, f, v) /\ Fits(s, f, v)
      BY <2>2 DEF FlagsSafe, RowsAgree
    <3>2. HeldAt(0, s, f, v)
      BY <2>1, <3>1 DEF HeldAfter
    <3> QED
      BY <3>1, <3>2 DEF HeldAt, Fits
  <2>4. row[s].flags \subseteq Flags /\ "ban" \in Flags /\ (row[s].flags # {} => row[s].in)
    BY Types, PlayersAssumption DEF IInv, PanelTypes, Row, FlagsSafe, RowsAgree
  <2> QED
    BY <2>3, <2>4
<1> QED
  BY <1>1, Inductive, FlagsSafeAlways, PTL
=============================================================================
