--------------------------- MODULE Content_proofs ---------------------------
(***************************************************************************)
(* The types of Content, that one secret signs every configuration of the  *)
(* network, and that the mods that the panel shows as present are on disk  *)
(* once the queue has been run; for every set of worlds, files, servers    *)
(* and requests.                                                           *)
(***************************************************************************)
EXTENDS Content, SequenceTheorems, FiniteSetTheorems, TLAPS

-----------------------------------------------------------------------------
(* The command queue: the poller holds places of pending commands, in order and each *)
(* once, whatever is inserted, lost or begun again meanwhile.                         *)

\* Between two states, no command is in the queue that was not there before.
NothingNew == \A i \in DOMAIN queue' : \E j \in DOMAIN queue : queue'[i] = queue[j]

\* An insert keeps the places that were fetched (Insert of any request).
LEMMA InsertKeeps ==
    ASSUME NEW S, queue \in Seq(S), Places, NEW cs \in Seq(S), Insert(cs), UNCHANGED <<todo, ran>>
    PROVE  queue' \in Seq(S) /\ Places'
  BY DEF Insert, Places

\* A fetch holds every pending row, oldest first (GetPendingCommands).
LEMMA FetchKeeps ==
    ASSUME NEW S, queue \in Seq(S), Places, GetPendingCommands
    PROVE  queue' \in Seq(S) /\ Places' /\ NothingNew
<1>1. todo' = [i \in 1 .. Len(queue) |-> i] /\ Len(queue) \in Nat /\ queue # <<>> /\ UNCHANGED <<queue, ran>>
  BY DEF GetPendingCommands
<1>2. todo' \in Seq(Nat) /\ Len(todo') = Len(queue)
  BY <1>1
<1> QED
  BY <1>1, <1>2 DEF Places, NothingNew

\* Acknowledging the first fetched command leaves the others at their places
\* (AckCommand's UPDATE ... WHERE status = 'pending').
LEMMA AckKeeps ==
    ASSUME NEW S, queue \in Seq(S), Places, AckCommand
    PROVE  queue' \in Seq(S) /\ Places' /\ NothingNew
<1> DEFINE p == Head(todo)
           n == Len(queue)
           k == Len(todo)
<1>1. n \in Nat /\ k \in Nat /\ k > 0 /\ p \in 1 .. n /\ p = todo[1] /\ n > 0
  BY DEF Places, AckCommand
<1>2. queue' = [i \in 1 .. n - 1 |-> queue[IF i < p THEN i ELSE i + 1]]
  BY DEF AckCommand, Settle
<1>3. todo' = [i \in 1 .. k - 1 |-> IF todo[i + 1] < p THEN todo[i + 1] ELSE todo[i + 1] - 1]
  BY DEF AckCommand, Settle
<1>4. \A i \in 1 .. n - 1 : (IF i < p THEN i ELSE i + 1) \in 1 .. n
  BY <1>1
<1>5. queue' \in Seq(S) /\ Len(queue') = n - 1 /\ DOMAIN queue' = 1 .. n - 1
  BY <1>1, <1>2, <1>4
<1>6. NothingNew
  BY <1>1, <1>2, <1>4, <1>5 DEF NothingNew
<1>7. \A i \in 1 .. k - 1 : todo[i + 1] \in 1 .. n /\ todo[i + 1] > p
  BY <1>1 DEF Places
<1>8. \A i \in 1 .. k - 1 : todo'[i] = todo[i + 1] - 1 /\ todo'[i] \in 1 .. n - 1
  BY <1>1, <1>3, <1>7
<1>9. todo' \in Seq(Nat) /\ Len(todo') = k - 1
  BY <1>1, <1>3, <1>8
<1>10. ASSUME NEW i \in 1 .. k - 1, NEW j \in 1 .. k - 1, i < j
       PROVE  todo'[i] < todo'[j]
  <2>1. i + 1 \in 1 .. k /\ j + 1 \in 1 .. k /\ i + 1 < j + 1
    BY <1>1, <1>10
  <2>2. todo[i + 1] < todo[j + 1]
    BY <2>1 DEF Places
  <2> QED
    BY <1>1, <1>7, <1>8, <2>2
<1>11. ran' = "no"
  BY DEF AckCommand
<1> QED
  BY <1>1, <1>5, <1>6, <1>8, <1>9, <1>10, <1>11 DEF Places

\* A lost acknowledgement only shortens what the poller holds (AckLost).
LEMMA LossKeeps ==
    ASSUME NEW S, queue \in Seq(S), Places, AckLost
    PROVE  queue' \in Seq(S) /\ Places' /\ NothingNew
<1>1. todo \in Seq(Nat) /\ todo # <<>> /\ todo' = Tail(todo) /\ ran' = "no" /\ queue' = queue
  BY DEF AckLost, Places
<1>2. todo' \in Seq(Nat) /\ Len(todo') = Len(todo) - 1 /\ \A i \in 1 .. Len(todo') : todo'[i] = todo[i + 1]
  BY <1>1
<1> QED
  BY <1>1, <1>2 DEF Places, NothingNew

\* A poller that starts again holds nothing.
LEMMA RestartKeeps ==
    ASSUME NEW S, queue \in Seq(S), Places, PollerRestarts
    PROVE  queue' \in Seq(S) /\ Places' /\ NothingNew
<1>1. todo' = <<>> /\ ran' = "no" /\ queue' = queue
  BY DEF PollerRestarts
<1> QED
  BY <1>1 DEF Places, NothingNew

\* A command that runs is one of the queue, and stays in it until it is
\* acknowledged (the poll loop).
LEMMA RunKeeps ==
    ASSUME NEW S, queue \in Seq(S), Places, NEW c, NEW ok, Running(c, ok), UNCHANGED <<queue, todo>>
    PROVE  queue' \in Seq(S) /\ Places' /\ NothingNew /\ c \in S /\ \E i \in DOMAIN queue : c = queue[i]
<1>1. todo \in Seq(Nat) /\ todo # <<>> /\ Head(todo) \in 1 .. Len(queue) /\ c = queue[Head(todo)]
  BY DEF Running, Places
<1>2. Places' /\ NothingNew
  BY <1>1 DEF Places, NothingNew
<1> QED
  BY <1>1, <1>2

\* A step that leaves the queue alone.
LEMMA IdleKeeps ==
    ASSUME NEW S, queue \in Seq(S), Places, UNCHANGED <<queue, todo, ran>>
    PROVE  queue' \in Seq(S) /\ Places' /\ NothingNew
  BY DEF Places, NothingNew

-----------------------------------------------------------------------------
(* Types *)

\* The types by where the state is kept.
PanelTypes ==
    /\ world \in [Worlds -> [in : BOOLEAN, active : BOOLEAN]] /\ mirror \in Things
    /\ mod \in [Keys -> [in : BOOLEAN, present : BOOLEAN, detected : BOOLEAN]]
    /\ role \in [Servers -> Roles] /\ secret \in Requests \cup {0} /\ calls \in Nat
ScanTypes ==
    scan \in [at : {"idle", "worlds", "between", "mark", "plugins"}, worlds : SUBSET Worlds, active : Things,
              found : SUBSET (Keys \X BOOLEAN)]
DiskTypes ==
    /\ dirs \subseteq Worlds /\ boot \in Things
    /\ disk \in [Keys -> SUBSET {"on", "off"}] /\ conf \in [Servers -> Confs]
JobTypes == job \in [Requests -> Jobs]
QueueTypes == queue \in Seq(Commands)

LEMMA Types == TypeOK <=> PanelTypes /\ ScanTypes /\ DiskTypes /\ JobTypes /\ QueueTypes
  BY DEF TypeOK, PanelTypes, ScanTypes, DiskTypes, JobTypes, QueueTypes

LEMMA TypesNext == TypeOK' <=> PanelTypes' /\ ScanTypes' /\ DiskTypes' /\ JobTypes' /\ QueueTypes'
  BY DEF TypeOK, PanelTypes, ScanTypes, DiskTypes, JobTypes, QueueTypes

\* A request that goes on to j is as good as j is.
LEMMA JobStep ==
    ASSUME IInv, NEW w \in Requests, NEW j \in Jobs, Go(w, j), secret' = secret,
           j.at = "role" => j.y \in Roles,
           j.at \in {"table", "send"} => Signed(j.cfg)
    PROVE  job' \in [Requests -> Jobs] /\ JobsKept'
<1>1. job \in [Requests -> Jobs] /\ JobsKept
  BY DEF IInv, TypeOK
<1>2. job' = [job EXCEPT ![w] = j]
  BY DEF Go
<1>3. job' \in [Requests -> Jobs]
  BY <1>1, <1>2
<1>4. ASSUME NEW v \in Requests
      PROVE  /\ job'[v].at = "role" => job'[v].y \in Roles
             /\ job'[v].at \in {"table", "send"} => Signed(job[v].cfg)'
  <2>1. CASE v = w
    BY <1>1, <1>2, <2>1 DEF Signed
  <2>2. CASE v # w
    BY <1>1, <1>2, <2>2 DEF JobsKept, Signed
  <2> QED
    BY <2>1, <2>2
<1> QED
  BY <1>3, <1>4 DEF JobsKept

\* A request that ends is as good as any.
LEMMA IdleJob == Idle \in Jobs /\ Idle.at = "idle" /\ NoConf \in Confs
<1>1. None \in Roles /\ None \in Things /\ None \in Details /\ None \in Ops
  BY DEF Roles, Things, Details, Ops
<1>2. NoConf \in Confs
  BY <1>1 DEF NoConf, Confs
<1> QED
  BY <1>1, <1>2 DEF Idle, Jobs, Points

\* Jobs left alone keep what they have.
LEMMA JobsFrame ==
    ASSUME IInv, UNCHANGED <<job, secret>>
    PROVE  job' \in [Requests -> Jobs] /\ JobsKept'
  BY DEF IInv, TypeOK, JobsKept, Signed

\* Nothing new in the queue, and the configurations on disk as they were.
LEMMA QueueFrame ==
    ASSUME IInv, queue' \in Seq(Commands), NothingNew, secret' = secret
    PROVE  QueueKept'
<1>1. ASSUME NEW i \in DOMAIN queue', queue'[i].op = "write_mod_config"
      PROVE  Signed(queue[i].cfg)'
  <2>1. PICK k \in DOMAIN queue : queue'[i] = queue[k]
    BY DEF NothingNew
  <2>2. Signed(queue[k].cfg)
    BY <1>1, <2>1 DEF IInv, QueueKept
  <2> QED
    BY <2>1, <2>2 DEF Signed
<1> QED
  BY <1>1 DEF QueueKept

LEMMA ConfFrame ==
    ASSUME IInv, UNCHANGED <<conf, secret>>
    PROVE  ConfKept'
  BY DEF IInv, ConfKept

\* Commands that carry no configuration may be added.
LEMMA InsertPlain ==
    ASSUME IInv, NEW cs \in Seq(Commands), Insert(cs), UNCHANGED <<todo, ran, secret>>,
           \A i \in DOMAIN cs : cs[i].op = "write_mod_config" => Signed(cs[i].cfg)
    PROVE  queue' \in Seq(Commands) /\ Places' /\ QueueKept'
<1>1. queue \in Seq(Commands) /\ Places /\ QueueKept
  BY DEF IInv, TypeOK
<1>2. queue' \in Seq(Commands) /\ Places'
  BY <1>1, InsertKeeps
<1>3. queue' = queue \o cs
  BY DEF Insert
<1>4. ASSUME NEW i \in DOMAIN queue', queue'[i].op = "write_mod_config"
      PROVE  Signed(queue[i].cfg)'
  <2>1. CASE i \in DOMAIN queue
    BY <1>1, <1>3, <1>4, <2>1 DEF QueueKept, Signed
  <2>2. CASE i \notin DOMAIN queue
    <3>1. i - Len(queue) \in DOMAIN cs /\ queue'[i] = cs[i - Len(queue)]
      BY <1>1, <1>3, <2>2
    <3> QED
      BY <1>4, <3>1 DEF Signed
  <2> QED
    BY <2>1, <2>2
<1> QED
  BY <1>2, <1>4 DEF QueueKept

-----------------------------------------------------------------------------
(* Frames: what a step leaves alone keeps its type and its secret. *)

LEMMA QueueAlone ==
    ASSUME IInv, UNCHANGED <<queue, todo, ran, secret>>
    PROVE  QueueTypes' /\ Places' /\ QueueKept'
<1>1. queue \in Seq(Commands) /\ Places
  BY DEF IInv, TypeOK
<1>2. queue' \in Seq(Commands) /\ Places' /\ NothingNew
  BY <1>1, IdleKeeps
<1> QED
  BY <1>2, QueueFrame DEF QueueTypes

LEMMA DiskAlone ==
    ASSUME IInv, UNCHANGED <<diskVars, secret>>
    PROVE  DiskTypes' /\ ConfKept'
<1>1. DiskTypes /\ UNCHANGED <<dirs, boot, disk, conf>>
  BY Types DEF IInv, diskVars
<1> QED
  BY <1>1, ConfFrame DEF DiskTypes

LEMMA ScanAlone == ASSUME IInv, scan' = scan PROVE ScanTypes'
  BY Types DEF IInv, ScanTypes

LEMMA PanelAlone == ASSUME IInv, UNCHANGED <<rowVars, calls>> PROVE PanelTypes' /\ secret' = secret
  BY Types DEF IInv, PanelTypes, rowVars

\* A step of a request that changes no queue and no disk.
LEMMA RequestStep ==
    ASSUME IInv, PanelTypes', NEW w \in Requests, NEW j \in Jobs, Go(w, j),
           UNCHANGED <<queue, todo, ran, scan, diskVars, secret>>,
           j.at = "role" => j.y \in Roles,
           j.at \in {"table", "send"} => Signed(j.cfg)
    PROVE  IInv'
<1>1. JobTypes' /\ JobsKept'
  BY JobStep DEF JobTypes
<1>2. QueueTypes' /\ Places' /\ QueueKept'
  BY QueueAlone
<1>3. DiskTypes' /\ ConfKept' /\ ScanTypes'
  BY DiskAlone, ScanAlone
<1> QED
  BY <1>1, <1>2, <1>3, TypesNext DEF IInv

\* A step of a request that enqueues commands.
LEMMA EnqueueStep ==
    ASSUME IInv, PanelTypes', NEW w \in Requests, NEW j \in Jobs, Go(w, j),
           NEW cs \in Seq(Commands), Insert(cs),
           \A i \in DOMAIN cs : cs[i].op = "write_mod_config" => Signed(cs[i].cfg),
           UNCHANGED <<todo, ran, scan, diskVars, secret>>, j.at \in {"idle", "build"}
    PROVE  IInv'
<1>1. JobTypes' /\ JobsKept'
  BY JobStep DEF JobTypes
<1>2. QueueTypes' /\ Places' /\ QueueKept'
  BY InsertPlain DEF QueueTypes
<1>3. DiskTypes' /\ ConfKept' /\ ScanTypes'
  BY DiskAlone, ScanAlone
<1> QED
  BY <1>1, <1>2, <1>3, TypesNext DEF IInv

-----------------------------------------------------------------------------
(* Requests *)

\* Every request begins at a place that owes no secret (Begin).
LEMMA AskInv ==
    ASSUME IInv, NEW w \in Requests, NEW a \in Asked, Ask(w, a)
    PROVE  IInv'
<1>1. PICK at \in Points \ {"table", "send"} : Begin(w, at, a) /\ (at = "role" => a.op = "role")
  BY DEF Ask, HandleSetActiveWorld, HandleDeleteWorld, HandleInstallMod, HandleRemoveMod, HandleToggleMod,
         HandleTogglePlugin, HandleSwitchModVersion, HandleUploadMod, HandleSetServerRole, HandleDistribute, Points
<1> DEFINE j == [Idle EXCEPT !.at = at, !.op = a.op, !.x = a.x, !.y = a.y]
<1>2. a.op \in Ops /\ a.x \in Things /\ a.y \in Details /\ (a.op = "role" => a.y \in Roles)
  BY ContentAssumption
<1>3. j \in Jobs /\ j.at = at /\ j.y = a.y
  BY <1>1, <1>2, IdleJob DEF Jobs
<1>4. calls' = calls + 1 /\ Go(w, j) /\ UNCHANGED <<rowVars, queue, todo, ran, scan, diskVars, secret>>
  BY <1>1 DEF Begin, rowVars
<1>5. PanelTypes'
  BY <1>4, Types DEF IInv, PanelTypes, rowVars
<1> HIDE DEF j
<1> QED
  BY <1>1, <1>2, <1>3, <1>4, <1>5, RequestStep

\* The row of a request, and the request it becomes at another place.
LEMMA JobAt ==
    ASSUME IInv, NEW w \in Requests, NEW at \in Points
    PROVE  job[w] \in Jobs /\ [job[w] EXCEPT !.at = at] \in Jobs /\ [job[w] EXCEPT !.at = at].at = at
<1>1. job[w] \in Jobs
  BY DEF IInv, TypeOK
<1> QED
  BY <1>1 DEF Jobs

LEMMA CommandType ==
    ASSUME NEW op \in Ops \cup {"set_active_world", "delete_world", "write_mod_config"}, NEW x \in Things,
           NEW dir \in Details, NEW cfg \in Confs
    PROVE  Command(op, x, dir, cfg) \in Commands /\ Command(op, x, dir, cfg).op = op
           /\ Command(op, x, dir, cfg).cfg = cfg
  BY DEF Command, Commands

\* A request that ends with commands that carry no configuration (Enqueue).
LEMMA EnqueueInv ==
    ASSUME IInv, PanelTypes', NEW w \in Requests, NEW cs \in Seq(Commands), Enqueue(w, cs), secret' = secret,
           \A i \in DOMAIN cs : cs[i].op # "write_mod_config"
    PROVE  IInv'
<1>1. Go(w, Idle) /\ Insert(cs) /\ UNCHANGED <<todo, ran, scan, diskVars, secret>>
  BY DEF Enqueue
<1> QED
  BY <1>1, IdleJob, EnqueueStep

LEMMA SetActiveWorldInv ==
    ASSUME IInv, NEW w \in Requests, SetActiveWorld(w)
    PROVE  IInv'
<1> DEFINE c == Command("set_active_world", job[w].x, None, NoConf)
<1>1. job[w].x \in Things /\ None \in Details /\ NoConf \in Confs
  BY IdleJob DEF IInv, TypeOK, Jobs, Details, Roles
<1>2. c \in Commands /\ c.op = "set_active_world"
  BY <1>1 DEF Command, Commands
<1>3. Enqueue(w, <<c>>) /\ secret' = secret /\ calls' = calls
  BY DEF SetActiveWorld, Enqueue
<1>4. PanelTypes'
  BY <1>1, <1>3, Types DEF IInv, PanelTypes, SetActiveWorld
<1> HIDE DEF c
<1>5. <<c>> \in Seq(Commands) /\ \A i \in DOMAIN <<c>> : <<c>>[i].op # "write_mod_config"
  BY <1>2
<1> QED
  BY <1>3, <1>4, <1>5, EnqueueInv

LEMMA DeleteWorldInv ==
    ASSUME IInv, NEW w \in Requests, DeleteWorld(w)
    PROVE  IInv'
<1> DEFINE c == Command("delete_world", job[w].x, None, NoConf)
<1>1. job[w].x \in Things /\ None \in Details /\ NoConf \in Confs
  BY IdleJob DEF IInv, TypeOK, Jobs, Details, Roles
<1>2. c \in Commands /\ c.op = "delete_world"
  BY <1>1 DEF Command, Commands
<1>3. Enqueue(w, <<c>>) /\ secret' = secret /\ calls' = calls
  BY DEF DeleteWorld, Enqueue
<1>4. PanelTypes'
  BY <1>3, Types DEF IInv, PanelTypes, DeleteWorld, NoWorld
<1> HIDE DEF c
<1>5. <<c>> \in Seq(Commands) /\ \A i \in DOMAIN <<c>> : <<c>>[i].op # "write_mod_config"
  BY <1>2
<1> QED
  BY <1>3, <1>4, <1>5, EnqueueInv

\* A step that writes mod rows and nothing else of the panel.
LEMMA ModRowStep ==
    ASSUME IInv, NEW w \in Requests, NEW j \in Jobs, Go(w, j), RowDone(w),
           mod' \in [Keys -> [in : BOOLEAN, present : BOOLEAN, detected : BOOLEAN]],
           j.at \in {"idle", "command"}
    PROVE  IInv'
<1>1. PanelTypes' /\ UNCHANGED <<queue, todo, ran, scan, diskVars, secret>>
  BY Types DEF IInv, PanelTypes, RowDone, queueVars
<1> QED
  BY <1>1, RequestStep

LEMMA ModRowsInv ==
    ASSUME IInv, NEW w \in Requests, InstallMod(w) \/ RemoveMod(w) \/ ToggleMod(w) \/ RecordUpload(w)
    PROVE  IInv'
<1>1. mod \in [Keys -> [in : BOOLEAN, present : BOOLEAN, detected : BOOLEAN]]
  BY DEF IInv, TypeOK
<1>2. job[w] \in Jobs /\ [job[w] EXCEPT !.at = "command"] \in Jobs /\ [job[w] EXCEPT !.at = "command"].at = "command"
  BY JobAt DEF Points
<1>3. CASE InstallMod(w)
  BY <1>1, <1>2, <1>3, ModRowStep DEF InstallMod
<1>4. CASE RemoveMod(w)
  <2>1. mod' \in [Keys -> [in : BOOLEAN, present : BOOLEAN, detected : BOOLEAN]]
    BY <1>1, <1>4 DEF RemoveMod, NoRow
  <2>2. (Go(w, Idle) \/ Go(w, [job[w] EXCEPT !.at = "command"])) /\ RowDone(w)
    BY <1>4 DEF RemoveMod
  <2> QED
    BY <1>2, <2>1, <2>2, IdleJob, ModRowStep
<1>5. CASE ToggleMod(w)
  <2>1. mod' \in [Keys -> [in : BOOLEAN, present : BOOLEAN, detected : BOOLEAN]]
    BY <1>1, <1>5 DEF ToggleMod
  <2>2. CASE Go(w, Idle)
    BY <1>5, <2>1, <2>2, IdleJob, ModRowStep DEF ToggleMod
  <2>3. CASE \E k \in RowsOf(job[w].x) : Go(w, [job[w] EXCEPT !.at = "command", !.y = k[1]])
    <3>1. PICK k \in RowsOf(job[w].x) : Go(w, [job[w] EXCEPT !.at = "command", !.y = k[1]])
      BY <2>3
    <3>2. k[1] \in Details
      BY <3>1 DEF RowsOf, Keys, Details
    <3>3. [job[w] EXCEPT !.at = "command", !.y = k[1]] \in Jobs
      BY <1>2, <3>2 DEF Jobs
    <3>4. [job[w] EXCEPT !.at = "command", !.y = k[1]].at = "command"
      BY <1>2 DEF Jobs
    <3> QED
      BY <1>5, <2>1, <3>1, <3>3, <3>4, ModRowStep DEF ToggleMod
  <2> QED
    BY <1>5, <2>2, <2>3 DEF ToggleMod
<1>6. CASE RecordUpload(w)
  <2>1. mod' \in [Keys -> [in : BOOLEAN, present : BOOLEAN, detected : BOOLEAN]]
    BY <1>1, <1>6 DEF RecordUpload
  <2> QED
    BY <1>6, <2>1, IdleJob, ModRowStep DEF RecordUpload
<1> QED
  BY <1>3, <1>4, <1>5, <1>6

LEMMA EnqueueModInv ==
    ASSUME IInv, NEW w \in Requests, EnqueueModCommand(w)
    PROVE  IInv'
<1> DEFINE dir == IF job[w].op \in {"install", "remove"} THEN "mods" ELSE job[w].y
           c == Command(job[w].op, job[w].x, dir, NoConf)
<1>1. job[w].x \in Things /\ job[w].op \in Ops /\ dir \in Details /\ NoConf \in Confs
  BY IdleJob DEF IInv, TypeOK, Jobs, Details, Dirs
<1>2. c \in Commands /\ c.op = job[w].op
  BY <1>1, CommandType
<1>3. c.op # "write_mod_config"
  BY <1>1, <1>2 DEF Ops, None
<1>4. Enqueue(w, <<c>>) /\ UNCHANGED <<rowVars, calls>>
  BY DEF EnqueueModCommand, Enqueue
<1> HIDE DEF c
<1>5. <<c>> \in Seq(Commands) /\ \A i \in DOMAIN <<c>> : <<c>>[i].op # "write_mod_config"
  BY <1>2, <1>3
<1> QED
  BY <1>4, <1>5, PanelAlone, EnqueueInv

LEMMA SwitchInv ==
    ASSUME IInv, NEW w \in Requests, SwitchModVersion(w)
    PROVE  IInv'
<1> DEFINE r == Command("remove", job[w].x, "mods", NoConf)
           n == Command("install", job[w].y, "mods", NoConf)
<1>1. job[w].x \in Things /\ "mods" \in Details /\ NoConf \in Confs
  BY IdleJob DEF IInv, TypeOK, Jobs, Details, Dirs
<1>2. r \in Commands /\ r.op = "remove"
  BY <1>1 DEF Command, Commands, Ops
<1>3. CASE Go(w, Idle) /\ UNCHANGED <<queueVars, calls, scan, diskVars, mod>>
  <2>1. UNCHANGED <<rowVars, calls>> /\ UNCHANGED <<queue, todo, ran, scan, diskVars>>
    BY <1>3 DEF SwitchModVersion, rowVars, queueVars
  <2> QED
    BY <1>3, <2>1, PanelAlone, IdleJob, RequestStep
<1>4. CASE ~(Go(w, Idle) /\ UNCHANGED <<queueVars, calls, scan, diskVars, mod>>)
  <2>1. Enqueue(w, <<r, n>>) \/ Enqueue(w, <<n, r>>)
    BY <1>4 DEF SwitchModVersion
  <2>2. job[w].y \in Things
    BY DEF IInv, TypeOK, Jobs, Things
  <2>3. n \in Commands /\ n.op = "install"
    BY <1>1, <2>2 DEF Command, Commands, Ops
  <2>4. mod' \in [Keys -> [in : BOOLEAN, present : BOOLEAN, detected : BOOLEAN]]
    <3>1. mod \in [Keys -> [in : BOOLEAN, present : BOOLEAN, detected : BOOLEAN]]
      BY DEF IInv, TypeOK
    <3>2. mod' = [k \in Keys |-> IF k = <<"mods", job[w].y>> THEN [in |-> TRUE, present |-> TRUE, detected |-> FALSE]
                                 ELSE IF k \in RowsOf(job[w].x) THEN NoRow ELSE mod[k]]
      BY <1>4 DEF SwitchModVersion
    <3> QED
      BY <3>1, <3>2 DEF NoRow
  <2>5. PanelTypes' /\ secret' = secret
    BY <2>1, <2>4, Types DEF IInv, PanelTypes, SwitchModVersion, Enqueue
  <2> HIDE DEF r, n
  <2>6. <<r, n>> \in Seq(Commands) /\ <<n, r>> \in Seq(Commands)
    BY <1>2, <2>3
  <2>7. \A i \in {1, 2} : <<r, n>>[i].op # "write_mod_config" /\ <<n, r>>[i].op # "write_mod_config"
    BY <1>2, <2>3
  <2>8. DOMAIN <<r, n>> = {1, 2} /\ DOMAIN <<n, r>> = {1, 2}
    OBVIOUS
  <2> QED
    BY <2>1, <2>5, <2>6, <2>7, <2>8, EnqueueInv
<1> QED
  BY <1>3, <1>4

LEMMA UploadInv ==
    ASSUME IInv, NEW w \in Requests, NEW ok \in BOOLEAN, UploadMod(w, ok)
    PROVE  IInv'
<1>1. UNCHANGED <<rowVars, calls, queue, todo, ran, scan, dirs, boot, conf>>
  BY DEF UploadMod
<1>2. PanelTypes' /\ secret' = secret
  BY <1>1, PanelAlone
<1>3. disk' \in [Keys -> SUBSET {"on", "off"}]
  <2>1. disk \in [Keys -> SUBSET {"on", "off"}]
    BY DEF IInv, TypeOK
  <2>2. disk' = disk \/ disk' = [disk EXCEPT ![<<"mods", job[w].x>>] = @ \cup {"on"}]
    BY DEF UploadMod
  <2> QED
    BY <2>1, <2>2
<1>4. DiskTypes' /\ ConfKept'
  BY <1>1, <1>2, <1>3, Types, ConfFrame DEF IInv, DiskTypes
<1>5. [job[w] EXCEPT !.at = "record"] \in Jobs /\ [job[w] EXCEPT !.at = "record"].at = "record"
  BY JobAt DEF Points
<1>6. Go(w, [job[w] EXCEPT !.at = "record"]) \/ Go(w, Idle)
  BY DEF UploadMod
<1>7. JobTypes' /\ JobsKept'
  BY <1>2, <1>5, <1>6, IdleJob, JobStep DEF JobTypes
<1>8. QueueTypes' /\ Places' /\ QueueKept' /\ ScanTypes'
  BY <1>1, <1>2, QueueAlone, ScanAlone
<1> QED
  BY <1>2, <1>4, <1>7, <1>8, TypesNext DEF IInv

-----------------------------------------------------------------------------
(* Network roles *)

\* A step of a role change that leaves the panel's rows alone.
LEMMA RoutedStep ==
    ASSUME IInv, NEW w \in Requests, NEW at, Routed(w, at), NEW j \in Jobs, Go(w, j),
           UNCHANGED <<queue, role, secret>>, j.at # "role",
           j.at \in {"table", "send"} => Signed(j.cfg)
    PROVE  IInv'
<1>1. UNCHANGED <<rowVars, calls>> /\ UNCHANGED <<queue, todo, ran, scan, diskVars, secret>>
  BY DEF Routed, rowVars
<1> QED
  BY <1>1, PanelAlone, RequestStep

LEMMA SetServerRoleInv ==
    ASSUME IInv, NEW w \in Requests, SetServerRole(w)
    PROVE  IInv'
<1>1. job[w].y \in Roles
  BY DEF SetServerRole, Routed, At, IInv, JobsKept
<1>2. PanelTypes'
  BY <1>1, Types DEF IInv, PanelTypes, SetServerRole, Routed
<1>3. [job[w] EXCEPT !.at = "list"] \in Jobs /\ [job[w] EXCEPT !.at = "list"].at = "list"
  BY JobAt DEF Points
<1>4. Go(w, [job[w] EXCEPT !.at = "list"]) /\ UNCHANGED <<queue, todo, ran, scan, diskVars, secret>>
  BY DEF SetServerRole, Routed
<1> QED
  BY <1>2, <1>3, <1>4, RequestStep

\* The request with what is left to write.
LEMMA OnwardJob ==
    ASSUME IInv, NEW w \in Requests, NEW left \in SUBSET Servers, Onward(w, left)
    PROVE  \E j \in Jobs : Go(w, j) /\ j.at \in {"idle", "build"}
<1>1. CASE left = {}
  BY <1>1, IdleJob DEF Onward
<1>2. CASE left # {}
  <2> DEFINE j == [job[w] EXCEPT !.at = "build", !.left = left]
  <2>0. job[w] \in Jobs
    BY DEF IInv, TypeOK
  <2>1. j \in Jobs /\ j.at = "build"
    BY <2>0 DEF Jobs, Points
  <2>2. Go(w, j)
    BY <1>2 DEF Onward
  <2> QED
    BY <2>1, <2>2
<1> QED
  BY <1>1, <1>2

LEMMA DistributeAllInv ==
    ASSUME IInv, NEW w \in Requests, DistributeAll(w)
    PROVE  IInv'
<1>1. PICK j \in Jobs : Go(w, j) /\ j.at \in {"idle", "build"}
  BY OnwardJob DEF DistributeAll
<1> QED
  BY <1>1, RoutedStep DEF DistributeAll

LEMMA BuildServerConfigInv ==
    ASSUME IInv, NEW w \in Requests, NEW s \in Servers, BuildServerConfig(w, s)
    PROVE  IInv'
<1>0. job[w] \in Jobs /\ role[s] \in Roles /\ job[w].left \subseteq Servers
  BY DEF IInv, TypeOK, Jobs
<1>1. CASE role[s] = None
  <2>1. PICK j \in Jobs : Go(w, j) /\ j.at \in {"idle", "build"}
    BY <1>0, <1>1, OnwardJob DEF BuildServerConfig
  <2> QED
    BY <2>1, RoutedStep DEF BuildServerConfig
<1>2. CASE role[s] # None
  <2> DEFINE cfg == [NoConf EXCEPT !.role = role[s]]
             j == [job[w] EXCEPT !.at = "secret", !.srv = s, !.cfg = cfg]
  <2>1. cfg \in Confs
    BY <1>0, IdleJob DEF Confs
  <2> HIDE DEF cfg
  <2>2. j \in Jobs /\ j.at = "secret"
    BY <1>0, <2>1 DEF Jobs, Points
  <2>3. Go(w, j)
    BY <1>2 DEF BuildServerConfig, cfg
  <2> HIDE DEF j
  <2> QED
    BY <2>2, <2>3, RoutedStep DEF BuildServerConfig
<1> QED
  BY <1>1, <1>2

LEMMA ReadSecretsInv ==
    ASSUME IInv, NEW w \in Requests, ReadSecrets(w)
    PROVE  IInv'
<1>0. job[w] \in Jobs /\ secret \in Requests \cup {0}
  BY DEF IInv, TypeOK
<1>1. CASE secret = 0
  <2>1. [job[w] EXCEPT !.at = "fresh"] \in Jobs /\ [job[w] EXCEPT !.at = "fresh"].at = "fresh"
    BY JobAt DEF Points
  <2> QED
    BY <1>1, <2>1, RoutedStep DEF ReadSecrets
<1>2. CASE secret # 0
  <2> DEFINE j == [job[w] EXCEPT !.at = "table", !.cfg.key = secret]
  <2>1. j \in Jobs /\ j.at = "table" /\ j.cfg.key = secret
    BY <1>0 DEF Jobs, Points, Confs
  <2>2. Go(w, j)
    BY <1>2 DEF ReadSecrets
  <2> HIDE DEF j
  <2>3. Signed(j.cfg)
    BY <1>2, <2>1 DEF Signed
  <2> QED
    BY <2>1, <2>2, <2>3, RoutedStep DEF ReadSecrets
<1> QED
  BY <1>1, <1>2

\* The one step that may set the secret: until then nothing carries one.
LEMMA GetOrCreateSecretsInv ==
    ASSUME IInv, NEW w \in Requests, GetOrCreateSecrets(w)
    PROVE  IInv'
<1> DEFINE j == [job[w] EXCEPT !.at = "secret"]
<1>1. j \in Jobs /\ j.at = "secret" /\ Go(w, j)
  BY JobAt DEF Points, GetOrCreateSecrets
<1>2. CASE secret # 0
  <2>1. UNCHANGED <<queue, role, secret>>
    BY <1>2 DEF GetOrCreateSecrets
  <2> QED
    BY <1>1, <2>1, RoutedStep DEF GetOrCreateSecrets
<1>3. CASE secret = 0
  <2>0. UNCHANGED <<queue, todo, ran, world, mirror, mod, role, calls, scan, dirs, boot, disk, conf>> /\ secret' = w
    BY <1>3 DEF GetOrCreateSecrets, Routed, diskVars
  <2>1. PanelTypes'
    BY <2>0, Types DEF IInv, PanelTypes
  <2>2. \A v \in Requests : job[v].at \notin {"table", "send"}
    BY <1>3 DEF IInv, JobsKept, Signed
  <2>3. job \in [Requests -> Jobs] /\ job' = [job EXCEPT ![w] = j] /\ JobsKept
    BY <1>1 DEF IInv, TypeOK, Go
  <2>4. JobTypes'
    BY <1>1, <2>3 DEF JobTypes
  <2>5. JobsKept'
    <3> SUFFICES ASSUME NEW v \in Requests
                 PROVE  /\ job'[v].at = "role" => job'[v].y \in Roles
                        /\ job'[v].at \notin {"table", "send"}
      BY DEF JobsKept
    <3>1. CASE v = w
      BY <1>1, <2>3, <3>1
    <3>2. CASE v # w
      BY <2>2, <2>3, <3>2 DEF JobsKept
    <3> QED
      BY <3>1, <3>2
  <2>6. QueueTypes' /\ Places'
    BY <2>0 DEF IInv, TypeOK, QueueTypes, Places
  <2>7. QueueKept'
    BY <1>3, <2>0 DEF IInv, QueueKept, Signed
  <2>8. DiskTypes' /\ ConfKept' /\ ScanTypes'
    BY <1>3, <2>0, Types DEF IInv, DiskTypes, ConfKept, ScanTypes
  <2> QED
    BY <2>1, <2>4, <2>5, <2>6, <2>7, <2>8, TypesNext DEF IInv
<1> QED
  BY <1>2, <1>3

LEMMA ListGamemodesInv ==
    ASSUME IInv, NEW w \in Requests, ListGamemodes(w)
    PROVE  IInv'
<1> DEFINE m == IF job[w].cfg.role = "hub" THEN {s \in Servers : role[s] = "gamemode"} ELSE {}
           j == [job[w] EXCEPT !.at = "send", !.cfg.modes = m]
<1>1. job[w] \in Jobs /\ Signed(job[w].cfg)
  BY DEF IInv, TypeOK, JobsKept, ListGamemodes, Routed, At
<1>2. m \in SUBSET Servers
  OBVIOUS
<1>3. Go(w, j)
  BY DEF ListGamemodes
<1> HIDE DEF m
<1>4. j \in Jobs /\ j.at = "send" /\ j.cfg.key = job[w].cfg.key
  BY <1>1, <1>2 DEF Jobs, Points, Confs
<1> HIDE DEF j
<1>5. Signed(j.cfg)
  BY <1>1, <1>4 DEF Signed
<1> QED
  BY <1>3, <1>4, <1>5, RoutedStep DEF ListGamemodes

LEMMA DistributeConfigInv ==
    ASSUME IInv, NEW w \in Requests, DistributeConfig(w)
    PROVE  IInv'
<1> DEFINE c == Command("write_mod_config", job[w].srv, None, job[w].cfg)
<1>1. job[w] \in Jobs /\ Signed(job[w].cfg)
  BY DEF IInv, TypeOK, JobsKept, DistributeConfig, Routed, At
<1>2. job[w].srv \in Things /\ None \in Details /\ job[w].cfg \in Confs /\ job[w].left \subseteq Servers
  BY <1>1 DEF Jobs, Things, Details, Roles
<1>3. c \in Commands /\ c.cfg = job[w].cfg
  BY <1>2 DEF Command, Commands
<1>4. PICK j \in Jobs : Go(w, j) /\ j.at \in {"idle", "build"}
  BY <1>2, OnwardJob DEF DistributeConfig
<1>5. Insert(<<c>>) /\ UNCHANGED <<rowVars, calls, todo, ran, scan, diskVars, secret>>
  BY DEF DistributeConfig, Routed, rowVars
<1> HIDE DEF c
<1>6. <<c>> \in Seq(Commands) /\ \A i \in DOMAIN <<c>> : Signed(<<c>>[i].cfg)
  BY <1>1, <1>3
<1> QED
  BY <1>4, <1>5, <1>6, PanelAlone, EnqueueStep

\* A server that could not be sent its configuration is passed over.
LEMMA DistributeConfigFailsInv ==
    ASSUME IInv, NEW w \in Requests, DistributeConfigFails(w)
    PROVE  IInv'
<1>1. job[w] \in Jobs
  BY DEF IInv, TypeOK
<1>2. PICK s : Onward(w, job[w].left \ {s})
  BY DEF DistributeConfigFails
<1>3. job[w].left \ {s} \subseteq Servers
  BY <1>1 DEF Jobs
<1>4. PICK j \in Jobs : Go(w, j) /\ j.at \in {"idle", "build"}
  BY <1>2, <1>3, OnwardJob
<1>5. UNCHANGED <<rowVars, calls, queue, todo, ran, scan, diskVars>>
  BY DEF DistributeConfigFails
<1> QED
  BY <1>4, <1>5, PanelAlone, RequestStep

LEMMA WorkInv ==
    ASSUME IInv, NEW w \in Requests, Work(w)
    PROVE  IInv'
  BY SetActiveWorldInv, DeleteWorldInv, ModRowsInv, EnqueueModInv, SwitchInv, UploadInv, SetServerRoleInv,
     DistributeAllInv, BuildServerConfigInv, ReadSecretsInv, GetOrCreateSecretsInv, ListGamemodesInv,
     DistributeConfigInv DEF Work

-----------------------------------------------------------------------------
(* The scanner *)

\* A step of the scanner: rows of worlds and mods, and its own report.
LEMMA ScanStep ==
    ASSUME IInv, PanelTypes', ScanTypes', UNCHANGED <<queue, todo, ran, secret, job, diskVars>>
    PROVE  IInv'
<1>1. QueueTypes' /\ Places' /\ QueueKept' /\ DiskTypes' /\ ConfKept'
  BY QueueAlone, DiskAlone
<1>2. JobTypes' /\ JobsKept'
  BY JobsFrame DEF JobTypes
<1> QED
  BY <1>1, <1>2, TypesNext DEF IInv

LEMMA ScanWorldsInv ==
    ASSUME IInv, ScanWorlds
    PROVE  IInv'
<1>1. UNCHANGED <<queue, todo, ran, secret, job, diskVars>> /\ UNCHANGED <<world, mirror, mod, role, calls>>
  BY DEF ScanWorlds, Scanned
<1>2. PanelTypes'
  BY <1>1, Types DEF IInv, PanelTypes
<1>3. dirs \subseteq Worlds /\ boot \in Things /\ None \in Things
  BY DEF IInv, TypeOK, Things, Details, Roles
<1>4. ScanTypes'
  BY <1>3 DEF ScanWorlds, Scanned, NoScan, ScanTypes
<1> QED
  BY <1>1, <1>2, <1>4, ScanStep

LEMMA ReportInv ==
    ASSUME IInv, Report
    PROVE  IInv'
<1>0. PanelTypes /\ ScanTypes /\ None \in Things
  BY Types DEF IInv, Things, Details, Roles
<1>1. ASSUME NEW x \in Worlds, SyncWorlds(x)
      PROVE  IInv'
  <2>1. UNCHANGED <<queue, todo, ran, secret, job, diskVars>> /\ UNCHANGED <<mirror, mod, role, calls>>
    BY <1>1 DEF SyncWorlds, Scanned
  <2>2. world' \in [Worlds -> [in : BOOLEAN, active : BOOLEAN]]
    BY <1>0, <1>1 DEF SyncWorlds, PanelTypes
  <2>3. ScanTypes'
    BY <1>0, <1>1 DEF SyncWorlds, Scanned, ScanTypes
  <2> QED
    BY <1>0, <2>1, <2>2, <2>3, ScanStep DEF PanelTypes
<1>2. CASE SyncActiveWorld
  <2>1. UNCHANGED <<queue, todo, ran, secret, job, diskVars>> /\ UNCHANGED <<world, mod, role, calls>>
    BY <1>2 DEF SyncActiveWorld, Scanned
  <2>2. mirror' \in Things
    BY <1>0, <1>2 DEF SyncActiveWorld, PanelTypes, ScanTypes
  <2>3. ScanTypes'
    BY <1>0, <1>2 DEF SyncActiveWorld, Scanned, ScanTypes, NoScan
  <2> QED
    BY <1>0, <2>1, <2>2, <2>3, ScanStep DEF PanelTypes
<1>3. CASE ScanPlugins
  <2>1. UNCHANGED <<queue, todo, ran, secret, job, diskVars>> /\ UNCHANGED <<world, mirror, mod, role, calls>>
    BY <1>3 DEF ScanPlugins, Scanned
  <2> DEFINE f == {e \in Keys \X BOOLEAN : (IF e[2] THEN "on" ELSE "off") \in disk[e[1]]}
  <2>2. f \in SUBSET (Keys \X BOOLEAN)
    OBVIOUS
  <2>3. scan' = [NoScan EXCEPT !.at = IF f = {} THEN "idle" ELSE "mark", !.found = f]
    BY <1>3 DEF ScanPlugins, Scanned
  <2> HIDE DEF f
  <2>4. ScanTypes'
    BY <1>0, <2>2, <2>3 DEF ScanTypes, NoScan
  <2> QED
    BY <1>0, <2>1, <2>4, ScanStep DEF PanelTypes
<1>4. CASE MarkAbsent
  <2>1. UNCHANGED <<queue, todo, ran, secret, job, diskVars>> /\ UNCHANGED <<world, mirror, role, calls>>
    BY <1>4 DEF MarkAbsent, Scanned
  <2>2. mod' \in [Keys -> [in : BOOLEAN, present : BOOLEAN, detected : BOOLEAN]]
    BY <1>0, <1>4 DEF MarkAbsent, PanelTypes
  <2>3. ScanTypes'
    BY <1>0, <1>4 DEF MarkAbsent, Scanned, ScanTypes
  <2> QED
    BY <1>0, <2>1, <2>2, <2>3, ScanStep DEF PanelTypes
<1>5. ASSUME NEW e \in scan.found, SyncDetectedPlugins(e)
      PROVE  IInv'
  <2>1. UNCHANGED <<queue, todo, ran, secret, job, diskVars>> /\ UNCHANGED <<world, mirror, role, calls>>
    BY <1>5 DEF SyncDetectedPlugins, Scanned
  <2>2. e \in Keys \X BOOLEAN
    BY <1>0 DEF ScanTypes
  <2>3. mod' \in [Keys -> [in : BOOLEAN, present : BOOLEAN, detected : BOOLEAN]]
    BY <1>0, <1>5, <2>2 DEF SyncDetectedPlugins, PanelTypes
  <2>4. NoScan \in [at : {"idle", "worlds", "between", "mark", "plugins"}, worlds : SUBSET Worlds, active : Things,
                    found : SUBSET (Keys \X BOOLEAN)]
    BY <1>0 DEF NoScan
  <2>5. scan' = NoScan \/ scan' = [scan EXCEPT !.found = @ \ {e}]
    BY <1>5 DEF SyncDetectedPlugins, Scanned
  <2>6. ScanTypes'
    BY <1>0, <2>4, <2>5 DEF ScanTypes
  <2> QED
    BY <1>0, <2>1, <2>3, <2>6, ScanStep DEF PanelTypes
<1> QED
  BY <1>1, <1>2, <1>3, <1>4, <1>5 DEF Report

-----------------------------------------------------------------------------
(* The queue and its commands *)

\* A step of the queue that touches neither the panel nor the disk.
LEMMA QueueStep ==
    ASSUME IInv, queue' \in Seq(Commands), Places', NothingNew, ScanTypes', UNCHANGED <<rowVars, calls, job, diskVars>>
    PROVE  IInv'
<1>1. PanelTypes' /\ secret' = secret
  BY PanelAlone
<1>2. JobTypes' /\ JobsKept' /\ QueueKept' /\ QueueTypes'
  BY <1>1, JobsFrame, QueueFrame DEF JobTypes, QueueTypes
<1>3. DiskTypes' /\ ConfKept'
  BY <1>1, DiskAlone
<1> QED
  BY <1>1, <1>2, <1>3, TypesNext DEF IInv

LEMMA QueueTyped == ASSUME IInv PROVE queue \in Seq(Commands) /\ Places
  BY DEF IInv, TypeOK

LEMMA PollerInv ==
    ASSUME IInv, Poller, UNCHANGED <<rowVars, job, calls, scan, diskVars>>
    PROVE  IInv'
<1>1. queue' \in Seq(Commands) /\ Places' /\ NothingNew
  BY QueueTyped, FetchKeeps, AckKeeps DEF Poller
<1> QED
  BY <1>1, ScanAlone, QueueStep

\* What a command finds when it runs: it is one of the queue.
LEMMA RanFacts ==
    ASSUME IInv, NEW c, NEW ok, Ran(c, ok)
    PROVE  /\ c \in Commands /\ (c.op = "write_mod_config" => Signed(c.cfg))
           /\ PanelTypes' /\ secret' = secret /\ ScanTypes'
           /\ QueueTypes' /\ Places' /\ QueueKept' /\ JobTypes' /\ JobsKept'
<1>1. Running(c, ok) /\ UNCHANGED <<queue, todo, rowVars, job, calls, scan>>
  BY DEF Ran
<1>2. queue' \in Seq(Commands) /\ Places' /\ NothingNew /\ c \in Commands /\ \E i \in DOMAIN queue : c = queue[i]
  BY <1>1, QueueTyped, RunKeeps
<1>3. PanelTypes' /\ secret' = secret /\ ScanTypes'
  BY <1>1, PanelAlone, ScanAlone
<1>4. QueueKept' /\ JobTypes' /\ JobsKept'
  BY <1>1, <1>2, <1>3, QueueFrame, JobsFrame DEF JobTypes
<1>5. c.op = "write_mod_config" => Signed(c.cfg)
  BY <1>2 DEF IInv, QueueKept
<1> QED
  BY <1>2, <1>3, <1>4, <1>5 DEF QueueTypes

\* A command that changes the disk and leaves the configurations alone.
LEMMA DiskStep ==
    ASSUME IInv, NEW c, NEW ok, Ran(c, ok), dirs' \subseteq Worlds, boot' \in Things,
           disk' \in [Keys -> SUBSET {"on", "off"}], conf' = conf
    PROVE  IInv'
<1>1. DiskTypes' /\ ConfKept'
  BY RanFacts, ConfFrame, Types DEF IInv, DiskTypes
<1> QED
  BY <1>1, RanFacts, TypesNext DEF IInv

LEMMA RunCommandInv ==
    ASSUME IInv, NEW c, RunCommand(c)
    PROVE  IInv'
<1>0. dirs \subseteq Worlds /\ boot \in Things /\ disk \in [Keys -> SUBSET {"on", "off"}] /\ conf \in [Servers -> Confs]
  BY DEF IInv, TypeOK
<1>1. CASE WriteActiveWorld(c)
  <2>1. c \in Commands /\ Ran(c, TRUE)
    BY <1>1, RanFacts DEF WriteActiveWorld
  <2>2. boot' \in Things
    BY <1>1, <2>1 DEF WriteActiveWorld, Commands
  <2> QED
    BY <1>0, <1>1, <2>1, <2>2, DiskStep DEF WriteActiveWorld
<1>2. CASE DeleteWorldDir(c)
  BY <1>0, <1>2, DiskStep DEF DeleteWorldDir
<1>3. ASSUME NEW ok, NEW forms \in SUBSET {"on", "off"}, Ran(c, ok), Becomes(c, forms), UNCHANGED <<dirs, boot, conf>>
      PROVE  IInv'
  <2>1. disk' \in [Keys -> SUBSET {"on", "off"}]
    BY <1>0, <1>3 DEF Becomes
  <2> QED
    BY <1>0, <1>3, <2>1, DiskStep
<1>4. CASE WriteModConfigFile(c)
  <2>1. c \in Commands /\ Ran(c, TRUE) /\ Signed(c.cfg)
    BY <1>4, RanFacts DEF WriteModConfigFile
  <2>2. conf' = [conf EXCEPT ![c.x] = c.cfg] /\ UNCHANGED <<dirs, boot, disk>> /\ c.cfg \in Confs
    BY <1>4, <2>1 DEF WriteModConfigFile, Commands
  <2>3. conf' \in [Servers -> Confs]
    BY <1>0, <2>2
  <2>4. ConfKept'
    BY <1>0, <2>1, <2>2, RanFacts DEF IInv, ConfKept, Signed
  <2>5. DiskTypes'
    BY <1>0, <2>2, <2>3 DEF DiskTypes
  <2> QED
    BY <2>1, <2>4, <2>5, RanFacts, TypesNext DEF IInv
<1>5. CASE DownloadAndInstallMod(c) \/ RemoveFile(c) \/ EnableMod(c) \/ DisableMod(c)
  <2>1. CASE <<c.dir, c.x>> \in Keys
    <3>1. File(c) \in SUBSET {"on", "off"}
      BY <1>0, <2>1 DEF File
    <3>2. \E ok, forms : Ran(c, ok) /\ Becomes(c, forms) /\ UNCHANGED <<dirs, boot, conf>> /\ forms \in SUBSET {"on", "off"}
      BY <1>5, <3>1 DEF DownloadAndInstallMod, RemoveFile, EnableMod, DisableMod, Rename
    <3> QED
      BY <1>3, <3>2
  <2>2. CASE <<c.dir, c.x>> \notin Keys
    <3>1. \E ok, forms : Ran(c, ok) /\ Becomes(c, forms) /\ UNCHANGED <<dirs, boot, conf>>
      BY <1>5 DEF DownloadAndInstallMod, RemoveFile, EnableMod, DisableMod, Rename
    <3>2. disk' = disk
      BY <1>0, <2>2, <3>1 DEF Becomes
    <3> QED
      BY <1>0, <3>1, <3>2, DiskStep
  <2> QED
    BY <2>1, <2>2
<1> QED
  BY <1>1, <1>2, <1>4, <1>5 DEF RunCommand

-----------------------------------------------------------------------------
(* The theorems *)

LEMMA InitInv == Init => IInv
<1> SUFFICES ASSUME Init PROVE IInv
  OBVIOUS
<1>1. queue = <<>> /\ todo = <<>> /\ ran = "no"
  BY DEF Init, QueueInit
<1>2. QueueTypes /\ Places /\ QueueKept
  BY <1>1 DEF QueueTypes, Places, QueueKept
<1>3. JobTypes /\ JobsKept
  BY IdleJob DEF Init, JobTypes, JobsKept
<1>4. None \in Things /\ None \in Roles /\ Boot \in Worlds /\ Boot \in Things
  BY ContentAssumption DEF Things, Details, Roles
<1>5. PanelTypes
  BY <1>4 DEF Init, PanelTypes, NoRow
<1>6. ScanTypes
  BY <1>4 DEF Init, ScanTypes, NoScan
<1>7. DiskTypes /\ ConfKept
  BY <1>4, IdleJob DEF Init, DiskTypes, ConfKept, NoConf
<1> QED
  BY <1>2, <1>3, <1>5, <1>6, <1>7, Types DEF IInv

LEMMA NextInv == IInv /\ [Next]_vars => IInv'
<1> SUFFICES ASSUME IInv, [Next]_vars PROVE IInv'
  OBVIOUS
<1>1. ASSUME NEW w \in Requests, (\E a \in Asked : Ask(w, a)) \/ Work(w) PROVE IInv'
  BY <1>1, AskInv, WorkInv
<1>2. CASE ScanWorlds \/ Report
  BY <1>2, ScanWorldsInv, ReportInv
<1>3. CASE Polls
  BY <1>3, PollerInv, RunCommandInv DEF Polls
<1>4. CASE todo # <<>> /\ CommandFails(queue[Head(todo)])
  <2>1. Running(queue[Head(todo)], FALSE) /\ UNCHANGED <<queue, todo, rowVars, job, calls, scan, diskVars>>
    BY <1>4 DEF CommandFails
  <2>2. queue' \in Seq(Commands) /\ Places' /\ NothingNew
    BY <2>1, QueueTyped, RunKeeps
  <2> QED
    BY <2>1, <2>2, ScanAlone, QueueStep
<1>5. CASE AckLost /\ UNCHANGED <<rowVars, job, calls, scan, diskVars>>
  <2>1. queue' \in Seq(Commands) /\ Places' /\ NothingNew
    BY <1>5, QueueTyped, LossKeeps
  <2> QED
    BY <1>5, <2>1, ScanAlone, QueueStep
<1>6. CASE DaemonRestarts
  <2>1. queue' \in Seq(Commands) /\ Places' /\ NothingNew
    BY <1>6, QueueTyped, RestartKeeps DEF DaemonRestarts
  <2>2. ScanTypes'
    BY <1>6 DEF DaemonRestarts, NoScan, ScanTypes, Things, Details, Roles
  <2> QED
    BY <1>6, <2>1, <2>2, QueueStep DEF DaemonRestarts
<1>7. ASSUME NEW w \in Requests, UploadMod(w, FALSE) \/ DistributeConfigFails(w) \/ Abort(w) PROVE IInv'
  <2>1. CASE UploadMod(w, FALSE)
    BY <2>1, UploadInv
  <2>2. CASE Abort(w)
    BY <2>2, PanelAlone, IdleJob, RequestStep DEF Abort
  <2> QED
    BY <1>7, <2>1, <2>2, DistributeConfigFailsInv
<1>8. CASE UNCHANGED vars
  <2>1. UNCHANGED <<rowVars, calls>> /\ UNCHANGED <<queue, todo, ran, secret, job, diskVars>> /\ scan' = scan
    BY <1>8 DEF vars, queueVars, rowVars
  <2> QED
    BY <2>1, PanelAlone, ScanAlone, ScanStep
<1> QED
  BY <1>1, <1>2, <1>3, <1>4, <1>5, <1>6, <1>7, <1>8 DEF Next

\* The inductive invariant: types, the poller's places, and one secret everywhere.
THEOREM Inductive == Spec => []IInv
<1>1. Init => IInv
  BY InitInv
<1>2. IInv /\ [Next]_vars => IInv'
  BY NextInv
<1> QED
  BY <1>1, <1>2, PTL DEF Spec

\* The tables of worlds, mods and roles, the queue, the scanner's report and the
\* disk stay within their types.
THEOREM TypeCorrect == Spec => []TypeOK
<1>1. IInv => TypeOK
  BY DEF IInv
<1> QED
  BY <1>1, Inductive, PTL

\* Every configuration sent or written carries the one stored secret, however many
\* requests find none and make one at the same time (GetOrCreateSecrets).
THEOREM SecretIsOne == Spec => []OneSecret
<1>1. IInv => OneSecret
  BY DEF IInv, QueueKept, ConfKept, Signed, OneSecret
<1> QED
  BY <1>1, Inductive, PTL

\* The poller never runs a command that is not pending, nor the same row twice from
\* one list, whatever is acknowledged, lost or added meanwhile (the poll loop).
THEOREM PlacesKept == Spec => []Places
<1>1. IInv => Places
  BY DEF IInv
<1> QED
  BY <1>1, Inductive, PTL

-----------------------------------------------------------------------------
(* Steps of requests and of the queue *)

\* No kind of disturbance is forgotten.
LEMMA DistGrows == ASSUME [Next]_vars PROVE dist \subseteq dist'
<1>1. ASSUME NEW w \in Requests, NEW a \in Asked, Ask(w, a) PROVE dist \subseteq dist'
  BY <1>1 DEF Ask, HandleSetActiveWorld, HandleDeleteWorld, HandleInstallMod, HandleRemoveMod, HandleToggleMod,
         HandleTogglePlugin, HandleSwitchModVersion, HandleUploadMod, HandleSetServerRole, HandleDistribute, Begin
<1>2. ASSUME NEW w \in Requests, Work(w) PROVE dist \subseteq dist'
  BY <1>2 DEF Work, SetActiveWorld, DeleteWorld, InstallMod, RemoveMod, ToggleMod, EnqueueModCommand, SwitchModVersion,
         UploadMod, RecordUpload, SetServerRole, DistributeAll, BuildServerConfig, ReadSecrets, GetOrCreateSecrets,
         ListGamemodes, DistributeConfig, Routed, RowDone, queueVars
<1>3. CASE ScanWorlds \/ Report
  BY <1>3 DEF ScanWorlds, Report, SyncWorlds, SyncActiveWorld, ScanPlugins, MarkAbsent, SyncDetectedPlugins
<1>4. CASE Polls
  BY <1>4 DEF Polls, Poller, GetPendingCommands, AckCommand, RunCommand, WriteActiveWorld, DeleteWorldDir,
         DownloadAndInstallMod, RemoveFile, EnableMod, DisableMod, Rename, WriteModConfigFile, Ran
<1>5. CASE (todo # <<>> /\ CommandFails(queue[Head(todo)])) \/ AckLost \/ DaemonRestarts
  BY <1>5 DEF CommandFails, AckLost, DaemonRestarts, PollerRestarts, Disturb
<1>6. ASSUME NEW w \in Requests, UploadMod(w, FALSE) \/ DistributeConfigFails(w) \/ Abort(w) PROVE dist \subseteq dist'
  BY <1>6 DEF UploadMod, DistributeConfigFails, Abort, Disturb
<1>7. CASE UNCHANGED vars
  BY <1>7 DEF vars, queueVars
<1> QED
  BY <1>1, <1>2, <1>3, <1>4, <1>5, <1>6, <1>7 DEF Next

\* What an insert leaves as it was.
LEMMA InsertFacts ==
    ASSUME IInv, NEW cs \in Seq(Commands), Insert(cs), UNCHANGED <<boot, todo, ran>>
    PROVE  /\ Len(queue) \in Nat /\ Len(queue') = Len(queue) + Len(cs) /\ Len(cs) \in Nat
           /\ \A i \in 1 .. Len(queue) : queue'[i] = queue[i]
           /\ \A i \in Len(queue) + 1 .. Len(queue') : i - Len(queue) \in 1 .. Len(cs) /\ queue'[i] = cs[i - Len(queue)]
<1>1. queue \in Seq(Commands) /\ queue' = queue \o cs
  BY DEF IInv, TypeOK, Insert
<1>2. Len(queue) \in Nat /\ Len(queue') = Len(queue) + Len(cs) /\ Len(cs) \in Nat
  BY <1>1
<1>3. \A i \in 1 .. Len(queue) : queue'[i] = queue[i]
  BY <1>1
<1>4. \A i \in Len(queue) + 1 .. Len(queue') : i - Len(queue) \in 1 .. Len(cs) /\ queue'[i] = cs[i - Len(queue)]
  BY <1>1, <1>2
<1> QED
  BY <1>2, <1>3, <1>4

\* The command that runs is the one at the front of the queue.
LEMMA FrontRuns ==
    ASSUME IInv, \A i \in 1 .. Len(todo) : todo[i] = i, NEW c, NEW ok, Ran(c, ok)
    PROVE  /\ Len(queue) \in Nat /\ Len(queue) >= 1 /\ c = queue[1] /\ c \in Commands /\ todo # <<>>
           /\ ran' = (IF ok THEN "ok" ELSE "failed") /\ UNCHANGED <<queue, todo, world>>
<1>1. todo \in Seq(Nat) /\ todo # <<>> /\ Head(todo) \in 1 .. Len(queue) /\ c = queue[Head(todo)] /\ queue \in Seq(Commands)
  BY DEF Ran, Running, IInv, Places, TypeOK
<1>2. Head(todo) = 1
  BY <1>1
<1> QED
  BY <1>1, <1>2 DEF Ran, Running, rowVars

\* What a request about roles goes on to.
LEMMA RoleGoes ==
    ASSUME IInv, NEW w \in Requests,
           SetServerRole(w) \/ DistributeAll(w) \/ (\E s \in Servers : BuildServerConfig(w, s)) \/ ReadSecrets(w)
           \/ GetOrCreateSecrets(w) \/ ListGamemodes(w)
    PROVE  \E j : Go(w, j) /\ j.at \in {"list", "idle", "build", "secret", "fresh", "table", "send"}
<1>0. job[w] \in Jobs /\ Idle.at = "idle"
  BY IdleJob DEF IInv, TypeOK
<1>1. \A s, k : [job[w] EXCEPT !.at = "secret", !.srv = s, !.cfg = k].at = "secret"
  BY <1>0 DEF Jobs
<1>2. \A k : [job[w] EXCEPT !.at = "table", !.cfg.key = k].at = "table" /\ [job[w] EXCEPT !.at = "send", !.cfg.modes = k].at = "send"
  BY <1>0 DEF Jobs
<1>3. \A left : [job[w] EXCEPT !.at = "build", !.left = left].at = "build"
  BY <1>0 DEF Jobs
<1>4. \A at \in {"list", "secret", "fresh"} : [job[w] EXCEPT !.at = at].at = at
  BY JobAt DEF Points
<1>5. ASSUME NEW left, Onward(w, left) PROVE \E j : Go(w, j) /\ j.at \in {"idle", "build"}
  BY <1>0, <1>3, <1>5 DEF Onward
<1>6. CASE SetServerRole(w) \/ GetOrCreateSecrets(w)
  BY <1>4, <1>6 DEF SetServerRole, GetOrCreateSecrets
<1>7. CASE DistributeAll(w)
  BY <1>5, <1>7 DEF DistributeAll
<1>8. CASE \E s \in Servers : BuildServerConfig(w, s)
  BY <1>1, <1>5, <1>8 DEF BuildServerConfig
<1>9. CASE ReadSecrets(w)
  BY <1>2, <1>4, <1>9 DEF ReadSecrets
<1>10. CASE ListGamemodes(w)
  BY <1>2, <1>10 DEF ListGamemodes
<1> QED
  BY <1>6, <1>7, <1>8, <1>9, <1>10

\* No other request is under way.
Lone(w) == \A v \in Requests \ {w} : job[v].at = "idle" /\ job'[v] = job[v]

-----------------------------------------------------------------------------
(* The mods *)

LEMMA SmoothBefore == ASSUME [Next]_vars, Smooth' PROVE Smooth
  BY DistGrows DEF Smooth

\* What the game will load once the queue is empty stays so.
OnKept == \A k \in Keys : OnAfter(k) => OnAfter(k)'

LEMMA OnSame == ASSUME queue' = queue, \A k \in Keys : disk[k] \subseteq disk'[k] PROVE OnKept
  BY DEF OnKept, OnAfter

\* Commands about other files change nothing for k; the last one about it decides.
LEMMA OnInsert ==
    ASSUME IInv, NEW cs \in Seq(Commands), Insert(cs), UNCHANGED <<todo, ran, boot, disk>>, NEW k \in Keys,
           \A i \in 1 .. Len(cs) : ~About(cs[i], k), OnAfter(k)
    PROVE  OnAfter(k)'
<1>0. PICK n, m : n = Len(queue) /\ m = Len(queue')
  OBVIOUS
<1>1. n \in Nat /\ m \in Nat /\ n <= m /\ \A i \in 1 .. n : queue'[i] = queue[i]
  BY <1>0, InsertFacts
<1>2. \A i \in n + 1 .. m : ~About(queue'[i], k)
  BY <1>0, InsertFacts
<1>4. CASE "on" \in disk[k] /\ \A i \in 1 .. n : ~About(queue[i], k)
  <2>1. \A i \in 1 .. m : ~About(queue'[i], k)
    BY <1>1, <1>2, <1>4
  <2> QED
    BY <1>0, <1>4, <2>1 DEF OnAfter
<1>5. CASE \E i \in 1 .. n : About(queue[i], k) /\ Loads(queue[i]) /\ \A j \in i + 1 .. n : ~About(queue[j], k)
  <2>1. PICK i \in 1 .. n : About(queue[i], k) /\ Loads(queue[i]) /\ \A j \in i + 1 .. n : ~About(queue[j], k)
    BY <1>5
  <2>2. i \in 1 .. m /\ About(queue'[i], k) /\ Loads(queue'[i])
    BY <1>1, <2>1
  <2>3. \A j \in i + 1 .. m : ~About(queue'[j], k)
    BY <1>1, <1>2, <2>1
  <2> QED
    BY <1>0, <2>2, <2>3 DEF OnAfter
<1> QED
  BY <1>0, <1>4, <1>5 DEF OnAfter

LEMMA OnAdd ==
    ASSUME IInv, NEW cs \in Seq(Commands), Insert(cs), UNCHANGED <<todo, ran, boot>>, NEW k \in Keys,
           NEW p \in 1 .. Len(cs), About(cs[p], k), Loads(cs[p]), \A q \in p + 1 .. Len(cs) : ~About(cs[q], k)
    PROVE  OnAfter(k)'
<1>0. PICK n, m, i : n = Len(queue) /\ m = Len(queue') /\ i = n + p
  OBVIOUS
<1>1. n \in Nat /\ m = n + Len(cs) /\ Len(cs) \in Nat /\ \A j \in n + 1 .. m : j - n \in 1 .. Len(cs) /\ queue'[j] = cs[j - n]
  BY <1>0, InsertFacts
<1>2. i \in n + 1 .. m /\ i \in 1 .. m /\ i - n = p
  BY <1>0, <1>1
<1>3. queue'[i] = cs[p]
  BY <1>1, <1>2
<1>4. \A j \in i + 1 .. m : j \in n + 1 .. m /\ j - n \in p + 1 .. Len(cs)
  BY <1>0, <1>1
<1>5. \A j \in i + 1 .. m : ~About(queue'[j], k)
  BY <1>1, <1>4
<1> QED
  BY <1>0, <1>2, <1>3, <1>5 DEF OnAfter

LEMMA AckMods ==
    ASSUME IInv, ModTurn, AckCommand, disk' = disk
    PROVE  ModTurn' /\ OnKept
<1>0. PICK n, m : n = Len(queue) /\ m = Len(queue')
  OBVIOUS
<1>1. /\ queue \in Seq(Commands) /\ todo \in Seq(Nat) /\ Len(todo) >= 1 /\ Len(todo) \in Nat /\ Head(todo) = 1
      /\ n \in Nat /\ n >= 1
  <2>1. queue \in Seq(Commands) /\ todo \in Seq(Nat) /\ todo # <<>> /\ todo[1] \in 1 .. Len(queue)
    BY DEF IInv, TypeOK, Places, AckCommand
  <2> QED
    BY <1>0, <2>1 DEF ModTurn
<1>2. ran' = "no" /\ \A k \in Keys : About(queue[1], k) /\ Loads(queue[1]) => "on" \in disk[k]
  BY DEF AckCommand, ModTurn
<1>3. queue' = [i \in 1 .. n - 1 |-> queue[IF i < 1 THEN i ELSE i + 1]]
  BY <1>0, <1>1 DEF AckCommand, Settle
<1>4. m = n - 1 /\ \A i \in 1 .. n - 1 : queue'[i] = queue[i + 1]
  BY <1>0, <1>1, <1>3
<1>5. \A i \in 1 .. Len(todo') : todo'[i] = i
  <2>1. todo' = [i \in 1 .. Len(todo) - 1 |-> IF todo[i + 1] < 1 THEN todo[i + 1] ELSE todo[i + 1] - 1]
    BY <1>1 DEF AckCommand, Settle
  <2>2. \A i \in 1 .. Len(todo) - 1 : todo[i + 1] = i + 1
    BY <1>1 DEF ModTurn
  <2>3. Len(todo') = Len(todo) - 1
    BY <1>1, <2>1
  <2> QED
    BY <1>1, <2>1, <2>2, <2>3
<1>6. OnKept
  <2> SUFFICES ASSUME NEW k \in Keys, OnAfter(k) PROVE OnAfter(k)'
    BY DEF OnKept
  <2>2. CASE "on" \in disk[k] /\ \A i \in 1 .. n : ~About(queue[i], k)
    <3>1. \A i \in 1 .. m : i \in 1 .. n - 1 /\ i + 1 \in 1 .. n
      BY <1>1, <1>4
    <3>2. \A i \in 1 .. m : ~About(queue'[i], k)
      BY <1>4, <2>2, <3>1
    <3> QED
      BY <1>0, <2>2, <3>2 DEF OnAfter
  <2>3. CASE \E i \in 1 .. n : About(queue[i], k) /\ Loads(queue[i]) /\ \A j \in i + 1 .. n : ~About(queue[j], k)
    <3>1. PICK i \in 1 .. n : About(queue[i], k) /\ Loads(queue[i]) /\ \A j \in i + 1 .. n : ~About(queue[j], k)
      BY <2>3
    <3>2. CASE i = 1
      <4>1. \A j \in 1 .. m : j \in 1 .. n - 1 /\ j + 1 \in i + 1 .. n
        BY <1>1, <1>4, <3>2
      <4>2. \A j \in 1 .. m : ~About(queue'[j], k)
        BY <1>4, <3>1, <4>1
      <4>3. "on" \in disk[k]
        BY <1>2, <3>1, <3>2
      <4> QED
        BY <1>0, <4>2, <4>3 DEF OnAfter
    <3>3. CASE i # 1
      <4>0. PICK h : h = i - 1
        OBVIOUS
      <4>1. h \in 1 .. m /\ h \in 1 .. n - 1 /\ h + 1 = i
        BY <1>1, <1>4, <3>3, <4>0
      <4>2. About(queue'[h], k) /\ Loads(queue'[h])
        BY <1>4, <3>1, <4>1
      <4>3. \A j \in h + 1 .. m : j \in 1 .. n - 1 /\ j + 1 \in i + 1 .. n
        BY <1>1, <1>4, <4>1
      <4>4. \A j \in h + 1 .. m : ~About(queue'[j], k)
        BY <1>4, <3>1, <4>3
      <4> QED
        BY <1>0, <4>1, <4>2, <4>4 DEF OnAfter
    <3> QED
      BY <3>2, <3>3
  <2> QED
    BY <1>0, <2>2, <2>3 DEF OnAfter
<1> QED
  BY <1>2, <1>5, <1>6 DEF ModTurn

LEMMA FetchMods ==
    ASSUME IInv, ModTurn, GetPendingCommands \/ PollerRestarts, disk' = disk
    PROVE  ModTurn' /\ OnKept
<1>1. queue \in Seq(Commands) /\ queue' = queue
  BY DEF IInv, TypeOK, GetPendingCommands, PollerRestarts
<1>2. \A i \in 1 .. Len(todo') : todo'[i] = i
  BY <1>1 DEF GetPendingCommands, PollerRestarts
<1>3. ran' = ran \/ ran' = "no"
  BY DEF GetPendingCommands, PollerRestarts
<1> QED
  BY <1>1, <1>2, <1>3, OnSame DEF ModTurn

\* A command leaves other files alone, and a file that it is to load is loaded.
LEMMA RunMods ==
    ASSUME IInv, ModTurn, NEW c, RunCommand(c), Smooth'
    PROVE  ModTurn' /\ OnKept /\ UNCHANGED <<job, mod, scan>>
<1>1. PICK ok : Ran(c, ok)
  BY DEF RunCommand, WriteActiveWorld, DeleteWorldDir, DownloadAndInstallMod, RemoveFile, EnableMod, DisableMod, Rename,
         WriteModConfigFile
<1>2. ok
  BY <1>1 DEF Ran, Smooth
<1>3. c = queue[1] /\ ran' = "ok" /\ UNCHANGED <<queue, todo>> /\ Len(queue) \in Nat /\ Len(queue) >= 1
  BY <1>1, <1>2, FrontRuns DEF ModTurn
<1>4. disk \in [Keys -> SUBSET {"on", "off"}] /\ UNCHANGED <<job, mod, scan>>
  BY <1>1 DEF IInv, TypeOK, Ran, rowVars
<1>5. ASSUME NEW k \in Keys
      PROVE  /\ ~About(c, k) => disk'[k] = disk[k]
             /\ About(c, k) /\ Loads(c) => "on" \in disk'[k]
  <2>1. CASE WriteActiveWorld(c) \/ DeleteWorldDir(c) \/ WriteModConfigFile(c)
    BY <2>1 DEF WriteActiveWorld, DeleteWorldDir, WriteModConfigFile, About
  <2>2. CASE DownloadAndInstallMod(c)
    BY <1>4, <2>2 DEF DownloadAndInstallMod, Becomes, File, About
  <2>3. CASE RemoveFile(c)
    BY <1>4, <2>3 DEF RemoveFile, Becomes, File, About, Loads
  <2>4. CASE EnableMod(c)
    <3>1. PICK l : l = <<c.dir, c.x>>
      OBVIOUS
    <3>2. c.op = "enable" /\ disk' = [disk EXCEPT ![l] = IF "off" \in disk[l] THEN {"on"} ELSE disk[l]]
      BY <2>4, <3>1 DEF EnableMod, Rename, Becomes, File
    <3>3. l \in Keys => disk[l] # {}
      <4>1. Ran(c, disk[l] # {})
        BY <2>4, <3>1 DEF EnableMod, Rename, File
      <4> QED
        BY <4>1 DEF Ran, Smooth
    <3>4. l \in Keys /\ "off" \notin disk[l] => "on" \in disk[l]
      BY <1>4, <3>3
    <3> QED
      BY <1>4, <3>1, <3>2, <3>4 DEF About
  <2>5. CASE DisableMod(c)
    BY <1>4, <2>5 DEF DisableMod, Rename, Becomes, File, About, Loads
  <2> QED
    BY <2>1, <2>2, <2>3, <2>4, <2>5 DEF RunCommand
<1>6. ModTurn'
  BY <1>3, <1>5 DEF ModTurn
<1>7. OnKept
  <2> SUFFICES ASSUME NEW k \in Keys, OnAfter(k) PROVE OnAfter(k)'
    BY DEF OnKept
  <2>1. CASE About(c, k)
    <3>1. 1 \in 1 .. Len(queue) /\ About(queue[1], k)
      BY <1>3, <2>1
    <3> QED
      BY <1>3, <3>1 DEF OnAfter
  <2>2. CASE ~About(c, k)
    BY <1>3, <1>5, <2>2 DEF OnAfter
  <2> QED
    BY <2>1, <2>2
<1> QED
  BY <1>4, <1>6, <1>7

LEMMA StillMods == ASSUME ModTurn, UNCHANGED <<queue, todo, ran>>, \A k \in Keys : disk[k] \subseteq disk'[k] PROVE ModTurn' /\ OnKept
  BY OnSame DEF ModTurn

LEMMA InsertMods ==
    ASSUME IInv, ModTurn, NEW cs \in Seq(Commands), Insert(cs), UNCHANGED <<todo, ran, boot, disk>>
    PROVE  ModTurn' /\ ((\A i \in 1 .. Len(cs), k \in Keys : ~About(cs[i], k)) => OnKept)
<1>1. ASSUME ran # "no" PROVE queue'[1] = queue[1]
  <2>1. todo # <<>> /\ todo \in Seq(Nat) /\ todo[1] \in 1 .. Len(queue)
    BY <1>1 DEF IInv, Places
  <2>2. Len(queue) > 0
    BY <2>1, InsertFacts
  <2> QED
    BY <2>2, InsertFacts
<1>2. ModTurn'
  BY <1>1 DEF ModTurn
<1> QED
  BY <1>2, OnInsert DEF OnKept

-----------------------------------------------------------------------------

\* The rows are as before, and so is who is about to enqueue.
LEMMA RowsStill ==
    ASSUME ModRows, OnKept, UNCHANGED <<mod, job>>
    PROVE  ModRows'
<1>1. \A k : Only(k)' <=> Only(k)
  BY DEF Only
<1>2. \A w, k : Brings(w, k)' <=> Brings(w, k)
  BY DEF Brings, At
<1> QED
  BY <1>1, <1>2 DEF ModRows, OnKept

\* A step of the poller: no report and no upload is under way.
LEMMA BusyStep ==
    ASSUME ModJobs, ModScan, ModRows, OnKept, ~QueueQuiet, UNCHANGED <<job, mod, scan>>
    PROVE  ModJobs' /\ ModScan' /\ ModRows'
<1>1. scan = NoScan /\ \A w \in Requests : ~At(w, "record")
  BY DEF ModScan, ModJobs
<1>2. ModJobs'
  BY <1>1 DEF ModJobs, At
<1>3. ModScan'
  BY <1>1 DEF ModScan, NoScan
<1> QED
  BY <1>2, <1>3, RowsStill

LEMMA LoneJobs ==
    ASSUME IInv, ModJobs, ModScan, NEW w \in Requests, ~At(w, "idle"), NEW j, Go(w, j)
    PROVE  Lone(w) /\ job'[w] = j /\ scan = NoScan
<1>1. job \in [Requests -> Jobs] /\ job' = [job EXCEPT ![w] = j]
  BY DEF IInv, TypeOK, Go
<1>2. Lone(w) /\ job'[w] = j
  BY <1>1 DEF Lone, ModJobs, At
<1> QED
  BY <1>2 DEF ModScan, NoRequests, At

\* What one step of the only request owes for ModJobs.
LEMMA JobsStep ==
    ASSUME NEW w \in Requests, Lone(w),
           job'[w].at = "command" =>
               /\ job'[w].op \in {"install", "remove", "enable", "disable"}
               /\ job'[w].op \in {"remove", "disable"} => \A k \in Keys : k[2] = job'[w].x => ~mod'[k].present,
           job'[w].at = "record" => QueueQuiet' /\ \A k \in Keys : k = <<"mods", job'[w].x>> => "on" \in disk'[k]
    PROVE  ModJobs'
<1>1. \A v \in Requests : v # w => job'[v].at = "idle"
  BY DEF Lone
<1> QED
  BY <1>1 DEF ModJobs, At

\* The only request that may be about to enqueue is w.
LEMMA LoneBrings ==
    ASSUME ModRows, NEW w \in Requests, Lone(w), NEW k \in Keys, mod[k].present, Only(k), ~Brings(w, k)
    PROVE  OnAfter(k)
<1>1. \A v \in Requests : v # w => ~Brings(v, k)
  BY DEF Lone, Brings, At
<1> QED
  BY <1>1 DEF ModRows

LEMMA RowsStep ==
    ASSUME ModRows, NEW w \in Requests, Lone(w), job[w].at # "command", OnKept,
           \A k \in Keys : mod'[k].present =>
               /\ mod'[k].in
               /\ Only(k)' => Brings(w, k)' \/ OnAfter(k)' \/ (mod[k].present /\ Only(k))
    PROVE  ModRows'
<1>1. ASSUME NEW k \in Keys, mod[k].present, Only(k) PROVE OnAfter(k)'
  <2>1. ~Brings(w, k)
    BY DEF Brings, At
  <2> QED
    BY <1>1, <2>1, LoneBrings DEF OnKept
<1> QED
  BY <1>1 DEF ModRows

\* A step of a request that changes no row of a mod.
LEMMA ModsOther ==
    ASSUME ModJobs, ModScan, ModRows, OnKept, NEW w \in Requests, Lone(w), job[w].at # "command",
           job'[w].at \notin {"command", "record"}, UNCHANGED <<mod, scan>>, scan = NoScan
    PROVE  ModJobs' /\ ModScan' /\ ModRows'
<1>1. ModJobs'
  BY JobsStep
<1>2. ModScan'
  BY DEF ModScan, NoScan
<1>3. \A k : Only(k)' <=> Only(k)
  BY DEF Only
<1>4. ModRows'
  BY <1>3, RowsStep DEF ModRows
<1> QED
  BY <1>1, <1>2, <1>4

\* Rows that only come leave fewer names in one directory alone.
LEMMA OnlyBefore ==
    ASSUME \A l \in Keys : mod[l].in => mod'[l].in, NEW k, Only(k)'
    PROVE  Only(k)
  BY DEF Only

LEMMA InstallMods ==
    ASSUME IInv, ModJobs, ModScan, ModRows, OnKept, UNCHANGED <<scan>>, NEW w \in Requests, InstallMod(w)
    PROVE  ModJobs' /\ ModScan' /\ ModRows'
<1>0. job[w] \in Jobs /\ mod \in [Keys -> [in : BOOLEAN, present : BOOLEAN, detected : BOOLEAN]]
  BY DEF IInv, TypeOK
<1>1. job[w].at = "row" /\ job[w].op = "install" /\ Go(w, [job[w] EXCEPT !.at = "command"])
  BY DEF InstallMod, Row, At
<1>2. Lone(w) /\ job'[w] = [job[w] EXCEPT !.at = "command"] /\ scan = NoScan
  BY <1>1, LoneJobs DEF At
<1>3. job'[w].at = "command" /\ job'[w].op = "install" /\ job'[w].x = job[w].x
  BY <1>0, <1>1, <1>2 DEF Jobs
<1>4. ModJobs'
  BY <1>2, <1>3, JobsStep
<1>5. ModScan'
  BY <1>2 DEF ModScan, NoScan
<1>6. PICK m : m = <<"mods", job[w].x>>
  OBVIOUS
<1>7. mod' = [mod EXCEPT ![m] = IF @.in THEN @ ELSE [in |-> TRUE, present |-> TRUE, detected |-> FALSE]]
  BY <1>6 DEF InstallMod
<1>8. ASSUME NEW k \in Keys
      PROVE  /\ mod[k].in => mod'[k].in
             /\ mod'[k].present => mod'[k].in
             /\ k # m => mod'[k] = mod[k]
  BY <1>0, <1>7 DEF ModRows
<1>9. ASSUME m \in Keys PROVE Brings(w, m)'
  BY <1>3, <1>6 DEF Brings, At
<1>10. \A k \in Keys : Only(k)' => Only(k)
  BY <1>8, OnlyBefore
<1>11. ModRows'
  BY <1>1, <1>2, <1>8, <1>9, <1>10, RowsStep
<1> QED
  BY <1>4, <1>5, <1>11

LEMMA RemoveMods ==
    ASSUME IInv, ModJobs, ModScan, ModRows, OnKept, UNCHANGED <<scan>>, NEW w \in Requests, RemoveMod(w)
    PROVE  ModJobs' /\ ModScan' /\ ModRows'
<1>0. job[w] \in Jobs /\ mod \in [Keys -> [in : BOOLEAN, present : BOOLEAN, detected : BOOLEAN]] /\ Idle.at = "idle"
  BY IdleJob DEF IInv, TypeOK
<1>1. job[w].at = "row" /\ job[w].op = "remove" /\ (Go(w, Idle) \/ Go(w, [job[w] EXCEPT !.at = "command"]))
  BY DEF RemoveMod, Row, At
<1>2. Lone(w) /\ scan = NoScan /\ (job'[w] = Idle \/ job'[w] = [job[w] EXCEPT !.at = "command"])
  BY <1>1, LoneJobs DEF At
<1>3. job'[w].at = "idle" \/ (job'[w].at = "command" /\ job'[w].op = "remove" /\ job'[w].x = job[w].x)
  BY <1>0, <1>1, <1>2 DEF Jobs
<1>4. ASSUME NEW k \in Keys
      PROVE  /\ k[2] = job[w].x => ~mod'[k].in /\ ~mod'[k].present
             /\ k[2] # job[w].x => mod'[k] = mod[k]
  <2>1. mod'[k] = IF k[2] = job[w].x /\ mod[k].in THEN NoRow ELSE mod[k]
    BY DEF RemoveMod, RowsOf
  <2> QED
    BY <1>0, <2>1 DEF NoRow, ModRows
<1>5. ModJobs'
  BY <1>2, <1>3, <1>4, JobsStep
<1>6. ModScan'
  BY <1>2 DEF ModScan, NoScan
<1>7. ASSUME NEW k \in Keys, mod'[k].present, Only(k)' PROVE mod[k].present /\ Only(k)
  BY <1>4, <1>7 DEF Only
<1>8. \A k \in Keys : mod'[k].present => mod'[k].in
  BY <1>4 DEF ModRows
<1>9. ModRows'
  BY <1>1, <1>2, <1>7, <1>8, RowsStep
<1> QED
  BY <1>5, <1>6, <1>9

LEMMA ToggleMods ==
    ASSUME IInv, ModJobs, ModScan, ModRows, OnKept, UNCHANGED <<scan>>, NEW w \in Requests, ToggleMod(w)
    PROVE  ModJobs' /\ ModScan' /\ ModRows'
<1>0. job[w] \in Jobs /\ mod \in [Keys -> [in : BOOLEAN, present : BOOLEAN, detected : BOOLEAN]] /\ Idle.at = "idle"
  BY IdleJob DEF IInv, TypeOK
<1>1. job[w].at = "row" /\ job[w].op \in {"enable", "disable"}
  BY DEF ToggleMod, Row, At
<1>2. ASSUME NEW k \in Keys
      PROVE  /\ mod'[k].in = mod[k].in
             /\ k[2] = job[w].x /\ mod[k].in => mod'[k].present = (job[w].op = "enable")
             /\ ~(k[2] = job[w].x /\ mod[k].in) => mod'[k] = mod[k]
  <2>1. mod'[k] = IF k[2] = job[w].x /\ mod[k].in THEN [mod[k] EXCEPT !.present = (job[w].op = "enable")] ELSE mod[k]
    BY DEF ToggleMod, RowsOf
  <2> QED
    BY <1>0, <2>1
<1>3. \A k \in Keys : Only(k)' <=> Only(k)
  BY <1>2 DEF Only
<1>4. \A k \in Keys : mod'[k].present => mod'[k].in
  BY <1>2 DEF ModRows
<1>5. CASE RowsOf(job[w].x) = {}
  <2>1. Lone(w) /\ job'[w] = Idle /\ scan = NoScan
    BY <1>1, <1>5, LoneJobs DEF ToggleMod, At
  <2>2. \A k \in Keys : mod'[k] = mod[k]
    BY <1>2, <1>5 DEF RowsOf
  <2>3. ModJobs'
    BY <1>0, <2>1, JobsStep
  <2>4. ModScan'
    BY <2>1 DEF ModScan, NoScan
  <2>5. ModRows'
    BY <1>1, <1>3, <1>4, <2>1, <2>2, RowsStep
  <2> QED
    BY <2>3, <2>4, <2>5
<1>6. CASE RowsOf(job[w].x) # {}
  <2>0. PICK l \in RowsOf(job[w].x) : Go(w, [job[w] EXCEPT !.at = "command", !.y = l[1]])
    BY <1>6 DEF ToggleMod
  <2>1. Lone(w) /\ job'[w] = [job[w] EXCEPT !.at = "command", !.y = l[1]] /\ scan = NoScan
    BY <1>1, <2>0, LoneJobs DEF At
  <2>2. job'[w].at = "command" /\ job'[w].op = job[w].op /\ job'[w].x = job[w].x /\ job'[w].y = l[1]
    BY <1>0, <2>1 DEF Jobs
  <2>3. l \in Keys /\ l[2] = job[w].x /\ mod[l].in
    BY <2>0 DEF RowsOf
  <2>4. ASSUME job[w].op = "disable", NEW k \in Keys, k[2] = job[w].x PROVE ~mod'[k].present
    BY <1>2, <2>4 DEF ModRows
  <2>5. ModJobs'
    BY <1>1, <2>1, <2>2, <2>4, JobsStep
  <2>6. ModScan'
    BY <2>1 DEF ModScan, NoScan
  <2>7. ASSUME NEW k \in Keys, mod'[k].present, Only(k)' PROVE Brings(w, k)' \/ (mod[k].present /\ Only(k))
    <3>1. CASE k[2] = job[w].x /\ mod[k].in
      <4>1. job[w].op = "enable"
        BY <1>1, <1>2, <2>7, <3>1
      <4>2. k = l
        BY <1>3, <2>3, <2>7, <3>1 DEF Only
      <4> QED
        BY <2>2, <2>3, <4>1, <4>2 DEF Brings, At
    <3>2. CASE ~(k[2] = job[w].x /\ mod[k].in)
      BY <1>2, <1>3, <2>7, <3>2
    <3> QED
      BY <3>1, <3>2
  <2>8. ModRows'
    BY <1>1, <1>4, <2>1, <2>7, RowsStep
  <2> QED
    BY <2>5, <2>6, <2>8
<1> QED
  BY <1>5, <1>6

LEMMA RecordMods ==
    ASSUME IInv, ModJobs, ModScan, ModRows, OnKept, UNCHANGED <<scan, queue, disk>>, NEW w \in Requests, RecordUpload(w)
    PROVE  ModJobs' /\ ModScan' /\ ModRows'
<1>0. mod \in [Keys -> [in : BOOLEAN, present : BOOLEAN, detected : BOOLEAN]] /\ Idle.at = "idle"
  BY IdleJob DEF IInv, TypeOK
<1>1. job[w].at = "record" /\ Go(w, Idle)
  BY DEF RecordUpload, At
<1>2. Lone(w) /\ job'[w] = Idle /\ scan = NoScan
  BY <1>1, LoneJobs DEF At
<1>3. PICK m : m = <<"mods", job[w].x>>
  OBVIOUS
<1>4. mod' = [mod EXCEPT ![m] = [in |-> TRUE, present |-> TRUE, detected |-> FALSE]]
  BY <1>3 DEF RecordUpload
<1>5. queue = <<>> /\ (m \in Keys => "on" \in disk[m])
  BY <1>1, <1>3 DEF ModJobs, At, QueueQuiet
<1>6. m \in Keys => OnAfter(m)'
  BY <1>5 DEF OnAfter
<1>7. ASSUME NEW k \in Keys
      PROVE  /\ mod[k].in => mod'[k].in
             /\ mod'[k].present => mod'[k].in
             /\ k # m => mod'[k] = mod[k]
  BY <1>0, <1>4 DEF ModRows
<1>8. \A k \in Keys : Only(k)' => Only(k)
  BY <1>7, OnlyBefore
<1>9. ModRows'
  BY <1>1, <1>2, <1>6, <1>7, <1>8, RowsStep
<1>10. ModJobs'
  BY <1>0, <1>2, JobsStep
<1>11. ModScan'
  BY <1>2 DEF ModScan, NoScan
<1> QED
  BY <1>9, <1>10, <1>11

\* An upload goes past an empty queue only (UploadMod).
LEMMA UploadMods ==
    ASSUME IInv, ModTurn, ModJobs, ModScan, ModRows, NEW w \in Requests, NEW ok \in BOOLEAN, UploadMod(w, ok), Smooth'
    PROVE  ModTurn' /\ ModJobs' /\ ModScan' /\ ModRows'
<1>0. /\ job[w] \in Jobs /\ Idle.at = "idle" /\ disk \in [Keys -> SUBSET {"on", "off"}]
      /\ UNCHANGED <<queue, todo, ran, mod, scan>> /\ job[w].at = "upload"
  BY IdleJob DEF IInv, TypeOK, UploadMod, rowVars, At
<1>1. PICK m : m = <<"mods", job[w].x>>
  OBVIOUS
<1>2. disk' = disk \/ disk' = [disk EXCEPT ![m] = @ \cup {"on"}]
  BY <1>1 DEF UploadMod
<1>3. \A k \in Keys : disk[k] \subseteq disk'[k]
  BY <1>0, <1>2
<1>4. ModTurn' /\ OnKept
  BY <1>0, <1>3, StillMods
<1>5. CASE ok
  <2>1. QueueQuiet /\ disk' = [disk EXCEPT ![m] = @ \cup {"on"}] /\ Go(w, [job[w] EXCEPT !.at = "record"])
    BY <1>1, <1>5 DEF UploadMod, Smooth
  <2>2. Lone(w) /\ job'[w] = [job[w] EXCEPT !.at = "record"] /\ scan = NoScan
    BY <1>0, <2>1, LoneJobs DEF At
  <2>3. job'[w].at = "record" /\ job'[w].x = job[w].x
    BY <1>0, <2>2 DEF Jobs
  <2>4. \A k \in Keys : k = m => "on" \in disk'[k]
    BY <1>0, <2>1
  <2>5. ModJobs'
    BY <1>0, <1>1, <2>1, <2>2, <2>3, <2>4, JobsStep DEF QueueQuiet
  <2>6. ModScan'
    BY <1>0, <2>2 DEF ModScan, NoScan
  <2>7. \A k : Only(k)' <=> Only(k)
    BY <1>0 DEF Only
  <2>8. ModRows'
    BY <1>0, <1>4, <2>2, <2>7, RowsStep DEF ModRows
  <2> QED
    BY <1>4, <2>5, <2>6, <2>8
<1>6. CASE ~ok
  <2>1. Go(w, Idle)
    BY <1>6 DEF UploadMod
  <2>2. Lone(w) /\ job'[w] = Idle /\ scan = NoScan
    BY <1>0, <2>1, LoneJobs DEF At
  <2> QED
    BY <1>0, <1>4, <2>2, ModsOther
<1> QED
  BY <1>5, <1>6

\* The command of a request loads what the request brings, and unloads only what is
\* not shown as present any more (EnqueueModCommand).
LEMMA EnqueueMods ==
    ASSUME IInv, ModTurn, ModJobs, ModScan, ModRows, NEW w \in Requests, EnqueueModCommand(w)
    PROVE  ModTurn' /\ ModJobs' /\ ModScan' /\ ModRows'
<1> DEFINE dir == IF job[w].op \in {"install", "remove"} THEN "mods" ELSE job[w].y
           c == Command(job[w].op, job[w].x, dir, NoConf)
<1>0. job[w] \in Jobs /\ Idle.at = "idle" /\ NoConf \in Confs
  BY IdleJob DEF IInv, TypeOK
<1>1. job[w].x \in Things /\ job[w].op \in Ops /\ dir \in Details
  BY <1>0 DEF Jobs, Details, Dirs
<1>2. c \in Commands /\ c.op = job[w].op /\ c.x = job[w].x /\ c.dir = dir
  BY <1>0, <1>1, CommandType DEF Command
<1>3. Insert(<<c>>) /\ Go(w, Idle) /\ UNCHANGED <<todo, ran, scan, boot, disk, mod>> /\ job[w].at = "command"
  BY DEF EnqueueModCommand, Enqueue, diskVars, rowVars, At
<1>4. /\ job[w].op \in {"install", "remove", "enable", "disable"}
      /\ job[w].op \in {"remove", "disable"} => \A k \in Keys : k[2] = job[w].x => ~mod[k].present
  BY <1>3 DEF ModJobs, At
<1>5. PICK d : d = dir
  OBVIOUS
<1>6. \A k \in Keys : Brings(w, k) => k[2] = job[w].x /\ k[1] = d
  BY <1>4, <1>5 DEF Brings
<1> HIDE DEF c, dir
<1>7. <<c>> \in Seq(Commands) /\ Len(<<c>>) = 1 /\ <<c>>[1] = c
  BY <1>2
<1>8. ModTurn'
  BY <1>3, <1>7, InsertMods
<1>9. Lone(w) /\ job'[w] = Idle /\ scan = NoScan
  BY <1>3, LoneJobs DEF At
<1>10. ModJobs'
  BY <1>0, <1>9, JobsStep
<1>11. ModScan'
  BY <1>3, <1>9 DEF ModScan, NoScan
<1>12. ASSUME NEW k \in Keys, mod[k].present, Only(k) PROVE OnAfter(k)'
  <2>0. k = <<k[1], k[2]>>
    BY DEF Keys
  <2>1. CASE k = <<d, job[w].x>>
    <3>1. Loads(c) /\ About(c, k)
      BY <1>2, <1>4, <1>5, <1>12, <2>1 DEF Loads, About
    <3>2. 1 \in 1 .. Len(<<c>>) /\ \A q \in 1 + 1 .. Len(<<c>>) : ~About(<<c>>[q], k)
      BY <1>7
    <3> QED
      BY <1>3, <1>7, <3>1, <3>2, OnAdd
  <2>2. CASE k # <<d, job[w].x>>
    <3>1. ~Brings(w, k)
      BY <1>6, <2>0, <2>2
    <3>2. OnAfter(k)
      BY <1>9, <1>12, <3>1, LoneBrings
    <3>3. ~About(c, k)
      BY <1>2, <1>5, <2>2 DEF About
    <3>4. \A i \in 1 .. Len(<<c>>) : ~About(<<c>>[i], k)
      BY <1>7, <3>3
    <3> QED
      BY <1>3, <1>7, <3>2, <3>4, OnInsert
  <2> QED
    BY <2>1, <2>2
<1>13. \A k : Only(k)' <=> Only(k)
  BY <1>3 DEF Only
<1>14. ModRows'
  BY <1>3, <1>12, <1>13 DEF ModRows
<1> QED
  BY <1>8, <1>10, <1>11, <1>14

\* The new file of a version switch is installed after the old one is removed, unless
\* they have one name (SwitchModVersion).
LEMMA SwitchMods ==
    ASSUME IInv, ModTurn, ModJobs, ModScan, ModRows, NEW w \in Requests, SwitchModVersion(w), Smooth'
    PROVE  ModTurn' /\ ModJobs' /\ ModScan' /\ ModRows'
<1>0. /\ job[w] \in Jobs /\ Idle.at = "idle" /\ NoConf \in Confs /\ job[w].at = "row"
      /\ mod \in [Keys -> [in : BOOLEAN, present : BOOLEAN, detected : BOOLEAN]]
  BY IdleJob DEF IInv, TypeOK, SwitchModVersion, Row, At
<1>1. CASE Go(w, Idle) /\ UNCHANGED <<queueVars, calls, scan, diskVars, mod>>
  <2>1. UNCHANGED <<queue, todo, ran, disk, mod, scan>>
    BY <1>1 DEF queueVars, diskVars
  <2>2. Lone(w) /\ job'[w] = Idle /\ scan = NoScan
    BY <1>0, <1>1, LoneJobs DEF At
  <2>3. ModTurn' /\ OnKept
    BY <2>1, StillMods
  <2> QED
    BY <1>0, <2>1, <2>2, <2>3, ModsOther
<1>2. CASE ~(Go(w, Idle) /\ UNCHANGED <<queueVars, calls, scan, diskVars, mod>>)
  <2>0. PICK x, y, new : x = job[w].x /\ y = job[w].y /\ new = <<"mods", y>>
    OBVIOUS
  <2> DEFINE r == Command("remove", x, "mods", NoConf)
             n == Command("install", y, "mods", NoConf)
  <2>1. \/ Enqueue(w, <<r, n>>)
        \/ Enqueue(w, <<n, r>>) /\ y # x
    <3>1. \/ Enqueue(w, <<r, n>>)
          \/ Enqueue(w, <<n, r>>) /\ dist' = dist \cup (IF y = x THEN {"tied"} ELSE {})
      BY <1>2, <2>0 DEF SwitchModVersion
    <3> QED
      BY <3>1 DEF Smooth
  <2>2. mod' = [k \in Keys |-> IF k = new THEN [in |-> TRUE, present |-> TRUE, detected |-> FALSE]
                               ELSE IF k \in RowsOf(x) THEN NoRow ELSE mod[k]]
    BY <1>2, <2>0 DEF SwitchModVersion
  <2>3. x \in Things /\ y \in Things /\ "mods" \in Details
    BY <1>0, <2>0 DEF Jobs, Things, Details, Dirs
  <2>4. r \in Commands /\ r.op = "remove" /\ r.x = x /\ r.dir = "mods" /\ n \in Commands /\ n.op = "install" /\ n.x = y /\ n.dir = "mods"
    BY <1>0, <2>3, CommandType DEF Ops, Command
  <2>5. /\ \A k : About(r, k) <=> k = <<"mods", x>>
        /\ \A k : About(n, k) <=> k = new
        /\ Loads(n)
    BY <2>0, <2>4 DEF About, Loads
  <2> HIDE DEF r, n
  <2>6. PICK cs : /\ Enqueue(w, cs)
                  /\ cs = <<r, n>> \/ (cs = <<n, r>> /\ y # x)
    BY <2>1
  <2>7. cs \in Seq(Commands)
    <3>1. <<r, n>> \in Seq(Commands) /\ <<n, r>> \in Seq(Commands)
      BY <2>4
    <3> QED
      BY <2>6, <3>1
  <2>8. Len(cs) = 2 /\ cs[1] \in {r, n} /\ cs[2] \in {r, n} /\ 1 .. Len(cs) = {1, 2}
    <3>1. Len(<<r, n>>) = 2 /\ Len(<<n, r>>) = 2 /\ 1 .. 2 = {1, 2}
      OBVIOUS
    <3>2. Len(cs) = 2
      BY <2>6, <3>1
    <3>3. cs[1] \in {r, n} /\ cs[2] \in {r, n}
      BY <2>6
    <3> QED
      BY <3>1, <3>2, <3>3
  <2>9. Insert(cs) /\ Go(w, Idle) /\ UNCHANGED <<todo, ran, scan, boot, disk>>
    BY <2>6 DEF Enqueue, diskVars
  <2>10. ModTurn'
    BY <2>7, <2>9, InsertMods
  <2>11. Lone(w) /\ job'[w] = Idle /\ scan = NoScan
    BY <1>0, <2>9, LoneJobs DEF At
  <2>12. ModJobs'
    BY <1>0, <2>11, JobsStep
  <2>13. ModScan'
    BY <2>9, <2>11 DEF ModScan, NoScan
  <2>14. ASSUME new \in Keys PROVE OnAfter(new)'
    <3>1. CASE cs = <<r, n>>
      <4>1. cs[2] = n /\ 2 \in 1 .. Len(cs) /\ \A q \in 2 + 1 .. Len(cs) : FALSE
        BY <2>8, <3>1
      <4> QED
        BY <2>5, <2>7, <2>9, <2>14, <4>1, OnAdd
    <3>2. CASE cs = <<n, r>> /\ y # x
      <4>1. cs[1] = n /\ cs[2] = r /\ 1 \in 1 .. Len(cs) /\ \A q \in 1 + 1 .. Len(cs) : q = 2
        BY <2>8, <3>2
      <4>2. ~About(r, new)
        BY <2>0, <2>5, <3>2
      <4> QED
        BY <2>5, <2>7, <2>9, <2>14, <4>1, <4>2, OnAdd
    <3> QED
      BY <2>6, <3>1, <3>2
  <2>15. ASSUME NEW k \in Keys, mod'[k].present, Only(k)', k # new PROVE mod[k].present /\ mod[k].in /\ Only(k) /\ k[2] # x
    <3>1. k[2] # x /\ mod'[k] = mod[k]
      BY <1>0, <2>2, <2>15 DEF RowsOf, NoRow, ModRows
    <3>2. \A l \in Keys : l[2] = k[2] /\ mod[l].in => mod'[l].in
      BY <1>0, <2>2, <3>1 DEF RowsOf
    <3> QED
      BY <2>15, <3>1, <3>2 DEF Only, ModRows
  <2>16. ASSUME NEW k \in Keys, mod'[k].present, Only(k)' PROVE OnAfter(k)'
    <3>1. CASE k = new
      BY <2>14, <3>1
    <3>2. CASE k # new
      <4>1. mod[k].present /\ Only(k) /\ k[2] # x
        BY <2>15, <2>16, <3>2
      <4>2. ~Brings(w, k)
        BY <1>0 DEF Brings, At
      <4>3. OnAfter(k)
        BY <2>11, <4>1, <4>2, LoneBrings
      <4>4. ~About(r, k) /\ ~About(n, k)
        BY <2>5, <3>2, <4>1
      <4>5. \A i \in 1 .. Len(cs) : ~About(cs[i], k)
        BY <2>8, <4>4
      <4> QED
        BY <2>7, <2>9, <4>3, <4>5, OnInsert
    <3> QED
      BY <3>1, <3>2
  <2>17. \A k \in Keys : mod'[k].present => mod'[k].in
    BY <1>0, <2>2 DEF NoRow, ModRows
  <2>18. ModRows'
    BY <2>16, <2>17 DEF ModRows
  <2> QED
    BY <2>10, <2>12, <2>13, <2>18
<1> QED
  BY <1>1, <1>2

LEMMA WorkMods ==
    ASSUME IInv, ModTurn, ModJobs, ModScan, ModRows, NEW w \in Requests, Work(w) \/ UploadMod(w, FALSE), Smooth'
    PROVE  ModTurn' /\ ModJobs' /\ ModScan' /\ ModRows'
<1>0. job[w] \in Jobs /\ Idle.at = "idle" /\ NoConf \in Confs /\ None \in Details
  BY IdleJob DEF IInv, TypeOK, Details, Roles
<1>1. CASE SetActiveWorld(w) \/ DeleteWorld(w) \/ DistributeConfig(w)
  <2>1. ~At(w, "idle") /\ job[w].at # "command" /\ UNCHANGED <<mod, scan, todo, ran, boot, disk>>
    BY <1>1 DEF SetActiveWorld, DeleteWorld, DistributeConfig, Routed, Enqueue, At, diskVars
  <2>2. PICK op, x, g : /\ Insert(<<Command(op, x, None, g)>>)
                        /\ op \in {"set_active_world", "delete_world", "write_mod_config"} /\ x \in Things /\ g \in Confs
    <3>1. job[w].x \in Things /\ job[w].srv \in Things /\ job[w].cfg \in Confs
      BY <1>0 DEF Jobs, Things, Details, Roles
    <3> QED
      BY <1>0, <1>1, <3>1 DEF SetActiveWorld, DeleteWorld, DistributeConfig, Enqueue
  <2>3. PICK c : c = Command(op, x, None, g)
    OBVIOUS
  <2>4. c \in Commands /\ c.op = op
    BY <1>0, <2>2, <2>3, CommandType
  <2>5. <<c>> \in Seq(Commands) /\ Len(<<c>>) = 1 /\ <<c>>[1] = c
    BY <2>4
  <2>6. \A k : ~About(c, k)
    BY <2>2, <2>4 DEF About
  <2>7. \A i \in 1 .. Len(<<c>>), k \in Keys : ~About(<<c>>[i], k)
    BY <2>5, <2>6
  <2>8. ModTurn' /\ OnKept
    BY <2>1, <2>2, <2>3, <2>5, <2>7, InsertMods
  <2>9. PICK j : Go(w, j) /\ j.at \in {"idle", "build"}
    <3>1. CASE SetActiveWorld(w) \/ DeleteWorld(w)
      BY <1>0, <3>1 DEF SetActiveWorld, DeleteWorld, Enqueue
    <3>2. CASE DistributeConfig(w)
      <4>1. job[w].left \ {job[w].srv} \in SUBSET Servers /\ Onward(w, job[w].left \ {job[w].srv})
        BY <1>0, <3>2 DEF DistributeConfig, Jobs
      <4> QED
        BY <4>1, OnwardJob
    <3> QED
      BY <1>1, <3>1, <3>2
  <2>10. Lone(w) /\ job'[w] = j /\ scan = NoScan
    BY <2>1, <2>9, LoneJobs
  <2> QED
    BY <2>1, <2>8, <2>9, <2>10, ModsOther
<1>2. CASE InstallMod(w) \/ RemoveMod(w) \/ ToggleMod(w) \/ RecordUpload(w)
  <2>1. UNCHANGED <<queue, todo, ran, disk, scan>>
    BY <1>2 DEF InstallMod, RemoveMod, ToggleMod, RecordUpload, RowDone, queueVars, diskVars
  <2>2. ModTurn' /\ OnKept
    BY <2>1, StillMods
  <2> QED
    BY <1>2, <2>1, <2>2, InstallMods, RemoveMods, ToggleMods, RecordMods
<1>3. CASE EnqueueModCommand(w)
  BY <1>3, EnqueueMods
<1>4. CASE SwitchModVersion(w)
  BY <1>4, SwitchMods
<1>5. CASE UploadMod(w, TRUE) \/ UploadMod(w, FALSE)
  BY <1>5, UploadMods
<1>6. CASE SetServerRole(w) \/ DistributeAll(w) \/ (\E s \in Servers : BuildServerConfig(w, s)) \/ ReadSecrets(w)
           \/ GetOrCreateSecrets(w) \/ ListGamemodes(w)
  <2>1. UNCHANGED <<scan, queue, todo, ran, disk, mod>> /\ ~At(w, "idle") /\ job[w].at # "command"
    BY <1>6 DEF SetServerRole, DistributeAll, BuildServerConfig, ReadSecrets, GetOrCreateSecrets, ListGamemodes,
           Routed, At, diskVars
  <2>2. ModTurn' /\ OnKept
    BY <2>1, StillMods
  <2>3. PICK j : Go(w, j) /\ j.at \in {"list", "idle", "build", "secret", "fresh", "table", "send"}
    BY <1>6, RoleGoes
  <2>4. Lone(w) /\ job'[w] = j /\ scan = NoScan
    BY <2>1, <2>3, LoneJobs
  <2> QED
    BY <2>1, <2>2, <2>3, <2>4, ModsOther
<1> QED
  BY <1>1, <1>2, <1>3, <1>4, <1>5, <1>6 DEF Work

\* A server that is passed over has nothing to do with mods.
LEMMA SkipMods ==
    ASSUME IInv, ModTurn, ModJobs, ModScan, ModRows, NEW w \in Requests, DistributeConfigFails(w), Smooth'
    PROVE  ModTurn' /\ ModJobs' /\ ModScan' /\ ModRows'
<1>1. UNCHANGED <<scan, queue, todo, ran, disk, mod>> /\ ~At(w, "idle") /\ job[w].at # "command"
  BY DEF DistributeConfigFails, At, rowVars, diskVars
<1>2. ModTurn' /\ OnKept
  BY <1>1, StillMods
<1>3. PICK j : Go(w, j) /\ j.at \in {"idle", "build"}
  <2>1. job[w] \in Jobs
    BY DEF IInv, TypeOK
  <2>2. PICK s : Onward(w, job[w].left \ {s})
    BY DEF DistributeConfigFails
  <2>3. job[w].left \ {s} \in SUBSET Servers
    BY <2>1 DEF Jobs
  <2> QED
    BY <2>2, <2>3, OnwardJob
<1>4. Lone(w) /\ job'[w] = j /\ scan = NoScan
  BY <1>1, <1>3, LoneJobs
<1> QED
  BY <1>1, <1>2, <1>3, <1>4, ModsOther

LEMMA AskMods ==
    ASSUME IInv, ModTurn, ModJobs, ModScan, ModRows, NEW w \in Requests, NEW a \in Asked, Ask(w, a), Smooth'
    PROVE  ModTurn' /\ ModJobs' /\ ModScan' /\ ModRows'
<1>1. PICK at : Begin(w, at, a) /\ at \notin {"command", "record"}
  BY DEF Ask, HandleSetActiveWorld, HandleDeleteWorld, HandleInstallMod, HandleRemoveMod, HandleToggleMod,
         HandleTogglePlugin, HandleSwitchModVersion, HandleUploadMod, HandleSetServerRole, HandleDistribute
<1>2. NoRequests /\ scan = NoScan
  BY <1>1 DEF Begin, Smooth
<1>3. UNCHANGED <<queue, todo, ran, disk, mod, scan>>
  BY <1>1 DEF Begin, rowVars, diskVars
<1>4. job \in [Requests -> Jobs] /\ job' = [job EXCEPT ![w] = [Idle EXCEPT !.at = at, !.op = a.op, !.x = a.x, !.y = a.y]]
  BY <1>1 DEF Begin, Go, IInv, TypeOK
<1>5. job'[w].at = at /\ job[w].at = "idle" /\ Lone(w)
  BY <1>2, <1>4 DEF NoRequests, Idle, Lone
<1>6. ModTurn' /\ OnKept
  BY <1>3, StillMods
<1> QED
  BY <1>1, <1>2, <1>3, <1>5, <1>6, ModsOther

LEMMA PollsMods ==
    ASSUME IInv, ModTurn, ModJobs, ModScan, ModRows, Polls, Smooth'
    PROVE  ModTurn' /\ ModJobs' /\ ModScan' /\ ModRows'
<1>1. CASE Poller /\ UNCHANGED <<rowVars, job, calls, scan, diskVars>>
  <2>1. UNCHANGED <<disk, mod, job, scan>>
    BY <1>1 DEF rowVars, diskVars
  <2>2. ~QueueQuiet
    BY <1>1 DEF Poller, GetPendingCommands, AckCommand, IInv, Places, QueueQuiet
  <2>3. ModTurn' /\ OnKept
    BY <1>1, <2>1, AckMods, FetchMods DEF Poller
  <2> QED
    BY <2>1, <2>2, <2>3, BusyStep
<1>2. CASE todo # <<>> /\ RunCommand(queue[Head(todo)])
  <2>1. ~QueueQuiet
    BY <1>2 DEF QueueQuiet
  <2>2. ModTurn' /\ OnKept /\ UNCHANGED <<job, mod, scan>>
    BY <1>2, RunMods
  <2> QED
    BY <2>1, <2>2, BusyStep
<1> QED
  BY <1>1, <1>2 DEF Polls

\* A report shows as present what is on disk, for nothing is under way (SyncDetectedPlugins).
LEMMA ScanMods ==
    ASSUME IInv, ModTurn, ModJobs, ModScan, ModRows, ScanWorlds \/ Report, Smooth'
    PROVE  ModTurn' /\ ModJobs' /\ ModScan' /\ ModRows'
<1>0. /\ UNCHANGED <<queue, todo, ran, disk, job>> /\ ScanTypes
      /\ mod \in [Keys -> [in : BOOLEAN, present : BOOLEAN, detected : BOOLEAN]]
  BY Types DEF ScanWorlds, Report, SyncWorlds, SyncActiveWorld, ScanPlugins, MarkAbsent, SyncDetectedPlugins, Scanned,
     diskVars, IInv, TypeOK
<1>1. ModTurn' /\ OnKept
  BY <1>0, StillMods
<1>2. QueueQuiet /\ NoRequests
  <2>1. CASE ScanWorlds
    BY <2>1 DEF ScanWorlds, Smooth
  <2>2. CASE Report
    <3>1. scan.at # "idle"
      BY <2>2 DEF Report, SyncWorlds, SyncActiveWorld, ScanPlugins, MarkAbsent, SyncDetectedPlugins
    <3>2. scan # NoScan
      BY <3>1 DEF NoScan
    <3> QED
      BY <3>2 DEF ModScan
  <2> QED
    BY <2>1, <2>2
<1>3. QueueQuiet' /\ NoRequests'
  BY <1>0, <1>2 DEF QueueQuiet, NoRequests, At
<1>4. ModJobs'
  BY <1>3 DEF ModJobs, NoRequests, At
<1>5. \A k \in Keys : mod[k].present /\ Only(k) => OnAfter(k)'
  BY <1>1, <1>2 DEF ModRows, OnKept, Brings, NoRequests, At
<1>6. CASE ScanWorlds \/ (\E x \in Worlds : SyncWorlds(x)) \/ SyncActiveWorld
  <2>1. mod' = mod /\ scan'.found \subseteq scan.found
    <3>1. CASE ScanWorlds
      BY <3>1 DEF ScanWorlds, Scanned, NoScan
    <3>2. ASSUME NEW x \in Worlds, SyncWorlds(x) PROVE mod' = mod /\ scan'.found \subseteq scan.found
      BY <1>0, <3>2 DEF SyncWorlds, Scanned, ScanTypes
    <3>3. CASE SyncActiveWorld
      BY <3>3 DEF SyncActiveWorld, Scanned, NoScan
    <3> QED
      BY <1>6, <3>1, <3>2, <3>3
  <2>2. ModScan'
    BY <1>0, <1>3, <2>1 DEF ModScan
  <2> QED
    BY <1>0, <1>1, <1>4, <2>1, <2>2, RowsStill
<1>7. CASE ScanPlugins
  <2>1. PICK f : /\ scan' = [NoScan EXCEPT !.at = IF f = {} THEN "idle" ELSE "mark", !.found = f]
                 /\ f = {e \in Keys \X BOOLEAN : (IF e[2] THEN "on" ELSE "off") \in disk[e[1]]}
    BY <1>7 DEF ScanPlugins, Scanned
  <2>2. scan'.found = f
    BY <2>1 DEF NoScan
  <2>3. ModScan'
    BY <1>0, <1>3, <2>1, <2>2 DEF ModScan
  <2>4. mod' = mod
    BY <1>7 DEF ScanPlugins
  <2> QED
    BY <1>0, <1>1, <1>4, <2>3, <2>4, RowsStill
<1>8. CASE MarkAbsent
  <2>1. scan'.found = scan.found
    BY <1>0, <1>8 DEF MarkAbsent, Scanned, ScanTypes
  <2>2. ModScan'
    BY <1>0, <1>3, <2>1 DEF ModScan
  <2>3. ASSUME NEW k \in Keys PROVE mod'[k].in = mod[k].in /\ (mod'[k].present => mod[k].present)
    BY <1>0, <1>8 DEF MarkAbsent
  <2>4. \A k \in Keys : Only(k)' <=> Only(k)
    BY <2>3 DEF Only
  <2>5. ModRows'
    BY <1>5, <2>3, <2>4 DEF ModRows
  <2> QED
    BY <1>1, <1>4, <2>2, <2>5
<1>9. ASSUME NEW e \in scan.found, SyncDetectedPlugins(e)
      PROVE  ModTurn' /\ ModJobs' /\ ModScan' /\ ModRows'
  <2>0. e \in Keys \X BOOLEAN /\ (e[2] => "on" \in disk[e[1]])
    BY <1>0 DEF ScanTypes, ModScan
  <2>1. scan'.found \subseteq scan.found
    BY <1>0, <1>9 DEF SyncDetectedPlugins, Scanned, NoScan, ScanTypes
  <2>2. ModScan'
    BY <1>0, <1>3, <2>1 DEF ModScan
  <2>3. PICK l \in Keys : l = e[1]
    BY <2>0
  <2>4. mod' = [mod EXCEPT ![l] = [in |-> TRUE, present |-> e[2], detected |-> TRUE]]
    BY <1>9, <2>3 DEF SyncDetectedPlugins
  <2>5. ASSUME NEW k \in Keys
        PROVE  (mod[k].in => mod'[k].in) /\ (mod'[k].present => mod'[k].in) /\ (k # l => mod'[k] = mod[k])
    BY <1>0, <2>4 DEF ModRows
  <2>6. \A k \in Keys : Only(k)' => Only(k)
    BY <2>5, OnlyBefore
  <2>7. mod'[l].present => e[2]
    BY <1>0, <2>3, <2>4
  <2>8. mod'[l].present => OnAfter(l)'
    BY <1>0, <1>2, <2>0, <2>3, <2>7 DEF OnAfter, QueueQuiet
  <2>9. ModRows'
    BY <1>5, <2>5, <2>6, <2>8 DEF ModRows
  <2> QED
    BY <1>1, <1>4, <2>2, <2>9
<1> QED
  BY <1>6, <1>7, <1>8, <1>9 DEF Report

LEMMA ModsInit == Init => ModsSafe
<1> SUFFICES ASSUME Init PROVE ModsSafe
  OBVIOUS
<1>1. todo = <<>> /\ ran = "no" /\ queue = <<>>
  BY DEF Init, QueueInit
<1>2. ModTurn
  BY <1>1 DEF ModTurn
<1>3. ModJobs
  BY DEF Init, ModJobs, At, Idle
<1>4. ModScan
  BY DEF Init, ModScan, NoScan
<1>5. ASSUME NEW k \in Keys, mod[k].present PROVE mod[k].in /\ "on" \in disk[k]
  BY <1>5 DEF Init, NoRow
<1>6. ModRows
  BY <1>1, <1>5 DEF ModRows, OnAfter
<1> QED
  BY <1>2, <1>3, <1>4, <1>6 DEF ModsSafe

LEMMA ModsNext == IInv /\ ModsSafe /\ [Next]_vars => ModsSafe'
<1> SUFFICES ASSUME IInv, ModsSafe, [Next]_vars, Smooth' PROVE ModTurn' /\ ModJobs' /\ ModScan' /\ ModRows'
  BY DEF ModsSafe
<1>0. ModTurn /\ ModJobs /\ ModScan /\ ModRows
  BY SmoothBefore DEF ModsSafe
<1>1. ASSUME NEW w \in Requests, (\E a \in Asked : Ask(w, a)) \/ Work(w) PROVE ModTurn' /\ ModJobs' /\ ModScan' /\ ModRows'
  BY <1>0, <1>1, AskMods, WorkMods
<1>2. CASE ScanWorlds \/ Report
  BY <1>0, <1>2, ScanMods
<1>3. CASE Polls
  BY <1>0, <1>3, PollsMods
<1>4. CASE (todo # <<>> /\ CommandFails(queue[Head(todo)])) \/ AckLost
  BY <1>4 DEF CommandFails, AckLost, Disturb, Smooth
<1>5. CASE DaemonRestarts
  <2>1. PollerRestarts /\ UNCHANGED <<queue, disk, job, mod>> /\ scan' = NoScan
    BY <1>5 DEF DaemonRestarts, PollerRestarts, rowVars, diskVars
  <2>2. ModTurn' /\ OnKept
    BY <1>0, <2>1, FetchMods
  <2>3. ModRows'
    BY <1>0, <2>1, <2>2, RowsStill
  <2>4. ModScan'
    BY <2>1 DEF ModScan, NoScan
  <2>5. QueueQuiet => QueueQuiet'
    BY <2>1 DEF QueueQuiet, PollerRestarts
  <2>6. ModJobs'
    BY <1>0, <2>1, <2>5 DEF ModJobs, At
  <2> QED
    BY <2>2, <2>3, <2>4, <2>6
<1>6. ASSUME NEW w \in Requests, UploadMod(w, FALSE) \/ DistributeConfigFails(w) \/ Abort(w)
      PROVE  ModTurn' /\ ModJobs' /\ ModScan' /\ ModRows'
  <2>1. CASE UploadMod(w, FALSE)
    BY <1>0, <2>1, WorkMods
  <2>2. CASE Abort(w)
    BY <2>2 DEF Abort, Disturb, Smooth
  <2>3. CASE DistributeConfigFails(w)
    BY <1>0, <2>3, SkipMods
  <2> QED
    BY <1>6, <2>1, <2>2, <2>3
<1>7. CASE UNCHANGED vars
  <2>1. UNCHANGED <<queue, todo, ran, disk, job, mod, scan>>
    BY <1>7 DEF vars, queueVars, rowVars, diskVars
  <2>2. ModTurn' /\ OnKept
    BY <1>0, <2>1, StillMods
  <2>3. ModRows'
    BY <1>0, <2>1, <2>2, RowsStill
  <2>4. ModJobs' /\ ModScan'
    BY <1>0, <2>1 DEF ModJobs, ModScan, QueueQuiet, NoRequests, At
  <2> QED
    BY <2>2, <2>3, <2>4
<1> QED
  BY <1>1, <1>2, <1>3, <1>4, <1>5, <1>6, <1>7 DEF Next

\* A file whose row says that it is present will be there to be loaded once the queue
\* has been run, or the request that made the row has yet to enqueue its command; and a
\* report speaks of the disk as it is.
THEOREM ModsSafeAlways == Spec => []ModsSafe
<1>1. Init => ModsSafe
  BY ModsInit
<1>2. IInv /\ ModsSafe /\ [Next]_vars => ModsSafe'
  BY ModsNext
<1> QED
  BY <1>1, <1>2, Inductive, PTL DEF Spec

\* When all has been carried out, a mod that the panel shows as present is one that the
\* game loads, for any number of files, requests and reports (InstallMod, ToggleMod,
\* UploadMod before RecordUpload, SyncDetectedPlugins).
THEOREM PresentStaysLoaded == Spec => []PresentIsLoaded
<1>1. ModsSafe => PresentIsLoaded
  <2> SUFFICES ASSUME ModsSafe, Quiet, Smooth, NEW k \in Keys, mod[k].present, Cardinality(RowsOf(k[2])) = 1
               PROVE  "on" \in disk[k]
    BY DEF PresentIsLoaded, Smooth
  <2>1. ModRows /\ queue = <<>> /\ \A w \in Requests : ~Brings(w, k)
    BY DEF ModsSafe, Quiet, QueueQuiet, NoRequests, Brings, At
  <2>2. PICK a, b : a = <<"mods", k[2]>> /\ b = <<"plugins", k[2]>>
    OBVIOUS
  <2>3. RowsOf(k[2]) \in SUBSET ({a} \cup {b})
    BY <2>2 DEF RowsOf, Keys, Dirs
  <2>4. IsFiniteSet(RowsOf(k[2]))
    <3>1. IsFiniteSet({a})
      BY FS_Singleton
    <3>2. IsFiniteSet({a} \cup {b})
      BY <3>1, FS_AddElement
    <3> QED
      BY <2>3, <3>2, FS_Subset
  <2>5. PICK z : RowsOf(k[2]) = {z}
    BY <2>4, FS_Singleton
  <2>6. mod[k].in
    BY <2>1 DEF ModRows
  <2>7. Only(k)
    BY <2>5, <2>6 DEF Only, RowsOf
  <2>8. OnAfter(k)
    BY <2>1, <2>7 DEF ModRows
  <2> QED
    BY <2>1, <2>8 DEF OnAfter
<1> QED
  BY <1>1, ModsSafeAlways, PTL
=============================================================================
