------------------------------- MODULE Content -------------------------------
(***************************************************************************)
(* What is kept on a node for its servers, and what the panel records of   *)
(* it: the worlds and the mods of one server, and the network roles of     *)
(* all of them, with the configuration that the network mod reads.         *)
(*                                                                         *)
(* The panel changes its rows and enqueues a command; the daemon carries   *)
(* the command out, and reports every few minutes what it finds on disk.   *)
(* Each SQL statement outside a transaction is a step, a transaction is    *)
(* its reads and then its commit.                                          *)
(***************************************************************************)
EXTENDS CommandQueue

CONSTANTS
    Worlds,
    Odd,            \* those whose directory has a name that the panel does not accept
    Boot,           \* the world that config.json names at first
    Files,
    FirstMod,       \* the file that is in mods/ at first
    FirstPlugin,    \* and the one in plugins/
    Servers,
    Requests,       \* requests in flight
    Asked,          \* what may be asked of the panel
    MaxCalls        \* requests made (bound); scans are counted as moves

None == "none"
Dirs == {"mods", "plugins"}
Keys == Dirs \X Files
Roles == {"hub", "gamemode", None}
Ops == {"activate", "delete", "install", "remove", "enable", "disable", "switch", "upload", "role", "distribute", None}

\* What goes with a request or a command, and what it is about.
Details == Files \cup Dirs \cup Roles
Things == Worlds \cup Servers \cup Details

ASSUME ContentAssumption ==
    /\ Odd \subseteq Worlds /\ Boot \in Worlds \ Odd /\ {FirstMod, FirstPlugin} \subseteq Files
    /\ None \notin Worlds \cup Files \cup Servers /\ Requests \subseteq Nat \ {0} /\ MaxCalls \in Nat
    /\ Asked \subseteq [op : Ops, x : Things, y : Details, url : {"cdn", "https", "http", None}, admin : BOOLEAN]
    /\ \A a \in Asked : a.op = "role" => a.x \in Servers /\ a.y \in Roles
    /\ \A a \in Asked : a.op \in {"activate", "delete"} => a.x \in Worlds

VARIABLES
    world,          \* worlds
    mirror,         \* servers.active_world
    mod,            \* server_mods, by directory and file
    role,           \* servers.network_role
    secret,         \* network_settings: who made the master secret, or 0
    job, calls,     \* requests in flight, requests made
    scan,           \* the scanner's report under way
    dirs,           \* directories under universe/worlds
    boot,           \* Defaults.World of config.json
    disk,           \* "on" and "off", by directory and file: the file and its .disabled form
    conf            \* talepanel/network.json, by server

rowVars == <<world, mirror, mod, role, secret>>
diskVars == <<dirs, boot, disk, conf>>
vars == <<queueVars, rowVars, job, calls, scan, diskVars>>

NoRow == [in |-> FALSE, present |-> FALSE, detected |-> FALSE]
NoWorld == [in |-> FALSE, active |-> FALSE]
NoConf == [role |-> None, key |-> 0, modes |-> {}]
NoScan == [at |-> "idle", worlds |-> {}, active |-> None, found |-> {}]
Idle == [at |-> "idle", op |-> None, x |-> None, y |-> None, left |-> {}, srv |-> None, cfg |-> NoConf]

NoRequests == \A w \in Requests : job[w].at = "idle"

\* The scanner's first report has come.
Init ==
    /\ QueueInit
    /\ world = [x \in Worlds |-> [in |-> x \notin Odd, active |-> x = Boot]]
    /\ mirror = Boot
    /\ mod = [k \in Keys |-> IF k \in {<<"mods", FirstMod>>, <<"plugins", FirstPlugin>>}
                             THEN [in |-> TRUE, present |-> TRUE, detected |-> TRUE] ELSE NoRow]
    /\ role = [s \in Servers |-> None] /\ secret = 0
    /\ job = [w \in Requests |-> Idle] /\ calls = 0 /\ scan = NoScan
    /\ dirs = Worlds /\ boot = Boot /\ conf = [s \in Servers |-> NoConf]
    /\ disk = [k \in Keys |-> IF k \in {<<"mods", FirstMod>>, <<"plugins", FirstPlugin>>} THEN {"on"} ELSE {}]

Go(w, j) == job' = [job EXCEPT ![w] = j]
At(w, at) == job[w].at = at
Command(op, x, dir, cfg) == [op |-> op, x |-> x, dir |-> dir, cfg |-> cfg]

\* A request is taken up, and what it reads first has been found.
Begin(w, at, a) ==
    /\ At(w, "idle") /\ \A v \in Requests : v < w => ~At(v, "idle")
    /\ calls < MaxCalls /\ calls' = calls + 1
    /\ Go(w, [Idle EXCEPT !.at = at, !.op = a.op, !.x = a.x, !.y = a.y])
    /\ dist' = dist \cup (IF NoRequests THEN {} ELSE {"overlap"}) \cup (IF scan = NoScan THEN {} ELSE {"staleScan"})
    /\ UNCHANGED <<queue, todo, ran, faults, moves, rowVars, scan, diskVars>>

\* A request enqueues commands and ends.
Enqueue(w, cs) ==
    /\ Insert(cs) /\ Go(w, Idle)
    /\ UNCHANGED <<todo, ran, faults, moves, calls, scan, diskVars>>

-----------------------------------------------------------------------------
(* Worlds *)

HandleSetActiveWorld(w, a) == a.op = "activate" /\ world[a.x].in /\ Begin(w, "activate", a)

\* The transaction's writes, whether or not the row is still there.
SetActiveWorld(w) ==
    LET x == job[w].x IN
    /\ At(w, "activate")
    /\ world' = [v \in Worlds |-> [world[v] EXCEPT !.active = v = x /\ world[x].in]]
    /\ mirror' = x
    /\ Enqueue(w, <<Command("set_active_world", x, None, NoConf)>>)
    /\ UNCHANGED <<dist, mod, role, secret>>

\* Mutant: the active world may go too.
DeleteAny(w, a) == a.op = "delete" /\ world[a.x].in /\ Begin(w, "delete", a)

HandleDeleteWorld(w, a) == a.op = "delete" /\ world[a.x].in /\ ~world[a.x].active /\ Begin(w, "delete", a)

DeleteWorld(w) ==
    LET x == job[w].x IN
    /\ At(w, "delete")
    /\ world' = [world EXCEPT ![x] = NoWorld]
    /\ Enqueue(w, <<Command("delete_world", x, None, NoConf)>>)
    /\ UNCHANGED <<dist, mirror, mod, role, secret>>

-----------------------------------------------------------------------------
(* Mods and plugins *)

ValidateModDownloadURL(a) == a.url = "cdn" \/ (a.url = "https" /\ a.admin)

HandleInstallMod(w, a) == a.op = "install" /\ ValidateModDownloadURL(a) /\ Begin(w, "row", a)
HandleRemoveMod(w, a) == a.op = "remove" /\ Begin(w, "row", a)
HandleToggleMod(w, a) == a.op \in {"enable", "disable"} /\ Begin(w, "row", a)
HandleTogglePlugin(w, a) == a.op \in {"enable", "disable"} /\ Begin(w, "row", a)
HandleSwitchModVersion(w, a) == a.op = "switch" /\ ValidateModDownloadURL(a) /\ Begin(w, "row", a)

\* Every row of that file name, in either directory.
RowsOf(x) == {k \in Keys : k[2] = x /\ mod[k].in}

Row(w, op) == At(w, "row") /\ job[w].op = op
RowDone(w) == UNCHANGED <<queueVars, world, mirror, role, secret, calls, scan, diskVars>>

\* A row that is there keeps is_present.
InstallMod(w) ==
    LET k == <<"mods", job[w].x>> IN
    /\ Row(w, "install")
    /\ mod' = [mod EXCEPT ![k] = IF @.in THEN @ ELSE [in |-> TRUE, present |-> TRUE, detected |-> FALSE]]
    /\ Go(w, [job[w] EXCEPT !.at = "command"])
    /\ RowDone(w)

\* Without a row the request ends.
RemoveMod(w) ==
    /\ Row(w, "remove")
    /\ mod' = [k \in Keys |-> IF k \in RowsOf(job[w].x) THEN NoRow ELSE mod[k]]
    /\ Go(w, IF RowsOf(job[w].x) = {} THEN Idle ELSE [job[w] EXCEPT !.at = "command"])
    /\ RowDone(w)

\* All rows change; the directory is that of the first one returned.
ToggleMod(w) ==
    LET on == job[w].op = "enable" IN
    /\ Row(w, "enable") \/ Row(w, "disable")
    /\ mod' = [k \in Keys |-> IF k \in RowsOf(job[w].x) THEN [mod[k] EXCEPT !.present = on] ELSE mod[k]]
    /\ IF RowsOf(job[w].x) = {} THEN Go(w, Idle)
       ELSE \E k \in RowsOf(job[w].x) : Go(w, [job[w] EXCEPT !.at = "command", !.y = k[1]])
    /\ RowDone(w)

EnqueueModCommand(w) ==
    LET j == job[w] IN
    /\ At(w, "command")
    /\ Enqueue(w, <<Command(j.op, j.x, IF j.op \in {"install", "remove"} THEN "mods" ELSE j.y, NoConf)>>)
    /\ UNCHANGED <<dist, rowVars>>

\* One transaction, so one created_at for both commands, and either may be run
\* first; another row of the new name rolls it back.
SwitchModVersion(w) ==
    LET old == job[w].x  new == <<"mods", job[w].y>>
        remove == Command("remove", old, "mods", NoConf)  install == Command("install", job[w].y, "mods", NoConf) IN
    /\ Row(w, "switch")
    /\ IF mod[new].in /\ new[2] # old
       THEN Go(w, Idle) /\ UNCHANGED <<queueVars, calls, scan, diskVars, mod>>
       ELSE /\ mod' = [k \in Keys |-> IF k = new THEN [in |-> TRUE, present |-> TRUE, detected |-> FALSE]
                                      ELSE IF k \in RowsOf(old) THEN NoRow ELSE mod[k]]
            /\ \/ Enqueue(w, <<remove, install>>) /\ UNCHANGED dist
               \/ Enqueue(w, <<install, remove>>) /\ dist' = dist \cup (IF new[2] = old THEN {"tied"} ELSE {})
    /\ UNCHANGED <<world, mirror, role, secret>>

HandleUploadMod(w, a) == a.op = "upload" /\ Begin(w, "upload", a)

\* Mutant: a failed upload is logged only.
UploadAnyway(w, ok) ==
    LET k == <<"mods", job[w].x>> IN
    /\ At(w, "upload")
    /\ IF ok THEN /\ disk' = [disk EXCEPT ![k] = @ \cup {"on"}] /\ UNCHANGED <<faults, moves>>
                  /\ dist' = dist \cup (IF QueueQuiet THEN {} ELSE {"overtook"})
       ELSE UNCHANGED disk /\ Disturb("upload")
    /\ Go(w, [job[w] EXCEPT !.at = "record"])
    /\ UNCHANGED <<queue, todo, ran, rowVars, calls, scan, dirs, boot, conf>>

\* The file goes to the daemon first, past the commands that wait in the queue; what
\* fails may have arrived, and only its answer not.
UploadMod(w, ok) ==
    LET k == <<"mods", job[w].x>> IN
    /\ At(w, "upload")
    /\ disk' \in {[disk EXCEPT ![k] = @ \cup {"on"}]} \cup (IF ok THEN {} ELSE {disk})
    /\ IF ok THEN dist' = dist \cup (IF QueueQuiet THEN {} ELSE {"overtook"}) /\ UNCHANGED <<faults, moves>>
       ELSE Disturb("upload")
    /\ Go(w, IF ok THEN [job[w] EXCEPT !.at = "record"] ELSE Idle)
    /\ UNCHANGED <<queue, todo, ran, rowVars, calls, scan, dirs, boot, conf>>

RecordUpload(w) ==
    LET k == <<"mods", job[w].x>> IN
    /\ At(w, "record")
    /\ mod' = [mod EXCEPT ![k] = [in |-> TRUE, present |-> TRUE, detected |-> FALSE]]
    /\ Go(w, Idle)
    /\ RowDone(w)

-----------------------------------------------------------------------------
(* Network roles *)

HandleSetServerRole(w, a) == a.op = "role" /\ Begin(w, "role", a)
HandleDistribute(w, a) == a.op = "distribute" /\ Begin(w, "list", a)

Routed(w, at) == At(w, at) /\ UNCHANGED <<todo, ran, dist, faults, moves, world, mirror, mod, calls, scan, diskVars>>

SetServerRole(w) ==
    /\ Routed(w, "role")
    /\ role' = [role EXCEPT ![job[w].x] = job[w].y]
    /\ Go(w, [job[w] EXCEPT !.at = "list"])
    /\ UNCHANGED <<queue, secret>>

\* What is left to write once the servers in left are the only ones.
Onward(w, left) == Go(w, IF left = {} THEN Idle ELSE [job[w] EXCEPT !.at = "build", !.left = left])

\* Mutant: only the server whose role changed.
DistributeOne(w) ==
    /\ Routed(w, "list")
    /\ Onward(w, {s \in Servers : role[s] # None} \cap {job[w].x})
    /\ UNCHANGED <<queue, role, secret>>

DistributeAll(w) ==
    /\ Routed(w, "list")
    /\ Onward(w, {s \in Servers : role[s] # None})
    /\ UNCHANGED <<queue, role, secret>>

\* A server that has left the network meanwhile is skipped.
BuildServerConfig(w, s) ==
    /\ Routed(w, "build") /\ s \in job[w].left
    /\ IF role[s] = None THEN Onward(w, job[w].left \ {s})
       ELSE Go(w, [job[w] EXCEPT !.at = "secret", !.srv = s, !.cfg = [NoConf EXCEPT !.role = role[s]]])
    /\ UNCHANGED <<queue, role, secret>>

ReadSecrets(w) ==
    /\ Routed(w, "secret")
    /\ Go(w, IF secret = 0 THEN [job[w] EXCEPT !.at = "fresh"] ELSE [job[w] EXCEPT !.at = "table", !.cfg.key = secret])
    /\ UNCHANGED <<queue, role, secret>>

\* Mutant: the secret just made is used, whoever won.
UseFresh(w) ==
    /\ Routed(w, "fresh")
    /\ secret' = IF secret = 0 THEN w ELSE secret
    /\ Go(w, [job[w] EXCEPT !.at = "table", !.cfg.key = w])
    /\ UNCHANGED <<queue, role>>

\* Inserted if there is still none, and read again.
GetOrCreateSecrets(w) ==
    /\ Routed(w, "fresh")
    /\ secret' = IF secret = 0 THEN w ELSE secret
    /\ Go(w, [job[w] EXCEPT !.at = "secret"])
    /\ UNCHANGED <<queue, role>>

ListGamemodes(w) ==
    /\ Routed(w, "table")
    /\ Go(w, [job[w] EXCEPT !.at = "send",
                            !.cfg.modes = IF job[w].cfg.role = "hub" THEN {s \in Servers : role[s] = "gamemode"} ELSE {}])
    /\ UNCHANGED <<queue, role, secret>>

DistributeConfig(w) ==
    /\ Routed(w, "send")
    /\ Insert(<<Command("write_mod_config", job[w].srv, None, job[w].cfg)>>)
    /\ Onward(w, job[w].left \ {job[w].srv})
    /\ UNCHANGED <<role, secret>>

-----------------------------------------------------------------------------
(* The daemon's scanner *)

Scanned(s) == scan' = s /\ UNCHANGED <<queue, todo, ran, faults, role, secret, job, calls, diskVars>>

\* Nothing found is not reported.
ScanWorlds ==
    /\ scan = NoScan /\ Move
    /\ Scanned([NoScan EXCEPT !.at = IF dirs = {} THEN "between" ELSE "worlds", !.worlds = dirs \ Odd,
                              !.active = IF boot \in Odd THEN None ELSE boot])
    /\ dist' = dist \cup (IF NoRequests /\ QueueQuiet THEN {} ELSE {"staleScan"})
    /\ UNCHANGED <<world, mirror, mod>>

\* One row after another; none is removed.
SyncWorlds(x) ==
    /\ scan.at = "worlds" /\ x \in scan.worlds
    /\ world' = [world EXCEPT ![x] = [in |-> TRUE, active |-> IF scan.active = None THEN @.active ELSE x = scan.active]]
    /\ Scanned([scan EXCEPT !.worlds = @ \ {x}])
    /\ UNCHANGED <<dist, moves, mirror, mod>>

SyncActiveWorld ==
    /\ scan.at = "worlds" /\ scan.worlds = {}
    /\ mirror' = IF scan.active = None THEN mirror ELSE scan.active
    /\ Scanned([NoScan EXCEPT !.at = "between"])
    /\ UNCHANGED <<dist, moves, world, mod>>

ScanPlugins ==
    LET found == {e \in Keys \X BOOLEAN : (IF e[2] THEN "on" ELSE "off") \in disk[e[1]]} IN
    /\ scan.at = "between"
    /\ Scanned([NoScan EXCEPT !.at = IF found = {} THEN "idle" ELSE "mark", !.found = found])
    /\ dist' = dist \cup (IF NoRequests /\ QueueQuiet THEN {} ELSE {"staleScan"})
    /\ UNCHANGED <<moves, world, mirror, mod>>

MarkAbsent ==
    /\ scan.at = "mark"
    /\ mod' = [k \in Keys |-> IF mod[k].detected THEN [mod[k] EXCEPT !.present = FALSE] ELSE mod[k]]
    /\ Scanned([scan EXCEPT !.at = "plugins"])
    /\ UNCHANGED <<dist, moves, world, mirror>>

\* A file and its .disabled form are two entries for one row.
SyncDetectedPlugins(e) ==
    /\ scan.at = "plugins" /\ e \in scan.found
    /\ mod' = [mod EXCEPT ![e[1]] = [in |-> TRUE, present |-> e[2], detected |-> TRUE]]
    /\ Scanned(IF scan.found = {e} THEN NoScan ELSE [scan EXCEPT !.found = @ \ {e}])
    /\ UNCHANGED <<dist, moves, world, mirror>>

-----------------------------------------------------------------------------
(* The commands *)

Ran(c, ok) ==
    /\ Running(c, ok) /\ dist' = (IF ok THEN dist ELSE dist \cup {"failed"})
    /\ UNCHANGED <<queue, todo, faults, moves, rowVars, job, calls, scan>>
File(c) == disk[<<c.dir, c.x>>]
Becomes(c, forms) == disk' = [disk EXCEPT ![<<c.dir, c.x>>] = forms]

WriteActiveWorld(c) == c.op = "set_active_world" /\ Ran(c, TRUE) /\ boot' = c.x /\ UNCHANGED <<dirs, disk, conf>>

\* Gone already is as good.
DeleteWorldDir(c) == c.op = "delete_world" /\ Ran(c, TRUE) /\ dirs' = dirs \ {c.x} /\ UNCHANGED <<boot, disk, conf>>

DownloadAndInstallMod(c) == c.op = "install" /\ Ran(c, TRUE) /\ Becomes(c, File(c) \cup {"on"}) /\ UNCHANGED <<dirs, boot, conf>>

\* A disabled file is not found.
RemoveFile(c) == c.op = "remove" /\ Ran(c, "on" \in File(c)) /\ Becomes(c, File(c) \ {"on"}) /\ UNCHANGED <<dirs, boot, conf>>

\* Renamed over what is there; done already is as good.
Rename(c, from, to) ==
    /\ Ran(c, File(c) # {}) /\ Becomes(c, IF from \in File(c) THEN {to} ELSE File(c))
    /\ UNCHANGED <<dirs, boot, conf>>
EnableMod(c) == c.op = "enable" /\ Rename(c, "off", "on")
DisableMod(c) == c.op = "disable" /\ Rename(c, "on", "off")

WriteModConfigFile(c) == c.op = "write_mod_config" /\ Ran(c, TRUE) /\ conf' = [conf EXCEPT ![c.x] = c.cfg] /\ UNCHANGED <<dirs, boot, disk>>

\* A download that fails, a config.json that cannot be parsed, a full disk.
CommandFails(c) == Running(c, FALSE) /\ Disturb("failed") /\ UNCHANGED <<queue, todo, rowVars, job, calls, scan, diskVars>>

-----------------------------------------------------------------------------
(* Disturbances *)

DaemonRestarts == PollerRestarts /\ scan' = NoScan /\ UNCHANGED <<rowVars, job, calls, diskVars>>

\* One server cannot be sent its configuration: logged, and the next one is served.
DistributeConfigFails(w) ==
    /\ \/ At(w, "build") /\ \E s \in job[w].left : Onward(w, job[w].left \ {s})
       \/ job[w].at \in {"secret", "fresh", "table", "send"} /\ Onward(w, job[w].left \ {job[w].srv})
    /\ Disturb("skipped")
    /\ UNCHANGED <<queue, todo, ran, rowVars, calls, scan, diskVars>>

\* A caller gives up: the statements that are left fail.
Abort(w) ==
    /\ ~At(w, "idle") /\ Disturb("abort") /\ Go(w, Idle)
    /\ UNCHANGED <<queue, todo, ran, rowVars, calls, scan, diskVars>>

-----------------------------------------------------------------------------

Ask(w, a) ==
    \/ HandleSetActiveWorld(w, a) \/ HandleDeleteWorld(w, a)
    \/ HandleInstallMod(w, a) \/ HandleRemoveMod(w, a) \/ HandleToggleMod(w, a) \/ HandleTogglePlugin(w, a)
    \/ HandleSwitchModVersion(w, a) \/ HandleUploadMod(w, a)
    \/ HandleSetServerRole(w, a) \/ HandleDistribute(w, a)

Work(w) ==
    \/ SetActiveWorld(w) \/ DeleteWorld(w)
    \/ InstallMod(w) \/ RemoveMod(w) \/ ToggleMod(w) \/ EnqueueModCommand(w) \/ SwitchModVersion(w)
    \/ UploadMod(w, TRUE) \/ RecordUpload(w)
    \/ SetServerRole(w) \/ DistributeAll(w) \/ (\E s \in Servers : BuildServerConfig(w, s))
    \/ ReadSecrets(w) \/ GetOrCreateSecrets(w) \/ ListGamemodes(w) \/ DistributeConfig(w)

Report ==
    \/ (\E x \in Worlds : SyncWorlds(x)) \/ SyncActiveWorld
    \/ ScanPlugins \/ MarkAbsent \/ \E e \in scan.found : SyncDetectedPlugins(e)

RunCommand(c) ==
    \/ WriteActiveWorld(c) \/ DeleteWorldDir(c)
    \/ DownloadAndInstallMod(c) \/ RemoveFile(c) \/ EnableMod(c) \/ DisableMod(c)
    \/ WriteModConfigFile(c)

Polls == (Poller /\ UNCHANGED <<rowVars, job, calls, scan, diskVars>>) \/ (todo # <<>> /\ RunCommand(queue[Head(todo)]))

Next ==
    \/ \E w \in Requests : (\E a \in Asked : Ask(w, a)) \/ Work(w)
    \/ ScanWorlds \/ Report
    \/ Polls
    \/ (todo # <<>> /\ CommandFails(queue[Head(todo)]))
    \/ (AckLost /\ UNCHANGED <<rowVars, job, calls, scan, diskVars>>)
    \/ DaemonRestarts
    \/ \E w \in Requests : UploadMod(w, FALSE) \/ DistributeConfigFails(w) \/ Abort(w)

\* Requests run to their end, the scanner finishes what it has begun, and the poller polls.
Fairness == (\A w \in Requests : WF_vars(Work(w))) /\ WF_vars(Report) /\ WF_vars(Polls)

Spec == Init /\ [][Next]_vars /\ Fairness

-----------------------------------------------------------------------------
(* Properties *)

Quiet == QueueQuiet /\ NoRequests /\ scan = NoScan

Confs == [role : Roles, key : Requests \cup {0}, modes : SUBSET Servers]
Points == {"idle", "activate", "delete", "row", "command", "upload", "record", "role", "list", "build", "secret", "fresh", "table", "send"}
Jobs == [at : Points, op : Ops, x : Things, y : Details, left : SUBSET Servers, srv : Servers \cup {None}, cfg : Confs]
Commands == [op : Ops \cup {"set_active_world", "delete_world", "write_mod_config"}, x : Things, dir : Details, cfg : Confs]

TypeOK ==
    /\ world \in [Worlds -> [in : BOOLEAN, active : BOOLEAN]] /\ mirror \in Things
    /\ mod \in [Keys -> [in : BOOLEAN, present : BOOLEAN, detected : BOOLEAN]]
    /\ role \in [Servers -> Roles] /\ secret \in Requests \cup {0}
    /\ job \in [Requests -> Jobs] /\ calls \in Nat
    /\ scan \in [at : {"idle", "worlds", "between", "mark", "plugins"}, worlds : SUBSET Worlds, active : Things, found : SUBSET (Keys \X BOOLEAN)]
    /\ dirs \subseteq Worlds /\ boot \in Things
    /\ disk \in [Keys -> SUBSET {"on", "off"}] /\ conf \in [Servers -> Confs]
    /\ queue \in Seq(Commands)

\* The world that config.json names is on disk, so the server can boot, whatever
\* is activated and deleted, given up half-way, or done by a daemon that starts
\* again and runs commands a second time: as long as requests come one at a
\* time, no report crosses a change, no command fails and every acknowledgement
\* arrives.  (SetActiveWorld, and ErrWorldActive in DeleteWorld.)
BootWorldExists == dist \cap {"overlap", "staleScan", "failed", "ackLost"} = {} => boot \in dirs

\* A mod that the panel shows as present is one that the game loads, once the
\* queue is empty: whether it came by download, upload, version switch or toggle,
\* and after an upload that the daemon refused.  The file names that are in both
\* directories are left out, as are uploads that overtake commands, and changes
\* that cross a report.
\* (InstallMod, ToggleMod, UploadMod before RecordUpload.)
PresentIsLoaded ==
    Quiet /\ dist \cap {"overlap", "staleScan", "failed", "ackLost", "abort", "tied", "overtook"} = {} =>
        \A k \in Keys : mod[k].present /\ Cardinality(RowsOf(k[2])) = 1 => "on" \in disk[k]

\* Every configuration that has been sent carries the one secret of the
\* installation, so that a ticket signed by a hub is good on every gamemode, even
\* if the first two are made at the same time.  (GetOrCreateSecrets.)
OneSecret ==
    /\ \A s \in Servers : conf[s].key \in {0, secret}
    /\ \A i \in DOMAIN queue : queue[i].op = "write_mod_config" => queue[i].cfg.key = secret

\* Once a role change has been carried out, every server of the network has its
\* role, and a hub knows exactly the gamemodes that there are, if role changes
\* came one at a time and none was lost or skipped.  (DistributeAll after SetServerRole.)
HubKnowsGamemodes ==
    Quiet /\ dist \cap {"overlap", "failed", "ackLost", "abort", "skipped"} = {} =>
        \A s \in Servers : role[s] # None =>
            /\ conf[s].role = role[s]
            /\ role[s] = "hub" => conf[s].modes = {t \in Servers : role[t] = "gamemode"}

\* Whatever was asked is settled in the end: no request hangs and no command stays
\* pending, the ones that fail included.  (AckCommand, and the poll loop.)
Settles == []<>Quiet

-----------------------------------------------------------------------------
(* The inductive invariant behind OneSecret. *)

\* A configuration that carries the secret.
Signed(cfg) == secret # 0 /\ cfg.key = secret

\* A request past the secret has the stored one, although requests make secrets at
\* the same time; so has every configuration in the queue or on disk.
JobsKept ==
    \A w \in Requests :
        /\ job[w].at = "role" => job[w].y \in Roles
        /\ job[w].at \in {"table", "send"} => Signed(job[w].cfg)
QueueKept == \A i \in DOMAIN queue : queue[i].op = "write_mod_config" => Signed(queue[i].cfg)
ConfKept == \A s \in Servers : conf[s].key \in {0, secret}

IInv == TypeOK /\ Places /\ JobsKept /\ QueueKept /\ ConfKept

-----------------------------------------------------------------------------
(* What PresentIsLoaded rests on. *)

Smooth == dist \cap {"overlap", "staleScan", "failed", "ackLost", "abort", "tied", "overtook"} = {}

\* A command about the file k, and one after which the game loads it.
Loads(c) == c.op \in {"install", "enable"}
About(c, k) == c.op \in {"install", "enable", "remove", "disable"} /\ <<c.dir, c.x>> = k

\* The file is there to be loaded once the queue has been run.
OnAfter(k) ==
    \/ "on" \in disk[k] /\ \A i \in 1 .. Len(queue) : ~About(queue[i], k)
    \/ \E i \in 1 .. Len(queue) : About(queue[i], k) /\ Loads(queue[i]) /\ \A j \in i + 1 .. Len(queue) : ~About(queue[j], k)

\* The request has changed the row and is about to enqueue the command.
Brings(w, k) ==
    /\ At(w, "command") /\ k[2] = job[w].x
    /\ (job[w].op = "install" /\ k[1] = "mods") \/ (job[w].op = "enable" /\ k[1] = job[w].y)

\* No file of that name in the other directory has a row.
Only(k) == \A l \in Keys : l[2] = k[2] /\ mod[l].in => l = k

ModTurn ==
    /\ \A i \in 1 .. Len(todo) : todo[i] = i
    /\ ran # "no" => ran = "ok" /\ \A k \in Keys : About(queue[1], k) /\ Loads(queue[1]) => "on" \in disk[k]

ModJobs ==
    /\ \A v, w \in Requests : ~At(v, "idle") /\ ~At(w, "idle") => v = w
    /\ \A w \in Requests : At(w, "command") =>
            /\ job[w].op \in {"install", "remove", "enable", "disable"}
            /\ job[w].op \in {"remove", "disable"} => \A k \in Keys : k[2] = job[w].x => ~mod[k].present
    /\ \A w \in Requests : At(w, "record") => QueueQuiet /\ \A k \in Keys : k = <<"mods", job[w].x>> => "on" \in disk[k]

ModScan ==
    /\ scan # NoScan => QueueQuiet /\ NoRequests
    /\ \A e \in scan.found : e[2] => "on" \in disk[e[1]]

ModRows ==
    \A k \in Keys : mod[k].present => mod[k].in /\ (Only(k) => OnAfter(k) \/ \E w \in Requests : Brings(w, k))

ModsSafe == Smooth => ModTurn /\ ModJobs /\ ModScan /\ ModRows

-----------------------------------------------------------------------------
(* Claims that do not hold; see the README. *)

\* world_service.go: "the active world cannot be deleted".
ActiveNeverDeleted == dist \cap {"failed", "ackLost", "staleScan"} = {} => boot \in dirs
ActiveNeverDeletedOnFailure == dist \cap {"overlap", "ackLost", "staleScan"} = {} => boot \in dirs
ActiveNeverDeletedOnReport == dist \cap {"overlap", "ackLost", "failed"} = {} => boot \in dirs

\* A world that was deleted does not reappear.
DeletedStaysDeleted == Quiet /\ dist \subseteq {"staleScan"} => \A x \in Worlds : world[x].in => x \in dirs

\* mod_service.go: a version switch is atomic.
SwitchKeepsMod ==
    Quiet /\ dist \subseteq {"tied"} =>
        \A k \in Keys : mod[k].present /\ Cardinality(RowsOf(k[2])) = 1 => "on" \in disk[k]

\* What is uploaded stays.
UploadStays ==
    Quiet /\ dist \subseteq {"overtook"} =>
        \A k \in Keys : mod[k].present /\ Cardinality(RowsOf(k[2])) = 1 => "on" \in disk[k]

\* A mod that is not listed is not on disk.
RemovedIsGone == Quiet /\ dist \subseteq {"failed"} /\ faults = 0 => \A k \in Keys : disk[k] # {} => mod[k].in

\* A mod that is listed as disabled is not loaded.
DisabledIsOff == Quiet /\ dist = {} => \A k \in Keys : mod[k].in /\ ~mod[k].present => "on" \notin disk[k]

\* network_routing_service.go: a role change fans out to all of the network.
LastRoleWins ==
    Quiet /\ dist \subseteq {"overlap"} =>
        \A s \in Servers : role[s] = "hub" => conf[s].modes = {t \in Servers : role[t] = "gamemode"}

\* "none" removes a server from the network.
LeavesNetwork == Quiet /\ dist = {} => \A s \in Servers : role[s] = None => conf[s] = NoConf
=============================================================================
