# TalePanel: a TLA+ verification project

TalePanel is a control panel for Hytale game servers. A Go API
(`src/services/api`) keeps users, nodes, servers, backups and players in PostgreSQL
and short-lived keys in Redis. A Rust daemon (`src/services/daemon`) runs on every
node, owns the game-server processes and their files, and is driven by the API over
HTTP and through a table of commands that it polls. A Java mod routes players between
servers, and a Vue application is the browser client.

The project models the parts in which several actors share state. Each has a module, a
TLC instance and properties aimed at what a test would hardly reach. Most safety properties
of a run are also theorems for every value of the constants; Proofs says which are not.

| module | models | run | proofs |
|---|---|---|---|
| `ProcessManager` | the daemon's `process/manager.rs`, `process/hytale.rs` | `PM_safety`, `PM_live` | `ProcessManager_proofs` |
| `RestartPolicy` | `process/restart.rs` and its use in `manager.rs` | `RP_window` | `ProcessManager_proofs` |
| `ServerLifecycle` | `handlers/servers.go`, `server_service.go`, the daemon they call | `LC_life` | `ServerLifecycle_proofs` |
| `Backups` | `backup_service.go`, `backup_destination_service.go`, the daemon's backup endpoints | `BK_data`, `BK_settles` | `Backups_proofs` |
| `Sessions` | `auth_service.go`, `handlers/auth.go`, `middleware/auth.go` | `SE_refresh` | `Sessions_proofs` |
| `LoginLineage` | what a login promises (abstract) | refined by `Sessions` | |
| `Accounts` | setup wizard, user administration, permissions, invitations | `AC_owners` | `Accounts_proofs` |
| `Nodes` | enrollment, CA and certificates, heartbeats, client pool | `ND_trust` | `Nodes_proofs` |
| `Alerts` | `alert_service.go`, `alerting/` | `AL_fire` | `Nodes_proofs` |
| `CommandQueue` | `node_commands` and the daemon's poller | in the next two | in the next two |
| `Players` (extends `CommandQueue`) | players, sessions, moderation, network bans | `PL_bans` | `Players_proofs` |
| `Content` (extends `CommandQueue`) | worlds, mods, network roles and configuration | `CT_content` | `Content_proofs` |

`MC<module>` extends a module for TLC and gives it its larger constants. `PROJECT.json`
maps every definition to the lines it stands for.

## Inventory

**Process manager (daemon).** State: a registry of processes, a table of status
watchers, a table of pending restarts, the crash history; per process a status channel,
a stop flag, the last exit, an exit watcher, an output reader and a start-up watchdog.
Operations: start, stop, kill, restart, stop-all; a restart timer. Interaction: called
by HTTP handlers and the command poller; the status watchers report to the API. Hard:
every operation awaits between its check and its effect; the tasks race for the final
status; the runtime has several threads, so that two map operations in a row are not one.
Correct when a server that is called stopped has no process, only crashes nobody asked for
are restarted, requests return and a kill gets a server out of the registry. (That no server
has two processes does not hold, see below.)

**Restart policy (daemon).** State: crash times of a server. Operation: `decide` on an
exit. Hard: boundaries of the window and of the limit. Correct when the policy gives up
exactly beyond the limit and waits as long as documented.

**Server lifecycle (panel and daemon).** State: the `servers` row (status, node, exit
code), player sessions, the goroutines that dispatch to the daemon, provisioning tasks
and files on the nodes, reports in flight. Operations: start, stop, restart, kill,
reinstall, delete, migrate, daemon reports, daemon registration (in development). Hard: the status
column is written by requests, goroutines and reports, in any order; calls time out
after they took effect; a daemon dies with its children. Correct when the column comes
to agree with the process, and when no sequence of failures loses binaries or data.

**Backups (panel and daemon).** State: rows with a status and an upload status, a
destination and whether a local archive exists; archives on nodes; copies off site.
Operations: create, schedule, upload, retry, restore, download, delete, retention on the
destination and on the schedule, destination delete. Hard: every operation is a chain of
database writes and daemon calls in a goroutine that a panel restart kills. Correct when
no failure loses a completed backup and rows do not stay half done.

**Sessions (panel).** State: users with password and TOTP columns, session rows by
refresh token, Redis keys (blacklist, rotating, grace), the browser's cookie. Operations:
login, TOTP verification, refresh, logout, password change, session revocation, TOTP
set-up, confirmation and removal. Hard: the tabs of one browser share a cookie and
refresh at the same time; a reload cancels a request between two statements; Redis may
fail. Correct when a login has one usable token, racing refreshes agree, and a closed
login stays closed.

**Accounts (panel).** State: users with role, activity and global permissions, members of
a server, invitations. Operations: setup, registration, creation, role change, disabling,
deletion, permission override, invitation, acceptance, decline, revocation. Hard: checks and writes are separate
statements under PostgreSQL's READ COMMITTED, guarded by row locks in some places.
Correct when an active owner remains, the wizard works once, and nobody is given more
than the inviter has.

**Nodes (panel and daemon).** State: the enrollment token, node rows, the stored CA and
panel certificate, issued certificates, the client pool, the daemon's PKI directory.
Operations: redeem, certificate request, heartbeat, status change, deletion, panel and
daemon restart. Hard: retries of requests that are still served, crashes between three
files, first-use races. Correct when a token makes one node, one CA signs everything and
the panel never demands TLS of a daemon that cannot provide it.

**Alerts (panel).** State: rules, events, evaluations in flight, notices. Operations:
create, toggle and delete a rule, evaluate on a heartbeat, crash or DDoS report and on the
ticker, resolve. Hard: evaluations overlap and their context may be cancelled. Correct when
duplicates are bounded, events stay inside their tenant and outages are reported.

**Command queue (panel and daemon).** Rows of pending commands; the poller fetches, runs
and acknowledges. Hard: at-least-once execution in an order that a lost acknowledgement
disturbs.

**Players (panel, daemon, game).** State: a row, flags and sessions per server, network
bans, the game servers' own lists. Operations: ban, unban, kick, flags, network ban and
unban, join and leave reports, server stop, daemon registration (in development). Hard: the game is changed
through the queue, players join meanwhile. Correct when bans hold, sessions are counted
once and the panel shows what the game has.

**Content (panel and daemon).** State: worlds, the active world, mods, network roles and
the secret; directories, files and configurations on the node. Operations: activate and
delete worlds; install, upload, remove, toggle and switch mods; set a role, distribute;
the daemon's scans. Hard: rows change at once, disks through the queue, and reports
describe what was. Correct when the server can boot, listed mods are loaded and hubs know
their gamemodes.

**Others.** Backup keys, databases, Hytale accounts, settings, the web interface,
deployment scripts. `PROJECT.json` lists each with its status and the reason.

## Plan

Done: the modules above, each with its run, in this order: `ProcessManager`,
`RestartPolicy`, `Backups`, `ServerLifecycle`; `Sessions` with the abstract `LoginLineage`
it implements; `Accounts`; `Nodes`; `Alerts`; `CommandQueue` with `Players` and `Content`;
the proofs of most safety properties. Left, in the order of their value: an
abstract specification of a backup's life that `Backups` implements; `CreateServer`'s choice
of node and port, which two creations can make alike (`server_service.go:224`); key rotation
against archives that name an older key.

## ProcessManager

A step runs from one await to the next. Where another thread can get in between two accesses
to shared state, these are two steps (`Spawn`/`Register`/`SpawnWatcher`,
`BeginStop`/`Announce`, `RestartRemove`/`RestartCleanup`, `WatchReported`/`WatcherLeaves`,
`ReadySeen`/`ReadyPublish`, `WatchdogFires`/`WatchdogPublish`, `ExitObserved`/`ExitPublish`).
A restart that cleans up the relay after another start has registered aborts the watcher of
the new process (`wpc` is then *aborted*). Actors are handlers (`Tasks`) and restart timers,
named by the process whose crash they answer. Time is abstract: a timeout may fire at any
moment. The exit codes are the classes the code tells apart (0; 8 and 11; the rest).
`history` counts crashes; the window is the business of `RestartPolicy`.

SIGKILL is a step of its own (`sig`): the child may live on for a while, and a stop that has
sent it publishes *stopped* three seconds later whether or not the child has gone. That a
signalled child dies is an assumption about the operating system; `Gone` is "dead or
signalled", and the properties say no more than that.

- `PM_safety` (one server, two processes, one handler, timers, start-up timeout):
  `PendingIsJustified` a pending restart follows a crash that nobody had asked for when it
  happened, and the map names every timer that sleeps; `DeathIsTrue` a stopped status and a
  successful stop mean that the child is gone, and a restart request does not spawn before the
  old child is. Two processes suffice for the old and the new one of a restart; the timers run
  concurrently with the handler. The theorems lift the bounds.
- `PM_live` (one server, one process, two handlers with start, stop, kill and stop-all, a
  `wait` that fails, fairness): `EveryActorReturns` a handler or a timer returns, or it hangs
  in the write to the stdin of a child that lives; `KillDeregisters` a kill gets the process
  out of the registry, also one whose end its watcher has missed. One process, because the
  question is what two handlers do to it; restarts are left to `PM_safety`.

Weak fairness is assumed of every task step that can run: the tokio runtime schedules it. The
one exception is the stdin write of a stop (`hytale.rs:608`, a mutex, `write_all` and `flush`
without a deadline): while the child lives and does not read its pipe, the step need not come
(`BlockedAtStdin`). A stop that waits is woken or times out. Requests, ready lines and crashes
are not fair.

## RestartPolicy

`Decide` is `CrashHistory::decide` on a clock that ticks up to `MaxTime`; the limit is
the default, the window is configured, so both branches of `from_wire` are taken.
`GivesUpExactly` (`RP_window`): the delay and the decision to give up are those of a
reference that counts all crashes of the window, where `decide` looks only at what it has
kept. `crashLog` is a history variable that the policy does not read. Sixteen ticks are two
windows: crashes enter, expire at the boundary, and give-ups occur. The theorems are for
every limit, window and clock.

## ServerLifecycle

One server. A goroutine's place is `work[w].at`; every database write and every daemon
call is a step. `reg` is the daemon's view of the process (its detail is
`ProcessManager`), `told` the status last reported, `rep` a report in flight (sent, then
past the ownership check, then applied), `prov` a provisioning task, `jar`/`bak` the
binaries and the set-aside copy, `data` the nodes that hold the server's data. A provisioning
that fails may have placed a part of the binaries. Registration, which resets the servers of
the node, exists in development only (`handlers/nodes.go:121` answers 410 otherwise,
`main.rs:86` skips the call); `mode.dev` says which it is, and a daemon that starts again
outside development resets nothing. A delete removes the files at the daemon before the
service checks the caller, so a refused delete has removed them too. A call that
times out has used up the context that the following write needs (`Fail`). Reads by users,
server settings and the file browser are not modelled, nor are failing database
statements and clients that abort their request.

`LC_life` explores three circumstances (`mode`), each from its own initial states: one
goroutine at a time with lost calls and reports, a daemon death and automatic restarts;
up to five requests, each waiting until all is at rest; and two goroutines at once. The
first is explored with and without development.
`FilesKept`: no reinstall and no migration that fails half way leaves a server without
files; for goroutines that come one after the other (`OneWorker`). `RestAgrees`: at rest the
column says running exactly when a process runs, and a deleted server has left nothing; for
requests that wait, without automatic restarts, losses and deaths (`Orderly`). `DispatchReturns`: every
goroutine ends. Fair are the goroutines, tasks and reports (each has a timeout), a process
getting ready or ending (start-up watchdog, stop timeout) and a daemon being started again
by its service manager. Requests, crashes, joins and losses are not.

## Backups

Backups are numbered in order of creation. `work[w]` is a goroutine with what it has
read; `files` holds archives per node, `remote` the off-site copies, `doomed` the backups
that a delete or a retention step has selected, `cut` those whose goroutine was ended by a
restart or had used up its context (history variables). A daemon call may fail before or after
it took effect. With `Deadlines` a transfer may outlast its context, which then also fails the
write of the failure. `Crash` ends all goroutines; an archive
the daemon is writing may still be finished. Encryption, cron expressions and provider
options are left out.

- `BK_data` (one backup, two goroutines, the scheduler, two nodes, every operation,
  deadlines, one panel restart): `CopiesKept`, a completed backup that nothing has selected
  for deletion is stored somewhere, and an upload recorded as done has its copy.
- `BK_settles` (two backups, one goroutine beside the scheduler, both retention rules,
  deadlines, one panel restart, fairness): `NewestKept`, retention removes a completed row only
  while a newer one stays; `WorkSettles`, a row comes to a result unless its goroutine was
  `cut`, and an upload that a restart finds is settled by it in any case. Two backups with a
  limit of one show every order. Fair are the goroutines, the scheduler and the panel's start:
  every call has a deadline. What becomes of the rows that were cut is below
  (`BackupAlwaysSettles`).

## Sessions and LoginLineage

`Sessions` follows a request statement by statement: `tab[c]` is the request a tab has in
flight, with its place and what it has read. `sess` is the sessions table by token, with the
login (`root`) and the token (`parent`) a row stems from; `blacklist`, `rotating` and `grace`
are the Redis keys, `cookie` is what the tabs share.
A refresh that loses the claim polls for the winner's result; the twenty polls of the code
are `MaxTries`. A reload aborts a request at a statement (`Abort`), Redis may fail, tokens
expire, an administrator disables or deletes the user (`MaxEvents` of these). Two history
variables belong to the password change, whose second statement the code does not check:
`user.cut`, that the revocation has failed, and `sess.asof`, the password in force when a
session was inserted.

`LoginLineage` says what one login promises: its token is *unused*, *open*, *turning* over
or *closed*; one token is usable at a time, a turn opens exactly one successor, and
nothing leaves *closed*. `LineageHolds` is the refinement: `Phase` maps rows, keys and
requests in progress to these four, for every login of a run.

`SE_refresh` (one user, two tabs, three tokens, every request kind): `LineageHolds`;
`RacersAgree`, racing refreshes that are answered get the one successor;
`PasswordEndsSessions`, a session that stems from an older password lives only until the
revocation of the change under way, unless that has failed or the session was inserted after
it, whatever refreshes, logins and reloads fall between; `TotpNeverLocksOut`, an account that
asks for a TOTP code has the secret its user was shown last, for TOTP requests that follow
each other (`Quiet`; below for what happens otherwise); `RequestReturns` under weak fairness of `Serve(c)`: the Go scheduler runs every handler and each statement has a
deadline. Two tabs are a winner and a loser; three tokens are a login, its turn and the
turn of the turn.

## Accounts

`role`, `active` and `global` are the users, `inv` the invitations, `member` the members of the
one server that `ServerOwner` has. A member from before the column of permissions has none
listed and falls back to what the user holds globally: the defaults of the role with the
overrides of an administrator. A handler (`req`) is its checks, its transaction and its row
locks: `FOR UPDATE` reads a snapshot and then locks the rows it found one by one, in any order,
as READ COMMITTED does; a row that has changed is locked all the same. Two changes can so wait
for each other, until PostgreSQL's deadlock detector ends one (`DeadlockAborts`, external). The
wizard takes the table lock and looks again.

`AC_owners` (three accounts, two handlers, three requests, one invitation; from the empty
installation, from one with two owners, and from one with an owner, an administrator and a
user, each with the kinds of request that matter there): `OwnerRemains`, an active owner
remains; `SetupIsFirst`, the wizard makes an owner only where there is no account;
`InvitationEndsOnce`; `GrantCapped`, nobody gets more than the inviter has when the grant is
made; `RequestReturns`, requests end although they wait for each other's locks. `Calm`
restricts the first and the fourth to runs in which nobody is made an owner, and no inviter
loses rights, while another change is under way (below). Fair are `Serve(w)`, because handlers
are scheduled and PostgreSQL grants a lock whose holder has ended, and the detector, which
runs after `deadlock_timeout`; without it `RequestReturns` fails.

## Nodes

`enr` is the enrollment token, `node` the rows, `setting` the stored CA and who signed the
panel's certificate, `mat` and `pool` the panel's TLS material and clients, `dmn` and
`files` the daemon and its PKI directory. A certificate is who signed it and for which
node. Requests are retried while the first one is still served; the panel and the daemon
crash between any two steps.

`ND_trust` (two nodes, two certificate requests, one attempt, three faults, two handlers;
fresh, without a CA, and restored from an old database): `EnrolledOnce`, a token makes one
node; `OneCA`, everything the panel issued and calls with comes from the stored CA;
`NeverLockedOut`, the panel never calls over TLS a daemon that presents a certificate it
refuses or never had one; the exception is a daemon whose own set has become invalid and
whose requests all failed (`main.rs`: "serving legacy plaintext until next restart"),
which a single attempt makes frequent. `TlsReached`, a daemon that has the recorded
certificate comes to be called over TLS. Weakly fair are the daemon and the handlers;
strongly fair is `SendHeartbeat`: the interval keeps ticking, and other requests may
occupy a handler, but not for ever. Three faults are a lost answer, a crash and an old
certificate, in any order; a daemon that starts again asks again.

## Alerts

A rule is one of the shapes the validation admits. An evaluation, by a request or by the
ticker, reads the enabled rules, reads open events, inserts and notifies in separate steps;
a request's context ends with its client. `AL_fire` (an administrator and a tenant, one
server, one node, two requests beside the ticker, three events): `DuplicatesBounded`,
overlapping evaluations insert an alert at most once each, the ticker none twice;
`NoticeHasEvent`, no notice without the row that a later evaluation dedups on;
`TenantScope`, a user who is not staff comes to see only events about servers the user has
access to; `OutageIsReported`, while some node is silent, an enabled rule of an
administrator comes to have a recent open event. Fair are the ticker's steps (`EvaluateNodeOffline`, `NextNode`,
`EvaluateAndFire`); its loop has no exit. One rule and one change make every overlap of
evaluation, toggle and deletion. The theorems lift these bounds.

## CommandQueue, Players, Content

`queue` is the pending rows by `created_at`, `todo` what the poller has fetched, `ran` the
result of the command it has not yet acknowledged. A command whose acknowledgement is lost
runs again after later ones, a restarted poller forgets what it fetched, commands fail, two
rows may have one timestamp; each such disturbance puts its name into `dist`, and a property
that depends on the order names the disturbances it excludes. What a command does is in the two modules that extend this one.
A server that a distribution skips because its own configuration fails is one of them
(*skipped*), and an upload that fails may have been stored all the same. `MaxFaults` bounds the disturbances and `MaxMoves` what players, servers and scans do of
their own accord.

`PL_bans` (one account on two servers, known by two names, ban and operator flags, two
requests of six kinds): `BanIsKept`, who joins under a network ban is out once everything has
settled, whatever else was asked or cut short; `OneOpenSession`; `SessionsAgree`, once reports are through and
if no server has gone down, the dashboard counts who is online (a daemon that restarts closes sessions by its registration
in development only); `FlagsConverge`, when the
queue is empty the game has what the panel shows, for requests that did not overlap. No
fairness: all are invariants.

`CT_content` (three worlds of which one has a name the daemon refuses, two files, two
servers, two requests among nineteen): `BootWorldExists`, the world that `config.json` names is on disk;
`PresentIsLoaded`, a mod listed as present is a file the game loads; `OneSecret`, every
configuration that is queued or written carries the stored secret; `HubKnowsGamemodes`, when
nothing is queued a hub's configuration names the gamemodes there are; `Settles`, the queue
drains and requests end, again and again. Fair are handlers, polls and
reports: the poller's loop and the scan's interval never stop. One disturbance and one
move suffice, because each condition is a set of names.

## Proofs

TLC checks the instances above. The theorems hold for all values of the constants that
meet the named assumptions of the modules (those say of what kind a constant is, that
`None` is none of the names, that actors are distinct; `Nodes` needs one node and finitely
many handlers, `Alerts` finitely many requests, `Players` finitely many servers;
`RestartPolicy` non-zero defaults and delays). Every proof is of one form: an inductive
invariant, its preservation with one step per action, and the properties as consequences.
What the invariants add to the properties:

| proofs | the strengthening and why it is needed | theorems |
|---|---|---|
| `ProcessManager_proofs` | a new process has touched nothing (`FreshIsPristine`); an observed exit is real (`ExitsAreReal`); the registry holds processes of the server (`RegistryMatches`); what an actor remembers across an await is still so (`ActorsKnow`) | `Invariance`, `TypeCorrect`, `PendingJustified`, `StopIsTrue` |
| (`RestartPolicy`) | `PolicyInv`: the history that `decide` keeps is the end of the log of all crashes, in the order of the clock, and what it has dropped is a window old; a running server has no restart pending | `PolicyInductive`, `GivesUpOnCount`, `GivesUpExactlyAlways` |
| `ServerLifecycle_proofs` | goroutines, tasks and reports under way name their nodes (`Addressed`) | `Inductive`, `TypeCorrect` |
| | `FilesSafe`, under `OneWorker`: a migration's archive is not empty and what it unpacked is there when the row is pointed to it; the set-aside copy is dropped only beside the new binaries | `FilesSafeAlways`, `FilesStayKept` |
| `Backups_proofs` | what a goroutine knows of its backup between two calls (`WorkersKnow`): a remover has seen the other copy, an uploader the archive; then `DataSafe` and `DoneSafe` are inductive | `Inductive`, `TypeCorrect`, `CopiesAreKept` |
| | `Retained`, under `CountAlone`: whatever retention has picked is outlived by a newer completed backup | `RetainedAlways`, `NewestIsKept` |
| `Players_proofs` | a request has the server it names; a row is open exactly if the last word still under way, or else the game, says so (`SessionsMatch`, `LastWord`) | `Inductive`, `TypeCorrect`, `SessionOpenOnce`, `SessionsAgreeAlways` |
| | `BanSafe`: who is online under a ban is on the way out: the join is in the log, is being recorded, or its kick is queued; or the ban is still to come | `BanSafeAlways`, `BanStaysKept` |
| | `FlagsSafe`: what the game will hold after the queue is what the panel shows, or the one request under way has its other half to do | `FlagsSafeAlways`, `FlagsAgree` |
| `Content_proofs` | the secret never changes once it is stored, and every job, command and file that carries one carries it (`JobsKept`, `QueueKept`, `ConfKept`) | `Inductive`, `TypeCorrect`, `SecretIsOne` |
| | `ModsSafe`: a present row is of a file that is loaded after the queue, or its command is yet to be enqueued; a report speaks of the disk as it is | `ModsSafeAlways`, `PresentStaysLoaded` |
| `Sessions_proofs` | tokens form a chain of which one end is live (`TokensMatch`, `OneSuccessor`); one request turns a login over (`TurnsMatch`); grace records hold the successor (`PairsMatch`); a live session and a request have their user (`Fit`) | `Inductive`, `TypeCorrect`, `RacersAlwaysAgree`, `PasswordEnds`, `LoginLivesOnce`, `Implements` |
| `Nodes_proofs` | who signs holds the stored CA (`SignsStored`); one transaction at a time is past the token's row lock (`RedeemsAlone`) | `Inductive`, `TypeCorrect`, `OneCAAlways`, `EnrolledOnceAlways` |
| | `Trust`: an advert on its way, a row or a client that demands TLS means that the daemon has a certificate of the stored CA on its disk, also half way through a replacement | `TrustInductive`, `NeverLockedOutAlways` |
| (`Alerts`) | an evaluation is of rules that were made, and only the ticker's are *node_offline* (`RulesMade`); their owners still have access, unless the evaluation is `late` (`Scoped`); whoever has passed the dedup query counts as an event, and a notice that is due as a notice (`Counted`) | `AlertInductive`, `DuplicatesStayBounded`, `NoticesHaveEvents`, `TenantsStayScoped` |
| `Accounts_proofs` | an invitation in a handler's hand is the one in the table (`InvitesMatch`); in a calm run a change has locked, or waits for, all owners, and no two hold the same row (`LocksMatch`, `Knows`, `Apart`) | `Inductive`, `TypeCorrect`, `SetupIsAlwaysFirst`, `InvitationAlwaysEndsOnce`, `OwnerAlwaysRemains` |

`RestartPolicy` and `Alerts` have no proof module of their own: their theorems are the last
sections of the modules of the components that drive them, about an instance (`R`, `A`) of
the module for arbitrary constants and variables; its assumptions are hypotheses of the
theorems. What `CommandQueue`'s `Places` and `Settle` preserve is stated at the head of
`Players_proofs` and `Content_proofs`, for the commands of each.

Some theorems have a condition, each the one under which the code keeps the property; the
counterexamples without it are in the next section. They lift the other bounds of the run.

- `OneWorker` (`FilesStayKept`): goroutines come one after the other, whatever else happens:
  lost calls and reports, daemon deaths, automatic restarts. Any number of nodes, requests and
  exits.
- `GivesUpExactlyAlways` has the hypothesis that the limit is at most 17 (the default is 3).
  Up to there the shift in `backoff` is not yet saturated. Beyond, the documented doubling and
  the code agree because 2^16 times the base is above the cap, for which the prover would need
  that powers of two grow; `GivesUpOnCount`, about `backoff` itself, has no such hypothesis.
- `CountAlone` (`NewestIsKept`): nobody deletes by hand and
  no rule deletes by age; any number of goroutines. Two rules by count run at the same time
  and may each pick what the other relies on. The witness that outlives a backup may itself be
  deleted, but then something has picked it, and by the same invariant a newer one outlives it.
- `Calm` inside `OwnerRemains` (`OwnerAlwaysRemains`): nobody is made an owner while another
  account is being changed.
- The properties of `Players` and `Content` name in `dist` what they exclude; their theorems
  have no further condition. Both speak of a queue of any length: the invariants say what a
  disk or a game *will* hold once the queue has been run (`OnAfter`, `HeldAfter`), the last command about a thing deciding, and a step at the head of the queue
  or at its end leaves that as it was.

`Implements` is the refinement theorem: initial states of `Sessions` map to those of
`LoginLineage`, and each step to a step or a stutter.

Only model-checked: the liveness properties, for which the prover has no rule of fairness
(`EveryActorReturns`, `KillDeregisters`, `DispatchReturns`, `WorkSettles`, the `RequestReturns` of `Sessions` and
of `Accounts`, `TlsReached`, `OutageIsReported`, `Settles`), and those
safety properties whose condition leaves so little of the concurrency that a proof for all
constants would add nothing to the run: `RestAgrees`, `TotpNeverLocksOut`, `BootWorldExists`,
`HubKnowsGamemodes` and `GrantCapped`.

## Claims that do not hold

While modelling, statements were met that the code, read as written, does not keep. Their
definitions are kept in the modules, outside the runs, where the weaker property that does
hold stands in the configuration. To see a counterexample, put the name in the place of the
properties of the configuration, under `INVARIANTS` or (P) under `PROPERTIES`, with the
change in the last column.

| claim | what happens | configuration |
|---|---|---|
| `OneProcessPerServer` | the check and the insert of a start are separated by awaits; a start and a restart timer both pass (`manager.rs:89`) | `PM_safety` |
| `RegistryIsWatched` | a restart removes the entry and then the watcher handle; a start between the two loses its own watcher (`manager.rs:181`) | `PM_safety` |
| `NoneNextToUnobserved` | the start-up watchdog gives up on a child that lives; the next start runs beside it | `PM_safety` |
| `StopNeverRestarts` | a stop arrives after the watcher classed the exit as a crash (`manager.rs:620`) | `PM_safety` |
| `RunningHasNoExit` | the ready line, read before the exit, is published after it (`hytale.rs:438`) | `PM_safety` |
| `KillHitsOwnChild` (P) | the stored pid outlives the child (`hytale.rs:648`) | `PM_safety` |
| `CapRespected` | the cap counts registered processes, not starts under way (`manager.rs:94`) | `PM_live`, `Servers = {s1, s2}`, `Procs = {p1, p2}`, `Requests = {"start"}` |
| `EndedIsDeregistered` (P) | a process ends before its watcher subscribes (`manager.rs:775`) | `PM_live` |
| `StopReturns` (P) | the stdin write of a stop has no deadline (`hytale.rs:608`) | `PM_live` |
| `GivesUpAtLimit` | `UPGRADING.md:60` "it gives up after 3 crashes in 10 minutes"; the fourth crash is the first that is not restarted | `RP_window` |
| `OneStartAtATime` | the status is read and written by separate statements (`servers.go:310`) | `LC_life` |
| `StartAfterProvision` | a kill request writes *stopped* before the daemon acts, which ends the wait | `LC_life` |
| `MigrateNeedsStopped` | a kill request writes *stopped* before the daemon acts, or a start comes after the check | `LC_life` |
| `ReinstallNeedsDown` | a pending restart fires during the download (`manager.rs:228`) | `LC_life` |
| `RefusedDeleteKeepsFiles` | `server_service.go:566` "Callers must hold at least admin role or be the server owner"; the handler has removed the data before that is checked (line 578) | `LC_life` |
| `NobodyOnlineWhenDown` | a join event arrives after the report that closed the sessions | `LC_life` |
| `StartSettles` (P) | a migration moves the row while a start is under way; the old node's reports are refused | `LC_life` |
| `FilesKept` with reinstalls that overlap | two reinstalls share one set-aside name (`manager.rs:919`) | the condition of one worker removed from the definition |
| `BackupAlwaysSettles` (P) | `backup_service.go:237`: the worker settles every row; a panel restart does not, the reset at 719 looks at completed and failed rows | `BK_settles` |
| `NoOrphanCopy` | a delete decides from a row that does not say *done* yet (`backup_service.go:467`) | `BK_data` |
| `FailedIsRetryable` | two retries: the first drops the archive, the second fails; the row is failed and `RetryUpload` refuses it | `BK_data` |
| `RemoteOnlyKeepsDestination` | a destination is deleted after the count of backups that are only there | `BK_data` |
| `UploadedIsRestorable` | after a migration, or a restart between two steps, `local_present` is wrong and restore asks the node | `BK_data` |
| `RowsPointSomewhere` | retention at the destination uses the `local_present` it listed earlier (`backup_service.go:395`) | `BK_data`, `MaxBackups = 2`, `RemoteRetention = 1`, `Requests = {"create"}`, `MaxCrashes = 0` |
| `LoserGetsResult` | "the other gets that one's result"; the claim and the key are two steps, and who comes between them signs in again | `SE_refresh` |
| `OldTokenNeverOutlives` | a login or refresh that checked the old password inserts its session after the revocation, or the revocation fails unnoticed (`auth_service.go:531`) | `SE_refresh` |
| `TotpNeverLocksOut` | a confirmation that has checked its code finishes after a disable | `SE_refresh`, `Quiet = {}` |
| `GrantCapped` (P) | the inviter is demoted between the accept's look and its insert | `AC_owners`, `Calm = FALSE` |
| `OwnerRemains` (P) without `Calm` | "concurrent demotions cannot both pass the last-owner check" (`auth_service.go:576`); the set to be locked is older than a promotion, so two demotions lock different owners and each counts the other. Takes four accounts, two of them owners, eight role changes and three handlers, more than TLC searches without being given the order of the requests | the condition removed from the definition |
| `HeldIsRecorded` | a certificate request that was given up records its serial after the retry | `ND_trust` |
| `TlsIsAnswered` | a daemon whose certificate aged, and that got no new one at its start, serves plain HTTP; `mtls_enabled` stays set | `ND_trust` |
| `PoolIsKnown` | a heartbeat in flight puts a deleted node's client back | `ND_trust` |
| `DrainingStays` (P) | a heartbeat sets a draining node online | `ND_trust` |
| `EveryOutageReported` (P) | the dedup query matches the rule, not the node, so one node's event stands for all | `AL_fire`, `Nodes = {"n1", "n2"}` |
| `OneOpenEvent` | the dedup query and the insert are separate statements | `AL_fire` |
| `PostsSurvive` | notices are sent in the request's context and end with it | `AL_fire` |
| `LoadIsRecorded` (P) | the event of a load rule stores the node as a server, which the foreign key refuses | `AL_fire` |
| `OpenMeansOnline` | a join event is committed after the stop that closed the sessions | `PL_bans` |
| `BanAlwaysKept` | a join that was checked before the ban, and a ban request cut short before its kicks | `PL_bans` |
| `BanReachesGame` | "the queue is retried by the daemon's poll loop"; a command that fails is settled as well | `PL_bans` |
| `LastCommandWins` | a command whose acknowledgement was lost runs again after its opposite | `PL_bans` |
| `ActiveNeverDeleted`, `…OnFailure`, `…OnReport` | the active world is deleted on disk by overlapping requests, after a failed activation, after a report that crossed a change | `CT_content` |
| `DeletedStaysDeleted` | a scan from before the deletion inserts the row again | `CT_content` |
| `SwitchKeepsMod` | removal and installation carry one timestamp and may run the other way round | `CT_content` |
| `UploadStays` | an upload overtakes a removal that is still queued | `CT_content` |
| `RemovedIsGone`, `DisabledIsOff` | the removal of a plugin names the directory of mods and fails; with one file name in both directories only one file is disabled | `CT_content` |
| `LastRoleWins` | two distributions interleave and the older list is written last | `CT_content` |
| `LeavesNetwork` | a server whose role becomes *none* gets no configuration and keeps its old one | `CT_content` |

`DistributeConfig`'s comment (`network_routing_service.go:243`) says "here the error IS
surfaced"; `DistributeAll`, through which role changes call it, logs it and goes on
(line 302), which is why `HubKnowsGamemodes` excludes distributions that skip a server or are
cut short.

## Not modelled

`PROJECT.json` gives every part its status. Left out altogether: backup encryption keys
(whether an archive decrypts is not a question of states), databases and Hytale accounts
(one statement per request, the effect is at an external service), the game-command table
and CurseForge, HTTP and daemon plumbing, the web interface, deployment, and the Java mod,
which reads the configuration that `Content` distributes and checks signed tickets.

In the modelled parts: formatting, encoding, hashing and signing; resource limits and
sampling; the rclone command line, the downloader and its login; cron expressions; playtime
and metrics; `CreateServer`'s choice of node and port, server settings and the file browser.
A database statement fails only where the text says so (an expired
or aborted context); PostgreSQL is otherwise taken to be up.
