------------------------------ MODULE Backups ------------------------------
(***************************************************************************)
(* Backups of one server: services/api/internal/services/backup_service.go *)
(* (create, upload, retry, delete, retention, scheduler), the destination  *)
(* delete of backup_destination_service.go, and what the daemon's backup   *)
(* routes (services/daemon/src/http_server.rs) do to the archives.         *)
(*                                                                         *)
(* Every goroutine of the API is a worker.  A step is one statement sent   *)
(* to PostgreSQL or one call to the daemon with the Go code around it;     *)
(* between two steps any other worker may run.  A call to the daemon may   *)
(* fail with or without its effect (timeout, lost answer).  The database   *)
(* itself does not fail.  Backup ids are numbered in the order of their    *)
(* created_at.                                                             *)
(***************************************************************************)
EXTENDS Naturals, FiniteSets

CONSTANTS
    MaxBackups,        \* bound: backups created in a run
    Destinations,      \* backup_destinations ids
    Nodes,             \* nodes the server can be on
    Workers,           \* API goroutines that run at the same time
    Scheduler,         \* the goroutine of StartScheduler
    None,              \* NULL
    Requests,          \* operations that are asked for
    KeepLocal,         \* destination setting keep_local
    RemoteRetention,   \* destination setting retention_count (0: unset)
    RetentionCount,    \* schedule setting retention_count (0: unset)
    RetentionDays,     \* schedule setting retention_days is set
    Deadlines,         \* a transfer may outlast its context (30 minutes, 6 hours)
    MaxCrashes         \* bound: restarts of the panel

ASSUME NumberAssumption ==
    /\ MaxBackups \in Nat /\ MaxCrashes \in Nat
    /\ RemoteRetention \in Nat /\ RetentionCount \in Nat
ASSUME SettingAssumption ==
    KeepLocal \in BOOLEAN /\ RetentionDays \in BOOLEAN /\ Deadlines \in BOOLEAN
ASSUME NameAssumption ==
    None \notin Destinations /\ Scheduler \notin Workers /\ Nodes # {}
ASSUME RequestAssumption ==
    Requests \subseteq {"create", "schedule", "retry", "delete", "delete_dest", "migrate"}

VARIABLES
    \* table backups: the rows that exist and their columns
    rows, nextId, status, upload, dest, local,
    dests,     \* table backup_destinations
    node,      \* servers.node_id
    files,     \* archives on the nodes
    remote,    \* off-site copies
    work,      \* what each goroutine is doing, see Worker
    booted,    \* StartScheduler has reset the interrupted uploads
    crashes,
    cut,       \* history: a restart or a used-up context has ended the goroutine of the backup
    doomed     \* history: a delete or a retention run has picked the backup

rowVars == <<rows, nextId, status, upload, dest, local>>
storeVars == <<files, remote>>
panelVars == <<dests, node, booted, crashes, cut>>
vars == <<rowVars, storeVars, panelVars, work, doomed>>

Backups == 1..MaxBackups
Actors == Workers \cup {Scheduler}

Statuses == {"pending", "running", "completed", "failed"}
UploadStatuses == {"null", "pending", "uploading", "done", "failed"}
Points == {"idle", "run", "archiving", "archived", "archiveFailed", "upload",
           "uploading", "uploaded", "uploadFailed", "dropLocal", "dropped",
           "prune", "pruneNext", "pruned", "retry", "delRemote", "delLocal",
           "delRow", "delDest", "select", "next"}

\* Where a goroutine works on its backup.
OnBackup == {"run", "archiving", "archived", "archiveFailed", "upload", "uploading",
             "uploaded", "uploadFailed", "dropLocal", "dropped", "retry",
             "delRemote", "delLocal", "delRow"}

\* A goroutine: where it is, its backup, the destination, node and
\* local_present it has read, the ids it has listed and those listed as local.
Worker == [at : Points, b : Nat, d : Destinations \cup {None}, n : Nodes \cup {None},
           loc : BOOLEAN, todo : SUBSET Backups, kept : SUBSET Backups]

Idle == [at |-> "idle", b |-> 0, d |-> None, n |-> None, loc |-> FALSE, todo |-> {}, kept |-> {}]

Init ==
    /\ rows = {} /\ nextId = 1
    /\ status = [b \in Backups |-> "pending"]
    /\ upload = [b \in Backups |-> "null"]
    /\ dest = [b \in Backups |-> None]
    /\ local = [b \in Backups |-> TRUE]
    /\ dests = Destinations
    /\ node \in Nodes
    /\ files = {} /\ remote = {}
    /\ work = [w \in Actors |-> Idle]
    /\ booted = FALSE /\ crashes = 0 /\ cut = {}
    /\ doomed = {}

\* A goroutine that begins at k with backup b and destination d; the server's
\* node is read on the way.
Started(k, b, d) ==
    [at |-> k, b |-> b, d |-> d, n |-> node, loc |-> FALSE, todo |-> {}, kept |-> {}]

\* UPDATE backups SET column = v WHERE id = b: nothing without the row.
Set(column, b, v) == IF b \in rows THEN [column EXCEPT ![b] = v] ELSE column

\* Worker w goes on at k with what it knows; at "idle" the goroutine is over.
At(w, k) == IF k = "idle" THEN Idle ELSE [work[w] EXCEPT !.at = k]
Go(w, k) == work' = [work EXCEPT ![w] = At(w, k)]

\* Mutant: the rows are ordered the wrong way round.
BeyondOldest(S, keep) == {b \in S : Cardinality({c \in S : c < b}) >= keep}

\* The rows of S after ORDER BY created_at DESC OFFSET keep.
BeyondNewest(S, keep) == {b \in S : Cardinality({c \in S : c > b}) >= keep}

-----------------------------------------------------------------------------
(* createBackup and runBackup *)

\* INSERT of a backup row (the foreign key makes a vanished destination fail)
\* and the goroutine that archives it, with the node read before.
Insert(w, d) ==
    /\ work[w].at = "idle"
    /\ nextId \in Backups
    /\ d \in dests \cup {None}
    /\ rows' = rows \cup {nextId}
    /\ nextId' = nextId + 1
    /\ status' = [status EXCEPT ![nextId] = "pending"]
    /\ upload' = [upload EXCEPT ![nextId] = IF d = None THEN "null" ELSE "pending"]
    /\ dest' = [dest EXCEPT ![nextId] = d]
    /\ local' = [local EXCEPT ![nextId] = TRUE]
    /\ UNCHANGED <<storeVars, panelVars, doomed>>

CreateBackup(w, d) ==
    /\ Insert(w, d)
    /\ work' = [work EXCEPT ![w] = Started("run", nextId, d)]

\* A schedule is due: createBackup, then the scheduler goes on to the pruning.
RunSchedule(w, d) ==
    /\ work[Scheduler].at = "idle"
    /\ Insert(w, d)
    /\ work' = [work EXCEPT ![w] = Started("run", nextId, d), ![Scheduler] = Started("select", 0, None)]

\* failBackup
FailRow(b) ==
    /\ status' = Set(status, b, "failed")
    /\ upload' = Set(upload, b, IF upload[b] = "null" THEN "null" ELSE "failed")
    /\ UNCHANGED <<rows, nextId, dest, local>>

\* runBackup: no client for the node, or the row is marked running.
StartArchive(w) ==
    /\ work[w].at = "run"
    /\ \/ FailRow(work[w].b) /\ Go(w, "idle")
       \/ /\ status' = Set(status, work[w].b, "running")
          /\ Go(w, "archiving")
          /\ UNCHANGED <<rows, nextId, upload, dest, local>>
    /\ UNCHANGED <<storeVars, panelVars, doomed>>

\* A transfer of w has failed: at k the failure is written, unless the transfer
\* has used up the context that the write needs too (the row is left as it is).
TransferFails(w, k) ==
    \/ Go(w, k) /\ cut' = cut
    \/ Deadlines /\ Go(w, "idle") /\ cut' = cut \cup {work[w].b}

\* The daemon's create_backup writes the archive, or the call fails (and the
\* archive may have been written all the same).
ArchiveCall(w) ==
    /\ work[w].at = "archiving"
    /\ \/ /\ files' = files \cup {<<work[w].n, work[w].b>>}
          /\ \/ Go(w, "archived") /\ cut' = cut
             \/ TransferFails(w, "archiveFailed")
       \/ files' = files /\ TransferFails(w, "archiveFailed")
    /\ UNCHANGED <<rowVars, remote, dests, node, booted, crashes, doomed>>

RecordArchive(w) ==
    /\ work[w].at = "archived"
    /\ status' = Set(status, work[w].b, "completed")
    /\ Go(w, IF work[w].d = None THEN "idle" ELSE "upload")
    /\ UNCHANGED <<rows, nextId, upload, dest, local, storeVars, panelVars, doomed>>

FailBackup(w) ==
    /\ work[w].at = "archiveFailed"
    /\ FailRow(work[w].b)
    /\ Go(w, "idle")
    /\ UNCHANGED <<storeVars, panelVars, doomed>>

-----------------------------------------------------------------------------
(* uploadBackup and pruneRemote *)

SetUpload(w, v) ==
    /\ upload' = Set(upload, work[w].b, v)
    /\ UNCHANGED <<rows, nextId, status, dest, local, storeVars, panelVars, doomed>>

\* The destination exists and the node's client too: the row says uploading.
BeginUpload(w) ==
    /\ work[w].at = "upload"
    /\ work[w].d \in dests
    /\ SetUpload(w, "uploading")
    /\ Go(w, "uploading")

\* The destination is gone, or there is no client for the node.
RefuseUpload(w) ==
    /\ work[w].at = "upload"
    /\ SetUpload(w, "failed")
    /\ Go(w, "idle")

\* The daemon's upload_backup: it needs the archive on its node; the copy may
\* arrive although the call fails.
UploadCall(w) ==
    /\ work[w].at = "uploading"
    /\ \/ /\ <<work[w].n, work[w].b>> \in files
          /\ remote' = remote \cup {work[w].b}
          /\ \/ Go(w, "uploaded") /\ cut' = cut
             \/ TransferFails(w, "uploadFailed")
       \/ remote' = remote /\ TransferFails(w, "uploadFailed")
    /\ UNCHANGED <<rowVars, files, dests, node, booted, crashes, doomed>>

\* Mutant: a failed upload does not return before keep_local is applied.
FailUploadGoesOn(w) ==
    /\ work[w].at = "uploadFailed"
    /\ SetUpload(w, "failed")
    /\ Go(w, IF KeepLocal THEN "idle" ELSE "dropLocal")

FailUpload(w) ==
    /\ work[w].at = "uploadFailed"
    /\ SetUpload(w, "failed")
    /\ Go(w, "idle")

\* What follows once keep_local has been applied.
AfterUpload == IF RemoteRetention > 0 THEN "prune" ELSE "idle"

RecordUpload(w) ==
    /\ work[w].at = "uploaded"
    /\ SetUpload(w, "done")
    /\ Go(w, IF KeepLocal THEN AfterUpload ELSE "dropLocal")

\* DeleteBackupArchive of an uploaded backup; a failure (of which the archive
\* may be gone all the same) is only logged.
DropLocal(w) ==
    /\ work[w].at = "dropLocal"
    /\ \/ /\ files' = files \ {<<work[w].n, work[w].b>>}
          /\ \E k \in {"dropped", AfterUpload} : Go(w, k)
       \/ files' = files /\ Go(w, AfterUpload)
    /\ UNCHANGED <<rowVars, remote, panelVars, doomed>>

RecordDrop(w) ==
    /\ work[w].at = "dropped"
    /\ local' = Set(local, work[w].b, FALSE)
    /\ Go(w, AfterUpload)
    /\ UNCHANGED <<rows, nextId, status, upload, dest, storeVars, panelVars, doomed>>

\* pruneRemote lists the uploaded backups beyond the newest ones, with the
\* local_present each has now.
PruneSelect(w) ==
    LET S == {b \in rows : dest[b] = work[w].d /\ upload[b] = "done"}
        old == BeyondNewest(S, RemoteRetention)
    IN
    /\ work[w].at = "prune"
    /\ work' = [work EXCEPT ![w].at = "pruneNext", ![w].todo = old,
                            ![w].kept = {b \in old : local[b]}]
    /\ doomed' = doomed \cup old
    /\ UNCHANGED <<rowVars, storeVars, panelVars>>

\* The next listed backup, newest first: its off-site copy is deleted, or the
\* call fails and the loop goes on.
PruneCall(w, b) ==
    /\ work[w].at = "pruneNext"
    /\ b \in work[w].todo /\ \A c \in work[w].todo : c <= b
    /\ \/ /\ remote' = remote \ {b}
          /\ work' = [work EXCEPT ![w].at = "pruned", ![w].b = b, ![w].todo = @ \ {b}]
       \/ /\ remote' \in {remote, remote \ {b}}
          /\ work' = [work EXCEPT ![w].todo = @ \ {b}]
    /\ UNCHANGED <<rowVars, files, panelVars, doomed>>

\* A backup listed as local keeps its row without an off-site copy, any other
\* row is deleted.
PruneRecord(w) ==
    /\ work[w].at = "pruned"
    /\ IF work[w].b \in work[w].kept
       THEN upload' = Set(upload, work[w].b, "null") /\ rows' = rows
       ELSE rows' = rows \ {work[w].b} /\ upload' = upload
    /\ Go(w, "pruneNext")
    /\ UNCHANGED <<nextId, status, dest, local, storeVars, panelVars, doomed>>

PruneDone(w) ==
    /\ work[w].at = "pruneNext"
    /\ work[w].todo = {}
    /\ Go(w, "idle")
    /\ UNCHANGED <<rowVars, storeVars, panelVars, doomed>>

-----------------------------------------------------------------------------
(* RetryUpload *)

\* The row is read and checked.
RetryCheck(w, b) ==
    /\ work[w].at = "idle"
    /\ b \in rows
    /\ status[b] = "completed" /\ dest[b] # None
    /\ upload[b] \notin {"done", "uploading"}
    /\ local[b]
    /\ work' = [work EXCEPT ![w] = Started("retry", b, dest[b])]
    /\ UNCHANGED <<rowVars, storeVars, panelVars, doomed>>

\* The row is marked pending and uploadBackup starts.
RetryGo(w) ==
    /\ work[w].at = "retry"
    /\ SetUpload(w, "pending")
    /\ Go(w, "upload")

-----------------------------------------------------------------------------
(* DeleteBackup, by a request or by the scheduler's retention *)

\* Where DeleteBackup returns to.
DeleteReturns(w) == IF w = Scheduler THEN "next" ELSE "idle"

\* The row is read; an off-site copy is deleted only if the row says done.
\* Without a client it gives up on an off-site copy and skips the archive.
DeleteBegin(w, b, known) ==
    LET offsite == dest[b] # None /\ upload[b] = "done"
        go(k) == work' = [work EXCEPT ![w] =
            IF k = "idle" THEN Idle
            ELSE [known EXCEPT !.at = k, !.b = b, !.n = node, !.loc = local[b]]]
    IN
    /\ b \in rows
    /\ doomed' = doomed \cup {b}
    /\ \/ go(IF offsite THEN "delRemote" ELSE IF local[b] THEN "delLocal" ELSE "delRow")
       \/ go(IF offsite THEN DeleteReturns(w) ELSE "delRow")
    /\ UNCHANGED <<rowVars, storeVars, panelVars>>

DeleteBackup(w, b) ==
    /\ work[w].at = "idle"
    /\ DeleteBegin(w, b, Idle)

\* DeleteRemoteBackup: on failure the row stays.
DeleteRemote(w) ==
    /\ work[w].at = "delRemote"
    /\ \/ /\ remote' = remote \ {work[w].b}
          /\ Go(w, IF work[w].loc THEN "delLocal" ELSE "delRow")
       \/ /\ remote' \in {remote, remote \ {work[w].b}}
          /\ Go(w, DeleteReturns(w))
    /\ UNCHANGED <<rowVars, files, panelVars, doomed>>

\* DeleteBackupArchive: a failure is only logged.
DeleteLocal(w) ==
    /\ work[w].at = "delLocal"
    /\ files' \in {files, files \ {<<work[w].n, work[w].b>>}}
    /\ Go(w, "delRow")
    /\ UNCHANGED <<rowVars, remote, panelVars, doomed>>

DeleteRow(w) ==
    /\ work[w].at = "delRow"
    /\ rows' = rows \ {work[w].b}
    /\ Go(w, DeleteReturns(w))
    /\ UNCHANGED <<nextId, status, upload, dest, local, storeVars, panelVars, doomed>>

-----------------------------------------------------------------------------
(* The scheduler's retention (pruneBackups) *)

\* A goroutine still archives b, so b is younger than any retention_days (an
\* upload may be a retry, days later).
Archiving(b) ==
    \E w \in Workers :
        work[w].b = b /\ work[w].at \in {"run", "archiving", "archived", "archiveFailed"}

\* Rows older than retention_days (every row up to some id), and the completed
\* rows beyond the newest retention_count.
ScheduleSelect(w) ==
    /\ w = Scheduler /\ work[w].at = "select"
    /\ \E k \in IF RetentionDays THEN 0..MaxBackups ELSE {0} :
          /\ \A b \in rows : b <= k => ~Archiving(b)
          /\ work' = [work EXCEPT ![w].at = "next", ![w].todo =
                {b \in rows : b <= k} \cup
                (IF RetentionCount > 0
                 THEN BeyondNewest({b \in rows : status[b] = "completed"}, RetentionCount)
                 ELSE {})]
    /\ UNCHANGED <<rowVars, storeVars, panelVars, doomed>>

\* The next id; a row that is gone by now is skipped.
ScheduleDelete(w, b) ==
    LET rest == [work[w] EXCEPT !.todo = @ \ {b}] IN
    /\ work[w].at = "next"
    /\ b \in work[w].todo
    /\ \/ DeleteBegin(w, b, rest)
       \/ /\ b \notin rows
          /\ work' = [work EXCEPT ![w] = rest]
          /\ UNCHANGED <<rowVars, storeVars, panelVars, doomed>>

ScheduleDone(w) ==
    /\ work[w].at = "next"
    /\ work[w].todo = {}
    /\ Go(w, "idle")
    /\ UNCHANGED <<rowVars, storeVars, panelVars, doomed>>

-----------------------------------------------------------------------------
(* Destinations, migration, panel restart *)

\* Delete of a destination: the count of backups that exist only there ...
DestinationCheck(w, d) ==
    /\ work[w].at = "idle"
    /\ d \in dests
    /\ \A b \in rows : ~(dest[b] = d /\ ~local[b] /\ upload[b] = "done")
    /\ work' = [work EXCEPT ![w] = Started("delDest", 0, d)]
    /\ UNCHANGED <<rowVars, storeVars, panelVars, doomed>>

\* ... and then the DELETE (ON DELETE SET NULL).
DestinationDelete(w) ==
    /\ work[w].at = "delDest"
    /\ dests' = dests \ {work[w].d}
    /\ dest' = [b \in Backups |-> IF dest[b] = work[w].d THEN None ELSE dest[b]]
    /\ Go(w, "idle")
    /\ UNCHANGED <<rows, nextId, status, upload, local, storeVars, node, booted, crashes>>
    /\ UNCHANGED <<cut, doomed>>

\* CompleteMigration: the server is on another node, its archives are not.
Migrate(n) ==
    /\ node' = n /\ n # node
    /\ UNCHANGED <<rowVars, storeVars, work, dests, booted, crashes, cut, doomed>>

\* The panel stops: every goroutine is gone.  An archive the daemon is writing
\* may still be finished (spawn_blocking), an upload is not (kill_on_drop).
Crash ==
    /\ crashes < MaxCrashes
    /\ crashes' = crashes + 1
    /\ booted' = FALSE
    /\ work' = [w \in Actors |-> Idle]
    /\ cut' = cut \cup {work[w].b : w \in {v \in Workers : work[v].at \in OnBackup}}
    /\ \E W \in SUBSET {w \in Actors : work[w].at = "archiving"} :
          files' = files \cup {<<work[w].n, work[w].b>> : w \in W}
    /\ UNCHANGED <<rowVars, remote, dests, node, doomed>>

\* Mutant: only uploads that wait for their turn are reset.
ResetPending ==
    /\ ~booted
    /\ booted' = TRUE
    /\ upload' = [b \in Backups |->
          IF b \in rows /\ upload[b] = "pending" /\ status[b] \in {"completed", "failed"}
          THEN "failed" ELSE upload[b]]
    /\ UNCHANGED <<rows, nextId, status, dest, local, storeVars, work>>
    /\ UNCHANGED <<dests, node, crashes, cut, doomed>>

\* StartScheduler, in a goroutine of its own while requests are already served.
ResetUploads ==
    /\ ~booted
    /\ booted' = TRUE
    /\ upload' = [b \in Backups |->
          IF b \in rows /\ upload[b] \in {"pending", "uploading"}
             /\ status[b] \in {"completed", "failed"}
          THEN "failed" ELSE upload[b]]
    /\ UNCHANGED <<rows, nextId, status, dest, local, storeVars, work>>
    /\ UNCHANGED <<dests, node, crashes, cut, doomed>>

-----------------------------------------------------------------------------
ArchiveStep(w) == StartArchive(w) \/ ArchiveCall(w) \/ RecordArchive(w) \/ FailBackup(w)

UploadStep(w) ==
    \/ BeginUpload(w) \/ RefuseUpload(w) \/ UploadCall(w) \/ FailUpload(w)
    \/ RecordUpload(w) \/ DropLocal(w) \/ RecordDrop(w)
    \/ PruneSelect(w) \/ (\E b \in Backups : PruneCall(w, b)) \/ PruneRecord(w) \/ PruneDone(w)
    \/ RetryGo(w)

DeleteStep(w) == DeleteRemote(w) \/ DeleteLocal(w) \/ DeleteRow(w)

ScheduleStep(w) ==
    \/ ScheduleSelect(w) \/ (\E b \in Backups : ScheduleDelete(w, b)) \/ ScheduleDone(w)

WorkerStep(w) == ArchiveStep(w) \/ UploadStep(w) \/ DeleteStep(w) \/ DestinationDelete(w)

Request(w) ==
    \/ "create" \in Requests /\ \E d \in dests \cup {None} : CreateBackup(w, d)
    \/ "schedule" \in Requests /\ \E d \in dests \cup {None} : RunSchedule(w, d)
    \/ "retry" \in Requests /\ \E b \in Backups : RetryCheck(w, b)
    \/ "delete" \in Requests /\ \E b \in Backups : DeleteBackup(w, b)
    \/ "delete_dest" \in Requests /\ \E d \in dests : DestinationCheck(w, d)

Next ==
    \/ \E w \in Workers : Request(w) \/ WorkerStep(w)
    \/ ScheduleStep(Scheduler) \/ DeleteStep(Scheduler)
    \/ "migrate" \in Requests /\ \E n \in Nodes : Migrate(n)
    \/ Crash \/ ResetUploads

Spec == Init /\ [][Next]_vars

\* A goroutine that can go on does (every daemon call has a timeout), and a
\* started panel gets to the reset.  Requests and crashes are not fair.
Fairness ==
    /\ \A w \in Workers : WF_vars(WorkerStep(w))
    /\ WF_vars(ScheduleStep(Scheduler) \/ DeleteStep(Scheduler))
    /\ WF_vars(ResetUploads)

FairSpec == Spec /\ Fairness

-----------------------------------------------------------------------------
(* Properties *)

\* RestoreBackup and DownloadBackup find the archive: the daemon looks on the
\* server's node, and off-site only when the request carries a remote, which
\* remoteSourceFor adds only for a row that is not local_present.
RestoreSucceeds(b) ==
    \/ <<node, b>> \in files
    \/ ~local[b] /\ dest[b] # None /\ upload[b] = "done" /\ b \in remote

\* Nothing is under way.
Quiet == booted /\ \A w \in Actors : work[w].at = "idle"

TypeOK ==
    /\ rows \subseteq Backups /\ nextId \in 1..(MaxBackups + 1)
    /\ \A b \in rows : b < nextId
    /\ status \in [Backups -> Statuses]
    /\ upload \in [Backups -> UploadStatuses]
    /\ dest \in [Backups -> Destinations \cup {None}]
    /\ local \in [Backups -> BOOLEAN]
    /\ dests \subseteq Destinations
    /\ node \in Nodes
    /\ files \subseteq Nodes \X Backups
    /\ remote \subseteq Backups
    /\ work \in [Actors -> Worker]
    /\ booted \in BOOLEAN
    /\ crashes \in 0..MaxCrashes
    /\ cut \subseteq Nat
    /\ doomed \subseteq Backups

\* Some copy of b exists, on a node or off-site.
Stored(b) == b \in remote \/ \E n \in Nodes : <<n, b>> \in files

\* The data of a completed backup exists somewhere until a delete or a
\* retention run picks it: no failed, repeated or interrupted upload, no
\* keep_local = false, no migration and no restart of the panel loses it
\* (uploadBackup: "A failed upload never touches the local archive").
DataKept ==
    \A b \in rows : status[b] = "completed" /\ b \notin doomed => Stored(b)

\* A row that says uploaded has its off-site copy, until a delete or a
\* retention run picks it (the UPDATE to done comes after the call).
DoneIsRemote ==
    \A b \in rows : upload[b] = "done" /\ b \notin doomed => b \in remote

\* Both: the copies a row stands for exist.
CopiesKept == DataKept /\ DoneIsRemote

\* A failed upload of a completed backup can be retried: RetryUpload needs the
\* local archive.
FailedIsRetryable ==
    \A b \in rows : status[b] = "completed" /\ dest[b] # None /\ upload[b] = "failed"
                       => local[b]

\* A backup that exists only on a destination keeps that destination.
RemoteOnlyKeepsDestination ==
    \A b \in rows : upload[b] = "done" /\ ~local[b] => dest[b] # None

\* Retention on its own (schedule count and destination count together) never
\* removes the newest completed backup: a completed row goes only while a newer
\* completed row stays (pruneBackups, pruneRemote).
NewestKept ==
    [][\A b \in rows \ rows' : status[b] = "completed" =>
          \E c \in rows' : c > b /\ status'[c] = "completed"]_vars

\* The upload of a completed backup waits or runs.
Uploading(b) == b \in rows /\ status[b] = "completed" /\ upload[b] \in {"pending", "uploading"}

\* The goroutine of b has not come to a result.
Unsettled(b) == b \in rows /\ status[b] \in {"pending", "running"}

\* Whatever call fails on the way, a backup ends as completed or failed and an
\* upload as done or failed, unless a restart or a used-up context ends the
\* goroutine before it has written so (runBackup, uploadBackup); and an upload
\* left behind in either way ends at the next start of the panel
\* (StartScheduler: "instead of showing "uploading" forever").
WorkSettles ==
    \A b \in Backups :
        /\ Unsettled(b) ~> (~Unsettled(b) \/ b \in cut)
        /\ Uploading(b) ~> (~Uploading(b) \/ b \in cut)
        /\ Uploading(b) /\ ~booted ~> ~Uploading(b)

\* createBackup: "the worker transitions it to running -> completed/failed",
\* panel restarts included.
BackupAlwaysSettles == \A b \in Backups : Unsettled(b) ~> ~Unsettled(b)

\* Deleting a backup deletes its off-site copy.
NoOrphanCopy == Quiet => remote \subseteq rows

\* Rows whose archive is gone on both sides are removed.
RowsPointSomewhere ==
    \A b \in rows : status[b] = "completed" /\ upload[b] = "null" => local[b]

\* Restore finds a backup that has an off-site copy, wherever the node's own
\* copy is.
UploadedIsRestorable ==
    Quiet => \A b \in rows \ doomed :
        status[b] = "completed" /\ dest[b] # None /\ upload[b] = "done" => RestoreSucceeds(b)

-----------------------------------------------------------------------------
(* The inductive invariant behind DataKept and DoneIsRemote. *)

\* What goroutine w can rely on at each place: its archive was written, its
\* copy arrived, its delete or retention run has picked the backup.
Knows(w) ==
    /\ work[w].at \in OnBackup => work[w].b \in Backups /\ work[w].n \in Nodes
    /\ work[w].at = "archived" => Stored(work[w].b) \/ work[w].b \in doomed
    /\ work[w].at \in {"uploaded", "dropLocal"} => work[w].b \in remote \cup doomed
    /\ work[w].at \in {"delRemote", "delLocal", "pruned"} => work[w].b \in doomed
    /\ work[w].at \in {"pruneNext", "pruned"} => work[w].todo \subseteq doomed

WorkersKnow == \A w \in Actors : Knows(w)

\* DataKept and DoneIsRemote for every id, with or without a row.
DataSafe == \A b \in Backups : status[b] = "completed" /\ b \notin doomed => Stored(b)
DoneSafe == \A b \in Backups : upload[b] = "done" /\ b \notin doomed => b \in remote

IInv == TypeOK /\ WorkersKnow /\ DataSafe /\ DoneSafe

-----------------------------------------------------------------------------
(* What NewestKept rests on, where backups are deleted by count alone.      *)

\* Where a goroutine archives its backup, and where it uploads it.
Archives == {"run", "archiving", "archived", "archiveFailed"}
Uploads == {"retry", "upload", "uploading", "uploaded", "uploadFailed", "dropLocal", "dropped"}

CountAlone == "delete" \notin Requests /\ ~RetentionDays

\* A newer completed backup stays.
Outlived(b) == \E c \in rows : c > b /\ status[c] = "completed"

\* Whatever a goroutine has picked, or is deleting, is outlived; when the
\* witness goes, it is outlived in turn.
PickedOutlived(w) ==
    /\ \A b \in work[w].todo : Outlived(b)
    /\ work[w].at \in {"pruned", "delRemote", "delLocal", "delRow"} => Outlived(work[w].b)

\* One goroutine archives a backup, before it is completed; uploads come after.
InOrder(w) ==
    /\ work[w].at \in Archives \cup Uploads => work[w].b < nextId
    /\ work[w].at \in Archives /\ work[w].b \in rows => status[work[w].b] \in {"pending", "running"}
    /\ work[w].at \in Uploads /\ work[w].b \in rows => status[work[w].b] = "completed"
    /\ work[w].at = "prune" => RemoteRetention > 0

ArchivedOnce ==
    \A v, w \in Actors : work[v].at \in Archives /\ work[w].at \in Archives /\ work[v].b = work[w].b => v = w

UploadedIsCompleted == \A b \in rows : upload[b] = "done" => status[b] = "completed"

Retained ==
    /\ ArchivedOnce /\ UploadedIsCompleted
    /\ \A w \in Actors : InOrder(w) /\ PickedOutlived(w)

=============================================================================
