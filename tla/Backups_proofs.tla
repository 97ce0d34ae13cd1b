--------------------------- MODULE Backups_proofs ---------------------------
(***************************************************************************)
(* Proofs about Backups: the types, and that no completed backup loses its *)
(* data, for any number of backups, destinations, nodes, workers and panel *)
(* restarts; and that retention by count leaves the newest backup.         *)
(***************************************************************************)
EXTENDS Backups, FiniteSetTheorems, TLAPS

\* Actors, ids and settings as the provers need them.
USE NumberAssumption, SettingAssumption, NameAssumption

\* A fresh goroutine record is a worker.
LEMMA IdleType == Idle \in Worker
BY DEF Idle, Worker, Points

\* Only worker w moves, to k; it keeps its data unless it is over.
Moved(w, k) ==
    /\ work' \in [Actors -> Worker]
    /\ \A v \in Actors \ {w} : work'[v] = work[v]
    /\ k = "idle" => work'[w].at = "idle"
    /\ k # "idle" => /\ work'[w].at = k
                     /\ work'[w].b = work[w].b
                     /\ work'[w].n = work[w].n
                     /\ work'[w].todo = work[w].todo

LEMMA GoMoves ==
    ASSUME work \in [Actors -> Worker], NEW w \in Actors, NEW k \in Points, Go(w, k)
    PROVE  Moved(w, k)
<1>1. work[w] \in Worker
  OBVIOUS
<1>2. At(w, k) \in Worker
  BY <1>1, IdleType DEF At, Worker
<1>3. work' = [work EXCEPT ![w] = At(w, k)]
  BY DEF Go
<1>4. work' \in [Actors -> Worker] /\ work'[w] = At(w, k)
  BY <1>2, <1>3
<1>5. \A v \in Actors \ {w} : work'[v] = work[v]
  BY <1>3
<1>6. k = "idle" => At(w, k).at = "idle"
  BY DEF At, Idle
<1>7. k # "idle" => /\ At(w, k).at = k
                    /\ At(w, k).b = work[w].b
                    /\ At(w, k).n = work[w].n
                    /\ At(w, k).todo = work[w].todo
  BY <1>1 DEF At, Worker
<1> QED
  BY <1>4, <1>5, <1>6, <1>7 DEF Moved

LEMMA InitInv == Init => IInv
<1> SUFFICES ASSUME Init PROVE IInv
  OBVIOUS
<1>1. TypeOK
  <2>1. work \in [Actors -> Worker]
    BY IdleType DEF Init
  <2>2. nextId \in 1..(MaxBackups + 1) /\ crashes \in 0..MaxCrashes
    BY DEF Init
  <2> QED
    BY <2>1, <2>2 DEF Init, TypeOK, Statuses, UploadStatuses
<1>2. WorkersKnow
  BY DEF Init, WorkersKnow, Knows, Idle, OnBackup
<1>3. DataSafe /\ DoneSafe
  BY DEF Init, DataSafe, DoneSafe
<1> QED
  BY <1>1, <1>2, <1>3 DEF IInv

\* The frame of every step of goroutine w: copies are lost only of backups that
\* are picked for deletion, a row becomes completed or done only when the copy
\* is there, and w still knows what its place says.
LEMMA FrameInv ==
    ASSUME IInv, TypeOK', NEW w \in Actors,
           \A v \in Actors \ {w} : work'[v] = work[v],
           doomed \subseteq doomed',
           \A b \in Backups \ doomed' : Stored(b) => Stored(b)',
           \A b \in Backups \ doomed' : b \in remote => b \in remote',
           \A b \in Backups \ doomed' :
               status'[b] = "completed" => status[b] = "completed" \/ Stored(b)',
           \A b \in Backups \ doomed' :
               upload'[b] = "done" => upload[b] = "done" \/ b \in remote',
           Knows(w)'
    PROVE  IInv'
<1>1. TypeOK /\ WorkersKnow /\ DataSafe /\ DoneSafe
  BY DEF IInv
<1>2. ASSUME NEW v \in Actors \ {w} PROVE Knows(v)'
  <2>1. Knows(v) /\ work'[v] = work[v]
    BY <1>1, <1>2 DEF WorkersKnow
  <2>2. work[v].at = "archived" => work[v].b \in Backups
    BY <2>1 DEF Knows, OnBackup
  <2>3. work[v].at \in {"uploaded", "dropLocal"} => work[v].b \in Backups
    BY <2>1 DEF Knows, OnBackup
  <2>4. work[v].at = "archived" => Stored(work[v].b)' \/ work[v].b \in doomed'
    BY <2>1, <2>2 DEF Knows
  <2>5. work[v].at \in {"uploaded", "dropLocal"} => work[v].b \in remote' \cup doomed'
    BY <2>1, <2>3 DEF Knows
  <2>6. /\ work'[v].at = "archived" => Stored(work[v].b)' \/ work'[v].b \in doomed'
        /\ work'[v].at \in {"uploaded", "dropLocal"} => work'[v].b \in remote' \cup doomed'
    BY <2>1, <2>4, <2>5
  <2> QED
    BY <2>1, <2>6 DEF Knows, Stored
<1>3. WorkersKnow'
  BY <1>2 DEF WorkersKnow
<1>4. DataSafe'
  BY <1>1 DEF DataSafe
<1>5. DoneSafe'
  BY <1>1 DEF DoneSafe
<1> QED
  BY <1>3, <1>4, <1>5 DEF IInv

-----------------------------------------------------------------------------
(* createBackup and runBackup *)

LEMMA CreateInv ==
    ASSUME IInv, NEW w \in Workers, NEW d \in dests \cup {None},
           CreateBackup(w, d) \/ RunSchedule(w, d)
    PROVE  IInv'
<1> DEFINE A == Started("run", nextId, d)
           S == Started("select", 0, None)
<1>1. TypeOK /\ WorkersKnow /\ DataSafe /\ DoneSafe
  BY DEF IInv
<1>2. Insert(w, d)
  BY DEF CreateBackup, RunSchedule
<1>3. A \in Worker /\ A.at = "run" /\ A.b = nextId /\ A.n = node
  BY <1>1, <1>2 DEF Started, Worker, Points, TypeOK, Insert, Backups
<1>4. S \in Worker /\ S.at = "select"
  BY <1>1 DEF Started, Worker, Points, TypeOK
<1> HIDE DEF A, S
<1>5. w \in Actors /\ Scheduler \in Actors /\ w # Scheduler
  BY DEF Actors
<1>6. \/ work' = [work EXCEPT ![w] = A]
      \/ work' = [work EXCEPT ![w] = A, ![Scheduler] = S]
  BY DEF CreateBackup, RunSchedule, A, S
<1>7. work' \in [Actors -> Worker]
  BY <1>1, <1>3, <1>4, <1>5, <1>6 DEF TypeOK
<1>8. \A v \in Actors : work'[v] = work[v] \/ work'[v] = A \/ work'[v] = S
  BY <1>1, <1>5, <1>6 DEF TypeOK
<1>9. TypeOK'
  BY <1>1, <1>2, <1>7 DEF TypeOK, Insert, Backups, Statuses, UploadStatuses, storeVars, panelVars
<1>10. WorkersKnow'
  BY <1>1, <1>2, <1>3, <1>4, <1>8 DEF WorkersKnow, Knows, Insert, TypeOK, OnBackup, Stored, storeVars, panelVars
<1>11. DataSafe' /\ DoneSafe'
  BY <1>1, <1>2 DEF DataSafe, DoneSafe, Insert, TypeOK, Stored, storeVars, panelVars
<1> QED
  BY <1>9, <1>10, <1>11 DEF IInv

LEMMA StartArchiveInv ==
    ASSUME IInv, NEW w \in Actors, StartArchive(w)
    PROVE  IInv'
<1> USE DEF storeVars, panelVars, rowVars
<1>1. TypeOK /\ WorkersKnow /\ Knows(w)
  BY DEF IInv, WorkersKnow
<1>2. PICK k \in {"idle", "archiving"} : Go(w, k) 
  BY DEF StartArchive
<1>3. k \in Points
  BY <1>2 DEF Points
<1>4. Moved(w, k)
  BY <1>1, <1>2, <1>3, GoMoves DEF TypeOK
<1>5. TypeOK'
  BY <1>1, <1>4 DEF Moved, TypeOK, StartArchive, FailRow, Set, Statuses, UploadStatuses
<1>6. Knows(w)'
  BY <1>1, <1>2, <1>4 DEF Moved, Knows, StartArchive, OnBackup
<1>7. /\ doomed' = doomed
      /\ \A b \in Backups \ doomed : Stored(b) => Stored(b)'
      /\ \A b \in Backups \ doomed : b \in remote => b \in remote'
      /\ \A b \in Backups \ doomed : status'[b] = "completed" => status[b] = "completed" \/ Stored(b)'
      /\ \A b \in Backups \ doomed : upload'[b] = "done" => upload[b] = "done" \/ b \in remote'
  BY <1>1 DEF TypeOK, StartArchive, FailRow, Set, Stored
<1> QED
  BY <1>4, <1>5, <1>6, <1>7, FrameInv DEF Moved

LEMMA ArchiveCallInv ==
    ASSUME IInv, NEW w \in Actors, ArchiveCall(w)
    PROVE  IInv'
<1> USE DEF storeVars, panelVars, rowVars
<1>1. TypeOK /\ WorkersKnow /\ Knows(w)
  BY DEF IInv, WorkersKnow
<1>2. PICK k \in {"archived", "archiveFailed", "idle"} : Go(w, k) /\ (k = "archived" => files' = files \cup {<<work[w].n, work[w].b>>})
  BY DEF ArchiveCall, TransferFails
<1>3. k \in Points
  BY <1>2 DEF Points
<1>4. Moved(w, k)
  BY <1>1, <1>2, <1>3, GoMoves DEF TypeOK
<1>8. cut' \subseteq Nat
  <2>1. work[w].b \in Nat /\ cut \subseteq Nat
    BY <1>1 DEF TypeOK, Worker
  <2>2. cut' = cut \/ cut' = cut \cup {work[w].b}
    BY DEF ArchiveCall, TransferFails
  <2> QED
    BY <2>1, <2>2
<1>5. TypeOK'
  BY <1>1, <1>4, <1>8 DEF Moved, TypeOK, ArchiveCall, Knows, OnBackup
<1>6. Knows(w)'
  BY <1>1, <1>2, <1>4 DEF Moved, Knows, ArchiveCall, OnBackup, Stored
<1>7. /\ doomed' = doomed
      /\ \A b \in Backups \ doomed : Stored(b) => Stored(b)'
      /\ \A b \in Backups \ doomed : b \in remote => b \in remote'
      /\ \A b \in Backups \ doomed : status'[b] = "completed" => status[b] = "completed" \/ Stored(b)'
      /\ \A b \in Backups \ doomed : upload'[b] = "done" => upload[b] = "done" \/ b \in remote'
  BY <1>1 DEF TypeOK, ArchiveCall, Stored
<1> QED
  BY <1>4, <1>5, <1>6, <1>7, FrameInv DEF Moved

LEMMA RecordArchiveInv ==
    ASSUME IInv, NEW w \in Actors, RecordArchive(w)
    PROVE  IInv'
<1> USE DEF storeVars, panelVars, rowVars
<1>1. TypeOK /\ WorkersKnow /\ Knows(w)
  BY DEF IInv, WorkersKnow
<1>2. PICK k \in {"idle", "upload"} : Go(w, k) 
  BY DEF RecordArchive
<1>3. k \in Points
  BY <1>2 DEF Points
<1>4. Moved(w, k)
  BY <1>1, <1>2, <1>3, GoMoves DEF TypeOK
<1>5. TypeOK'
  BY <1>1, <1>4 DEF Moved, TypeOK, RecordArchive, Set, Statuses
<1>6. Knows(w)'
  BY <1>1, <1>2, <1>4 DEF Moved, Knows, RecordArchive, OnBackup
<1>7. /\ doomed' = doomed
      /\ \A b \in Backups \ doomed : Stored(b) => Stored(b)'
      /\ \A b \in Backups \ doomed : b \in remote => b \in remote'
      /\ \A b \in Backups \ doomed : status'[b] = "completed" => status[b] = "completed" \/ Stored(b)'
      /\ \A b \in Backups \ doomed : upload'[b] = "done" => upload[b] = "done" \/ b \in remote'
  BY <1>1 DEF TypeOK, RecordArchive, Set, Stored, Knows
<1> QED
  BY <1>4, <1>5, <1>6, <1>7, FrameInv DEF Moved

LEMMA FailBackupInv ==
    ASSUME IInv, NEW w \in Actors, FailBackup(w)
    PROVE  IInv'
<1> USE DEF storeVars, panelVars, rowVars
<1>1. TypeOK /\ WorkersKnow /\ Knows(w)
  BY DEF IInv, WorkersKnow
<1>2. PICK k \in {"idle"} : Go(w, k) 
  BY DEF FailBackup
<1>3. k \in Points
  BY <1>2 DEF Points
<1>4. Moved(w, k)
  BY <1>1, <1>2, <1>3, GoMoves DEF TypeOK
<1>5. TypeOK'
  BY <1>1, <1>4 DEF Moved, TypeOK, FailBackup, FailRow, Set, Statuses, UploadStatuses
<1>6. Knows(w)'
  BY <1>1, <1>2, <1>4 DEF Moved, Knows, FailBackup, OnBackup
<1>7. /\ doomed' = doomed
      /\ \A b \in Backups \ doomed : Stored(b) => Stored(b)'
      /\ \A b \in Backups \ doomed : b \in remote => b \in remote'
      /\ \A b \in Backups \ doomed : status'[b] = "completed" => status[b] = "completed" \/ Stored(b)'
      /\ \A b \in Backups \ doomed : upload'[b] = "done" => upload[b] = "done" \/ b \in remote'
  BY <1>1 DEF TypeOK, FailBackup, FailRow, Set, Stored
<1> QED
  BY <1>4, <1>5, <1>6, <1>7, FrameInv DEF Moved

-----------------------------------------------------------------------------
(* uploadBackup and RetryUpload *)

LEMMA BeginUploadInv ==
    ASSUME IInv, NEW w \in Actors, BeginUpload(w)
    PROVE  IInv'
<1> USE DEF storeVars, panelVars, rowVars
<1>1. TypeOK /\ WorkersKnow /\ Knows(w)
  BY DEF IInv, WorkersKnow
<1>2. PICK k \in {"uploading"} : Go(w, k) 
  BY DEF BeginUpload
<1>3. k \in Points
  BY <1>2 DEF Points
<1>4. Moved(w, k)
  BY <1>1, <1>2, <1>3, GoMoves DEF TypeOK
<1>5. TypeOK'
  BY <1>1, <1>4 DEF Moved, TypeOK, BeginUpload, SetUpload, Set, UploadStatuses
<1>6. Knows(w)'
  BY <1>1, <1>2, <1>4 DEF Moved, Knows, BeginUpload, OnBackup
<1>7. /\ doomed' = doomed
      /\ \A b \in Backups \ doomed : Stored(b) => Stored(b)'
      /\ \A b \in Backups \ doomed : b \in remote => b \in remote'
      /\ \A b \in Backups \ doomed : status'[b] = "completed" => status[b] = "completed" \/ Stored(b)'
      /\ \A b \in Backups \ doomed : upload'[b] = "done" => upload[b] = "done" \/ b \in remote'
  BY <1>1 DEF TypeOK, BeginUpload, SetUpload, Set, Stored
<1> QED
  BY <1>4, <1>5, <1>6, <1>7, FrameInv DEF Moved

LEMMA RefuseUploadInv ==
    ASSUME IInv, NEW w \in Actors, RefuseUpload(w)
    PROVE  IInv'
<1> USE DEF storeVars, panelVars, rowVars
<1>1. TypeOK /\ WorkersKnow /\ Knows(w)
  BY DEF IInv, WorkersKnow
<1>2. PICK k \in {"idle"} : Go(w, k) 
  BY DEF RefuseUpload
<1>3. k \in Points
  BY <1>2 DEF Points
<1>4. Moved(w, k)
  BY <1>1, <1>2, <1>3, GoMoves DEF TypeOK
<1>5. TypeOK'
  BY <1>1, <1>4 DEF Moved, TypeOK, RefuseUpload, SetUpload, Set, UploadStatuses
<1>6. Knows(w)'
  BY <1>1, <1>2, <1>4 DEF Moved, Knows, RefuseUpload, OnBackup
<1>7. /\ doomed' = doomed
      /\ \A b \in Backups \ doomed : Stored(b) => Stored(b)'
      /\ \A b \in Backups \ doomed : b \in remote => b \in remote'
      /\ \A b \in Backups \ doomed : status'[b] = "completed" => status[b] = "completed" \/ Stored(b)'
      /\ \A b \in Backups \ doomed : upload'[b] = "done" => upload[b] = "done" \/ b \in remote'
  BY <1>1 DEF TypeOK, RefuseUpload, SetUpload, Set, Stored
<1> QED
  BY <1>4, <1>5, <1>6, <1>7, FrameInv DEF Moved

LEMMA UploadCallInv ==
    ASSUME IInv, NEW w \in Actors, UploadCall(w)
    PROVE  IInv'
<1> USE DEF storeVars, panelVars, rowVars
<1>1. TypeOK /\ WorkersKnow /\ Knows(w)
  BY DEF IInv, WorkersKnow
<1>2. PICK k \in {"uploaded", "uploadFailed", "idle"} : Go(w, k) /\ (k = "uploaded" => remote' = remote \cup {work[w].b})
  BY DEF UploadCall, TransferFails
<1>3. k \in Points
  BY <1>2 DEF Points
<1>4. Moved(w, k)
  BY <1>1, <1>2, <1>3, GoMoves DEF TypeOK
<1>8. cut' \subseteq Nat
  <2>1. work[w].b \in Nat /\ cut \subseteq Nat
    BY <1>1 DEF TypeOK, Worker
  <2>2. cut' = cut \/ cut' = cut \cup {work[w].b}
    BY DEF UploadCall, TransferFails
  <2> QED
    BY <2>1, <2>2
<1>5. TypeOK'
  BY <1>1, <1>4, <1>8 DEF Moved, TypeOK, UploadCall, Knows, OnBackup
<1>6. Knows(w)'
  BY <1>1, <1>2, <1>4 DEF Moved, Knows, UploadCall, OnBackup
<1>7. /\ doomed' = doomed
      /\ \A b \in Backups \ doomed : Stored(b) => Stored(b)'
      /\ \A b \in Backups \ doomed : b \in remote => b \in remote'
      /\ \A b \in Backups \ doomed : status'[b] = "completed" => status[b] = "completed" \/ Stored(b)'
      /\ \A b \in Backups \ doomed : upload'[b] = "done" => upload[b] = "done" \/ b \in remote'
  BY <1>1 DEF TypeOK, UploadCall, Stored
<1> QED
  BY <1>4, <1>5, <1>6, <1>7, FrameInv DEF Moved

LEMMA FailUploadInv ==
    ASSUME IInv, NEW w \in Actors, FailUpload(w)
    PROVE  IInv'
<1> USE DEF storeVars, panelVars, rowVars
<1>1. TypeOK /\ WorkersKnow /\ Knows(w)
  BY DEF IInv, WorkersKnow
<1>2. PICK k \in {"idle"} : Go(w, k) 
  BY DEF FailUpload
<1>3. k \in Points
  BY <1>2 DEF Points
<1>4. Moved(w, k)
  BY <1>1, <1>2, <1>3, GoMoves DEF TypeOK
<1>5. TypeOK'
  BY <1>1, <1>4 DEF Moved, TypeOK, FailUpload, SetUpload, Set, UploadStatuses
<1>6. Knows(w)'
  BY <1>1, <1>2, <1>4 DEF Moved, Knows, FailUpload, OnBackup
<1>7. /\ doomed' = doomed
      /\ \A b \in Backups \ doomed : Stored(b) => Stored(b)'
      /\ \A b \in Backups \ doomed : b \in remote => b \in remote'
      /\ \A b \in Backups \ doomed : status'[b] = "completed" => status[b] = "completed" \/ Stored(b)'
      /\ \A b \in Backups \ doomed : upload'[b] = "done" => upload[b] = "done" \/ b \in remote'
  BY <1>1 DEF TypeOK, FailUpload, SetUpload, Set, Stored
<1> QED
  BY <1>4, <1>5, <1>6, <1>7, FrameInv DEF Moved

LEMMA RecordUploadInv ==
    ASSUME IInv, NEW w \in Actors, RecordUpload(w)
    PROVE  IInv'
<1> USE DEF storeVars, panelVars, rowVars
<1>1. TypeOK /\ WorkersKnow /\ Knows(w)
  BY DEF IInv, WorkersKnow
<1>2. PICK k \in {"idle", "prune", "dropLocal"} : Go(w, k) 
  BY DEF RecordUpload, AfterUpload
<1>3. k \in Points
  BY <1>2 DEF Points
<1>4. Moved(w, k)
  BY <1>1, <1>2, <1>3, GoMoves DEF TypeOK
<1>5. TypeOK'
  BY <1>1, <1>4 DEF Moved, TypeOK, RecordUpload, SetUpload, Set, UploadStatuses
<1>6. Knows(w)'
  BY <1>1, <1>2, <1>4 DEF Moved, Knows, RecordUpload, SetUpload, OnBackup
<1>7. /\ doomed' = doomed
      /\ \A b \in Backups \ doomed : Stored(b) => Stored(b)'
      /\ \A b \in Backups \ doomed : b \in remote => b \in remote'
      /\ \A b \in Backups \ doomed : status'[b] = "completed" => status[b] = "completed" \/ Stored(b)'
      /\ \A b \in Backups \ doomed : upload'[b] = "done" => upload[b] = "done" \/ b \in remote'
  BY <1>1 DEF TypeOK, RecordUpload, SetUpload, Set, Stored, Knows
<1> QED
  BY <1>4, <1>5, <1>6, <1>7, FrameInv DEF Moved

LEMMA DropLocalInv ==
    ASSUME IInv, NEW w \in Actors, DropLocal(w)
    PROVE  IInv'
<1> USE DEF storeVars, panelVars, rowVars
<1>1. TypeOK /\ WorkersKnow /\ Knows(w)
  BY DEF IInv, WorkersKnow
<1>2. PICK k \in {"idle", "prune", "dropped"} : Go(w, k) 
  BY DEF DropLocal, AfterUpload
<1>3. k \in Points
  BY <1>2 DEF Points
<1>4. Moved(w, k)
  BY <1>1, <1>2, <1>3, GoMoves DEF TypeOK
<1>5. TypeOK'
  BY <1>1, <1>4 DEF Moved, TypeOK, DropLocal
<1>6. Knows(w)'
  BY <1>1, <1>2, <1>4 DEF Moved, Knows, DropLocal, OnBackup
<1>7. /\ doomed' = doomed
      /\ \A b \in Backups \ doomed : Stored(b) => Stored(b)'
      /\ \A b \in Backups \ doomed : b \in remote => b \in remote'
      /\ \A b \in Backups \ doomed : status'[b] = "completed" => status[b] = "completed" \/ Stored(b)'
      /\ \A b \in Backups \ doomed : upload'[b] = "done" => upload[b] = "done" \/ b \in remote'
  BY <1>1 DEF TypeOK, DropLocal, Stored, Knows, OnBackup
<1> QED
  BY <1>4, <1>5, <1>6, <1>7, FrameInv DEF Moved

LEMMA RecordDropInv ==
    ASSUME IInv, NEW w \in Actors, RecordDrop(w)
    PROVE  IInv'
<1> USE DEF storeVars, panelVars, rowVars
<1>1. TypeOK /\ WorkersKnow /\ Knows(w)
  BY DEF IInv, WorkersKnow
<1>2. PICK k \in {"idle", "prune"} : Go(w, k) 
  BY DEF RecordDrop, AfterUpload
<1>3. k \in Points
  BY <1>2 DEF Points
<1>4. Moved(w, k)
  BY <1>1, <1>2, <1>3, GoMoves DEF TypeOK
<1>5. TypeOK'
  BY <1>1, <1>4 DEF Moved, TypeOK, RecordDrop, Set
<1>6. Knows(w)'
  BY <1>1, <1>2, <1>4 DEF Moved, Knows, RecordDrop, OnBackup
<1>7. /\ doomed' = doomed
      /\ \A b \in Backups \ doomed : Stored(b) => Stored(b)'
      /\ \A b \in Backups \ doomed : b \in remote => b \in remote'
      /\ \A b \in Backups \ doomed : status'[b] = "completed" => status[b] = "completed" \/ Stored(b)'
      /\ \A b \in Backups \ doomed : upload'[b] = "done" => upload[b] = "done" \/ b \in remote'
  BY <1>1 DEF TypeOK, RecordDrop, Stored
<1> QED
  BY <1>4, <1>5, <1>6, <1>7, FrameInv DEF Moved

LEMMA RetryGoInv ==
    ASSUME IInv, NEW w \in Actors, RetryGo(w)
    PROVE  IInv'
<1> USE DEF storeVars, panelVars, rowVars
<1>1. TypeOK /\ WorkersKnow /\ Knows(w)
  BY DEF IInv, WorkersKnow
<1>2. PICK k \in {"upload"} : Go(w, k) 
  BY DEF RetryGo
<1>3. k \in Points
  BY <1>2 DEF Points
<1>4. Moved(w, k)
  BY <1>1, <1>2, <1>3, GoMoves DEF TypeOK
<1>5. TypeOK'
  BY <1>1, <1>4 DEF Moved, TypeOK, RetryGo, SetUpload, Set, UploadStatuses
<1>6. Knows(w)'
  BY <1>1, <1>2, <1>4 DEF Moved, Knows, RetryGo, OnBackup
<1>7. /\ doomed' = doomed
      /\ \A b \in Backups \ doomed : Stored(b) => Stored(b)'
      /\ \A b \in Backups \ doomed : b \in remote => b \in remote'
      /\ \A b \in Backups \ doomed : status'[b] = "completed" => status[b] = "completed" \/ Stored(b)'
      /\ \A b \in Backups \ doomed : upload'[b] = "done" => upload[b] = "done" \/ b \in remote'
  BY <1>1 DEF TypeOK, RetryGo, SetUpload, Set, Stored
<1> QED
  BY <1>4, <1>5, <1>6, <1>7, FrameInv DEF Moved

LEMMA PruneRecordInv ==
    ASSUME IInv, NEW w \in Actors, PruneRecord(w)
    PROVE  IInv'
<1> USE DEF storeVars, panelVars, rowVars
<1>1. TypeOK /\ WorkersKnow /\ Knows(w)
  BY DEF IInv, WorkersKnow
<1>2. PICK k \in {"pruneNext"} : Go(w, k) 
  BY DEF PruneRecord
<1>3. k \in Points
  BY <1>2 DEF Points
<1>4. Moved(w, k)
  BY <1>1, <1>2, <1>3, GoMoves DEF TypeOK
<1>5. TypeOK'
  BY <1>1, <1>4 DEF Moved, TypeOK, PruneRecord, Set, UploadStatuses
<1>6. Knows(w)'
  BY <1>1, <1>2, <1>4 DEF Moved, Knows, PruneRecord, OnBackup
<1>7. /\ doomed' = doomed
      /\ \A b \in Backups \ doomed : Stored(b) => Stored(b)'
      /\ \A b \in Backups \ doomed : b \in remote => b \in remote'
      /\ \A b \in Backups \ doomed : status'[b] = "completed" => status[b] = "completed" \/ Stored(b)'
      /\ \A b \in Backups \ doomed : upload'[b] = "done" => upload[b] = "done" \/ b \in remote'
  BY <1>1 DEF TypeOK, PruneRecord, Set, Stored
<1> QED
  BY <1>4, <1>5, <1>6, <1>7, FrameInv DEF Moved

LEMMA PruneDoneInv ==
    ASSUME IInv, NEW w \in Actors, PruneDone(w)
    PROVE  IInv'
<1> USE DEF storeVars, panelVars, rowVars
<1>1. TypeOK /\ WorkersKnow /\ Knows(w)
  BY DEF IInv, WorkersKnow
<1>2. PICK k \in {"idle"} : Go(w, k) 
  BY DEF PruneDone
<1>3. k \in Points
  BY <1>2 DEF Points
<1>4. Moved(w, k)
  BY <1>1, <1>2, <1>3, GoMoves DEF TypeOK
<1>5. TypeOK'
  BY <1>1, <1>4 DEF Moved, TypeOK, PruneDone
<1>6. Knows(w)'
  BY <1>1, <1>2, <1>4 DEF Moved, Knows, PruneDone, OnBackup
<1>7. /\ doomed' = doomed
      /\ \A b \in Backups \ doomed : Stored(b) => Stored(b)'
      /\ \A b \in Backups \ doomed : b \in remote => b \in remote'
      /\ \A b \in Backups \ doomed : status'[b] = "completed" => status[b] = "completed" \/ Stored(b)'
      /\ \A b \in Backups \ doomed : upload'[b] = "done" => upload[b] = "done" \/ b \in remote'
  BY <1>1 DEF TypeOK, PruneDone, Stored
<1> QED
  BY <1>4, <1>5, <1>6, <1>7, FrameInv DEF Moved

-----------------------------------------------------------------------------
(* DeleteBackup and the scheduler *)

LEMMA DeleteRemoteInv ==
    ASSUME IInv, NEW w \in Actors, DeleteRemote(w)
    PROVE  IInv'
<1> USE DEF storeVars, panelVars, rowVars
<1>1. TypeOK /\ WorkersKnow /\ Knows(w)
  BY DEF IInv, WorkersKnow
<1>2. PICK k \in {"idle", "next", "delLocal", "delRow"} : Go(w, k) 
  BY DEF DeleteRemote, DeleteReturns
<1>3. k \in Points
  BY <1>2 DEF Points
<1>4. Moved(w, k)
  BY <1>1, <1>2, <1>3, GoMoves DEF TypeOK
<1>5. TypeOK'
  BY <1>1, <1>4 DEF Moved, TypeOK, DeleteRemote
<1>6. Knows(w)'
  BY <1>1, <1>2, <1>4 DEF Moved, Knows, DeleteRemote, OnBackup
<1>7. /\ doomed' = doomed
      /\ \A b \in Backups \ doomed : Stored(b) => Stored(b)'
      /\ \A b \in Backups \ doomed : b \in remote => b \in remote'
      /\ \A b \in Backups \ doomed : status'[b] = "completed" => status[b] = "completed" \/ Stored(b)'
      /\ \A b \in Backups \ doomed : upload'[b] = "done" => upload[b] = "done" \/ b \in remote'
  BY <1>1 DEF TypeOK, DeleteRemote, Stored, Knows
<1> QED
  BY <1>4, <1>5, <1>6, <1>7, FrameInv DEF Moved

LEMMA DeleteLocalInv ==
    ASSUME IInv, NEW w \in Actors, DeleteLocal(w)
    PROVE  IInv'
<1> USE DEF storeVars, panelVars, rowVars
<1>1. TypeOK /\ WorkersKnow /\ Knows(w)
  BY DEF IInv, WorkersKnow
<1>2. PICK k \in {"delRow"} : Go(w, k) 
  BY DEF DeleteLocal
<1>3. k \in Points
  BY <1>2 DEF Points
<1>4. Moved(w, k)
  BY <1>1, <1>2, <1>3, GoMoves DEF TypeOK
<1>5. TypeOK'
  BY <1>1, <1>4 DEF Moved, TypeOK, DeleteLocal
<1>6. Knows(w)'
  BY <1>1, <1>2, <1>4 DEF Moved, Knows, DeleteLocal, OnBackup
<1>7. /\ doomed' = doomed
      /\ \A b \in Backups \ doomed : Stored(b) => Stored(b)'
      /\ \A b \in Backups \ doomed : b \in remote => b \in remote'
      /\ \A b \in Backups \ doomed : status'[b] = "completed" => status[b] = "completed" \/ Stored(b)'
      /\ \A b \in Backups \ doomed : upload'[b] = "done" => upload[b] = "done" \/ b \in remote'
  BY <1>1 DEF TypeOK, DeleteLocal, Stored, Knows
<1> QED
  BY <1>4, <1>5, <1>6, <1>7, FrameInv DEF Moved

LEMMA DeleteRowInv ==
    ASSUME IInv, NEW w \in Actors, DeleteRow(w)
    PROVE  IInv'
<1> USE DEF storeVars, panelVars, rowVars
<1>1. TypeOK /\ WorkersKnow /\ Knows(w)
  BY DEF IInv, WorkersKnow
<1>2. PICK k \in {"idle", "next"} : Go(w, k) 
  BY DEF DeleteRow, DeleteReturns
<1>3. k \in Points
  BY <1>2 DEF Points
<1>4. Moved(w, k)
  BY <1>1, <1>2, <1>3, GoMoves DEF TypeOK
<1>5. TypeOK'
  BY <1>1, <1>4 DEF Moved, TypeOK, DeleteRow
<1>6. Knows(w)'
  BY <1>1, <1>2, <1>4 DEF Moved, Knows, DeleteRow, OnBackup
<1>7. /\ doomed' = doomed
      /\ \A b \in Backups \ doomed : Stored(b) => Stored(b)'
      /\ \A b \in Backups \ doomed : b \in remote => b \in remote'
      /\ \A b \in Backups \ doomed : status'[b] = "completed" => status[b] = "completed" \/ Stored(b)'
      /\ \A b \in Backups \ doomed : upload'[b] = "done" => upload[b] = "done" \/ b \in remote'
  BY <1>1 DEF TypeOK, DeleteRow, Stored
<1> QED
  BY <1>4, <1>5, <1>6, <1>7, FrameInv DEF Moved

LEMMA ScheduleDoneInv ==
    ASSUME IInv, NEW w \in Actors, ScheduleDone(w)
    PROVE  IInv'
<1> USE DEF storeVars, panelVars, rowVars
<1>1. TypeOK /\ WorkersKnow /\ Knows(w)
  BY DEF IInv, WorkersKnow
<1>2. PICK k \in {"idle"} : Go(w, k) 
  BY DEF ScheduleDone
<1>3. k \in Points
  BY <1>2 DEF Points
<1>4. Moved(w, k)
  BY <1>1, <1>2, <1>3, GoMoves DEF TypeOK
<1>5. TypeOK'
  BY <1>1, <1>4 DEF Moved, TypeOK, ScheduleDone
<1>6. Knows(w)'
  BY <1>1, <1>2, <1>4 DEF Moved, Knows, ScheduleDone, OnBackup
<1>7. /\ doomed' = doomed
      /\ \A b \in Backups \ doomed : Stored(b) => Stored(b)'
      /\ \A b \in Backups \ doomed : b \in remote => b \in remote'
      /\ \A b \in Backups \ doomed : status'[b] = "completed" => status[b] = "completed" \/ Stored(b)'
      /\ \A b \in Backups \ doomed : upload'[b] = "done" => upload[b] = "done" \/ b \in remote'
  BY <1>1 DEF TypeOK, ScheduleDone, Stored
<1> QED
  BY <1>4, <1>5, <1>6, <1>7, FrameInv DEF Moved

LEMMA DestinationDeleteInv ==
    ASSUME IInv, NEW w \in Actors, DestinationDelete(w)
    PROVE  IInv'
<1> USE DEF storeVars, panelVars, rowVars
<1>1. TypeOK /\ WorkersKnow /\ Knows(w)
  BY DEF IInv, WorkersKnow
<1>2. PICK k \in {"idle"} : Go(w, k) 
  BY DEF DestinationDelete
<1>3. k \in Points
  BY <1>2 DEF Points
<1>4. Moved(w, k)
  BY <1>1, <1>2, <1>3, GoMoves DEF TypeOK
<1>5. TypeOK'
  BY <1>1, <1>4 DEF Moved, TypeOK, DestinationDelete
<1>6. Knows(w)'
  BY <1>1, <1>2, <1>4 DEF Moved, Knows, DestinationDelete, OnBackup
<1>7. /\ doomed' = doomed
      /\ \A b \in Backups \ doomed : Stored(b) => Stored(b)'
      /\ \A b \in Backups \ doomed : b \in remote => b \in remote'
      /\ \A b \in Backups \ doomed : status'[b] = "completed" => status[b] = "completed" \/ Stored(b)'
      /\ \A b \in Backups \ doomed : upload'[b] = "done" => upload[b] = "done" \/ b \in remote'
  BY <1>1 DEF TypeOK, DestinationDelete, Stored
<1> QED
  BY <1>4, <1>5, <1>6, <1>7, FrameInv DEF Moved

\* A request or a scheduler run that begins: Started is a worker record.
LEMMA StartedInv ==
    ASSUME IInv, NEW w \in Actors, NEW k \in {"retry", "delDest"}, NEW b \in Nat,
           NEW d \in Destinations \cup {None},
           k = "retry" => b \in Backups,
           work' = [work EXCEPT ![w] = Started(k, b, d)],
           UNCHANGED <<rowVars, storeVars, panelVars, doomed>>
    PROVE  IInv'
<1> USE DEF storeVars, panelVars, rowVars
<1> DEFINE A == Started(k, b, d)
<1>1. TypeOK
  BY DEF IInv
<1>2. A \in Worker /\ A.at = k /\ A.b = b /\ A.n = node
  BY <1>1 DEF Started, Worker, Points, TypeOK
<1> HIDE DEF A
<1>3. work' = [work EXCEPT ![w] = A]
  BY DEF A
<1>4. /\ work' \in [Actors -> Worker] /\ work'[w] = A
      /\ \A v \in Actors \ {w} : work'[v] = work[v]
  BY <1>1, <1>2, <1>3 DEF TypeOK
<1>5. TypeOK'
  BY <1>1, <1>4 DEF TypeOK
<1>6. Knows(w)'
  BY <1>1, <1>2, <1>4 DEF Knows, OnBackup, TypeOK
<1>7. /\ doomed' = doomed
      /\ \A c \in Backups \ doomed : Stored(c) => Stored(c)'
  BY DEF Stored
<1> QED
  BY <1>4, <1>5, <1>6, <1>7, FrameInv

LEMMA PruneSelectInv ==
    ASSUME IInv, NEW w \in Actors, PruneSelect(w)
    PROVE  IInv'
<1> USE DEF storeVars, panelVars, rowVars
<1>1. TypeOK /\ work[w] \in Worker
  BY DEF IInv, TypeOK
<1>2. PICK old : /\ old \subseteq Backups
                 /\ work' = [work EXCEPT ![w].at = "pruneNext", ![w].todo = old,
                                         ![w].kept = {b \in old : local[b]}]
                 /\ doomed' = doomed \cup old
  <2> DEFINE O == BeyondNewest({b \in rows : dest[b] = work[w].d /\ upload[b] = "done"}, RemoteRetention)
  <2>1. O \subseteq Backups
    BY <1>1 DEF BeyondNewest, TypeOK
  <2> QED
    BY <2>1 DEF PruneSelect
<1> DEFINE A == [work[w] EXCEPT !.at = "pruneNext", !.todo = old, !.kept = {b \in old : local[b]}]
<1>3. A \in Worker /\ A.at = "pruneNext" /\ A.todo = old
  BY <1>1, <1>2 DEF Worker, Points
<1>4. work' = [work EXCEPT ![w] = A]
  BY <1>1, <1>2 DEF TypeOK
<1> HIDE DEF A
<1>5. /\ work' \in [Actors -> Worker] /\ work'[w] = A
      /\ \A v \in Actors \ {w} : work'[v] = work[v]
  BY <1>1, <1>3, <1>4 DEF TypeOK
<1>6. UNCHANGED <<rowVars, storeVars, panelVars>>
  BY DEF PruneSelect
<1>7. TypeOK'
  BY <1>1, <1>2, <1>5, <1>6 DEF TypeOK
<1>8. Knows(w)'
  BY <1>2, <1>3, <1>5 DEF Knows, OnBackup
<1>9. \A b \in Backups \ doomed' : Stored(b) => Stored(b)'
  BY <1>6 DEF Stored
<1> QED
  BY <1>2, <1>5, <1>6, <1>7, <1>8, <1>9, FrameInv

LEMMA PruneCallInv ==
    ASSUME IInv, NEW w \in Actors, NEW b \in Backups, PruneCall(w, b)
    PROVE  IInv'
<1> USE DEF storeVars, panelVars, rowVars
<1>1. TypeOK /\ work[w] \in Worker /\ Knows(w)
  BY DEF IInv, TypeOK, WorkersKnow
<1>2. work[w].at = "pruneNext" /\ b \in doomed /\ work[w].todo \subseteq doomed
  BY <1>1 DEF PruneCall, Knows
<1> DEFINE A == [work[w] EXCEPT !.at = "pruned", !.b = b, !.todo = @ \ {b}]
           B == [work[w] EXCEPT !.todo = @ \ {b}]
<1>3. A \in Worker /\ A.at = "pruned" /\ A.b = b /\ A.todo = work[w].todo \ {b}
  <2>1. b \in Nat /\ work[w].todo \ {b} \in SUBSET Backups
    BY <1>1 DEF Worker, Backups
  <2> QED
    BY <1>1, <2>1 DEF Worker, Points
<1>4. B \in Worker /\ B.at = "pruneNext" /\ B.todo = work[w].todo \ {b}
  BY <1>1, <1>2 DEF Worker, Points
<1>5. work' = [work EXCEPT ![w] = A] \/ work' = [work EXCEPT ![w] = B]
  BY <1>1 DEF PruneCall, TypeOK
<1> HIDE DEF A, B
<1>6. /\ work' \in [Actors -> Worker] /\ work'[w] \in {A, B}
      /\ \A v \in Actors \ {w} : work'[v] = work[v]
  BY <1>1, <1>3, <1>4, <1>5 DEF TypeOK
<1>7. UNCHANGED <<rowVars, files, panelVars, doomed>> /\ remote' \in {remote, remote \ {b}}
  BY DEF PruneCall
<1>8. TypeOK'
  BY <1>1, <1>6, <1>7 DEF TypeOK
<1>9. Knows(w)'
  BY <1>2, <1>3, <1>4, <1>6, <1>7 DEF Knows, OnBackup
<1>10. \A c \in Backups \ doomed' : Stored(c) => Stored(c)'
  BY <1>2, <1>7 DEF Stored
<1> QED
  BY <1>2, <1>6, <1>7, <1>8, <1>9, <1>10, FrameInv

\* known is the record DeleteBackup continues from: a fresh one, or the
\* scheduler's with its list.
LEMMA DeleteBeginInv ==
    ASSUME IInv, NEW w \in Actors, NEW b \in Backups, NEW known \in Worker,
           DeleteBegin(w, b, known)
    PROVE  IInv'
<1> USE DEF storeVars, panelVars, rowVars
<1>1. TypeOK
  BY DEF IInv
<1> DEFINE A(k) == [known EXCEPT !.at = k, !.b = b, !.n = node, !.loc = local[b]]
<1>2. PICK k \in {"idle", "next", "delRemote", "delLocal", "delRow"} :
          work' = [work EXCEPT ![w] = IF k = "idle" THEN Idle ELSE A(k)]
  BY DEF DeleteBegin, DeleteReturns
<1>3. A(k) \in Worker /\ A(k).at = k /\ A(k).b = b /\ A(k).n = node
  <2>1. b \in Nat /\ k \in Points /\ node \in Nodes /\ local[b] \in BOOLEAN
    BY <1>1, <1>2 DEF Points, TypeOK, Backups
  <2> QED
    BY <2>1 DEF Worker
<1>4. Idle \in Worker /\ Idle.at = "idle"
  BY IdleType DEF Idle
<1> HIDE DEF A
<1>5. /\ work' \in [Actors -> Worker]
      /\ work'[w] = IF k = "idle" THEN Idle ELSE A(k)
      /\ \A v \in Actors \ {w} : work'[v] = work[v]
  BY <1>1, <1>2, <1>3, <1>4 DEF TypeOK
<1>6. UNCHANGED <<rowVars, storeVars, panelVars>> /\ doomed' = doomed \cup {b}
  BY DEF DeleteBegin
<1>7. TypeOK'
  BY <1>1, <1>5, <1>6 DEF TypeOK
<1>8. Knows(w)'
  BY <1>1, <1>2, <1>3, <1>4, <1>5, <1>6 DEF Knows, OnBackup, TypeOK
<1>9. \A c \in Backups \ doomed' : Stored(c) => Stored(c)'
  BY <1>6 DEF Stored
<1> QED
  BY <1>5, <1>6, <1>7, <1>8, <1>9, FrameInv

LEMMA ScheduleSelectInv ==
    ASSUME IInv, NEW w \in Actors, ScheduleSelect(w)
    PROVE  IInv'
<1> USE DEF storeVars, panelVars, rowVars
<1>1. TypeOK /\ work[w] \in Worker
  BY DEF IInv, TypeOK
<1>2. PICK T \in SUBSET Backups :
          work' = [work EXCEPT ![w].at = "next", ![w].todo = T]
  <2>1. PICK k \in Nat : work' = [work EXCEPT ![w].at = "next", ![w].todo =
                {b \in rows : b <= k} \cup
                (IF RetentionCount > 0
                 THEN BeyondNewest({b \in rows : status[b] = "completed"}, RetentionCount)
                 ELSE {})]
    BY DEF ScheduleSelect
  <2> DEFINE T == {b \in rows : b <= k} \cup
                (IF RetentionCount > 0
                 THEN BeyondNewest({b \in rows : status[b] = "completed"}, RetentionCount)
                 ELSE {})
  <2>2. T \in SUBSET Backups
    BY <1>1 DEF BeyondNewest, TypeOK
  <2> HIDE DEF T
  <2>3. work' = [work EXCEPT ![w].at = "next", ![w].todo = T]
    BY <2>1 DEF T
  <2> QED
    BY <2>2, <2>3
<1> DEFINE A == [work[w] EXCEPT !.at = "next", !.todo = T]
<1>3. A \in Worker /\ A.at = "next"
  BY <1>1 DEF Worker, Points
<1>4. work' = [work EXCEPT ![w] = A]
  BY <1>1, <1>2 DEF TypeOK
<1> HIDE DEF A
<1>5. /\ work' \in [Actors -> Worker] /\ work'[w] = A
      /\ \A v \in Actors \ {w} : work'[v] = work[v]
  BY <1>1, <1>3, <1>4 DEF TypeOK
<1>6. UNCHANGED <<rowVars, storeVars, panelVars, doomed>>
  BY DEF ScheduleSelect
<1>7. TypeOK'
  BY <1>1, <1>5, <1>6 DEF TypeOK
<1>8. Knows(w)'
  BY <1>3, <1>5 DEF Knows, OnBackup
<1>9. \A b \in Backups \ doomed' : Stored(b) => Stored(b)'
  BY <1>6 DEF Stored
<1> QED
  BY <1>5, <1>6, <1>7, <1>8, <1>9, FrameInv

LEMMA ScheduleDeleteInv ==
    ASSUME IInv, NEW w \in Actors, NEW b \in Backups, ScheduleDelete(w, b)
    PROVE  IInv'
<1> USE DEF storeVars, panelVars, rowVars
<1> DEFINE A == [work[w] EXCEPT !.todo = @ \ {b}]
<1>1. TypeOK /\ work[w] \in Worker
  BY DEF IInv, TypeOK
<1>2. A \in Worker /\ A.at = "next"
  BY <1>1 DEF Worker, ScheduleDelete
<1>3. CASE DeleteBegin(w, b, A)
  <2> HIDE DEF A
  <2> QED
    BY <1>2, <1>3, DeleteBeginInv
<1>4. CASE /\ work' = [work EXCEPT ![w] = A]
           /\ UNCHANGED <<rowVars, storeVars, panelVars, doomed>>
  <2> HIDE DEF A
  <2>1. /\ work' \in [Actors -> Worker] /\ work'[w] = A
        /\ \A v \in Actors \ {w} : work'[v] = work[v]
    BY <1>1, <1>2, <1>4 DEF TypeOK
  <2>2. TypeOK'
    BY <1>1, <1>4, <2>1 DEF TypeOK
  <2>3. Knows(w)'
    BY <1>2, <2>1 DEF Knows, OnBackup
  <2>4. \A c \in Backups \ doomed' : Stored(c) => Stored(c)'
    BY <1>4 DEF Stored
  <2> QED
    BY <1>4, <2>1, <2>2, <2>3, <2>4, FrameInv
<1> QED
  BY <1>3, <1>4 DEF ScheduleDelete

-----------------------------------------------------------------------------
(* Migration, panel restart *)

LEMMA PanelInv ==
    ASSUME IInv, Crash \/ ResetUploads \/ \E n \in Nodes : Migrate(n)
    PROVE  IInv'
<1> USE DEF storeVars, panelVars, rowVars
<1>1. TypeOK /\ WorkersKnow /\ DataSafe /\ DoneSafe
  BY DEF IInv
<1>2. CASE Crash
  <2>1. PICK W \in SUBSET {w \in Actors : work[w].at = "archiving"} :
            files' = files \cup {<<work[w].n, work[w].b>> : w \in W}
    BY <1>2 DEF Crash
  <2>2. \A w \in W : work[w].n \in Nodes /\ work[w].b \in Backups
    BY <1>1 DEF WorkersKnow, Knows, OnBackup
  <2>3. files' \subseteq Nodes \X Backups /\ files \subseteq files'
    BY <1>1, <2>1, <2>2 DEF TypeOK
  <2>4. work' = [w \in Actors |-> Idle] /\ UNCHANGED <<rowVars, remote, dests, node, doomed>>
    BY <1>2 DEF Crash
  <2>5. crashes' \in 0..MaxCrashes /\ booted' \in BOOLEAN
    <3>1. crashes \in 0..MaxCrashes /\ crashes < MaxCrashes /\ crashes' = crashes + 1
      BY <1>1, <1>2 DEF Crash, TypeOK
    <3>2. crashes' \in 0..MaxCrashes
      BY <3>1
    <3>3. booted' \in BOOLEAN
      BY <1>2 DEF Crash
    <3> QED
      BY <3>2, <3>3
  <2>6. work' \in [Actors -> Worker] /\ \A w \in Actors : work'[w].at = "idle"
    BY <2>4, IdleType DEF Idle
  <2>10. cut' \subseteq Nat
    <3>1. \A w \in Workers : work[w].b \in Nat
      BY <1>1 DEF TypeOK, Worker, Actors
    <3>2. cut \subseteq Nat /\ cut' = cut \cup {work[w].b : w \in {v \in Workers : work[v].at \in OnBackup}}
      BY <1>1, <1>2 DEF Crash, TypeOK
    <3> QED
      BY <3>1, <3>2
  <2>7. TypeOK'
    BY <1>1, <2>3, <2>4, <2>5, <2>6, <2>10 DEF TypeOK
  <2>8. WorkersKnow'
    BY <2>6 DEF WorkersKnow, Knows, OnBackup
  <2>9. DataSafe' /\ DoneSafe'
    BY <1>1, <2>3, <2>4 DEF DataSafe, DoneSafe, Stored
  <2> QED
    BY <2>7, <2>8, <2>9 DEF IInv
<1>3. CASE ResetUploads
  <2>1. /\ upload' \in [Backups -> UploadStatuses]
        /\ \A b \in Backups : upload'[b] = upload[b] \/ upload'[b] # "done"
    BY <1>1, <1>3 DEF ResetUploads, TypeOK, UploadStatuses
  <2>2. TypeOK'
    BY <1>1, <1>3, <2>1 DEF ResetUploads, TypeOK
  <2>3. WorkersKnow'
    BY <1>1, <1>3 DEF ResetUploads, WorkersKnow, Knows, Stored
  <2>4. DataSafe' /\ DoneSafe'
    BY <1>1, <1>3, <2>1 DEF ResetUploads, DataSafe, DoneSafe, Stored
  <2> QED
    BY <2>2, <2>3, <2>4 DEF IInv
<1>4. CASE \E n \in Nodes : Migrate(n)
  <2>1. TypeOK'
    BY <1>1, <1>4 DEF Migrate, TypeOK
  <2>2. WorkersKnow'
    BY <1>1, <1>4 DEF Migrate, WorkersKnow, Knows, Stored
  <2>3. DataSafe' /\ DoneSafe'
    BY <1>1, <1>4 DEF Migrate, DataSafe, DoneSafe, Stored
  <2> QED
    BY <2>1, <2>2, <2>3 DEF IInv
<1> QED
  BY <1>2, <1>3, <1>4

-----------------------------------------------------------------------------
(* Every step keeps the inductive invariant *)

LEMMA RequestInv ==
    ASSUME IInv, NEW w \in Workers, Request(w)
    PROVE  IInv'
<1>1. w \in Actors /\ TypeOK
  BY DEF Actors, IInv
<1>2. ASSUME NEW d \in dests \cup {None}, CreateBackup(w, d) \/ RunSchedule(w, d)
      PROVE  IInv'
  BY <1>2, CreateInv
<1>3. ASSUME NEW b \in Backups, RetryCheck(w, b)
      PROVE  IInv'
  <2>1. b \in Nat /\ dest[b] \in Destinations \cup {None}
    BY <1>1 DEF TypeOK, Backups
  <2> QED
    BY <1>1, <1>3, <2>1, StartedInv DEF RetryCheck
<1>4. ASSUME NEW b \in Backups, DeleteBackup(w, b)
      PROVE  IInv'
  BY <1>1, <1>4, IdleType, DeleteBeginInv DEF DeleteBackup
<1>5. ASSUME NEW d \in dests, DestinationCheck(w, d)
      PROVE  IInv'
  <2>1. d \in Destinations \cup {None} /\ 0 \in Nat
    BY <1>1 DEF TypeOK
  <2> QED
    BY <1>1, <1>5, <2>1, StartedInv DEF DestinationCheck
<1> QED
  BY <1>2, <1>3, <1>4, <1>5 DEF Request

LEMMA WorkerStepInv ==
    ASSUME IInv, NEW w \in Actors, WorkerStep(w) \/ ScheduleStep(w)
    PROVE  IInv'
<1>1. ArchiveStep(w) => IInv'
  BY StartArchiveInv, ArchiveCallInv, RecordArchiveInv, FailBackupInv DEF ArchiveStep
<1>2. UploadStep(w) => IInv'
  BY BeginUploadInv, RefuseUploadInv, UploadCallInv, FailUploadInv, RecordUploadInv, DropLocalInv,
     RecordDropInv, PruneSelectInv, PruneCallInv, PruneRecordInv, PruneDoneInv, RetryGoInv
     DEF UploadStep
<1>3. DeleteStep(w) => IInv'
  BY DeleteRemoteInv, DeleteLocalInv, DeleteRowInv DEF DeleteStep
<1>4. ScheduleStep(w) => IInv'
  BY ScheduleSelectInv, ScheduleDeleteInv, ScheduleDoneInv DEF ScheduleStep
<1>5. DestinationDelete(w) => IInv'
  BY DestinationDeleteInv
<1> QED
  BY <1>1, <1>2, <1>3, <1>4, <1>5 DEF WorkerStep

LEMMA NextInv ==
    ASSUME IInv, [Next]_vars
    PROVE  IInv'
<1>1. CASE \E w \in Workers : Request(w) \/ WorkerStep(w)
  BY <1>1, RequestInv, WorkerStepInv DEF Actors
<1>2. CASE ScheduleStep(Scheduler) \/ DeleteStep(Scheduler)
  BY <1>2, WorkerStepInv DEF Actors, WorkerStep
<1>3. CASE Crash \/ ResetUploads \/ \E n \in Nodes : Migrate(n)
  BY <1>3, PanelInv
<1>4. CASE UNCHANGED vars
  BY <1>4 DEF vars, rowVars, storeVars, panelVars, IInv, TypeOK, WorkersKnow, Knows, DataSafe,
              DoneSafe, Stored
<1> QED
  BY <1>1, <1>2, <1>3, <1>4 DEF Next

\* The inductive invariant: IInv holds in every reachable state.
THEOREM Inductive == Spec => []IInv
<1>1. Init => IInv
  BY InitInv
<1>2. IInv /\ [Next]_vars => IInv'
  BY NextInv
<1> QED
  BY <1>1, <1>2, PTL DEF Spec

\* The columns of the backup tables, the archives, the off-site copies and what
\* every goroutine remembers stay within their types.
THEOREM TypeCorrect == Spec => []TypeOK
<1>1. IInv => TypeOK
  BY DEF IInv
<1> QED
  BY <1>1, Inductive, PTL

\* A completed backup has a copy somewhere, and a row that says uploaded has its
\* off-site copy, until a delete or a retention run picks the backup, whatever
\* uploads, retries, migrations and panel restarts do (uploadBackup: "A failed
\* upload never touches the local archive", and done is recorded after the call).
THEOREM CopiesAreKept == Spec => []CopiesKept
<1>1. IInv => DataKept
  BY DEF IInv, TypeOK, DataSafe, DataKept
<1>2. IInv => DoneIsRemote
  BY DEF IInv, TypeOK, DoneSafe, DoneIsRemote
<1>3. IInv => CopiesKept
  BY <1>1, <1>2 DEF CopiesKept
<1> QED
  BY <1>3, Inductive, PTL
-----------------------------------------------------------------------------
(* How a goroutine goes on, and what an UPDATE changes.                     *)

\* Everything a goroutine knows stays what it is when it goes on.
Keeps(w) ==
    /\ work'[w].b = work[w].b /\ work'[w].d = work[w].d /\ work'[w].n = work[w].n
    /\ work'[w].todo = work[w].todo /\ work'[w].kept = work[w].kept

LEMMA GoKeeps ==
    ASSUME IInv, NEW w \in Actors, NEW k \in Points, Go(w, k)
    PROVE  /\ \A v \in Actors \ {w} : work'[v] = work[v]
           /\ work'[w].at = k
           /\ k # "idle" => Keeps(w)
           /\ work'[w].todo \subseteq work[w].todo
<1>0. work \in [Actors -> Worker] /\ work[w] \in Worker
  BY DEF IInv, TypeOK
<1>1. PICK x : work' = [work EXCEPT ![w] = x] /\ x = At(w, k)
  BY DEF Go
<1>2. work'[w] = x /\ \A v \in Actors \ {w} : work'[v] = work[v]
  BY <1>0, <1>1
<1>3. CASE k = "idle"
  BY <1>1, <1>2, <1>3 DEF At, Idle
<1>4. CASE k # "idle"
  <2>1. x = [work[w] EXCEPT !.at = k]
    BY <1>1, <1>4 DEF At
  <2> QED
    BY <1>0, <1>2, <1>4, <2>1 DEF Keeps, Worker
<1> QED
  BY <1>3, <1>4

\* UPDATE changes the one row, if it is there.
LEMMA SetOne ==
    ASSUME IInv, NEW R, NEW f \in [Backups -> R], NEW b, NEW v, NEW c \in rows
    PROVE  Set(f, b, v)[c] = IF c = b THEN v ELSE f[c]
  BY DEF Set, IInv, TypeOK

-----------------------------------------------------------------------------
(* Retention by count keeps the newest completed backup, for any number of  *)
(* goroutines.                                                              *)

\* What is beyond the newest keep members has a newer member.
LEMMA BeyondHasNewer ==
    ASSUME NEW S, NEW keep \in Nat, keep > 0, NEW b \in BeyondNewest(S, keep)
    PROVE  \E c \in S : c > b
<1>1. Cardinality({c \in S : c > b}) >= keep
  BY DEF BeyondNewest
<1>2. {c \in S : c > b} # {}
  BY <1>1, FS_EmptySet
<1> QED
  BY <1>2

LEMMA OutlivedStays ==
    ASSUME rows \subseteq rows', \A c \in rows : status[c] = "completed" => status'[c] = "completed", NEW b, Outlived(b)
    PROVE  Outlived(b)'
  BY DEF Outlived

\* A row that goes is outlived itself, so whoever it outlived still is.
LEMMA OutlivedInTurn ==
    ASSUME IInv, NEW x \in Nat, Outlived(x), rows' = rows \ {x}, status' = status, NEW b \in Nat, Outlived(b)
    PROVE  Outlived(b)'
<1>0. \A c \in rows : c \in Nat
  BY DEF IInv, TypeOK, Backups
<1>1. PICK c \in rows : c > b /\ status[c] = "completed"
  BY DEF Outlived
<1>2. PICK d \in rows : d > x /\ status[d] = "completed"
  BY DEF Outlived
<1>3. CASE c # x
  BY <1>1, <1>3 DEF Outlived
<1>4. CASE c = x
  <2>1. d > b /\ d # x
    BY <1>0, <1>1, <1>2, <1>4
  <2> QED
    BY <1>2, <2>1 DEF Outlived
<1> QED
  BY <1>3, <1>4

\* What a step of goroutine w leaves of the rows: those that stay keep their
\* status, except the one w archives.
RowsStay(w) ==
    /\ nextId' = nextId /\ rows' \subseteq rows
    /\ \A c \in rows' : status'[c] = status[c] \/ (c = work[w].b /\ work[w].at \in Archives)
    /\ \A b \in Nat : Outlived(b) => Outlived(b)'

LEMMA RetFrame ==
    ASSUME IInv, Retained, NEW w \in Actors, \A v \in Actors \ {w} : work'[v] = work[v], RowsStay(w), UploadedIsCompleted',
           work'[w].at \in Archives => work[w].at \in Archives /\ work'[w].b = work[w].b,
           InOrder(w)', PickedOutlived(w)'
    PROVE  Retained'
<1>0. work \in [Actors -> Worker] /\ \A v \in Actors : work[v].b \in Nat /\ work[v].todo \subseteq Nat
  BY DEF IInv, TypeOK, Worker, Backups
<1>1. ArchivedOnce'
  BY DEF Retained, ArchivedOnce
<1>2. ASSUME NEW v \in Actors \ {w} PROVE InOrder(v)' /\ PickedOutlived(v)'
  <2>1. InOrder(v) /\ PickedOutlived(v) /\ InOrder(w) /\ work'[v] = work[v]
    BY DEF Retained
  <2>2. PickedOutlived(v)'
    BY <1>0, <2>1 DEF PickedOutlived, RowsStay
  <2>3. ASSUME work[v].at \in Archives \cup Uploads, work[v].b \in rows' PROVE status'[work[v].b] = status[work[v].b]
    <3>1. ASSUME work[v].b = work[w].b, work[w].at \in Archives PROVE FALSE
      BY <1>2, <2>1, <2>3, <3>1 DEF InOrder, Retained, ArchivedOnce, RowsStay
    <3> QED
      BY <2>3, <3>1 DEF RowsStay
  <2>4. InOrder(v)'
    BY <2>1, <2>3 DEF InOrder, RowsStay
  <2> QED
    BY <2>2, <2>4
<1> QED
  BY <1>1, <1>2 DEF Retained

\* A goroutine that goes on at k.
LEMMA RetGo ==
    ASSUME IInv, Retained, NEW w \in Actors, NEW k \in Points, Go(w, k), RowsStay(w), UploadedIsCompleted',
           k \in Archives => work[w].at \in Archives,
           k \in Archives /\ work[w].b \in rows' => status'[work[w].b] \in {"pending", "running"},
           k \in Uploads => work[w].at \in Archives \cup Uploads,
           k \in Uploads /\ work[w].b \in rows' => status'[work[w].b] = "completed",
           k = "prune" => RemoteRetention > 0,
           k \in {"delRemote", "delLocal", "delRow"} => work[w].at \in {"delRemote", "delLocal"},
           k # "pruned"
    PROVE  Retained'
<1>0. work[w].b \in Nat /\ work[w].todo \subseteq Nat
  BY DEF IInv, TypeOK, Worker, Backups
<1>1. /\ \A v \in Actors \ {w} : work'[v] = work[v]
      /\ work'[w].at = k /\ work'[w].todo \subseteq work[w].todo
      /\ k # "idle" => work'[w].b = work[w].b
  BY GoKeeps DEF Keeps
<1>2. InOrder(w) /\ PickedOutlived(w)
  BY DEF Retained
<1>3. InOrder(w)'
  BY <1>1, <1>2 DEF InOrder, RowsStay, Archives, Uploads
<1>4. PickedOutlived(w)'
  BY <1>0, <1>1, <1>2 DEF PickedOutlived, RowsStay
<1>5. k \in Archives => work'[w].b = work[w].b
  BY <1>1 DEF Archives
<1> QED
  BY <1>1, <1>3, <1>4, <1>5, RetFrame

\* The steps that leave the rows alone.
LEMMA RowsAlone ==
    ASSUME NEW w, UNCHANGED <<rows, nextId, status>> PROVE RowsStay(w)
  BY DEF RowsStay, Outlived

LEMMA RetArchive ==
    ASSUME IInv, Retained, NEW w \in Actors, ArchiveStep(w) PROVE Retained'
<1>0. /\ InOrder(w) /\ UploadedIsCompleted /\ rows \subseteq Backups
      /\ status \in [Backups -> Statuses] /\ upload \in [Backups -> UploadStatuses]
  BY DEF Retained, IInv, TypeOK
<1>1. work[w].at \in Archives /\ UNCHANGED <<rows, nextId>>
  BY DEF ArchiveStep, StartArchive, ArchiveCall, RecordArchive, FailBackup, FailRow, rowVars, Archives
<1>2. work[w].b \in rows => status[work[w].b] \in {"pending", "running"} /\ upload[work[w].b] # "done"
  BY <1>0, <1>1 DEF InOrder, UploadedIsCompleted
<1>3. PICK x \in {"pending", "running", "completed", "failed"}, k \in {"idle", "archiving", "archived", "archiveFailed", "upload"} :
          /\ Go(w, k) /\ (k = "upload" => x = "completed")
          /\ k \in Archives /\ work[w].b \in rows => x \in {"pending", "running"}
          /\ status' = Set(status, work[w].b, x)
          /\ upload' = upload \/ \E y \in {"null", "failed"} : upload' = Set(upload, work[w].b, y)
  <2>1. CASE FailRow(work[w].b) /\ Go(w, "idle")
    BY <2>1 DEF FailRow, Archives
  <2>2. CASE StartArchive(w) /\ ~FailRow(work[w].b)
    BY <2>2 DEF StartArchive, Archives
  <2>3. CASE ArchiveCall(w)
    <3>1. PICK k \in {"idle", "archived", "archiveFailed"} : Go(w, k)
      BY <2>3 DEF ArchiveCall, TransferFails
    <3>2. status' = status /\ upload' = upload
      BY <2>3 DEF ArchiveCall, rowVars
    <3>3. PICK x \in {"pending", "running", "completed", "failed"} :
              status = Set(status, work[w].b, x) /\ (work[w].b \in rows => x \in {"pending", "running"})
      <4>1. CASE work[w].b \in rows
        <5>1. status = [status EXCEPT ![work[w].b] = status[work[w].b]]
          BY <1>0, <4>1
        <5> QED
          BY <1>2, <4>1, <5>1 DEF Set
      <4>2. CASE work[w].b \notin rows
        BY <4>2 DEF Set
      <4> QED
        BY <4>1, <4>2
    <3> QED
      BY <3>1, <3>2, <3>3
  <2>4. CASE RecordArchive(w)
    BY <2>4 DEF RecordArchive, Archives
  <2> QED
    BY <2>1, <2>2, <2>3, <2>4 DEF ArchiveStep, StartArchive, FailBackup
<1>4. \A c \in rows : status'[c] = IF c = work[w].b THEN x ELSE status[c]
  BY <1>0, <1>3, SetOne
<1>5. \A c \in rows : upload'[c] = "done" => upload[c] = "done" /\ c # work[w].b
  <2>1. CASE upload' = upload
    BY <1>2, <2>1
  <2>2. ASSUME NEW y \in {"null", "failed"}, upload' = Set(upload, work[w].b, y) PROVE \A c \in rows : upload'[c] = "done" => upload[c] = "done" /\ c # work[w].b
    BY <1>0, <2>2, SetOne
  <2> QED
    BY <1>3, <2>1, <2>2
<1>6. UploadedIsCompleted'
  BY <1>0, <1>1, <1>4, <1>5 DEF UploadedIsCompleted
<1>7. \A c \in rows : status[c] = "completed" => status'[c] = "completed"
  BY <1>2, <1>4
<1>8. RowsStay(w)
  BY <1>1, <1>4, <1>7, OutlivedStays DEF RowsStay
<1>9. k \in Points /\ (k \in Uploads => k = "upload") /\ k \notin {"prune", "pruned", "delRemote", "delLocal", "delRow"}
  BY <1>3 DEF Points, Uploads
<1> QED
  BY <1>1, <1>3, <1>4, <1>6, <1>8, <1>9, RetGo
\* uploadBackup and RetryUpload: the row has been completed.
LEMMA RetUpload ==
    ASSUME IInv, Retained, NEW w \in Actors,
           BeginUpload(w) \/ RefuseUpload(w) \/ UploadCall(w) \/ FailUpload(w) \/ RecordUpload(w) \/ RetryGo(w) \/ DropLocal(w) \/ RecordDrop(w)
    PROVE  Retained'
<1>0. InOrder(w) /\ UploadedIsCompleted /\ rows \subseteq Backups /\ upload \in [Backups -> UploadStatuses]
  BY DEF Retained, IInv, TypeOK
<1>1. PICK k \in {"idle", "upload", "uploading", "uploaded", "uploadFailed", "dropLocal", "dropped", "prune"} :
          Go(w, k) /\ work[w].at \in Uploads /\ (k = "prune" => RemoteRetention > 0)
  <2>1. CASE UploadCall(w)
    BY <2>1 DEF UploadCall, TransferFails, Uploads
  <2>2. CASE DropLocal(w)
    <3>1. PICK k \in {"dropped", AfterUpload} : Go(w, k)
      BY <2>2 DEF DropLocal
    <3> QED
      BY <2>2, <3>1 DEF DropLocal, AfterUpload, Uploads
  <2>3. CASE RecordUpload(w) \/ RecordDrop(w)
    BY <2>3 DEF RecordUpload, RecordDrop, AfterUpload, Uploads
  <2>4. CASE BeginUpload(w) \/ RefuseUpload(w) \/ FailUpload(w) \/ RetryGo(w)
    BY <2>4 DEF BeginUpload, RefuseUpload, FailUpload, RetryGo, Uploads
  <2> QED
    BY <2>1, <2>2, <2>3, <2>4
<1>2. UNCHANGED <<rows, nextId, status>>
  BY DEF BeginUpload, RefuseUpload, UploadCall, FailUpload, RecordUpload, RetryGo, DropLocal, RecordDrop, SetUpload, rowVars
<1>3. \A c \in rows : c # work[w].b => upload'[c] = upload[c]
  <2>1. upload' = upload \/ \E v : upload' = Set(upload, work[w].b, v)
    BY DEF BeginUpload, RefuseUpload, UploadCall, FailUpload, RecordUpload, RetryGo, DropLocal, RecordDrop, SetUpload, rowVars
  <2> QED
    BY <1>0, <2>1, SetOne
<1>4. work[w].b \in rows => status[work[w].b] = "completed"
  BY <1>0, <1>1 DEF InOrder
<1>5. UploadedIsCompleted'
  BY <1>0, <1>2, <1>3, <1>4 DEF UploadedIsCompleted
<1>6. k \in Points /\ k \notin Archives /\ k \notin {"pruned", "delRemote", "delLocal", "delRow"}
  BY <1>1 DEF Points, Archives
<1> QED
  BY <1>1, <1>2, <1>4, <1>5, <1>6, RowsAlone, RetGo

\* pruneRemote lists what is beyond the newest, and takes it off the list.
LEMMA RetPrune ==
    ASSUME IInv, Retained, NEW w \in Actors, PruneSelect(w) \/ (\E b \in Backups : PruneCall(w, b)) PROVE Retained'
<1>0. /\ InOrder(w) /\ PickedOutlived(w) /\ UploadedIsCompleted
      /\ work \in [Actors -> Worker] /\ work[w] \in Worker /\ rows \subseteq Backups
  BY DEF Retained, IInv, TypeOK
<1>1. UNCHANGED <<rows, nextId, status, upload>>
  BY DEF PruneSelect, PruneCall, rowVars
<1>2. UploadedIsCompleted' /\ RowsStay(w)
  BY <1>0, <1>1, RowsAlone DEF UploadedIsCompleted
<1>3. CASE PruneSelect(w)
  <2>1. PICK old : /\ old = BeyondNewest({b \in rows : dest[b] = work[w].d /\ upload[b] = "done"}, RemoteRetention)
                   /\ work' = [work EXCEPT ![w].at = "pruneNext", ![w].todo = old, ![w].kept = {b \in old : local[b]}]
    BY <1>3 DEF PruneSelect
  <2>2. work'[w].at = "pruneNext" /\ work'[w].todo = old /\ \A v \in Actors \ {w} : work'[v] = work[v]
    BY <1>0, <2>1 DEF Worker
  <2>3. RemoteRetention \in Nat /\ RemoteRetention > 0
    BY <1>0, <1>3 DEF PruneSelect, InOrder
  <2>4. ASSUME NEW b \in old PROVE Outlived(b)'
    <3>0. PICK S : S = {c \in rows : dest[c] = work[w].d /\ upload[c] = "done"}
      OBVIOUS
    <3>a. b \in BeyondNewest(S, RemoteRetention)
      BY <2>1, <2>4, <3>0
    <3>b. \E c \in S : c > b
      BY <2>3, <3>a, BeyondHasNewer
    <3>1. PICK c \in rows : c > b /\ upload[c] = "done"
      BY <3>0, <3>b
    <3> QED
      BY <1>0, <1>1, <3>1 DEF UploadedIsCompleted, Outlived
  <2>5. InOrder(w)' /\ PickedOutlived(w)'
    BY <2>2, <2>4 DEF InOrder, PickedOutlived, Archives, Uploads
  <2>6. work'[w].at \notin Archives
    BY <2>2 DEF Archives
  <2> QED
    BY <1>2, <2>2, <2>5, <2>6, RetFrame
<1>4. ASSUME NEW b \in Backups, PruneCall(w, b) PROVE Retained'
  <2>1. \/ work' = [work EXCEPT ![w].at = "pruned", ![w].b = b, ![w].todo = @ \ {b}]
        \/ work' = [work EXCEPT ![w].todo = @ \ {b}]
    BY <1>4 DEF PruneCall
  <2>2. b \in work[w].todo /\ work[w].at = "pruneNext"
    BY <1>4 DEF PruneCall
  <2>3. /\ work'[w].at \in {"pruned", "pruneNext"} /\ work'[w].todo \subseteq work[w].todo
        /\ work'[w].at = "pruned" => work'[w].b = b
        /\ \A v \in Actors \ {w} : work'[v] = work[v]
    BY <1>0, <2>1, <2>2 DEF Worker
  <2>4. \A c \in work[w].todo : Outlived(c)'
    BY <1>0, <1>1 DEF PickedOutlived, Outlived
  <2>5. PickedOutlived(w)'
    BY <2>2, <2>3, <2>4 DEF PickedOutlived
  <2>6. InOrder(w)' /\ work'[w].at \notin Archives
    BY <2>3 DEF InOrder, Archives, Uploads
  <2> QED
    BY <1>2, <2>3, <2>5, <2>6, RetFrame
<1> QED
  BY <1>3, <1>4

\* The steps that remove a row remove one that is outlived.
LEMMA RetRemove ==
    ASSUME IInv, Retained, NEW w \in Actors, PruneRecord(w) \/ PruneDone(w) \/ DeleteStep(w) \/ ScheduleDone(w)
    PROVE  Retained'
<1>0. /\ InOrder(w) /\ PickedOutlived(w) /\ UploadedIsCompleted /\ rows \subseteq Backups /\ upload \in [Backups -> UploadStatuses]
      /\ work[w].b \in Nat
  BY DEF Retained, IInv, TypeOK, Worker
<1>1. PICK k \in {"idle", "next", "pruneNext", "delLocal", "delRow"} :
          Go(w, k) /\ (k \in {"delLocal", "delRow"} => work[w].at \in {"delRemote", "delLocal"})
  BY DEF PruneRecord, PruneDone, DeleteStep, DeleteRemote, DeleteLocal, DeleteRow, ScheduleDone, DeleteReturns
<1>2. nextId' = nextId /\ status' = status
  BY DEF PruneRecord, PruneDone, DeleteStep, DeleteRemote, DeleteLocal, DeleteRow, ScheduleDone, rowVars
<1>3. rows' = rows \/ (rows' = rows \ {work[w].b} /\ work[w].at \in {"pruned", "delRow"})
  BY DEF PruneRecord, PruneDone, DeleteStep, DeleteRemote, DeleteLocal, DeleteRow, ScheduleDone, rowVars
<1>4. RowsStay(w)
  <2>1. CASE rows' = rows
    BY <1>2, <2>1, RowsAlone
  <2>2. CASE rows' = rows \ {work[w].b} /\ work[w].at \in {"pruned", "delRow"}
    <3>1. Outlived(work[w].b)
      BY <1>0, <2>2 DEF PickedOutlived
    <3> QED
      BY <1>0, <1>2, <2>2, <3>1, OutlivedInTurn DEF RowsStay
  <2> QED
    BY <1>3, <2>1, <2>2
<1>5. \A c \in rows : upload'[c] = "done" => upload[c] = "done"
  <2>1. upload' = upload \/ upload' = Set(upload, work[w].b, "null")
    BY DEF PruneRecord, PruneDone, DeleteStep, DeleteRemote, DeleteLocal, DeleteRow, ScheduleDone, rowVars
  <2> QED
    BY <1>0, <2>1, SetOne
<1>6. UploadedIsCompleted'
  BY <1>0, <1>2, <1>3, <1>5 DEF UploadedIsCompleted
<1>7. k \in Points /\ k \notin Archives \cup Uploads /\ k \notin {"prune", "pruned"}
  BY <1>1 DEF Points, Archives, Uploads
<1> QED
  BY <1>1, <1>4, <1>6, <1>7, RetGo

LEMMA RetDestination ==
    ASSUME IInv, Retained, NEW w \in Actors, DestinationDelete(w) PROVE Retained'
<1>1. UNCHANGED <<rows, nextId, status, upload>> /\ Go(w, "idle") /\ "idle" \in Points /\ "idle" \notin Archives \cup Uploads
  BY DEF DestinationDelete, Points, Archives, Uploads
<1>2. UploadedIsCompleted'
  BY <1>1 DEF Retained, UploadedIsCompleted
<1> QED
  BY <1>1, <1>2, RowsAlone, RetGo

\* The scheduler lists completed rows beyond the newest, and nothing by age.
LEMMA RetSchedule ==
    ASSUME CountAlone, IInv, Retained, NEW w \in Actors, ScheduleSelect(w) \/ (\E b \in Backups : ScheduleDelete(w, b))
    PROVE  Retained'
<1>0. /\ PickedOutlived(w) /\ UploadedIsCompleted
      /\ work \in [Actors -> Worker] /\ work[w] \in Worker /\ rows \subseteq Backups
  BY DEF Retained, IInv, TypeOK
<1>1. UNCHANGED <<rows, nextId, status, upload>>
  BY DEF ScheduleSelect, ScheduleDelete, DeleteBegin, rowVars
<1>2. UploadedIsCompleted' /\ RowsStay(w)
  BY <1>0, <1>1, RowsAlone DEF UploadedIsCompleted
<1>3. CASE ScheduleSelect(w)
  <2>1. PICK T : /\ T = {b \in rows : b <= 0} \cup
                        (IF RetentionCount > 0 THEN BeyondNewest({b \in rows : status[b] = "completed"}, RetentionCount) ELSE {})
                 /\ work' = [work EXCEPT ![w].at = "next", ![w].todo = T]
    <3>1. PICK k \in {0} : work' = [work EXCEPT ![w].at = "next", ![w].todo =
                {b \in rows : b <= k} \cup
                (IF RetentionCount > 0
                 THEN BeyondNewest({b \in rows : status[b] = "completed"}, RetentionCount)
                 ELSE {})]
      BY <1>3 DEF ScheduleSelect, CountAlone
    <3>2. k = 0
      OBVIOUS
    <3> QED
      BY <3>1, <3>2
  <2>2. work'[w].at = "next" /\ work'[w].todo = T /\ \A v \in Actors \ {w} : work'[v] = work[v]
    BY <1>0, <2>1 DEF Worker
  <2>3. ASSUME NEW b \in T PROVE Outlived(b)'
    <3>1. RetentionCount > 0 /\ b \in BeyondNewest({c \in rows : status[c] = "completed"}, RetentionCount)
      BY <1>0, <2>1, <2>3 DEF Backups
    <3>2. PICK c \in rows : c > b /\ status[c] = "completed"
      BY <3>1, BeyondHasNewer
    <3> QED
      BY <1>1, <3>2 DEF Outlived
  <2>4. InOrder(w)' /\ PickedOutlived(w)' /\ work'[w].at \notin Archives
    BY <2>2, <2>3 DEF InOrder, PickedOutlived, Archives, Uploads
  <2> QED
    BY <1>2, <2>2, <2>4, RetFrame
<1>4. ASSUME NEW b \in Backups, ScheduleDelete(w, b) PROVE Retained'
  <2>1. PICK r : r = [work[w] EXCEPT !.todo = @ \ {b}]
    OBVIOUS
  <2>2. r \in Worker /\ r.todo = work[w].todo \ {b} /\ r.at = "next" /\ b \in work[w].todo /\ b \in Nat
    BY <1>0, <1>4, <2>1 DEF Worker, ScheduleDelete, Backups
  <2>3. PICK x : /\ work' = [work EXCEPT ![w] = x]
                 /\ \/ x = r
                    \/ x = Idle
                    \/ \E k \in {"next", "delRemote", "delLocal", "delRow"} : x = [r EXCEPT !.at = k, !.b = b, !.n = node, !.loc = local[b]]
    <3>1. CASE DeleteBegin(w, b, r)
      BY <3>1 DEF DeleteBegin, DeleteReturns
    <3>2. CASE work' = [work EXCEPT ![w] = r]
      BY <3>2
    <3> QED
      BY <1>4, <2>1, <3>1, <3>2 DEF ScheduleDelete
  <2>4. /\ x.at \in {"idle", "next", "delRemote", "delLocal", "delRow"} /\ x.todo \subseteq work[w].todo
        /\ x.at \in {"delRemote", "delLocal", "delRow"} => x.b = b
    <3>1. CASE x = r
      BY <2>2, <3>1
    <3>2. CASE x = Idle
      BY <3>2 DEF Idle
    <3>3. ASSUME NEW k \in {"next", "delRemote", "delLocal", "delRow"}, x = [r EXCEPT !.at = k, !.b = b, !.n = node, !.loc = local[b]]
          PROVE  x.at = k /\ x.b = b /\ x.todo = r.todo
      BY <2>2, <3>3 DEF Worker
    <3> QED
      BY <2>2, <2>3, <3>1, <3>2, <3>3
  <2>5. work'[w] = x /\ \A v \in Actors \ {w} : work'[v] = work[v]
    BY <1>0, <2>3
  <2>6. \A c \in work[w].todo : Outlived(c)'
    BY <1>0, <1>1 DEF PickedOutlived, Outlived
  <2>7. PickedOutlived(w)'
    BY <2>2, <2>4, <2>5, <2>6 DEF PickedOutlived
  <2>8. InOrder(w)' /\ work'[w].at \notin Archives
    BY <2>4, <2>5 DEF InOrder, Archives, Uploads
  <2> QED
    BY <1>2, <2>5, <2>7, <2>8, RetFrame
<1> QED
  BY <1>3, <1>4
\* A new backup gets an id of its own.
LEMMA RetCreate ==
    ASSUME IInv, Retained, NEW w \in Workers, NEW d, CreateBackup(w, d) \/ RunSchedule(w, d) PROVE Retained'
<1>0. /\ w \in Actors /\ Scheduler \in Actors /\ w # Scheduler /\ work \in [Actors -> Worker] /\ rows \subseteq Backups
      /\ nextId \in Nat /\ (\A b \in rows : b < nextId)
      /\ status \in [Backups -> Statuses] /\ upload \in [Backups -> UploadStatuses]
      /\ \A v \in Actors : work[v].b \in Nat
  BY DEF Actors, IInv, TypeOK, Worker
<1>1. Insert(w, d)
  BY DEF CreateBackup, RunSchedule
<1>2. PICK x, y : x = Started("run", nextId, d) /\ y = Started("select", 0, None)
  OBVIOUS
<1>3. x.at = "run" /\ x.b = nextId /\ x.todo = {} /\ y.at = "select" /\ y.todo = {}
  BY <1>2 DEF Started
<1>4. work' = [work EXCEPT ![w] = x] \/ work' = [work EXCEPT ![w] = x, ![Scheduler] = y]
  BY <1>2 DEF CreateBackup, RunSchedule
<1>5. work'[w] = x /\ \A v \in Actors \ {w} : work'[v] = work[v] \/ work'[v] = y
  BY <1>0, <1>4
<1>6. /\ nextId \in Backups /\ nextId \notin rows /\ rows' = rows \cup {nextId} /\ nextId' = nextId + 1
      /\ status'[nextId] = "pending" /\ upload'[nextId] # "done"
      /\ \A b \in rows : status'[b] = status[b] /\ upload'[b] = upload[b]
  BY <1>0, <1>1 DEF Insert
<1>7. UploadedIsCompleted'
  BY <1>6 DEF Retained, UploadedIsCompleted
<1>8. ASSUME NEW b, Outlived(b) PROVE Outlived(b)'
  BY <1>6, <1>8, OutlivedStays
<1>9. ASSUME NEW v \in Actors, v # w, work'[v] = work[v] PROVE InOrder(v)' /\ PickedOutlived(v)' /\ (work[v].at \in Archives => work[v].b # nextId)
  <2>1. InOrder(v) /\ PickedOutlived(v)
    BY DEF Retained
  <2>2. work[v].at \in Archives \cup Uploads => work[v].b < nextId /\ work[v].b # nextId /\ work[v].b < nextId'
    BY <1>0, <1>6, <2>1 DEF InOrder
  <2>3. InOrder(v)'
    BY <1>6, <1>9, <2>1, <2>2 DEF InOrder
  <2>4. PickedOutlived(v)'
    BY <1>8, <1>9, <2>1 DEF PickedOutlived
  <2> QED
    BY <2>2, <2>3, <2>4
<1>10. ASSUME NEW v \in Actors, work'[v] = y PROVE InOrder(v)' /\ PickedOutlived(v)'
  BY <1>3, <1>10 DEF InOrder, PickedOutlived, Archives, Uploads
<1>11. InOrder(w)' /\ PickedOutlived(w)'
  BY <1>0, <1>3, <1>5, <1>6 DEF InOrder, PickedOutlived, Archives, Uploads
<1>12. ArchivedOnce'
  <2>1. y.at \notin Archives
    BY <1>3 DEF Archives
  <2>2. ASSUME NEW v \in Actors, v # w, work'[v].at \in Archives PROVE work'[v] = work[v] /\ work'[v].b # work'[w].b
    BY <1>3, <1>5, <1>9, <2>1, <2>2
  <2> QED
    BY <2>2 DEF Retained, ArchivedOnce
<1> QED
  BY <1>5, <1>7, <1>9, <1>10, <1>11, <1>12 DEF Retained

LEMMA RetRequest ==
    ASSUME CountAlone, IInv, Retained, NEW w \in Workers, Request(w) PROVE Retained'
<1>0. w \in Actors /\ work \in [Actors -> Worker] /\ rows \subseteq Backups /\ \A b \in rows : b < nextId
  BY DEF Actors, IInv, TypeOK
<1>1. ASSUME NEW b, NEW d, NEW k \in {"retry", "delDest"}, work' = [work EXCEPT ![w] = Started(k, b, d)],
             UNCHANGED <<rows, nextId, status, upload>>, k = "retry" => b \in rows /\ status[b] = "completed"
      PROVE  Retained'
  <2>1. PICK x : x = Started(k, b, d)
    OBVIOUS
  <2>2. x.at = k /\ x.b = b /\ x.todo = {}
    BY <2>1 DEF Started
  <2>3. work'[w] = x /\ \A v \in Actors \ {w} : work'[v] = work[v]
    BY <1>0, <1>1, <2>1
  <2>4. UploadedIsCompleted' /\ RowsStay(w)
    BY <1>1, RowsAlone DEF Retained, UploadedIsCompleted
  <2>5. InOrder(w)' /\ PickedOutlived(w)' /\ work'[w].at \notin Archives
    BY <1>0, <1>1, <2>2, <2>3 DEF InOrder, PickedOutlived, Archives, Uploads
  <2> QED
    BY <1>0, <2>3, <2>4, <2>5, RetFrame
<1>2. ASSUME NEW b \in Backups, RetryCheck(w, b) PROVE Retained'
  BY <1>1, <1>2 DEF RetryCheck, rowVars
<1>3. ASSUME NEW d, DestinationCheck(w, d) PROVE Retained'
  BY <1>1, <1>3 DEF DestinationCheck, rowVars
<1> QED
  BY <1>2, <1>3, RetCreate DEF Request, CountAlone

LEMMA RetPanel ==
    ASSUME IInv, Retained, Crash \/ ResetUploads \/ (\E n \in Nodes : Migrate(n)) \/ UNCHANGED vars PROVE Retained'
<1>0. UNCHANGED <<rows, nextId, status>>
  BY DEF Crash, ResetUploads, Migrate, vars, rowVars
<1>1. \A b : Outlived(b)' <=> Outlived(b)
  BY <1>0 DEF Outlived
<1>2. \A b \in rows : upload'[b] = "done" => upload[b] = "done"
  <2>1. rows \subseteq Backups
    BY DEF IInv, TypeOK
  <2>2. upload' = upload \/ upload' = [b \in Backups |->
              IF b \in rows /\ upload[b] \in {"pending", "uploading"} /\ status[b] \in {"completed", "failed"} THEN "failed" ELSE upload[b]]
    BY DEF Crash, ResetUploads, Migrate, vars, rowVars
  <2> QED
    BY <2>1, <2>2
<1>3. UploadedIsCompleted'
  BY <1>0, <1>2 DEF Retained, UploadedIsCompleted
<1>4. work' = work \/ work' = [w \in Actors |-> Idle]
  BY DEF Crash, ResetUploads, Migrate, vars
<1>5. ArchivedOnce' /\ \A w \in Actors : InOrder(w)' /\ PickedOutlived(w)'
  <2>1. CASE work' = work
    BY <1>0, <1>1, <2>1 DEF Retained, ArchivedOnce, InOrder, PickedOutlived
  <2>2. CASE work' = [w \in Actors |-> Idle]
    <3>1. \A w \in Actors : work'[w].at = "idle" /\ work'[w].todo = {}
      BY <2>2 DEF Idle
    <3> QED
      BY <3>1 DEF ArchivedOnce, InOrder, PickedOutlived, Archives, Uploads
  <2> QED
    BY <1>4, <2>1, <2>2
<1> QED
  BY <1>3, <1>5 DEF Retained

LEMMA RetNext == ASSUME CountAlone, IInv, Retained, [Next]_vars PROVE Retained'
<1>1. ASSUME NEW w \in Actors, ArchiveStep(w) \/ UploadStep(w) \/ DeleteStep(w) \/ DestinationDelete(w) \/ ScheduleStep(w) PROVE Retained'
  BY <1>1, RetArchive, RetUpload, RetPrune, RetRemove, RetDestination, RetSchedule DEF UploadStep, ScheduleStep
<1>2. Workers \subseteq Actors /\ Scheduler \in Actors
  BY DEF Actors
<1> QED
  BY <1>1, <1>2, RetRequest, RetPanel DEF Next, WorkerStep

\* Only retention and a delete remove a row.
LEMMA RemovedIsPicked ==
    ASSUME IInv, [Next]_vars, NEW b \in rows \ rows'
    PROVE  \E w \in Actors : b = work[w].b /\ work[w].at \in {"pruned", "delRow"} /\ rows' = rows \ {b} /\ status' = status
<1>1. ASSUME NEW w \in Actors, PruneRecord(w) \/ DeleteRow(w)
      PROVE  b = work[w].b /\ work[w].at \in {"pruned", "delRow"} /\ rows' = rows \ {b} /\ status' = status
  BY <1>1 DEF PruneRecord, DeleteRow
<1>2. ASSUME NEW w \in Workers, Request(w) PROVE rows \subseteq rows'
  BY <1>2 DEF Request, CreateBackup, RunSchedule, Insert, RetryCheck, DeleteBackup, DeleteBegin, DestinationCheck, rowVars
<1>3. ASSUME NEW w \in Actors, WorkerStep(w) \/ ScheduleStep(w), ~PruneRecord(w), ~DeleteRow(w) PROVE rows' = rows
  BY <1>3 DEF WorkerStep, ArchiveStep, StartArchive, ArchiveCall, RecordArchive, FailBackup, FailRow, UploadStep, BeginUpload, RefuseUpload,
         UploadCall, FailUpload, RecordUpload, DropLocal, RecordDrop, PruneSelect, PruneCall, PruneDone, RetryGo, SetUpload,
         DeleteStep, DeleteRemote, DeleteLocal, ScheduleStep, ScheduleSelect, ScheduleDelete, DeleteBegin, ScheduleDone, DestinationDelete, rowVars
<1>4. ASSUME Crash \/ ResetUploads \/ (\E n \in Nodes : Migrate(n)) \/ UNCHANGED vars PROVE rows' = rows
  BY <1>4 DEF Crash, ResetUploads, Migrate, vars, rowVars
<1>5. Workers \subseteq Actors /\ Scheduler \in Actors
  BY DEF Actors
<1>6. PICK w \in Actors : PruneRecord(w) \/ DeleteRow(w)
  BY <1>2, <1>3, <1>4, <1>5 DEF Next, WorkerStep
<1> QED
  BY <1>1, <1>6

\* Where backups are deleted by count alone, whatever retention has picked is
\* outlived by a completed backup, for any number of goroutines that archive,
\* upload and prune at the same time, and across restarts.
THEOREM RetainedAlways == ASSUME CountAlone PROVE Spec => []Retained
<1>1. ASSUME Init PROVE Retained
  BY <1>1 DEF Init, Retained, ArchivedOnce, UploadedIsCompleted, InOrder, PickedOutlived, Archives, Uploads, Idle
<1>2. IInv /\ Retained /\ [Next]_vars => Retained'
  BY RetNext
<1> QED
  BY <1>1, <1>2, Inductive, PTL DEF Spec

\* Under the same condition no step removes the newest completed backup:
\* pruneBackups and pruneRemote, each with its own count, leave a newer one.
THEOREM NewestIsKept == ASSUME CountAlone PROVE Spec => NewestKept
<1>1. ASSUME IInv, Retained, [Next]_vars
      PROVE  [\A b \in rows \ rows' : status[b] = "completed" => \E c \in rows' : c > b /\ status'[c] = "completed"]_vars
  <2>1. ASSUME NEW b \in rows \ rows' PROVE \E c \in rows' : c > b /\ status'[c] = "completed"
    <3>1. PICK w \in Actors : b = work[w].b /\ work[w].at \in {"pruned", "delRow"} /\ rows' = rows \ {b} /\ status' = status
      BY <1>1, RemovedIsPicked
    <3>2. Outlived(b)
      BY <1>1, <3>1 DEF Retained, PickedOutlived
    <3>3. PICK c \in rows : c > b /\ status[c] = "completed"
      BY <3>2 DEF Outlived
    <3>4. b \in Nat /\ c \in Nat
      BY <1>1 DEF IInv, TypeOK, Backups
    <3>5. c # b
      BY <3>3, <3>4
    <3> QED
      BY <3>1, <3>3, <3>5
  <2> QED
    BY <2>1
<1> QED
  BY <1>1, Inductive, RetainedAlways, PTL DEF Spec, NewestKept
=============================================================================
