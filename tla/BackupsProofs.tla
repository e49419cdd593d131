---------------------------- MODULE BackupsProofs ----------------------------
(* Proofs about Backups, for any tenants, schedulers and requests, any     *)
(* retention period, and any number of rows, blobs and days: no sweep      *)
(* takes a tenant's last blob, the catalogue is honest about the store,    *)
(* and a restore can be undone.                                            *)
EXTENDS Backups, TLAPS

Owning == {"run", "dump", "complete", "fail", "rCatalogued", "rLeave", "rDone"}
Blank  == {"run", "dump", "complete", "rCatalogued"}

Holding == {"complete"} \cup Overwriting

(* No tick and no request outlives the retention period.                   *)
InTime(a) ==
    Busy(a) => job[a].began \in Days /\ job[a].began <= day
                                    /\ day <= job[a].began + Retention

(* What an actor uploaded and has not answered for is there, and recent.   *)
HeldIsStored(a) ==
    job[a].pc \in Holding =>
        /\ job[a].blob \in Stored(job[a].tenant)
        /\ job[a].began <= blob[job[a].blob].day

(* A tenant backed up in this tick has a blob since the tick began.        *)
DoneIsStored(s) ==
    \A t \in tick[s].done :
        Busy(s) /\ \E b \in Stored(t) : job[s].began <= blob[b].day

(* A sweep looks at what was stale when it was listed.                     *)
StaleIsStale(s) ==
    \A b \in tick[s].stale :
        /\ job[s].pc \in {"sweep", "mark"}
        /\ blob[b].at # "none" /\ blob[b].day + Retention < day

(* Whatever a sweep would delete, a newer blob of the tenant is stored.    *)
NewerIsStored(s) ==
    \A b \in tick[s].stale :
        ~ Retained(s, b) => \E c \in Stored(blob[b].tenant) : Newer(c, b)

ActorInv(a) == /\ InTime(a) /\ HeldIsStored(a)
               /\ a \in Schedulers =>
                    DoneIsStored(a) /\ StaleIsStale(a) /\ NewerIsStored(a)

SweepInv == \A a \in Actors : ActorInv(a)

(* A row belongs to one actor at most, and is blank until it completes it. *)
RowsAreOwned ==
    \A a \in Actors : job[a].pc \in Owning =>
        /\ job[a].row \in Rows
        /\ row[job[a].row].status # "none" /\ row[job[a].row].tenant = job[a].tenant
        /\ \A c \in Actors : job[c].pc \in Owning /\ job[c].row = job[a].row => c = a
        /\ job[a].pc \in Blank =>
            row[job[a].row].location = NoBlob /\ ~ row[job[a].row].deleted
        /\ job[a].pc \in {"rLeave", "rDone"} => row[job[a].row].status = "completed"

(* The snapshots of the restores that are over belong to no one.           *)
SnapshotsAreFree ==
    \A q \in Requests : log[q].status = "completed" =>
        /\ log[q].snapshot \in Rows /\ row[log[q].snapshot].status = "completed"
        /\ \A a \in Actors : job[a].pc \in Owning => job[a].row # log[q].snapshot

(* A sweep marks what is deleted.                                          *)
MarksDeleted ==
    \A s \in Actors : job[s].pc = "mark" =>
        s \in Schedulers /\ job[s].blob \in Blobs /\ blob[job[s].blob].at = "deleted"

LocationsExist ==
    \A i \in Rows : row[i].location # NoBlob => blob[row[i].location].at # "none"

RowInv == RowsAreOwned /\ SnapshotsAreFree /\ MarksDeleted /\ LocationsExist
                       /\ CatalogueHonest
-----------------------------------------------------------------------------
(* Types                                                                   *)

(* Every place a step goes to is one.                                      *)
LEMMA PCsAre ==
    /\ {"idle", "list", "next", "ended", "insert", "run", "dump", "complete",
        "fail", "rInsert", "rEnter", "rRun", "rFetch", "rSnapshot", "rApply",
        "rCatalogue", "rCatalogued", "rLeave", "rDone", "rFail", "rBack",
        "sweepList", "sweep", "mark"} \subseteq PCs
    /\ Throwing \subseteq PCs
  BY DEF PCs, BackupSteps, RestoreSteps, SweepSteps, Throwing

LEMMA TenantExists == AnyTenant \in Tenants
  BY TenantsAssumption DEF AnyTenant

(* The locals an actor starts with.                                        *)
LEMMA AtType == \A pc \in PCs, d \in Days \cup {0} : At(pc, d) \in Job
  BY TenantExists DEF At, Job, States

(* An actor's locals, one at a time.                                       *)
LEMMA FieldTypes ==
    \A w \in Job :
        /\ \A pc \in PCs : [w EXCEPT !.pc = pc] \in Job
        /\ \A t \in Tenants : [w EXCEPT !.tenant = t] \in Job
        /\ \A i \in Rows \cup {NoRow} : [w EXCEPT !.row = i] \in Job
        /\ \A b \in Blobs \cup {NoBlob} : [w EXCEPT !.blob = b] \in Job
        /\ \A b \in Blobs \cup {NoBlob} : [w EXCEPT !.source = b] \in Job
        /\ \A d \in Days : [w EXCEPT !.began = d] \in Job
        /\ \A s \in States : [w EXCEPT !.back = s] \in Job
  BY DEF Job

(* An actor goes on, or is over.                                           *)
LEMMA GotoType ==
    ASSUME TypeOK, NEW a \in Actors, NEW from, NEW to \in PCs, Goto(a, from, to)
    PROVE  job' \in [Actors -> Job]
  <1>1. [job[a] EXCEPT !.pc = to] \in Job
    BY FieldTypes DEF TypeOK
  <1> QED
    BY <1>1 DEF Goto, TypeOK

LEMMA AtIsType ==
    ASSUME TypeOK, NEW a \in Actors, NEW pc \in PCs
    PROVE  [job EXCEPT ![a] = At(pc, @.began)] \in [Actors -> Job]
  <1>1. job[a].began \in Days \cup {0}
    BY DEF TypeOK, Job
  <1>2. At(pc, job[a].began) \in Job
    BY <1>1, AtType
  <1> QED
    BY <1>2 DEF TypeOK

LEMMA OverType ==
    ASSUME TypeOK, NEW a \in Actors, Over(a) PROVE job' \in [Actors -> Job]
  <1>1. job[a].began \in Days \cup {0}
    BY DEF TypeOK, Job
  <1>2. At("idle", job[a].began) \in Job /\ At("ended", 0) \in Job
    BY <1>1, AtType, PCsAre
  <1> QED
    BY <1>2 DEF Over, TypeOK

LEMMA ReturnType ==
    ASSUME TypeOK, NEW a \in Actors, NEW from, Return(a, from)
    PROVE  job' \in [Actors -> Job]
  BY OverType, AtIsType, PCsAre DEF Return

(* A row is chosen and written.                                            *)
LEMMA NewRowIs == (\E i \in Rows : UnusedRow(i)) => NewRow \in Rows /\ UnusedRow(NewRow)
  BY DEF NewRow

LEMMA NewBlobIs ==
    (\E b \in Blobs : UnusedBlob(b)) => NewBlob \in Blobs /\ UnusedBlob(NewBlob)
  BY DEF NewBlob

LEMMA QueuedType ==
    ASSUME TypeOK, NEW t \in Tenants, NEW i
    PROVE  [row EXCEPT ![i] = Queued(t)] \in [Rows -> Row]
  <1>1. Queued(t) \in Row
    BY DEF Queued, Row, Statuses
  <1> QED
    BY <1>1 DEF TypeOK

LEMMA StatusType ==
    ASSUME TypeOK, NEW i, NEW status \in Statuses
    PROVE  [row EXCEPT ![i].status = status] \in [Rows -> Row]
  <1>1. \A w \in Row : [w EXCEPT !.status = status] \in Row
    BY DEF Row
  <1> QED
    BY <1>1 DEF TypeOK

LEMMA CompletedType ==
    ASSUME TypeOK, NEW i, NEW b \in Blobs \cup {NoBlob}
    PROVE  Completed(i, b) \in [Rows -> Row]
  <1>1. \A w \in Row : [w EXCEPT !.status = "completed", !.location = b] \in Row
    BY DEF Row, Statuses
  <1> QED
    BY <1>1 DEF TypeOK, Completed

LEMMA MarkedType ==
    ASSUME TypeOK, NEW b PROVE Marked(b) \in [Rows -> Row]
  <1>1. \A w \in Row : [w EXCEPT !.deleted = TRUE] \in Row
    BY DEF Row
  <1> QED
    BY <1>1 DEF TypeOK, Marked

(* A blob is written.                                                      *)
LEMMA UploadedType ==
    ASSUME TypeOK, NEW t \in Tenants, NEW b
    PROVE  [blob EXCEPT ![b] = Uploaded(t)] \in [Blobs -> Blob]
  <1>1. Uploaded(t) \in Blob
    BY DEF Uploaded, Blob, TypeOK
  <1> QED
    BY <1>1 DEF TypeOK

LEMMA DeletedType ==
    ASSUME TypeOK, NEW b
    PROVE  [blob EXCEPT ![b].at = "deleted"] \in [Blobs -> Blob]
  <1>1. \A w \in Blob : [w EXCEPT !.at = "deleted"] \in Blob
    BY DEF Blob
  <1> QED
    BY <1>1 DEF TypeOK

(* A tick's locals.                                                        *)
LEMMA TickTypes ==
    /\ NoTick \in Tick
    /\ \A w \in Tick :
        /\ \A S \in SUBSET Tenants : [w EXCEPT !.todo = S] \in Tick
        /\ \A S \in SUBSET Tenants : [w EXCEPT !.done = S] \in Tick
        /\ \A S \in SUBSET Blobs : [w EXCEPT !.stale = S] \in Tick
        /\ \A S, N \in SUBSET Blobs : [w EXCEPT !.stale = S, !.newest = N] \in Tick
  <1>1. NoTick \in Tick
    BY DEF NoTick, Tick
  <1>2. \A w \in Tick :
        /\ \A S \in SUBSET Tenants : [w EXCEPT !.todo = S] \in Tick
        /\ \A S \in SUBSET Tenants : [w EXCEPT !.done = S] \in Tick
        /\ \A S \in SUBSET Blobs : [w EXCEPT !.stale = S] \in Tick
    BY DEF Tick
  <1>3. \A w \in Tick, S, N \in SUBSET Blobs : [w EXCEPT !.stale = S, !.newest = N] \in Tick
    BY DEF Tick
  <1> QED
    BY <1>1, <1>2, <1>3

(* What the log and the registry may say.                                  *)
LEMMA LogType ==
    ASSUME TypeOK, NEW q, NEW status \in Statuses
    PROVE  [log EXCEPT ![q].status = status] \in [Requests -> Log]
  <1>1. \A w \in Log : [w EXCEPT !.status = status] \in Log
    BY DEF Log
  <1> QED
    BY <1>1 DEF TypeOK

LEMMA LogRowTypes ==
    ASSUME TypeOK, NEW q \in Requests
    PROVE  RestoreQueued(q) \in [Requests -> Log] /\ Restored(q) \in [Requests -> Log]
  <1>1. job[q].row \in Rows \cup {NoRow}
    BY DEF TypeOK, Actors, Job
  <1>2. \A w \in Log, i \in Rows \cup {NoRow} :
            /\ [w EXCEPT !.status = "queued", !.backup = i] \in Log
            /\ [w EXCEPT !.status = "completed", !.snapshot = i] \in Log
    BY DEF Log, Statuses
  <1> QED
    BY <1>1, <1>2 DEF TypeOK, RestoreQueued, Restored

LEMMA StateType ==
    ASSUME TypeOK, NEW t, NEW s \in States
    PROVE  [state EXCEPT ![t] = s] \in [Tenants -> States]
  BY DEF TypeOK

LEMMA ActorsAre == Schedulers \subseteq Actors /\ Requests \subseteq Actors
  BY DEF Actors

LEMMA StatusesAre ==
    {"queued", "running", "completed", "failed"} \subseteq Statuses /\ "restoring" \in States
  BY DEF Statuses, States

(* The locals of a request or an actor that a step uses.                   *)
LEMMA LocalTypes ==
    ASSUME TypeOK, NEW a \in Actors
    PROVE  /\ job[a].pc \in PCs /\ job[a].tenant \in Tenants
           /\ job[a].row \in Rows \cup {NoRow}
           /\ job[a].blob \in Blobs \cup {NoBlob} /\ job[a].source \in Blobs \cup {NoBlob}
           /\ job[a].began \in Days \cup {0} /\ job[a].back \in States
  BY DEF TypeOK, Job

(* The backup sequence keeps the types.                                    *)
LEMMA BackupTypes ==
    ASSUME TypeOK, NEW a \in Actors, BackupRun(a) PROVE TypeOK'
  <1> USE LocalTypes, PCsAre, StatusesAre DEF TypeOK
  <1>1. CASE CreateBackupRun(a)
    <2>1. [job[a] EXCEPT !.pc = "run", !.row = NewRow, !.blob = NoBlob] \in Job
      BY <1>1, NewRowIs, FieldTypes DEF CreateBackupRun
    <2> QED
      BY <1>1, <2>1, QueuedType DEF CreateBackupRun
  <1>2. CASE CreateBackupRunFails(a)
    BY <1>2, ReturnType, QueuedType DEF CreateBackupRunFails
  <1>3. CASE MarkBackupRunRunning(a)
    BY <1>3, GotoType, StatusType DEF MarkBackupRunRunning
  <1>4. CASE MarkBackupRunRunningFails(a)
    BY <1>4, GotoType, StatusType DEF MarkBackupRunRunningFails, Perhaps
  <1>5. CASE ExecuteBackup(a)
    <2>1. [job[a] EXCEPT !.pc = "complete", !.blob = NewBlob] \in Job
      BY <1>5, NewBlobIs, FieldTypes DEF ExecuteBackup
    <2> QED
      BY <1>5, <2>1, UploadedType DEF ExecuteBackup
  <1>6. CASE ExecuteBackupFails(a)
    BY <1>6, GotoType, UploadedType DEF ExecuteBackupFails
  <1>7. CASE MarkBackupRunCompleted(a)
    <2>1. tick' \in [Schedulers -> Tick]
      <3>1. CASE a \in Schedulers
        <4>1. tick[a] \in Tick /\ tick[a].done \cup {job[a].tenant} \in SUBSET Tenants
          BY <3>1 DEF Tick
        <4>2. [tick[a] EXCEPT !.done = @ \cup {job[a].tenant}] \in Tick
          BY <4>1, TickTypes
        <4> QED
          BY <1>7, <3>1, <4>2 DEF MarkBackupRunCompleted
      <3>2. CASE a \notin Schedulers
        BY <1>7, <3>2 DEF MarkBackupRunCompleted
      <3> QED
        BY <3>1, <3>2
    <2> QED
      BY <1>7, <2>1, ReturnType, CompletedType DEF MarkBackupRunCompleted
  <1>8. CASE MarkBackupRunCompletedFails(a)
    BY <1>8, GotoType, CompletedType DEF MarkBackupRunCompletedFails, Perhaps
  <1>9. CASE MarkBackupRunFailed(a)
    BY <1>9, ReturnType, StatusType DEF MarkBackupRunFailed, Perhaps
  <1> QED
    BY <1>1, <1>2, <1>3, <1>4, <1>5, <1>6, <1>7, <1>8, <1>9 DEF BackupRun

(* A tick keeps the types.                                                 *)
LEMMA TickStepTypes ==
    ASSUME TypeOK, NEW s \in Schedulers, TickBegins(s) \/ Nightly(s) PROVE TypeOK'
  <1> USE LocalTypes, PCsAre, ActorsAre DEF TypeOK
  <1>0. tick[s] \in Tick /\ tick[s].todo \in SUBSET Tenants /\ tick[s].stale \in SUBSET Blobs
    BY DEF Tick
  <1>1. CASE TickBegins(s)
    <2>1. [job[s] EXCEPT !.pc = "list", !.began = day] \in Job
      BY FieldTypes
    <2> QED
      BY <1>1, <2>1 DEF TickBegins
  <1>2. CASE ListTenants(s)
    <2> DEFINE S == {t \in Tenants : state[t] \in {"ready", "sleeping"}}
    <2>1. [tick[s] EXCEPT !.todo = S] \in Tick
      BY <1>0, TickTypes
    <2> QED
      BY <1>2, <2>1, GotoType DEF ListTenants
  <1>3. CASE ListTenantsFails(s)
    BY <1>3, OverType, TickTypes DEF ListTenantsFails
  <1>4. CASE NextTenant(s)
    <2>1. PICK t \in tick[s].todo :
            /\ tick' = [tick EXCEPT ![s].todo = @ \ {t}]
            /\ job' = [job EXCEPT ![s].pc = "insert", ![s].tenant = t]
      BY <1>4 DEF NextTenant
    <2>2. [tick[s] EXCEPT !.todo = @ \ {t}] \in Tick
      BY <1>0, TickTypes
    <2>3. [job[s] EXCEPT !.pc = "insert", !.tenant = t] \in Job
      BY <1>0, FieldTypes
    <2> QED
      BY <1>4, <2>1, <2>2, <2>3 DEF NextTenant
  <1>5. CASE BackupRun(s)
    BY <1>5, BackupTypes
  <1>6. CASE BackupsDone(s)
    BY <1>6, GotoType DEF BackupsDone
  <1>7. CASE ListBlobsOlderThan(s)
    <2> DEFINE N == {b \in Stale : \A c \in Stale : ~ Newer(c, b)}
    <2>1. Stale \in SUBSET Blobs /\ N \in SUBSET Blobs
      BY DEF Stale
    <2>2. tick' = [tick EXCEPT ![s].stale = Stale, ![s].newest = N]
      BY <1>7 DEF ListBlobsOlderThan
    <2> HIDE DEF N
    <2>3. [tick[s] EXCEPT !.stale = Stale, !.newest = N] \in Tick
      BY <1>0, <2>1, TickTypes
    <2>4. tick' \in [Schedulers -> Tick]
      BY <2>2, <2>3
    <2> QED
      BY <1>7, <2>4, GotoType DEF ListBlobsOlderThan
  <1>8. CASE ListBlobsFails(s) \/ SweepDone(s)
    BY <1>8, OverType, TickTypes DEF ListBlobsFails, SweepDone
  <1>9. CASE RetainBlob(s)
    <2>1. PICK b \in tick[s].stale : tick' = [tick EXCEPT ![s].stale = @ \ {b}]
      BY <1>9 DEF RetainBlob
    <2>2. [tick[s] EXCEPT !.stale = @ \ {b}] \in Tick
      BY <1>0, TickTypes
    <2> QED
      BY <1>9, <2>1, <2>2 DEF RetainBlob
  <1>10. CASE DeleteBlob(s)
    <2>1. PICK b \in tick[s].stale :
            /\ blob' = [blob EXCEPT ![b].at = "deleted"]
            /\ tick' = [tick EXCEPT ![s].stale = @ \ {b}]
            /\ job' = [job EXCEPT ![s].pc = "mark", ![s].blob = b]
      BY <1>10 DEF DeleteBlob
    <2>2. [tick[s] EXCEPT !.stale = @ \ {b}] \in Tick
      BY <1>0, TickTypes
    <2>3. [job[s] EXCEPT !.pc = "mark", !.blob = b] \in Job
      BY <1>0, FieldTypes
    <2> QED
      BY <1>10, <2>1, <2>2, <2>3, DeletedType DEF DeleteBlob
  <1>11. CASE DeleteBlobFails(s)
    <2>1. PICK b \in tick[s].stale :
            /\ tick' = [tick EXCEPT ![s].stale = @ \ {b}]
            /\ \/ UNCHANGED <<blob, unmarked>>
               \/ /\ blob' = [blob EXCEPT ![b].at = "deleted"]
                  /\ unmarked' = unmarked \cup {b}
      BY <1>11 DEF DeleteBlobFails
    <2>2. [tick[s] EXCEPT !.stale = @ \ {b}] \in Tick
      BY <1>0, TickTypes
    <2> QED
      BY <1>0, <1>11, <2>1, <2>2, DeletedType DEF DeleteBlobFails
  <1>12. CASE MarkLocationDeleted(s)
    BY <1>12, AtIsType, MarkedType DEF MarkLocationDeleted, Swept
  <1>13. CASE MarkLocationDeletedFails(s)
    BY <1>13, AtIsType, MarkedType DEF MarkLocationDeletedFails, Swept, Perhaps
  <1> QED
    BY <1>1, <1>2, <1>3, <1>4, <1>5, <1>6, <1>7, <1>8, <1>9, <1>10, <1>11, <1>12, <1>13
       DEF Nightly

LEMMA RequestRestoreIs ==
    ASSUME NEW q, RequestRestore(q)
    PROVE  \E t \in Tenants, i \in Rows \cup {NoRow}, b \in Blobs :
            job' = [job EXCEPT ![q].pc = "rInsert", ![q].tenant = t, ![q].began = day,
                               ![q].row = i, ![q].source = b, ![q].back = state[t]]
  BY DEF RequestRestore

(* A request keeps the types.                                              *)
LEMMA RequestTypes ==
    ASSUME TypeOK, NEW q \in Requests, RequestBackup(q) \/ RequestRestore(q) \/ Restore(q)
    PROVE  TypeOK'
  <1> USE LocalTypes, PCsAre, ActorsAre, StatusesAre DEF TypeOK
  <1>1. CASE RequestBackup(q)
    <2>1. PICK t \in Tenants :
            job' = [job EXCEPT ![q].pc = "insert", ![q].tenant = t, ![q].began = day]
      BY <1>1 DEF RequestBackup
    <2>2. [job[q] EXCEPT !.pc = "insert", !.tenant = t] \in Job
      BY FieldTypes
    <2>3. [[job[q] EXCEPT !.pc = "insert", !.tenant = t] EXCEPT !.began = day] \in Job
      BY <2>2, FieldTypes
    <2> QED
      BY <1>1, <2>1, <2>3 DEF RequestBackup
  <1>2. CASE RequestRestore(q)
    <2>1. PICK t \in Tenants, i \in Rows \cup {NoRow}, b \in Blobs :
            job' = [job EXCEPT ![q].pc = "rInsert", ![q].tenant = t, ![q].began = day,
                               ![q].row = i, ![q].source = b, ![q].back = state[t]]
      BY <1>2, RequestRestoreIs, Zenon
    <2> DEFINE v == [job[q] EXCEPT !.pc = "rInsert", !.tenant = t]
               w == [v EXCEPT !.began = day, !.row = i]
               x == [w EXCEPT !.source = b, !.back = state[t]]
    <2>2. v \in Job
      BY FieldTypes
    <2>3. w \in Job
      <3> HIDE DEF v
      <3> QED BY <2>2, FieldTypes
    <2>4. x \in Job
      <3> HIDE DEF w
      <3> QED BY <2>3, FieldTypes
    <2>5. job' = [job EXCEPT ![q] = x]
      BY <2>1
    <2> HIDE DEF x
    <2> QED
      BY <1>2, <2>4, <2>5 DEF RequestRestore
  <1>3. CASE CreateRestoreRun(q)
    BY <1>3, GotoType, LogRowTypes DEF CreateRestoreRun
  <1>4. CASE EnterRestoring(q)
    BY <1>4, GotoType, StateType DEF EnterRestoring
  <1>5. CASE MarkRestoreRunRunning(q)
    BY <1>5, GotoType, LogType DEF MarkRestoreRunRunning
  <1>6. CASE MaterializeBackup(q)
    BY <1>6, GotoType DEF MaterializeBackup
  <1>7. CASE TakeSafetySnapshot(q)
    <2>1. [job[q] EXCEPT !.pc = "rApply", !.blob = NewBlob] \in Job
      BY <1>7, NewBlobIs, FieldTypes DEF TakeSafetySnapshot
    <2> QED
      BY <1>7, <2>1, UploadedType DEF TakeSafetySnapshot
  <1>8. CASE ApplyBackup(q)
    BY <1>8, GotoType DEF ApplyBackup
  <1>9. CASE CatalogueSnapshot(q)
    <2>1. [job[q] EXCEPT !.pc = "rCatalogued", !.row = NewRow] \in Job
      BY <1>9, NewRowIs, FieldTypes DEF CatalogueSnapshot
    <2> QED
      BY <1>9, <2>1, QueuedType DEF CatalogueSnapshot
  <1>10. CASE CompleteSnapshot(q)
    BY <1>10, GotoType, CompletedType DEF CompleteSnapshot
  <1>11. CASE LeaveRestoring(q)
    BY <1>11, GotoType, StateType DEF LeaveRestoring
  <1>12. CASE MarkRestoreRunCompleted(q)
    BY <1>12, OverType, LogRowTypes DEF MarkRestoreRunCompleted
  <1>13. CASE RestoreRejected(q)
    BY <1>13, OverType, LogRowTypes DEF RestoreRejected, Perhaps
  <1>14. CASE RestoreThrows(q)
    BY <1>14, GotoType DEF RestoreThrows
  <1>15. CASE RestoreThrowsLate(q)
    <2>1. [job[q] EXCEPT !.pc = "rFail"] \in Job
      BY FieldTypes
    <2>2. job' \in [Actors -> Job] /\ UNCHANGED <<day, tick, unmarked>>
      BY <1>15, <2>1 DEF RestoreThrowsLate
    <2>3. CASE state' = [state EXCEPT ![job[q].tenant] = "restoring"]
               /\ UNCHANGED <<row, blob, log>>
      BY <2>2, <2>3, StateType
    <2>4. CASE blob' = [blob EXCEPT ![NewBlob] = Uploaded(job[q].tenant)]
               /\ UNCHANGED <<state, row, log>>
      BY <2>2, <2>4, UploadedType
    <2>5. CASE row' = Completed(job[q].row, job[q].blob) /\ UNCHANGED <<state, blob, log>>
      BY <2>2, <2>5, CompletedType
    <2>6. CASE log' = Restored(q) /\ UNCHANGED <<state, row, blob>>
      BY <2>2, <2>6, LogRowTypes
    <2>7. CASE state' = [state EXCEPT ![job[q].tenant] = job[q].back]
               /\ UNCHANGED <<row, blob, log>>
      BY <2>2, <2>7, StateType
    <2>8. CASE log' = [log EXCEPT ![q].status = "running"] /\ UNCHANGED <<state, row, blob>>
      BY <2>2, <2>8, LogType
    <2>9. CASE /\ \E i \in Rows : UnusedRow(i)
               /\ row' = [row EXCEPT ![NewRow] = Queued(job[q].tenant)]
               /\ UNCHANGED <<state, blob, log>>
      BY <2>2, <2>9, NewRowIs, QueuedType
    <2> QED
      BY <1>15, <2>3, <2>4, <2>5, <2>6, <2>7, <2>8, <2>9, Zenon DEF RestoreThrowsLate
  <1>16. CASE MarkRestoreRunFailed(q)
    BY <1>16, GotoType, LogType DEF MarkRestoreRunFailed, Perhaps
  <1>17. CASE RestoreBack(q)
    BY <1>17, OverType, StateType DEF RestoreBack, Perhaps
  <1> QED
    BY <1>1, <1>2, <1>3, <1>4, <1>5, <1>6, <1>7, <1>8, <1>9, <1>10, <1>11, <1>12, <1>13,
       <1>14, <1>15, <1>16, <1>17 DEF Restore

LEMMA WorldTypes ==
    ASSUME TypeOK, (\E a \in Actors : Dies(a)) \/ (\E t \in Tenants : TenantChanges(t))
                   \/ DayEnds
    PROVE  TypeOK'
  <1> USE LocalTypes DEF TypeOK
  <1>1. ASSUME NEW a \in Actors, Dies(a) PROVE TypeOK'
    BY <1>1, OverType, TickTypes DEF Dies
  <1>2. ASSUME NEW t \in Tenants, TenantChanges(t) PROVE TypeOK'
    BY <1>2, StateType, ChangesAssumption DEF TenantChanges
  <1>3. CASE DayEnds
    BY <1>3, BoundsAssumption DEF DayEnds, Days
  <1> QED
    BY <1>1, <1>2, <1>3

LEMMA InitTypes == Init => TypeOK
  <1>1. [tenant |-> AnyTenant, status |-> "none", location |-> NoBlob,
         deleted |-> FALSE] \in Row
    BY TenantExists DEF Row, Statuses
  <1>2. 1 \in Days /\ [tenant |-> AnyTenant, at |-> "none", day |-> 1] \in Blob
    BY TenantExists, BoundsAssumption DEF Blob, Days
  <1>3. [status |-> "none", backup |-> NoRow, snapshot |-> NoRow] \in Log
    BY DEF Log, Statuses
  <1>4. At("idle", 0) \in Job
    BY AtType, PCsAre
  <1> SUFFICES ASSUME Init PROVE TypeOK
    OBVIOUS
  <1>5. row \in [Rows -> Row] /\ blob \in [Blobs -> Blob] /\ log \in [Requests -> Log]
    BY <1>1, <1>2, <1>3 DEF Init
  <1>6. job \in [Actors -> Job] /\ tick \in [Schedulers -> Tick]
    BY <1>4, TickTypes DEF Init
  <1> QED
    BY <1>2, <1>5, <1>6 DEF Init, TypeOK, States

LEMMA NextTypes == TypeOK /\ [Next]_vars => TypeOK'
  <1> SUFFICES ASSUME TypeOK, [Next]_vars PROVE TypeOK'
    OBVIOUS
  <1>1. CASE UNCHANGED vars
    BY <1>1 DEF vars, TypeOK
  <1> QED
    BY <1>1, TickStepTypes, RequestTypes, BackupTypes, WorldTypes, ActorsAre DEF Next

(* Every variable of Backups keeps its type.                               *)
THEOREM TypeCorrect == Spec => []TypeOK
  BY InitTypes, NextTypes, PTL DEF Spec

-----------------------------------------------------------------------------
(* No sweep takes a tenant's last blob: the inductive invariant is SweepInv. *)

(* No blob is written twice, and no day passes.                            *)
Grows ==
    /\ day' = day
    /\ \A b \in Blobs : blob[b].at # "none" => blob'[b] = blob[b]

(* A step within a tick or a request.                                      *)
GoesOn(a) ==
    /\ Busy(a) /\ Busy(a)' /\ job'[a].began = job[a].began
    /\ a \in Schedulers =>
        /\ tick'[a].done = tick[a].done
        /\ tick'[a].stale = tick[a].stale /\ tick'[a].newest = tick[a].newest
        /\ tick[a].stale = {} \/ job'[a].pc \in {"sweep", "mark"}

(* The arithmetic and the sets the steps are about.                        *)
LEMMA Values ==
    ASSUME TypeOK
    PROVE  /\ day \in Nat /\ \A b \in Blobs : blob[b].day \in Nat
           /\ \A a \in Actors : job[a].began \in Nat
           /\ Retention \in Nat /\ Retention > 0
           /\ \A s \in Schedulers : tick[s].stale \subseteq Blobs /\ tick[s].done \subseteq Tenants
           /\ \A b \in Blobs : b \in Nat /\ blob[b].tenant \in Tenants
  BY RetentionAssumption, BoundsAssumption DEF TypeOK, Days, Blobs, Blob, Job, Tick

LEMMA NewerIsOrder ==
    ASSUME TypeOK
    PROVE  /\ \A b \in Blobs : ~ Newer(b, b)
           /\ \A b, c, d \in Blobs : Newer(d, c) /\ Newer(c, b) => Newer(d, b)
           /\ \A b, c \in Blobs : Newer(c, b) =>
                blob[c].day >= blob[b].day /\ blob[c].tenant = blob[b].tenant
  BY Values DEF Newer

(* What is stored stays stored.                                            *)
LEMMA StoredGrows ==
    ASSUME TypeOK, Grows
    PROVE  /\ \A t : Stored(t) \subseteq Stored(t)'
           /\ \A b, c \in Blobs : blob[b].at # "none" /\ blob[c].at # "none" /\ Newer(c, b)
                => Newer(c, b)'
  BY DEF Grows, Stored, Newer

(* A step of others that deletes nothing.                                  *)
LEMMA OthersGrow ==
    ASSUME TypeOK, Grows, NEW a \in Actors, ActorInv(a), job'[a] = job[a],
           a \in Schedulers => tick'[a] = tick[a]
    PROVE  ActorInv(a)'
  <1>1. InTime(a)' /\ HeldIsStored(a)'
    BY DEF ActorInv, InTime, HeldIsStored, Busy, Stored, Grows
  <1>2. ASSUME a \in Schedulers PROVE DoneIsStored(a)' /\ StaleIsStale(a)'
    BY <1>2, Values DEF ActorInv, DoneIsStored, StaleIsStale, Busy, Stored, Grows
  <1>3. ASSUME a \in Schedulers PROVE NewerIsStored(a)'
    <2>1. SUFFICES ASSUME NEW b \in tick[a].stale, ~ Retained(a, b)'
                   PROVE  (\E c \in Stored(blob[b].tenant) : Newer(c, b))'
      BY <1>3 DEF NewerIsStored
    <2>2. b \in Blobs /\ blob[b].at # "none" /\ blob'[b] = blob[b]
      BY <1>3, Values DEF ActorInv, StaleIsStale, Grows
    <2>3. ~ Retained(a, b)
      BY <1>3, <2>1, <2>2 DEF Retained
    <2>4. PICK c \in Stored(blob[b].tenant) : Newer(c, b)
      BY <1>3, <2>3 DEF ActorInv, NewerIsStored
    <2> QED
      BY <2>2, <2>4, StoredGrows DEF Stored
  <1> QED
    BY <1>1, <1>2, <1>3 DEF ActorInv

(* A step of its own that deletes nothing.                                 *)
LEMMA OwnGrows ==
    ASSUME TypeOK, Grows, NEW a \in Actors, ActorInv(a), GoesOn(a), HeldIsStored(a)'
    PROVE  ActorInv(a)'
  <1>1. InTime(a)'
    BY DEF ActorInv, InTime, Grows, GoesOn
  <1>2. ASSUME a \in Schedulers PROVE DoneIsStored(a)' /\ StaleIsStale(a)'
    BY <1>2, Values DEF ActorInv, DoneIsStored, StaleIsStale, Stored, Grows, GoesOn
  <1>3. ASSUME a \in Schedulers PROVE NewerIsStored(a)'
    <2>1. SUFFICES ASSUME NEW b \in tick[a].stale, ~ Retained(a, b)'
                   PROVE  (\E c \in Stored(blob[b].tenant) : Newer(c, b))'
      BY <1>3 DEF NewerIsStored, GoesOn
    <2>2. b \in Blobs /\ blob[b].at # "none" /\ blob'[b] = blob[b]
      BY <1>3, Values DEF ActorInv, StaleIsStale, Grows
    <2>3. ~ Retained(a, b)
      BY <1>3, <2>1, <2>2 DEF Retained, GoesOn
    <2>4. PICK c \in Stored(blob[b].tenant) : Newer(c, b)
      BY <1>3, <2>3 DEF ActorInv, NewerIsStored
    <2> QED
      BY <2>2, <2>4, StoredGrows DEF Stored
  <1> QED
    BY <1>1, <1>2, <1>3 DEF ActorInv

(* A step of an actor leaves the others where they are.                    *)
OthersStay(a) ==
    \A c \in Actors \ {a} : /\ job'[c] = job[c]
                            /\ c \in Schedulers => tick'[c] = tick[c]

LEMMA GotoStays ==
    ASSUME TypeOK, NEW a, NEW from, NEW to,
           Goto(a, from, to) \/ Return(a, from) \/ Over(a), UNCHANGED tick
    PROVE  OthersStay(a)
  BY DEF TypeOK, Goto, Return, Over, OthersStay

LEMMA BackupStays ==
    ASSUME TypeOK, NEW a \in Actors, BackupRun(a) PROVE OthersStay(a)
  <1>1. CASE \/ CreateBackupRunFails(a) \/ MarkBackupRunRunning(a)
             \/ MarkBackupRunRunningFails(a) \/ ExecuteBackupFails(a)
             \/ MarkBackupRunCompletedFails(a) \/ MarkBackupRunFailed(a)
    BY <1>1, GotoStays
       DEF CreateBackupRunFails, MarkBackupRunRunning, MarkBackupRunRunningFails,
           ExecuteBackupFails, MarkBackupRunCompletedFails, MarkBackupRunFailed
  <1>2. CASE CreateBackupRun(a) \/ ExecuteBackup(a)
    BY <1>2 DEF CreateBackupRun, ExecuteBackup, OthersStay, TypeOK
  <1>3. CASE MarkBackupRunCompleted(a)
    BY <1>3 DEF MarkBackupRunCompleted, Return, Over, OthersStay, TypeOK
  <1> QED
    BY <1>1, <1>2, <1>3 DEF BackupRun

LEMMA TickStays ==
    ASSUME TypeOK, NEW s \in Schedulers, TickBegins(s) \/ Nightly(s) PROVE OthersStay(s)
  <1>1. CASE BackupRun(s)
    BY <1>1, BackupStays, ActorsAre
  <1>2. CASE TickBegins(s) \/ ListTenants(s) \/ ListTenantsFails(s) \/ NextTenant(s) \/ BackupsDone(s)
    BY <1>2 DEF TickBegins, ListTenants, ListTenantsFails, NextTenant, BackupsDone,
                Goto, Over, OthersStay, TypeOK
  <1>3. CASE ListBlobsOlderThan(s) \/ ListBlobsFails(s) \/ RetainBlob(s) \/ SweepDone(s)
    BY <1>3 DEF ListBlobsOlderThan, ListBlobsFails, RetainBlob, SweepDone,
                Goto, Over, OthersStay, TypeOK
  <1>4. CASE DeleteBlob(s) \/ DeleteBlobFails(s)
    BY <1>4 DEF DeleteBlob, DeleteBlobFails, OthersStay, TypeOK
  <1>5. CASE MarkLocationDeleted(s) \/ MarkLocationDeletedFails(s)
    BY <1>5 DEF MarkLocationDeleted, MarkLocationDeletedFails, Swept, OthersStay, TypeOK
  <1> QED
    BY <1>1, <1>2, <1>3, <1>4, <1>5 DEF Nightly

LEMMA RequestStays ==
    ASSUME TypeOK, NEW q \in Requests, RequestBackup(q) \/ RequestRestore(q) \/ Restore(q)
    PROVE  OthersStay(q)
  <1>1. CASE RequestBackup(q) \/ TakeSafetySnapshot(q) \/ CatalogueSnapshot(q) \/ RestoreThrowsLate(q)
    BY <1>1 DEF RequestBackup, TakeSafetySnapshot, CatalogueSnapshot,
                RestoreThrowsLate, OthersStay, TypeOK
  <1>2. CASE RequestRestore(q)
    BY <1>2 DEF RequestRestore, OthersStay, TypeOK
  <1>3. CASE \/ CreateRestoreRun(q) \/ EnterRestoring(q) \/ MarkRestoreRunRunning(q)
             \/ MaterializeBackup(q) \/ ApplyBackup(q) \/ CompleteSnapshot(q)
             \/ LeaveRestoring(q)
    BY <1>3, GotoStays DEF CreateRestoreRun, EnterRestoring, MarkRestoreRunRunning,
                           MaterializeBackup, ApplyBackup, CompleteSnapshot, LeaveRestoring
  <1>4. CASE \/ MarkRestoreRunCompleted(q) \/ RestoreRejected(q) \/ RestoreThrows(q)
             \/ MarkRestoreRunFailed(q) \/ RestoreBack(q)
    BY <1>4, GotoStays DEF MarkRestoreRunCompleted, RestoreRejected, RestoreThrows,
                           MarkRestoreRunFailed, RestoreBack
  <1> QED
    BY <1>1, <1>2, <1>3, <1>4 DEF Restore

(* Only a sweep deletes.                                                   *)
LEMMA UploadGrows ==
    ASSUME TypeOK, NEW t, \E b \in Blobs : UnusedBlob(b), UNCHANGED day,
           blob' = [blob EXCEPT ![NewBlob] = Uploaded(t)]
    PROVE  Grows
  BY NewBlobIs DEF Grows, UnusedBlob, TypeOK

LEMMA BackupGrows ==
    ASSUME TypeOK, NEW a \in Actors, BackupRun(a) PROVE Grows
  <1>1. CASE ExecuteBackup(a) \/ ExecuteBackupFails(a)
    BY <1>1, UploadGrows DEF ExecuteBackup, ExecuteBackupFails, Grows
  <1>2. CASE ~ (ExecuteBackup(a) \/ ExecuteBackupFails(a))
    BY <1>2 DEF BackupRun, CreateBackupRun, CreateBackupRunFails, MarkBackupRunRunning,
        MarkBackupRunRunningFails, MarkBackupRunCompleted, MarkBackupRunCompletedFails,
        MarkBackupRunFailed, Grows
  <1> QED
    BY <1>1, <1>2

LEMMA RequestGrows ==
    ASSUME TypeOK, NEW q \in Requests, RequestBackup(q) \/ RequestRestore(q) \/ Restore(q)
    PROVE  Grows
  <1>1. CASE TakeSafetySnapshot(q)
    BY <1>1, UploadGrows DEF TakeSafetySnapshot
  <1>2. CASE RestoreThrowsLate(q)
    BY <1>2, UploadGrows DEF RestoreThrowsLate, Grows
  <1>3. CASE RequestBackup(q) \/ RequestRestore(q)
    BY <1>3 DEF RequestBackup, RequestRestore, Grows
  <1>4. CASE Restore(q) /\ ~ TakeSafetySnapshot(q) /\ ~ RestoreThrowsLate(q)
    BY <1>4 DEF Restore, CreateRestoreRun, EnterRestoring, MarkRestoreRunRunning,
        MaterializeBackup, ApplyBackup, CatalogueSnapshot, CompleteSnapshot,
        LeaveRestoring, MarkRestoreRunCompleted, RestoreRejected, RestoreThrows,
        MarkRestoreRunFailed, RestoreBack, Grows
  <1> QED
    BY <1>1, <1>2, <1>3, <1>4

(* An actor at rest has nothing to keep.                                   *)
LEMMA RestingInv ==
    ASSUME NEW a \in Actors, job'[a].pc \in {"idle", "ended"},
           a \in Schedulers => tick'[a] = NoTick
    PROVE  ActorInv(a)'
  <1>1. ~ Busy(a)' /\ job'[a].pc \notin Holding
    BY DEF Busy, Holding, Overwriting
  <1>2. a \in Schedulers => tick'[a].done = {} /\ tick'[a].stale = {}
    BY DEF NoTick
  <1> QED
    BY <1>1, <1>2
       DEF ActorInv, InTime, HeldIsStored, DoneIsStored, StaleIsStale, NewerIsStored

(* Where a step leaves its actor.                                          *)
LEMMA GotoGoes ==
    ASSUME TypeOK, NEW a \in Actors, NEW from, NEW to, Goto(a, from, to)
    PROVE  /\ job[a].pc = from /\ job'[a] = [job[a] EXCEPT !.pc = to]
           /\ job'[a].pc = to /\ job'[a].began = job[a].began
  <1>1. job[a].pc = from /\ job'[a] = [job[a] EXCEPT !.pc = to]
    BY DEF TypeOK, Goto
  <1>2. job[a] \in Job
    BY DEF TypeOK
  <1> QED
    BY <1>1, <1>2 DEF Job

LEMMA OverGoes ==
    ASSUME TypeOK, NEW a \in Actors, Over(a)
    PROVE  /\ job'[a].pc \in {"idle", "ended"}
           /\ a \in Schedulers => job'[a] = At("idle", job[a].began)
           /\ a \notin Schedulers => job'[a] = At("ended", 0)
  BY DEF TypeOK, Over, At

LEMMA ReturnGoes ==
    ASSUME TypeOK, NEW a \in Actors, NEW from, Return(a, from)
    PROVE  /\ job[a].pc = from
           /\ a \in Schedulers => job'[a] = At("next", job[a].began)
           /\ a \notin Schedulers => job'[a] = At("ended", 0)
  <1>1. CASE a \in Schedulers
    BY <1>1 DEF TypeOK, Return
  <1>2. CASE a \notin Schedulers
    BY <1>2, OverGoes DEF Return
  <1> QED
    BY <1>1, <1>2

LEMMA AtIs ==
    ASSUME NEW pc, NEW began
    PROVE  At(pc, began).pc = pc /\ At(pc, began).began = began
  BY DEF At

(* What a blob was uploaded as.                                            *)
LEMMA UploadIsStored ==
    ASSUME TypeOK, NEW t, \E b \in Blobs : UnusedBlob(b), UNCHANGED day,
           blob' = [blob EXCEPT ![NewBlob] = Uploaded(t)]
    PROVE  NewBlob \in Stored(t)' /\ blob'[NewBlob].day = day
  BY NewBlobIs DEF Stored, Uploaded, TypeOK

(* What an actor holds it keeps holding.                                   *)
LEMMA StillHeld ==
    ASSUME TypeOK, Grows, NEW a \in Actors, HeldIsStored(a), job[a].pc \in Holding,
           NEW pc, job'[a] = [job[a] EXCEPT !.pc = pc]
    PROVE  HeldIsStored(a)'
  BY DEF HeldIsStored, Stored, Grows, TypeOK, Job

(* The backup sequence goes on, but for the end of it.                     *)
LEMMA BackupOwn ==
    ASSUME TypeOK, NEW a \in Actors, ActorInv(a), BackupRun(a) PROVE ActorInv(a)'
  <1>1. Grows
    BY BackupGrows
  <1>2. Busy(a) /\ (a \in Schedulers => tick[a].stale = {})
    <2>1. job[a].pc \in BackupSteps
      BY DEF BackupRun, CreateBackupRun, CreateBackupRunFails, MarkBackupRunRunning,
         MarkBackupRunRunningFails, ExecuteBackup, ExecuteBackupFails, Return, Goto,
         MarkBackupRunCompleted, MarkBackupRunCompletedFails, MarkBackupRunFailed,
         BackupSteps
    <2> QED
      BY <2>1 DEF Busy, BackupSteps, ActorInv, StaleIsStale
  <1>3. ASSUME NEW from, Return(a, from), UNCHANGED tick PROVE ActorInv(a)'
    <2>1. CASE a \in Schedulers
      <3>1. job'[a].pc = "next" /\ job'[a].began = job[a].began
        BY <1>3, <2>1, ReturnGoes, AtIs
      <3>2. GoesOn(a) /\ HeldIsStored(a)'
        BY <1>2, <1>3, <3>1 DEF GoesOn, HeldIsStored, Holding, Overwriting, Busy
      <3> QED
        BY <1>1, <3>2, OwnGrows
    <2>2. CASE a \notin Schedulers
      BY <1>3, <2>2, ReturnGoes, AtIs, RestingInv
    <2> QED
      BY <2>1, <2>2
  <1>4. ASSUME NEW from, NEW to \in {"dump", "fail"}, Goto(a, from, to), UNCHANGED tick
        PROVE  ActorInv(a)'
    <2>1. job'[a].pc = to /\ job'[a].began = job[a].began
      BY <1>4, GotoGoes
    <2>2. GoesOn(a) /\ HeldIsStored(a)'
      BY <1>2, <1>4, <2>1 DEF GoesOn, HeldIsStored, Holding, Overwriting, Busy
    <2> QED
      BY <1>1, <2>2, OwnGrows
  <1>5. CASE CreateBackupRun(a)
    <2>1. job'[a].pc = "run" /\ job'[a].began = job[a].began /\ UNCHANGED tick
      BY <1>5 DEF CreateBackupRun, TypeOK, Job
    <2>2. GoesOn(a) /\ HeldIsStored(a)'
      BY <1>2, <2>1 DEF GoesOn, HeldIsStored, Holding, Overwriting, Busy
    <2> QED
      BY <1>1, <2>2, OwnGrows
  <1>6. CASE CreateBackupRunFails(a) \/ MarkBackupRunFailed(a)
    BY <1>3, <1>6 DEF CreateBackupRunFails, MarkBackupRunFailed
  <1>7. CASE \/ MarkBackupRunRunning(a) \/ MarkBackupRunRunningFails(a)
             \/ ExecuteBackupFails(a) \/ MarkBackupRunCompletedFails(a)
    BY <1>4, <1>7 DEF MarkBackupRunRunning, MarkBackupRunRunningFails,
                      ExecuteBackupFails, MarkBackupRunCompletedFails
  <1>8. CASE ExecuteBackup(a)
    <2>1. /\ job'[a].pc = "complete" /\ job'[a].began = job[a].began /\ UNCHANGED tick
          /\ job'[a].blob = NewBlob /\ job'[a].tenant = job[a].tenant
      BY <1>8 DEF ExecuteBackup, TypeOK, Job
    <2>2. PICK t : t = job[a].tenant
      OBVIOUS
    <2>3. NewBlob \in Stored(t)' /\ blob'[NewBlob].day = day
      <3>1. /\ \E b \in Blobs : UnusedBlob(b)
            /\ UNCHANGED day /\ blob' = [blob EXCEPT ![NewBlob] = Uploaded(t)]
        BY <1>8, <2>2 DEF ExecuteBackup
      <3> QED
        BY <3>1, UploadIsStored
    <2>4. job[a].began <= day
      BY <1>2 DEF ActorInv, InTime
    <2>5. GoesOn(a) /\ HeldIsStored(a)'
      BY <1>2, <2>1, <2>2, <2>3, <2>4 DEF GoesOn, HeldIsStored, Busy, Stored
    <2> QED
      BY <1>1, <2>5, OwnGrows
  <1>9. CASE MarkBackupRunCompleted(a)
    <2>1. CASE a \in Schedulers
      <3>1. /\ job'[a].pc = "next" /\ job'[a].began = job[a].began
            /\ tick'[a].done = tick[a].done \cup {job[a].tenant} /\ tick'[a].stale = {}
            /\ blob' = blob /\ day' = day /\ job[a].pc = "complete"
        <4>1. /\ Return(a, "complete") /\ blob' = blob /\ day' = day
              /\ tick' = [tick EXCEPT ![a].done = @ \cup {job[a].tenant}]
          BY <1>9, <2>1 DEF MarkBackupRunCompleted
        <4>2. tick'[a].done = tick[a].done \cup {job[a].tenant} /\ tick'[a].stale = tick[a].stale
          BY <4>1, <2>1 DEF TypeOK, Tick
        <4> QED
          BY <1>2, <2>1, <4>1, <4>2, ReturnGoes, AtIs
      <3>2. InTime(a)' /\ HeldIsStored(a)'
        BY <1>2, <3>1 DEF ActorInv, InTime, HeldIsStored, Holding, Overwriting
      <3>3. job[a].blob \in Stored(job[a].tenant) /\ job[a].began <= blob[job[a].blob].day
        BY <3>1 DEF ActorInv, HeldIsStored, Holding
      <3>4. DoneIsStored(a)'
        BY <2>1, <3>1, <3>3 DEF ActorInv, DoneIsStored, Busy, Stored
      <3>5. StaleIsStale(a)' /\ NewerIsStored(a)'
        BY <3>1 DEF StaleIsStale, NewerIsStored
      <3> QED
        BY <3>2, <3>4, <3>5 DEF ActorInv
    <2>2. CASE a \notin Schedulers
      BY <1>9, <2>2, ReturnGoes, AtIs, RestingInv DEF MarkBackupRunCompleted
    <2> QED
      BY <2>1, <2>2
  <1> QED
    BY <1>5, <1>6, <1>7, <1>8, <1>9 DEF BackupRun


(* The steps of a tick but deletions.                                      *)
LEMMA TickOwn ==
    ASSUME TypeOK, NEW s \in Schedulers, ActorInv(s),
           \/ TickBegins(s) \/ ListTenants(s) \/ ListTenantsFails(s) \/ NextTenant(s)
           \/ BackupsDone(s) \/ ListBlobsFails(s) \/ SweepDone(s)
    PROVE  ActorInv(s)'
  <1>0. s \in Actors /\ tick[s] \in Tick
    BY ActorsAre DEF TypeOK
  <1>1. CASE TickBegins(s)
    <2>1. ~ Busy(s) /\ job'[s].pc = "list" /\ job'[s].began = day
          /\ UNCHANGED <<day, blob, tick>>
      BY <1>0, <1>1 DEF TickBegins, Busy, TypeOK, Job
    <2>2. tick[s].done = {} /\ tick[s].stale = {}
      BY <2>1 DEF ActorInv, DoneIsStored, StaleIsStale, Busy
    <2>3. InTime(s)' /\ HeldIsStored(s)'
      BY <2>1, Values DEF InTime, HeldIsStored, Holding, Overwriting, TypeOK
    <2>4. DoneIsStored(s)' /\ StaleIsStale(s)' /\ NewerIsStored(s)'
      BY <2>1, <2>2 DEF DoneIsStored, StaleIsStale, NewerIsStored
    <2> QED
      BY <2>3, <2>4 DEF ActorInv
  <1>2. ASSUME NEW pc \in {"next", "insert", "sweepList"}, job[s].pc \in {"list", "next"},
               job'[s].pc = pc, job'[s].began = job[s].began, UNCHANGED <<day, blob>>,
               tick'[s].done = tick[s].done, tick'[s].stale = tick[s].stale,
               tick'[s].newest = tick[s].newest
        PROVE  ActorInv(s)'
    <2>1. Grows
      BY <1>2 DEF Grows
    <2>2. tick[s].stale = {}
      BY <1>2 DEF ActorInv, StaleIsStale
    <2>3. GoesOn(s) /\ HeldIsStored(s)'
      BY <1>2, <2>2 DEF GoesOn, HeldIsStored, Holding, Overwriting, Busy
    <2> QED
      BY <1>0, <2>1, <2>3, OwnGrows
  <1>3. CASE ListTenants(s)
    <2>1. /\ tick'[s].done = tick[s].done /\ tick'[s].stale = tick[s].stale
          /\ tick'[s].newest = tick[s].newest
      BY <1>3 DEF ListTenants, TypeOK, Tick
    <2>2. job[s].pc = "list" /\ job'[s].pc = "next" /\ job'[s].began = job[s].began
      BY <1>0, <1>3, GotoGoes DEF ListTenants
    <2> QED
      BY <1>2, <1>3, <2>1, <2>2 DEF ListTenants
  <1>4. CASE NextTenant(s)
    <2>1. /\ tick'[s].done = tick[s].done /\ tick'[s].stale = tick[s].stale
          /\ tick'[s].newest = tick[s].newest
      BY <1>4 DEF NextTenant, TypeOK, Tick
    <2>2. job[s].pc = "next" /\ job'[s].pc = "insert" /\ job'[s].began = job[s].began
      BY <1>0, <1>4 DEF NextTenant, TypeOK, Job
    <2> QED
      BY <1>2, <1>4, <2>1, <2>2 DEF NextTenant
  <1>5. CASE BackupsDone(s)
    <2>1. Goto(s, "next", "sweepList") /\ UNCHANGED <<day, blob, tick>>
      BY <1>5 DEF BackupsDone
    <2>2. job[s].pc = "next" /\ job'[s].pc = "sweepList" /\ job'[s].began = job[s].began
      BY <1>0, <2>1, GotoGoes
    <2> QED
      BY <1>2, <2>1, <2>2
  <1>6. CASE ListTenantsFails(s) \/ ListBlobsFails(s) \/ SweepDone(s)
    <2>1. tick'[s] = NoTick /\ Over(s)
      BY <1>6 DEF ListTenantsFails, ListBlobsFails, SweepDone, TypeOK
    <2> QED
      BY <1>0, <2>1, OverGoes, RestingInv
  <1> QED
    BY <1>1, <1>3, <1>4, <1>5, <1>6

(* A sweep goes on, and deletes nothing.                                   *)
LEMMA SweepGoesOn ==
    ASSUME TypeOK, NEW s \in Schedulers, ActorInv(s),
           job[s].pc \in {"sweep", "mark"}, job'[s].pc \in {"sweep", "mark"},
           job'[s].began = job[s].began, UNCHANGED <<day, blob>>,
           tick'[s].done = tick[s].done, tick'[s].stale \subseteq tick[s].stale,
           tick'[s].newest = tick[s].newest
    PROVE  ActorInv(s)'
  <1>1. InTime(s) /\ DoneIsStored(s) /\ StaleIsStale(s) /\ NewerIsStored(s)
    BY DEF ActorInv
  <1>2. InTime(s)' /\ HeldIsStored(s)' /\ DoneIsStored(s)' /\ StaleIsStale(s)'
    BY <1>1 DEF InTime, HeldIsStored, DoneIsStored, StaleIsStale, Holding,
                Overwriting, Busy, Stored
  <1>3. NewerIsStored(s)'
    BY <1>1 DEF NewerIsStored, Retained, Stored, Newer
  <1> QED
    BY <1>2, <1>3 DEF ActorInv

(* The steps of a sweep but deletions.                                     *)
LEMMA SweepOwn ==
    ASSUME TypeOK, NEW s \in Schedulers, ActorInv(s),
           \/ ListBlobsOlderThan(s) \/ RetainBlob(s)
           \/ MarkLocationDeleted(s) \/ MarkLocationDeletedFails(s)
    PROVE  ActorInv(s)'
  <1>0. s \in Actors /\ tick[s] \in Tick
    BY ActorsAre DEF TypeOK
  <1>1. CASE ListBlobsOlderThan(s)
    <2> DEFINE N == {b \in Stale : \A c \in Stale : ~ Newer(c, b)}
    <2>1. Goto(s, "sweepList", "sweep") /\ UNCHANGED <<day, blob>>
      BY <1>1 DEF ListBlobsOlderThan
    <2>2. job[s].pc = "sweepList" /\ job'[s].pc = "sweep" /\ job'[s].began = job[s].began
      BY <1>0, <2>1, GotoGoes
    <2>3. tick' = [tick EXCEPT ![s].stale = Stale, ![s].newest = N]
      BY <1>1 DEF ListBlobsOlderThan
    <2> HIDE DEF N
    <2>4. tick'[s].stale = Stale /\ tick'[s].newest = N /\ tick'[s].done = tick[s].done
      BY <1>0, <2>3 DEF TypeOK, Tick
    <2>5. InTime(s) /\ Busy(s) /\ DoneIsStored(s)
      BY <2>2 DEF ActorInv, Busy
    <2>6. InTime(s)' /\ HeldIsStored(s)' /\ DoneIsStored(s)'
      BY <2>1, <2>2, <2>4, <2>5
         DEF InTime, HeldIsStored, DoneIsStored, Holding, Overwriting, Busy, Stored
    <2>7. StaleIsStale(s)'
      BY <2>1, <2>2, <2>4 DEF StaleIsStale, Stale
    <2>8. NewerIsStored(s)'
      <3>1. SUFFICES ASSUME NEW b \in Stale, ~ (b \in N /\ blob[b].tenant \notin tick[s].done)
                     PROVE  \E c \in Stored(blob[b].tenant) : Newer(c, b)
        BY <2>1, <2>4 DEF NewerIsStored, Retained, Stored, Newer
      <3>2. b \in Blobs /\ blob[b].at = "stored" /\ blob[b].day + Retention < day
        BY DEF Stale
      <3>3. CASE b \notin N
        <4>1. PICK c \in Stale : Newer(c, b)
          BY <3>3 DEF N
        <4> QED
          BY <4>1 DEF Stale, Stored, Newer
      <3>4. CASE blob[b].tenant \in tick[s].done
        <4>1. PICK c \in Stored(blob[b].tenant) : job[s].began <= blob[c].day
          BY <2>5, <3>4 DEF DoneIsStored
        <4>2. day <= job[s].began + Retention
          BY <2>5 DEF InTime
        <4>3. blob[c].day > blob[b].day /\ blob[c].tenant = blob[b].tenant
          BY <1>0, <3>2, <4>1, <4>2, Values DEF Stored
        <4> QED
          BY <4>1, <4>3 DEF Newer
      <3> QED
        BY <3>1, <3>3, <3>4
    <2> QED
      BY <2>6, <2>7, <2>8 DEF ActorInv
  <1>3. CASE RetainBlob(s)
    <2>1. PICK b \in tick[s].stale : tick' = [tick EXCEPT ![s].stale = @ \ {b}]
      BY <1>3 DEF RetainBlob
    <2>2. /\ tick'[s].done = tick[s].done /\ tick'[s].stale \subseteq tick[s].stale
          /\ tick'[s].newest = tick[s].newest
      BY <1>0, <2>1 DEF TypeOK, Tick
    <2> QED
      BY <1>3, <2>2, SweepGoesOn DEF RetainBlob
  <1>4. CASE MarkLocationDeleted(s) \/ MarkLocationDeletedFails(s)
    <2>1. job[s].pc = "mark" /\ job' = [job EXCEPT ![s] = At("sweep", job[s].began)]
          /\ UNCHANGED <<day, blob, tick>>
      BY <1>4 DEF MarkLocationDeleted, MarkLocationDeletedFails, Swept
    <2>2. job'[s] = At("sweep", job[s].began)
      BY <1>0, <2>1 DEF TypeOK
    <2>3. job'[s].pc = "sweep" /\ job'[s].began = job[s].began
      BY <2>2, AtIs
    <2> QED
      BY <2>1, <2>3, SweepGoesOn
  <1> QED
    BY <1>1, <1>3, <1>4

(* A request keeps its snapshot.                                           *)
LEMMA RequestOwn ==
    ASSUME TypeOK, NEW q \in Requests, ActorInv(q),
           RequestBackup(q) \/ RequestRestore(q) \/ Restore(q)
    PROVE  ActorInv(q)'
  <1>0. q \in Actors /\ q \notin Schedulers /\ Grows
    BY ActorsAre, ActorsAssumption, RequestGrows
  <1>1. InTime(q) /\ HeldIsStored(q)
    BY DEF ActorInv
  <1>2. ASSUME job'[q].pc \notin Holding, Busy(q)', job'[q].began = day PROVE ActorInv(q)'
    BY <1>0, <1>2, Values DEF ActorInv, InTime, HeldIsStored, Grows, TypeOK
  <1>3. ASSUME NEW from \in RestoreSteps, NEW to \in RestoreSteps, Goto(q, from, to),
               to \in Holding => from \in Holding
        PROVE  ActorInv(q)'
    <2>1. job[q].pc = from /\ job'[q] = [job[q] EXCEPT !.pc = to]
          /\ job'[q].pc = to /\ job'[q].began = job[q].began
      BY <1>0, <1>3, GotoGoes
    <2>2. Busy(q) /\ Busy(q)'
      BY <2>1 DEF Busy, RestoreSteps
    <2>3. InTime(q)'
      BY <1>0, <1>1, <2>1, <2>2 DEF InTime, Grows
    <2>4. HeldIsStored(q)'
      <3>1. CASE to \in Holding
        BY <1>0, <1>1, <1>3, <2>1, <3>1, StillHeld
      <3>2. CASE to \notin Holding
        BY <2>1, <3>2 DEF HeldIsStored
      <3> QED
        BY <3>1, <3>2
    <2> QED
      BY <1>0, <2>3, <2>4 DEF ActorInv
  <1>4. CASE RequestBackup(q)
    <2>1. job'[q].pc = "insert" /\ job'[q].began = day
      BY <1>0, <1>4 DEF RequestBackup, TypeOK, Job
    <2> QED
      BY <1>2, <2>1 DEF Holding, Overwriting, Busy
  <1>5. CASE RequestRestore(q)
    <2>1. job'[q].pc = "rInsert" /\ job'[q].began = day
      <3>1. PICK t \in Tenants, i \in Rows \cup {NoRow}, b \in Blobs :
              job' = [job EXCEPT ![q].pc = "rInsert", ![q].tenant = t, ![q].began = day,
                                 ![q].row = i, ![q].source = b, ![q].back = state[t]]
        BY <1>5, RequestRestoreIs
      <3> HIDE DEF NoRow
      <3> QED
        BY <1>0, <3>1 DEF TypeOK, Job
    <2> QED
      BY <1>2, <2>1 DEF Holding, Overwriting, Busy
  <1>6. CASE \/ CreateRestoreRun(q) \/ EnterRestoring(q) \/ MarkRestoreRunRunning(q)
             \/ MaterializeBackup(q) \/ ApplyBackup(q) \/ CompleteSnapshot(q)
             \/ LeaveRestoring(q) \/ MarkRestoreRunFailed(q)
    BY <1>3, <1>6 DEF CreateRestoreRun, EnterRestoring, MarkRestoreRunRunning,
        MaterializeBackup, ApplyBackup, CompleteSnapshot, LeaveRestoring,
        MarkRestoreRunFailed, RestoreSteps, Holding, Overwriting
  <1>7. CASE TakeSafetySnapshot(q)
    <2>1. /\ job[q].pc = "rSnapshot" /\ job'[q].pc = "rApply" /\ job'[q].began = job[q].began
          /\ job'[q].blob = NewBlob /\ job'[q].tenant = job[q].tenant
      BY <1>0, <1>7 DEF TakeSafetySnapshot, TypeOK, Job
    <2>2. PICK t : t = job[q].tenant
      OBVIOUS
    <2>3. NewBlob \in Stored(t)' /\ blob'[NewBlob].day = day
      <3>1. /\ \E b \in Blobs : UnusedBlob(b)
            /\ UNCHANGED day /\ blob' = [blob EXCEPT ![NewBlob] = Uploaded(t)]
        BY <1>7, <2>2 DEF TakeSafetySnapshot
      <3> QED
        BY <3>1, UploadIsStored
    <2>4. InTime(q)' /\ HeldIsStored(q)'
      BY <1>0, <1>1, <2>1, <2>2, <2>3 DEF InTime, HeldIsStored, Busy, Stored, Grows
    <2> QED
      BY <1>0, <2>4 DEF ActorInv
  <1>8. CASE CatalogueSnapshot(q)
    <2>1. /\ job[q].pc = "rCatalogue" /\ job'[q].pc = "rCatalogued"
          /\ job'[q].began = job[q].began /\ job'[q].blob = job[q].blob
          /\ job'[q].tenant = job[q].tenant /\ blob' = blob
      BY <1>0, <1>8 DEF CatalogueSnapshot, TypeOK, Job
    <2>2. InTime(q)' /\ HeldIsStored(q)'
      BY <1>0, <1>1, <2>1 DEF InTime, HeldIsStored, Busy, Holding, Overwriting, Stored, Grows
    <2> QED
      BY <1>0, <2>2 DEF ActorInv
  <1>9. CASE MarkRestoreRunCompleted(q) \/ RestoreRejected(q) \/ RestoreBack(q)
    <2>1. Over(q)
      BY <1>9 DEF MarkRestoreRunCompleted, RestoreRejected, RestoreBack
    <2> QED
      BY <1>0, <2>1, OverGoes, RestingInv
  <1>10. CASE RestoreThrows(q) \/ RestoreThrowsLate(q)
    <2>1. PICK from \in RestoreSteps : Goto(q, from, "rFail")
      BY <1>10 DEF RestoreThrows, RestoreThrowsLate, Throwing, RestoreSteps, Goto
    <2> QED
      BY <1>3, <2>1 DEF RestoreSteps, Holding, Overwriting
  <1> QED
    BY <1>4, <1>5, <1>6, <1>7, <1>8, <1>9, <1>10 DEF Restore

(* Deleting a blob that has a newer one takes nothing anyone relies on.    *)
Deletes(b) ==
    /\ UNCHANGED day /\ b \in Blobs /\ blob' = [blob EXCEPT ![b].at = "deleted"]
    /\ blob[b].day + Retention < day
    /\ \E c \in Stored(blob[b].tenant) : Newer(c, b)

LEMMA DeleteIs ==
    ASSUME TypeOK, NEW b, Deletes(b)
    PROVE  /\ \A c \in Blobs : blob'[c].tenant = blob[c].tenant /\ blob'[c].day = blob[c].day
           /\ \A c \in Blobs \ {b} : blob'[c] = blob[c]
           /\ \A c \in Blobs : blob[c].at # "none" => blob'[c].at # "none"
           /\ \A c, d \in Blobs : Newer(c, d)' <=> Newer(c, d)
           /\ \A t : Stored(t)' = Stored(t) \ {b}
  <1>1. /\ \A c \in Blobs : blob'[c].tenant = blob[c].tenant /\ blob'[c].day = blob[c].day
        /\ \A c \in Blobs \ {b} : blob'[c] = blob[c]
        /\ blob'[b].at = "deleted"
    BY DEF Deletes, TypeOK, Blob
  <1> QED
    BY <1>1 DEF Deletes, Newer, Stored

(* Instead of the blob that goes there is a newer one of its tenant.       *)
LEMMA NewerInstead ==
    ASSUME TypeOK, NEW b, Deletes(b), NEW t, NEW c \in Stored(t)
    PROVE  \E d \in Stored(t)' : /\ blob'[d].day >= blob[c].day
                                 /\ d = c \/ Newer(d, c)
  <1>1. CASE c # b
    BY <1>1, DeleteIs, Values DEF Stored
  <1>2. CASE c = b
    <2>1. PICK d \in Stored(blob[b].tenant) : Newer(d, b)
      BY DEF Deletes
    <2>2. d # b /\ blob[d].day >= blob[b].day /\ d \in Blobs /\ b \in Blobs
      BY <2>1, NewerIsOrder DEF Stored, Deletes
    <2>3. d \in Stored(t)' /\ blob'[d].day = blob[d].day
      BY <1>2, <2>1, <2>2, DeleteIs DEF Stored
    <2> QED
      BY <1>2, <2>1, <2>2, <2>3
  <1> QED
    BY <1>1, <1>2

LEMMA DeleteKeepsHeld ==
    ASSUME TypeOK, NEW b, Deletes(b), NEW a \in Actors, InTime(a), HeldIsStored(a),
           Busy(a), job'[a].pc \notin Holding \/ job'[a] = job[a]
    PROVE  HeldIsStored(a)'
  <1>1. CASE job'[a].pc \notin Holding
    BY <1>1 DEF HeldIsStored
  <1>2. CASE job'[a].pc \in Holding /\ job'[a] = job[a]
    <2>1. job[a].blob \in Stored(job[a].tenant) /\ job[a].began <= blob[job[a].blob].day
      BY <1>2 DEF HeldIsStored
    <2>2. day <= job[a].began + Retention
      BY DEF InTime
    <2>3. job[a].blob \in Blobs
      BY <2>1 DEF Stored
    <2>4. job[a].blob # b
      BY <2>1, <2>2, <2>3, Values DEF Deletes
    <2>5. blob'[job[a].blob] = blob[job[a].blob]
      BY <2>3, <2>4, DeleteIs
    <2> QED
      BY <1>2, <2>1, <2>5 DEF HeldIsStored, Stored
  <1> QED
    BY <1>1, <1>2

(* A deletion, seen by a sweep: its own, or that of another.               *)
LEMMA DeleteKeepsSweep ==
    ASSUME TypeOK, NEW b, Deletes(b), NEW s \in Schedulers, InTime(s),
           DoneIsStored(s), StaleIsStale(s), NewerIsStored(s),
           Busy(s) => Busy(s)', job'[s].began = job[s].began,
           tick'[s].done = tick[s].done, tick'[s].newest = tick[s].newest,
           tick'[s].stale \subseteq tick[s].stale,
           job[s].pc \in {"sweep", "mark"} => job'[s].pc \in {"sweep", "mark"}
    PROVE  DoneIsStored(s)' /\ StaleIsStale(s)' /\ NewerIsStored(s)'
  <1>1. DoneIsStored(s)'
    <2>1. SUFFICES ASSUME NEW t \in tick[s].done
                   PROVE  Busy(s)' /\ \E c \in Stored(t)' : job[s].began <= blob'[c].day
      BY DEF DoneIsStored
    <2>2. PICK c \in Stored(t) : job[s].began <= blob[c].day
      BY DEF DoneIsStored
    <2>3. Busy(s)'
      BY DEF DoneIsStored
    <2>4. PICK d \in Stored(t)' : blob'[d].day >= blob[c].day
      BY <2>2, NewerInstead
    <2>5. blob'[d].day \in Nat /\ blob[c].day \in Nat /\ job[s].began \in Nat
      BY ActorsAre, DeleteIs, Values DEF Stored
    <2> QED
      BY <2>2, <2>3, <2>4, <2>5
  <1>2. StaleIsStale(s)'
    BY DeleteIs, Values DEF StaleIsStale, Deletes
  <1>3. NewerIsStored(s)'
    <2>1. SUFFICES ASSUME NEW c \in tick'[s].stale, ~ Retained(s, c)'
                   PROVE  (\E d \in Stored(blob[c].tenant) : Newer(d, c))'
      BY DEF NewerIsStored
    <2>2. c \in tick[s].stale /\ c \in Blobs
      BY Values
    <2>3. ~ Retained(s, c)
      BY <2>1, <2>2, DeleteIs DEF Retained
    <2>4. PICK d \in Stored(blob[c].tenant) : Newer(d, c)
      BY <2>2, <2>3 DEF NewerIsStored
    <2>5. PICK t : t = blob[c].tenant
      OBVIOUS
    <2>6. PICK e \in Stored(t)' : e = d \/ Newer(e, d)
      BY <2>4, <2>5, NewerInstead
    <2>7. e \in Blobs /\ d \in Blobs
      BY <2>4, <2>6 DEF Stored
    <2>8. Newer(e, c)
      BY <2>2, <2>4, <2>6, <2>7, NewerIsOrder
    <2>9. blob'[c].tenant = t /\ Newer(e, c)'
      BY <2>2, <2>5, <2>7, <2>8, DeleteIs
    <2> QED
      BY <2>6, <2>9
  <1> QED
    BY <1>1, <1>2, <1>3

(* What a sweep deletes has a newer blob.                                  *)
LEMMA SweepDeletes ==
    ASSUME TypeOK, SweepInv, NEW s \in Schedulers, DeleteBlob(s) \/ DeleteBlobFails(s)
    PROVE  /\ UNCHANGED <<day, blob>> \/ \E b : Deletes(b)
           /\ job[s].pc = "sweep" /\ job'[s].pc \in {"sweep", "mark"}
           /\ job'[s].began = job[s].began
           /\ tick'[s].done = tick[s].done /\ tick'[s].newest = tick[s].newest
           /\ tick'[s].stale \subseteq tick[s].stale
  <1>0. s \in Actors /\ ActorInv(s)
    BY ActorsAre DEF SweepInv
  <1>1. PICK b \in tick[s].stale :
          /\ ~ Retained(s, b) /\ tick' = [tick EXCEPT ![s].stale = @ \ {b}]
          /\ \/ blob' = [blob EXCEPT ![b].at = "deleted"]
             \/ blob' = blob /\ DeleteBlobFails(s)
    BY DEF DeleteBlob, DeleteBlobFails
  <1>2. b \in Blobs /\ blob[b].at # "none" /\ blob[b].day + Retention < day
    BY <1>0, <1>1, Values DEF ActorInv, StaleIsStale
  <1>3. \E c \in Stored(blob[b].tenant) : Newer(c, b)
    BY <1>0, <1>1 DEF ActorInv, NewerIsStored
  <1>4. UNCHANGED day
    BY DEF DeleteBlob, DeleteBlobFails
  <1>5. UNCHANGED <<day, blob>> \/ Deletes(b)
    BY <1>1, <1>2, <1>3, <1>4 DEF Deletes
  <1>6. /\ tick'[s].done = tick[s].done /\ tick'[s].newest = tick[s].newest
        /\ tick'[s].stale \subseteq tick[s].stale
    BY <1>1 DEF TypeOK, Tick
  <1>7. job[s].pc = "sweep" /\ job'[s].pc \in {"sweep", "mark"}
        /\ job'[s].began = job[s].began
    BY <1>0 DEF DeleteBlob, DeleteBlobFails, TypeOK, Job
  <1> QED
    BY <1>5, <1>6, <1>7

LEMMA DeleteKeeps ==
    ASSUME TypeOK, SweepInv, NEW s \in Schedulers, DeleteBlob(s) \/ DeleteBlobFails(s),
           NEW b, Deletes(b), NEW a \in Actors
    PROVE  ActorInv(a)'
  <1>0. ActorInv(a) /\ (a # s => job'[a] = job[a] /\ (a \in Schedulers => tick'[a] = tick[a]))
    BY TickStays DEF SweepInv, OthersStay, Nightly
  <1>1. /\ InTime(a) /\ HeldIsStored(a)
        /\ a \in Schedulers => DoneIsStored(a) /\ StaleIsStale(a) /\ NewerIsStored(a)
    BY <1>0 DEF ActorInv
  <1>2. CASE a # s
    <2>1. Busy(a)' = Busy(a) /\ InTime(a)'
      BY <1>0, <1>1, <1>2 DEF Busy, InTime, Deletes
    <2>2. HeldIsStored(a)'
      <3>1. CASE Busy(a)
        BY <1>0, <1>1, <1>2, <3>1, DeleteKeepsHeld
      <3>2. CASE ~ Busy(a)
        BY <1>0, <1>2, <3>2 DEF Busy, HeldIsStored, Holding, Overwriting
      <3> QED
        BY <3>1, <3>2
    <2>3. a \in Schedulers => DoneIsStored(a)' /\ StaleIsStale(a)' /\ NewerIsStored(a)'
      BY <1>0, <1>1, <1>2, <2>1, DeleteKeepsSweep
    <2> QED
      BY <2>1, <2>2, <2>3 DEF ActorInv
  <1>3. CASE a = s
    <2>1. /\ job[s].pc = "sweep" /\ job'[s].pc \in {"sweep", "mark"}
          /\ job'[s].began = job[s].began
          /\ tick'[s].done = tick[s].done /\ tick'[s].newest = tick[s].newest
          /\ tick'[s].stale \subseteq tick[s].stale
      BY SweepDeletes
    <2>2. Busy(s) /\ Busy(s)'
      BY <2>1 DEF Busy
    <2>3. InTime(s)' /\ HeldIsStored(s)'
      BY <1>1, <1>3, <2>1, <2>2 DEF InTime, HeldIsStored, Holding, Overwriting, Deletes
    <2>4. DoneIsStored(s)' /\ StaleIsStale(s)' /\ NewerIsStored(s)'
      BY <1>1, <1>3, <2>1, <2>2, DeleteKeepsSweep
    <2> QED
      BY <1>3, <2>3, <2>4 DEF ActorInv
  <1> QED
    BY <1>2, <1>3

(* What the world does.                                                    *)
LEMMA WorldKeeps ==
    ASSUME TypeOK, SweepInv, NEW a \in Actors,
           DayEnds \/ (\E t \in Tenants : TenantChanges(t)) \/ \E c \in Actors : Dies(c)
    PROVE  ActorInv(a)'
  <1>0. ActorInv(a)
    BY DEF SweepInv
  <1>1. CASE DayEnds
    <2>1. InTime(a)'
      <3>1. CASE Busy(a)
        <4>1. job[a].began \in Days /\ job[a].began <= day
          BY <1>0, <3>1 DEF ActorInv, InTime
        <4>2. day' = day + 1 /\ job' = job /\ day < job[a].began + Retention
          BY <1>1, <3>1 DEF DayEnds
        <4> QED
          BY <4>1, <4>2, Values DEF InTime
      <3>2. CASE ~ Busy(a)
        BY <1>1, <3>2 DEF DayEnds, Busy, InTime
      <3> QED
        BY <3>1, <3>2
    <2>2. HeldIsStored(a)'
      BY <1>0, <1>1 DEF ActorInv, DayEnds, HeldIsStored, Stored
    <2>3. a \in Schedulers => DoneIsStored(a)' /\ NewerIsStored(a)'
      BY <1>0, <1>1 DEF ActorInv, DayEnds, DoneIsStored, NewerIsStored, Retained, Newer,
                        Stored, Busy
    <2>4. a \in Schedulers => StaleIsStale(a)'
      BY <1>0, <1>1, Values DEF ActorInv, DayEnds, StaleIsStale
    <2> QED
      BY <2>1, <2>2, <2>3, <2>4 DEF ActorInv
  <1>2. CASE \E t \in Tenants : TenantChanges(t)
    <2>1. UNCHANGED <<day, blob, job, tick>>
      BY <1>2 DEF TenantChanges
    <2>2. Grows
      BY <2>1 DEF Grows
    <2> QED
      BY <1>0, <2>1, <2>2, OthersGrow
  <1>3. ASSUME NEW c \in Actors, Dies(c) PROVE ActorInv(a)'
    <2>1. Grows
      BY <1>3 DEF Dies, Grows
    <2>2. CASE a = c
      <3>1. Over(a) /\ (a \in Schedulers => tick'[a] = NoTick)
        BY <1>3, <2>2 DEF Dies, TypeOK
      <3> QED
        BY <3>1, OverGoes, RestingInv
    <2>3. CASE a # c
      <3>1. job'[a] = job[a] /\ (a \in Schedulers => tick'[a] = tick[a])
        BY <1>3, <2>3 DEF Dies, Over, TypeOK
      <3> QED
        BY <1>0, <2>1, <3>1, OthersGrow
    <2> QED
      BY <2>2, <2>3
  <1> QED
    BY <1>1, <1>2, <1>3

LEMMA TickGrows ==
    ASSUME TypeOK, NEW s \in Schedulers, TickBegins(s) \/ Nightly(s),
           ~ DeleteBlob(s), ~ DeleteBlobFails(s)
    PROVE  Grows
  <1>1. CASE BackupRun(s)
    BY <1>1, BackupGrows, ActorsAre
  <1>2. CASE ~ BackupRun(s)
    BY <1>2 DEF Nightly, TickBegins, ListTenants, ListTenantsFails, NextTenant, BackupsDone,
        ListBlobsOlderThan, ListBlobsFails, RetainBlob, MarkLocationDeleted,
        MarkLocationDeletedFails, SweepDone, Grows
  <1> QED
    BY <1>1, <1>2

LEMMA SweepStep == TypeOK /\ SweepInv /\ [Next]_vars => SweepInv'
  <1> SUFFICES ASSUME TypeOK, SweepInv, [Next]_vars, NEW a \in Actors PROVE ActorInv(a)'
    BY DEF SweepInv
  <1>0. ActorInv(a) /\ \A c \in Actors : ActorInv(c)
    BY DEF SweepInv
  <1>1. ASSUME NEW c \in Actors, Grows, OthersStay(c), ActorInv(c)' PROVE ActorInv(a)'
    BY <1>0, <1>1, OthersGrow DEF OthersStay
  <1>2. ASSUME NEW s \in Schedulers, TickBegins(s) \/ Nightly(s),
               ~ DeleteBlob(s), ~ DeleteBlobFails(s)
        PROVE  ActorInv(a)'
    <2>1. s \in Actors
      BY ActorsAre
    <2>2. ActorInv(s)'
      BY <1>0, <1>2, <2>1, BackupOwn, TickOwn, SweepOwn DEF Nightly
    <2> QED
      BY <1>1, <1>2, <2>1, <2>2, TickGrows, TickStays
  <1>3. ASSUME NEW s \in Schedulers, DeleteBlob(s) \/ DeleteBlobFails(s)
        PROVE  ActorInv(a)'
    <2>0. s \in Actors
      BY ActorsAre
    <2>1. CASE UNCHANGED <<day, blob>>
      <3>1. ActorInv(s)'
        BY <1>0, <1>3, <2>0, <2>1, SweepDeletes, SweepGoesOn
      <3>2. Grows /\ OthersStay(s)
        BY <1>3, <2>1, TickStays DEF Grows, Nightly
      <3> QED
        BY <1>1, <2>0, <3>1, <3>2
    <2>2. CASE \E b : Deletes(b)
      BY <1>3, <2>2, DeleteKeeps
    <2> QED
      BY <1>3, <2>1, <2>2, SweepDeletes
  <1>4. ASSUME NEW q \in Requests,
               RequestBackup(q) \/ RequestRestore(q) \/ BackupRun(q) \/ Restore(q)
        PROVE  ActorInv(a)'
    <2>1. q \in Actors
      BY ActorsAre
    <2>2. ActorInv(q)'
      BY <1>0, <1>4, <2>1, BackupOwn, RequestOwn
    <2> QED
      BY <1>1, <1>4, <2>1, <2>2, BackupGrows, RequestGrows, BackupStays, RequestStays
  <1>5. CASE DayEnds \/ (\E t \in Tenants : TenantChanges(t)) \/ \E c \in Actors : Dies(c)
    BY <1>5, WorldKeeps
  <1>6. CASE UNCHANGED vars
    <2>1. Grows /\ UNCHANGED <<job, tick>>
      BY <1>6 DEF vars, Grows
    <2> QED
      BY <1>0, <2>1, OthersGrow
  <1> QED
    BY <1>2, <1>3, <1>4, <1>5, <1>6 DEF Next

LEMMA SweepInit == Init => SweepInv
  <1> SUFFICES ASSUME Init, NEW a \in Actors PROVE ActorInv(a)
    BY DEF SweepInv
  <1>1. job[a].pc = "idle" /\ (a \in Schedulers => tick[a] = NoTick)
    BY AtIs DEF Init
  <1>2. ~ Busy(a) /\ job[a].pc \notin Holding
    BY <1>1 DEF Busy, Holding, Overwriting
  <1>3. a \in Schedulers => tick[a].done = {} /\ tick[a].stale = {}
    BY <1>1 DEF NoTick
  <1> QED
    BY <1>2, <1>3
       DEF ActorInv, InTime, HeldIsStored, DoneIsStored, StaleIsStale, NewerIsStored

LEMMA SweepAlways == Spec => []SweepInv
  <1>1. TypeOK /\ SweepInv /\ [Next]_vars => SweepInv'
    BY SweepStep
  <1> QED
    BY <1>1, SweepInit, TypeCorrect, PTL DEF Spec

LastCopyKept == \A t \in Tenants : Stored(t) # {} => Stored(t)' # {}

LEMMA StepKeepsLastCopy == TypeOK /\ SweepInv /\ [Next]_vars => LastCopyKept
  <1> SUFFICES ASSUME TypeOK, SweepInv, [Next]_vars, NEW t \in Tenants, Stored(t) # {}
               PROVE  Stored(t)' # {}
    BY DEF LastCopyKept
  <1>1. CASE Grows
    BY <1>1 DEF Grows, Stored
  <1>2. CASE \E b : Deletes(b)
    BY <1>2, NewerInstead
  <1>3. ASSUME NEW s \in Schedulers, TickBegins(s) \/ Nightly(s)
        PROVE  Grows \/ \E b : Deletes(b)
    BY <1>3, TickGrows, SweepDeletes DEF Grows
  <1>4. ASSUME NEW q \in Requests,
               RequestBackup(q) \/ RequestRestore(q) \/ BackupRun(q) \/ Restore(q)
        PROVE  Grows
    BY <1>4, ActorsAre, BackupGrows, RequestGrows
  <1>5. CASE \/ DayEnds \/ (\E u \in Tenants : TenantChanges(u))
             \/ (\E c \in Actors : Dies(c)) \/ UNCHANGED vars
    BY <1>5 DEF DayEnds, TenantChanges, Dies, vars, Stored
  <1> QED
    BY <1>1, <1>2, <1>3, <1>4, <1>5 DEF Next

(* No sweep deletes the last blob of a tenant, however many schedulers and *)
(* requests there are and whatever fails: what a sweep is about to delete  *)
(* has a newer one, which no other sweep can have deleted without a newer  *)
(* one still.                                                              *)
THEOREM LastBlobIsKept == Spec => LastBlobKept
  <1>1. TypeOK /\ SweepInv /\ [Next]_vars => [LastCopyKept]_vars
    BY StepKeepsLastCopy
  <1> QED
    BY <1>1, TypeCorrect, SweepAlways, PTL DEF Spec, LastBlobKept, LastCopyKept

-----------------------------------------------------------------------------
(* The catalogue is honest, and a restore can be undone: RowInv.           *)

(* What a step of an actor may do to the rows, the blobs and the log.      *)
Moves(a) ==
    /\ OthersStay(a)
    /\ job'[a].pc \in Owning =>
        job[a].pc \in Owning /\ job'[a].row = job[a].row /\ job'[a].tenant = job[a].tenant

Advances(a) ==
    /\ Moves(a) /\ unmarked' = unmarked
    /\ job'[a].pc \in Blank => job[a].pc \in Blank
    /\ job'[a].pc \in {"rLeave", "rDone"} => job[a].pc \in {"rLeave", "rDone"}
    /\ job[a].pc # "mark" /\ job'[a].pc # "mark"

LogQuiet == \A q \in Requests : log'[q].status = "completed" => log'[q] = log[q]

Quiet(a) == Advances(a) /\ Grows /\ row' = row /\ LogQuiet

SetsStatus(a) ==
    /\ Advances(a) /\ job[a].pc \in {"run", "fail"} /\ UNCHANGED <<blob, log>>
    /\ \E x \in {"running", "failed"} : row' = [row EXCEPT ![job[a].row].status = x]

AddsRow(a) ==
    /\ OthersStay(a) /\ job[a].pc # "mark" /\ job'[a].pc # "mark"
    /\ UNCHANGED <<blob, log, unmarked>>
    /\ \E i \in Rows : UnusedRow(i)
    /\ row' = [row EXCEPT ![NewRow] = Queued(job[a].tenant)]
    /\ job'[a].pc \in Owning =>
        /\ job'[a].pc \in {"run", "rCatalogued"}
        /\ job'[a].row = NewRow /\ job'[a].tenant = job[a].tenant

Completes(a) ==
    /\ Moves(a) /\ job[a].pc \in {"complete", "rCatalogued"}
    /\ job'[a].pc \notin Blank /\ job'[a].pc # "mark"
    /\ UNCHANGED <<blob, log, unmarked>>
    /\ row' = Completed(job[a].row, job[a].blob)

EndsRestore(q) ==
    /\ Moves(q) /\ job[q].pc = "rDone" /\ job'[q].pc \notin Owning \cup {"mark"}
    /\ UNCHANGED <<row, blob, unmarked>>
    /\ log' = Restored(q)

Marks(a) ==
    /\ Moves(a) /\ job[a].pc = "mark" /\ job'[a].pc \notin Owning \cup {"mark"}
    /\ UNCHANGED <<blob, log>> /\ unmarked \subseteq unmarked'
    /\ \/ row' = Marked(job[a].blob)
       \/ row' = row /\ job[a].blob \in unmarked'

Removes(s) ==
    /\ Moves(s) /\ job[s].pc = "sweep" /\ job'[s].pc \in {"sweep", "mark"}
    /\ UNCHANGED <<row, log>> /\ unmarked \subseteq unmarked'
    /\ \E b \in Blobs : /\ blob[b].at # "none" /\ blob' = [blob EXCEPT ![b].at = "deleted"]
                        /\ \/ job'[s].pc = "mark" /\ job'[s].blob = b
                           \/ job'[s].pc = "sweep" /\ b \in unmarked'

LEMMA NoBlobIsNone == NoBlob \notin Blobs /\ NoRow \notin Rows
  BY DEF NoBlob, Blobs, NoRow, Rows

LEMMA LocationIs ==
    ASSUME TypeOK, NEW i \in Rows
    PROVE  /\ row[i].location # NoBlob => row[i].location \in Blobs
           /\ row[i].status \in Statuses /\ row[i].tenant \in Tenants
           /\ row[i].deleted \in BOOLEAN
  BY DEF TypeOK, Row

LEMMA QuietKeeps ==
    ASSUME TypeOK, RowInv, NEW a \in Actors, Quiet(a) PROVE RowInv'
  <1> USE DEF Quiet, Advances, Moves, OthersStay
  <1>1. RowsAreOwned'
    BY DEF RowInv, RowsAreOwned
  <1>2. SnapshotsAreFree'
    BY DEF RowInv, SnapshotsAreFree, LogQuiet
  <1>3. MarksDeleted'
    BY DEF RowInv, MarksDeleted, Grows
  <1>4. LocationsExist'
    BY LocationIs DEF RowInv, LocationsExist, Grows
  <1>5. CatalogueHonest'
    <2> SUFFICES ASSUME NEW i \in Rows
                 PROVE  /\ row[i].status = "completed" =>
                            /\ row[i].location # NoBlob
                            /\ blob'[row[i].location].at # "none"
                            /\ blob'[row[i].location].tenant = row[i].tenant
                        /\ row[i].deleted =>
                            row[i].location # NoBlob /\ blob'[row[i].location].at = "deleted"
                        /\ row[i].status = "completed" /\ blob'[row[i].location].at = "deleted" =>
                            \/ row[i].deleted
                            \/ row[i].location \in unmarked
                            \/ \E s \in Schedulers : job'[s].pc = "mark" /\ job'[s].blob = row[i].location
      BY DEF CatalogueHonest
    <2>1. row[i].location # NoBlob => blob'[row[i].location] = blob[row[i].location]
      BY LocationIs DEF RowInv, LocationsExist, Grows
    <2>2. \A s \in Schedulers : job[s].pc = "mark" => job'[s] = job[s]
      BY ActorsAre
    <2> QED
      BY <2>1, <2>2 DEF RowInv, CatalogueHonest
  <1> QED
    BY <1>1, <1>2, <1>3, <1>4, <1>5 DEF RowInv

(* A row changes that one actor owns.                                      *)
LEMMA StatusKeeps ==
    ASSUME TypeOK, RowInv, NEW a \in Actors, SetsStatus(a) PROVE RowInv'
  <1> USE DEF SetsStatus, Advances, Moves, OthersStay
  <1>1. /\ job[a].pc \in Owning /\ job[a].row \in Rows
        /\ \A i \in Rows \ {job[a].row} : row'[i] = row[i]
    BY DEF Owning, RowInv, RowsAreOwned, TypeOK
  <1>2. \A i \in Rows : /\ row'[i].location = row[i].location
                        /\ row'[i].tenant = row[i].tenant /\ row'[i].deleted = row[i].deleted
                        /\ row[i].status # "none" => row'[i].status # "none"
                        /\ row'[i].status = "completed" => row[i].status = "completed"
    BY <1>1 DEF TypeOK, Row
  <1>3. RowsAreOwned'
    <2> SUFFICES ASSUME NEW c \in Actors, job'[c].pc \in Owning
                 PROVE  /\ job'[c].row \in Rows
                        /\ row'[job'[c].row].status # "none"
                        /\ row'[job'[c].row].tenant = job'[c].tenant
                        /\ \A d \in Actors : job'[d].pc \in Owning /\ job'[d].row = job'[c].row => d = c
                        /\ job'[c].pc \in Blank =>
                            row'[job'[c].row].location = NoBlob /\ ~ row'[job'[c].row].deleted
                        /\ job'[c].pc \in {"rLeave", "rDone"} => row'[job'[c].row].status = "completed"
      BY DEF RowsAreOwned
    <2>1. job[c].pc \in Owning /\ job'[c].row = job[c].row /\ job'[c].tenant = job[c].tenant
      OBVIOUS
    <2>2. \A d \in Actors : job'[d].pc \in Owning => job[d].pc \in Owning /\ job'[d].row = job[d].row
      OBVIOUS
    <2>3. job'[c].pc \in Blank => job[c].pc \in Blank
      OBVIOUS
    <2>4. job'[c].pc \in {"rLeave", "rDone"} => c # a /\ job[c].pc = job'[c].pc
      BY <1>1
    <2>5. c # a => job[c].row # job[a].row
      BY <1>1, <2>1 DEF RowInv, RowsAreOwned
    <2> QED
      BY <1>1, <1>2, <2>1, <2>2, <2>3, <2>4, <2>5 DEF RowInv, RowsAreOwned
  <1>4. SnapshotsAreFree'
    BY <1>1 DEF RowInv, SnapshotsAreFree
  <1>5. MarksDeleted'
    BY DEF RowInv, MarksDeleted
  <1>6. LocationsExist'
    BY <1>2 DEF RowInv, LocationsExist
  <1>7. CatalogueHonest'
    <2>1. \A s \in Schedulers : job[s].pc = "mark" => job'[s] = job[s]
      BY ActorsAre
    <2> QED
      BY <1>2, <2>1 DEF RowInv, CatalogueHonest
  <1> QED
    BY <1>3, <1>4, <1>5, <1>6, <1>7 DEF RowInv

LEMMA AddKeeps ==
    ASSUME TypeOK, RowInv, NEW a \in Actors, AddsRow(a) PROVE RowInv'
  <1> USE DEF AddsRow, OthersStay
  <1>1. /\ NewRow \in Rows /\ row[NewRow].status = "none"
        /\ row'[NewRow] = Queued(job[a].tenant)
        /\ \A i \in Rows \ {NewRow} : row'[i] = row[i]
    BY NewRowIs DEF UnusedRow, TypeOK
  <1>2. /\ row'[NewRow].status = "queued" /\ row'[NewRow].tenant = job[a].tenant
        /\ row'[NewRow].location = NoBlob /\ ~ row'[NewRow].deleted
    BY <1>1 DEF Queued
  <1>3. RowsAreOwned'
    <2>1. \A c \in Actors : job[c].pc \in Owning => job[c].row # NewRow
      BY <1>1 DEF RowInv, RowsAreOwned
    <2>2. ASSUME NEW c \in Actors, c # a, job'[c].pc \in Owning
          PROVE  job[c].pc \in Owning /\ job'[c] = job[c] /\ job[c].row \in Rows \ {NewRow}
      BY <2>1, <2>2 DEF RowInv, RowsAreOwned
    <2>3. job'[a].pc \in Owning => /\ job'[a].row = NewRow /\ job'[a].tenant = job[a].tenant
                                   /\ job'[a].pc \notin {"rLeave", "rDone"}
      OBVIOUS
    <2> QED
      BY <1>1, <1>2, <2>2, <2>3 DEF RowInv, RowsAreOwned
  <1>4. SnapshotsAreFree'
    BY <1>1 DEF RowInv, SnapshotsAreFree
  <1>5. MarksDeleted'
    BY DEF RowInv, MarksDeleted
  <1>6. LocationsExist'
    BY <1>1, <1>2 DEF RowInv, LocationsExist
  <1>7. CatalogueHonest'
    <2>1. \A s \in Schedulers : job[s].pc = "mark" => job'[s] = job[s]
      BY ActorsAre
    <2> QED
      BY <1>1, <1>2, <2>1 DEF RowInv, CatalogueHonest
  <1> QED
    BY <1>3, <1>4, <1>5, <1>6, <1>7 DEF RowInv

(* The blob is there when its row is completed.                            *)
LEMMA CompleteKeeps ==
    ASSUME TypeOK, SweepInv, RowInv, NEW a \in Actors, Completes(a) PROVE RowInv'
  <1> USE DEF Completes, Moves, OthersStay
  <1> DEFINE i == job[a].row
             b == job[a].blob
  <1>1. /\ job[a].pc \in Owning /\ job[a].pc \in Blank
        /\ i \in Rows /\ row[i].tenant = job[a].tenant /\ ~ row[i].deleted
        /\ \A c \in Actors : job[c].pc \in Owning /\ job[c].row = i => c = a
    BY DEF Owning, Blank, RowInv, RowsAreOwned
  <1>2. b \in Blobs /\ b # NoBlob /\ blob[b].at = "stored" /\ blob[b].tenant = job[a].tenant
    <2>1. HeldIsStored(a) /\ job[a].pc \in Holding
      BY DEF SweepInv, ActorInv, Holding, Overwriting
    <2> QED
      BY <2>1, NoBlobIsNone DEF HeldIsStored, Stored
  <1>3. /\ row'[i].status = "completed" /\ row'[i].location = b
        /\ row'[i].tenant = row[i].tenant /\ row'[i].deleted = row[i].deleted
        /\ \A k \in Rows \ {i} : row'[k] = row[k]
    BY <1>1 DEF Completed, TypeOK, Row
  <1> HIDE DEF i, b
  <1>4. RowsAreOwned'
    <2>1. \A c \in Actors : job'[c].pc \in Owning =>
            job[c].pc \in Owning /\ job'[c].row = job[c].row /\ job'[c].tenant = job[c].tenant
      OBVIOUS
    <2>2. \A c \in Actors : c # a => job'[c] = job[c]
      OBVIOUS
    <2> QED
      BY <1>1, <1>3, <2>1, <2>2 DEF RowInv, RowsAreOwned, i
  <1>5. SnapshotsAreFree'
    BY <1>3 DEF RowInv, SnapshotsAreFree
  <1>6. MarksDeleted'
    BY DEF RowInv, MarksDeleted
  <1>7. LocationsExist'
    BY <1>2, <1>3 DEF RowInv, LocationsExist
  <1>8. CatalogueHonest'
    <2>1. \A s \in Schedulers : job[s].pc = "mark" => job'[s] = job[s]
      BY ActorsAre
    <2> QED
      BY <1>1, <1>2, <1>3, <2>1 DEF RowInv, CatalogueHonest
  <1> QED
    BY <1>4, <1>5, <1>6, <1>7, <1>8 DEF RowInv

LEMMA EndKeeps ==
    ASSUME TypeOK, RowInv, NEW q \in Requests, EndsRestore(q) PROVE RowInv'
  <1> USE ActorsAre DEF EndsRestore, Moves, OthersStay
  <1>1. /\ job[q].row \in Rows /\ row[job[q].row].status = "completed"
        /\ \A c \in Actors : job[c].pc \in Owning /\ job[c].row = job[q].row => c = q
    BY DEF Owning, RowInv, RowsAreOwned
  <1>2. log'[q].snapshot = job[q].row /\ \A r \in Requests \ {q} : log'[r] = log[r]
    BY DEF Restored, TypeOK, Log
  <1>3. RowsAreOwned'
    BY DEF RowInv, RowsAreOwned
  <1>4. SnapshotsAreFree'
    BY <1>1, <1>2 DEF RowInv, SnapshotsAreFree
  <1>5. MarksDeleted'
    BY DEF RowInv, MarksDeleted
  <1>6. LocationsExist'
    BY DEF RowInv, LocationsExist
  <1>7. CatalogueHonest'
    <2>1. \A s \in Schedulers : job[s].pc = "mark" => job'[s] = job[s]
      OBVIOUS
    <2> QED
      BY <2>1 DEF RowInv, CatalogueHonest
  <1> QED
    BY <1>3, <1>4, <1>5, <1>6, <1>7 DEF RowInv

(* What is marked is gone.                                                 *)
LEMMA MarkKeeps ==
    ASSUME TypeOK, RowInv, NEW a \in Actors, Marks(a) PROVE RowInv'
  <1> USE DEF Marks, Moves, OthersStay
  <1> DEFINE b == job[a].blob
  <1>1. b \in Blobs /\ b # NoBlob /\ blob[b].at = "deleted"
    BY NoBlobIsNone DEF RowInv, MarksDeleted
  <1>2. \A i \in Rows : /\ row'[i].location = row[i].location
                        /\ row'[i].tenant = row[i].tenant /\ row'[i].status = row[i].status
                        /\ row[i].location # b => row'[i] = row[i]
                        /\ row[i].location = b => row'[i].deleted \/ b \in unmarked'
                        /\ row[i].deleted => row'[i].deleted
                        /\ row'[i].deleted => row[i].deleted \/ row[i].location = b
    <2>1. CASE row' = row
      BY <2>1 DEF Marked, TypeOK, Row
    <2>2. CASE row' = Marked(b)
      BY <2>2 DEF Marked, TypeOK, Row
    <2> QED
      BY <2>1, <2>2
  <1> HIDE DEF b
  <1>3. RowsAreOwned'
    BY <1>1, <1>2 DEF RowInv, RowsAreOwned
  <1>4. SnapshotsAreFree'
    BY <1>2 DEF RowInv, SnapshotsAreFree
  <1>5. MarksDeleted'
    BY DEF RowInv, MarksDeleted
  <1>6. LocationsExist'
    BY <1>2 DEF RowInv, LocationsExist
  <1>7. CatalogueHonest'
    <2>1. \A s \in Schedulers : job[s].pc = "mark" => job[s].blob = b \/ job'[s] = job[s]
      BY ActorsAre DEF b
    <2> QED
      BY <1>1, <1>2, <2>1 DEF RowInv, CatalogueHonest
  <1> QED
    BY <1>3, <1>4, <1>5, <1>6, <1>7 DEF RowInv

(* What is deleted will be marked, or could not be.                        *)
LEMMA RemoveKeeps ==
    ASSUME TypeOK, RowInv, NEW s \in Schedulers, Removes(s) PROVE RowInv'
  <1> USE ActorsAre DEF Removes, Moves, OthersStay
  <1>1. PICK b \in Blobs : /\ blob[b].at # "none" /\ blob' = [blob EXCEPT ![b].at = "deleted"]
                           /\ \/ job'[s].pc = "mark" /\ job'[s].blob = b
                              \/ job'[s].pc = "sweep" /\ b \in unmarked'
    OBVIOUS
  <1>2. /\ blob'[b].at = "deleted" /\ \A c \in Blobs : blob'[c].tenant = blob[c].tenant
        /\ \A c \in Blobs \ {b} : blob'[c] = blob[c]
    BY <1>1 DEF TypeOK, Blob
  <1>3. RowsAreOwned'
    BY DEF RowInv, RowsAreOwned, Blank
  <1>4. SnapshotsAreFree'
    BY DEF RowInv, SnapshotsAreFree
  <1>5. MarksDeleted'
    BY <1>1, <1>2 DEF RowInv, MarksDeleted
  <1>6. LocationsExist'
    BY <1>2, LocationIs DEF RowInv, LocationsExist
  <1>7. CatalogueHonest'
    <2>1. \A c \in Schedulers : job[c].pc = "mark" => job'[c] = job[c]
      OBVIOUS
    <2> SUFFICES ASSUME NEW i \in Rows
                 PROVE  /\ row[i].status = "completed" =>
                            /\ row[i].location # NoBlob
                            /\ blob'[row[i].location].at # "none"
                            /\ blob'[row[i].location].tenant = row[i].tenant
                        /\ row[i].deleted =>
                            row[i].location # NoBlob /\ blob'[row[i].location].at = "deleted"
                        /\ row[i].status = "completed" /\ blob'[row[i].location].at = "deleted" =>
                            \/ row[i].deleted
                            \/ row[i].location \in unmarked'
                            \/ \E c \in Schedulers : job'[c].pc = "mark" /\ job'[c].blob = row[i].location
      BY DEF CatalogueHonest
    <2>2. CASE row[i].location = b
      BY <1>1, <1>2, <2>2, NoBlobIsNone DEF RowInv, CatalogueHonest
    <2>3. CASE row[i].location # b
      <3>1. row[i].location # NoBlob => blob'[row[i].location] = blob[row[i].location]
        BY <1>2, <2>3, LocationIs
      <3> QED
        BY <2>1, <3>1 DEF RowInv, CatalogueHonest
    <2> QED
      BY <2>2, <2>3
  <1> QED
    BY <1>3, <1>4, <1>5, <1>6, <1>7 DEF RowInv

(* Which step does what.                                                   *)
LEMMA GotoAdvances ==
    ASSUME TypeOK, NEW a \in Actors, NEW from, NEW to, Goto(a, from, to), OthersStay(a),
           UNCHANGED unmarked, from # "mark", to # "mark",
           to \in Owning => from \in Owning, to \in Blank => from \in Blank,
           to \in {"rLeave", "rDone"} => from \in {"rLeave", "rDone"}
    PROVE  Advances(a)
  <1>1. job[a].pc = from /\ job'[a] = [job[a] EXCEPT !.pc = to] /\ job'[a].pc = to
    BY GotoGoes
  <1>2. job[a] \in Job
    BY DEF TypeOK
  <1>3. job'[a].row = job[a].row /\ job'[a].tenant = job[a].tenant
    BY <1>1, <1>2 DEF Job
  <1> QED
    BY <1>1, <1>3 DEF Advances, Moves

LEMMA RestAdvances ==
    ASSUME NEW a \in Actors, OthersStay(a), UNCHANGED unmarked, job[a].pc # "mark",
           job'[a].pc \in {"idle", "ended", "next", "list", "insert", "rInsert", "sweep"}
    PROVE  Advances(a)
  BY DEF Advances, Moves, Owning, Blank

LEMMA ReturnRests ==
    ASSUME TypeOK, NEW a \in Actors, NEW from, Return(a, from)
    PROVE  job[a].pc = from /\ job'[a].pc \in {"next", "ended"}
  BY ReturnGoes, AtIs

LEMMA BackupKeepsRows ==
    ASSUME TypeOK, SweepInv, RowInv, NEW a \in Actors, BackupRun(a) PROVE RowInv'
  <1>0. OthersStay(a)
    BY BackupStays
  <1>1. CASE CreateBackupRun(a)
    <2>1. /\ job[a].pc = "insert" /\ job'[a].pc = "run" /\ job'[a].row = NewRow
          /\ job'[a].tenant = job[a].tenant
      BY <1>1 DEF CreateBackupRun, TypeOK, Job
    <2>2. AddsRow(a)
      BY <1>0, <1>1, <2>1 DEF CreateBackupRun, AddsRow
    <2> QED
      BY <2>2, AddKeeps
  <1>2. CASE CreateBackupRunFails(a)
    <2>1. job[a].pc = "insert" /\ job'[a].pc \in {"next", "ended"} /\ UNCHANGED <<day, blob, log, unmarked>>
      BY <1>2, ReturnRests DEF CreateBackupRunFails
    <2>2. CASE row' = row
      <3>1. Quiet(a)
        BY <1>0, <2>1, <2>2, RestAdvances DEF Quiet, Grows, LogQuiet
      <3> QED
        BY <3>1, QuietKeeps
    <2>3. CASE row' # row
      <3>1. (\E i \in Rows : UnusedRow(i)) /\ row' = [row EXCEPT ![NewRow] = Queued(job[a].tenant)]
        BY <1>2, <2>3 DEF CreateBackupRunFails
      <3>2. AddsRow(a)
        BY <1>0, <2>1, <3>1 DEF AddsRow, Owning
      <3> QED
        BY <3>2, AddKeeps
    <2> QED
      BY <2>2, <2>3
  <1>3. CASE MarkBackupRunRunning(a) \/ MarkBackupRunRunningFails(a)
    <2>1. PICK to \in {"dump", "fail"} : Goto(a, "run", to)
      BY <1>3 DEF MarkBackupRunRunning, MarkBackupRunRunningFails
    <2>2. Advances(a) /\ job[a].pc = "run"
      <3>1. UNCHANGED unmarked
        BY <1>3 DEF MarkBackupRunRunning, MarkBackupRunRunningFails
      <3>2. job[a].pc = "run"
        BY <2>1 DEF Goto
      <3> QED
        BY <1>0, <2>1, <3>1, <3>2, GotoAdvances DEF Owning, Blank
    <2>3. CASE row' = row
      BY <1>3, <2>2, <2>3, QuietKeeps
         DEF MarkBackupRunRunning, MarkBackupRunRunningFails, Quiet, Grows, LogQuiet
    <2>4. CASE row' = [row EXCEPT ![job[a].row].status = "running"]
      BY <1>3, <2>2, <2>4, StatusKeeps
         DEF MarkBackupRunRunning, MarkBackupRunRunningFails, SetsStatus
    <2> QED
      BY <1>3, <2>3, <2>4 DEF MarkBackupRunRunning, MarkBackupRunRunningFails, Perhaps
  <1>4. CASE ExecuteBackup(a)
    <2>1. /\ job[a].pc = "dump" /\ job'[a].pc = "complete" /\ job'[a].row = job[a].row
          /\ job'[a].tenant = job[a].tenant
      BY <1>4 DEF ExecuteBackup, TypeOK, Job
    <2>2. Advances(a)
      BY <1>0, <1>4, <2>1 DEF ExecuteBackup, Advances, Moves, Owning, Blank
    <2>3. Quiet(a)
      BY <1>4, <2>2, BackupGrows DEF ExecuteBackup, Quiet, LogQuiet
    <2> QED
      BY <2>3, QuietKeeps
  <1>5. CASE ExecuteBackupFails(a)
    <2>1. Goto(a, "dump", "fail") /\ UNCHANGED <<row, log, unmarked>>
      BY <1>5 DEF ExecuteBackupFails
    <2>2. Advances(a)
      BY <1>0, <2>1, GotoAdvances DEF Owning, Blank
    <2>3. Quiet(a)
      BY <2>1, <2>2, BackupGrows DEF Quiet, LogQuiet
    <2> QED
      BY <2>3, QuietKeeps
  <1>6. CASE MarkBackupRunCompleted(a)
    <2>1. job[a].pc = "complete" /\ job'[a].pc \in {"next", "ended"}
      BY <1>6, ReturnRests DEF MarkBackupRunCompleted
    <2>2. Completes(a)
      BY <1>0, <1>6, <2>1 DEF MarkBackupRunCompleted, Completes, Moves, Owning, Blank
    <2> QED
      BY <2>2, CompleteKeeps
  <1>7. CASE MarkBackupRunCompletedFails(a)
    <2>1. Goto(a, "complete", "fail") /\ UNCHANGED <<day, blob, log, unmarked>>
      BY <1>7 DEF MarkBackupRunCompletedFails
    <2>2. Advances(a) /\ job[a].pc = "complete" /\ job'[a].pc = "fail"
      BY <1>0, <2>1, GotoAdvances, GotoGoes DEF Owning, Blank
    <2>3. CASE row' = row
      BY <2>1, <2>2, <2>3, QuietKeeps DEF Quiet, Grows, LogQuiet
    <2>4. CASE row' = Completed(job[a].row, job[a].blob)
      BY <2>1, <2>2, <2>4, CompleteKeeps DEF Completes, Advances, Blank
    <2> QED
      BY <1>7, <2>3, <2>4 DEF MarkBackupRunCompletedFails, Perhaps
  <1>8. CASE MarkBackupRunFailed(a)
    <2>1. job[a].pc = "fail" /\ job'[a].pc \in {"next", "ended"} /\ UNCHANGED <<day, blob, log, unmarked>>
      BY <1>8, ReturnRests DEF MarkBackupRunFailed
    <2>2. Advances(a)
      BY <1>0, <2>1, RestAdvances
    <2>3. CASE row' = row
      BY <2>1, <2>2, <2>3, QuietKeeps DEF Quiet, Grows, LogQuiet
    <2>4. CASE row' = [row EXCEPT ![job[a].row].status = "failed"]
      BY <2>1, <2>2, <2>4, StatusKeeps DEF SetsStatus
    <2> QED
      BY <1>8, <2>3, <2>4 DEF MarkBackupRunFailed, Perhaps
  <1> QED
    BY <1>1, <1>2, <1>3, <1>4, <1>5, <1>6, <1>7, <1>8 DEF BackupRun

LEMMA TickKeepsRows ==
    ASSUME TypeOK, SweepInv, RowInv, NEW s \in Schedulers, TickBegins(s) \/ Nightly(s)
    PROVE  RowInv'
  <1>0. s \in Actors /\ OthersStay(s)
    BY ActorsAre, TickStays
  <1>1. CASE BackupRun(s)
    BY <1>0, <1>1, BackupKeepsRows
  <1>2. CASE ListTenants(s) \/ BackupsDone(s) \/ ListBlobsOlderThan(s)
    <2>1. PICK from \in {"list", "next", "sweepList"}, to \in {"next", "sweepList", "sweep"} :
            Goto(s, from, to)
      BY <1>2 DEF ListTenants, BackupsDone, ListBlobsOlderThan
    <2>2. UNCHANGED <<day, row, blob, log, unmarked>>
      BY <1>2 DEF ListTenants, BackupsDone, ListBlobsOlderThan
    <2>3. Advances(s)
      BY <1>0, <2>1, <2>2, GotoAdvances DEF Owning, Blank
    <2> QED
      BY <1>0, <2>2, <2>3, QuietKeeps DEF Quiet, Grows, LogQuiet
  <1>3. CASE TickBegins(s) \/ NextTenant(s)
    <2>1. job[s].pc # "mark" /\ job'[s].pc \in {"list", "insert"}
          /\ UNCHANGED <<day, row, blob, log, unmarked>>
      BY <1>0, <1>3 DEF TickBegins, NextTenant, TypeOK, Job
    <2> QED
      BY <1>0, <2>1, RestAdvances, QuietKeeps DEF Quiet, Grows, LogQuiet
  <1>4. CASE ListTenantsFails(s) \/ ListBlobsFails(s) \/ SweepDone(s)
    <2>1. job[s].pc # "mark" /\ Over(s) /\ UNCHANGED <<day, row, blob, log, unmarked>>
      BY <1>4 DEF ListTenantsFails, ListBlobsFails, SweepDone
    <2>2. job'[s].pc \in {"idle", "ended"}
      BY <1>0, <2>1, OverGoes
    <2> QED
      BY <1>0, <2>1, <2>2, RestAdvances, QuietKeeps DEF Quiet, Grows, LogQuiet
  <1>5. CASE RetainBlob(s)
    <2>1. job[s].pc = "sweep" /\ job' = job /\ UNCHANGED <<day, row, blob, log, unmarked>>
      BY <1>5 DEF RetainBlob
    <2> QED
      BY <1>0, <2>1, RestAdvances, QuietKeeps DEF Quiet, Grows, LogQuiet
  <1>6. CASE DeleteBlob(s) \/ DeleteBlobFails(s)
    <2>1. PICK b \in tick[s].stale :
            \/ /\ blob' = [blob EXCEPT ![b].at = "deleted"] /\ UNCHANGED unmarked
               /\ job' = [job EXCEPT ![s].pc = "mark", ![s].blob = b]
            \/ UNCHANGED <<blob, unmarked, job>>
            \/ /\ blob' = [blob EXCEPT ![b].at = "deleted"] /\ UNCHANGED job
               /\ unmarked' = unmarked \cup {b}
      BY <1>6 DEF DeleteBlob, DeleteBlobFails
    <2>2. job[s].pc = "sweep" /\ UNCHANGED <<day, row, log>>
      BY <1>6 DEF DeleteBlob, DeleteBlobFails
    <2>3. b \in Blobs /\ blob[b].at # "none"
      BY <1>0, Values DEF SweepInv, ActorInv, StaleIsStale
    <2>4. CASE UNCHANGED <<blob, unmarked, job>>
      BY <1>0, <2>2, <2>4, RestAdvances, QuietKeeps DEF Quiet, Grows, LogQuiet
    <2>5. CASE /\ blob' = [blob EXCEPT ![b].at = "deleted"] /\ UNCHANGED unmarked
               /\ job' = [job EXCEPT ![s].pc = "mark", ![s].blob = b]
      <3>1. job'[s].pc = "mark" /\ job'[s].blob = b
        BY <1>0, <2>5 DEF TypeOK, Job
      <3> QED
        BY <1>0, <2>2, <2>3, <2>5, <3>1, RemoveKeeps DEF Removes, Moves, Owning
    <2>6. CASE /\ blob' = [blob EXCEPT ![b].at = "deleted"] /\ UNCHANGED job
               /\ unmarked' = unmarked \cup {b}
      BY <1>0, <2>2, <2>3, <2>6, RemoveKeeps DEF Removes, Moves, Owning
    <2> QED
      BY <2>1, <2>4, <2>5, <2>6
  <1>7. CASE MarkLocationDeleted(s) \/ MarkLocationDeletedFails(s)
    <2>1. job[s].pc = "mark" /\ job' = [job EXCEPT ![s] = At("sweep", job[s].began)]
          /\ UNCHANGED <<blob, log>>
      BY <1>7 DEF MarkLocationDeleted, MarkLocationDeletedFails, Swept
    <2>2. job'[s].pc = "sweep"
      BY <1>0, <2>1, AtIs DEF TypeOK
    <2>3. /\ unmarked \subseteq unmarked'
          /\ row' = Marked(job[s].blob) \/ (row' = row /\ job[s].blob \in unmarked')
      BY <1>7 DEF MarkLocationDeleted, MarkLocationDeletedFails, Perhaps
    <2> QED
      BY <1>0, <2>1, <2>2, <2>3, MarkKeeps DEF Marks, Moves, Owning
  <1> QED
    BY <1>1, <1>2, <1>3, <1>4, <1>5, <1>6, <1>7 DEF Nightly

LEMMA RequestKeepsRows ==
    ASSUME TypeOK, SweepInv, RowInv, NEW q \in Requests,
           RequestBackup(q) \/ RequestRestore(q) \/ Restore(q)
    PROVE  RowInv'
  <1>0. q \in Actors /\ OthersStay(q) /\ Grows
    BY ActorsAre, RequestStays, RequestGrows
  <1>1. CASE RequestBackup(q) \/ RequestRestore(q)
    <2>1. job'[q].pc \in {"insert", "rInsert"}
      <3>1. CASE RequestBackup(q)
        BY <1>0, <3>1 DEF RequestBackup, TypeOK, Job
      <3>2. CASE RequestRestore(q)
        <4>1. PICK t \in Tenants, i \in Rows \cup {NoRow}, b \in Blobs :
                job' = [job EXCEPT ![q].pc = "rInsert", ![q].tenant = t, ![q].began = day,
                                   ![q].row = i, ![q].source = b, ![q].back = state[t]]
          BY <3>2, RequestRestoreIs
        <4> QED
          BY <1>0, <4>1 DEF TypeOK, Job
      <3> QED
        BY <1>1, <3>1, <3>2
    <2>2. job[q].pc # "mark" /\ UNCHANGED <<row, log, unmarked>>
      BY <1>1 DEF RequestBackup, RequestRestore
    <2> QED
      BY <1>0, <2>1, <2>2, RestAdvances, QuietKeeps DEF Quiet, LogQuiet
  <1>2. CASE \/ CreateRestoreRun(q) \/ EnterRestoring(q) \/ MarkRestoreRunRunning(q)
             \/ MaterializeBackup(q) \/ ApplyBackup(q) \/ LeaveRestoring(q)
             \/ RestoreThrows(q) \/ MarkRestoreRunFailed(q)
    <2>1. PICK from \in RestoreSteps, to \in RestoreSteps \ {"rCatalogued", "rLeave"} :
            Goto(q, from, to) /\ (to = "rDone" => from = "rLeave")
      BY <1>2 DEF CreateRestoreRun, EnterRestoring, MarkRestoreRunRunning, MaterializeBackup,
          ApplyBackup, LeaveRestoring, RestoreThrows, MarkRestoreRunFailed, RestoreSteps, Throwing
    <2>2. UNCHANGED <<row, unmarked>>
      BY <1>2 DEF CreateRestoreRun, EnterRestoring, MarkRestoreRunRunning, MaterializeBackup,
          ApplyBackup, LeaveRestoring, RestoreThrows, MarkRestoreRunFailed
    <2>3. LogQuiet
      BY <1>2 DEF CreateRestoreRun, EnterRestoring, MarkRestoreRunRunning, MaterializeBackup,
          ApplyBackup, LeaveRestoring, RestoreThrows, MarkRestoreRunFailed, LogQuiet,
          RestoreQueued, Perhaps, TypeOK, Log
    <2>4. Advances(q)
      BY <1>0, <2>1, <2>2, GotoAdvances DEF RestoreSteps, Owning, Blank
    <2> QED
      BY <1>0, <2>2, <2>3, <2>4, QuietKeeps DEF Quiet
  <1>3. CASE TakeSafetySnapshot(q)
    <2>1. job[q].pc = "rSnapshot" /\ job'[q].pc = "rApply" /\ UNCHANGED <<row, log, unmarked>>
      BY <1>0, <1>3 DEF TakeSafetySnapshot, TypeOK, Job
    <2> QED
      BY <1>0, <2>1, QuietKeeps DEF Quiet, Advances, Moves, LogQuiet, Owning, Blank
  <1>4. CASE CatalogueSnapshot(q)
    <2>1. /\ job[q].pc = "rCatalogue" /\ job'[q].pc = "rCatalogued" /\ job'[q].row = NewRow
          /\ job'[q].tenant = job[q].tenant
      BY <1>0, <1>4 DEF CatalogueSnapshot, TypeOK, Job
    <2> QED
      BY <1>0, <1>4, <2>1, AddKeeps DEF CatalogueSnapshot, AddsRow
  <1>5. CASE CompleteSnapshot(q)
    <2>1. /\ job[q].pc = "rCatalogued" /\ job'[q].pc = "rLeave" /\ job'[q].row = job[q].row
          /\ job'[q].tenant = job[q].tenant
      BY <1>0, <1>5 DEF CompleteSnapshot, Goto, TypeOK, Job
    <2> QED
      BY <1>0, <1>5, <2>1, CompleteKeeps DEF CompleteSnapshot, Completes, Moves, Owning, Blank
  <1>6. CASE MarkRestoreRunCompleted(q)
    <2>1. job[q].pc = "rDone" /\ job'[q].pc \in {"idle", "ended"}
      BY <1>0, <1>6, OverGoes DEF MarkRestoreRunCompleted
    <2> QED
      BY <1>0, <1>6, <2>1, EndKeeps DEF MarkRestoreRunCompleted, EndsRestore, Moves, Owning
  <1>7. CASE RestoreRejected(q) \/ RestoreBack(q)
    <2>1. /\ Over(q) /\ job[q].pc # "mark" /\ UNCHANGED <<row, unmarked>>
      BY <1>7 DEF RestoreRejected, RestoreBack
    <2>2. job'[q].pc \in {"idle", "ended"}
      BY <1>0, <2>1, OverGoes
    <2>3. LogQuiet
      BY <1>7 DEF RestoreRejected, RestoreBack, RestoreQueued, Perhaps, LogQuiet, TypeOK, Log
    <2> QED
      BY <1>0, <2>1, <2>2, <2>3, RestAdvances, QuietKeeps DEF Quiet
  <1>8. CASE RestoreThrowsLate(q)
    <2>1. /\ job'[q].pc = "rFail" /\ job[q].pc \in Throwing
          /\ UNCHANGED unmarked
      BY <1>0, <1>8 DEF RestoreThrowsLate, Throwing, TypeOK, Job
    <2>2. Advances(q)
      BY <1>0, <2>1 DEF Advances, Moves, Owning, Blank, Throwing
    <2>3. CASE row' = row /\ log' = log
      BY <1>0, <2>2, <2>3, QuietKeeps DEF Quiet, LogQuiet
    <2>4. CASE job[q].pc = "rCatalogued"
      BY <1>0, <1>8, <2>1, <2>2, <2>4, CompleteKeeps
         DEF RestoreThrowsLate, Completes, Advances, Blank
    <2>5. CASE job[q].pc = "rDone"
      BY <1>0, <1>8, <2>1, <2>2, <2>5, EndKeeps
         DEF RestoreThrowsLate, EndsRestore, Advances, Owning
    <2>6. CASE job[q].pc = "rRun" /\ row' = row /\ log' = [log EXCEPT ![q].status = "running"]
      <3>1. LogQuiet
        BY <2>6 DEF LogQuiet, TypeOK, Log
      <3> QED
        BY <1>0, <2>2, <2>6, <3>1, QuietKeeps DEF Quiet
    <2>7. CASE job[q].pc = "rCatalogue" /\ UNCHANGED <<blob, log>>
               /\ (\E i \in Rows : UnusedRow(i))
               /\ row' = [row EXCEPT ![NewRow] = Queued(job[q].tenant)]
      BY <1>0, <2>1, <2>7, AddKeeps DEF AddsRow, Owning
    <2> QED
      BY <1>8, <2>3, <2>4, <2>5, <2>6, <2>7 DEF RestoreThrowsLate
  <1> QED
    BY <1>1, <1>2, <1>3, <1>4, <1>5, <1>6, <1>7, <1>8 DEF Restore

LEMMA DeathKeepsRows ==
    ASSUME TypeOK, RowInv, NEW a \in Actors, Dies(a) PROVE RowInv'
  <1>1. OthersStay(a) /\ job'[a].pc \in {"idle", "ended"} /\ UNCHANGED <<day, row, blob, log>>
    BY OverGoes DEF Dies, Over, OthersStay, TypeOK
  <1>2. CASE job[a].pc = "mark"
    BY <1>1, <1>2, MarkKeeps DEF Dies, Marks, Moves, Owning
  <1>3. CASE job[a].pc # "mark"
    <2>1. UNCHANGED unmarked
      BY <1>3 DEF Dies
    <2> QED
      BY <1>1, <1>3, <2>1, RestAdvances, QuietKeeps DEF Quiet, Grows, LogQuiet
  <1> QED
    BY <1>2, <1>3

LEMMA RowStep == TypeOK /\ SweepInv /\ RowInv /\ [Next]_vars => RowInv'
  <1> SUFFICES ASSUME TypeOK, SweepInv, RowInv, [Next]_vars PROVE RowInv'
    OBVIOUS
  <1>1. ASSUME NEW s \in Schedulers, TickBegins(s) \/ Nightly(s) PROVE RowInv'
    BY <1>1, TickKeepsRows
  <1>2. ASSUME NEW q \in Requests,
               RequestBackup(q) \/ RequestRestore(q) \/ BackupRun(q) \/ Restore(q)
        PROVE  RowInv'
    BY <1>2, ActorsAre, RequestKeepsRows, BackupKeepsRows
  <1>3. ASSUME NEW a \in Actors, Dies(a) PROVE RowInv'
    BY <1>3, DeathKeepsRows
  <1>4. CASE DayEnds \/ (\E t \in Tenants : TenantChanges(t)) \/ UNCHANGED vars
    <2>1. UNCHANGED <<row, blob, log, job, unmarked>>
      BY <1>4 DEF DayEnds, TenantChanges, vars
    <2> QED
      BY <2>1 DEF RowInv, RowsAreOwned, SnapshotsAreFree, MarksDeleted, LocationsExist,
                  CatalogueHonest
  <1> QED
    BY <1>1, <1>2, <1>3, <1>4 DEF Next

LEMMA RowInit == Init => RowInv
  <1> SUFFICES ASSUME Init PROVE RowInv
    OBVIOUS
  <1>1. /\ \A a \in Actors : job[a].pc = "idle"
        /\ \A i \in Rows : row[i].status = "none" /\ row[i].location = NoBlob /\ ~ row[i].deleted
        /\ \A q \in Requests : log[q].status = "none"
    BY AtIs DEF Init
  <1> QED
    BY <1>1 DEF RowInv, RowsAreOwned, SnapshotsAreFree, MarksDeleted, LocationsExist,
                CatalogueHonest, Owning

LEMMA RowAlways == Spec => []RowInv
  <1>1. TypeOK /\ SweepInv /\ RowInv /\ [Next]_vars => RowInv'
    BY RowStep
  <1> QED
    BY <1>1, RowInit, TypeCorrect, SweepAlways, PTL DEF Spec

(* The catalogue is honest about the store in every state: a completed row *)
(* names a blob of its tenant, a row marked deleted one that is gone, and  *)
(* no blob vanishes behind the catalogue's back but where a mark was lost. *)
THEOREM CatalogueIsHonest == Spec => []CatalogueHonest
  <1>1. RowInv => CatalogueHonest
    BY DEF RowInv
  <1> QED
    BY <1>1, RowAlways, PTL

(* While a restore overwrites a tenant, the snapshot it took is stored; a  *)
(* restore the log calls completed has a completed snapshot.               *)
THEOREM RestoresAreUndoable == Spec => []RestoreUndoable
  <1>1. SweepInv /\ RowInv => RestoreUndoable
    <2>1. ASSUME SweepInv, NEW q \in Requests, job[q].pc \in Overwriting
          PROVE  job[q].blob # NoBlob /\ job[q].blob \in Stored(job[q].tenant)
      BY <2>1, ActorsAre, NoBlobIsNone
         DEF SweepInv, ActorInv, HeldIsStored, Holding, Stored
    <2>2. ASSUME RowInv, NEW q \in Requests, log[q].status = "completed"
          PROVE  log[q].snapshot # NoRow /\ row[log[q].snapshot].status = "completed"
      BY <2>2, NoBlobIsNone DEF RowInv, SnapshotsAreFree
    <2> QED
      BY <2>1, <2>2 DEF RestoreUndoable
  <1> QED
    BY <1>1, SweepAlways, RowAlways, PTL
=============================================================================
