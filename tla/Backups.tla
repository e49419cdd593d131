------------------------------- MODULE Backups -------------------------------
(***************************************************************************)
(* The backup catalogue of the control plane and the blobs it speaks of:   *)
(* the nightly scheduler with its retention sweep (backup-scheduler.ts),   *)
(* the routes that back a tenant up and restore it (app.ts), and the       *)
(* Azure Blob store, one await at a time.  Nothing here takes a lock: the  *)
(* two schedulers of a rolling update and any number of requests run side  *)
(* by side, and each may die at any await.                                 *)
(*                                                                         *)
(* A statement that fails may have taken effect: only its answer is lost.  *)
(***************************************************************************)
EXTENDS Naturals

CONSTANTS
    Tenants,
    Schedulers,     \* the control-plane processes' schedulers
    Requests,       \* POSTs of a backup or a restore
    Retention,      \* BACKUP_RETENTION_DAYS
    Changes,        \* states the other handlers write
    NumRows, NumBlobs, MaxDay       \* bounds

Actors == Schedulers \cup Requests
Rows   == 1 .. NumRows
Blobs  == 1 .. NumBlobs
Days   == 1 .. MaxDay
NoRow  == 0
NoBlob == 0

ASSUME RetentionAssumption == Retention \in Nat \ {0}
ASSUME BoundsAssumption    == NumRows \in Nat /\ NumBlobs \in Nat /\ MaxDay \in Nat \ {0}
ASSUME ActorsAssumption    == Schedulers \cap Requests = {}
ASSUME TenantsAssumption   == Tenants # {}

VARIABLES
    day,
    state,      \* state[t]: current_state in the registry
    row,        \* row[i]: a row of backup_catalog
    blob,       \* blob[b]: a blob; a lower number sorts first
    log,        \* log[q]: the row of restore_log of request q
    job,        \* job[a]: the await an actor is at
    tick,       \* tick[s]: the locals of a scheduler's tick
    unmarked    \* history: blobs deleted whose mark, or whose deletion's answer, was lost

vars == <<day, state, row, blob, log, job, tick, unmarked>>

(* "other" stands for the states in which no backup and no restore begins. *)
States   == {"ready", "sleeping", "maintenance", "restoring", "other"}
ASSUME ChangesAssumption == Changes \subseteq States
Statuses == {"none", "queued", "running", "completed", "failed"}

Row  == [tenant: Tenants, status: Statuses, location: Blobs \cup {NoBlob},
         deleted: BOOLEAN]
Blob == [tenant: Tenants, at: {"none", "stored", "deleted"}, day: Days]
Log  == [status: Statuses, backup: Rows \cup {NoRow}, snapshot: Rows \cup {NoRow}]

BackupSteps  == {"insert", "run", "dump", "complete", "fail"}
RestoreSteps == {"rInsert", "rEnter", "rRun", "rFetch", "rSnapshot", "rApply",
                 "rCatalogue", "rCatalogued", "rLeave", "rDone", "rFail", "rBack"}
SweepSteps   == {"sweepList", "sweep", "mark"}
PCs          == {"idle", "list", "next", "ended"}
                    \cup BackupSteps \cup RestoreSteps \cup SweepSteps

(* blob: what the actor stored, reads or deletes; back: previousState.     *)
Job  == [pc: PCs, tenant: Tenants, row: Rows \cup {NoRow},
         blob: Blobs \cup {NoBlob}, source: Blobs \cup {NoBlob},
         began: Days \cup {0}, back: States]

(* done: successfullyBackedUpPrefixes; stale: the blobs the sweep has yet  *)
(* to look at; newest: newestByPrefix.                                     *)
Tick == [todo: SUBSET Tenants, done: SUBSET Tenants,
         stale: SUBSET Blobs, newest: SUBSET Blobs]

AnyTenant == CHOOSE t \in Tenants : TRUE
NoTick == [todo |-> {}, done |-> {}, stale |-> {}, newest |-> {}]
At(pc, began) == [pc |-> pc, tenant |-> AnyTenant, row |-> NoRow, blob |-> NoBlob,
                  source |-> NoBlob, began |-> began, back |-> "ready"]

Init ==
    /\ day = 1
    /\ state = [t \in Tenants |-> "ready"]
    /\ row = [i \in Rows |-> [tenant |-> AnyTenant, status |-> "none",
                              location |-> NoBlob, deleted |-> FALSE]]
    /\ blob = [b \in Blobs |-> [tenant |-> AnyTenant, at |-> "none", day |-> 1]]
    /\ log = [q \in Requests |-> [status |-> "none", backup |-> NoRow,
                                  snapshot |-> NoRow]]
    /\ job = [a \in Actors |-> At("idle", 0)]
    /\ tick = [s \in Schedulers |-> NoTick]
    /\ unmarked = {}

Busy(a) == job[a].pc \notin {"idle", "ended"}

Goto(a, from, to) == job[a].pc = from /\ job' = [job EXCEPT ![a].pc = to]

(* The locals go out of scope; a scheduler remembers when it last ran.     *)
Over(a) == job' = [job EXCEPT ![a] = IF a \in Schedulers THEN At("idle", @.began)
                                                         ELSE At("ended", 0)]

(* randomUUID(), and a name made of the tenant and the time.               *)
UnusedRow(i)  == row[i].status = "none"
UnusedBlob(b) == blob[b].at = "none"
NewRow  == CHOOSE i \in Rows : UnusedRow(i)
NewBlob == CHOOSE b \in Blobs : UnusedBlob(b)

(* What a statement leaves when its answer is lost.                        *)
Perhaps(new, old) == {new, old}

-----------------------------------------------------------------------------
(* createBackupRun, markBackupRunRunning, executeBackup and                *)
(* markBackupRunCompleted: the same sequence in backupOneTenant and in     *)
(* POST .../backup.                                                        *)

Return(a, from) ==
    /\ job[a].pc = from
    /\ IF a \in Schedulers THEN job' = [job EXCEPT ![a] = At("next", @.began)] ELSE Over(a)

Queued(t) == [tenant |-> t, status |-> "queued", location |-> NoBlob, deleted |-> FALSE]

CreateBackupRun(a) ==
    /\ job[a].pc = "insert" /\ \E i \in Rows : UnusedRow(i)
    /\ row' = [row EXCEPT ![NewRow] = Queued(job[a].tenant)]
    /\ job' = [job EXCEPT ![a].pc = "run", ![a].row = NewRow, ![a].blob = NoBlob]
    /\ UNCHANGED <<day, state, blob, log, tick, unmarked>>

CreateBackupRunFails(a) ==
    /\ Return(a, "insert")
    /\ \/ UNCHANGED row
       \/ /\ \E i \in Rows : UnusedRow(i)
          /\ row' = [row EXCEPT ![NewRow] = Queued(job[a].tenant)]
    /\ UNCHANGED <<day, state, blob, log, tick, unmarked>>

MarkBackupRunRunning(a) ==
    /\ Goto(a, "run", "dump")
    /\ row' = [row EXCEPT ![job[a].row].status = "running"]
    /\ UNCHANGED <<day, state, blob, log, tick, unmarked>>

MarkBackupRunRunningFails(a) ==
    /\ Goto(a, "run", "fail")
    /\ row' \in Perhaps([row EXCEPT ![job[a].row].status = "running"], row)
    /\ UNCHANGED <<day, state, blob, log, tick, unmarked>>

Uploaded(t) == [tenant |-> t, at |-> "stored", day |-> day]

(* pg_dump, then the upload.                                               *)
ExecuteBackup(a) ==
    /\ job[a].pc = "dump" /\ \E b \in Blobs : UnusedBlob(b)
    /\ blob' = [blob EXCEPT ![NewBlob] = Uploaded(job[a].tenant)]
    /\ job' = [job EXCEPT ![a].pc = "complete", ![a].blob = NewBlob]
    /\ UNCHANGED <<day, state, row, log, tick, unmarked>>

(* The blob may be there all the same: of an upload whose answer was lost  *)
(* or a checksum that failed.                                              *)
ExecuteBackupFails(a) ==
    /\ Goto(a, "dump", "fail")
    /\ \/ UNCHANGED blob
       \/ /\ \E b \in Blobs : UnusedBlob(b)
          /\ blob' = [blob EXCEPT ![NewBlob] = Uploaded(job[a].tenant)]
    /\ UNCHANGED <<day, state, row, log, tick, unmarked>>

Completed(i, b) == [row EXCEPT ![i].status = "completed", ![i].location = b]

MarkBackupRunCompleted(a) ==
    /\ Return(a, "complete")
    /\ row' = Completed(job[a].row, job[a].blob)
    /\ tick' = IF a \in Schedulers
               THEN [tick EXCEPT ![a].done = @ \cup {job[a].tenant}] ELSE tick
    /\ UNCHANGED <<day, state, blob, log, unmarked>>

MarkBackupRunCompletedFails(a) ==
    /\ Goto(a, "complete", "fail")
    /\ row' \in Perhaps(Completed(job[a].row, job[a].blob), row)
    /\ UNCHANGED <<day, state, blob, log, tick, unmarked>>

(* Variant: a tenant whose backup failed counts as backed up.              *)
MarkBackupRunFailedAndGoOn(a) ==
    /\ Return(a, "fail")
    /\ row' \in Perhaps([row EXCEPT ![job[a].row].status = "failed"], row)
    /\ tick' = IF a \in Schedulers
               THEN [tick EXCEPT ![a].done = @ \cup {job[a].tenant}] ELSE tick
    /\ UNCHANGED <<day, state, blob, log, unmarked>>

(* Variant: a backup that failed is tried again, for ever.                 *)
MarkBackupRunFailedAndRetries(a) ==
    /\ Goto(a, "fail", "run")
    /\ UNCHANGED <<day, state, row, blob, log, tick, unmarked>>

(* markBackupRunFailed is tried once.                                      *)
MarkBackupRunFailed(a) ==
    /\ Return(a, "fail")
    /\ row' \in Perhaps([row EXCEPT ![job[a].row].status = "failed"], row)
    /\ UNCHANGED <<day, state, blob, log, tick, unmarked>>

BackupRun(a) ==
    \/ CreateBackupRun(a)        \/ CreateBackupRunFails(a)
    \/ MarkBackupRunRunning(a)   \/ MarkBackupRunRunningFails(a)
    \/ ExecuteBackup(a)          \/ ExecuteBackupFails(a)
    \/ MarkBackupRunCompleted(a) \/ MarkBackupRunCompletedFails(a)
    \/ MarkBackupRunFailed(a)

-----------------------------------------------------------------------------
(* The scheduler's tick.                                                   *)

(* The timer: nextScheduledTime is always after the tick that asks.        *)
TickBegins(s) ==
    /\ job[s].pc = "idle" /\ job[s].began < day
    /\ job' = [job EXCEPT ![s].pc = "list", ![s].began = day]
    /\ UNCHANGED <<day, state, row, blob, log, tick, unmarked>>

ListTenants(s) ==
    /\ Goto(s, "list", "next")
    /\ tick' = [tick EXCEPT
         ![s].todo = {t \in Tenants : state[t] \in {"ready", "sleeping"}}]
    /\ UNCHANGED <<day, state, row, blob, log, unmarked>>

ListTenantsFails(s) ==
    /\ job[s].pc = "list" /\ Over(s)
    /\ tick' = [tick EXCEPT ![s] = NoTick]
    /\ UNCHANGED <<day, state, row, blob, log, unmarked>>

(* The state the tenant has by now is not looked at.                       *)
NextTenant(s) ==
    /\ job[s].pc = "next"
    /\ \E t \in tick[s].todo :
        /\ tick' = [tick EXCEPT ![s].todo = @ \ {t}]
        /\ job' = [job EXCEPT ![s].pc = "insert", ![s].tenant = t]
    /\ UNCHANGED <<day, state, row, blob, log, unmarked>>

BackupsDone(s) ==
    /\ tick[s].todo = {} /\ Goto(s, "next", "sweepList")
    /\ UNCHANGED <<day, state, row, blob, log, tick, unmarked>>

Stale == {b \in Blobs : blob[b].at = "stored" /\ blob[b].day + Retention < day}

(* Later, or as late and listed first.                                     *)
Newer(c, b) == /\ blob[c].tenant = blob[b].tenant
               /\ \/ blob[c].day > blob[b].day
                  \/ blob[c].day = blob[b].day /\ c < b

ListBlobsOlderThan(s) ==
    /\ Goto(s, "sweepList", "sweep")
    /\ tick' = [tick EXCEPT
         ![s].stale = Stale,
         ![s].newest = {b \in Stale : \A c \in Stale : ~ Newer(c, b)}]
    /\ UNCHANGED <<day, state, row, blob, log, unmarked>>

ListBlobsFails(s) ==
    /\ job[s].pc = "sweepList" /\ Over(s)
    /\ tick' = [tick EXCEPT ![s] = NoTick]
    /\ UNCHANGED <<day, state, row, blob, log, unmarked>>

(* The last known blob of a tenant this tick did not back up.              *)
Retained(s, b) == b \in tick[s].newest /\ blob[b].tenant \notin tick[s].done

RetainBlob(s) ==
    /\ job[s].pc = "sweep"
    /\ \E b \in tick[s].stale :
        /\ Retained(s, b)
        /\ tick' = [tick EXCEPT ![s].stale = @ \ {b}]
    /\ UNCHANGED <<day, state, row, blob, log, job, unmarked>>

(* deleteIfExists; another sweep may have been faster.                     *)
DeleteBlob(s) ==
    /\ job[s].pc = "sweep"
    /\ \E b \in tick[s].stale :
        /\ ~ Retained(s, b)
        /\ blob' = [blob EXCEPT ![b].at = "deleted"]
        /\ tick' = [tick EXCEPT ![s].stale = @ \ {b}]
        /\ job' = [job EXCEPT ![s].pc = "mark", ![s].blob = b]
    /\ UNCHANGED <<day, state, row, log, unmarked>>

(* Variant: a blob whose deletion failed is marked all the same.           *)
DeleteBlobFailsAndMarks(s) ==
    /\ job[s].pc = "sweep"
    /\ \E b \in tick[s].stale :
        /\ ~ Retained(s, b)
        /\ tick' = [tick EXCEPT ![s].stale = @ \ {b}]
        /\ job' = [job EXCEPT ![s].pc = "mark", ![s].blob = b]
    /\ UNCHANGED <<day, state, row, blob, log, unmarked>>

DeleteBlobFails(s) ==
    /\ job[s].pc = "sweep"
    /\ \E b \in tick[s].stale :
        /\ ~ Retained(s, b)
        /\ tick' = [tick EXCEPT ![s].stale = @ \ {b}]
        /\ \/ UNCHANGED <<blob, unmarked>>
           \/ /\ blob' = [blob EXCEPT ![b].at = "deleted"]
              /\ unmarked' = unmarked \cup {b}
    /\ UNCHANGED <<day, state, row, log, job>>

(* Every row with that location; its status does not matter.               *)
Marked(b) == [i \in Rows |-> IF row[i].location = b
                             THEN [row[i] EXCEPT !.deleted = TRUE] ELSE row[i]]

Swept(s) == /\ job[s].pc = "mark"
            /\ job' = [job EXCEPT ![s] = At("sweep", @.began)]

MarkLocationDeleted(s) ==
    /\ Swept(s)
    /\ row' = Marked(job[s].blob)
    /\ UNCHANGED <<day, state, blob, log, tick, unmarked>>

MarkLocationDeletedFails(s) ==
    /\ Swept(s)
    /\ row' \in Perhaps(Marked(job[s].blob), row)
    /\ unmarked' = unmarked \cup {job[s].blob}
    /\ UNCHANGED <<day, state, blob, log, tick>>

SweepDone(s) ==
    /\ job[s].pc = "sweep" /\ tick[s].stale = {} /\ Over(s)
    /\ tick' = [tick EXCEPT ![s] = NoTick]
    /\ UNCHANGED <<day, state, row, blob, log, unmarked>>

Nightly(s) ==
    \/ ListTenants(s) \/ ListTenantsFails(s) \/ NextTenant(s) \/ BackupRun(s)
    \/ BackupsDone(s) \/ ListBlobsOlderThan(s) \/ ListBlobsFails(s)
    \/ RetainBlob(s) \/ DeleteBlob(s) \/ DeleteBlobFails(s)
    \/ MarkLocationDeleted(s) \/ MarkLocationDeletedFails(s) \/ SweepDone(s)

-----------------------------------------------------------------------------
(* POST .../backup                                                         *)

RequestBackup(q) ==
    /\ job[q].pc = "idle"
    /\ \E t \in Tenants :
        /\ state[t] \in {"ready", "maintenance"}
        /\ job' = [job EXCEPT ![q].pc = "insert", ![q].tenant = t, ![q].began = day]
    /\ UNCHANGED <<day, state, row, blob, log, tick, unmarked>>

(* POST .../restore: by a row of the tenant's, or by a location, which is  *)
(* not looked up.                                                          *)
Restorable(i, t) == /\ row[i].tenant = t /\ row[i].status = "completed"
                    /\ row[i].location # NoBlob /\ ~ row[i].deleted

RequestRestore(q) ==
    /\ job[q].pc = "idle"
    /\ \E t \in Tenants, i \in Rows \cup {NoRow}, b \in Blobs :
        /\ state[t] \in {"ready", "maintenance"}
        /\ IF i = NoRow THEN ~ UnusedBlob(b) ELSE Restorable(i, t) /\ b = row[i].location
        /\ job' = [job EXCEPT ![q].pc = "rInsert", ![q].tenant = t, ![q].began = day,
                              ![q].row = i, ![q].source = b, ![q].back = state[t]]
    /\ UNCHANGED <<day, state, row, blob, log, tick, unmarked>>

RestoreQueued(q) ==
    [log EXCEPT ![q].status = "queued", ![q].backup = job[q].row]

CreateRestoreRun(q) ==
    /\ Goto(q, "rInsert", "rEnter")
    /\ log' = RestoreQueued(q)
    /\ UNCHANGED <<day, state, row, blob, tick, unmarked>>

EnterRestoring(q) ==
    /\ Goto(q, "rEnter", "rRun")
    /\ state' = [state EXCEPT ![job[q].tenant] = "restoring"]
    /\ UNCHANGED <<day, row, blob, log, tick, unmarked>>

MarkRestoreRunRunning(q) ==
    /\ Goto(q, "rRun", "rFetch")
    /\ log' = [log EXCEPT ![q].status = "running"]
    /\ UNCHANGED <<day, state, row, blob, tick, unmarked>>

(* Variant: no safety snapshot.                                            *)
MaterializeBackupOnly(q) ==
    /\ Goto(q, "rFetch", "rApply")
    /\ state[job[q].tenant] = "restoring"
    /\ blob[job[q].source].at = "stored"
    /\ UNCHANGED <<day, state, row, blob, log, tick, unmarked>>

(* materializeBackup, of a tenant that is read again.                      *)
MaterializeBackup(q) ==
    /\ Goto(q, "rFetch", "rSnapshot")
    /\ state[job[q].tenant] = "restoring"
    /\ blob[job[q].source].at = "stored"
    /\ UNCHANGED <<day, state, row, blob, log, tick, unmarked>>

(* assertNoActiveConnections, backupTenant, and the assertion again.       *)
TakeSafetySnapshot(q) ==
    /\ job[q].pc = "rSnapshot" /\ \E b \in Blobs : UnusedBlob(b)
    /\ blob' = [blob EXCEPT ![NewBlob] = Uploaded(job[q].tenant)]
    /\ job' = [job EXCEPT ![q].pc = "rApply", ![q].blob = NewBlob]
    /\ UNCHANGED <<day, state, row, log, tick, unmarked>>

ApplyBackup(q) ==
    /\ Goto(q, "rApply", "rCatalogue")
    /\ UNCHANGED <<day, state, row, blob, log, tick, unmarked>>

(* persistCompletedBackupArtifact                                          *)
CatalogueSnapshot(q) ==
    /\ job[q].pc = "rCatalogue" /\ \E i \in Rows : UnusedRow(i)
    /\ row' = [row EXCEPT ![NewRow] = Queued(job[q].tenant)]
    /\ job' = [job EXCEPT ![q].pc = "rCatalogued", ![q].row = NewRow]
    /\ UNCHANGED <<day, state, blob, log, tick, unmarked>>

CompleteSnapshot(q) ==
    /\ Goto(q, "rCatalogued", "rLeave")
    /\ row' = Completed(job[q].row, job[q].blob)
    /\ UNCHANGED <<day, state, blob, log, tick, unmarked>>

LeaveRestoring(q) ==
    /\ Goto(q, "rLeave", "rDone")
    /\ state' = [state EXCEPT ![job[q].tenant] = job[q].back]
    /\ UNCHANGED <<day, row, blob, log, tick, unmarked>>

Restored(q) == [log EXCEPT ![q].status = "completed", ![q].snapshot = job[q].row]

MarkRestoreRunCompleted(q) ==
    /\ job[q].pc = "rDone" /\ Over(q)
    /\ log' = Restored(q)
    /\ UNCHANGED <<day, state, row, blob, tick, unmarked>>

(* createRestoreRun is not in the try; whatever throws in it.              *)
RestoreRejected(q) ==
    /\ job[q].pc = "rInsert" /\ Over(q)
    /\ log' \in Perhaps(RestoreQueued(q), log)
    /\ UNCHANGED <<day, state, row, blob, tick, unmarked>>

Throwing == {"rEnter", "rRun", "rFetch", "rSnapshot", "rApply", "rCatalogue",
             "rCatalogued", "rLeave", "rDone"}

RestoreThrows(q) ==
    /\ job[q].pc \in Throwing /\ Goto(q, job[q].pc, "rFail")
    /\ UNCHANGED <<day, state, row, blob, log, tick, unmarked>>

(* The statement took effect, only its answer was lost.                    *)
RestoreThrowsLate(q) ==
    /\ \/ /\ \/ /\ job[q].pc = "rEnter"
                /\ state' = [state EXCEPT ![job[q].tenant] = "restoring"]
             \/ /\ job[q].pc = "rLeave"
                /\ state' = [state EXCEPT ![job[q].tenant] = job[q].back]
          /\ UNCHANGED <<row, blob, log>>
       \/ /\ \/ job[q].pc = "rRun" /\ log' = [log EXCEPT ![q].status = "running"]
             \/ job[q].pc = "rDone" /\ log' = Restored(q)
          /\ UNCHANGED <<state, row, blob>>
       \/ /\ job[q].pc = "rSnapshot" /\ \E b \in Blobs : UnusedBlob(b)
          /\ blob' = [blob EXCEPT ![NewBlob] = Uploaded(job[q].tenant)]
          /\ UNCHANGED <<state, row, log>>
       \/ /\ \/ /\ job[q].pc = "rCatalogue" /\ \E i \in Rows : UnusedRow(i)
                /\ row' = [row EXCEPT ![NewRow] = Queued(job[q].tenant)]
             \/ /\ job[q].pc = "rCatalogued"
                /\ row' = Completed(job[q].row, job[q].blob)
          /\ UNCHANGED <<state, blob, log>>
    /\ job' = [job EXCEPT ![q].pc = "rFail"]
    /\ UNCHANGED <<day, tick, unmarked>>

MarkRestoreRunFailed(q) ==
    /\ Goto(q, "rFail", "rBack")
    /\ log' \in Perhaps([log EXCEPT ![q].status = "failed"], log)
    /\ UNCHANGED <<day, state, row, blob, tick, unmarked>>

(* previousState, over whatever was written since; tried once.             *)
RestoreBack(q) ==
    /\ job[q].pc = "rBack" /\ Over(q)
    /\ state' \in Perhaps([state EXCEPT ![job[q].tenant] = job[q].back], state)
    /\ UNCHANGED <<day, row, blob, log, tick, unmarked>>

Restore(q) ==
    \/ CreateRestoreRun(q)  \/ EnterRestoring(q)    \/ MarkRestoreRunRunning(q)
    \/ MaterializeBackup(q) \/ TakeSafetySnapshot(q) \/ ApplyBackup(q)
    \/ CatalogueSnapshot(q) \/ CompleteSnapshot(q)  \/ LeaveRestoring(q)
    \/ MarkRestoreRunCompleted(q) \/ RestoreRejected(q) \/ RestoreThrows(q)
    \/ RestoreThrowsLate(q) \/ MarkRestoreRunFailed(q) \/ RestoreBack(q)

-----------------------------------------------------------------------------
(* The world                                                               *)

(* The process dies, or is stopped and does not finish in time.            *)
Dies(a) ==
    /\ Busy(a)
    /\ Over(a)
    /\ tick' = IF a \in Schedulers THEN [tick EXCEPT ![a] = NoTick] ELSE tick
    /\ unmarked' = IF job[a].pc = "mark" THEN unmarked \cup {job[a].blob} ELSE unmarked
    /\ UNCHANGED <<day, state, row, blob, log>>

(* Provisioning, the activator, operators: TenantLifecycle, ScaleToZero.   *)
TenantChanges(t) ==
    /\ \E s \in Changes : state' = [state EXCEPT ![t] = s]
    /\ UNCHANGED <<day, row, blob, log, job, tick, unmarked>>

(* No tick and no request takes longer than the retention period.          *)
DayEnds ==
    /\ day < MaxDay
    /\ \A a \in Actors : Busy(a) => day < job[a].began + Retention
    /\ day' = day + 1
    /\ UNCHANGED <<state, row, blob, log, job, tick, unmarked>>

Next ==
    \/ \E s \in Schedulers : TickBegins(s) \/ Nightly(s)
    \/ \E q \in Requests : RequestBackup(q) \/ RequestRestore(q) \/ BackupRun(q) \/ Restore(q)
    \/ \E a \in Actors : Dies(a)
    \/ \E t \in Tenants : TenantChanges(t)
    \/ DayEnds

Spec == Init /\ [][Next]_vars

(* An await returns or throws.  pg_dump has no timeout: if it hangs, this  *)
(* is not so.                                                              *)
FairSpec == Spec /\ \A s \in Schedulers : WF_vars(Nightly(s))
-----------------------------------------------------------------------------
TypeOK ==
    /\ day \in Days
    /\ state \in [Tenants -> States]
    /\ row \in [Rows -> Row]
    /\ blob \in [Blobs -> Blob]
    /\ log \in [Requests -> Log]
    /\ job \in [Actors -> Job]
    /\ tick \in [Schedulers -> Tick]
    /\ unmarked \in SUBSET (Blobs \cup {NoBlob})

Stored(t) == {b \in Blobs : blob[b].at = "stored" /\ blob[b].tenant = t}

(* The last known backup of a tenant is always retained, even if past the  *)
(* retention window (docs/deploy/README.md:960): no step deletes the last  *)
(* blob a tenant has, whatever failed or died before, and with any number  *)
(* of sweeps side by side.                                                 *)
LastBlobKept ==
    [][\A t \in Tenants : Stored(t) # {} => Stored(t)' # {}]_vars

(* The catalogue and the store agree: a completed row has a blob of its    *)
(* tenant; a row marked deleted has none any more; and a completed row not *)
(* marked lost its blob only to a sweep that is about to mark it or could  *)
(* not.                                                                    *)
CatalogueHonest ==
    \A i \in Rows :
        /\ row[i].status = "completed" =>
            /\ row[i].location # NoBlob
            /\ blob[row[i].location].at # "none"
            /\ blob[row[i].location].tenant = row[i].tenant
        /\ row[i].deleted =>
            row[i].location # NoBlob /\ blob[row[i].location].at = "deleted"
        /\ row[i].status = "completed" /\ blob[row[i].location].at = "deleted" =>
            \/ row[i].deleted
            \/ row[i].location \in unmarked
            \/ \E s \in Schedulers : job[s].pc = "mark" /\ job[s].blob = row[i].location

Overwriting == {"rApply", "rCatalogue", "rCatalogued", "rLeave", "rDone"}

(* A restore can be undone: from before pg_restore begins until the        *)
(* request ends the snapshot it took is in the store, no sweep takes it;   *)
(* and a restore the log calls completed names the row of its snapshot.    *)
RestoreUndoable ==
    \A q \in Requests :
        /\ job[q].pc \in Overwriting =>
            job[q].blob # NoBlob /\ job[q].blob \in Stored(job[q].tenant)
        /\ log[q].status = "completed" =>
            log[q].snapshot # NoRow /\ row[log[q].snapshot].status = "completed"

(* Whatever fails, a tick comes to its end and the next is scheduled.      *)
TickEnds == \A s \in Schedulers : Busy(s) ~> ~ Busy(s)

=============================================================================
