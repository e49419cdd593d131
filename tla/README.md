# A TLA+ model of dnd-notes

dnd-notes is a hosted note-taking service for tabletop campaigns.  Every
customer gets a *tenant*: a Kubernetes namespace with one application pod, a
Postgres database and role of its own, and a Keycloak client.  A control plane
creates, upgrades, backs up, restores and deletes tenants; an activator in
front of the tenants scales idle ones to zero and wakes them on request.  This
directory models the parts whose correctness depends on the order in which
things happen.  Paths below are relative to the repository's root.

## Inventory

| component | state it keeps | operations | what makes it hard | modules |
|---|---|---|---|---|
| **tenant lifecycle** (`apps/control-plane/src/provisioning.ts`, `app.ts`, `tenant-registry-postgres.ts`, `tenant-backup-runner.ts`) | registry row, advisory lock; in the cluster: namespace, secret, deployment, pod; in Postgres: database, role; Keycloak client | provision, version update, deprovision, state and desired-state PATCH, restore | long handlers of many awaits; the lock is released during the rollout wait; PATCH and restore take no lock; any step may fail; the process may die anywhere | TenantLifecycle |
| **scale to zero** (`apps/activator/src`, idle scaler CronJob) | replica and endpoint caches fed by Kubernetes watches, wake in progress, activity rows, tenant state | proxy, hold and wake, wake-status poll, stamp activity, mark ready; scale down, sync back | stale caches, lost watch events, fire-and-forget writes, the scaler's SELECT and PATCH against a concurrent wake | ScaleToZero |
| **fleet rollout** (`fleet-rollout-orchestrator.ts`) | rollout and per-tenant rows, a session advisory lock, one loop per process | start, roll each tenant, abort, finish, clean up orphans at boot | abort while a tenant rolls, crash between writes, two pods during a deployment | FleetRollout, RolloutLedger |
| **fleet report** (`tenant-registry-postgres.ts`) | transition log | compute ready time per tenant | two orders of one log | FleetUptime |
| **role sync and signup** (`role-sync-retry.ts`, `app.ts`) | accounts with a pending flag, roles in Keycloak | link account, sweep, retry, signup and its rollback | partial failure, lost retries, two users with one address | RoleSync |
| **backups** (`backup-scheduler.ts`, runner, dispatcher, blob store) | catalogue rows, blobs | nightly tick, retention sweep, operator backup, restore | crash between blob and row, last recoverable copy | Backups |
| **migration runner** (`packages/postgres-migrations`) | ledger, advisory lock | run pending migrations | two processes at once, death inside a migration, a session that outlives its process | Migrations |
| **tenant application's process** (`apps/api/src/app.ts`, `control-routes.ts`, `shutdown.ts`; `apps/web/src/api-fetch.ts`) | maintenance flag, in-flight count, shutdown phase; the browser's retries | admit write, enable, disable, drain, shut down; resend | flag against writes in flight, late control calls, signal races | ApiProcess |
| **note store** (`apps/api/src/note-store-*.ts`) | notes, references | create, edit, delete, consolidate, boot's rewriting of references | READ COMMITTED, locks of foreign keys | NoteStore |
| **membership and access** (the same, `route-support.ts`, the routes) | accounts, campaigns, memberships, share links, notes' authors, connection pool | first sign-in, join, claim, consolidate, link, revoke, write | check-then-write, nested transactions, pool exhaustion | Members |
| **web workspace** (`apps/web/src/hooks`) | session, request identifiers, abort controllers, drafts, `localStorage` | sign in and out, refresh, load, save, switch campaign, share | late answers | WebSession, Workspace |
| **customer portal** (`apps/customer-portal/src/App.tsx`) | session, dashboard, effects | hydrate, create, poll, navigate | effects restarted under requests in flight | CustomerPortal |
| **operator portal** (`apps/operator-portal/src`) | session, fleet, dialogs, rollout panel | load, provision, upgrade, deprovision, start and abort rollouts, search | polls, refresh against sign-out, searches out of order | OperatorPortal |
| identity, routing, validation, theme, editor, proxying, metrics, manifests | none of record | | not modelled: stateless, or rendering | |

How they interact: the control plane's handlers call the Kubernetes, Postgres
and Keycloak APIs, and the tenant's own `/_control` routes; the fleet rollout
calls the same `provisionTenant` as the operator's request; the activator and
the idle scaler share the tenants' rows with the control plane and the
deployments with provisioning; role sync and signup write to Keycloak clients
that provisioning creates and deprovisioning deletes; backups and restores use
the tenant's database while provisioning and deprovisioning may change it; the
web application resends what a sleeping or gated tenant refuses; the portals
poll the control plane.

What must hold, per component:

* lifecycle: the pod's credentials always work; nothing is left of a deleted
  tenant and nothing exists that deletion cannot find;
* scale to zero: only tenants that can be woken are put to sleep; a tenant
  somebody asks for is eventually served; registry and cluster agree again
  after every race; caches converge after lost events;
* fleet rollout: one rollout at a time; a finished rollout's rows say what was
  done; the lock is given back;
* role sync: an account marked complete has its roles; a pending one is
  retried; nobody acts as somebody else;
* backups: a tenant's last recoverable copy is never deleted; the catalogue
  tells the truth; a restore can be undone;
* migrations: each file applied exactly once, in order, or not at all;
* the application's process: a drained tenant has no write in flight; a resent
  write runs once; the pool closes after its clients are served;
* note store and access: references follow the notes; one seat per account and
  campaign, one owner per campaign; whoever a note names belongs to its
  campaign; every request ends;
* web: what is shown belongs to the last request made; what is typed is saved
  where it was typed; a sign-out leaves nothing behind;
* portals: a sign-out is final, polls go on, and options answer what was asked.

## The modules

### TenantLifecycle

One tenant and `Procs` request handlers.  A handler is a process whose `pc` is
the await it stands at; one action is the code from one await to the next.
`row` is the registry row, `kube` what the API server holds (the namespace's
phase, the password in the secret, the deployment's image, the image the pod
runs, and the maintenance flag inside that pod), `pg` the database and the
role's password, `kc` the Keycloak client, `lock` the holder of the tenant's
advisory lock.  `loc[p]` is what handler `p` read earlier and still uses: the
requested version, the state and subdomain of the re-read row, the password.

* `Provision*` is `provisionTenant`: phase 1 under the lock (adopt the version,
  mark, reserve the subdomain, read or generate the runtime identity, database,
  role, storage reference, Keycloak client, namespace, secret, deployment),
  phase 2 waits without the lock, phase 3 takes it again and writes `ready`.
  `ProvisionThrow` and `ProvisionAbort` are the `catch` of phase 1.
* `Deprovision*` is `deprovisionTenant`, wholly under the lock.
* `Patch*` are the two operator PATCH routes, with the control call to the pod.
  PATCH to `sleeping` belongs to scale to zero.
* `Restore*` is the restore route with the runner's checks.
* `Crash` kills a handler between two awaits: the process dies, or a statement
  outside every `catch` fails.  Its database session goes, and the lock with it.
* `PodStarts`, `PodDies`, `NamespaceDrains`, `NamespaceGone` are the cluster.

A password is the number of the run that generated it, so equal numbers mean
equal passwords.  `row.by` is a history variable: which operation wrote the
state last.

| run | question | bounds |
|---|---|---|
| `TenantLifecycle_safety` | do credentials, workload, database and row agree through every interleaving, failure and crash | 2 handlers, 2 versions, 4 operations of any kind, 1 crash |

Two handlers and four operations are enough for the hard cases: an unlocked
wait of one run overlapped by a complete operation of another, followed by a
retry.  The theorems remove the bounds for the safety properties.

Left to the reader of the code, since the code does not promise them when
operations overlap or the process dies: TLC found on the way, and no run
repeats, that

* phase 3 writes `ready` over a tenant that a deprovision deleted during the
  unlocked wait (`provisioning.ts:676`), although the control plane's README
  (line 34) says that a `ready` tenant serves traffic;
* two provision runs may wait for one rollout, because the in-flight guard reads
  a state that others write without the lock;
* `upgrading` stays, and rejects every later run, when the control plane dies
  during the wait or its lock times out before phase 3, and the version is not
  put back when a run fails;
* other operations move the row out of `restoring` while `pg_restore` runs, and
  restore writes back the state it found over theirs (`app.ts:1899`).

### TenantLifecycleProofs

`Spec => []IInv`, for every value of the constants, and from it `TypeOK`,
`SecretMatchesRole`, `WorkloadHasDatabase`, `DeprovisionedMeansDeleted` and
`InfraIsAddressable` (whatever exists can be found again by the names its
subdomain gives, for deprovisioning skips a row without one).  None of these is inductive alone.  Phase 1 rotates a
password several awaits after it looked for a secret, and deletes a database
several awaits after it saw the namespace go; what keeps these steps right is
what the lock holder may rely on, and `ProvisionInv` and `DeprovisionInv` say
that for each program counter: for instance that at `role` the secret is absent
or already holds the password about to be set, and that from `dropDatabase` on
the namespace is absent, because only a lock holder at `namespace` creates it.
`LockInv` ties the program counters to the lock, so one holder's steps leave
every other handler's clauses alone.  There is one lemma per action, and one
step per conjunct the action can disturb.

### ScaleToZero

One provisioned tenant that scales to zero.  `pods` is the cluster
(`spec.replicas` of the deployment, ready addresses of the endpoints), `watch`
the activator's two watch streams with the events under way, `cache` its
`replicaCache` and `readyAddressCache`.  `req[c]` is where client `c`'s request
waits, `wake` the promise in `wakeInProgress`, `stamp` and `marking` the
registry writes nobody awaits, `scaler` the idle scaler's next statement, `oper`
an operator's PATCH between its gate and its write.  `registry` and `act` are
the rows of `tenants` and `tenant_activity`.

* `WatchStarts`, `WatchEnds`, `WatchEvent` are `runWatchLoop` and the handlers
  of its events.  A stream starts with the current object; what is under way
  when it ends is lost, and the cache keeps what it had.
* `RequestArrives` … `GraceEnds` are `handleRequest`; `PagePolls` … the
  wake-status poll of the interstitial page.  `EnsureWake` joins or starts the
  one wake; `WakePatch` … `WakeTimeout` are that wake, with
  `waitForReadyEndpoint`.
* `ScalerSelect` … `ScalerSyncUpdate` are one run of the CronJob (which forbids
  a second run beside it).  `ScalerFails` is a failed statement or the job's
  end.
* `ActivatorDies` empties the activator's memory and stops its writes.

A GET's answer is one step later than the server's read, so that an event may
come in between and be overwritten.  `act.age` has two values, either side of
the idle threshold; `act.since` says whether the stamp is newer than the
scaler's snapshot.

| run | question | bounds |
|---|---|---|
| `ScaleToZero_safety` | is only a tenant the activator has seen put to sleep | one browser, an operator, 2 faults or operator calls of any kind |
| `ScaleToZero_converges` | is a tenant somebody asks for served in the end; do registry and deployment agree in the end; do the caches converge | one API client, no faults |

One client is enough: the wake, the caches and the writes are shared by all
requests, and a second request only joins them.  One undelivered event per
stream is enough because a longer lag closes the stream, which loses events.

Fairness: pods start and stop; awaited calls settle, and a wake's budget runs
out (`WakeTimeout`, strong because the poll alternates with its GET); the
CronJob runs every five minutes; streams are ended by the server and opened
again, and deliver again and again (`WatchEvent`, strong); a client that wants
the tenant asks again.  `TimePasses` is strong: with nobody about, the idle
threshold passes between two runs of the job.

The two runs are apart because the liveness of a system with faults is beyond
TLC's time here, and safety without them says too little.

The comment "Close the SELECT->PATCH race" (`idle-scaler.ts:73-79`) promises
more than the code does: the deployment is read between the re-read of
`last_request_at` and the PATCH (`idle-scaler.ts:150`), and activity in that
window is missed.  `WokenUp` says why this is tolerable: the tenant is woken
again.  A cache hit is answered however stale it is while a watch reconnects, in
spite of the comment that the fallback GET ensures correctness; `CachesHeal`
bounds that.  `subdomainToId` (`tenant-activity.ts:71`) is kept for the life of
the activator: with a subdomain released and given to another tenant, activity
would be stamped on the former.  The module has one tenant and does not show it.

Left out: `state_transitions` (nothing in this module reads it), DELETED events
and missing deployments, the proxied bytes.

### ScaleToZero's proofs, in TenantLifecycleProofs

The last two sections of TenantLifecycleProofs, which extends both modules of a
tenant's life: the theorems of the one do not mention the other.
`ScaleSpec => []SleepingIsWakeable` for every value of the constants that
`OperatorAssumption` allows.  The operator's
gate and the scaler's query read `seen_by_activator` several steps before the
row is written, so the property is not inductive; `SeenInv` adds that whoever is
between its decision and its write decided with the flag set, and nothing
clears the flag.

`HeldIsAwaited`, too: a request is held only while there is a wake whose end
lets it go on.  Joining a wake, failing, timing out and dying are separate steps
that change the requests and the wake apart, and the invariant needs nothing
but the types, `ScaleTypeOK`.  No run lists it; TLC checked it on the instance
of `ScaleToZero_safety`.  What a queue of events holds is typed by way of
`StreamShape`, for a bounded sequence and a function on `1 .. n` are the same.

### FleetRollout

`row` and `entry` are the tables `fleet_rollouts` and `fleet_rollout_tenants`
(an entry is "rolling" when `started_at` is set and its status still
`pending`), `lock` is the session advisory lock (0, 1), `tenant` the state and
version in the registry.  `run[r]` is rollout `r`'s loop: the await it is at,
the tenants not yet entered, and those not yet done with.

* `StartRollout`, `TakeSnapshot`, `InsertRow`, `EnterTenant`, `CompleteEmpty`
  and `StartFails` are `startFleetRollout`, one action per statement.
* `CheckAbort` … `Unlock` are `runRollout`.  A statement fails in one of two
  ways: it is not applied (`StartFails`, `LoopFails`), or it is applied and its
  answer is lost (`Answered`, and the choice of the next await in the actions
  that change the tenants left).  `FinalizeError` is the outer `catch`, whose
  own statement may fail; `Unlock` the `finally`.  An unlock is taken to fail
  only with its session, which gives the lock back too (`Dies`): the rollouts'
  pool sets no statement timeout (`index.ts:242-245`) and the statement cannot
  be refused.
* `ProvisionRefused` … `ProvisionFails` are `provisionTenant`, reduced to what
  it rejects, the version it adopts and how it ends.  `ProvisionBreaks` is a
  read that throws after the version was written; `withTenantLock` opens no
  transaction, so the version stays.
* `RequestAbort` is `abortFleetRollout`; `Boots` the clean-up of orphans, which
  may come while another process still runs its loop; `Dies` the end of a
  process at any await.
* `OperatorProvisions` is the operator's own `POST .../provision` with a
  version, at any time, and `OthersWriteState` whoever writes a tenant's state
  beside: her `PATCH`, the end of her provision, a deprovision or restore, the
  idle scaler and the activator.  Both act on the `Restless` tenants.

`RolloutLedger` is the abstract specification: what the two tables promise
their readers.  `LedgerSpec` says that FleetRollout implements it.  The mapping
reads a row that a boot ended ("control-plane restart") as "orphaned", an end
that is not final: the loop may be alive in another process and end it again.
Nor are "completed" and "aborted" final while the rollout is the newest: when
the answer to the final UPDATE is lost, the loop's `catch` writes "failed" over
it, for `finalizeRollout` asks for no status (`Correct`).  No row changes that
way once a newer rollout is opened; only a boot may still end one left running.

| run | question | bounds |
|---|---|---|
| `FleetRollout_ledger` | one loop at a time; is the lock given back; do succeeded tenants run the target; do the tables keep the ledger's promise | 2 rollouts to one target version, 2 tenants; one of them may be asleep at first, and the operator may provision it back to its old version (`OperatorAsks`) and others write `ready` over its state (`OthersWrite`) |

Rollouts exclude one another, so two show what one leaves to the next; two
tenants are a first and a last, and enough for an abort that comes too late for
one.  One target suffices because a tenant's version is only compared with it.
`ready` is the state that opens the most: it lets the next provision in while
one is under way; another state only refuses it, and a refusal is possible at
any time.  The theorems hold for every choice of both.
Deaths, failures, lost answers, boots and aborts are not bounded.  Rollouts are numbered in
the order they take the lock; which tenant comes first is left open.

Fairness: an awaited call of the start or the loop settles.  Deaths and boots
are not fair, nor is anything an operator does.

Noted on the way and not made runs: the way out after a restart, "re-rolled via
a new rollout invocation" (`fleet-rollout-orchestrator.ts:616-617`), does not
work for the same target, since the tenants already upgraded are `ready` and so
taken, refused by `provisionTenant`, and the rollout fails at the first; a
sleeping tenant is skipped because it would "pick up the new version on next
wake" (`fleet-rollout-orchestrator.ts:23-24`), but a wake only scales the
deployment; with `skipSleeping` false the rollout fails at the first sleeping
tenant; a row younger than the grace period stays `running` after a restart
until the next.

### FleetRolloutProofs

For every number of rollouts and all sets of tenants and versions: types,
mutual exclusion (`OneAtATime`), the refinement (`LedgerKept`), that succeeded
entries tell the truth (`SucceededRunsTarget`) and that aborts stop the loop
(`AbortsStop`).  Exclusion is inductive with the types, and these need that a
loop at a tenant has one (`Busy`), which `IInv` gives.  The refinement rests on
`IInv`: at each await, which entries are waiting, begun and done (given by
`todo`), that a loop still to end its row finds it running or ended by a boot,
and that no rollout is opened before the ones with lower numbers are over
(`Ordered`), so that the live one is the newest.  Each action is then a step of
RolloutLedger or changes neither table.  The last two add `Deployed` (a tenant
being recorded has the target version, or was overruled) and `FewLate` (before
an abort none is late, and after it the loop begins none once it has looked).
`LockFreed` is model-checked.

### Backups

`row` is `backup_catalog`, `log` `restore_log`, `blob` the Azure container, in
which a lower number sorts first; `state` the tenants' states in the registry.
`job[a]` is the await a scheduler or a request is at and its locals; `tick[s]`
the locals of a tick: the tenants still to back up, those backed up
(`successfullyBackedUpPrefixes`), and the stale blobs with each tenant's newest.
A statement that fails may have taken effect, so most have two failures.
`unmarked` is history: the deleted blobs whose mark, or whose deletion's
answer, was lost.

* `CreateBackupRun` … `MarkBackupRunFailed` are the sequence that
  `backupOneTenant` and POST backup share.
* `TickBegins` … `NextTenant` and `ListBlobsOlderThan` … `SweepDone` are `tick`
  and `runRetentionSweep`.  Which stale blob comes first is left open.
* `RequestRestore` … `MarkRestoreRunCompleted` are POST restore and
  `restoreTenant`, with the safety snapshot before `pg_restore`;
  `RestoreThrows`, `MarkRestoreRunFailed` and `RestoreBack` its `catch`.
* `Dies` ends an actor at any await; a stopped scheduler is one that died.
  `TenantChanges` is what the other handlers write to the registry, over
  whatever a restore wrote.

| run | question | bounds |
|---|---|---|
| `Backups_retention` | does a sweep keep each tenant's last blob; does the catalogue agree with the store; can a restore be undone; does every tick end | one tenant, scheduler and request, 2 rows, 3 blobs, 3 days, a retention of 1 |

One tenant is enough because a sweep treats the blobs of different tenants
apart; with a retention of one day a blob is stale on the third while a newer
one exists, or does not; three blobs are an old one, a newer one and a
snapshot.  Two schedulers side by side are beyond the run's time and are
covered by the proof.

Assumed: no tick and no request outlasts the retention period (`DayEnds`); the
prefixes made of two tenants' identifiers differ (they are UUIDs); the state
and the row that POST restore reads are read in one step.  Fairness: an awaited
call of a tick settles.  `pg_dump` has no timeout, so a dump that hangs would
end the nightly backups: `TickEnds` excludes that by assumption.

Noted on the way and not made runs: a row whose mark failed is said to stay
visible "until a subsequent sweep corrects it" (`backup-scheduler.ts:428-429`),
but a sweep marks only blobs that are still listed, hence `unmarked` in
`CatalogueHonest`; a death leaves a row `running` or a tenant `restoring`, and
nothing at boot mends either; the snapshot of a restore that failed is never
catalogued, though it is in the store; the last blob a sweep keeps may be one
no row names.

### BackupsProofs

For every number of tenants, schedulers, requests, blobs and days: types, and
the three safety properties.  `IInv` has two halves.  `SweepInv` is about the
store: an actor is no older than the retention period, the blob it uploaded is
stored and recent, a tenant the tick calls backed up has a blob from since it
began, and whatever the sweep would delete has a newer stored blob of the same
tenant.  The last is what makes sweeps safe side by side: if another sweep
deletes that newer blob, there is one still newer, and it is stored.  `RowInv`
is about the catalogue: an unfinished row belongs to one actor and is blank,
the snapshot of a finished restore belongs to none, a mark in progress names a
blob that is gone.  Each action is put into one of a few classes by what it
changes, with one lemma per class.

### NoteStore

`notes` and `refs` are the tables `notes` and `note_references` of one tenant
and one campaign; a note's text is the set of notes its `![[...]]` names.
`request[e]` is a POST, PUT or DELETE of a note (the owner's and the shared
route make the same store call), `merge[c]` a consolidation of memberships,
`boot[p]` the transaction a pod runs before it serves.  Its `old` and `new` are
the references it has deleted and inserted and not yet committed.  A deleted
note keeps its place (`"deleted"`), since its identifier is never used again.

* `Open` is what a request reads: the route's `getNote` and the transaction's
  own `selectNoteById`.  `CreateNote`, `UpdateNote` and `DeleteNote` are its
  writes with the COMMIT, on the rows as they are by then; `UpdateNothing` the
  UPDATE of a note that went in between.
* `Consolidate` takes the snapshot of the UPDATE, `Reassign` applies it to the
  rows that are still there.
* `ReadAllNotes`, `SyncNote` per note and `SyncCommits` are
  `syncNoteReferencesTransaction`; `SyncNoteThrows` is its foreign key failing
  on a note that was deleted meanwhile, which ends the process.
* `DeleteNote` waits while a boot has inserted a reference from or to the note:
  the insert locks both keys.  Deadlocks that Postgres breaks, and a target
  that goes between the check and the INSERT, are `RequestFails` and
  `BootInterrupted`.

| run | question | bounds |
|---|---|---|
| `NoteStore_edits` | do references name only notes that exist and follow the texts; does a consolidation stand; does a booting pod get to serve | 2 notes, 2 memberships, 2 requests, one consolidation, one pod, one fault |

Two notes are the source and the target of a reference, which may also name its
own source; two requests are the two editors, or an edit and the delete of what
it names.  Every store the pod can find at its boot is an initial state, but
for `linkedNoteIds`, which an update of the run makes.  Fairness: a pod's boot
goes on, and is begun again by its container's restart.  A failed boot counts
as a fault only when something other than the requests made it fail; there are
finitely many of those.

The brief `docs/archive/qa-brief-issue-58.md:100` fears that a link inserted
while its note is deleted is left orphaned; `NoOrphans` says it is not.
`ReferencesFollowNotes` excepts `raced`: a boot that read a note before it was
edited rewrites its references from the old text, or adds them to the new
ones, until the next edit or boot.  Noted as well and not made runs: a PUT
without `linkedNoteIds` writes back those it read, undoing a concurrent change;
a PUT of a note deleted meanwhile may answer 200; the counts a consolidation
answers with may differ from what its UPDATE moved.

### NoteStoreProofs

For any notes, memberships, payloads, requests, consolidations and booting
pods.  `OrphanInv` adds to `NoOrphans` that what a boot is about to insert
leads between notes that exist, which the key locks keep so.  `MergeInv` adds
that what was moved away from a membership was moved from a note that existed:
a note created later is not it.  `RefInv` is the argument of
`ReferencesFollowNotes`: for every boot and every note nobody has written since
it read (`late`), the text it read is the note's text, what it is to insert is
what that text mentions of the notes that exist now, and any reference of the
note it does not delete is mentioned too.  That a new note is mentioned by none
(`Mentioned`) keeps the references of the others whole when it is created.

### RoleSync

Who gets the `tenant-member` role on a tenant's Keycloak client.  `users` are
Keycloak's, `accounts` the portal accounts with their link, `role_sync_status`
and address, `tenants` the registry's rows, `clients` each tenant's Keycloak
client (made or not, its role, who holds it, and whether a provisioning run has
seen it through), `run` what holds a tenant's advisory lock, `work[w]` the next
statement or call of a portal request, or of the retry loop, whose `queue` is
the tick's list.

* `SignIn`, `ByEmail`, `Link`, `Create` are the three ways from a Keycloak
  identity to an account; a link starts a sweep: `List`, then for each tenant
  `Look`, `Role`, `Post`, with `Missing` for a 404 and `CallFails` for the
  rest, and `Mark` when nothing failed.
* `Tick`, `NextAccount` and the same sweep are the retry loop; `Restart` is the
  stop or the death of the process, which forgets everything but rows.
* `CreateTenant`, `ProvisionTenant`, `SignupFails`, `Deprovision`,
  `RemoveTenant` are signup and its rollback; `EnsureClient` … `AssignOwner`
  provisioning's Keycloak steps, under the tenant's lock; `DeleteClient`
  deprovisioning's.

| run | question | bounds |
|---|---|---|
| `RoleSync_sweeps` | does a complete account have its roles; does everyone act as themselves; is what a link left pending finished | 2 users with one address, one account, one tenant, 2 requests, the retry loop, one provisioning run, one failed call or restart |

Two users of one address are the case in which the wrong one could be bound;
one tenant is enough because a sweep treats its tenants apart.  Fairness: the
loop's timer fires and its calls come back.  Nobody need sign in again:
`PendingDrains` is about the loop.

The initial states have accounts without a link.  Migration 0005 aborts unless
every row has one, and no code creates a row without, so these are the retained
transition path of the local-auth era, which the code still handles.  Accounts
that were linked before the status column existed are not initial states.

Noted on the way and not made runs: provisioning without a Keycloak user defers
to "the sweep of the owner's first sign-in" (`provisioning.ts:585-589`), but an
owner whom the operator portal names by Keycloak identifier
(`ProvisionTenantPanel.tsx:186`) has no account whose first sign-in would sweep;
`index.ts:444-446` says that ticks in flight complete, but `stop()` does not
wait for them; a failed signup's rollback deletes the registry row although
deprovisioning failed (`app.ts:1021`), and its resources have no row any more.

### RoleSyncProofs

For any users, accounts, addresses, tenants, requests, runs and faults.  `Safe`
is what a sweep works towards and what no later step undoes: the user has the
role if the tenant is ready, and a run that is about to assign has either chosen
him or finds him there.  The argument of `CompleteMeansAssigned` is

* `SafeKept`: once the owner is linked, nobody makes one of his tenants unsafe.
  A run that looks for its owner afterwards finds the link (`OwnerUserIs`); a
  new or replaced client is not ready; a tenant created later is not, either.
* `SweepOK`: while nothing has failed, a sweep has left no tenant behind that is
  not safe.  The delicate case is a client replaced between the sweep's calls:
  what the sweep has found is either still the tenant's client, or the client
  has been made anew since, by a run that sees the link, and the tenant is safe.
  That is why the retry loop may pass over a 404.
* `ClientOK` orders a run's steps: a client without its role is not ready, and
  no run on it is about to assign.

Nothing is needed of client identifiers but that `0` is none: a client made anew
under an identifier a sweep remembers would do no harm.  `ActsOK` and `RunOK`
give `SignedInAsThemselves`: a link stays, a row is created only where there was
none, and the end of a run moves the request that waits for it and no other.
`PendingDrains` stays with TLC.

### Migrations and ApiProcess

`Migrations` is `runMigrations` as several processes call it on one database:
control-plane pods that boot, provisioning runs, the CLI, of images with more
or fewer files (`Needs`).  `runner[r]` is a process and its session, `lock` the
advisory lock, `ledger` the table of applied files, `schema` (history) the files
whose SQL was committed, in order.  `Die` leaves the session behind: `Late` is
what Postgres still does of what the dead client had sent, `SessionEnds` when it
notices.  `Again` is the restart of a process whose run failed.

`ApiProcess` extends it with a tenant's pod and what calls it.  `pod[p]` has its
phase (`off`, `up`, `stopping`, `closing`), its maintenance flag, its in-flight
count and `quiet`, a history variable: it has said it is drained and nobody has
opened the gate since.  `write[w]` is one `apiFetch` call of a browser with its
resends, `patch[k]` an operator's PATCH between `ready` and `maintenance` with
the control call to the pod, `row` what it writes.

* `Boot` needs the schema its image expects (`Expects`).  `Shutdown`,
  `ServerClosed`, `ForceShutdown` and `Exit` are `shutdown.ts`; `Kill` is a death.
* `Fetch`, `Refuse`, `Warming`, `Receive`, `Finish`, `Close`, `Unreachable`,
  `Abort` are a write's way through the gate, and through retries; the gate and
  the count are one action because Express runs them in one tick.
* `PatchState`, `Control`, `Drained`, `ControlFails`, `LostCall`, `UpdateRow`
  are the PATCH: a call that timed out may take effect later.

| run | question | bounds |
|---|---|---|
| `ApiProcess_pods` | does the ledger tell the schema; does a resent write run once; is a drained pod quiet; does the pool outlive the clients; does all of it end | on a new database 2 runners of 2 images, 2 files, one lock retry, 2 deaths or failures; on a migrated one 1 pod, 2 writes of one resend each, 2 PATCHes, 2 stops or kills |

A behaviour has either runners or requests (`Databases`): what joins the two is
`Boot`'s schema check.  A tenant has one replica, and a rolling update runs the
new pod beside the old one for a while (`maxSurge: 1`, `provisioning.ts:1461`).
The module lets any of `Pods` be up together, and a request or a control call
reach any of them; the theorems hold for any number.  The run has one pod, which
stops or dies and boots again: two stops are a pod, its successor and theirs.
With `Pods = {p1, p2}` and one stop it passes too (403,463 states, three and a
half minutes on two cores).  While two pods are up an enable reaches one of
them: `QuietWhileDrained` speaks of the pod that said it is drained, not of its
tenant.

Fairness: Postgres answers a runner or ends its session, timers fire, a handler
answers or loses its connection.  Nobody need start or abort a write, PATCH, or stop a pod.  Time
budgets (the drain's, the retry's, the grace period's) end whenever they like.
Keep-alive requests to a stopping pod and the lag of its endpoints are
`Unreachable`.

Noted on the way and not made runs: the flag is in the pod's memory
(`control-state.ts:16`), so a pod replaced during maintenance admits writes,
though the control plane's README (line 35) calls the state read-only; a PATCH
from `ready` to `ready` after an enable that timed out leaves the gate shut; a
handler whose client went away is no longer counted, so a drain may end while it
writes (`QuietWhileDrained` speaks of the counted ones); `drained` may be
answered although the mode was disabled meanwhile; the pod's grace period of
30 s and the shutdown's own 30 s are equal; a Retry-After of 60 s against a
budget of 90 s leaves one resend.

### ApiProcessProofs

For any runners, files, pods, writes, PATCHes, stops and deaths; nothing is
assumed finite.  `MigrationsInv` follows a session through the death of its
process (`Stage`): from `ledger` to `unlock` the lock is the session's
(`HoldsLock`), and the pending list it read is not stale, for it is what the
schema lacks, and one file more between a COMMIT and its log line
(`KnowsPending`).  Without the first, the second is not inductive: a file
committed under another session's lock would be pending twice.  `ServingInv`
says that the pod's counter is the number of writes it has counted
(`CountInv`), that the browser's counter of retries is the number of writes
retrying, that a write which may still be fetched has run no handler
(`WriteOK`), and that a pod which said it is drained keeps its gate shut and
counts nobody (`PodOK`).  A drain ends when a number is zero, and `CountInv`
makes that a statement about writes; that the counted sets are finite is part
of it.  `PatchInv` knows the pod at which a control call drains.
`EverythingEnds` stays with TLC.

### Members

Who may act in which campaign of a tenant.  `account`, `campaigns`, `member`,
`link` and `note` are the tables, of a note only its campaign and authors;
`request[r]` is what a request has read and where it stands, `boot[p]` a pod's
`ensureDefaultCampaign`, `raced` (history) the rows two requests had read before
either wrote.

* `AccountBegins`, `LooksUp`, `UpdatesIdentity`, `Updates`, `Claims`, `Creates`,
  `Adopts` are the way from a token to an account.  A first sign-in holds one
  connection and needs a second for its nested transaction; `ConnectTimesOut` is
  the pool's answer when there is none.
* `Answers` are the owner's routes: campaigns, links, notes, consolidation.
  `Joins`, `FindsGuest`, `SharedEdits`, `SharedReads` are the share link's;
  `ReadsClaim` and `WritesClaim` the claim of a guest's membership.
* `RequestFails` is a failed statement or the pod's death; `LinkExpires` time.

| run | question | bounds |
|---|---|---|
| `Members_access` | is there one owner per campaign; one seat per account and campaign; do identities stay bound; do authors belong to the campaign; does every request end | 2 identities and 2 addresses in any combination, 2 campaigns, 2 links, 1 note, 3 memberships, 3 requests, 2 at a time, 2 booting pods, a pool of 2 |

Two requests at a time are the two that race, the third is what comes of it;
the pool of two is what two first sign-ins exhaust.  Fairness: a request that is
being served goes on; server and pool have timeouts.

`OneSeat` and `IdentitiesKept` except what `raced` names: two claims of one
membership or by one account that had both read before either wrote can both
succeed, so an account can sit twice in a campaign, and the two properties say
that it comes to that in no other way.  Noted with it: two
accounts may both be told that they claimed one membership, and the last has it
(`note-store-memberships.ts:446`); one account may end with two; a death between
the nested commit and the outer update leaves an account without an identity
holding the default campaign (`note-store-owner-accounts.ts:319`); as many
first sign-ins at once as the pool has connections all fail
(`note-store-database.ts:352`); a shared write whose link is revoked while it is
under way still lands.

### MembersProofs

For any identities, addresses, campaigns, links, notes, seats, pods and
requests; only the addresses are assumed finite, because the rows an account may
take are counted by them.  `IInv` is the three invariants of the run and what
they rest on.  `RowsOK` is the foreign keys and the unique email.  `NothingYet`:
until a pod has committed the default campaign there is no member and nothing is
served, without which the first sign-in would adopt a campaign that is not
there.  `RequestOK` is what a request read that nobody takes away: accounts,
memberships and links stay.  `LinkedOK` and `ClaimOK` are what it read that may
be taken away, and say that it holds except where `raced` has the row; they are
why `OneSeat` and `IdentitiesKept` are inductive although join, claim and
consolidation read in one transaction and write in another.  `OwnerInv` is
`OneOwner` without counting, with the owner each link names.

A step is seen through what it keeps of everybody's rows (`RowsKept`,
`SubsKept`, `ClaimKept`), which says once for all that the other requests' reads
still hold; what it writes itself is proved action by action.  A new account
finds a free row because emails are unique (`NewAccountIsFree`, by the pigeonhole
principle).  `RequestsEnd` stays with TLC.

### WebSession and Workspace

One browser tab of the web application.  `WebSession` has what `useSession` and
`useGuestSession` keep, and `localStorage`; its operators change only that.
`Workspace` adds `ws` (useNotes), `camp` (useCampaign), `links` (useShareLinks),
`task[i]` the handler the i-th click began, `task[0]` the page's own loads, and
`server`, what the tenant stores.  A request is answered in two steps: the server
acts (`ServerActs`), the tab applies the answer later, in any order, or never.

* `StartLoad`, `CampaignsAnswer`, `LoadAnswers`, `NamesAnswer`,
  `LoadStale`, `LoadFails` are `loadWorkspace` with its request identifier.
* `SelectCampaign`, `SelectNote`, `StartNote`, `SelectSession`, `OpenActivity`,
  `SaveNote`, `DeleteNote`, `QuickCapture`, `SaveCampaign`, `Preview`, `Apply`,
  `ShareLink`, `Join`, `LinkAccount` are the clicks; `…Answers` and `CallFails`
  what comes of them.
* `RefreshStep`, `SignInStep`, `VisitStep` are token refresh, Keycloak's
  redirects, sign-out, and the reload of the page.

| run | question | bounds |
|---|---|---|
| `Workspace_tab` | is what is stored the session on the screen; is the text saved to the note it belongs to; are the notes those of the selected campaign; is nothing replaced by an older answer | 2 campaigns, 2 notes in 2 sessions, 2 clicks that call the server, 2 token sets, 2 guest tokens, 2 loads of the page |

Two clicks are the two answers that overtake one another, beside the page's own
loads and a refresh; clicks that call nobody are not bounded.  No fairness: these
are safety properties.  What is derived is not a variable: a busy flag is a task
of that kind, a spinner its request.

Noted on the way and not made runs: a save answered after the switch to another
campaign loads the notes of the old one under the new selection
(`useNotes.ts:1157`, `:1254`, `:1349`): `ShowsSelected` excepts what such an
answer shows, as long as it is shown (`strays`, a history variable), and nothing
else; signing
out does not void a workspace load, whose answer fills the page again; a share
link answered after a switch is listed with the wrong campaign; a guest's
bootstrap that fails removes the token from `localStorage` even if another tab
has stored a newer one; a lost answer to a claim orphans the token; the reload
after a save discards what was typed meanwhile; a lost answer to a create makes
the user save twice.

### PageProofs

For any campaigns, notes, sessions, clicks, token sets and loads of the page:
`StoredIsSession`, `SavedWhereEdited`, `ShowsSelected` and the action property
`NeverOlder`.  `IInv` has these parts.

* `SessionInv`: there is no token before the account has answered, and none
  without an owner; the page's own load of a signed-in workspace begins only
  after the account answered, so its end, which makes the session ready, cannot
  make ready one whose stored tokens are others.
* `EditorOK`: the draft is that of the selected note; with notes shown and none
  selected it is of none; creating a note, none is selected; `shown <= req`.
  The second part is what selecting a note that has just been deleted rests on.
* `TaskOK`: a save under way carries the text of its note; a click not yet made
  has no task; on a share link's page every handler works in the campaign of the
  link, without which a late answer would bring other notes onto the screen.
* `ShownInv`: what is shown is of the selected campaign unless `strays`; only an
  answer that is shown sets it, and no step moves the selection away from what is
  shown without showing something else or nothing.

`NeverOlder` follows from `shown <= req` and from the check of the request
identifier: an answer is shown only if it is the latest request's.  There is one
lemma per action; what an action leaves alone is said once, for the session
(`SessionOfTask`), for the other handlers (`TaskMoves`) and for the clicks that
call nobody (`ClickStepKeeps`).  `SessionTypes` and `WorkspaceTypes` type the
counters by `Nat`: the bounds that `TypeOK` states on `ws.req` and on the guest
tokens count the loads a page can make, which these properties do not need, so
`TypeOK` itself stays with TLC.

The last section is about the operator portal's page under `PortalsSpec`:
`OptionsFollowText` and `SignOutIsFinal`, for any texts, keystrokes, refreshes,
loads and clicks.  `SearchOK` says what a search under way rests on: a timer
that runs and the one request not aborted are of the text in the field, or are
older than the mutation that emptied the field, whose text is then in `late`;
`OperatorInv` that a refresh is awaited under a token only, and that the load
the bootstrap waits for is the only one whose answer ends it.  The control plane
and the customer's page leave these alone (`PageSteps`), so the theorems hold
whatever they do.

### Portals

`ControlPlane` is what both portals can observe: each tenant's state, the runs
and signups under way, the rollouts.  `CustomerPortal` and `OperatorPortal` are
one load of each page, `Portals` a browser with one of the two open.  React's
effects are part of the action that makes React run them.  A request is asked,
told (what the control plane reads at that moment) and applied, so answers are
old when they come.

* CustomerPortal: `CatalogAnswers`, `InitAnswers`, the hydration and polling
  effects (`HydrationEffect`, `PollingEffect`, restarted when the set of
  unfinished tenants changes), `Submit` … `PostShows` the creation of a tenant
  (`PostLost`: the answer is lost or an error, and the signup goes on),
  `KeycloakLogout`, and `SessionEnds`, after which Keycloak refreshes no more.
* OperatorPortal: `BootstrapAuth`, `Refresh`, `ClearOperatorSession`,
  `HandleLogout` are `useOperatorAuth`; `LoadFleet`, `StatusAnswers` `useFleetStatus`; `Tick` …
  `TickFails`, `HandleStart`, `HandleAbortConfirm` `useFleetRollout` and its
  panel; `Open` … `MutationAnswers` the dialogs and provisioning; `Type`,
  `RunOwnerSearch`, `OwnersFound` the search of owners.  `CloseDone`, the end of
  a mutation, empties the field and the options and nothing else
  (`ProvisionTenantPanel.tsx:274`): a timer that runs and a search under way
  stay, and the answer fills the options under the empty field.
  `OptionsFollowText` excepts just that text (`late`, a history variable) until
  the field changes.

| run | question | bounds |
|---|---|---|
| `Portals_pages` | is a sign-out final; is the rollout that runs shown in the end; is the customer taken to the tenant; do the options answer the text | two texts to search; customer: 2 tenants, one signup, one failing request; operator: one tenant, one rollout, one refresh, one failure, and one of three allowances of clicks (session and panel; search and dialogs; session and dialogs); one change by others |

The allowances are what keeps the operator's run in TLC's reach: the areas they
never combine share no state but the session, which is combined with each but
the search.  Fairness: the pages' timers fire and their requests are answered,
and runs and signups end; a rollout may go on for ever.  Nobody need click.

`RolloutIsShown` says that in the end a mounted panel shows the rollout that is
running, if one is.  It says nothing of a rollout that has ended, for here code
and comments disagree: `GET /internal/fleet/rollout` answers the running rollout
only (`fleet-rollout-orchestrator.ts:491-512`), while the client "Fetches the
most recent fleet rollout row" (`control-plane-api.ts:168`), refetches after an
abort "to pick up the aborted status" (`useFleetRollout.ts:177`), and the tests
feed the hook and the panel terminal rollouts (`useFleetRollout.test.ts:87`,
`:226`, `FleetRolloutPanel.test.tsx:265-321`) that the server never answers.
What is modelled is the two sides as they are: the panel is cleared by the first
answer after the end, and its callouts of completed, failed and aborted rollouts
(`FleetRolloutPanel.tsx:447-488`) show only a rollout the server does not send.

`WatcherIsTaken` excepts a tenant that the answer to a signup of this page showed
ready, and no other: POST tenants answers only after provisioning, so the tab
that created the tenant does not navigate.

Noted on the way and not made runs: the abort dialog names no rollout and may
abort another than it was opened for; a tenant created while the dashboard is
hydrated cancels the hydration and leaves its spinner (`App.tsx:433` says
otherwise); an answer to a create after sign-out fills the page again; a create
can be submitted twice while the token is refreshed; a failed catalogue leaves
"Checking session" for ever; a confirmed provisioning goes on with the old token
after the operator signs out; a 409 on create provisions the existing tenant,
whoever its owner is; a 501 ends the poll of the rollout for good.

### FleetUptime

A tenant's `state_transitions` (`log`, whose positions are the identifiers) and
the ready time `getFleetUptimes` computes from it.  `tx[w]` is a writer's
transaction, stamped at `Begin`; `UpdateTenantState` has the row lock and commits.
The operators of the second half are the report's queries and its walk.

| run | question | bounds |
|---|---|---|
| `FleetUptime_order` | (a violation) is the time counted as ready the time in `ready` | 2 writers, 4 transitions, a window of 3 and a clock of 5 ticks |

`created_at` is `CURRENT_TIMESTAMP`, the time the transaction began, and a
transaction that waits for the row is stamped before the one it waits for.  The
report orders by time and lets the last transition in that order run until now,
so a tenant may count as ready until its next transition although it is not.
With one writer TLC finds no violation.  The four queries of the report, which
run side by side, are one read here, which only leaves out further differences.

## What is checked and what is proved

Safety properties listed under "theorems" in `PROJECT.json` are proved by
TLAPS for all values of the constants, from the named assumptions of the
module that declares them: those of TenantLifecycle, ScaleToZero, FleetRollout
(with the refinement of RolloutLedger), Backups, NoteStore, Members, RoleSync,
Migrations and ApiProcess, WebSession and Workspace, and the operator portal's
page.  Every invariant and every action property of a run is among them.  The
liveness properties are model-checked only: the prover does not reason about
fairness.

All modules but the portals' and FleetUptime state the types of their variables
(`TypeOK`, `ScaleTypeOK`). Eight of these are proved; the others were checked
with TLC as the modules were written. No run lists them: the runs are for what
could go wrong. `InfraIsAddressable`, `AbortStops`, `HeldIsAwaited`, `SeenInv`
and the `IInv`s are not listed in a run either, because they are proved. The run
with the expectation "violation" checks a sentence of the repository's comments;
the other divergences are noted with their modules.

## Plan

| # | module | state |
|---|---|---|
| 1 | TenantLifecycle, with proofs | done |
| 2 | ScaleToZero, with proofs | done |
| 3 | FleetRollout, and RolloutLedger, the promise it implements, with proofs | done |
| 4 | RoleSync: linking, sweep, retry, signup and rollback, with proofs | done |
| 5 | Backups, with proofs | done |
| 6 | Migrations: each file once and in order, with proofs | done |
| 7 | NoteStore, with proofs | done |
| 8 | Members, with proofs | done |
| 9 | WebSession and Workspace, with proofs | done |
| 10 | ApiProcess: gate, drain, retry, shutdown, with proofs | done |
| 11 | ControlPlane, CustomerPortal, OperatorPortal, Portals; proofs of the operator's page | done |
| 12 | FleetUptime | modelled |

What is left: the customer's page has no safety property yet, and Workspace's
`TypeOK` and what FleetUptime keeps with one writer have no proof.

## Not modelled

Formatting, validation and parsing of requests; token checks; metrics and
logging; proxying of bytes; the rich text editor, tables, themes and other
rendering; manifests (their replica counts and timeouts appear as assumptions);
PATCH of the storage reference; tenants provisioned before runtime identities
had roles of their own; backup verification; the arithmetic of
`nextScheduledTime`, of reconnection delays and of `Retry-After`; campaign
settings, reveal text, search, tags and templates; the administrator's list;
rate limits; the operator's tenant table; tabs that share `localStorage`; sleep
spans and wake counts of the fleet report; the control plane's own shutdown but
for its effect.  Kubernetes, Postgres and Keycloak appear as far as the code's
calls tell their states apart.
