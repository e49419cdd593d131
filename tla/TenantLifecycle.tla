-------------------------- MODULE TenantLifecycle --------------------------
(***************************************************************************)
(* The control plane's handlers for ONE tenant: provision (also the        *)
(* rolling version update), deprovision, the operator's state and          *)
(* desired-state PATCHes, and restore, with everything they act on: the    *)
(* tenant's registry row, its Kubernetes namespace, secret, deployment and *)
(* pod, its Postgres database and role, its Keycloak client, and the       *)
(* advisory lock that serialises provision and deprovision.                *)
(*                                                                         *)
(* A handler is a process; it runs one operation at a time and may be      *)
(* killed between any two awaits (a crashed control plane, a statement     *)
(* that fails outside every catch).  The advisory lock lives in the        *)
(* handler's database session, so it goes with the handler.                *)
(***************************************************************************)
EXTENDS Naturals, FiniteSets

CONSTANTS
    Procs,          \* request handlers, in one or several control-plane pods
    NoProc,         \* no handler holds the lock
    Versions,       \* application versions an image exists for
    NoVersion,      \* no version requested; no image, no pod
    Ops,            \* which operations the callers issue
    PatchStates,    \* states an operator may PATCH to
    MaxRuns,        \* bound: operations started in a behaviour
    MaxCrashes      \* bound: handlers killed in a behaviour

States == {"provisioning", "ready", "maintenance", "upgrading", "restoring",
           "sleeping", "failed", "deprovisioned"}

AllOps == {"provision", "deprovision", "patch", "restore"}

ASSUME ProcsAssumption    == NoProc \notin Procs
ASSUME VersionsAssumption == NoVersion \notin Versions /\ Versions # {}
ASSUME OpsAssumption      == Ops \subseteq AllOps
\* Sleeping goes through the activator's gate, see ScaleToZero in the README.
ASSUME PatchAssumption    == PatchStates \subseteq States \ {"sleeping"}
ASSUME BoundsAssumption   == MaxRuns \in Nat /\ MaxCrashes \in Nat

VARIABLES
    row,        \* the tenant's registry row, and who wrote its state last
    kube,       \* what the Kubernetes API server holds for the tenant
    pg,         \* the tenant's database and its role's password
    kc,         \* the tenant's Keycloak client exists
    lock,       \* holder of the tenant's advisory lock
    pc,         \* pc[p]: the next step of handler p
    loc,        \* loc[p]: what p read earlier and still uses
    runs,       \* operations started so far
    crashes     \* handlers killed so far

vars == <<row, kube, pg, kc, lock, pc, loc, runs, crashes>>

(* A password is named by the run that generated it; 0 is "none".          *)
Passwords == 0 .. MaxRuns
Images    == Versions \cup {NoVersion}
Writers   == {"create", "provision", "deprovision", "patch", "restore"}
Presence  == {"absent", "present"}

Row  == [state: States, by: Writers, desired: States, version: Versions,
         subdomain: Presence, storage: Presence]
Kube == [ns: {"absent", "active", "terminating"}, secret: Passwords,
         image: Images, pod: Images, gate: {"open", "closed"}]
Pg   == [db: Presence, role: Passwords]
Loc  == [id: Passwords, want: Images, mode: {"apply", "rollout"},
         seen: States, had: Presence, password: Passwords, to: States]

LockedProvision   == {"adopt", "desire", "mark", "reserve", "readSecret",
                      "database", "role", "storage", "keycloak", "namespace",
                      "secret", "deployment", "abort"}
LockedDeprovision == {"delNamespace", "delWait", "dropDatabase", "dropRole",
                      "dropStorage", "dropClient", "dropDesire", "dropState"}
Locked   == LockedProvision \cup LockedDeprovision
Unlocked == {"lockProvision", "wait", "finish", "rollFail", "lockDeprovision",
             "control", "patchWrite", "restoreMark", "restoreCheck",
             "snapshot", "restoreRecheck", "pgRestore", "restoreBack"}
PCs == {"idle"} \cup Locked \cup Unlocked

NoLoc == [id |-> 0, want |-> NoVersion, mode |-> "apply", seen |-> "failed",
          had |-> "absent", password |-> 0, to |-> "failed"]

(* createTenant: the row exists, nothing else does.                        *)
Init ==
    /\ row \in {[state |-> "provisioning", by |-> "create",
                 desired |-> "provisioning", version |-> v,
                 subdomain |-> "absent", storage |-> "absent"] : v \in Versions}
    /\ kube = [ns |-> "absent", secret |-> 0, image |-> NoVersion,
               pod |-> NoVersion, gate |-> "open"]
    /\ pg = [db |-> "absent", role |-> 0]
    /\ kc = "absent"
    /\ lock = NoProc
    /\ pc = [p \in Procs |-> "idle"]
    /\ loc = [p \in Procs |-> NoLoc]
    /\ runs = 0
    /\ crashes = 0

-----------------------------------------------------------------------------
(* Helpers of the handlers.                                                *)

Goto(p, from, to) == pc[p] = from /\ pc' = [pc EXCEPT ![p] = to]

(* The handler answers its caller and forgets what it read.                *)
End(p) ==
    /\ pc' = [pc EXCEPT ![p] = "idle"]
    /\ loc' = [loc EXCEPT ![p] = NoLoc]

Unlock == lock' = NoProc

(* updateTenantState: one transaction, whatever the state was before.      *)
WriteState(s, by) == row' = [row EXCEPT !.state = s, !.by = by]

WriteStateUnless(s, by) ==
    IF row.state = s THEN UNCHANGED row ELSE WriteState(s, by)

(* A new operation takes a free handler.                                   *)
Start(p, op, first, l) ==
    /\ op \in Ops
    /\ pc[p] = "idle"
    /\ runs < MaxRuns
    /\ runs' = runs + 1
    /\ pc' = [pc EXCEPT ![p] = first]
    /\ loc' = [loc EXCEPT ![p] = l]

(* acquireTenantLock polls for 30 s; the caller's request then fails.      *)
LockTimeout(p) ==
    /\ pc[p] \in {"lockProvision", "finish", "rollFail", "lockDeprovision"}
    /\ lock # NoProc
    /\ End(p)
    /\ UNCHANGED <<row, kube, pg, kc, lock, runs, crashes>>

-----------------------------------------------------------------------------
(* provisionTenant.                                                        *)

ProvisionStart(p) ==
    /\ \E v \in Images :
        Start(p, "provision", "lockProvision",
              [NoLoc EXCEPT !.id = runs + 1, !.want = v])
    /\ UNCHANGED <<row, kube, pg, kc, lock, crashes>>

InFlight ==
    \/ row.state = "upgrading"
    \/ row.state = "provisioning" /\ row.subdomain = "present"

IsRollout(p) == loc[p].want \notin {NoVersion, row.version}

Rejected(p) ==
    \/ InFlight
    \/ IsRollout(p) /\ row.state \notin {"ready", "deprovisioned", "failed"}
    \/ /\ loc[p].want = row.version
       /\ row.state \in {"ready", "maintenance", "restoring"}

(* Take the lock and read the row; a rejected request gives the lock back. *)
ProvisionReject(p) ==
    /\ pc[p] = "lockProvision" /\ lock = NoProc
    /\ Rejected(p)
    /\ End(p)
    /\ UNCHANGED <<row, kube, pg, kc, lock, runs, crashes>>

ProvisionEnter(p) ==
    /\ lock = NoProc
    /\ ~Rejected(p)
    /\ Goto(p, "lockProvision", "adopt")
    /\ lock' = p
    /\ loc' = [loc EXCEPT ![p].mode = IF IsRollout(p) THEN "rollout"
                                                   ELSE "apply"]
    /\ UNCHANGED <<row, kube, pg, kc, runs, crashes>>

(* Write the version, re-read the row: the snapshot the rest of the run    *)
(* uses.  Not inside the try.                                              *)
ProvisionAdopt(p) ==
    /\ Goto(p, "adopt", "desire")
    /\ row' = IF loc[p].want = NoVersion THEN row
              ELSE [row EXCEPT !.version = loc[p].want]
    /\ loc' = [loc EXCEPT ![p].seen = row.state, ![p].had = row.subdomain]
    /\ UNCHANGED <<kube, pg, kc, lock, runs, crashes>>

ProvisionDesire(p) ==
    /\ Goto(p, "desire", "mark")
    /\ row' = [row EXCEPT !.desired = "ready"]
    /\ UNCHANGED <<kube, pg, kc, lock, loc, runs, crashes>>

(* Variant: a deprovisioned row is not marked when it comes back.          *)
MarkProvisioningFailedOnly(p) ==
    loc[p].had = "absent" \/ loc[p].seen = "failed"

MarkUpgrading(p) ==
    loc[p].mode = "rollout" /\ loc[p].had = "present" /\ loc[p].seen = "ready"
MarkProvisioning(p) ==
    loc[p].had = "absent" \/ loc[p].seen \in {"deprovisioned", "failed"}

ProvisionMark(p) ==
    /\ Goto(p, "mark", "reserve")
    /\ \/ MarkUpgrading(p) /\ WriteState("upgrading", "provision")
       \/ MarkProvisioning(p) /\ WriteState("provisioning", "provision")
       \/ ~MarkUpgrading(p) /\ ~MarkProvisioning(p) /\ UNCHANGED row
    /\ UNCHANGED <<kube, pg, kc, lock, loc, runs, crashes>>

ProvisionReserve(p) ==
    /\ Goto(p, "reserve", "readSecret")
    /\ row' = [row EXCEPT !.subdomain = "present"]
    /\ UNCHANGED <<kube, pg, kc, lock, loc, runs, crashes>>

(* The runtime identity: the password in the tenant's secret, or, unless   *)
(* the tenant was already provisioned, a new one.                          *)
WasProvisioned(p) ==
    loc[p].seen \in {"ready", "upgrading", "maintenance", "restoring"}

(* Variant: every run generates a password.                                *)
ProvisionReadSecretRotating(p) ==
    /\ Goto(p, "readSecret", "database")
    /\ loc' = [loc EXCEPT ![p].password = loc[p].id]
    /\ UNCHANGED <<row, kube, pg, kc, lock, runs, crashes>>

ProvisionReadSecret(p) ==
    LET found == IF loc[p].had = "present" THEN kube.secret ELSE 0 IN
    /\ found # 0 \/ ~WasProvisioned(p)
    /\ Goto(p, "readSecret", "database")
    /\ loc' = [loc EXCEPT ![p].password = IF found # 0 THEN found
                                          ELSE loc[p].id]
    /\ UNCHANGED <<row, kube, pg, kc, lock, runs, crashes>>

ProvisionDatabase(p) ==
    /\ Goto(p, "database", "role")
    /\ pg' = [pg EXCEPT !.db = "present"]
    /\ UNCHANGED <<row, kube, kc, lock, loc, runs, crashes>>

(* CREATE ROLE or ALTER ROLE ... PASSWORD.                                 *)
ProvisionRole(p) ==
    /\ Goto(p, "role", "storage")
    /\ pg' = [pg EXCEPT !.role = loc[p].password]
    /\ UNCHANGED <<row, kube, kc, lock, loc, runs, crashes>>

ProvisionStorage(p) ==
    /\ Goto(p, "storage", "keycloak")
    /\ row' = [row EXCEPT !.storage = "present"]
    /\ UNCHANGED <<kube, pg, kc, lock, loc, runs, crashes>>

ProvisionKeycloak(p) ==
    /\ Goto(p, "keycloak", "namespace")
    /\ kc' = "present"
    /\ UNCHANGED <<row, kube, pg, lock, loc, runs, crashes>>

(* applyTenantResources.  A terminating namespace accepts replacements of  *)
(* objects it still holds and refuses new ones.                            *)
ProvisionNamespace(p) ==
    /\ Goto(p, "namespace", "secret")
    /\ kube' = [kube EXCEPT !.ns = IF @ = "absent" THEN "active" ELSE @]
    /\ UNCHANGED <<row, pg, kc, lock, loc, runs, crashes>>

ProvisionSecret(p) ==
    /\ kube.ns = "active" \/ kube.secret # 0
    /\ Goto(p, "secret", "deployment")
    /\ kube' = [kube EXCEPT !.secret = loc[p].password]
    /\ UNCHANGED <<row, pg, kc, lock, loc, runs, crashes>>

(* The last object of the bundle: the lock is released for the wait, or    *)
(* kept to record that the answer was an error.                            *)
ProvisionDeployment(p) ==
    /\ kube.ns = "active" \/ kube.image # NoVersion
    /\ kube' = [kube EXCEPT !.image = row.version]
    /\ \/ Goto(p, "deployment", "wait") /\ Unlock
       \/ Goto(p, "deployment", "abort") /\ UNCHANGED lock
    /\ UNCHANGED <<row, pg, kc, loc, runs, crashes>>

(* Any step inside the try may throw.                                      *)
ProvisionThrow(p) ==
    /\ pc[p] \in LockedProvision \ {"adopt", "abort"}
    /\ pc' = [pc EXCEPT ![p] = "abort"]
    /\ UNCHANGED <<row, kube, pg, kc, lock, loc, runs, crashes>>

ProvisionAbort(p) ==
    /\ pc[p] = "abort"
    /\ WriteStateUnless("failed", "provision")
    /\ End(p)
    /\ Unlock
    /\ UNCHANGED <<kube, pg, kc, runs, crashes>>

(* waitForTenantReady: poll the deployment until it is rolled out; a       *)
(* missing deployment or the deadline throws.                              *)
ProvisionReady(p) ==
    /\ kube.image # NoVersion /\ kube.pod = kube.image
    /\ Goto(p, "wait", "finish")
    /\ UNCHANGED <<row, kube, pg, kc, lock, loc, runs, crashes>>

ProvisionNotReady(p) ==
    /\ Goto(p, "wait", "rollFail")
    /\ UNCHANGED <<row, kube, pg, kc, lock, loc, runs, crashes>>

(* Phase 3, and its failure twin: lock, compare, write, unlock.            *)
ProvisionFinish(p) ==
    /\ pc[p] = "finish" /\ lock = NoProc
    /\ WriteStateUnless("ready", "provision")
    /\ End(p)
    /\ UNCHANGED <<kube, pg, kc, lock, runs, crashes>>

ProvisionRollFail(p) ==
    /\ pc[p] = "rollFail" /\ lock = NoProc
    /\ WriteStateUnless("failed", "provision")
    /\ End(p)
    /\ UNCHANGED <<kube, pg, kc, lock, runs, crashes>>

Provision(p) ==
    \/ ProvisionStart(p)     \/ ProvisionReject(p)   \/ ProvisionEnter(p)
    \/ ProvisionAdopt(p)     \/ ProvisionDesire(p)   \/ ProvisionMark(p)
    \/ ProvisionReserve(p)   \/ ProvisionReadSecret(p)
    \/ ProvisionDatabase(p)  \/ ProvisionRole(p)     \/ ProvisionStorage(p)
    \/ ProvisionKeycloak(p)  \/ ProvisionNamespace(p)
    \/ ProvisionSecret(p)    \/ ProvisionDeployment(p)
    \/ ProvisionThrow(p)     \/ ProvisionAbort(p)
    \/ ProvisionReady(p)     \/ ProvisionNotReady(p)
    \/ ProvisionFinish(p)    \/ ProvisionRollFail(p)

-----------------------------------------------------------------------------
(* deprovisionTenant: under the lock from its first read to its last write. *)

DeprovisionStart(p) ==
    /\ Start(p, "deprovision", "lockDeprovision", NoLoc)
    /\ UNCHANGED <<row, kube, pg, kc, lock, crashes>>

DeprovisionAlready(p) ==
    /\ pc[p] = "lockDeprovision" /\ lock = NoProc
    /\ row.state = "deprovisioned"
    /\ End(p)
    /\ UNCHANGED <<row, kube, pg, kc, lock, runs, crashes>>

DeprovisionEnter(p) ==
    /\ lock = NoProc
    /\ row.state # "deprovisioned"
    /\ Goto(p, "lockDeprovision",
            IF row.subdomain = "present" THEN "delNamespace" ELSE "dropStorage")
    /\ lock' = p
    /\ UNCHANGED <<row, kube, pg, kc, loc, runs, crashes>>

(* Variant: the deletion is requested and not waited for.                  *)
DeprovisionNamespaceUnawaited(p) ==
    /\ Goto(p, "delNamespace", "dropDatabase")
    /\ kube' = [kube EXCEPT !.ns = IF @ = "absent" THEN @ ELSE "terminating"]
    /\ UNCHANGED <<row, pg, kc, lock, loc, runs, crashes>>

(* Delete the namespace: 404 is done, otherwise poll until it is gone.     *)
DeprovisionNamespace(p) ==
    /\ Goto(p, "delNamespace",
            IF kube.ns = "absent" THEN "dropDatabase" ELSE "delWait")
    /\ kube' = [kube EXCEPT !.ns = IF @ = "absent" THEN @ ELSE "terminating"]
    /\ UNCHANGED <<row, pg, kc, lock, loc, runs, crashes>>

DeprovisionGone(p) ==
    /\ kube.ns = "absent"
    /\ Goto(p, "delWait", "dropDatabase")
    /\ UNCHANGED <<row, kube, pg, kc, lock, loc, runs, crashes>>

DeprovisionDatabase(p) ==
    /\ Goto(p, "dropDatabase", "dropRole")
    /\ pg' = [pg EXCEPT !.db = "absent"]
    /\ UNCHANGED <<row, kube, kc, lock, loc, runs, crashes>>

DeprovisionRole(p) ==
    /\ Goto(p, "dropRole", "dropStorage")
    /\ pg' = [pg EXCEPT !.role = 0]
    /\ UNCHANGED <<row, kube, kc, lock, loc, runs, crashes>>

DeprovisionStorage(p) ==
    /\ Goto(p, "dropStorage", "dropClient")
    /\ row' = [row EXCEPT !.storage = "absent"]
    /\ UNCHANGED <<kube, pg, kc, lock, loc, runs, crashes>>

(* Best effort: an error is only a warning.                                *)
DeprovisionClient(p) ==
    /\ Goto(p, "dropClient", "dropDesire")
    /\ kc' \in {"absent", kc}
    /\ UNCHANGED <<row, kube, pg, lock, loc, runs, crashes>>

DeprovisionDesire(p) ==
    /\ Goto(p, "dropDesire", "dropState")
    /\ row' = [row EXCEPT !.desired = "deprovisioned"]
    /\ UNCHANGED <<kube, pg, kc, lock, loc, runs, crashes>>

DeprovisionState(p) ==
    /\ pc[p] = "dropState"
    /\ WriteState("deprovisioned", "deprovision")
    /\ End(p)
    /\ Unlock
    /\ UNCHANGED <<kube, pg, kc, runs, crashes>>

(* The namespace does not go in time, or a step throws: nothing is         *)
(* recorded, the lock is released.                                         *)
DeprovisionThrow(p) ==
    /\ pc[p] \in LockedDeprovision
    /\ End(p)
    /\ Unlock
    /\ UNCHANGED <<row, kube, pg, kc, runs, crashes>>

Deprovision(p) ==
    \/ DeprovisionStart(p)    \/ DeprovisionAlready(p)  \/ DeprovisionEnter(p)
    \/ DeprovisionNamespace(p) \/ DeprovisionGone(p)
    \/ DeprovisionDatabase(p) \/ DeprovisionRole(p)     \/ DeprovisionStorage(p)
    \/ DeprovisionClient(p)   \/ DeprovisionDesire(p)   \/ DeprovisionState(p)
    \/ DeprovisionThrow(p)

-----------------------------------------------------------------------------
(* PATCH .../state: read, propagate a maintenance change to the pod, write. *)
(* No lock: any handler's steps may fall between.                          *)

IsMaintenanceChange(from, to) ==
    \/ from = "ready" /\ to = "maintenance"
    \/ from = "maintenance" /\ to = "ready"

PatchStart(p) ==
    /\ \E s \in PatchStates :
        Start(p, "patch",
              IF IsMaintenanceChange(row.state, s) THEN "control"
                                                   ELSE "patchWrite",
              [NoLoc EXCEPT !.to = s])
    /\ UNCHANGED <<row, kube, pg, kc, lock, crashes>>

(* POST /_control/maintenance on the tenant's pod.  The flag is set before *)
(* the drain is waited for, so a call that times out may have set it.      *)
SetGate(p) ==
    kube' = [kube EXCEPT !.gate = IF loc[p].to = "maintenance" THEN "closed"
                                                               ELSE "open"]

PatchControl(p) ==
    /\ kube.pod # NoVersion
    /\ Goto(p, "control", "patchWrite")
    /\ SetGate(p)
    /\ UNCHANGED <<row, pg, kc, lock, loc, runs, crashes>>

PatchControlFails(p) ==
    /\ pc[p] = "control"
    /\ \/ UNCHANGED kube
       \/ kube.pod # NoVersion /\ SetGate(p)
    /\ End(p)
    /\ UNCHANGED <<row, pg, kc, lock, runs, crashes>>

PatchWrite(p) ==
    /\ pc[p] = "patchWrite"
    /\ WriteState(loc[p].to, "patch")
    /\ End(p)
    /\ UNCHANGED <<kube, pg, kc, lock, runs, crashes>>

(* PATCH .../desired-state: one UPDATE.                                    *)
PatchDesired(p) ==
    /\ "patch" \in Ops /\ pc[p] = "idle"
    /\ \E s \in PatchStates : row' = [row EXCEPT !.desired = s]
    /\ UNCHANGED <<kube, pg, kc, lock, pc, loc, runs, crashes>>

Patch(p) ==
    \/ PatchStart(p) \/ PatchControl(p) \/ PatchControlFails(p)
    \/ PatchWrite(p) \/ PatchDesired(p)

-----------------------------------------------------------------------------
(* POST .../restore, with the backup runner's restoreTenant.  No lock.     *)

RestoreStart(p) ==
    /\ row.storage = "present"
    /\ row.state \in {"ready", "maintenance"}
    /\ Start(p, "restore", "restoreMark", [NoLoc EXCEPT !.to = row.state])
    /\ UNCHANGED <<row, kube, pg, kc, lock, crashes>>

RestoreMark(p) ==
    /\ Goto(p, "restoreMark", "restoreCheck")
    /\ WriteState("restoring", "restore")
    /\ UNCHANGED <<kube, pg, kc, lock, loc, runs, crashes>>

(* assertNoActiveConnections counts the other restores' pg_dump and        *)
(* pg_restore sessions; the pod's own sessions make RestoreThrow.          *)
NoActiveConnections(p) ==
    \A q \in Procs \ {p} : pc[q] \notin {"snapshot", "pgRestore"}

(* The row is read again and must say restoring.                           *)
RestoreCheck(p) ==
    /\ row.state = "restoring" /\ pg.db = "present"
    /\ NoActiveConnections(p)
    /\ Goto(p, "restoreCheck", "snapshot")
    /\ UNCHANGED <<row, kube, pg, kc, lock, loc, runs, crashes>>

RestoreSnapshot(p) ==
    /\ pg.db = "present"
    /\ Goto(p, "snapshot", "restoreRecheck")
    /\ UNCHANGED <<row, kube, pg, kc, lock, loc, runs, crashes>>

RestoreRecheck(p) ==
    /\ pg.db = "present"
    /\ NoActiveConnections(p)
    /\ Goto(p, "restoreRecheck", "pgRestore")
    /\ UNCHANGED <<row, kube, pg, kc, lock, loc, runs, crashes>>

RestoreDone(p) ==
    /\ pg.db = "present"
    /\ Goto(p, "pgRestore", "restoreBack")
    /\ UNCHANGED <<row, kube, pg, kc, lock, loc, runs, crashes>>

(* Every failure after the run was created goes the same way back.         *)
RestoreThrow(p) ==
    /\ pc[p] \in {"restoreMark", "restoreCheck", "snapshot", "restoreRecheck",
                  "pgRestore"}
    /\ pc' = [pc EXCEPT ![p] = "restoreBack"]
    /\ UNCHANGED <<row, kube, pg, kc, lock, loc, runs, crashes>>

RestoreBack(p) ==
    /\ pc[p] = "restoreBack"
    /\ WriteState(loc[p].to, "restore")
    /\ End(p)
    /\ UNCHANGED <<kube, pg, kc, lock, runs, crashes>>

Restore(p) ==
    \/ RestoreStart(p) \/ RestoreMark(p)    \/ RestoreCheck(p)
    \/ RestoreSnapshot(p) \/ RestoreRecheck(p) \/ RestoreDone(p)
    \/ RestoreThrow(p) \/ RestoreBack(p)

-----------------------------------------------------------------------------
(* What happens to the handlers and in the cluster.                        *)

(* The control plane dies, or a statement outside every catch throws.      *)
Crash(p) ==
    /\ pc[p] # "idle"
    /\ crashes < MaxCrashes
    /\ crashes' = crashes + 1
    /\ End(p)
    /\ lock' = IF lock = p THEN NoProc ELSE lock
    /\ UNCHANGED <<row, kube, pg, kc, runs>>

(* The pod is started, replaced or restarted; the maintenance flag was in  *)
(* the old process's memory.                                               *)
PodStarts ==
    /\ kube.ns = "active" /\ kube.image # NoVersion /\ kube.secret # 0
    /\ kube' = [kube EXCEPT !.pod = kube.image, !.gate = "open"]
    /\ UNCHANGED <<row, pg, kc, lock, pc, loc, runs, crashes>>

PodDies ==
    /\ kube.pod # NoVersion
    /\ kube' = [kube EXCEPT !.pod = NoVersion, !.gate = "open"]
    /\ UNCHANGED <<row, pg, kc, lock, pc, loc, runs, crashes>>

(* A terminating namespace loses its objects in some order, then goes.     *)
NamespaceDrains ==
    /\ kube.ns = "terminating"
    /\ kube' \in { [kube EXCEPT !.secret = 0],
                   [kube EXCEPT !.image = NoVersion] }
    /\ UNCHANGED <<row, pg, kc, lock, pc, loc, runs, crashes>>

NamespaceGone ==
    /\ kube.ns = "terminating"
    /\ kube' = [ns |-> "absent", secret |-> 0, image |-> NoVersion,
                pod |-> NoVersion, gate |-> "open"]
    /\ UNCHANGED <<row, pg, kc, lock, pc, loc, runs, crashes>>

Environment == PodStarts \/ PodDies \/ NamespaceDrains \/ NamespaceGone

Next ==
    \/ \E p \in Procs : \/ Provision(p) \/ Deprovision(p) \/ Patch(p)
                        \/ Restore(p)   \/ LockTimeout(p) \/ Crash(p)
    \/ Environment

Spec == Init /\ [][Next]_vars

-----------------------------------------------------------------------------
(* Properties.                                                             *)

(* Every variable holds a value of its type.                               *)
TypeOK ==
    /\ row \in Row /\ kube \in Kube /\ pg \in Pg /\ kc \in Presence
    /\ lock \in Procs \cup {NoProc}
    /\ pc \in [Procs -> PCs]
    /\ loc \in [Procs -> Loc]
    /\ runs \in 0 .. MaxRuns
    /\ crashes \in 0 .. MaxCrashes

(* The password in the tenant's secret is the one Postgres has for its     *)
(* role, at every moment: a run rotates the role only when no secret is    *)
(* left (getTenantRuntimeConnectionString, ensureTenantDatabase).          *)
SecretMatchesRole ==
    kube.secret # 0 => pg.db = "present" /\ pg.role = kube.secret

(* A deployment or pod never outlives its database and role, and never     *)
(* comes before them.                                                      *)
WorkloadHasDatabase ==
    (kube.image # NoVersion \/ kube.pod # NoVersion) =>
        pg.db = "present" /\ pg.role # 0

(* While the last state written is deprovisionTenant's own, nothing is     *)
(* left of the tenant but its Keycloak client, whose deletion is best      *)
(* effort; another handler's leftovers do not come back.                   *)
Deprovisioned == row.state = "deprovisioned" /\ row.by = "deprovision"
NothingLeft   == /\ kube.ns = "absent" /\ pg.db = "absent" /\ pg.role = 0
                 /\ row.storage = "absent"
DeprovisionedMeansDeleted == Deprovisioned => NothingLeft

(* Whatever exists for the tenant can be found again: all names derive     *)
(* from the subdomain, and deprovisionTenant skips a row without one.      *)
InfraIsAddressable ==
    \/ row.subdomain = "present"
    \/ kube.ns = "absent" /\ pg.db = "absent" /\ pg.role = 0 /\ kc = "absent"

-----------------------------------------------------------------------------
(* The inductive invariant behind the safety properties.                   *)

(* The lock is held exactly by the handler inside a locked section.        *)
LockInv == \A p \in Procs : pc[p] \in Locked <=> lock = p

(* What the holder may rely on, by how far it is.                          *)
AfterReserve == {"readSecret", "database", "role", "storage", "keycloak",
                 "namespace", "secret", "deployment"}
AfterMark    == AfterReserve \cup {"reserve"}
AfterRole    == {"storage", "keycloak", "namespace", "secret", "deployment"}
AfterDelWait == {"dropDatabase", "dropRole", "dropStorage", "dropClient",
                 "dropDesire", "dropState"}

ProvisionInv(p) ==
    /\ pc[p] # "idle" => loc[p].id \in 0 .. runs
    /\ pc[p] = "lockProvision" \/ pc[p] \in LockedProvision => loc[p].id # 0
    /\ pc[p] \in {"desire", "mark"} /\ Deprovisioned =>
          loc[p].seen = "deprovisioned"
    /\ pc[p] \in {"desire", "mark", "reserve", "readSecret"} =>
          loc[p].had = "present" \/ kube.ns = "absent"
    /\ pc[p] \in AfterMark => ~Deprovisioned
    /\ pc[p] \in AfterReserve => row.subdomain = "present"
    /\ pc[p] \in {"database", "role"} =>
          loc[p].password # 0 /\ kube.secret \in {0, loc[p].password}
    /\ pc[p] = "role" => pg.db = "present"
    /\ pc[p] \in AfterRole =>
          pg.db = "present" /\ loc[p].password # 0 /\ pg.role = loc[p].password

DeprovisionInv(p) ==
    /\ pc[p] \in {"delNamespace", "delWait"} => row.subdomain = "present"
    /\ pc[p] \in AfterDelWait => kube.ns = "absent"
    /\ pc[p] \in AfterDelWait \ {"dropDatabase"} => pg.db = "absent"
    /\ pc[p] \in AfterDelWait \ {"dropDatabase", "dropRole"} => pg.role = 0
    /\ pc[p] \in {"dropClient", "dropDesire", "dropState"} => row.storage = "absent"

ClusterInv ==
    kube.ns = "absent" =>
        kube.secret = 0 /\ kube.image = NoVersion /\ kube.pod = NoVersion

HoldersInv == \A p \in Procs : ProvisionInv(p) /\ DeprovisionInv(p)

SafeInv ==
    /\ SecretMatchesRole /\ WorkloadHasDatabase
    /\ DeprovisionedMeansDeleted /\ InfraIsAddressable

IInv == TypeOK /\ LockInv /\ ClusterInv /\ HoldersInv /\ SafeInv

=============================================================================
