----------------------- MODULE TenantLifecycleProofs -----------------------
(* Proofs about TenantLifecycle: IInv is inductive, so the safety          *)
(* properties hold for every set of handlers and versions and every bound. *)
(* The last two sections are about ScaleToZero, the life of a tenant that  *)
(* is ready.                                                               *)
EXTENDS TenantLifecycle, ScaleToZero, TLAPS

(* What the handlers' helpers do to the types, once for all handlers.      *)
LEMMA GotoType ==
    ASSUME NEW p \in Procs, NEW from, NEW to \in PCs,
           pc \in [Procs -> PCs], Goto(p, from, to)
    PROVE  pc' \in [Procs -> PCs]
  BY DEF Goto

(* The empty memory of a handler is well typed.                            *)
LEMMA NoLocType == NoLoc \in Loc
  BY BoundsAssumption DEF NoLoc, Loc, Passwords, Images, States, Presence

(* A new request is well typed.                                            *)
LEMMA RequestType ==
    ASSUME NEW l \in Loc, NEW i \in Passwords, NEW w \in Images
    PROVE  [l EXCEPT !.id = i, !.want = w] \in Loc
  BY DEF Loc

(* So is what a run keeps of the row it read.                              *)
LEMMA SnapshotType ==
    ASSUME NEW l \in Loc, NEW s \in States, NEW h \in Presence
    PROVE  [l EXCEPT !.seen = s, !.had = h] \in Loc
  BY DEF Loc

(* A handler that ends.                                                    *)
LEMMA EndType ==
    ASSUME NEW p \in Procs, pc \in [Procs -> PCs], loc \in [Procs -> Loc], End(p)
    PROVE  pc' \in [Procs -> PCs] /\ loc' \in [Procs -> Loc]
  BY NoLocType DEF End, PCs

(* A handler that starts.                                                  *)
LEMMA StartType ==
    ASSUME NEW p \in Procs, NEW op, NEW first \in PCs, NEW l \in Loc,
           pc \in [Procs -> PCs], loc \in [Procs -> Loc], runs \in 0 .. MaxRuns,
           Start(p, op, first, l)
    PROVE  /\ pc' \in [Procs -> PCs] /\ loc' \in [Procs -> Loc]
           /\ runs' \in 0 .. MaxRuns
  BY BoundsAssumption DEF Start

(* A write of the state column.                                            *)
LEMMA WriteStateType ==
    ASSUME row \in Row, NEW s \in States, NEW by \in Writers,
           WriteState(s, by) \/ WriteStateUnless(s, by)
    PROVE  row' \in Row
  <1>1. [row EXCEPT !.state = s, !.by = by] \in Row
    BY DEF Row
  <1>2. CASE WriteState(s, by)
    BY <1>1, <1>2 DEF WriteState
  <1>3. CASE WriteStateUnless(s, by)
    BY <1>1, <1>3 DEF WriteState, WriteStateUnless
  <1> QED
    BY <1>2, <1>3

-----------------------------------------------------------------------------
(* Types are kept, handler by handler and step by step.                    *)
(* A step of provisionTenant keeps the types.                              *)
LEMMA ProvisionTypes ==
    ASSUME TypeOK, NEW p \in Procs, Provision(p)
    PROVE  TypeOK'
  <1> USE GotoType, EndType, StartType, WriteStateType, NoLocType,
          VersionsAssumption, PatchAssumption, BoundsAssumption
      DEF TypeOK, PCs, Locked, Unlocked, LockedProvision, LockedDeprovision,
          Presence, Writers, States
  <1>1. CASE ProvisionStart(p)
    <2>1. PICK v \in Images :
            Start(p, "provision", "lockProvision",
                  [NoLoc EXCEPT !.id = runs + 1, !.want = v])
      BY <1>1 DEF ProvisionStart
    <2>2. [NoLoc EXCEPT !.id = runs + 1, !.want = v] \in Loc
      <3>1. runs < MaxRuns
        BY <2>1 DEF Start
      <3>2. runs + 1 \in Passwords
        BY <3>1 DEF Passwords
      <3> QED
        BY <3>2, RequestType
    <2> QED
      BY <1>1, <2>1, <2>2 DEF ProvisionStart
  <1>2. CASE ProvisionReject(p)
    BY <1>2 DEF ProvisionReject, Rejected, InFlight, IsRollout, Passwords
  <1>3. CASE ProvisionEnter(p)
    <2>1. [loc[p] EXCEPT !.mode = IF IsRollout(p) THEN "rollout"
                                                  ELSE "apply"] \in Loc
      BY DEF Loc
    <2>2. loc' \in [Procs -> Loc]
      BY <1>3, <2>1 DEF ProvisionEnter
    <2> QED
      BY <1>3, <2>2 DEF ProvisionEnter
  <1>4. CASE ProvisionAdopt(p)
    <2>1. row' \in Row
      BY <1>4 DEF ProvisionAdopt, Row, Loc, Images
    <2>2. [loc[p] EXCEPT !.seen = row.state, !.had = row.subdomain] \in Loc
      <3>1. row.state \in States /\ row.subdomain \in Presence /\ loc[p] \in Loc
        BY DEF Row
      <3> QED
        BY <3>1, SnapshotType
    <2>3. loc' \in [Procs -> Loc]
      BY <1>4, <2>2 DEF ProvisionAdopt
    <2> QED
      BY <1>4, <2>1, <2>3 DEF ProvisionAdopt
  <1>5. CASE ProvisionDesire(p)
    BY <1>5 DEF ProvisionDesire, Row, Passwords
  <1>6. CASE ProvisionMark(p)
    BY <1>6 DEF ProvisionMark, MarkUpgrading, MarkProvisioning, Passwords
  <1>7. CASE ProvisionReserve(p)
    BY <1>7 DEF ProvisionReserve, Row, Passwords
  <1>8. CASE ProvisionReadSecret(p)
    <2>1. PICK w \in Passwords : loc' = [loc EXCEPT ![p].password = w]
      BY <1>8 DEF ProvisionReadSecret, Kube, Loc, Passwords
    <2>2. [loc[p] EXCEPT !.password = w] \in Loc
      BY DEF Loc
    <2>3. loc' \in [Procs -> Loc]
      BY <2>1, <2>2
    <2> QED
      BY <1>8, <2>3 DEF ProvisionReadSecret
  <1>9. CASE ProvisionDatabase(p)
    BY <1>9 DEF ProvisionDatabase, Pg, Passwords
  <1>10. CASE ProvisionRole(p)
    BY <1>10 DEF ProvisionRole, Pg, Loc, Passwords
  <1>11. CASE ProvisionStorage(p)
    BY <1>11 DEF ProvisionStorage, Row, Passwords
  <1>12. CASE ProvisionKeycloak(p)
    BY <1>12 DEF ProvisionKeycloak, Passwords
  <1>13. CASE ProvisionNamespace(p)
    BY <1>13 DEF ProvisionNamespace, Kube, Passwords
  <1>14. CASE ProvisionSecret(p)
    BY <1>14 DEF ProvisionSecret, Kube, Loc, Passwords
  <1>15. CASE ProvisionDeployment(p)
    <2>1. kube' \in Kube
      BY <1>15 DEF ProvisionDeployment, Row, Kube, Images
    <2> QED
      BY <1>15, <2>1 DEF ProvisionDeployment, Unlock
  <1>16. CASE ProvisionThrow(p)
    BY <1>16 DEF ProvisionThrow, Passwords
  <1>17. CASE ProvisionAbort(p)
    BY <1>17 DEF ProvisionAbort, Unlock, Passwords
  <1>18. CASE ProvisionReady(p)
    BY <1>18 DEF ProvisionReady, Passwords
  <1>19. CASE ProvisionNotReady(p)
    BY <1>19 DEF ProvisionNotReady, Passwords
  <1>20. CASE ProvisionFinish(p)
    BY <1>20 DEF ProvisionFinish, Passwords
  <1>21. CASE ProvisionRollFail(p)
    BY <1>21 DEF ProvisionRollFail, Passwords
  <1> QED
    BY <1>1, <1>2, <1>3, <1>4, <1>5, <1>6, <1>7, <1>8, <1>9, <1>10, <1>11,
       <1>12, <1>13, <1>14, <1>15, <1>16, <1>17, <1>18, <1>19, <1>20, <1>21
    DEF Provision

(* A step of deprovisionTenant keeps the types.                            *)
LEMMA DeprovisionTypes ==
    ASSUME TypeOK, NEW p \in Procs, Deprovision(p)
    PROVE  TypeOK'
  <1> USE GotoType, EndType, StartType, WriteStateType, NoLocType,
          VersionsAssumption, PatchAssumption, BoundsAssumption
      DEF TypeOK, PCs, Locked, Unlocked, LockedProvision, LockedDeprovision,
          Presence, Writers, States
  <1>1. CASE DeprovisionStart(p)
    BY <1>1 DEF DeprovisionStart
  <1>2. CASE DeprovisionAlready(p)
    BY <1>2 DEF DeprovisionAlready, Passwords
  <1>3. CASE DeprovisionEnter(p)
    BY <1>3 DEF DeprovisionEnter, Passwords
  <1>4. CASE DeprovisionNamespace(p)
    <2>1. kube' \in Kube
      BY <1>4 DEF DeprovisionNamespace, Kube
    <2> QED
      BY <1>4, <2>1 DEF DeprovisionNamespace
  <1>5. CASE DeprovisionGone(p)
    BY <1>5 DEF DeprovisionGone, Passwords
  <1>6. CASE DeprovisionDatabase(p)
    BY <1>6 DEF DeprovisionDatabase, Pg, Passwords
  <1>7. CASE DeprovisionRole(p)
    <2>1. pg' \in Pg
      BY <1>7 DEF DeprovisionRole, Pg, Passwords
    <2> QED
      BY <1>7, <2>1 DEF DeprovisionRole
  <1>8. CASE DeprovisionStorage(p)
    BY <1>8 DEF DeprovisionStorage, Row, Passwords
  <1>9. CASE DeprovisionClient(p)
    BY <1>9 DEF DeprovisionClient, Passwords
  <1>10. CASE DeprovisionDesire(p)
    BY <1>10 DEF DeprovisionDesire, Row, Passwords
  <1>11. CASE DeprovisionState(p)
    BY <1>11 DEF DeprovisionState, Unlock, Passwords
  <1>12. CASE DeprovisionThrow(p)
    BY <1>12 DEF DeprovisionThrow, Unlock, Passwords
  <1> QED
    BY <1>1, <1>2, <1>3, <1>4, <1>5, <1>6, <1>7, <1>8, <1>9, <1>10, <1>11,
       <1>12
    DEF Deprovision

(* A step of the operator PATCHes keeps the types.                         *)
LEMMA PatchTypes ==
    ASSUME TypeOK, NEW p \in Procs, Patch(p)
    PROVE  TypeOK'
  <1> USE GotoType, EndType, StartType, WriteStateType, NoLocType,
          VersionsAssumption, PatchAssumption, BoundsAssumption
      DEF TypeOK, PCs, Locked, Unlocked, LockedProvision, LockedDeprovision,
          Presence, Writers, States
  <1>1. CASE PatchStart(p)
    BY <1>1 DEF PatchStart, IsMaintenanceChange, Loc
  <1>2. CASE PatchControl(p)
    BY <1>2 DEF PatchControl, SetGate, Kube, Passwords
  <1>3. CASE PatchControlFails(p)
    BY <1>3 DEF PatchControlFails, SetGate, Kube, Passwords
  <1>4. CASE PatchWrite(p)
    <2>1. loc[p].to \in States
      BY DEF Loc
    <2>2. row' \in Row
      BY <1>4, <2>1, WriteStateType DEF PatchWrite
    <2> QED
      BY <1>4, <2>2 DEF PatchWrite
  <1>5. CASE PatchDesired(p)
    <2>1. row' \in Row
      BY <1>5 DEF PatchDesired, Row
    <2> QED
      BY <1>5, <2>1 DEF PatchDesired
  <1> QED
    BY <1>1, <1>2, <1>3, <1>4, <1>5 DEF Patch

(* A step of a restore keeps the types.                                    *)
LEMMA RestoreTypes ==
    ASSUME TypeOK, NEW p \in Procs, Restore(p)
    PROVE  TypeOK'
  <1> USE GotoType, EndType, StartType, WriteStateType, NoLocType,
          VersionsAssumption, PatchAssumption, BoundsAssumption
      DEF TypeOK, PCs, Locked, Unlocked, LockedProvision, LockedDeprovision,
          Presence, Writers, States
  <1>1. CASE RestoreStart(p)
    BY <1>1 DEF RestoreStart, Loc
  <1>2. CASE RestoreMark(p)
    BY <1>2 DEF RestoreMark, Passwords
  <1>3. CASE RestoreCheck(p)
    BY <1>3 DEF RestoreCheck, Passwords
  <1>4. CASE RestoreSnapshot(p)
    BY <1>4 DEF RestoreSnapshot, Passwords
  <1>5. CASE RestoreRecheck(p)
    BY <1>5 DEF RestoreRecheck, Passwords
  <1>6. CASE RestoreDone(p)
    BY <1>6 DEF RestoreDone, Passwords
  <1>7. CASE RestoreThrow(p)
    BY <1>7 DEF RestoreThrow, Passwords
  <1>8. CASE RestoreBack(p)
    <2>1. loc[p].to \in States
      BY DEF Loc
    <2>2. row' \in Row
      BY <1>8, <2>1, WriteStateType DEF RestoreBack
    <2> QED
      BY <1>8, <2>2 DEF RestoreBack
  <1> QED
    BY <1>1, <1>2, <1>3, <1>4, <1>5, <1>6, <1>7, <1>8 DEF Restore



(* A step of the cluster keeps the types.                                  *)
LEMMA EnvironmentTypes ==
    ASSUME TypeOK, Environment
    PROVE  TypeOK'
  <1> USE BoundsAssumption DEF TypeOK, Kube, Images, Passwords
  <1>1. CASE PodStarts
    BY <1>1 DEF PodStarts
  <1>2. CASE PodDies
    BY <1>2 DEF PodDies
  <1>3. CASE NamespaceDrains
    BY <1>3 DEF NamespaceDrains
  <1>4. CASE NamespaceGone
    BY <1>4 DEF NamespaceGone
  <1> QED
    BY <1>1, <1>2, <1>3, <1>4 DEF Environment

(* A crash or a lock timeout keeps the types.                              *)
LEMMA CrashTypes ==
    ASSUME TypeOK, NEW p \in Procs, Crash(p) \/ LockTimeout(p)
    PROVE  TypeOK'
  BY EndType, BoundsAssumption DEF TypeOK, Crash, LockTimeout

-----------------------------------------------------------------------------
(* The rest of the invariant, in three parts per handler: who holds the    *)
(* lock, what is true of the tenant, what the holder relies on.            *)
(* A step of provisionTenant keeps the lock with its holder.               *)
LEMMA ProvisionLock ==
    ASSUME TypeOK, LockInv, ClusterInv, HoldersInv, SafeInv,
           NEW p \in Procs, Provision(p)
    PROVE  LockInv'
  <1> USE ProcsAssumption, VersionsAssumption, BoundsAssumption
      DEF TypeOK, Row, Kube, Pg, Loc, NoLoc, Passwords, Presence, LockInv,
          Locked, LockedProvision, LockedDeprovision
  <1>1. CASE ProvisionStart(p)
    BY <1>1 DEF ProvisionStart, Start
  <1>2. CASE ProvisionReject(p)
    BY <1>2 DEF ProvisionReject, End, Rejected, InFlight, IsRollout
  <1>3. CASE ProvisionEnter(p)
    BY <1>3 DEF ProvisionEnter, Goto, Rejected, IsRollout, InFlight
  <1>4. CASE ProvisionAdopt(p)
    BY <1>4 DEF ProvisionAdopt, Goto
  <1>5. CASE ProvisionDesire(p)
    BY <1>5 DEF ProvisionDesire, Goto
  <1>6. CASE ProvisionMark(p)
    BY <1>6
      DEF ProvisionMark, Goto, WriteState, MarkUpgrading, MarkProvisioning
  <1>7. CASE ProvisionReserve(p)
    BY <1>7 DEF ProvisionReserve, Goto
  <1>8. CASE ProvisionReadSecret(p)
    BY <1>8 DEF ProvisionReadSecret, Goto, WasProvisioned
  <1>9. CASE ProvisionDatabase(p)
    BY <1>9 DEF ProvisionDatabase, Goto
  <1>10. CASE ProvisionRole(p)
    BY <1>10 DEF ProvisionRole, Goto
  <1>11. CASE ProvisionStorage(p)
    BY <1>11 DEF ProvisionStorage, Goto
  <1>12. CASE ProvisionKeycloak(p)
    BY <1>12 DEF ProvisionKeycloak, Goto
  <1>13. CASE ProvisionNamespace(p)
    BY <1>13 DEF ProvisionNamespace, Goto
  <1>14. CASE ProvisionSecret(p)
    BY <1>14 DEF ProvisionSecret, Goto
  <1>15. CASE ProvisionDeployment(p)
    BY <1>15 DEF ProvisionDeployment, Goto, Unlock
  <1>16. CASE ProvisionThrow(p)
    BY <1>16 DEF ProvisionThrow
  <1>17. CASE ProvisionAbort(p)
    BY <1>17 DEF ProvisionAbort, End, Unlock, WriteStateUnless, WriteState
  <1>18. CASE ProvisionReady(p)
    BY <1>18 DEF ProvisionReady, Goto
  <1>19. CASE ProvisionNotReady(p)
    BY <1>19 DEF ProvisionNotReady, Goto
  <1>20. CASE ProvisionFinish(p)
    BY <1>20 DEF ProvisionFinish, End, WriteStateUnless, WriteState
  <1>21. CASE ProvisionRollFail(p)
    BY <1>21 DEF ProvisionRollFail, End, WriteStateUnless, WriteState
  <1> QED
    BY <1>1, <1>2, <1>3, <1>4, <1>5, <1>6, <1>7, <1>8, <1>9, <1>10, <1>11,
       <1>12, <1>13, <1>14, <1>15, <1>16, <1>17, <1>18, <1>19, <1>20, <1>21
    DEF Provision

(* A step of provisionTenant keeps the tenant safe.                        *)
LEMMA ProvisionSafe ==
    ASSUME TypeOK, LockInv, ClusterInv, HoldersInv, SafeInv,
           NEW p \in Procs, Provision(p)
    PROVE  (ClusterInv /\ SafeInv)'
  <1> USE ProcsAssumption, VersionsAssumption, BoundsAssumption
      DEF TypeOK, Row, Kube, Pg, Loc, NoLoc, Passwords, Presence,
          ClusterInv, SafeInv, SecretMatchesRole, WorkloadHasDatabase,
          DeprovisionedMeansDeleted, InfraIsAddressable, Deprovisioned,
          NothingLeft, HoldersInv, ProvisionInv, DeprovisionInv, AfterMark,
          AfterReserve, AfterRole, AfterDelWait
  <1>1. CASE ProvisionStart(p)
    BY <1>1 DEF ProvisionStart, Start
  <1>2. CASE ProvisionReject(p)
    BY <1>2 DEF ProvisionReject, End, Rejected, InFlight, IsRollout
  <1>3. CASE ProvisionEnter(p)
    BY <1>3 DEF ProvisionEnter, Goto, Rejected, IsRollout, InFlight
  <1>4. CASE ProvisionAdopt(p)
    BY <1>4 DEF ProvisionAdopt, Goto
  <1>5. CASE ProvisionDesire(p)
    BY <1>5 DEF ProvisionDesire, Goto
  <1>6. CASE ProvisionMark(p)
    BY <1>6
      DEF ProvisionMark, Goto, WriteState, MarkUpgrading, MarkProvisioning
  <1>7. CASE ProvisionReserve(p)
    BY <1>7 DEF ProvisionReserve, Goto
  <1>8. CASE ProvisionReadSecret(p)
    BY <1>8 DEF ProvisionReadSecret, Goto, WasProvisioned
  <1>9. CASE ProvisionDatabase(p)
    BY <1>9 DEF ProvisionDatabase, Goto
  <1>10. CASE ProvisionRole(p)
    BY <1>10 DEF ProvisionRole, Goto
  <1>11. CASE ProvisionStorage(p)
    BY <1>11 DEF ProvisionStorage, Goto
  <1>12. CASE ProvisionKeycloak(p)
    BY <1>12 DEF ProvisionKeycloak, Goto
  <1>13. CASE ProvisionNamespace(p)
    BY <1>13 DEF ProvisionNamespace, Goto
  <1>14. CASE ProvisionSecret(p)
    BY <1>14 DEF ProvisionSecret, Goto
  <1>15. CASE ProvisionDeployment(p)
    BY <1>15 DEF ProvisionDeployment, Goto, Unlock
  <1>16. CASE ProvisionThrow(p)
    BY <1>16 DEF ProvisionThrow
  <1>17. CASE ProvisionAbort(p)
    BY <1>17 DEF ProvisionAbort, End, Unlock, WriteStateUnless, WriteState
  <1>18. CASE ProvisionReady(p)
    BY <1>18 DEF ProvisionReady, Goto
  <1>19. CASE ProvisionNotReady(p)
    BY <1>19 DEF ProvisionNotReady, Goto
  <1>20. CASE ProvisionFinish(p)
    BY <1>20 DEF ProvisionFinish, End, WriteStateUnless, WriteState
  <1>21. CASE ProvisionRollFail(p)
    BY <1>21 DEF ProvisionRollFail, End, WriteStateUnless, WriteState
  <1> QED
    BY <1>1, <1>2, <1>3, <1>4, <1>5, <1>6, <1>7, <1>8, <1>9, <1>10, <1>11,
       <1>12, <1>13, <1>14, <1>15, <1>16, <1>17, <1>18, <1>19, <1>20, <1>21
    DEF Provision

(* A step of provisionTenant keeps what the holders rely on.               *)
LEMMA ProvisionHolders ==
    ASSUME TypeOK, LockInv, ClusterInv, HoldersInv, SafeInv,
           NEW p \in Procs, Provision(p)
    PROVE  HoldersInv'
  <1> USE ProcsAssumption, VersionsAssumption, BoundsAssumption
      DEF TypeOK, Row, Kube, Pg, Loc, NoLoc, Passwords, Presence,
          ClusterInv, SafeInv, SecretMatchesRole, WorkloadHasDatabase,
          DeprovisionedMeansDeleted, InfraIsAddressable, Deprovisioned,
          NothingLeft, LockInv, Locked, LockedProvision, LockedDeprovision,
          HoldersInv, ProvisionInv, DeprovisionInv, AfterMark, AfterReserve,
          AfterRole, AfterDelWait
  <1>1. CASE ProvisionStart(p)
    BY <1>1 DEF ProvisionStart, Start
  <1>2. CASE ProvisionReject(p)
    BY <1>2 DEF ProvisionReject, End, Rejected, InFlight, IsRollout
  <1>3. CASE ProvisionEnter(p)
    BY <1>3 DEF ProvisionEnter, Goto, Rejected, IsRollout, InFlight
  <1>4. CASE ProvisionAdopt(p)
    BY <1>4 DEF ProvisionAdopt, Goto
  <1>5. CASE ProvisionDesire(p)
    BY <1>5 DEF ProvisionDesire, Goto
  <1>6. CASE ProvisionMark(p)
    <2>1. CASE MarkUpgrading(p) /\ WriteState("upgrading", "provision")
      BY <1>6, <2>1 DEF ProvisionMark, Goto, WriteState
    <2>2. CASE MarkProvisioning(p) /\ WriteState("provisioning", "provision")
      BY <1>6, <2>2 DEF ProvisionMark, Goto, WriteState
    <2>3. CASE /\ ~MarkUpgrading(p) /\ ~MarkProvisioning(p)
               /\ UNCHANGED row
      BY <1>6, <2>3 DEF ProvisionMark, Goto, MarkProvisioning
    <2> QED
      BY <1>6, <2>1, <2>2, <2>3 DEF ProvisionMark
  <1>7. CASE ProvisionReserve(p)
    BY <1>7 DEF ProvisionReserve, Goto
  <1>8. CASE ProvisionReadSecret(p)
    BY <1>8 DEF ProvisionReadSecret, Goto, WasProvisioned
  <1>9. CASE ProvisionDatabase(p)
    BY <1>9 DEF ProvisionDatabase, Goto
  <1>10. CASE ProvisionRole(p)
    BY <1>10 DEF ProvisionRole, Goto
  <1>11. CASE ProvisionStorage(p)
    BY <1>11 DEF ProvisionStorage, Goto
  <1>12. CASE ProvisionKeycloak(p)
    BY <1>12 DEF ProvisionKeycloak, Goto
  <1>13. CASE ProvisionNamespace(p)
    BY <1>13 DEF ProvisionNamespace, Goto
  <1>14. CASE ProvisionSecret(p)
    BY <1>14 DEF ProvisionSecret, Goto
  <1>15. CASE ProvisionDeployment(p)
    BY <1>15 DEF ProvisionDeployment, Goto, Unlock
  <1>16. CASE ProvisionThrow(p)
    BY <1>16 DEF ProvisionThrow
  <1>17. CASE ProvisionAbort(p)
    BY <1>17 DEF ProvisionAbort, End, Unlock, WriteStateUnless, WriteState
  <1>18. CASE ProvisionReady(p)
    BY <1>18 DEF ProvisionReady, Goto
  <1>19. CASE ProvisionNotReady(p)
    BY <1>19 DEF ProvisionNotReady, Goto
  <1>20. CASE ProvisionFinish(p)
    BY <1>20 DEF ProvisionFinish, End, WriteStateUnless, WriteState
  <1>21. CASE ProvisionRollFail(p)
    BY <1>21 DEF ProvisionRollFail, End, WriteStateUnless, WriteState
  <1> QED
    BY <1>1, <1>2, <1>3, <1>4, <1>5, <1>6, <1>7, <1>8, <1>9, <1>10, <1>11,
       <1>12, <1>13, <1>14, <1>15, <1>16, <1>17, <1>18, <1>19, <1>20, <1>21
    DEF Provision

(* A step of deprovisionTenant keeps the lock with its holder.             *)
LEMMA DeprovisionLock ==
    ASSUME TypeOK, LockInv, ClusterInv, HoldersInv, SafeInv,
           NEW p \in Procs, Deprovision(p)
    PROVE  LockInv'
  <1> USE ProcsAssumption, VersionsAssumption, BoundsAssumption
      DEF TypeOK, Row, Kube, Pg, Loc, NoLoc, Passwords, Presence, LockInv,
          Locked, LockedProvision, LockedDeprovision
  <1>1. CASE DeprovisionStart(p)
    BY <1>1 DEF DeprovisionStart, Start
  <1>2. CASE DeprovisionAlready(p)
    BY <1>2 DEF DeprovisionAlready, End
  <1>3. CASE DeprovisionEnter(p)
    BY <1>3 DEF DeprovisionEnter, Goto
  <1>4. CASE DeprovisionNamespace(p)
    BY <1>4 DEF DeprovisionNamespace, Goto
  <1>5. CASE DeprovisionGone(p)
    BY <1>5 DEF DeprovisionGone, Goto
  <1>6. CASE DeprovisionDatabase(p)
    BY <1>6 DEF DeprovisionDatabase, Goto
  <1>7. CASE DeprovisionRole(p)
    BY <1>7 DEF DeprovisionRole, Goto
  <1>8. CASE DeprovisionStorage(p)
    BY <1>8 DEF DeprovisionStorage, Goto
  <1>9. CASE DeprovisionClient(p)
    BY <1>9 DEF DeprovisionClient, Goto
  <1>10. CASE DeprovisionDesire(p)
    BY <1>10 DEF DeprovisionDesire, Goto
  <1>11. CASE DeprovisionState(p)
    BY <1>11 DEF DeprovisionState, End, Unlock, WriteState
  <1>12. CASE DeprovisionThrow(p)
    BY <1>12 DEF DeprovisionThrow, End, Unlock
  <1> QED
    BY <1>1, <1>2, <1>3, <1>4, <1>5, <1>6, <1>7, <1>8, <1>9, <1>10, <1>11,
       <1>12
    DEF Deprovision

(* A step of deprovisionTenant keeps the tenant safe.                      *)
LEMMA DeprovisionSafe ==
    ASSUME TypeOK, LockInv, ClusterInv, HoldersInv, SafeInv,
           NEW p \in Procs, Deprovision(p)
    PROVE  (ClusterInv /\ SafeInv)'
  <1> USE ProcsAssumption, VersionsAssumption, BoundsAssumption
      DEF TypeOK, Row, Kube, Pg, Loc, NoLoc, Passwords, Presence,
          ClusterInv, SafeInv, SecretMatchesRole, WorkloadHasDatabase,
          DeprovisionedMeansDeleted, InfraIsAddressable, Deprovisioned,
          NothingLeft, HoldersInv, ProvisionInv, DeprovisionInv, AfterMark,
          AfterReserve, AfterRole, AfterDelWait
  <1>1. CASE DeprovisionStart(p)
    BY <1>1 DEF DeprovisionStart, Start
  <1>2. CASE DeprovisionAlready(p)
    BY <1>2 DEF DeprovisionAlready, End
  <1>3. CASE DeprovisionEnter(p)
    BY <1>3 DEF DeprovisionEnter, Goto
  <1>4. CASE DeprovisionNamespace(p)
    BY <1>4 DEF DeprovisionNamespace, Goto
  <1>5. CASE DeprovisionGone(p)
    BY <1>5 DEF DeprovisionGone, Goto
  <1>6. CASE DeprovisionDatabase(p)
    BY <1>6 DEF DeprovisionDatabase, Goto
  <1>7. CASE DeprovisionRole(p)
    BY <1>7 DEF DeprovisionRole, Goto
  <1>8. CASE DeprovisionStorage(p)
    BY <1>8 DEF DeprovisionStorage, Goto
  <1>9. CASE DeprovisionClient(p)
    BY <1>9 DEF DeprovisionClient, Goto
  <1>10. CASE DeprovisionDesire(p)
    BY <1>10 DEF DeprovisionDesire, Goto
  <1>11. CASE DeprovisionState(p)
    BY <1>11 DEF DeprovisionState, End, Unlock, WriteState
  <1>12. CASE DeprovisionThrow(p)
    BY <1>12 DEF DeprovisionThrow, End, Unlock
  <1> QED
    BY <1>1, <1>2, <1>3, <1>4, <1>5, <1>6, <1>7, <1>8, <1>9, <1>10, <1>11,
       <1>12
    DEF Deprovision

(* A step of deprovisionTenant keeps what the holders rely on.             *)
LEMMA DeprovisionHolders ==
    ASSUME TypeOK, LockInv, ClusterInv, HoldersInv, SafeInv,
           NEW p \in Procs, Deprovision(p)
    PROVE  HoldersInv'
  <1> USE ProcsAssumption, VersionsAssumption, BoundsAssumption
      DEF TypeOK, Row, Kube, Pg, Loc, NoLoc, Passwords, Presence,
          ClusterInv, SafeInv, SecretMatchesRole, WorkloadHasDatabase,
          DeprovisionedMeansDeleted, InfraIsAddressable, Deprovisioned,
          NothingLeft, LockInv, Locked, LockedProvision, LockedDeprovision,
          HoldersInv, ProvisionInv, DeprovisionInv, AfterMark, AfterReserve,
          AfterRole, AfterDelWait
  <1>1. CASE DeprovisionStart(p)
    BY <1>1 DEF DeprovisionStart, Start
  <1>2. CASE DeprovisionAlready(p)
    BY <1>2 DEF DeprovisionAlready, End
  <1>3. CASE DeprovisionEnter(p)
    BY <1>3 DEF DeprovisionEnter, Goto
  <1>4. CASE DeprovisionNamespace(p)
    BY <1>4 DEF DeprovisionNamespace, Goto
  <1>5. CASE DeprovisionGone(p)
    BY <1>5 DEF DeprovisionGone, Goto
  <1>6. CASE DeprovisionDatabase(p)
    BY <1>6 DEF DeprovisionDatabase, Goto
  <1>7. CASE DeprovisionRole(p)
    BY <1>7 DEF DeprovisionRole, Goto
  <1>8. CASE DeprovisionStorage(p)
    BY <1>8 DEF DeprovisionStorage, Goto
  <1>9. CASE DeprovisionClient(p)
    BY <1>9 DEF DeprovisionClient, Goto
  <1>10. CASE DeprovisionDesire(p)
    BY <1>10 DEF DeprovisionDesire, Goto
  <1>11. CASE DeprovisionState(p)
    BY <1>11 DEF DeprovisionState, End, Unlock, WriteState
  <1>12. CASE DeprovisionThrow(p)
    BY <1>12 DEF DeprovisionThrow, End, Unlock
  <1> QED
    BY <1>1, <1>2, <1>3, <1>4, <1>5, <1>6, <1>7, <1>8, <1>9, <1>10, <1>11,
       <1>12
    DEF Deprovision

(* A step of the operator PATCHes keeps the lock with its holder.          *)
LEMMA PatchLock ==
    ASSUME TypeOK, LockInv, ClusterInv, HoldersInv, SafeInv,
           NEW p \in Procs, Patch(p)
    PROVE  LockInv'
  <1> USE ProcsAssumption, VersionsAssumption, BoundsAssumption
      DEF TypeOK, Row, Kube, Pg, Loc, NoLoc, Passwords, Presence, LockInv,
          Locked, LockedProvision, LockedDeprovision
  <1>1. CASE PatchStart(p)
    BY <1>1 DEF PatchStart, Start, IsMaintenanceChange
  <1>2. CASE PatchControl(p)
    BY <1>2 DEF PatchControl, Goto, SetGate
  <1>3. CASE PatchControlFails(p)
    BY <1>3 DEF PatchControlFails, End, SetGate
  <1>4. CASE PatchWrite(p)
    BY <1>4 DEF PatchWrite, End, WriteState
  <1>5. CASE PatchDesired(p)
    BY <1>5 DEF PatchDesired
  <1> QED
    BY <1>1, <1>2, <1>3, <1>4, <1>5 DEF Patch

(* A step of the operator PATCHes keeps the tenant safe.                   *)
LEMMA PatchSafe ==
    ASSUME TypeOK, LockInv, ClusterInv, HoldersInv, SafeInv,
           NEW p \in Procs, Patch(p)
    PROVE  (ClusterInv /\ SafeInv)'
  <1> USE ProcsAssumption, VersionsAssumption, BoundsAssumption
      DEF TypeOK, Row, Kube, Pg, Loc, NoLoc, Passwords, Presence,
          ClusterInv, SafeInv, SecretMatchesRole, WorkloadHasDatabase,
          DeprovisionedMeansDeleted, InfraIsAddressable, Deprovisioned,
          NothingLeft, HoldersInv, ProvisionInv, DeprovisionInv, AfterMark,
          AfterReserve, AfterRole, AfterDelWait
  <1>1. CASE PatchStart(p)
    BY <1>1 DEF PatchStart, Start, IsMaintenanceChange
  <1>2. CASE PatchControl(p)
    BY <1>2 DEF PatchControl, Goto, SetGate
  <1>3. CASE PatchControlFails(p)
    BY <1>3 DEF PatchControlFails, End, SetGate
  <1>4. CASE PatchWrite(p)
    BY <1>4 DEF PatchWrite, End, WriteState
  <1>5. CASE PatchDesired(p)
    BY <1>5 DEF PatchDesired
  <1> QED
    BY <1>1, <1>2, <1>3, <1>4, <1>5 DEF Patch

(* A step of the operator PATCHes keeps what the holders rely on.          *)
LEMMA PatchHolders ==
    ASSUME TypeOK, LockInv, ClusterInv, HoldersInv, SafeInv,
           NEW p \in Procs, Patch(p)
    PROVE  HoldersInv'
  <1> USE ProcsAssumption, VersionsAssumption, BoundsAssumption
      DEF TypeOK, Row, Kube, Pg, Loc, NoLoc, Passwords, Presence,
          ClusterInv, SafeInv, SecretMatchesRole, WorkloadHasDatabase,
          DeprovisionedMeansDeleted, InfraIsAddressable, Deprovisioned,
          NothingLeft, LockInv, Locked, LockedProvision, LockedDeprovision,
          HoldersInv, ProvisionInv, DeprovisionInv, AfterMark, AfterReserve,
          AfterRole, AfterDelWait
  <1>1. CASE PatchStart(p)
    BY <1>1 DEF PatchStart, Start, IsMaintenanceChange
  <1>2. CASE PatchControl(p)
    BY <1>2 DEF PatchControl, Goto, SetGate
  <1>3. CASE PatchControlFails(p)
    BY <1>3 DEF PatchControlFails, End, SetGate
  <1>4. CASE PatchWrite(p)
    BY <1>4 DEF PatchWrite, End, WriteState
  <1>5. CASE PatchDesired(p)
    BY <1>5 DEF PatchDesired
  <1> QED
    BY <1>1, <1>2, <1>3, <1>4, <1>5 DEF Patch

(* A step of a restore keeps the lock with its holder.                     *)
LEMMA RestoreLock ==
    ASSUME TypeOK, LockInv, ClusterInv, HoldersInv, SafeInv,
           NEW p \in Procs, Restore(p)
    PROVE  LockInv'
  <1> USE ProcsAssumption, VersionsAssumption, BoundsAssumption
      DEF TypeOK, Row, Kube, Pg, Loc, NoLoc, Passwords, Presence, LockInv,
          Locked, LockedProvision, LockedDeprovision
  <1>1. CASE RestoreStart(p)
    BY <1>1 DEF RestoreStart, Start
  <1>2. CASE RestoreMark(p)
    BY <1>2 DEF RestoreMark, Goto, WriteState
  <1>3. CASE RestoreCheck(p)
    BY <1>3 DEF RestoreCheck, Goto
  <1>4. CASE RestoreSnapshot(p)
    BY <1>4 DEF RestoreSnapshot, Goto
  <1>5. CASE RestoreRecheck(p)
    BY <1>5 DEF RestoreRecheck, Goto
  <1>6. CASE RestoreDone(p)
    BY <1>6 DEF RestoreDone, Goto
  <1>7. CASE RestoreThrow(p)
    BY <1>7 DEF RestoreThrow
  <1>8. CASE RestoreBack(p)
    BY <1>8 DEF RestoreBack, End, WriteState
  <1> QED
    BY <1>1, <1>2, <1>3, <1>4, <1>5, <1>6, <1>7, <1>8 DEF Restore

(* A step of a restore keeps the tenant safe.                              *)
LEMMA RestoreSafe ==
    ASSUME TypeOK, LockInv, ClusterInv, HoldersInv, SafeInv,
           NEW p \in Procs, Restore(p)
    PROVE  (ClusterInv /\ SafeInv)'
  <1> USE ProcsAssumption, VersionsAssumption, BoundsAssumption
      DEF TypeOK, Row, Kube, Pg, Loc, NoLoc, Passwords, Presence,
          ClusterInv, SafeInv, SecretMatchesRole, WorkloadHasDatabase,
          DeprovisionedMeansDeleted, InfraIsAddressable, Deprovisioned,
          NothingLeft, HoldersInv, ProvisionInv, DeprovisionInv, AfterMark,
          AfterReserve, AfterRole, AfterDelWait
  <1>1. CASE RestoreStart(p)
    BY <1>1 DEF RestoreStart, Start
  <1>2. CASE RestoreMark(p)
    BY <1>2 DEF RestoreMark, Goto, WriteState
  <1>3. CASE RestoreCheck(p)
    BY <1>3 DEF RestoreCheck, Goto
  <1>4. CASE RestoreSnapshot(p)
    BY <1>4 DEF RestoreSnapshot, Goto
  <1>5. CASE RestoreRecheck(p)
    BY <1>5 DEF RestoreRecheck, Goto
  <1>6. CASE RestoreDone(p)
    BY <1>6 DEF RestoreDone, Goto
  <1>7. CASE RestoreThrow(p)
    BY <1>7 DEF RestoreThrow
  <1>8. CASE RestoreBack(p)
    BY <1>8 DEF RestoreBack, End, WriteState
  <1> QED
    BY <1>1, <1>2, <1>3, <1>4, <1>5, <1>6, <1>7, <1>8 DEF Restore

(* A step of a restore keeps what the holders rely on.                     *)
LEMMA RestoreHolders ==
    ASSUME TypeOK, LockInv, ClusterInv, HoldersInv, SafeInv,
           NEW p \in Procs, Restore(p)
    PROVE  HoldersInv'
  <1> USE ProcsAssumption, VersionsAssumption, BoundsAssumption
      DEF TypeOK, Row, Kube, Pg, Loc, NoLoc, Passwords, Presence,
          ClusterInv, SafeInv, SecretMatchesRole, WorkloadHasDatabase,
          DeprovisionedMeansDeleted, InfraIsAddressable, Deprovisioned,
          NothingLeft, LockInv, Locked, LockedProvision, LockedDeprovision,
          HoldersInv, ProvisionInv, DeprovisionInv, AfterMark, AfterReserve,
          AfterRole, AfterDelWait
  <1>1. CASE RestoreStart(p)
    BY <1>1 DEF RestoreStart, Start
  <1>2. CASE RestoreMark(p)
    BY <1>2 DEF RestoreMark, Goto, WriteState
  <1>3. CASE RestoreCheck(p)
    BY <1>3 DEF RestoreCheck, Goto
  <1>4. CASE RestoreSnapshot(p)
    BY <1>4 DEF RestoreSnapshot, Goto
  <1>5. CASE RestoreRecheck(p)
    BY <1>5 DEF RestoreRecheck, Goto
  <1>6. CASE RestoreDone(p)
    BY <1>6 DEF RestoreDone, Goto
  <1>7. CASE RestoreThrow(p)
    BY <1>7 DEF RestoreThrow
  <1>8. CASE RestoreBack(p)
    BY <1>8 DEF RestoreBack, End, WriteState
  <1> QED
    BY <1>1, <1>2, <1>3, <1>4, <1>5, <1>6, <1>7, <1>8 DEF Restore

(* A step of the cluster keeps the lock with its holder.                   *)
LEMMA EnvironmentLock ==
    ASSUME TypeOK, LockInv, ClusterInv, HoldersInv, SafeInv,
           Environment
    PROVE  LockInv'
  <1> USE ProcsAssumption, VersionsAssumption, BoundsAssumption
      DEF TypeOK, Row, Kube, Pg, Loc, NoLoc, Passwords, Presence, LockInv,
          Locked, LockedProvision, LockedDeprovision
  <1>1. CASE PodStarts
    BY <1>1 DEF PodStarts
  <1>2. CASE PodDies
    BY <1>2 DEF PodDies
  <1>3. CASE NamespaceDrains
    BY <1>3 DEF NamespaceDrains
  <1>4. CASE NamespaceGone
    BY <1>4 DEF NamespaceGone
  <1> QED
    BY <1>1, <1>2, <1>3, <1>4 DEF Environment

(* A step of the cluster keeps the tenant safe.                            *)
LEMMA EnvironmentSafe ==
    ASSUME TypeOK, LockInv, ClusterInv, HoldersInv, SafeInv,
           Environment
    PROVE  (ClusterInv /\ SafeInv)'
  <1> USE ProcsAssumption, VersionsAssumption, BoundsAssumption
      DEF TypeOK, Row, Kube, Pg, Loc, NoLoc, Passwords, Presence,
          ClusterInv, SafeInv, SecretMatchesRole, WorkloadHasDatabase,
          DeprovisionedMeansDeleted, InfraIsAddressable, Deprovisioned,
          NothingLeft, HoldersInv, ProvisionInv, DeprovisionInv, AfterMark,
          AfterReserve, AfterRole, AfterDelWait
  <1>1. CASE PodStarts
    BY <1>1 DEF PodStarts
  <1>2. CASE PodDies
    BY <1>2 DEF PodDies
  <1>3. CASE NamespaceDrains
    BY <1>3 DEF NamespaceDrains
  <1>4. CASE NamespaceGone
    BY <1>4 DEF NamespaceGone
  <1> QED
    BY <1>1, <1>2, <1>3, <1>4 DEF Environment

(* A step of the cluster keeps what the holders rely on.                   *)
LEMMA EnvironmentHolders ==
    ASSUME TypeOK, LockInv, ClusterInv, HoldersInv, SafeInv,
           Environment
    PROVE  HoldersInv'
  <1> USE ProcsAssumption, VersionsAssumption, BoundsAssumption
      DEF TypeOK, Row, Kube, Pg, Loc, NoLoc, Passwords, Presence,
          ClusterInv, SafeInv, SecretMatchesRole, WorkloadHasDatabase,
          DeprovisionedMeansDeleted, InfraIsAddressable, Deprovisioned,
          NothingLeft, LockInv, Locked, LockedProvision, LockedDeprovision,
          HoldersInv, ProvisionInv, DeprovisionInv, AfterMark, AfterReserve,
          AfterRole, AfterDelWait
  <1>1. CASE PodStarts
    BY <1>1 DEF PodStarts
  <1>2. CASE PodDies
    BY <1>2 DEF PodDies
  <1>3. CASE NamespaceDrains
    BY <1>3 DEF NamespaceDrains
  <1>4. CASE NamespaceGone
    BY <1>4 DEF NamespaceGone
  <1> QED
    BY <1>1, <1>2, <1>3, <1>4 DEF Environment

(* A crash or a lock timeout keeps the rest of the invariant.              *)
LEMMA CrashRest ==
    ASSUME TypeOK, LockInv, ClusterInv, HoldersInv, SafeInv,
           NEW p \in Procs, Crash(p) \/ LockTimeout(p)
    PROVE  LockInv' /\ ClusterInv' /\ HoldersInv' /\ SafeInv'
  <1> USE ProcsAssumption DEF TypeOK, Crash, LockTimeout, End
  <1>1. LockInv'
    BY DEF LockInv, Locked, LockedProvision, LockedDeprovision
  <1>2. ClusterInv' /\ SafeInv'
    BY DEF ClusterInv, SafeInv, SecretMatchesRole, WorkloadHasDatabase,
           DeprovisionedMeansDeleted, InfraIsAddressable, Deprovisioned,
           NothingLeft
  <1>3. HoldersInv'
    BY DEF HoldersInv, ProvisionInv, DeprovisionInv, Deprovisioned, AfterMark,
           AfterReserve, AfterRole, AfterDelWait, LockedProvision
  <1> QED
    BY <1>1, <1>2, <1>3

-----------------------------------------------------------------------------
(* The invariant is inductive.                                             *)

(* It holds at the start.                                                  *)
LEMMA InitInv == Init => IInv
  <1> SUFFICES ASSUME Init
               PROVE  IInv
    OBVIOUS
  <1>1. TypeOK
    BY NoLocType, BoundsAssumption
    DEF Init, TypeOK, Row, Kube, Pg, Images, Passwords, Presence, States,
        Writers, PCs
  <1>2. LockInv /\ HoldersInv
    BY ProcsAssumption
    DEF Init, LockInv, HoldersInv, ProvisionInv, DeprovisionInv, Locked,
        LockedProvision, LockedDeprovision, AfterMark, AfterReserve, AfterRole,
        AfterDelWait
  <1>3. ClusterInv /\ SafeInv
    BY DEF Init, ClusterInv, SafeInv, SecretMatchesRole, WorkloadHasDatabase,
           DeprovisionedMeansDeleted, InfraIsAddressable, Deprovisioned
  <1> QED
    BY <1>1, <1>2, <1>3 DEF IInv

(* A stuttering step keeps it.                                             *)
LEMMA StutterInv ==
    ASSUME IInv, UNCHANGED vars
    PROVE  IInv'
  BY DEF IInv, vars, TypeOK, LockInv, ClusterInv, HoldersInv, ProvisionInv,
         DeprovisionInv, SafeInv, SecretMatchesRole, WorkloadHasDatabase,
         DeprovisionedMeansDeleted, InfraIsAddressable, Deprovisioned,
         NothingLeft

(* Every step keeps it.                                                    *)
LEMMA StepInv ==
    ASSUME IInv, Next
    PROVE  IInv'
  <1> USE DEF IInv
  <1>1. ASSUME NEW p \in Procs, Provision(p)
        PROVE  IInv'
    BY <1>1, ProvisionTypes, ProvisionLock, ProvisionSafe, ProvisionHolders
  <1>2. ASSUME NEW p \in Procs, Deprovision(p)
        PROVE  IInv'
    BY <1>2, DeprovisionTypes, DeprovisionLock, DeprovisionSafe,
       DeprovisionHolders
  <1>3. ASSUME NEW p \in Procs, Patch(p)
        PROVE  IInv'
    BY <1>3, PatchTypes, PatchLock, PatchSafe, PatchHolders
  <1>4. ASSUME NEW p \in Procs, Restore(p)
        PROVE  IInv'
    BY <1>4, RestoreTypes, RestoreLock, RestoreSafe, RestoreHolders
  <1>5. ASSUME NEW p \in Procs, Crash(p) \/ LockTimeout(p)
        PROVE  IInv'
    BY <1>5, CrashTypes, CrashRest
  <1>6. ASSUME Environment
        PROVE  IInv'
    BY <1>6, EnvironmentTypes, EnvironmentLock, EnvironmentSafe,
       EnvironmentHolders
  <1> QED
    BY <1>1, <1>2, <1>3, <1>4, <1>5, <1>6 DEF Next

(* The inductive invariant holds in every reachable state, for any number  *)
(* of handlers, versions, runs and crashes.                                *)
THEOREM Invariance == Spec => []IInv
  <1>1. IInv /\ [Next]_vars => IInv'
    BY StepInv, StutterInv
  <1> QED
    BY <1>1, InitInv, PTL DEF Spec

(* Every variable keeps its type.                                          *)
THEOREM TypeCorrect == Spec => []TypeOK
  <1>1. IInv => TypeOK
    BY DEF IInv
  <1> QED
    BY <1>1, Invariance, PTL

(* No interleaving of provision, deprovision, crashes and a draining       *)
(* namespace leaves a secret whose password Postgres does not have.        *)
THEOREM CredentialsAgree == Spec => []SecretMatchesRole
  <1>1. IInv => SecretMatchesRole
    BY DEF IInv, SafeInv
  <1> QED
    BY <1>1, Invariance, PTL

(* No deployment or pod exists without its database and role.              *)
THEOREM WorkloadNeverOrphaned == Spec => []WorkloadHasDatabase
  <1>1. IInv => WorkloadHasDatabase
    BY DEF IInv, SafeInv
  <1> QED
    BY <1>1, Invariance, PTL

(* A row deprovisionTenant left in deprovisioned stands for a tenant that  *)
(* is gone, however many handlers compete.                                 *)
THEOREM DeletionIsComplete == Spec => []DeprovisionedMeansDeleted
  <1>1. IInv => DeprovisionedMeansDeleted
    BY DEF IInv, SafeInv
  <1> QED
    BY <1>1, Invariance, PTL

(* Nothing exists for a tenant whose row has no subdomain to find it by.   *)
THEOREM NothingUnaddressable == Spec => []InfraIsAddressable
  <1>1. IInv => InfraIsAddressable
    BY DEF IInv, SafeInv
  <1> QED
    BY <1>1, Invariance, PTL

-----------------------------------------------------------------------------
(* A tenant between its deployments: the steps of the activator, the idle  *)
(* scaler and an operator are those of ScaleToZero.                        *)

(* Initially nobody has decided anything.                                  *)
LEMMA SeenInit == ScaleInit => SeenInv
BY DEF ScaleInit, SeenInv, Deciding, Activity, RowStates, Desired

(* The flag is only ever set, and every decision to sleep reads it.        *)
LEMMA SeenNext ==
    ASSUME OperatorAssumption, SeenInv, [ScaleNext]_scaleVars
    PROVE  SeenInv'
<1> USE DEF OperatorAssumption, SeenInv, Deciding, Activity, RowStates, Desired
<1>1. CASE PodReady \/ PodGone \/ PodFails
  BY <1>1 DEF PodReady, PodGone, PodFails, ClusterUnchanged
<1>2. CASE \E k \in Kinds : WatchStarts(k) \/ WatchEnds(k) \/ WatchEvent(k)
  BY <1>2 DEF WatchStarts, WatchEnds, WatchEvent, WatchUnchanged
<1>3. CASE Waking
  BY <1>3 DEF Waking, WakePatch, WakePatched, WakePatchFails,
              WakePoll, WakeGot, WakeGetFails, WakeTimeout, WakeUnchanged
<1>4. CASE \E c \in Clients : Serving(c) \/ PageCloses(c)
  BY <1>4 DEF Serving, PageCloses, RequestArrives, RequestGot,
              RequestGetFails, GraceEnds, PagePolls, PagePeeked,
              PagePeekFails, ClientUnchanged
<1>5. CASE Writing
  <2>1. CASE StampLands
    BY <2>1 DEF StampLands, WriteUnchanged
  <2>2. CASE StampFails \/ MarkUpdate \/ MarkFails
    BY <2>2 DEF StampFails, MarkUpdate, MarkFails, WriteUnchanged
  <2> QED BY <1>5, <2>1, <2>2 DEF Writing
<1>6. CASE ActivatorDies
  BY <1>6 DEF ActivatorDies
<1>7. CASE Scaling
  <2> USE DEF ScalerUnchanged, ScalerGoto, ForgetSnapshot
  <2>1. CASE ScalerSelect
    BY <2>1 DEF ScalerSelect, Eligible
  <2>2. CASE ScalerCheck \/ ScalerGet \/ ScalerPatch
    BY <2>2 DEF ScalerCheck, ScalerGet, ScalerPatch
  <2>3. CASE ScalerUpdate
    BY <2>3 DEF ScalerUpdate
  <2>4. CASE ScalerSync \/ ScalerSyncGet
    BY <2>4 DEF ScalerSync, ScalerSyncGet
  <2>5. CASE ScalerSyncUpdate
    BY <2>5 DEF ScalerSyncUpdate
  <2>6. CASE ScalerFails
    BY <2>6 DEF ScalerFails
  <2> QED BY <1>7, <2>1, <2>2, <2>3, <2>4, <2>5, <2>6 DEF Scaling
<1>8. CASE Operator
  <2> USE DEF PeopleUnchanged
  <2>1. CASE OperatorPatch
    BY <2>1 DEF OperatorPatch, HasBeenSeenByActivator
  <2>2. CASE OperatorWrite
    BY <2>2 DEF OperatorWrite
  <2>3. CASE OperatorDesires \/ OperatorScale
    BY <2>3 DEF OperatorDesires, OperatorScale
  <2> QED BY <1>8, <2>1, <2>2, <2>3 DEF Operator
<1>9. CASE CrowdChanges \/ TimePasses
  BY <1>9 DEF CrowdChanges, TimePasses, PeopleUnchanged
<1>10. CASE UNCHANGED scaleVars
  BY <1>10 DEF scaleVars, tasks
<1> QED
  BY <1>1, <1>2, <1>3, <1>4, <1>5, <1>6, <1>7, <1>8, <1>9, <1>10 DEF ScaleNext

(* Whoever is asleep, or about to be put to sleep by the scaler, has been  *)
(* seen by the activator: the gate and the query read the flag before the  *)
(* write, and nothing clears it in between.                                *)
THEOREM OnlyWakeableSleep ==
    ASSUME OperatorAssumption
    PROVE  ScaleSpec => []SleepingIsWakeable
<1>1. SeenInv => SleepingIsWakeable
  BY DEF SeenInv, Deciding, SleepingIsWakeable
<1> QED BY SeenInit, SeenNext, <1>1, PTL DEF ScaleSpec

-----------------------------------------------------------------------------
(* The types of ScaleToZero, and who waits for a wake.                     *)

(* A stream, by its queue.                                                 *)
StreamShape == [conn: {"open", "closed"}, queue: Seq(Counts)]

LEMMA StreamIs ==
    ASSUME NEW w
    PROVE  w \in Stream <=> w \in StreamShape /\ Len(w.queue) <= MaxLag
<1>1. ASSUME w \in Stream PROVE w \in StreamShape /\ Len(w.queue) <= MaxLag
  <2>1. PICK n \in 0 .. MaxLag : w.queue \in [1 .. n -> Counts]
    BY <1>1 DEF Stream
  <2>2. w.queue \in Seq(Counts) /\ Len(w.queue) = n
    BY <2>1, LagAssumption
  <2> QED
    BY <1>1, <2>2, LagAssumption DEF Stream, StreamShape
<1>2. ASSUME w \in StreamShape, Len(w.queue) <= MaxLag PROVE w \in Stream
  <2>1. w.queue \in [1 .. Len(w.queue) -> Counts] /\ Len(w.queue) \in 0 .. MaxLag
    BY <1>2, LagAssumption DEF StreamShape
  <2> QED
    BY <1>2, <2>1 DEF Stream, StreamShape
<1> QED
  BY <1>1, <1>2

LEMMA ClosedType == Closed \in Stream
<1>1. <<>> \in Seq(Counts) /\ Len(<<>>) = 0
  OBVIOUS
<1>2. Closed \in StreamShape /\ Closed.queue = <<>>
  BY <1>1 DEF Closed, StreamShape
<1> QED
  BY <1>1, <1>2, StreamIs, LagAssumption

LEMMA OpenedType ==
    ASSUME NEW n \in Counts
    PROVE  [conn |-> "open", queue |-> <<n>>] \in Stream
<1> DEFINE w == [conn |-> "open", queue |-> <<n>>]
<1>1. <<n>> \in Seq(Counts) /\ Len(<<n>>) = 1
  OBVIOUS
<1>2. w \in StreamShape /\ w.queue = <<n>>
  BY <1>1 DEF StreamShape
<1>3. Len(w.queue) <= MaxLag
  BY <1>1, <1>2, LagAssumption
<1> HIDE DEF w
<1>4. w \in Stream
  BY <1>2, <1>3, StreamIs
<1> QED
  BY <1>4 DEF w

LEMMA PushType ==
    ASSUME NEW w \in Stream, NEW n \in Counts
    PROVE  Push(w, n) \in Stream
<1>1. w \in StreamShape /\ Len(w.queue) <= MaxLag
  BY StreamIs
<1>2. CASE w.conn = "open" /\ Len(w.queue) < MaxLag
  <2>1. PICK q : q = Append(w.queue, n)
    OBVIOUS
  <2>4. q \in Seq(Counts) /\ Len(q) <= MaxLag
    <3>1. PICK v \in Seq(Counts) : v = w.queue
      BY <1>1 DEF StreamShape
    <3>2. Append(v, n) \in Seq(Counts) /\ Len(Append(v, n)) = Len(v) + 1 /\ Len(v) \in Nat
      OBVIOUS
    <3>3. Len(v) + 1 <= MaxLag
      BY <1>2, <3>1, <3>2, LagAssumption
    <3> QED
      BY <2>1, <3>1, <3>2, <3>3
  <2>2. [w EXCEPT !.queue = q] \in StreamShape /\ [w EXCEPT !.queue = q].queue = q
    BY <1>1, <2>4 DEF StreamShape
  <2>3. Push(w, n) = [w EXCEPT !.queue = q]
    BY <1>2, <2>1 DEF Push
  <2> QED
    BY <2>4, <2>2, <2>3, StreamIs
<1>3. CASE w.conn = "open" /\ ~(Len(w.queue) < MaxLag)
  BY <1>3, ClosedType DEF Push
<1>4. CASE w.conn = "closed"
  BY <1>4 DEF Push
<1> QED
  BY <1>1, <1>2, <1>3, <1>4 DEF StreamShape

LEMMA TailType ==
    ASSUME NEW w \in Stream, w.queue # <<>>
    PROVE  /\ [w EXCEPT !.queue = Tail(w.queue)] \in Stream
           /\ Head(w.queue) \in Counts
<1>1. w \in StreamShape /\ Len(w.queue) <= MaxLag
  BY StreamIs
<1>2. PICK v \in Seq(Counts) : v = w.queue /\ v # <<>>
  BY <1>1 DEF StreamShape
<1>3. Tail(v) \in Seq(Counts) /\ Len(Tail(v)) = Len(v) - 1 /\ Head(v) \in Counts /\ Len(v) \in Nat
  BY <1>2
<1>4. PICK q : q = Tail(w.queue)
  OBVIOUS
<1>5. q \in Seq(Counts) /\ Len(q) <= MaxLag
  <2>1. Len(v) - 1 <= MaxLag
    BY <1>1, <1>2, <1>3, LagAssumption
  <2> QED
    BY <1>2, <1>3, <1>4, <2>1
<1>6. [w EXCEPT !.queue = q] \in StreamShape /\ [w EXCEPT !.queue = q].queue = q
  BY <1>1, <1>5 DEF StreamShape
<1> QED
  BY <1>2, <1>3, <1>4, <1>5, <1>6, StreamIs

ClusterTypes == pods \in [Kinds -> Counts] /\ watch \in [Kinds -> Stream]

LEMMA SetReplicasType ==
    ASSUME ClusterTypes, NEW n \in Counts, SetReplicas(n)
    PROVE  ClusterTypes'
<1>1. "replicas" \in Kinds
  BY DEF Kinds
<1>2. Push(watch["replicas"], n) \in Stream
  BY <1>1, PushType DEF ClusterTypes
<1> QED
  BY <1>1, <1>2 DEF ClusterTypes, SetReplicas

LEMMA SetReadyType ==
    ASSUME ClusterTypes, NEW n \in Counts, SetReady(n)
    PROVE  ClusterTypes'
<1>1. pods' \in [Kinds -> Counts]
  BY DEF ClusterTypes, SetReady, Kinds
<1>2. \A k \in Kinds : Push(watch[k], pods'[k]) \in Stream
  BY <1>1, PushType DEF ClusterTypes
<1> QED
  BY <1>1, <1>2 DEF ClusterTypes, SetReady

(* What the activator keeps of its clients and of the wake.                *)
WaitTypes == /\ req \in [Clients -> Request] /\ wake \in Wake
             /\ stamp \in {"none", "pending"} /\ marking \in BOOLEAN
WaitInv   == WaitTypes /\ HeldIsAwaited

LEMMA QuietTypes ==
    /\ Quiet \in Request /\ Quiet.pc = "idle" /\ NoWake \in Wake /\ NoWake.pc = "none"
    /\ \A c \in Clients : Turned(c) \in Request /\ Turned(c).pc \in {"idle", "page"}
    /\ [Quiet EXCEPT !.pc = "held"] \in Request
    /\ [Quiet EXCEPT !.pc = "page"] \in Request /\ [Quiet EXCEPT !.pc = "page"].pc = "page"
  BY DEF Quiet, Request, NoWake, Wake, Turned, Counts

LEMMA EnsureWakeType ==
    ASSUME WaitTypes, EnsureWake
    PROVE  wake' \in Wake /\ wake'.pc # "none" /\ stamp' \in {"none", "pending"}
  BY DEF WaitTypes, EnsureWake, NoWake, Wake, Counts

(* A wake that settles leaves nobody held.                                 *)
LEMMA SettleType ==
    ASSUME WaitTypes, NEW ready \in BOOLEAN, Settle(ready)
    PROVE  WaitInv'
<1>1. req' = [c \in Clients |-> IF c \notin Held THEN req[c]
                                ELSE IF ready THEN Quiet ELSE Turned(c)]
  BY DEF Settle, Release
<1>2. req' \in [Clients -> Request] /\ \A c \in Clients : req'[c].pc # "held"
  BY <1>1, QuietTypes DEF WaitTypes, Held
<1>3. wake' \in Wake /\ stamp' \in {"none", "pending"} /\ marking' \in BOOLEAN
  BY QuietTypes DEF Settle, Release, WaitTypes
<1> QED
  BY <1>2, <1>3 DEF WaitInv, WaitTypes, HeldIsAwaited, Held

(* A client who is not held needs no wake.                                 *)
LEMMA FreedType ==
    ASSUME WaitInv, NEW c \in Clients, NEW r \in Request, r.pc # "held",
           req' = [req EXCEPT ![c] = r], wake' = wake \/ (wake' \in Wake /\ wake'.pc # "none"),
           stamp' \in {"none", "pending"}, marking' = marking
    PROVE  WaitInv'
  BY DEF WaitInv, WaitTypes, HeldIsAwaited, Held

(* One who is held has just made sure of one.                              *)
LEMMA HeldType ==
    ASSUME WaitInv, NEW c \in Clients, NEW r \in Request,
           req' = [req EXCEPT ![c] = r], EnsureWake, marking' = marking
    PROVE  WaitInv'
  BY EnsureWakeType DEF WaitInv, WaitTypes, HeldIsAwaited

LEMMA RouteType ==
    ASSUME WaitInv, NEW c \in Clients, NEW n, Route(c, n), marking' = marking
    PROVE  WaitInv'
<1>1. CASE n = 1
  BY <1>1, QuietTypes, FreedType DEF Route
<1>2. CASE n # 1
  BY <1>2, QuietTypes, HeldType DEF Route
<1> QED
  BY <1>1, <1>2

LEMMA StatusAnswerType ==
    ASSUME WaitInv, NEW c \in Clients, NEW n, StatusAnswer(c, n), marking' = marking
    PROVE  WaitInv'
<1>1. CASE n = 1
  BY <1>1, QuietTypes, FreedType DEF StatusAnswer, WaitInv, WaitTypes
<1>2. CASE n # 1
  BY <1>2, QuietTypes, HeldType DEF StatusAnswer
<1> QED
  BY <1>1, <1>2

(* The inductive invariant: the types, and nobody held without a wake.     *)
ScaleInv == ScaleTypeOK /\ HeldIsAwaited

LEMMA ScaleInvIs ==
    ScaleInv <=> /\ ClusterTypes /\ WaitInv
                 /\ cache \in [Kinds -> Counts \cup {Unknown}]
                 /\ registry \in [state: RowStates, desired: Desired]
                 /\ act \in Activity /\ crowd \in {"here", "away"} /\ scaler \in ScalerPCs
                 /\ oper \in OperatorStates \cup {"none"} /\ faults \in 0 .. MaxFaults
  BY DEF ScaleInv, ScaleTypeOK, ClusterTypes, WaitInv, WaitTypes

LEMMA ScaleInvAfter ==
    ASSUME ClusterTypes', WaitInv', cache' \in [Kinds -> Counts \cup {Unknown}],
           registry' \in [state: RowStates, desired: Desired],
           act' \in Activity, crowd' \in {"here", "away"}, scaler' \in ScalerPCs,
           oper' \in OperatorStates \cup {"none"}, faults' \in 0 .. MaxFaults
    PROVE  ScaleInv'
  BY DEF ScaleInv, ScaleTypeOK, ClusterTypes, WaitInv, WaitTypes

LEMMA WaitStays ==
    ASSUME WaitInv, UNCHANGED <<req, wake>>, stamp' \in {"none", "pending"}, marking' \in BOOLEAN
    PROVE  WaitInv'
  BY DEF WaitInv, WaitTypes, HeldIsAwaited, Held

LEMMA FaultType ==
    ASSUME faults \in 0 .. MaxFaults, Fault
    PROVE  faults' \in 0 .. MaxFaults
  BY LagAssumption DEF Fault

LEMMA Numbers == 0 \in Counts /\ 1 \in Counts /\ "replicas" \in Kinds /\ "ready" \in Kinds
  BY DEF Counts, Kinds

LEMMA ScaleInvInit == ScaleInit => ScaleInv
<1> SUFFICES ASSUME ScaleInit PROVE ScaleInv
  OBVIOUS
<1>1. ClusterTypes
  BY ClosedType, Numbers DEF ScaleInit, ClusterTypes
<1>2. WaitInv
  BY QuietTypes DEF ScaleInit, WaitInv, WaitTypes, HeldIsAwaited, Held
<1> QED
  BY <1>1, <1>2, ScaleInvIs, LagAssumption DEF ScaleInit, RowStates, Desired, Activity, ScalerPCs

LEMMA ClusterStep ==
    ASSUME ScaleInv, PodReady \/ PodGone \/ PodFails
    PROVE  ScaleInv'
<1>1. ClusterTypes' /\ faults' \in 0 .. MaxFaults
  BY Numbers, SetReadyType, FaultType, ScaleInvIs DEF PodReady, PodGone, PodFails
<1>2. WaitInv'
  BY WaitStays, ScaleInvIs DEF PodReady, PodGone, PodFails, ClusterUnchanged, tasks, WaitInv,
     WaitTypes
<1> QED
  BY <1>1, <1>2, ScaleInvIs, ScaleInvAfter DEF PodReady, PodGone, PodFails, ClusterUnchanged

LEMMA WatchStep ==
    ASSUME ScaleInv, NEW k \in Kinds, WatchStarts(k) \/ WatchEnds(k) \/ WatchEvent(k)
    PROVE  ScaleInv'
<1>1. WatchUnchanged
  BY DEF WatchStarts, WatchEnds, WatchEvent
<1>2. WaitInv'
  BY <1>1, WaitStays, ScaleInvIs DEF WatchUnchanged, tasks, WaitInv, WaitTypes
<1>3. watch' \in [Kinds -> Stream] /\ cache' \in [Kinds -> Counts \cup {Unknown}]
  <2>1. watch \in [Kinds -> Stream] /\ cache \in [Kinds -> Counts \cup {Unknown}]
    BY ScaleInvIs DEF ClusterTypes
  <2>2. CASE WatchStarts(k)
    <3>1. [conn |-> "open", queue |-> <<pods[k]>>] \in Stream
      BY OpenedType, ScaleInvIs DEF ClusterTypes
    <3> QED
      BY <2>1, <2>2, <3>1 DEF WatchStarts
  <2>3. CASE WatchEnds(k)
    BY <2>1, <2>3, ClosedType DEF WatchEnds
  <2>4. CASE WatchEvent(k)
    <3>1. /\ [watch[k] EXCEPT !.queue = Tail(watch[k].queue)] \in Stream
          /\ Head(watch[k].queue) \in Counts
      BY <2>1, <2>4, TailType DEF WatchEvent
    <3>2. watch' = [watch EXCEPT ![k] = [watch[k] EXCEPT !.queue = Tail(watch[k].queue)]]
      BY <2>4 DEF WatchEvent
    <3>3. cache' = [cache EXCEPT ![k] = Head(watch[k].queue)]
      BY <2>4 DEF WatchEvent
    <3> QED
      BY <2>1, <3>1, <3>2, <3>3
  <2> QED
    BY <2>2, <2>3, <2>4
<1> QED
  BY <1>1, <1>2, <1>3, ScaleInvIs, ScaleInvAfter DEF WatchUnchanged, ClusterTypes

LEMMA WakingStep ==
    ASSUME ScaleInv, Waking
    PROVE  ScaleInv'
<1> USE ScaleInvIs, ScaleInvAfter, Numbers
<1>1. CASE WakePatch
  <2>1. wake' \in Wake /\ wake'.pc # "none"
    BY <1>1 DEF WakePatch, WaitInv, WaitTypes, Wake
  <2>2. WaitInv'
    BY <1>1, <2>1 DEF WakePatch, WaitInv, WaitTypes, HeldIsAwaited, Held
  <2>3. ClusterTypes'
    BY <1>1, SetReplicasType DEF WakePatch
  <2> QED
    BY <1>1, <2>2, <2>3 DEF WakePatch
<1>2. CASE WakePatched
  <2>1. wake' \in Wake /\ wake'.pc # "none"
    BY <1>2 DEF WakePatched, WaitInv, WaitTypes, Wake
  <2>2. WaitInv'
    BY <1>2, <2>1 DEF WakePatched, WaitInv, WaitTypes, HeldIsAwaited, Held
  <2> QED
    BY <1>2, <2>2 DEF WakePatched, ClusterTypes
<1>3. CASE WakePatchFails
  <2>1. WaitInv'
    BY <1>3, SettleType DEF WakePatchFails, WaitInv
  <2> QED
    BY <1>3, <2>1, FaultType DEF WakePatchFails, ClusterTypes
<1>4. CASE WakePoll \/ WakeGot \/ WakeGetFails \/ WakeTimeout
  <2>1. ASSUME Settle(TRUE) \/ Settle(FALSE) PROVE WaitInv'
    BY <2>1, SettleType DEF WaitInv
  <2>2. ASSUME wake' \in Wake, wake'.pc # "none", UNCHANGED <<req, stamp, marking>>
        PROVE  WaitInv'
    BY <2>2 DEF WaitInv, WaitTypes, HeldIsAwaited, Held
  <2>3. [NoWake EXCEPT !.pc = "poll"] \in Wake /\ [NoWake EXCEPT !.pc = "poll"].pc = "poll"
    BY DEF NoWake, Wake
  <2>4. /\ [pc |-> "got", val |-> pods["ready"]] \in Wake
        /\ [pc |-> "got", val |-> pods["ready"]].pc = "got"
    BY DEF Wake, ClusterTypes
  <2>5. WaitInv'
    <3>1. CASE WakePoll
      BY <2>1, <2>2, <2>4, <3>1 DEF WakePoll
    <3>2. CASE WakeGot
      BY <2>1, <2>2, <2>3, <3>2 DEF WakeGot
    <3>3. CASE WakeGetFails
      BY <2>2, <2>3, <3>3 DEF WakeGetFails
    <3>4. CASE WakeTimeout
      BY <2>1, <3>4 DEF WakeTimeout
    <3> QED
      BY <1>4, <3>1, <3>2, <3>3, <3>4
  <2>6. wake.val \in Counts
    BY DEF WaitInv, WaitTypes, Wake
  <2>7. cache' \in [Kinds -> Counts \cup {Unknown}] /\ WakeUnchanged
    BY <1>4, <2>6 DEF WakePoll, WakeGot, WakeGetFails, WakeTimeout
  <2> QED
    BY <2>5, <2>7 DEF WakeUnchanged, ClusterTypes
<1> QED
  BY <1>1, <1>2, <1>3, <1>4 DEF Waking

LEMMA ServingStep ==
    ASSUME ScaleInv, NEW c \in Clients, Serving(c) \/ PageCloses(c)
    PROVE  ScaleInv'
<1> USE ScaleInvIs, ScaleInvAfter, Numbers
<1>1. ClientUnchanged /\ req[c].val \in Counts
  BY DEF Serving, PageCloses, RequestArrives, RequestGot, RequestGetFails, GraceEnds, PagePolls,
         PagePeeked, PagePeekFails, WaitInv, WaitTypes, Request
<1>2. faults' \in 0 .. MaxFaults
  BY FaultType DEF Serving, PageCloses, RequestArrives, RequestGot, RequestGetFails, GraceEnds,
         PagePolls, PagePeeked, PagePeekFails
<1>3. cache' \in [Kinds -> Counts \cup {Unknown}]
  BY <1>1 DEF Serving, PageCloses, RequestArrives, RequestGot, RequestGetFails, GraceEnds,
         PagePolls, PagePeeked, PagePeekFails
<1>4. WaitInv'
  <2>1. marking' = marking /\ stamp \in {"none", "pending"}
    BY <1>1 DEF ClientUnchanged, WaitInv, WaitTypes
  <2>2. ASSUME NEW r \in Request, r.pc # "held", req' = [req EXCEPT ![c] = r],
               UNCHANGED <<wake, stamp>>
        PROVE  WaitInv'
    BY <2>1, <2>2, FreedType
  <2>3. /\ [pc |-> "got", val |-> pods["replicas"]] \in Request
        /\ [pc |-> "peeked", val |-> pods["ready"]] \in Request
    BY DEF Request, ClusterTypes
  <2>4. CASE RequestArrives(c)
    BY <2>1, <2>2, <2>3, <2>4, RouteType DEF RequestArrives
  <2>5. CASE RequestGot(c)
    BY <2>1, <2>5, RouteType DEF RequestGot
  <2>6. CASE RequestGetFails(c) \/ PageCloses(c)
    BY <2>2, <2>6, QuietTypes DEF RequestGetFails, PageCloses
  <2>7. CASE GraceEnds(c)
    BY <2>2, <2>7, QuietTypes DEF GraceEnds
  <2>8. CASE PagePolls(c)
    BY <2>1, <2>2, <2>3, <2>8, StatusAnswerType DEF PagePolls
  <2>9. CASE PagePeeked(c) \/ PagePeekFails(c)
    BY <2>1, <2>9, StatusAnswerType DEF PagePeeked, PagePeekFails
  <2> QED
    BY <2>4, <2>5, <2>6, <2>7, <2>8, <2>9 DEF Serving
<1> QED
  BY <1>1, <1>2, <1>3, <1>4 DEF ClientUnchanged, ClusterTypes

LEMMA WritingStep ==
    ASSUME ScaleInv, Writing
    PROVE  ScaleInv'
<1> USE ScaleInvIs, ScaleInvAfter
<1>1. WriteUnchanged /\ stamp' \in {"none", "pending"} /\ marking' \in BOOLEAN
  BY DEF Writing, StampLands, StampFails, MarkUpdate, MarkFails, WaitInv, WaitTypes
<1>2. WaitInv'
  BY <1>1, WaitStays DEF WriteUnchanged
<1>3. faults' \in 0 .. MaxFaults
  BY FaultType DEF Writing, StampLands, StampFails, MarkUpdate, MarkFails
<1>4. act' \in Activity /\ registry' \in [state: RowStates, desired: Desired]
  BY DEF Writing, StampLands, StampFails, MarkUpdate, MarkFails, Activity, RowStates
<1> QED
  BY <1>1, <1>2, <1>3, <1>4 DEF WriteUnchanged, ClusterTypes

LEMMA ActivatorDiesStep ==
    ASSUME ScaleInv, ActivatorDies
    PROVE  ScaleInv'
<1> USE ScaleInvIs, ScaleInvAfter
<1>1. WaitInv'
  BY QuietTypes DEF ActivatorDies, WaitInv, WaitTypes, HeldIsAwaited, Held
<1>2. ClusterTypes' /\ faults' \in 0 .. MaxFaults
  BY ClosedType, FaultType DEF ActivatorDies, ClusterTypes
<1> QED
  BY <1>1, <1>2 DEF ActivatorDies

LEMMA ScalingStep ==
    ASSUME ScaleInv, Scaling
    PROVE  ScaleInv'
<1> USE ScaleInvIs, ScaleInvAfter, Numbers
<1>1. ScalerUnchanged
  BY DEF Scaling, ScalerSelect, ScalerCheck, ScalerGet, ScalerPatch, ScalerUpdate, ScalerSync,
         ScalerSyncGet, ScalerSyncUpdate, ScalerFails
<1>2. WaitInv'
  BY <1>1, WaitStays DEF ScalerUnchanged, tasks, WaitInv, WaitTypes
<1>3. ClusterTypes' /\ faults' \in 0 .. MaxFaults
  <2>1. SetReplicas(0) \/ UNCHANGED <<pods, watch>>
    BY DEF Scaling, ScalerSelect, ScalerCheck, ScalerGet, ScalerPatch, ScalerUpdate, ScalerSync,
           ScalerSyncGet, ScalerSyncUpdate, ScalerFails
  <2>2. Fault \/ UNCHANGED faults
    BY DEF Scaling, ScalerSelect, ScalerCheck, ScalerGet, ScalerPatch, ScalerUpdate, ScalerSync,
           ScalerSyncGet, ScalerSyncUpdate, ScalerFails
  <2> QED
    BY <2>1, <2>2, SetReplicasType, FaultType DEF ClusterTypes
<1>4. scaler' \in ScalerPCs
  BY DEF Scaling, ScalerSelect, ScalerCheck, ScalerGet, ScalerPatch, ScalerUpdate, ScalerSync,
         ScalerSyncGet, ScalerSyncUpdate, ScalerFails, ScalerGoto, ScalerPCs
<1>5. act' \in Activity
  BY DEF Scaling, ScalerSelect, ScalerCheck, ScalerGet, ScalerPatch, ScalerUpdate, ScalerSync,
         ScalerSyncGet, ScalerSyncUpdate, ScalerFails, ForgetSnapshot, Activity
<1>6. registry' \in [state: RowStates, desired: Desired]
  BY DEF Scaling, ScalerSelect, ScalerCheck, ScalerGet, ScalerPatch, ScalerUpdate, ScalerSync,
         ScalerSyncGet, ScalerSyncUpdate, ScalerFails, RowStates
<1> QED
  BY <1>1, <1>2, <1>3, <1>4, <1>5, <1>6 DEF ScalerUnchanged

LEMMA PeopleStep ==
    ASSUME OperatorAssumption, ScaleInv, Operator \/ CrowdChanges \/ TimePasses
    PROVE  ScaleInv'
<1> USE ScaleInvIs, ScaleInvAfter
<1>1. PeopleUnchanged
  BY DEF Operator, OperatorPatch, OperatorWrite, OperatorDesires, OperatorScale, CrowdChanges,
         TimePasses
<1>2. WaitInv'
  BY <1>1, WaitStays DEF PeopleUnchanged, tasks, WaitInv, WaitTypes
<1>3. ClusterTypes'
  <2>1. (\E n \in OperatorScales : SetReplicas(n)) \/ UNCHANGED <<pods, watch>>
    BY DEF Operator, OperatorPatch, OperatorWrite, OperatorDesires, OperatorScale, CrowdChanges,
           TimePasses
  <2>2. OperatorScales \subseteq Counts
    BY DEF OperatorAssumption, Counts
  <2> QED
    BY <2>1, <2>2, SetReplicasType DEF ClusterTypes
<1>4. faults' \in 0 .. MaxFaults
  BY FaultType DEF Operator, OperatorPatch, OperatorWrite, OperatorDesires, OperatorScale,
     CrowdChanges, TimePasses
<1>5. /\ act' \in Activity /\ registry' \in [state: RowStates, desired: Desired]
      /\ oper' \in OperatorStates \cup {"none"} /\ crowd' \in {"here", "away"}
  BY DEF OperatorAssumption, Operator, OperatorPatch, OperatorWrite, OperatorDesires,
     OperatorScale, CrowdChanges, TimePasses, Activity, RowStates
<1> QED
  BY <1>1, <1>2, <1>3, <1>4, <1>5 DEF PeopleUnchanged

(* The types and the waiting, for any clients, lag and number of faults.   *)
THEOREM ScaleInvariance ==
    ASSUME OperatorAssumption
    PROVE  ScaleSpec => []ScaleInv
<1>1. ScaleInv /\ [ScaleNext]_scaleVars => ScaleInv'
  <2>1. ScaleInv /\ UNCHANGED scaleVars => ScaleInv'
    BY DEF scaleVars, ScaleInv, ScaleTypeOK, HeldIsAwaited, Held
  <2> QED
    BY <2>1, ClusterStep, WatchStep, WakingStep, ServingStep, WritingStep, ActivatorDiesStep,
       ScalingStep, PeopleStep DEF ScaleNext
<1> QED
  BY <1>1, ScaleInvInit, PTL DEF ScaleSpec

(* Nobody is held for a wake that is not under way, whatever fails.        *)
THEOREM NobodyIsForgotten ==
    ASSUME OperatorAssumption
    PROVE  ScaleSpec => []HeldIsAwaited
<1>1. ScaleInv => HeldIsAwaited
  BY DEF ScaleInv
<1> QED
  BY <1>1, ScaleInvariance, PTL

(* Every variable of ScaleToZero keeps its type.                           *)
THEOREM ScaleTypeCorrect ==
    ASSUME OperatorAssumption
    PROVE  ScaleSpec => []ScaleTypeOK
<1>1. ScaleInv => ScaleTypeOK
  BY DEF ScaleInv
<1> QED
  BY <1>1, ScaleInvariance, PTL

=============================================================================
