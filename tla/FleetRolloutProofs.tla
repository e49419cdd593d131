------------------------- MODULE FleetRolloutProofs -------------------------
(* Proofs about FleetRollout, for every number of rollouts and every set   *)
(* of tenants and versions: one rollout at a time, and the two tables keep *)
(* what RolloutLedger promises.                                            *)
EXTENDS FleetRollout, FiniteSetTheorems, TLAPS

(* The first of some tenants is one of them.                               *)
LEMMA FirstIn == ASSUME NEW S, S # {} PROVE First(S) \in S
  BY DEF First

(* No rollout has the number that stands for none.                         *)
LEMMA NoRolloutIsNone == NoRollout \notin Rollouts
  BY RolloutsAssumption DEF NoRollout, Rollouts

(* A loop that is over is well typed.                                      *)
LEMMA NoRunType == \A pc \in {"unused", "ended", "dead"} : NoRun(pc) \in Run
  BY DEF NoRun, Run

-----------------------------------------------------------------------------
(* Types: first what the steps do to each variable, then the steps.        *)
PCs == Live \cup {"unused", "ended", "dead"}

(* The loop of a rollout goes on somewhere.                                *)
LEMMA GotoType ==
    ASSUME run \in [Rollouts -> Run], NEW r \in Rollouts, NEW pc \in PCs
    PROVE  [run EXCEPT ![r].pc = pc] \in [Rollouts -> Run]
  <1>1. [run[r] EXCEPT !.pc = pc] \in Run
    BY DEF Run, PCs
  <1> QED
    BY <1>1

(* It is done with some tenants.                                           *)
LEMMA TodoType ==
    ASSUME run \in [Rollouts -> Run], NEW r \in Rollouts, NEW pc \in PCs,
           NEW todo \in SUBSET Tenants
    PROVE  [run EXCEPT ![r].pc = pc, ![r].todo = todo] \in [Rollouts -> Run]
  <1>1. [run[r] EXCEPT !.pc = pc, !.todo = todo] \in Run
    BY DEF Run, PCs
  <1> QED
    BY <1>1

(* It has entered some tenants.                                            *)
LEMMA RestType ==
    ASSUME run \in [Rollouts -> Run], NEW r \in Rollouts, NEW pc \in PCs,
           NEW rest \in SUBSET Tenants
    PROVE  [run EXCEPT ![r].pc = pc, ![r].rest = rest] \in [Rollouts -> Run]
  <1>1. [run[r] EXCEPT !.pc = pc, !.rest = rest] \in Run
    BY DEF Run, PCs
  <1> QED
    BY <1>1

(* It begins a tenant.                                                     *)
LEMMA LateType ==
    ASSUME run \in [Rollouts -> Run], NEW r \in Rollouts, NEW pc \in PCs,
           NEW late \in SUBSET Tenants
    PROVE  [run EXCEPT ![r].pc = pc, ![r].late = late] \in [Rollouts -> Run]
  <1>1. [run[r] EXCEPT !.pc = pc, !.late = late] \in Run
    BY DEF Run, PCs
  <1> QED
    BY <1>1

(* A statement answered, or not.                                           *)
LEMMA AnsweredType ==
    ASSUME run \in [Rollouts -> Run], NEW r \in Rollouts, NEW from,
           NEW to \in PCs, NEW lost \in PCs, Answered(r, from, to, lost)
    PROVE  run' \in [Rollouts -> Run]
  BY GotoType DEF Answered, Goto

(* A tenant's entry is written.                                            *)
LEMMA EntryType ==
    ASSUME entry \in [Rollouts -> [Tenants -> Entries]], NEW r \in Rollouts,
           NEW t, NEW o \in Entries, SetEntry(r, t, o)
    PROVE  entry' \in [Rollouts -> [Tenants -> Entries]]
  <1>1. [entry[r] EXCEPT ![t] = o] \in [Tenants -> Entries]
    OBVIOUS
  <1> QED
    BY <1>1 DEF SetEntry

(* A rollout's row is finalized.                                           *)
LEMMA FinalizeType ==
    ASSUME row \in [Rollouts -> Row], NEW r \in Rollouts,
           NEW status \in {"completed", "aborted", "failed"},
           NEW error \in {"none", "run"}, Finalize(r, status, error)
    PROVE  row' \in [Rollouts -> Row]
  <1>1. \A e \in {"none", "restart", "run"} :
            [row[r] EXCEPT !.status = status, !.error = e] \in Row
    BY DEF Row
  <1>2. row[r].error \in {"none", "restart", "run"}
    BY DEF Row
  <1>3. [row[r] EXCEPT !.status = status,
                       !.error = IF error = "none" THEN @ ELSE error] \in Row
    BY <1>1, <1>2
  <1> QED
    BY <1>3 DEF Finalize

(* A tenant's row is written.                                              *)
LEMMA TenantType ==
    ASSUME tenant \in [Tenants -> Tenant], NEW t,
           NEW state \in States
    PROVE  [tenant EXCEPT ![t].state = state] \in [Tenants -> Tenant]
  <1>1. \A w \in Tenant : [w EXCEPT !.state = state] \in Tenant
    BY DEF Tenant
  <1> QED
    BY <1>1

(* A version is adopted, with a state or without.                          *)
LEMMA AdoptType ==
    ASSUME tenant \in [Tenants -> Tenant], NEW t, NEW v \in Versions
    PROVE  /\ [tenant EXCEPT ![t].version = v] \in [Tenants -> Tenant]
           /\ [tenant EXCEPT ![t].state = IF @ = "sleeping" THEN @ ELSE "upgrading",
                             ![t].version = v] \in [Tenants -> Tenant]
  <1>1. \A w \in Tenant :
          /\ [w EXCEPT !.version = v] \in Tenant
          /\ [w EXCEPT !.state = IF @ = "sleeping" THEN @ ELSE "upgrading",
                       !.version = v] \in Tenant
    BY DEF Tenant, States
  <1> QED
    BY <1>1

(* So are the rollouts overruled.                                          *)
LEMMA OverruleType ==
    ASSUME overruled \in [Rollouts -> SUBSET Tenants], NEW t \in Tenants,
           NEW v, NEW by, Overrule(t, v, by)
    PROVE  overruled' \in [Rollouts -> SUBSET Tenants]
  BY DEF Overrule

(* Every pc a step goes to is one.                                         *)
LEMMA PCsAre ==
    {"snapshot", "insert", "enter", "empty", "check", "mark", "provision",
     "rolling", "record", "recordFail", "fail", "skip", "abort", "complete",
     "error", "unlock"} \subseteq PCs
  BY DEF PCs, Live, Starting, Looping

(* A loop that is at a tenant has one.                                     *)
Busy(r) == run[r].pc \in {"mark", "provision", "rolling", "record", "recordFail"}
              => run[r].todo # {}

(* The tenant a loop is at is one.                                         *)
LEMMA CurrentIn ==
    ASSUME TypeOK, NEW r \in Rollouts, run[r].todo # {}
    PROVE  Current(r) \in run[r].todo /\ Current(r) \in Tenants
  BY FirstIn DEF Current, TypeOK, Run

(* A step of the start keeps the types.                                    *)
LEMMA StartTypes ==
    ASSUME TypeOK, NEW r \in Rollouts, StartRollout(r) \/ Start(r)
    PROVE  TypeOK'
  <1> USE GotoType, PCsAre DEF TypeOK
  <1>1. CASE StartRollout(r)
    <2>1. PICK v \in Targets : row' = [row EXCEPT ![r].target = v]
      BY <1>1 DEF StartRollout
    <2>2. \A w \in Row : [w EXCEPT !.target = v] \in Row
      BY DEF Row, Versions
    <2>3. row' \in [Rollouts -> Row]
      BY <2>1, <2>2
    <2> QED
      BY <1>1, <2>3 DEF StartRollout
  <1>2. CASE TakeSnapshot(r)
    <2>1. \A todo \in SUBSET Tenants :
            [run[r] EXCEPT !.pc = "insert", !.rest = Tenants, !.todo = todo] \in Run
      <3>1. \A w \in Run : [w EXCEPT !.pc = "insert", !.rest = Tenants] \in Run
        BY DEF Run, PCs
      <3>2. \A w \in Run, todo \in SUBSET Tenants : [w EXCEPT !.todo = todo] \in Run
        BY DEF Run
      <3>3. \A todo \in SUBSET Tenants :
              [run[r] EXCEPT !.pc = "insert", !.rest = Tenants, !.todo = todo]
              = [[run[r] EXCEPT !.pc = "insert", !.rest = Tenants]
                    EXCEPT !.todo = todo]
        BY DEF Run
      <3> QED
        BY <3>1, <3>2, <3>3
    <2> DEFINE Taken(s) == {"ready"} \cup (IF s THEN {} ELSE {"sleeping"})
               Eligible(s) == {t \in Tenants : tenant[t].state \in Taken(s)}
    <2>2. PICK s \in BOOLEAN :
            run' = [run EXCEPT ![r].pc = "insert", ![r].rest = Tenants,
                               ![r].todo = Eligible(s)]
      BY <1>2 DEF TakeSnapshot
    <2>3. Eligible(s) \in SUBSET Tenants
      OBVIOUS
    <2> HIDE DEF Eligible
    <2>4. run' \in [Rollouts -> Run]
      BY <2>1, <2>2, <2>3
    <2> QED
      BY <1>2, <2>4 DEF TakeSnapshot
  <1>3. CASE InsertRow(r)
    <2>1. \A w \in Row : [w EXCEPT !.status = "running"] \in Row
      BY DEF Row
    <2>2. row' \in [Rollouts -> Row]
      BY <1>3, <2>1 DEF InsertRow
    <2>3. run' \in [Rollouts -> Run]
      BY <1>3, AnsweredType DEF InsertRow
    <2> QED
      BY <1>3, <2>2, <2>3 DEF InsertRow
  <1>4. CASE EnterTenant(r)
    <2> DEFINE t == NextEntered(r)
               rest == run[r].rest \ {t}
    <2>1. AfterEnter(r, rest) \in PCs
      BY DEF AfterEnter
    <2>2. rest \in SUBSET Tenants
      BY DEF Run
    <2>5. PICK pc \in {AfterEnter(r, rest), "unlock"} :
            run' = [run EXCEPT ![r].pc = pc, ![r].rest = rest]
      BY <1>4 DEF EnterTenant
    <2>3. run' \in [Rollouts -> Run]
      BY <2>1, <2>2, <2>5, RestType
    <2>4. entry' \in [Rollouts -> [Tenants -> Entries]]
      <3>1. (IF t \in run[r].todo THEN "pending" ELSE "skipped") \in Entries
        BY DEF Entries
      <3> QED
        BY <1>4, <3>1, EntryType DEF EnterTenant
    <2> QED
      BY <1>4, <2>3, <2>4 DEF EnterTenant
  <1>5. CASE CompleteEmpty(r)
    BY <1>5, FinalizeType DEF CompleteEmpty, Goto
  <1>6. CASE StartFails(r)
    BY <1>6 DEF StartFails
  <1> QED
    BY <1>1, <1>2, <1>3, <1>4, <1>5, <1>6 DEF Start

(* A step of the loop keeps the types.                                     *)
LEMMA LoopTypes ==
    ASSUME TypeOK, NEW r \in Rollouts, Busy(r), Loop(r)
    PROVE  TypeOK'
  <1> DEFINE left == run[r].todo \ {Current(r)}
  <1>1. left \in SUBSET Tenants
    BY DEF TypeOK, Run
  <1> HIDE DEF left
  <1> USE GotoType, PCsAre DEF TypeOK, Goto
  <1>2. CASE CheckAbort(r)
    BY <1>2 DEF CheckAbort
  <1>3. CASE MarkStarted(r)
    <2> DEFINE late == IF row[r].abort THEN run[r].late \cup {Current(r)}
                                       ELSE run[r].late
    <2>1. "rolling" \in Entries
      BY DEF Entries
    <2>2. late \in SUBSET Tenants
      BY <1>3, CurrentIn DEF MarkStarted, Busy, Run
    <2>3. PICK pc \in {"provision", "error"} :
            run' = [run EXCEPT ![r].pc = pc, ![r].late = late]
      BY <1>3 DEF MarkStarted
    <2>4. run' \in [Rollouts -> Run]
      BY <2>2, <2>3, LateType
    <2> QED
      BY <1>3, <2>1, <2>4, EntryType DEF MarkStarted
  <1>4. CASE ProvisionRefused(r)
    BY <1>4 DEF ProvisionRefused
  <1>5. CASE ProvisionBegins(r) \/ ProvisionBreaks(r)
    <2>1. row[r].target \in Versions
      <3>1. \A w \in Row : w.target \in Versions
        BY DEF Row
      <3>2. row[r] \in Row
        OBVIOUS
      <3> QED
        BY <3>1, <3>2
    <2>2. tenant' \in [Tenants -> Tenant]
      <3>1. PICK v \in Versions : v = row[r].target
        BY <2>1
      <3>2. PICK t : t = Current(r)
        OBVIOUS
      <3>3. CASE ProvisionBreaks(r)
        <4>1. tenant' = [tenant EXCEPT ![t].version = v]
          BY <3>1, <3>2, <3>3 DEF ProvisionBreaks
        <4> QED
          BY <4>1, AdoptType
      <3>4. CASE ProvisionBegins(r)
        <4>1. tenant' = [tenant EXCEPT
                ![t].state = IF @ = "sleeping" THEN @ ELSE "upgrading",
                ![t].version = v]
          BY <3>1, <3>2, <3>4 DEF ProvisionBegins, Begin
        <4> QED
          BY <4>1, AdoptType
      <3> QED
        BY <1>5, <3>3, <3>4
    <2>3. overruled' \in [Rollouts -> SUBSET Tenants]
      BY <1>5, CurrentIn, OverruleType
      DEF ProvisionBegins, ProvisionBreaks, Begin, Busy
    <2> QED
      BY <1>5, <2>2, <2>3 DEF ProvisionBegins, ProvisionBreaks
  <1>6. CASE ProvisionSucceeds(r)
    BY <1>6, TenantType DEF ProvisionSucceeds, States
  <1>7. CASE ProvisionFails(r)
    <2>1. tenant' \in [Tenants -> Tenant]
      <3>1. CASE tenant' = [tenant EXCEPT ![Current(r)].state = "failed"]
        BY <3>1, TenantType DEF States
      <3>2. CASE UNCHANGED tenant
        BY <3>2
      <3> QED
        BY <1>7, <3>1, <3>2 DEF ProvisionFails
    <2> QED
      BY <1>7, <2>1 DEF ProvisionFails
  <1>8. CASE RecordSuccess(r)
    <2>1. AfterRecord(left) \in PCs /\ "succeeded" \in Entries
      BY DEF AfterRecord, Entries
    <2>2. PICK pc \in {AfterRecord(left), "error"} :
            run' = [run EXCEPT ![r].pc = pc, ![r].todo = left]
      BY <1>8 DEF RecordSuccess, left
    <2>3. run' \in [Rollouts -> Run]
      BY <1>1, <2>1, <2>2, TodoType
    <2> QED
      BY <1>8, <2>1, <2>3, EntryType DEF RecordSuccess
  <1>9. CASE RecordFailure(r)
    <2>1. "failed" \in Entries
      BY DEF Entries
    <2> QED
      BY <1>9, <2>1, EntryType, AnsweredType DEF RecordFailure
  <1>10. CASE FailRollout(r)
    BY <1>10, FinalizeType, AnsweredType DEF FailRollout
  <1>11. CASE SkipTenant(r)
    <2> DEFINE to == IF left = {} THEN "abort" ELSE "skip"
    <2>1. to \in PCs /\ "skipped" \in Entries
      BY DEF Entries
    <2>2. PICK pc \in {to, "error"} :
            run' = [run EXCEPT ![r].pc = pc, ![r].todo = left]
      BY <1>11 DEF SkipTenant, left
    <2>3. run' \in [Rollouts -> Run]
      BY <1>1, <2>1, <2>2, TodoType
    <2> QED
      BY <1>11, <2>1, <2>3, EntryType DEF SkipTenant
  <1>12. CASE AbortRollout(r)
    BY <1>12, FinalizeType, AnsweredType DEF AbortRollout
  <1>13. CASE CompleteRollout(r)
    BY <1>13, FinalizeType, AnsweredType DEF CompleteRollout
  <1>14. CASE LoopFails(r)
    BY <1>14 DEF LoopFails
  <1>15. CASE FinalizeError(r)
    BY <1>15, FinalizeType DEF FinalizeError
  <1>16. CASE Unlock(r)
    <2>1. run' \in [Rollouts -> Run]
      BY <1>16, NoRunType DEF Unlock
    <2> QED
      BY <1>16, <2>1 DEF Unlock
  <1> QED
    BY <1>2, <1>3, <1>4, <1>5, <1>6, <1>7, <1>8, <1>9, <1>10, <1>11,
       <1>12, <1>13, <1>14, <1>15, <1>16 DEF Loop, Provision

(* So does everything around it.                                           *)
LEMMA EnvironmentTypes ==
    ASSUME TypeOK,
           \/ \E r \in Rollouts : RequestAbort(r) \/ Dies(r)
           \/ Boots
           \/ \E t \in Restless : OperatorProvisions(t) \/ OthersWriteState(t)
    PROVE  TypeOK'
  <1> USE DEF TypeOK
  <1>1. ASSUME NEW r \in Rollouts, RequestAbort(r) PROVE TypeOK'
    <2>1. [row[r] EXCEPT !.abort = TRUE] \in Row
      BY DEF Row
    <2>2. row' \in [Rollouts -> Row]
      BY <1>1, <2>1 DEF RequestAbort
    <2> QED
      BY <1>1, <2>2 DEF RequestAbort
  <1>2. ASSUME NEW r \in Rollouts, Dies(r) PROVE TypeOK'
    <2>1. run' \in [Rollouts -> Run]
      BY <1>2, NoRunType DEF Dies
    <2> QED
      BY <1>2, <2>1 DEF Dies
  <1>3. CASE Boots
    <2>1. \A w \in Row :
            [w EXCEPT !.status = "failed", !.error = "restart"] \in Row
      BY DEF Row
    <2> QED
      BY <1>3, <2>1 DEF Boots
  <1>4. ASSUME NEW t \in Restless, OperatorProvisions(t) PROVE TypeOK'
    <2>1. PICK v \in OperatorAsks : Begin(t, v, NoRollout)
      BY <1>4 DEF OperatorProvisions
    <2>2. v \in Versions /\ t \in Tenants
      BY OperatorAssumption, RestlessAssumption
    <2>3. tenant' \in [Tenants -> Tenant]
      BY <2>1, <2>2, AdoptType DEF Begin
    <2>4. overruled' \in [Rollouts -> SUBSET Tenants]
      BY <2>1, <2>2, OverruleType DEF Begin
    <2> QED
      BY <1>4, <2>3, <2>4 DEF OperatorProvisions
  <1>5. ASSUME NEW t \in Restless, OthersWriteState(t) PROVE TypeOK'
    <2>1. PICK state \in States : tenant' = [tenant EXCEPT ![t].state = state]
      BY <1>5, OthersAssumption DEF OthersWriteState
    <2>2. tenant' \in [Tenants -> Tenant]
      BY <2>1, TenantType
    <2> QED
      BY <1>5, <2>2 DEF OthersWriteState
  <1> QED
    BY <1>1, <1>2, <1>3, <1>4, <1>5

(* Every step keeps the types.                                             *)
LEMMA TypesKept ==
    ASSUME TypeOK, \A r \in Rollouts : Busy(r), [Next]_vars
    PROVE  TypeOK'
  <1>1. CASE UNCHANGED vars
    BY <1>1 DEF vars, TypeOK
  <1>2. CASE Next
    BY <1>2, StartTypes, LoopTypes, EnvironmentTypes DEF Next
  <1> QED
    BY <1>1, <1>2

-----------------------------------------------------------------------------
(* Mutual exclusion.                                                       *)

(* What a step of a rollout leaves alone: the other rollouts.              *)
Others(r) == \A s \in Rollouts \ {r} :
                run'[s] = run[s] /\ row'[s] = row[s] /\ entry'[s] = entry[s]

(* A step of a rollout leaves the others alone.                            *)
LEMMA StepIsOwn ==
    ASSUME TypeOK, NEW r \in Rollouts,
           StartRollout(r) \/ Start(r) \/ Loop(r) \/ RequestAbort(r) \/ Dies(r)
    PROVE  Others(r)
  <1> USE DEF TypeOK, Others, Goto, Answered, SetEntry, Finalize
  <1>1. CASE StartRollout(r) \/ RequestAbort(r) \/ Dies(r)
    BY <1>1 DEF StartRollout, RequestAbort, Dies
  <1>2. CASE Start(r)
    <2>1. CASE TakeSnapshot(r)
      BY <2>1 DEF TakeSnapshot
    <2>2. CASE EnterTenant(r)
      BY <2>2 DEF EnterTenant
    <2>3. CASE InsertRow(r) \/ CompleteEmpty(r) \/ StartFails(r)
      BY <2>3 DEF InsertRow, CompleteEmpty, StartFails
    <2> QED
      BY <1>2, <2>1, <2>2, <2>3 DEF Start
  <1>3. CASE Loop(r)
    <2>1. CASE CheckAbort(r) \/ MarkStarted(r) \/ Provision(r) \/ LoopFails(r)
      BY <2>1 DEF CheckAbort, MarkStarted, Provision, ProvisionRefused,
                  ProvisionBreaks, ProvisionBegins, ProvisionSucceeds,
                  ProvisionFails, LoopFails
    <2>2. CASE RecordSuccess(r) \/ RecordFailure(r) \/ SkipTenant(r)
      BY <2>2 DEF RecordSuccess, RecordFailure, SkipTenant
    <2>3. CASE FailRollout(r) \/ AbortRollout(r) \/ CompleteRollout(r)
               \/ FinalizeError(r) \/ Unlock(r)
      BY <2>3 DEF FailRollout, AbortRollout, CompleteRollout, FinalizeError, Unlock
    <2> QED
      BY <1>3, <2>1, <2>2, <2>3 DEF Loop
  <1> QED
    BY <1>1, <1>2, <1>3

(* Between taking the lock and giving it back a rollout stays live.        *)
LEMMA StaysLive ==
    ASSUME TypeOK, NEW r \in Rollouts, Start(r) \/ Loop(r), ~Unlock(r)
    PROVE  run[r].pc \in Live /\ run'[r].pc \in Live /\ lock' = lock
  <1> USE DEF TypeOK, Run, Goto, Answered, Live, Starting, Looping
  <1>1. CASE Start(r)
    <2>1. CASE TakeSnapshot(r)
      BY <2>1 DEF TakeSnapshot
    <2>2. CASE EnterTenant(r)
      BY <2>2 DEF EnterTenant, AfterEnter
    <2>3. CASE InsertRow(r) \/ CompleteEmpty(r) \/ StartFails(r)
      BY <2>3 DEF InsertRow, CompleteEmpty, StartFails
    <2> QED
      BY <1>1, <2>1, <2>2, <2>3 DEF Start
  <1>2. CASE Loop(r)
    <2>1. CASE CheckAbort(r) \/ MarkStarted(r) \/ Provision(r) \/ LoopFails(r)
      BY <2>1 DEF CheckAbort, MarkStarted, Provision, ProvisionRefused,
                  ProvisionBreaks, ProvisionBegins, ProvisionSucceeds,
                  ProvisionFails, LoopFails
    <2>2. CASE RecordSuccess(r) \/ RecordFailure(r) \/ SkipTenant(r)
      BY <2>2 DEF RecordSuccess, RecordFailure, SkipTenant, AfterRecord
    <2>3. CASE FailRollout(r) \/ AbortRollout(r) \/ CompleteRollout(r)
               \/ FinalizeError(r)
      BY <2>3 DEF FailRollout, AbortRollout, CompleteRollout, FinalizeError
    <2> QED
      BY <1>2, <2>1, <2>2, <2>3 DEF Loop
  <1> QED
    BY <1>1, <1>2

(* A rollout that is over is not live.                                     *)
LEMMA OverIsNotLive == \A pc \in {"unused", "ended", "dead"} :
                          pc \notin Live /\ NoRun(pc).pc = pc
  BY DEF NoRun, Live, Starting, Looping

(* Every step keeps the exclusion.                                         *)
LEMMA ExclusiveKept == TypeOK /\ Exclusive /\ [Next]_vars => Exclusive'
  <1> SUFFICES ASSUME TypeOK, Exclusive, [Next]_vars PROVE Exclusive'
    OBVIOUS
  <1> USE DEF Exclusive
  <1>1. CASE UNCHANGED vars
    BY <1>1 DEF vars
  <1>2. ASSUME NEW r \in Rollouts, StartRollout(r) PROVE Exclusive'
    <2>1. run'[r].pc \in Live /\ lock' = r
      BY <1>2 DEF StartRollout, Live, Starting, TypeOK, Run
    <2>2. \A s \in Rollouts \ {r} : run'[s] = run[s] /\ run[s].pc \notin Live
      BY <1>2, StepIsOwn, NoRolloutIsNone DEF StartRollout, Others
    <2> QED
      BY <2>1, <2>2
  <1>3. ASSUME NEW r \in Rollouts, Start(r) \/ Loop(r), ~Unlock(r) PROVE Exclusive'
    BY <1>3, StepIsOwn, StaysLive DEF Others
  <1>4. ASSUME NEW r \in Rollouts, Unlock(r) \/ Dies(r) PROVE Exclusive'
    <2>1. run[r].pc \in Live /\ lock = r
      BY <1>4 DEF Unlock, Dies, Live
    <2>2. run'[r].pc \notin Live /\ lock' = NoRollout
      BY <1>4, <2>1, OverIsNotLive DEF Unlock, Dies, TypeOK
    <2>3. \A s \in Rollouts \ {r} : run'[s] = run[s] /\ run[s].pc \notin Live
      BY <1>4, <2>1, StepIsOwn DEF Others, Loop
    <2> QED
      BY <2>2, <2>3, NoRolloutIsNone
  <1>5. ASSUME NEW r \in Rollouts, RequestAbort(r) PROVE Exclusive'
    BY <1>5 DEF RequestAbort
  <1>6. CASE Boots \/ \E t \in Restless : OperatorProvisions(t) \/ OthersWriteState(t)
    BY <1>6 DEF Boots, OperatorProvisions, OthersWriteState
  <1> QED
    BY <1>1, <1>2, <1>3, <1>4, <1>5, <1>6 DEF Next

(* The rollouts take the lock in their order, and each when those before   *)
(* it are over.                                                            *)
Over(r) == run[r].pc \in {"ended", "dead"}
Ordered == \A r, s \in Rollouts : r < s /\ run[s].pc # "unused" => Over(r)

(* What is over stays over, and nothing but StartRollout begins.           *)
LEMMA OverStays ==
    ASSUME TypeOK, NEW r \in Rollouts,
           Start(r) \/ Loop(r) \/ RequestAbort(r) \/ Dies(r)
    PROVE  /\ run[r].pc # "unused" \/ RequestAbort(r)
           /\ Over(r) => Over(r)'
           /\ run[r].pc = "unused" => run'[r].pc = "unused"
  <1>1. CASE RequestAbort(r)
    BY <1>1 DEF RequestAbort, Over
  <1>2. CASE Unlock(r) \/ Dies(r)
    <2>1. run'[r].pc \in {"ended", "dead"} /\ run[r].pc \in Live
      BY <1>2 DEF Unlock, Dies, NoRun, TypeOK, Live
    <2> QED
      BY <2>1, OverIsNotLive DEF Over
  <1>3. CASE (Start(r) \/ Loop(r)) /\ ~Unlock(r)
    BY <1>3, StaysLive, OverIsNotLive DEF Over
  <1> QED
    BY <1>1, <1>2, <1>3

(* Every step keeps the order.                                             *)
LEMMA OrderedKept == TypeOK /\ Exclusive /\ Ordered /\ [Next]_vars => Ordered'
  <1> SUFFICES ASSUME TypeOK, Exclusive, Ordered, [Next]_vars PROVE Ordered'
    OBVIOUS
  <1>1. CASE UNCHANGED run
    BY <1>1 DEF Ordered, Over
  <1>2. ASSUME NEW r \in Rollouts, StartRollout(r) PROVE Ordered'
    <2>1. \A s \in 1 .. r - 1 : run[s].pc # "unused"
      BY <1>2 DEF StartRollout
    <2>2. \A s \in Rollouts : run[s].pc \notin Live
      BY <1>2, NoRolloutIsNone DEF StartRollout, Exclusive
    <2>3. \A s \in Rollouts : s < r => Over(s)
      BY <2>1, <2>2, RolloutsAssumption DEF Rollouts, TypeOK, Run, Over
    <2>4. \A s \in Rollouts \ {r} : run'[s] = run[s]
      BY <1>2, StepIsOwn DEF Others
    <2>5. run[r].pc = "unused"
      BY <1>2 DEF StartRollout
    <2> QED
      BY <2>3, <2>4, <2>5, RolloutsAssumption DEF Ordered, Over, Rollouts
  <1>3. ASSUME NEW r \in Rollouts, Start(r) \/ Loop(r) \/ Dies(r) PROVE Ordered'
    <2>1. \A s \in Rollouts \ {r} : run'[s] = run[s]
      BY <1>3, StepIsOwn DEF Others
    <2>2. /\ Over(r) => Over(r)'
          /\ run[r].pc = "unused" => run'[r].pc = "unused"
      BY <1>3, OverStays
    <2> QED
      BY <2>1, <2>2 DEF Ordered, Over
  <1>4. ASSUME NEW r \in Rollouts, RequestAbort(r) PROVE Ordered'
    BY <1>1, <1>4 DEF RequestAbort
  <1>5. CASE Boots \/ \E t \in Restless : OperatorProvisions(t) \/ OthersWriteState(t)
    BY <1>1, <1>5 DEF Boots, OperatorProvisions, OthersWriteState
  <1> QED
    BY <1>1, <1>2, <1>3, <1>4, <1>5 DEF Next, vars

-----------------------------------------------------------------------------
(* The ledger.  What a loop relies on at each of its awaits: which tenants *)
(* its entries say are waiting, begun and done, and that its row has not   *)
(* been ended but by a boot, unless an answer of its own was lost; and     *)
(* that no newer rollout has a row yet.  Exclusive says nothing of the     *)
(* tables; this is what makes the refinement inductive.                    *)
Done == {"skipped", "succeeded"}
Unrowed == {"unused", "snapshot", "insert"}
Begun == {"provision", "rolling", "record", "recordFail"}

EntriesMatch(w, e) ==
    /\ w.pc \in Unrowed => \A t \in Tenants : e[t] = "none"
    /\ w.pc = "insert" => w.rest = Tenants
    /\ w.pc = "enter" =>
          /\ w.rest # {}
          /\ \A t \in Tenants : e[t] = IF t \in w.rest THEN "none"
                                       ELSE IF t \in w.todo THEN "pending"
                                       ELSE "skipped"
    /\ w.pc \in {"check", "mark", "skip"} =>
          /\ w.todo # {}
          /\ \A t \in w.todo : e[t] = "pending"
          /\ \A t \in Tenants \ w.todo : e[t] \in Done
    /\ w.pc \in Begun =>
          /\ w.todo # {}
          /\ e[First(w.todo)] = "rolling"
          /\ \A t \in w.todo \ {First(w.todo)} : e[t] = "pending"
          /\ \A t \in Tenants \ w.todo : e[t] \in Done
    /\ w.pc \in {"empty", "abort", "complete"} => \A t \in Tenants : e[t] \in Done

RowMatches(w, x) ==
    /\ w.pc \in Unrowed => x.status = "none"
    /\ w.pc \in Looping \cup {"enter", "empty"} =>
          StatusOf(x) \in {"running", "orphaned"}
    /\ w.pc = "error" => StatusOf(x) # "none"

Match(r) == EntriesMatch(run[r], entry[r]) /\ RowMatches(run[r], row[r])

IInv == TypeOK /\ Exclusive /\ Ordered /\ \A r \in Rollouts : Match(r)

(* A rollout whose loop is alive is the newest with a row.                 *)
Latest(r) == run[r].pc \in Live => Ledger!Newest(r)

LEMMA LiveIsNewest ==
    ASSUME Ordered, \A r \in Rollouts : Match(r), NEW r \in Rollouts
    PROVE  Latest(r)
  <1>1. ASSUME NEW s \in Rollouts, s > r, ~Over(r) PROVE LedgerStatus[s] = "none"
    <2>1. run[s].pc = "unused"
      BY <1>1, RolloutsAssumption DEF Ordered, Rollouts
    <2>2. row[s].status = "none"
      BY <2>1 DEF Match, RowMatches, Unrowed
    <2> QED
      BY <2>2 DEF LedgerStatus, StatusOf
  <1> QED
    BY <1>1, OverIsNotLive DEF Latest, Ledger!Newest, Over

LEMMA AnsweredPc ==
    ASSUME TypeOK, NEW r \in Rollouts, NEW from, NEW to, NEW lost,
           Answered(r, from, to, lost)
    PROVE  /\ run[r].pc = from /\ run'[r].pc \in {to, lost}
           /\ run'[r].rest = run[r].rest /\ run'[r].todo = run[r].todo
           /\ run'[r].late = run[r].late
  BY DEF Answered, Goto, TypeOK, Run

LedgerStep == [Ledger!Next]_(Ledger!vars)

(* A row that is written is written in the ledger.                         *)
LEMMA StatusWritten ==
    ASSUME TypeOK, NEW r \in Rollouts, NEW x, row' = [row EXCEPT ![r] = x]
    PROVE  /\ LedgerStatus' = [LedgerStatus EXCEPT ![r] = StatusOf(x)]
           /\ LedgerStatus[r] = StatusOf(row[r])
           /\ row'[r] = x
  BY DEF LedgerStatus, TypeOK

(* A row that is not written keeps its status.                             *)
LEMMA StatusUnwritten ==
    ASSUME NEW r \in Rollouts, UNCHANGED row
    PROVE  LedgerStatus' = LedgerStatus /\ LedgerStatus[r] = StatusOf(row[r])
  BY DEF LedgerStatus

(* What finalizing a row makes of its status.                              *)
LEMMA Finalized ==
    ASSUME TypeOK, NEW r \in Rollouts,
           NEW status \in {"completed", "aborted", "failed"},
           NEW error \in {"none", "run"}, status = "failed" => error = "run",
           Finalize(r, status, error)
    PROVE  /\ LedgerStatus' = [LedgerStatus EXCEPT ![r] = status]
           /\ LedgerStatus[r] = StatusOf(row[r])
  <1> DEFINE x == [row[r] EXCEPT !.status = status,
                                 !.error = IF error = "none" THEN @ ELSE error]
  <1>1. row' = [row EXCEPT ![r] = x]
    BY DEF Finalize, TypeOK
  <1>2. StatusOf(x) = status
    BY DEF StatusOf, TypeOK, Row
  <1> QED
    BY <1>1, <1>2, StatusWritten

(* One tenant's entry is written, and that is all.                         *)
LEMMA EntryWritten ==
    ASSUME TypeOK, NEW r \in Rollouts, NEW t \in Tenants, NEW o, SetEntry(r, t, o)
    PROVE  entry'[r][t] = o /\ \A u \in Tenants \ {t} : entry'[r][u] = entry[r][u]
  BY DEF SetEntry, TypeOK

(* A step of the start maps to a step of the ledger, or to none.           *)
LEMMA StartMatches ==
    ASSUME TypeOK, NEW r \in Rollouts, Match(r), Latest(r),
           StartRollout(r) \/ Start(r)
    PROVE  Match(r)' /\ LedgerStep
  <1> USE DEF Match, EntriesMatch, RowMatches, Unrowed, Begun, Looping
  <1>7. run[r].pc \in Starting => Ledger!Newest(r)
    BY DEF Latest, Live
  <1>1. CASE StartRollout(r)
    <2>1. PICK v \in Targets : row' = [row EXCEPT ![r].target = v]
      BY <1>1 DEF StartRollout
    <2>2. run'[r].pc = "snapshot" /\ run[r].pc = "unused"
      BY <1>1 DEF StartRollout, TypeOK, Run
    <2>3. row' = [row EXCEPT ![r] = [row[r] EXCEPT !.target = v]]
      BY <2>1 DEF TypeOK
    <2>4. StatusOf([row[r] EXCEPT !.target = v]) = StatusOf(row[r])
          /\ row'[r].status = row[r].status
      BY <2>3 DEF StatusOf, TypeOK, Row
    <2>5. LedgerStatus' = LedgerStatus
      BY <2>3, <2>4, StatusWritten DEF LedgerStatus
    <2>6. UNCHANGED entry
      BY <1>1 DEF StartRollout
    <2> QED
      BY <2>2, <2>4, <2>5, <2>6 DEF LedgerStep, Ledger!vars
  <1>2. CASE TakeSnapshot(r)
    <2>1. run[r].pc = "snapshot" /\ UNCHANGED <<row, entry>>
      BY <1>2 DEF TakeSnapshot
    <2>2. run'[r].pc = "insert" /\ run'[r].rest = Tenants
      BY <1>2 DEF TakeSnapshot, TypeOK, Run
    <2> QED
      BY <2>1, <2>2, StatusUnwritten DEF LedgerStep, Ledger!vars
  <1>3. CASE InsertRow(r)
    <2> DEFINE x == [row[r] EXCEPT !.status = "running"]
    <2>1. run[r].pc = "insert" /\ run[r].rest = Tenants /\ UNCHANGED entry
      BY <1>3, AnsweredPc DEF InsertRow
    <2>2. /\ \/ run'[r].pc = IF Tenants # {} THEN "enter" ELSE "empty"
             \/ run'[r].pc = "unlock"
          /\ run'[r].rest = Tenants
      BY <1>3, <2>1, AnsweredPc DEF InsertRow
    <2>3. row' = [row EXCEPT ![r] = x]
      BY <1>3 DEF InsertRow, TypeOK
    <2>4. StatusOf(x) = "running" /\ StatusOf(row[r]) = "none"
      BY <2>1 DEF StatusOf, TypeOK, Row
    <2> HIDE DEF x
    <2>5. /\ LedgerStatus' = [LedgerStatus EXCEPT ![r] = "running"]
          /\ LedgerStatus[r] = "none" /\ row'[r] = x
      <3>1. /\ LedgerStatus' = [LedgerStatus EXCEPT ![r] = StatusOf(x)]
            /\ LedgerStatus[r] = StatusOf(row[r])
            /\ row'[r] = x
        BY <2>3, StatusWritten
      <3> QED
        BY <2>4, <3>1
    <2>6. Ledger!Open(r)
      BY <1>7, <2>1, <2>5 DEF Ledger!Open, Starting
    <2>7. Match(r)'
      BY <2>1, <2>2, <2>4, <2>5
    <2> QED
      BY <2>6, <2>7 DEF LedgerStep, Ledger!Next
  <1>4. CASE EnterTenant(r)
    <2> DEFINE t == NextEntered(r)
               rest == run[r].rest \ {t}
               o == IF t \in run[r].todo THEN "pending" ELSE "skipped"
    <2>1. run[r].pc = "enter" /\ run[r].rest # {} /\ UNCHANGED row
      BY <1>4 DEF EnterTenant
    <2>2. t \in run[r].rest /\ t \in Tenants
      BY <2>1, FirstIn DEF NextEntered, TypeOK, Run
    <2>3. /\ run'[r].pc \in {AfterEnter(r, rest), "unlock"}
          /\ run'[r].rest = rest /\ run'[r].todo = run[r].todo
      BY <1>4 DEF EnterTenant, TypeOK, Run
    <2>4. SetEntry(r, t, o)
      BY <1>4 DEF EnterTenant
    <2> HIDE DEF t
    <2>5. entry'[r][t] = o /\ \A u \in Tenants \ {t} : entry'[r][u] = entry[r][u]
      BY <2>2, <2>4, EntryWritten
    <2>6. Ledger!Enter(r, t)
      BY <1>7, <2>1, <2>2, <2>4, StatusUnwritten
      DEF Ledger!Enter, Ledger!Unended, Ledger!All, SetEntry, Starting
    <2>7. EntriesMatch(run'[r], entry'[r])
      <3>1. \A u \in Tenants : entry'[r][u] = IF u \in rest THEN "none"
                                             ELSE IF u \in run[r].todo THEN "pending"
                                             ELSE "skipped"
        BY <2>1, <2>2, <2>5
      <3> HIDE DEF rest
      <3>5. CASE run'[r].pc = "unlock"
        BY <3>5
      <3>2. CASE rest # {}
        BY <2>3, <3>1, <3>2 DEF AfterEnter
      <3>3. CASE rest = {} /\ run[r].todo = {}
        BY <2>3, <3>1, <3>3 DEF AfterEnter, Done
      <3>4. CASE rest = {} /\ run[r].todo # {}
        <4>1. run[r].todo \subseteq Tenants
          BY DEF TypeOK, Run
        <4> QED
          BY <2>3, <3>1, <3>4, <4>1 DEF AfterEnter, Done
      <3> QED
        BY <3>2, <3>3, <3>4
    <2>8. RowMatches(run'[r], row'[r])
      BY <2>1, <2>3 DEF AfterEnter
    <2> QED
      BY <2>2, <2>6, <2>7, <2>8 DEF LedgerStep, Ledger!Next
  <1>5. CASE CompleteEmpty(r)
    <2>1. /\ run[r].pc = "empty" /\ UNCHANGED entry
          /\ Finalize(r, "completed", "none")
      BY <1>5 DEF CompleteEmpty, Goto
    <2>2. run'[r].pc = "unlock"
      BY <1>5 DEF CompleteEmpty, Goto, TypeOK, Run
    <2>3. Ledger!End(r)
      BY <1>7, <2>1, Finalized
      DEF Ledger!End, Ledger!Unended, Ledger!All, Done, Starting
    <2> QED
      BY <2>2, <2>3 DEF LedgerStep, Ledger!Next
  <1>6. CASE StartFails(r)
    <2>1. run'[r].pc = "unlock" /\ UNCHANGED <<row, entry>>
      BY <1>6 DEF StartFails, TypeOK, Run
    <2> QED
      BY <2>1, StatusUnwritten DEF LedgerStep, Ledger!vars
  <1> QED
    BY <1>1, <1>2, <1>3, <1>4, <1>5, <1>6 DEF Start

(* A row of the ledger that is ended by the loop, or corrected by it.      *)
LEMMA EndMatches ==
    ASSUME TypeOK, NEW r \in Rollouts, Match(r), Latest(r), UNCHANGED entry,
           run[r].pc \in Looping \cup {"error"}, run'[r].pc \in {"unlock", "error"},
           \/ Finalize(r, "failed", "run")
           \/ /\ run[r].pc \in {"abort", "complete"}
              /\ \/ Finalize(r, "completed", "none")
                 \/ Finalize(r, "aborted", "none")
    PROVE  Match(r)' /\ LedgerStep
  <1> USE DEF Match, EntriesMatch, RowMatches, Unrowed, Begun, Looping
  <1>1. /\ LedgerStatus[r] # "none"
        /\ run[r].pc \in Looping => LedgerStatus[r] \in {"running", "orphaned"}
        /\ LedgerStatus[r] \in {"running", "orphaned", "completed", "aborted", "failed"}
    BY DEF LedgerStatus, StatusOf, TypeOK, Row
  <1>2. Ledger!Newest(r)
    BY DEF Latest, Live
  <1>3. ASSUME NEW status \in {"completed", "aborted", "failed"},
               LedgerStatus' = [LedgerStatus EXCEPT ![r] = status]
        PROVE  Match(r)'
    <2>1. StatusOf(row'[r]) = status
      BY <1>3 DEF LedgerStatus
    <2> QED
      BY <2>1
  <1>4. CASE Finalize(r, "failed", "run")
    <2>1. LedgerStatus' = [LedgerStatus EXCEPT ![r] = "failed"]
      BY <1>4, Finalized
    <2>2. CASE LedgerStatus[r] \in {"running", "orphaned"}
      <3>1. Ledger!End(r)
        BY <1>2, <2>1, <2>2 DEF Ledger!End, Ledger!Unended
      <3> QED
        BY <1>3, <2>1, <3>1 DEF LedgerStep, Ledger!Next
    <2>3. CASE LedgerStatus[r] \in {"completed", "aborted"}
      <3>1. Ledger!Correct(r)
        BY <1>2, <2>1, <2>3 DEF Ledger!Correct
      <3> QED
        BY <1>3, <2>1, <3>1 DEF LedgerStep, Ledger!Next
    <2>4. CASE LedgerStatus[r] = "failed"
      <3>1. LedgerStatus' = LedgerStatus
        BY <2>1, <2>4 DEF LedgerStatus
      <3> QED
        BY <1>3, <2>1, <3>1 DEF LedgerStep, Ledger!vars
    <2> QED
      BY <1>1, <2>2, <2>3, <2>4
  <1>5. CASE /\ run[r].pc \in {"abort", "complete"}
             /\ \/ Finalize(r, "completed", "none")
                \/ Finalize(r, "aborted", "none")
    <2>1. PICK status \in {"completed", "aborted"} :
              LedgerStatus' = [LedgerStatus EXCEPT ![r] = status]
      BY <1>5, Finalized
    <2>2. Ledger!All(r, {"succeeded", "skipped"})
      BY <1>5 DEF Ledger!All, Done
    <2>3. Ledger!End(r)
      BY <1>1, <1>2, <1>5, <2>1, <2>2 DEF Ledger!End, Ledger!Unended
    <2> QED
      BY <1>3, <2>1, <2>3 DEF LedgerStep, Ledger!Next
  <1> QED
    BY <1>4, <1>5

(* A step of the loop that writes neither table.                           *)
LEMMA SilentMatches ==
    ASSUME TypeOK, NEW r \in Rollouts, UNCHANGED <<row, entry>>,
           EntriesMatch(run'[r], entry[r]), RowMatches(run'[r], row[r])
    PROVE  Match(r)' /\ LedgerStep
  BY StatusUnwritten DEF Match, LedgerStep, Ledger!vars

(* A step of the loop maps to a step of the ledger, or to none.            *)
LEMMA LoopMatches ==
    ASSUME TypeOK, NEW r \in Rollouts, Match(r), Latest(r), Loop(r)
    PROVE  Match(r)' /\ LedgerStep
  <1> DEFINE t == Current(r)
             left == run[r].todo \ {t}
  <1>1. run[r].todo # {} => t \in run[r].todo /\ t \in Tenants
    BY FirstIn DEF Current, TypeOK, Run
  <1>2. ASSUME NEW o, SetEntry(r, t, o), run[r].todo # {}
        PROVE  /\ entry'[r][t] = o
               /\ \A u \in Tenants \ {t} : entry'[r][u] = entry[r][u]
    BY <1>1, <1>2, EntryWritten
  <1>3. run[r].todo \subseteq Tenants
    BY DEF TypeOK, Run
  <1> USE DEF Match, EntriesMatch, RowMatches, Unrowed, Begun, Looping, Current
  <1>4. CASE CheckAbort(r)
    <2>1. run'[r].pc \in {"skip", "mark"} /\ run'[r].todo = run[r].todo
          /\ run[r].pc = "check" /\ UNCHANGED <<row, entry>>
      BY <1>4 DEF CheckAbort, Goto, TypeOK, Run
    <2> QED
      BY <2>1, SilentMatches
  <1>13. run[r].pc \in Looping => Ledger!Newest(r)
    BY DEF Latest, Live
  <1>5. CASE MarkStarted(r)
    <2>1. run[r].pc = "mark" /\ run'[r].pc \in {"provision", "error"}
          /\ run'[r].todo = run[r].todo /\ UNCHANGED row
          /\ SetEntry(r, t, "rolling")
      BY <1>5 DEF MarkStarted, TypeOK, Run
    <2>2. Ledger!Roll(r, t)
      BY <1>1, <1>13, <2>1, StatusUnwritten
      DEF Ledger!Roll, Ledger!Unended, Ledger!All, SetEntry, Done
    <2>4. StatusOf(row[r]) # "none"
      BY <2>1
    <2>3. Match(r)'
      BY <1>1, <1>2, <1>3, <2>1, <2>4
    <2> QED
      BY <1>1, <2>1, <2>2, <2>3 DEF LedgerStep, Ledger!Next
  <1>6. CASE Provision(r) \/ LoopFails(r)
    <2>1. /\ run[r].pc \in Looping /\ UNCHANGED <<row, entry>>
          /\ run'[r].todo = run[r].todo
          /\ \/ run[r].pc \in Begun /\ run'[r].pc \in Begun
             \/ run'[r].pc = "error"
      BY <1>6 DEF Provision, ProvisionRefused, ProvisionBreaks, ProvisionBegins,
         ProvisionSucceeds, ProvisionFails, LoopFails, Goto, TypeOK, Run
    <2> QED
      BY <2>1, SilentMatches
  <1>7. CASE RecordSuccess(r)
    <2>1. run[r].pc = "record" /\ UNCHANGED row /\ SetEntry(r, t, "succeeded")
          /\ run'[r].pc \in {AfterRecord(left), "error"} /\ run'[r].todo = left
      BY <1>7 DEF RecordSuccess, TypeOK, Run
    <2>2. Ledger!Settle(r, t)
      BY <1>1, <1>13, <2>1, StatusUnwritten
      DEF Ledger!Settle, Ledger!Unended, SetEntry
    <2>3. /\ \A u \in left : entry'[r][u] = "pending"
          /\ \A u \in Tenants \ left : entry'[r][u] \in Done
      BY <1>1, <1>2, <1>3, <2>1 DEF Done
    <2> HIDE DEF left
    <2>4. Match(r)'
      BY <2>1, <2>3 DEF AfterRecord
    <2> QED
      BY <1>1, <2>1, <2>2, <2>4 DEF LedgerStep, Ledger!Next
  <1>8. CASE RecordFailure(r)
    <2>1. run[r].pc = "recordFail" /\ UNCHANGED row /\ SetEntry(r, t, "failed")
          /\ run'[r].pc \in {"fail", "error"}
      BY <1>8, AnsweredPc DEF RecordFailure
    <2>2. Ledger!Settle(r, t)
      BY <1>1, <1>13, <2>1, StatusUnwritten
      DEF Ledger!Settle, Ledger!Unended, SetEntry
    <2> QED
      BY <1>1, <2>1, <2>2 DEF LedgerStep, Ledger!Next
  <1>9. CASE SkipTenant(r)
    <2>1. run[r].pc = "skip" /\ UNCHANGED row /\ SetEntry(r, t, "skipped")
          /\ run'[r].pc \in {IF left = {} THEN "abort" ELSE "skip", "error"}
          /\ run'[r].todo = left
      BY <1>9 DEF SkipTenant, TypeOK, Run
    <2>2. Ledger!Skip(r, t)
      BY <1>1, <1>13, <2>1, StatusUnwritten
      DEF Ledger!Skip, Ledger!Unended, Ledger!All, SetEntry, Done
    <2>3. /\ \A u \in left : entry'[r][u] = "pending"
          /\ \A u \in Tenants \ left : entry'[r][u] \in Done
      BY <1>1, <1>2, <1>3, <2>1 DEF Done
    <2> HIDE DEF left
    <2>4. Match(r)'
      BY <2>1, <2>3
    <2> QED
      BY <1>1, <2>1, <2>2, <2>4 DEF LedgerStep, Ledger!Next
  <1>10. CASE FailRollout(r) \/ AbortRollout(r) \/ CompleteRollout(r)
    <2>1. run[r].pc \in {"fail", "abort", "complete"}
          /\ (FailRollout(r) \/ run[r].pc \in {"abort", "complete"})
          /\ run'[r].pc \in {"unlock", "error"}
      BY <1>10, AnsweredPc DEF FailRollout, AbortRollout, CompleteRollout
    <2> QED
      BY <1>10, <2>1, EndMatches DEF FailRollout, AbortRollout, CompleteRollout
  <1>11. CASE FinalizeError(r)
    <2>1. run[r].pc = "error" /\ run'[r].pc = "unlock" /\ UNCHANGED entry
          /\ (Finalize(r, "failed", "run") \/ UNCHANGED row)
      BY <1>11 DEF FinalizeError, Goto, TypeOK, Run
    <2> QED
      BY <2>1, EndMatches, SilentMatches
  <1>12. CASE Unlock(r)
    <2>1. run'[r].pc = "ended" /\ UNCHANGED <<row, entry>>
      BY <1>12 DEF Unlock, NoRun, TypeOK
    <2> QED
      BY <2>1, SilentMatches
  <1> QED
    BY <1>4, <1>5, <1>6, <1>7, <1>8, <1>9, <1>10, <1>11, <1>12 DEF Loop

(* What happens around the loops maps to a step of the ledger, or to none. *)
LEMMA AbortMatches ==
    ASSUME TypeOK, NEW r \in Rollouts, Match(r), RequestAbort(r)
    PROVE  Match(r)' /\ LedgerStep
  <1> DEFINE x == [row[r] EXCEPT !.abort = TRUE]
  <1>1. UNCHANGED <<run, entry>>
    BY DEF RequestAbort
  <1>2. row' = [row EXCEPT ![r] = x]
    BY DEF RequestAbort, TypeOK
  <1>3. StatusOf(x) = StatusOf(row[r]) /\ x.status = row[r].status
    BY DEF StatusOf, TypeOK, Row
  <1> HIDE DEF x
  <1>4. /\ LedgerStatus' = [LedgerStatus EXCEPT ![r] = StatusOf(x)]
        /\ row'[r] = x
    BY <1>2, StatusWritten
  <1>5. LedgerStatus' = LedgerStatus
    BY <1>3, <1>4 DEF LedgerStatus
  <1>6. Match(r)'
    BY <1>1, <1>3, <1>4 DEF Match, EntriesMatch, RowMatches
  <1> QED
    BY <1>1, <1>5, <1>6 DEF LedgerStep, Ledger!vars

(* The death of a process leaves the tables as they are.                   *)
LEMMA DeathMatches ==
    ASSUME TypeOK, NEW r \in Rollouts, Match(r), Dies(r)
    PROVE  Match(r)' /\ LedgerStep
  <1>1. run'[r].pc = "dead" /\ UNCHANGED <<row, entry>>
    BY DEF Dies, NoRun, TypeOK
  <1>2. EntriesMatch(run'[r], entry[r]) /\ RowMatches(run'[r], row[r])
    BY <1>1 DEF EntriesMatch, RowMatches, Unrowed, Begun, Looping
  <1> QED
    BY <1>1, <1>2, SilentMatches

(* A boot takes some of the running rollouts for orphans.                  *)
LEMMA BootMatches ==
    ASSUME TypeOK, \A r \in Rollouts : Match(r), Boots
    PROVE  (\A r \in Rollouts : Match(r)') /\ LedgerStep
  <1>1. PICK started \in SUBSET Rollouts :
          row' = [r \in Rollouts |->
                    IF r \in started /\ Orphaned(r)
                      THEN [row[r] EXCEPT !.status = "failed", !.error = "restart"]
                      ELSE row[r]]
    BY DEF Boots
  <1> DEFINE R == {r \in started : Orphaned(r)}
  <1>2. UNCHANGED <<run, entry>>
    BY DEF Boots
  <1>3. \A r \in R : /\ row[r].status = "running" /\ row'[r].status = "failed"
                     /\ StatusOf(row[r]) = "running"
                     /\ StatusOf(row'[r]) = "orphaned"
    BY <1>1 DEF Orphaned, StatusOf, TypeOK, Row
  <1>4. \A r \in Rollouts \ R : row'[r] = row[r]
    BY <1>1
  <1>5. \A r \in Rollouts : Match(r)'
    <2>1. SUFFICES ASSUME NEW r \in Rollouts PROVE Match(r)'
      OBVIOUS
    <2>2. CASE r \in R
      BY <1>2, <1>3, <2>2 DEF Match, RowMatches
    <2>3. CASE r \notin R
      BY <1>2, <1>4, <2>3 DEF Match
    <2> QED
      BY <2>2, <2>3
  <1>6. LedgerStatus' = [r \in Rollouts |-> IF r \in R THEN "orphaned"
                                            ELSE LedgerStatus[r]]
    BY <1>3, <1>4 DEF LedgerStatus
  <1>7. \A r \in R : LedgerStatus[r] = "running"
    BY <1>3 DEF LedgerStatus
  <1>8. R \in SUBSET Rollouts
    OBVIOUS
  <1> HIDE DEF R
  <1>9. Ledger!Orphan(R)
    BY <1>2, <1>6, <1>7 DEF Ledger!Orphan
  <1> QED
    BY <1>5, <1>8, <1>9 DEF LedgerStep, Ledger!Next

(* Every step keeps the match and is a step of the ledger, or none.        *)
LEMMA MatchKept == IInv /\ [Next]_vars => IInv' /\ LedgerStep
  <1> SUFFICES ASSUME IInv, [Next]_vars PROVE IInv' /\ LedgerStep
    OBVIOUS
  <1>1. TypeOK /\ Exclusive /\ Ordered /\ \A r \in Rollouts : Match(r)
    BY DEF IInv
  <1>2. \A r \in Rollouts : Busy(r)
    BY <1>1 DEF Match, EntriesMatch, Begun, Busy
  <1>3. TypeOK' /\ Exclusive' /\ Ordered'
    BY <1>1, <1>2, TypesKept, ExclusiveKept, OrderedKept
  <1>4. CASE UNCHANGED vars
    BY <1>1, <1>3, <1>4 DEF vars, IInv, Match, LedgerStep, Ledger!vars, LedgerStatus
  <1>5. ASSUME NEW r \in Rollouts,
               StartRollout(r) \/ Start(r) \/ Loop(r) \/ RequestAbort(r) \/ Dies(r)
        PROVE  IInv' /\ LedgerStep
    <2>1. Latest(r)
      BY <1>1, LiveIsNewest
    <2>2. Match(r)' /\ LedgerStep
      BY <1>1, <1>5, <2>1, StartMatches, LoopMatches, AbortMatches, DeathMatches
    <2>3. \A s \in Rollouts \ {r} : Match(s)'
      BY <1>1, <1>5, StepIsOwn DEF Others, Match
    <2> QED
      BY <1>3, <2>2, <2>3 DEF IInv
  <1>6. CASE Boots
    BY <1>1, <1>3, <1>6, BootMatches DEF IInv
  <1>7. CASE \E t \in Restless : OperatorProvisions(t) \/ OthersWriteState(t)
    <2>1. UNCHANGED <<row, entry, run>>
      BY <1>7 DEF OperatorProvisions, OthersWriteState
    <2> QED
      BY <1>1, <1>3, <2>1 DEF IInv, Match, LedgerStep, Ledger!vars, LedgerStatus
  <1> QED
    BY <1>4, <1>5, <1>6, <1>7 DEF Next

(* The initial states match.                                               *)
LEMMA MatchInitially == Init => IInv /\ Ledger!Init
  <1> SUFFICES ASSUME Init PROVE IInv /\ Ledger!Init
    OBVIOUS
  <1>1. TypeOK
    <2>1. \A state \in States :
            [state |-> state, version |-> InitialVersion] \in Tenant
      BY DEF Tenant, Versions
    <2>2. tenant \in [Tenants -> Tenant]
      <3>1. PICK asleep \in SUBSET Restless :
              tenant = [t \in Tenants |->
                          [state |-> IF t \in asleep THEN "sleeping" ELSE "ready",
                           version |-> InitialVersion]]
        BY DEF Init
      <3> QED
        BY <2>1, <3>1 DEF States
    <2> QED
      BY <2>2, NoRunType DEF Init, TypeOK, Row, Entries, Versions
  <1>2. \A r \in Rollouts : /\ run[r].pc = "unused" /\ row[r].status = "none"
                            /\ entry[r] = [t \in Tenants |-> "none"]
    BY DEF Init, NoRun
  <1>3. \A r \in Rollouts : Match(r)
    BY <1>2 DEF Match, EntriesMatch, RowMatches, Unrowed, Begun, Looping
  <1>4. LedgerStatus = [r \in Rollouts |-> "none"]
    BY <1>2 DEF LedgerStatus, StatusOf
  <1>5. Exclusive /\ Ordered
    BY <1>2, OverIsNotLive, NoRolloutIsNone DEF Init, Exclusive, Ordered
  <1> QED
    BY <1>1, <1>3, <1>4, <1>5 DEF IInv, Init, Ledger!Init

(* Every variable holds a value of its type, in every behaviour.           *)
THEOREM TypeCorrect == Spec => []TypeOK
  <1>1. IInv => TypeOK
    BY DEF IInv
  <1> QED
    BY <1>1, MatchInitially, MatchKept, PTL DEF Spec

(* One rollout at a time, in every behaviour: whoever is between taking    *)
(* the lock and giving it back is its holder.                              *)
THEOREM OneAtATime == Spec => []Exclusive
  <1>1. IInv => Exclusive
    BY DEF IInv
  <1> QED
    BY <1>1, MatchInitially, MatchKept, PTL DEF Spec

(* The tables keep the ledger's promise: through crashes, overlapping      *)
(* boots, failed statements and lost answers a rollout that reads          *)
(* completed has succeeded at or skipped every tenant, one that failed at  *)
(* a tenant has begun none after it, failed is final but for an orphan's,  *)
(* and nothing of a rollout but its orphaning is written once a newer one  *)
(* has a row.                                                              *)
THEOREM LedgerKept == Spec => LedgerSpec
  BY MatchInitially, MatchKept, PTL DEF Spec, LedgerSpec, Ledger!Spec, LedgerStep

-----------------------------------------------------------------------------
(* What the entries say of the tenants.                                    *)

Step(r) == StartRollout(r) \/ Start(r) \/ Loop(r) \/ RequestAbort(r) \/ Dies(r)

(* A tenant is begun by MarkStarted and by nothing else, and stays begun.  *)
LEMMA TouchedOnce ==
    ASSUME TypeOK, NEW r \in Rollouts, Match(r), Step(r)
    PROVE  \A t \in Tenants :
             /\ Touched(r, t) => Touched(r, t)'
             /\ Touched(r, t)' =>
                  Touched(r, t) \/ (MarkStarted(r) /\ t = Current(r))
  <1> USE DEF Touched
  <1>1. run[r].todo # {} => Current(r) \in run[r].todo
    BY FirstIn DEF Current
  <1>2. run[r].todo \subseteq Tenants /\ run[r].rest \subseteq Tenants
    BY DEF TypeOK, Run
  <1>3. CASE EnterTenant(r)
    <2>1. run[r].rest # {} /\ run[r].pc = "enter"
      BY <1>3, FirstIn DEF EnterTenant, Match, EntriesMatch
    <2>2. NextEntered(r) \in run[r].rest
      BY <2>1, FirstIn DEF NextEntered
    <2>3. entry[r][NextEntered(r)] = "none"
      BY <1>2, <2>1, <2>2 DEF Match, EntriesMatch
    <2>4. \A t \in Tenants \ {NextEntered(r)} : entry'[r][t] = entry[r][t]
      BY <1>3 DEF EnterTenant, SetEntry, TypeOK
    <2>5. entry'[r][NextEntered(r)] \in {"pending", "skipped"}
      BY <1>2, <1>3, <2>2 DEF EnterTenant, SetEntry, TypeOK
    <2> QED
      BY <2>3, <2>4, <2>5
  <1>4. ASSUME NEW o, SetEntry(r, Current(r), o), run[r].todo # {}
        PROVE  /\ entry'[r][Current(r)] = o
               /\ \A u \in Tenants \ {Current(r)} : entry'[r][u] = entry[r][u]
    BY <1>1, <1>2, <1>4, EntryWritten
  <1>5. CASE MarkStarted(r)
    BY <1>1, <1>4, <1>5 DEF MarkStarted, Match, EntriesMatch
  <1>6. CASE RecordSuccess(r)
    BY <1>1, <1>4, <1>6
    DEF RecordSuccess, Match, EntriesMatch, Begun, Current
  <1>7. CASE RecordFailure(r)
    BY <1>1, <1>4, <1>7
    DEF RecordFailure, Answered, Goto, Match, EntriesMatch, Begun, Current
  <1>8. CASE SkipTenant(r)
    BY <1>1, <1>4, <1>8 DEF SkipTenant, Match, EntriesMatch
  <1>9. CASE UNCHANGED entry
    BY <1>9
  <1>10. \/ UNCHANGED entry \/ EnterTenant(r) \/ MarkStarted(r)
         \/ RecordSuccess(r) \/ RecordFailure(r) \/ SkipTenant(r)
    BY DEF Step, StartRollout, RequestAbort, Dies,
       Start, TakeSnapshot, InsertRow, CompleteEmpty, StartFails,
       Loop, CheckAbort, Provision, ProvisionRefused, ProvisionBreaks,
       ProvisionBegins, ProvisionSucceeds, ProvisionFails, FailRollout,
       AbortRollout, CompleteRollout, LoopFails, FinalizeError, Unlock
  <1> QED
    BY <1>3, <1>5, <1>6, <1>7, <1>8, <1>9, <1>10

(* Upgraded: what provisionTenant has begun to, or is recorded to have     *)
(* done.                                                                   *)
Upgraded(r, t) == \/ entry[r][t] = "succeeded"
                  \/ entry[r][t] = "rolling" /\ run[r].pc \in {"rolling", "record"}
Deployed(r) == \A t \in Tenants :
    Upgraded(r, t) /\ t \notin overruled[r]
        => tenant[t].version = row[r].target

(* A step by which a rollout adopts a version.                             *)
Adopts(r) == ProvisionBegins(r) \/ ProvisionBreaks(r)

(* Nothing but provisionTenant upgrades a tenant.                          *)
LEMMA UpgradedBefore ==
    ASSUME TypeOK, NEW r \in Rollouts, Match(r), Step(r), ~Adopts(r)
    PROVE  /\ UNCHANGED overruled
           /\ \A t \in Tenants :
             /\ Upgraded(r, t)' => Upgraded(r, t) /\ row'[r].target = row[r].target
             /\ tenant'[t].version = tenant[t].version
  <1> USE DEF Upgraded
  <1>1. run[r].todo # {} => Current(r) \in run[r].todo /\ Current(r) \in Tenants
    BY FirstIn DEF Current, TypeOK, Run
  <1>2. ASSUME NEW o, SetEntry(r, Current(r), o), run[r].todo # {}
        PROVE  /\ entry'[r][Current(r)] = o
               /\ \A u \in Tenants \ {Current(r)} : entry'[r][u] = entry[r][u]
    BY <1>1, <1>2, EntryWritten
  <1>14. UNCHANGED overruled
    BY DEF Adopts, Step, StartRollout, RequestAbort, Dies, Start, TakeSnapshot,
       InsertRow, EnterTenant, CompleteEmpty, StartFails, Loop, CheckAbort,
       MarkStarted, Provision, ProvisionRefused, ProvisionSucceeds,
       ProvisionFails, RecordSuccess, RecordFailure, FailRollout, SkipTenant,
       AbortRollout, CompleteRollout, LoopFails, FinalizeError, Unlock
  <1> USE <1>14
  <1>3. CASE StartRollout(r)
    <2>1. UNCHANGED <<tenant, entry>> /\ run[r].pc = "unused"
      BY <1>3 DEF StartRollout
    <2> QED
      BY <2>1 DEF Match, EntriesMatch, Unrowed
  <1>4. CASE Start(r) /\ ~EnterTenant(r)
    <2>1. UNCHANGED <<tenant, entry>> /\ run'[r].pc \notin {"rolling", "record"}
      BY <1>4 DEF Start, TakeSnapshot, InsertRow, CompleteEmpty, StartFails,
                  Answered, Goto, TypeOK, Run
    <2>2. row'[r].target = row[r].target
      BY <1>4 DEF Start, TakeSnapshot, InsertRow, CompleteEmpty, StartFails,
                  Finalize, TypeOK, Row
    <2> QED
      BY <2>1, <2>2
  <1>5. CASE EnterTenant(r)
    <2>1. UNCHANGED <<tenant, row>> /\ run[r].pc = "enter"
          /\ run'[r].pc \notin {"rolling", "record"}
      BY <1>5 DEF EnterTenant, AfterEnter, TypeOK, Run
    <2>2. \A t \in Tenants : \/ entry'[r][t] = entry[r][t]
                             \/ entry'[r][t] \in {"pending", "skipped"}
      BY <1>5 DEF EnterTenant, SetEntry, TypeOK
    <2> QED
      BY <2>1, <2>2
  <1>6. CASE MarkStarted(r)
    <2>1. UNCHANGED <<tenant, row>> /\ run[r].pc = "mark"
          /\ run'[r].pc \in {"provision", "error"}
          /\ SetEntry(r, Current(r), "rolling")
      BY <1>6 DEF MarkStarted, TypeOK, Run
    <2> QED
      BY <1>2, <2>1 DEF Match, EntriesMatch
  <1>7. CASE RecordSuccess(r)
    <2>1. UNCHANGED <<tenant, row>> /\ run[r].pc = "record"
          /\ run'[r].pc \in {"complete", "check", "error"}
          /\ SetEntry(r, Current(r), "succeeded")
      BY <1>7 DEF RecordSuccess, AfterRecord, TypeOK, Run
    <2> QED
      BY <1>2, <2>1 DEF Match, EntriesMatch, Begun, Current
  <1>8. CASE RecordFailure(r)
    <2>1. UNCHANGED <<tenant, row>> /\ run[r].pc = "recordFail"
          /\ run'[r].pc \in {"fail", "error"} /\ SetEntry(r, Current(r), "failed")
      BY <1>8, AnsweredPc DEF RecordFailure
    <2> QED
      BY <1>2, <2>1 DEF Match, EntriesMatch, Begun
  <1>9. CASE SkipTenant(r)
    <2>1. UNCHANGED <<tenant, row>> /\ run[r].pc = "skip"
          /\ run'[r].pc \in {"abort", "skip", "error"}
          /\ SetEntry(r, Current(r), "skipped")
      BY <1>9 DEF SkipTenant, TypeOK, Run
    <2> QED
      BY <1>2, <2>1 DEF Match, EntriesMatch
  <1>10. CASE ProvisionSucceeds(r) \/ ProvisionFails(r)
    <2>1. UNCHANGED <<row, entry>> /\ run[r].pc = "rolling"
      BY <1>10 DEF ProvisionSucceeds, ProvisionFails, Goto
    <2>2. \/ \E state : tenant' = [tenant EXCEPT ![Current(r)].state = state]
          \/ UNCHANGED tenant
      BY <1>10 DEF ProvisionSucceeds, ProvisionFails
    <2>3. \A t \in Tenants : tenant'[t].version = tenant[t].version
      BY <2>2 DEF TypeOK, Tenant
    <2> QED
      BY <2>1, <2>3
  <1>11. CASE \/ CheckAbort(r) \/ ProvisionRefused(r) \/ FailRollout(r)
              \/ AbortRollout(r) \/ CompleteRollout(r) \/ LoopFails(r)
              \/ FinalizeError(r) \/ Unlock(r)
    <2>1. UNCHANGED <<tenant, entry>> /\ run'[r].pc \notin {"rolling", "record"}
      BY <1>11 DEF CheckAbort, ProvisionRefused, FailRollout, AbortRollout,
         CompleteRollout, LoopFails, FinalizeError, Unlock, Answered, Goto,
         NoRun, TypeOK, Run
    <2>2. row'[r].target = row[r].target
      BY <1>11 DEF CheckAbort, ProvisionRefused, FailRollout, AbortRollout,
         CompleteRollout, LoopFails, FinalizeError, Unlock, Finalize, TypeOK, Row
    <2> QED
      BY <2>1, <2>2
  <1>12. CASE RequestAbort(r)
    <2>1. UNCHANGED <<tenant, entry, run>>
      BY <1>12 DEF RequestAbort
    <2>2. row'[r].target = row[r].target
      BY <1>12 DEF RequestAbort, TypeOK, Row
    <2> QED
      BY <2>1, <2>2
  <1>13. CASE Dies(r)
    <2>1. UNCHANGED <<tenant, row, entry>> /\ run'[r].pc = "dead"
      BY <1>13 DEF Dies, NoRun, TypeOK
    <2> QED
      BY <2>1
  <1> QED
    BY <1>3, <1>4, <1>5, <1>6, <1>7, <1>8, <1>9, <1>10, <1>11, <1>12, <1>13
    DEF Step, Loop, Provision, Adopts

(* Whoever adopts a version on a tenant overrules the others that began it. *)
LEMMA AdoptedByAnother ==
    ASSUME TypeOK, NEW r \in Rollouts, Deployed(r),
           NEW by \in Rollouts \cup {NoRollout}, r # by, NEW u \in Tenants, NEW v,
           Overrule(u, v, by), tenant'[u].version = v,
           \A t \in Tenants \ {u} : tenant'[t] = tenant[t]
    PROVE  \A t \in Tenants : Upgraded(r, t) /\ t \notin overruled'[r]
                                => tenant'[t].version = row[r].target
  <1> SUFFICES ASSUME NEW t \in Tenants, Upgraded(r, t), t \notin overruled'[r]
               PROVE  tenant'[t].version = row[r].target
    OBVIOUS
  <1>1. /\ t \notin overruled[r]
        /\ t = u => v = tenant[t].version
    BY DEF Overrule, Upgraded, Touched
  <1> QED
    BY <1>1 DEF Deployed

(* What adopting does.                                                     *)
LEMMA AdoptWrites ==
    ASSUME TypeOK, NEW r \in Rollouts, Match(r), Adopts(r)
    PROVE  /\ run[r].pc = "provision" /\ run[r].todo # {}
           /\ Current(r) \in Tenants
           /\ run'[r].pc \in {"rolling", "recordFail"}
           /\ UNCHANGED <<row, entry>>
           /\ Overrule(Current(r), row[r].target, r)
           /\ tenant'[Current(r)].version = row[r].target
           /\ \A t \in Tenants \ {Current(r)} : tenant'[t] = tenant[t]
           /\ ProvisionBreaks(r) => run'[r].pc = "recordFail"
  <1>1. run[r].pc = "provision" /\ run[r].todo # {}
    BY DEF Adopts, ProvisionBegins, ProvisionBreaks, Goto, Match, EntriesMatch, Begun
  <1>2. Current(r) \in Tenants
    BY <1>1, CurrentIn
  <1>3. /\ tenant'[Current(r)].version = row[r].target
        /\ \A t \in Tenants \ {Current(r)} : tenant'[t] = tenant[t]
    BY <1>2 DEF Adopts, ProvisionBegins, ProvisionBreaks, Begin, TypeOK, Tenant
  <1>4. /\ run'[r].pc \in {"rolling", "recordFail"}
        /\ ProvisionBreaks(r) => run'[r].pc = "recordFail"
    BY DEF Adopts, ProvisionBegins, ProvisionBreaks, Goto, TypeOK, Run
  <1> QED
    BY <1>1, <1>2, <1>3, <1>4 DEF Adopts, ProvisionBegins, ProvisionBreaks, Begin

(* Every step keeps deployed what the ledger calls upgraded.               *)
LEMMA DeployedKept ==
    IInv /\ (\A r \in Rollouts : Deployed(r)) /\ [Next]_vars
        => (\A r \in Rollouts : Deployed(r))'
  <1> SUFFICES ASSUME IInv, \A r \in Rollouts : Deployed(r), [Next]_vars,
                      NEW r \in Rollouts, NEW t \in Tenants,
                      Upgraded(r, t)', t \notin overruled'[r]
               PROVE  tenant'[t].version = row'[r].target
    BY DEF Deployed
  <1>1. TypeOK /\ \A s \in Rollouts : Match(s)
    BY DEF IInv
  <1>2. ASSUME UNCHANGED <<run, entry, overruled>>,
               row'[r].target = row[r].target, tenant'[t].version = tenant[t].version
        PROVE  tenant'[t].version = row'[r].target
    BY <1>2 DEF Deployed, Upgraded
  <1>3. ASSUME NEW s \in Rollouts, Step(s), ~Adopts(s)
        PROVE  tenant'[t].version = row'[r].target
    <2>1. /\ Upgraded(r, t) /\ row'[r].target = row[r].target
          /\ tenant'[t].version = tenant[t].version /\ UNCHANGED overruled
      BY <1>1, <1>3, UpgradedBefore, StepIsOwn DEF Others, Upgraded, Step
    <2> QED
      BY <2>1 DEF Deployed
  <1>4. ASSUME NEW s \in Rollouts, Adopts(s)
        PROVE  tenant'[t].version = row'[r].target
    <2>1. /\ run[s].pc = "provision" /\ run[s].todo # {}
          /\ Current(s) \in Tenants
          /\ run'[s].pc \in {"rolling", "recordFail"}
          /\ UNCHANGED <<row, entry>>
          /\ Overrule(Current(s), row[s].target, s)
          /\ tenant'[Current(s)].version = row[s].target
          /\ \A u \in Tenants \ {Current(s)} : tenant'[u] = tenant[u]
      BY <1>1, <1>4, AdoptWrites
    <2>2. \A u \in Rollouts \ {s} : run'[u] = run[u]
      BY <1>1, <1>4, StepIsOwn DEF Adopts, Others, Loop, Provision
    <2>3. CASE r # s
      <3>1. Upgraded(r, t)
        BY <2>1, <2>2, <2>3 DEF Upgraded
      <3>2. tenant'[t].version = row[r].target
        BY <1>1, <2>1, <2>3, <3>1, AdoptedByAnother
      <3> QED
        BY <2>1, <3>2
    <2>4. CASE r = s /\ t = Current(s)
      BY <2>1, <2>4
    <2>5. CASE r = s /\ t # Current(s)
      <3>1. Upgraded(r, t)
        BY <1>1, <2>1, <2>5
        DEF Upgraded, Match, EntriesMatch, Begun, Current, Done
      <3>2. t \notin overruled[r]
        BY <1>1, <2>1, <2>5 DEF Overrule, TypeOK
      <3> QED
        BY <2>1, <2>5, <3>1, <3>2 DEF Deployed
    <2> QED
      BY <2>3, <2>4, <2>5
  <1>5. CASE Boots
    <2>1. UNCHANGED <<tenant, entry, run, overruled>>
      BY <1>5 DEF Boots
    <2>2. \/ row'[r] = row[r]
          \/ row'[r] = [row[r] EXCEPT !.status = "failed", !.error = "restart"]
      BY <1>5 DEF Boots
    <2>3. \A w \in Row :
            [w EXCEPT !.status = "failed", !.error = "restart"].target = w.target
      BY DEF Row
    <2>4. row'[r].target = row[r].target
      BY <1>1, <2>2, <2>3 DEF TypeOK
    <2> QED
      BY <1>2, <2>1, <2>4
  <1>6. ASSUME NEW u \in Restless, OperatorProvisions(u)
        PROVE  tenant'[t].version = row'[r].target
    <2>1. PICK v \in OperatorAsks : Begin(u, v, NoRollout)
      BY <1>6 DEF OperatorProvisions
    <2>2. u \in Tenants /\ r # NoRollout
      BY RestlessAssumption, NoRolloutIsNone
    <2>3. /\ Overrule(u, v, NoRollout) /\ tenant'[u].version = v
          /\ \A w \in Tenants \ {u} : tenant'[w] = tenant[w]
      BY <1>1, <2>1, <2>2 DEF Begin, TypeOK, Tenant
    <2>4. UNCHANGED <<row, entry, run>>
      BY <1>6 DEF OperatorProvisions
    <2>5. Upgraded(r, t)
      BY <2>4 DEF Upgraded
    <2>6. tenant'[t].version = row[r].target
      BY <1>1, <2>2, <2>3, <2>5, AdoptedByAnother
    <2> QED
      BY <2>4, <2>6
  <1>7. CASE \E u \in Restless : OthersWriteState(u)
    <2>1. PICK u, state :
            /\ tenant' = [tenant EXCEPT ![u].state = state]
            /\ UNCHANGED <<row, entry, run, overruled>>
      BY <1>7 DEF OthersWriteState
    <2>2. tenant'[t].version = tenant[t].version
      BY <1>1, <2>1 DEF TypeOK, Tenant
    <2> QED
      BY <1>2, <2>1, <2>2
  <1>8. CASE UNCHANGED vars
    BY <1>2, <1>8 DEF vars
  <1> QED
    BY <1>3, <1>4, <1>5, <1>6, <1>7, <1>8 DEF Next, Step

(* A tenant the ledger calls succeeded has the rollout's target, unless    *)
(* the operator or another rollout has given it another version since the  *)
(* rollout began it, in every behaviour.                                   *)
THEOREM SucceededRunsTarget == Spec => []SucceededIsDeployed
  <1>1. Init => \A r \in Rollouts : Deployed(r)
    BY DEF Init, Deployed, Upgraded
  <1>2. (\A r \in Rollouts : Deployed(r)) => SucceededIsDeployed
    BY DEF Deployed, Upgraded, SucceededIsDeployed
  <1> QED
    BY <1>1, <1>2, MatchInitially, MatchKept, DeployedKept, PTL DEF Spec

-----------------------------------------------------------------------------
(* Aborts.                                                                 *)

(* At most one tenant is begun late, and none while the loop may still     *)
(* begin one.                                                              *)
Early == {"unused", "snapshot", "insert", "enter", "empty"}
FewLate(r) ==
    /\ ~row[r].abort => run[r].late = {}
    /\ run[r].pc \in Early \cup {"mark"} => run[r].late = {}
    /\ \E x : run[r].late \subseteq {x}

(* A step of a rollout other than those that matter to an abort.           *)
Quiet(r) == /\ ~MarkStarted(r) /\ ~RequestAbort(r) /\ ~Dies(r) /\ ~Unlock(r)

(* It changes neither the flag nor who is late, and only CheckAbort goes   *)
(* to where a tenant is begun.                                             *)
LEMMA QuietStep ==
    ASSUME TypeOK, NEW r \in Rollouts, Step(r), Quiet(r)
    PROVE  /\ row'[r].abort = row[r].abort /\ run'[r].late = run[r].late
           /\ run'[r].pc \in Early \cup {"mark"} =>
                run[r].pc \in Early \/ ~row[r].abort
  <1> USE DEF TypeOK, Run, Row, Answered, Goto, Finalize
  <1>1. CASE StartRollout(r)
    BY <1>1 DEF StartRollout, Early
  <1>2. CASE TakeSnapshot(r)
    BY <1>2 DEF TakeSnapshot, Early
  <1>3. CASE EnterTenant(r)
    BY <1>3 DEF EnterTenant, Early
  <1>4. CASE InsertRow(r) \/ CompleteEmpty(r) \/ StartFails(r)
    BY <1>4 DEF InsertRow, CompleteEmpty, StartFails, Early
  <1>5. CASE CheckAbort(r)
    BY <1>5 DEF CheckAbort, Early
  <1>6. CASE Provision(r) \/ LoopFails(r)
    BY <1>6 DEF Provision, ProvisionRefused, ProvisionBreaks, ProvisionBegins,
                ProvisionSucceeds, ProvisionFails, LoopFails, Early, Looping
  <1>7. CASE RecordSuccess(r) \/ RecordFailure(r) \/ SkipTenant(r)
    BY <1>7 DEF RecordSuccess, RecordFailure, SkipTenant, AfterRecord, Early
  <1>8. CASE FailRollout(r) \/ AbortRollout(r) \/ CompleteRollout(r)
             \/ FinalizeError(r)
    BY <1>8 DEF FailRollout, AbortRollout, CompleteRollout, FinalizeError, Early
  <1> QED
    BY <1>1, <1>2, <1>3, <1>4, <1>5, <1>6, <1>7, <1>8 DEF Step, Quiet, Start, Loop

(* Every step of a rollout keeps to its abort.                             *)
LEMMA FewLateKept ==
    ASSUME TypeOK, NEW r \in Rollouts, FewLate(r), Step(r)
    PROVE  FewLate(r)'
  <1> USE DEF FewLate
  <1>1. CASE MarkStarted(r)
    <2>1. run[r].pc = "mark" /\ run'[r].pc \in {"provision", "error"}
          /\ UNCHANGED row
          /\ run'[r].late = IF row[r].abort THEN run[r].late \cup {Current(r)}
                                            ELSE run[r].late
      BY <1>1 DEF MarkStarted, TypeOK, Run
    <2>2. run'[r].late \subseteq {Current(r)}
      BY <2>1
    <2> QED
      BY <2>1, <2>2 DEF Early
  <1>2. CASE Dies(r) \/ Unlock(r)
    <2>1. run'[r].late = {} /\ run'[r].pc \in {"dead", "ended"}
      BY <1>2 DEF Dies, Unlock, NoRun, TypeOK
    <2> QED
      BY <2>1 DEF Early
  <1>3. CASE RequestAbort(r)
    <2>1. row'[r].abort /\ UNCHANGED run
      BY <1>3 DEF RequestAbort, TypeOK, Row
    <2> QED
      BY <2>1
  <1>4. CASE Quiet(r)
    BY <1>4, QuietStep
  <1> QED
    BY <1>1, <1>2, <1>3, <1>4 DEF Quiet

(* Every step keeps to every abort.                                        *)
LEMMA AllFewLateKept ==
    IInv /\ (\A r \in Rollouts : FewLate(r)) /\ [Next]_vars
        => (\A r \in Rollouts : FewLate(r))'
  <1> SUFFICES ASSUME IInv, \A r \in Rollouts : FewLate(r), [Next]_vars
               PROVE  \A r \in Rollouts : FewLate(r)'
    OBVIOUS
  <1>1. TypeOK
    BY DEF IInv
  <1>2. ASSUME NEW s \in Rollouts, Step(s)
        PROVE  \A r \in Rollouts : FewLate(r)'
    <2>1. \A r \in Rollouts \ {s} : FewLate(r)'
      BY <1>1, <1>2, StepIsOwn DEF Others, Step, FewLate
    <2> QED
      BY <1>1, <1>2, <2>1, FewLateKept
  <1>3. ASSUME UNCHANGED run, \A r \in Rollouts : row'[r].abort = row[r].abort
        PROVE  \A r \in Rollouts : FewLate(r)'
    BY <1>3 DEF FewLate
  <1>4. CASE Boots
    <2>1. \A r \in Rollouts :
            \/ row'[r] = row[r]
            \/ row'[r] = [row[r] EXCEPT !.status = "failed", !.error = "restart"]
      BY <1>4 DEF Boots
    <2>2. \A r \in Rollouts : row'[r].abort = row[r].abort
      <3>1. \A x \in Row :
              [x EXCEPT !.status = "failed", !.error = "restart"].abort = x.abort
        BY DEF Row
      <3> QED
        BY <1>1, <2>1, <3>1 DEF TypeOK
    <2> QED
      BY <1>3, <1>4, <2>2 DEF Boots
  <1>5. CASE \/ UNCHANGED vars
             \/ \E t \in Restless : OperatorProvisions(t) \/ OthersWriteState(t)
    BY <1>3, <1>5 DEF vars, OperatorProvisions, OthersWriteState
  <1> QED
    BY <1>2, <1>4, <1>5 DEF Next, Step

(* After an abort at most one more tenant is begun, in every behaviour.    *)
THEOREM AbortsStop == Spec => []AbortStops
  <1>1. Init => \A r \in Rollouts : FewLate(r)
    <2> SUFFICES ASSUME Init, NEW r \in Rollouts
                 PROVE  FewLate(r)
      OBVIOUS
    <2>1. run[r] = NoRun("unused") /\ row[r].abort = FALSE
      BY DEF Init
    <2>2. run[r].late = {}
      BY <2>1 DEF NoRun
    <2> QED
      BY <2>1, <2>2 DEF FewLate
  <1>2. (\A r \in Rollouts : FewLate(r)) => AbortStops
    <2> SUFFICES ASSUME NEW r \in Rollouts, FewLate(r)
                 PROVE  Cardinality(run[r].late) <= 1
      BY DEF AbortStops
    <2>1. PICK x : run[r].late \subseteq {x}
      BY DEF FewLate
    <2>2. run[r].late = {} \/ run[r].late = {x}
      BY <2>1
    <2>3. Cardinality(run[r].late) \in {0, 1}
      BY <2>2, FS_EmptySet, FS_Singleton
    <2> QED
      BY <2>3
  <1> QED
    BY <1>1, <1>2, MatchInitially, MatchKept, AllFewLateKept, PTL DEF Spec
=============================================================================
