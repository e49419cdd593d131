---------------------------- MODULE FleetRollout ----------------------------
(***************************************************************************)
(* Fleet rolling updates (fleet-rollout-orchestrator.ts): a background     *)
(* loop in one control-plane process provisions the tenants one after      *)
(* another, under an advisory lock held by a session of its own, and keeps *)
(* its ledger in two tables, one statement at a time.  The process may die *)
(* at any await; another may boot beside it, as a rolling update of the    *)
(* control plane does, and cleans up after the dead.                       *)
(*                                                                         *)
(* provisionTenant appears as TenantLifecycle has it, reduced to what it   *)
(* rejects, the version it adopts and how it ends; the operator calls it   *)
(* too, and everybody else writes the tenants' states.                     *)
(***************************************************************************)
EXTENDS Naturals, FiniteSets

CONSTANTS
    NumRollouts,    \* rollouts, numbered in the order they take the lock
    Tenants,
    Restless,       \* the tenants others than the rollouts act upon
    Targets,        \* versions a rollout may ask for
    InitialVersion,
    OperatorAsks,   \* bound: versions the operator asks for beside
    OthersWrite     \* bound: states others write

Rollouts  == 1 .. NumRollouts
NoRollout == 0
Versions  == Targets \cup {InitialVersion}

ASSUME RolloutsAssumption == NumRollouts \in Nat
ASSUME RestlessAssumption == Restless \subseteq Tenants
ASSUME OperatorAssumption == OperatorAsks \subseteq Versions

VARIABLES
    tenant,     \* tenant[t]: its registry row's state and version
    row,        \* row[r]: the row of fleet_rollouts
    entry,      \* entry[r][t]: the row of fleet_rollout_tenants
    run,        \* run[r]: the await and the tenants of the loop
    lock,       \* whose session holds advisory lock (0, 1)
    overruled   \* overruled[r]: tenants another has given a version since
                \* r began them; a history variable

vars == <<tenant, row, entry, run, lock, overruled>>

(* "upgrading" stands for provisioning with a subdomain, too, "failed" for *)
(* deprovisioned and "maintenance" for restoring.                          *)
States == {"ready", "sleeping", "upgrading", "failed", "maintenance"}
Tenant == [state: States, version: Versions]

ASSUME OthersAssumption == OthersWrite \subseteq States

(* error is what failed_error says: nothing, "control-plane restart", or   *)
(* what the loop wrote.                                                    *)
Row == [status: {"none", "running", "completed", "aborted", "failed"},
        target: Versions, abort: BOOLEAN, error: {"none", "restart", "run"}]

Entries == {"none", "pending", "skipped", "rolling", "succeeded", "failed"}

Starting == {"snapshot", "insert", "enter", "empty"}
Looping  == {"check", "mark", "provision", "rolling", "record", "recordFail",
             "fail", "skip", "abort", "complete"}
Live     == Starting \cup Looping \cup {"error", "unlock"}

(* rest: the tenants not yet entered; todo: those not yet done with.       *)
(* late, a history variable: those begun after an abort was recorded.      *)
Run == [pc: Live \cup {"unused", "ended", "dead"},
        rest: SUBSET Tenants, todo: SUBSET Tenants, late: SUBSET Tenants]

NoRun(pc) == [pc |-> pc, rest |-> {}, todo |-> {}, late |-> {}]

(* Tenants are taken in the order of created_at; which comes first is left *)
(* open, and always the same.                                              *)
First(S) == CHOOSE t \in S : TRUE

Init ==
    /\ \E asleep \in SUBSET Restless :
          tenant = [t \in Tenants |->
                      [state |-> IF t \in asleep THEN "sleeping" ELSE "ready",
                       version |-> InitialVersion]]
    /\ row = [r \in Rollouts |->
                [status |-> "none", target |-> InitialVersion, abort |-> FALSE,
                 error |-> "none"]]
    /\ entry = [r \in Rollouts |-> [t \in Tenants |-> "none"]]
    /\ run = [r \in Rollouts |-> NoRun("unused")]
    /\ lock = NoRollout
    /\ overruled = [r \in Rollouts |-> {}]

Goto(r, from, to) ==
    run[r].pc = from /\ run' = [run EXCEPT ![r].pc = to]

(* A statement is applied, and answered: or its answer is lost, and the    *)
(* await throws over what is done.                                         *)
Answered(r, from, to, lost) ==
    Goto(r, from, to) \/ Goto(r, from, lost)

SetEntry(r, t, o) == entry' = [entry EXCEPT ![r][t] = o]

(* finalizeRollout: whatever status the row has.                           *)
Finalize(r, status, error) ==
    row' = [row EXCEPT ![r].status = status,
                       ![r].error = IF error = "none" THEN @ ELSE error]

-----------------------------------------------------------------------------
(* startFleetRollout                                                       *)

(* pg_try_advisory_lock on a session of its own; 409 when it is held.      *)
StartRollout(r) ==
    /\ run[r].pc = "unused" /\ \A s \in 1 .. r - 1 : run[s].pc # "unused"
    /\ lock = NoRollout /\ lock' = r
    /\ run' = [run EXCEPT ![r].pc = "snapshot"]
    /\ \E v \in Targets : row' = [row EXCEPT ![r].target = v]
    /\ UNCHANGED <<tenant, entry, overruled>>

(* SELECT of all tenants and their states; skipSleeping is a parameter.    *)
TakeSnapshot(r) ==
    /\ run[r].pc = "snapshot"
    /\ \E skipSleeping \in BOOLEAN :
        LET taken == {"ready"} \cup (IF skipSleeping THEN {} ELSE {"sleeping"})
        IN  run' = [run EXCEPT
              ![r].pc = "insert", ![r].rest = Tenants,
              ![r].todo = {t \in Tenants : tenant[t].state \in taken}]
    /\ UNCHANGED <<tenant, row, entry, lock, overruled>>

InsertRow(r) ==
    /\ Answered(r, "insert", IF run[r].rest # {} THEN "enter" ELSE "empty",
                "unlock")
    /\ row' = [row EXCEPT ![r].status = "running"]
    /\ UNCHANGED <<tenant, entry, lock, overruled>>

(* INSERT of one tenant's row: first the eligible ones, then the others.   *)
NextEntered(r) ==
    LET eligible == run[r].rest \cap run[r].todo
    IN  IF eligible # {} THEN First(eligible) ELSE First(run[r].rest)

AfterEnter(r, rest) ==
    CASE rest # {}                     -> "enter"
      [] rest = {} /\ run[r].todo = {} -> "empty"
      [] OTHER                         -> "check"

EnterTenant(r) ==
    /\ run[r].pc = "enter"
    /\ LET t == NextEntered(r)
           rest == run[r].rest \ {t}
       IN  /\ SetEntry(r, t, IF t \in run[r].todo THEN "pending" ELSE "skipped")
           /\ \E pc \in {AfterEnter(r, rest), "unlock"} :
                run' = [run EXCEPT ![r].pc = pc, ![r].rest = rest]
    /\ UNCHANGED <<tenant, row, lock, overruled>>

(* Nobody is eligible: completed at once; the lock goes back in any case.  *)
CompleteEmpty(r) ==
    /\ Goto(r, "empty", "unlock")
    /\ Finalize(r, "completed", "none")
    /\ UNCHANGED <<tenant, entry, lock, overruled>>

(* Variant: a failed start leaves the lock to its pooled session.          *)
StartFailsKeepingLock(r) ==
    /\ run[r].pc \in Starting
    /\ run' = [run EXCEPT ![r] = NoRun("ended")]
    /\ UNCHANGED <<tenant, row, entry, lock, overruled>>

(* A statement is not applied: unlock and answer 500; the row stays.       *)
StartFails(r) ==
    /\ run[r].pc \in Starting
    /\ run' = [run EXCEPT ![r].pc = "unlock"]
    /\ UNCHANGED <<tenant, row, entry, lock, overruled>>

Start(r) == \/ TakeSnapshot(r) \/ InsertRow(r) \/ EnterTenant(r)
            \/ CompleteEmpty(r) \/ StartFails(r)

-----------------------------------------------------------------------------
(* runRollout                                                              *)

CheckAbort(r) ==
    /\ Goto(r, "check", IF row[r].abort THEN "skip" ELSE "mark")
    /\ UNCHANGED <<tenant, row, entry, lock, overruled>>

Current(r) == First(run[r].todo)

MarkStarted(r) ==
    /\ run[r].pc = "mark"
    /\ LET late == IF row[r].abort THEN run[r].late \cup {Current(r)}
                                   ELSE run[r].late
       IN  \E pc \in {"provision", "error"} :
              run' = [run EXCEPT ![r].pc = pc, ![r].late = late]
    /\ SetEntry(r, Current(r), "rolling")
    /\ UNCHANGED <<tenant, row, lock, overruled>>

(* Phase 1 of provisionTenant with a version: a run in flight, a state     *)
(* that takes no rolling update, or a version already running is refused.  *)
Refuses(t, v) ==
    \/ tenant[t].state \in {"upgrading", "maintenance"}
    \/ tenant[t].state = "sleeping" /\ tenant[t].version # v
    \/ tenant[t].state = "ready" /\ tenant[t].version = v

(* Who adopts a new version on t overrules the rollouts that began it.     *)
Touched(r, t) == entry[r][t] \in {"rolling", "succeeded", "failed"}
Overrule(t, v, by) ==
    overruled' = [r \in Rollouts |->
        IF r # by /\ Touched(r, t) /\ v # tenant[t].version
          THEN overruled[r] \cup {t} ELSE overruled[r]]

(* The version is adopted and a rolling update marked.                     *)
Begin(t, v, by) ==
    /\ ~Refuses(t, v)
    /\ tenant' = [tenant EXCEPT
          ![t].state = IF @ = "sleeping" THEN @ ELSE "upgrading",
          ![t].version = v]
    /\ Overrule(t, v, by)

(* Refused; or the tenant's lock is not to be had in time.                 *)
ProvisionRefused(r) ==
    /\ Goto(r, "provision", "recordFail")
    /\ UNCHANGED <<tenant, row, entry, lock, overruled>>

(* The version is adopted, and the next read throws outside the try.       *)
ProvisionBreaks(r) ==
    /\ Goto(r, "provision", "recordFail")
    /\ ~Refuses(Current(r), row[r].target)
    /\ tenant' = [tenant EXCEPT ![Current(r)].version = row[r].target]
    /\ Overrule(Current(r), row[r].target, r)
    /\ UNCHANGED <<row, entry, lock>>

(* Variant: the version is not adopted.                                    *)
ProvisionBeginsUnversioned(r) ==
    /\ Goto(r, "provision", "rolling")
    /\ ~Refuses(Current(r), row[r].target)
    /\ tenant' = [tenant EXCEPT ![Current(r)].state = "upgrading"]
    /\ UNCHANGED <<row, entry, lock, overruled>>

ProvisionBegins(r) ==
    /\ Goto(r, "provision", "rolling")
    /\ Begin(Current(r), row[r].target, r)
    /\ UNCHANGED <<row, entry, lock>>

ProvisionSucceeds(r) ==
    /\ Goto(r, "rolling", "record")
    /\ tenant' = [tenant EXCEPT ![Current(r)].state = "ready"]
    /\ UNCHANGED <<row, entry, lock, overruled>>

(* The failure is recorded in the tenant's row, unless its lock is taken.  *)
ProvisionFails(r) ==
    /\ Goto(r, "rolling", "recordFail")
    /\ \/ tenant' = [tenant EXCEPT ![Current(r)].state = "failed"]
       \/ UNCHANGED tenant
    /\ UNCHANGED <<row, entry, lock, overruled>>

AfterRecord(todo) == IF todo = {} THEN "complete" ELSE "check"

RecordSuccess(r) ==
    /\ run[r].pc = "record"
    /\ SetEntry(r, Current(r), "succeeded")
    /\ LET todo == run[r].todo \ {Current(r)}
       IN  \E pc \in {AfterRecord(todo), "error"} :
              run' = [run EXCEPT ![r].pc = pc, ![r].todo = todo]
    /\ UNCHANGED <<tenant, row, lock, overruled>>

(* Variant: the rollout goes on after a failure.                           *)
RecordFailureAndGoOn(r) ==
    /\ run[r].pc = "recordFail"
    /\ SetEntry(r, Current(r), "failed")
    /\ LET todo == run[r].todo \ {Current(r)}
       IN  run' = [run EXCEPT ![r].pc = AfterRecord(todo), ![r].todo = todo]
    /\ UNCHANGED <<tenant, row, lock, overruled>>

RecordFailure(r) ==
    /\ Answered(r, "recordFail", "fail", "error")
    /\ SetEntry(r, Current(r), "failed")
    /\ UNCHANGED <<tenant, row, lock, overruled>>

FailRollout(r) ==
    /\ Answered(r, "fail", "unlock", "error")
    /\ Finalize(r, "failed", "run")
    /\ UNCHANGED <<tenant, entry, lock, overruled>>

(* markRemainingTenantsSkipped, one UPDATE of a pending row at a time.     *)
SkipTenant(r) ==
    /\ run[r].pc = "skip"
    /\ SetEntry(r, Current(r), "skipped")
    /\ LET todo == run[r].todo \ {Current(r)}
           next == IF todo = {} THEN "abort" ELSE "skip"
       IN  \E pc \in {next, "error"} :
              run' = [run EXCEPT ![r].pc = pc, ![r].todo = todo]
    /\ UNCHANGED <<tenant, row, lock, overruled>>

AbortRollout(r) ==
    /\ Answered(r, "abort", "unlock", "error")
    /\ Finalize(r, "aborted", "none")
    /\ UNCHANGED <<tenant, entry, lock, overruled>>

CompleteRollout(r) ==
    /\ Answered(r, "complete", "unlock", "error")
    /\ Finalize(r, "completed", "none")
    /\ UNCHANGED <<tenant, entry, lock, overruled>>

(* Variant: the lock is released by the loop's last statement.             *)
FinalizeErrorKeepingLock(r) ==
    /\ Goto(r, "error", "ended")
    /\ Finalize(r, "failed", "run") \/ UNCHANGED row
    /\ UNCHANGED <<tenant, entry, lock, overruled>>

(* A statement of the loop is not applied.                                 *)
LoopFails(r) ==
    /\ run[r].pc \in Looping \ {"provision", "rolling"}
    /\ run' = [run EXCEPT ![r].pc = "error"]
    /\ UNCHANGED <<tenant, row, entry, lock, overruled>>

(* The catch finalizes, over any end written before, and may fail too.     *)
FinalizeError(r) ==
    /\ Goto(r, "error", "unlock")
    /\ Finalize(r, "failed", "run") \/ UNCHANGED row
    /\ UNCHANGED <<tenant, entry, lock, overruled>>

(* An unlock fails with its session: the pool sets no statement timeout.   *)
Unlock(r) ==
    /\ run[r].pc = "unlock"
    /\ run' = [run EXCEPT ![r] = NoRun("ended")]
    /\ lock' = NoRollout
    /\ UNCHANGED <<tenant, row, entry, overruled>>

Provision(r) == \/ ProvisionRefused(r)  \/ ProvisionBreaks(r)
                \/ ProvisionBegins(r)   \/ ProvisionSucceeds(r)
                \/ ProvisionFails(r)
Loop(r) == \/ CheckAbort(r)    \/ MarkStarted(r)   \/ Provision(r)
           \/ RecordSuccess(r) \/ RecordFailure(r) \/ FailRollout(r)
           \/ SkipTenant(r)    \/ AbortRollout(r)  \/ CompleteRollout(r)
           \/ LoopFails(r)     \/ FinalizeError(r) \/ Unlock(r)

-----------------------------------------------------------------------------
(* Operators, processes, time, and the tenants' own life.                  *)

(* abortFleetRollout                                                       *)
RequestAbort(r) ==
    /\ row[r].status = "running"
    /\ row' = [row EXCEPT ![r].abort = TRUE]
    /\ UNCHANGED <<tenant, entry, run, lock, overruled>>

(* The process of a rollout dies, and its sessions with it; so it does     *)
(* when the lock's session is lost, for nothing listens to its errors.     *)
(* Which other rollouts the process ran need not be said: there is none.   *)
Dies(r) ==
    /\ run[r].pc \in Live
    /\ run' = [run EXCEPT ![r] = NoRun("dead")]
    /\ lock' = IF lock = r THEN NoRollout ELSE lock
    /\ UNCHANGED <<tenant, row, entry, overruled>>

Orphaned(r) == row[r].status = "running"

(* A process boots, after the death of another or beside it, as in a       *)
(* rolling update: markOrphanRunningRolloutsFailed ends the rows still     *)
(* running of those started before the grace period; any may be.           *)
Boots ==
    /\ \E started \in SUBSET Rollouts :
        row' = [r \in Rollouts |->
                  IF r \in started /\ Orphaned(r)
                    THEN [row[r] EXCEPT !.status = "failed", !.error = "restart"]
                    ELSE row[r]]
    /\ UNCHANGED <<tenant, entry, run, lock, overruled>>

(* The operator's own POST .../provision with a version, at any time.      *)
OperatorProvisions(t) ==
    /\ \E v \in OperatorAsks : Begin(t, v, NoRollout)
    /\ UNCHANGED <<row, entry, run, lock>>

(* Everybody else writes the state, whatever it was: the operator's PATCH, *)
(* the end of a provision of hers, a deprovision or restore, the scaler    *)
(* and the activator.                                                      *)
OthersWriteState(t) ==
    /\ \E s \in OthersWrite \ {tenant[t].state} :
          tenant' = [tenant EXCEPT ![t].state = s]
    /\ UNCHANGED <<row, entry, run, lock, overruled>>

-----------------------------------------------------------------------------
Next ==
    \/ \E r \in Rollouts : \/ StartRollout(r) \/ Start(r) \/ Loop(r)
                           \/ RequestAbort(r) \/ Dies(r)
    \/ Boots
    \/ \E t \in Restless : OperatorProvisions(t) \/ OthersWriteState(t)

Spec == Init /\ [][Next]_vars

(* Only that an awaited call settles: provisionTenant, too, ends.          *)
FairSpec == Spec /\ \A r \in Rollouts : WF_vars(Start(r) \/ Loop(r))

-----------------------------------------------------------------------------
(* Properties.                                                             *)

(* Every variable holds a value of its type.                               *)
TypeOK ==
    /\ tenant \in [Tenants -> Tenant]
    /\ row \in [Rollouts -> Row]
    /\ entry \in [Rollouts -> [Tenants -> Entries]]
    /\ run \in [Rollouts -> Run]
    /\ lock \in Rollouts \cup {NoRollout}
    /\ overruled \in [Rollouts -> SUBSET Tenants]

(* One rollout at a time, across processes, failures and restarts: whoever *)
(* is between taking the lock and giving it back is its holder             *)
(* (fleet-rollout-orchestrator.ts:11-14).                                  *)
Exclusive == \A r \in Rollouts : run[r].pc \in Live <=> lock = r

(* A tenant the ledger calls succeeded has the rollout's target, whatever  *)
(* is done to it beside, unless the operator or another rollout has given  *)
(* it another version after the rollout began it.                          *)
SucceededIsDeployed ==
    \A r \in Rollouts, t \in Tenants :
        entry[r][t] = "succeeded" /\ t \notin overruled[r]
            => tenant[t].version = row[r].target

(* After an abort at most one more tenant starts: the one whose check had  *)
(* been made (fleet-rollout-orchestrator.ts:26-27).                        *)
AbortStops == \A r \in Rollouts : Cardinality(run[r].late) <= 1

(* The lock is always given back, whatever fails on the way.               *)
LockFreed == \A r \in Rollouts : lock = r ~> lock # r

(* How the tables read as the ledger.                                      *)
StatusOf(w) == IF w.status = "failed" /\ w.error = "restart"
                 THEN "orphaned" ELSE w.status
LedgerStatus == [r \in Rollouts |-> StatusOf(row[r])]
Ledger == INSTANCE RolloutLedger WITH status <- LedgerStatus, outcome <- entry

(* Through failures, lost answers, deaths and boots beside a live loop,    *)
(* the tables that runRollout writes one statement at a time keep the      *)
(* ledger's promise.                                                       *)
LedgerSpec == Ledger!Spec

=============================================================================
