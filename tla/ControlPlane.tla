---------------------------- MODULE ControlPlane ----------------------------
(***************************************************************************)
(* The control plane as the two portals see it: the state of every tenant  *)
(* and the fleet rollouts, with the work that goes on there whatever a     *)
(* page does.  A provisioning run, a signup and a rollout take their own   *)
(* time and may fail (TenantLifecycle and FleetRollout have their steps);  *)
(* here they are what a page can observe of them between two answers.      *)
(***************************************************************************)
EXTENDS Naturals, Sequences, SequencesExt

CONSTANTS
    Tenants,
    NoTenant,
    MaxRollouts,   \* bound on fleet rollouts
    MaxChanges     \* bound on signups and rollouts that others start

ASSUME NoTenantIsNone == NoTenant \notin Tenants

VARIABLES
    fleet,      \* the current state in each tenant's row: the tenants there may be
    runs,       \* the tenants a provisioning run is working on
    signups,    \* the tenants whose portal signup is not answered yet
    rollouts,   \* the status of each fleet rollout, the newest last
    todo,       \* the tenants the newest rollout has still to update
    rolling,    \* the tenant it is updating
    stopping,   \* its abort has been asked for
    changes     \* signups and rollouts others have started

cpVars == <<fleet, runs, signups, rollouts, todo, rolling, stopping, changes>>
rolloutVars == <<rollouts, todo, rolling, stopping>>

\* The states of a row; "upgrading" stands for every transient state a
\* ready tenant passes through, "none" for no row.
States == {"none", "provisioning", "ready", "upgrading", "failed", "deprovisioned"}

CPInit(tenants) ==
    /\ fleet \in [tenants -> {"none", "ready"}]
    /\ runs = {} /\ signups = {} /\ todo = {}
    /\ rollouts = <<>> /\ rolling = NoTenant /\ stopping = FALSE
    /\ changes = 0

Running == rollouts # <<>> /\ Last(rollouts) = "running"

\* The rollout a GET answers with: the running one, 0 (null) if none is.
RunningRollout == IF Running THEN Len(rollouts) ELSE 0

-----------------------------------------------------------------------------
(* What a request makes the control plane do. *)

\* A signup has stored its row and begun the run.
Signup(t) ==
    /\ fleet[t] = "none"
    /\ fleet' = [fleet EXCEPT ![t] = "provisioning"]
    /\ runs' = runs \cup {t}
    /\ signups' = signups \cup {t}

\* An operator's create call only stores the row.
CreateRow(t) ==
    /\ fleet[t] = "none"
    /\ fleet' = [fleet EXCEPT ![t] = "provisioning"]
    /\ UNCHANGED <<runs, signups>>

\* A provision call begins a run: an upgrade of a ready tenant, a first or
\* repeated provisioning of any other.  The tenant's lock lets one run in.
RunProvision(t) ==
    /\ fleet[t] # "none" /\ t \notin runs
    /\ fleet' = [fleet EXCEPT ![t] =
                    IF fleet[t] = "ready" THEN "upgrading" ELSE "provisioning"]
    /\ runs' = runs \cup {t}
    /\ UNCHANGED signups

Deprovision(t) ==
    /\ fleet[t] # "none" /\ t \notin runs
    /\ fleet' = [fleet EXCEPT ![t] = "deprovisioned"]
    /\ UNCHANGED <<runs, signups>>

StartRollout ==
    /\ ~Running /\ Len(rollouts) < MaxRollouts
    /\ rollouts' = Append(rollouts, "running")
    /\ todo' = {t \in DOMAIN fleet : fleet[t] = "ready"}
    /\ rolling' = NoTenant /\ stopping' = FALSE

\* The abort route refuses a rollout that has ended; else it leaves a note
\* the orchestrator reads between two tenants.
AbortRollout(n) ==
    /\ stopping' = (stopping \/ (Running /\ n = Len(rollouts)))
    /\ UNCHANGED <<rollouts, todo, rolling>>

-----------------------------------------------------------------------------
(* What goes on by itself. *)

RunEnds(t) ==
    /\ t \in runs
    /\ \E s \in {"ready", "failed"} : fleet' = [fleet EXCEPT ![t] = s]
    /\ runs' = runs \ {t}
    /\ UNCHANGED <<signups, changes, rolloutVars>>

\* A signup whose run failed deletes the row it stored.
SignupEnds(t) ==
    /\ t \in signups /\ t \notin runs
    /\ fleet' = [fleet EXCEPT ![t] = IF @ = "failed" THEN "none" ELSE @]
    /\ signups' = signups \ {t}
    /\ UNCHANGED <<runs, changes, rolloutVars>>

End(status) ==
    /\ rollouts' = [rollouts EXCEPT ![Len(rollouts)] = status]
    /\ todo' = {} /\ rolling' = NoTenant /\ stopping' = FALSE

RollNext(t) ==
    /\ Running /\ rolling = NoTenant /\ ~stopping /\ t \in todo
    /\ fleet[t] = "ready"
    /\ RunProvision(t)
    /\ rolling' = t
    /\ UNCHANGED <<rollouts, todo, stopping, changes>>

Rolled ==
    /\ Running /\ rolling \in Tenants /\ rolling \notin runs
    /\ IF fleet[rolling] = "ready"
       THEN todo' = todo \ {rolling} /\ rolling' = NoTenant /\ UNCHANGED <<rollouts, stopping>>
       ELSE End("failed")
    /\ UNCHANGED <<fleet, runs, signups, changes>>

\* No tenant is left, an abort was asked for before the next one, or the
\* next one cannot be updated any more.
RolloutEnds ==
    /\ Running /\ rolling = NoTenant
    /\ \/ todo = {} /\ End("completed")
       \/ stopping /\ todo # {} /\ End("aborted")
       \/ \E t \in todo : ~stopping /\ t \notin runs /\ fleet[t] # "ready" /\ End("failed")
    /\ UNCHANGED <<fleet, runs, signups, changes>>

\* Another tab of the account signs up, another operator starts a rollout.
SignsElsewhere(t) ==
    /\ changes < MaxChanges
    /\ changes' = changes + 1
    /\ Signup(t)
    /\ UNCHANGED rolloutVars

RollsElsewhere ==
    /\ changes < MaxChanges
    /\ changes' = changes + 1
    /\ StartRollout
    /\ UNCHANGED <<fleet, runs, signups>>

Progress ==
    \/ Rolled
    \/ RolloutEnds
    \/ \E t \in DOMAIN fleet : RunEnds(t) \/ SignupEnds(t) \/ RollNext(t)

CPNext ==
    \/ Progress
    \/ RollsElsewhere
    \/ \E t \in DOMAIN fleet : SignsElsewhere(t)

=============================================================================
