--------------------------- MODULE RolloutLedger ---------------------------
(***************************************************************************)
(* What fleet_rollouts and fleet_rollout_tenants promise whoever reads     *)
(* them: a rollout rolls its tenants one at a time and halts at the first  *)
(* that fails; completed means every tenant succeeded or was skipped,      *)
(* aborted that none was left waiting.  What is written stands once a      *)
(* newer rollout is opened; but for that a boot may still find it running. *)
(* Until then the rollout's own loop corrects two things: the row a boot   *)
(* took for an orphan is ended all the same, and an end whose answer the   *)
(* loop never had becomes failed.                                          *)
(***************************************************************************)
EXTENDS Naturals

CONSTANTS
    Rollouts,   \* numbered in the order they are opened
    Tenants

VARIABLES
    status,     \* of a rollout
    outcome     \* of a tenant in a rollout

vars == <<status, outcome>>

Statuses == {"none", "running", "orphaned", "completed", "aborted", "failed"}

Init == /\ status = [r \in Rollouts |-> "none"]
        /\ outcome = [r \in Rollouts |-> [t \in Tenants |-> "none"]]

Newest(r)  == \A s \in Rollouts : s > r => status[s] = "none"
Unended(r) == Newest(r) /\ status[r] \in {"running", "orphaned"}
All(r, S)  == \A t \in Tenants : outcome[r][t] \in S

Open(r) ==
    /\ Newest(r) /\ status[r] = "none"
    /\ status' = [status EXCEPT ![r] = "running"]
    /\ UNCHANGED outcome

(* The tenants are entered before the first of them is rolled.             *)
Enter(r, t) ==
    /\ Unended(r) /\ outcome[r][t] = "none"
    /\ All(r, {"none", "pending", "skipped"})
    /\ \E o \in {"pending", "skipped"} : outcome' = [outcome EXCEPT ![r][t] = o]
    /\ UNCHANGED status

(* One at a time, and none after a failure.                                *)
Roll(r, t) ==
    /\ Unended(r) /\ outcome[r][t] = "pending"
    /\ All(r, {"pending", "skipped", "succeeded"})
    /\ outcome' = [outcome EXCEPT ![r][t] = "rolling"]
    /\ UNCHANGED status

Settle(r, t) ==
    /\ Unended(r) /\ outcome[r][t] = "rolling"
    /\ \E o \in {"succeeded", "failed"} : outcome' = [outcome EXCEPT ![r][t] = o]
    /\ UNCHANGED status

Skip(r, t) ==
    /\ Unended(r) /\ outcome[r][t] = "pending"
    /\ All(r, {"pending", "skipped", "succeeded"})
    /\ outcome' = [outcome EXCEPT ![r][t] = "skipped"]
    /\ UNCHANGED status

Orphan(R) ==
    /\ \A r \in R : status[r] = "running"
    /\ status' = [r \in Rollouts |-> IF r \in R THEN "orphaned" ELSE status[r]]
    /\ UNCHANGED outcome

End(r) ==
    /\ Unended(r)
    /\ \/ /\ All(r, {"succeeded", "skipped"})
          /\ \E s \in {"completed", "aborted"} :
                status' = [status EXCEPT ![r] = s]
       \/ status' = [status EXCEPT ![r] = "failed"]
    /\ UNCHANGED outcome

Correct(r) ==
    /\ Newest(r) /\ status[r] \in {"completed", "aborted"}
    /\ status' = [status EXCEPT ![r] = "failed"]
    /\ UNCHANGED outcome

Next ==
    \/ \E r \in Rollouts :
        \/ Open(r) \/ End(r) \/ Correct(r)
        \/ \E t \in Tenants : Enter(r, t) \/ Roll(r, t) \/ Settle(r, t) \/ Skip(r, t)
    \/ \E R \in SUBSET Rollouts : Orphan(R)

Spec == Init /\ [][Next]_vars

=============================================================================
