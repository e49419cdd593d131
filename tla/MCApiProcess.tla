---------------------------- MODULE MCApiProcess ----------------------------
EXTENDS ApiProcess, TLC
CONSTANTS r1, r2
(* A runner and the pods of the newest image, and a runner of the one before. *)
MCNeeds   == r1 :> 2 @@ r2 :> 1
MCExpects == [p \in Pods |-> 2]
=============================================================================
