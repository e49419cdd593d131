------------------------------ MODULE Portals ------------------------------
(***************************************************************************)
(* A browser with one of the two portals open, over one control plane: the *)
(* customer sees what an operator's rollout does to a tenant, an operator  *)
(* the rows that signups store and delete.                                 *)
(***************************************************************************)
EXTENDS CustomerPortal, OperatorPortal

CONSTANTS
    CustomerTenants,   \* the tenants of the account whose portal is open
    OperatorTenants    \* the tenants of the fleet whose portal is open

portalVars == <<cpVars, cuVars, opVars>>

PortalsInit ==
    /\ CuInit /\ OpInit
    /\ \/ entry = "closed" /\ boot = "init" /\ CPInit(OperatorTenants)
       \/ entry = "catalog" /\ boot = "closed" /\ CPInit(CustomerTenants)
    /\ boot = "closed" => ~tokensStored /\ configured

PortalsNext ==
    \/ CuNext /\ UNCHANGED opVars
    \/ OpNext /\ UNCHANGED cuVars
    \/ CPNext /\ UNCHANGED <<cuVars, opVars>>

\* The control plane's runs and signups end; a rollout may go on for ever.
CPFairness == \A t \in Tenants : WF_cpVars(RunEnds(t)) /\ WF_cpVars(SignupEnds(t))

PortalsFairness == CuFairness /\ OpFairness /\ CPFairness

PortalsSpec == PortalsInit /\ [][PortalsNext]_portalVars /\ PortalsFairness

=============================================================================
