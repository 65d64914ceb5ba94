------------------------------ MODULE MCTenants ------------------------------
(***************************************************************************)
(* The tenant registry on its own: the keys belong to one workspace.       *)
(***************************************************************************)
EXTENDS TenantRegistry

OneTenant == [k \in Keys |-> "workspace"]
==============================================================================
