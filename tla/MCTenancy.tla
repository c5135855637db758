----------------------------- MODULE MCTenancy -----------------------------
(***************************************************************************)
(* The tenancy of the platform: accounts and contracts, what belongs to an *)
(* organization, its providers.  A behaviour exercises one of the three.   *)
(***************************************************************************)
EXTENDS Tenancy, OrgTree, Providers, TLC

VARIABLE part

vars == <<tenancyVars, orgTreeVars, providerVars, part>>

Init ==
    /\ part \in {"contracts", "tree", "providers"}
    /\ TenancyInit /\ OrgTreeInit /\ ProvidersInit

Next ==
    /\ UNCHANGED part
    /\ \/ part = "contracts" /\ TenancyNext /\ UNCHANGED <<orgTreeVars, providerVars>>
       \/ part = "tree" /\ OrgTreeNext /\ UNCHANGED <<tenancyVars, providerVars>>
       \/ part = "providers" /\ ProvidersNext /\ UNCHANGED <<tenancyVars, orgTreeVars>>

\* The variables keep their types (a default names a provider, a swept row is no
\* live one) and a deleted organization takes with it what it found below it.
OrganizationEmptied == TenancyTypeOK /\ OrgTreeTypeOK /\ ProvidersTypeOK /\ OrganizationTakesAll

Symmetry == Permutations(Users) \cup Permutations(OrgRequests) \cup Permutations(Models)

Spec == Init /\ [][Next]_vars
=============================================================================
