SPECIFICATION Spec
CONSTANTS
    Users = {u1, u2}
    OrgRequests = {o1, o2}
    Offers = {{"can_manage_org_members"}, {"can_manage_organization"}}
    ProviderIds = {1, 2}
    Models = {m1, m2}
    Refreshes = {f1}
SYMMETRY Symmetry
INVARIANTS OrganizationEmptied InstanceGetsUsableProvider
PROPERTIES ManagerLostOnlyByOverlap AdminLostKnowingly RefreshLeavesListedModel
CHECK_DEADLOCK FALSE
