------------------------------- MODULE Tenancy -------------------------------
(***************************************************************************)
(* Users, the contracts of one organization and of one of its namespaces,  *)
(* and who may change them.  api/v1/auth.py, users.py, organizations.py    *)
(* (members), namespace_contracts.py, core/org_contract.py, permissions.py.*)
(* A request checks who asks and what would remain, reads the rows it will *)
(* write and commits the difference; nothing holds the rows in between.    *)
(***************************************************************************)
EXTENDS Naturals, FiniteSets

CONSTANTS Users,         \* user accounts
          OrgRequests,   \* concurrent API requests
          Offers         \* bound: the sets of atoms requests ask for

VARIABLES user,          \* an account: none, member, system (super admin), deleted
          orgContract,   \* the organization's contract of a user
          nsContract,    \* whether a user has a namespace contract
          ocall          \* per request: who asks what, and what it will write

tenancyVars == <<user, orgContract, nsContract, ocall>>

\* The atoms the checks tell apart; a contract may have others.
ManageAtoms == {"can_manage_organization", "can_manage_org_members"}

ASSUME OffersAssumption == Offers \subseteq SUBSET ManageAtoms

OrgContracts == [live : BOOLEAN, atoms : SUBSET ManageAtoms]
NoContract == [live |-> FALSE, atoms |-> {}]
Nobody == "nobody"

\* overtaken is history: the grants have changed since the checks of the request.
NoAsk == [op |-> "idle", actor |-> Nobody, target |-> Nobody, atoms |-> {}, drop |-> {},
          kind |-> "none", super |-> FALSE, overtaken |-> FALSE]

Active(u) == user[u] \in {"member", "system"}

\* list_grant_slugs at the level of the organization, require_permission
Held(c) == IF c.live THEN c.atoms ELSE {}
Grants(u) == Held(orgContract[u])
Permitted(u, atom) == Active(u) /\ (user[u] = "system" \/ atom \in Grants(u))

\* _org_has_other_manage_holder looks at contracts, whatever became of the user.
Holders == {u \in Users : Grants(u) \cap ManageAtoms # {}}

TenancyTypeOK ==
    /\ user \in [Users -> {"none", "member", "system", "deleted"}]
    /\ orgContract \in [Users -> OrgContracts]
    /\ nsContract \in [Users -> BOOLEAN]
    /\ \A r \in OrgRequests :
          /\ ocall[r].op \in {"idle", "create", "identity", "delete_user", "add", "atoms", "links", "remove",
                               "void", "ns_create"}
          /\ ocall[r].actor \in Users \cup {Nobody} /\ ocall[r].target \in Users \cup {Nobody}
          /\ ocall[r].atoms \in SUBSET ManageAtoms /\ ocall[r].drop \in SUBSET ManageAtoms
          /\ ocall[r].kind \in {"none", "member", "system"}
          /\ ocall[r].super \in BOOLEAN /\ ocall[r].overtaken \in BOOLEAN
    /\ \A u \in Users : orgContract[u].atoms # {} => orgContract[u].live

TenancyInit ==
    /\ user = [u \in Users |-> "none"]
    /\ orgContract = [u \in Users |-> NoContract]
    /\ nsContract = [u \in Users |-> FALSE]
    /\ ocall = [r \in OrgRequests |-> NoAsk]

-----------------------------------------------------------------------------
(* Requests                                                                *)

Asks(r, op, a, u, S, kind) ==
    /\ ocall[r].op = "idle"
    /\ ocall' = [ocall EXCEPT ![r] = [op |-> op, actor |-> a, target |-> u, atoms |-> S, drop |-> {},
                                     kind |-> kind, super |-> user[a] = "system", overtaken |-> FALSE]]
    /\ UNCHANGED <<user, orgContract, nsContract>>

\* What a commit changes for another request under way: the contract row it
\* has loaded may be gone, so that what it writes has no effect, and so may
\* link rows it is going to delete.
Overtake(c) ==
    IF c.op = "idle" THEN c
    ELSE [c EXCEPT !.op = IF @ \in {"atoms", "links", "remove"} /\ ~orgContract'[c.target].live THEN "void" ELSE @,
                   !.drop = @ \cap Held(orgContract'[c.target]),
                   !.overtaken = @ \/ \E u \in Users : Held(orgContract'[u]) # Held(orgContract[u])]

Ends(r) == ocall' = [q \in OrgRequests |-> IF q = r THEN NoAsk ELSE Overtake(ocall[q])]

\* A conflict with a unique index, a failure of the database, rows that are gone.
EndWithoutEffect(r) ==
    /\ ocall[r].op # "idle"
    /\ ocall' = [ocall EXCEPT ![r] = NoAsk]
    /\ UNCHANGED <<user, orgContract, nsContract>>

-----------------------------------------------------------------------------
(* Accounts                                                                *)

\* register: the first account becomes the super admin.
Register(u) ==
    /\ user[u] = "none"
    /\ user' = [user EXCEPT ![u] = IF \E v \in Users : Active(v) THEN "member" ELSE "system"]
    /\ UNCHANGED <<orgContract, nsContract, ocall>>

\* create_user: of either kind, by a super admin.
AskCreateUser(r, a, u, kind) ==
    /\ user[a] = "system" /\ user[u] = "none"
    /\ Asks(r, "create", a, u, {}, kind)

CommitCreateUser(r) ==
    /\ ocall[r].op = "create" /\ user[ocall[r].target] = "none"
    /\ user' = [user EXCEPT ![ocall[r].target] = ocall[r].kind]
    /\ UNCHANGED <<orgContract, nsContract>>
    /\ Ends(r)

\* set_user_identity, update_user: by a super admin, himself included.  The
\* kind the account was loaded with is not written again.
AskSetIdentity(r, a, u, kind) ==
    /\ user[a] = "system" /\ Active(u) /\ user[u] # kind
    /\ Asks(r, "identity", a, u, {}, kind)

\* The flag of an account deleted meanwhile does not bring it back.
CommitSetIdentity(r) ==
    /\ ocall[r].op = "identity"
    /\ user' = [user EXCEPT ![ocall[r].target] = IF @ = "deleted" THEN @ ELSE ocall[r].kind]
    /\ UNCHANGED <<orgContract, nsContract>>
    /\ Ends(r)

\* As a mutant: the own account may be deleted.
AskDeleteAnyUser(r, a, u) ==
    /\ user[a] = "system" /\ Active(u)
    /\ Asks(r, "delete_user", a, u, {}, "none")

\* delete_user: never the own account.
AskDeleteUser(r, a, u) ==
    /\ user[a] = "system" /\ Active(u) /\ a # u
    /\ Asks(r, "delete_user", a, u, {}, "none")

\* The contracts of the account stay.
CommitDeleteUser(r) ==
    /\ ocall[r].op = "delete_user"
    /\ user' = [user EXCEPT ![ocall[r].target] = "deleted"]
    /\ UNCHANGED <<orgContract, nsContract>>
    /\ Ends(r)

-----------------------------------------------------------------------------
(* Members of the organization                                             *)

\* create_organization: the creator gets every atom.
CreateOrganization(u) ==
    /\ Active(u) /\ \A v \in Users : ~orgContract[v].live
    /\ \A r \in OrgRequests : ocall[r].op = "idle"
    /\ orgContract' = [orgContract EXCEPT ![u] = [live |-> TRUE, atoms |-> ManageAtoms]]
    /\ UNCHANGED <<user, nsContract, ocall>>

\* create_org_member: not a member yet (409).
AskAddMember(r, a, u, S) ==
    /\ Permitted(a, "can_manage_org_members") /\ Active(u) /\ ~orgContract[u].live
    /\ Asks(r, "add", a, u, S, "none")

\* As a mutant: whoever manages may leave.
MayLeaveAlways(a, u, S, deleting) == TRUE

\* _guard_cannot_lock_self: one's own contract keeps the member atom, and the
\* organization a holder of a manage atom.
GuardCannotLockSelf(a, u, S, deleting) ==
    \/ user[a] = "system" \/ a # u
    \/ deleting /\ Holders \ {u} # {}
    \/ ~deleting /\ ("can_manage_org_members" \in Grants(u) => "can_manage_org_members" \in S)
                 /\ (S \cap ManageAtoms # {} \/ Holders \ {u} # {})

\* update_org_member_atoms, up to the guard
AskSetAtoms(r, a, u, S) ==
    /\ Permitted(a, "can_manage_org_members") /\ orgContract[u].live
    /\ GuardCannotLockSelf(a, u, S, FALSE)
    /\ Asks(r, "atoms", a, u, S, "none")

\* Then it reads the links: those to delete, those to add.
ReadLinks(r) ==
    LET u == ocall[r].target IN
    /\ ocall[r].op = "atoms"
    /\ ocall' = [ocall EXCEPT ![r].op = "links", ![r].drop = Grants(u) \ ocall[r].atoms,
                             ![r].atoms = ocall[r].atoms \ Grants(u)]
    /\ UNCHANGED <<user, orgContract, nsContract>>

\* delete_org_member
AskRemoveMember(r, a, u) ==
    /\ Permitted(a, "can_manage_org_members") /\ orgContract[u].live
    /\ GuardCannotLockSelf(a, u, {}, TRUE)
    /\ Asks(r, "remove", a, u, {}, "none")

\* What the commit leaves of the contract c.  A contract that appeared before
\* ensure_org_contract is used as it is, and a link grant_atoms finds is not
\* written again; one that another request inserted is a conflict.
CommittedContracts(op, c, S, drop) ==
    CASE op = "add" /\ c.live  -> {[live |-> TRUE, atoms |-> c.atoms \cup T] : T \in SUBSET S}
      [] op = "add" /\ ~c.live -> {[live |-> TRUE, atoms |-> S]}
      [] op = "links" -> IF S \cap c.atoms = {} THEN {[c EXCEPT !.atoms = (@ \ drop) \cup S]} ELSE {}
      [] op = "remove" -> {NoContract}
      [] OTHER -> {}

CommitMember(r) ==
    LET u == ocall[r].target IN
    /\ ocall[r].op \in {"add", "links", "remove"}
    /\ \E c \in CommittedContracts(ocall[r].op, orgContract[u], ocall[r].atoms, ocall[r].drop) :
          orgContract' = [orgContract EXCEPT ![u] = c]
    /\ UNCHANGED <<user, nsContract>>
    /\ Ends(r)

-----------------------------------------------------------------------------
(* The namespace                                                           *)

\* create_contract, by somebody who may manage the namespace
AskNamespaceContract(r, a, u) ==
    /\ Permitted(a, "can_manage_organization") /\ Active(u) /\ ~nsContract[u]
    /\ Asks(r, "ns_create", a, u, {}, "none")

\* _ensure_org_contract: the contract of the organization, in the same
\* transaction, with the right to view.
CommitNamespaceContract(r) ==
    LET u == ocall[r].target IN
    /\ ocall[r].op = "ns_create"
    /\ IF nsContract[u] THEN UNCHANGED <<nsContract, orgContract>>
       ELSE /\ nsContract' = [nsContract EXCEPT ![u] = TRUE]
            /\ orgContract' = [orgContract EXCEPT ![u] = [live |-> TRUE, atoms |-> Grants(u)]]
    /\ UNCHANGED user
    /\ Ends(r)

\* delete_contract
DeleteNamespaceContract(a, u) ==
    /\ Permitted(a, "can_manage_organization") /\ nsContract[u]
    /\ nsContract' = [nsContract EXCEPT ![u] = FALSE]
    /\ UNCHANGED <<user, orgContract, ocall>>

TenancyNext ==
    \/ \E u \in Users : Register(u) \/ CreateOrganization(u)
    \/ \E a, u \in Users : DeleteNamespaceContract(a, u)
    \/ \E r \in OrgRequests :
          \/ \E a, u \in Users :
                \/ AskDeleteUser(r, a, u) \/ AskRemoveMember(r, a, u) \/ AskNamespaceContract(r, a, u)
                \/ \E kind \in {"member", "system"} : AskCreateUser(r, a, u, kind) \/ AskSetIdentity(r, a, u, kind)
                \/ \E S \in Offers : AskAddMember(r, a, u, S) \/ AskSetAtoms(r, a, u, S)
          \/ ReadLinks(r) \/ EndWithoutEffect(r)
          \/ CommitCreateUser(r) \/ CommitSetIdentity(r) \/ CommitDeleteUser(r)
          \/ CommitMember(r) \/ CommitNamespaceContract(r)

-----------------------------------------------------------------------------
(* Properties                                                              *)

Commits(r) == ocall[r].op # "idle" /\ ocall'[r].op = "idle"

\* The last contract with a manage atom is given up only by a super admin or
\* by a request that another one's commit has overtaken: what
\* _guard_cannot_lock_self checks is enough for requests that do not overlap.
ManagerLostOnlyByOverlap ==
    [][Holders # {} /\ Holders' = {}
       => \E r \in OrgRequests : Commits(r) /\ (ocall[r].super \/ ocall[r].overtaken)]_tenancyVars

\* The last super admin goes by giving up the role himself, or by the request
\* of somebody who was a super admin when it was checked and no longer is one.
AdminLostKnowingly ==
    [][(\E u \in Users : user[u] = "system") /\ (\A u \in Users : user'[u] # "system")
       => \E r \in OrgRequests :
             /\ Commits(r)
             /\ \/ ocall[r].op = "identity" /\ ocall[r].actor = ocall[r].target
                \/ user[ocall[r].actor] # "system"]_tenancyVars
=============================================================================
