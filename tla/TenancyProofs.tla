--------------------------- MODULE TenancyProofs ---------------------------
(***************************************************************************)
(* The tenancy of the platform for every number of users, requests and     *)
(* providers: who may lose the last right to manage, what a deleted        *)
(* organization takes with it, which provider an instance is given.        *)
(***************************************************************************)
EXTENDS MCTenancy, TLAPS, WellFoundedInduction

-----------------------------------------------------------------------------
(* Contracts                                                               *)

Asked == [op : {"idle", "create", "identity", "delete_user", "add", "atoms", "links", "remove", "void", "ns_create"},
          actor : Users \cup {Nobody}, target : Users \cup {Nobody},
          atoms : SUBSET ManageAtoms, drop : SUBSET ManageAtoms, kind : {"none", "member", "system"},
          super : BOOLEAN, overtaken : BOOLEAN]

MemberAtom == "can_manage_org_members"

\* What the checks of a request have established: a manager of members who
\* writes his own contract keeps the atom, or somebody else has one.
CheckDone(c) ==
    /\ c.op # "idle" => c.actor \in Users /\ c.target \in Users
    /\ c.op \in {"create", "identity"} => c.kind \in {"member", "system"}
    /\ c.op = "delete_user" => c.actor # c.target
    /\ c.op \in {"atoms", "links", "remove"} => orgContract[c.target].live
    /\ c.op \in {"atoms", "links", "remove"} /\ ~c.super /\ ~c.overtaken =>
          /\ MemberAtom \in Grants(c.actor)
          /\ c.actor = c.target => /\ c.op = "remove" => \E v \in Users : v # c.target /\ Grants(v) \cap ManageAtoms # {}
                                   /\ c.op = "atoms" => MemberAtom \in c.atoms
                                   /\ c.op = "links" => MemberAtom \notin c.drop

\* It stays true of the contracts there are until the request is overtaken.
ChecksDone == \A r \in OrgRequests : CheckDone(ocall[r])

TenancyInv == TenancyTypeOK /\ ocall \in [OrgRequests -> Asked] /\ ChecksDone

LEMMA NoAskIsAsked == NoAsk \in Asked /\ CheckDone(NoAsk) /\ NoAsk.op = "idle"
  BY DEF NoAsk, Asked, CheckDone

LEMMA TenancyInitInv == TenancyInit => TenancyInv
  <1> SUFFICES ASSUME TenancyInit PROVE TenancyInv
    OBVIOUS
  <1>1. ocall \in [OrgRequests -> Asked] /\ ChecksDone
    BY NoAskIsAsked DEF TenancyInit, ChecksDone
  <1> QED
    BY <1>1 DEF TenancyInit, TenancyInv, TenancyTypeOK, NoAsk, NoContract, OrgContracts

\* A request that writes its own record only.
LEMMA RequestStep ==
    ASSUME TenancyInv, NEW r \in OrgRequests, NEW c \in Asked, CheckDone(c),
           ocall' = [ocall EXCEPT ![r] = c], UNCHANGED <<user, orgContract, nsContract>>
    PROVE  TenancyInv'
  <1>1. ocall' \in [OrgRequests -> Asked]
    BY DEF TenancyInv
  <1>2. ASSUME NEW q \in OrgRequests PROVE CheckDone(ocall[q])'
    <2>1. CASE q = r
      <3>1. ocall'[q] = c
        BY <2>1 DEF TenancyInv
      <3> QED
        BY <3>1 DEF CheckDone, Grants
    <2>2. CASE q # r
      <3>1. ocall'[q] = ocall[q] /\ CheckDone(ocall[q])
        BY <2>2 DEF TenancyInv, ChecksDone
      <3> QED
        BY <3>1 DEF CheckDone, Grants
    <2> QED BY <2>1, <2>2
  <1>3. ChecksDone'
    BY <1>2 DEF ChecksDone
  <1>4. TenancyTypeOK'
    BY <1>1 DEF TenancyInv, TenancyTypeOK, Asked
  <1> QED
    BY <1>1, <1>3, <1>4 DEF TenancyInv

\* What a request records when it has passed its checks.
LEMMA AskStep ==
    ASSUME TenancyInv, NEW r \in OrgRequests, NEW a \in Users, NEW u \in Users, NEW S \in SUBSET ManageAtoms,
           NEW op \in {"create", "identity", "delete_user", "add", "atoms", "remove", "ns_create"},
           NEW kind \in {"none", "member", "system"}, Asks(r, op, a, u, S, kind),
           op \in {"create", "identity"} => kind \in {"member", "system"},
           op = "delete_user" => a # u,
           op \in {"atoms", "remove"} => /\ Permitted(a, MemberAtom) /\ orgContract[u].live
                                         /\ GuardCannotLockSelf(a, u, S, op = "remove")
    PROVE  TenancyInv'
  <1> DEFINE c == [op |-> op, actor |-> a, target |-> u, atoms |-> S, drop |-> {},
                   kind |-> kind, super |-> user[a] = "system", overtaken |-> FALSE]
  <1>1. ocall' = [ocall EXCEPT ![r] = c] /\ UNCHANGED <<user, orgContract, nsContract>>
    BY DEF Asks
  <1>2. c \in Asked
    BY DEF Asked
  <1>3. /\ c.op = op /\ c.actor = a /\ c.target = u /\ c.atoms = S /\ c.kind = kind
        /\ c.super = (user[a] = "system")
    OBVIOUS
  <1>4. ASSUME op \in {"atoms", "remove"}, user[a] # "system"
        PROVE  /\ MemberAtom \in Grants(a)
               /\ a = u => /\ op = "remove" => \E v \in Users : v # u /\ Grants(v) \cap ManageAtoms # {}
                           /\ op = "atoms" => MemberAtom \in S
    <2>1. MemberAtom \in Grants(a)
      BY <1>4 DEF Permitted
    <2>2. ASSUME a = u, op = "remove" PROVE \E v \in Users : v # u /\ Grants(v) \cap ManageAtoms # {}
      <3>1. Holders \ {u} # {}
        BY <1>4, <2>2 DEF GuardCannotLockSelf
      <3> QED
        BY <3>1 DEF Holders
    <2>3. ASSUME a = u, op = "atoms" PROVE MemberAtom \in S
      BY <1>4, <2>1, <2>3 DEF GuardCannotLockSelf, MemberAtom
    <2> QED BY <2>1, <2>2, <2>3
  <1> HIDE DEF c
  <1>5. CheckDone(c)
    BY <1>3, <1>4 DEF CheckDone
  <1> QED
    BY <1>1, <1>2, <1>5, RequestStep

\* A request that has ended leaves what is known of the others.
LEMMA EndsStep ==
    ASSUME TenancyInv, NEW r \in OrgRequests, Ends(r)
    PROVE  ocall' \in [OrgRequests -> Asked] /\ ChecksDone' /\ ocall'[r].op = "idle"
  <1>1. ASSUME NEW c \in Asked, CheckDone(c), c.op # "idle"
        PROVE  /\ Overtake(c) \in Asked
               /\ Overtake(c).actor = c.actor /\ Overtake(c).target = c.target /\ Overtake(c).atoms = c.atoms
               /\ Overtake(c).kind = c.kind /\ Overtake(c).super = c.super /\ Overtake(c).drop \subseteq c.drop
               /\ \/ Overtake(c).op = "void"
                  \/ Overtake(c).op = c.op /\ (c.op \in {"atoms", "links", "remove"} => orgContract'[c.target].live)
               /\ ~Overtake(c).overtaken => ~c.overtaken /\ \A u \in Users : Grants(u)' = Grants(u)
    BY <1>1 DEF Overtake, Asked, Grants
  <1>2. ASSUME NEW c \in Asked, CheckDone(c), NEW d, d = Overtake(c), c.op # "idle"
        PROVE  /\ d.op # "idle" => d.actor \in Users /\ d.target \in Users
               /\ d.op \in {"create", "identity"} => d.kind \in {"member", "system"}
               /\ d.op = "delete_user" => d.actor # d.target
               /\ d.op \in {"atoms", "links", "remove"} => orgContract'[d.target].live
               /\ d.op \in {"atoms", "links", "remove"} /\ ~d.super /\ ~d.overtaken =>
                     /\ MemberAtom \in Grants(d.actor)'
                     /\ d.actor = d.target =>
                           /\ d.op = "remove" => \E v \in Users : v # d.target /\ Grants(v)' \cap ManageAtoms # {}
                           /\ d.op = "atoms" => MemberAtom \in d.atoms
                           /\ d.op = "links" => MemberAtom \notin d.drop
    <2>1. c.actor \in Users /\ c.target \in Users
      BY <1>2 DEF CheckDone
    <2> QED
      BY <1>1, <1>2, <2>1 DEF CheckDone
  <1>3. ASSUME NEW q \in OrgRequests PROVE ocall'[q] \in Asked /\ CheckDone(ocall[q])'
    <2>1. CASE q = r \/ ocall[q].op = "idle"
      <3>1. ocall'[q] \in Asked /\ ocall'[q].op = "idle"
        BY <2>1, NoAskIsAsked DEF Ends, Overtake, TenancyInv
      <3> QED
        BY <3>1 DEF CheckDone
    <2>2. CASE q # r /\ ocall[q].op # "idle"
      <3>1. ocall'[q] = Overtake(ocall[q]) /\ ocall[q] \in Asked /\ CheckDone(ocall[q])
        BY <2>2 DEF Ends, TenancyInv, ChecksDone
      <3>2. ocall'[q] \in Asked
        BY <1>1, <2>2, <3>1
      <3> QED
        BY <1>2, <2>2, <3>1, <3>2 DEF CheckDone
    <2> QED BY <2>1, <2>2
  <1>4. ocall' \in [OrgRequests -> Asked]
    BY <1>3 DEF Ends
  <1>5. ocall'[r].op = "idle"
    BY NoAskIsAsked DEF Ends
  <1> QED
    BY <1>3, <1>4, <1>5 DEF ChecksDone

LEMMA TenancyTypes ==
    ASSUME TenancyInv, ocall' \in [OrgRequests -> Asked], ChecksDone',
           user' \in [Users -> {"none", "member", "system", "deleted"}],
           orgContract' \in [Users -> OrgContracts], nsContract' \in [Users -> BOOLEAN],
           \A u \in Users : orgContract'[u].atoms # {} => orgContract'[u].live
    PROVE  TenancyInv'
  BY DEF TenancyInv, TenancyTypeOK, Asked

\* A contract written over another.
LEMMA ContractWritten ==
    ASSUME NEW u \in Users, NEW c \in OrgContracts, c.atoms # {} => c.live,
           orgContract \in [Users -> OrgContracts],
           \A v \in Users : orgContract[v].atoms # {} => orgContract[v].live,
           orgContract' = [orgContract EXCEPT ![u] = c]
    PROVE  /\ orgContract' \in [Users -> OrgContracts]
           /\ \A v \in Users : orgContract'[v].atoms # {} => orgContract'[v].live
  OBVIOUS

\* What a commit leaves is a contract.
LEMMA CommittedIsContract ==
    ASSUME NEW op, NEW c \in OrgContracts, c.atoms # {} => c.live, op = "links" => c.live,
           NEW S \in SUBSET ManageAtoms, NEW drop \in SUBSET ManageAtoms,
           NEW d \in CommittedContracts(op, c, S, drop)
    PROVE  d \in OrgContracts /\ (d.atoms # {} => d.live)
  <1>1. CASE op = "add" /\ c.live
    <2>1. PICK T \in SUBSET S : d = [live |-> TRUE, atoms |-> c.atoms \cup T]
      BY <1>1 DEF CommittedContracts
    <2>2. d.live /\ d.atoms = c.atoms \cup T
      BY <2>1
    <2>3. c.atoms \in SUBSET ManageAtoms
      BY DEF OrgContracts
    <2>4. d \in OrgContracts
      BY <2>1, <2>3 DEF OrgContracts
    <2> QED
      BY <1>1, <2>2, <2>4
  <1>2. CASE op = "add" /\ ~c.live
    <2>1. d = [live |-> TRUE, atoms |-> S]
      BY <1>2 DEF CommittedContracts
    <2> QED
      BY <1>2, <2>1 DEF OrgContracts
  <1>3. CASE op = "links"
    <2>1. d = [c EXCEPT !.atoms = (@ \ drop) \cup S]
      BY <1>3 DEF CommittedContracts
    <2> QED
      BY <1>3, <2>1 DEF OrgContracts
  <1>4. CASE op = "remove"
    <2>1. d = NoContract
      BY <1>4 DEF CommittedContracts
    <2>2. NoContract \in OrgContracts /\ NoContract.atoms = {}
      BY DEF NoContract, OrgContracts
    <2> QED
      BY <1>4, <2>1, <2>2
  <1>5. op \in {"add", "links", "remove"}
    BY DEF CommittedContracts
  <1> QED
    BY <1>1, <1>2, <1>3, <1>4, <1>5

LEMMA CommitMemberStep ==
    ASSUME TenancyInv, NEW r \in OrgRequests, CommitMember(r)
    PROVE  TenancyInv'
  <1> DEFINE u == ocall[r].target
             S == ocall[r].atoms
             drop == ocall[r].drop
  <1>1. /\ u \in Users /\ S \in SUBSET ManageAtoms /\ drop \in SUBSET ManageAtoms
        /\ ocall[r].op = "links" => orgContract[u].live
    BY DEF TenancyInv, ChecksDone, CheckDone, CommitMember, Asked
  <1>2. Ends(r) /\ UNCHANGED <<user, nsContract>>
    BY DEF CommitMember
  <1>3. orgContract \in [Users -> OrgContracts] /\ \A v \in Users : orgContract[v].atoms # {} => orgContract[v].live
    BY DEF TenancyInv, TenancyTypeOK
  <1>4. PICK d \in CommittedContracts(ocall[r].op, orgContract[u], S, drop) : orgContract' = [orgContract EXCEPT ![u] = d]
    BY DEF CommitMember
  <1>5. d \in OrgContracts /\ (d.atoms # {} => d.live)
    <2>1. orgContract[u] \in OrgContracts /\ (orgContract[u].atoms # {} => orgContract[u].live)
      BY <1>1, <1>3
    <2> DEFINE c == orgContract[u]
               op == ocall[r].op
    <2>2. c \in OrgContracts /\ (c.atoms # {} => c.live) /\ (op = "links" => c.live)
      BY <1>1, <2>1
    <2>3. d \in CommittedContracts(op, c, S, drop)
      BY <1>4
    <2> HIDE DEF u, S, drop, c, op
    <2> QED
      BY <1>1, <2>2, <2>3, CommittedIsContract
  <1>6. orgContract' \in [Users -> OrgContracts] /\ \A v \in Users : orgContract'[v].atoms # {} => orgContract'[v].live
    BY <1>1, <1>3, <1>4, <1>5, ContractWritten
  <1> QED
    BY <1>2, <1>6, EndsStep, TenancyTypes DEF TenancyInv, TenancyTypeOK

LEMMA CommitNamespaceStep ==
    ASSUME TenancyInv, NEW r \in OrgRequests, CommitNamespaceContract(r)
    PROVE  TenancyInv' /\ Holders' = Holders
  <1> DEFINE u == ocall[r].target
  <1>1. u \in Users
    BY DEF TenancyInv, ChecksDone, CheckDone, CommitNamespaceContract
  <1>2. Ends(r) /\ UNCHANGED user
    BY DEF CommitNamespaceContract
  <1>3. /\ nsContract' = nsContract \/ nsContract' = [nsContract EXCEPT ![u] = TRUE]
        /\ \/ orgContract' = orgContract
           \/ orgContract' = [orgContract EXCEPT ![u] = [live |-> TRUE, atoms |-> Grants(u)]]
    BY DEF CommitNamespaceContract
  <1>4. orgContract \in [Users -> OrgContracts] /\ nsContract \in [Users -> BOOLEAN]
        /\ \A v \in Users : orgContract[v].atoms # {} => orgContract[v].live
    BY DEF TenancyInv, TenancyTypeOK
  <1>5. Grants(u) \in SUBSET ManageAtoms
    BY <1>1, <1>4 DEF Grants, Held, OrgContracts
  <1>6. nsContract' \in [Users -> BOOLEAN]
    BY <1>1, <1>3, <1>4
  <1>7. orgContract' \in [Users -> OrgContracts] /\ \A v \in Users : orgContract'[v].atoms # {} => orgContract'[v].live
    <2>1. [live |-> TRUE, atoms |-> Grants(u)] \in OrgContracts
      BY <1>5 DEF OrgContracts
    <2> QED
      BY <1>1, <1>3, <1>4, <2>1, ContractWritten
  <1>8. \A v \in Users : Grants(v)' = Grants(v)
    <2> SUFFICES ASSUME NEW v \in Users PROVE Grants(v)' = Grants(v)
      OBVIOUS
    <2>1. CASE orgContract' = [orgContract EXCEPT ![u] = [live |-> TRUE, atoms |-> Grants(u)]] /\ v = u
      <3>1. orgContract'[v] = [live |-> TRUE, atoms |-> Grants(v)]
        BY <1>1, <1>4, <2>1
      <3> QED
        BY <3>1 DEF Grants, Held
    <2>2. CASE orgContract'[v] = orgContract[v]
      BY <2>2 DEF Grants
    <2> QED
      BY <1>1, <1>3, <1>4, <2>1, <2>2
  <1>9. Holders' = Holders
    BY <1>8 DEF Holders
  <1> QED
    BY <1>2, <1>6, <1>7, <1>9, EndsStep, TenancyTypes DEF TenancyInv, TenancyTypeOK

\* The account and contract steps that are no requests.
LEMMA DirectStep ==
    ASSUME TenancyInv, NEW a \in Users, NEW u \in Users,
           \/ Register(u) \/ CreateOrganization(u) \/ DeleteNamespaceContract(a, u)
    PROVE  TenancyInv' /\ Holders \subseteq Holders'
  <1>1. /\ orgContract \in [Users -> OrgContracts] /\ nsContract \in [Users -> BOOLEAN]
        /\ user \in [Users -> {"none", "member", "system", "deleted"}]
        /\ \A v \in Users : orgContract[v].atoms # {} => orgContract[v].live
    BY DEF TenancyInv, TenancyTypeOK
  <1>2. /\ ocall' = ocall
        /\ \/ orgContract' = orgContract
           \/ orgContract' = [orgContract EXCEPT ![u] = [live |-> TRUE, atoms |-> ManageAtoms]]
    BY DEF Register, CreateOrganization, DeleteNamespaceContract
  <1>3. user' \in [Users -> {"none", "member", "system", "deleted"}] /\ nsContract' \in [Users -> BOOLEAN]
    BY <1>1 DEF Register, CreateOrganization, DeleteNamespaceContract
  <1>4. [live |-> TRUE, atoms |-> ManageAtoms] \in OrgContracts
    BY DEF OrgContracts
  <1>5. orgContract' \in [Users -> OrgContracts] /\ \A v \in Users : orgContract'[v].atoms # {} => orgContract'[v].live
    BY <1>1, <1>2, <1>4, ContractWritten
  <1>6. ocall' \in [OrgRequests -> Asked] /\ ChecksDone'
    <2>1. CASE orgContract' = orgContract
      BY <1>2, <2>1 DEF TenancyInv, ChecksDone, CheckDone, Grants
    <2>2. CASE \A r \in OrgRequests : ocall[r].op = "idle"
      BY <1>2, <2>2 DEF TenancyInv, ChecksDone, CheckDone
    <2> QED
      BY <2>1, <2>2 DEF Register, CreateOrganization, DeleteNamespaceContract
  <1>7. TenancyInv'
    BY <1>3, <1>5, <1>6, TenancyTypes
  <1>8. \A v \in Users : Grants(v) \subseteq Grants(v)'
    BY <1>1, <1>2 DEF Grants, Held, OrgContracts
  <1> QED
    BY <1>7, <1>8 DEF Holders

LEMMA CommitUserStep ==
    ASSUME TenancyInv, NEW r \in OrgRequests, CommitCreateUser(r) \/ CommitSetIdentity(r) \/ CommitDeleteUser(r)
    PROVE  TenancyInv' /\ Holders' = Holders
  <1>1. Ends(r) /\ UNCHANGED <<orgContract, nsContract>>
    BY DEF CommitCreateUser, CommitSetIdentity, CommitDeleteUser
  <1>2. user' \in [Users -> {"none", "member", "system", "deleted"}]
    <2>1. ocall[r].op \in {"create", "identity"} => ocall[r].kind \in {"member", "system"}
      BY DEF TenancyInv, ChecksDone, CheckDone
    <2> QED
      BY <2>1 DEF TenancyInv, TenancyTypeOK, CommitCreateUser, CommitSetIdentity, CommitDeleteUser
  <1>3. TenancyInv'
    BY <1>1, <1>2, EndsStep, TenancyTypes DEF TenancyInv, TenancyTypeOK
  <1> QED
    BY <1>1, <1>3 DEF Holders, Grants

LEMMA OwnStep ==
    ASSUME TenancyInv, NEW r \in OrgRequests, ReadLinks(r) \/ EndWithoutEffect(r)
    PROVE  TenancyInv'
  <1>1. CASE EndWithoutEffect(r)
    BY <1>1, NoAskIsAsked, RequestStep DEF EndWithoutEffect
  <1>2. CASE ReadLinks(r)
    <2> DEFINE c == ocall[r]
               d == [c EXCEPT !.op = "links", !.drop = Grants(c.target) \ c.atoms, !.atoms = c.atoms \ Grants(c.target)]
    <2>1. c \in Asked /\ CheckDone(c) /\ c.op = "atoms" /\ UNCHANGED <<user, orgContract, nsContract>>
      BY <1>2 DEF ReadLinks, TenancyInv, ChecksDone
    <2>2. c.target \in Users /\ orgContract[c.target] \in OrgContracts
      BY <2>1 DEF CheckDone, TenancyInv, TenancyTypeOK
    <2>3. Grants(c.target) \subseteq ManageAtoms
      BY <2>2 DEF Grants, Held, OrgContracts
    <2>4. /\ d \in Asked
          /\ d.op = "links" /\ d.actor = c.actor /\ d.target = c.target /\ d.super = c.super
          /\ d.overtaken = c.overtaken /\ d.drop = Grants(c.target) \ c.atoms
      BY <2>1, <2>3 DEF Asked
    <2>5. ocall' = [ocall EXCEPT ![r] = d]
      BY <1>2 DEF ReadLinks, TenancyInv
    <2> HIDE DEF d
    <2>6. CheckDone(d)
      BY <2>1, <2>4 DEF CheckDone
    <2> HIDE DEF c
    <2> QED
      BY <2>1, <2>4, <2>5, <2>6, RequestStep
  <1> QED BY <1>1, <1>2

LEMMA TenancyInvStep == TenancyInv /\ [TenancyNext]_tenancyVars => TenancyInv'
  <1> SUFFICES ASSUME TenancyInv, [TenancyNext]_tenancyVars PROVE TenancyInv'
    OBVIOUS
  <1>1. CASE UNCHANGED tenancyVars
    BY <1>1 DEF tenancyVars, TenancyInv, TenancyTypeOK, ChecksDone, CheckDone, Grants
  <1>2. ASSUME NEW u \in Users, Register(u) \/ CreateOrganization(u) PROVE TenancyInv'
    BY <1>2, DirectStep
  <1>3. ASSUME NEW a \in Users, NEW u \in Users, DeleteNamespaceContract(a, u) PROVE TenancyInv'
    BY <1>3, DirectStep
  <1>6. ASSUME NEW r \in OrgRequests, NEW a \in Users, NEW u \in Users, NEW kind \in {"member", "system"},
               AskCreateUser(r, a, u, kind) \/ AskSetIdentity(r, a, u, kind)
        PROVE  TenancyInv'
    BY <1>6, AskStep DEF AskCreateUser, AskSetIdentity
  <1>4. ASSUME NEW r \in OrgRequests, NEW a \in Users, NEW u \in Users,
               AskDeleteUser(r, a, u) \/ AskRemoveMember(r, a, u) \/ AskNamespaceContract(r, a, u)
        PROVE  TenancyInv'
    <2>1. {} \in SUBSET ManageAtoms
      OBVIOUS
    <2>2. CASE AskDeleteUser(r, a, u)
      BY <2>1, <2>2, AskStep DEF AskDeleteUser
    <2>3. CASE AskRemoveMember(r, a, u)
      <3>1. GuardCannotLockSelf(a, u, {}, "remove" = "remove")
        BY <2>3 DEF AskRemoveMember, GuardCannotLockSelf
      <3> QED
        BY <2>1, <2>3, <3>1, AskStep DEF AskRemoveMember, MemberAtom
    <2>4. CASE AskNamespaceContract(r, a, u)
      BY <2>1, <2>4, AskStep DEF AskNamespaceContract
    <2> QED BY <1>4, <2>2, <2>3, <2>4
  <1>5. ASSUME NEW r \in OrgRequests, NEW a \in Users, NEW u \in Users, NEW S \in Offers,
               AskAddMember(r, a, u, S) \/ AskSetAtoms(r, a, u, S)
        PROVE  TenancyInv'
    <2>1. S \in SUBSET ManageAtoms
      BY OffersAssumption
    <2>2. CASE AskAddMember(r, a, u, S)
      BY <2>1, <2>2, AskStep DEF AskAddMember
    <2>3. CASE AskSetAtoms(r, a, u, S)
      <3>1. GuardCannotLockSelf(a, u, S, "atoms" = "remove")
        BY <2>3 DEF AskSetAtoms, GuardCannotLockSelf
      <3> QED
        BY <2>1, <2>3, <3>1, AskStep DEF AskSetAtoms, MemberAtom
    <2> QED BY <1>5, <2>2, <2>3
  <1> QED
    BY <1>1, <1>2, <1>3, <1>4, <1>5, <1>6, OwnStep, CommitUserStep, CommitMemberStep, CommitNamespaceStep
    DEF TenancyNext

\* The commit that takes the last contract that can manage is a super admin's,
\* or of a request that has been overtaken.
LEMMA LastManager ==
    ASSUME TenancyInv, NEW r \in OrgRequests, CommitMember(r), Holders # {}, Holders' = {}
    PROVE  Commits(r) /\ (ocall[r].super \/ ocall[r].overtaken)
  <1>1. PICK u \in Users, S \in SUBSET ManageAtoms, drop \in SUBSET ManageAtoms, op \in {"add", "links", "remove"} :
           u = ocall[r].target /\ S = ocall[r].atoms /\ drop = ocall[r].drop /\ op = ocall[r].op
    BY DEF CommitMember, TenancyInv, ChecksDone, CheckDone, Asked
  <1>2. Commits(r)
    BY EndsStep DEF CommitMember, Commits
  <1>3. /\ ocall[r].actor \in Users /\ CheckDone(ocall[r])
        /\ orgContract \in [Users -> OrgContracts] /\ orgContract[u] \in OrgContracts
        /\ orgContract[u].atoms # {} => orgContract[u].live
        /\ op = "links" => orgContract[u].live
    BY <1>1 DEF CommitMember, TenancyInv, TenancyTypeOK, ChecksDone, CheckDone
  <1>4. PICK d \in CommittedContracts(op, orgContract[u], S, drop) : orgContract' = [orgContract EXCEPT ![u] = d]
    BY <1>1 DEF CommitMember
  <1>5. /\ op = "add" /\ orgContract[u].live => d.live /\ orgContract[u].atoms \subseteq d.atoms
        /\ op = "links" => d.live /\ d.atoms = (orgContract[u].atoms \ drop) \cup S
    <2> DEFINE c == orgContract[u]
    <2>1. d \in CommittedContracts(op, c, S, drop)
      BY <1>4
    <2> HIDE DEF c
    <2>2. ASSUME op = "add", c.live PROVE d.live /\ c.atoms \subseteq d.atoms
      <3>1. PICK T \in SUBSET S : d = [live |-> TRUE, atoms |-> c.atoms \cup T]
        BY <2>1, <2>2 DEF CommittedContracts
      <3> QED
        BY <3>1
    <2>3. ASSUME op = "links" PROVE d.live /\ d.atoms = (c.atoms \ drop) \cup S
      <3>1. d = [c EXCEPT !.atoms = (@ \ drop) \cup S]
        BY <2>1, <2>3 DEF CommittedContracts
      <3>2. c \in OrgContracts /\ c.live
        BY <1>3, <2>3 DEF c
      <3> QED
        BY <3>1, <3>2 DEF OrgContracts
    <2> QED
      BY <2>2, <2>3 DEF c
  <1>6. /\ \A v \in Users : Grants(v)' \cap ManageAtoms = {}
        /\ \A v \in Users : v # u => Grants(v)' = Grants(v)
        /\ Grants(u)' = Held(d)
    <2>1. \A v \in Users : orgContract'[v] = IF v = u THEN d ELSE orgContract[v]
      BY <1>3, <1>4
    <2> QED
      BY <2>1 DEF Holders, Grants
  <1>7. op # "add"
    <2> SUFFICES ASSUME op = "add" PROVE FALSE
      OBVIOUS
    <2>1. Grants(u) \subseteq Grants(u)'
      BY <1>5, <1>6 DEF Grants, Held
    <2>2. \A v \in Users : Grants(v) \cap ManageAtoms = {}
      BY <1>6, <2>1
    <2> QED
      BY <2>2 DEF Holders
  <1>8. ocall[r].super \/ ocall[r].overtaken
    <2> SUFFICES ASSUME ~ocall[r].super, ~ocall[r].overtaken PROVE FALSE
      OBVIOUS
    <2>1. MemberAtom \in Grants(ocall[r].actor) /\ MemberAtom \in ManageAtoms
      BY <1>1, <1>3, <1>7 DEF CheckDone, MemberAtom, ManageAtoms
    <2>2. ocall[r].actor = u
      BY <1>3, <1>6, <2>1
    <2>3. op # "remove"
      BY <1>1, <1>3, <1>6, <2>2 DEF CheckDone
    <2>4. op = "links" /\ MemberAtom \notin drop
      BY <1>1, <1>3, <1>7, <2>2, <2>3 DEF CheckDone
    <2>5. MemberAtom \in Grants(u)'
      <3>1. orgContract[u].live /\ MemberAtom \in orgContract[u].atoms
        BY <2>1, <2>2 DEF Grants, Held
      <3>2. d.live /\ MemberAtom \in d.atoms
        BY <1>5, <2>4, <3>1
      <3> QED
        BY <1>6, <3>2 DEF Held
    <2> QED
      BY <1>6, <2>1, <2>5
  <1> QED
    BY <1>2, <1>8

\* A step is a direct one, the commit of a request, or leaves accounts and contracts.
LEMMA TenancyCases ==
    ASSUME [TenancyNext]_tenancyVars
    PROVE  \/ UNCHANGED <<user, orgContract>>
           \/ \E u \in Users : Register(u) \/ CreateOrganization(u)
           \/ \E r \in OrgRequests : CommitCreateUser(r) \/ CommitSetIdentity(r) \/ CommitDeleteUser(r)
           \/ \E r \in OrgRequests : CommitMember(r) \/ CommitNamespaceContract(r)
  <1>1. ASSUME NEW r \in OrgRequests, NEW op, NEW a, NEW u, NEW S, NEW kind, Asks(r, op, a, u, S, kind)
        PROVE  UNCHANGED <<user, orgContract>>
    BY <1>1 DEF Asks
  <1>2. ASSUME NEW r \in OrgRequests, NEW a \in Users, NEW u \in Users,
               AskDeleteUser(r, a, u) \/ AskRemoveMember(r, a, u) \/ AskNamespaceContract(r, a, u)
        PROVE  UNCHANGED <<user, orgContract>>
    BY <1>1, <1>2 DEF AskDeleteUser, AskRemoveMember, AskNamespaceContract
  <1>3. ASSUME NEW r \in OrgRequests, NEW a \in Users, NEW u \in Users, NEW S \in Offers,
               AskAddMember(r, a, u, S) \/ AskSetAtoms(r, a, u, S)
        PROVE  UNCHANGED <<user, orgContract>>
    BY <1>1, <1>3 DEF AskAddMember, AskSetAtoms
  <1>4. ASSUME NEW r \in OrgRequests, NEW a \in Users, NEW u \in Users, NEW kind \in {"member", "system"},
               AskCreateUser(r, a, u, kind) \/ AskSetIdentity(r, a, u, kind)
        PROVE  UNCHANGED <<user, orgContract>>
    BY <1>1, <1>4 DEF AskCreateUser, AskSetIdentity
  <1>5. ASSUME NEW r \in OrgRequests, ReadLinks(r) \/ EndWithoutEffect(r)
        PROVE  UNCHANGED <<user, orgContract>>
    BY <1>5 DEF ReadLinks, EndWithoutEffect
  <1>6. ASSUME NEW a \in Users, NEW u \in Users, DeleteNamespaceContract(a, u)
        PROVE  UNCHANGED <<user, orgContract>>
    BY <1>6 DEF DeleteNamespaceContract
  <1>7. CASE UNCHANGED tenancyVars
    BY <1>7 DEF tenancyVars
  <1>8. CASE TenancyNext
    BY <1>2, <1>3, <1>4, <1>5, <1>6, <1>8 DEF TenancyNext
  <1> QED
    BY <1>7, <1>8

LEMMA ManagerStep ==
    TenancyInv /\ [TenancyNext]_tenancyVars /\ Holders # {} /\ Holders' = {}
       => \E r \in OrgRequests : Commits(r) /\ (ocall[r].super \/ ocall[r].overtaken)
  <1> SUFFICES ASSUME TenancyInv, [TenancyNext]_tenancyVars, Holders # {}, Holders' = {}
               PROVE  \E r \in OrgRequests : Commits(r) /\ (ocall[r].super \/ ocall[r].overtaken)
    OBVIOUS
  <1>1. CASE UNCHANGED orgContract
    BY <1>1 DEF Holders, Grants
  <1>2. CASE \E u \in Users : Register(u) \/ CreateOrganization(u)
    BY <1>2, DirectStep
  <1>3. CASE \E r \in OrgRequests : CommitCreateUser(r) \/ CommitSetIdentity(r) \/ CommitDeleteUser(r)
    BY <1>3, CommitUserStep
  <1>4. CASE \E r \in OrgRequests : CommitMember(r) \/ CommitNamespaceContract(r)
    BY <1>4, CommitNamespaceStep, LastManager
  <1> QED
    BY <1>1, <1>2, <1>3, <1>4, TenancyCases

\* The commit that takes the last super admin is his own, or of somebody who is
\* none: a super admin who takes the role from another keeps his.
LEMMA AdminStep ==
    TenancyInv /\ [TenancyNext]_tenancyVars
    /\ (\E u \in Users : user[u] = "system") /\ (\A u \in Users : user'[u] # "system")
       => \E r \in OrgRequests :
             /\ Commits(r)
             /\ \/ ocall[r].op = "identity" /\ ocall[r].actor = ocall[r].target
                \/ user[ocall[r].actor] # "system"
  <1> SUFFICES ASSUME TenancyInv, [TenancyNext]_tenancyVars,
                      NEW u \in Users, user[u] = "system", \A v \in Users : user'[v] # "system"
               PROVE  \E r \in OrgRequests :
                         /\ Commits(r)
                         /\ \/ ocall[r].op = "identity" /\ ocall[r].actor = ocall[r].target
                            \/ user[ocall[r].actor] # "system"
    OBVIOUS
  <1>1. user \in [Users -> {"none", "member", "system", "deleted"}]
    BY DEF TenancyInv, TenancyTypeOK
  <1>2. \/ UNCHANGED user
        \/ \E v \in Users : Register(v)
        \/ \E r \in OrgRequests : CommitCreateUser(r) \/ CommitSetIdentity(r) \/ CommitDeleteUser(r)
    BY TenancyCases DEF CreateOrganization, CommitMember, CommitNamespaceContract
  <1>3. ASSUME NEW v \in Users, Register(v) PROVE FALSE
    BY <1>1, <1>3 DEF Register
  <1>4. ASSUME NEW r \in OrgRequests, CommitCreateUser(r) \/ CommitSetIdentity(r) \/ CommitDeleteUser(r)
        PROVE  /\ Commits(r)
               /\ \/ ocall[r].op = "identity" /\ ocall[r].actor = ocall[r].target
                  \/ user[ocall[r].actor] # "system"
    <2> DEFINE c == ocall[r]
    <2>1. Commits(r)
      BY <1>4, EndsStep DEF CommitCreateUser, CommitSetIdentity, CommitDeleteUser, Commits
    <2>2. c.actor \in Users /\ c.target \in Users /\ (c.op = "delete_user" => c.actor # c.target)
      BY <1>4 DEF TenancyInv, ChecksDone, CheckDone, CommitCreateUser, CommitSetIdentity, CommitDeleteUser
    <2>3. \A v \in Users : v # c.target => user'[v] = user[v]
      BY <1>1, <1>4 DEF CommitCreateUser, CommitSetIdentity, CommitDeleteUser
    <2>4. c.op = "create" => user[c.target] = "none"
      BY <1>4 DEF CommitCreateUser, CommitSetIdentity, CommitDeleteUser
    <2>5. c.op \in {"create", "identity", "delete_user"}
      BY <1>4 DEF CommitCreateUser, CommitSetIdentity, CommitDeleteUser
    <2> HIDE DEF c
    <2>6. (c.op = "identity" /\ c.actor = c.target) \/ user[c.actor] # "system"
      BY <2>2, <2>3, <2>4, <2>5
    <2> QED
      BY <2>1, <2>6 DEF c
  <1> QED
    BY <1>2, <1>3, <1>4

-----------------------------------------------------------------------------
(* What belongs to an organization                                         *)

LEMMA KindsAre == Kinds = {"namespace", "provider", "workspace", "entity", "instance"}
  BY DEF Kinds, Parent

LEMMA ParentIs ==
    /\ Parent["namespace"] = "organization" /\ Parent["provider"] = "organization"
    /\ Parent["workspace"] = "namespace" /\ Parent["entity"] = "namespace" /\ Parent["instance"] = "workspace"
  BY DEF Parent

\* A row and the rows above it, one kind at a time.
LEMMA ChainIs ==
    /\ Chain("namespace") = {"namespace"} /\ Chain("provider") = {"provider"}
    /\ Chain("workspace") = {"workspace", "namespace"} /\ Chain("entity") = {"entity", "namespace"}
    /\ Chain("instance") = {"instance", "workspace", "namespace"}
  <1>1. Chain("namespace") = {"namespace"} /\ Chain("provider") = {"provider"}
    BY KindsAre, ParentIs DEF Chain
  <1>2. Chain("workspace") = {"workspace", "namespace"}
    BY KindsAre, ParentIs DEF Chain
  <1>3. Chain("entity") = {"entity", "namespace"}
    BY KindsAre, ParentIs DEF Chain
  <1>4. Chain("instance") = {"instance", "workspace", "namespace"}
    BY KindsAre, ParentIs DEF Chain
  <1> QED
    BY <1>1, <1>2, <1>3, <1>4

\* The query of the sweep that reads a kind.
ReadBy(x) == IF x = "namespace" THEN 1 ELSE IF x \in {"workspace", "entity"} THEN 2 ELSE 3

\* A row to be created is not there; while the sweep reads, what was below the
\* organization is still there unless it was deleted alone, and has been read
\* once its level was, unless something above it was deleted alone; after the
\* commit what was read stays deleted.
SweepReads ==
    /\ \A x \in coming : tree[x] = "none"
    /\ tree["organization"] # "none" /\ \A x \in sweep.read : tree[x] # "none"
    /\ sweep.at = 0 => reached = {}
    /\ sweep.at > 0 => "organization" \in sweep.read
    /\ \A x \in reached :
          /\ Chain(x) \subseteq reached
          /\ LiveRow("organization") => LiveRow(x) \/ x \in alone
          /\ LiveRow("organization") /\ sweep.at > ReadBy(x) => x \in sweep.read \/ Chain(x) \cap alone # {}
          /\ ~LiveRow("organization") => tree[x] = "deleted" \/ Chain(x) \cap alone # {}

OrgTreeInv == OrgTreeTypeOK /\ SweepReads

LEMMA OrgTreeInitInv == OrgTreeInit => OrgTreeInv
  BY KindsAre DEF OrgTreeInit, OrgTreeInv, OrgTreeTypeOK, SweepReads, LiveRow

LEMMA RowStep ==
    ASSUME OrgTreeInv, NEW x \in Kinds, BeginRow(x) \/ CommitRow(x) \/ DeleteAlone(x)
    PROVE  OrgTreeInv'
  <1>0. /\ tree \in [Kinds \cup {"organization"} -> {"none", "live", "deleted"}]
        /\ coming \subseteq Kinds /\ reached \subseteq Kinds /\ alone \subseteq Kinds /\ "organization" \notin Kinds
    BY KindsAre DEF OrgTreeInv, OrgTreeTypeOK
  <1>1. CASE BeginRow(x)
    <2>1. coming' = coming \cup {x} /\ tree[x] = "none" /\ UNCHANGED <<tree, sweep, reached, alone>>
      BY <1>1 DEF BeginRow
    <2>2. OrgTreeTypeOK'
      BY <2>1 DEF OrgTreeInv, OrgTreeTypeOK
    <2>3. SweepReads'
      BY <2>1 DEF OrgTreeInv, SweepReads, LiveRow
    <2> QED BY <2>2, <2>3 DEF OrgTreeInv
  <1>2. CASE CommitRow(x)
    <2>1. /\ coming' = coming \ {x} /\ x \in coming /\ tree' = [tree EXCEPT ![x] = "live"]
          /\ UNCHANGED <<sweep, reached, alone>>
      BY <1>2 DEF CommitRow
    <2>2. tree[x] = "none" /\ tree'["organization"] = tree["organization"]
      BY <1>0, <2>1 DEF OrgTreeInv, SweepReads
    <2>3. OrgTreeTypeOK'
      BY <1>0, <2>1, <2>2 DEF OrgTreeInv, OrgTreeTypeOK
    <2>4. \A y \in Kinds : tree'[y] = tree[y] \/ (y = x /\ tree[y] = "none" /\ tree'[y] = "live")
      BY <1>0, <2>1, <2>2
    <2>5. SweepReads'
      BY <1>0, <2>1, <2>2, <2>4 DEF OrgTreeInv, SweepReads, LiveRow
    <2> QED BY <2>3, <2>5 DEF OrgTreeInv
  <1>3. CASE DeleteAlone(x)
    <2>1. /\ tree[x] = "live" /\ tree' = [tree EXCEPT ![x] = "deleted"] /\ alone' = alone \cup {x}
          /\ UNCHANGED <<coming, sweep, reached>>
      BY <1>3 DEF DeleteAlone, LiveRow
    <2>2. tree'["organization"] = tree["organization"]
      BY <1>0, <2>1
    <2>3. OrgTreeTypeOK'
      BY <1>0, <2>1, <2>2 DEF OrgTreeInv, OrgTreeTypeOK
    <2>4. \A y \in Kinds : tree'[y] = tree[y] \/ (y = x /\ tree[y] = "live" /\ tree'[y] = "deleted")
      BY <1>0, <2>1
    <2>5. SweepReads'
      BY <1>0, <2>1, <2>2, <2>4 DEF OrgTreeInv, SweepReads, LiveRow
    <2> QED BY <2>3, <2>5 DEF OrgTreeInv
  <1> QED BY <1>1, <1>2, <1>3

LEMMA BeginSweepStep ==
    ASSUME OrgTreeInv, BeginSweep
    PROVE  OrgTreeInv'
  <1>1. /\ sweep.at = 0 /\ sweep' = [at |-> 1, read |-> {"organization"}]
        /\ reached' = {x \in Kinds : \A y \in Chain(x) : tree[y] = "live"}
        /\ alone' = {} /\ UNCHANGED <<tree, coming>>
    BY DEF BeginSweep, LiveRow
  <1>2. sweep'.at = 1 /\ sweep'.read = {"organization"}
    BY <1>1
  <1>3. tree["organization"] = "live"
    BY <1>1 DEF OrgTreeInv, OrgTreeTypeOK, SweepReads
  <1>4. OrgTreeTypeOK'
    BY <1>1, <1>3 DEF OrgTreeInv, OrgTreeTypeOK
  <1>5. \A x \in reached' : Chain(x) \subseteq reached' /\ tree[x] = "live"
    BY <1>1, KindsAre, ChainIs
  <1>6. \A x : ReadBy(x) >= 1
    BY DEF ReadBy
  <1>7. SweepReads'
    BY <1>1, <1>2, <1>3, <1>5, <1>6 DEF OrgTreeInv, SweepReads, LiveRow, ReadBy
  <1> QED BY <1>4, <1>7 DEF OrgTreeInv

\* A level is read below the rows read so far, which hold every row above it
\* that was not deleted alone.
LEMMA ReadLevelStep ==
    ASSUME OrgTreeInv, ReadLevel
    PROVE  OrgTreeInv'
  <1> DEFINE found == {x \in Levels[sweep.at] : tree[x] = "live" /\ Parent[x] \in sweep.read}
  <1>1. /\ sweep.at \in 1..3 /\ sweep' = [at |-> sweep.at + 1, read |-> sweep.read \cup found]
        /\ UNCHANGED <<tree, coming, reached, alone>>
    BY DEF ReadLevel, LiveRow
  <1>2. sweep'.at = sweep.at + 1 /\ sweep'.read = sweep.read \cup found
    BY <1>1
  <1>3. Levels[1] = {"namespace"} /\ Levels[2] = {"workspace", "entity"} /\ Levels[3] = {"instance", "provider"}
    BY DEF Levels
  <1>4. /\ sweep.read \subseteq Kinds \cup {"organization"} /\ reached \subseteq Kinds
        /\ tree["organization"] \in {"live", "deleted"}
    BY DEF OrgTreeInv, OrgTreeTypeOK, SweepReads
  <1>5. found \subseteq Kinds
    BY <1>1, <1>3, KindsAre
  <1>6. tree["organization"] = "live"
    BY <1>1, <1>4 DEF OrgTreeInv, OrgTreeTypeOK
  <1>7. OrgTreeTypeOK'
    BY <1>1, <1>2, <1>4, <1>5 DEF OrgTreeInv, OrgTreeTypeOK
  <1>8. ASSUME NEW x \in reached, ReadBy(x) = sweep.at, Chain(x) \cap alone = {}
        PROVE  x \in found
    <2>1. x \in Levels[sweep.at]
      BY <1>3, <1>4, <1>8, KindsAre DEF ReadBy
    <2>2. tree[x] = "live"
      <3>1. x \notin alone
        BY <1>4, <1>8, KindsAre, ChainIs
      <3> QED
        BY <1>6, <3>1 DEF OrgTreeInv, SweepReads, LiveRow
    <2>3. Parent[x] \in sweep.read
      <3>1. CASE x \in {"namespace", "provider"}
        BY <1>1, <3>1, ParentIs DEF OrgTreeInv, SweepReads
      <3>2. CASE x \in {"workspace", "entity"}
        <4>1. "namespace" \in reached /\ Chain("namespace") \cap alone = {} /\ sweep.at > ReadBy("namespace")
          BY <1>8, <3>2, ChainIs DEF OrgTreeInv, SweepReads, ReadBy
        <4> QED
          BY <1>6, <3>2, <4>1, ParentIs DEF OrgTreeInv, SweepReads, LiveRow
      <3>3. CASE x = "instance"
        <4>1. "workspace" \in reached /\ Chain("workspace") \cap alone = {} /\ sweep.at > ReadBy("workspace")
          BY <1>8, <3>3, ChainIs DEF OrgTreeInv, SweepReads, ReadBy
        <4> QED
          BY <1>6, <3>3, <4>1, ParentIs DEF OrgTreeInv, SweepReads, LiveRow
      <3> QED BY <1>4, <3>1, <3>2, <3>3, KindsAre
    <2> QED BY <2>1, <2>2, <2>3
  <1>9. SweepReads'
    <2> HIDE DEF found
    <2>1. \A x : ReadBy(x) \in Nat
      BY DEF ReadBy
    <2>2. \A x \in reached : sweep'.at > ReadBy(x) => x \in sweep'.read \/ Chain(x) \cap alone # {}
      <3> SUFFICES ASSUME NEW x \in reached, sweep.at + 1 > ReadBy(x), Chain(x) \cap alone = {}
                   PROVE  x \in sweep.read \cup found
        BY <1>2
      <3>1. CASE ReadBy(x) = sweep.at
        BY <1>8, <3>1
      <3>2. CASE sweep.at > ReadBy(x)
        BY <1>6, <3>2 DEF OrgTreeInv, SweepReads, LiveRow
      <3> QED BY <1>1, <2>1, <3>1, <3>2
    <2>3. \A x \in sweep'.read : tree[x] # "none"
      BY <1>2 DEF found, OrgTreeInv, SweepReads
    <2> QED
      BY <1>1, <1>2, <1>6, <2>2, <2>3 DEF OrgTreeInv, SweepReads, LiveRow
  <1> QED BY <1>7, <1>9 DEF OrgTreeInv

LEMMA CommitSweepStep ==
    ASSUME OrgTreeInv, CommitSweep
    PROVE  OrgTreeInv'
  <1>0. /\ tree \in [Kinds \cup {"organization"} -> {"none", "live", "deleted"}]
        /\ coming \subseteq Kinds /\ reached \subseteq Kinds
    BY DEF OrgTreeInv, OrgTreeTypeOK
  <1>1. /\ sweep.at = 4 /\ tree["organization"] = "live"
        /\ tree' = [x \in Kinds \cup {"organization"} |-> IF x \in sweep.read THEN "deleted" ELSE tree[x]]
        /\ UNCHANGED <<coming, sweep, reached, alone>>
    BY <1>0 DEF CommitSweep, LiveRow
  <1>2. "organization" \in sweep.read
    BY <1>1 DEF OrgTreeInv, SweepReads
  <1>3. tree'["organization"] = "deleted"
    BY <1>1, <1>2
  <1>4. OrgTreeTypeOK'
    BY <1>0, <1>1 DEF OrgTreeInv, OrgTreeTypeOK
  <1>5. \A x \in reached : sweep.at > ReadBy(x)
    BY <1>1 DEF ReadBy
  <1>6. \A x \in reached : tree'[x] = "deleted" \/ Chain(x) \cap alone # {}
    BY <1>0, <1>1, <1>5 DEF OrgTreeInv, SweepReads, LiveRow
  <1>7. SweepReads'
    <2>1. \A x \in coming : tree'[x] = "none"
      BY <1>0, <1>1 DEF OrgTreeInv, SweepReads
    <2>2. \A x \in sweep.read : tree'[x] # "none"
      BY <1>1 DEF OrgTreeInv, OrgTreeTypeOK
    <2> QED
      BY <1>1, <1>2, <1>3, <1>6, <2>1, <2>2 DEF OrgTreeInv, SweepReads, LiveRow
  <1> QED BY <1>4, <1>7 DEF OrgTreeInv

LEMMA OrgTreeInvStep == OrgTreeInv /\ [OrgTreeNext]_orgTreeVars => OrgTreeInv'
  <1> SUFFICES ASSUME OrgTreeInv, [OrgTreeNext]_orgTreeVars PROVE OrgTreeInv'
    OBVIOUS
  <1>1. CASE UNCHANGED orgTreeVars
    BY <1>1 DEF orgTreeVars, OrgTreeInv, OrgTreeTypeOK, SweepReads, LiveRow
  <1> QED
    BY <1>1, RowStep, BeginSweepStep, ReadLevelStep, CommitSweepStep DEF OrgTreeNext

-----------------------------------------------------------------------------
(* Providers                                                               *)

\* Of a set of numbers that is not empty one is the least.
LEMMA LeastOf ==
    ASSUME NEW T \in SUBSET Nat, T # {}
    PROVE  \E x \in T : \A y \in T : ~(y < x)
  <1>1. PICK x \in T : \A y \in T : ~(<<y, x>> \in OpToRel(<, Nat))
    BY NatLessThanWellFounded, WFMin
  <1> QED
    BY <1>1 DEF OpToRel

RefreshRecords == [id : ProviderIds \cup {NoProvider}, model : Models, list : SUBSET Models]

LEMMA ProvidersInitInv == ProvidersInit => ProvidersTypeOK
  BY DEF ProvidersInit, ProvidersTypeOK, ProviderRows

\* A row that is written stays a row, and no row goes back to the state it had
\* before it was created.
LEMMA RowWritten ==
    ASSUME ProvidersTypeOK, NEW p \in ProviderIds, NEW row \in ProviderRows, row.state # "none",
           provider' = [provider EXCEPT ![p] = row], default' = default,
           refresh' \in [Refreshes -> RefreshRecords]
    PROVE  ProvidersTypeOK'
  BY DEF ProvidersTypeOK, RefreshRecords

LEMMA RefreshEnds ==
    ASSUME ProvidersTypeOK, NEW r \in Refreshes,
           refresh' = [refresh EXCEPT ![r].id = NoProvider, ![r].list = {}]
    PROVE  refresh' \in [Refreshes -> RefreshRecords]
  BY DEF ProvidersTypeOK, RefreshRecords

\* What the end of a refresh writes: a list W, the one of the endpoint or the
\* one that stands when the endpoint returned what was loaded, and a model m.
LEMMA EndRefreshStep ==
    ASSUME ProvidersTypeOK, NEW r \in Refreshes, EndRefresh(r), provider' # provider
    PROVE  LET p == refresh[r].id IN
           /\ p \in ProviderIds
           /\ \E L \in SUBSET Models, W \in SUBSET Models, m \in Models :
                 /\ provider' = [provider EXCEPT ![p] = [provider[p] EXCEPT !.allowlist = W, !.default_model = m]]
                 /\ W = L \/ (L = refresh[r].list /\ W = provider[p].allowlist)
                 /\ m \in L \/ (refresh[r].model \in L /\ m = provider[p].default_model)
  <1> DEFINE p == refresh[r].id
  <1>1. p \in ProviderIds /\ provider \in [ProviderIds -> ProviderRows] /\ provider[p] \in ProviderRows
    BY DEF ProvidersTypeOK, EndRefresh
  <1>2. PICK L \in SUBSET Models :
           IF L = {} THEN provider' = provider
           ELSE \E written \in ListWritten(r, L),
                   m \in IF refresh[r].model \in L THEN {provider[p].default_model} ELSE L :
                   provider' = [provider EXCEPT ![p].allowlist = written, ![p].default_model = m]
    BY DEF EndRefresh
  <1>3. PICK W \in ListWritten(r, L), m \in IF refresh[r].model \in L THEN {provider[p].default_model} ELSE L :
           provider' = [provider EXCEPT ![p].allowlist = W, ![p].default_model = m]
    BY <1>2
  <1>4. W = L \/ (L = refresh[r].list /\ W = provider[p].allowlist)
    BY DEF ListWritten
  <1>5. provider[p].default_model \in Models /\ provider[p].allowlist \in SUBSET Models
    BY <1>1 DEF ProviderRows
  <1>6. m \in Models /\ (m \in L \/ (refresh[r].model \in L /\ m = provider[p].default_model))
    BY <1>3, <1>5
  <1>7. W \in SUBSET Models
    BY <1>4, <1>5
  <1>8. provider' = [provider EXCEPT ![p] = [provider[p] EXCEPT !.allowlist = W, !.default_model = m]]
    BY <1>1, <1>3
  <1> QED BY <1>1, <1>4, <1>6, <1>7, <1>8

LEMMA EndRefreshWrites ==
    ASSUME ProvidersTypeOK, NEW r \in Refreshes, EndRefresh(r), provider' # provider
    PROVE  LET p == refresh[r].id IN
           \E W \in SUBSET Models, m \in Models :
              provider' = [provider EXCEPT ![p] = [provider[p] EXCEPT !.allowlist = W, !.default_model = m]]
  <1> DEFINE p == refresh[r].id
  <1>1. PICK L \in SUBSET Models, W \in SUBSET Models, m \in Models :
           /\ provider' = [provider EXCEPT ![p] = [provider[p] EXCEPT !.allowlist = W, !.default_model = m]]
           /\ W = L \/ (L = refresh[r].list /\ W = provider[p].allowlist)
           /\ m \in L \/ (refresh[r].model \in L /\ m = provider[p].default_model)
    BY EndRefreshStep
  <1> QED
    BY <1>1

LEMMA ProvidersInvStep == ProvidersTypeOK /\ [ProvidersNext]_providerVars => ProvidersTypeOK'
  <1> SUFFICES ASSUME ProvidersTypeOK, [ProvidersNext]_providerVars PROVE ProvidersTypeOK'
    OBVIOUS
  <1>0. /\ provider \in [ProviderIds -> ProviderRows] /\ default \in [Targets -> ProviderIds \cup {NoProvider}]
        /\ refresh \in [Refreshes -> RefreshRecords]
    BY DEF ProvidersTypeOK, RefreshRecords
  <1>1. CASE UNCHANGED providerVars
    BY <1>1 DEF providerVars, ProvidersTypeOK
  <1>2. ASSUME NEW p \in ProviderIds, CreateProvider(p) PROVE ProvidersTypeOK'
    <2>1. PICK m \in Models, L \in SUBSET Models, on \in BOOLEAN :
             provider' = [provider EXCEPT ![p] = [state |-> "live", enabled |-> on, default_model |-> m, allowlist |-> L]]
      BY <1>2 DEF CreateProvider
    <2> DEFINE row == [state |-> "live", enabled |-> on, default_model |-> m, allowlist |-> L]
    <2>2. row \in ProviderRows /\ row.state # "none"
      BY DEF ProviderRows
    <2> HIDE DEF row
    <2> QED
      BY <1>0, <1>2, <2>1, <2>2, RowWritten DEF CreateProvider, row
  <1>3. ASSUME NEW p \in ProviderIds, UpdateProvider(p) \/ DeleteProvider(p) PROVE ProvidersTypeOK'
    <2>1. \E row \in ProviderRows : row.state # "none" /\ provider' = [provider EXCEPT ![p] = row]
      <3>1. provider[p] \in ProviderRows /\ provider[p].state = "live"
        BY <1>0, <1>3 DEF UpdateProvider, DeleteProvider, LiveProvider
      <3>2. ASSUME NEW m \in Models, NEW L \in SUBSET Models, NEW on \in BOOLEAN
            PROVE  LET row == [provider[p] EXCEPT !.enabled = on, !.default_model = m, !.allowlist = L] IN
                   row \in ProviderRows /\ row.state = "live"
        BY <3>1 DEF ProviderRows
      <3>4. [provider[p] EXCEPT !.state = "deleted"] \in ProviderRows /\ [provider[p] EXCEPT !.state = "deleted"].state = "deleted"
        BY <3>1 DEF ProviderRows
      <3>5. CASE UpdateProvider(p)
        <4>1. PICK m \in Models, L \in SUBSET Models, on \in BOOLEAN :
                 provider' = [provider EXCEPT ![p].enabled = on, ![p].default_model = m, ![p].allowlist = L]
          BY <3>5 DEF UpdateProvider
        <4>2. provider' = [provider EXCEPT ![p] = [provider[p] EXCEPT !.enabled = on, !.default_model = m, !.allowlist = L]]
          BY <1>0, <4>1
        <4> QED
          BY <3>2, <4>2
      <3>6. CASE DeleteProvider(p)
        BY <1>0, <3>4, <3>6 DEF DeleteProvider
      <3> QED BY <1>3, <3>5, <3>6
    <2> QED
      BY <1>0, <1>3, <2>1, RowWritten DEF UpdateProvider, DeleteProvider
  <1>4. ASSUME NEW p \in ProviderIds, NEW t \in Targets, SetDefault(t, p) PROVE ProvidersTypeOK'
    BY <1>4 DEF SetDefault, LiveProvider, ProvidersTypeOK
  <1>5. ASSUME NEW p \in ProviderIds, NEW r \in Refreshes, BeginRefresh(r, p) PROVE ProvidersTypeOK'
    <2>1. [id |-> p, model |-> provider[p].default_model, list |-> provider[p].allowlist] \in RefreshRecords
      BY <1>0 DEF ProviderRows, RefreshRecords
    <2>2. refresh' \in [Refreshes -> RefreshRecords]
      BY <1>0, <1>5, <2>1 DEF BeginRefresh
    <2> QED
      BY <1>5, <2>2 DEF BeginRefresh, ProvidersTypeOK, RefreshRecords
  <1>6. ASSUME NEW t \in Targets, ClearDefault(t) PROVE ProvidersTypeOK'
    BY <1>6 DEF ClearDefault, ProvidersTypeOK
  <1>7. ASSUME NEW r \in Refreshes, EndRefresh(r) PROVE ProvidersTypeOK'
    <2>1. refresh' = [refresh EXCEPT ![r].id = NoProvider, ![r].list = {}] /\ default' = default
      BY <1>7 DEF EndRefresh
    <2>2. CASE provider' = provider
      BY <2>1, <2>2, RefreshEnds DEF ProvidersTypeOK, RefreshRecords
    <2>3. CASE provider' # provider
      <3> DEFINE p == refresh[r].id
      <3>1. p \in ProviderIds
        BY <1>7, <2>3, EndRefreshStep
      <3>2. PICK W \in SUBSET Models, m \in Models :
               provider' = [provider EXCEPT ![p] = [provider[p] EXCEPT !.allowlist = W, !.default_model = m]]
        BY <1>7, <2>3, EndRefreshWrites
      <3> DEFINE row == [provider[p] EXCEPT !.allowlist = W, !.default_model = m]
      <3>3. row \in ProviderRows /\ row.state = provider[p].state
        <4>1. provider[p] \in ProviderRows
          BY <1>0, <3>1
        <4> HIDE DEF p
        <4> QED
          BY <4>1 DEF ProviderRows
      <3>4. provider' \in [ProviderIds -> ProviderRows] /\ \A q \in ProviderIds : provider'[q].state = provider[q].state
        <4> HIDE DEF row, p
        <4> QED
          BY <1>0, <3>1, <3>2, <3>3 DEF row
      <3> QED
        BY <2>1, <3>4, RefreshEnds DEF ProvidersTypeOK, RefreshRecords
    <2> QED BY <2>2, <2>3
  <1> QED
    BY <1>1, <1>2, <1>3, <1>4, <1>5, <1>6, <1>7 DEF ProvidersNext

\* The choice falls on a provider that can be used whenever there is one.
LEMMA ChoiceIsUsable == ProvidersTypeOK => InstanceGetsUsableProvider
  <1> SUFFICES ASSUME ProvidersTypeOK PROVE InstanceGetsUsableProvider
    OBVIOUS
  <1>1. \A t \in Targets : Usable(default[t]) => default[t] \in ProviderIds
    BY DEF ProvidersTypeOK, Usable
  <1>2. FirstUsableDefault = NoProvider \/ (Usable(FirstUsableDefault) /\ FirstUsableDefault \in ProviderIds)
    BY <1>1 DEF FirstUsableDefault, Targets
  <1>3. CASE \E p \in ProviderIds : Usable(p)
    <2> DEFINE T == {p \in ProviderIds : Usable(p)}
    <2>1. T \in SUBSET Nat /\ T # {}
      BY <1>3, ProviderIdsAssumption
    <2> HIDE DEF T
    <2>2. PICK p \in T : \A q \in T : ~(q < p)
      BY <2>1, LeastOf
    <2>3. p \in ProviderIds /\ Usable(p) /\ \A q \in ProviderIds : q < p => ~Usable(q)
      BY <2>2 DEF T
    <2>4. Usable(CHOOSE c \in ProviderIds : Usable(c) /\ \A q \in ProviderIds : q < c => ~Usable(q))
      BY <2>3
    <2> QED
      BY <1>2, <1>3, <2>4 DEF InstanceGetsUsableProvider, ProviderOfInstance
  <1>4. CASE ~\E p \in ProviderIds : Usable(p)
    BY <1>2, <1>4 DEF InstanceGetsUsableProvider, ProviderOfInstance
  <1> QED BY <1>3, <1>4

LEMMA RefreshStep ==
    ASSUME ProvidersTypeOK, [ProvidersNext]_providerVars, NEW r \in Refreshes,
           refresh[r].id # NoProvider, refresh'[r].id = NoProvider, provider' # provider
    PROVE  \/ provider'[refresh[r].id].default_model \in provider'[refresh[r].id].allowlist
           \/ provider[refresh[r].id].default_model # refresh[r].model
           \/ /\ provider[refresh[r].id].allowlist # refresh[r].list
              /\ provider'[refresh[r].id].allowlist = provider[refresh[r].id].allowlist
  <1> DEFINE p == refresh[r].id
  <1>0. /\ provider \in [ProviderIds -> ProviderRows]
        /\ refresh \in [Refreshes -> RefreshRecords]
    BY DEF ProvidersTypeOK, RefreshRecords
  <1>1. EndRefresh(r)
    <2>1. refresh' # refresh
      OBVIOUS
    <2>2. \E q \in Refreshes : EndRefresh(q)
      BY <2>1 DEF ProvidersNext, providerVars, CreateProvider, UpdateProvider, DeleteProvider, SetDefault,
                  BeginRefresh, ClearDefault
    <2>3. PICK q \in Refreshes : EndRefresh(q)
      BY <2>2
    <2>4. q # r => refresh'[r] = refresh[r]
      BY <1>0, <2>3 DEF EndRefresh
    <2> QED
      BY <2>3, <2>4
  <1>2. p \in ProviderIds
    BY <1>1, EndRefreshStep
  <1>3. PICK L \in SUBSET Models, W \in SUBSET Models, m \in Models :
           /\ provider' = [provider EXCEPT ![p] = [provider[p] EXCEPT !.allowlist = W, !.default_model = m]]
           /\ W = L \/ (L = refresh[r].list /\ W = provider[p].allowlist)
           /\ m \in L \/ (refresh[r].model \in L /\ m = provider[p].default_model)
    BY <1>1, EndRefreshStep
  <1>4. provider'[p] = [provider[p] EXCEPT !.allowlist = W, !.default_model = m]
    BY <1>0, <1>2, <1>3
  <1>5. provider[p] \in ProviderRows
    BY <1>0, <1>2
  <1>6. provider'[p].allowlist = W /\ provider'[p].default_model = m
    BY <1>4, <1>5 DEF ProviderRows
  <1> QED
    BY <1>3, <1>6

-----------------------------------------------------------------------------
(* The parts together                                                      *)

IInv == TenancyInv /\ OrgTreeInv /\ ProvidersTypeOK

LEMMA InitInv == Init => IInv
  BY TenancyInitInv, OrgTreeInitInv, ProvidersInitInv DEF Init, IInv

\* Every step is a step of one of the parts and leaves the others.
LEMMA StepsOfParts ==
    ASSUME [Next]_vars
    PROVE  [TenancyNext]_tenancyVars /\ [OrgTreeNext]_orgTreeVars /\ [ProvidersNext]_providerVars
  BY DEF Next, vars

LEMMA InvStep == IInv /\ [Next]_vars => IInv'
  BY StepsOfParts, TenancyInvStep, OrgTreeInvStep, ProvidersInvStep DEF IInv

LEMMA Invariant == Spec => []IInv
  BY InitInv, InvStep, PTL DEF Spec

\* Whatever rows are created and deleted while delete_organization reads level by level,
\* the rows that were below the organization when it began are gone when it is, unless
\* something above them was deleted by itself meanwhile; and every variable keeps its type.
THEOREM OrganizationEmptiedAlways == Spec => []OrganizationEmptied
  <1>1. IInv => OrganizationEmptied
    BY DEF IInv, OrganizationEmptied, TenancyInv, OrgTreeInv, SweepReads, OrganizationTakesAll, LiveRow
  <1> QED
    BY <1>1, Invariant, PTL

\* resolve_provider_for_instance returns a usable provider whenever the organization has
\* one, for any number of providers and however they are deleted, disabled or refreshed.
THEOREM ProviderAlwaysUsable == Spec => []InstanceGetsUsableProvider
  <1>1. IInv => InstanceGetsUsableProvider
    BY ChoiceIsUsable DEF IInv
  <1> QED
    BY <1>1, Invariant, PTL

\* _guard_cannot_lock_self leaves an organization a manager, for any number of users and
\* requests, unless a super admin acts or another commit changed the grants meanwhile.
THEOREM ManagerKept == Spec => ManagerLostOnlyByOverlap
  <1>1. IInv /\ [Next]_vars
           => [Holders # {} /\ Holders' = {}
                 => \E r \in OrgRequests : Commits(r) /\ (ocall[r].super \/ ocall[r].overtaken)]_tenancyVars
    BY StepsOfParts, ManagerStep DEF IInv
  <1> QED
    BY <1>1, Invariant, PTL DEF Spec, ManagerLostOnlyByOverlap

\* delete_user, set_user_identity and update_user never take the last super admin, however
\* their requests overlap, unless he gives the role up himself or the one who asked has
\* lost it since he was checked.
THEOREM AdminKept == Spec => AdminLostKnowingly
  <1>1. IInv /\ [Next]_vars
           => [(\E u \in Users : user[u] = "system") /\ (\A u \in Users : user'[u] # "system")
                 => \E r \in OrgRequests :
                       /\ Commits(r)
                       /\ \/ ocall[r].op = "identity" /\ ocall[r].actor = ocall[r].target
                          \/ user[ocall[r].actor] # "system"]_tenancyVars
    BY StepsOfParts, AdminStep DEF IInv
  <1> QED
    BY <1>1, Invariant, PTL DEF Spec, AdminLostKnowingly

\* A refresh of the models that changes a provider leaves a default model that is on the
\* list, for any number of overlapping refreshes and edits, unless the model was edited
\* meanwhile, or the list was and the refresh left the edit.
THEOREM RefreshKeepsListedModel == Spec => RefreshLeavesListedModel
  <1>1. IInv /\ [Next]_vars
           => [\A r \in Refreshes :
                 LET p == refresh[r].id IN
                 p # NoProvider /\ refresh'[r].id = NoProvider /\ provider' # provider
                    => \/ provider'[p].default_model \in provider'[p].allowlist
                       \/ provider[p].default_model # refresh[r].model
                       \/ /\ provider[p].allowlist # refresh[r].list
                          /\ provider'[p].allowlist = provider[p].allowlist]_providerVars
    BY StepsOfParts, RefreshStep DEF IInv
  <1> QED
    BY <1>1, Invariant, PTL DEF Spec, RefreshLeavesListedModel
=============================================================================
