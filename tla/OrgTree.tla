------------------------------- MODULE OrgTree -------------------------------
(***************************************************************************)
(* What belongs to an organization, and its deletion.  delete_organization *)
(* of api/v1/organizations.py reads the rows of each level with a query of *)
(* its own and soft-deletes what it has read in one commit, while other    *)
(* requests create and delete rows (api/v1/namespaces.py, workspaces.py,   *)
(* entities.py).  One row of a kind shows every case.                      *)
(***************************************************************************)
EXTENDS Naturals, FiniteSets

VARIABLES tree,      \* the rows
          coming,    \* rows whose creation has found its parent live
          sweep,     \* delete_organization: how far it is, what it has read
          reached,   \* history: the rows below the organization when it began
          alone      \* history: rows deleted by their own route since then

orgTreeVars == <<tree, coming, sweep, reached, alone>>

\* A row and the row it belongs to.
\* Contracts, capability and gene links, memberships, passages and knowledge
\* are treated as the ones of their level that are here.
Parent == [namespace |-> "organization", provider |-> "organization", workspace |-> "namespace",
           entity |-> "namespace", instance |-> "workspace"]
Kinds == DOMAIN Parent

\* The order of the queries: a level is read by the ids of the one above.
Levels == <<{"namespace"}, {"workspace", "entity"}, {"instance", "provider"}>>

LiveRow(x) == tree[x] = "live"

OrgTreeTypeOK ==
    /\ tree \in [Kinds \cup {"organization"} -> {"none", "live", "deleted"}]
    /\ coming \subseteq Kinds
    /\ sweep \in [at : 0..4, read : SUBSET (Kinds \cup {"organization"})]
    /\ reached \subseteq Kinds /\ alone \subseteq Kinds
    /\ tree["organization"] = "deleted" => sweep.at = 4

OrgTreeInit ==
    /\ tree = [x \in Kinds \cup {"organization"} |-> IF x = "organization" THEN "live" ELSE "none"]
    /\ coming = {}
    /\ sweep = [at |-> 0, read |-> {}]
    /\ reached = {} /\ alone = {}

\* A create route looks its parent up ...
BeginRow(x) ==
    /\ tree[x] = "none" /\ x \notin coming /\ LiveRow(Parent[x])
    /\ coming' = coming \cup {x}
    /\ UNCHANGED <<tree, sweep, reached, alone>>

\* ... and commits whatever became of it meanwhile: the foreign key is
\* satisfied by a soft-deleted row too.
CommitRow(x) ==
    /\ x \in coming
    /\ coming' = coming \ {x}
    /\ tree' = [tree EXCEPT ![x] = "live"]
    /\ UNCHANGED <<sweep, reached, alone>>

\* delete_namespace and its like leave the rows below alone.
DeleteAlone(x) ==
    /\ LiveRow(x)
    /\ tree' = [tree EXCEPT ![x] = "deleted"]
    /\ alone' = alone \cup {x}
    /\ UNCHANGED <<coming, sweep, reached>>

\* A row and the rows above it, up to the organization.
Chain(x) ==
    LET up == IF Parent[x] \in Kinds THEN {Parent[x]} ELSE {}
    IN {x} \cup up \cup {Parent[y] : y \in {z \in up : Parent[z] \in Kinds}}

\* The permission check, and the rows that are below the organization now.
BeginSweep ==
    /\ sweep.at = 0
    /\ sweep' = [at |-> 1, read |-> {"organization"}]
    /\ reached' = {x \in Kinds : \A y \in Chain(x) : LiveRow(y)}
    /\ alone' = {}
    /\ UNCHANGED <<tree, coming>>

\* As a mutant: entities are only looked for in namespaces with a workspace.
ReadLevelOfWorkspaces ==
    /\ sweep.at \in 1..3
    /\ sweep' = [at |-> sweep.at + 1,
                 read |-> sweep.read \cup {x \in Levels[sweep.at] : /\ LiveRow(x) /\ Parent[x] \in sweep.read
                                                                    /\ x = "entity" => LiveRow("workspace")}]
    /\ UNCHANGED <<tree, coming, reached, alone>>

\* The live rows of a level below those read so far.
ReadLevel ==
    /\ sweep.at \in 1..3
    /\ sweep' = [at |-> sweep.at + 1,
                 read |-> sweep.read \cup {x \in Levels[sweep.at] : LiveRow(x) /\ Parent[x] \in sweep.read}]
    /\ UNCHANGED <<tree, coming, reached, alone>>

\* Everything read is soft-deleted, with the organization, in one commit.
CommitSweep ==
    /\ sweep.at = 4 /\ LiveRow("organization")
    /\ tree' = [x \in DOMAIN tree |-> IF x \in sweep.read THEN "deleted" ELSE tree[x]]
    /\ UNCHANGED <<coming, sweep, reached, alone>>

OrgTreeNext ==
    \/ \E x \in Kinds : BeginRow(x) \/ CommitRow(x) \/ DeleteAlone(x)
    \/ BeginSweep \/ ReadLevel \/ CommitSweep

-----------------------------------------------------------------------------
(* Properties                                                              *)

\* A deleted organization takes with it every row that was below it when the
\* deletion began, except what hung below a row that was itself deleted in
\* between.  Only rows that other requests add meanwhile survive.
OrganizationTakesAll ==
    tree["organization"] = "deleted" =>
        \A x \in reached : LiveRow(x) => Chain(x) \cap alone # {}
=============================================================================
