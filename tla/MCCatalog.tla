----------------------------- MODULE MCCatalog -----------------------------
(***************************************************************************)
(* A behaviour starts from a catalog as requests before it left it: one    *)
(* entity with a base class, a linked capability, a gene it carries,       *)
(* inherits, both or neither, and one instance that may have been reaped;  *)
(* or it is about a message sent to a workspace.                           *)
(***************************************************************************)
EXTENDS Catalog, Directives

CONSTANTS e1, b1, g1, s1, n1, n2, i1, a1, a2, a3
ASSUME StartAssumption ==
    e1 \in Entities /\ b1 \in Bases /\ g1 \in Genes /\ s1 \in Slugs /\ {n1, n2} \subseteq Names /\ i1 \in Instances

SomeMemories == {<<"lesson", n1>>, <<"experience", n2>>}

\* The rows and links, and then the fingerprint of what they give the entity
Stocked(carries, inherits, reaped) ==
    [c \in Cells |->
        CASE c[1] \in {"elive", "blive", "glive", "ilive"} ->
                IF c \in {<<"elive", e1>>, <<"blive", b1>>, <<"glive", g1>>, <<"ilive", i1>>} THEN "live" ELSE "none"
          [] c[1] \in {"slug", "preset"} -> IF c \in {<<"slug", b1>>, <<"preset", e1>>} THEN s1 ELSE None
          [] c[1] \in {"ecap", "bcap", "egene", "bgene", "cerebellum"} ->
                \/ c = <<"ecap", e1, <<n1, 0>>>>
                \/ c = <<"egene", e1, g1>> /\ carries
                \/ c = <<"bgene", b1, g1>> /\ inherits
          [] c[1] = "mlive" -> c[2] \in {n1} \cup reaped
          [] c[1] = "text" -> IF c[2] \in {n1} \cup reaped THEN "created" ELSE None
          [] c[1] = "row" -> 0
          [] c[1] = "inline" -> IF c[2] = g1 THEN {n2} ELSE {}
          [] c[1] = "prompt" -> IF c[2] = e1 THEN "first" ELSE None
          [] c[1] = "of" -> IF c[2] = i1 THEN e1 ELSE None
          [] c[1] = "runtime" -> Runtime({}, None)
          [] OTHER -> None]

Start(carries, inherits, reaped) ==
    LET v == Stocked(carries, inherits, reaped)
        hash == Surface(v, e1)
    IN  [v EXCEPT ![<<"hash", e1>>] = hash, ![<<"active", i1>>] = hash, ![<<"runtime", i1>>] = Runtime(reaped, hash)]

\* Every line of up to three words, a message of two lines, and some longer lines
TokenSet == {<<"at", "A">>, <<"at", "B">>, <<"ref", "hub">>, <<"file", "/b">>, <<"cmd", "/ask">>, <<"path", "/or">>,
             <<"mail", "me">>, <<"word", "hi">>}
SomeTexts ==
    {<<line>> : line \in UNION {[1 .. n -> TokenSet] : n \in 1 .. 3}}
    \cup {<<<<<<"at", "A">>, <<"cmd", c>>>>, <<<<"at", "B">>, <<"word", "hi">>>>>> : c \in {"/pause", "/distill", "/ask"}}
    \cup {<<<<<<"word", "so">>, <<"at", "A">>, <<"word", "hi">>, <<"ref", "hub">>, <<"at", "B">>, <<"word", "do">>, <<"word", "it">>>>>>}
SomeSlugs == [a \in Agents |-> IF a = a3 THEN "B" ELSE "A"]

VARIABLE part

vars == <<catalogVars, directiveVars, part>>

Absent == [live |-> FALSE, active |-> FALSE, seated |-> FALSE, linked |-> FALSE]
Reachable == [live |-> TRUE, active |-> TRUE, seated |-> TRUE, linked |-> TRUE]
\* a1 is in all conditions but unknown; a2 has its slug in another namespace.
Workspaces ==
    {w \in [Agents -> {Absent, Reachable} \cup {[Reachable EXCEPT ![f] = FALSE] : f \in {"active", "linked"}}] :
        w[a1] # Absent /\ w[a2] # [Reachable EXCEPT !.linked = FALSE] /\ w[a3] = Reachable}

Init ==
    /\ part \in {"catalog", "directives"}
    /\ agent \in IF part = "catalog" THEN {[a \in Agents |-> Absent]} ELSE Workspaces
    /\ \E carries, inherits \in IF part = "catalog" THEN BOOLEAN ELSE {FALSE},
          reaped \in IF part = "catalog" THEN {{}, {n2}} ELSE {{}} : db = Start(carries, inherits, reaped)
    /\ msg = NoMessage /\ pending = {} /\ committed = {} /\ handed = {} /\ shifts = 0
    /\ tx = [h \in Handlers |-> Idle]
    /\ registry = {s1} /\ served = 0

Symmetry == Permutations(Handlers) \cup Permutations(Entities \ {e1}) \cup Permutations(Slugs \ {s1})

Next ==
    \/ part = "catalog" /\ CatalogNext /\ UNCHANGED <<directiveVars, part>>
    \/ part = "directives" /\ DirectivesNext /\ UNCHANGED <<catalogVars, part>>

\* The cells and the message keep their types, and two requests that both saw a
\* namespace without a cerebellum do not both make one.
CatalogConsistent == CatalogTypeOK /\ DirectivesTypeOK /\ OneCerebellum

Spec == Init /\ [][Next]_vars
=============================================================================
