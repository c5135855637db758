------------------------------- MODULE Catalog -------------------------------
(***************************************************************************)
(* What an entity can do, and the fingerprint of it that tells which of    *)
(* its instances are outdated.  core/capabilities.py, core/migration_hash  *)
(* .py, core/preset_registry.py, services/clone.py, services/instance_     *)
(* factory.py and the routes of capability_market, ai_genes, base_classes, *)
(* entities, clone and learning.                                           *)
(*                                                                         *)
(* The database is a function of its cells: a column of a row or the       *)
(* presence of a junction row.  A request reads a committed state, works   *)
(* out what it writes and commits that later (READ COMMITTED, one          *)
(* transaction per request), so two requests can both have read before     *)
(* either has written.  A request that a permission, a scope or a          *)
(* snapshot_only flag stops changes nothing and is not an action.  A hash  *)
(* is the surface it is computed from: SHA-256 is taken as injective.      *)
(***************************************************************************)
EXTENDS Naturals, FiniteSets

CONSTANTS Entities, Bases, Genes, Names, Instances,
          Slugs,         \* slugs of base classes
          Handlers,      \* concurrent API requests
          MaxRequests,   \* bound: requests of a behaviour
          None

ASSUME RequestsBound == MaxRequests \in Nat
\* No fingerprint is NULL.
ASSUME NoneAssumption ==
    None \notin (SUBSET (Names \X {"created", "edited", None})) \X (SUBSET Names) \X {"first", "edited", "regen", None}

VARIABLES db,            \* cell -> value, as committed
          tx,            \* handler -> the request it serves
          registry,      \* PresetRegistry._cache: the slugs it knows
          served         \* requests so far

catalogVars == <<db, tx, registry, served>>

\* A market row is a name and the number of the request that made it, 0 for those
\* that were there: a name deleted and made again is another row, and links to the
\* old one count for nothing.
Rows == Names \X (0 .. MaxRequests)
Cells ==
    ({"elive", "prompt", "preset", "hash", "cerebellum"} \X Entities)
    \cup ({"blive", "slug"} \X Bases) \cup ({"glive", "inline"} \X Genes)
    \cup ({"row", "mlive", "text"} \X Names)
    \cup ({"ilive", "of", "active", "runtime"} \X Instances)
    \cup ({"ecap"} \X Entities \X Rows) \cup ({"bcap"} \X Bases \X Rows)
    \cup ({"egene"} \X Entities \X Genes) \cup ({"bgene"} \X Bases \X Genes)

Live(v, k, x) == v[<<k, x>>] = "live"
Of(k, S) == {x \in S : Live(db, k, x)}
Unused(k, S) == {x \in S : db[<<k, x>>] = "none"}

-----------------------------------------------------------------------------
(* The capability surface                                                  *)

Row(v, n) == <<n, v[<<"row", n>>]>>

\* load_entity_capability_dicts and load_base_class_capability_dicts: linked rows that live
LinkedCaps(v, k, x) == {n \in Names : v[<<"mlive", n>>] /\ v[<<k, x, Row(v, n)>>]}

BaseWithSlug(v, s) == {b \in Bases : Live(v, "blive", b) /\ v[<<"slug", b>>] = s}

\* load_entity_ai_gene_dicts: the genes of the entity and those of its base class
EffectiveGenes(v, e) ==
    {g \in Genes : /\ Live(v, "glive", g)
                   /\ \/ v[<<"egene", e, g>>]
                      \/ \E b \in BaseWithSlug(v, v[<<"preset", e>>]) : v[<<"bgene", b, g>>]}

\* _load_entity_gene_inline_capability_dicts, without the names a row already has
InlineCaps(v, e) ==
    (UNION {v[<<"inline", g>>] : g \in EffectiveGenes(v, e)}) \ LinkedCaps(v, "ecap", e)

SurfaceNames(v, e) == LinkedCaps(v, "ecap", e) \cup InlineCaps(v, e)

\* compute_entity_migration_hash
Surface(v, e) ==
    <<{<<n, v[<<"text", n>>]>> : n \in LinkedCaps(v, "ecap", e)}, InlineCaps(v, e), v[<<"prompt", e>>]>>

\* get_workspace_live_status
Outdated(v, i) ==
    LET e == v[<<"of", i>>]
        expected == IF v[<<"hash", e>>] = None THEN Surface(v, e) ELSE v[<<"hash", e>>]
    IN  v[<<"active", i>>] = None \/ v[<<"active", i>>] # expected

-----------------------------------------------------------------------------
(* What requests write                                                     *)

\* The cells of w, and those of v that w leaves alone
w ++ v == [c \in DOMAIN w \cup DOMAIN v |-> IF c \in DOMAIN w THEN w[c] ELSE v[c]]

Nothing == [c \in {} |-> FALSE]
Put(k, x, value) == [c \in {<<k, x>>} |-> value]
Link(k, x, S) == [c \in {<<k, x, y>> : y \in S} |-> TRUE]
Unlink(k, x, y) == [c \in {<<k, x, y>>} |-> FALSE]

\* bump_entity_migration_hash of each of E: an attribute set to the value it has
\* is not written.
BumpEntities(w, E) ==
    LET v == w ++ db
    IN  [c \in {<<"hash", e>> : e \in {x \in E : db[<<"hash", x>>] # Surface(v, x)}} |-> Surface(v, c[2])] ++ w

PresetUsers(v, b) == {e \in Of("elive", Entities) : v[<<"preset", e>>] = v[<<"slug", b>>]}
BumpForBase(w, b) == BumpEntities(w, PresetUsers(db, b))

BumpOnlyHolders(w, g) == BumpEntities(w, {e \in Of("elive", Entities) : db[<<"egene", e, g>>]})

\* bump_entities_for_gene: those that carry the gene and those whose base class does
BumpForGene(w, g) ==
    BumpEntities(w, {e \in Of("elive", Entities) : db[<<"egene", e, g>>]}
                    \cup UNION {PresetUsers(db, b) : b \in {x \in Of("blive", Bases) : db[<<"bgene", x, g>>]}})

\* upsert_capability for each of S: a live row of that name is used as it is.
UpsertCapabilities(S) ==
    LET new == {n \in S : ~db[<<"mlive", n>>]}
    IN  [c \in {"mlive", "row", "text"} \X new |->
            CASE c[1] = "mlive" -> TRUE
              [] c[1] = "row" -> served + 1
              [] OTHER -> "created"]

\* upsert, then attach to x
Equip(k, x, S) ==
    LET w == UpsertCapabilities(S)
    IN  Link(k, x, {Row(w ++ db, n) : n \in S}) ++ w

-----------------------------------------------------------------------------
(* Requests                                                                *)

Idle == [phase |-> "idle", kind |-> "none", w |-> Nothing, src |-> None, new |-> None,
         over |-> FALSE, cache |-> {}]

\* A handler reads and works out its writes.
Request(h, kind, src, new, w) ==
    /\ tx[h].phase = "idle" /\ served < MaxRequests
    /\ served' = served + 1
    /\ tx' = [tx EXCEPT ![h] = [Idle EXCEPT !.phase = "open", !.kind = kind, !.src = src, !.new = new, !.w = w]]
    /\ UNCHANGED <<db, registry>>

CreateCapability(h) ==
    \E n \in Names : ~db[<<"mlive", n>>]
                     /\ Request(h, "create_capability", None, n, UpsertCapabilities({n}))
UpdateCapability(h) ==
    \E n \in Names : db[<<"mlive", n>>]
                     /\ Request(h, "update_capability", None, n, Put("text", n, "edited"))
DeleteCapability(h) ==
    \E n \in Names : db[<<"mlive", n>>]
                     /\ Request(h, "delete_capability", None, n, Put("mlive", n, FALSE))

CreateAiGene(h) ==
    \E g \in Unused("glive", Genes), S \in SUBSET Names :
       Request(h, "create_gene", None, g, Put("glive", g, "live") ++ Put("inline", g, S))
UpdateAiGene(h) ==
    \E g \in Of("glive", Genes), S \in SUBSET Names :
       LET w == Put("inline", g, S)
       IN  Request(h, "update_gene", None, g, IF S # db[<<"inline", g>>] THEN BumpForGene(w, g) ELSE w)
DeleteAiGene(h) ==
    \E g \in Of("glive", Genes) : Request(h, "delete_gene", None, g, Put("glive", g, "gone"))

\* The route of the gene leaves early when the link is there, that of the base class does not.
AttachAiGeneToBaseClass(h) ==
    \E g \in Of("glive", Genes), b \in Of("blive", Bases) :
       /\ ~db[<<"bgene", b, g>>]
       /\ Request(h, "attach_base_gene", b, g, BumpForBase(Link("bgene", b, {g}), b))
AttachBaseClassAiGene(h) ==
    \E g \in Of("glive", Genes), b \in Of("blive", Bases) :
       Request(h, "attach_base_gene", b, g,
               BumpForBase(IF db[<<"bgene", b, g>>] THEN Nothing ELSE Link("bgene", b, {g}), b))
DetachBaseClassAiGene(h) ==
    \E g \in Of("glive", Genes), b \in Of("blive", Bases) :
       /\ db[<<"bgene", b, g>>]
       /\ Request(h, "detach_base_gene", b, g, BumpForBase(Unlink("bgene", b, g), b))
AttachBaseClassCapability(h) ==
    \E n \in Names, b \in Of("blive", Bases) :
       /\ db[<<"mlive", n>>]
       /\ Request(h, "attach_base_capability", b, n,
                  BumpForBase(IF db[<<"bcap", b, Row(db, n)>>] THEN Nothing ELSE Link("bcap", b, {Row(db, n)}), b))
DetachBaseClassCapability(h) ==
    \E n \in Names, b \in Of("blive", Bases) :
       /\ db[<<"mlive", n>>] /\ db[<<"bcap", b, Row(db, n)>>]
       /\ Request(h, "detach_base_capability", b, n, BumpForBase(Unlink("bcap", b, Row(db, n)), b))

FreeSlugs == {s \in Slugs : BaseWithSlug(db, s) = {}}
NewBase(b, s) == Put("blive", b, "live") ++ Put("slug", b, s)

CreateBaseClass(h) ==
    \E b \in Unused("blive", Bases), s \in FreeSlugs : Request(h, "create_base", None, b, NewBase(b, s))
\* update_base_class with a slug: refused while any entity, deleted ones too, names the old one
RenameBaseClass(h) ==
    \E b \in Of("blive", Bases), s \in FreeSlugs :
       /\ \A e \in Entities : db[<<"preset", e>>] # db[<<"slug", b>>]
       /\ Request(h, "rename_base", None, b, Put("slug", b, s))
DeleteBaseClass(h) ==
    \E b \in Of("blive", Bases) : Request(h, "delete_base", None, b, Put("blive", b, "gone"))

\* _clone_junction copies the links, whatever became of the rows they lead to.
CloneLinks(k, x, y, S) == Link(k, y, {z \in S : db[<<k, x, z>>]})
CloneBaseClass(h) ==
    \E b \in Of("blive", Bases), new \in Unused("blive", Bases), s \in FreeSlugs :
       Request(h, "clone_base", b, new,
               CloneLinks("bgene", b, new, Genes) ++ CloneLinks("bcap", b, new, Rows) ++ NewBase(new, s))

\* The index uq_entities_cerebellum_per_ns, and the check the routes make first
HasCerebellum(v) == \E e \in Entities : Live(v, "elive", e) /\ v[<<"cerebellum", e>>]

NewEntity(e, preset, prompt, cerebellum) ==
    Put("elive", e, "live") ++ Put("preset", e, preset) ++ Put("prompt", e, prompt)
    ++ Put("cerebellum", e, cerebellum)

CreateEntity(h) ==
    \E e \in Unused("elive", Entities), s \in registry \cup {None}, cb \in BOOLEAN :
       /\ cb => ~HasCerebellum(db)
       /\ Request(h, "create_entity", None, e, BumpEntities(NewEntity(e, s, "first", cb), {e}))
UpdateEntity(h) ==
    \E e \in Of("elive", Entities) :
       \/ Request(h, "update_entity", None, e, Put("prompt", e, "edited"))
       \/ \E s \in registry : Request(h, "update_entity", None, e, Put("preset", e, s))
       \/ /\ ~HasCerebellum(db)
          /\ Request(h, "update_entity", None, e, Put("cerebellum", e, TRUE))
DeleteEntity(h) ==
    \E e \in Of("elive", Entities) :
       /\ \A i \in Of("ilive", Instances) : db[<<"of", i>>] # e
       /\ Request(h, "delete_entity", None, e, Put("elive", e, "gone"))

AttachEntityCapability(h) ==
    \E e \in Of("elive", Entities), n \in Names :
       /\ db[<<"mlive", n>>]
       /\ Request(h, "attach_capability", e, n,
                  BumpEntities(IF db[<<"ecap", e, Row(db, n)>>] THEN Nothing ELSE Link("ecap", e, {Row(db, n)}), {e}))
DetachEntityCapability(h) ==
    \E e \in Of("elive", Entities), r \in Rows :
       /\ db[<<"ecap", e, r>>]
       /\ Request(h, "detach_capability", e, r[1], BumpEntities(Unlink("ecap", e, r), {e}))
AttachEntityAiGene(h) ==
    \E e \in Of("elive", Entities), g \in Of("glive", Genes) :
       Request(h, "attach_gene", e, g,
               BumpEntities(IF db[<<"egene", e, g>>] THEN Nothing ELSE Link("egene", e, {g}), {e}))
DetachEntityAiGene(h) ==
    \E e \in Of("elive", Entities), g \in Genes :
       /\ db[<<"egene", e, g>>]
       /\ Request(h, "detach_gene", e, g, BumpEntities(Unlink("egene", e, g), {e}))

CloneOnlyCaps(e, new) ==
    CloneLinks("ecap", e, new, Rows) ++ NewEntity(new, db[<<"preset", e>>], db[<<"prompt", e>>], FALSE)

\* clone_entity: neither the flag of the cerebellum nor the hash is copied
CloneOf(e, new) ==
    CloneLinks("ecap", e, new, Rows) ++ CloneLinks("egene", e, new, Genes)
    ++ NewEntity(new, db[<<"preset", e>>], db[<<"prompt", e>>], FALSE)
CloneEntity(h) ==
    \E e \in Of("elive", Entities), new \in Unused("elive", Entities) :
       Request(h, "clone_entity", e, new, CloneOf(e, new))

-----------------------------------------------------------------------------
(* Instances                                                               *)

Runtime(reaped, config) == [reaped |-> reaped, config |-> config]

NewInstance(i, e, active) ==
    Put("ilive", i, "live") ++ Put("of", i, e) ++ Put("active", i, active)
    ++ Put("runtime", i, Runtime({}, Surface(db, e)))
Vacant(e) == \A i \in Of("ilive", Instances) : db[<<"of", i>>] # e

\* create_introduced_instance as create_instance calls it
CreateInstance(h) ==
    \E i \in Unused("ilive", Instances), e \in Of("elive", Entities) :
       Vacant(e) /\ Request(h, "create_instance", e, i, NewInstance(i, e, Surface(db, e)))

\* and as introduce_entity does: a missing hash is filled in
Introduced(i, e) ==
    LET w == IF db[<<"hash", e>>] = None THEN BumpEntities(Nothing, {e}) ELSE Nothing
    IN  NewInstance(i, e, (w ++ db)[<<"hash", e>>]) ++ w
IntroduceEntity(h) ==
    \E i \in Unused("ilive", Instances), e \in Of("elive", Entities) :
       Vacant(e) /\ Request(h, "introduce", e, i, Introduced(i, e))

\* restart_instance and batch_restart_instances
RestartInstance(h) ==
    \E i \in Of("ilive", Instances) :
       LET e == db[<<"of", i>>]
       IN  /\ Live(db, "elive", e)
           /\ Request(h, "restart", e, i, Put("active", i, db[<<"hash", e>>]))
\* deploy_instance: _refresh_instance_agent_config
RefreshInstance(h) ==
    \E i \in Of("ilive", Instances) :
       LET e == db[<<"of", i>>]
       IN  /\ Live(db, "elive", e)
           /\ Request(h, "refresh", e, i,
                      Put("active", i, Surface(db, e))
                      ++ Put("runtime", i, Runtime(db[<<"runtime", i>>].reaped, Surface(db, e))))

-----------------------------------------------------------------------------
(* Learning                                                                *)

\* The memories of an entity: their kind and the capability name their key gives.
CONSTANTS Memories, MaxCommands
ASSUME MemoriesAssumption == \A m \in Memories : m[2] \in Names

\* AggregatingDistiller: lessons and decisions, at most MaxCommands of them
HeuristicCandidates ==
    LET all == {m[2] : m \in {x \in Memories : x[1] \in {"lesson", "decision"}}}
    IN  {S \in SUBSET all : Cardinality(S) = MaxCommands \/ (S = all /\ Cardinality(all) < MaxCommands)}
\* LLMDistiller: the names are whatever the model answers.
LlmCandidates == {S \in SUBSET Names : Cardinality(S) =< MaxCommands}

DistillEntity(h) ==
    \E e \in Of("elive", Entities), S \in HeuristicCandidates \cup LlmCandidates :
       /\ \E i \in Of("ilive", Instances) : db[<<"of", i>>] = e
       /\ Memories # {}
       /\ Request(h, "distill", e, None, UpsertCapabilities(S))

\* reap_instance takes memories of every kind.
ReapedNames == {m[2] : m \in Memories}
ReapInstance(h) ==
    \E i \in Of("ilive", Instances) :
       LET rt == db[<<"runtime", i>>]
       IN  /\ Live(db, "elive", db[<<"of", i>>])
           /\ Request(h, "reap", None, i,
                      Put("runtime", i, Runtime(rt.reaped \cup ReapedNames, rt.config))
                      ++ UpsertCapabilities(ReapedNames))

\* promote_entity: the names the instance reaped that the entity does not have yet
PromoteUpdate(h) ==
    \E i \in Of("ilive", Instances), regen \in BOOLEAN :
       LET e == db[<<"of", i>>]
           fresh == db[<<"runtime", i>>].reaped \ SurfaceNames(db, e)
           w == Equip("ecap", e, fresh) ++ (IF regen THEN Put("prompt", e, "regen") ELSE Nothing)
       IN  /\ Live(db, "elive", e)
           /\ Request(h, "promote", i, e, BumpEntities(w, {e}))

\* mode fork: a new entity with all names as links, and none of the explicit genes
PromoteFork(h) ==
    \E i \in Of("ilive", Instances), new \in Unused("elive", Entities), regen \in BOOLEAN :
       LET e == db[<<"of", i>>]
           merged == db[<<"runtime", i>>].reaped \cup SurfaceNames(db, e)
           w == Equip("ecap", new, merged)
                ++ NewEntity(new, db[<<"preset", e>>], IF regen THEN "regen" ELSE db[<<"prompt", e>>], FALSE)
       IN  /\ Live(db, "elive", e)
           /\ Request(h, "fork", i, new, BumpEntities(w, {new}))

\* transmute_entity: the registry is not reloaded.
TransmuteEntity(h) ==
    \E e \in Of("elive", Entities), b \in Unused("blive", Bases), s \in FreeSlugs :
       /\ \E i \in Of("ilive", Instances) : db[<<"of", i>>] = e
       /\ Request(h, "transmute", e, b,
                  Equip("bcap", b, SurfaceNames(db, e)) ++ Link("bgene", b, EffectiveGenes(db, e)) ++ NewBase(b, s))

\* combine_capabilities: no hash is computed for the entity, or the base class, it binds to.
CombineCapabilities(h) ==
    \E S \in (SUBSET Names) \ {{}}, g \in Unused("glive", Genes) :
       LET w == Put("glive", g, "live") ++ Put("inline", g, S)
       IN  /\ \A n \in S : db[<<"mlive", n>>]
           /\ \/ Request(h, "combine", None, g, w)
              \/ \E e \in Of("elive", Entities) : Request(h, "combine", e, g, Link("egene", e, {g}) ++ w)
              \/ \E b \in Of("blive", Bases) : Request(h, "combine", b, g, Link("bgene", b, {g}) ++ w)

-----------------------------------------------------------------------------
(* Commit                                                                  *)

\* The partial unique indexes: a row, a link, a slug, a name, an instance of the
\* entity or the flag that another request has committed in between
RowsUnique(h) ==
    \A c \in DOMAIN tx[h].w :
       /\ c[1] \in {"elive", "blive", "glive", "ilive"} /\ tx[h].w[c] = "live" => db[c] = "none"
       /\ c[1] \in {"ecap", "bcap", "egene", "bgene", "mlive"} /\ tx[h].w[c] => ~db[c]
       /\ c[1] = "slug" => BaseWithSlug(db, tx[h].w[c]) = {}
       /\ c[1] = "of" => \A i \in Of("ilive", Instances) : db[<<"of", i>>] # tx[h].w[c]
Unique(h) ==
    /\ RowsUnique(h)
    /\ \A e \in Entities : <<"cerebellum", e>> \in DOMAIN tx[h].w /\ tx[h].w[<<"cerebellum", e>>]
                           => ~HasCerebellum(db)

Reloading == {"create_base", "rename_base", "delete_base", "clone_base", "create_entity", "update_entity", "delete_entity"}
ReloadsUnlessDeleted(kind) == kind \in Reloading \ {"delete_base"}
Reloads(kind) == kind \in Reloading

Commit(h) ==
    /\ tx[h].phase = "open" /\ Unique(h)
    /\ db' = tx[h].w ++ db
    /\ tx' = [g \in Handlers |->
                IF g = h THEN IF Reloads(tx[h].kind) THEN [tx[h] EXCEPT !.phase = "reload"] ELSE Idle
                ELSE IF tx[g].phase = "idle" THEN tx[g] ELSE [tx[g] EXCEPT !.over = TRUE]]
    /\ UNCHANGED <<registry, served>>

\* An IntegrityError: nothing is kept.
Abort(h) ==
    /\ tx[h].phase = "open" /\ ~Unique(h)
    /\ tx' = [tx EXCEPT ![h] = Idle]
    /\ UNCHANGED <<db, registry, served>>

LiveSlugs == {db[<<"slug", b>>] : b \in Of("blive", Bases)}

\* PresetRegistry.load: the query, and the cache assigned when its answer is in
ReloadQuery(h) ==
    /\ tx[h].phase = "reload"
    /\ tx' = [tx EXCEPT ![h].phase = "store", ![h].cache = LiveSlugs]
    /\ UNCHANGED <<db, registry, served>>
ReloadStore(h) ==
    /\ tx[h].phase = "store"
    /\ registry' = tx[h].cache
    /\ tx' = [tx EXCEPT ![h] = Idle]
    /\ UNCHANGED <<db, served>>

-----------------------------------------------------------------------------

CatalogNext ==
    \E h \in Handlers :
       \/ CreateCapability(h) \/ UpdateCapability(h) \/ DeleteCapability(h)
       \/ CreateAiGene(h) \/ UpdateAiGene(h) \/ DeleteAiGene(h)
       \/ AttachAiGeneToBaseClass(h) \/ AttachBaseClassAiGene(h) \/ DetachBaseClassAiGene(h)
       \/ AttachBaseClassCapability(h) \/ DetachBaseClassCapability(h)
       \/ CreateBaseClass(h) \/ RenameBaseClass(h) \/ DeleteBaseClass(h) \/ CloneBaseClass(h)
       \/ CreateEntity(h) \/ UpdateEntity(h) \/ DeleteEntity(h) \/ CloneEntity(h)
       \/ AttachEntityCapability(h) \/ DetachEntityCapability(h)
       \/ AttachEntityAiGene(h) \/ DetachEntityAiGene(h)
       \/ CreateInstance(h) \/ IntroduceEntity(h) \/ RestartInstance(h) \/ RefreshInstance(h)
       \/ DistillEntity(h) \/ ReapInstance(h) \/ PromoteUpdate(h) \/ PromoteFork(h)
       \/ TransmuteEntity(h) \/ CombineCapabilities(h)
       \/ Commit(h) \/ Abort(h) \/ ReloadQuery(h) \/ ReloadStore(h)

CatalogTypeOK ==
    /\ DOMAIN db = Cells
    /\ \A c \in Cells :
          /\ c[1] \in {"elive", "blive", "glive", "ilive"} => db[c] \in {"none", "live", "gone"}
          /\ c[1] \in {"ecap", "bcap", "egene", "bgene", "mlive", "cerebellum"} => db[c] \in BOOLEAN
          /\ c[1] = "inline" => db[c] \subseteq Names
          /\ c[1] = "row" => db[c] \in 0 .. served
          /\ c[1] \in {"slug", "preset"} => db[c] \in Slugs \cup {None}
          /\ c[1] = "runtime" => db[c].reaped \subseteq Names
    /\ \A h \in Handlers : tx[h].phase \in {"idle", "open", "reload", "store"} /\ DOMAIN tx[h].w \subseteq Cells
    /\ registry \subseteq Slugs /\ served \in 0 .. MaxRequests
    /\ \A s \in Slugs : Cardinality(BaseWithSlug(db, s)) =< 1

-----------------------------------------------------------------------------
(* Properties                                                              *)

Commits(h) == tx[h].phase = "open" /\ tx'[h].phase # "open" /\ Unique(h)

\* Routes that change a surface without computing the hash again.
SilentKinds == {"update_entity", "update_capability", "delete_capability", "create_capability", "delete_gene",
                "create_base", "rename_base", "delete_base", "clone_base", "clone_entity", "transmute",
                "combine", "distill", "reap"}

\* A request of any other route that no commit overlapped leaves each live entity
\* whose surface it changed with the hash of the new surface: attach and detach on
\* the entity or on its base class, an edited gene for those that carry it and those
\* that inherit it, promote and fork.
FingerprintFollows ==
    [][\A h \in Handlers :
         Commits(h) /\ ~tx[h].over /\ tx[h].kind \notin SilentKinds =>
           \A e \in Entities :
              Live(db', "elive", e) /\ (Surface(db', e) # Surface(db, e) \/ ~Live(db, "elive", e))
              => db'[<<"hash", e>>] = Surface(db', e)]_catalogVars

\* core/migration_hash.py: "a deterministic SHA-256 fingerprint of the entity's
\* current effective capability surface".
HashIsCurrent ==
    \A e \in Of("elive", Entities) : db[<<"hash", e>>] \in {None, Surface(db, e)}

\* What the request of h made, against what it was made from
CopyMatches(h) ==
    LET src == tx[h].src  new == tx[h].new
    IN  /\ tx[h].kind = "clone_entity" => Surface(db', new) = Surface(db', src)
        /\ tx[h].kind = "fork" =>
              SurfaceNames(db', new) = SurfaceNames(db', db[<<"of", src>>]) \cup db[<<"runtime", src>>].reaped
        /\ tx[h].kind = "promote" => db[<<"runtime", src>>].reaped \subseteq SurfaceNames(db', new)
        /\ tx[h].kind = "clone_base" =>
              /\ LinkedCaps(db', "bcap", new) = LinkedCaps(db', "bcap", src)
              /\ \A g \in Genes : db'[<<"bgene", new, g>>] = db'[<<"bgene", src, g>>]
        /\ tx[h].kind = "transmute" =>
              /\ LinkedCaps(db', "bcap", new) = SurfaceNames(db, src)
              /\ {g \in Genes : db'[<<"bgene", new, g>>]} = EffectiveGenes(db, src)
        /\ tx[h].kind \in {"create_instance", "introduce"} /\ db[<<"hash", src>>] \in {None, Surface(db, src)} =>
              ~Outdated(db', new)

\* What a clone, a fork and a transmuted base class can do is what their source
\* could, and for a fork also what its instance reaped; an instance introduced from
\* an entity whose hash is current, or missing, is not shown as outdated.
CopiesAreFaithful == [][\A h \in Handlers : Commits(h) /\ ~tx[h].over => CopyMatches(h)]_catalogVars

\* A request that no commit overlapped ends with a registry of the slugs of the live
\* base classes, if it reloads or found the registry so; transmute_entity is the one
\* route that makes a base class and does not reload.
RegistryFollows ==
    [][\A h \in Handlers :
         /\ tx[h].phase # "idle" /\ tx'[h].phase = "idle" /\ ~tx[h].over
         /\ registry = LiveSlugs \/ Reloads(tx[h].kind)
         /\ tx[h].kind # "transmute"
         => registry' = LiveSlugs']_catalogVars

\* Two requests that both saw a namespace without a cerebellum do not both make one.
OneCerebellum ==
    Cardinality({e \in Of("elive", Entities) : db[<<"cerebellum", e>>]}) =< 1
=============================================================================
