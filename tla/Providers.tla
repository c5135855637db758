----------------------------- MODULE Providers -----------------------------
(***************************************************************************)
(* The model providers of an organization, the defaults that point to      *)
(* them, and which provider an instance is given.  The provider routes of  *)
(* api/v1/organizations.py, services/llm/org_provider.py and               *)
(* services/llm/instance_pi_env.py.                                        *)
(***************************************************************************)
EXTENDS Naturals, FiniteSets

CONSTANTS ProviderIds,   \* provider rows, numbered in the order of creation
          Models,        \* names of models
          Refreshes      \* concurrent refresh requests

ASSUME ProviderIdsAssumption == ProviderIds \subseteq Nat

VARIABLES provider,      \* the rows
          default,       \* what the three defaults point to
          refresh        \* per refresh: the row it read before it asked the endpoint

providerVars == <<provider, default, refresh>>

NoProvider == 0
Targets == {"binding", "system_hub", "cerebellum"}
ProviderRows == [state : {"none", "live", "deleted"}, enabled : BOOLEAN,
                 default_model : Models, allowlist : SUBSET Models]

ProvidersTypeOK ==
    /\ provider \in [ProviderIds -> ProviderRows]
    /\ default \in [Targets -> ProviderIds \cup {NoProvider}]
    /\ refresh \in [Refreshes -> [id : ProviderIds \cup {NoProvider}, model : Models, list : SUBSET Models]]
    /\ \A t \in Targets : default[t] # NoProvider => provider[default[t]].state # "none"

ProvidersInit ==
    /\ \E m \in Models :
          /\ provider = [p \in ProviderIds |-> [state |-> "none", enabled |-> FALSE,
                                                default_model |-> m, allowlist |-> {}]]
          /\ default = [t \in Targets |-> NoProvider]
          /\ refresh = [r \in Refreshes |-> [id |-> NoProvider, model |-> m, list |-> {}]]

LiveProvider(p) == provider[p].state = "live"

\* _create_provider: from the catalog with its first model and all of them on
\* the list, or as given.
CreateProvider(p) ==
    /\ provider[p].state = "none" /\ \A q \in ProviderIds : q < p => provider[q].state # "none"
    /\ \E m \in Models, L \in SUBSET Models, on \in BOOLEAN :
          provider' = [provider EXCEPT ![p] = [state |-> "live", enabled |-> on, default_model |-> m, allowlist |-> L]]
    /\ UNCHANGED <<default, refresh>>

\* _update_provider: any field, without looking at the others.
UpdateProvider(p) ==
    /\ LiveProvider(p)
    /\ \E m \in Models, L \in SUBSET Models, on \in BOOLEAN :
          provider' = [provider EXCEPT ![p].enabled = on, ![p].default_model = m, ![p].allowlist = L]
    /\ UNCHANGED <<default, refresh>>

\* _delete_provider: the defaults that point to it stay.
DeleteProvider(p) ==
    /\ LiveProvider(p)
    /\ provider' = [provider EXCEPT ![p].state = "deleted"]
    /\ UNCHANGED <<default, refresh>>

\* _set_default, _update_system_hub, _update_cerebellum_defaults: a live
\* provider, with any model.
SetDefault(t, p) ==
    /\ LiveProvider(p)
    /\ default' = [default EXCEPT ![t] = p]
    /\ UNCHANGED <<provider, refresh>>

ClearDefault(t) ==
    /\ t # "binding"
    /\ default' = [default EXCEPT ![t] = NoProvider]
    /\ UNCHANGED <<provider, refresh>>

\* _refresh_provider_models: the row is read, then the endpoint is asked.
BeginRefresh(r, p) ==
    /\ refresh[r].id = NoProvider /\ LiveProvider(p)
    /\ refresh' = [refresh EXCEPT ![r] = [id |-> p, model |-> provider[p].default_model,
                                         list |-> provider[p].allowlist]]
    /\ UNCHANGED <<provider, default>>

\* What the commit writes of the list L.  The list the row was loaded with is
\* not written again, unless the order of its models has changed.
ListWritten(r, L) ==
    LET p == refresh[r].id IN
    IF L = refresh[r].list THEN {L, provider[p].allowlist} ELSE {L}

\* As a mutant: the list is taken over, the default model is not looked at.
EndRefreshListOnly(r) ==
    LET p == refresh[r].id IN
    /\ p # NoProvider
    /\ \E L \in SUBSET Models :
          IF L = {} THEN provider' = provider
          ELSE \E written \in ListWritten(r, L) : provider' = [provider EXCEPT ![p].allowlist = written]
    /\ refresh' = [refresh EXCEPT ![r].id = NoProvider, ![r].list = {}]
    /\ UNCHANGED default

\* The list of the endpoint (or the catalog); the default model is replaced
\* when the one that was read is not on it.  No list changes nothing.
EndRefresh(r) ==
    LET p == refresh[r].id IN
    /\ p # NoProvider
    /\ \E L \in SUBSET Models :
          IF L = {} THEN provider' = provider
          ELSE \E written \in ListWritten(r, L),
                  m \in IF refresh[r].model \in L THEN {provider[p].default_model} ELSE L :
                  provider' = [provider EXCEPT ![p].allowlist = written, ![p].default_model = m]
    /\ refresh' = [refresh EXCEPT ![r].id = NoProvider, ![r].list = {}]
    /\ UNCHANGED default

ProvidersNext ==
    \/ \E p \in ProviderIds :
          \/ CreateProvider(p) \/ UpdateProvider(p) \/ DeleteProvider(p)
          \/ \E t \in Targets : SetDefault(t, p)
          \/ \E r \in Refreshes : BeginRefresh(r, p)
    \/ \E t \in Targets : ClearDefault(t)
    \/ \E r \in Refreshes : EndRefresh(r)

-----------------------------------------------------------------------------
(* What an instance is given: resolve_provider_for_instance                *)

Usable(p) == p # NoProvider /\ LiveProvider(p) /\ provider[p].enabled

\* As a mutant: a default that is set is taken as it is.
FirstSetDefault ==
    CASE default["binding"] # NoProvider -> default["binding"]
      [] default["system_hub"] # NoProvider -> default["system_hub"]
      [] default["cerebellum"] # NoProvider -> default["cerebellum"]
      [] OTHER -> NoProvider

\* The binding of the base class, the default of the system hub, that of the
\* cerebellum: the first that is usable.
FirstUsableDefault ==
    CASE Usable(default["binding"]) -> default["binding"]
      [] Usable(default["system_hub"]) -> default["system_hub"]
      [] Usable(default["cerebellum"]) -> default["cerebellum"]
      [] OTHER -> NoProvider

\* Otherwise the oldest usable provider, or none.
ProviderOfInstance ==
    IF FirstUsableDefault # NoProvider THEN FirstUsableDefault
    ELSE IF \E p \in ProviderIds : Usable(p)
         THEN CHOOSE p \in ProviderIds : Usable(p) /\ \A q \in ProviderIds : q < p => ~Usable(q)
         ELSE NoProvider

-----------------------------------------------------------------------------
(* Properties                                                              *)

\* However providers are deleted or switched off under the defaults, an
\* instance is given a provider that can be used whenever there is one.
InstanceGetsUsableProvider ==
    IF \E p \in ProviderIds : Usable(p) THEN Usable(ProviderOfInstance) ELSE ProviderOfInstance = NoProvider

\* When a refresh has changed the provider, the default model is on the list,
\* unless the model was edited while the endpoint was being asked, or the list
\* was and the endpoint returned the list that was read, which leaves the edit.
RefreshLeavesListedModel ==
    [][\A r \in Refreshes :
         LET p == refresh[r].id IN
         p # NoProvider /\ refresh'[r].id = NoProvider /\ provider' # provider
            => \/ provider'[p].default_model \in provider'[p].allowlist
               \/ provider[p].default_model # refresh[r].model
               \/ /\ provider[p].allowlist # refresh[r].list
                  /\ provider'[p].allowlist = provider[p].allowlist]_providerVars
=============================================================================
