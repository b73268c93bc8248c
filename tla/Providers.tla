------------------------------ MODULE Providers ------------------------------
(***************************************************************************)
(* The choice of a model for a run (provider/router.go, agent/runner.go:   *)
(* 235): the route of a role is walked until a provider that is healthy    *)
(* can serve its entry; a name that is no role is asked of every provider. *)
(* A provider's health is a flag that the walks of all runs share: one     *)
(* error clears it, and only a fallback chain (provider/fallback.go) that  *)
(* succeeds sets it again.                                                 *)
(*                                                                         *)
(* Abstracted: models are what an entry asks for; the windows of a model   *)
(* are in tokens of the configuration or "asked".  Bound: PvMaxOps counts  *)
(* the walks and the changes of what the providers can serve.              *)
(***************************************************************************)
EXTENDS Integers, Sequences, FiniteSets, TLC

CONSTANTS
    PvIds, PvModels,
    PvRoutes,       \* role -> sequence of [provider, model, window] (window 0: not configured)
    PvConfigured,   \* the providers that could be created
    PvOverrides,    \* what an agent's "model" may say: a role, a model, or "" for nothing
    PvWalkers,      \* runs that resolve a model
    PvRetries, PvMaxOps

ASSUME ProvidersAssumption ==
    /\ PvConfigured \subseteq PvIds
    /\ \A r \in DOMAIN PvRoutes :
          PvRoutes[r] \in Seq([provider : PvIds, model : PvModels, window : Nat])

VARIABLES
    able,       \* able[p]: the models that p can serve now
    healthy,    \* the providers whose flag is set
    cached,     \* cached[p]: the models whose window was asked for and is known
    walk,       \* walk[w]: what w looks for, where it stands
    failed,     \* ghost: the providers that have returned an error
    pvOps

pvVars == <<able, healthy, cached, walk, failed, pvOps>>

PvIdle == [kind |-> "idle", name |-> "", role |-> "", at |-> 0, left |-> {}, try |-> 0,
           got |-> "nothing", window |-> 0]
Roles == DOMAIN PvRoutes
PvOp == pvOps < PvMaxOps /\ pvOps' = pvOps + 1

(* LanguageModel: an error clears the provider's flag. *)
LanguageModel(p, m) ==
    IF m \in able[p] THEN UNCHANGED <<healthy, failed>>
    ELSE healthy' = healthy \ {p} /\ failed' = failed \cup {p}

(* orchestrator falls back to the route of "complex". *)
RouteOf(name) ==
    IF name \in Roles THEN PvRoutes[name]
    ELSE IF name = "orchestrator" /\ "complex" \in Roles THEN PvRoutes["complex"] ELSE <<>>

(* Resolving a name: by its route when it has one, else as a model. *)
Resolving(w, name, role) ==
    walk' = [walk EXCEPT ![w] = [PvIdle EXCEPT !.name = name, !.role = role,
        !.kind = IF RouteOf(name) # <<>> THEN "route" ELSE "model",
        !.at = 1, !.left = IF RouteOf(name) # <<>> THEN {} ELSE PvConfigured]]

(* A run begins: the agent's override is resolved first, if it has one. *)
RunResolves(w, override, role) ==
    /\ PvOp /\ walk[w].kind \in {"idle", "done"}
    /\ Resolving(w, IF override # "" THEN override ELSE role, role)
    /\ UNCHANGED <<able, healthy, cached, failed>>

(* The name cannot be resolved: an override gives way to the role. *)
GiveUp(w) ==
    IF walk[w].name # walk[w].role THEN Resolving(w, walk[w].role, walk[w].role)
    ELSE walk' = [walk EXCEPT ![w].kind = "done", ![w].got = "nothing"]

(* ContextWindow: the entry's, or the provider's, which is then known; it  *)
(* may be that nobody can say, then the run takes its own.                 *)
ContextWindow(w, p, e) ==
    /\ \E window \in IF e.window > 0 THEN {e.window} ELSE IF e.model \in cached[p] THEN {1} ELSE {0, 1} :
          /\ walk' = [walk EXCEPT ![w].kind = "done", ![w].got = p, ![w].window = window]
          /\ cached' = IF e.window = 0 /\ window = 1 THEN [cached EXCEPT ![p] = @ \cup {e.model}]
                       ELSE cached

Skip(w, e) == e.provider \notin PvConfigured \/ e.provider \notin healthy
Entry(w) == RouteOf(walk[w].name)[walk[w].at]

(* Mutant: the walk ends at the first provider that fails. *)
TryEntryOnce(w) ==
    /\ walk[w].kind = "route" /\ walk[w].at <= Len(RouteOf(walk[w].name))
    /\ LET e == Entry(w)
       IN  IF Skip(w, e)
           THEN walk' = [walk EXCEPT ![w].at = @ + 1] /\ UNCHANGED <<healthy, failed, cached>>
           ELSE /\ LanguageModel(e.provider, e.model)
                /\ IF e.model \in able[e.provider] THEN ContextWindow(w, e.provider, e)
                   ELSE GiveUp(w) /\ UNCHANGED cached
    /\ UNCHANGED <<able, pvOps>>
(* ResolveWithContext, one entry of the route. *)
TryEntry(w) ==
    /\ walk[w].kind = "route" /\ walk[w].at <= Len(RouteOf(walk[w].name))
    /\ LET e == Entry(w)
       IN  IF Skip(w, e)
           THEN walk' = [walk EXCEPT ![w].at = @ + 1] /\ UNCHANGED <<healthy, failed, cached>>
           ELSE /\ LanguageModel(e.provider, e.model)
                /\ IF e.model \in able[e.provider] THEN ContextWindow(w, e.provider, e)
                   ELSE walk' = [walk EXCEPT ![w].at = @ + 1] /\ UNCHANGED cached
    /\ UNCHANGED <<able, pvOps>>

RouteExhausted(w) ==
    /\ walk[w].kind = "route" /\ walk[w].at > Len(RouteOf(walk[w].name))
    /\ GiveUp(w) /\ UNCHANGED <<able, healthy, cached, failed, pvOps>>

(* resolveByModel, one provider, in the order of a map: the window stays   *)
(* unknown, for the run to use its own.                                    *)
TryProvider(w) ==
    /\ walk[w].kind = "model"
    /\ \E p \in walk[w].left :
          IF p \notin healthy
          THEN walk' = [walk EXCEPT ![w].left = @ \ {p}] /\ UNCHANGED <<healthy, failed>>
          ELSE /\ LanguageModel(p, walk[w].name)
               /\ walk' = IF walk[w].name \in able[p]
                          THEN [walk EXCEPT ![w].kind = "done", ![w].got = p]
                          ELSE [walk EXCEPT ![w].left = @ \ {p}]
    /\ UNCHANGED <<able, cached, pvOps>>

ModelUnknown(w) ==
    /\ walk[w].kind = "model" /\ walk[w].left = {}
    /\ GiveUp(w) /\ UNCHANGED <<able, healthy, cached, failed, pvOps>>

----------------------------------------------------------------------------
(* A fallback chain tries each entry, healthy or not, PvRetries times more *)
(* when the call itself fails, and not again when there is no model; its   *)
(* context may be cancelled while it waits before another try.             *)
Execute(w, role) ==
    /\ PvOp /\ walk[w].kind \in {"idle", "done"} /\ role \in Roles
    /\ walk' = [walk EXCEPT ![w] = [PvIdle EXCEPT !.kind = "chain", !.name = role, !.role = role,
                                                  !.at = 1]]
    /\ UNCHANGED <<able, healthy, cached, failed>>

NextEntry(w) == walk' = [walk EXCEPT ![w].at = @ + 1, ![w].try = 0]
Attempt(w) ==
    /\ walk[w].kind = "chain" /\ walk[w].at <= Len(RouteOf(walk[w].name))
    /\ LET p == Entry(w).provider
       IN  \/ p \notin PvConfigured /\ NextEntry(w) /\ UNCHANGED <<healthy, failed>>
           \/ /\ p \in PvConfigured /\ Entry(w).model \in able[p]
              /\ \/ /\ healthy' = healthy \cup {p} /\ UNCHANGED failed
                    /\ walk' = [walk EXCEPT ![w].kind = "done", ![w].got = p]
                 \/ /\ walk[w].try < PvRetries /\ UNCHANGED <<healthy, failed>>
                    /\ \/ walk' = [walk EXCEPT ![w].try = @ + 1]
                       \/ walk' = [walk EXCEPT ![w].kind = "done", ![w].got = "cancelled"]
                 \/ /\ walk[w].try = PvRetries /\ NextEntry(w)
                    /\ healthy' = healthy \ {p} /\ failed' = failed \cup {p}
           \/ /\ p \in PvConfigured /\ Entry(w).model \notin able[p]
              /\ NextEntry(w) /\ healthy' = healthy \ {p} /\ failed' = failed \cup {p}
    /\ UNCHANGED <<able, cached, pvOps>>

ChainExhausted(w) ==
    /\ walk[w].kind = "chain" /\ walk[w].at > Len(RouteOf(walk[w].name))
    /\ walk' = [walk EXCEPT ![w].kind = "done", ![w].got = "nothing"]
    /\ UNCHANGED <<able, healthy, cached, failed, pvOps>>

(* A provider can serve a model, or no longer. *)
Changes(p, m) ==
    /\ PvOp /\ able' = [able EXCEPT ![p] = IF m \in @ THEN @ \ {m} ELSE @ \cup {m}]
    /\ UNCHANGED <<healthy, cached, walk, failed>>

----------------------------------------------------------------------------
PvInit ==
    /\ able = [p \in PvIds |-> PvModels] /\ healthy = PvConfigured
    /\ cached = [p \in PvIds |-> {}] /\ walk = [w \in PvWalkers |-> PvIdle]
    /\ failed = {} /\ pvOps = 0

PvNext ==
    \/ \E w \in PvWalkers, o \in PvOverrides, r \in Roles \cup {"orchestrator"} : RunResolves(w, o, r)
    \/ \E w \in PvWalkers : \/ TryEntry(w) \/ RouteExhausted(w) \/ TryProvider(w) \/ ModelUnknown(w)
                            \/ Attempt(w) \/ ChainExhausted(w)
    \/ \E w \in PvWalkers, r \in Roles : Execute(w, r)
    \/ \E p \in PvIds, m \in PvModels : Changes(p, m)

PvSpec == PvInit /\ [][PvNext]_pvVars

----------------------------------------------------------------------------
(* A run is refused a model only when every provider of its role's route   *)
(* has failed before, for this run or another (router.go:98 "continue",    *)
(* runner.go:250); and it is given a provider only after those before it   *)
(* in the route have failed.  A role without a route is asked for as a     *)
(* model, of providers in no order.                                        *)
RoleIsServed == \A w \in PvWalkers :
    LET route == RouteOf(walk[w].role)
        before(i) == {route[j].provider : j \in 1..i - 1} \cap PvConfigured
    IN  walk[w].kind = "done" /\ walk[w].name = walk[w].role
        /\ walk[w].got # "cancelled" /\ route # <<>> =>
            \/ walk[w].got = "nothing" /\ before(Len(route) + 1) \subseteq failed
            \/ \E i \in DOMAIN route : walk[w].got = route[i].provider /\ before(i) \subseteq failed
=============================================================================
