---------------------------- MODULE LibraryProofs ----------------------------
(***************************************************************************)
(* Theorems about what a run is made of: the model it is given, for any    *)
(* routes, providers and runs; the agent definition, for any files, calls  *)
(* and writers; the result of a command and the rate of commands, for any  *)
(* calls, jobs and limits; the news it drains, for any texts; its files,   *)
(* notes, skills and instructions, for any layers and directories; and     *)
(* its history after any turns, compactions and flushes.                   *)
(***************************************************************************)
EXTENDS Providers, Agents, Shell, Workspaces, Prompts, Compaction, FiniteSetTheorems, SequenceTheorems, TLAPS

-----------------------------------------------------------------------------
(* Providers.                                                              *)

PvNames == Roles \cup PvOverrides \cup {"orchestrator", ""}

Walks == [kind : {"idle", "route", "model", "chain", "done"},
          name : PvNames, role : PvNames, at : Nat, left : SUBSET PvConfigured,
          try : Nat, got : PvIds \cup {"nothing", "cancelled"}, window : Nat]

(* The configured providers of the first n entries of a route have failed. *)
Behind(route, n, fl) ==
  \A j \in 1 .. n : route[j].provider \in PvConfigured => route[j].provider \in fl

(* What has been walked of a route has failed; a model is asked for only   *)
(* without a route; and a walk that is done has served its role.           *)
Walked(k, fl) ==
  LET route == RouteOf(k.name)
  IN  /\ k.kind \in {"route", "chain"} =>
           k.at \in 1 .. Len(route) + 1 /\ Behind(route, k.at - 1, fl)
      /\ k.kind = "model" => route = <<>>
      /\ k.kind = "chain" => k.name = k.role
      /\ k.kind = "done" /\ k.name = k.role /\ k.got # "cancelled" /\ route # <<>> =>
           \/ k.got = "nothing" /\ Behind(route, Len(route), fl)
           \/ \E i \in DOMAIN route : k.got = route[i].provider /\ Behind(route, i - 1, fl)

PvInv ==
  /\ walk \in [PvWalkers -> Walks]
  /\ PvConfigured \ healthy \subseteq failed
  /\ \A w \in PvWalkers : Walked(walk[w], failed)

PvEntry == [provider : PvIds, model : PvModels, window : Nat]

LEMMA RouteType ==
  ASSUME NEW name
  PROVE  RouteOf(name) \in Seq(PvEntry)
<1>1. <<>> \in Seq(PvEntry)
  OBVIOUS
<1>2. \A r \in Roles : PvRoutes[r] \in Seq(PvEntry)
  BY ProvidersAssumption DEF PvEntry, Roles
<1> QED
  BY <1>1, <1>2 DEF RouteOf

LEMMA EntryType ==
  ASSUME NEW name, NEW i \in 1 .. Len(RouteOf(name))
  PROVE  /\ RouteOf(name)[i].provider \in PvIds /\ RouteOf(name)[i].window \in Nat
         /\ i \in DOMAIN RouteOf(name)
<1>1. RouteOf(name)[i] \in PvEntry /\ i \in DOMAIN RouteOf(name)
  BY RouteType
<1> QED
  BY <1>1 DEF PvEntry

LEMMA LenType == ASSUME NEW name PROVE Len(RouteOf(name)) \in Nat
BY RouteType

(* What NextEntry writes of a walk. *)
LEMMA NextType ==
  ASSUME NEW k \in Walks, NEW r, r = [k EXCEPT !.at = k.at + 1, !.try = 0]
  PROVE  /\ r \in Walks /\ r.kind = k.kind /\ r.name = k.name
         /\ r.role = k.role /\ r.at = k.at + 1
<1>1. PICK a \in Nat : a = k.at + 1
  BY DEF Walks
<1>2. r = [k EXCEPT !.at = a, !.try = 0]
  BY <1>1
<1>3. PICK q : q = [k EXCEPT !.at = a]
  OBVIOUS
<1>4. q \in Walks /\ q.kind = k.kind /\ q.name = k.name /\ q.role = k.role /\ q.at = a
  BY <1>3 DEF Walks
<1>z. PICK z \in Nat : z = 0
  OBVIOUS
<1>5. r = [q EXCEPT !.try = z]
  BY <1>2, <1>3, <1>z
<1>6. r \in Walks /\ r.kind = q.kind /\ r.name = q.name /\ r.role = q.role /\ r.at = q.at
  BY <1>4, <1>5 DEF Walks
<1> QED
  BY <1>1, <1>4, <1>6

(* More failures leave a walk what it was. *)
LEMMA WalkedStays ==
  ASSUME NEW k, NEW F, NEW G, F \subseteq G, Walked(k, F)
  PROVE  Walked(k, G)
<1>1. \A route, n : Behind(route, n, F) => Behind(route, n, G)
  BY DEF Behind
<1> QED
  BY <1>1 DEF Walked

(* A walk moves, and no other does. *)
LEMMA OneWalks ==
  ASSUME PvInv, NEW w \in PvWalkers, NEW k \in Walks, walk' = [walk EXCEPT ![w] = k],
         failed \subseteq failed', Walked(k, failed'),
         PvConfigured \ healthy' \subseteq failed'
  PROVE  PvInv'
<1>1. walk' \in [PvWalkers -> Walks]
  BY DEF PvInv
<1>2. \A v \in PvWalkers : walk'[v] = k \/ walk'[v] = walk[v]
  BY DEF PvInv
<1>3. \A v \in PvWalkers : Walked(walk[v], failed')
  BY WalkedStays DEF PvInv
<1>4. \A v \in PvWalkers : Walked(walk'[v], failed')
  BY <1>2, <1>3
<1> QED
  BY <1>1, <1>4 DEF PvInv

(* An answer or an error of a provider: what is not healthy has failed. *)
LEMMA HealthKept ==
  ASSUME PvInv, NEW p, NEW m, LanguageModel(p, m)
  PROVE  /\ failed \subseteq failed' /\ PvConfigured \ healthy' \subseteq failed'
         /\ m \notin able[p] => p \in failed'
BY DEF LanguageModel, PvInv

(* A name is resolved from the start. *)
LEMMA ResolvingKept ==
  ASSUME PvInv, NEW w \in PvWalkers, NEW name \in PvNames, NEW role \in PvNames,
         Resolving(w, name, role), UNCHANGED <<healthy, failed>>
  PROVE  PvInv'
<1>1. PICK k : k = [PvIdle EXCEPT !.name = name, !.role = role,
        !.kind = IF RouteOf(name) # <<>> THEN "route" ELSE "model",
        !.at = 1, !.left = IF RouteOf(name) # <<>> THEN {} ELSE PvConfigured]
  OBVIOUS
<1>2. /\ k.kind = (IF RouteOf(name) # <<>> THEN "route" ELSE "model")
      /\ k.name = name /\ k.role = role /\ k.at = 1 /\ k \in Walks
  BY <1>1 DEF PvIdle, Walks
<1>3. walk' = [walk EXCEPT ![w] = k]
  BY <1>1 DEF Resolving
<1>4. Walked(k, failed)
  BY <1>2, LenType DEF Walked, Behind
<1> QED
  BY <1>2, <1>3, <1>4, OneWalks DEF PvInv

(* The next entry, once the one at hand has failed or is not configured. *)
LEMMA AdvanceKept ==
  ASSUME PvInv, NEW w \in PvWalkers, walk[w].kind \in {"route", "chain"},
         walk[w].at <= Len(RouteOf(walk[w].name)),
         NEW k \in Walks, walk' = [walk EXCEPT ![w] = k],
         k.kind = walk[w].kind, k.name = walk[w].name, k.role = walk[w].role,
         k.at = walk[w].at + 1,
         failed \subseteq failed', PvConfigured \ healthy' \subseteq failed',
         Entry(w).provider \in PvConfigured => Entry(w).provider \in failed'
  PROVE  PvInv'
<1>0. walk[w] \in Walks /\ Walked(walk[w], failed)
  BY DEF PvInv
<1> DEFINE route == RouteOf(walk[w].name)
<1>4. walk[w].at \in 1 .. Len(route) + 1 /\ Behind(route, walk[w].at - 1, failed)
  BY <1>0 DEF Walked
<1>5. Behind(route, walk[w].at, failed')
  <2> SUFFICES ASSUME NEW j \in 1 .. walk[w].at, route[j].provider \in PvConfigured
               PROVE  route[j].provider \in failed'
    BY DEF Behind
  <2>1. CASE j = walk[w].at
    BY <2>1 DEF Entry
  <2>2. CASE j # walk[w].at
    <3>1. j \in 1 .. walk[w].at - 1
      BY <1>0, <2>2 DEF Walks
    <3> QED
      BY <1>4, <3>1 DEF Behind
  <2> QED
    BY <2>1, <2>2
<1>6. k.at - 1 = walk[w].at /\ k.at \in 1 .. Len(route) + 1
  BY <1>0, <1>4, LenType DEF Walks
<1>7. Walked(k, failed')
  BY <1>0, <1>5, <1>6 DEF Walked
<1> QED
  BY <1>7, OneWalks

(* A walk of a route, or a chain, that is given the provider it stands at. *)
LEMMA GivenKept ==
  ASSUME PvInv, NEW w \in PvWalkers, walk[w].kind \in {"route", "chain"},
         walk[w].at <= Len(RouteOf(walk[w].name)),
         NEW k \in Walks, walk' = [walk EXCEPT ![w] = k],
         k.kind = "done", k.name = walk[w].name, k.role = walk[w].role,
         k.got = Entry(w).provider,
         failed \subseteq failed', PvConfigured \ healthy' \subseteq failed'
  PROVE  PvInv'
<1>0. walk[w] \in Walks /\ Walked(walk[w], failed)
  BY DEF PvInv
<1> DEFINE route == RouteOf(walk[w].name)
           at    == walk[w].at
<1>1. at \in 1 .. Len(route) /\ Behind(route, at - 1, failed')
  <2>1. Walked(walk[w], failed')
    BY <1>0, WalkedStays
  <2> QED
    BY <2>1, <1>0, LenType DEF Walked, Walks
<1>2. at \in DOMAIN route
  BY <1>1, EntryType
<1>6. Walked(k, failed')
  BY <1>1, <1>2 DEF Walked, Entry
<1> QED
  BY <1>6, OneWalks

(* A walk that ends without a provider. *)
LEMMA EndedKept ==
  ASSUME PvInv, NEW w \in PvWalkers, NEW got \in {"nothing", "cancelled"},
         NEW k \in Walks, walk' = [walk EXCEPT ![w] = k],
         k.kind = "done", k.name = walk[w].name, k.role = walk[w].role, k.got = got,
         UNCHANGED <<healthy, failed>>,
         got = "nothing" =>
           Behind(RouteOf(walk[w].name), Len(RouteOf(walk[w].name)), failed)
  PROVE  PvInv'
<1>4. Walked(k, failed)
  BY DEF Walked
<1> QED
  BY <1>4, OneWalks DEF PvInv

(* At the end of the route everything in it has failed; a model has none.  *)
LEMMA AllBehind ==
  ASSUME PvInv, NEW w \in PvWalkers,
         \/ walk[w].kind \in {"route", "chain"} /\ walk[w].at > Len(RouteOf(walk[w].name))
         \/ walk[w].kind = "model"
  PROVE  Behind(RouteOf(walk[w].name), Len(RouteOf(walk[w].name)), failed)
<1>0. walk[w] \in Walks /\ Walked(walk[w], failed)
  BY DEF PvInv
<1>1. CASE walk[w].kind \in {"route", "chain"} /\ walk[w].at > Len(RouteOf(walk[w].name))
  <2>1. walk[w].at - 1 = Len(RouteOf(walk[w].name))
    BY <1>0, <1>1, LenType DEF Walked, Walks
  <2> QED
    BY <1>0, <1>1, <2>1 DEF Walked
<1>2. CASE walk[w].kind = "model"
  <2>1. RouteOf(walk[w].name) = <<>>
    BY <1>0, <1>2 DEF Walked
  <2> QED
    BY <2>1 DEF Behind
<1> QED
  BY <1>1, <1>2

LEMMA GiveUpKept ==
  ASSUME PvInv, NEW w \in PvWalkers, GiveUp(w), UNCHANGED <<healthy, failed>>,
         Behind(RouteOf(walk[w].name), Len(RouteOf(walk[w].name)), failed)
  PROVE  PvInv'
<1>0. walk[w] \in Walks
  BY DEF PvInv
<1>1. CASE walk[w].name # walk[w].role
  BY <1>0, <1>1, ResolvingKept DEF GiveUp, Walks
<1>2. CASE walk[w].name = walk[w].role
  <2>1. PICK k : k = [walk[w] EXCEPT !.kind = "done", !.got = "nothing"]
    OBVIOUS
  <2>2. /\ k \in Walks /\ k.kind = "done" /\ k.name = walk[w].name
        /\ k.role = walk[w].role /\ k.got = "nothing"
    BY <1>0, <2>1 DEF Walks
  <2>3. walk' = [walk EXCEPT ![w] = k]
    BY <1>2, <2>1 DEF GiveUp, PvInv
  <2> QED
    BY <2>2, <2>3, EndedKept
<1> QED
  BY <1>1, <1>2

-----------------------------------------------------------------------------
LEMMA TryEntryKept ==
  ASSUME PvInv, NEW w \in PvWalkers, TryEntry(w)
  PROVE  PvInv'
<1>0. walk[w] \in Walks
  BY DEF PvInv
<1> DEFINE e == RouteOf(walk[w].name)[walk[w].at]
<1>a. walk[w].kind = "route" /\ walk[w].at <= Len(RouteOf(walk[w].name)) /\ e = Entry(w)
  BY DEF TryEntry, Entry
<1>b. walk[w].at \in 1 .. Len(RouteOf(walk[w].name))
  BY <1>0, <1>a, LenType DEF PvInv, Walked, Walks
<1>c. e.provider \in PvIds /\ e.window \in Nat
  BY <1>b, EntryType
<1>1. PICK k : k = [walk[w] EXCEPT !.at = walk[w].at + 1]
  OBVIOUS
<1>2. /\ k \in Walks /\ k.kind = walk[w].kind /\ k.name = walk[w].name
      /\ k.role = walk[w].role /\ k.at = walk[w].at + 1
  BY <1>0, <1>1 DEF Walks
<1>3. CASE walk' = [walk EXCEPT ![w].at = @ + 1]
  <2>1. walk' = [walk EXCEPT ![w] = k]
    BY <1>1, <1>3 DEF PvInv
  <2>2. /\ failed \subseteq failed' /\ PvConfigured \ healthy' \subseteq failed'
        /\ Entry(w).provider \in PvConfigured => Entry(w).provider \in failed'
    <3>1. CASE Skip(w, e)
      <4>2. UNCHANGED <<healthy, failed>>
        BY <1>a, <3>1 DEF TryEntry
      <4> QED
        BY <1>a, <3>1, <4>2 DEF Skip, PvInv
    <3>2. CASE ~Skip(w, e)
      <4>1. LanguageModel(e.provider, e.model)
        BY <1>a, <3>2 DEF TryEntry
      <4>2. CASE e.model \in able[e.provider]
        <5>1. \E window \in {0, 1, e.window} : 
                walk' = [walk EXCEPT ![w].kind = "done", ![w].got = e.provider,
                                     ![w].window = window]
          BY <1>a, <3>2, <4>2 DEF TryEntry, ContextWindow
        <5>2. walk'[w].kind = "done"
          BY <5>1 DEF PvInv
        <5>3. walk'[w].kind = "route"
          BY <1>2, <1>a, <2>1 DEF PvInv
        <5> QED
          BY <5>2, <5>3
      <4>3. CASE e.model \notin able[e.provider]
        BY <1>a, <4>1, <4>3, HealthKept
      <4> QED
        BY <4>2, <4>3
    <3> QED
      BY <3>1, <3>2
  <2> QED
    BY <1>a, <1>2, <2>1, <2>2, AdvanceKept
<1>4. CASE ~Skip(w, e) /\ e.model \in able[e.provider]
  <2>1. LanguageModel(e.provider, e.model) /\ ContextWindow(w, e.provider, e)
    BY <1>a, <1>4 DEF TryEntry
  <2>2. PICK n \in {0, 1, e.window} :
          walk' = [walk EXCEPT ![w].kind = "done", ![w].got = e.provider, ![w].window = n]
    BY <2>1 DEF ContextWindow
  <2>3. PICK r : r = [walk[w] EXCEPT !.kind = "done", !.got = e.provider, !.window = n]
    OBVIOUS
  <2>4. /\ r \in Walks /\ r.kind = "done" /\ r.name = walk[w].name
        /\ r.role = walk[w].role /\ r.got = e.provider
    <3>1. PICK p \in PvIds : p = e.provider
      BY <1>c
    <3>2. n \in Nat /\ r = [walk[w] EXCEPT !.kind = "done", !.got = p, !.window = n]
      BY <1>c, <2>3, <3>1
    <3>3. r \in Walks /\ r.kind = "done" /\ r.name = walk[w].name
          /\ r.role = walk[w].role /\ r.got = p
      BY <1>0, <3>2 DEF Walks
    <3> QED
      BY <3>1, <3>3
  <2>5. walk' = [walk EXCEPT ![w] = r]
    BY <2>2, <2>3 DEF PvInv
  <2>6. failed \subseteq failed' /\ PvConfigured \ healthy' \subseteq failed'
    BY <2>1, HealthKept
  <2> QED
    BY <1>a, <2>4, <2>5, <2>6, GivenKept
<1> QED
  BY <1>a, <1>3, <1>4 DEF TryEntry

LEMMA TryProviderKept ==
  ASSUME PvInv, NEW w \in PvWalkers, TryProvider(w)
  PROVE  PvInv'
<1>0. walk[w] \in Walks /\ walk[w].kind = "model" /\ Walked(walk[w], failed)
  BY DEF PvInv, TryProvider
<1>1. PICK p \in walk[w].left :
        IF p \notin healthy
        THEN walk' = [walk EXCEPT ![w].left = @ \ {p}] /\ UNCHANGED <<healthy, failed>>
        ELSE /\ LanguageModel(p, walk[w].name)
             /\ walk' = IF walk[w].name \in able[p]
                        THEN [walk EXCEPT ![w].kind = "done", ![w].got = p]
                        ELSE [walk EXCEPT ![w].left = @ \ {p}]
  BY DEF TryProvider
<1>2. p \in PvIds
  BY <1>0, ProvidersAssumption DEF Walks
<1>3. failed \subseteq failed' /\ PvConfigured \ healthy' \subseteq failed'
  BY <1>1, HealthKept DEF PvInv
<1>4. CASE walk' = [walk EXCEPT ![w].left = @ \ {p}]
  <2>1. PICK k : k = [walk[w] EXCEPT !.left = walk[w].left \ {p}]
    OBVIOUS
  <2>2. /\ k \in Walks /\ k.kind = "model" /\ k.name = walk[w].name
        /\ k.role = walk[w].role
    BY <1>0, <2>1 DEF Walks
  <2>3. walk' = [walk EXCEPT ![w] = k]
    BY <1>4, <2>1 DEF PvInv
  <2>4. Walked(k, failed')
    BY <1>0, <2>2 DEF Walked
  <2> QED
    BY <1>3, <2>2, <2>3, <2>4, OneWalks
<1>5. CASE walk' = [walk EXCEPT ![w].kind = "done", ![w].got = p]
  <2>1. PICK k : k = [walk[w] EXCEPT !.kind = "done", !.got = p]
    OBVIOUS
  <2>2. /\ k \in Walks /\ k.kind = "done" /\ k.name = walk[w].name
        /\ k.role = walk[w].role /\ k.got = p
    BY <1>0, <1>2, <2>1 DEF Walks
  <2>3. walk' = [walk EXCEPT ![w] = k]
    BY <1>5, <2>1 DEF PvInv
  <2>4. Walked(k, failed')
    BY <1>0, <2>2 DEF Walked
  <2> QED
    BY <1>3, <2>2, <2>3, <2>4, OneWalks
<1> QED
  BY <1>1, <1>4, <1>5

LEMMA ExecuteKept ==
  ASSUME PvInv, NEW w \in PvWalkers, NEW role \in Roles, Execute(w, role)
  PROVE  PvInv'
<1>1. PICK k : k = [PvIdle EXCEPT !.kind = "chain", !.name = role, !.role = role, !.at = 1]
  OBVIOUS
<1>2. /\ k \in Walks /\ k.kind = "chain" /\ k.name = role /\ k.role = role /\ k.at = 1
  BY <1>1 DEF PvIdle, Walks, PvNames
<1>3. walk' = [walk EXCEPT ![w] = k] /\ UNCHANGED <<healthy, failed>>
  BY <1>1 DEF Execute
<1>4. Walked(k, failed)
  BY <1>2, LenType DEF Walked, Behind
<1> QED
  BY <1>2, <1>3, <1>4, OneWalks DEF PvInv

LEMMA AttemptKept ==
  ASSUME PvInv, NEW w \in PvWalkers, Attempt(w)
  PROVE  PvInv'
<1>0. walk[w] \in Walks /\ Walked(walk[w], failed)
  BY DEF PvInv
<1>a. walk[w].kind = "chain" /\ walk[w].at <= Len(RouteOf(walk[w].name))
  BY DEF Attempt
<1>b. PICK p : p = Entry(w).provider
  OBVIOUS
<1>c. p \in PvIds
  BY <1>0, <1>a, <1>b, EntryType, LenType DEF Walked, Walks, Entry
<1>1. ASSUME NextEntry(w), failed \subseteq failed',
             PvConfigured \ healthy' \subseteq failed', p \in PvConfigured => p \in failed'
      PROVE  PvInv'
  <2>1. PICK k : k = [walk[w] EXCEPT !.at = walk[w].at + 1, !.try = 0]
    OBVIOUS
  <2>2. /\ k \in Walks /\ k.kind = walk[w].kind /\ k.name = walk[w].name
        /\ k.role = walk[w].role /\ k.at = walk[w].at + 1
    BY <1>0, <2>1, NextType
  <2>3. walk' = [walk EXCEPT ![w] = k]
    BY <1>1, <2>1 DEF NextEntry, PvInv
  <2> QED
    BY <1>1, <1>a, <1>b, <2>2, <2>3, AdvanceKept
<1>2. ASSUME NEW got \in {p, "cancelled"},
             walk' = [walk EXCEPT ![w].kind = "done", ![w].got = got],
             failed' = failed, healthy \subseteq healthy',
             got # p => UNCHANGED healthy
      PROVE  PvInv'
  <2>1. PICK k : k = [walk[w] EXCEPT !.kind = "done", !.got = got]
    OBVIOUS
  <2>2. /\ k \in Walks /\ k.kind = "done" /\ k.name = walk[w].name
        /\ k.role = walk[w].role /\ k.got = got
    BY <1>0, <1>2, <1>c, <2>1 DEF Walks
  <2>3. walk' = [walk EXCEPT ![w] = k]
    BY <1>2, <2>1 DEF PvInv
  <2>4. PvConfigured \ healthy' \subseteq failed' /\ failed \subseteq failed'
    BY <1>2 DEF PvInv
  <2>5. CASE got = p
    BY <1>a, <1>b, <2>2, <2>3, <2>4, <2>5, GivenKept
  <2>6. CASE got # p
    BY <1>2, <2>2, <2>3, <2>6, EndedKept
  <2> QED
    BY <1>2, <2>5, <2>6
<1>3. ASSUME walk' = [walk EXCEPT ![w].try = @ + 1], UNCHANGED <<healthy, failed>>
      PROVE  PvInv'
  <2>1. PICK k : k = [walk[w] EXCEPT !.try = walk[w].try + 1]
    OBVIOUS
  <2>2. /\ k \in Walks /\ k.kind = walk[w].kind /\ k.name = walk[w].name
        /\ k.role = walk[w].role /\ k.at = walk[w].at
    BY <1>0, <2>1 DEF Walks
  <2>3. walk' = [walk EXCEPT ![w] = k]
    BY <1>3, <2>1 DEF PvInv
  <2>4. Walked(k, failed)
    BY <1>0, <1>a, <2>2 DEF Walked
  <2> QED
    BY <1>3, <2>2, <2>3, <2>4, OneWalks DEF PvInv
<1>4. \/ p \notin PvConfigured /\ NextEntry(w) /\ UNCHANGED <<healthy, failed>>
      \/ /\ healthy' = healthy \cup {p} /\ UNCHANGED failed
         /\ walk' = [walk EXCEPT ![w].kind = "done", ![w].got = p]
      \/ /\ UNCHANGED <<healthy, failed>>
         /\ \/ walk' = [walk EXCEPT ![w].try = @ + 1]
            \/ walk' = [walk EXCEPT ![w].kind = "done", ![w].got = "cancelled"]
      \/ NextEntry(w) /\ healthy' = healthy \ {p} /\ failed' = failed \cup {p}
  BY <1>b DEF Attempt, Entry
<1>5. CASE p \notin PvConfigured /\ NextEntry(w) /\ UNCHANGED <<healthy, failed>>
  BY <1>1, <1>5 DEF PvInv
<1>6. CASE NextEntry(w) /\ healthy' = healthy \ {p} /\ failed' = failed \cup {p}
  BY <1>1, <1>6 DEF PvInv
<1>7. ASSUME healthy' = healthy \cup {p}, UNCHANGED failed,
             walk' = [walk EXCEPT ![w].kind = "done", ![w].got = p]
      PROVE  PvInv'
  BY <1>2, <1>7
<1>8. ASSUME UNCHANGED <<healthy, failed>>,
             walk' = [walk EXCEPT ![w].kind = "done", ![w].got = "cancelled"]
      PROVE  PvInv'
  BY <1>2, <1>8
<1> QED
  BY <1>3, <1>4, <1>5, <1>6, <1>7, <1>8

LEMMA PvInvNext == PvInv /\ [PvNext]_pvVars => PvInv'
<1> SUFFICES ASSUME PvInv, [PvNext]_pvVars PROVE PvInv'
  OBVIOUS
<1>1. ASSUME NEW w \in PvWalkers, NEW o \in PvOverrides, NEW r \in Roles \cup {"orchestrator"},
             RunResolves(w, o, r)
      PROVE  PvInv'
  BY <1>1, ResolvingKept DEF RunResolves, PvNames
<1>2. ASSUME NEW w \in PvWalkers, RouteExhausted(w) PROVE PvInv'
  BY <1>2, AllBehind, GiveUpKept DEF RouteExhausted
<1>3. ASSUME NEW w \in PvWalkers, ModelUnknown(w) PROVE PvInv'
  BY <1>3, AllBehind, GiveUpKept DEF ModelUnknown
<1>4. ASSUME NEW w \in PvWalkers, ChainExhausted(w) PROVE PvInv'
  <2>1. PICK k : k = [walk[w] EXCEPT !.kind = "done", !.got = "nothing"]
    OBVIOUS
  <2>2. walk[w] \in Walks
    BY DEF PvInv
  <2>3. /\ k \in Walks /\ k.kind = "done" /\ k.name = walk[w].name
        /\ k.role = walk[w].role /\ k.got = "nothing"
    BY <2>1, <2>2 DEF Walks
  <2>4. walk' = [walk EXCEPT ![w] = k] /\ UNCHANGED <<healthy, failed>>
    BY <1>4, <2>1 DEF ChainExhausted, PvInv
  <2> QED
    BY <1>4, <2>3, <2>4, AllBehind, EndedKept DEF ChainExhausted
<1>5. CASE UNCHANGED <<walk, healthy, failed>>
  BY <1>5 DEF PvInv
<1>6. ASSUME NEW p \in PvIds, NEW m \in PvModels, Changes(p, m) PROVE PvInv'
  BY <1>5, <1>6 DEF Changes
<1> QED
  BY <1>1, <1>2, <1>3, <1>4, <1>5, <1>6, TryEntryKept, TryProviderKept, AttemptKept,
     ExecuteKept DEF PvNext, pvVars

LEMMA PvInvInit == PvInit => PvInv
<1> SUFFICES ASSUME PvInit PROVE PvInv
  OBVIOUS
<1>1. PvIdle \in Walks /\ PvIdle.kind = "idle"
  BY DEF PvIdle, Walks, PvNames
<1>2. Walked(PvIdle, failed)
  BY <1>1 DEF Walked
<1> QED
  BY <1>1, <1>2 DEF PvInit, PvInv

(* A role that has a route is refused a model only when every provider of  *)
(* the route has failed, and is given one only after those before it did:  *)
(* for any routes, any overrides, and any interleaving of runs that share  *)
(* the providers' health (provider/router.go, provider/fallback.go).       *)
THEOREM RolesAreServed == PvSpec => []RoleIsServed
<1>1. PvInv => RoleIsServed
  <2> SUFFICES ASSUME PvInv, NEW w \in PvWalkers,
                      walk[w].kind = "done", walk[w].name = walk[w].role,
                      walk[w].got # "cancelled", RouteOf(walk[w].role) # <<>>
               PROVE  LET route == RouteOf(walk[w].role)
                          before(i) == {route[j].provider : j \in 1..i - 1} \cap PvConfigured
                      IN  \/ walk[w].got = "nothing" /\ before(Len(route) + 1) \subseteq failed
                          \/ \E i \in DOMAIN route : walk[w].got = route[i].provider
                                                     /\ before(i) \subseteq failed
    BY DEF RoleIsServed
  <2> DEFINE route == RouteOf(walk[w].role)
  <2>1. \/ walk[w].got = "nothing" /\ Behind(route, Len(route), failed)
        \/ \E i \in DOMAIN route : walk[w].got = route[i].provider
                                   /\ Behind(route, i - 1, failed)
    BY DEF PvInv, Walked
  <2>2. Len(route) + 1 - 1 = Len(route)
    BY LenType
  <2> QED
    BY <2>1, <2>2 DEF Behind
<1> QED
  BY <1>1, PvInvInit, PvInvNext, PTL DEF PvSpec

-----------------------------------------------------------------------------
(* Agents.                                                                 *)

AgentFiles == [kind : {"none", "broken", "agent"}, id : AgIds, v : Nat, binds : Bindings]
LoadedAgents == [id : AgIds, by : {"user"}, v : Nat, binds : Bindings]
AgentCalls == [at : {"idle", "write", "load", "upsert", "done"}, entry : AgIds, v : Nat,
               k : Nat, loaded : Seq(LoadedAgents), ok : BOOLEAN, met : BOOLEAN]

AgTypes ==
  /\ agFile \in [Entries -> AgentFiles]
  /\ agCall \in [AgCallers -> AgentCalls]
  /\ agOps \in Nat

(* Every writing of a file has a version of its own. *)
Versions ==
  /\ \A e \in Entries : agFile[e].v <= agOps
  /\ \A c \in AgCallers :
       /\ agCall[c].v <= agOps
       /\ agCall[c].v > 0 => agCall[c].entry \in Entries
       /\ agCall[c].at = "write" => agCall[c].v > 0 /\ agCall[c].loaded = <<>>
       /\ agCall[c].at = "load" => agCall[c].k > 0
  /\ \A c, d \in AgCallers : agCall[c].v > 0 /\ agCall[c].v = agCall[d].v => c = d
  /\ \A c \in AgCallers, e \in Entries : agCall[c].v > 0 /\ agFile[e].v = agCall[c].v =>
       e = agCall[c].entry /\ agCall[c].at # "write"
       /\ agFile[e].kind = "agent" /\ agFile[e].id = agCall[c].entry

Has(agents, id) == \E j \in DOMAIN agents : agents[j].id = id

(* The file is still what c's call wrote. *)
Current(c) == agCall[c].v > 0 /\ agFile[agCall[c].entry].v = agCall[c].v

(* The id is, or will be, in the registry by c's own reload. *)
KnownBy(c) ==
  LET call == agCall[c]
  IN  /\ call.at = "load" =>
           \A i \in DOMAIN AgEntries :
             i < call.k /\ AgEntries[i] = call.entry => Has(call.loaded, call.entry)
      /\ call.at = "upsert" =>
           Has(call.loaded, call.entry) \/ call.entry \in DOMAIN registry
      /\ call.at = "done" /\ call.ok => call.entry \in DOMAIN registry

(* No other file has the id, nor had it in a reload that began before. *)
Alone(c) ==
  /\ Current(c) /\ ~agCall[c].met
  /\ \A e \in Entries : agFile[e].kind = "agent" /\ IdOf(e) = agCall[c].entry =>
       e = agCall[c].entry

Served(c) ==
  agCall[c].entry \in DOMAIN registry /\ registry[agCall[c].entry].v = agCall[c].v

(* Then nobody puts another agent under the id. *)
FreshBy(c) ==
  /\ \A d \in AgCallers : Reloading(d) =>
       \A j \in DOMAIN agCall[d].loaded :
         agCall[d].loaded[j].id = agCall[c].entry => agCall[d].loaded[j].v = agCall[c].v
  /\ agCall[c].at = "upsert" => Has(agCall[c].loaded, agCall[c].entry) \/ Served(c)
  /\ agCall[c].at = "done" /\ agCall[c].ok => Served(c)

CallInv(c) == (Current(c) => KnownBy(c)) /\ (Alone(c) => FreshBy(c))

AgInv == AgTypes /\ Versions /\ \A c \in AgCallers : CallInv(c)

LEMMA SeqFacts ==
  ASSUME NEW S, NEW s \in Seq(S)
  PROVE  DOMAIN s = 1 .. Len(s) /\ Len(s) \in Nat /\ \A i \in 1 .. Len(s) : s[i] \in S
OBVIOUS

LEMMA NameFacts == "" \in AgIds /\ "agent" \in AgIds
BY AgentsAssumption

LEMMA EntryNames ==
  /\ Entries \subseteq AgIds /\ "" \notin Entries /\ AgDirs \subseteq Entries
  /\ \A e \in Entries : \E i \in DOMAIN AgEntries : i \in 1 .. Len(AgEntries) /\ AgEntries[i] = e
  /\ \A i \in 1 .. Len(AgEntries) : AgEntries[i] \in Entries
  /\ Len(AgEntries) \in Nat
<1>1. AgEntries \in Seq(AgIds \ {""})
  BY AgentsAssumption
<1>2. /\ DOMAIN AgEntries = 1 .. Len(AgEntries) /\ Len(AgEntries) \in Nat
      /\ \A i \in DOMAIN AgEntries : AgEntries[i] \in AgIds \ {""}
  BY <1>1, SeqFacts
<1> QED
  BY <1>2, AgentsAssumption DEF Entries, Range

LEMMA EntryIndex == \A i \in DOMAIN AgEntries : i \in Nat
<1>1. AgEntries \in Seq(AgIds \ {""})
  BY AgentsAssumption
<1>2. DOMAIN AgEntries = 1 .. Len(AgEntries)
  BY <1>1, SeqFacts
<1> QED
  BY <1>2

LEMMA NewCallType ==
  /\ NoCall \in AgentCalls /\ NoCall.v = 0 /\ NoCall.at = "idle" /\ NoCall.loaded = <<>>
  /\ NoCall.entry = ""
<1>1. <<>> \in Seq(LoadedAgents)
  OBVIOUS
<1> QED
  BY <1>1, NameFacts DEF NoCall, AgentCalls

LEMMA EmptyFileType ==
  /\ NoFile \in AgentFiles /\ EmptyFile \in AgentFiles
  /\ EmptyFile.kind = "agent" /\ EmptyFile.v = 0 /\ EmptyFile.id = "" /\ NoFile.v = 0
<1>1. {} \in Bindings
  BY DEF Bindings
<1> QED
  BY <1>1, NameFacts DEF EmptyFile, NoFile, AgentFiles

(* A call that goes on where it was, while nothing reaches the registry.   *)
LEMMA CallStays ==
  ASSUME AgInv, NEW c \in AgCallers, UNCHANGED registry,
         agCall'[c].at = agCall[c].at, agCall'[c].entry = agCall[c].entry,
         agCall'[c].v = agCall[c].v, agCall'[c].k = agCall[c].k,
         agCall'[c].loaded = agCall[c].loaded, agCall'[c].ok = agCall[c].ok,
         Current(c)' => Current(c), Alone(c)' => Alone(c),
         \A d \in AgCallers : Reloading(d)' =>
           \/ Reloading(d) /\ agCall'[d].loaded = agCall[d].loaded
           \/ agCall'[d].loaded = <<>>
  PROVE  CallInv(c)'
<1>1. Current(c)' => KnownBy(c)'
  <2> SUFFICES ASSUME Current(c)' PROVE KnownBy(c)'
    OBVIOUS
  <2>1. KnownBy(c)
    BY DEF AgInv, CallInv
  <2> QED
    BY <2>1 DEF KnownBy
<1>2. Alone(c)' => FreshBy(c)'
  <2> SUFFICES ASSUME Alone(c)' PROVE FreshBy(c)'
    OBVIOUS
  <2>1. FreshBy(c)
    BY DEF AgInv, CallInv
  <2>2. (agCall[c].at = "upsert" => Has(agCall[c].loaded, agCall[c].entry) \/ Served(c))'
        /\ (agCall[c].at = "done" /\ agCall[c].ok => Served(c))'
    BY <2>1 DEF FreshBy, Served
  <2>3. ASSUME NEW d \in AgCallers, Reloading(d)', NEW j \in DOMAIN agCall'[d].loaded,
               agCall'[d].loaded[j].id = agCall'[c].entry
        PROVE  agCall'[d].loaded[j].v = agCall'[c].v
    <3>1. CASE Reloading(d) /\ agCall'[d].loaded = agCall[d].loaded
      BY <2>1, <2>3, <3>1 DEF FreshBy
    <3>2. CASE agCall'[d].loaded = <<>>
      BY <2>3, <3>2
    <3> QED
      BY <2>3, <3>1, <3>2
  <2> QED
    BY <2>2, <2>3 DEF FreshBy
<1> QED
  BY <1>1, <1>2 DEF CallInv

(* A file is written: whoever's id it had, or takes, is told. *)
LEMMA FileWritten ==
  ASSUME AgInv, NEW e \in Entries, NEW g \in AgentFiles,
         agFile' = [agFile EXCEPT ![e] = g],
         NEW c \in AgCallers, agCall'[c] = Told(e)[c], g.v = 0 \/ g.v # agCall[c].v
  PROVE  /\ agCall'[c].at = agCall[c].at /\ agCall'[c].entry = agCall[c].entry
         /\ agCall'[c].v = agCall[c].v /\ agCall'[c].k = agCall[c].k
         /\ agCall'[c].loaded = agCall[c].loaded /\ agCall'[c].ok = agCall[c].ok
         /\ agCall'[c] \in AgentCalls
         /\ Current(c)' => Current(c)
         /\ Alone(c)' => Alone(c)
<1>0. agCall[c] \in AgentCalls /\ agFile \in [Entries -> AgentFiles] /\ g.v \in Nat
  BY DEF AgInv, AgTypes, AgentFiles
<1>1. PICK met \in BOOLEAN : met = (agCall[c].met
        \/ (agCall[c].entry # e /\ agCall[c].entry \in {IdOf(e), IdOf(e)'}))
  OBVIOUS
<1>2. agCall'[c] = [agCall[c] EXCEPT !.met = met]
  <2>1. agCall'[c] = [agCall[c] EXCEPT !.met = (agCall[c].met
        \/ (agCall[c].entry # e /\ agCall[c].entry \in {IdOf(e), IdOf(e)'}))]
    BY DEF Told
  <2> QED
    BY <2>1, <1>1
<1>3. /\ agCall'[c].at = agCall[c].at /\ agCall'[c].entry = agCall[c].entry
      /\ agCall'[c].v = agCall[c].v /\ agCall'[c].k = agCall[c].k
      /\ agCall'[c].loaded = agCall[c].loaded /\ agCall'[c].ok = agCall[c].ok
      /\ agCall'[c].met = met /\ agCall'[c] \in AgentCalls
  BY <1>0, <1>1, <1>2 DEF AgentCalls
<1>4. \A x \in Entries \ {e} : agFile'[x] = agFile[x]
  BY <1>0
<1>5. agFile'[e].v = g.v
  BY <1>0
<1>6. Current(c)' => Current(c) /\ agCall[c].entry # e
  <2> SUFFICES ASSUME Current(c)' PROVE Current(c) /\ agCall[c].entry # e
    OBVIOUS
  <2>1. agCall[c].v > 0 /\ agFile'[agCall[c].entry].v = agCall[c].v
    BY <1>3 DEF Current
  <2>2. agCall[c].entry # e
    BY <2>1, <1>0, <1>5 DEF AgentCalls
  <2>3. agCall[c].entry \in Entries
    BY <2>1 DEF AgInv, Versions
  <2> QED
    BY <2>1, <2>2, <2>3, <1>4 DEF Current
<1>7. Alone(c)' => Alone(c)
  <2> SUFFICES ASSUME Alone(c)' PROVE Alone(c)
    OBVIOUS
  <2>1. Current(c) /\ agCall[c].entry # e
    BY <1>6 DEF Alone
  <2>2. ~met
    BY <1>3 DEF Alone
  <2>3. ~agCall[c].met /\ IdOf(e) # agCall[c].entry
    BY <1>1, <2>1, <2>2
  <2>4. \A x \in Entries \ {e} : IdOf(x)' = IdOf(x) /\ agFile'[x].kind = agFile[x].kind
    BY <1>4 DEF IdOf
  <2> QED
    BY <1>3, <2>1, <2>3, <2>4 DEF Alone
<1> QED
  BY <1>3, <1>6, <1>7

LEMMA ReloadKept ==
  ASSUME AgInv, NEW c \in AgCallers, HandleReload(c)
  PROVE  AgInv'
<1>1. PICK k : k = [NoCall EXCEPT !.at = "load", !.k = 1]
  OBVIOUS
<1>2. k \in AgentCalls /\ k.v = 0 /\ k.at = "load" /\ k.loaded = <<>> /\ k.k > 0
  <2>1. PICK one \in Nat : one = 1
    OBVIOUS
  <2>2. k = [NoCall EXCEPT !.at = "load", !.k = one]
    BY <1>1, <2>1
  <2>3. k \in AgentCalls /\ k.v = 0 /\ k.at = "load" /\ k.loaded = <<>> /\ k.k = one
    BY <2>2, NewCallType DEF AgentCalls
  <2> QED
    BY <2>1, <2>3
<1>3. agCall' = [agCall EXCEPT ![c] = k] /\ agOps' = agOps + 1 /\ UNCHANGED <<agFile, registry>>
  BY <1>1 DEF HandleReload, AgOp
<1>4. AgTypes'
  BY <1>2, <1>3 DEF AgInv, AgTypes
<1>5. /\ agCall'[c] = k
      /\ \A d \in AgCallers \ {c} : agCall'[d] = agCall[d]
  BY <1>3 DEF AgInv, AgTypes
<1>6. Versions'
  BY <1>2, <1>3, <1>5 DEF AgInv, AgTypes, Versions, AgentFiles, AgentCalls
<1>7. CallInv(c)'
  BY <1>2, <1>5 DEF CallInv, Current, Alone
<1>8. ASSUME NEW d \in AgCallers \ {c} PROVE CallInv(d)'
  <2>1. (Current(d)' => Current(d)) /\ (Alone(d)' => Alone(d))
    BY <1>3, <1>5 DEF Current, Alone, IdOf
  <2>2. \A x \in AgCallers : Reloading(x)' =>
           \/ Reloading(x) /\ agCall'[x].loaded = agCall[x].loaded
           \/ agCall'[x].loaded = <<>>
    BY <1>2, <1>5 DEF Reloading
  <2> QED
    BY <1>3, <1>5, <2>1, <2>2, CallStays
<1> QED
  BY <1>4, <1>6, <1>7, <1>8 DEF AgInv

LEMMA CreateKept ==
  ASSUME AgInv, NEW c \in AgCallers, NEW e \in AgDirs, HandleAgentCreate(c, e)
  PROVE  AgInv'
<1>a. e \in Entries /\ e \in AgIds
  BY EntryNames
<1>b. PICK g \in AgentFiles : g = EmptyFile /\ g.v = 0
  BY EmptyFileType
<1>1. PICK k : k = [NoCall EXCEPT !.at = "write", !.entry = e, !.v = agOps']
  OBVIOUS
<1>2. agOps \in Nat /\ agOps' = agOps + 1 /\ agOps' \in Nat
  BY DEF HandleAgentCreate, AgOp, AgInv, AgTypes
<1>3. k \in AgentCalls /\ k.v = agOps' /\ k.at = "write" /\ k.loaded = <<>> /\ k.entry = e
  BY <1>1, <1>2, <1>a, NewCallType DEF AgentCalls
<1>4. /\ agFile' = [agFile EXCEPT ![e] = g] /\ agCall' = [Told(e) EXCEPT ![c] = k]
      /\ UNCHANGED registry
  BY <1>1, <1>b DEF HandleAgentCreate
<1>5. /\ agCall'[c] = k /\ DOMAIN agCall' = AgCallers
      /\ \A d \in AgCallers \ {c} : agCall'[d] = Told(e)[d]
  BY <1>4 DEF Told
<1>6. \A d \in AgCallers \ {c} :
        /\ agCall'[d].at = agCall[d].at /\ agCall'[d].entry = agCall[d].entry
        /\ agCall'[d].v = agCall[d].v /\ agCall'[d].k = agCall[d].k
        /\ agCall'[d].loaded = agCall[d].loaded /\ agCall'[d].ok = agCall[d].ok
        /\ agCall'[d] \in AgentCalls
        /\ Current(d)' => Current(d)
        /\ Alone(d)' => Alone(d)
  BY <1>a, <1>4, <1>5, <1>b, FileWritten
<1>7. /\ agFile' \in [Entries -> AgentFiles] /\ agFile'[e] = g
      /\ \A x \in Entries \ {e} : agFile'[x] = agFile[x]
  BY <1>a, <1>4, <1>b DEF AgInv, AgTypes
<1>8. AgTypes'
  <2>1. \A d \in AgCallers : agCall'[d] \in AgentCalls
    BY <1>3, <1>5, <1>6
  <2>2. agCall' = [d \in AgCallers |-> agCall'[d]]
    BY <1>4, <1>5 DEF Told
  <2> QED
    BY <1>2, <1>7, <2>1, <2>2 DEF AgTypes
<1>9. Versions'
  <2>1. \A x \in Entries : agFile[x].v \in Nat /\ agFile[x].v <= agOps
    BY DEF AgInv, AgTypes, Versions, AgentFiles
  <2>2. \A d \in AgCallers : agCall[d].v \in Nat /\ agCall[d].v <= agOps
    BY DEF AgInv, AgTypes, Versions, AgentCalls
  <2>3. \A x \in Entries : agFile'[x].v <= agOps /\ agFile'[x].v \in Nat
    BY <1>7, <1>2, <2>1, <1>b
  <2>4. ASSUME NEW d \in AgCallers
        PROVE  /\ agCall'[d].v <= agOps'
               /\ agCall'[d].v > 0 => agCall'[d].entry \in Entries
               /\ agCall'[d].at = "write" => agCall'[d].v > 0 /\ agCall'[d].loaded = <<>>
               /\ agCall'[d].at = "load" => agCall'[d].k > 0
    <3>1. CASE d = c
      BY <1>2, <1>3, <1>5, <1>a, <3>1
    <3>2. CASE d # c
      BY <1>2, <1>6, <2>2, <3>2 DEF AgInv, Versions
    <3> QED
      BY <3>1, <3>2
  <2>5. ASSUME NEW d \in AgCallers, NEW x \in AgCallers,
               agCall'[d].v > 0, agCall'[d].v = agCall'[x].v
        PROVE  d = x
    <3>1. CASE d # c /\ x # c
      BY <1>6, <2>5, <3>1 DEF AgInv, Versions
    <3>2. CASE d = c /\ x # c
      BY <1>2, <1>3, <1>5, <1>6, <2>2, <2>5, <3>2
    <3>3. CASE d # c /\ x = c
      BY <1>2, <1>3, <1>5, <1>6, <2>2, <2>5, <3>3
    <3> QED
      BY <3>1, <3>2, <3>3
  <2>6. ASSUME NEW d \in AgCallers, NEW x \in Entries,
               agCall'[d].v > 0, agFile'[x].v = agCall'[d].v
        PROVE  x = agCall'[d].entry /\ agCall'[d].at # "write"
               /\ agFile'[x].kind = "agent" /\ agFile'[x].id = agCall'[d].entry
    <3>1. x # e
      BY <1>7, <2>6, <1>b
    <3>2. d # c
      BY <1>2, <1>3, <1>5, <2>3, <2>6
    <3> QED
      BY <1>6, <1>7, <2>6, <3>1, <3>2 DEF AgInv, Versions
  <2>7. \A x \in Entries : agFile'[x].v <= agOps'
    BY <1>2, <2>3
  <2> QED
    BY <2>4, <2>5, <2>6, <2>7 DEF Versions
<1>10. CallInv(c)'
  <2>1. ~Current(c)'
    BY <1>3, <1>5, <1>7, <1>2, <1>b DEF Current
  <2> QED
    BY <2>1 DEF CallInv, Alone
<1>11. ASSUME NEW d \in AgCallers \ {c} PROVE CallInv(d)'
  <2>1. \A x \in AgCallers : Reloading(x)' =>
           \/ Reloading(x) /\ agCall'[x].loaded = agCall[x].loaded
           \/ agCall'[x].loaded = <<>>
    BY <1>3, <1>5, <1>6 DEF Reloading
  <2> QED
    BY <1>4, <1>6, <2>1, CallStays
<1> QED
  BY <1>8, <1>9, <1>10, <1>11 DEF AgInv

LEMMA EditKept ==
  ASSUME AgInv, NEW e \in Entries, NEW f \in AgEdits, UserEdits(e, f)
  PROVE  AgInv'
<1>1. PICK g : g = [f EXCEPT !.v = agOps']
  OBVIOUS
<1>2. agOps \in Nat /\ agOps' = agOps + 1 /\ agOps' \in Nat
  BY DEF UserEdits, AgOp, AgInv, AgTypes
<1>3. g \in AgentFiles /\ g.v = agOps'
  <2>1. f \in [kind : {"none", "broken", "agent"}, id : AgIds, v : Nat, binds : Bindings]
    BY AgentsAssumption
  <2> QED
    BY <1>1, <1>2, <2>1 DEF AgentFiles
<1>4. /\ agFile' = [agFile EXCEPT ![e] = g] /\ agCall' = Told(e) /\ UNCHANGED registry
  BY <1>1 DEF UserEdits
<1>5. \A d \in AgCallers : agCall[d].v \in Nat /\ agCall[d].v <= agOps
  BY DEF AgInv, AgTypes, Versions, AgentCalls
<1>6. \A d \in AgCallers :
        /\ agCall'[d].at = agCall[d].at /\ agCall'[d].entry = agCall[d].entry
        /\ agCall'[d].v = agCall[d].v /\ agCall'[d].k = agCall[d].k
        /\ agCall'[d].loaded = agCall[d].loaded /\ agCall'[d].ok = agCall[d].ok
        /\ agCall'[d] \in AgentCalls
        /\ Current(d)' => Current(d)
        /\ Alone(d)' => Alone(d)
  <2> SUFFICES ASSUME NEW d \in AgCallers
               PROVE  /\ agCall'[d].at = agCall[d].at /\ agCall'[d].entry = agCall[d].entry
                      /\ agCall'[d].v = agCall[d].v /\ agCall'[d].k = agCall[d].k
                      /\ agCall'[d].loaded = agCall[d].loaded /\ agCall'[d].ok = agCall[d].ok
                      /\ agCall'[d] \in AgentCalls
                      /\ Current(d)' => Current(d)
                      /\ Alone(d)' => Alone(d)
    OBVIOUS
  <2>1. g.v # agCall[d].v
    BY <1>2, <1>3, <1>5
  <2> QED
    BY <1>3, <1>4, <2>1, FileWritten
<1>7. /\ agFile' \in [Entries -> AgentFiles] /\ agFile'[e] = g
      /\ \A x \in Entries \ {e} : agFile'[x] = agFile[x]
  BY <1>3, <1>4 DEF AgInv, AgTypes
<1>8. AgTypes'
  <2>1. agCall' = [d \in AgCallers |-> agCall'[d]]
    BY <1>4 DEF Told
  <2> QED
    BY <1>2, <1>6, <1>7, <2>1 DEF AgTypes
<1>9. Versions'
  <2>1. \A x \in Entries : agFile[x].v \in Nat /\ agFile[x].v <= agOps
    BY DEF AgInv, AgTypes, Versions, AgentFiles
  <2>2. \A x \in Entries : agFile'[x].v <= agOps'
    BY <1>2, <1>3, <1>7, <2>1
  <2>3. ASSUME NEW d \in AgCallers, NEW x \in Entries,
               agCall'[d].v > 0, agFile'[x].v = agCall'[d].v
        PROVE  x = agCall'[d].entry /\ agCall'[d].at # "write"
               /\ agFile'[x].kind = "agent" /\ agFile'[x].id = agCall'[d].entry
    <3>1. x # e
      BY <1>2, <1>3, <1>5, <1>6, <1>7, <2>3
    <3> QED
      BY <1>6, <1>7, <2>3, <3>1 DEF AgInv, Versions
  <2>4. \A d \in AgCallers : agCall'[d].v <= agOps'
    BY <1>2, <1>5, <1>6
  <2> QED
    BY <1>6, <2>2, <2>3, <2>4 DEF AgInv, Versions
<1>10. ASSUME NEW d \in AgCallers PROVE CallInv(d)'
  <2>1. \A x \in AgCallers : Reloading(x)' =>
           \/ Reloading(x) /\ agCall'[x].loaded = agCall[x].loaded
           \/ agCall'[x].loaded = <<>>
    BY <1>6 DEF Reloading
  <2> QED
    BY <1>4, <1>6, <2>1, CallStays
<1> QED
  BY <1>8, <1>9, <1>10 DEF AgInv

LEMMA WrittenKept ==
  ASSUME AgInv, NEW c \in AgCallers, NEW e \in AgDirs, AgentWritten(c, e)
  PROVE  AgInv'
<1>a. e \in Entries /\ e \in AgIds
  BY EntryNames
<1>0. /\ agCall[c] \in AgentCalls /\ agCall[c].at = "write" /\ agCall[c].entry = e
      /\ agCall[c].v > 0 /\ agCall[c].loaded = <<>> /\ agCall[c].v \in Nat
  BY DEF AgentWritten, AgInv, AgTypes, Versions, AgentCalls
<1>b. PICK v \in Nat : v = agCall[c].v
  BY <1>0
<1>1. PICK g : g = [EmptyFile EXCEPT !.id = e, !.v = v]
  OBVIOUS
<1>2. g \in AgentFiles /\ g.v = v /\ g.kind = "agent" /\ g.id = e
  BY <1>1, <1>a, <1>b, EmptyFileType DEF AgentFiles
<1>c. PICK met \in BOOLEAN : met = \E d \in AgCallers : Reloading(d)
  OBVIOUS
<1>3. /\ agFile' = [agFile EXCEPT ![e] = g] /\ UNCHANGED <<registry, agOps>>
      /\ agCall' = [Told(e) EXCEPT ![c].at = "load", ![c].k = 1, ![c].met = met]
  BY <1>1, <1>b, <1>c DEF AgentWritten
<1>4. PICK k : k = [Told(e)[c] EXCEPT !.at = "load", !.k = 1, !.met = met]
  OBVIOUS
<1>5. PICK told \in BOOLEAN : Told(e)[c] = [agCall[c] EXCEPT !.met = told]
  <2>1. Told(e)[c] = [agCall[c] EXCEPT !.met = (agCall[c].met
        \/ (agCall[c].entry # e /\ agCall[c].entry \in {IdOf(e), IdOf(e)'}))]
    BY DEF Told
  <2>2. PICK told \in BOOLEAN : told = (agCall[c].met
        \/ (agCall[c].entry # e /\ agCall[c].entry \in {IdOf(e), IdOf(e)'}))
    OBVIOUS
  <2> QED
    BY <2>1, <2>2
<1>6. /\ k \in AgentCalls /\ k.at = "load" /\ k.k = 1 /\ k.met = met
      /\ k.entry = e /\ k.v = v /\ k.loaded = <<>>
  BY <1>0, <1>4, <1>5, <1>b DEF AgentCalls
<1>7. agCall' = [Told(e) EXCEPT ![c] = k]
  BY <1>3, <1>4 DEF Told
<1>8. /\ agCall'[c] = k /\ DOMAIN agCall' = AgCallers
      /\ \A d \in AgCallers \ {c} : agCall'[d] = Told(e)[d]
  BY <1>7 DEF Told
<1>9. \A d \in AgCallers \ {c} : agCall[d].v # v
  BY <1>0, <1>b DEF AgInv, Versions
<1>10. \A d \in AgCallers \ {c} :
        /\ agCall'[d].at = agCall[d].at /\ agCall'[d].entry = agCall[d].entry
        /\ agCall'[d].v = agCall[d].v /\ agCall'[d].k = agCall[d].k
        /\ agCall'[d].loaded = agCall[d].loaded /\ agCall'[d].ok = agCall[d].ok
        /\ agCall'[d] \in AgentCalls
        /\ Current(d)' => Current(d)
        /\ Alone(d)' => Alone(d)
  <2> SUFFICES ASSUME NEW d \in AgCallers \ {c}
               PROVE  /\ agCall'[d].at = agCall[d].at /\ agCall'[d].entry = agCall[d].entry
                      /\ agCall'[d].v = agCall[d].v /\ agCall'[d].k = agCall[d].k
                      /\ agCall'[d].loaded = agCall[d].loaded /\ agCall'[d].ok = agCall[d].ok
                      /\ agCall'[d] \in AgentCalls
                      /\ Current(d)' => Current(d)
                      /\ Alone(d)' => Alone(d)
    OBVIOUS
  <2>1. g.v # agCall[d].v /\ agCall'[d] = Told(e)[d]
    BY <1>2, <1>8, <1>9
  <2> QED
    BY <1>a, <1>2, <1>3, <2>1, FileWritten
<1>11. /\ agFile' \in [Entries -> AgentFiles] /\ agFile'[e] = g
       /\ \A x \in Entries \ {e} : agFile'[x] = agFile[x]
  BY <1>a, <1>2, <1>3 DEF AgInv, AgTypes
<1>12. AgTypes'
  <2>1. \A d \in AgCallers : agCall'[d] \in AgentCalls
    BY <1>6, <1>8, <1>10
  <2>2. agCall' = [d \in AgCallers |-> agCall'[d]]
    BY <1>7, <1>8 DEF Told
  <2> QED
    BY <1>3, <1>11, <2>1, <2>2 DEF AgInv, AgTypes
<1>13. Versions'
  <2>1. \A x \in Entries : agFile'[x].v <= agOps'
    BY <1>0, <1>b, <1>2, <1>3, <1>11 DEF AgInv, Versions
  <2>2. \A d \in AgCallers : agCall'[d].v = agCall[d].v /\ agCall'[d].entry = agCall[d].entry
    BY <1>0, <1>b, <1>6, <1>8, <1>10
  <2>3. ASSUME NEW d \in AgCallers
        PROVE  /\ agCall'[d].v <= agOps'
               /\ agCall'[d].v > 0 => agCall'[d].entry \in Entries
               /\ agCall'[d].at = "write" => agCall'[d].v > 0 /\ agCall'[d].loaded = <<>>
               /\ agCall'[d].at = "load" => agCall'[d].k > 0
    <3>1. agCall'[d].v <= agOps' /\ (agCall'[d].v > 0 => agCall'[d].entry \in Entries)
      BY <1>3, <2>2 DEF AgInv, Versions
    <3>2. /\ agCall'[d].at = "write" => agCall'[d].v > 0 /\ agCall'[d].loaded = <<>>
          /\ agCall'[d].at = "load" => agCall'[d].k > 0
      <4>1. CASE d = c
        BY <1>6, <1>8, <4>1
      <4>2. CASE d # c
        BY <1>10, <4>2 DEF AgInv, Versions
      <4> QED
        BY <4>1, <4>2
    <3> QED
      BY <3>1, <3>2
  <2>4. \A d, x \in AgCallers : agCall'[d].v > 0 /\ agCall'[d].v = agCall'[x].v => d = x
    BY <2>2 DEF AgInv, Versions
  <2>5. ASSUME NEW d \in AgCallers, NEW x \in Entries,
               agCall'[d].v > 0, agFile'[x].v = agCall'[d].v
        PROVE  x = agCall'[d].entry /\ agCall'[d].at # "write"
               /\ agFile'[x].kind = "agent" /\ agFile'[x].id = agCall'[d].entry
    <3>1. CASE x = e
      <4>1. d = c
        BY <1>2, <1>9, <1>11, <2>2, <2>5, <3>1
      <4> QED
        BY <1>2, <1>6, <1>8, <1>11, <3>1, <4>1
    <3>2. CASE x # e
      <4>1. agFile[x].v = agCall[d].v /\ agCall[d].v > 0
        BY <1>11, <2>2, <2>5, <3>2
      <4>2. x = agCall[d].entry /\ agCall[d].at # "write"
            /\ agFile[x].kind = "agent" /\ agFile[x].id = agCall[d].entry
        BY <4>1 DEF AgInv, Versions
      <4>3. d # c
        BY <1>0, <4>2
      <4> QED
        BY <1>10, <1>11, <3>2, <4>2, <4>3
    <3> QED
      BY <3>1, <3>2
  <2> QED
    BY <2>1, <2>3, <2>4, <2>5 DEF Versions
<1>14. CallInv(c)'
  <2>1. KnownBy(c)'
    <3>1. \A i \in DOMAIN AgEntries : ~(i < 1)
      <4>1. AgEntries \in Seq(AgIds \ {""})
        BY AgentsAssumption
      <4>2. DOMAIN AgEntries = 1 .. Len(AgEntries) /\ Len(AgEntries) \in Nat
        BY <4>1, SeqFacts
      <4> QED
        BY <4>2
    <3> QED
      BY <1>6, <1>8, <3>1 DEF KnownBy
  <2>2. Alone(c)' => FreshBy(c)'
    <3> SUFFICES ASSUME Alone(c)' PROVE FreshBy(c)'
      OBVIOUS
    <3>1. ~met
      BY <1>6, <1>8 DEF Alone
    <3>2. \A d \in AgCallers : Reloading(d)' => agCall'[d].loaded = <<>>
      <4>1. \A d \in AgCallers \ {c} : ~Reloading(d)'
        BY <1>c, <1>10, <3>1 DEF Reloading
      <4> QED
        BY <1>6, <1>8, <4>1
    <3> QED
      BY <1>6, <1>8, <3>2 DEF FreshBy
  <2> QED
    BY <2>1, <2>2 DEF CallInv
<1>15. ASSUME NEW d \in AgCallers \ {c} PROVE CallInv(d)'
  <2>1. \A x \in AgCallers : Reloading(x)' =>
           \/ Reloading(x) /\ agCall'[x].loaded = agCall[x].loaded
           \/ agCall'[x].loaded = <<>>
    BY <1>6, <1>8, <1>10 DEF Reloading
  <2> QED
    BY <1>3, <1>10, <2>1, CallStays
<1> QED
  BY <1>12, <1>13, <1>14, <1>15 DEF AgInv

(* A reload goes on: its call keeps its id and version, and no file moves. *)
LEMMA CallMoves ==
  ASSUME AgInv, NEW c \in AgCallers, NEW k \in AgentCalls, agCall' = [agCall EXCEPT ![c] = k],
         UNCHANGED <<agFile, agOps>>, agCall[c].at # "write", k.at # "write",
         k.v = agCall[c].v, k.entry = agCall[c].entry, k.met = agCall[c].met,
         k.at = "load" => k.k > 0
  PROVE  /\ AgTypes' /\ Versions' /\ agCall'[c] = k
         /\ \A d \in AgCallers \ {c} : agCall'[d] = agCall[d]
         /\ \A d \in AgCallers : (Current(d)' <=> Current(d)) /\ (Alone(d)' <=> Alone(d))
<1>1. AgTypes' /\ agCall'[c] = k /\ \A d \in AgCallers \ {c} : agCall'[d] = agCall[d]
  BY DEF AgInv, AgTypes
<1>2. \A d \in AgCallers :
        /\ agCall'[d].v = agCall[d].v /\ agCall'[d].entry = agCall[d].entry
        /\ agCall'[d].met = agCall[d].met
        /\ agCall'[d].at = "write" => agCall[d].at = "write" /\ agCall'[d] = agCall[d]
        /\ agCall[d].at # "write" => agCall'[d].at # "write"
        /\ agCall'[d].at = "load" => agCall'[d].k > 0
  <2>1. \A d \in AgCallers : agCall[d].at = "load" => agCall[d].k > 0
    BY DEF AgInv, Versions
  <2> QED
    BY <1>1, <2>1
<1>3. Versions'
  <2>1. \A e \in Entries : agFile'[e].v <= agOps'
    BY DEF AgInv, Versions
  <2>2. ASSUME NEW d \in AgCallers
        PROVE  /\ agCall'[d].v <= agOps'
               /\ agCall'[d].v > 0 => agCall'[d].entry \in Entries
               /\ agCall'[d].at = "write" => agCall'[d].v > 0 /\ agCall'[d].loaded = <<>>
               /\ agCall'[d].at = "load" => agCall'[d].k > 0
    BY <1>2 DEF AgInv, Versions
  <2>3. \A d, x \in AgCallers : agCall'[d].v > 0 /\ agCall'[d].v = agCall'[x].v => d = x
    BY <1>2 DEF AgInv, Versions
  <2>4. ASSUME NEW d \in AgCallers, NEW e \in Entries,
               agCall'[d].v > 0, agFile'[e].v = agCall'[d].v
        PROVE  e = agCall'[d].entry /\ agCall'[d].at # "write"
               /\ agFile'[e].kind = "agent" /\ agFile'[e].id = agCall'[d].entry
    BY <1>2, <2>4 DEF AgInv, Versions
  <2> QED
    BY <2>1, <2>2, <2>3, <2>4 DEF Versions
<1>4. \A d \in AgCallers : (Current(d)' <=> Current(d)) /\ (Alone(d)' <=> Alone(d))
  <2>1. \A d \in AgCallers : Current(d)' <=> Current(d)
    BY <1>2 DEF Current
  <2>2. \A e \in Entries : IdOf(e)' = IdOf(e) /\ agFile'[e] = agFile[e]
    BY DEF IdOf
  <2>3. Entries' = Entries
    OBVIOUS
  <2> QED
    BY <1>2, <2>1, <2>2 DEF Alone
<1> QED
  BY <1>1, <1>3, <1>4

LEMMA AppendFacts ==
  ASSUME NEW S, NEW s \in Seq(S), NEW x \in S
  PROVE  /\ Append(s, x) \in Seq(S)
         /\ \A j \in DOMAIN Append(s, x) :
              (j \in DOMAIN s /\ Append(s, x)[j] = s[j]) \/ Append(s, x)[j] = x
         /\ \A j \in DOMAIN s : j \in DOMAIN Append(s, x) /\ Append(s, x)[j] = s[j]
         /\ \E j \in DOMAIN Append(s, x) : Append(s, x)[j] = x
<1>1. Len(s) \in Nat /\ DOMAIN s = 1 .. Len(s) /\ Append(s, x) \in Seq(S)
      /\ Len(Append(s, x)) = Len(s) + 1 /\ DOMAIN Append(s, x) = 1 .. Len(s) + 1
  OBVIOUS
<1>2. Append(s, x)[Len(s) + 1] = x /\ \A j \in 1 .. Len(s) : Append(s, x)[j] = s[j]
  OBVIOUS
<1> QED
  BY <1>1, <1>2

LEMMA TailFacts ==
  ASSUME NEW S, NEW s \in Seq(S), s # <<>>
  PROVE  /\ Tail(s) \in Seq(S) /\ Head(s) \in S
         /\ \A j \in DOMAIN Tail(s) : \E i \in DOMAIN s : Tail(s)[j] = s[i]
         /\ \A i \in DOMAIN s : s[i] = Head(s) \/ \E j \in DOMAIN Tail(s) : Tail(s)[j] = s[i]
         /\ \E i \in DOMAIN s : s[i] = Head(s)
<1>1. Len(s) \in Nat \ {0} /\ DOMAIN s = 1 .. Len(s) /\ Tail(s) \in Seq(S)
      /\ Head(s) = s[1] /\ Head(s) \in S /\ DOMAIN Tail(s) = 1 .. Len(s) - 1
  OBVIOUS
<1>2. \A j \in 1 .. Len(s) - 1 : Tail(s)[j] = s[j + 1]
  OBVIOUS
<1>3. ASSUME NEW i \in DOMAIN s, i # 1
      PROVE  \E j \in DOMAIN Tail(s) : Tail(s)[j] = s[i]
  <2>1. i - 1 \in 1 .. Len(s) - 1 /\ i - 1 + 1 = i
    BY <1>1, <1>3
  <2> QED
    BY <1>1, <1>2, <2>1
<1> QED
  BY <1>1, <1>2, <1>3

LEMMA LoadKept ==
  ASSUME AgInv, NEW c \in AgCallers, LoadEntry(c)
  PROVE  AgInv'
<1>0. agCall[c] \in AgentCalls /\ agCall[c].at = "load" /\ agCall[c].k <= Len(AgEntries)
      /\ agFile \in [Entries -> AgentFiles] /\ UNCHANGED <<agFile, registry, agOps>>
  BY DEF LoadEntry, AgInv, AgTypes
<1>a. PICK n \in Nat : n = agCall[c].k + 1
  BY <1>0 DEF AgentCalls
<1>b. /\ agCall[c].k \in Nat /\ n = agCall[c].k + 1 /\ n > agCall[c].k /\ n > 0
      /\ agCall[c].k \in 1 .. Len(AgEntries)
  <2>1. agCall[c].k > 0
    BY <1>0 DEF AgInv, Versions
  <2>2. agCall[c].k \in Nat
    BY <1>0 DEF AgentCalls
  <2>3. Len(AgEntries) \in Nat
    BY EntryNames
  <2>4. agCall[c].k \in 1 .. Len(AgEntries)
    BY <1>0, <2>1, <2>2, <2>3
  <2>5. n > agCall[c].k /\ n > 0
    BY <1>a, <2>2
  <2> QED
    BY <1>a, <2>2, <2>4, <2>5
<1> DEFINE e == AgEntries[agCall[c].k]
<1>1. CASE agFile[e].kind = "broken"
  <2>1. PICK k : k = [agCall[c] EXCEPT !.at = "done", !.ok = FALSE]
    OBVIOUS
  <2>2. /\ k \in AgentCalls /\ k.at = "done" /\ ~k.ok /\ k.v = agCall[c].v
        /\ k.entry = agCall[c].entry /\ k.met = agCall[c].met
    BY <1>0, <2>1 DEF AgentCalls
  <2>3. agCall' = [agCall EXCEPT ![c] = k]
    BY <1>1, <2>1 DEF LoadEntry, AgInv, AgTypes
  <2>4. /\ AgTypes' /\ Versions' /\ agCall'[c] = k
        /\ \A d \in AgCallers \ {c} : agCall'[d] = agCall[d]
        /\ \A d \in AgCallers : (Current(d)' <=> Current(d)) /\ (Alone(d)' <=> Alone(d))
    BY <1>0, <1>b, <2>2, <2>3, CallMoves
  <2>5. \A x \in AgCallers : Reloading(x)' => Reloading(x) /\ agCall'[x].loaded = agCall[x].loaded
    BY <2>2, <2>4 DEF Reloading
  <2>6. CallInv(c)'
    <3>1. KnownBy(c)'
      BY <2>2, <2>4 DEF KnownBy
    <3>2. Alone(c)' => FreshBy(c)'
      <4> SUFFICES ASSUME Alone(c)' PROVE FreshBy(c)'
        OBVIOUS
      <4>1. FreshBy(c)
        BY <2>4 DEF AgInv, CallInv
      <4> QED
        BY <2>2, <2>4, <2>5, <4>1 DEF FreshBy
    <3> QED
      BY <3>1, <3>2 DEF CallInv
  <2>7. \A d \in AgCallers \ {c} : CallInv(d)'
    BY <1>0, <2>4, <2>5, CallStays
  <2> QED
    BY <2>4, <2>6, <2>7 DEF AgInv
<1>2. CASE agFile[e].kind = "none"
  <2>1. PICK k : k = [agCall[c] EXCEPT !.k = n]
    OBVIOUS
  <2>2. /\ k \in AgentCalls /\ k.at = "load" /\ k.v = agCall[c].v /\ k.k = n
        /\ k.loaded = agCall[c].loaded /\ k.entry = agCall[c].entry /\ k.met = agCall[c].met
    BY <1>0, <2>1 DEF AgentCalls
  <2>3. agCall' = [agCall EXCEPT ![c] = k]
    BY <1>2, <1>a, <2>1 DEF LoadEntry, AgInv, AgTypes
  <2>4. /\ AgTypes' /\ Versions' /\ agCall'[c] = k
        /\ \A d \in AgCallers \ {c} : agCall'[d] = agCall[d]
        /\ \A d \in AgCallers : (Current(d)' <=> Current(d)) /\ (Alone(d)' <=> Alone(d))
    BY <1>0, <1>b, <2>2, <2>3, CallMoves
  <2>5. \A x \in AgCallers : Reloading(x)' => Reloading(x) /\ agCall'[x].loaded = agCall[x].loaded
    BY <1>0, <2>2, <2>4 DEF Reloading
  <2>6. CallInv(c)'
    <3>1. Current(c)' => KnownBy(c)'
      <4> SUFFICES ASSUME Current(c)' PROVE KnownBy(c)'
        OBVIOUS
      <4>1. Current(c) /\ KnownBy(c)
        BY <2>4 DEF AgInv, CallInv
      <4>2. agFile[agCall[c].entry].kind = "agent"
        BY <4>1 DEF Current, AgInv, Versions
      <4>3. ASSUME NEW i \in DOMAIN AgEntries, i < n, AgEntries[i] = agCall[c].entry
            PROVE  Has(agCall[c].loaded, agCall[c].entry)
        <5>1. i # agCall[c].k
          BY <1>2, <4>2, <4>3
        <5>2. i \in Nat
          BY EntryIndex
        <5>3. i < agCall[c].k
          BY <1>b, <4>3, <5>1, <5>2
        <5> QED
          BY <1>0, <4>1, <4>3, <5>3 DEF KnownBy
      <4> QED
        BY <2>2, <2>4, <4>3 DEF KnownBy
    <3>2. Alone(c)' => FreshBy(c)'
      <4> SUFFICES ASSUME Alone(c)' PROVE FreshBy(c)'
        OBVIOUS
      <4>1. FreshBy(c)
        BY <2>4 DEF AgInv, CallInv
      <4> QED
        BY <2>2, <2>4, <2>5, <4>1 DEF FreshBy
    <3> QED
      BY <3>1, <3>2 DEF CallInv
  <2>7. \A d \in AgCallers \ {c} : CallInv(d)'
    BY <1>0, <2>4, <2>5, CallStays
  <2> QED
    BY <2>4, <2>6, <2>7 DEF AgInv
<1>3. CASE agFile[e].kind = "agent"
  <2>0. PICK a : a = LoadAgentFile(e)
    OBVIOUS
  <2>a. e \in Entries
    BY <1>b, EntryNames
  <2>b. a \in LoadedAgents /\ a.id = IdOf(e) /\ a.v = agFile[e].v
    BY <1>0, <2>0, <2>a, NameFacts, EntryNames DEF LoadAgentFile, LoadedAgents, AgentFiles, IdOf
  <2>c. PICK loaded : loaded = Append(agCall[c].loaded, a)
    OBVIOUS
  <2>d. /\ loaded \in Seq(LoadedAgents)
        /\ \A j \in DOMAIN loaded :
             (j \in DOMAIN agCall[c].loaded /\ loaded[j] = agCall[c].loaded[j]) \/ loaded[j] = a
        /\ \A j \in DOMAIN agCall[c].loaded : j \in DOMAIN loaded /\ loaded[j] = agCall[c].loaded[j]
        /\ \E j \in DOMAIN loaded : loaded[j] = a
    <3>1. agCall[c].loaded \in Seq(LoadedAgents)
      BY <1>0 DEF AgentCalls
    <3> QED
      BY <2>b, <2>c, <3>1, AppendFacts
  <2>1. PICK k : k = [agCall[c] EXCEPT !.k = n, !.loaded = loaded]
    OBVIOUS
  <2>2. /\ k \in AgentCalls /\ k.at = "load" /\ k.v = agCall[c].v /\ k.k = n
        /\ k.loaded = loaded /\ k.entry = agCall[c].entry /\ k.met = agCall[c].met
    BY <1>0, <2>1, <2>d DEF AgentCalls
  <2>3. agCall' = [agCall EXCEPT ![c] = k]
    BY <1>3, <1>a, <2>0, <2>1, <2>c DEF LoadEntry, AgInv, AgTypes
  <2>4. /\ AgTypes' /\ Versions' /\ agCall'[c] = k
        /\ \A d \in AgCallers \ {c} : agCall'[d] = agCall[d]
        /\ \A d \in AgCallers : (Current(d)' <=> Current(d)) /\ (Alone(d)' <=> Alone(d))
    BY <1>0, <1>b, <2>2, <2>3, CallMoves
  <2>5. Current(c)' => KnownBy(c)'
    <3> SUFFICES ASSUME Current(c)' PROVE KnownBy(c)'
      OBVIOUS
    <3>1. Current(c) /\ KnownBy(c)
      BY <2>4 DEF AgInv, CallInv
    <3>2. /\ agFile[agCall[c].entry].id = agCall[c].entry
          /\ agCall[c].entry \in Entries /\ agCall[c].entry # ""
      BY <3>1, EntryNames DEF Current, AgInv, Versions
    <3>3. ASSUME NEW i \in DOMAIN AgEntries, i < n, AgEntries[i] = agCall[c].entry
          PROVE  Has(loaded, agCall[c].entry)
      <4>1. CASE i = agCall[c].k
        BY <2>b, <2>d, <3>2, <3>3, <4>1 DEF IdOf, Has
      <4>2. CASE i # agCall[c].k
        <5>1. i < agCall[c].k
          BY <1>b, <3>3, <4>2, EntryIndex
        <5>2. Has(agCall[c].loaded, agCall[c].entry)
          BY <1>0, <3>1, <3>3, <5>1 DEF KnownBy
        <5> QED
          BY <2>d, <5>2 DEF Has
      <4> QED
        BY <4>1, <4>2
    <3> QED
      BY <2>2, <2>4, <3>3 DEF KnownBy
  <2>6. ASSUME NEW d \in AgCallers, Alone(d)' PROVE FreshBy(d)'
    <3>1. Alone(d) /\ Current(d) /\ FreshBy(d)
      BY <2>4, <2>6 DEF AgInv, CallInv, Alone
    <3>2. a.id = agCall[d].entry => a.v = agCall[d].v
      BY <1>3, <2>a, <2>b, <3>1 DEF Alone, Current
    <3>3. ASSUME NEW x \in AgCallers, Reloading(x)', NEW j \in DOMAIN agCall'[x].loaded,
                 agCall'[x].loaded[j].id = agCall[d].entry
          PROVE  agCall'[x].loaded[j].v = agCall[d].v
      <4>1. CASE x = c
        BY <1>0, <2>2, <2>4, <2>d, <3>1, <3>2, <3>3, <4>1 DEF FreshBy, Reloading
      <4>2. CASE x # c
        BY <2>4, <3>1, <3>3, <4>2 DEF FreshBy, Reloading
      <4> QED
        BY <4>1, <4>2
    <3>4. /\ agCall'[d].entry = agCall[d].entry /\ agCall'[d].v = agCall[d].v
          /\ d = c => agCall'[d].at = "load"
          /\ d # c => agCall'[d] = agCall[d]
      BY <2>2, <2>4
    <3> QED
      BY <1>0, <3>1, <3>3, <3>4 DEF FreshBy, Served
  <2>7. ASSUME NEW d \in AgCallers \ {c}, Current(d)' PROVE KnownBy(d)'
    <3>1. KnownBy(d)
      BY <2>4, <2>7 DEF AgInv, CallInv
    <3> QED
      BY <1>0, <2>4, <3>1 DEF KnownBy
  <2> QED
    BY <2>4, <2>5, <2>6, <2>7 DEF AgInv, CallInv
<1>4. agFile[e].kind \in {"none", "broken", "agent"}
  <2>1. e \in Entries
    BY <1>b, EntryNames
  <2> QED
    BY <1>0, <2>1 DEF AgentFiles
<1> QED
  BY <1>1, <1>2, <1>3, <1>4

LEMMA LoadedKept ==
  ASSUME AgInv, NEW c \in AgCallers, Loaded(c)
  PROVE  AgInv'
<1>0. agCall[c] \in AgentCalls /\ agCall[c].at = "load" /\ agCall[c].k > Len(AgEntries)
      /\ UNCHANGED <<agFile, registry, agOps>>
  BY DEF Loaded, AgInv, AgTypes
<1>1. PICK k : k = [agCall[c] EXCEPT !.at = "upsert"]
  OBVIOUS
<1>2. /\ k \in AgentCalls /\ k.at = "upsert" /\ k.v = agCall[c].v
      /\ k.loaded = agCall[c].loaded /\ k.entry = agCall[c].entry /\ k.met = agCall[c].met
  BY <1>0, <1>1 DEF AgentCalls
<1>3. agCall' = [agCall EXCEPT ![c] = k]
  BY <1>1 DEF Loaded, AgInv, AgTypes
<1>4. /\ AgTypes' /\ Versions' /\ agCall'[c] = k
      /\ \A d \in AgCallers \ {c} : agCall'[d] = agCall[d]
      /\ \A d \in AgCallers : (Current(d)' <=> Current(d)) /\ (Alone(d)' <=> Alone(d))
  BY <1>0, <1>2, <1>3, CallMoves
<1>5. \A x \in AgCallers : Reloading(x)' => Reloading(x) /\ agCall'[x].loaded = agCall[x].loaded
  BY <1>0, <1>2, <1>4 DEF Reloading
<1>6. CallInv(c)'
  <2>1. Current(c) => Has(agCall[c].loaded, agCall[c].entry)
    <3> SUFFICES ASSUME Current(c) PROVE Has(agCall[c].loaded, agCall[c].entry)
      OBVIOUS
    <3>1. agCall[c].entry \in Entries
      BY DEF Current, AgInv, Versions
    <3>2. PICK i \in DOMAIN AgEntries : i \in 1 .. Len(AgEntries) /\ AgEntries[i] = agCall[c].entry
      BY <3>1, EntryNames
    <3>3. i < agCall[c].k
      <4>1. agCall[c].k \in Nat /\ Len(AgEntries) \in Nat
        BY <1>0, EntryNames DEF AgentCalls
      <4> QED
        BY <1>0, <3>2, <4>1
    <3> QED
      BY <1>0, <3>2, <3>3 DEF KnownBy, AgInv, CallInv
  <2>2. Current(c)' => KnownBy(c)'
    BY <1>2, <1>4, <2>1 DEF KnownBy
  <2>3. Alone(c)' => FreshBy(c)'
    <3> SUFFICES ASSUME Alone(c)' PROVE FreshBy(c)'
      OBVIOUS
    <3>1. FreshBy(c) /\ Current(c)
      BY <1>4 DEF AgInv, CallInv, Alone
    <3> QED
      BY <1>2, <1>4, <1>5, <2>1, <3>1 DEF FreshBy
  <2> QED
    BY <2>2, <2>3 DEF CallInv
<1>7. \A d \in AgCallers \ {c} : CallInv(d)'
  BY <1>0, <1>4, <1>5, CallStays
<1> QED
  BY <1>4, <1>6, <1>7 DEF AgInv

LEMMA UpsertKept ==
  ASSUME AgInv, NEW c \in AgCallers, UpsertOne(c)
  PROVE  AgInv'
<1>0. agCall[c] \in AgentCalls /\ agCall[c].at = "upsert" /\ UNCHANGED <<agFile, agOps>>
      /\ agCall[c].loaded \in Seq(LoadedAgents)
  BY DEF UpsertOne, AgInv, AgTypes, AgentCalls
<1>1. CASE agCall[c].loaded = <<>>
  <2>1. PICK k : k = [agCall[c] EXCEPT !.at = "done"]
    OBVIOUS
  <2>2. /\ k \in AgentCalls /\ k.at = "done" /\ k.v = agCall[c].v
        /\ k.entry = agCall[c].entry /\ k.met = agCall[c].met
    BY <1>0, <2>1 DEF AgentCalls
  <2>3. agCall' = [agCall EXCEPT ![c] = k] /\ UNCHANGED registry
    BY <1>1, <2>1 DEF UpsertOne, AgInv, AgTypes
  <2>4. /\ AgTypes' /\ Versions' /\ agCall'[c] = k
        /\ \A d \in AgCallers \ {c} : agCall'[d] = agCall[d]
        /\ \A d \in AgCallers : (Current(d)' <=> Current(d)) /\ (Alone(d)' <=> Alone(d))
    BY <1>0, <2>2, <2>3, CallMoves
  <2>5. \A x \in AgCallers : Reloading(x)' => Reloading(x) /\ agCall'[x].loaded = agCall[x].loaded
    BY <2>2, <2>4 DEF Reloading
  <2>6. ~Has(agCall[c].loaded, agCall[c].entry)
    BY <1>1 DEF Has
  <2>7. CallInv(c)'
    <3>1. Current(c)' => KnownBy(c)'
      BY <1>0, <2>2, <2>3, <2>4, <2>6 DEF KnownBy, AgInv, CallInv
    <3>2. Alone(c)' => FreshBy(c)'
      <4> SUFFICES ASSUME Alone(c)' PROVE FreshBy(c)'
        OBVIOUS
      <4>1. FreshBy(c)
        BY <2>4 DEF AgInv, CallInv
      <4>2. Served(c)'
        BY <1>0, <2>2, <2>3, <2>4, <2>6, <4>1 DEF FreshBy, Served
      <4> QED
        BY <2>2, <2>4, <2>5, <4>1, <4>2 DEF FreshBy
    <3> QED
      BY <3>1, <3>2 DEF CallInv
  <2>8. \A d \in AgCallers \ {c} : CallInv(d)'
    BY <2>3, <2>4, <2>5, CallStays
  <2> QED
    BY <2>4, <2>7, <2>8 DEF AgInv
<1>2. CASE agCall[c].loaded # <<>>
  <2>a. PICK a \in LoadedAgents : a = Head(agCall[c].loaded)
    BY <1>0, <1>2, TailFacts
  <2>b. PICK rest \in Seq(LoadedAgents) : rest = Tail(agCall[c].loaded)
    BY <1>0, <1>2, TailFacts
  <2>c. /\ \A j \in DOMAIN rest : \E i \in DOMAIN agCall[c].loaded : rest[j] = agCall[c].loaded[i]
        /\ \A i \in DOMAIN agCall[c].loaded :
             agCall[c].loaded[i] = a \/ \E j \in DOMAIN rest : rest[j] = agCall[c].loaded[i]
        /\ \E i \in DOMAIN agCall[c].loaded : agCall[c].loaded[i] = a
    BY <1>0, <1>2, <2>a, <2>b, TailFacts
  <2>1. PICK k : k = [agCall[c] EXCEPT !.loaded = rest]
    OBVIOUS
  <2>2. /\ k \in AgentCalls /\ k.at = "upsert" /\ k.v = agCall[c].v /\ k.loaded = rest
        /\ k.entry = agCall[c].entry /\ k.met = agCall[c].met
    BY <1>0, <2>1 DEF AgentCalls
  <2>3. agCall' = [agCall EXCEPT ![c] = k] /\ registry' = Put(registry, a)
    BY <1>2, <2>a, <2>b, <2>1 DEF UpsertOne, Upsert, AgInv, AgTypes
  <2>4. /\ AgTypes' /\ Versions' /\ agCall'[c] = k
        /\ \A d \in AgCallers \ {c} : agCall'[d] = agCall[d]
        /\ \A d \in AgCallers : (Current(d)' <=> Current(d)) /\ (Alone(d)' <=> Alone(d))
    BY <1>0, <2>2, <2>3, CallMoves
  <2>5. /\ DOMAIN registry' = DOMAIN registry \cup {a.id} /\ registry'[a.id].v = a.v
        /\ \A id \in DOMAIN registry : id # a.id => registry'[id] = registry[id]
    BY <2>3 DEF Put
  <2>6. \A id : Has(agCall[c].loaded, id) => id = a.id \/ Has(rest, id)
    BY <2>c DEF Has
  <2>7. ASSUME NEW d \in AgCallers, Current(d)' PROVE KnownBy(d)'
    <3>1. KnownBy(d)
      BY <2>4, <2>7 DEF AgInv, CallInv
    <3>2. CASE d = c
      BY <1>0, <2>2, <2>4, <2>5, <2>6, <3>1, <3>2 DEF KnownBy
    <3>3. CASE d # c
      BY <2>4, <2>5, <3>1, <3>3 DEF KnownBy
    <3> QED
      BY <3>2, <3>3
  <2>8. ASSUME NEW d \in AgCallers, Alone(d)' PROVE FreshBy(d)'
    <3>1. FreshBy(d)
      BY <2>4, <2>8 DEF AgInv, CallInv
    <3>2. a.id = agCall[d].entry => a.v = agCall[d].v
      BY <1>0, <2>c, <3>1 DEF FreshBy, Reloading
    <3>3. agCall'[d].entry = agCall[d].entry /\ agCall'[d].v = agCall[d].v
          /\ agCall'[d].at = agCall[d].at /\ (d # c => agCall'[d] = agCall[d])
      BY <1>0, <2>2, <2>4
    <3>4. Served(d) => Served(d)'
      BY <2>5, <3>2, <3>3 DEF Served
    <3>5. a.id = agCall[d].entry => Served(d)'
      BY <2>5, <3>2, <3>3 DEF Served
    <3>6. ASSUME NEW x \in AgCallers, Reloading(x)', NEW j \in DOMAIN agCall'[x].loaded,
                 agCall'[x].loaded[j].id = agCall[d].entry
          PROVE  agCall'[x].loaded[j].v = agCall[d].v
      <4>1. CASE x = c
        <5>1. j \in DOMAIN rest /\ agCall'[x].loaded[j] = rest[j]
          BY <2>2, <2>4, <3>6, <4>1
        <5>2. PICK i \in DOMAIN agCall[c].loaded : rest[j] = agCall[c].loaded[i]
          BY <2>c, <5>1
        <5>3. Reloading(c) /\ agCall[c].loaded[i].id = agCall[d].entry
          BY <1>0, <3>6, <5>1, <5>2 DEF Reloading
        <5>4. agCall[c].loaded[i].v = agCall[d].v
          BY <3>1, <5>3 DEF FreshBy
        <5> QED
          BY <5>1, <5>2, <5>4
      <4>2. CASE x # c
        BY <2>4, <3>1, <3>6, <4>2 DEF FreshBy, Reloading
      <4> QED
        BY <4>1, <4>2
    <3>7. (agCall[d].at = "upsert" => Has(agCall[d].loaded, agCall[d].entry) \/ Served(d))'
      <4>1. CASE d = c
        BY <1>0, <2>2, <2>4, <2>6, <3>1, <3>3, <3>4, <3>5, <4>1 DEF FreshBy
      <4>2. CASE d # c
        BY <3>1, <3>3, <3>4, <4>2 DEF FreshBy
      <4> QED
        BY <4>1, <4>2
    <3>8. (agCall[d].at = "done" /\ agCall[d].ok => Served(d))'
      BY <1>0, <3>1, <3>3, <3>4 DEF FreshBy
    <3> QED
      BY <3>3, <3>6, <3>7, <3>8 DEF FreshBy
  <2> QED
    BY <2>4, <2>7, <2>8 DEF AgInv, CallInv
<1> QED
  BY <1>1, <1>2

LEMMA AgInvNext == AgInv /\ [AgNext]_agVars => AgInv'
<1> SUFFICES ASSUME AgInv, [AgNext]_agVars PROVE AgInv'
  OBVIOUS
<1>1. ASSUME UNCHANGED <<agFile, registry, agCall>>, agOps' \in {agOps, agOps + 1}
      PROVE  AgInv'
  <2>0. agOps \in Nat /\ agOps' \in Nat /\ agOps <= agOps'
    BY <1>1 DEF AgInv, AgTypes
  <2>1. AgTypes'
    BY <1>1, <2>0 DEF AgInv, AgTypes
  <2>2. Versions'
    <3>1. /\ \A e \in Entries : agFile[e].v \in Nat
          /\ \A c \in AgCallers : agCall[c].v \in Nat
      BY DEF AgInv, AgTypes, AgentFiles, AgentCalls
    <3> QED
      BY <1>1, <2>0, <3>1 DEF AgInv, Versions
  <2>3. ASSUME NEW c \in AgCallers PROVE CallInv(c)'
    <3>1. (Current(c)' => Current(c)) /\ (Alone(c)' => Alone(c))
      BY <1>1 DEF Current, Alone, IdOf
    <3>2. \A d \in AgCallers : Reloading(d)' => Reloading(d) /\ agCall'[d].loaded = agCall[d].loaded
      BY <1>1 DEF Reloading
    <3> QED
      BY <1>1, <3>1, <3>2, CallStays
  <2> QED
    BY <2>1, <2>2, <2>3 DEF AgInv
<1>2. ASSUME NEW id \in AgDirs \cup AgBuiltins, HandleAgentRun(id) PROVE AgInv'
  BY <1>1, <1>2 DEF HandleAgentRun, AgOp
<1>3. CASE AgRestart
  <2>1. /\ agCall' = [c \in AgCallers |-> NoCall] /\ UNCHANGED agFile
        /\ agOps \in Nat /\ agOps' = agOps + 1
    BY <1>3 DEF AgRestart, AgOp, AgInv, AgTypes
  <2>2. \A c \in AgCallers : agCall'[c].v = 0 /\ agCall'[c].at = "idle"
    BY <2>1, NewCallType
  <2>3. AgTypes'
    <3>1. NoCall \in AgentCalls
      BY NewCallType
    <3>2. agCall' \in [AgCallers -> AgentCalls]
      BY <2>1, <3>1
    <3> QED
      BY <2>1, <3>2 DEF AgInv, AgTypes
  <2>4. Versions'
    <3>1. \A e \in Entries : agFile[e].v \in Nat /\ agFile[e].v <= agOps
      BY DEF AgInv, AgTypes, AgentFiles, Versions
    <3> QED
      BY <2>1, <2>2, <3>1 DEF Versions
  <2> QED
    BY <2>2, <2>3, <2>4 DEF AgInv, CallInv, Current, Alone
<1>4. CASE UNCHANGED agVars
  BY <1>1, <1>4 DEF agVars
<1> QED
  BY <1>2, <1>3, <1>4, ReloadKept, CreateKept, WrittenKept, LoadKept, LoadedKept,
     UpsertKept, EditKept DEF AgNext

LEMMA AgInvInit == AgInit => AgInv
<1> SUFFICES ASSUME AgInit PROVE AgInv
  OBVIOUS
<1>1. agCall = [c \in AgCallers |-> NoCall] /\ agFile = [e \in Entries |-> NoFile] /\ agOps = 0
  BY DEF AgInit
<1>2. \A c \in AgCallers : agCall[c].v = 0 /\ agCall[c].at = "idle"
  BY <1>1, NewCallType
<1>3. AgTypes
  BY <1>1, NewCallType, EmptyFileType DEF AgTypes
<1>4. Versions
  <2>1. PICK f : f = NoFile /\ f.v = 0
    BY EmptyFileType
  <2>2. \A e \in Entries : agFile[e].v = 0
    BY <1>1, <2>1
  <2> QED
    BY <1>1, <1>2, <2>2 DEF Versions
<1> QED
  BY <1>2, <1>3, <1>4 DEF AgInv, CallInv, Current, Alone

(* An agent that agent_create has made is registered, as what its file     *)
(* says, for any directory, callers, edits and reloads: nobody puts an     *)
(* older one back but a reload that was going on when the file was written *)
(* or after another file has had the id (manage.go:340, gateway.go:527).   *)
THEOREM CreatedAreServed == AgSpec => []CreatedIsServed
<1>1. AgInv => CreatedIsServed
  <2> SUFFICES ASSUME AgInv, NEW c \in AgCallers,
                      agCall[c].at = "done", agCall[c].ok, agCall[c].v > 0,
                      agFile[agCall[c].entry].v = agCall[c].v,
                      NEW same, same = {e \in Entries : agFile[e].kind = "agent"
                                                        /\ IdOf(e) = agCall[c].entry}
               PROVE  /\ agCall[c].entry \in DOMAIN registry
                      /\ \/ agCall[c].met \/ same # {agCall[c].entry}
                         \/ registry[agCall[c].entry].v = agCall[c].v
    BY DEF CreatedIsServed
  <2>1. Current(c) /\ CallInv(c)
    BY DEF Current, AgInv
  <2>2. agCall[c].entry \in DOMAIN registry
    BY <2>1 DEF CallInv, KnownBy
  <2>3. ~agCall[c].met /\ same = {agCall[c].entry} => Alone(c)
    BY <2>1 DEF Alone
  <2> QED
    BY <2>1, <2>2, <2>3 DEF CallInv, FreshBy, Served
<1> QED
  BY <1>1, AgInvInit, AgInvNext, PTL DEF AgSpec

-----------------------------------------------------------------------------
(* Shell.                                                                  *)

Commands == [pc : {"idle", "made", "running", "done"}, ran : BOOLEAN, alive : BOOLEAN,
             child : BOOLEAN, started : BOOLEAN, wrote : Nat, copied : Nat, kept : Nat,
             cut : BOOLEAN, left : Int]

(* What is kept of a command's output is what fits of what was copied, of  *)
(* a job all of it; a command that has ended has nobody that writes, and   *)
(* all it wrote is copied.                                                 *)
WholeSoFar(s, k) ==
  /\ k.copied <= k.wrote
  /\ s \in ShCalls => k.kept = Least(k.copied, ShMaxOut) /\ (k.cut <=> k.copied > ShMaxOut)
  /\ s \notin ShCalls => k.kept = k.copied
  /\ k.pc # "running" => ~k.alive /\ ~k.child /\ k.copied = k.wrote

ReaderInv ==
  /\ reader \in [step : 0 .. 3, job : ShJobs \cup {NoJob}, done : BOOLEAN, seen : Nat]
  /\ reader.step > 0 => reader.job \in ShJobs
  /\ reader.done => reader.step > 1 /\ cmd[reader.job].pc = "done"
  /\ reader.done /\ reader.step > 2 => reader.seen = cmd[reader.job].kept

Slots == ShCalls \cup ShJobs

OutInv ==
  /\ cmd \in [Slots -> Commands]
  /\ \A s \in Slots : WholeSoFar(s, cmd[s])
  /\ ReaderInv

LEMMA ShellTypes ==
  /\ ShLimit \in Nat /\ ShMaxOut \in Nat /\ ShMaxTimeout \in Nat /\ ShDefault \in Nat
  /\ ShMaxWrite \in Nat /\ ShMaxIdle \in Nat /\ ShWindow \in Nat /\ ShWindow > 0
  /\ \A t \in ShTimeouts : t \in Nat
  /\ \A j \in ShJobs : j \notin ShCalls /\ j # NoJob
BY ShellAssumption

LEMMA FreshType == 
  ASSUME NEW f, f = Fresh
  PROVE  /\ f \in Commands /\ f.pc = "idle" /\ ~f.alive /\ ~f.child /\ ~f.cut
         /\ f.wrote = 0 /\ f.copied = 0 /\ f.kept = 0
         /\ \A s : WholeSoFar(s, f)
BY ShellTypes DEF Fresh, Commands, WholeSoFar, Least

(* One command moves; one whose end was read stays as it was read. *)
LEMMA OneMoves ==
  ASSUME OutInv, NEW s \in Slots, NEW k \in Commands, cmd' = [cmd EXCEPT ![s] = k],
         WholeSoFar(s, k), UNCHANGED reader,
         reader.done /\ reader.job = s => k.pc = cmd[s].pc /\ k.kept = cmd[s].kept
  PROVE  OutInv'
<1>1. cmd' \in [Slots -> Commands] /\ cmd'[s] = k /\ \A x \in Slots \ {s} : cmd'[x] = cmd[x]
  BY DEF OutInv
<1>2. \A x \in Slots : WholeSoFar(x, cmd'[x])
  BY <1>1 DEF OutInv
<1>3. ReaderInv'
  <2>1. reader.done => reader.job \in Slots
    BY DEF OutInv, ReaderInv, Slots
  <2>2. reader.done => cmd'[reader.job].pc = cmd[reader.job].pc
                       /\ cmd'[reader.job].kept = cmd[reader.job].kept
    BY <1>1, <2>1
  <2> QED
    BY <2>2 DEF OutInv, ReaderInv
<1> QED
  BY <1>1, <1>2, <1>3 DEF OutInv

(* The reader reads no call of the shell tool. *)
LEMMA CallsAreNotRead ==
  ASSUME OutInv, NEW c \in ShCalls
  PROVE  ~(reader.done /\ reader.job = c)
BY ShellTypes DEF OutInv, ReaderInv

LEMMA CallKept ==
  ASSUME OutInv, NEW c \in ShCalls,
         RunIsRefused(c) \/ RunFails(c) \/ (\E t \in ShTimeouts : RunStarts(c, t))
  PROVE  OutInv'
<1>0. c \in Slots
  BY DEF Slots
<1>f. PICK f : f = Fresh
  OBVIOUS
<1>g. f \in Commands /\ WholeSoFar(c, f) /\ ~f.alive /\ ~f.child /\ f.copied = f.wrote
  BY <1>f, FreshType
<1>1. CASE RunIsRefused(c) \/ RunFails(c)
  <2>1. PICK k : k = [f EXCEPT !.pc = "done"]
    OBVIOUS
  <2>2. k \in Commands /\ WholeSoFar(c, k)
    BY <1>g, <2>1 DEF Commands, WholeSoFar
  <2>3. cmd' = [cmd EXCEPT ![c] = k] /\ UNCHANGED reader
    BY <1>1, <1>f, <2>1 DEF RunIsRefused, RunFails, Sets
  <2> QED
    BY <1>0, <2>2, <2>3, CallsAreNotRead, OneMoves
<1>2. ASSUME NEW t \in ShTimeouts, RunStarts(c, t) PROVE OutInv'
  <2>1. PICK left \in Int : left = Timeout(t)
    BY ShellTypes DEF Timeout, ClampTimeout, Least
  <2>2. PICK k : k = [f EXCEPT !.pc = "running", !.ran = TRUE, !.alive = TRUE, !.left = left]
    OBVIOUS
  <2>3. k \in Commands /\ WholeSoFar(c, k)
    BY <1>g, <2>2 DEF Commands, WholeSoFar
  <2>4. cmd' = [cmd EXCEPT ![c] = k] /\ UNCHANGED reader
    BY <1>2, <1>f, <2>1, <2>2 DEF RunStarts, Sets
  <2> QED
    BY <1>0, <2>3, <2>4, CallsAreNotRead, OneMoves
<1> QED
  BY <1>1, <1>2

LEMMA JobKept ==
  ASSUME OutInv, NEW j \in ShJobs, JobIsMade(j) \/ JobStarts(j) \/ JobFails(j)
  PROVE  OutInv'
<1>0. j \in Slots /\ j \notin ShCalls /\ cmd[j] \in Commands /\ WholeSoFar(j, cmd[j])
  BY ShellTypes DEF Slots, OutInv
<1>1. CASE JobIsMade(j)
  <2>1. PICK f : f = Fresh
    OBVIOUS
  <2>f. f \in Commands /\ WholeSoFar(j, f) /\ ~f.alive /\ ~f.child /\ f.copied = f.wrote
    BY <2>1, FreshType
  <2>2. UNCHANGED reader /\ reader.job # j
    BY <1>1 DEF JobIsMade
  <2>3. CASE Sets(j, [Fresh EXCEPT !.pc = "made"])
    <3>1. PICK k : k = [f EXCEPT !.pc = "made"]
      OBVIOUS
    <3>2. k \in Commands /\ WholeSoFar(j, k)
      BY <2>f, <3>1 DEF Commands, WholeSoFar
    <3>3. cmd' = [cmd EXCEPT ![j] = k]
      BY <2>1, <2>3, <3>1 DEF Sets
    <3> QED
      BY <1>0, <2>2, <3>2, <3>3, OneMoves
  <2>4. CASE Sets(j, [Fresh EXCEPT !.pc = "made", !.ran = TRUE])
    <3>1. PICK k : k = [f EXCEPT !.pc = "made", !.ran = TRUE]
      OBVIOUS
    <3>2. k \in Commands /\ WholeSoFar(j, k)
      BY <2>f, <3>1 DEF Commands, WholeSoFar
    <3>3. cmd' = [cmd EXCEPT ![j] = k]
      BY <2>1, <2>4, <3>1 DEF Sets
    <3> QED
      BY <1>0, <2>2, <3>2, <3>3, OneMoves
  <2> QED
    BY <1>1, <2>3, <2>4 DEF JobIsMade
<1>2. CASE JobStarts(j)
  <2>1. PICK k : k = [cmd[j] EXCEPT !.pc = "running", !.started = TRUE, !.alive = TRUE]
    OBVIOUS
  <2>2. k \in Commands /\ WholeSoFar(j, k)
    BY <1>0, <2>1 DEF Commands, WholeSoFar
  <2>3. cmd' = [cmd EXCEPT ![j] = k] /\ UNCHANGED reader /\ cmd[j].pc = "made"
    BY <1>2, <2>1 DEF JobStarts, Sets
  <2>4. ~(reader.done /\ reader.job = j)
    BY <2>3 DEF OutInv, ReaderInv
  <2> QED
    BY <1>0, <2>2, <2>3, <2>4, OneMoves
<1>3. CASE JobFails(j)
  <2>1. PICK k : k = [cmd[j] EXCEPT !.pc = "done", !.started = TRUE]
    OBVIOUS
  <2>2. cmd' = [cmd EXCEPT ![j] = k] /\ UNCHANGED reader /\ cmd[j].pc = "made"
    BY <1>3, <2>1 DEF JobFails, Sets
  <2>3. k \in Commands /\ WholeSoFar(j, k)
    BY <1>0, <2>1, <2>2 DEF Commands, WholeSoFar
  <2>4. ~(reader.done /\ reader.job = j)
    BY <2>2 DEF OutInv, ReaderInv
  <2> QED
    BY <1>0, <2>2, <2>3, <2>4, OneMoves
<1> QED
  BY <1>1, <1>2, <1>3

(* The processes, and what ends them. *)
LEMMA ProcessKept ==
  ASSUME OutInv, NEW s \in Slots,
         \/ Writes(s) \/ LeavesChild(s) \/ Exits(s) \/ ChildEnds(s) \/ WaitReturns(s)
         \/ ContextEnds(s) \/ KillReturns(s)
  PROVE  OutInv'
<1>0. cmd[s] \in Commands /\ WholeSoFar(s, cmd[s])
  BY DEF OutInv
<1>a. PICK n \in Nat : n = cmd[s].wrote + 1
  BY <1>0 DEF Commands
<1>1. CASE Writes(s)
  <2>1. PICK k : k = [cmd[s] EXCEPT !.wrote = n]
    OBVIOUS
  <2>2. cmd' = [cmd EXCEPT ![s] = k] /\ UNCHANGED reader /\ cmd[s].pc = "running"
    BY <1>0, <1>1, <1>a, <2>1 DEF Writes, Sets, WholeSoFar
  <2>3. /\ k \in Commands /\ k.pc = cmd[s].pc /\ k.kept = cmd[s].kept /\ k.wrote = n
        /\ k.copied = cmd[s].copied /\ k.cut = cmd[s].cut
    BY <1>0, <2>1 DEF Commands
  <2>4. WholeSoFar(s, k)
    BY <1>0, <1>a, <2>2, <2>3 DEF WholeSoFar, Commands
  <2> QED
    BY <2>2, <2>3, <2>4, OneMoves
<1>2. CASE LeavesChild(s)
  <2>1. PICK k : k = [cmd[s] EXCEPT !.child = TRUE]
    OBVIOUS
  <2>2. cmd' = [cmd EXCEPT ![s] = k] /\ UNCHANGED reader /\ cmd[s].pc = "running"
    BY <1>0, <1>2, <2>1 DEF LeavesChild, Sets, WholeSoFar
  <2>3. /\ k \in Commands /\ k.pc = cmd[s].pc /\ k.kept = cmd[s].kept
        /\ WholeSoFar(s, k)
    BY <1>0, <2>1, <2>2 DEF Commands, WholeSoFar
  <2> QED
    BY <2>2, <2>3, OneMoves
<1>3. CASE Exits(s) \/ ContextEnds(s) \/ KillReturns(s)
  <2>1. PICK k : k = [cmd[s] EXCEPT !.alive = FALSE]
    OBVIOUS
  <2>2. cmd' = [cmd EXCEPT ![s] = k] /\ UNCHANGED reader
    BY <1>3, <2>1 DEF Exits, ContextEnds, KillReturns, Sets
  <2>3. /\ k \in Commands /\ k.pc = cmd[s].pc /\ k.kept = cmd[s].kept
        /\ WholeSoFar(s, k)
    BY <1>0, <2>1 DEF Commands, WholeSoFar
  <2> QED
    BY <2>2, <2>3, OneMoves
<1>4. CASE ChildEnds(s)
  <2>1. PICK k : k = [cmd[s] EXCEPT !.child = FALSE]
    OBVIOUS
  <2>2. cmd' = [cmd EXCEPT ![s] = k] /\ UNCHANGED reader
    BY <1>4, <2>1 DEF ChildEnds, Sets
  <2>3. /\ k \in Commands /\ k.pc = cmd[s].pc /\ k.kept = cmd[s].kept
        /\ WholeSoFar(s, k)
    BY <1>0, <2>1 DEF Commands, WholeSoFar
  <2> QED
    BY <2>2, <2>3, OneMoves
<1>5. CASE WaitReturns(s)
  <2>0. PICK zero \in Int : zero = 0
    OBVIOUS
  <2>1. PICK k : k = [cmd[s] EXCEPT !.pc = "done", !.left = zero]
    OBVIOUS
  <2>2. /\ cmd' = [cmd EXCEPT ![s] = k] /\ UNCHANGED reader /\ cmd[s].pc = "running"
        /\ ~cmd[s].alive /\ ~cmd[s].child /\ cmd[s].copied = cmd[s].wrote
    BY <1>5, <2>0, <2>1 DEF WaitReturns, Sets
  <2>3. k \in Commands /\ WholeSoFar(s, k)
    BY <1>0, <2>1, <2>2 DEF Commands, WholeSoFar
  <2>4. ~(reader.done /\ reader.job = s)
    BY <2>2 DEF OutInv, ReaderInv
  <2> QED
    BY <2>2, <2>3, <2>4, OneMoves
<1> QED
  BY <1>1, <1>2, <1>3, <1>4, <1>5

(* What limitedBuffer keeps is all that fits. *)
LEMMA CopyKept ==
  ASSUME OutInv, NEW s \in Slots, Copies(s)
  PROVE  OutInv'
<1>0. cmd[s] \in Commands /\ WholeSoFar(s, cmd[s])
  BY DEF OutInv
<1>1. PICK n \in 1 .. (cmd[s].wrote - cmd[s].copied) :
        cmd' = [cmd EXCEPT ![s] =
                  IF s \in ShCalls THEN LimitedWrite([cmd[s] EXCEPT !.copied = cmd[s].copied + n], n)
                  ELSE [[cmd[s] EXCEPT !.copied = cmd[s].copied + n]
                          EXCEPT !.kept = [cmd[s] EXCEPT !.copied = cmd[s].copied + n].kept + n]]
  BY DEF Copies, Sets
<1>2. PICK m \in Nat : m = cmd[s].copied + n
  BY <1>0 DEF Commands
<1>3. PICK c : c = [cmd[s] EXCEPT !.copied = m]
  OBVIOUS
<1>4. /\ c \in Commands /\ c.copied = m /\ c.kept = cmd[s].kept /\ c.cut = cmd[s].cut
      /\ c.pc = cmd[s].pc /\ c.wrote = cmd[s].wrote
      /\ c.alive = cmd[s].alive /\ c.child = cmd[s].child
  BY <1>0, <1>3 DEF Commands
<1>5. cmd[s].pc = "running" /\ m <= cmd[s].wrote /\ n \in Nat /\ n > 0
      /\ ~(reader.done /\ reader.job = s) /\ UNCHANGED reader
  <2>1. cmd[s].copied # cmd[s].wrote /\ m <= cmd[s].wrote /\ n \in Nat /\ n > 0
    BY <1>0, <1>1, <1>2 DEF Commands
  <2>2. cmd[s].pc = "running"
    BY <1>0, <2>1 DEF WholeSoFar
  <2> QED
    BY <2>1, <2>2 DEF OutInv, ReaderInv, Copies
<1>6. CASE s \in ShCalls
  <2>1. PICK k : k = LimitedWrite(c, n)
    OBVIOUS
  <2>2. cmd' = [cmd EXCEPT ![s] = k]
    BY <1>1, <1>2, <1>3, <1>6, <2>1
  <2>3. k \in Commands /\ WholeSoFar(s, k)
    <3>0. /\ cmd[s].kept = Least(cmd[s].copied, ShMaxOut) /\ cmd[s].kept \in Nat
          /\ (cmd[s].cut <=> cmd[s].copied > ShMaxOut) /\ cmd[s].copied \in Nat
          /\ cmd[s].wrote \in Nat
      BY <1>0, <1>6 DEF WholeSoFar, Commands
    <3>1. CASE c.cut
      <4>1. k = c
        BY <2>1, <3>1 DEF LimitedWrite
      <4>2. m > ShMaxOut /\ c.kept = ShMaxOut
        BY <1>2, <1>4, <1>5, <3>0, <3>1, ShellTypes DEF Least
      <4>3. k.kept = Least(k.copied, ShMaxOut) /\ (k.cut <=> k.copied > ShMaxOut)
        BY <1>2, <1>4, <3>1, <4>1, <4>2, ShellTypes DEF Least
      <4> QED
        BY <1>4, <1>5, <1>6, <4>1, <4>3 DEF WholeSoFar
    <3>2. CASE ~c.cut /\ n > ShMaxOut - c.kept
      <4>1. k = [c EXCEPT !.kept = ShMaxOut, !.cut = TRUE]
        BY <2>1, <3>2 DEF LimitedWrite
      <4>2. /\ k \in Commands /\ k.copied = m /\ k.kept = ShMaxOut /\ k.cut
            /\ k.pc = c.pc /\ k.wrote = c.wrote
        BY <1>4, <4>1, ShellTypes DEF Commands
      <4>3. m > ShMaxOut
        BY <1>2, <1>4, <1>5, <3>0, <3>2, ShellTypes DEF Least
      <4>4. k.kept = Least(k.copied, ShMaxOut) /\ (k.cut <=> k.copied > ShMaxOut)
        BY <1>2, <4>2, <4>3, ShellTypes DEF Least
      <4> QED
        BY <1>4, <1>5, <1>6, <4>2, <4>4 DEF WholeSoFar
    <3>3. CASE ~c.cut /\ ~(n > ShMaxOut - c.kept)
      <4>0. PICK kept \in Nat : kept = c.kept + n
        BY <1>4, <1>5, <3>0
      <4>1. k = [c EXCEPT !.kept = kept]
        BY <2>1, <3>3, <4>0 DEF LimitedWrite
      <4>2. /\ k \in Commands /\ k.copied = m /\ k.kept = kept /\ k.cut = c.cut
            /\ k.pc = c.pc /\ k.wrote = c.wrote
        BY <1>4, <4>1 DEF Commands
      <4>3. kept = m /\ m <= ShMaxOut
        BY <1>2, <1>4, <1>5, <3>0, <3>3, <4>0, ShellTypes DEF Least
      <4>4. k.kept = Least(k.copied, ShMaxOut) /\ (k.cut <=> k.copied > ShMaxOut)
        BY <1>2, <3>3, <4>2, <4>3, ShellTypes DEF Least
      <4> QED
        BY <1>4, <1>5, <1>6, <4>2, <4>4 DEF WholeSoFar
    <3> QED
      BY <3>1, <3>2, <3>3
  <2> QED
    BY <1>5, <1>6, <2>2, <2>3, OneMoves
<1>7. CASE s \notin ShCalls
  <2>0. PICK kept \in Nat : kept = c.kept + n
    BY <1>0, <1>4, <1>5 DEF Commands
  <2>1. PICK k : k = [c EXCEPT !.kept = kept]
    OBVIOUS
  <2>2. cmd' = [cmd EXCEPT ![s] = k]
    BY <1>1, <1>2, <1>3, <1>7, <2>0, <2>1
  <2>3. /\ k \in Commands /\ k.copied = m /\ k.kept = kept /\ k.pc = c.pc /\ k.wrote = c.wrote
    BY <1>4, <2>1 DEF Commands
  <2>4. kept = m
    BY <1>0, <1>2, <1>4, <1>7, <2>0 DEF WholeSoFar
  <2>5. WholeSoFar(s, k)
    BY <1>4, <1>5, <1>7, <2>3, <2>4 DEF WholeSoFar
  <2> QED
    BY <1>5, <1>7, <2>2, <2>3, <2>5, OneMoves
<1> QED
  BY <1>6, <1>7

LEMMA ReaderKept ==
  ASSUME OutInv, (\E j \in ShJobs : JobOutput(j)) \/ Reads \/ AnswerIsGiven
  PROVE  OutInv'
<1>0. /\ UNCHANGED cmd /\ cmd \in [Slots -> Commands]
      /\ reader \in [step : 0 .. 3, job : ShJobs \cup {NoJob}, done : BOOLEAN, seen : Nat]
  BY DEF JobOutput, Reads, AnswerIsGiven, OutInv, ReaderInv
<1>1. SUFFICES ReaderInv'
  BY <1>0 DEF OutInv
<1>r. Len(ReadOrder) = 2 /\ DOMAIN ReadOrder = {1, 2}
      /\ ReadOrder[1] = "done" /\ ReadOrder[2] = "output"
  BY DEF ReadOrder
<1>2. ASSUME NEW j \in ShJobs, JobOutput(j) PROVE ReaderInv'
  <2>1. reader' = [step |-> 1, job |-> j, done |-> FALSE, seen |-> 0]
    BY <1>2 DEF JobOutput, NoReader
  <2> QED
    BY <2>1 DEF ReaderInv
<1>3. CASE AnswerIsGiven
  <2>1. reader' = [step |-> 0, job |-> NoJob, done |-> FALSE, seen |-> 0]
    BY <1>3 DEF AnswerIsGiven, NoReader
  <2> QED
    BY <2>1 DEF ReaderInv
<1>4. CASE Reads /\ reader.step = 1
  <2>1. PICK done \in BOOLEAN : done = (cmd[reader.job].pc = "done")
    OBVIOUS
  <2>2. PICK two \in 0 .. 3 : two = reader.step + 1 /\ two = 2
    BY <1>4
  <2>3. reader' = [reader EXCEPT !.step = two, !.done = done]
    BY <1>4, <1>r, <2>1, <2>2 DEF Reads
  <2>4. /\ reader' \in [step : 0 .. 3, job : ShJobs \cup {NoJob}, done : BOOLEAN, seen : Nat]
        /\ reader'.step = two /\ reader'.job = reader.job /\ reader'.done = done
    BY <1>0, <2>3
  <2> QED
    BY <1>0, <1>4, <2>1, <2>2, <2>4 DEF OutInv, ReaderInv
<1>5. CASE Reads /\ reader.step = 2
  <2>0. reader.job \in Slots
    BY <1>5 DEF OutInv, ReaderInv, Slots
  <2>1. PICK seen \in Nat : seen = cmd[reader.job].kept
    BY <1>0, <2>0 DEF Commands
  <2>2. PICK three \in 0 .. 3 : three = reader.step + 1 /\ three = 3
    BY <1>5
  <2>3. reader' = [reader EXCEPT !.step = three, !.seen = seen]
    BY <1>5, <1>r, <2>1, <2>2 DEF Reads
  <2>4. /\ reader' \in [step : 0 .. 3, job : ShJobs \cup {NoJob}, done : BOOLEAN, seen : Nat]
        /\ reader'.step = three /\ reader'.job = reader.job /\ reader'.done = reader.done
        /\ reader'.seen = seen
    BY <1>0, <2>3
  <2> QED
    BY <1>0, <1>5, <2>1, <2>2, <2>4 DEF OutInv, ReaderInv
<1> QED
  BY <1>0, <1>1, <1>2, <1>3, <1>4, <1>5, <1>r DEF Reads

LEMMA OutInvNext == OutInv /\ [ShNext]_shVars => OutInv'
<1> SUFFICES ASSUME OutInv, [ShNext]_shVars PROVE OutInv'
  OBVIOUS
<1>1. CASE Tick
  <2> DEFINE k(s) == [cmd[s] EXCEPT !.left = IF cmd[s].left > 0 THEN cmd[s].left - 1 ELSE 0]
  <2>1. cmd' = [s \in Slots |-> k(s)] /\ UNCHANGED reader
    BY <1>1 DEF Tick, OutInv
  <2>2. ASSUME NEW s \in Slots
        PROVE  /\ k(s) \in Commands /\ WholeSoFar(s, k(s))
               /\ k(s).pc = cmd[s].pc /\ k(s).kept = cmd[s].kept
    <3>1. cmd[s] \in Commands /\ WholeSoFar(s, cmd[s])
      BY DEF OutInv
    <3>2. PICK left \in Int : left = IF cmd[s].left > 0 THEN cmd[s].left - 1 ELSE 0
      BY <3>1 DEF Commands
    <3>3. k(s) = [cmd[s] EXCEPT !.left = left]
      BY <3>2
    <3> HIDE DEF k
    <3> QED
      BY <3>1, <3>3 DEF Commands, WholeSoFar
  <2> HIDE DEF k
  <2>3. cmd' \in [Slots -> Commands] /\ \A s \in Slots : cmd'[s] = k(s)
    BY <2>1, <2>2
  <2>4. ReaderInv'
    <3>1. reader.done => reader.job \in Slots
      BY DEF OutInv, ReaderInv, Slots
    <3> QED
      BY <2>1, <2>2, <2>3, <3>1 DEF OutInv, ReaderInv
  <2> QED
    BY <2>2, <2>3, <2>4 DEF OutInv
<1>2. CASE UNCHANGED <<cmd, reader>>
  BY <1>2 DEF OutInv, ReaderInv
<1>3. ASSUME NEW c \in ShCalls,
             RunIsRefused(c) \/ RunFails(c) \/ (\E t \in ShTimeouts : RunStarts(c, t)) \/ ContextEnds(c)
      PROVE  OutInv'
  BY <1>3, CallKept, ProcessKept DEF Slots
<1>4. ASSUME NEW j \in ShJobs,
             \/ JobIsMade(j) \/ JobStarts(j) \/ JobFails(j)
             \/ Kill(j) \/ KillReturns(j) \/ JobOutput(j)
      PROVE  OutInv'
  <2>1. j \in Slots
    BY DEF Slots
  <2>2. CASE Kill(j)
    BY <1>2, <2>2 DEF Kill
  <2> QED
    BY <1>4, <2>1, <2>2, JobKept, ProcessKept, ReaderKept
<1>5. ASSUME NEW s \in ShCalls \cup ShJobs,
             \/ Writes(s) \/ LeavesChild(s) \/ Exits(s) \/ ChildEnds(s)
             \/ Copies(s) \/ WaitReturns(s)
      PROVE  OutInv'
  BY <1>5, ProcessKept, CopyKept DEF Slots
<1>6. CASE Reads \/ AnswerIsGiven
  BY <1>6, ReaderKept
<1> QED
  BY <1>1, <1>2, <1>3, <1>4, <1>5, <1>6 DEF ShNext, shVars

LEMMA OutInvInit == ShInit => OutInv
<1> SUFFICES ASSUME ShInit PROVE OutInv
  OBVIOUS
<1>1. PICK f : f = Fresh
  OBVIOUS
<1>2. f \in Commands /\ \A s : WholeSoFar(s, f)
  BY <1>1, FreshType
<1>3. cmd = [s \in Slots |-> f] /\ reader = NoReader
  BY <1>1 DEF ShInit, Slots
<1>4. ReaderInv
  BY <1>3 DEF ReaderInv, NoReader
<1> QED
  BY <1>2, <1>3, <1>4 DEF OutInv

(* A command's result is whole, for any calls, jobs, writers left behind   *)
(* and limits: what fits of its output, with a note exactly when some did  *)
(* not, and all of it for a job that was seen to have ended                *)
(* (executor.go:683, jobs.go:132).                                         *)
THEOREM ResultsStayWhole == ShSpec => []ResultsAreWhole
<1>1. OutInv => ResultsAreWhole
  <2> SUFFICES ASSUME OutInv PROVE ResultsAreWhole
    OBVIOUS
  <2>1. ASSUME NEW c \in ShCalls, cmd[c].pc = "done"
        PROVE  /\ cmd[c].kept = Least(cmd[c].wrote, ShMaxOut)
               /\ cmd[c].cut <=> cmd[c].wrote > ShMaxOut
    BY <2>1 DEF OutInv, Slots, WholeSoFar
  <2>2. reader.step > Len(ReadOrder) /\ reader.done => reader.seen = cmd[reader.job].wrote
    <3> SUFFICES ASSUME reader.step > Len(ReadOrder), reader.done
                 PROVE  reader.seen = cmd[reader.job].wrote
      OBVIOUS
    <3>1. reader.step > 2
      BY DEF ReadOrder
    <3>2. reader.job \in ShJobs /\ reader.seen = cmd[reader.job].kept
          /\ cmd[reader.job].pc = "done"
      BY <3>1 DEF OutInv, ReaderInv
    <3>3. WholeSoFar(reader.job, cmd[reader.job]) /\ reader.job \notin ShCalls
      BY <3>2, ShellTypes DEF OutInv, Slots
    <3> QED
      BY <3>2, <3>3 DEF WholeSoFar
  <2> QED
    BY <2>1, <2>2 DEF ResultsAreWhole
<1> QED
  BY <1>1, OutInvInit, OutInvNext, PTL DEF ShSpec

(* The rate limiter.                                                       *)

Scaled == tokens * ShWindow + since * ShLimit
Credit == Least(Scaled, (ShLimit + 1) * ShWindow - 1)

(* Any n commands let through since the oldest of them cost a window each  *)
(* and were paid from a full bucket, the part of a token that the clock    *)
(* had gathered, and what came back since.                                 *)
RateInv ==
  /\ tokens \in 0 .. ShLimit /\ since \in Nat
  /\ ages \in Seq(Nat)
  /\ \A i, j \in 1 .. Len(ages) : i <= j => ages[i] >= ages[j]
  /\ \A i \in 1 .. Len(ages) :
       /\ ages[i] < ShWindow
       /\ (Len(ages) - i + 1) * ShWindow + Credit <=
            (ShLimit + 1) * ShWindow - 1 + ages[i] * ShLimit

LEMMA AtLeastIsLeast ==
  \A a, b \in Int : Least(a, b) \in Int /\ Least(a, b) <= a /\ Least(a, b) <= b
                    /\ (Least(a, b) = a \/ Least(a, b) = b)
BY DEF Least

LEMMA Products ==
  /\ \A a, b \in Nat : a * b \in Nat
  /\ \A a, b \in Int : a * b \in Int /\ (a + 1) * b = a * b + b /\ (a - 1) * b = a * b - b
  /\ \A a, b, c \in Nat : a <= b => a * c <= b * c
  /\ \A a, b, c \in Int : (a + b) * c = a * c + b * c
OBVIOUS

LEMMA Costs ==
  \A p, w, c, d, r \in Int : p + c <= r /\ d + w <= c => (p + w) + d <= r
OBVIOUS
LEMMA Gains ==
  \A p, c, d, b, a, l \in Int : p + c <= b + a /\ d <= c + l => p + d <= b + (a + l)
OBVIOUS
LEMMA Places ==
  \A l, i \in Nat : i \in 1 .. l => l - i + 1 \in Nat /\ (l + 1) - i + 1 = (l - i + 1) + 1
OBVIOUS

(* The tokens that come back are whole ones. *)
LEMMA RefillIs ==
  ASSUME RateInv
  PROVE  /\ Refill \in Nat /\ Refill * ShWindow <= since * ShLimit
         /\ since * ShLimit < Refill * ShWindow + ShWindow
<1>1. since * ShLimit \in Nat /\ ShWindow \in Nat /\ ShWindow > 0
  BY ShellTypes, Products DEF RateInv
<1>2. \A a, b \in Nat : b > 0 => LET q == a \div b
                                 IN  q \in Nat /\ q * b <= a /\ a < q * b + b
  OBVIOUS
<1> QED
  BY <1>1, <1>2 DEF Refill

LEMMA CreditType == ASSUME RateInv PROVE Credit \in Nat /\ Scaled \in Nat
<1>1. Scaled \in Nat /\ (ShLimit + 1) * ShWindow - 1 \in Nat
  <2>1. tokens * ShWindow \in Nat /\ since * ShLimit \in Nat /\ ShLimit * ShWindow \in Nat
    BY ShellTypes, Products DEF RateInv
  <2>2. (ShLimit + 1) * ShWindow = ShLimit * ShWindow + ShWindow
    BY ShellTypes, Products
  <2> QED
    BY <2>1, <2>2, ShellTypes DEF Scaled
<1> QED
  BY <1>1 DEF Credit, Least

(* A command costs a window. *)
LEMMA AllowCosts ==
  ASSUME RateInv, Allow
  PROVE  /\ tokens' \in 0 .. ShLimit /\ since' \in Nat
         /\ Credit' + ShWindow <= Credit /\ Credit' \in Nat
         /\ Credit' <= ShLimit * ShWindow - 1
<1> DEFINE L == ShLimit  W == ShWindow  R == Refill
<1>0. L \in Nat /\ W \in Nat /\ W > 0 /\ R \in Nat /\ tokens \in Nat /\ tokens <= L /\ since \in Nat
      /\ R * W <= since * L /\ since * L < R * W + W
  BY ShellTypes, RefillIs DEF RateInv
<1>1. tokens' = Filled - 1 /\ Filled > 0 /\ since' = IF R > 0 THEN 0 ELSE since
  BY DEF Allow, Clock
<1>2. Filled \in Nat /\ Filled <= tokens + R /\ Filled <= L
  BY <1>0, AtLeastIsLeast DEF Filled, Least
<1>3. tokens' \in 0 .. L /\ since' \in Nat /\ tokens' \in Nat /\ Filled \in Nat
  BY <1>0, <1>1, <1>2
<1>4. /\ tokens' * W = Filled * W - W /\ Filled * W <= tokens * W + R * W
      /\ Filled * W <= L * W /\ (L + 1) * W = L * W + W
      /\ tokens * W \in Nat /\ R * W \in Nat /\ since * L \in Nat /\ L * W \in Nat
      /\ Filled * W \in Nat /\ tokens' * W \in Nat /\ tokens * W <= L * W
  <2>1. tokens' * W = Filled * W - W
    BY <1>0, <1>1, <1>2, Products
  <2>2. Filled * W <= (tokens + R) * W /\ Filled * W <= L * W /\ tokens * W <= L * W
    BY <1>0, <1>2, Products
  <2>3. (tokens + R) * W = tokens * W + R * W /\ (L + 1) * W = L * W + W
    BY <1>0, Products
  <2>4. /\ tokens * W \in Nat /\ R * W \in Nat /\ since * L \in Nat /\ L * W \in Nat
        /\ Filled * W \in Nat /\ tokens' * W \in Nat
    BY <1>0, <1>3, Products
  <2> QED
    BY <2>1, <2>2, <2>3, <2>4
<1>5. Scaled' = tokens' * W + since' * L
  BY DEF Scaled
<1>6. Scaled' + W <= Scaled /\ Scaled' <= L * W - 1 /\ Scaled' \in Nat
      /\ Scaled' + W <= (L + 1) * W - 1
  <2>1. CASE R > 0
    <3>1. since' * L = 0
      BY <1>0, <1>1, <2>1
    <3> QED
      BY <1>0, <1>4, <1>5, <3>1 DEF Scaled
  <2>2. CASE R = 0
    <3>1. since' = since /\ R * W = 0
      BY <1>0, <1>1, <2>2
    <3> QED
      BY <1>0, <1>4, <1>5, <3>1 DEF Scaled
  <2> QED
    BY <1>0, <2>1, <2>2
<1>7. Credit' = Least(Scaled', (L + 1) * W - 1)
  BY DEF Credit
<1>8. Credit' = Scaled'
  BY <1>0, <1>4, <1>6, <1>7 DEF Least
<1>9. Credit' + W <= Credit
  BY <1>0, <1>4, <1>6, <1>8, CreditType DEF Credit, Least
<1> QED
  BY <1>3, <1>6, <1>8, <1>9

LEMMA AllowKept ==
  ASSUME RateInv, Allow
  PROVE  RateInv'
<1>0. /\ tokens' \in 0 .. ShLimit /\ since' \in Nat
      /\ Credit' + ShWindow <= Credit /\ Credit' \in Nat
      /\ Credit' <= ShLimit * ShWindow - 1
  BY AllowCosts
<1>1. ages' = Append(ages, 0) /\ ages \in Seq(Nat)
  BY DEF Allow, RateInv
<1>2. /\ ages' \in Seq(Nat) /\ Len(ages) \in Nat /\ Len(ages') = Len(ages) + 1
      /\ ages'[Len(ages) + 1] = 0 /\ \A i \in 1 .. Len(ages) : ages'[i] = ages[i] /\ ages[i] \in Nat
  BY <1>1
<1>3. \A i, j \in 1 .. Len(ages') : i <= j => ages'[i] >= ages'[j]
  <2> SUFFICES ASSUME NEW i \in 1 .. Len(ages'), NEW j \in 1 .. Len(ages'), i <= j
               PROVE  ages'[i] >= ages'[j]
    OBVIOUS
  <2>1. CASE j = Len(ages) + 1
    <3>1. ages'[j] = 0 /\ ages'[i] \in Nat
      BY <1>2, <2>1
    <3> QED
      BY <3>1
  <2>2. CASE j \in 1 .. Len(ages)
    <3>1. i \in 1 .. Len(ages)
      BY <1>2, <2>2
    <3>2. ages[i] >= ages[j]
      BY <2>2, <3>1 DEF RateInv
    <3> QED
      BY <1>2, <2>2, <3>1, <3>2
  <2> QED
    BY <1>2, <2>1, <2>2
<1>4. ASSUME NEW i \in 1 .. Len(ages')
      PROVE  /\ ages'[i] < ShWindow
             /\ (Len(ages') - i + 1) * ShWindow + Credit' <=
                  (ShLimit + 1) * ShWindow - 1 + ages'[i] * ShLimit
  <2>0. /\ ShLimit \in Nat /\ ShWindow \in Nat /\ ShWindow > 0
        /\ (ShLimit + 1) * ShWindow = ShLimit * ShWindow + ShWindow /\ ShLimit * ShWindow \in Nat
    BY ShellTypes, Products
  <2>1. CASE i = Len(ages) + 1
    <3>1. Len(ages') - i + 1 = 1 /\ 1 * ShWindow = ShWindow /\ ages'[i] = 0 /\ 0 * ShLimit = 0
      BY <1>2, <2>0, <2>1
    <3> QED
      BY <1>0, <2>0, <3>1
  <2>2. CASE i \in 1 .. Len(ages)
    <3>1. ages'[i] = ages[i] /\ ages[i] < ShWindow /\ ages[i] \in Nat
          /\ (Len(ages) - i + 1) * ShWindow + Credit <=
               (ShLimit + 1) * ShWindow - 1 + ages[i] * ShLimit
      BY <1>2, <2>2 DEF RateInv
    <3>2. i \in Nat /\ Len(ages) - i + 1 \in Nat
          /\ (Len(ages) + 1) - i + 1 = (Len(ages) - i + 1) + 1
      BY <1>2, <2>2, Places
    <3>3. ages[i] * ShLimit \in Int /\ (ShLimit + 1) * ShWindow - 1 \in Int /\ Credit \in Int
      BY <2>0, <3>1, Products, CreditType
    <3>4. (Len(ages) - i + 1) * ShWindow \in Int
          /\ ((Len(ages) - i + 1) + 1) * ShWindow = (Len(ages) - i + 1) * ShWindow + ShWindow
      BY <2>0, <3>2, Products
    <3>5. PICK p \in Int : p = (Len(ages) - i + 1) * ShWindow
      BY <3>4
    <3>6. PICK r \in Int : r = (ShLimit + 1) * ShWindow - 1 + ages[i] * ShLimit
      BY <3>3
    <3>7. p + Credit <= r
      BY <3>1, <3>5, <3>6
    <3>8. (p + ShWindow) + Credit' <= r
      <4>1. Credit \in Int /\ Credit' \in Int /\ ShWindow \in Int /\ Credit' + ShWindow <= Credit
        <5>1. Credit \in Nat /\ ShWindow \in Nat
          BY CreditType, ShellTypes
        <5>2. Credit' \in Nat
          BY <1>0
        <5>3. Credit' + ShWindow <= Credit
          BY <1>0
        <5>4. \A k \in Nat : k \in Int
          OBVIOUS
        <5> QED
          BY <5>1, <5>2, <5>3, <5>4
      <4> QED
        BY <3>7, <4>1, Costs
    <3>9. ((Len(ages) - i + 1) + 1) * ShWindow = p + ShWindow
      BY <3>4, <3>5
    <3>10. Len(ages') - i + 1 = (Len(ages) - i + 1) + 1
      BY <1>2, <3>2
    <3> QED
      BY <3>1, <3>6, <3>8, <3>9, <3>10
  <2> QED
    BY <1>2, <2>1, <2>2
<1> QED
  BY <1>0, <1>2, <1>3, <1>4 DEF RateInv

LEMMA LimitedKept ==
  ASSUME RateInv, Limited
  PROVE  UNCHANGED <<tokens, since, ages>>
<1>0. ShLimit \in Nat /\ ShWindow \in Nat /\ ShWindow > 0 /\ Refill \in Nat
      /\ tokens \in Nat /\ tokens <= ShLimit /\ since \in Nat
      /\ Refill * ShWindow <= since * ShLimit
  BY ShellTypes, RefillIs DEF RateInv
<1>1. Filled <= 0 /\ tokens' = Filled /\ (since' = IF Refill > 0 THEN 0 ELSE since)
      /\ UNCHANGED ages
  BY DEF Limited, Clock
<1>2. ~(Refill > 0)
  <2> SUFFICES ASSUME Refill > 0 PROVE FALSE
    OBVIOUS
  <2>1. ShLimit = 0
    BY <1>0, <1>1 DEF Filled, Least
  <2>2. since * ShLimit = 0
    BY <1>0, <2>1
  <2>3. 1 * ShWindow <= Refill * ShWindow /\ 1 * ShWindow = ShWindow
    BY <1>0, Products
  <2>4. Refill * ShWindow \in Nat
    BY <1>0, Products
  <2> QED
    BY <1>0, <2>2, <2>3, <2>4
<1> QED
  BY <1>0, <1>1, <1>2 DEF Filled, Least

LEMMA TickKept ==
  ASSUME RateInv, Tick
  PROVE  RateInv'
<1>0. ShLimit \in Nat /\ ShWindow \in Nat /\ ShWindow > 0 /\ ShMaxIdle \in Nat
      /\ tokens \in Nat /\ since \in Nat /\ UNCHANGED tokens
      /\ Credit \in Nat /\ Scaled \in Nat /\ ages \in Seq(Nat) /\ Len(ages) \in Nat
  BY ShellTypes, CreditType DEF RateInv, Tick
<1>1. since' \in Nat /\ since' <= since + 1
  BY <1>0 DEF Tick, Least
<1>2. Credit' <= Credit + ShLimit /\ Credit' \in Nat
  <2>1. since' * ShLimit <= (since + 1) * ShLimit
        /\ (since + 1) * ShLimit = since * ShLimit + ShLimit
        /\ since' * ShLimit \in Nat /\ tokens * ShWindow \in Nat /\ since * ShLimit \in Nat
        /\ ShLimit * ShWindow \in Nat
        /\ (ShLimit + 1) * ShWindow = ShLimit * ShWindow + ShWindow
    <3>1. since + 1 \in Nat
      BY <1>0
    <3>2. since' * ShLimit <= (since + 1) * ShLimit
      BY <1>0, <1>1, <3>1, Products
    <3>3. (since + 1) * ShLimit = since * ShLimit + ShLimit
          /\ (ShLimit + 1) * ShWindow = ShLimit * ShWindow + ShWindow
      BY <1>0, Products
    <3>4. since' * ShLimit \in Nat /\ tokens * ShWindow \in Nat /\ since * ShLimit \in Nat
          /\ ShLimit * ShWindow \in Nat
      BY <1>0, <1>1, Products
    <3> QED
      BY <3>2, <3>3, <3>4
  <2>2. Scaled' = tokens * ShWindow + since' * ShLimit
    BY <1>0 DEF Scaled
  <2>3. Scaled' <= Scaled + ShLimit /\ Scaled' \in Nat
    BY <1>0, <2>1, <2>2 DEF Scaled
  <2>4. Credit' = Least(Scaled', (ShLimit + 1) * ShWindow - 1)
    BY DEF Credit
  <2> QED
    BY <1>0, <2>1, <2>3, <2>4 DEF Credit, Least
<1>3. PICK n \in 0 .. Len(ages) :
        /\ \A i \in 1 .. Len(ages) : ages[i] + 1 >= ShWindow <=> i <= n
        /\ ages' = [i \in 1 .. Len(ages) - n |-> ages[i + n] + 1]
  BY DEF Tick, Aged
<1>4. \A i \in 1 .. Len(ages) - n : i + n \in 1 .. Len(ages) /\ ~(i + n <= n)
  BY <1>0
<1>5. /\ Len(ages) - n \in Nat
      /\ \A i \in 1 .. Len(ages) - n : ages[i + n] \in Nat /\ ages[i + n] + 1 \in Nat
  BY <1>0, <1>4
<1>6. ages' \in Seq(Nat) /\ Len(ages') = Len(ages) - n
      /\ \A i \in 1 .. Len(ages) - n : ages'[i] = ages[i + n] + 1
  <2>1. PICK k \in Nat : k = Len(ages) - n
    BY <1>5
  <2>2. PICK f \in [1 .. k -> Nat] : ages' = f /\ \A i \in 1 .. k : f[i] = ages[i + n] + 1
    <3>1. \A i \in 1 .. k : ages[i + n] + 1 \in Nat
      BY <1>5, <2>1
    <3>2. ages' = [i \in 1 .. k |-> ages[i + n] + 1]
      BY <1>3, <2>1
    <3>3. ages' \in [1 .. k -> Nat]
      BY <3>1, <3>2
    <3>4. \A i \in 1 .. k : ages'[i] = ages[i + n] + 1
      BY <3>2
    <3> QED
      BY <3>3, <3>4
  <2>3. f \in Seq(Nat) /\ Len(f) = k
    OBVIOUS
  <2> QED
    BY <2>1, <2>2, <2>3
<1>7. \A i, j \in 1 .. Len(ages') : i <= j => ages'[i] >= ages'[j]
  <2> SUFFICES ASSUME NEW i \in 1 .. Len(ages'), NEW j \in 1 .. Len(ages'), i <= j
               PROVE  ages'[i] >= ages'[j]
    OBVIOUS
  <2>1. i + n \in 1 .. Len(ages) /\ j + n \in 1 .. Len(ages) /\ i + n <= j + n
    BY <1>4, <1>6
  <2>2. ages[i + n] >= ages[j + n]
    BY <2>1 DEF RateInv
  <2> QED
    BY <1>5, <1>6, <2>2
<1>8. ASSUME NEW i \in 1 .. Len(ages')
      PROVE  /\ ages'[i] < ShWindow
             /\ (Len(ages') - i + 1) * ShWindow + Credit' <=
                  (ShLimit + 1) * ShWindow - 1 + ages'[i] * ShLimit
  <2>1. PICK h \in 1 .. Len(ages) : h = i + n
    BY <1>4, <1>6
  <2>2. ages'[i] = ages[h] + 1 /\ ages[h] \in Nat /\ ~(ages[h] + 1 >= ShWindow)
    BY <1>3, <1>4, <1>5, <1>6, <2>1
  <2>3. (Len(ages) - h + 1) * ShWindow + Credit <=
          (ShLimit + 1) * ShWindow - 1 + ages[h] * ShLimit
    BY DEF RateInv
  <2>4. Len(ages') - i + 1 = Len(ages) - h + 1
    BY <1>0, <1>6, <2>1
  <2>5. (ages[h] + 1) * ShLimit = ages[h] * ShLimit + ShLimit /\ ages[h] * ShLimit \in Nat
    BY <1>0, <2>2, Products
  <2>6. Len(ages) - h + 1 \in Nat
    BY <1>0, <2>1, Places
  <2>7. (Len(ages) - h + 1) * ShWindow \in Int /\ (ShLimit + 1) * ShWindow - 1 \in Int
    BY <1>0, <2>6, Products
  <2>8. PICK p \in Int : p = (Len(ages) - h + 1) * ShWindow
    BY <2>7
  <2>9. PICK b \in Int : b = (ShLimit + 1) * ShWindow - 1
    BY <2>7
  <2>10. PICK a \in Int : a = ages[h] * ShLimit
    BY <2>5
  <2>11. p + Credit <= b + a
    BY <2>3, <2>8, <2>9, <2>10
  <2>12. p + Credit' <= b + (a + ShLimit)
    <3>1. Credit \in Int /\ Credit' \in Int /\ ShLimit \in Int /\ Credit' <= Credit + ShLimit
      BY <1>0, <1>2
    <3> QED
      BY <2>11, <3>1, Gains
  <2>13. (Len(ages') - i + 1) * ShWindow = p /\ ages'[i] * ShLimit = a + ShLimit
    BY <2>2, <2>4, <2>5, <2>8, <2>10
  <2>14. ages'[i] < ShWindow
    BY <1>0, <2>2
  <2> QED
    BY <2>9, <2>12, <2>13, <2>14
<1>9. tokens' \in 0 .. ShLimit
  BY <1>0 DEF RateInv
<1> QED
  BY <1>1, <1>6, <1>7, <1>8, <1>9 DEF RateInv

LEMMA RateInvNext == RateInv /\ [ShNext]_shVars => RateInv'
<1> SUFFICES ASSUME RateInv, [ShNext]_shVars PROVE RateInv'
  OBVIOUS
<1>1. CASE UNCHANGED <<tokens, since, ages>>
  BY <1>1 DEF RateInv, Credit, Scaled
<1>2. CASE Refused \/ Allow
  BY <1>1, <1>2, AllowKept, LimitedKept DEF Refused
<1> QED
  BY <1>1, <1>2, TickKept
  DEF ShNext, shVars, RunIsRefused, RunFails, RunStarts, ContextEnds, JobIsMade, JobStarts,
      JobFails, Kill, KillReturns, JobOutput, Writes, LeavesChild, Exits, ChildEnds, Copies,
      WaitReturns, Reads, AnswerIsGiven

(* Any window sees at most twice the limit, for any limit, window and      *)
(* pauses between the commands (executor.go:107).                          *)
THEOREM RateIsBounded == ShSpec => []RateBounded
<1>1. ShInit => RateInv
  BY ShellTypes DEF ShInit, RateInv
<1>2. RateInv => RateBounded
  <2> SUFFICES ASSUME RateInv, Len(ages) > 2 * ShLimit PROVE FALSE
    BY ShellTypes DEF RateBounded, RateInv
  <2>0. ShLimit \in Nat /\ ShWindow \in Nat /\ ShWindow > 0 /\ Credit \in Nat
        /\ Len(ages) \in Nat /\ ages[1] \in Nat /\ ages[1] < ShWindow
        /\ Len(ages) * ShWindow + Credit <= (ShLimit + 1) * ShWindow - 1 + ages[1] * ShLimit
    <3>1. 1 \in 1 .. Len(ages) /\ Len(ages) \in Nat /\ ages[1] \in Nat /\ Len(ages) - 1 + 1 = Len(ages)
      BY ShellTypes DEF RateInv
    <3> QED
      BY <3>1, ShellTypes, CreditType DEF RateInv
  <2>1. (2 * ShLimit + 1) * ShWindow <= Len(ages) * ShWindow
    BY <2>0, Products
  <2>2. (2 * ShLimit + 1) * ShWindow = ShLimit * ShWindow + ShLimit * ShWindow + ShWindow
        /\ (ShLimit + 1) * ShWindow = ShLimit * ShWindow + ShWindow
    BY <2>0
  <2>3. ages[1] * ShLimit <= ShWindow * ShLimit /\ ShWindow * ShLimit = ShLimit * ShWindow
    BY <2>0, Products
  <2>4. ShLimit * ShWindow \in Nat /\ Len(ages) * ShWindow \in Nat /\ ages[1] * ShLimit \in Nat
    BY <2>0, Products
  <2> QED
    BY <2>0, <2>1, <2>2, <2>3, <2>4
<1> QED
  BY <1>1, <1>2, RateInvNext, PTL DEF ShSpec

-----------------------------------------------------------------------------
(* Sets in order.                                                          *)

(* The more there is up to a member, the later it comes. *)
LEMMA CountsUp ==
  ASSUME NEW S \in SUBSET Int, IsFiniteSet(S), NEW i \in S, NEW j \in S
  PROVE  /\ Cardinality(UpTo(S, i)) \in 1..Cardinality(S)
         /\ i < j => Cardinality(UpTo(S, i)) < Cardinality(UpTo(S, j))
<1> DEFINE U(k) == UpTo(S, k)
<1>1. /\ U(i) \in SUBSET S /\ U(j) \in SUBSET S /\ {} \in SUBSET U(i)
      /\ i \in U(i) /\ j \in U(j) /\ i \in Int /\ j \in Int
  BY DEF UpTo
<1>2. /\ IsFiniteSet(U(i)) /\ Cardinality(U(i)) <= Cardinality(S) /\ Cardinality(S) \in Nat
      /\ IsFiniteSet(U(j)) /\ Cardinality(U(i)) \in Nat /\ Cardinality(U(j)) \in Nat
  BY <1>1, FS_Subset, FS_CardinalityType
<1>3. Cardinality(U(i)) # 0
  BY <1>1, <1>2, FS_EmptySet
<1>4. ASSUME i < j PROVE Cardinality(U(i)) < Cardinality(U(j))
  <2>1. j \notin U(i)
    BY <1>1, <1>4 DEF UpTo
  <2>0. ASSUME NEW x \in U(i) PROVE x \in U(j)
    <3>1. x \in S /\ x \in Int /\ x <= i
      BY <2>0 DEF UpTo
    <3>2. x <= j
      BY <3>1, <1>1, <1>4
    <3> QED
      BY <3>1, <3>2 DEF UpTo
  <2>2. Cardinality(U(i)) <= Cardinality(U(j)) /\ (Cardinality(U(j)) = Cardinality(U(i)) => U(j) = U(i))
    BY <2>0, <1>2, FS_Subset
  <2> QED
    BY <2>1, <2>2, <1>1, <1>2
<1> QED
  BY <1>2, <1>3, <1>4

LEMMA Counted ==
  ASSUME NEW S \in SUBSET Int, IsFiniteSet(S), NEW k \in 1..Cardinality(S)
  PROVE  \E i \in S : Cardinality(UpTo(S, i)) = k
<1> DEFINE rank == [i \in S |-> Cardinality(UpTo(S, i))]
           n == Cardinality(S)
<1>1. n \in Nat
  BY FS_CardinalityType
<1>2. IsFiniteSet(1..n) /\ Cardinality(1..n) = n
  BY <1>1, FS_Interval
<1>3. rank \in [S -> 1..n]
  BY CountsUp
<1>4. ASSUME NEW i \in S, NEW j \in S, rank[i] = rank[j] PROVE i = j
  <2>1. i \in Int /\ j \in Int /\ rank[i] \in Int
    BY <1>3
  <2>2. ~(i < j) /\ ~(j < i)
    BY <1>4, <2>1, CountsUp
  <2> QED
    BY <2>1, <2>2
<1>5. rank \in Injection(S, 1..n)
  BY <1>3, <1>4 DEF Injection, IsInjective
<1>6. rank \in Surjection(S, 1..n)
  BY <1>2, <1>5, FS_Injection
<1> QED
  BY <1>6 DEF Surjection

(* InOrder names every member once, the smaller before the greater. *)
LEMMA InOrderIs ==
  ASSUME NEW S \in SUBSET Int, IsFiniteSet(S)
  PROVE  /\ Cardinality(S) \in Nat
         /\ InOrder(S) \in [1..Cardinality(S) -> S]
         /\ \A k \in 1..Cardinality(S) : Cardinality(UpTo(S, InOrder(S)[k])) = k
         /\ \A i, j \in 1..Cardinality(S) : i < j => InOrder(S)[i] < InOrder(S)[j]
         /\ \A k \in 1..Cardinality(S), i \in S : Cardinality(UpTo(S, i)) = k => InOrder(S)[k] = i
<1> DEFINE n == Cardinality(S)
           o == InOrder(S)
<1>1. n \in Nat
  BY FS_CardinalityType
<1>2. ASSUME NEW k \in 1..n PROVE o[k] \in S /\ Cardinality(UpTo(S, o[k])) = k
  <2>1. o[k] = CHOOSE i \in S : Cardinality(UpTo(S, i)) = k
    BY DEF InOrder
  <2> QED
    BY <2>1, Counted
<1>3. o \in [1..n -> S]
  BY <1>2 DEF InOrder
<1>4. ASSUME NEW i \in S, NEW j \in S, Cardinality(UpTo(S, i)) = Cardinality(UpTo(S, j)) PROVE i = j
  <2>1. i \in Int /\ j \in Int /\ Cardinality(UpTo(S, i)) \in Int
    BY CountsUp
  <2>2. ~(i < j) /\ ~(j < i)
    BY <1>4, <2>1, CountsUp
  <2> QED
    BY <2>1, <2>2
<1>5. ASSUME NEW i \in 1..n, NEW j \in 1..n, i < j PROVE o[i] < o[j]
  <2>1. /\ o[i] \in S /\ o[j] \in S /\ o[i] \in Int /\ o[j] \in Int
        /\ Cardinality(UpTo(S, o[i])) = i /\ Cardinality(UpTo(S, o[j])) = j
    BY <1>2
  <2>2. ~(o[j] < o[i]) /\ o[i] # o[j]
    BY <1>1, <1>5, <2>1, CountsUp
  <2> QED
    BY <2>1, <2>2
<1> QED
  BY <1>1, <1>2, <1>3, <1>4, <1>5

(* A member greater than all others comes last. *)
LEMMA InOrderAdd ==
  ASSUME NEW S \in SUBSET Int, IsFiniteSet(S), NEW m \in Int, \A i \in S : i < m
  PROVE  /\ IsFiniteSet(S \cup {m}) /\ Cardinality(S \cup {m}) = Cardinality(S) + 1
         /\ \A k \in 1..Cardinality(S) : InOrder(S \cup {m})[k] = InOrder(S)[k]
         /\ InOrder(S \cup {m})[Cardinality(S) + 1] = m
<1> DEFINE T == S \cup {m}
           n == Cardinality(S)
<1>1. m \notin S /\ T \in SUBSET Int /\ m \in T /\ (\A i \in S : i \in T /\ i \in Int /\ i <= m /\ ~(m <= i))
  OBVIOUS
<1>2. IsFiniteSet(T) /\ Cardinality(T) = n + 1 /\ n \in Nat
  BY <1>1, FS_AddElement, FS_CardinalityType
<1>a. \A k \in 1..n + 1, i \in T : Cardinality(UpTo(T, i)) = k => InOrder(T)[k] = i
  <2> HIDE DEF T
  <2> QED
    BY <1>1, <1>2, InOrderIs
<1>3. ASSUME NEW k \in 1..n PROVE InOrder(T)[k] = InOrder(S)[k]
  <2>1. InOrder(S)[k] \in S /\ Cardinality(UpTo(S, InOrder(S)[k])) = k
    <3>1. InOrder(S) \in [1..n -> S]
      BY InOrderIs
    <3> QED
      BY <1>3, <3>1, InOrderIs
  <2>2. UpTo(T, InOrder(S)[k]) = UpTo(S, InOrder(S)[k])
    BY <1>1, <2>1 DEF UpTo
  <2>3. k \in 1..Cardinality(T) /\ InOrder(S)[k] \in T
    BY <1>2, <2>1
  <2> QED
    BY <1>a, <1>2, <2>1, <2>2, <2>3
<1>4. UpTo(T, m) = T
  <2>1. \A i \in T : i <= m
    BY <1>1
  <2> QED
    BY <2>1 DEF UpTo
<1>5. InOrder(T)[n + 1] = m
  <2>1. n + 1 \in 1..n + 1
    BY <1>2
  <2> QED
    BY <1>1, <1>2, <1>4, <1>a, <2>1
<1> QED
  BY <1>2, <1>3, <1>5

(* A set that is not empty has a first member and a last one. *)
LEMMA Ends ==
  ASSUME NEW S \in SUBSET Int, IsFiniteSet(S), S # {}
  PROVE  /\ Min(S) \in S /\ \A y \in S : Min(S) <= y
         /\ Max(S) \in S /\ \A y \in S : y <= Max(S)
<1> DEFINE n == Cardinality(S)
           o == InOrder(S)
<1>1. /\ n \in Nat /\ o \in [1..n -> S] /\ (\A i, j \in 1..n : i < j => o[i] < o[j])
      /\ \A k \in 1..n, i \in S : Cardinality(UpTo(S, i)) = k => o[k] = i
  BY InOrderIs
<1>2. n # 0
  BY FS_EmptySet
<1>3. ASSUME NEW y \in S PROVE \E k \in 1..n : o[k] = y
  BY <1>1, CountsUp
<1> HIDE DEF n, o
<1>4. /\ 1 \in 1..n /\ n \in 1..n /\ o[1] \in S /\ o[n] \in S
  BY <1>1, <1>2
<1>5. ASSUME NEW y \in S PROVE o[1] <= y /\ y <= o[n]
  <2>1. PICK k \in 1..n : o[k] = y
    BY <1>3
  <2>2. o[1] \in Int /\ o[n] \in Int /\ y \in Int /\ k \in Int
    <3>1. \A x \in S : x \in Int
      OBVIOUS
    <3>2. \A i \in 1..n : i \in Int
      BY <1>1
    <3> QED
      BY <1>4, <2>1, <3>1, <3>2
  <2>3. k = 1 \/ 1 < k
    BY <2>2
  <2>4. k = n \/ k < n
    BY <1>1, <2>2
  <2> QED
    BY <1>1, <1>4, <2>1, <2>2, <2>3, <2>4
<1>6. \A y \in S : o[n] >= y
  BY <1>4, <1>5
<1> QED
  BY <1>4, <1>5, <1>6 DEF Min, Max

(* A longer sequence has the same at the same places, the new one last.    *)
LEMMA AtPlacesAppend ==
  ASSUME NEW X, NEW s \in Seq(X), NEW x \in X, NEW S \in SUBSET (1..Len(s))
  PROVE  /\ AtPlaces(s, S) \in Seq(X)
         /\ AtPlaces(Append(s, x), S) = AtPlaces(s, S)
         /\ AtPlaces(Append(s, x), S \cup {Len(s) + 1}) = Append(AtPlaces(s, S), x)
<1> DEFINE l == Len(s)
           t == Append(s, x)
           n == Cardinality(S)
<1>1. /\ l \in Nat /\ t \in Seq(X) /\ Len(t) = l + 1 /\ t[l + 1] = x
      /\ \A i \in 1..l : t[i] = s[i] /\ s[i] \in X
  OBVIOUS
<1> HIDE DEF l, t
<1>2. S \in SUBSET Int /\ IsFiniteSet(S) /\ l + 1 \in Int /\ \A i \in S : i < l + 1
  <2>1. S \in SUBSET (1..l) /\ IsFiniteSet(1..l)
    BY <1>1, FS_Interval DEF l
  <2>2. IsFiniteSet(S)
    BY <2>1, FS_Subset
  <2> QED
    BY <1>1, <2>1, <2>2
<1>3. /\ n \in Nat /\ InOrder(S) \in [1..n -> S]
  BY <1>2, InOrderIs
<1>4. \A k \in 1..n : InOrder(S)[k] \in 1..l
  BY <1>3 DEF l
<1>5. AtPlaces(s, S) = [k \in 1..n |-> s[InOrder(S)[k]]]
  BY DEF AtPlaces
<1>6. AtPlaces(s, S) \in [1..n -> X]
  BY <1>1, <1>4, <1>5
<1>7. AtPlaces(s, S) \in Seq(X) /\ Len(AtPlaces(s, S)) = n
  BY <1>3, <1>6
<1>8. AtPlaces(t, S) = AtPlaces(s, S)
  BY <1>1, <1>4 DEF AtPlaces
<1>9. AtPlaces(t, S \cup {l + 1}) = Append(AtPlaces(s, S), x)
  <2> DEFINE T == S \cup {l + 1}
  <2>1. /\ Cardinality(T) = n + 1
        /\ \A k \in 1..n : InOrder(T)[k] = InOrder(S)[k]
        /\ InOrder(T)[n + 1] = l + 1
    BY <1>2, InOrderAdd
  <2> HIDE DEF T
  <2> DEFINE p == AtPlaces(s, S)
             a == Append(p, x)
             b == AtPlaces(t, T)
  <2>2. b = [k \in 1..n + 1 |-> t[InOrder(T)[k]]]
    BY <2>1 DEF AtPlaces
  <2>3. p \in Seq(X) /\ Len(p) = n /\ \A k \in 1..n : p[k] = s[InOrder(S)[k]]
    BY <1>5, <1>7
  <2> HIDE DEF p
  <2>4. a \in Seq(X) /\ Len(a) = n + 1 /\ a[n + 1] = x /\ \A k \in 1..n : a[k] = p[k]
    BY <1>3, <2>3, AppendProperties
  <2> HIDE DEF a
  <2>5. a = [k \in 1..n + 1 |-> a[k]]
    <3>1. a \in [1..Len(a) -> X]
      BY <2>4
    <3> QED
      BY <2>4, <3>1
  <2>6. \A k \in 1..n : t[InOrder(T)[k]] = a[k]
    <3> TAKE k \in 1..n
    <3>1. InOrder(S)[k] \in 1..l
      BY <1>4
    <3> QED
      BY <3>1, <1>1, <2>1, <2>3, <2>4
  <2>7. t[InOrder(T)[n + 1]] = a[n + 1]
    BY <1>1, <2>1, <2>4
  <2>8. \A k \in 1..n + 1 : t[InOrder(T)[k]] = a[k]
    BY <1>3, <2>6, <2>7
  <2>9. b = a
    BY <2>2, <2>5, <2>8
  <2> QED
    BY <2>9 DEF T, a, p
<1> QED
  BY <1>7, <1>8, <1>9 DEF l, t

-----------------------------------------------------------------------------
(* News.                                                                   *)

(* The places of what is news: not empty, and not said just before.        *)
News(q) == {i \in DOMAIN q : q[i] # NoText /\ ~Repeats(q, i)}

(* The last text is the last that was sent since the queue was made; and   *)
(* where there is one, the queue is not empty.                             *)
LastSent ==
  /\ lastText = NoText => \A i \in 1..Len(sent) : sent[i] = NoText
  /\ lastText # NoText => events # <<>> /\ \E i \in 1..Len(sent) :
        sent[i] = lastText /\ \A k \in i + 1..Len(sent) : sent[k] = NoText

NewsInv == sent \in Seq(EvTexts) /\ LastSent /\ NewsIsKept

LEMMA LastNAppend ==
  ASSUME NEW X, NEW q \in Seq(X), NEW x \in X, NEW c \in Nat \ {0}
  PROVE  /\ LastN(Append(LastN(q, c), x), c) = LastN(Append(q, x), c)
         /\ LastN(Append(q, x), c) # <<>>
<1> DEFINE k == Len(q)
           long == Append(q, x)
<1>1. k \in Nat
  OBVIOUS
<1>2. /\ long \in Seq(X) /\ Len(long) = k + 1
      /\ (\A i \in 1..k : long[i] = q[i]) /\ long[k + 1] = x
  BY AppendProperties
<1>3. LastN(long, c) # <<>>
  <2>1. CASE k + 1 <= c
    BY <1>1, <1>2, <2>1 DEF LastN
  <2>2. CASE k + 1 > c
    <3> HIDE DEF long
    <3>1. \A i \in k + 2 - c .. k + 1 : long[i] \in X
      BY <1>1, <1>2, <2>2, ElementOfSeq
    <3>2. Len(SubSeq(long, k + 2 - c, k + 1)) = c
      BY <1>1, <2>2, <3>1, SubSeqProperties
    <3> QED
      BY <1>1, <1>2, <2>2, <3>2 DEF LastN
  <2> QED
    BY <1>1, <2>1, <2>2
<1>4. CASE k <= c
  BY <1>1, <1>3, <1>4 DEF LastN
<1>5. CASE k > c
  <2> DEFINE kept == SubSeq(q, k - c + 1, k)
             short == Append(kept, x)
  <2>1. \A i \in k - c + 1 .. k : q[i] \in X
    BY <1>1, <1>5, ElementOfSeq
  <2>2. /\ kept \in Seq(X) /\ Len(kept) = c
        /\ \A i \in 1..c : kept[i] = q[k - c + i]
    BY <1>1, <1>5, <2>1, SubSeqProperties
  <2> HIDE DEF kept
  <2>3. /\ short \in Seq(X) /\ Len(short) = c + 1
        /\ \A i \in 1..c : short[i] = kept[i]
        /\ short[c + 1] = x
    BY <2>2, AppendProperties
  <2> HIDE DEF short, long
  <2>4. LastN(q, c) = kept
    BY <1>5 DEF LastN, kept
  <2>5. LastN(short, c) = SubSeq(short, 2, c + 1) /\ LastN(long, c) = SubSeq(long, k - c + 2, k + 1)
    BY <1>1, <1>2, <1>5, <2>3 DEF LastN
  <2> DEFINE a == SubSeq(short, 2, c + 1)
             b == SubSeq(long, k - c + 2, k + 1)
  <2>6. \A i \in 2..c + 1 : short[i] \in X
    BY <2>3, ElementOfSeq
  <2>7. \A i \in k - c + 2..k + 1 : long[i] \in X
    BY <1>1, <1>2, <1>5, ElementOfSeq
  <2>8. a \in Seq(X) /\ Len(a) = c /\ \A i \in 1..c : a[i] = short[1 + i]
    BY <2>3, <2>6, SubSeqProperties
  <2>9. b \in Seq(X) /\ Len(b) = c /\ \A i \in 1..c : b[i] = long[k - c + 1 + i]
    BY <1>1, <1>2, <1>5, <2>7, SubSeqProperties
  <2> HIDE DEF a, b
  <2>10. \A i \in 1..c : a[i] = b[i]
    <3> TAKE i \in 1..c
    <3>1. CASE i = c
      BY <1>1, <1>2, <1>5, <2>3, <2>8, <2>9, <3>1
    <3>2. CASE i < c
      <4>1. a[i] = kept[1 + i] /\ 1 + i \in 1..c
        BY <2>3, <2>8, <3>2
      <4>2. kept[1 + i] = q[k - c + (1 + i)]
        BY <2>2, <4>1
      <4>3. b[i] = q[k - c + 1 + i]
        <5>1. k - c + 1 + i \in 1..k /\ i \in 1..c
          BY <1>1, <1>5, <3>2
        <5> QED
          BY <1>2, <2>9, <5>1
      <4> QED
        BY <1>1, <4>1, <4>2, <4>3
    <3> QED
      BY <3>1, <3>2
  <2>11. a = b
    BY <2>8, <2>9, <2>10, SeqEqual
  <2> QED
    BY <1>3, <2>4, <2>5, <2>11 DEF a, b, short, long
<1> QED
  BY <1>1, <1>4, <1>5

(* What is sent is news unless it is empty or the last text. *)
LEMMA SentIsNews ==
  ASSUME NEW t \in EvTexts, NewsInv
  PROVE  LET q == Append(sent, t) IN
         IF t = NoText \/ t = lastText THEN News(q) = News(sent)
         ELSE News(q) = News(sent) \cup {Len(sent) + 1}
<1> DEFINE q == Append(sent, t)
           l == Len(sent)
<1>1. /\ sent \in Seq(EvTexts) /\ l \in Nat /\ q \in Seq(EvTexts) /\ Len(q) = l + 1 /\ q[l + 1] = t
      /\ DOMAIN sent = 1..l /\ DOMAIN q = 1..l + 1
      /\ \A i \in 1..l : q[i] = sent[i]
  BY DEF NewsInv
<1> HIDE DEF q, l
<1>2. ASSUME NEW i \in 1..l PROVE Repeats(q, i) <=> Repeats(sent, i)
  <2>1. \A j \in 1..i - 1 : j \in 1..l /\ \A k \in j + 1..i - 1 : k \in 1..l
    BY <1>1
  <2> QED
    BY <1>1, <2>1 DEF Repeats
<1>3. ASSUME NEW i \in 1..l PROVE i \in News(q) <=> i \in News(sent)
  <2>1. i \in 1..l + 1 /\ q[i] = sent[i]
    BY <1>1
  <2>2. i \in News(q) <=> q[i] # NoText /\ ~Repeats(q, i)
    BY <1>1, <2>1 DEF News
  <2>3. i \in News(sent) <=> sent[i] # NoText /\ ~Repeats(sent, i)
    BY <1>1 DEF News
  <2> QED
    BY <1>2, <2>1, <2>2, <2>3
<1>4. l + 1 \in News(q) <=> t # NoText /\ t # lastText
  <2>1. l + 1 \in News(q) <=> t # NoText /\ ~Repeats(q, l + 1)
    <3>1. l + 1 \in DOMAIN q
      BY <1>1
    <3> QED
      BY <1>1, <3>1 DEF News
  <2>a. Repeats(q, l + 1) <=> \E j \in 1..l : q[j] = t /\ \A k \in j + 1..l : q[k] = NoText
    <3>1. (l + 1) - 1 = l
      BY <1>1
    <3> QED
      BY <1>1, <3>1 DEF Repeats
  <2>2. ASSUME t # NoText, Repeats(q, l + 1) PROVE t = lastText
    <3>1. PICK j \in 1..l : q[j] = t /\ \A k \in j + 1..l : q[k] = NoText
      BY <2>a, <2>2
    <3>2. sent[j] = t /\ \A k \in j + 1..l : sent[k] = NoText
      BY <1>1, <3>1
    <3>3. lastText # NoText
      BY <2>2, <3>1, <3>2 DEF NewsInv, LastSent, l
    <3>4. PICK i \in 1..l : sent[i] = lastText /\ \A k \in i + 1..l : sent[k] = NoText
      BY <3>3 DEF NewsInv, LastSent, l
    <3>5. ~(i < j) /\ ~(j < i)
      BY <1>1, <2>2, <3>1, <3>2, <3>3, <3>4
    <3> QED
      BY <1>1, <3>1, <3>2, <3>4, <3>5
  <2>3. ASSUME t # NoText, t = lastText PROVE Repeats(q, l + 1)
    <3>1. PICK i \in 1..l : sent[i] = lastText /\ \A k \in i + 1..l : sent[k] = NoText
      BY <2>3 DEF NewsInv, LastSent, l
    <3>2. q[i] = t /\ \A k \in i + 1..l : q[k] = NoText
      BY <1>1, <2>3, <3>1
    <3> QED
      BY <2>a, <3>2
  <2> QED
    BY <2>1, <2>2, <2>3
<1>5. News(q) \subseteq 1..l + 1 /\ News(sent) \subseteq 1..l
  BY <1>1 DEF News
<1>6. \A i \in 1..l + 1 : i \in 1..l \/ i = l + 1
  BY <1>1
<1>7. l + 1 \notin 1..l
  BY <1>1
<1>8. CASE t = NoText \/ t = lastText
  <2>1. \A i \in News(q) : i \in 1..l
    BY <1>4, <1>5, <1>6, <1>8
  <2>2. News(q) = News(sent)
    BY <1>3, <1>5, <2>1
  <2> QED
    BY <1>8, <2>2 DEF q
<1>9. CASE ~(t = NoText \/ t = lastText)
  BY <1>3, <1>4, <1>5, <1>6, <1>7, <1>9 DEF q, l
<1> QED
  BY <1>8, <1>9

LEMMA KeptIs == NewsIsKept <=> events = LastN(AtPlaces(sent, News(sent)), EvCap)
BY DEF NewsIsKept, News

LEMMA EnqueueKeeps ==
  ASSUME NEW t \in EvTexts, NewsInv, Enqueue(t)
  PROVE  NewsInv'
<1> DEFINE p == AtPlaces(sent, News(sent))
           l == Len(sent)
<1>1. /\ sent \in Seq(EvTexts) /\ l \in Nat /\ sent' = Append(sent, t) /\ EvCap \in Nat \ {0}
      /\ sent' \in Seq(EvTexts) /\ Len(sent') = l + 1 /\ sent'[l + 1] = t
      /\ \A i \in 1..l : sent'[i] = sent[i]
  BY EventsAssumption DEF NewsInv, Enqueue
<1>2. News(sent) \in SUBSET (1..Len(sent))
  BY <1>1 DEF News
<1>3. /\ p \in Seq(EvTexts)
      /\ AtPlaces(sent', News(sent)) = p
      /\ AtPlaces(sent', News(sent) \cup {l + 1}) = Append(p, t)
  BY <1>1, <1>2, AtPlacesAppend
<1>4. events = LastN(p, EvCap)
  BY KeptIs DEF NewsInv
<1>5. IF t = NoText \/ t = lastText THEN News(sent') = News(sent) ELSE News(sent') = News(sent) \cup {l + 1}
  BY <1>1, SentIsNews
<1> HIDE DEF p, l
<1>6. CASE t = NoText \/ t = lastText
  <2>1. events' = events /\ lastText' = lastText
    BY <1>6 DEF Enqueue
  <2>2. events' = LastN(AtPlaces(sent', News(sent')), EvCap)
    BY <1>3, <1>4, <1>5, <1>6, <2>1
  <2>3. LastSent'
    <3>1. ASSUME lastText = NoText PROVE \A i \in 1..l + 1 : sent'[i] = NoText
      BY <1>1, <1>6, <3>1 DEF NewsInv, LastSent, l
    <3>2. ASSUME lastText # NoText
          PROVE  events # <<>> /\ \E i \in 1..l + 1 : sent'[i] = lastText /\ \A k \in i + 1..l + 1 : sent'[k] = NoText
      <4>1. events # <<>>
        BY <3>2 DEF NewsInv, LastSent
      <4>2. PICK i \in 1..l : sent[i] = lastText /\ \A k \in i + 1..l : sent[k] = NoText
        BY <3>2 DEF NewsInv, LastSent, l
      <4>3. CASE t = lastText
        <5>1. l + 1 \in 1..l + 1 /\ sent'[l + 1] = lastText /\ \A k \in (l + 1) + 1..l + 1 : sent'[k] = NoText
          BY <1>1, <4>3
        <5> QED
          BY <4>1, <5>1
      <4>4. CASE t = NoText
        BY <1>1, <4>1, <4>2, <4>4
      <4> QED
        BY <1>1, <1>6, <4>1, <4>2, <4>3, <4>4
    <3> QED
      BY <1>1, <2>1, <3>1, <3>2 DEF LastSent
  <2> QED
    BY <1>1, <2>2, <2>3 DEF NewsInv, NewsIsKept, News
<1>7. CASE ~(t = NoText \/ t = lastText)
  <2>1. events' = LastN(Append(events, t), EvCap) /\ lastText' = t
    BY <1>7 DEF Enqueue
  <2>2. events' = LastN(Append(p, t), EvCap) /\ events' # <<>>
    BY <1>1, <1>3, <1>4, <2>1, LastNAppend
  <2>3. events' = LastN(AtPlaces(sent', News(sent')), EvCap)
    BY <1>3, <1>5, <1>7, <2>2
  <2>4. l + 1 \in 1..l + 1 /\ \A k \in (l + 1) + 1..l + 1 : sent'[k] = NoText
    BY <1>1
  <2>5. LastSent'
    BY <1>1, <1>7, <2>1, <2>2, <2>4 DEF LastSent
  <2> QED
    BY <1>1, <2>3, <2>5 DEF NewsInv, NewsIsKept, News
<1> QED
  BY <1>6, <1>7

LEMMA NothingIsKept ==
  ASSUME sent = <<>>, events = <<>>, lastText = NoText
  PROVE  NewsInv
<1>1. News(sent) = {}
  BY DEF News
<1>2. AtPlaces(sent, News(sent)) = <<>>
  BY <1>1, FS_EmptySet DEF AtPlaces
<1>3. LastN(<<>>, EvCap) = <<>>
  BY EventsAssumption DEF LastN
<1> QED
  BY <1>2, <1>3, KeptIs DEF NewsInv, LastSent

LEMMA DrainKeeps ==
  ASSUME NewsInv, sent' = <<>>, Drain
  PROVE  NewsInv'
<1>1. events' = <<>> /\ lastText' = NoText
  BY DEF Drain, NewsInv, LastSent
<1>2. (sent = <<>> /\ events = <<>> /\ lastText = NoText => NewsInv)'
  BY NothingIsKept, PTL
<1> QED
  BY <1>1, <1>2

(* What the next run will drain is the newest of the news since the last   *)
(* run, whatever is sent and however often runs drain it (sysevents.go:64, *)
(* :77, :99).                                                              *)
THEOREM NewsStaysKept == EvSpec => []NewsIsKept
<1>1. EvInit => NewsInv
  BY NothingIsKept DEF EvInit
<1>2. NewsInv /\ [EvNext]_evVars => NewsInv'
  <2> SUFFICES ASSUME NewsInv, [EvNext]_evVars PROVE NewsInv'
    OBVIOUS
  <2>1. ASSUME NEW t \in EvTexts, Enqueue(t) PROVE NewsInv'
    BY <2>1, EnqueueKeeps
  <2>2. ASSUME NEW mode \in Modes, NEW lengths \in EvContents, AssemblePrompt(mode, lengths) PROVE NewsInv'
    BY <2>2, DrainKeeps DEF AssemblePrompt
  <2>3. CASE UNCHANGED evVars
    BY <2>3 DEF evVars, NewsInv, LastSent, NewsIsKept
  <2> QED
    BY <2>1, <2>2, <2>3 DEF EvNext
<1>3. NewsInv => NewsIsKept
  BY DEF NewsInv
<1> QED
  BY <1>1, <1>2, <1>3, PTL DEF EvSpec

-----------------------------------------------------------------------------
(* Workspaces.                                                             *)

(* The files of a directory are sequences of notes. *)
Files(dir) == \A n \in DOMAIN dir : dir[n] \in Seq(WsNotes)

Saved(type, note, d) ==
  /\ type \in {"curated", "daily"} /\ note \in WsNotes /\ d \in Nat \ {0}
  /\ type = "curated" => "MEMORY.md" \in DOMAIN wsGlobal /\ note \in Range(wsGlobal["MEMORY.md"])
  /\ type = "daily" => d \in DOMAIN wsDaily.global /\ note \in Range(wsDaily.global[d])

(* What was saved is in its file.                                          *)
NotesThere ==
  /\ wsDay \in Nat \ {0}
  /\ Files(wsGlobal)
  /\ DOMAIN wsDaily = {"global", "daemon"} /\ Files(wsDaily.global)
  /\ \A s \in wsSaved : Saved(s[1], s[2], s[3])

LEMMA AppendToKeeps ==
  ASSUME NEW dir, Files(dir), NEW name, NEW note \in WsNotes, NEW d, d = AppendTo(dir, name, note)
  PROVE  /\ Files(d) /\ DOMAIN d = DOMAIN dir \cup {name} /\ note \in Range(d[name])
         /\ \A n \in DOMAIN dir : \A x \in Range(dir[n]) : x \in Range(d[n])
<1> DEFINE q == FileAt(dir, name)
<1>1. q \in Seq(WsNotes) /\ (name \in DOMAIN dir => q = dir[name])
  BY DEF FileAt, Files
<1> HIDE DEF q
<1>2. /\ Append(q, note) \in Seq(WsNotes) /\ DOMAIN Append(q, note) = 1..Len(q) + 1
      /\ DOMAIN q = 1..Len(q) /\ Len(q) \in Nat
      /\ Append(q, note)[Len(q) + 1] = note /\ \A i \in 1..Len(q) : Append(q, note)[i] = q[i]
  BY <1>1, AppendProperties
<1>3. /\ DOMAIN d = DOMAIN dir \cup {name} /\ d[name] = Append(q, note)
      /\ \A n \in DOMAIN dir : n # name => d[n] = dir[n]
  BY DEF AppendTo, q
<1>4. note \in Range(Append(q, note)) /\ \A x \in Range(q) : x \in Range(Append(q, note))
  BY <1>2 DEF Range
<1>5. Files(d)
  BY <1>2, <1>3 DEF Files
<1> QED
  BY <1>1, <1>3, <1>4, <1>5

LEMMA NotesStay == NotesThere /\ [WsNext]_wsVars => NotesThere'
<1> SUFFICES ASSUME NotesThere, [WsNext]_wsVars PROVE NotesThere'
  OBVIOUS
<1> USE DEF NotesThere
<1>1. ASSUME NEW type \in {"curated", "daily"}, NEW note \in WsNotes, MemoryWrite(type, note)
      PROVE  NotesThere'
  <2>1. wsDay' = wsDay /\ wsSaved' = wsSaved \cup {<<type, note, wsDay>>}
    BY <1>1 DEF MemoryWrite
  <2>2. CASE type = "curated"
    <3>1. wsGlobal' = AppendTo(wsGlobal, "MEMORY.md", note) /\ wsDaily' = wsDaily
      BY <1>1, <2>2 DEF MemoryWrite
    <3>2. /\ Files(wsGlobal') /\ DOMAIN wsGlobal' = DOMAIN wsGlobal \cup {"MEMORY.md"}
          /\ note \in Range(wsGlobal'["MEMORY.md"])
          /\ \A n \in DOMAIN wsGlobal : \A x \in Range(wsGlobal[n]) : x \in Range(wsGlobal'[n])
      BY <3>1, AppendToKeeps
    <3>3. \A s \in wsSaved : Saved(s[1], s[2], s[3])'
      BY <3>1, <3>2 DEF Saved
    <3>4. Saved(type, note, wsDay)'
      BY <2>1, <2>2, <3>2 DEF Saved
    <3> QED
      BY <2>1, <3>1, <3>2, <3>3, <3>4 DEF Files
  <2>3. CASE type = "daily"
    <3>1. /\ wsDaily' = [wsDaily EXCEPT !.global = AppendTo(wsDaily.global, wsDay, note)]
          /\ wsGlobal' = wsGlobal
      BY <1>1, <2>3 DEF MemoryWrite
    <3>2. wsDaily'.global = AppendTo(wsDaily.global, wsDay, note) /\ DOMAIN wsDaily' = DOMAIN wsDaily
      BY <3>1
    <3>3. /\ Files(wsDaily'.global) /\ DOMAIN wsDaily'.global = DOMAIN wsDaily.global \cup {wsDay}
          /\ note \in Range(wsDaily'.global[wsDay])
          /\ \A n \in DOMAIN wsDaily.global :
                \A x \in Range(wsDaily.global[n]) : x \in Range(wsDaily'.global[n])
      <4> DEFINE d == wsDaily.global
                 e == wsDaily'.global
      <4>1. Files(d) /\ e = AppendTo(d, wsDay, note)
        BY <3>2
      <4> HIDE DEF d, e
      <4>2. /\ Files(e) /\ DOMAIN e = DOMAIN d \cup {wsDay} /\ note \in Range(e[wsDay])
            /\ \A n \in DOMAIN d : \A x \in Range(d[n]) : x \in Range(e[n])
        BY <4>1, AppendToKeeps
      <4> QED
        BY <4>2 DEF d, e
    <3>4. \A s \in wsSaved : Saved(s[1], s[2], s[3])'
      BY <3>1, <3>3 DEF Saved
    <3>5. Saved(type, note, wsDay)'
      BY <2>1, <2>3, <3>3 DEF Saved
    <3> QED
      BY <2>1, <3>1, <3>2, <3>3, <3>4, <3>5 DEF Files
  <2> QED
    BY <2>2, <2>3
<1>2. ASSUME NEW note \in WsNotes, ProjectNotes(note) PROVE NotesThere'
  <2>1. /\ wsDaily'.global = wsDaily.global /\ DOMAIN wsDaily' = DOMAIN wsDaily
        /\ UNCHANGED <<wsGlobal, wsDay, wsSaved>>
    BY <1>2 DEF ProjectNotes
  <2> QED
    BY <2>1 DEF Files, Saved
<1>3. ASSUME UNCHANGED <<wsGlobal, wsDaily, wsSaved>>, wsDay' \in Nat \ {0} PROVE NotesThere'
  BY <1>3 DEF Files, Saved
<1>4. CASE NextDay
  BY <1>3, <1>4 DEF NextDay
<1>5. ASSUME NEW note \in WsNotes, MemoryRefused(note) PROVE NotesThere'
  BY <1>3, <1>5 DEF MemoryRefused
<1>6. ASSUME NEW run, RunLoads(run) PROVE NotesThere'
  BY <1>3, <1>6 DEF RunLoads
<1>7. CASE UNCHANGED wsVars
  BY <1>3, <1>7 DEF wsVars
<1> QED
  BY <1>1, <1>2, <1>4, <1>5, <1>6, <1>7 DEF WsNext, MemoryWriteDailyOnly

(* A MEMORY.md with the priority of the global directory is that one's.    *)
Curated(files) ==
  /\ "MEMORY.md" \in DOMAIN files
  /\ files["MEMORY.md"].priority = 10 => files["MEMORY.md"].content = wsGlobal["MEMORY.md"]

LEMMA CuratedStays ==
  ASSUME NEW files, NEW dir, NEW priority \in Nat, priority # 10, Curated(files)
  PROVE  Curated(LoadDir(files, dir, priority))
BY DEF Curated, LoadDir

LEMMA GlobalIsCurated ==
  ASSUME NEW over, NEW project \in BOOLEAN, "MEMORY.md" \in DOMAIN wsGlobal
  PROVE  Curated(LoadWithProject(WsEmbedded, over, project))
<1> DEFINE e == LoadDir(NoFiles, WsEmbedded, 0)
           g == LoadDir(e, wsGlobal, 10)
           a == LoadDir(g, over.agent, 20)
           p == LoadDir(a, over.project, 30)
           q == LoadDir(p, over.projectAgent, 35)
<1>1. \A n \in DOMAIN e : e[n].priority = 0
  BY DEF LoadDir, NoFiles
<1> HIDE DEF e
<1>2. Curated(g)
  BY <1>1 DEF LoadDir, Curated
<1> HIDE DEF g
<1>3. Curated(a)
  BY <1>2, CuratedStays
<1> HIDE DEF a
<1>4. Curated(p)
  BY <1>3, CuratedStays
<1> HIDE DEF p
<1>5. Curated(q)
  BY <1>4, CuratedStays
<1> HIDE DEF q
<1>6. LoadWithProject(WsEmbedded, over, project) = IF project THEN q ELSE a
  BY DEF LoadWithProject, e, g, a, p, q
<1> QED
  BY <1>3, <1>5, <1>6

(* A section is the beginning of its text, as far as it goes in.           *)
LEMMA Beginning ==
  ASSUME NEW X, NEW s \in Seq(X), NEW n \in 0..Len(s)
  PROVE  LET t == SubSeq(s, 1, n)
         IN  t \in Seq(X) /\ Len(t) = n /\ DOMAIN t = 1..n /\ \A i \in 1..n : t[i] = s[i]
<1> DEFINE t == SubSeq(s, 1, n)
           l == Len(s)
<1>1. l \in Nat /\ n \in Nat /\ n <= l /\ 1 \in Int /\ n \in Int /\ \A i \in 1..l : s[i] \in X
  OBVIOUS
<1> HIDE DEF l
<1>2. \A i \in 1..n : s[i] \in X
  BY <1>1
<1>3. /\ t \in Seq(X) /\ Len(t) = (IF 1 <= n THEN n - 1 + 1 ELSE 0)
      /\ \A i \in 1..n - 1 + 1 : t[i] = s[1 + i - 1]
  BY <1>1, <1>2, SubSeqProperties
<1> HIDE DEF t
<1>4. n - 1 + 1 = n /\ (~(1 <= n) => n = 0) /\ \A i \in 1..n : 1 + i - 1 = i
  BY <1>1
<1>5. t \in Seq(X) /\ Len(t) = n
  BY <1>3, <1>4
<1>6. \A i \in 1..n : t[i] = s[i]
  BY <1>3, <1>4
<1> QED
  BY <1>5, <1>6 DEF t

LEMMA TruncatedIs ==
  ASSUME NEW X, NEW q \in Seq(X)
  PROVE  LET t == Truncated(q)
         IN  /\ DOMAIN t \subseteq DOMAIN q /\ DOMAIN t = 1..Len(t) /\ \A i \in DOMAIN t : t[i] = q[i]
             /\ Len(q) <= WsMaxFile => t = q
<1>1. Len(q) \in Nat /\ WsMaxFile \in Nat /\ DOMAIN q = 1..Len(q)
  BY WsAssumption
<1>2. CASE Len(q) > WsMaxFile
  <2> DEFINE t == SubSeq(q, 1, WsMaxFile)
  <2>1. WsMaxFile \in 0..Len(q)
    BY <1>1, <1>2
  <2>2. Len(t) = WsMaxFile /\ DOMAIN t = 1..WsMaxFile /\ \A i \in 1..WsMaxFile : t[i] = q[i]
    BY <2>1, Beginning
  <2>3. Truncated(q) = t /\ ~(Len(q) <= WsMaxFile) /\ 1..WsMaxFile \subseteq 1..Len(q)
    BY <1>1, <1>2 DEF Truncated
  <2> HIDE DEF t
  <2> QED
    BY <1>1, <2>2, <2>3
<1>3. CASE ~(Len(q) > WsMaxFile)
  BY <1>1, <1>3 DEF Truncated
<1> QED
  BY <1>2, <1>3

LEMMA NothingIsTold == Truncated(<<>>) = <<>>
<1>1. WsMaxFile \in Nat
  BY WsAssumption
<1>2. Len(<<>>) = 0 /\ ~(0 > WsMaxFile)
  BY <1>1
<1> QED
  BY <1>2 DEF Truncated

LEMMA SectionIs ==
  ASSUME NEW run, NEW name \in Range(WsSections), NEW section, section = WsAssemble(run)[name]
  PROVE  section.text = IF Fits(section.before, SectionText(run, name))
                        THEN Truncated(SectionText(run, name)) ELSE <<>>
<1> DEFINE before(x) == Befores(run)[CHOOSE i \in DOMAIN WsSections : WsSections[i] = x]
           b == before(name)
           t == IF Fits(b, SectionText(run, name)) THEN Truncated(SectionText(run, name)) ELSE <<>>
<1>1. section = [before |-> b, text |-> t]
  BY DEF WsAssemble
<1> HIDE DEF b
<1>2. section.before = b /\ section.text = t
  <2> HIDE DEF t
  <2> QED
    BY <1>1
<1> QED
  BY <1>2

LEMMA SectionsAre ==
  /\ {"memory", "daily_memory", "skills", "instruction_files"} \subseteq Range(WsSections)
  /\ DOMAIN FileOf \subseteq Range(WsSections)
<1>1. /\ WsSections[2] = "soul" /\ WsSections[4] = "agents" /\ WsSections[8] = "user" /\ WsSections[12] = "tools_doc"
      /\ WsSections[14] = "memory" /\ WsSections[17] = "heartbeat" /\ WsSections[16] = "daily_memory"
      /\ WsSections[13] = "skills" /\ WsSections[10] = "instruction_files"
  BY DEF WsSections
<1>2. DOMAIN WsSections = 1..18
  BY DEF WsSections
<1>3. DOMAIN FileOf = {"soul", "agents", "user", "tools_doc", "memory", "heartbeat"}
  BY DEF FileOf
<1>4. \A i \in 1..18 : WsSections[i] \in Range(WsSections)
  BY <1>2 DEF Range
<1>5. 2 \in 1..18 /\ 4 \in 1..18 /\ 8 \in 1..18 /\ 12 \in 1..18 /\ 14 \in 1..18 /\ 17 \in 1..18
      /\ 16 \in 1..18 /\ 13 \in 1..18 /\ 10 \in 1..18
  OBVIOUS
<1> QED
  BY <1>1, <1>3, <1>4, <1>5

(* What is in a text that is not too long, and fits, is told.              *)
LEMMA FittingIsTold ==
  ASSUME NEW run, NEW name \in Range(WsSections), NEW X, NEW file \in Seq(X), NEW note \in Range(file),
         SectionText(run, name) = file
  PROVE  ToldOf(run, name, file, note)
<1>1. PICK section : section = WsAssemble(run)[name]
  OBVIOUS
<1>2. CASE Fits(section.before, file) /\ Len(file) <= WsMaxFile
  <2>1. section.text = Truncated(file)
    BY <1>1, <1>2, SectionIs
  <2>2. Truncated(file) = file
    BY <1>2, TruncatedIs
  <2> QED
    BY <1>1, <2>1, <2>2 DEF ToldOf
<1>3. CASE ~Fits(section.before, file)
  BY <1>1, <1>3 DEF ToldOf
<1>4. CASE ~(Len(file) <= WsMaxFile)
  <2>1. Len(file) > WsMaxFile
    <3>1. Len(file) \in Nat /\ WsMaxFile \in Nat
      BY WsAssumption
    <3> QED
      BY <1>4, <3>1
  <2> QED
    BY <2>1 DEF ToldOf
<1> QED
  BY <1>2, <1>3, <1>4

LEMMA ThereIsReached == NotesThere => NotesReachPrompts
<1> SUFFICES ASSUME NotesThere, NEW s \in wsSaved
             PROVE  /\ \E f \in MemoryRead("", 0) : s[2] \in Range(f)
                    /\ s[1] = "daily" => \A f \in MemoryRead("", s[3]) : s[2] \in Range(f)
                    /\ \A run \in {r \in WsRuns : r.mode = "full"} :
                          LET files  == LoadWithProject(WsEmbedded, run.over, run.project)
                              memory == LoadMemory(files, wsDay)
                          IN  /\ s[1] = "curated" /\ files["MEMORY.md"].priority = 10 =>
                                    ToldOf(run, "memory", memory.curated, s[2])
                              /\ s[1] = "daily" /\ s[3] = wsDay /\ wsDay \notin DOMAIN wsDaily.daemon =>
                                    ToldOf(run, "daily_memory", memory.today, s[2])
  BY DEF NotesReachPrompts
<1>1. Saved(s[1], s[2], s[3])
  BY DEF NotesThere
<1>2. \E f \in MemoryRead("", 0) : s[2] \in Range(f)
  <2>1. MemoryRead("", 0) = {FileAt(wsGlobal, "MEMORY.md")} \cup Range(wsDaily.global)
    BY DEF MemoryRead
  <2>2. CASE s[1] = "curated"
    BY <1>1, <2>1, <2>2 DEF Saved, FileAt
  <2>3. CASE s[1] = "daily"
    <3>1. wsDaily.global[s[3]] \in Range(wsDaily.global)
      BY <1>1, <2>3 DEF Saved, Range
    <3> QED
      BY <1>1, <2>1, <2>3, <3>1 DEF Saved
  <2> QED
    BY <1>1, <2>2, <2>3 DEF Saved
<1>3. ASSUME s[1] = "daily" PROVE \A f \in MemoryRead("", s[3]) : s[2] \in Range(f)
  BY <1>1, <1>3 DEF Saved, MemoryRead, FileAt
<1>4. ASSUME NEW run \in WsRuns, run.mode = "full",
             NEW files, files = LoadWithProject(WsEmbedded, run.over, run.project),
             s[1] = "curated", files["MEMORY.md"].priority = 10
      PROVE  ToldOf(run, "memory", LoadMemory(files, wsDay).curated, s[2])
  <2>1. Curated(files)
    <3>1. run.project \in BOOLEAN
      BY WsAssumption
    <3> QED
      BY <1>1, <1>4, <3>1, GlobalIsCurated DEF Saved
  <2>2. files["MEMORY.md"].content = wsGlobal["MEMORY.md"] /\ "MEMORY.md" \in DOMAIN files
    BY <1>4, <2>1 DEF Curated
  <2>3. LoadMemory(files, wsDay).curated = wsGlobal["MEMORY.md"]
    BY <2>2 DEF LoadMemory
  <2>4. SectionText(run, "memory") = wsGlobal["MEMORY.md"]
    <3>1. "memory" \in DOMAIN FileOf /\ FileOf["memory"] = "MEMORY.md"
      BY DEF FileOf
    <3>2. Content(run, "memory") = files["MEMORY.md"].content
      BY <1>4, <2>2, <3>1 DEF Content
    <3> QED
      BY <1>4, <2>2, <3>2 DEF SectionText, WsSectionIncluded
  <2>5. wsGlobal["MEMORY.md"] \in Seq(WsNotes) /\ s[2] \in Range(wsGlobal["MEMORY.md"])
    BY <1>1, <1>4 DEF Saved, NotesThere, Files
  <2> QED
    BY <2>3, <2>4, <2>5, SectionsAre, FittingIsTold
<1>5. ASSUME NEW run \in WsRuns, run.mode = "full",
             NEW files, files = LoadWithProject(WsEmbedded, run.over, run.project),
             s[1] = "daily", s[3] = wsDay, wsDay \notin DOMAIN wsDaily.daemon
      PROVE  ToldOf(run, "daily_memory", LoadMemory(files, wsDay).today, s[2])
  <2>1. LoadMemory(files, wsDay).today = wsDaily.global[wsDay]
    BY <1>1, <1>5 DEF Saved, LoadMemory, FileAt
  <2>2. SectionText(run, "daily_memory") = wsDaily.global[wsDay]
    <3>1. "daily_memory" \notin DOMAIN FileOf
      BY DEF FileOf
    <3>2. Content(run, "daily_memory") = LoadMemory(files, wsDay).today
      BY <1>5, <3>1 DEF Content
    <3> QED
      BY <1>5, <2>1, <3>2 DEF SectionText, WsSectionIncluded
  <2>3. wsDaily.global[wsDay] \in Seq(WsNotes) /\ s[2] \in Range(wsDaily.global[wsDay])
    BY <1>1, <1>5 DEF Saved, NotesThere, Files
  <2> QED
    BY <2>1, <2>2, <2>3, SectionsAre, FittingIsTold
<1> QED
  BY <1>2, <1>3, <1>4, <1>5

(* What a memory tool saved is found by every later memory_read, and told  *)
(* to a run with a full prompt that begins now, whatever else is written,  *)
(* unless another layer has its file, that is too long, or the prompt is   *)
(* (memory.go:50, workspace.go:160, :190, context_engine.go:204).          *)
THEOREM SavedNotesAreTold == WsSpec => []NotesReachPrompts
<1>1. WsInit => NotesThere
  BY DEF WsInit, NotesThere, Files, NoFiles
<1> QED
  BY <1>1, NotesStay, ThereIsReached, PTL DEF WsSpec

(* The files are what the first k layers say: for each name the content is *)
(* that of the last layer that has it.                                     *)
LastSays(files, ls, k) ==
  /\ \A i \in 1..k : DOMAIN ls[i] \subseteq DOMAIN files
  /\ \A n \in DOMAIN files : \E i \in 1..k :
        /\ n \in DOMAIN ls[i] /\ files[n].content = ls[i][n]
        /\ \A j \in i + 1..k : n \notin DOMAIN ls[j]

Below(files, priority) == \A n \in DOMAIN files : files[n].priority \in Nat /\ files[n].priority < priority

LEMMA LayerOver ==
  ASSUME NEW files, NEW ls, NEW k \in Nat, LastSays(files, ls, k),
         NEW priority \in Nat, Below(files, priority), NEW next \in Nat, priority < next,
         NEW m, m = k + 1
  PROVE  /\ LastSays(LoadDir(files, ls[m], priority), ls, m)
         /\ Below(LoadDir(files, ls[m], priority), next)
<1> DEFINE dir == ls[k + 1]
           r == LoadDir(files, dir, priority)
<1>1. /\ DOMAIN r = DOMAIN files \cup DOMAIN dir
      /\ \A n \in DOMAIN dir : r[n].content = dir[n] /\ r[n].priority = priority
      /\ \A n \in DOMAIN files : n \notin DOMAIN dir => r[n] = files[n]
  BY DEF LoadDir, Below
<1> HIDE DEF r
<1>2. \A i \in 1..k + 1 : i \in 1..k \/ i = k + 1
  OBVIOUS
<1>3. \A i \in 1..k + 1 : DOMAIN ls[i] \subseteq DOMAIN r
  BY <1>1, <1>2 DEF LastSays
<1>4. ASSUME NEW n \in DOMAIN r
      PROVE  \E i \in 1..k + 1 :
               /\ n \in DOMAIN ls[i] /\ r[n].content = ls[i][n]
               /\ \A j \in i + 1..k + 1 : n \notin DOMAIN ls[j]
  <2>1. CASE n \in DOMAIN dir
    <3>1. k + 1 \in 1..k + 1 /\ r[n].content = ls[k + 1][n]
      BY <1>1, <2>1
    <3>2. \A j \in (k + 1) + 1..k + 1 : FALSE
      OBVIOUS
    <3> QED
      BY <2>1, <3>1, <3>2
  <2>2. CASE n \notin DOMAIN dir
    <3>1. n \in DOMAIN files /\ r[n] = files[n]
      BY <1>1, <2>2
    <3>2. PICK i \in 1..k : /\ n \in DOMAIN ls[i] /\ files[n].content = ls[i][n]
                            /\ \A j \in i + 1..k : n \notin DOMAIN ls[j]
      BY <3>1 DEF LastSays
    <3>3. \A j \in i + 1..k + 1 : j \in i + 1..k \/ j = k + 1
      OBVIOUS
    <3>4. i \in 1..k + 1 /\ \A j \in i + 1..k + 1 : n \notin DOMAIN ls[j]
      BY <2>2, <3>2, <3>3
    <3> QED
      BY <3>1, <3>2, <3>4
  <2> QED
    BY <2>1, <2>2
<1>5. Below(r, next)
  <2>1. ASSUME NEW n \in DOMAIN dir PROVE r[n].priority \in Nat /\ r[n].priority < next
    BY <1>1
  <2>2. ASSUME NEW n \in DOMAIN files, n \notin DOMAIN dir PROVE r[n].priority \in Nat /\ r[n].priority < next
    BY <1>1, <2>2 DEF Below
  <2> QED
    BY <1>1, <2>1, <2>2 DEF Below
<1> QED
  BY <1>3, <1>4, <1>5 DEF LastSays, r

(* One over the other. *)
LEMMA FiveLayers ==
  ASSUME NEW ls, NEW e, NEW g, NEW a, NEW p, NEW q,
         e = LoadDir(NoFiles, ls[1], 0), g = LoadDir(e, ls[2], 10), a = LoadDir(g, ls[3], 20),
         p = LoadDir(a, ls[4], 30), q = LoadDir(p, ls[5], 35)
  PROVE  LastSays(a, ls, 3) /\ LastSays(q, ls, 5)
<1>1. LastSays(NoFiles, ls, 0) /\ Below(NoFiles, 0)
  BY DEF LastSays, Below, NoFiles
<1>2. LastSays(e, ls, 1) /\ Below(e, 10)
  <2>1. 0 \in Nat /\ 10 \in Nat /\ 0 < 10 /\ 1 = 0 + 1
    OBVIOUS
  <2> QED
    BY <1>1, <2>1, LayerOver
<1>3. LastSays(g, ls, 2) /\ Below(g, 20)
  BY <1>2, LayerOver
<1>4. LastSays(a, ls, 3) /\ Below(a, 30)
  BY <1>3, LayerOver
<1>5. LastSays(p, ls, 4) /\ Below(p, 35)
  BY <1>4, LayerOver
<1>6. LastSays(q, ls, 5) /\ Below(q, 36)
  BY <1>5, LayerOver
<1> QED
  BY <1>4, <1>6

(* What a run is told of its files is what its last layers say. *)
LEMMA LayersAreTold ==
  ASSUME NEW over, NEW project \in BOOLEAN, NEW ls,
         ls = <<WsEmbedded, wsGlobal, over.agent>> \o
                (IF project THEN <<over.project, over.projectAgent>> ELSE <<>>)
  PROVE  /\ DOMAIN ls = 1..(IF project THEN 5 ELSE 3)
         /\ LastSays(LoadWithProject(WsEmbedded, over, project), ls, IF project THEN 5 ELSE 3)
<1> DEFINE e == LoadDir(NoFiles, ls[1], 0)
           g == LoadDir(e, ls[2], 10)
           a == LoadDir(g, ls[3], 20)
           p == LoadDir(a, ls[4], 30)
           q == LoadDir(p, ls[5], 35)
<1>1. /\ DOMAIN ls = 1..(IF project THEN 5 ELSE 3)
      /\ ls[1] = WsEmbedded /\ ls[2] = wsGlobal /\ ls[3] = over.agent
      /\ project => ls[4] = over.project /\ ls[5] = over.projectAgent
  OBVIOUS
<1>2. LoadWithProject(WsEmbedded, over, project) = IF project THEN q ELSE a
  BY <1>1 DEF LoadWithProject
<1>3. LastSays(a, ls, 3) /\ LastSays(q, ls, 5)
  BY FiveLayers
<1> HIDE DEF a, q
<1> QED
  BY <1>1, <1>2, <1>3

LEMMA LastIsMax ==
  ASSUME NEW ls, NEW k \in Nat, DOMAIN ls = 1..k, NEW n, NEW i \in 1..k, n \in DOMAIN ls[i],
         \A j \in i + 1..k : n \notin DOMAIN ls[j]
  PROVE  Max({j \in DOMAIN ls : n \in DOMAIN ls[j]}) = i
<1> DEFINE S == {j \in DOMAIN ls : n \in DOMAIN ls[j]}
<1>1. i \in S /\ \A j \in S : j \in Int /\ i >= j
  OBVIOUS
<1> HIDE DEF S
<1>2. \A x \in S : (\A y \in S : x >= y) => x = i
  BY <1>1
<1>3. Max(S) = i
  BY <1>1, <1>2 DEF Max
<1> QED
  BY <1>3 DEF S

-----------------------------------------------------------------------------
(* Skills.                                                                 *)

SkillDir == Seq([name : Nat, v : Nat])

LEMMA NamesFinite ==
  ASSUME NEW d \in SkillDir
  PROVE  /\ NamesOf(d) \subseteq Nat /\ IsFiniteSet(NamesOf(d))
         /\ \A n \in NamesOf(d) : \E i \in 1..Len(d) : d[i].name = n
<1> DEFINE f == [i \in 1..Len(d) |-> d[i].name]
<1>1. /\ Len(d) \in Nat /\ DOMAIN d = 1..Len(d)
      /\ \A i \in 1..Len(d) : d[i].name \in Nat
  <2> DEFINE R == [name : Nat, v : Nat]
  <2>1. \A x \in R : x.name \in Nat
    OBVIOUS
  <2>2. d \in Seq(R)
    BY DEF SkillDir
  <2> HIDE DEF R
  <2>3. Len(d) \in Nat /\ DOMAIN d = 1..Len(d) /\ \A i \in 1..Len(d) : d[i] \in R
    BY <2>2
  <2> QED
    BY <2>1, <2>3
<1>2. NamesOf(d) = {d[i].name : i \in 1..Len(d)}
  BY <1>1 DEF NamesOf, Range
<1>3. f \in Surjection(1..Len(d), NamesOf(d))
  BY <1>1, <1>2 DEF Surjection
<1>4. IsFiniteSet(1..Len(d))
  BY <1>1, FS_Interval
<1>5. IsFiniteSet(NamesOf(d))
  BY <1>3, <1>4, FS_Surjection
<1> QED
  BY <1>1, <1>2, <1>5

(* Both choices are of the directory, and have the name. *)
LEMMA ChosenIsThere ==
  ASSUME NEW d \in SkillDir, NEW n \in NamesOf(d)
  PROVE  /\ FirstOf(d, n) \in Range(d) /\ FirstOf(d, n).name = n
         /\ LastOf(d, n) \in Range(d) /\ LastOf(d, n).name = n
<1> DEFINE S == {i \in DOMAIN d : d[i].name = n}
<1>1. Len(d) \in Nat /\ DOMAIN d = 1..Len(d)
  BY DEF SkillDir
<1>2. S \in SUBSET Int /\ S \in SUBSET (1..Len(d)) /\ S # {}
  BY <1>1, NamesFinite
<1>3. IsFiniteSet(S)
  <2>1. IsFiniteSet(1..Len(d))
    BY <1>1, FS_Interval
  <2> QED
    BY <1>2, <2>1, FS_Subset
<1>4. Min(S) \in S /\ Max(S) \in S
  <2> HIDE DEF S
  <2> QED
    BY <1>2, <1>3, Ends
<1> QED
  BY <1>4 DEF FirstOf, LastOf, Range

(* Of every skill a run is told one of the last directory that has its     *)
(* name, in the order of the names.                                        *)
SkillsAreTop(skills, from) ==
  /\ \A s \in Range(skills) : \E i \in 1..3 :
        s \in Range(from[i]) /\ \A j \in i + 1..3 : s.name \notin NamesOf(from[j])
  /\ \A i, j \in DOMAIN skills : i < j => skills[i].name < skills[j].name

LEMMA SkillsAreTold ==
  ASSUME NEW dirs, NEW allow, NEW project \in BOOLEAN,
         dirs.global \in SkillDir, dirs.agent \in SkillDir, dirs.project \in SkillDir
  PROVE  /\ SkillsAreTop(LoadSkills(dirs, allow, project),
                         <<dirs.global, dirs.agent, IF project THEN dirs.project ELSE <<>> >>)
         /\ \E X : LoadSkills(dirs, allow, project) \in Seq(X)
<1> DEFINE g == ScanSkillsDir(dirs.global)
           a == ScanSkillsDir(dirs.agent)
           p == IF project THEN ScanSkillsDir(dirs.project) ELSE {}
           pick(n) == IF n \in p THEN FirstOf(dirs.project, n)
                      ELSE IF n \in a THEN FirstOf(dirs.agent, n) ELSE LastOf(dirs.global, n)
           names == {n \in g \cup a \cup p : allow = {} \/ n \in allow}
           size == Cardinality(names)
           told == IF size > WsMaxSkills THEN WsMaxSkills ELSE size
           from == <<dirs.global, dirs.agent, IF project THEN dirs.project ELSE <<>> >>
           skills == LoadSkills(dirs, allow, project)
<1>1. dirs.global \in SkillDir /\ dirs.agent \in SkillDir /\ dirs.project \in SkillDir /\ WsMaxSkills \in Nat
  BY WsAssumption
<1>2. skills = [i \in 1..told |-> pick(InOrder(names)[i])]
  BY DEF LoadSkills
<1>3. ASSUME NEW d \in SkillDir PROVE IsFiniteSet(ScanSkillsDir(d)) /\ ScanSkillsDir(d) \subseteq Nat
  <2>1. ScanSkillsDir(d) \in SUBSET NamesOf(d)
    BY DEF ScanSkillsDir
  <2> QED
    BY <2>1, NamesFinite, FS_Subset
<1>4. IsFiniteSet(p) /\ p \subseteq Nat /\ IsFiniteSet(g) /\ g \subseteq Nat /\ IsFiniteSet(a) /\ a \subseteq Nat
  BY <1>1, <1>3, FS_EmptySet
<1>5. names \in SUBSET Int /\ IsFiniteSet(names)
  <2>1. IsFiniteSet(g \cup a)
    BY <1>4, FS_Union
  <2>2. IsFiniteSet((g \cup a) \cup p)
    BY <1>4, <2>1, FS_Union
  <2>3. names \in SUBSET ((g \cup a) \cup p)
    OBVIOUS
  <2> QED
    BY <1>4, <2>2, <2>3, FS_Subset
<1>6. size \in Nat /\ told \in Nat /\ told <= size
  BY <1>1, <1>5, FS_CardinalityType
<1>7. ASSUME NEW n \in names
      PROVE  /\ pick(n).name = n
             /\ \E i \in 1..3 : pick(n) \in Range(from[i]) /\ \A j \in i + 1..3 : n \notin NamesOf(from[j])
  <2>1. from[1] = dirs.global /\ from[2] = dirs.agent /\ from[3] = IF project THEN dirs.project ELSE <<>>
    OBVIOUS
  <2>2. n # 0
    BY DEF ScanSkillsDir
  <2>3. NamesOf(<<>>) = {}
    BY DEF NamesOf, Range
  <2>4. (n \in NamesOf(from[3]) <=> n \in p) /\ (n \in NamesOf(from[2]) <=> n \in a)
    BY <2>1, <2>2, <2>3 DEF ScanSkillsDir
  <2> HIDE DEF from
  <2>5. CASE n \in p
    <3>1. project /\ n \in NamesOf(dirs.project)
      BY <2>5 DEF ScanSkillsDir
    <3>2. FirstOf(dirs.project, n) \in Range(from[3]) /\ FirstOf(dirs.project, n).name = n
      BY <1>1, <2>1, <3>1, ChosenIsThere
    <3>3. 3 \in 1..3 /\ \A j \in 3 + 1..3 : n \notin NamesOf(from[j])
      OBVIOUS
    <3> QED
      BY <2>5, <3>2, <3>3
  <2>6. CASE n \notin p /\ n \in a
    <3>1. n \in NamesOf(dirs.agent)
      BY <2>6 DEF ScanSkillsDir
    <3>2. FirstOf(dirs.agent, n) \in Range(from[2]) /\ FirstOf(dirs.agent, n).name = n
      BY <1>1, <2>1, <3>1, ChosenIsThere
    <3>3. 2 \in 1..3 /\ \A j \in 2 + 1..3 : n \notin NamesOf(from[j])
      <4>1. \A j \in 2 + 1..3 : j = 3
        OBVIOUS
      <4> QED
        BY <2>4, <2>6, <4>1
    <3> QED
      BY <2>6, <3>2, <3>3
  <2>7. CASE n \notin p /\ n \notin a
    <3>1. n \in NamesOf(dirs.global)
      BY <2>7 DEF ScanSkillsDir
    <3>2. LastOf(dirs.global, n) \in Range(from[1]) /\ LastOf(dirs.global, n).name = n
      BY <1>1, <2>1, <3>1, ChosenIsThere
    <3>3. 1 \in 1..3 /\ \A j \in 1 + 1..3 : n \notin NamesOf(from[j])
      <4>1. \A j \in 1 + 1..3 : j = 2 \/ j = 3
        OBVIOUS
      <4> QED
        BY <2>4, <2>7, <4>1
    <3> QED
      BY <2>7, <3>2, <3>3
  <2> QED
    BY <2>5, <2>6, <2>7
<1> HIDE DEF names, pick, from, skills
<1>8. /\ InOrder(names) \in [1..size -> names]
      /\ \A i, j \in 1..size : i < j => InOrder(names)[i] < InOrder(names)[j]
  BY <1>5, InOrderIs
<1> HIDE DEF size
<1>9. /\ DOMAIN skills = 1..told
      /\ \A i \in 1..told : i \in 1..size /\ skills[i] = pick(InOrder(names)[i]) /\ InOrder(names)[i] \in names
  BY <1>2, <1>6, <1>8
<1>b. told \in Nat /\ skills = [i \in 1..told |-> pick(InOrder(names)[i])]
  BY <1>2, <1>6
<1> HIDE DEF told
<1>10. ASSUME NEW s \in Range(skills)
       PROVE  \E i \in 1..3 : s \in Range(from[i]) /\ \A j \in i + 1..3 : s.name \notin NamesOf(from[j])
  <2>1. PICK i \in 1..told : s = skills[i]
    BY <1>9, <1>10 DEF Range
  <2> DEFINE n == InOrder(names)[i]
  <2>2. n \in names /\ s = pick(n)
    BY <1>9, <2>1
  <2> QED
    BY <1>7, <2>2
<1>11. ASSUME NEW i \in DOMAIN skills, NEW j \in DOMAIN skills, i < j
       PROVE  skills[i].name < skills[j].name
  BY <1>7, <1>8, <1>9, <1>11
<1>12. skills \in Seq(Range(skills))
  <2>1. skills \in [1..told -> Range(skills)]
    BY <1>b, <1>9 DEF Range
  <2> QED
    BY <1>b, <2>1
<1> QED
  BY <1>10, <1>11, <1>12 DEF SkillsAreTop, from, skills

(* No instruction is told twice. *)
LEMMA InstructionsDiffer ==
  ASSUME NEW texts \in Seq(STRING)
  PROVE  /\ IsInjective(DiscoverInstructionFiles(texts))
         /\ \E X : DiscoverInstructionFiles(texts) \in Seq(X)
<1> DEFINE S == {i \in DOMAIN texts : IsKept(texts, i)}
           o == InOrder(S)
           n == Cardinality(S)
<1>1. Len(texts) \in Nat /\ DOMAIN texts = 1..Len(texts)
  OBVIOUS
<1>2. S \in SUBSET Int /\ S \in SUBSET (1..Len(texts))
  BY <1>1
<1>3. IsFiniteSet(S)
  <2>1. IsFiniteSet(1..Len(texts))
    BY <1>1, FS_Interval
  <2> QED
    BY <1>2, <2>1, FS_Subset
<1>4. ASSUME NEW i \in S, NEW j \in S, i < j PROVE texts[i] # texts[j]
  <2>1. IsKept(texts, j) /\ i \in 1..Len(texts) /\ j \in 1..Len(texts)
    BY <1>1
  <2>2. i \in 1..j - 1
    BY <1>1, <1>4, <2>1
  <2> QED
    BY <2>1, <2>2 DEF IsKept
<1>5. DiscoverInstructionFiles(texts) = [k \in 1..n |-> texts[o[k]]]
  BY DEF DiscoverInstructionFiles, AtPlaces
<1> HIDE DEF S
<1>6. n \in Nat /\ o \in [1..n -> S] /\ \A i, j \in 1..n : i < j => o[i] < o[j]
  BY <1>2, <1>3, InOrderIs
<1> HIDE DEF n, o
<1>7. ASSUME NEW i \in 1..n, NEW j \in 1..n, i < j PROVE texts[o[i]] # texts[o[j]]
  BY <1>4, <1>6, <1>7
<1>8. ASSUME NEW i \in 1..n, NEW j \in 1..n, texts[o[i]] = texts[o[j]] PROVE i = j
  <2>1. i \in Int /\ j \in Int
    BY <1>6
  <2> QED
    BY <1>7, <1>8, <2>1
<1>9. DiscoverInstructionFiles(texts) \in Seq({texts[i] : i \in S})
  BY <1>5, <1>6
<1>10. IsInjective(DiscoverInstructionFiles(texts))
  <2> SUFFICES ASSUME NEW i \in DOMAIN DiscoverInstructionFiles(texts),
                      NEW j \in DOMAIN DiscoverInstructionFiles(texts),
                      DiscoverInstructionFiles(texts)[i] = DiscoverInstructionFiles(texts)[j]
               PROVE  i = j
    BY DEF IsInjective
  <2>1. i \in 1..n /\ j \in 1..n /\ texts[o[i]] = texts[o[j]]
    BY <1>5
  <2> QED
    BY <1>8, <2>1
<1> QED
  BY <1>9, <1>10

-----------------------------------------------------------------------------
(* A section made of a file is what the last layer says, up to its limit.  *)
LEMMA FileIsTold ==
  ASSUME NEW run \in WsRuns, NEW p, NEW name \in DOMAIN FileOf,
         p = [run |-> run, global |-> wsGlobal, sections |-> WsAssemble(run)]
  PROVE  SaysAll(p, name, LastLayer(LayersOf(p), FileOf[name]))
<1> DEFINE files == LoadWithProject(WsEmbedded, run.over, run.project)
           ls == LayersOf(p)
           k == IF run.project THEN 5 ELSE 3
           file == FileOf[name]
           text == LastLayer(ls, file)
           section == WsAssemble(run)[name]
<1>1. DOMAIN ls = 1..k /\ LastSays(files, ls, k) /\ k \in Nat
  <2>1. ls = <<WsEmbedded, wsGlobal, run.over.agent>> \o
               (IF run.project THEN <<run.over.project, run.over.projectAgent>> ELSE <<>>)
    BY DEF LayersOf
  <2>2. run.project \in BOOLEAN
    BY WsAssumption
  <2> HIDE DEF ls
  <2> QED
    BY <2>1, <2>2, LayersAreTold
<1> HIDE DEF ls, k
<1>2. Content(run, name) = text
  <2>1. Content(run, name) = IF file \in DOMAIN files THEN files[file].content ELSE <<>>
    <3>1. name \notin {"daily_memory", "skills", "standing_orders", "instruction_files"}
      BY DEF FileOf
    <3>2. CASE name \in DOMAIN FileOf
      BY <3>1, <3>2 DEF Content
    <3> QED
      BY <3>2
  <2> HIDE DEF files, file
  <2>2. CASE file \in DOMAIN files
    <3>1. PICK i \in 1..k : /\ file \in DOMAIN ls[i] /\ files[file].content = ls[i][file]
                            /\ \A j \in i + 1..k : file \notin DOMAIN ls[j]
      BY <1>1, <2>2 DEF LastSays
    <3>2. Max({j \in DOMAIN ls : file \in DOMAIN ls[j]}) = i
      BY <1>1, <3>1, LastIsMax
    <3>3. i \in {j \in DOMAIN ls : file \in DOMAIN ls[j]}
      BY <1>1, <3>1
    <3> QED
      BY <2>1, <2>2, <3>1, <3>2, <3>3 DEF LastLayer
  <2>3. CASE file \notin DOMAIN files
    <3>1. {j \in DOMAIN ls : file \in DOMAIN ls[j]} = {}
      BY <1>1, <2>3 DEF LastSays
    <3> QED
      BY <2>1, <2>3, <3>1 DEF LastLayer
  <2> QED
    BY <2>2, <2>3
<1> HIDE DEF text, section
<1>3. section.text = IF Fits(section.before, SectionText(run, name))
                     THEN Truncated(SectionText(run, name)) ELSE <<>>
  BY SectionIs, SectionsAre DEF section
<1>4. SectionText(run, name) = IF WsSectionIncluded(name, run.mode) THEN text ELSE <<>>
  BY <1>2 DEF SectionText
<1>5. section.text = IF WsSectionIncluded(name, run.mode) /\ Fits(section.before, text)
                     THEN Truncated(text) ELSE <<>>
  BY <1>3, <1>4, NothingIsTold
<1>6. p.sections[name] = section /\ p.run = run
  BY DEF section
<1> QED
  BY <1>5, <1>6 DEF SaysAll, text, ls, file

(* The other sections are beginnings of what was loaded.                   *)
LEMMA LoadedIsTold ==
  ASSUME NEW run, NEW name \in Range(WsSections), NEW X, NEW q \in Seq(X), Content(run, name) = q
  PROVE  LET t == WsAssemble(run)[name].text
         IN  /\ DOMAIN t \subseteq DOMAIN q /\ \A i \in DOMAIN t : t[i] = q[i]
<1> DEFINE t == WsAssemble(run)[name].text
<1>1. t \in {Truncated(q), Truncated(<<>>), <<>>}
  BY SectionIs DEF SectionText
<1>2. t = Truncated(q) \/ t = <<>>
  BY <1>1, NothingIsTold
<1> HIDE DEF t
<1>3. DOMAIN t \subseteq DOMAIN q /\ \A i \in DOMAIN t : t[i] = q[i]
  BY <1>2, TruncatedIs
<1> QED
  BY <1>3 DEF t

LEMMA RunIsToldTheTop ==
  ASSUME NEW run \in WsRuns, NEW p, p = [run |-> run, global |-> wsGlobal, sections |-> WsAssemble(run)]
  PROVE  /\ \A name \in DOMAIN FileOf : SaysAll(p, name, LastLayer(LayersOf(p), FileOf[name]))
         /\ SkillsAreTop(p.sections["skills"].text, SkillsOf(p))
         /\ IsInjective(p.sections["instruction_files"].text)
<1>0. /\ run.project \in BOOLEAN /\ run.texts \in Seq(STRING)
      /\ run.skills.global \in SkillDir /\ run.skills.agent \in SkillDir /\ run.skills.project \in SkillDir
  BY WsAssumption DEF SkillDir
<1>1. p.sections = WsAssemble(run) /\ p.run = run
  OBVIOUS
<1>2. "skills" \notin DOMAIN FileOf /\ "instruction_files" \notin DOMAIN FileOf
  BY DEF FileOf
<1>3. SkillsAreTop(p.sections["skills"].text, SkillsOf(p))
  <2> DEFINE q == LoadSkills(run.skills, run.allow, run.project)
             from == SkillsOf(p)
             t == WsAssemble(run)["skills"].text
  <2>1. SkillsAreTop(q, from) /\ \E X : q \in Seq(X)
    <3>1. from = <<run.skills.global, run.skills.agent, IF run.project THEN run.skills.project ELSE <<>> >>
      BY <1>1 DEF SkillsOf
    <3> HIDE DEF from
    <3> QED
      BY <1>0, <3>1, SkillsAreTold
  <2>2. Content(run, "skills") = q
    BY <1>2 DEF Content
  <2>3. DOMAIN t \subseteq DOMAIN q /\ \A i \in DOMAIN t : t[i] = q[i]
    BY <2>1, <2>2, SectionsAre, LoadedIsTold
  <2> HIDE DEF q, from, t
  <2>4. Range(t) \subseteq Range(q)
    BY <2>3 DEF Range
  <2>5. SkillsAreTop(t, from)
    BY <2>1, <2>3, <2>4 DEF SkillsAreTop
  <2> QED
    BY <1>1, <2>5 DEF t, from
<1>4. IsInjective(p.sections["instruction_files"].text)
  <2> DEFINE t == WsAssemble(run)["instruction_files"].text
             q == DiscoverInstructionFiles(run.texts)
  <2>1. IsInjective(q) /\ \E X : q \in Seq(X)
    BY <1>0, InstructionsDiffer
  <2>2. CASE "instruction_files" \in run.features
    <3>1. Content(run, "instruction_files") = q
      BY <1>2, <2>2 DEF Content
    <3>2. DOMAIN t \subseteq DOMAIN q /\ \A i \in DOMAIN t : t[i] = q[i]
      BY <2>1, <3>1, SectionsAre, LoadedIsTold
    <3> HIDE DEF q, t
    <3>3. IsInjective(t)
      BY <2>1, <3>2 DEF IsInjective
    <3> QED
      BY <1>1, <3>3 DEF t
  <2>3. CASE "instruction_files" \notin run.features
    <3>2. Content(run, "instruction_files") = <<>>
      BY <1>2, <2>3 DEF Content
    <3>3. <<>> \in Seq({}) /\ DOMAIN <<>> = {}
      OBVIOUS
    <3>4. DOMAIN t = {}
      <4>1. DOMAIN t \subseteq DOMAIN <<>>
        BY <3>2, <3>3, SectionsAre, LoadedIsTold
      <4> HIDE DEF t
      <4> QED
        BY <3>3, <4>1
    <3> HIDE DEF t
    <3>5. IsInjective(t)
      BY <3>4 DEF IsInjective
    <3> QED
      BY <1>1, <3>5 DEF t
  <2> QED
    BY <2>2, <2>3
<1> QED
  BY <1>3, <1>4, FileIsTold

(* What was saved is told, and what a run was told is what the last layer  *)
(* says, within the limits of its prompt, for any files, skills,           *)
(* instructions and runs (workspace.go:144, skills.go:70, loader.go:211,   *)
(* context_engine.go:173).                                                 *)
THEOREM RunsAreTold == WsSpec => []RunIsTold
<1>1. WsInit => TopLayerWins
  BY DEF WsInit, TopLayerWins
<1>2. TopLayerWins /\ [WsNext]_wsVars => TopLayerWins'
  <2> SUFFICES ASSUME TopLayerWins, [WsNext]_wsVars PROVE TopLayerWins'
    OBVIOUS
  <2>1. ASSUME NEW run \in WsRuns, RunLoads(run) PROVE TopLayerWins'
    <3>1. PICK p : p = [run |-> run, global |-> wsGlobal, sections |-> WsAssemble(run)]
      OBVIOUS
    <3>2. wsPrompt' = {p}
      BY <2>1, <3>1 DEF RunLoads
    <3> QED
      BY <3>1, <3>2, RunIsToldTheTop DEF TopLayerWins, SkillsAreTop
  <2>2. CASE wsPrompt' = wsPrompt
    BY <2>2 DEF TopLayerWins
  <2> QED
    BY <2>1, <2>2 DEF WsNext, wsVars, MemoryWrite, MemoryWriteDailyOnly, MemoryRefused, ProjectNotes,
                      NextDay
<1> QED
  BY <1>1, <1>2, SavedNotesAreTold, PTL DEF RunIsTold, WsSpec

-----------------------------------------------------------------------------
(* Compaction.                                                             *)

(* What an entry tells and not whole is too long for one of a summary. *)
EntriesOf(roles) == {m \in [role : roles, tells : SUBSET Nat, whole : SUBSET Nat] :
                   m.tells \subseteq m.whole \cup CmLong}
LogRoles == {"user", "call", "assistant", "tool", "system", "compaction"}
LogEntries == EntriesOf(LogRoles)
HistEntries == EntriesOf(LogRoles \cup {"summary"})
Speaks(m) == m.role \in {"user", "call", "assistant"}

(* What was said in a log, and what a history made of it tells. *)
Said(log) == {x \in Nat : \E i \in DOMAIN log : Speaks(log[i]) /\ x \in log[i].tells}
StillTold(log) == {x \in Nat : \E i \in DOMAIN log : /\ x \in log[i].tells
                  /\ \A j \in DOMAIN log : log[j].role = "compaction" => j <= i}

(* Every message says one thing, newer than all before it, below bound. *)
InTurnSaid(log, bound) ==
  /\ log \in Seq(LogEntries)
  /\ \A i \in DOMAIN log : Speaks(log[i]) => \E x \in Nat : x < bound /\ log[i].tells = {x}
  /\ \A i \in DOMAIN log : log[i].role \in {"tool", "system"} => log[i].tells = {}
  /\ \A i, j \in DOMAIN log : i < j /\ Speaks(log[i]) /\ Speaks(log[j]) =>
        \A x \in log[i].tells, y \in log[j].tells : x < y

LaterThan(S, x) == {y \in S : y > x}
LostIs(log, tails) == \A x \in Said(log) \ StillTold(log) :
  Cardinality(LaterThan(Said(log), x)) >= CmTimeline \/ x \in tails

CmInv ==
  /\ cmRuns \in Nat /\ InTurnSaid(cmLog, 3 * cmRuns) /\ LostIs(cmLog, cmTails)
  /\ cmAt = "run" => StillTold(cmLog) \subseteq Tells(cmHist) /\ cmHist \in Seq(HistEntries)

LEMMA LogIsHist == LogEntries \subseteq HistEntries
BY DEF LogEntries, HistEntries, EntriesOf

LEMMA OfLog ==
  ASSUME NEW m \in LogEntries
  PROVE  m.role \in LogRoles /\ m.tells \in SUBSET Nat /\ m.whole \in SUBSET Nat
BY DEF LogEntries, EntriesOf

LEMMA MessageIs ==
  ASSUME NEW role, NEW things
  PROVE  LET m == Message(role, things)
         IN  /\ m.role = role /\ m.tells = things
             /\ role \in LogRoles /\ things \in SUBSET Nat => m \in LogEntries
BY DEF Message, LogEntries, EntriesOf

LEMMA DigestIs ==
  ASSUME NEW role, NEW of
  PROVE  LET m == Digest(role, of)
         IN  /\ m.role = role /\ m.tells = of.tells
             /\ of.tells \in SUBSET Nat /\ of.whole \in SUBSET Nat /\ of.tells \subseteq of.whole \cup CmLong =>
                   (role \in LogRoles => m \in LogEntries) /\ (role = "summary" => m \in HistEntries)
BY DEF Digest, LogEntries, HistEntries, EntriesOf

(* The history begins with the entry after place o of the log, or with a   *)
(* summary in its place, and goes on as the log does.                      *)
LEMMA RebuiltFrom ==
  ASSUME NEW log \in Seq(LogEntries)
  PROVE  \E o \in Nat :
           LET r == RebuildMessages(log)
           IN  /\ r \in Seq(HistEntries) /\ DOMAIN r = 1..Len(log) - o /\ Len(r) = Len(log) - o
               /\ o <= Len(log) /\ (o = Len(log) => o = 0)
               /\ \A k \in 2..Len(r) : r[k] = log[o + k]
               /\ \A j \in o + 2..Len(log) : log[j].role # "compaction"
               /\ Len(r) > 0 => \/ r[1] = log[o + 1] /\ o = 0 /\ log[1].role # "compaction"
                                \/ r[1] = Digest("summary", log[o + 1]) /\ log[o + 1].role = "compaction"
<1> DEFINE at == {i \in DOMAIN log : log[i].role = "compaction"}
           r == RebuildMessages(log)
<1>0. Len(log) \in Nat /\ DOMAIN log = 1..Len(log)
  OBVIOUS
<1>1. CASE at = {}
  <2>1. r = log /\ \A i \in DOMAIN log : log[i].role # "compaction"
    BY <1>1 DEF RebuildMessages
  <2>2. r \in Seq(HistEntries)
    <3> QED
      BY <2>1, LogIsHist
  <2> DEFINE l == Len(log)
  <2>3. /\ r = log /\ Len(r) = l - 0 /\ DOMAIN r = 1..l - 0 /\ 0 <= l /\ 0 \in Nat
        /\ \A k \in 2..Len(r) : r[k] = log[0 + k]
        /\ \A j \in 0 + 2..l : log[j].role # "compaction"
        /\ Len(r) > 0 => r[1] = log[0 + 1] /\ log[1].role # "compaction"
    <3>1. l \in Nat /\ l - 0 = l /\ Len(r) = l /\ 0 + 1 = 1 /\ 0 <= l
      BY <1>0, <2>1
    <3>2. \A k \in 2..l : 0 + k = k /\ k \in 1..l
      BY <3>1
    <3>3. l > 0 => 1 \in 1..l
      BY <3>1
    <3> HIDE DEF l, r
    <3> QED
      BY <1>0, <2>1, <3>1, <3>2, <3>3 DEF l
  <2> HIDE DEF r
  <2> QED
    BY <2>2, <2>3 DEF r
<1>2. CASE at # {}
  <2>1. IsFiniteSet(at) /\ at \in SUBSET Int
    <3>1. IsFiniteSet(1..Len(log)) /\ at \in SUBSET (1..Len(log))
      BY <1>0, FS_Interval
    <3> QED
      BY <3>1, FS_Subset
  <2>2. PICK a \in at : a = Max(at) /\ \A y \in at : y <= a
    <3> HIDE DEF at
    <3> QED
      BY <1>2, <2>1, Ends
  <2>3. r = <<Digest("summary", log[a])>> \o SubSeq(log, a + 1, Len(log))
    BY <1>2, <2>2 DEF RebuildMessages
  <2>4. a \in 1..Len(log) /\ log[a].role = "compaction" /\ \A j \in a + 1..Len(log) : log[j].role # "compaction"
    <3>1. a \in 1..Len(log) /\ log[a].role = "compaction"
      BY <1>0, <2>2
    <3>2. ASSUME NEW j \in a + 1..Len(log) PROVE log[j].role # "compaction"
      <4>1. j \in 1..Len(log) /\ ~(j <= a)
        BY <1>0, <3>1
      <4>2. j \notin at
        BY <2>2, <4>1
      <4> QED
        BY <1>0, <4>1, <4>2
    <3> QED
      BY <3>1, <3>2
  <2> HIDE DEF at
  <2> DEFINE m == Digest("summary", log[a])
             q == SubSeq(log, a + 1, Len(log))
             X == HistEntries
             o == a - 1
  <2>5. q \in Seq(X) /\ Len(q) = Len(log) - a /\ \A k \in 1..Len(q) : q[k] = log[a + k]
    <3>1. q \in Seq(LogEntries) /\ Len(q) = Len(log) - a /\ \A k \in 1..Len(q) : q[k] = log[a + k]
      <4>1. a + 1 \in 1..Len(log) + 1 /\ Len(log) \in 0..Len(log) /\ Len(log) >= a /\ a \in Nat
        BY <1>0, <2>4
      <4>2. /\ q \in Seq(LogEntries) /\ Len(q) = (IF a + 1 <= Len(log) THEN Len(log) - (a + 1) + 1 ELSE 0)
            /\ \A k \in 1..Len(log) - (a + 1) + 1 : q[k] = log[a + 1 + k - 1]
        BY <4>1, SubSeqProperties
      <4> HIDE DEF q
      <4>3. \A k \in 1..Len(log) - a : a + 1 + k - 1 = a + k
        BY <1>0, <4>1
      <4>4. Len(log) - (a + 1) + 1 = Len(log) - a /\ Len(q) = Len(log) - a
        <5> DEFINE n == Len(log)
                   z == Len(q)
        <5>1. n \in Nat /\ n >= a /\ a \in Nat /\ z = (IF a + 1 <= n THEN n - (a + 1) + 1 ELSE 0)
          BY <1>0, <4>1, <4>2
        <5> HIDE DEF n, z
        <5>2. n - (a + 1) + 1 = n - a /\ z = n - a
          BY <5>1
        <5> QED
          BY <5>2 DEF n, z
      <4> QED
        BY <4>2, <4>3, <4>4
    <3> HIDE DEF q
    <3> QED
      BY <3>1, LogIsHist
  <2>6. m \in X
    <3>1. log[a] \in LogEntries
      BY <2>4
    <3> DEFINE e == log[a]
    <3>2. /\ e.tells \in SUBSET Nat /\ e.whole \in SUBSET Nat /\ e.tells \subseteq e.whole \cup CmLong
      BY <3>1 DEF LogEntries, EntriesOf
    <3> HIDE DEF e
    <3>3. Digest("summary", e) \in HistEntries
      BY <3>2, DigestIs
    <3> QED
      BY <3>3 DEF e
  <2> HIDE DEF m, q, X
  <2>7. r \in Seq(X) /\ Len(r) = Len(q) + 1 /\ r[1] = m /\ \A k \in 2..Len(r) : r[k] = q[k - 1]
    BY <2>3, <2>5, <2>6 DEF m, q
  <2>8. r \in Seq(HistEntries) /\ DOMAIN r = 1..Len(r)
    BY <2>7 DEF X
  <2> HIDE DEF r
  <2>9. \A k \in 2..Len(r) : r[k] = log[o + k]
    <3> TAKE k \in 2..Len(r)
    <3>1. k - 1 \in 1..Len(q) /\ a + (k - 1) = o + k
      BY <2>4, <2>5, <2>7
    <3> QED
      BY <3>1, <2>5, <2>7
  <2>10. o \in Nat /\ o + 1 = a /\ o + 2 = a + 1 /\ Len(r) = Len(log) - o /\ o < Len(log)
    BY <1>0, <2>4, <2>5, <2>7
  <2> HIDE DEF o
  <2>11. /\ r[1] = Digest("summary", log[o + 1]) /\ log[o + 1].role = "compaction"
         /\ \A j \in o + 2..Len(log) : log[j].role # "compaction"
    BY <2>4, <2>7, <2>10 DEF m
  <2> DEFINE c == log[o + 1]
  <2>12. Len(r) > 0 => r[1] = Digest("summary", c) /\ c.role = "compaction"
    BY <2>11
  <2>13. DOMAIN r = 1..Len(log) - o /\ o <= Len(log) /\ (o = Len(log) => o = 0)
    <3> DEFINE l == Len(log)
               n == Len(r)
    <3>1. l \in Nat /\ o \in Nat /\ n = l - o /\ o < l /\ DOMAIN r = 1..n
      BY <1>0, <2>8, <2>10
    <3> HIDE DEF l, n
    <3>2. o <= l /\ (o = l => o = 0) /\ DOMAIN r = 1..l - o
      BY <3>1
    <3> QED
      BY <3>2 DEF l
  <2> HIDE DEF c
  <2> QED
    BY <2>8, <2>9, <2>10, <2>11, <2>12, <2>13 DEF r, c
<1> QED
  BY <1>1, <1>2

(* So it tells what the entries say that no compaction comes after. *)
LEMMA RebuiltTells ==
  ASSUME NEW log \in Seq(LogEntries)
  PROVE  Tells(RebuildMessages(log)) = StillTold(log)
<1> DEFINE r == RebuildMessages(log)
<1>0. Len(log) \in Nat /\ DOMAIN log = 1..Len(log) /\ \A i \in 1..Len(log) : log[i].tells \in SUBSET Nat
  <2>1. \A i \in 1..Len(log) : log[i] \in LogEntries
    OBVIOUS
  <2> QED
    BY <2>1, OfLog
<1>1. PICK o \in Nat :
        /\ DOMAIN r = 1..Len(log) - o /\ Len(r) = Len(log) - o
        /\ o <= Len(log) /\ (o = Len(log) => o = 0)
        /\ \A k \in 2..Len(r) : r[k] = log[o + k]
        /\ \A j \in o + 2..Len(log) : log[j].role # "compaction"
        /\ Len(r) > 0 => \/ r[1] = log[o + 1] /\ o = 0 /\ log[1].role # "compaction"
                         \/ r[1] = Digest("summary", log[o + 1]) /\ log[o + 1].role = "compaction"
  BY RebuiltFrom
<1> DEFINE l == Len(log)
           n == Len(r)
           IsCut(j) == log[j].role = "compaction"
<1>a. /\ l \in Nat /\ n = l - o /\ o <= l /\ (o = l => o = 0) /\ n \in Nat
      /\ DOMAIN r = 1..n /\ DOMAIN log = 1..l
      /\ \A j \in o + 2..l : ~IsCut(j)
      /\ n > 0 => o = 0 \/ IsCut(o + 1)
  <2>1. l \in Nat /\ n = l - o /\ o <= l /\ (o = l => o = 0) /\ DOMAIN r = 1..n /\ DOMAIN log = 1..l
    BY <1>0, <1>1
  <2>2. \A j \in o + 2..l : ~IsCut(j)
    BY <1>1
  <2>3. n > 0 => o = 0 \/ IsCut(o + 1)
    BY <1>1
  <2> HIDE DEF l, n, r, IsCut
  <2>4. n \in Nat
    BY <2>1
  <2> QED
    BY <2>1, <2>2, <2>3, <2>4
<1>b. /\ n > 0 => r[1].tells = log[o + 1].tells
      /\ \A k \in 2..n : r[k] = log[o + k]
  <2>1. ASSUME n > 0 PROVE r[1].tells = log[o + 1].tells
    <3>1. CASE r[1] = log[o + 1]
      BY <3>1
    <3>2. CASE r[1] = Digest("summary", log[o + 1])
      <4> DEFINE t == log[o + 1]
      <4> HIDE DEF t
      <4>1. Digest("summary", t).tells = t.tells
        BY DigestIs
      <4> QED
        BY <3>2, <4>1 DEF t
    <3> QED
      BY <1>1, <2>1, <3>1, <3>2
  <2> QED
    BY <1>1, <2>1
<1> HIDE DEF r, l, n, IsCut
<1>2. ASSUME NEW k \in 1..n PROVE r[k].tells = log[o + k].tells
  <2>1. k = 1 \/ k \in 2..n
    BY <1>a
  <2>2. n > 0
    BY <1>a
  <2> QED
    BY <1>b, <2>1, <2>2
<1>3. ASSUME NEW k \in 1..n PROVE \A j \in 1..l : IsCut(j) => j <= o + k
  <2> TAKE j \in 1..l
  <2>1. j <= o + k \/ j \in o + 2..l
    BY <1>a
  <2> QED
    BY <1>a, <2>1
<1>4. ASSUME NEW i \in 1..l, \A j \in 1..l : IsCut(j) => j <= i
      PROVE  i - o \in 1..n /\ o + (i - o) = i
  <2>1. n > 0 /\ o + 1 \in 1..l
    BY <1>a
  <2>3. o = 0 \/ o + 1 <= i
    BY <1>4, <1>a, <2>1
  <2> QED
    BY <1>a, <2>3
<1>c. \A i \in 1..l : log[i].tells \in SUBSET Nat
  BY <1>0 DEF l
<1>5. ASSUME NEW x \in Tells(r) PROVE x \in StillTold(log)
  <2>1. PICK k \in 1..n : x \in r[k].tells
    BY <1>a DEF Tells
  <2>2. o + k \in 1..l /\ x \in log[o + k].tells
    BY <1>a, <1>2, <2>1
  <2> QED
    BY <1>a, <1>c, <1>3, <2>2 DEF StillTold, IsCut
<1>6. ASSUME NEW x \in StillTold(log) PROVE x \in Tells(r)
  <2>1. PICK i \in 1..l : x \in log[i].tells /\ \A j \in 1..l : IsCut(j) => j <= i
    BY <1>a DEF StillTold, IsCut
  <2>2. i - o \in 1..n /\ x \in r[i - o].tells
    BY <1>2, <1>4, <2>1
  <2> QED
    BY <1>a, <2>2 DEF Tells
<1> QED
  BY <1>5, <1>6 DEF r

LEMMA SaidFinite ==
  ASSUME NEW log, NEW bound \in Nat, InTurnSaid(log, bound), NEW x
  PROVE  IsFiniteSet(LaterThan(Said(log), x))
<1>1. \A y \in Said(log) : y \in Nat /\ y <= bound
  BY DEF Said, InTurnSaid
<1>2. IsFiniteSet(Said(log))
  BY <1>1, FS_BoundedSetOfNaturals
<1> QED
  BY <1>2, FS_Subset DEF LaterThan

(* A message that was added loses nothing. *)
LEMMA OneMore ==
  ASSUME NEW log, NEW bound \in Nat, NEW tails, InTurnSaid(log, bound), LostIs(log, tails),
         NEW m \in LogEntries, NEW next \in Nat, bound <= next,
         \/ m.role \in {"tool", "system"} /\ m.tells = {}
         \/ Speaks(m) /\ \E x \in Nat : bound <= x /\ x < next /\ m.tells = {x}
  PROVE  LET new == Append(log, m)
         IN  InTurnSaid(new, next) /\ LostIs(new, tails) /\ Said(log) \subseteq Said(new)
<1> DEFINE new == Append(log, m)
           l == Len(log)
<1>0. log \in Seq(LogEntries) /\ m.role # "compaction"
  BY DEF InTurnSaid, Speaks
<1>1. /\ l \in Nat /\ DOMAIN log = 1..l /\ DOMAIN new = 1..l + 1 /\ new \in Seq(LogEntries)
      /\ new[l + 1] = m /\ \A i \in 1..l : new[i] = log[i] /\ i \in Int
  BY <1>0
<1> HIDE DEF new, l
<1>2. InTurnSaid(new, next)
  <2>1. \A i \in 1..l + 1 : i \in 1..l \/ i = l + 1
    BY <1>1
  <2>2. \A i \in DOMAIN new : Speaks(new[i]) => \E x \in Nat : x < next /\ new[i].tells = {x}
    <3> TAKE i \in DOMAIN new
    <3>1. CASE i \in 1..l
      <4>1. Speaks(log[i]) => \E x \in Nat : x < bound /\ log[i].tells = {x}
        BY <1>1, <3>1 DEF InTurnSaid
      <4> QED
        BY <1>1, <3>1, <4>1
    <3>2. CASE i = l + 1
      BY <1>1, <3>2 DEF Speaks
    <3> QED
      BY <1>1, <2>1, <3>1, <3>2
  <2>3. \A i \in DOMAIN new : new[i].role \in {"tool", "system"} => new[i].tells = {}
    BY <1>1, <2>1 DEF InTurnSaid, Speaks
  <2>4. ASSUME NEW i \in DOMAIN new, NEW j \in DOMAIN new, i < j, Speaks(new[i]), Speaks(new[j]),
               NEW x \in new[i].tells, NEW y \in new[j].tells
        PROVE  x < y
    <3>1. i \in 1..l
      BY <1>1, <2>4
    <3>2. CASE j \in 1..l
      BY <1>1, <2>4, <3>1, <3>2 DEF InTurnSaid
    <3>3. CASE j = l + 1
      <4>1. x \in Nat /\ x < bound
        BY <1>1, <2>4, <3>1 DEF InTurnSaid
      <4>2. y \in Nat /\ bound <= y
        BY <1>1, <2>4, <3>3 DEF Speaks
      <4> QED
        BY <4>1, <4>2
    <3> QED
      BY <1>1, <2>1, <3>2, <3>3
  <2> QED
    BY <1>1, <2>2, <2>3, <2>4 DEF InTurnSaid
<1>3. Said(log) \subseteq Said(new)
  BY <1>1 DEF Said
<1>4. StillTold(log) \subseteq StillTold(new)
  <2> SUFFICES ASSUME NEW x \in StillTold(log) PROVE x \in StillTold(new)
    OBVIOUS
  <2>1. PICK i \in 1..l : x \in log[i].tells /\ \A j \in 1..l : log[j].role = "compaction" => j <= i
    BY <1>1 DEF StillTold
  <2>2. \A j \in 1..l + 1 : j \in 1..l \/ j = l + 1
    BY <1>1
  <2>3. i \in DOMAIN new /\ x \in new[i].tells /\ \A j \in DOMAIN new : new[j].role = "compaction" => j <= i
    BY <1>0, <1>1, <2>1, <2>2
  <2> QED
    BY <2>3 DEF StillTold
<1>5. ASSUME NEW x \in Said(new) \ StillTold(new) PROVE x \in Said(log)
  <2>1. PICK i \in 1..l + 1 : Speaks(new[i]) /\ x \in new[i].tells
    BY <1>1 DEF Said
  <2>2. i # l + 1
    <3> SUFFICES ASSUME i = l + 1 PROVE x \in StillTold(new)
      BY <1>5
    <3>1. \A j \in DOMAIN new : j <= i
      BY <1>1
    <3> QED
      BY <1>1, <1>5, <2>1, <3>1 DEF StillTold, Said
  <2>3. i \in 1..l
    BY <1>1, <2>2
  <2> QED
    BY <1>1, <1>5, <2>1, <2>3 DEF Said
<1>6. ASSUME NEW x \in Said(new) \ StillTold(new)
      PROVE  Cardinality(LaterThan(Said(new), x)) >= CmTimeline \/ x \in tails
  <2>1. x \in Said(log) \ StillTold(log)
    BY <1>4, <1>5, <1>6
  <2>2. Cardinality(LaterThan(Said(log), x)) >= CmTimeline \/ x \in tails
    BY <2>1 DEF LostIs
  <2>3. IsFiniteSet(LaterThan(Said(new), x)) /\ IsFiniteSet(LaterThan(Said(log), x))
    BY <1>2, SaidFinite
  <2>4. LaterThan(Said(log), x) \in SUBSET LaterThan(Said(new), x)
    BY <1>3 DEF LaterThan
  <2>5. Cardinality(LaterThan(Said(log), x)) <= Cardinality(LaterThan(Said(new), x))
    BY <2>3, <2>4, FS_Subset
  <2>6. /\ Cardinality(LaterThan(Said(log), x)) \in Nat /\ Cardinality(LaterThan(Said(new), x)) \in Nat
        /\ CmTimeline \in Nat
    BY <2>3, FS_CardinalityType, CompactionAssumption
  <2> QED
    BY <2>2, <2>5, <2>6
<1> QED
  BY <1>2, <1>3, <1>6 DEF new, LostIs

LEMMA End ==
  ASSUME NEW X, NEW s \in Seq(X), NEW n \in 0..Len(s)
  PROVE  LET t == SubSeq(s, n + 1, Len(s))
         IN  t \in Seq(X) /\ Len(t) = Len(s) - n /\ \A i \in 1..Len(s) - n : t[i] = s[n + i]
<1> DEFINE l == Len(s)
           t == SubSeq(s, n + 1, l)
<1>1. l \in Nat /\ n \in Nat /\ n <= l /\ n + 1 \in Int /\ l \in Int /\ \A i \in 1..l : s[i] \in X
  OBVIOUS
<1> HIDE DEF l
<1>2. \A i \in n + 1..l : s[i] \in X
  BY <1>1
<1>3. /\ t \in Seq(X) /\ Len(t) = (IF n + 1 <= l THEN l - (n + 1) + 1 ELSE 0)
      /\ \A i \in 1..l - (n + 1) + 1 : t[i] = s[n + 1 + i - 1]
  BY <1>1, <1>2, SubSeqProperties
<1> HIDE DEF t
<1>4. l - (n + 1) + 1 = l - n /\ (~(n + 1 <= l) => l - n = 0) /\ \A i \in 1..l - n : n + 1 + i - 1 = n + i
  BY <1>1
<1>5. Len(t) = l - n
  BY <1>3, <1>4
<1>6. \A i \in 1..l - n : t[i] = s[n + i]
  BY <1>3, <1>4
<1> QED
  BY <1>3, <1>5, <1>6 DEF t, l

(* What a summary leaves out of what it is made of was said long ago. *)
LEMMA OnlyOldIsLeftOut ==
  ASSUME NEW log, NEW bound \in Nat, InTurnSaid(log, bound),
         NEW split \in Nat, split <= Len(RebuildMessages(log)),
         NEW k \in 1..split, NEW x \in Said(log), x \in RebuildMessages(log)[k].tells,
         x \notin SummaryOf(SubSeq(RebuildMessages(log), 1, split)).tells
  PROVE  Cardinality(LaterThan(Said(log), x)) >= CmTimeline
<1> DEFINE msgs == RebuildMessages(log)
           older == SubSeq(msgs, 1, split)
           requests == {i \in DOMAIN older : IsUser(older[i])}
           answers == {i \in DOMAIN older : IsAssistant(older[i])}
           people == requests \cup answers
           later == {j \in people : j > k}
           l == Len(log)
<1>0. log \in Seq(LogEntries) /\ l \in Nat /\ DOMAIN log = 1..l /\ CmTimeline \in Nat
  BY CompactionAssumption DEF InTurnSaid
<1>1. PICK o \in Nat :
        /\ msgs \in Seq(HistEntries) /\ Len(msgs) = l - o /\ o <= l
        /\ \A i \in 2..Len(msgs) : msgs[i] = log[o + i]
        /\ \A i \in o + 2..l : log[i].role # "compaction"
        /\ Len(msgs) > 0 => \/ msgs[1] = log[o + 1] /\ o = 0 /\ log[1].role # "compaction"
                            \/ msgs[1] = Digest("summary", log[o + 1])
  BY <1>0, RebuiltFrom
<1> HIDE DEF msgs
<1>2. DOMAIN older = 1..split /\ \A i \in 1..split : older[i] = msgs[i]
  <2>1. split \in 0..Len(msgs)
    BY DEF msgs
  <2> QED
    BY <1>1, <2>1, Beginning
<1>3. x \in older[k].tells /\ x \notin SummaryOf(older).tells /\ split <= Len(msgs)
  BY <1>2 DEF msgs
<1> HIDE DEF older, l
<1>4. ASSUME NEW i \in 2..split
      PROVE  older[i] = log[o + i] /\ o + i \in 1..l /\ log[o + i].role # "compaction"
  <2>1. i \in 1..split /\ i \in 2..Len(msgs) /\ o + i \in 1..l /\ o + i \in o + 2..l
    <3> DEFINE n == Len(msgs)
    <3>1. n = l - o /\ o <= l /\ split <= n /\ l \in Nat
      BY <1>0, <1>1, <1>3
    <3> HIDE DEF n
    <3>2. i \in 1..split /\ i \in 2..n /\ o + i \in 1..l /\ o + i \in o + 2..l
      BY <3>1
    <3> QED
      BY <3>2 DEF n
  <2> QED
    BY <1>1, <1>2, <2>1
<1>5. ~(k = 1 /\ older[1].role = "summary")
  BY <1>3 DEF SummaryOf
<1>6. older[k] = log[o + k] /\ o + k \in 1..l /\ log[o + k].role # "compaction"
  <2>1. CASE k = 1
    <3>1. Len(msgs) > 0 /\ 1 \in 1..split
      BY <1>0, <1>1, <1>3, <2>1
    <3>2. msgs[1] # Digest("summary", log[o + 1])
      BY <1>2, <1>5, <2>1, <3>1, DigestIs
    <3>3. msgs[1] = log[o + 1] /\ o = 0 /\ log[1].role # "compaction"
      BY <1>1, <3>1, <3>2
    <3>4. 1 \in 1..l
      BY <1>0, <1>1, <3>1
    <3> QED
      BY <1>2, <2>1, <3>1, <3>3, <3>4
  <2>2. CASE k # 1
    <3>1. k \in 2..split
      BY <2>2
    <3> QED
      BY <1>4, <3>1
  <2> QED
    BY <2>1, <2>2
<1>7. ASSUME NEW i \in 1..l, log[i].role # "compaction", log[i].tells # {} \/ IsUser(log[i]) \/ IsAssistant(log[i])
      PROVE  Speaks(log[i]) /\ \E y \in Nat : log[i].tells = {y}
  <2>1. log[i] \in LogEntries
    BY <1>0
  <2>2. log[i].role \notin {"tool", "system"}
    BY <1>0, <1>7 DEF InTurnSaid, IsUser, IsAssistant
  <2>3. Speaks(log[i])
    BY <1>7, <2>1, <2>2, OfLog DEF Speaks, LogRoles
  <2> QED
    BY <1>0, <2>3 DEF InTurnSaid
<1>8. Speaks(log[o + k]) /\ k \in people
  <2>1. Speaks(log[o + k])
    BY <1>3, <1>6, <1>7
  <2> QED
    BY <1>2, <1>6, <2>1 DEF Speaks, IsUser, IsAssistant
<1>9. ~(Cardinality(later) < CmTimeline)
  <2>1. x \notin AnalyzeMessages(older).tells
    BY <1>3 DEF SummaryOf
  <2>2. k \notin NewestOf(people, CmTimeline)
    <3>1. x \in Begins(older[k])
      <4>1. older[k].role # "summary"
        BY <1>6, <1>8 DEF Speaks
      <4> QED
        BY <1>3, <4>1 DEF Begins
    <3>2. UNION {Begins(older[i]) : i \in NewestOf(people, CmTimeline)} \subseteq AnalyzeMessages(older).tells
      BY DEF AnalyzeMessages
    <3> HIDE DEF people
    <3> QED
      BY <2>1, <3>1, <3>2
  <2> HIDE DEF people
  <2> QED
    BY <1>8, <2>2 DEF NewestOf
<1>10. ASSUME NEW j \in later
       PROVE  /\ o + j \in 1..l /\ Speaks(log[o + j]) /\ o + k < o + j /\ j \in Nat
              /\ \E y \in Nat : log[o + j].tells = {y}
  <2>1. j \in 1..split /\ j > k /\ (IsUser(older[j]) \/ IsAssistant(older[j]))
    BY <1>2
  <2>2. j \in 2..split /\ o + k < o + j /\ j \in Nat
    BY <2>1
  <2> QED
    BY <1>4, <1>7, <2>1, <2>2
<1> DEFINE thing == [j \in later |-> CHOOSE y \in Nat : log[o + j].tells = {y}]
           goal == LaterThan(Said(log), x)
<1>11. ASSUME NEW j \in later PROVE log[o + j].tells = {thing[j]} /\ thing[j] \in Nat
  BY <1>10
<1> HIDE DEF thing, later
<1>12. ASSUME NEW j \in later PROVE thing[j] \in goal
  <2>1. thing[j] \in Said(log)
    BY <1>0, <1>10, <1>11 DEF Said
  <2>2. x < thing[j]
    <3>1. /\ o + k \in DOMAIN log /\ o + j \in DOMAIN log /\ x \in log[o + k].tells
          /\ thing[j] \in log[o + j].tells /\ o + k < o + j
      BY <1>0, <1>3, <1>6, <1>10, <1>11
    <3> QED
      BY <3>1, <1>8, <1>10 DEF InTurnSaid
  <2>3. x \in Nat
    BY DEF Said
  <2>4. thing[j] > x
    BY <1>11, <2>2, <2>3
  <2> QED
    BY <2>1, <2>4 DEF LaterThan
<1>13. ASSUME NEW i \in later, NEW j \in later, i < j PROVE thing[i] < thing[j]
  <2>1. o + i < o + j
    BY <1>10, <1>13
  <2> QED
    BY <2>1, <1>0, <1>10, <1>11 DEF InTurnSaid
<1>14. thing \in [later -> goal]
  BY <1>12 DEF thing
<1>15. ASSUME NEW i \in later, NEW j \in later, thing[i] = thing[j] PROVE i = j
  <2>1. ~(i < j) /\ ~(j < i) /\ i \in Nat /\ j \in Nat
    BY <1>10, <1>11, <1>13, <1>15
  <2> QED
    BY <2>1
<1>16. thing \in Injection(later, goal)
  BY <1>14, <1>15 DEF Injection, IsInjective
<1>17. IsFiniteSet(goal)
  BY SaidFinite
<1>18. IsFiniteSet(later) /\ Cardinality(later) <= Cardinality(goal)
  BY <1>16, <1>17, FS_Injection
<1>19. Cardinality(later) \in Nat /\ Cardinality(goal) \in Nat
  BY <1>17, <1>18, FS_CardinalityType
<1> QED
  BY <1>0, <1>9, <1>18, <1>19

-----------------------------------------------------------------------------
(* The steps of the loop.                                                  *)

LEMMA RunKeeps == CmInv /\ Run => CmInv'
<1> SUFFICES ASSUME CmInv, Run PROVE CmInv'
  OBVIOUS
<1> DEFINE b == 3 * cmRuns
           prompt == Message("user", {b})
           call == Message("call", {b + 1})
           result == Message("tool", {})
           answer == Message("assistant", {b + 2})
           Fine(log, n) == InTurnSaid(log, n) /\ LostIs(log, cmTails)
<1>0. b \in Nat /\ cmRuns' = cmRuns + 1 /\ 3 * cmRuns' = b + 3 /\ cmRuns' \in Nat /\ cmTails' = cmTails
      /\ cmAt' # "run"
  BY DEF CmInv, Run
<1>a. /\ prompt \in LogEntries /\ Speaks(prompt) /\ prompt.tells = {b}
      /\ call \in LogEntries /\ Speaks(call) /\ call.tells = {b + 1}
      /\ result \in LogEntries /\ result.role = "tool" /\ result.tells = {}
      /\ answer \in LogEntries /\ Speaks(answer) /\ answer.tells = {b + 2}
  <2>1. {b} \in SUBSET Nat /\ {b + 1} \in SUBSET Nat /\ {b + 2} \in SUBSET Nat /\ {} \in SUBSET Nat
    BY <1>0
  <2> HIDE DEF b
  <2> QED
    BY <2>1, MessageIs DEF LogRoles, Speaks
<1>b. Fine(cmLog, b) /\ cmLog \in Seq(LogEntries)
  BY DEF CmInv, InTurnSaid
<1>c. \/ cmLog' = cmLog \o <<prompt>>
      \/ cmLog' = cmLog \o <<prompt>> \o <<answer>>
      \/ cmLog' = cmLog \o <<prompt>> \o <<call, result>> \o <<answer>>
  BY DEF Run
<1> HIDE DEF prompt, call, result, answer, b
<1>1. ASSUME NEW log, NEW m \in Nat, Fine(log, m), m <= b + 2
      PROVE  Fine(Append(log, answer), b + 3)
  <2>1. b + 3 \in Nat /\ m <= b + 3 /\ b + 2 \in Nat /\ b + 2 < b + 3
    BY <1>0, <1>1
  <2> QED
    BY <1>1, <1>a, <2>1, OneMore
<1>2. ASSUME NEW n \in Nat, b < n PROVE Fine(Append(cmLog, prompt), n)
  <2>1. b <= n /\ b <= b
    BY <1>0, <1>2
  <2> QED
    BY <1>0, <1>2, <1>a, <1>b, <2>1, OneMore
<1>3. ASSUME NEW log, Fine(log, b + 1) PROVE Fine(Append(Append(log, call), result), b + 2)
  <2>1. b + 1 \in Nat /\ b + 2 \in Nat /\ b + 1 <= b + 2 /\ b + 1 < b + 2 /\ b + 1 <= b + 1 /\ b + 2 <= b + 2
    BY <1>0
  <2>2. Fine(Append(log, call), b + 2)
    BY <1>3, <1>a, <2>1, OneMore
  <2> QED
    BY <1>a, <2>1, <2>2, OneMore
<1>4. Fine(cmLog', b + 3)
  <2> DEFINE p == Append(cmLog, prompt)
  <2>0. p \in Seq(LogEntries) /\ p = cmLog \o <<prompt>>
    BY <1>a, <1>b
  <2> HIDE DEF p
  <2>1. Fine(p, b + 3) /\ Fine(p, b + 1) /\ b + 1 <= b + 2 /\ b + 1 \in Nat
    <3>1. b + 3 \in Nat /\ b + 1 \in Nat /\ b < b + 3 /\ b < b + 1 /\ b + 1 <= b + 2
      BY <1>0
    <3> QED
      BY <1>2, <3>1 DEF p
  <2>2. CASE cmLog' = cmLog \o <<prompt>>
    BY <2>0, <2>1, <2>2
  <2>3. CASE cmLog' = cmLog \o <<prompt>> \o <<answer>>
    <3>1. cmLog' = Append(p, answer)
      BY <1>a, <2>0, <2>3
    <3> QED
      BY <1>1, <2>1, <3>1
  <2>4. CASE cmLog' = cmLog \o <<prompt>> \o <<call, result>> \o <<answer>>
    <3>1. p \o <<call, result>> = Append(Append(p, call), result) /\ Append(Append(p, call), result) \in Seq(LogEntries)
      BY <1>a, <2>0
    <3>2. cmLog' = Append(Append(Append(p, call), result), answer)
      BY <1>a, <2>0, <2>4, <3>1
    <3>3. Fine(Append(Append(p, call), result), b + 2)
      BY <1>3, <2>1
    <3>4. b + 2 \in Nat /\ b + 2 <= b + 2
      BY <1>0
    <3> QED
      BY <1>1, <3>2, <3>3, <3>4
  <2> QED
    BY <1>c, <2>2, <2>3, <2>4
<1>5. Fine(cmLog', 3 * cmRuns')
  BY <1>0, <1>4
<1> QED
  BY <1>0, <1>5 DEF CmInv

(* What a summary does not tell whole is too long for an entry of it. *)
LEMMA AnalyzesWhatIsThere ==
  ASSUME NEW msgs, \A i \in DOMAIN msgs : msgs[i] \in HistEntries
  PROVE  LET of == AnalyzeMessages(msgs)
         IN  of.tells \in SUBSET Nat /\ of.whole \in SUBSET Nat /\ of.tells \subseteq of.whole \cup CmLong
<1> DEFINE requests == {i \in DOMAIN msgs : IsUser(msgs[i])}
           answers  == {i \in DOMAIN msgs : IsAssistant(msgs[i])}
           asked == NewestOf(requests, CmRequests)
           some == NewestOf(requests \cup answers, CmTimeline)
           last == NewestOf(answers, 1)
           timeline == UNION {Begins(msgs[i]) : i \in some}
           pending == UNION {Text(msgs[i]) : i \in last}
           full == UNION {msgs[i].tells : i \in asked}
           whole == UNION {msgs[i].whole : i \in asked}
           of == AnalyzeMessages(msgs)
<1>1. asked \subseteq DOMAIN msgs /\ some \subseteq DOMAIN msgs /\ last \subseteq DOMAIN msgs
  BY DEF NewestOf
<1>2. \A m : Text(m) \subseteq m.tells /\ Begins(m) \subseteq m.tells
  BY DEF Text, Begins
<1>3. /\ of.tells = full \cup timeline \cup pending
      /\ of.whole = whole \cup (timeline \ CmLong) \cup (pending \ CmLonger)
  <2>1. of = [tells |-> full \cup timeline \cup pending,
              whole |-> whole \cup (timeline \ CmLong) \cup (pending \ CmLonger)]
    BY DEF AnalyzeMessages
  <2> HIDE DEF of, full, timeline, pending, whole
  <2> QED
    BY <2>1
<1> HIDE DEF asked, some, last, of
<1>4. \A i \in DOMAIN msgs : /\ msgs[i].tells \in SUBSET Nat /\ msgs[i].whole \in SUBSET Nat
                            /\ msgs[i].tells \subseteq msgs[i].whole \cup CmLong
  BY DEF HistEntries, EntriesOf
<1>5. full \in SUBSET Nat /\ whole \in SUBSET Nat /\ timeline \in SUBSET Nat /\ pending \in SUBSET Nat
  <2>1. ASSUME NEW y \in timeline PROVE y \in Nat
    <3>1. PICK i \in some : y \in Begins(msgs[i])
      OBVIOUS
    <3> QED
      BY <1>1, <1>2, <1>4, <3>1
  <2>2. ASSUME NEW y \in pending PROVE y \in Nat
    <3>1. PICK i \in last : y \in Text(msgs[i])
      OBVIOUS
    <3> QED
      BY <1>1, <1>2, <1>4, <3>1
  <2>3. full \in SUBSET Nat /\ whole \in SUBSET Nat
    BY <1>1, <1>4
  <2> QED
    BY <2>1, <2>2, <2>3
<1>6. full \subseteq whole \cup CmLong
  <2> SUFFICES ASSUME NEW y \in full PROVE y \in whole \cup CmLong
    OBVIOUS
  <2>1. PICK i \in asked : y \in msgs[i].tells
    OBVIOUS
  <2> QED
    BY <1>1, <1>4, <2>1
<1>7. CmLonger \subseteq CmLong
  BY CompactionAssumption
<1> HIDE DEF full, whole, timeline, pending
<1>8. of.tells \subseteq of.whole \cup CmLong
  BY <1>3, <1>6, <1>7
<1>9. of.tells \in SUBSET Nat /\ of.whole \in SUBSET Nat
  BY <1>3, <1>5
<1> QED
  BY <1>8, <1>9 DEF of

LEMMA SummarisesWhatIsThere ==
  ASSUME NEW older, 1 \in DOMAIN older, \A i \in DOMAIN older : older[i] \in HistEntries
  PROVE  LET of == SummaryOf(older)
         IN  of.tells \in SUBSET Nat /\ of.whole \in SUBSET Nat /\ of.tells \subseteq of.whole \cup CmLong
<1> DEFINE new == AnalyzeMessages(older)
           first == older[1]
           of == SummaryOf(older)
<1>1. new.tells \in SUBSET Nat /\ new.whole \in SUBSET Nat /\ new.tells \subseteq new.whole \cup CmLong
  BY AnalyzesWhatIsThere
<1>2. first.tells \in SUBSET Nat /\ first.whole \in SUBSET Nat /\ first.tells \subseteq first.whole \cup CmLong
  BY DEF HistEntries, EntriesOf
<1>3. \/ of = new
      \/ of.tells = new.tells \cup first.tells /\ of.whole = new.whole \cup first.whole
  BY DEF SummaryOf
<1> HIDE DEF new, first, of
<1>4. CASE of = new
  BY <1>1, <1>4 DEF of
<1>5. CASE of.tells = new.tells \cup first.tells /\ of.whole = new.whole \cup first.whole
  <2>1. of.tells \in SUBSET Nat /\ of.whole \in SUBSET Nat /\ of.tells \subseteq of.whole \cup CmLong
    BY <1>1, <1>2, <1>5
  <2> QED
    BY <2>1 DEF of
<1> QED
  BY <1>3, <1>4, <1>5

LEMMA CompactKeeps == CmInv /\ CompactAndGoOn => CmInv'
<1> SUFFICES ASSUME CmInv, CompactAndGoOn PROVE CmInv'
  OBVIOUS
<1> DEFINE msgs == RebuildMessages(cmLog)
           split == Len(msgs) - CmPreserve
           older == SubSeq(msgs, 1, split)
           tail == SubSeq(msgs, split + 1, Len(msgs))
           of == SummaryOf(older)
           summary == of.tells
           note == IF cmFlushed' # cmFlushed THEN <<Message("system", {})>> ELSE <<>>
           b == 3 * cmRuns
           entry == Digest("compaction", of)
           head == Digest("summary", of)
           l == Len(cmLog)
<1>0. /\ cmLog \in Seq(LogEntries) /\ b \in Nat /\ b' = b /\ cmRuns' = cmRuns
      /\ InTurnSaid(cmLog, b) /\ LostIs(cmLog, cmTails)
  BY DEF CmInv, InTurnSaid, CompactAndGoOn
<1>1. CASE Len(msgs) <= CmPreserve
  <2>1. cmAt' = "idle" /\ UNCHANGED <<cmLog, cmTails>>
    BY <1>1 DEF CompactAndGoOn
  <2> QED
    BY <1>0, <2>1 DEF CmInv
<1>2. CASE ~(Len(msgs) <= CmPreserve)
  <2>1. /\ cmLog' = cmLog \o note \o <<entry>>
        /\ cmHist' = <<head>> \o tail /\ cmTails' = cmTails \cup Tells(tail)
    BY <1>2 DEF CompactAndGoOn, Compact
  <2>2. PICK o \in Nat :
        /\ Len(msgs) = Len(cmLog) - o /\ o <= Len(cmLog) /\ msgs \in Seq(HistEntries)
    BY <1>0, RebuiltFrom
  <2>3. Len(msgs) \in Nat /\ split \in Nat /\ 1 <= split /\ split <= Len(msgs) /\ DOMAIN msgs = 1..Len(msgs) /\ 1 \in 1..split
    <3>1. CmPreserve \in Nat /\ l \in Nat /\ Len(msgs) = l - o /\ o <= l
      BY <1>0, <2>2, CompactionAssumption
    <3>2. DOMAIN msgs = 1..Len(msgs)
      BY <2>2
    <3> HIDE DEF msgs, l
    <3> QED
      BY <1>2, <3>1, <3>2
  <2>4. \A i \in 1..Len(msgs) : msgs[i].tells \subseteq Nat
    <3>1. Tells(msgs) = StillTold(cmLog)
      BY <1>0, RebuiltTells
    <3>2. Tells(msgs) \subseteq Nat
      BY <3>1 DEF StillTold
    <3> HIDE DEF msgs
    <3> QED
      BY <2>3, <3>2 DEF Tells
  <2> HIDE DEF msgs
  <2> HIDE DEF split
  <2>5. older \in Seq(HistEntries) /\ DOMAIN older = 1..split /\ \A i \in 1..split : older[i] = msgs[i]
    <3>1. split \in 0..Len(msgs)
      BY <2>3
    <3> QED
      BY <2>2, <3>1, Beginning
  <2>t. /\ tail \in Seq(HistEntries) /\ Len(tail) = Len(msgs) - split
        /\ \A i \in 1..Len(msgs) - split : tail[i] = msgs[split + i]
    <3>1. split \in 0..Len(msgs)
      BY <2>3
    <3> QED
      BY <2>2, <3>1, End
  <2>6. of.tells \in SUBSET Nat /\ of.whole \in SUBSET Nat /\ of.tells \subseteq of.whole \cup CmLong
    <3>1. DOMAIN older = 1..split /\ \A i \in DOMAIN older : older[i] \in HistEntries
      BY <2>3, <2>5
    <3> HIDE DEF older
    <3> QED
      BY <2>3, <3>1, SummarisesWhatIsThere
  <2> HIDE DEF of
  <2>7. entry \in LogEntries /\ entry.role = "compaction" /\ entry.tells = summary /\ ~Speaks(entry)
    BY <2>6, DigestIs DEF LogRoles, Speaks
  <2>h. head \in HistEntries /\ head.tells = summary /\ summary \in SUBSET Nat
    BY <2>6, DigestIs
  <2> HIDE DEF summary
  <2> HIDE DEF entry
  <2> DEFINE log == cmLog \o note
             n == Len(log)
  <2>8. InTurnSaid(log, b) /\ Said(log) = Said(cmLog)
    <3>1. CASE note = <<>>
      <4> HIDE DEF note, b
      <4>1. cmLog \o note = cmLog
        BY <1>0, <3>1
      <4> QED
        BY <1>0, <4>1
    <3>2. CASE note # <<>>
      <4> DEFINE m == Message("system", {})
      <4>1. log = Append(cmLog, m)
        BY <1>0, <3>2
      <4>2. m \in LogEntries /\ m.role = "system" /\ m.tells = {} /\ b <= b
        <5>1. {} \in SUBSET Nat /\ b <= b
          BY <1>0
        <5> QED
          BY <5>1, MessageIs DEF LogRoles
      <4> HIDE DEF m, log, b
      <4>3. InTurnSaid(log, b) /\ Said(cmLog) \subseteq Said(log)
        BY <1>0, <4>1, <4>2, OneMore
      <4>4. ASSUME NEW x \in Said(log) PROVE x \in Said(cmLog)
        <5>1. PICK i \in DOMAIN log : Speaks(log[i]) /\ x \in log[i].tells
          BY <4>4 DEF Said
        <5>2. i # l + 1
          BY <1>0, <4>1, <4>2, <5>1
        <5>3. i \in DOMAIN cmLog /\ log[i] = cmLog[i]
          BY <1>0, <4>1, <4>2, <5>1, <5>2
        <5> QED
          BY <4>4, <5>1, <5>3 DEF Said
      <4> QED
        BY <4>3, <4>4
    <3> QED
      BY <3>1, <3>2
  <2>9. log \in Seq(LogEntries)
    BY <2>8 DEF InTurnSaid
  <2>10. cmLog' = Append(log, entry)
    BY <2>1, <2>7, <2>9
  <2> HIDE DEF log, note
  <2>11. /\ n \in Nat /\ DOMAIN log = 1..n /\ DOMAIN cmLog' = 1..n + 1 /\ cmLog' \in Seq(LogEntries)
         /\ cmLog'[n + 1] = entry /\ \A i \in 1..n : cmLog'[i] = log[i]
    BY <2>7, <2>9, <2>10
  <2>12. \A i \in 1..n + 1 : i \in 1..n \/ i = n + 1
    BY <2>11
  <2> HIDE DEF n, b
  <2>13. \A i \in 1..n + 1 : Speaks(cmLog'[i]) => i \in 1..n
    BY <2>7, <2>11, <2>12
  <2>14. InTurnSaid(cmLog', b)
    <3>1. \A i \in DOMAIN cmLog' : Speaks(cmLog'[i]) => \E x \in Nat : x < b /\ cmLog'[i].tells = {x}
      BY <2>8, <2>11, <2>13 DEF InTurnSaid
    <3>2. \A i \in DOMAIN cmLog' : cmLog'[i].role \in {"tool", "system"} => cmLog'[i].tells = {}
      BY <2>7, <2>8, <2>11, <2>12 DEF InTurnSaid
    <3>3. \A i, j \in DOMAIN cmLog' : i < j /\ Speaks(cmLog'[i]) /\ Speaks(cmLog'[j]) =>
            \A x \in cmLog'[i].tells, y \in cmLog'[j].tells : x < y
      BY <2>8, <2>11, <2>13 DEF InTurnSaid
    <3> QED
      BY <2>11, <3>1, <3>2, <3>3 DEF InTurnSaid
  <2>15. Said(cmLog') = Said(cmLog)
    <3>1. Said(cmLog') = Said(log)
      BY <2>11, <2>13 DEF Said
    <3> QED
      BY <2>8, <3>1
  <2>16. StillTold(cmLog') = summary
    <3>1. ASSUME NEW x \in StillTold(cmLog') PROVE x \in summary
      <4>1. PICK i \in 1..n + 1 : x \in cmLog'[i].tells /\ \A j \in 1..n + 1 : cmLog'[j].role = "compaction" => j <= i
        BY <2>11, <3>1 DEF StillTold
      <4>2. n + 1 \in 1..n + 1
        BY <2>11
      <4>3. i = n + 1
        BY <2>7, <2>11, <4>1, <4>2
      <4> QED
        BY <2>7, <2>11, <4>1, <4>3
    <3>2. ASSUME NEW x \in summary PROVE x \in StillTold(cmLog')
      <4>1. n + 1 \in 1..n + 1 /\ \A j \in 1..n + 1 : j <= n + 1
        BY <2>11
      <4> QED
        BY <2>h, <2>7, <2>11, <3>2, <4>1 DEF StillTold
    <3> QED
      BY <3>1, <3>2
  <2>17. ASSUME NEW x \in Tells(msgs), x \in Said(cmLog), x \notin summary, x \notin Tells(tail)
         PROVE  Cardinality(LaterThan(Said(cmLog), x)) >= CmTimeline
    <3>1. PICK k \in 1..Len(msgs) : x \in msgs[k].tells
      BY <2>3, <2>17 DEF Tells
    <3>2. k \in 1..split
      <4> SUFFICES ASSUME ~(k \in 1..split) PROVE x \in Tells(tail)
        BY <2>17
      <4>2. k - split \in 1..Len(msgs) - split /\ split + (k - split) = k
        BY <2>3
      <4> HIDE DEF tail
      <4>3. k - split \in DOMAIN tail /\ tail[k - split] = msgs[k]
        BY <2>t, <4>2
      <4> HIDE DEF tail
      <4> QED
        BY <3>1, <4>3 DEF Tells
    <3> QED
      BY <1>0, <2>3, <2>17, <3>1, <3>2, OnlyOldIsLeftOut DEF msgs, summary, of, older
  <2>18. LostIs(cmLog', cmTails')
    <3>1. ASSUME NEW x \in Said(cmLog), x \notin summary
          PROVE  Cardinality(LaterThan(Said(cmLog), x)) >= CmTimeline \/ x \in cmTails'
      <4>1. CASE x \in Tells(msgs)
        BY <2>1, <2>17, <3>1, <4>1
      <4>2. CASE x \notin Tells(msgs)
        <5>1. x \notin StillTold(cmLog)
          BY <1>0, <4>2, RebuiltTells DEF msgs
        <5> QED
          BY <1>0, <2>1, <3>1, <5>1 DEF LostIs
      <4> QED
        BY <4>1, <4>2
    <3> QED
      BY <2>15, <2>16, <3>1 DEF LostIs
  <2>19. StillTold(cmLog') \subseteq Tells(cmHist')
    <3> HIDE DEF head, tail
    <3>3. 1 \in DOMAIN cmHist' /\ cmHist'[1] = head
      BY <2>1, <2>t, <2>h
    <3> QED
      BY <2>16, <2>h, <3>3 DEF Tells
  <2>20. cmHist' \in Seq(HistEntries)
    <3> HIDE DEF head, tail
    <3> QED
      BY <2>1, <2>t, <2>h
  <2> QED
    BY <1>0, <2>14, <2>18, <2>19, <2>20 DEF CmInv, b
<1> QED
  BY <1>1, <1>2

LEMMA CmInvNext == CmInv /\ [CmNext]_cmVars => CmInv'
<1> SUFFICES ASSUME CmInv, [CmNext]_cmVars PROVE CmInv'
  OBVIOUS
<1>1. CASE UNCHANGED cmVars
  BY <1>1 DEF CmInv, cmVars
<1>2. CASE Turn
  <2>1. UNCHANGED <<cmRuns, cmLog, cmTails>> /\ cmHist' = RebuildMessages(cmLog)
    BY <1>2 DEF Turn
  <2>2. Tells(cmHist') = StillTold(cmLog) /\ cmHist' \in Seq(HistEntries)
    BY <2>1, RebuiltTells, RebuiltFrom DEF CmInv, InTurnSaid
  <2> QED
    BY <2>1, <2>2 DEF CmInv
<1>3. CASE Run
  BY <1>3, RunKeeps
<1>4. CASE Check
  <2>1. UNCHANGED <<cmRuns, cmLog, cmTails, cmHist>> /\ cmAt' # "run"
    BY <1>4 DEF Check
  <2> QED
    BY <2>1 DEF CmInv
<1>5. CASE CompactAndGoOn
  BY <1>5, CompactKeeps
<1> QED
  BY <1>1, <1>2, <1>3, <1>4, <1>5 DEF CmNext

(* A run is told how each thing that was said begins, unless a summary     *)
(* left it out with CmTimeline later things or it was in a preserved tail  *)
(* (runner.go:560); and is told it whole, unless it is also longer than an *)
(* entry of a summary (context_engine.go:619, :632, :640): for any such    *)
(* limits, usages and number of compactions.                               *)
THEOREM LostWereTails == CmSpec => []OnlyTailsAreLost
<1>1. CmInit => CmInv
  <2> SUFFICES ASSUME CmInit PROVE CmInv
    OBVIOUS
  <2>1. cmLog = <<>> /\ cmRuns = 0 /\ cmAt # "run" /\ DOMAIN cmLog = {} /\ cmLog \in Seq(LogEntries)
    BY DEF CmInit
  <2>2. InTurnSaid(cmLog, 3 * cmRuns) /\ Said(cmLog) = {}
    BY <2>1 DEF InTurnSaid, Said
  <2> QED
    BY <2>1, <2>2 DEF CmInv, LostIs
<1>2. CmInv => OnlyTailsAreLost
  <2> SUFFICES ASSUME CmInv, cmAt = "run" PROVE OnlyTailsAreLost
    BY DEF OnlyTailsAreLost
  <2> DEFINE said == UNION {m.tells : m \in {x \in Range(cmLog) : x.role = "user" \/ IsAssistant(x)}}
  <2>1. cmLog \in Seq(LogEntries) /\ \A i \in DOMAIN cmLog : cmLog[i].tells \subseteq Nat
    <3>1. cmLog \in Seq(LogEntries)
      BY DEF CmInv, InTurnSaid
    <3>2. \A i \in DOMAIN cmLog : cmLog[i] \in LogEntries
      BY <3>1
    <3> QED
      BY <3>1, <3>2, OfLog
  <2>2. said = Said(cmLog)
    <3>1. \A m : (m.role = "user" \/ IsAssistant(m)) <=> Speaks(m)
      BY DEF Speaks, IsAssistant
    <3>2. said = UNION {m.tells : m \in {x \in Range(cmLog) : Speaks(x)}}
      BY <3>1
    <3> HIDE DEF said
    <3> QED
      BY <2>1, <3>2 DEF Said, Range
  <2>3. ASSUME NEW x \in said \ Tells(cmHist)
        PROVE  Cardinality({y \in said : y > x}) >= CmTimeline \/ x \in cmTails
    <3>1. x \in Said(cmLog) \ StillTold(cmLog)
      BY <2>2, <2>3 DEF CmInv
    <3>2. LaterThan(Said(cmLog), x) = {y \in said : y > x}
      BY <2>2 DEF LaterThan
    <3> HIDE DEF said
    <3> QED
      BY <3>1, <3>2 DEF CmInv, LostIs
  <2>4. ASSUME NEW x \in said \ TellsWhole(cmHist), x \in Tells(cmHist)
        PROVE  x \in CmLong
    <3>1. PICK i \in DOMAIN cmHist : x \in cmHist[i].tells
      BY <2>4 DEF Tells
    <3>2. cmHist[i] \in HistEntries
      BY DEF CmInv
    <3>3. x \notin cmHist[i].whole
      BY <2>4 DEF TellsWhole
    <3> QED
      BY <3>1, <3>2, <3>3 DEF HistEntries, EntriesOf
  <2> DEFINE old == {x \in said : Cardinality({y \in said : y > x}) >= CmTimeline}
  <2>5. said \ Tells(cmHist) \subseteq old \cup cmTails
    BY <2>3
  <2>6. OnlyTailsAreLost <=> (cmAt = "run" => (/\ said \ Tells(cmHist) \subseteq old \cup cmTails
                                          /\ said \ TellsWhole(cmHist) \subseteq old \cup cmTails \cup CmLong))
    BY DEF OnlyTailsAreLost
  <2> HIDE DEF said, old
  <2> QED
    BY <2>4, <2>5, <2>6
<1> QED
  BY <1>1, <1>2, CmInvNext, PTL DEF CmSpec
=============================================================================
