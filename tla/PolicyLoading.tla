--------------------------- MODULE PolicyLoading ---------------------------
(***************************************************************************)
(* The policy a gateway decides under (src/gateway.ts:192-209, 378-386):   *)
(* the active bundle, the promise of its loaded form, and the lazily       *)
(* loaded, cached policies of the named arbitration sources.               *)
(*                                                                         *)
(* Every provider.load starts a promise of its own.  A promise is named by *)
(* the call that started it, except the lazy first load of the configured  *)
(* bundle, which is BootLoad.  Promises settle in any order.               *)
(***************************************************************************)
EXTENDS Identifiers

CONSTANTS BootLoad,        \* the lazy load of the configured bundle
          Bundles,         \* policy bundles, told apart by their contents
          Loadable,        \* those whose contents parse and do not contradict
          VersionOf,       \* the bundleVersion each bundle declares
          VocabularyOf,    \* the vocabulary each bundle declares
          SourceRegistry   \* the configured arbitration sources, by name

ASSUME PolicyAssumption ==
    /\ BootLoad \notin Requests
    /\ None \notin {BootLoad} \cup Bundles
    /\ Loadable \subseteq Bundles
    /\ DOMAIN VersionOf = Bundles
    /\ DOMAIN VocabularyOf = Bundles
    /\ \A s \in DOMAIN SourceRegistry : SourceRegistry[s] \in Bundles

VARIABLES activeBundle,   \* the bundle decisions are attributed to
          loaded,         \* the load whose promise `loaded` holds, or None
          loads,          \* every load promise: its bundle and its state
          loadedSources   \* the cached promise of each source

policyVars == <<activeBundle, loaded, loads, loadedSources>>

Loads == Requests \cup {BootLoad}

Versions == {VersionOf[b] : b \in Bundles}

PromiseState == {"none", "pending", "loaded", "failed"}

PolicyInit == /\ activeBundle \in Bundles
              /\ loaded = None
              /\ loads = [l \in Loads |-> [bundle |-> None, status |-> "none"]]
              /\ loadedSources = [s \in DOMAIN SourceRegistry |-> "none"]

policyVersion == VersionOf[activeBundle]

(***************************************************************************)
(* The load behind the promise that loadedPolicy() hands out.              *)
(***************************************************************************)
HandedOut == IF loaded = None THEN BootLoad ELSE loaded

StartLoad(l, bundle) ==
    loads' = [loads EXCEPT ![l] = [bundle |-> bundle, status |-> "pending"]]

\* A slip: the promise is remembered and the load never started.
ForgetsToLoad ==
    loaded' = HandedOut /\ UNCHANGED <<activeBundle, loads, loadedSources>>

loadedPolicy ==
    /\ loaded' = HandedOut
    /\ IF loaded = None THEN StartLoad(BootLoad, activeBundle) ELSE UNCHANGED loads
    /\ UNCHANGED <<activeBundle, loadedSources>>

\* A slip: only sources that somebody has loaded before are awaited.
LoadsNothing(names) == UNCHANGED policyVars

loadSources(names) ==
    /\ loadedSources' = [s \in DOMAIN SourceRegistry |->
                           IF s \in names /\ loadedSources[s] = "none"
                           THEN "pending" ELSE loadedSources[s]]
    /\ UNCHANGED <<activeBundle, loaded, loads>>

\* A slip: bundles are accepted unread.
AcceptsAnything(bundle) == "loaded"

Outcome(bundle) == IF bundle \in Loadable THEN "loaded" ELSE "failed"

(***************************************************************************)
(* The provider finishes a load: it resolves for a bundle it can parse and *)
(* finds free of contradiction, and rejects otherwise.                     *)
(***************************************************************************)
SettleLoad(l) ==
    /\ loads[l].status = "pending"
    /\ loads' = [loads EXCEPT ![l].status = Outcome(loads[l].bundle)]
    /\ UNCHANGED <<activeBundle, loaded, loadedSources>>

SettleSource(s) ==
    /\ loadedSources[s] = "pending"
    /\ loadedSources' = [loadedSources EXCEPT ![s] = Outcome(SourceRegistry[s])]
    /\ UNCHANGED <<activeBundle, loaded, loads>>

(***************************************************************************)
(* gateway.loadPolicy: start a load, and once it has succeeded make both   *)
(* the bundle and its promise current.  The call that finishes last wins.  *)
(***************************************************************************)
BeginReplacement(q, bundle) ==
    /\ StartLoad(q, bundle)
    /\ UNCHANGED <<activeBundle, loaded, loadedSources>>

\* A slip: the old promise stays current.
SwapsBundleOnly(q) ==
    /\ activeBundle' = loads[q].bundle
    /\ UNCHANGED <<loaded, loads, loadedSources>>

SwapPolicy(q) ==
    /\ activeBundle' = loads[q].bundle
    /\ loaded' = q
    /\ UNCHANGED <<loads, loadedSources>>

=============================================================================
