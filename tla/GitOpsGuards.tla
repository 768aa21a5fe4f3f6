---------------------------- MODULE GitOpsGuards ----------------------------
(***************************************************************************)
(* scripts/check-reconciler-rbac.py, scripts/check-sync-wave-order.py and  *)
(* labs/m10/grade.py: the exit codes of the static checks over the files   *)
(* of gitops/, and of the live half of the first.                          *)
(***************************************************************************)
EXTENDS Integers, FiniteSets

(***************************************************************************)
(* gitops/projects/shop-project.yaml.  The guard reads it with patterns:   *)
(* an entry is `plain' if it stands there as they look for it, a `*' alone *)
(* at the end of its line, a name or a kind without quotes in a section    *)
(* whose key is alone on its line.  A destination or a source is a [name,  *)
(* plain]; a resource is a [kind, group, plain], its group that of the     *)
(* kind ("own"), another one, or "*".                                      *)
(***************************************************************************)
ALLOWED_NS == {"shop", "argocd"}
FORBIDDEN_CLUSTER == {"ClusterRole", "ClusterRoleBinding"}
FORBIDDEN_NS == {"Secret"} \cup FORBIDDEN_CLUSTER

\* What the patterns find: names, "*" among them, and kinds.
ReadNames(entries) == {e.name : e \in {d \in entries : d.plain}}
ReadKinds(entries) == {e.kind : e \in {r \in entries : r.plain}}

ReconcilerExitNoBlacklist(p) ==  \* a slip: an absent whitelist was overlooked
    IF \/ p.kind # "AppProject"
       \/ "*" \in ReadNames(p.repos \cup p.destinations)
       \/ ReadNames(p.destinations) = {} \/ ~(ReadNames(p.destinations) \subseteq ALLOWED_NS)
       \/ ReadKinds(p.clusterWhitelist) \cap FORBIDDEN_CLUSTER # {}
       \/ ReadKinds(p.namespaceWhitelist) \cap FORBIDDEN_NS # {}
    THEN 1 ELSE 0

\* main()
ReconcilerExit(p) ==
    IF \/ p.kind # "AppProject"
       \/ "*" \in ReadNames(p.repos \cup p.destinations)
       \/ ReadNames(p.destinations) = {} \/ ~(ReadNames(p.destinations) \subseteq ALLOWED_NS)
       \/ ReadKinds(p.clusterWhitelist) \cap FORBIDDEN_CLUSTER # {}
       \/ ReadKinds(p.namespaceWhitelist) \cap FORBIDDEN_NS # {}
       \/ "Secret" \notin ReadKinds(p.namespaceBlacklist)
    THEN 1 ELSE 0

\* ArgoCD: the kinds a project lets its Applications write.  Kind and group of
\* an entry are globs, quotes or not.  Nothing of a cluster's scope is allowed
\* unless it is listed; in a namespace everything, if there is no list.
ClusterScoped == {"Namespace", "ClusterRole", "ClusterRoleBinding"}
Listed(entries, kind) == \E e \in entries : e.kind \in {kind, "*"} /\ e.group # "other"
Permitted(p, kind) ==
    IF kind \in ClusterScoped THEN Listed(p.clusterWhitelist, kind)
    ELSE /\ ~Listed(p.namespaceBlacklist, kind)
         /\ p.namespaceWhitelist = {} \/ Listed(p.namespaceWhitelist, kind)

\* A project without a glob or a spelling that the patterns do not read.
Literal(p) ==
    /\ \A e \in p.destinations : e.plain
    /\ \A e \in p.clusterWhitelist \cup p.namespaceWhitelist \cup p.namespaceBlacklist :
           e.plain /\ e.kind # "*" /\ e.group # "other"

\* live_check(): what the reconciler's own account may do in the cluster.
ReconcilerLiveExit(p) ==
    IF p.reachable /\ ( \/ <<"create", "clusterrolebindings">> \in p.account
                        \/ <<"get", "kube-system/secrets">> \in p.account
                        \/ <<"patch", "shop/ciliumnetworkpolicies">> \notin p.account )
    THEN 1 ELSE 0

-----------------------------------------------------------------------------
TIERS == [identity |-> "shop-identity", workload |-> "shop-workload",
          network |-> "shop-network-runtime"]

\* The waves of the files of gitops/apps: a set of [app, wave], or a file
\* without one of the two.  main() keeps them by name.
Waves(files) == [a \in {f.app : f \in files} |-> (CHOOSE f \in files : f.app = a).wave]

WaveExitLoose(w) ==  \* a slip: workload in the identity wave
    IF ~w.annotated \/ {TIERS[t] : t \in DOMAIN TIERS} \ {f.app : f \in w.files} # {}
    THEN 1
    ELSE LET wave == Waves(w.files)
         IN IF wave[TIERS.identity] <= wave[TIERS.workload]
               /\ wave[TIERS.workload] <= wave[TIERS.network] THEN 0 ELSE 1

WaveExit(w) ==
    IF ~w.annotated \/ {TIERS[t] : t \in DOMAIN TIERS} \ {f.app : f \in w.files} # {}
    THEN 1
    ELSE LET wave == Waves(w.files)
         IN IF wave[TIERS.identity] < wave[TIERS.workload]
               /\ wave[TIERS.workload] <= wave[TIERS.network] THEN 0 ELSE 1

\* ArgoCD: the orders in which the root Application may apply its children.
Orders(files) ==
    {o \in [1 .. Cardinality(files) -> files] :
        /\ \A i, j \in DOMAIN o : o[i] = o[j] => i = j
        /\ \A i, j \in DOMAIN o : i < j => o[i].wave <= o[j].wave}

\* labs/m10/grade.py over the learner's application.yaml.
GradeApplication(a) ==
    IF /\ a.kind = "Application" /\ a.wave = 1
       /\ a.project = "shop" /\ a.namespace = "shop" /\ a.prune /\ a.selfHeal
    THEN 0 ELSE 1

=============================================================================
