--------------------------- MODULE IdentityGuards ---------------------------
(***************************************************************************)
(* scripts/check-deployer-rbac.py: the exit codes of its static half over  *)
(* k8s/rbac.yaml and of its live half.                                     *)
(***************************************************************************)
EXTENDS Naturals, FiniteSets

(***************************************************************************)
(* k8s/rbac.yaml as far as check-deployer-rbac.py reads it: the rules of   *)
(* its first Role named shop-deployer, in flow style, and whether that is  *)
(* also the name of a ClusterRole or in a ClusterRoleBinding.              *)
(***************************************************************************)
FORBIDDEN ==
    {"pods", "pods/exec", "pods/attach", "secrets", "serviceaccounts", "roles",
     "rolebindings", "clusterroles", "clusterrolebindings"}
GROUPS == {"shop:deployers", "shop:tier-operators"}

Held(f) == UNION {r.resources : r \in f.rules}
Wildcard(f) == \E r \in f.rules : "*" \in r.verbs \cup r.apiGroups \cup r.resources

DeployerExitHeld(f) ==  \* a slip: a wildcard is not looked for
    IF f.clusterRole \/ ~f.role \/ Held(f) \cap FORBIDDEN # {} \/ f.clusterBinding
    THEN 1 ELSE 0

\* main()
DeployerExit(f) ==
    IF \/ f.clusterRole \/ ~f.role
       \/ Held(f) \cap FORBIDDEN # {} \/ Wildcard(f) \/ f.clusterBinding
    THEN 1 ELSE 0

\* RBAC: whether some rule gives the verb on the resource.
Grants(rules, verb, resource) ==
    \E r \in rules : /\ {verb, "*"} \cap r.verbs # {}
                     /\ {resource, "*"} \cap r.resources # {}

\* kubectl auth can-i: the file's role, bound to both groups, and every other
\* rule bound to the group in the cluster.
CanI(f, verb, resource, group) ==
    Grants(f.rules, verb, resource) \/ Grants(f.others[group], verb, resource)

Denied == {<<"create", "pods">>, <<"get", "secrets">>, <<"create", "serviceaccounts">>,
           <<"create", "rolebindings">>}

\* live_check(); without a cluster it is skipped, not failed.
DeployerLiveExit(f) ==
    IF f.reachable /\ \E g \in GROUPS :
           \/ \E d \in Denied : CanI(f, d[1], d[2], g)
           \/ ~CanI(f, "create", "deployments", g)
    THEN 1 ELSE 0

=============================================================================
