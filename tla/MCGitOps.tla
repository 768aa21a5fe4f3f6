------------------------------ MODULE MCGitOps ------------------------------
(***************************************************************************)
(* Instances of GitOps: the reconciler as shipped, and mapped to the group *)
(* shop:tier-operators, as a comment of k8s/rbac.yaml suggests.            *)
(***************************************************************************)
EXTENDS GitOps

MCTiers == {"api"}
MCServiceAccts == {"api-sa", "default"}
MCSAOf == [t \in MCTiers |-> "api-sa"]
MCGatedSAs == {"api-sa"}

ShippedReconciler ==
    [uname |-> <<"system", "serviceaccount", "argocd", "argocd-application-controller">>,
     groups |-> {"system:serviceaccounts"}]
MappedReconciler ==
    [uname |-> <<"gitops">>, groups |-> {"shop:tier-operators"}]

\* The ClusterRole that ArgoCD's chart gives its controller: every verb.
ChartGrants == {"apply", "delete"} \X {"accounts", "policies", "workload", "netpol"}

\* Granted by hand beyond the group's role, which neither deletes nor writes the
\* identity files: all but deleting policies, so that some syncs are refused.
HandGrants == ChartGrants \ {<<"delete", "policies">>}

\* A stack up.sh has brought up, with ArgoCD the only writer afterwards.
AfterUp ==
    /\ git = [f \in Files |-> "canonical"]
    /\ live = [f \in Files |-> "canonical"]
    /\ pods = "canonical"
    /\ sync = [a \in Applications |-> None]
    /\ up = <<>> /\ failed = FALSE
    /\ overtaken = {}

GitOnlyNext ==
    \/ ReconcileStep
    \/ \E f \in Files : \E c \in Contents(f) : Merge(f, c)

GitOnlySpec == AfterUp /\ [][GitOnlyNext]_vars /\ Fairness
=============================================================================
