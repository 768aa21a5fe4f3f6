----------------------------- MODULE Admission -----------------------------
(***************************************************************************)
(* The decisions the API server takes on a write in namespace `shop': the  *)
(* RBAC grants of k8s/rbac.yaml and the two ValidatingAdmissionPolicies,   *)
(* shop-label-identity (k8s/admission-policy.yaml) and shop-sa-use         *)
(* (k8s/admission-sa-use.yaml).  No state: operators over a request.       *)
(*                                                                         *)
(* A user name is the sequence of its colon-separated parts, which is what *)
(* the policies' startsWith tests tell apart.                              *)
(***************************************************************************)
EXTENDS Naturals, Sequences

CONSTANTS
    Tiers,        \* the `app' label values the network policies trust
    ServiceAccts, \* every ServiceAccount of the namespace
    SAOf,         \* the ServiceAccount each tier must run as
    GatedSAs      \* the list shop-sa-use compares with (isTierSA)

NoApp == "no-app"          \* a pod template without an `app' label
UnknownApp == "other-app"  \* an `app' value that is no tier
Apps == Tiers \cup {NoApp, UnknownApp}

\* The last conjunct holds of the files.  scripts/check-sa-consistency.py is
\* meant to keep it: it compares the names that the files have, and sees
\* neither SAOf's mapping nor an account of rbac.yaml in block style.
ASSUME AdmissionAssumption ==
    /\ NoApp \notin Tiers /\ UnknownApp \notin Tiers
    /\ SAOf \in [Tiers -> ServiceAccts]
    /\ GatedSAs \subseteq ServiceAccts
    /\ \A t \in Tiers : SAOf[t] \in GatedSAs

(***************************************************************************)
(* Kinds, and where each one carries its pods' ServiceAccount.             *)
(***************************************************************************)
GatedKinds == {"pods", "deployments", "replicasets", "statefulsets",
               "daemonsets", "jobs", "cronjobs"}

\* Core/v1 replicationcontrollers also make pods; no policy names them.
Kinds == GatedKinds \cup {"replicationcontrollers"}

SpecPath(kind) ==
    IF kind = "pods" THEN "spec"
    ELSE IF kind = "cronjobs" THEN "jobTemplate" ELSE "template"

NoSA == "no-sa"
PathsWithoutCron == {"template", "spec"}  \* a slip: cronSA left out
ResolvedPaths == {"jobTemplate", "template", "spec"}

\* cronSA, then tmplSA, then podSA: an object carries exactly one of them.
EffectiveSA(kind, sa) == IF SpecPath(kind) \in ResolvedPaths THEN sa ELSE NoSA

(***************************************************************************)
(* Requesters: [uname |-> sequence of name parts, groups |-> set].         *)
(***************************************************************************)
AdminGroups == {"system:masters", "kubeadm:cluster-admins"}
DeployGroups == {"shop:deployers", "shop:tier-operators"}

KubeSystemSA(uname) ==
    /\ Len(uname) > 3
    /\ SubSeq(uname, 1, 3) = <<"system", "serviceaccount", "kube-system">>

\* Slips in the requester test: the prefix the policy warns against, and the
\* controllers forgotten.
AuthorizedAnySystemName(r) ==
    \/ r.groups \cap (AdminGroups \cup {"shop:tier-operators"}) # {}
    \/ r.uname[1] = "system"

AuthorizedByGroupOnly(r) ==
    r.groups \cap (AdminGroups \cup {"shop:tier-operators"}) # {}

RequesterAuthorized(r) ==
    \/ r.groups \cap AdminGroups # {}
    \/ "shop:tier-operators" \in r.groups
    \/ KubeSystemSA(r.uname)
    \/ r.uname = <<"system", "kube-controller-manager">>

\* Role shop-deployer, bound to both deploy groups: create, update and patch,
\* and no verb on pods.  (Its services and configmaps are left out.)
RoleKinds == {"deployments", "jobs", "cronjobs", "ciliumnetworkpolicies"}

CanWrite(r, kind) ==
    \/ r.groups \cap AdminGroups # {}
    \/ r.groups \cap DeployGroups # {} /\ kind \in RoleKinds

\* No rule of the Role has the verb `delete'.
CanDelete(r) == r.groups \cap AdminGroups # {}

(***************************************************************************)
(* The two policies' validations, and the verdict under what is enforced.  *)
(***************************************************************************)
\* A slip: a known tier label is enough.
LabelKnownOnly(kind, app, sa) == kind # "pods" \/ app \in Tiers \cup {NoApp}

LabelIdentityOK(kind, app, sa) ==
    \/ kind # "pods"
    \/ app = NoApp
    \/ app \in Tiers /\ sa = SAOf[app]

SAUseOK(r, kind, sa) ==
    \/ kind \notin GatedKinds
    \/ EffectiveSA(kind, sa) \notin GatedSAs
    \/ RequesterAuthorized(r)

Policies == {"shop-label-identity", "shop-sa-use"}

\* enforcing: the policies whose violations are denied at this moment.
Admitted(r, kind, app, sa, enforcing) ==
    /\ "shop-label-identity" \in enforcing => LabelIdentityOK(kind, app, sa)
    /\ "shop-sa-use" \in enforcing => SAUseOK(r, kind, sa)

=============================================================================
