------------------------------ MODULE Identity ------------------------------
(***************************************************************************)
(* Layer 0, workload identity: what may run in namespace `shop' under a    *)
(* tier ServiceAccount or a tier `app' label, while the two admission      *)
(* policies are applied, downgraded and restored, requesters write         *)
(* workloads, and the workload controllers turn them into pods.            *)
(*                                                                         *)
(* The controllers always pass shop-sa-use (they are kube-system service   *)
(* accounts), so the gate sees only the write of the topmost object: who   *)
(* stands behind a pod is decided one or two objects above it, possibly    *)
(* under another enforcement state than the pod's own admission.           *)
(***************************************************************************)
EXTENDS Admission

CONSTANTS
    Requesters,  \* the users that write workloads; none is a controller
    UsedKinds,   \* the kinds they write (a bound)
    Workloads,   \* slots for objects written by requesters (a bound)
    Parts,       \* slots for objects made by controllers (a bound)
    None         \* no object, no owner

Slots == Workloads \cup Parts

VARIABLES
    binding,    \* policy -> validationActions stored for its binding
    enforcing,  \* policies the API server denies on: it follows `binding' late
    obj         \* slot -> its object, or None

vars == <<binding, enforcing, obj>>

(***************************************************************************)
(* An object's pod template is (app, sa).  Two history fields say how it   *)
(* came to be: vouched, whether the requester that chose the template was  *)
(* trusted with tier identities; lax, the policies not enforced then     *)
(* (for a controller's object, also those not enforced at its creation).   *)
(***************************************************************************)
Object == [kind: Kinds, app: Apps, sa: ServiceAccts,
           owner: Slots \cup {None}, vouched: BOOLEAN, lax: SUBSET Policies]

ASSUME IdentityAssumption ==
    /\ \A r \in Requesters :
           ~KubeSystemSA(r.uname) /\ r.uname # <<"system", "kube-controller-manager">>
    /\ UsedKinds \subseteq Kinds
    /\ Workloads \cap Parts = {}
    /\ None \notin Object \cup Slots

Live(s) == obj[s] # None
Template(s) == <<obj[s].app, obj[s].sa>>
Children(s) == {c \in Slots : Live(c) /\ obj[c].owner = s}
Free(s) == ~Live(s) /\ Children(s) = {}

Init ==
    /\ binding = [p \in Policies |-> "Absent"]
    /\ enforcing = {}
    /\ obj = [s \in Slots |-> None]

(***************************************************************************)
(* The policies.                                                           *)
(***************************************************************************)

\* kubectl apply of admission-policy.yaml or admission-sa-use.yaml, by up.sh
\* or by the last step of a break-glass.
ApplyPolicy(p) ==
    /\ binding[p] # "Deny"
    /\ binding' = [binding EXCEPT ![p] = "Deny"]
    /\ UNCHANGED <<enforcing, obj>>

\* Break-glass, step 2: shop-sa-use-binding goes from Deny to [Warn, Audit].
\* A slip: an action the type does not know, which denies nothing.
DowngradeToAudit ==
    /\ binding["shop-sa-use"] = "Deny"
    /\ binding' = [binding EXCEPT !["shop-sa-use"] = "Audit"]
    /\ UNCHANGED <<enforcing, obj>>

Downgrade ==
    /\ binding["shop-sa-use"] = "Deny"
    /\ binding' = [binding EXCEPT !["shop-sa-use"] = "Warn"]
    /\ UNCHANGED <<enforcing, obj>>

\* The API server's admission plugin catches up with the stored bindings.
ObservePolicies ==
    /\ enforcing # {p \in Policies : binding[p] = "Deny"}
    /\ enforcing' = {p \in Policies : binding[p] = "Deny"}
    /\ UNCHANGED <<binding, obj>>

(***************************************************************************)
(* The requesters.                                                         *)
(***************************************************************************)
\* Whom the project trusts with tier identities, said without the policy's
\* name tests: cluster admins and the tier operators.
Trusted(r) == r.groups \cap (AdminGroups \cup {"shop:tier-operators"}) # {}

Written(r, kind, app, sa) ==
    [kind |-> kind, app |-> app, sa |-> sa, owner |-> None,
     vouched |-> Trusted(r), lax |-> Policies \ enforcing]

UserCreate(r, s, kind, app, sa) ==
    /\ Free(s)
    /\ CanWrite(r, kind)
    /\ Admitted(r, kind, app, sa, enforcing)
    /\ obj' = [obj EXCEPT ![s] = Written(r, kind, app, sa)]
    /\ UNCHANGED <<binding, enforcing>>

\* A pod's ServiceAccount and a job's template are immutable; a selector,
\* which the template's label must match, is immutable in the other kinds.
MayChange(kind, old, new) ==
    CASE kind = "pods"     -> new[2] = old[2]
      [] kind = "jobs"     -> new = old
      [] kind = "cronjobs" -> TRUE
      [] OTHER             -> new[1] = old[1]

UserUpdate(r, s, app, sa) ==
    /\ Live(s)
    /\ CanWrite(r, obj[s].kind)
    /\ MayChange(obj[s].kind, Template(s), <<app, sa>>)
    /\ Admitted(r, obj[s].kind, app, sa, enforcing)
    /\ obj' = [obj EXCEPT ![s] = Written(r, obj[s].kind, app, sa)]
    /\ UNCHANGED <<binding, enforcing>>

UserDelete(r, s) ==
    /\ Live(s)
    /\ CanDelete(r)
    /\ obj' = [obj EXCEPT ![s] = None]
    /\ UNCHANGED <<binding, enforcing>>

(***************************************************************************)
(* The workload controllers of kube-system (external).                     *)
(***************************************************************************)
Controller == [uname |-> <<"system", "serviceaccount", "kube-system", "controller">>,
               groups |-> {}]

ChildKind(kind) ==
    IF kind = "deployments" THEN "replicasets"
    ELSE IF kind = "cronjobs" THEN "jobs" ELSE "pods"

\* A replica set keeps its replica while it is its deployment's current one,
\* or while the current one has no pod yet (maxUnavailable rounds down to 0).
Retired(s) ==
    /\ obj[s].kind = "replicasets"
    /\ obj[s].owner # None
    /\ LET d == obj[s].owner
       IN Live(d) => /\ Template(d) # Template(s)
                     /\ \E c \in Children(d) : Template(c) = Template(d) /\ Children(c) # {}

\* The controller of s has a child to create.
Due(s) ==
    /\ obj[s].kind # "pods"
    /\ obj[s].owner # None => Live(obj[s].owner)
    /\ IF ChildKind(obj[s].kind) = "pods"
       THEN Children(s) = {} /\ ~Retired(s)
       ELSE \A c \in Children(s) : Template(c) # Template(s)

ControllerCreate(s, c) ==
    /\ Live(s) /\ Due(s)
    /\ Free(c)
    /\ LET kind == ChildKind(obj[s].kind)
       IN /\ Admitted(Controller, kind, obj[s].app, obj[s].sa, enforcing)
          /\ obj' = [obj EXCEPT ![c] =
                       [obj[s] EXCEPT !.kind = kind, !.owner = s,
                                       !.lax = @ \cup (Policies \ enforcing)]]
    /\ UNCHANGED <<binding, enforcing>>

\* Scale-down of a retired replica set, and garbage collection of an object
\* whose owner was deleted.
Collectable(s) ==
    \/ Retired(s) /\ Children(s) = {}
    \/ obj[s].owner # None /\ ~Live(obj[s].owner)
    \/ obj[s].owner # None /\ Live(obj[s].owner) /\ Retired(obj[s].owner)

ControllerDelete(s) ==
    /\ Live(s) /\ Collectable(s)
    /\ obj' = [obj EXCEPT ![s] = None]
    /\ UNCHANGED <<binding, enforcing>>

\* A pod is evicted or its node is lost.
PodGone(s) ==
    /\ Live(s) /\ obj[s].kind = "pods"
    /\ obj' = [obj EXCEPT ![s] = None]
    /\ UNCHANGED <<binding, enforcing>>

-----------------------------------------------------------------------------
PolicyStep == (\E p \in Policies : ApplyPolicy(p)) \/ Downgrade \/ ObservePolicies

UserStep ==
    \E r \in Requesters, s \in Workloads :
        \/ \E kind \in UsedKinds, app \in Apps, sa \in ServiceAccts :
               UserCreate(r, s, kind, app, sa)
        \/ \E app \in Apps, sa \in ServiceAccts : UserUpdate(r, s, app, sa)
        \/ UserDelete(r, s)

ControllerStep ==
    \/ \E s \in Slots, c \in Parts : ControllerCreate(s, c)
    \/ \E s \in Parts : ControllerDelete(s)

Next == PolicyStep \/ UserStep \/ ControllerStep \/ \E s \in Slots : PodGone(s)

Spec == Init /\ [][Next]_vars

\* The controllers keep reconciling and the API server keeps watching its
\* policies; nobody has to write, delete or downgrade anything.
Fairness ==
    /\ WF_vars(ObservePolicies)
    /\ \A s \in Slots : WF_vars(\E c \in Parts : ControllerCreate(s, c))
    /\ \A s \in Parts : WF_vars(ControllerDelete(s))

FairSpec == Spec /\ Fairness

-----------------------------------------------------------------------------
\* The policies and their enforcement, and what every slot holds.
TypeOK ==
    /\ binding \in [Policies -> {"Absent", "Deny", "Warn"}]
    /\ enforcing \subseteq Policies
    /\ obj \in [Slots -> Object \cup {None}]

\* Whatever runs, or will make something run, under a tier ServiceAccount was
\* asked for by a requester the SA-use gate trusts, or was written while the
\* gate was not denying: no kind of object and no chain of owners lets the
\* controllers' own exemption stand in for the requester's authority.
TierSAVouched ==
    \A s \in Slots :
        Live(s) /\ obj[s].sa \in GatedSAs =>
            obj[s].vouched \/ "shop-sa-use" \in obj[s].lax

\* A pod that Cilium takes for tier t runs as t's own ServiceAccount and was
\* asked for by a trusted requester, unless a policy was off on its way: the
\* label policy alone gives the first, and only both policies the second.
NetworkIdentityVouched ==
    \A s \in Slots :
        Live(s) /\ obj[s].kind = "pods" /\ obj[s].app \in Tiers /\ obj[s].lax = {} =>
            obj[s].sa = SAOf[obj[s].app] /\ obj[s].vouched

\* A deployment whose template is consistent gets a pod of that template,
\* unless the template is changed or the deployment deleted first: the gates
\* never block the controllers of a legitimate rollout.
RolloutCompletes ==
    \A s \in Workloads, t \in Tiers :
        Live(s) /\ obj[s].kind = "deployments" /\ Template(s) = <<t, SAOf[t]>>
            ~> \/ \E c \in Children(s), p \in Slots :
                     p \in Children(c) /\ Template(p) = <<t, SAOf[t]>>
               \/ ~Live(s) \/ obj[s].kind # "deployments" \/ Template(s) # <<t, SAOf[t]>>

\* The mapping to TierCapability: an object holds the tier ServiceAccount its
\* pods run as.
HeldCapability(s) ==
    IF Live(s) /\ obj[s].sa \in GatedSAs
    THEN [sa |-> obj[s].sa, sound |-> obj[s].vouched] ELSE None

Capabilities ==
    INSTANCE TierCapability
        WITH TierSAs <- GatedSAs,
             open <- "shop-sa-use" \notin enforcing,
             cap <- [s \in Slots |-> HeldCapability(s)]

\* Admission, the controllers and the policies' life cycle together implement
\* the capability discipline: with the gate enforced, an untrusted requester
\* neither creates nor rewrites anything into a tier identity.
ImplementsTierCapability == Capabilities!Spec

=============================================================================
