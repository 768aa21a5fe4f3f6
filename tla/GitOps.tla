------------------------------- MODULE GitOps -------------------------------
(***************************************************************************)
(* How the manifests of k8s/ reach the cluster: scripts/up.sh applies the  *)
(* files one after the other as a cluster admin, and ArgoCD (external)     *)
(* syncs them, as the user Reconciler, from the three child Applications   *)
(* of gitops/apps.  Merges, drift, syncs and up.sh interleave file by      *)
(* file, and admission, itself one of the files, judges each write.        *)
(***************************************************************************)
EXTENDS Admission, FiniteSets

CONSTANTS
    Reconciler,  \* whom the API server sees when ArgoCD writes
    OtherGrants, \* what roles that are not the repository's let it do, as
                 \* pairs of a verb and a file
    Automated,   \* Applications patched with automated{prune, selfHeal}
    Tier,        \* the tier of the one Deployment kept of app.yaml
    OtherSA,     \* a ServiceAccount that is no tier's
    None         \* no object, no operation

ASSUME GitOpsAssumption ==
    /\ Tier \in Tiers /\ OtherSA \in ServiceAccts \ GatedSAs
    /\ OtherGrants \subseteq {"apply", "delete"} \X {"accounts", "policies", "workload", "netpol"}
    /\ None \notin {"canonical", "open", "forged"}

\* The files: rbac.yaml, the two admission policies, app.yaml, netpol.yaml.
Files == {"accounts", "policies", "workload", "netpol"}

\* Contents a file can have in Git or a live object after an edit.  An `open'
\* netpol lets /auditlogs through (labs/m10/break/drift-netpol.yaml); a
\* `forged' workload keeps the tier's label without its ServiceAccount.
Contents(f) ==
    CASE f = "accounts" -> {"canonical"}
      [] f = "policies" -> {"canonical", None}
      [] f = "workload" -> {"canonical", "forged", None}
      [] f = "netpol"   -> {"canonical", "open"}

Applications == {"shop-identity", "shop-workload", "shop-network-runtime"}

FilesOf(a) ==
    CASE a = "shop-identity"        -> {"accounts", "policies"}
      [] a = "shop-workload"        -> {"workload"}
      [] a = "shop-network-runtime" -> {"netpol"}

VARIABLES
    git,   \* file -> content at the head of master
    live,  \* file -> content of its live object, or None
    pods,  \* content of the workload whose pods run, or None
    sync,  \* application -> its running sync [rev, todo], or None
    up,    \* files a running scripts/up.sh still has to apply
    failed, \* has a file of its running kubectl command failed?
    overtaken  \* history: files that master changed since the sync that still
               \* has to write them began

vars == <<git, live, pods, sync, up, failed, overtaken>>

SAFor(c) == IF c = "forged" THEN OtherSA ELSE SAOf[Tier]
Enforced == IF live["policies"] = None THEN {} ELSE Policies

Init ==
    /\ git = [f \in Files |-> "canonical"]
    /\ live = [f \in Files |-> None]
    /\ pods = None
    /\ sync = [a \in Applications |-> None]
    /\ up = <<>> /\ failed = FALSE
    /\ overtaken = {}

Resource(f) ==
    CASE f = "accounts" -> "serviceaccounts"
      [] f = "policies" -> "validatingadmissionpolicies"
      [] f = "workload" -> "deployments"
      [] f = "netpol"   -> "ciliumnetworkpolicies"

Verb(c) == IF c = None THEN "delete" ELSE "apply"

\* RBAC: the roles bound to a requester add up.
Granted(r, f, c) ==
    \/ IF c = None THEN CanDelete(r) ELSE CanWrite(r, Resource(f))
    \/ r = Reconciler /\ <<Verb(c), f>> \in OtherGrants

\* Workload and network policies live in namespace `shop', which rbac.yaml
\* makes; the admission policies are of the cluster.
HasNamespace(f) == f \in {"workload", "netpol"} => live["accounts"] # None

Writable(r, f, c) ==
    /\ HasNamespace(f)
    /\ Granted(r, f, c)
    /\ f = "workload" /\ c # None =>
           Admitted(r, "deployments", Tier, SAFor(c), Enforced)

Put(f, c) == live' = [live EXCEPT ![f] = c]

-----------------------------------------------------------------------------
UpOrder == <<"accounts", "policies", "workload", "netpol">>

\* The script applies them with two commands: the last file of each.
LastOfCommand == {"policies", "netpol"}

StartUp ==
    /\ up = <<>> /\ up' = UpOrder
    /\ UNCHANGED <<git, live, pods, sync, failed, overtaken>>

\* kubectl apply, by a cluster admin, of the next file of its command: it goes
\* on past a file that fails, for whatever reason, and exits 1 at its end,
\* which under set -e ends the script.
UpApply ==
    \E ok \in BOOLEAN :
        LET f   == Head(up)
            bad == failed \/ ~ok
        IN  /\ up # <<>>
            /\ ok => HasNamespace(f)
            /\ IF ok THEN Put(f, "canonical") ELSE UNCHANGED live
            /\ up' = IF bad /\ f \in LastOfCommand THEN <<>> ELSE Tail(up)
            /\ failed' = (bad /\ f \notin LastOfCommand)
            /\ UNCHANGED <<git, pods, sync, overtaken>>

\* A commit reaches master.  (A bound: none opens the network policy.)
Merge(f, c) ==
    /\ c # "open"
    /\ git[f] # c
    /\ git' = [git EXCEPT ![f] = c]
    /\ overtaken' = overtaken \cup
           {g \in {f} : \E a \in Applications : sync[a] # None /\ g \in sync[a].todo}
    /\ UNCHANGED <<live, pods, sync, up, failed>>

\* A cluster admin, or an intruder with that power, edits or deletes it live.
\* (A bound: the accounts stay.)
Drift(f, c) ==
    /\ live[f] # c /\ f # "accounts" /\ HasNamespace(f)
    /\ Put(f, c)
    /\ UNCHANGED <<git, pods, sync, up, failed, overtaken>>

-----------------------------------------------------------------------------
(***************************************************************************)
(* ArgoCD: a sync works on the revision it started from, one file at a     *)
(* time; a write the API server refuses is left out of sync.               *)
(***************************************************************************)
OutOfSync(a) == \E f \in FilesOf(a) : live[f] # git[f]

\* A slip: a sync that takes up the files of every Application.
StartSyncAll(a) ==
    /\ sync[a] = None
    /\ OutOfSync(a)
    /\ sync' = [sync EXCEPT ![a] = [rev |-> git, todo |-> Files]]
    /\ UNCHANGED <<git, live, pods, up, failed, overtaken>>

\* A slip: a sync of a fixed revision instead of the head of master.
StartSyncPinned(a) ==
    /\ sync[a] = None
    /\ OutOfSync(a)
    /\ sync' = [sync EXCEPT ![a] = [rev |-> [f \in FilesOf(a) |-> "canonical"],
                                    todo |-> FilesOf(a)]]
    /\ UNCHANGED <<git, live, pods, up, failed, overtaken>>

StartSync(a) ==
    /\ sync[a] = None
    /\ OutOfSync(a)
    /\ sync' = [sync EXCEPT ![a] = [rev |-> [f \in FilesOf(a) |-> git[f]],
                                    todo |-> FilesOf(a)]]
    /\ UNCHANGED <<git, live, pods, up, failed, overtaken>>

\* What is left of sync s once file f is done.
Rest(s, f) == IF s.todo = {f} THEN None ELSE [rev |-> s.rev, todo |-> s.todo \ {f}]

\* A slip: a sync that leaves an existing object alone (no selfHeal).
SyncFileCreateOnly(a, f) ==
    /\ sync[a] # None /\ f \in sync[a].todo
    /\ IF Writable(Reconciler, f, sync[a].rev[f]) /\ live[f] = None
       THEN Put(f, sync[a].rev[f]) ELSE UNCHANGED live
    /\ sync' = [sync EXCEPT ![a] = Rest(sync[a], f)]
    /\ overtaken' = overtaken \ {f}
    /\ UNCHANGED <<git, pods, up, failed>>

SyncFile(a, f) ==
    /\ sync[a] # None /\ f \in sync[a].todo
    /\ IF Writable(Reconciler, f, sync[a].rev[f])
       THEN Put(f, sync[a].rev[f]) ELSE UNCHANGED live
    /\ sync' = [sync EXCEPT ![a] = Rest(sync[a], f)]
    /\ overtaken' = overtaken \ {f}
    /\ UNCHANGED <<git, pods, up, failed>>

\* The workload controllers (external) replace the pods by those of the live
\* Deployment, if admission lets them; without a Deployment the pods go.
Controllers == [uname |-> <<"system", "serviceaccount", "kube-system", "controller">>,
                groups |-> {}]

RollOut ==
    /\ pods # live["workload"]
    /\ live["workload"] # None =>
           Admitted(Controllers, "pods", Tier, SAFor(live["workload"]), Enforced)
    /\ pods' = live["workload"]
    /\ UNCHANGED <<git, live, sync, up, failed, overtaken>>

-----------------------------------------------------------------------------
SyncStep(a) == StartSync(a) \/ \E f \in FilesOf(a) : SyncFile(a, f)
ReconcileStep == RollOut \/ \E a \in Applications : SyncStep(a)

Next ==
    \/ StartUp \/ UpApply \/ ReconcileStep
    \/ \E f \in Files : \E c \in Contents(f) : Merge(f, c) \/ Drift(f, c)

Spec == Init /\ [][Next]_vars

\* ArgoCD keeps syncing the automated Applications, and the workload
\* controllers keep reconciling.
Fairness == (\A a \in Automated : WF_vars(SyncStep(a))) /\ WF_vars(RollOut)

FairSpec == Spec /\ Fairness

-----------------------------------------------------------------------------
\* Master and the cluster hold contents of each file's own, a sync works on the
\* files of its Application from a revision of such contents, and up holds what
\* is left of a run of up.sh.
TypeOK ==
    /\ DOMAIN git = Files /\ DOMAIN live = Files
    /\ \A f \in Files : git[f] \in Contents(f) /\ live[f] \in Contents(f) \cup {None}
    /\ pods \in Contents("workload")
    /\ \A a \in Applications : sync[a] # None =>
           /\ sync[a].todo \subseteq FilesOf(a)
           /\ \A f \in FilesOf(a) : sync[a].rev[f] \in Contents(f)
    /\ up \in {SubSeq(UpOrder, i, Len(UpOrder)) : i \in 1 .. Len(UpOrder) + 1}
    /\ failed \in BOOLEAN
    /\ overtaken \subseteq Files

\* What the reconciler writes is what master says at that moment, whatever was
\* merged, edited or applied since its sync began, unless master changed that
\* very file since; hence what agrees with master is left alone, and a late
\* sync undoes a merge only of a file that the merge changed.
SyncsFollowMaster ==
    [][ReconcileStep =>
          \A f \in Files \ overtaken : live'[f] \in {live[f], git'[f]}]_vars

\* A workload that master has in its canonical form gets back live, unless
\* master changes first: merges, drift, up.sh, a sync still applying an older
\* revision and the gates that judge the writer may all come in between.
WorkloadFollowsGit ==
    git["workload"] = "canonical"
        ~> live["workload"] = "canonical" \/ git["workload"] # "canonical"

\* The reconciler is granted the write that file f needs to be as content c,
\* and its namespace is there or its to make.
WithinReach(f, c) ==
    /\ Granted(Reconciler, f, c)
    /\ HasNamespace(f) \/ Granted(Reconciler, "accounts", "canonical")

\* Once nobody merges, edits or runs up.sh any more, the automated files that
\* are within the reconciler's reach come to agree with master for good, and
\* the pods with the workload, unless the workload asks for pods that admission
\* refuses: reconciler, admission and controllers do not keep each other from
\* settling.
Converges ==
    <>[][ReconcileStep]_vars =>
        <>[](/\ \A a \in Automated : \A f \in FilesOf(a) :
                    WithinReach(f, git[f]) => live[f] = git[f]
             /\ live["workload"] = "forged" \/ pods = live["workload"])

=============================================================================
