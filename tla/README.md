# Formal models of cloudsec-policy-stack

The repository stacks access-control layers over a three-tier demo application
(`web -> api -> db` in namespace `shop`): workload identity at admission, network
policy, application authorization, runtime policy, and encryption of Secrets. Its
tests probe each layer once, in one order. The models here are about what the
layers do together and in the orders nobody wrote a probe for. TLC checks them on
small instances; TLAPS proves safety properties of every state machine for every
value of their constants.

Line numbers refer to the repository; `PROJECT.json` maps every definition to its
lines, and lists the hazards, the runs and the proved theorems.

## 1. Inventory

| Component (sources) | State | Operations | Hard because | Correct when |
|---|---|---|---|---|
| **Workload identity**: `k8s/rbac.yaml`, `admission-policy.yaml`, `admission-sa-use.yaml`, `runbooks/03` | policy bindings, what the API server enforces of them, objects and pods | apply, downgrade, restore a policy; create, update, delete a workload; controllers create and collect | a pod is made by exempt controllers, one or two objects after its author's write; policies change in between and are observed late | no tier ServiceAccount without a trusted author; label, account and author agree; rollouts are not blocked |
| **Deployment and GitOps**: `scripts/up.sh`, `gitops/`, `labs/m10` | manifests in Git, live objects, running syncs, rest of an `up.sh` run | merge, drift, sync file by file, `up.sh` file by file, rollout | five writers; admission is one of the files; syncs hold old revisions | Git wins; reconciliation settles |
| **api service**: `app/api/main.py`, `auth.py` | the request underway, the mode | edge, parse, resolve, authorize, answer | defaults, exception paths, two identity sources, Cedar's error rules | the principal is proved; 200 exactly for the entitled |
| **Cedar account policies**: `cedar/` | entity store (fixed) | decide | an errored policy is skipped, also a forbid | see api |
| **Cedar agent policies**: `cedar/agent/` | entity store (changing) | register, spawn, lower, remove, decide | revocation between spawn and use; dangling entities; optional attributes | reads bounded by the chain; revocation never grants |
| **Secrets at rest**: `enable-secrets-encryption.sh`, `runbooks/02` | key file on the node, manifest flag, keys the server loaded, how each Secret is stored | script steps, re-run, rotation steps, restarts, client writes | the server loads keys only when it starts; the waits do not see which server answers | no Secret unreadable; PASS means encrypted |
| **Network policy**: `k8s/netpol*.yaml` | policies, pods | edit, connect | allow rules add up, deny overrides | partly: the HTTP rules are `Api`'s edge, the file is one of `GitOps`'s |
| **Runtime policy**: `k8s/tracingpolicy.yaml`, `verify-runtime-scope.sh` | loaded rules | swap, exec, restore | windows without a rule, killed runs | planned |
| **ReBAC**: `rebac/` | the test container, its stores, each run's progress | transform, boot, load, ask, remove | runs share a name and a port; servers forget; docker stops; runs are killed | a verdict is right or not given; nothing is left behind; runs end |
| **Cross-layer lint**: `formal/cross_layer.py` | none | classify, report, exit | two definitions of one result; copied rules | exit code and reports agree; the lint describes the service |
| **Guards**: `check-deployer-rbac.py`, `check-reconciler-rbac.py`, `check-sync-wave-order.py` | none | judge files, ask the cluster | defaults of missing lists, wildcards, equal numbers | what passes is bounded by RBAC's and ArgoCD's own rules |
| **Graders**: `progress.py`, `labs/m0`, `m1`, `m6` (`grade.py`) | the learner's files, docker | look, compare, run, print | files and docker change between two looks; exit codes overlap with text | marks are earned, and agree with the grader |
| **Tutor**: `mcp/` | the call underway | list, read, grade, hint | hanging graders, three passes over one text | every call ends; a README is served without its answers |
| **Cluster graders, fixtures, coverage table, `check-sa-consistency.py`** | none or the cluster | probe | clean-up after a cut run | not modelled |
| **Provisioning, CI, slides, PowerShell and Kyverno twins** | | | | not modelled, see section 13 |

How they interact: `up.sh` and ArgoCD write the identity, workload and network files;
admission (identity) judges the workload among them; the network edge lets a request
reach the api; the api asks Cedar. Nothing is shared between api requests. The agent
bundle is evaluated on its own, from a store that a control plane outside the repository
maintains. The guards and the lint judge the files the first four components run on.
Runs of the live check meet each other in docker; the tutor and `progress.py` run the
graders and the lint.

## 2. Modules

| Module | Models | Extends |
|---|---|---|
| `Admission` | the decision on one write: RBAC and both ValidatingAdmissionPolicies, as operators | |
| `Identity` | policies, requesters, controllers, objects | `Admission` |
| `TierCapability` | abstract specification: tier ServiceAccounts as capabilities | |
| `IdentityProofs` | inductive invariant, safety theorems, refinement | `Identity` |
| `GitOps` | Git, live state, syncs, `up.sh`, rollout | `Admission` |
| `Cedar` | the engine's rules: three-valued conditions, skip on error, forbid overrides | |
| `Api` | a request from the edge to its answer | `Cedar` |
| `CedarProofs` | when a set of policies allows | `Cedar` |
| `ApiProofs` | principal and decision theorems; the lint describes the service | `EdgeLint`, `CedarProofs` |
| `AgentAuthz` | agent entities under a control plane, and the seven policies | `Cedar` |
| `AgentProofs` | reads bounded, backstop redundant, revocation | `AgentAuthz`, `CedarProofs` |
| `SecretsAtRest` | script, rotation, API server, etcd | |
| `SecretsProofs` | types; what alone can lose a Secret or make a PASS untrue | `SecretsAtRest` |
| `GitOpsProofs` | contents stay with their files, syncs with their Application; what a sync writes | `GitOps` |
| `Rebac` | the relations of `model.fga` and of every model its terms can make, the tuples and scenarios | |
| `LiveCheck` | runs of `check_live.py`, their container, docker | |
| `LiveModel` | those runs over the script's own tuples and scenarios; what a PASS means | `LiveCheck`, `Rebac` |
| `LiveCheckProofs` | verdicts, clean-up, a PASS holds for all data | `LiveModel` |
| `CrossLayer` | a run of the lint, as operators | |
| `EdgeLint` | the lint held against the service | `Api`, `CrossLayer` |
| `IdentityGuards`, `GitOpsGuards` | the static guards, their live halves, RBAC's and ArgoCD's rules | |
| `Lesson` | what the tutor serves of a README | |
| `Review` | a proposed change and the check it meets | guards, `CrossLayer`, `Lesson` |
| `Workbench` | a learner's clone, graders, `progress.py`, the tutor's calls | |
| `WorkbenchProofs` | what the marks mean; what the guards, the lint and the lesson filter pass | `Workbench`, `Review` |
| `MC*` | instances for TLC | |

A slot, a user id, a key or an amount is a model value, a string or a small
number; wording, logging and layout are left out. Definitions whose comment calls
them a *slip* are not part of any specification: they are one definition written
the way a plausible mistake would write it, and `PROJECT.json` lists under
`mutants` which property each of them violates when put in that definition's
place.

## 3. Identity

**State.** `binding` is what is stored (`Absent`, `Deny`, `Warn`), `enforcing` what
the API server acts on, `obj` the objects. Each object carries two history fields
that no action's guard reads: `vouched`, whether its template was chosen by a
requester the project trusts with tier identities (cluster admins and
`shop:tier-operators`), and `lax`, the policies that were not enforced when it, or
the object it comes from, was written.

**Actions.** A request (RBAC, admission, storage) is one step. `UserCreate` and
`UserUpdate` are the verbs of the Role `shop-deployer` (`rbac.yaml:55-102`) and of
the admins, under `Admitted`. `ControllerCreate` is a request like any other, made
by a kube-system account, which is why the gate lets it through. `ApplyPolicy`,
`Downgrade` and `ObservePolicies` move the policies. `Downgrade` exists for
`shop-sa-use` only, as in the runbook.

**Abstractions.** One replica per pod-making object. A missing ServiceAccount is
the account `default`, as the API server defaults it. Users do not edit objects
made by controllers (only admins could). A slot is not reused while an object
names it as its owner: owners are identified by UID. `replicationcontrollers` are
in no policy's rules, and only admins may create them.

`AdmissionAssumption` says that every account a tier maps to is gated, and that the
two placeholder labels are no tier. `scripts/check-sa-consistency.py` is meant to
keep the first: it compares the names in the four files, not the mapping, and not
every style of name (end of section 11).

**Properties.** `TierSAVouched`: whatever holds a tier account has a trusted author
or was written while the gate was not denying. `NetworkIdentityVouched`: a tier pod
admitted under both policies has the account of its label and a trusted author.
`ImplementsTierCapability`: the refinement of `TierCapability`, which adds what a
step may do: with the gate enforced, an untrusted requester neither creates nor
rewrites anything into a tier identity. `RolloutCompletes`: the gates never stop a
consistent deployment.

The history fields say exactly what the code gives. An object accepted during a
break-glass keeps making pods after the restore: `lax` marks them, and no property
claims otherwise.

## 4. GitOps

**State.** One file each for the accounts, the two policies, one tier Deployment and
the network policies: its content in `git` and `live`, `pods` for the content whose
pods run, a `sync` per child Application with the revision it works on and the
files it has left, and what a running `up.sh` still has to apply (`up`), with
whether a file of its present command has `failed`. `overtaken` is history that no
guard reads: the files that master changed since the sync that still has to write
them began.

**Who may write.** `Writable` is the API server's answer: the namespace must be
there; RBAC must grant the verb (`Granted`); and the workload must pass `Admitted`
for the writer. The roles bound to a requester add up: the repository's Role
`shop-deployer` (`rbac.yaml:55-102`) has create, update and patch on workloads and
network policies, no delete, and nothing on accounts or admission policies. The
reconciler may have more from elsewhere, `OtherGrants`: the ClusterRole that
ArgoCD's chart gives its controller (`ChartGrants`), which the repository installs
(`scripts/enable-gitops.sh`) and does not contain, or what an operator adds to the
mapped group by hand (`HandGrants`: all but deleting policies, so that some syncs
are refused). `shop-project.yaml:32-51` lists all these kinds. A refused file stays
out of sync (`labs/m10/grade.sh:44-64` expects that).

**Actions.** `UpApply` is one file of `up.sh`'s two `kubectl apply` commands: kubectl
goes on past a file that fails and exits 1 at the end, which ends the script under
`set -e`, so the second command may never run. `Drift` is the live edit of
`grade.sh:35`; the deployers' Role can also edit network policies
(`rbac.yaml:68-70`), and an admin anything. Pruning and self-healing are those of
`grade.sh:34`; Applications that are not in `Automated` sync only when asked.

**Bounds.** Three contents per file at most; no merge opens the network policy, so
that `open` always means drift. One `up.sh` at a time.

**Properties.** `WorkloadFollowsGit`: a workload that master has in its canonical form
becomes live, unless master changes first. `Converges`: once nobody merges, edits or
runs `up.sh` any more, every automated file whose content in master is `WithinReach`
of the reconciler's roles agrees with master for good, and the pods with the
workload: syncs of the policies and of the workload, judged by the policies as they
stand, do not keep each other from settling. What is out of reach says what the
mapping of `rbac.yaml:91` does not give: without further grants the reconciler prunes
nothing and never writes accounts or admission policies. (When master itself asks for
a tier label without its account, admission refuses the pods and the old ones stay.)
`SyncsFollowMaster` is the safety half: a sync writes what master says at that moment,
although it took its revision long before, unless master changed that very file in
between; no reconciliation step takes a file that agrees with master away from it,
except such a late one.

The sync-wave annotations do not order these writes: they are on the child
Applications, whose own syncs run separately. Both `up.sh` and the waves apply the
network policies after the workload, so the window that
`gitops/apps/network-runtime.yaml:3` rules out exists; it is listed as a hazard.

## 5. Api, Cedar, agents

`Api` takes one request through the handler: `Arrive` (HTTP rules of
`allow-web-to-api`), `ReadBody`, `Resolve`, `Authorize`, `Respond`. Handlers share
no mutable state, so requests are taken one at a time; the edge may change
meanwhile. An Authorization header is absent, blank, of another scheme or a bearer
token. `requireJwt` is a deployment's setting. Amounts are in halves, so that
`int()`'s truncation is visible, around every boundary: below the least Cedar
Long, negative, between -1 and 1, the limit, the default, above the greatest Long.

`DecisionIsIntended` compares the handler with `Entitled`, which says who may do what
without policies, errors or defaults. `PrincipalProved` says whose authority the handler
used: the subject of a verified token, or, outside enforce mode and with a header that
is absent or blank, the `X-User`. `FallbackOnlyWithoutHeader` is what `auth.py:83-84`
says instead, and a blank header refutes it. The subtle case of `DecisionIsIntended` is
the unknown account: the forbid on frozen accounts errs and is skipped, and the decision
is right because the permit errs too.

The agents share the engine's rules with the api and nothing else, so one run takes each
while the other is at rest. `AgentAuthz` keeps the entity store of `cedar/agent` under a
control plane that is trusted to record the truth (`docs/authorization-model.md`), as
the policies' comments require, though it may leave the optional attribute out. `by` and
`floor` are history: the spawner, and the least ceiling on the chain of spawns, each as
it stood at the spawn. `ReadsBounded` bounds reads by `floor` and by the person's
clearance of this moment; `RevocationGrantsNothing` says that no step that only takes
away adds a permission, the property whose violation the comment of policy 6 reports of
an earlier version (the slip `P6ByReference`).

What the policies do not promise, and the model does not claim: a parent's ceiling
lowered after the spawn does not reach its sub-agents, a sub-agent's tools are its
own list, and the owner override works for a person whose entity is gone.

## 6. Secrets at rest

`file` is `enc.yaml` on the node, `flagged` the flag in the API server's manifest,
`server` the API server with the keys it loaded, `etcd` how each Secret is stored.
`Stop` and `Start` are the kubelet's and may come at any time. The script may end
at any step (`set -e`, the 60 tries) and be run again. A rotation follows the
runbook, and not while the script runs.

A wait (`Serving`) is over when the API server answers, restarted or not; nothing in
the code makes it wait for the new one. The history `early` notes whose wait, the
script's or a rotation's, was ever answered by a server that had not loaded the
configuration in place.

**Properties.** `LostByEarlyRotationOnly`: a stored Secret can become unreadable only
after a rotation whose wait was answered early; not by crashes, restarts, failed and
repeated runs, an early answer to the script, client writes, or any number of other
rotations. `UntruePassByEarlyAnswerOnly`: PASS is printed over a Secret in clear only
if the script's own wait was answered early. What the runbook and the script
promise, `NoSecretLost` and `PassMeansEncrypted` without that exception, is violated:
two of the findings.

## 7. Live check

`rebac/check_live.py` starts an OpenFGA server in a container of a fixed name on a
fixed port, loads model and tuples, asks its scenarios and removes the container.
`LiveCheck` has any number of runs of it, one step per docker command or HTTP
request.

**State.** `engine` is the container that has the name: whose it is, whether it
serves, and which stores it has, since a server keeps them in memory and a run's
store id is unknown to every other server. `pc`, `asked`, `failures` and `verdict`
are a run's own. `docker` is absent, down or up.

**Actions.** Every request goes to whoever answers on the port, so a run may find
another run's server healthy, load its model there and lose it with it. `Remove` is
`docker rm -f`: it takes whatever has the name. `RequestFails` covers what the
`except` clause names (reported as a skip) and what it does not (a traceback);
both leave through `Finally`. `Kill`, `EngineDies`, `DaemonStops` may come at any
time. What `model.fga` says is a constant set of models. `LiveModel` takes them from
`Rewrites`: a derived relation is any combination by `or`, `and` and `but not` of
the terms of its type, those the file has and the ones that forget the join over
the object (a delegate of anyone, a member of any team). A combination is the set
of *standings*, sets of terms, for which it holds.

**Properties.** `VerdictRight`: interference can cost a run its verdict, never change
it. `PassMeansCanonical`: eleven questions about five tuples suffice to say something
about all data. A run that prints PASS has shown that over any store `can_view` and
`can_transfer` hold of an owner, of the agents this owner delegates to, and of nobody
else. For `can_admin` it has shown less, and the property says how much: the table asks
about a member of the owning team and about people who are in no team and operate
nothing, never about an operator or a member of another team, so a model that drops
either of these still passes. `CleanedUp`: a container that is left belongs to no run
that ended with docker at hand. `EveryRunEnds`: 60 polls and failing requests end every
run, whatever the others do.

## 8. Guards, lint, lessons

`Review` takes a proposed change to the check that it meets, one program run per
step; `result` is its exit code or text. The programs are operators over what they
read: sets of names, rules and lists, not lines.

* `IdentityGuards`. `DeployerExit` is the static half of `check-deployer-rbac.py`,
  `DeployerLiveExit` its `kubectl auth can-i` half, and `Grants` RBAC's own reading of
  rules. The guard reads the first Role whose name begins with `shop-deployer`, and
  flow-style lists; the rules given to the model are what that pattern finds.
* `GitOpsGuards`. An entry of the project is `plain` if it stands there as the guard's
  patterns look for it: `*` alone at the end of its line, a name or kind without
  quotes, in a section whose key is alone on its line. `ReconcilerExit` judges what
  the patterns read (`ReadNames`, `ReadKinds`); `Permitted` is what ArgoCD lets a
  project write, from every entry and by globs of kind and group (`Listed`): with no
  list, nothing of cluster scope and everything else. `WaveExit` and `Orders`, the
  orders in which the root Application may apply its children. `GradeApplication` is
  `labs/m10/grade.py`.
* `CrossLayer`. `Main` is one run of the lint: options without a path, missing
  inputs, the facts, the solver's witnesses, the classification and the reports.
  `EdgeLint` evaluates the policies of `Api` on the lint's probes and compares its
  rules with `Api`'s edge in both of its states.
* `Lesson`. A text is a sequence of markers and runs of text. A pass of `re.sub` reads
  it from left to right (`Tails`): where a non-greedy pattern matches, its
  replacement (`Pieces`) and on behind the match (`Onward`), else the token and on
  to the next; an unclosed marker matches nothing. A README is a sequence of
  blocks: prose, fences over words, folds over anything but folds and cuts, cuts
  over anything but the end of a cut. The READMEs of `labs/` and `formal/` all have
  this shape.

**Properties.** `DeployerBounded`: RBAC, with its wildcards, gives a role that passes no
verb on a forbidden resource, `pods` among them. `ReconcilerBounded` is about projects
that name everything literally (`Literal`) and depends on the entry `Secret` in the
project's blacklist, without which a missing whitelist would allow it. It is not true of
every project the guard passes: a `*` in flow style, or as a listed kind, goes by its
patterns (`check-reconciler-rbac.py:57-59,64,68-71`) and is a glob to ArgoCD, which is
how the model has both. `WavesKeepOrder` holds for equal wave numbers as well, where
ArgoCD is free; it says nothing about the order of workload and network, which the guard
lets be equal. `ExitMatchesReport`: the exit code comes from the solver's witnesses, the
reports from `Classify`, whose tests overlap. `RedactionExact`: of a README made of such
blocks exactly the prose, the shell fences and the emptied folds are served, although
each pass reads what the one before it left, and any fence marker ends a fence.
`LintDescribesEdge`: in both states of the edge, a request is dropped there exactly if
the lint, run for that state, reports its action as shadowed (granted and unreachable),
and let through exactly if the lint reports a defense in depth.

`ProposalsAssumption` excludes two files for one Application (the guard would keep
the last one's wave), and says that READMEs are made of
blocks: markers that are not closed are left out.

## 9. Workbench

**State.** `work` is the learner's files by what the graders tell apart: for m0, a
policy set that passes no suite, the core one, both, or is the answer key. `job` is
the program run for a caller, `grader` the grader whose end it waits for, `said` what
that ended with, `orphan` whether a grader goes on whose caller was killed. `been`
and `happened` are history: the contents and docker states there were since the
grader began, and what did not work (checkov, the container, a daemon that had
gone); no guard reads them.

**Actions.** A grader makes one step per look: m0 reads the file twice, once to
grade it and once to compare it with the answer key, m6 asks for docker and then
runs a container. `Edit` and `Daemon` come between any two. `Finish` prints, and
`Mark` is what `progress.py` makes of the exit code and of `SKIP:` in the text.
`Scan` ends with a count of findings, or with an output that has none, which m1 takes
as an error of its own (`m1/grade.py:52-53`). `GraderTimeout` (300 s) and
`CallTimeout` (180 s for a whole call of the tutor) end the wait for what hangs. The
second kills the program that was called. That is the grader for `grade_module`; for
`list_progress` it is `progress.py`, and the grader that this had started goes on as an
`orphan`, which may still be there during later calls. It only reads, and nobody reads
its output. `Tell` answers the tools that run nothing; `Read` refuses the answer keys.

What the code does here and a reader may not expect: skip annotations over m1's
findings graduate with a warning; the tutor's hint for m6 runs `grade.py --hint`,
which grades nothing; under the tutor, the 300 s of a grader never run out.

**Properties.** `DoneEarned`: a module shown as done was right, every part at some
moment of its grading. Parts of a module are looked at one after the other, so no single
moment is promised. `TodoHasCause`: no module is shown as todo while its work was right
throughout, unless dependencies or time failed, checkov broke off, or a docker that had
answered did. The last is what the code does, not what `m6/grade.py:45-46` wants, which
is a skip. `MarkAgrees`: `progress.py` and the grader's own text say the same.
`EveryCallAnswered`: calls end although graders hang.

## 10. Checks

| Run | Question | Result |
|---|---|---|
| `identity` | who stands behind a tier identity | holds |
| `rollout` | do the gates ever block a legitimate rollout | holds |
| `gitops` | what may a sync write; does the workload follow Git, and does all within a mapped reconciler's reach settle | holds |
| `gitops_shipped` | does the workload follow Git with the shipped reconciler | violated (finding) |
| `authz` | is the principal proved and the decision the intended one, and does the lint describe both; are agents' reads bounded, and does revocation never grant | holds |
| `api_blank` | does the X-User fallback need an absent header, as `auth.py:83-84` says | violated (finding) |
| `api_amount` | is every invalid amount denied, as `main.py:93` says | violated (finding) |
| `secrets` | is an early answer to a wait all that can lose a Secret or make PASS untrue | holds |
| `secrets_pass` | does PASS mean encrypted with the wait as written | violated (finding) |
| `rotation` | does a rotation as written keep every Secret readable | violated (finding) |
| `live_check` | do two runs of the live check report the truth, clean up and end | holds |
| `workbench` | are marks earned and calls answered; is what the guards, the lint and the lesson filter pass what it is taken for | holds |

**Bounds.** `identity`: one tier (the other account and the other labels stand for every
mismatch), one slot for a requester's object and two for controllers', which is one
chain of full length; cronjobs give the longest chain. `rollout` has four controller
slots: two replica sets and their pods, a rolling update. `gitops` is finite without
bounds; `gitops_shipped` starts from a stack that `up.sh` has brought up. `authz`: an
owner with an open and a frozen account, an auditor without a limit; two agent ids make
chains of any length because a spawner may leave and its id be taken; `MaxDepth` 2 is
the first depth that policy 5 refuses; a request arrives while no agent exists and the
clearances are least, an agent acts while no request is underway and the edge is as
shipped. `secrets`: two Secrets, so that one can be rewritten and one not; three keys,
so that a rotation can follow a rotation. `live_check`: two runs, which is whoever is
disturbed and whoever disturbs; every container is one run's, and no run looks at
another; the model as it is and five that one edit leads to, of which one passes
(nothing asks for operators), over a store like the script's, one with shared accounts
and foreign delegates, and the empty one. `workbench`: the learner works on one module
and leaves the rest as shipped (`OneModule`), since no grader reads another module's
files; the changes under review are taken while the clone is idle and as shipped
(`AsShipped`), since the two halves share no variable. The proposals: roles of up to six
rules with wildcards, subresources and other bindings; the project as shipped but for
one entry of each list, which is missing, forbidden, a glob or in another spelling;
three waves of three numbers, equal and in every order; all facts of the lint; READMEs
of up to two blocks, folds over up to two, cuts over one, which is every pair of
neighbours and every nesting that the lessons use (a fold holds no fold, a fence no
marker).

**Fairness.** `rollout`: weak fairness of the controllers and of the API server's watch,
which are control loops; none of requesters or operators. `gitops` and `gitops_shipped`:
weak fairness of the automated Applications' syncs and of the workload controllers, the
reconciliation loops; none of merges, drift or `up.sh`. `live_check`: weak fairness of
each run's steps: polls and HTTP requests have limits of time, and the docker commands,
which have none, are assumed to return or fail; none of the environment, nor of
launches. `workbench`: weak fairness of starting a grader, of ending a job and of the
limits of time; none of the graders, which may hang. Deadlock checking is off where the
system may rest: a repository and a cluster in agreement, and a rotation that has used
up the keys.

## 11. Findings

* **`gitops_shipped`.** `gitops/apps/workload.yaml:1-2` has the workload reconcile
  once admission admits it. The reconciler the repository names is not among those
  `shop-sa-use` authorizes, so a workload pruned by one merge cannot be restored
  by the next. Mapped as `rbac.yaml:91` suggests, it passes admission and it can
  (`gitops`), though the group's role alone lets it prune nothing and sync no
  identity file; the run adds such grants.
* **`api_blank`.** `auth.py:83-84`: the `X-User` fallback applies only when no
  Authorization header is sent at all. Line 85 strips the header first, so outside
  enforce mode a blank one falls back as well.
* **`api_amount`.** `main.py:93` denies a missing or invalid amount. A JSON body
  that is no object, and an infinite amount, raise what `main.py:96` does not
  catch and are answered 500, before authentication.
* **`secrets_pass`.** The wait of `enable-secrets-encryption.sh:57` may be answered
  by the API server about to be replaced; the re-encryption then writes in clear,
  and the proof Secret, written after the restart, still prints PASS.
* **`rotation`.** `runbooks/02-key-rotation.md:26` expects the kubelet to restart
  the API server when `enc.yaml` changes. It watches the manifest only, so the
  re-encryption may use the old key, which step 3 drops.
Three more places where a comment says more than the code were met while modelling
and have no run; the models have what the code does.

* `labs/m6/grade.py:45-46` wants a daemon that does not run taken as a skip. It is asked
  once, at line 47; a daemon that stops before `docker run` at line 58 is counted as a
  failure of the learner's model.
* `check-sa-consistency.py:7-9` says that a tier account added to RBAC and to no gate
  fails CI. Line 28 finds accounts with their metadata in braces only.
* `check-reconciler-rbac.py:57` wants no `*` among sources and destinations. Lines 58-59
  find one only at the end of a line, and line 64 skips it; lines 70-71 look for the
  names of the RBAC kinds, which a listed kind `*` covers without naming.

## 12. Proofs

All theorems hold for every value of the constants that the `ASSUME`s allow, and
for behaviours of any length.

**Identity** (`AdmissionAssumption`, `IdentityAssumption`). `TierSAIsVouched`,
`NetworkIdentityIsVouched` and the refinement `ImplementsCapability`. The inductive
invariant is `TypeOK /\ TierSAVouched /\ LabelMatches`. `NetworkIdentityVouched`
is not inductive: a controller makes a pod from a template that was judged, or not,
several writes earlier, so the account half must be known of every object and the
label half of every pod. The proof goes from what one admitted write stores
(`AdmittedTierIsTrusted`, `WrittenIsGood`) and what a controller copies
(`ChildIsGood`) to the steps of requesters, controllers and operators. The place
where the gate's list of kinds matters is `RoleIsGated`: everything the Role lets a
deployer write is matched by the gate. The refinement maps every step, under
`HeldCapability`, to a step or a stutter of `TierCapability`; an untrusted rewrite
of an object that keeps a grandfathered tier account maps to no step, and
`AdmittedTierIsTrusted` shows that admission refuses it when enforced.

**Api** (`ApiAssumption`: every transfer limit is below the default amount, which
is below the greatest Long). `PrincipalIsProved` and `DecisionsAreIntended`. The
inductive invariant says what the variables hold at each stage. The core is
`DecisionMeaning`: for a request that reached authorization the policies, with
their errors, allow exactly the entitled. It rests on `TruncatedPositive` (what
`int()` makes of a body's number) and on the default being above every limit, which
is why an absent amount is never carried out.

With `ProbeAssumption` (`cedar/entities.json` has the people and the account that the
lint asks about), `LintIsRight`: the lint describes the service in both states of
the edge. Each probe is granted (`OwnerProbeGranted`, `AuditorProbeGranted`,
`TransferProbeGranted`, by the rules of `CedarProofs`), so what the lint reports of an
action depends on whether its copy of the edge's rules reaches it, and that copy
agrees with the edge (`ReachIsAllowed`).

**Agents** (`AgentAssumption`). `ReadsAreBounded`, `BackstopRedundant`, and the
action property `TakingAwayIsMonotone`. `InvokeMeaning` and `ReadMeaning` reduce
the policies to comparisons that never err, except where the person's entity is
gone, where they permit nothing but what the person owns. `FloorKnown` is the
strengthening: with one hop at most, the agent's own ceiling and the recorded one
are the whole chain. Deeper agents read nothing (policy 5), so nothing is needed of
them. A step that only takes away leaves every entity that remains as it was but
for a lower ceiling (`TakingAwayKeeps`), and lower ceilings and clearances only
make the comparisons harder.

**Secrets** (`SecretsAssumption`; nothing is assumed of the waits). `SecretsSurvive`
is `Spec => []LostByEarlyRotationOnly`, `PassIsTrue` is
`Spec => []UntruePassByEarlyAnswerOnly`. The inductive invariant relates the three
copies of the key list: before the flag nothing is encrypted (`NotFlagged`);
afterwards, where no rotation's wait was answered early, the server writes under a
key that the file still has (`WritesReadable`), and in the last part of a rotation
under its first key, so that the key that is dropped is used by nobody (`Rewritten`
and `WritesReadable` account for what re-encryption has left to do). An early answer
ends what is known of the rotation, not of the script: what PASS rests on is kept
whatever rotations do.

`TypeCorrect` adds to the types (`Generated`) that the file is never empty once
anything relies on its first key.

**GitOps** (no assumption is used). `TypeCorrect` says that master,
the cluster and every revision a sync works from hold, for each file, contents of
that file: a sync of an old revision can then write nothing but such contents, and
the pods, which follow the live workload, are those of a workload. `UpTail` is the
fact about the rest of an `up.sh` run. `SyncsAreMasters` proves the action property
`SyncsFollowMaster`: `Current` strengthens the invariant by what a sync has still to
write, and is kept by a merge because the merge marks the file as overtaken. Which
files a sync reaches matters too: two Applications share none, so that the end of
one file in one sync says nothing about another's.

**Live check** (`LiveCheckAssumption`; `LiveModelAssumption` for the last theorem).
`TypeCorrect`, `VerdictsAreRight`, `NothingIsLeft`, for any number of runs and any
scenarios. `VerdictRight` is not inductive: that a run ends in the deserved verdict
depends on the answers it got many steps earlier, possibly from a server that is gone.
`Tally` says that the flag `failures` is about exactly the scenarios asked so far, and
`NotAskedYet` that a run has asked none before its own tuples are written; a server can
only answer a store that this run filled. `NoDockerNoEngine` is needed for `CleanedUp`,
since a launch without docker ends the run at once.

`PassIsForAllData` goes from finitely many answers to all stores. By `VerdictRight` a
PASS means that the loaded model answers the script's own questions as the table
expects. These questions put a person in certain standings towards an object
(`TableStandings`), so that the model's relations are known on those
(`PassedStandings`). Over any typed store there are no others for an account: an
owner is a person and a delegate an agent, which leaves four standings
(`AccountStandings`), and on each the answer is that of `Viewers`
(`ViewersByStanding`). Workloads have more standings than the table asks about,
hence the restriction in the property.

**Review** (`ProposalsAssumption`). The invariant `Earned` says that a result is that
of the proposal's own check; each theorem then is one about an operator, for any
proposal: `PassedDeployerIsBounded` (a wildcard rule is
refused as such, so only named resources remain), `PassedProjectsAreBounded` (of
projects that are `Literal`: then the patterns read every entry),
`PassedWavesOrder` (for any further Applications and any integers: an order that
puts another first would need a wave not above the identity's), and `ReportsAgree`
(`ClassifyAgrees` gives each test of `Classify` in terms of the facts; the numbers
on the page are cardinalities of sets in bijection with the witnesses).

`LessonsAreRedacted` (with `LessonAssumption`: a run of text is no marker) is about
texts of any length, and the passes are recursive over a text. Each induction is written
out as that of a least counterexample, which exists by `LeastNat` (a set of numbers has
a least element). That the recursive function of `Tails` satisfies its own equation is
the first of them (`TailsMeaning`). What a pass does from a position on depends on what
follows it alone (`TailsAgree`, `SubOfRest`), so a text can be taken apart: a match at
its start is replaced (`SubReplaces`), a stretch without openings is kept (`SubKeeps`).
`BlockServed` applies both to each kind of block and pass, and `ReadmeServed` goes over
the blocks from the last to the first.

**Workbench** (`WorkbenchAssumption`). `WorkbenchTypeCorrect`, `DoneIsEarned`,
`TodoIsCaused` and `MarksAgree`, with any table of modules and answer keys. That the
grader awaited has a job is kept by `CallTimeout` because what goes on after it is
awaited by nobody (`orphan`). A mark is made from what a grader found at earlier looks,
of files and a daemon that have changed since. `SoFar` ties what it found to the
histories: the return code it carries has its reason in the contents there were since it
began, and a grader that runs its container has seen docker up. `Underway` says that the
histories include the present, so that the next look adds nothing that is not in them;
edits and the daemon only make them larger. A lemma for each step of a grader then has
only the mark it prints to account for (`FinishKept`, `FinishBothKept`).

**Only model-checked.** The five liveness properties (`RolloutCompletes`,
`WorkloadFollowsGit`, `Converges`, `EveryRunEnds`, `EveryCallAnswered`): they depend on
fairness, hence on `ENABLED`, which is not within the prover's reach. The five findings
are counterexamples. Every safety property that a passing run checks is also proved.

## 13. Not modelled, and the plan

Not modelled: terraform and CI (declarative, run by others); the PowerShell twins (the
same steps); the Kyverno twin of the SA-use gate (the same rule, in the namespaces that
the gate leaves out); slides; the formatting of the JSON, SARIF and HTML reports; the
fixtures of `check_negatives_test.py`, the coverage table of `scripts/coverage.py`,
`check-sa-consistency.py` (one comparison of sets found by patterns; the mapping it
stands for is `AdmissionAssumption`) and the graders that need a cluster (`m9`, `m11`):
sequential text or probe lists without state of their own; `enable-gitops.sh`, which
installs ArgoCD. Graders run directly from a terminal are those of `progress.py` without
its limits. What a grader starts itself, checkov or a container, is one step of it and
not followed when the grader is killed. The comparison of paths behind the list of
answer keys is abstracted to membership.

Within the modelled parts: READMEs with folds inside folds, cuts inside folds or
markers inside fences are outside `RedactionExact`; two runs of the encryption script at
once, and restoring the manifest it backs up, are listed as hazards and not
modelled; the admission models take the map from tiers to accounts as a constant,
which no guard checks across files.

What would come next: the union of the Cilium policies over the pods, with edits by
deployers and the incident runbook; the runtime rules loaded while
`verify-runtime-scope.sh` swaps them, and what a killed run leaves; the clean-up of
the cluster graders.
