---------------------------- MODULE MCWorkbench -----------------------------
(***************************************************************************)
(* A clone of the repository: a learner's work and its graders, and, while *)
(* the work is as shipped and nothing runs, the checks that a change of    *)
(* the repository itself meets.  (A bound: the two share no state, so they *)
(* are taken one at a time.)                                               *)
(***************************************************************************)
EXTENDS Workbench, Review

\* Two of the real modules without a cluster, two with one, and one whose spec
\* would name an answer key.
MCModules ==
    [m0 |-> [lesson |-> {"m0/README"}, spec |-> {"requests"}, hints |-> TRUE],
     m1 |-> [lesson |-> {"m1/README"}, spec |-> {}, hints |-> TRUE],
     m6 |-> [lesson |-> {"m6/README"}, spec |-> {}, hints |-> TRUE],
     m7 |-> [lesson |-> {"formal/README"}, spec |-> {}, hints |-> FALSE],
     m2 |-> [lesson |-> {"m2/README"}, spec |-> {"probes"}, hints |-> FALSE],
     m3 |-> [lesson |-> {"m3/README"}, spec |-> {"netpol"}, hints |-> FALSE]]
MCNoCluster == {"m0", "m1", "m6", "m7"}
MCAnswerKeys == {"netpol", "policies.cedar"}

-----------------------------------------------------------------------------
Rule(resources, verbs) == [apiGroups |-> {"apps"}, resources |-> resources, verbs |-> verbs]
SomeRules ==
    {Rule({"deployments"}, {"get", "create"}), Rule({"deployments", "pods"}, {"get"}),
     Rule({"secrets"}, {"*"}), Rule({"*"}, {"get"}), Rule({"pods/log"}, {"get"}),
     Rule({"serviceaccounts"}, {"create"})}
RoleFiles ==
    {[check |-> "deployer", role |-> r, rules |-> rs, clusterRole |-> c, clusterBinding |-> b,
      others |-> [g \in GROUPS |-> IF g = "shop:deployers" THEN o ELSE {}],
      reachable |-> up, live |-> l]
        : r, c, b, up, l \in BOOLEAN, rs \in SUBSET SomeRules,
          o \in {{}, {Rule({"pods"}, {"create"})}, {Rule({"*"}, {"*"})}}}

\* Projects as shipped but for one entry of each list, which may be missing, be
\* forbidden, be a glob, or be written as the guard's patterns do not read it.
Named(name, plain) == [name |-> name, plain |-> plain]
Resource(kind, group, plain) == [kind |-> kind, group |-> group, plain |-> plain]
Shop == Named("shop", TRUE)
Namespace == Resource("Namespace", "own", TRUE)
Projects ==
    [check : {"project"}, kind : {"AppProject", "Application"},
     repos : {{Named("this", TRUE)}, {Named("*", TRUE)}, {Named("*", FALSE)}},
     destinations :
        {{}, {Shop}} \cup {{Shop, Named(n, p)} : n \in {"kube-system", "*"}, p \in BOOLEAN},
     clusterWhitelist :
        {{}, {Namespace}} \cup {{Namespace, Resource("ClusterRole", "own", p)} : p \in BOOLEAN}
            \cup {{Resource("*", "*", TRUE)}},
     namespaceWhitelist :
        {{}, {Resource("Deployment", "own", TRUE)}, {Resource("*", "*", TRUE)}}
            \cup {{Resource("Secret", "own", p)} : p \in BOOLEAN},
     namespaceBlacklist : SUBSET {Resource("Secret", g, TRUE) : g \in {"own", "other"}},
     account : {{}, {<<"patch", "shop/ciliumnetworkpolicies">>}},
     reachable : {TRUE}, live : BOOLEAN]

WaveFiles ==
    {[check |-> "waves", annotated |-> a,
      files |-> {[app |-> "shop-identity", wave |-> i], [app |-> "shop-workload", wave |-> w],
                 [app |-> n, wave |-> k]}]
        : a \in BOOLEAN, i, w, k \in -1 .. 1, n \in {"shop-network-runtime", "shop-tracing"}}

Filled ==
    [check : {"application"}, kind : {"Application"}, wave : -1 .. 2,
     project : {"shop", "default"}, namespace : {"shop", "argocd", "default"},
     prune : BOOLEAN, selfHeal : BOOLEAN]

LintRuns ==
    [check : {"lint"}, paths : {{}, {"--out"}, {"--sarif"}}, bare : {{}, {"--json"}},
     readable : BOOLEAN, switches : SUBSET Switches, grants : [Actions -> BOOLEAN],
     calls : [{"view_account", "transfer", "view_audit_log"}
                 -> {{}, {"resolve_principal"}, {"resolve_principal", "authorize"}}]]

\* READMEs of up to two blocks: prose, shell and other fences, folds over up to
\* two of those, and cuts over one of any.
MCWords == {"prose", "command", "answer"}
Block(t, k) == [text |-> t, kept |-> k]

Shell == <<"fence sh", "command", "fence">>
Plain ==
    {Block(<<"prose">>, <<"prose">>), Block(Shell, Shell)}
        \cup {Block(<<f, "answer", "fence">>, <<>>) : f \in {"fence", "fence x"}}
Fold(t) ==
    {Block(<<"<details>", "<summary>">> \o t \o <<"</details>">>,
           <<"<details>", "<summary>", "</details>">>),
     Block(<<"<details>">> \o t \o <<"</details>">>, <<"<details>", "</details>">>)}
Bodies ==
    {<<"answer">>} \cup {b.text : b \in Plain} \cup {a.text \o b.text : a, b \in Plain}
Folds == UNION {Fold(t) : t \in Bodies}
Cuts == {Block(<<"<cut>">> \o b.text \o <<"</cut>">>, <<>>) : b \in Plain \cup Folds}
Lessons ==
    [check : {"lesson"},
     blocks : LET Blocks == Plain \cup Folds \cup Cuts
              IN  {<<b>> : b \in Blocks} \cup Blocks \X Blocks]

MCProposals ==
    RoleFiles \cup Projects \cup WaveFiles \cup Filled \cup LintRuns
        \cup Lessons

-----------------------------------------------------------------------------
AsShipped ==
    /\ job = None /\ said = None /\ reply = None /\ docker = "absent" /\ installed
    /\ \A p \in Parts : work[p] = "poor"

\* A bound: the learner works on one module, and leaves the rest as shipped.
OneModule == \E m \in NOCLUSTER : \A p \in Parts \ PartsOf[m] : work[p] = "poor"

CloneInit == Init /\ ReviewInit
CloneNext ==
    \/ proposal = Nil /\ Next /\ OneModule' /\ UNCHANGED reviewVars
    \/ AsShipped /\ ReviewNext /\ UNCHANGED vars

CloneSpec == CloneInit /\ [][CloneNext]_<<vars, reviewVars>> /\ Fairness
=============================================================================
