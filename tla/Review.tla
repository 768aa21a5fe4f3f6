------------------------------- MODULE Review -------------------------------
(***************************************************************************)
(* The checks that a change of the repository meets without a cluster: the *)
(* guards over the identity and GitOps files, the cross-layer lint, the    *)
(* grading of an Application, and what the tutor serves of a lesson.  Each *)
(* is a run of one program over the files as they are proposed.            *)
(***************************************************************************)
EXTENDS IdentityGuards, GitOpsGuards, CrossLayer, Lesson

CONSTANTS
    Proposals,  \* the changes, each with the check that it meets
    Nil

\* Each Application has one file and one wave, and a README is made of blocks.
ASSUME ProposalsAssumption ==
    \A p \in Proposals :
        /\ p.check = "waves" =>
               /\ IsFiniteSet(p.files) /\ \A f \in p.files : f.wave \in Int
               /\ \A f, g \in p.files : f.app = g.app => f = g
        /\ p.check = "lint" => p.grants \in [Actions -> BOOLEAN]
        /\ p.check = "lesson" => IsReadme(p.blocks)

VARIABLES
    proposal,  \* the change under review, or Nil
    result     \* the exit code or the text its check ended with, or Nil

reviewVars == <<proposal, result>>

ReviewInit == proposal = Nil /\ result = Nil

Propose == proposal = Nil /\ proposal' \in Proposals /\ UNCHANGED result

Judge(check, r) ==
    /\ proposal # Nil /\ proposal.check = check /\ result = Nil
    /\ result' = r /\ UNCHANGED proposal

\* rc or live_check(): the live half follows a static pass.
WithLive(static, live) == IF static # 0 \/ ~proposal.live THEN static ELSE live

CheckDeployer ==
    Judge("deployer", WithLive(DeployerExit(proposal), DeployerLiveExit(proposal)))
CheckReconciler ==
    Judge("project", WithLive(ReconcilerExit(proposal), ReconcilerLiveExit(proposal)))
CheckWaves == Judge("waves", WaveExit(proposal))
CheckApplication == Judge("application", GradeApplication(proposal))
CheckLayers == Judge("lint", Main(proposal))
ServeLesson == Judge("lesson", RedactLesson(TextOf(proposal.blocks)))

Conclude == result # Nil /\ proposal' = Nil /\ result' = Nil

ReviewNext ==
    \/ Propose
    \/ CheckDeployer \/ CheckReconciler \/ CheckWaves
    \/ CheckApplication \/ CheckLayers \/ ServeLesson \/ Conclude

ReviewSpec == ReviewInit /\ [][ReviewNext]_reviewVars

-----------------------------------------------------------------------------
Judged(check) == result # Nil /\ proposal.check = check
Passed(check) == Judged(check) /\ result = 0

\* What check-deployer-rbac.py passes: RBAC, with its wildcards, gives the role
\* no verb on a resource of the list; and a live failure after a static pass is
\* the work of another binding, or of a role that does not deploy.
DeployerBounded ==
    /\ Passed("deployer") =>
           \A resource \in FORBIDDEN, verb \in {"get", "create", "patch"} :
               ~Grants(proposal.rules, verb, resource)
    /\ Judged("deployer") /\ result = 1 /\ DeployerExit(proposal) = 0 =>
           \E g \in GROUPS :
               \/ \E d \in Denied : Grants(proposal.others[g], d[1], d[2])
               \/ ~Grants(proposal.rules, "create", "deployments")

\* What check-reconciler-rbac.py passes, in a project that names everything
\* literally: by ArgoCD's rules for what is listed and what is not, it lets no
\* Application write outside the two namespaces, or a Secret or a
\* ClusterRole(Binding) anywhere.  (Of globs and other spellings it is false:
\* a `*' in flow style, or as a kind, passes.)
ReconcilerBounded ==
    Passed("project") /\ Literal(proposal) =>
        /\ {d.name : d \in proposal.destinations} \subseteq ALLOWED_NS
        /\ \A kind \in FORBIDDEN_NS : ~Permitted(proposal, kind)

\* What check-sync-wave-order.py passes: in every order that the waves leave
\* open, the Application with the accounts comes before the other two.  An
\* Application that the m10 grader passes can take the network one's place.
WavesKeepOrder ==
    /\ Passed("waves") =>
           \A o \in Orders(proposal.files) : \A i, j \in DOMAIN o :
               o[i].app = TIERS.identity /\ o[j].app \in {TIERS.workload, TIERS.network}
                   => i < j
    /\ Passed("application") =>
           /\ proposal.namespace \in ALLOWED_NS
           /\ WaveExit([annotated |-> TRUE,
                        files |-> {[app |-> TIERS.identity, wave |-> -1],
                                   [app |-> TIERS.workload, wave |-> 0],
                                   [app |-> TIERS.network, wave |-> proposal.wave]}]) = 0

\* The lint's exit code and witnesses come from the solver, its reports from
\* the classification: they name the same actions, and the lint is green
\* exactly when it ran on all its inputs and reports no error.  A pipeline that
\* reads the exit code and a reader of the SARIF or the page see one result.
ExitMatchesReport ==
    Judged("lint") =>
        LET facts == Facts(proposal.switches, proposal.grants, proposal.calls)
            findings == Findings(facts)
            errors == {r.action : r \in {s \in Sarif(findings) : s.level = "error"}}
            ran == proposal.bare = {} /\ proposal.readable
        IN  /\ errors = Ungated(facts)
            /\ {r.action : r \in Sarif(findings)} = Ungated(facts) \cup Shadowed(facts)
            /\ Html(findings).warnings = Cardinality(Shadowed(facts))
            /\ result.exit = 0 <=> ran /\ Html(findings).errors = 0
            /\ result.wrote # {} => ran

\* Of a README whose folds, cuts and fences nest, the tutor serves the prose,
\* the questions and the commands, in their order, and nothing of the rest: no
\* pass over the text undoes or misleads another, or reaches into the next
\* block.
RedactionExact ==
    Judged("lesson") => result = KeptOf(proposal.blocks)

=============================================================================
