----------------------------- MODULE CrossLayer -----------------------------
(***************************************************************************)
(* formal/cross_layer.py: for each action, whether Cedar grants its probe, *)
(* the network edge lets its route through and its handler asks Cedar; the *)
(* finding this makes, the reports and the exit code.                      *)
(***************************************************************************)
EXTENDS Naturals, FiniteSets

ActionHandler ==
    [ViewAccount |-> "view_account", Transfer |-> "transfer",
     ViewAuditLog |-> "view_audit_log"]
Actions == DOMAIN ActionHandler

\* Paths up to the ids in them, which the rules' expressions abstract from too.
ActionHttp ==
    [ViewAccount |-> <<"GET", "/accounts/x">>,
     Transfer |-> <<"POST", "/accounts/x/transfer">>,
     ViewAuditLog |-> <<"GET", "/auditlogs/x">>]

Switches == {"--open-auditlogs", "--ungate-transfer"}

\* A slip: the copy of the edge's rules is behind k8s/netpol.yaml.
L7RulesBehind(switches) ==
    {ActionHttp["ViewAccount"]}
        \cup {ActionHttp["ViewAuditLog"] : s \in switches \cap {"--open-auditlogs"}}

L7Rules(switches) ==
    {ActionHttp["ViewAccount"], ActionHttp["Transfer"]}
        \cup {ActionHttp["ViewAuditLog"] : s \in switches \cap {"--open-auditlogs"}}

L7Reachable(action, rules) == ActionHttp[action] \in rules

\* calls: handler -> the functions it calls by name.
GatedInApp(action, calls) ==
    calls[ActionHandler[action]] \cap {"authorize", "resolve_principal"} # {}

Facts(switches, grants, calls) ==
    [a \in Actions |->
        [grant |-> grants[a],
         reach |-> L7Reachable(a, L7Rules(switches)),
         gate |-> /\ GatedInApp(a, calls)
                  /\ a = "Transfer" => "--ungate-transfer" \notin switches]]

-----------------------------------------------------------------------------
ClassifyGrantFirst(f) ==  \* a slip: an ungated route that Cedar would grant
    IF f.grant THEN IF f.reach THEN "defense" ELSE "shadowed"
    ELSE IF f.reach THEN IF f.gate THEN "denied" ELSE "ungated" ELSE "none"

\* The first test that applies.
Classify(f) ==
    IF f.reach /\ ~f.gate THEN "ungated"
    ELSE IF f.grant /\ ~f.reach THEN "shadowed"
    ELSE IF f.reach THEN IF f.grant THEN "defense" ELSE "denied"
    ELSE "none"

Severity(kind) ==
    CASE kind = "ungated" -> "error" [] kind = "shadowed" -> "warning" [] OTHER -> "note"

Findings(facts) ==
    {[action |-> a, kind |-> Classify(facts[a]), severity |-> Severity(Classify(facts[a]))]
        : a \in Actions}

\* The witnesses that the solver enumerates, from the facts and not from the
\* findings.
Shadowed(facts) == {a \in Actions : facts[a].grant /\ ~facts[a].reach}
Ungated(facts) == {a \in Actions : facts[a].reach /\ ~facts[a].gate}

Sarif(findings) ==
    {[action |-> f.action, level |-> IF f.kind = "ungated" THEN "error" ELSE "warning"]
        : f \in {g \in findings : g.kind \in {"ungated", "shadowed"}}}

\* The numbers at the head of the page.
Html(findings) ==
    [errors |-> Cardinality({f \in findings : f.severity = "error"}),
     warnings |-> Cardinality({f \in findings : f.severity = "warning"})]

(***************************************************************************)
(* main(): of a run l, l.paths are the report options given with a path,   *)
(* l.bare those without; l.readable says whether every input file is there.*)
(***************************************************************************)
ReportOptions == {"--out", "--json", "--sarif", "--html"}
OptionOf == [json |-> "--json", sarif |-> "--sarif", html |-> "--html"]
Written(paths) == {r \in DOMAIN OptionOf : {"--out", OptionOf[r]} \cap paths # {}}

Main(l) ==
    LET facts == Facts(l.switches, l.grants, l.calls)
    IN IF l.bare # {} THEN [exit |-> 2, wrote |-> {}]
       ELSE IF ~l.readable THEN [exit |-> 1, wrote |-> {}]
       ELSE [exit |-> IF Ungated(facts) # {} THEN 1 ELSE 0, wrote |-> Written(l.paths)]

=============================================================================
