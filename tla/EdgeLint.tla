------------------------------ MODULE EdgeLint ------------------------------
(***************************************************************************)
(* The cross-layer lint held against the service it describes: its own     *)
(* copy of the edge's rules and its probes of Cedar, next to the edge and  *)
(* the handlers of Api.                                                    *)
(***************************************************************************)
EXTENDS Api, CrossLayer

CONSTANT ProbeAmount  \* the amount of the transfer probe

\* cedar/entities.json has the people and the account of the probes.
ASSUME ProbeAssumption ==
    /\ "alice" \in Users /\ "carol" \in Auditors
    /\ "acct-alice" \in Accounts \ Frozen /\ Owner["acct-alice"] = "alice"
    /\ ProbeAmount \in 1 .. Limit["alice"]

\* The policies of Api for one request, principal and amount.
Probe(r, u, n) == INSTANCE Api WITH req <- r, uid <- u, amount <- n

ProbeRequest(route, target) ==
    [route |-> route, target |-> target, auth |-> NoToken("absent"), xuser |-> BadId,
     body |-> [kind |-> "no amount", half |-> 0]]

GrantProbe ==
    [ViewAccount |-> [request |-> ProbeRequest("view_account", "acct-alice"),
                      principal |-> "alice", amount |-> None],
     Transfer |-> [request |-> ProbeRequest("transfer", "acct-alice"),
                   principal |-> "alice", amount |-> ProbeAmount],
     ViewAuditLog |-> [request |-> ProbeRequest("view_audit_log", Unknown),
                       principal |-> "carol", amount |-> None]]

CedarGrants ==
    [a \in Actions |->
        Allows(Probe(GrantProbe[a].request, GrantProbe[a].principal,
                     GrantProbe[a].amount)!Policies)]

\* What the handlers call, as the lint reads it off app/api/main.py.
HandlerCalls == [r \in Routes |-> {"resolve_principal", "authorize"}]

\* --open-auditlogs is the lint's name for the drifted edge.
LintFacts(e) ==
    Facts(IF e = "open" THEN {"--open-auditlogs"} ELSE {}, CedarGrants, HandlerCalls)

ActionOf(route) == CHOOSE a \in Actions : ActionHandler[a] = route

\* What the lint reports of an action, run for edge e.
LintFinding(e, action) == Classify(LintFacts(e)[action])

\* The lint's report is what happens to requests: one that the edge of the
\* moment drops is of an action that the lint, run for that edge, reports as
\* shadowed (granted by Cedar and unreachable), and one that gets through is of
\* an action it reports as defended in depth, at whatever moment of a drift the
\* request comes.
LintDescribesEdge ==
    [][stage = "idle" /\ stage' # "idle" =>
           LET finding == LintFinding(edge, ActionOf(req'.route))
           IN  /\ stage' = "dropped" <=> finding = "shadowed"
               /\ stage' # "dropped" <=> finding = "defense"]_vars

=============================================================================
