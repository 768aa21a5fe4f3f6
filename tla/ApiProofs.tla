----------------------------- MODULE ApiProofs ------------------------------
(***************************************************************************)
(* Proofs about Api, for any users, accounts, limits and numbers: whose    *)
(* name a request acts in, that the path through parsing, defaults and     *)
(* Cedar's error rules answers 200 to the entitled and to nobody else, and *)
(* that the cross-layer lint describes this service.                       *)
(***************************************************************************)
EXTENDS EdgeLint, CedarProofs, TLAPS

\* The stages at which a principal has been resolved.
Resolving == {"authorize", "200", "403"}

\* What transfer() has made of a body that it could read.
AmountRead ==
    /\ req.body.kind \notin {"not an object", "infinite"}
    /\ amount = IF req.body.kind \in OddBodies THEN Default ELSE Truncated(req.body.half)

\* The variables at each stage of the handler.
StageFacts ==
    /\ stage # "idle" => req \in Requests
    /\ stage \notin Resolving => uid = None
    /\ stage \in Resolving => uid = Resolved(req) /\ uid # BadId
    /\ stage \in Resolving \cup {"principal"} /\ req.route = "transfer" => AmountRead
    /\ stage \in {"200", "403"} => (stage = "200" <=> Representable /\ Allows(Policies))

IInv == TypeOK /\ StageFacts

-----------------------------------------------------------------------------
\* Cutting towards zero gives a positive amount within m exactly for the
\* numbers from n to below n + 1, for an n from 1 to m.
LEMMA TruncatedPositive ==
    ASSUME NEW h \in Int, NEW m \in Int
    PROVE  Truncated(h) > 0 /\ Truncated(h) <= m <=> \E n \in 1 .. m : h \in {2 * n, 2 * n + 1}
<1>1. ASSUME Truncated(h) > 0, Truncated(h) <= m
      PROVE  \E n \in 1 .. m : h \in {2 * n, 2 * n + 1}
  <2>1. CASE h >= 0
    <3>1. h \div 2 \in 1 .. m
      BY <1>1, <2>1 DEF Truncated
    <3>2. h \in {2 * (h \div 2), 2 * (h \div 2) + 1}
      BY <2>1
    <3> QED BY <3>1, <3>2
  <2>2. CASE h < 0
    BY <1>1, <2>2 DEF Truncated
  <2> QED BY <2>1, <2>2
<1>2. ASSUME NEW n \in 1 .. m, h \in {2 * n, 2 * n + 1}
      PROVE  Truncated(h) > 0 /\ Truncated(h) <= m
  <2>1. n \in Int /\ n >= 1 /\ n <= m /\ h >= 0
    BY <1>2
  <2>2. h \div 2 = n
    BY <1>2, <2>1
  <2> QED BY <2>1, <2>2 DEF Truncated
<1> QED BY <1>1, <1>2

\* A body carries a number, or is one of the odd ones.
LEMMA BodyKinds ==
    ASSUME NEW r \in Requests
    PROVE  /\ r.route \in Routes
           /\ \/ r.body.kind = "number" /\ r.body.half \in Int
              \/ r.body.kind \in OddBodies
           /\ "number" \notin OddBodies
BY ApiAssumption DEF Requests, Bodies, OddBodies

\* The handler authorizes exactly the entitled.
LEMMA DecisionMeaning ==
    ASSUME req \in Requests, uid \in Ids,
           req.route = "transfer" => AmountRead
    PROVE  Representable /\ Allows(Policies) <=> Entitled
<1>1. /\ Malformed \notin Accounts
      /\ \A a \in Accounts : Owner[a] \in Users
      /\ \A u \in Users : Limit[u] \in Int /\ Limit[u] < Default
      /\ Default \in Int /\ MaxLong \in Int /\ Default < MaxLong
  BY ApiAssumption
<1>2. Owns = "true" <=> req.target \in Accounts /\ Owner[req.target] = uid
  BY DEF Owns, Holds
<1>3. CASE req.route = "view_account"
  <2>1. Policies = {[effect |-> "permit", when |-> Owns]}
    BY <1>3 DEF Policies
  <2>2. Allows(Policies) <=> Owns = "true"
    BY <2>1, OnePermit
  <2> QED BY <1>1, <1>2, <1>3, <2>2 DEF Representable, Entitled
<1>4. CASE req.route = "view_audit_log"
  <2>1. Policies = {[effect |-> "permit", when |-> Holds(uid \in Auditors)]}
    BY <1>4 DEF Policies
  <2>2. Allows(Policies) <=> Holds(uid \in Auditors) = "true"
    BY <2>1, OnePermit
  <2> QED BY <1>4, <2>2 DEF Representable, Entitled, Holds
<1>5. CASE req.route = "transfer"
  <2> DEFINE c == And(And(Owns, Holds(amount > 0)), InLimit)
  <2>1. Policies = {[effect |-> "permit", when |-> c], [effect |-> "forbid", when |-> IsFrozen]}
    BY <1>5 DEF Policies
  <2> HIDE DEF c
  <2>2. Allows(Policies) <=> c = "true" /\ IsFrozen # "true"
    BY <2>1, PermitUnlessForbidden
  <2>3. c = "true" <=> Owns = "true" /\ amount > 0 /\ uid \in Users /\ amount <= Limit[uid]
    BY DEF c, And, Holds, InLimit
  <2>4. IsFrozen = "true" <=> req.target \in Accounts /\ req.target \in Frozen
    BY DEF IsFrozen, Holds
  <2> DEFINE Fits == amount > 0 /\ amount <= Limit[uid]
             Given == /\ req.body.kind = "number"
                      /\ \E n \in 1 .. Limit[uid] : req.body.half \in {2 * n, 2 * n + 1}
  <2>5. uid \in Users => (Fits <=> Given)
    <3> SUFFICES ASSUME uid \in Users PROVE Fits <=> Given
      OBVIOUS
    <3>1. Limit[uid] \in Int /\ Limit[uid] < Default
      BY <1>1
    <3>2. CASE req.body.kind = "number"
      <4>1. req.body.half \in Int /\ amount = Truncated(req.body.half)
        BY <1>5, <3>2, BodyKinds DEF AmountRead
      <4> QED BY <3>1, <3>2, <4>1, TruncatedPositive
    <3>3. CASE req.body.kind \in OddBodies
      <4>1. amount = Default /\ req.body.kind # "number"
        BY <1>5, <3>3, BodyKinds DEF AmountRead
      <4> QED BY <1>1, <3>1, <4>1
    <3> QED BY <3>2, <3>3, BodyKinds
  <2>6. amount \in Int
    <3>1. ASSUME NEW h \in Int PROVE Truncated(h) \in Int
      BY DEF Truncated
    <3> QED BY <1>1, <1>5, <3>1, BodyKinds DEF AmountRead
  <2>7. uid \in Users /\ Fits => amount \in -(MaxLong + 1) .. MaxLong
    BY <1>1, <2>6
  <2>8. Representable <=> req.target # Malformed /\ amount \in -(MaxLong + 1) .. MaxLong
    BY <1>5 DEF Representable
  <2>9. Entitled <=> /\ req.target \in Accounts \ Frozen /\ Owner[req.target] = uid
                     /\ Given
    BY <1>5 DEF Entitled
  <2> HIDE DEF Given
  <2> QED BY <1>1, <1>2, <2>2, <2>3, <2>4, <2>5, <2>7, <2>8, <2>9
<1> QED BY <1>3, <1>4, <1>5, BodyKinds DEF Routes

-----------------------------------------------------------------------------
\* With no request underway, nothing is left of an earlier one.
LEMMA InitEstablishes == Init => IInv
BY DEF Init, IInv, TypeOK, StageFacts, Resolving, Answers

\* The principal of a request is an id.
LEMMA ResolvedIsId ==
    ASSUME NEW r \in Requests
    PROVE  Resolved(r) \in Ids
<1>1. r.auth.sub \in Ids /\ r.xuser \in Ids /\ BadId \in Ids
  <2>1. r.auth \in Headers /\ r.xuser \in Ids
    BY DEF Requests
  <2>2. BadId \in Ids
    BY DEF Ids
  <2>3. CASE r.auth \in Tokens
    BY <2>1, <2>2, <2>3 DEF Tokens
  <2>4. CASE r.auth \in {NoToken(s) : s \in {"absent", "blank", "other"}}
    BY <2>1, <2>2, <2>4 DEF NoToken
  <2> QED BY <2>1, <2>3, <2>4 DEF Headers
<1>2. Resolved(r) \in {r.auth.sub, r.xuser, BadId}
  BY DEF Resolved
<1> QED BY <1>1, <1>2

\* Every step of the handler, and every edit of the edge, keeps the facts of
\* the stage it leads to.
LEMMA StepPreserves == IInv /\ [Next]_vars => IInv'
<1> SUFFICES ASSUME IInv, [Next]_vars PROVE IInv'
  OBVIOUS
<1> USE DEF IInv, TypeOK, StageFacts, Resolving, Answers
<1>1. CASE EditEdge
  BY <1>1 DEF EditEdge, AmountRead, Resolved, Representable, Policies, Owns, InLimit,
              IsFrozen
<1>2. ASSUME NEW r \in Requests, Arrive(r) PROVE IInv'
  BY <1>2 DEF Arrive
<1>3. CASE ReadBody
  <2>1. ASSUME NEW h \in Int PROVE Truncated(h) \in Int
    BY DEF Truncated
  <2>2. req \in Requests /\ req' = req
    BY <1>3 DEF ReadBody
  <2>3. amount' \in Int \cup {None}
    BY <1>3, <2>1, <2>2, BodyKinds, ApiAssumption DEF ReadBody
  <2> QED BY <1>3, <2>2, <2>3 DEF ReadBody, AmountRead
<1>4. CASE Resolve
  <2>1. req \in Requests /\ req' = req /\ Resolved(req) \in Ids
    BY <1>4, ResolvedIsId DEF Resolve
  <2>2. Resolved(req)' = Resolved(req)
    BY <1>4 DEF Resolve, Resolved
  <2> QED BY <1>4, <2>1, <2>2 DEF Resolve, AmountRead
<1>5. CASE Authorize
  BY <1>5 DEF Authorize, AmountRead, Resolved, Representable, Policies, Owns, InLimit,
              IsFrozen
<1>6. CASE Respond
  BY <1>6 DEF Respond
<1>7. CASE UNCHANGED vars
  BY <1>7 DEF vars, AmountRead, Resolved, Representable, Policies, Owns, InLimit, IsFrozen
<1> QED BY <1>1, <1>2, <1>3, <1>4, <1>5, <1>6, <1>7 DEF Next, Handle

\* The facts of its stage hold at every moment of every request.
THEOREM Inductive == Spec => []IInv
BY InitEstablishes, StepPreserves, PTL DEF Spec

\* A request carries values of the right type from step to step.
THEOREM TypeCorrect == Spec => []TypeOK
<1>1. IInv => TypeOK
  BY DEF IInv
<1> QED BY <1>1, Inductive, PTL

\* A principal comes from a verified token, or from X-User outside enforce
\* mode and with an absent or blank Authorization header.
THEOREM PrincipalIsProved == Spec => []PrincipalProved
<1>1. IInv => PrincipalProved
  BY DEF IInv, StageFacts, Resolved, PrincipalProved
<1> QED BY <1>1, Inductive, PTL

\* The handler answers 200 to the entitled, and 403 to all the others that
\* it answers with a decision.
THEOREM DecisionsAreIntended == Spec => []DecisionIsIntended
<1>1. IInv => DecisionIsIntended
  <2> SUFFICES ASSUME IInv, stage \in {"200", "403"} PROVE stage = "200" <=> Entitled
    BY DEF DecisionIsIntended
  <2>1. req \in Requests /\ uid \in Ids /\ (req.route = "transfer" => AmountRead)
    BY ResolvedIsId DEF IInv, StageFacts, Resolving
  <2>2. stage = "200" <=> Representable /\ Allows(Policies)
    BY DEF IInv, StageFacts
  <2> QED BY <2>1, <2>2, DecisionMeaning
<1> QED BY <1>1, Inductive, PTL

-----------------------------------------------------------------------------
\* The owner's probe of an account is granted.
LEMMA OwnerProbeGranted == CedarGrants["ViewAccount"]
<1> DEFINE r == GrantProbe["ViewAccount"].request
<1>1. r.route = "view_account" /\ r.target = "acct-alice"
  BY DEF GrantProbe, ProbeRequest
<1>2. GrantProbe["ViewAccount"].principal = "alice" /\ GrantProbe["ViewAccount"].amount = None
  BY DEF GrantProbe
<1> HIDE DEF r
<1>3. Probe(r, "alice", None)!Owns = "true"
  BY <1>1, ProbeAssumption DEF Probe!Owns, Probe!Holds
<1>4. Probe(r, "alice", None)!Policies
        = {[effect |-> "permit", when |-> Probe(r, "alice", None)!Owns]}
  BY <1>1 DEF Probe!Policies
<1>5. Allows(Probe(r, "alice", None)!Policies)
  BY <1>3, <1>4, OnePermit
<1> QED BY <1>2, <1>5 DEF r, CedarGrants, Actions, ActionHandler

\* The auditor's probe needs neither an account nor an amount.
LEMMA AuditorProbeGranted == CedarGrants["ViewAuditLog"]
<1> DEFINE r == GrantProbe["ViewAuditLog"].request
<1>1. r.route = "view_audit_log"
  BY DEF GrantProbe, ProbeRequest
<1>2. /\ GrantProbe["ViewAuditLog"].principal = "carol"
      /\ GrantProbe["ViewAuditLog"].amount = None
  BY DEF GrantProbe
<1> HIDE DEF r
<1>3. Probe(r, "carol", None)!Policies
        = {[effect |-> "permit", when |-> Probe(r, "carol", None)!Holds("carol" \in Auditors)]}
  BY <1>1 DEF Probe!Policies
<1>4. Probe(r, "carol", None)!Holds("carol" \in Auditors) = "true"
  BY ProbeAssumption DEF Probe!Holds
<1>5. Allows(Probe(r, "carol", None)!Policies)
  BY <1>3, <1>4, OnePermit
<1> QED BY <1>2, <1>5 DEF r, CedarGrants, Actions, ActionHandler

\* The transfer probe is within the limit, out of an account that is not frozen.
LEMMA TransferProbeGranted == CedarGrants["Transfer"]
<1> DEFINE r == GrantProbe["Transfer"].request
<1>1. r.route = "transfer" /\ r.target = "acct-alice"
  BY DEF GrantProbe, ProbeRequest
<1>2. GrantProbe["Transfer"].principal = "alice" /\ GrantProbe["Transfer"].amount = ProbeAmount
  BY DEF GrantProbe
<1> HIDE DEF r
<1>3. ProbeAmount > 0 /\ ProbeAmount <= Limit["alice"]
  BY ProbeAssumption, ApiAssumption
<1>4. Probe(r, "alice", ProbeAmount)!Owns = "true"
  BY <1>1, ProbeAssumption DEF Probe!Owns, Probe!Holds
<1>5. Probe(r, "alice", ProbeAmount)!InLimit = "true"
  BY <1>3, ProbeAssumption DEF Probe!InLimit, Probe!Holds
<1>6. Probe(r, "alice", ProbeAmount)!IsFrozen = "false"
  BY <1>1, ProbeAssumption DEF Probe!IsFrozen, Probe!Holds
<1> DEFINE c == Probe(r, "alice", ProbeAmount)!And(
                    Probe(r, "alice", ProbeAmount)!And(
                        Probe(r, "alice", ProbeAmount)!Owns,
                        Probe(r, "alice", ProbeAmount)!Holds(ProbeAmount > 0)),
                    Probe(r, "alice", ProbeAmount)!InLimit)
<1>7. Probe(r, "alice", ProbeAmount)!Policies
        = {[effect |-> "permit", when |-> c],
           [effect |-> "forbid", when |-> Probe(r, "alice", ProbeAmount)!IsFrozen]}
  BY <1>1 DEF Probe!Policies
<1>8. c = "true"
  BY <1>3, <1>4, <1>5 DEF Probe!And, Probe!Holds
<1> HIDE DEF c
<1>9. Allows(Probe(r, "alice", ProbeAmount)!Policies)
  BY <1>6, <1>7, <1>8, PermitUnlessForbidden
<1> QED BY <1>2, <1>9 DEF r, CedarGrants, Actions, ActionHandler

\* Each route has one action.
LEMMA ActionOfRoute ==
    /\ Actions = {"ViewAccount", "Transfer", "ViewAuditLog"}
    /\ ActionOf("view_account") = "ViewAccount" /\ ActionOf("transfer") = "Transfer"
    /\ ActionOf("view_audit_log") = "ViewAuditLog"
  BY DEF ActionOf, Actions, ActionHandler

\* The lint run for an edge finds reachable what that edge lets through.
LEMMA ReachIsAllowed ==
    ASSUME NEW route \in Routes
    PROVE  LintFacts(edge)[ActionOf(route)].reach <=> route \in L7Allowed
<1> DEFINE switches == IF edge = "open" THEN {"--open-auditlogs"} ELSE {}
<1>1. \A a \in Actions : LintFacts(edge)[a].reach <=> ActionHttp[a] \in L7Rules(switches)
  BY DEF LintFacts, Facts, L7Reachable
<1>2. ActionHttp["ViewAccount"] \in L7Rules(switches)
  BY DEF L7Rules
<1>3. ActionHttp["Transfer"] \in L7Rules(switches)
  BY DEF L7Rules
<1>4. ActionHttp["ViewAuditLog"] \in L7Rules(switches) <=> edge = "open"
  <2>1. /\ ActionHttp["ViewAuditLog"] # ActionHttp["ViewAccount"]
        /\ ActionHttp["ViewAuditLog"] # ActionHttp["Transfer"]
    BY DEF ActionHttp
  <2>2. switches \cap {"--open-auditlogs"} # {} <=> edge = "open"
    OBVIOUS
  <2> HIDE DEF switches
  <2> QED BY <2>1, <2>2 DEF L7Rules
<1> HIDE DEF switches
<1> QED BY <1>1, <1>2, <1>3, <1>4, ActionOfRoute DEF Routes, L7Allowed

\* The lint finds a granted, gated action shadowed or defended by reach alone.
LEMMA FindingIsReach ==
    ASSUME NEW a \in Actions
    PROVE  LintFinding(edge, a) = IF LintFacts(edge)[a].reach THEN "defense" ELSE "shadowed"
<1> DEFINE switches == IF edge = "open" THEN {"--open-auditlogs"} ELSE {}
           fact == LintFacts(edge)[a]
<1>1. fact.grant = CedarGrants[a]
  BY DEF LintFacts, Facts
<1>2. CedarGrants[a]
  BY OwnerProbeGranted, TransferProbeGranted, AuditorProbeGranted, ActionOfRoute
<1>3. ActionHandler[a] \in Routes
  BY ActionOfRoute DEF ActionHandler, Routes
<1>4. GatedInApp(a, HandlerCalls)
  BY <1>3 DEF GatedInApp, HandlerCalls
<1>5. "--ungate-transfer" \notin switches
  OBVIOUS
<1>6. fact.gate = (/\ GatedInApp(a, HandlerCalls)
                   /\ a = "Transfer" => "--ungate-transfer" \notin switches)
  BY DEF LintFacts, Facts
<1> HIDE DEF fact, switches
<1>7. fact.gate
  BY <1>4, <1>5, <1>6
<1>8. fact.grant
  BY <1>1, <1>2
<1>9. Classify(fact) = IF fact.reach THEN "defense" ELSE "shadowed"
  BY <1>7, <1>8 DEF Classify
<1> QED BY <1>9 DEF fact, LintFinding

\* Whatever is drifting, the service drops what the lint, run for the edge of
\* that moment, reports as shadowed and lets through what it reports as defended.
THEOREM LintIsRight == Spec => LintDescribesEdge
<1> DEFINE Described ==
        stage = "idle" /\ stage' # "idle" =>
            LET finding == LintFinding(edge, ActionOf(req'.route))
            IN  /\ stage' = "dropped" <=> finding = "shadowed"
                /\ stage' # "dropped" <=> finding = "defense"
<1>1. ASSUME IInv, Next PROVE Described
  <2> SUFFICES ASSUME stage = "idle", stage' # "idle"
               PROVE  LET finding == LintFinding(edge, ActionOf(req'.route))
                      IN  /\ stage' = "dropped" <=> finding = "shadowed"
                          /\ stage' # "dropped" <=> finding = "defense"
    OBVIOUS
  <2>1. PICK r \in Requests : Arrive(r)
    BY <1>1 DEF Next, EditEdge, Handle, ReadBody, Resolve, Authorize, Respond, Answers
  <2>2. req' = r /\ r.route \in Routes
    BY <2>1 DEF Arrive, Requests
  <2>3. stage' = "dropped" <=> r.route \notin L7Allowed
    BY <2>1 DEF Arrive
  <2>4. ActionOf(r.route) \in Actions
    BY <2>2, ActionOfRoute DEF Routes
  <2> QED BY <2>2, <2>3, <2>4, ReachIsAllowed, FindingIsReach
<1>2. IInv /\ [Next]_vars => [Described]_vars
  BY <1>1
<1> QED BY <1>2, Inductive, PTL DEF Spec, LintDescribesEdge

=============================================================================
