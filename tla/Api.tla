-------------------------------- MODULE Api ---------------------------------
(***************************************************************************)
(* One request from the web tier to the api: the network edge's HTTP rules *)
(* (k8s/netpol.yaml), then the handler of app/api/main.py, which reads the *)
(* body, resolves the principal (app/api/auth.py) and asks Cedar           *)
(* (cedar/policies.cedar).  Handlers share no mutable state, so requests   *)
(* are taken one at a time; the edge may be edited while one is underway.  *)
(***************************************************************************)
EXTENDS Integers, Cedar

CONSTANTS
    Users,     \* the users of entities.json
    Auditors,  \* those with parent Role::"auditor"
    Limit,     \* user -> transferLimit
    Accounts,  \* the accounts of entities.json
    Owner,     \* account -> owner
    Frozen,    \* the accounts with frozen == true
    Numbers,   \* the JSON numbers a body may carry, in halves (a bound)
    Default,   \* the amount a body without one stands for: 10**9
    MaxLong,   \* the largest Cedar Long: 2^63 - 1
    None

Stranger == "stranger"   \* a well-formed id that no entity has
BadId == "bad id"        \* fails _USER_RE
Unknown == "unknown"     \* an account or log that no entity is
Malformed == "malformed" \* a path segment that breaks the entity UID's syntax

ASSUME ApiAssumption ==
    /\ Auditors \subseteq Users /\ Frozen \subseteq Accounts
    /\ Limit \in [Users -> Int] /\ Owner \in [Accounts -> Users]
    /\ Numbers \subseteq Int
    /\ Default \in Int /\ MaxLong \in Int
    /\ {Stranger, BadId} \cap Users = {}
    /\ {Unknown, Malformed} \cap Accounts = {}
    /\ None \notin Users \cup {Stranger, BadId} \cup Int
    /\ Default < MaxLong
    /\ \A u \in Users : Limit[u] < Default

Ids == Users \cup {Stranger, BadId}
Routes == {"view_account", "transfer", "view_audit_log"}

\* The Authorization header: a Bearer token with its claims, or none.
Tokens == [scheme: {"bearer"}, sub: Ids, verified: BOOLEAN]
NoToken(s) == [scheme |-> s, sub |-> BadId, verified |-> FALSE]
Headers == Tokens \cup {NoToken(s) : s \in {"absent", "blank", "other"}}

\* What a body can be, short of an amount that int() takes.
OddBodies == {"not JSON", "not an object", "no amount", "not a number", "infinite"}
Bodies == [kind: {"number"}, half: Numbers] \cup [kind: OddBodies, half: {0}]

\* Only transfer() looks at the body.
Requests ==
    {r \in [route: Routes, target: Accounts \cup {Unknown, Malformed}, body: Bodies,
            auth: Headers, xuser: Ids] :
        r.route # "transfer" => r.body.kind = "no amount"}

VARIABLES
    edge,        \* the allow-web-to-api rules: "canonical" or "open" (drift)
    requireJwt,  \* AUTH_REQUIRE_JWT of the deployment
    req,         \* the request underway, or None
    stage,       \* how far it is
    amount,      \* what transfer() made of the body
    uid          \* the resolved principal

vars == <<edge, requireJwt, req, stage, amount, uid>>

Answers == {"200", "400", "401", "403", "500", "dropped"}

Init ==
    /\ edge = "canonical" /\ requireJwt \in BOOLEAN
    /\ req = None /\ stage = "idle" /\ amount = None /\ uid = None

-----------------------------------------------------------------------------
\* A live edit of allow-web-to-api, and its revert.
EditEdge ==
    /\ edge' = IF edge = "canonical" THEN "open" ELSE "canonical"
    /\ UNCHANGED <<requireJwt, req, stage, amount, uid>>

L7Allowed == {"view_account", "transfer"}
             \cup (IF edge = "open" THEN {"view_audit_log"} ELSE {})

Arrive(r) ==
    /\ stage = "idle"
    /\ req' = r
    /\ stage' = IF r.route \notin L7Allowed THEN "dropped"
                ELSE IF r.route = "transfer" THEN "body" ELSE "principal"
    /\ UNCHANGED <<edge, requireJwt, amount, uid>>

\* int() cuts towards zero.
Truncated(n) == IF n >= 0 THEN n \div 2 ELSE -((-n) \div 2)

\* A slip: a declared body, which FastAPI answers itself when it is no good.
ReadBodyDeclared ==
    /\ stage = "body"
    /\ stage' = IF req.body.kind \in OddBodies THEN "422" ELSE "principal"
    /\ amount' = IF req.body.kind \in OddBodies THEN None
                 ELSE Truncated(req.body.half)
    /\ UNCHANGED <<edge, requireJwt, req, uid>>

\* transfer(): an unreadable body is {}; no amount, or one that int() rejects
\* with TypeError or ValueError, becomes Default.  A body without .get and
\* an infinite amount raise something else: no answer but 500.
ReadBody ==
    /\ stage = "body"
    /\ IF req.body.kind \in {"not an object", "infinite"}
       THEN stage' = "500" /\ UNCHANGED amount
       ELSE /\ stage' = "principal"
            /\ amount' = IF req.body.kind \in OddBodies THEN Default
                         ELSE Truncated(req.body.half)
    /\ UNCHANGED <<edge, requireJwt, req, uid>>

\* A slip: a credential that is no good falls back to X-User.
ResolvedDowngrade(r) ==
    IF r.auth.verified THEN r.auth.sub
    ELSE IF ~requireJwt THEN r.xuser ELSE BadId

\* principal_for(): an Authorization that is not blank must be a verified
\* Bearer; with an absent or a blank one, and not in enforce mode, X-User names
\* the principal.
\* BadId stands for every failure.
Resolved(r) ==
    IF r.auth.scheme \notin {"absent", "blank"}
    THEN IF r.auth.verified THEN r.auth.sub ELSE BadId
    ELSE IF requireJwt THEN BadId ELSE r.xuser

Resolve ==
    /\ stage = "principal"
    /\ IF Resolved(req) # BadId
       THEN stage' = "authorize" /\ uid' = Resolved(req)
       ELSE /\ stage' = IF req.auth.scheme \notin {"absent", "blank"} \/ requireJwt
                        THEN "401" ELSE "400"
            /\ UNCHANGED uid
    /\ UNCHANGED <<edge, requireJwt, req, amount>>

(***************************************************************************)
(* cedar/policies.cedar.  An attribute of an entity that does not exist    *)
(* is an error, as is a request Cedar cannot represent.                    *)
(***************************************************************************)
Owns == IF req.target \in Accounts THEN Holds(Owner[req.target] = uid) ELSE "error"

InLimit ==
    IF uid \in Users THEN Holds(amount <= Limit[uid]) ELSE "error"

IsFrozen == IF req.target \in Accounts THEN Holds(req.target \in Frozen) ELSE "error"

PoliciesNoPositive ==  \* a slip: the guard amount > 0 is gone
    CASE req.route = "view_account" -> {[effect |-> "permit", when |-> Owns]}
      [] req.route = "transfer" ->
           {[effect |-> "permit", when |-> And(Owns, InLimit)],
            [effect |-> "forbid", when |-> IsFrozen]}
      [] req.route = "view_audit_log" ->
           {[effect |-> "permit", when |-> Holds(uid \in Auditors)]}

Policies ==
    CASE req.route = "view_account" -> {[effect |-> "permit", when |-> Owns]}
      [] req.route = "transfer" ->
           {[effect |-> "permit", when |-> And(And(Owns, Holds(amount > 0)), InLimit)],
            [effect |-> "forbid", when |-> IsFrozen]}
      [] req.route = "view_audit_log" ->
           {[effect |-> "permit", when |-> Holds(uid \in Auditors)]}

Representable ==
    /\ req.target # Malformed
    /\ req.route = "transfer" => amount \in -(MaxLong + 1) .. MaxLong

Authorize ==
    /\ stage = "authorize"
    /\ stage' = IF Representable /\ Allows(Policies) THEN "200" ELSE "403"
    /\ UNCHANGED <<edge, requireJwt, req, amount, uid>>

\* The answer is sent; the next request starts afresh.
Respond ==
    /\ stage \in Answers
    /\ req' = None /\ stage' = "idle" /\ amount' = None /\ uid' = None
    /\ UNCHANGED <<edge, requireJwt>>

-----------------------------------------------------------------------------
Handle == ReadBody \/ Resolve \/ Authorize \/ Respond

Next == EditEdge \/ (\E r \in Requests : Arrive(r)) \/ Handle

Spec == Init /\ [][Next]_vars

-----------------------------------------------------------------------------
\* What a request carries from one step of its handler to the next.
TypeOK ==
    /\ edge \in {"canonical", "open"} /\ requireJwt \in BOOLEAN
    /\ req \in Requests \cup {None}
    /\ stage \in {"idle", "body", "principal", "authorize"} \cup Answers
    /\ amount \in Int \cup {None}
    /\ uid \in Ids \cup {None}

\* A request acts as the subject of its verified token, or, outside enforce
\* mode and with an Authorization header that is absent or blank, as its
\* X-User: a credential that says anything at all and is no good never turns
\* into a demo identity.
PrincipalProved ==
    uid # None =>
        \/ req.auth.verified /\ uid = req.auth.sub
        \/ ~requireJwt /\ req.auth.scheme \in {"absent", "blank"} /\ uid = req.xuser

\* What auth.py:83-84 says: the X-User fallback applies only when no
\* Authorization header is sent at all.
FallbackOnlyWithoutHeader ==
    uid # None /\ req.auth.scheme # "absent" => req.auth.verified

\* Who may do what, said without policies, errors or defaults: an owner views
\* an account; an owner moves, out of an account that is not frozen, an amount
\* that the body gives, rounded down to a positive one within the limit; an
\* auditor reads any log.
Entitled ==
    CASE req.route = "view_account" ->
           req.target \in Accounts /\ Owner[req.target] = uid
      [] req.route = "transfer" ->
           /\ req.target \in Accounts \ Frozen /\ Owner[req.target] = uid
           /\ req.body.kind = "number"
           /\ \E n \in 1 .. Limit[uid] : req.body.half \in {2 * n, 2 * n + 1}
      [] req.route = "view_audit_log" -> uid \in Auditors /\ req.target # Malformed

\* The handler's answer, reached through its own parsing, defaults and Cedar's
\* error rules, is 200 exactly for the entitled; in particular a transfer
\* without a usable amount is never carried out.
DecisionIsIntended == stage \in {"200", "403"} => (stage = "200" <=> Entitled)

\* A transfer with a missing or invalid amount is denied.
InvalidAmountDenied ==
    stage \in Answers /\ req.route = "transfer" /\ req.body.kind \in OddBodies
        => stage \in {"400", "401", "403"}

=============================================================================
