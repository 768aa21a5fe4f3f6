------------------------------- MODULE Rebac --------------------------------
(***************************************************************************)
(* rebac/model.fga: who has which relation to an object, derived from the  *)
(* stored tuples <<user, relation, object>>, and the tuples and scenarios  *)
(* of rebac/check_live.py.                                                 *)
(***************************************************************************)
Direct(tuples, relation, object) ==
    {t[1] : t \in {u \in tuples : u[2] = relation /\ u[3] = object}}

\* `relation from edge': over the objects that the edge leads to.
From(tuples, relation, edge, object) ==
    UNION {Direct(tuples, relation, via) : via \in Direct(tuples, edge, object)}

\* can_view and can_transfer of an account: its owner, and the agents to which
\* this owner delegates.
Viewers(tuples, account) ==
    Direct(tuples, "owner", account) \cup From(tuples, "delegate", "owner", account)

\* can_admin of a workload.
Operators(tuples, workload) ==
    Direct(tuples, "operator", workload)
        \cup From(tuples, "member", "owner_team", workload)

-----------------------------------------------------------------------------
(***************************************************************************)
(* What model.fga may say.  A derived relation is a combination by `or',   *)
(* `and' and `but not' of the terms of its type: the sets of terms for     *)
(* which it holds.  "delegate" and "member" are the terms without the join *)
(* over the object: of anyone, of any team.  "operator" is the one who is  *)
(* directly assigned: the file's derived relation `operator', [user] or    *)
(* member from owner_team, is folded into can_admin, which equals it.      *)
(***************************************************************************)
TermsOf ==
    [can_view |-> {"owner", "delegate from owner", "delegate"},
     can_transfer |-> {"owner", "delegate from owner", "delegate"},
     can_admin |-> {"operator", "member from owner_team", "member"}]

Anywhere(tuples, relation) == {t[1] : t \in {u \in tuples : u[2] = relation}}

Related(tuples, term, object) ==
    CASE term = "delegate from owner" -> From(tuples, "delegate", "owner", object)
      [] term = "member from owner_team" -> From(tuples, "member", "owner_team", object)
      [] term \in {"owner", "operator"} -> Direct(tuples, term, object)
      [] OTHER -> Anywhere(tuples, term)

Standing(tuples, user, relation, object) ==
    {t \in TermsOf[relation] : user \in Related(tuples, t, object)}

Rewrites == {m \in [DOMAIN TermsOf -> SUBSET SUBSET UNION {TermsOf[r] : r \in DOMAIN TermsOf}] :
                \A r \in DOMAIN TermsOf : m[r] \subseteq SUBSET TermsOf[r]}

\* The answer of an engine that has loaded the model m.
Check(m, tuples, user, relation, object) ==
    Standing(tuples, user, relation, object) \in m[relation]

\* `a or b'
Either(terms, relation) == {s \in SUBSET TermsOf[relation] : s \cap terms # {}}

ModelFga ==
    [can_view |-> Either({"owner", "delegate from owner"}, "can_view"),
     can_transfer |-> Either({"owner", "delegate from owner"}, "can_transfer"),
     can_admin |-> Either({"operator", "member from owner_team"}, "can_admin")]

-----------------------------------------------------------------------------
TUPLES ==
    {<<"alice", "owner", "acct-alice">>, <<"assistant", "delegate", "alice">>,
     <<"bob", "owner", "acct-bob">>, <<"bob", "member", "payments">>,
     <<"payments", "owner_team", "billing-job">>}

Scenario(user, relation, object, expected) ==
    [user |-> user, relation |-> relation, object |-> object, expected |-> expected]

\* A slip: the agent is only asked about the account it has.
SCENARIOSOneAccount ==
    <<Scenario("alice", "can_view", "acct-alice", TRUE),
      Scenario("assistant", "can_transfer", "acct-alice", TRUE),
      Scenario("carol", "can_view", "acct-alice", FALSE),
      Scenario("bob", "can_admin", "billing-job", TRUE),
      Scenario("alice", "can_admin", "billing-job", FALSE)>>

SCENARIOS ==
    <<Scenario("alice", "can_view", "acct-alice", TRUE),
      Scenario("alice", "can_transfer", "acct-alice", TRUE),
      Scenario("assistant", "can_view", "acct-alice", TRUE),
      Scenario("assistant", "can_transfer", "acct-alice", TRUE),
      Scenario("assistant", "can_view", "acct-bob", FALSE),
      Scenario("assistant", "can_transfer", "acct-bob", FALSE),
      Scenario("carol", "can_view", "acct-alice", FALSE),
      Scenario("carol", "can_transfer", "acct-alice", FALSE),
      Scenario("bob", "can_admin", "billing-job", TRUE),
      Scenario("alice", "can_admin", "billing-job", FALSE),
      Scenario("carol", "can_admin", "billing-job", FALSE)>>

=============================================================================
