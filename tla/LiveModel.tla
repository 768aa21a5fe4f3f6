----------------------------- MODULE LiveModel ------------------------------
(***************************************************************************)
(* The live check over its own tuples and scenarios, for any model.fga:    *)
(* what a PASS for these few questions says about every other one.         *)
(***************************************************************************)
EXTENDS LiveCheck, Rebac

CONSTANTS
    Stores,  \* sets of tuples that an OpenFGA server may hold
    Names    \* the users and objects of the questions about them

TableExpected == [i \in DOMAIN SCENARIOS |-> SCENARIOS[i].expected]
TableAnswer ==
    [m \in Models |-> [i \in DOMAIN SCENARIOS |->
        Check(m, TUPLES, SCENARIOS[i].user, SCENARIOS[i].relation, SCENARIOS[i].object)]]

\* An owner is a user and a delegate an agent: model.fga types the relations.
Typed(tuples) == \A t, u \in tuples : t[2] = "owner" /\ u[2] = "delegate" => t[1] # u[1]

ASSUME LiveModelAssumption ==
    /\ Models \subseteq Rewrites /\ Expected = TableExpected /\ Answer = TableAnswer
    /\ \A tuples \in Stores : Typed(tuples)
    /\ None # "PASS"

\* PASS is a statement about all data and not only about the tuples of the
\* script: whatever model.fga makes of its terms, a run that prints PASS has
\* shown that over any store can_view and can_transfer hold of an owner, of the
\* agents that this owner delegates to and of nobody else, and that can_admin
\* holds of the owning team and not of those who are in no team and operate
\* nothing.  (Of operators, and of members of another team, the table asks
\* nothing.)
PassMeansCanonical ==
    \A r \in Runs : verdict[r] = "PASS" =>
        \A tuples \in Stores, user, object \in Names :
            /\ Check(fga, tuples, user, "can_view", object) <=> user \in Viewers(tuples, object)
            /\ Check(fga, tuples, user, "can_transfer", object)
                   <=> user \in Viewers(tuples, object)
            /\ Standing(tuples, user, "can_admin", object) \in {{}, {"member from owner_team", "member"}}
                   => (Check(fga, tuples, user, "can_admin", object)
                           <=> user \in Operators(tuples, object))
=============================================================================
