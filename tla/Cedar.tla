------------------------------- MODULE Cedar --------------------------------
(***************************************************************************)
(* The policy engine (cedarpy, external) as the bundles under cedar/ rely  *)
(* on it: conditions are three-valued, an errored policy is skipped, a     *)
(* forbid overrides every permit, and without a permit the answer is Deny. *)
(***************************************************************************)
Condition == {"true", "false", "error"}

Holds(b) == IF b THEN "true" ELSE "false"

\* a && b: b is not evaluated, so cannot err, unless a is true.
And(a, b) == IF a = "true" THEN b ELSE a

\* policies: a set of [effect |-> "permit" or "forbid", when |-> a condition].
Satisfied(policies, effect) == {p \in policies : p.effect = effect /\ p.when = "true"}

Allows(policies) ==
    /\ Satisfied(policies, "permit") # {}
    /\ Satisfied(policies, "forbid") = {}

=============================================================================
