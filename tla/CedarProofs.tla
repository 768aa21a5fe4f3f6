---------------------------- MODULE CedarProofs -----------------------------
(***************************************************************************)
(* When a condition is true, and when a set of policies allows a request:  *)
(* the facts about Cedar that the proofs about both bundles rest on.       *)
(***************************************************************************)
EXTENDS Cedar, TLAPS

\* Whether some policy of an effect is satisfied.
LEMMA SomeSatisfied ==
    \A ps, effect : Satisfied(ps, effect) # {}
        <=> \E p \in ps : p.effect = effect /\ p.when = "true"
BY DEF Satisfied

\* An errored forbid is as good as no forbid: only true conditions count.
LEMMA AllowsMeaning ==
    \A ps : Allows(ps) <=>
        /\ \E p \in ps : p.effect = "permit" /\ p.when = "true"
        /\ \A p \in ps : ~(p.effect = "forbid" /\ p.when = "true")
BY SomeSatisfied DEF Allows

\* A bundle of one permit allows what it permits.
LEMMA OnePermit == \A c : Allows({[effect |-> "permit", when |-> c]}) <=> c = "true"
<1> SUFFICES ASSUME NEW c PROVE Allows({[effect |-> "permit", when |-> c]}) <=> c = "true"
  OBVIOUS
<1> DEFINE p == [effect |-> "permit", when |-> c]
<1>1. p.effect = "permit" /\ p.when = c
  OBVIOUS
<1> HIDE DEF p
<1>2. Allows({p}) <=> p.when = "true"
  BY <1>1, AllowsMeaning
<1> QED BY <1>1, <1>2 DEF p

\* A permit and a forbid allow what is permitted and not forbidden.
LEMMA PermitUnlessForbidden ==
    \A c, d : Allows({[effect |-> "permit", when |-> c], [effect |-> "forbid", when |-> d]})
                <=> c = "true" /\ d # "true"
<1> SUFFICES ASSUME NEW c, NEW d
             PROVE  Allows({[effect |-> "permit", when |-> c], [effect |-> "forbid", when |-> d]})
                      <=> c = "true" /\ d # "true"
  OBVIOUS
<1> DEFINE p == [effect |-> "permit", when |-> c]
           f == [effect |-> "forbid", when |-> d]
<1>1. p.effect = "permit" /\ p.when = c /\ f.effect = "forbid" /\ f.when = d
  OBVIOUS
<1> HIDE DEF p, f
<1>2. Allows({p, f}) <=> p.when = "true" /\ f.when # "true"
  BY <1>1, AllowsMeaning
<1> QED BY <1>1, <1>2 DEF p, f

=============================================================================
