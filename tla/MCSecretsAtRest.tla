--------------------------- MODULE MCSecretsAtRest ---------------------------
(***************************************************************************)
(* Instances of SecretsAtRest: an empty cluster, and one on which the      *)
(* script has run to its end.                                              *)
(***************************************************************************)
EXTENDS SecretsAtRest, TLC

Symmetry == Permutations(Secrets) \cup Permutations(Keys)

\* A cluster on which the script has run to its end, and a rotation.
Enabled(k) ==
    /\ file = <<k>> /\ flagged = TRUE
    /\ server = [up |-> TRUE, keys |-> <<k>>]
    /\ etcd = [s \in Secrets |-> k]
    /\ used = {k} /\ script = "passed" /\ rotation = "off" /\ todo = {}
    /\ early = {}

RotationSpec == (\E k \in Keys : Enabled(k)) /\ [][ServerStep \/ RotationStep]_vars
=============================================================================
