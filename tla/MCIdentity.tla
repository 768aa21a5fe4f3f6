----------------------------- MODULE MCIdentity -----------------------------
(***************************************************************************)
(* Instances of Identity for TLC: a deployer, a tier operator and a        *)
(* cluster admin; one tier, so that the other ServiceAccount and the other *)
(* labels stand for every mismatch.                                        *)
(***************************************************************************)
EXTENDS Identity, FiniteSets, TLC

MCTiers == {"api"}
MCServiceAccts == {"api-sa", "default"}
MCSAOf == [t \in MCTiers |-> "api-sa"]
MCGatedSAs == {"api-sa"}

Deployer == [uname |-> <<"ci">>, groups |-> {"shop:deployers"}]
\* A service account outside kube-system that was given the deployers' role.
CIAccount == [uname |-> <<"system", "serviceaccount", "shop", "ci-deployer">>,
              groups |-> {"shop:deployers"}]
Operator == [uname |-> <<"oncall">>, groups |-> {"shop:tier-operators"}]
Admin == [uname |-> <<"kubernetes-admin">>, groups |-> {"kubeadm:cluster-admins"}]

MCRequesters == {CIAccount, Operator, Admin}
MCRolloutRequesters == {Deployer, Operator, Admin}

MCKinds == {"pods", "deployments", "cronjobs"}
MCRolloutKinds == {"deployments"}

\* A cluster after up.sh: both policies stored and enforced, nothing deployed.
RolloutInit ==
    /\ binding = [p \in Policies |-> "Deny"]
    /\ enforcing = Policies
    /\ obj = [s \in Slots |-> None]

RolloutNext == UserStep \/ ControllerStep \/ \E s \in Slots : PodGone(s)

RolloutSpec == RolloutInit /\ [][RolloutNext]_vars /\ Fairness

Symmetry == Permutations(Parts)
=============================================================================
