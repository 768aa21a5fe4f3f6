------------------------------ MODULE MCAuthz -------------------------------
(***************************************************************************)
(* Both uses of Cedar in one instance: requests of people to the api, and  *)
(* agents acting for people.  They share the engine's rules and no state,  *)
(* so each is run while the other is at rest.  Two agent ids are enough    *)
(* for any chain: a spawner may leave and its id be taken by the sub-agent *)
(* of its sub-agent.                                                       *)
(***************************************************************************)
EXTENDS MCApi, AgentAuthz, TLC

NoRequest == stage = "idle" /\ edge = "canonical"
NoAgent == agent = [a \in Agents |-> Absent] /\ clearance = [u \in People |-> 0]

AuthzInit == Init /\ AgentInit
AuthzNext ==
    \/ NoAgent /\ Next /\ UNCHANGED agentVars
    \/ NoRequest /\ AgentNext /\ UNCHANGED vars

AuthzSpec == AuthzInit /\ [][AuthzNext]_<<vars, agentVars>>

Symmetry == Permutations(Agents) \cup Permutations(People)
=============================================================================
