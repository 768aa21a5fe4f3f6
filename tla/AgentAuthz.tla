----------------------------- MODULE AgentAuthz -----------------------------
(***************************************************************************)
(* Authorization of AI agents acting for people (cedar/agent/policies.     *)
(* cedar), while the control plane (external) registers agents, records    *)
(* the spawning agent's ceiling on each sub-agent, and changes or removes  *)
(* what the policies look at.  Decisions read the entities of the moment.  *)
(***************************************************************************)
EXTENDS Integers, Cedar

CONSTANTS
    Agents,   \* agent ids; an id freed may be taken again
    People,   \* user ids
    Classes,  \* MLS classes, public is 0
    Absent    \* no entity, no attribute

ASSUME AgentAssumption ==
    /\ Classes \subseteq Nat
    /\ Absent \notin Nat \cup People

VARIABLES
    clearance,  \* user -> clearance, or Absent when the entity is gone
    agent       \* agent -> its entity, or Absent

agentVars == <<clearance, agent>>

\* The entity's attributes, and what the policies do not see: by, the agent
\* that spawned it, and floor, the least ceiling along the chain of spawns,
\* each as it stood at the spawn.
Entity == [max: Classes, obo: People, depth: Nat, byMax: Classes \cup {Absent},
           by: Agents \cup {Absent}, floor: Classes]

AtMost(m, n) == IF m < n THEN m ELSE n

Records == [class: Classes, owner: People]

AgentInit ==
    /\ clearance \in [People -> Classes]
    /\ agent = [a \in Agents |-> Absent]

-----------------------------------------------------------------------------
(***************************************************************************)
(* The control plane.  It is trusted to tell the truth: on_behalf_of is    *)
(* the root human, depth counts the hops, and delegated_by_max_            *)
(* classification, when recorded, is the spawning agent's ceiling.         *)
(***************************************************************************)
Register(a, u, m) ==
    /\ agent[a] = Absent
    /\ agent' = [agent EXCEPT ![a] =
           [max |-> m, obo |-> u, depth |-> 0, byMax |-> Absent,
            by |-> Absent, floor |-> m]]
    /\ UNCHANGED clearance

\* A slip: the spawning agent recorded by reference, not its ceiling.
SpawnByReference(p, a, m, record) ==
    /\ agent[p] # Absent /\ agent[a] = Absent
    /\ agent' = [agent EXCEPT ![a] =
           [max |-> m, obo |-> agent[p].obo, depth |-> agent[p].depth + 1,
            byMax |-> IF record THEN p ELSE Absent,
            by |-> p, floor |-> AtMost(m, agent[p].floor)]]
    /\ UNCHANGED clearance

\* An agent spawns a sub-agent; the optional attribute may be left out.
Spawn(p, a, m, record) ==
    /\ agent[p] # Absent /\ agent[a] = Absent
    /\ agent' = [agent EXCEPT ![a] =
           [max |-> m, obo |-> agent[p].obo, depth |-> agent[p].depth + 1,
            byMax |-> IF record THEN agent[p].max ELSE Absent,
            by |-> p, floor |-> AtMost(m, agent[p].floor)]]
    /\ UNCHANGED clearance

\* An agent's ceiling is lowered: a sub-agent keeps what was recorded of it.
LowerCeiling(a, m) ==
    /\ agent[a] # Absent /\ m < agent[a].max
    /\ agent' = [agent EXCEPT ![a] =
           [agent[a] EXCEPT !.max = m, !.floor = AtMost(m, agent[a].floor)]]
    /\ UNCHANGED clearance

RemoveAgent(a) ==
    /\ agent[a] # Absent
    /\ agent' = [agent EXCEPT ![a] = Absent]
    /\ UNCHANGED clearance

\* A person's clearance changes, or the person leaves.
SetClearance(u, c) ==
    /\ clearance[u] # c
    /\ clearance' = [clearance EXCEPT ![u] = c]
    /\ UNCHANGED agent

MaxDepth == 2  \* a bound: the policies tell 0, 1 and more apart

AgentNext ==
    \/ \E a \in Agents, m \in Classes :
           \/ LowerCeiling(a, m)
           \/ \E u \in People : Register(a, u, m)
           \/ \E p \in Agents, record \in BOOLEAN :
                  agent[p] # Absent /\ agent[p].depth < MaxDepth /\ Spawn(p, a, m, record)
    \/ \E a \in Agents : RemoveAgent(a)
    \/ \E u \in People, c \in Classes \cup {Absent} : SetClearance(u, c)

AgentSpec == AgentInit /\ [][AgentNext]_agentVars

-----------------------------------------------------------------------------
(***************************************************************************)
(* The policies, on an agent's entity e and a record d.                    *)
(***************************************************************************)
WithinClearance(e, d) ==
    IF clearance[e.obo] = Absent THEN "error" ELSE Holds(d.class <= clearance[e.obo])

Permit(c) == [effect |-> "permit", when |-> c]
Forbid(c) == [effect |-> "forbid", when |-> c]

P1(listed) == Permit(Holds(listed))  \* listed: the tool is on its allowlist
P2(e, d) == Permit(And(Holds(d.class <= e.max), WithinClearance(e, d)))

P3NoCeiling(e, d) == Permit(Holds(d.owner = e.obo))  \* a slip
P3(e, d) == Permit(And(Holds(d.owner = e.obo), Holds(d.class <= e.max)))

P4(e, d) == Forbid(And(Holds(d.class >= 2), Holds(e.max < 2)))
P5(e) == Forbid(Holds(e.depth > 1))

\* What P6 was before: the clamp read through a reference to the agent.
P6ByReference(e, d) ==
    Forbid(And(Holds(e.by # Absent),
               IF e.by = Absent \/ agent[e.by] = Absent THEN "error"
               ELSE Holds(d.class > agent[e.by].max)))
P6(e, d) == Forbid(And(Holds(e.byMax # Absent), Holds(e.byMax # Absent /\ d.class > e.byMax)))

P7(e) == Forbid(And(Holds(e.depth >= 1), Holds(e.byMax = Absent)))

InvokePolicies(e, listed) == {P1(listed), P5(e), P7(e)}
ReadPolicies(e, d) == {P2(e, d), P3(e, d), P4(e, d), P5(e), P6(e, d), P7(e)}

CanInvoke(a, listed) == agent[a] # Absent /\ Allows(InvokePolicies(agent[a], listed))
CanRead(a, d) == agent[a] # Absent /\ Allows(ReadPolicies(agent[a], d))

-----------------------------------------------------------------------------
\* Clearances that may be gone, and entities as schema.json shapes them.
AgentTypeOK ==
    /\ clearance \in [People -> Classes \cup {Absent}]
    /\ agent \in [Agents -> Entity \cup {Absent}]

\* No agent reads above the least ceiling on its chain of spawns, and none
\* reads a record of somebody else's that its person is not cleared for, now.
ReadsBounded ==
    \A a \in Agents, d \in Records :
        CanRead(a, d) =>
            /\ d.class <= agent[a].floor
            /\ \/ d.owner = agent[a].obo
               \/ clearance[agent[a].obo] # Absent /\ d.class <= clearance[agent[a].obo]

\* As its comment says, P4 forbids nothing that the permits would grant.
ClassifiedForbidRedundant ==
    \A a \in Agents, d \in Records :
        agent[a] # Absent /\ Satisfied({P2(agent[a], d), P3(agent[a], d)}, "permit") # {}
            => P4(agent[a], d).when # "true"

\* A step that only takes away, an agent or person removed, a ceiling or a
\* clearance lowered, gives no agent anything new to read or invoke: no
\* forbid is lost to an error.
OnlyTakesAway ==
    /\ \A a \in Agents : agent'[a] # Absent =>
           agent[a] # Absent /\ agent'[a].max <= agent[a].max
    /\ \A u \in People : clearance'[u] # Absent =>
           clearance[u] # Absent /\ clearance'[u] <= clearance[u]

RevocationGrantsNothing ==
    [][OnlyTakesAway =>
         \A a \in Agents :
             /\ \A d \in Records : CanRead(a, d)' => CanRead(a, d)
             /\ \A listed \in BOOLEAN : CanInvoke(a, listed)' => CanInvoke(a, listed)]_agentVars

=============================================================================
