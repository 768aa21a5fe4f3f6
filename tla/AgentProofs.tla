----------------------------- MODULE AgentProofs -----------------------------
(***************************************************************************)
(* Proofs about AgentAuthz, for any agents, people and classes: what the   *)
(* seven policies allow comes down to a comparison of numbers, reads are   *)
(* bounded by the chain of spawns, and taking away never grants.           *)
(***************************************************************************)
EXTENDS AgentAuthz, CedarProofs, TLAPS

\* With one hop at most, the recorded ceiling and the agent's own are all of
\* the chain.
FloorKnown ==
    \A a \in Agents : agent[a] # Absent =>
        /\ agent[a].depth = 0 => agent[a].floor = agent[a].max
        /\ agent[a].depth = 1 /\ agent[a].byMax # Absent
               => agent[a].floor = AtMost(agent[a].max, agent[a].byMax)

IInv == AgentTypeOK /\ FloorKnown

\* What the policies come down to for an entity e: the depth and provenance
\* that every action asks for, and the two ways to read a record d.
Admissible(e) == e.depth \in {0, 1} /\ (e.depth = 1 => e.byMax # Absent)

Readable(e, d) ==
    /\ d.class <= e.max
    /\ e.byMax # Absent => d.class <= e.byMax
    /\ \/ d.owner = e.obo
       \/ clearance[e.obo] # Absent /\ d.class <= clearance[e.obo]

-----------------------------------------------------------------------------
\* The intersection of ceiling and clearance is true only for a person whose
\* entity is there.
LEMMA ClearanceTrue ==
    ASSUME AgentTypeOK, NEW e \in Entity, NEW d \in Records
    PROVE  /\ WithinClearance(e, d) \in Condition
           /\ WithinClearance(e, d) = "true"
                <=> clearance[e.obo] # Absent /\ d.class <= clearance[e.obo]
BY DEF WithinClearance, Holds, Condition

\* What CanInvoke decides.
LEMMA InvokeMeaning ==
    ASSUME AgentTypeOK, NEW a \in Agents, NEW listed \in BOOLEAN, agent[a] # Absent
    PROVE  CanInvoke(a, listed) <=> listed /\ Admissible(agent[a])
<1> DEFINE e == agent[a]
<1>1. e \in Entity
  BY DEF AgentTypeOK
<1>2. /\ P1(listed).effect = "permit" /\ (P1(listed).when = "true" <=> listed)
      /\ P5(e).effect = "forbid" /\ (P5(e).when = "true" <=> e.depth > 1)
      /\ P7(e).effect = "forbid"
      /\ P7(e).when = "true" <=> e.depth >= 1 /\ e.byMax = Absent
  BY <1>1 DEF P1, P5, P7, Permit, Forbid, Holds, And, Entity
<1>3. Allows(InvokePolicies(e, listed)) <=> listed /\ ~(e.depth > 1)
                                            /\ ~(e.depth >= 1 /\ e.byMax = Absent)
  BY <1>2, AllowsMeaning DEF InvokePolicies
<1> QED BY <1>1, <1>3 DEF CanInvoke, Admissible, Entity

\* What CanRead decides: the backstop P4 plays no part in it.
LEMMA ReadMeaning ==
    ASSUME AgentTypeOK, NEW a \in Agents, NEW d \in Records, agent[a] # Absent
    PROVE  CanRead(a, d) <=> Admissible(agent[a]) /\ Readable(agent[a], d)
<1> DEFINE e == agent[a]
<1>1. e \in Entity /\ d.class \in Nat
  BY AgentAssumption DEF AgentTypeOK, Records
<1>2. e.max \in Nat /\ e.depth \in Nat /\ (e.byMax # Absent => e.byMax \in Nat)
  BY <1>1, AgentAssumption DEF Entity
<1>3. /\ P2(e, d).effect = "permit" /\ P3(e, d).effect = "permit"
      /\ P4(e, d).effect = "forbid" /\ P5(e).effect = "forbid"
      /\ P6(e, d).effect = "forbid" /\ P7(e).effect = "forbid"
  BY DEF P2, P3, P4, P5, P6, P7, Permit, Forbid
<1>4. P2(e, d).when = "true"
        <=> d.class <= e.max /\ clearance[e.obo] # Absent /\ d.class <= clearance[e.obo]
  BY <1>1, ClearanceTrue DEF P2, Permit, Holds, And
<1>5. P3(e, d).when = "true" <=> d.owner = e.obo /\ d.class <= e.max
  BY DEF P3, Permit, Holds, And
<1>6. P4(e, d).when = "true" <=> d.class >= 2 /\ e.max < 2
  BY DEF P4, Forbid, Holds, And
<1>7. P5(e).when = "true" <=> e.depth > 1
  BY DEF P5, Forbid, Holds
<1>8. P6(e, d).when = "true" <=> e.byMax # Absent /\ d.class > e.byMax
  BY DEF P6, Forbid, Holds, And
<1>9. P7(e).when = "true" <=> e.depth >= 1 /\ e.byMax = Absent
  BY DEF P7, Forbid, Holds, And
<1>10. Allows(ReadPolicies(e, d))
         <=> /\ P2(e, d).when = "true" \/ P3(e, d).when = "true"
             /\ ~(P4(e, d).when = "true") /\ ~(P5(e).when = "true")
             /\ ~(P6(e, d).when = "true") /\ ~(P7(e).when = "true")
  BY <1>3, AllowsMeaning DEF ReadPolicies
<1>11. CanRead(a, d) <=> Allows(ReadPolicies(e, d))
  BY DEF CanRead
<1> HIDE DEF e
<1> QED
  BY <1>1, <1>2, <1>4, <1>5, <1>6, <1>7, <1>8, <1>9, <1>10, <1>11
     DEF Admissible, Readable, e

-----------------------------------------------------------------------------
\* The empty entity store satisfies the invariant.
LEMMA InitEstablishes == AgentInit => IInv
BY DEF AgentInit, IInv, AgentTypeOK, FloorKnown

\* The lesser of two classes is a class, and no greater than either.
LEMMA AtMostClass ==
    \A m, n \in Classes :
        AtMost(m, n) \in Classes /\ AtMost(m, n) <= m /\ AtMost(m, n) <= n
BY AgentAssumption DEF AtMost

\* An agent that is put in the store with a known floor keeps the invariant.
LEMMA PutPreserves ==
    ASSUME IInv, NEW a \in Agents, NEW e \in Entity,
           agent' = [agent EXCEPT ![a] = e], UNCHANGED clearance,
           e.depth = 0 => e.floor = e.max,
           e.depth = 1 /\ e.byMax # Absent => e.floor = AtMost(e.max, e.byMax)
    PROVE  IInv'
BY DEF IInv, AgentTypeOK, FloorKnown

\* Every step of the control plane keeps the invariant.
LEMMA StepPreserves == IInv /\ [AgentNext]_agentVars => IInv'
<1> SUFFICES ASSUME IInv, [AgentNext]_agentVars PROVE IInv'
  OBVIOUS
<1>0. AgentTypeOK /\ FloorKnown /\ Classes \subseteq Nat
  BY AgentAssumption DEF IInv
<1>1. ASSUME NEW a \in Agents, NEW u \in People, NEW m \in Classes, Register(a, u, m)
      PROVE  IInv'
  <2> DEFINE e == [max |-> m, obo |-> u, depth |-> 0, byMax |-> Absent,
                   by |-> Absent, floor |-> m]
  <2>1. e \in Entity
    BY DEF Entity
  <2> QED BY <1>1, <2>1, PutPreserves DEF Register
<1>2. ASSUME NEW p \in Agents, NEW a \in Agents, NEW m \in Classes,
             NEW record \in BOOLEAN, Spawn(p, a, m, record)
      PROVE  IInv'
  <2> DEFINE q == agent[p]
             e == [max |-> m, obo |-> q.obo, depth |-> q.depth + 1,
                   byMax |-> IF record THEN q.max ELSE Absent,
                   by |-> p, floor |-> AtMost(m, q.floor)]
  <2>1. q \in Entity
    BY <1>0, <1>2 DEF Spawn, AgentTypeOK
  <2>2. AtMost(m, q.floor) \in Classes
    BY <2>1, AtMostClass DEF Entity
  <2>3. e \in Entity
    BY <2>1, <2>2 DEF Entity
  <2>4. e.depth # 0
    BY <2>1 DEF Entity
  <2>5. e.depth = 1 /\ e.byMax # Absent => e.floor = AtMost(e.max, e.byMax)
    <3> SUFFICES ASSUME e.depth = 1, e.byMax # Absent PROVE q.floor = e.byMax
      OBVIOUS
    <3>1. q.depth = 0
      BY <2>1 DEF Entity
    <3> QED BY <1>0, <1>2, <3>1 DEF FloorKnown, Spawn
  <2>6. agent' = [agent EXCEPT ![a] = e] /\ UNCHANGED clearance
    BY <1>2 DEF Spawn
  <2> HIDE DEF e
  <2> QED BY <2>3, <2>4, <2>5, <2>6, PutPreserves
<1>3. ASSUME NEW a \in Agents, NEW m \in Classes, LowerCeiling(a, m) PROVE IInv'
  <2> DEFINE q == agent[a]
             e == [q EXCEPT !.max = m, !.floor = AtMost(m, q.floor)]
  <2>1. q \in Entity /\ m < q.max
    BY <1>0, <1>3 DEF LowerCeiling, AgentTypeOK
  <2>2. e \in Entity
    BY <2>1, AtMostClass DEF Entity
  <2>3. /\ e.depth = q.depth /\ e.byMax = q.byMax /\ e.max = m
        /\ e.floor = AtMost(m, q.floor)
    BY <2>1 DEF Entity
  <2>4. q.max \in Nat /\ m \in Nat /\ (q.byMax # Absent => q.byMax \in Nat)
    BY <1>0, <2>1 DEF Entity
  <2>5. q.depth = 0 => q.floor = q.max
    BY <1>0, <1>3 DEF FloorKnown, LowerCeiling
  <2>6. q.depth = 1 /\ q.byMax # Absent => q.floor = AtMost(q.max, q.byMax)
    BY <1>0, <1>3 DEF FloorKnown, LowerCeiling
  <2>7. e.depth = 0 => e.floor = e.max
    BY <2>1, <2>3, <2>4, <2>5 DEF AtMost
  <2>8. e.depth = 1 /\ e.byMax # Absent => e.floor = AtMost(e.max, e.byMax)
    BY <2>1, <2>3, <2>4, <2>6 DEF AtMost
  <2>9. agent' = [agent EXCEPT ![a] = e] /\ UNCHANGED clearance
    BY <1>3 DEF LowerCeiling
  <2> HIDE DEF e
  <2> QED BY <2>2, <2>7, <2>8, <2>9, PutPreserves
<1>4. ASSUME NEW a \in Agents, RemoveAgent(a) PROVE IInv'
  BY <1>0, <1>4 DEF RemoveAgent, IInv, AgentTypeOK, FloorKnown
<1>5. ASSUME NEW u \in People, NEW c \in Classes \cup {Absent}, SetClearance(u, c) PROVE IInv'
  BY <1>0, <1>5 DEF SetClearance, IInv, AgentTypeOK, FloorKnown
<1>6. CASE UNCHANGED agentVars
  BY <1>0, <1>6 DEF agentVars, IInv, AgentTypeOK, FloorKnown
<1> QED BY <1>1, <1>2, <1>3, <1>4, <1>5, <1>6 DEF AgentNext

\* The invariant holds in every reachable store.
THEOREM Inductive == AgentSpec => []IInv
BY InitEstablishes, StepPreserves, PTL DEF AgentSpec

\* Every entity of the store is of its type.
THEOREM TypeCorrect == AgentSpec => []AgentTypeOK
<1>1. IInv => AgentTypeOK
  BY DEF IInv
<1> QED BY <1>1, Inductive, PTL

\* No agent reads above the least ceiling of its chain, nor what neither
\* belongs to its person nor is within the person's present clearance.
THEOREM ReadsAreBounded == AgentSpec => []ReadsBounded
<1>1. IInv => ReadsBounded
  <2> SUFFICES ASSUME IInv, NEW a \in Agents, NEW d \in Records, CanRead(a, d)
               PROVE  /\ d.class <= agent[a].floor
                      /\ \/ d.owner = agent[a].obo
                         \/ /\ clearance[agent[a].obo] # Absent
                            /\ d.class <= clearance[agent[a].obo]
    BY DEF ReadsBounded
  <2>1. agent[a] # Absent /\ AgentTypeOK
    BY DEF CanRead, IInv
  <2>2. Admissible(agent[a]) /\ Readable(agent[a], d)
    BY <2>1, ReadMeaning
  <2>3. agent[a].floor \in {agent[a].max, agent[a].byMax}
        /\ (agent[a].floor = agent[a].byMax => agent[a].byMax # Absent
                                              \/ agent[a].floor = agent[a].max)
    BY <2>1, <2>2 DEF IInv, FloorKnown, Admissible, AtMost
  <2> QED BY <2>2, <2>3 DEF Readable
<1> QED BY <1>1, Inductive, PTL

\* In every reachable store the backstop forbids only what is not permitted.
THEOREM BackstopRedundant == AgentSpec => []ClassifiedForbidRedundant
<1>1. AgentTypeOK => ClassifiedForbidRedundant
  <2> SUFFICES ASSUME AgentTypeOK, NEW a \in Agents, NEW d \in Records, agent[a] # Absent,
                      Satisfied({P2(agent[a], d), P3(agent[a], d)}, "permit") # {}
               PROVE  P4(agent[a], d).when # "true"
    BY DEF ClassifiedForbidRedundant
  <2> DEFINE e == agent[a]
  <2>1. d.class \in Nat /\ e.max \in Nat
    BY AgentAssumption DEF AgentTypeOK, Records, Entity
  <2>2. P2(e, d).when = "true" \/ P3(e, d).when = "true"
    BY SomeSatisfied
  <2>3. d.class <= e.max
    BY <2>2 DEF P2, P3, Permit, Holds, And
  <2> QED BY <2>1, <2>3 DEF P4, Forbid, Holds, And
<1> QED BY <1>1, TypeCorrect, PTL

-----------------------------------------------------------------------------
\* What InvokeMeaning and ReadMeaning say of every agent, list and record.
DecisionsMean ==
    AgentTypeOK =>
        \A a \in Agents : agent[a] # Absent =>
            /\ \A listed \in BOOLEAN :
                   CanInvoke(a, listed) <=> listed /\ Admissible(agent[a])
            /\ \A d \in Records :
                   CanRead(a, d) <=> Admissible(agent[a]) /\ Readable(agent[a], d)

\* A decision after a step is the same comparison of the entities after it.
LEMMA DecisionsAfter == DecisionsMean /\ DecisionsMean'
<1>1. DecisionsMean
  BY InvokeMeaning, ReadMeaning DEF DecisionsMean
<1> QED BY <1>1, PTL

\* A step that only takes away lowers an agent's ceiling at most, and leaves
\* the rest of its entity that a decision depends on.
LEMMA TakingAwayKeeps ==
    ASSUME AgentTypeOK, AgentNext, OnlyTakesAway, NEW a \in Agents, agent'[a] # Absent
    PROVE  /\ agent[a] # Absent /\ agent'[a].max <= agent[a].max
           /\ agent'[a].obo = agent[a].obo /\ agent'[a].depth = agent[a].depth
           /\ agent'[a].byMax = agent[a].byMax
<1>0. /\ agent[a] # Absent /\ agent'[a].max <= agent[a].max
      /\ agent \in [Agents -> Entity \cup {Absent}] /\ agent[a] \in Entity
  BY DEF OnlyTakesAway, AgentTypeOK
<1> DEFINE Kept == /\ agent'[a].obo = agent[a].obo /\ agent'[a].depth = agent[a].depth
                   /\ agent'[a].byMax = agent[a].byMax
<1>1. ASSUME NEW b \in Agents, NEW u \in People, NEW m \in Classes, Register(b, u, m)
      PROVE  Kept
  BY <1>0, <1>1 DEF Register
<1>2. ASSUME NEW p \in Agents, NEW b \in Agents, NEW m \in Classes,
             NEW record \in BOOLEAN, Spawn(p, b, m, record)
      PROVE  Kept
  BY <1>0, <1>2 DEF Spawn
<1>3. ASSUME NEW b \in Agents, NEW m \in Classes, LowerCeiling(b, m) PROVE Kept
  <2>1. CASE b = a
    BY <1>0, <1>3, <2>1 DEF LowerCeiling, Entity
  <2>2. CASE b # a
    BY <1>0, <1>3, <2>2 DEF LowerCeiling
  <2> QED BY <2>1, <2>2
<1>4. ASSUME NEW b \in Agents, RemoveAgent(b) PROVE Kept
  BY <1>0, <1>4 DEF RemoveAgent
<1>5. ASSUME NEW u \in People, NEW c \in Classes \cup {Absent}, SetClearance(u, c) PROVE Kept
  BY <1>0, <1>5 DEF SetClearance
<1> HIDE DEF Kept
<1>6. Kept
  BY <1>1, <1>2, <1>3, <1>4, <1>5 DEF AgentNext
<1> QED BY <1>0, <1>6 DEF Kept

\* No step that only takes away lets an agent read or invoke what it could not
\* before it: the absence of an entity never switches a forbid off.
THEOREM TakingAwayIsMonotone == AgentSpec => RevocationGrantsNothing
<1> DEFINE Grants ==
      OnlyTakesAway =>
        \A a \in Agents :
            /\ \A d \in Records : CanRead(a, d)' => CanRead(a, d)
            /\ \A listed \in BOOLEAN : CanInvoke(a, listed)' => CanInvoke(a, listed)
<1>1. IInv /\ IInv' /\ AgentNext => Grants
  <2> SUFFICES ASSUME IInv, IInv', AgentNext, OnlyTakesAway, NEW a \in Agents
               PROVE  /\ \A d \in Records : CanRead(a, d)' => CanRead(a, d)
                      /\ \A listed \in BOOLEAN : CanInvoke(a, listed)' => CanInvoke(a, listed)
    OBVIOUS
  <2>0. AgentTypeOK /\ AgentTypeOK'
    BY DEF IInv
  <2>1. CASE agent'[a] = Absent
    BY <2>1 DEF CanRead, CanInvoke
  <2>2. CASE agent'[a] # Absent
    <3>1. /\ agent[a] # Absent /\ agent'[a].max <= agent[a].max
          /\ agent'[a].obo = agent[a].obo /\ agent'[a].depth = agent[a].depth
          /\ agent'[a].byMax = agent[a].byMax
      BY <2>0, <2>2, TakingAwayKeeps
    <3>2. Admissible(agent[a])' => Admissible(agent[a])
      BY <3>1 DEF Admissible
    <3>3. ASSUME NEW d \in Records, Readable(agent[a], d)' PROVE Readable(agent[a], d)
      <4>1. d.class \in Nat /\ agent[a].max \in Nat /\ agent'[a].max \in Nat
            /\ agent[a].obo \in People
        BY <2>0, <2>2, <3>1, AgentAssumption DEF AgentTypeOK, Records, Entity
      <4> DEFINE u == agent[a].obo
      <4>2. clearance'[u] # Absent =>
              /\ clearance[u] # Absent /\ clearance'[u] <= clearance[u]
              /\ clearance[u] \in Nat /\ clearance'[u] \in Nat
        BY <2>0, <4>1, AgentAssumption DEF AgentTypeOK, OnlyTakesAway
      <4> HIDE DEF u
      <4>3. /\ d.class <= agent'[a].max
            /\ agent[a].byMax # Absent => d.class <= agent[a].byMax
            /\ d.owner = u \/ (clearance'[u] # Absent /\ d.class <= clearance'[u])
        BY <3>1, <3>3 DEF Readable, u
      <4>4. /\ d.class <= agent[a].max
            /\ d.owner = u \/ (clearance[u] # Absent /\ d.class <= clearance[u])
        BY <3>1, <4>1, <4>2, <4>3
      <4> QED BY <4>3, <4>4 DEF Readable, u
    <3> QED BY <2>0, <2>2, <3>1, <3>2, <3>3, DecisionsAfter DEF DecisionsMean
  <2> QED BY <2>1, <2>2
<1>2. IInv /\ UNCHANGED agentVars => Grants
  BY DEF agentVars, CanRead, CanInvoke, InvokePolicies, ReadPolicies, P2, P6, WithinClearance
<1>3. IInv /\ IInv' /\ [AgentNext]_agentVars => [Grants]_agentVars
  BY <1>1, <1>2
<1> QED
  BY <1>3, Inductive, PTL DEF AgentSpec, RevocationGrantsNothing

=============================================================================
