--------------------------- MODULE LiveCheckProofs ---------------------------
(***************************************************************************)
(* Proofs about LiveCheck, for any number of runs, any models and any      *)
(* table of scenarios: a verdict is the one that the model deserves, and   *)
(* no run that ended leaves its container behind.  And about LiveModel,    *)
(* for any stores: what a PASS by the script's own table says of all data. *)
(***************************************************************************)
EXTENDS LiveModel, TLAPS

\* The containers that the name may stand for.
Engines ==
    [by: Runs, state: {"starting", "ready", "exited"},
     stores: [Runs -> {"none", "empty", "model", "tuples"}]]

\* A run asks nothing before its tuples are written.
NotAskedYet ==
    \A r \in Runs : pc[r] \in Stages \ {"check", "finally"} => asked[r] = 0

\* The count of failures is about the scenarios asked so far, and the model.
Tally ==
    \A r \in Runs :
        failures[r] <=> \E i \in 1 .. asked[r] : Answer[fga][i] # Expected[i]

\* Without docker there is no container.
NoDockerNoEngine == docker = "absent" => engine = None

IInv == TypeOK /\ NotAskedYet /\ Tally /\ NoDockerNoEngine /\ VerdictRight /\ CleanedUp

-----------------------------------------------------------------------------
USE LiveCheckAssumption

\* A new container is one of them, and its run's.
LEMMA Containers ==
    ASSUME NEW r \in Runs, NEW state \in {"starting", "ready", "exited"}
    PROVE  Container(r, state) \in Engines /\ Container(r, state).by = r
  BY DEF Container, Engines

\* The table and the answers to it are functions on the same scenarios.
LEMMA Tables ==
    ASSUME TypeOK
    PROVE  /\ Len(Expected) \in Nat \ {0}
           /\ Expected \in [1 .. Len(Expected) -> BOOLEAN]
           /\ Answer[fga] \in [1 .. Len(Expected) -> BOOLEAN]
  BY DEF TypeOK

\* The invariant holds at the start; each kind of step keeps it.
LEMMA InitInvariant == Init => IInv
<1> SUFFICES ASSUME Init PROVE IInv
  OBVIOUS
<1>1. TypeOK
  BY DEF Init, TypeOK, Stopped, Stages
<1>2. NotAskedYet /\ Tally
  BY <1>1, Tables DEF Init, NotAskedYet, Tally, Stages
<1> QED BY <1>1, <1>2 DEF Init, IInv, NoDockerNoEngine, VerdictRight, CleanedUp

\* A run that leaves main() without a verdict.
LEMMA LeaveKeeps ==
    ASSUME IInv, NEW r \in Runs, NEW v \in {"SKIP", "traceback"},
           pc[r] \in Stages, Leave(r, v)
    PROVE  IInv'
<1> USE DEF Leave, To, Report
<1>1. TypeOK'
  BY DEF IInv, TypeOK, Stages
<1>2. NotAskedYet' /\ Tally' /\ NoDockerNoEngine'
  BY DEF IInv, TypeOK, NotAskedYet, Tally, NoDockerNoEngine
<1>3. VerdictRight'
  BY DEF IInv, TypeOK, VerdictRight, Deserved
<1>4. CleanedUp'
  BY DEF IInv, TypeOK, CleanedUp
<1> QED BY <1>1, <1>2, <1>3, <1>4 DEF IInv

\* Steps that leave the tables, the counts and the verdicts alone.
LEMMA CountsKept ==
    ASSUME IInv, UNCHANGED <<fga, asked, failures, verdict>>
    PROVE  Tally' /\ VerdictRight'
  BY DEF IInv, Tally, VerdictRight, Deserved

LEMMA LaunchKeeps ==
    ASSUME IInv, NEW r \in Runs, Launch(r)
    PROVE  IInv'
<1> USE DEF Launch, To, Report, Remove
<1>1. TypeOK'
  <2>1. engine' \in {engine, None} /\ asked' = [asked EXCEPT ![r] = 0]
    OBVIOUS
  <2>2. 0 \in 0 .. Len(Expected) /\ 0 < Len(Expected)
    BY Tables DEF IInv
  <2>3. asked' \in [Runs -> 0 .. Len(Expected)]
        /\ \A q \in Runs : pc'[q] = "check" => asked'[q] < Len(Expected)
    BY <2>1, <2>2 DEF IInv, TypeOK
  <2>4. /\ pc' \in [Runs -> Stages \cup Stopped]
        /\ failures' \in [Runs -> BOOLEAN]
        /\ verdict' \in [Runs -> {None, "SKIP", "traceback", "PASS", "FAIL"}]
    BY DEF IInv, TypeOK, Stages, Stopped
  <2> QED BY <2>1, <2>3, <2>4 DEF IInv, TypeOK
<1>2. NotAskedYet'
  BY DEF IInv, TypeOK, NotAskedYet, Stages
<1>3. Tally'
  <2> SUFFICES ASSUME NEW q \in Runs
               PROVE  failures'[q] <=> \E i \in 1 .. asked'[q] : Answer[fga'][i] # Expected[i]
    BY DEF Tally
  <2>1. CASE q = r
    BY <2>1 DEF IInv, TypeOK
  <2>2. CASE q # r
    BY <2>2 DEF IInv, TypeOK, Tally
  <2> QED BY <2>1, <2>2
<1>4. NoDockerNoEngine' /\ VerdictRight'
  BY DEF IInv, TypeOK, NoDockerNoEngine, VerdictRight, Deserved
<1>5. CleanedUp'
  BY DEF IInv, TypeOK, NoDockerNoEngine, CleanedUp
<1> QED BY <1>1, <1>2, <1>3, <1>4, <1>5 DEF IInv

LEMMA TransformKeeps ==
    ASSUME IInv, NEW r \in Runs, Transform(r)
    PROVE  IInv'
<1>1. CASE Leave(r, "SKIP")
  BY <1>1, LeaveKeeps DEF Transform, Stages
<1>2. CASE pc[r] = "transform" /\ To(r, "boot")
           /\ UNCHANGED <<fga, docker, engine, asked, failures, verdict>>
  <2> USE <1>2 DEF To
  <2>1. TypeOK' /\ NotAskedYet' /\ NoDockerNoEngine' /\ CleanedUp'
    BY DEF IInv, TypeOK, Stages, NotAskedYet, NoDockerNoEngine, CleanedUp
  <2> QED BY <2>1, CountsKept DEF IInv
<1> QED BY <1>1, <1>2 DEF Transform

LEMMA BootKeeps ==
    ASSUME IInv, NEW r \in Runs, Boot(r)
    PROVE  IInv'
<1>1. CASE Leave(r, "SKIP")
  BY <1>1, LeaveKeeps DEF Boot, Stages
<1>2. CASE ~Leave(r, "SKIP")
  <2>1. /\ pc[r] = "boot" /\ docker = "up" /\ UNCHANGED <<fga, docker, asked, failures>>
        /\ \/ pc' = [pc EXCEPT ![r] = "wait"] /\ verdict' = verdict
           \/ /\ pc' = [pc EXCEPT ![r] = "finally"]
              /\ verdict' = [verdict EXCEPT ![r] = "SKIP"]
        /\ engine' = Container(r, "starting") \/ engine' = Container(r, "exited")
    BY <1>2 DEF Boot, To, Report
  <2>2. engine' \in Engines /\ engine'.by = r
    BY <2>1, Containers
  <2>3. TypeOK'
    BY <2>1, <2>2 DEF IInv, TypeOK, Stages, Engines
  <2>4. NotAskedYet'
    BY <2>1 DEF IInv, TypeOK, NotAskedYet, Stages
  <2>5. Tally' /\ NoDockerNoEngine'
    BY <2>1 DEF IInv, Tally, NoDockerNoEngine
  <2>6. VerdictRight'
    BY <2>1 DEF IInv, TypeOK, VerdictRight, Deserved
  <2>7. CleanedUp'
    BY <2>1, <2>2 DEF IInv, TypeOK, CleanedUp
  <2> QED BY <2>3, <2>4, <2>5, <2>6, <2>7 DEF IInv
<1> QED BY <1>1, <1>2

LEMMA WaitKeeps ==
    ASSUME IInv, NEW r \in Runs, Healthy(r) \/ Timeout(r)
    PROVE  IInv'
<1>1. CASE Timeout(r)
  BY <1>1, LeaveKeeps DEF Timeout, Stages
<1>2. CASE Healthy(r)
  <2> USE <1>2 DEF Healthy, To
  <2>1. TypeOK' /\ NotAskedYet' /\ NoDockerNoEngine' /\ CleanedUp'
    BY DEF IInv, TypeOK, Stages, NotAskedYet, NoDockerNoEngine, CleanedUp
  <2> QED BY <2>1, CountsKept DEF IInv
<1> QED BY <1>1, <1>2

LEMMA PostKeeps ==
    ASSUME IInv, NEW r \in Runs, Post(r)
    PROVE  IInv'
<1> USE DEF Post, To
<1>1. /\ pc[r] \in {"store", "model", "tuples"}
      /\ After[pc[r]] \in {"empty", "model", "tuples"}
      /\ NextStage[pc[r]] \in {"model", "tuples", "check"}
      /\ asked[r] = 0
  BY DEF After, NextStage, IInv, NotAskedYet, Stages
<1>2. engine # None /\ engine \in Engines
  BY DEF Known, Serving, IInv, TypeOK, Engines
<1>3. engine' \in Engines /\ engine'.by = engine.by
  BY <1>1, <1>2 DEF Engines
<1>4. TypeOK'
  <2>1. \A q \in Runs : pc'[q] = "check" => asked[q] < Len(Expected)
    BY <1>1, Tables DEF IInv, TypeOK
  <2>2. pc' \in [Runs -> Stages \cup Stopped]
    BY <1>1 DEF IInv, TypeOK, Stages
  <2> QED BY <1>3, <2>1, <2>2 DEF IInv, TypeOK, Engines
<1>5. NotAskedYet' /\ NoDockerNoEngine' /\ CleanedUp'
  BY <1>1, <1>2, <1>3 DEF IInv, TypeOK, NotAskedYet, NoDockerNoEngine, CleanedUp, Stages
<1> QED BY <1>4, <1>5, CountsKept DEF IInv

\* The verdict after the last scenario is the one the model deserves.
LEMMA AskKeeps ==
    ASSUME IInv, NEW r \in Runs, Ask(r)
    PROVE  IInv'
<1> DEFINE n == asked[r] + 1
           bad == failures[r] \/ Answer[fga][n] # Expected[n]
<1>1. /\ pc[r] = "check" /\ asked[r] \in Nat /\ n \in 1 .. Len(Expected)
      /\ asked' = [asked EXCEPT ![r] = n] /\ failures' = [failures EXCEPT ![r] = bad]
      /\ UNCHANGED <<fga, docker, engine>>
  BY Tables DEF Ask, Record, IInv, TypeOK
<1>2. bad <=> \E i \in 1 .. n : Answer[fga][i] # Expected[i]
  <2>1. \A i \in 1 .. n : i = n \/ i \in 1 .. asked[r]
    BY <1>1
  <2>2. 1 .. asked[r] \subseteq 1 .. n /\ n \in 1 .. n
    BY <1>1
  <2> QED BY <2>1, <2>2 DEF IInv, Tally
<1>3. \/ n < Len(Expected) /\ UNCHANGED <<pc, verdict>>
      \/ /\ n = Len(Expected) /\ pc' = [pc EXCEPT ![r] = "finally"]
         /\ verdict' = [verdict EXCEPT ![r] = IF bad THEN "FAIL" ELSE "PASS"]
  BY <1>1, Tables DEF Ask, Record, To, Report, IInv
<1>4. n = Len(Expected) => (bad <=> Answer[fga] # Expected)
  BY <1>2, Tables DEF IInv
<1>5. failures' \in [Runs -> BOOLEAN] /\ asked' \in [Runs -> 0 .. Len(Expected)]
  BY <1>1, <1>2, Tables DEF IInv, TypeOK
<1>6. TypeOK'
  <2>1. \A q \in Runs : pc'[q] = "check" => asked'[q] < Len(Expected)
    BY <1>1, <1>3, Tables DEF IInv, TypeOK
  <2> QED BY <1>1, <1>3, <1>5, <2>1 DEF IInv, TypeOK, Stages
<1>7. NotAskedYet'
  BY <1>1, <1>3 DEF IInv, TypeOK, NotAskedYet, Stages
<1>8. Tally'
  BY <1>1, <1>2 DEF IInv, TypeOK, Tally
<1>9. VerdictRight'
  BY <1>1, <1>3, <1>4 DEF IInv, TypeOK, VerdictRight, Deserved
<1>10. NoDockerNoEngine' /\ CleanedUp'
  BY <1>1, <1>3 DEF IInv, TypeOK, NoDockerNoEngine, CleanedUp
<1> QED BY <1>6, <1>7, <1>8, <1>9, <1>10 DEF IInv

LEMMA RequestFailsKeeps ==
    ASSUME IInv, NEW r \in Runs, RequestFails(r)
    PROVE  IInv'
<1>1. PICK v \in {"SKIP", "traceback"} : Leave(r, v)
  BY DEF RequestFails
<1>2. pc[r] \in Stages
  BY DEF RequestFails, Before, Stages
<1> QED BY <1>1, <1>2, LeaveKeeps

LEMMA FinallyKeeps ==
    ASSUME IInv, NEW r \in Runs, Finally(r)
    PROVE  IInv'
<1> USE DEF Finally, To, Remove
<1>1. TypeOK' /\ NotAskedYet' /\ NoDockerNoEngine' /\ CleanedUp'
  BY DEF IInv, TypeOK, Stages, Stopped, NotAskedYet, NoDockerNoEngine, CleanedUp
<1> QED BY <1>1, CountsKept DEF IInv

\* Kills, servers and the daemon.
LEMMA EnvironmentKeeps ==
    ASSUME IInv, \/ EngineReady \/ EngineDies \/ DaemonStops \/ DaemonStarts
                 \/ \E r \in Runs : Kill(r)
    PROVE  IInv'
<1> USE DEF EngineReady, EngineDies, DaemonStops, DaemonStarts, Kill, To
<1>1. TypeOK'
  <2>1. engine' \in {None} \cup Engines
    <3>1. engine \in {None} \cup Engines
      BY DEF IInv, TypeOK, Engines
    <3>2. Halted \in {None} \cup Engines
      BY <3>1, Containers DEF Halted, Engines
    <3>3. engine # None => [engine EXCEPT !.state = "ready"] \in Engines
      BY <3>1 DEF Engines
    <3> QED BY <3>1, <3>2, <3>3
  <2>2. pc' \in [Runs -> Stages \cup Stopped] /\ \A q \in Runs : pc'[q] = "check" => pc[q] = "check"
    BY DEF IInv, TypeOK, Stopped
  <2> QED BY <2>1, <2>2 DEF IInv, TypeOK, Engines
<1>2. NotAskedYet'
  BY DEF IInv, TypeOK, NotAskedYet, Stages
<1>3. NoDockerNoEngine'
  BY DEF IInv, TypeOK, NoDockerNoEngine, Halted
<1>4. CleanedUp'
  <2>1. \A q \in Runs : pc'[q] = "ended" => pc[q] = "ended"
    BY DEF IInv, TypeOK
  <2>2. engine' # None => engine # None /\ engine'.by = engine.by /\ engine.by \in Runs
    BY DEF Halted, Container, IInv, TypeOK
  <2> QED BY <2>1, <2>2 DEF IInv, CleanedUp
<1> QED BY <1>1, <1>2, <1>3, <1>4, CountsKept DEF IInv

LEMMA StepInvariant == IInv /\ [Next]_vars => IInv'
<1> SUFFICES ASSUME IInv, [Next]_vars PROVE IInv'
  OBVIOUS
<1>1. CASE UNCHANGED vars
  BY <1>1 DEF vars, IInv, TypeOK, NotAskedYet, Tally, NoDockerNoEngine, VerdictRight,
              Deserved, CleanedUp
<1>2. CASE \/ EngineReady \/ EngineDies \/ DaemonStops \/ DaemonStarts
           \/ \E r \in Runs : Kill(r)
  BY <1>2, EnvironmentKeeps
<1>3. ASSUME NEW r \in Runs, Launch(r) PROVE IInv'
  BY <1>3, LaunchKeeps
<1>4. ASSUME NEW r \in Runs, Step(r) PROVE IInv'
  BY <1>4, TransformKeeps, BootKeeps, WaitKeeps, PostKeeps, AskKeeps, RequestFailsKeeps,
     FinallyKeeps DEF Step
<1> QED BY <1>1, <1>2, <1>3, <1>4 DEF Next

LEMMA Invariance == Spec => []IInv
  BY InitInvariant, StepInvariant, PTL DEF Spec

\* The types, for any number of runs and any table: no run asks past its table.
THEOREM TypeCorrect == Spec => []TypeOK
<1>1. IInv => TypeOK
  BY DEF IInv
<1> QED BY <1>1, Invariance, PTL

\* However the runs take the container and the port from each other, and
\* whatever dies meanwhile, a run prints the verdict that model.fga deserves by
\* the table of scenarios, or none.
THEOREM VerdictsAreRight == Spec => []VerdictRight
<1>1. IInv => VerdictRight
  BY DEF IInv
<1> QED BY <1>1, Invariance, PTL

\* The container that is there belongs to no run that ended with docker at hand.
THEOREM NothingIsLeft == Spec => []CleanedUp
<1>1. IInv => CleanedUp
  BY DEF IInv
<1> QED BY <1>1, Invariance, PTL

-----------------------------------------------------------------------------
\* Who has a stored relation to an object, and to any.
LEMMA StoredMeaning ==
    ASSUME NEW tuples
    PROVE  /\ \A relation, object, user : user \in Direct(tuples, relation, object)
                 <=> \E t \in tuples : t[1] = user /\ t[2] = relation /\ t[3] = object
           /\ \A relation, user : user \in Anywhere(tuples, relation)
                 <=> \E t \in tuples : t[1] = user /\ t[2] = relation
           /\ \A relation, edge, object, user : user \in From(tuples, relation, edge, object)
                 <=> \E via \in Direct(tuples, edge, object) : user \in Direct(tuples, relation, via)
  BY DEF Direct, Anywhere, From

\* How a user stands towards an account: which of the three terms hold.
LEMMA AccountTerms ==
    ASSUME NEW tuples, NEW user, NEW object, NEW relation \in {"can_view", "can_transfer"}
    PROVE  /\ Standing(tuples, user, relation, object)
                 \subseteq {"owner", "delegate from owner", "delegate"}
           /\ "owner" \in Standing(tuples, user, relation, object)
                 <=> user \in Direct(tuples, "owner", object)
           /\ "delegate from owner" \in Standing(tuples, user, relation, object)
                 <=> user \in From(tuples, "delegate", "owner", object)
           /\ "delegate" \in Standing(tuples, user, relation, object)
                 <=> user \in Anywhere(tuples, "delegate")
<1>1. /\ TermsOf["can_view"] = {"owner", "delegate from owner", "delegate"}
      /\ TermsOf["can_transfer"] = {"owner", "delegate from owner", "delegate"}
  BY DEF TermsOf
<1>2. TermsOf[relation] = {"owner", "delegate from owner", "delegate"}
  BY <1>1
<1>3. /\ Related(tuples, "owner", object) = Direct(tuples, "owner", object)
      /\ Related(tuples, "delegate from owner", object)
           = From(tuples, "delegate", "owner", object)
      /\ Related(tuples, "delegate", object) = Anywhere(tuples, "delegate")
  BY DEF Related
<1> QED BY <1>2, <1>3 DEF Standing

\* The same of a workload.
LEMMA WorkloadTerms ==
    ASSUME NEW tuples, NEW user, NEW object
    PROVE  /\ Standing(tuples, user, "can_admin", object)
                 \subseteq {"operator", "member from owner_team", "member"}
           /\ "operator" \in Standing(tuples, user, "can_admin", object)
                 <=> user \in Direct(tuples, "operator", object)
           /\ "member from owner_team" \in Standing(tuples, user, "can_admin", object)
                 <=> user \in From(tuples, "member", "owner_team", object)
           /\ "member" \in Standing(tuples, user, "can_admin", object)
                 <=> user \in Anywhere(tuples, "member")
<1>1. TermsOf["can_admin"] = {"operator", "member from owner_team", "member"}
  BY DEF TermsOf
<1>2. /\ Related(tuples, "operator", object) = Direct(tuples, "operator", object)
      /\ Related(tuples, "member from owner_team", object)
           = From(tuples, "member", "owner_team", object)
      /\ Related(tuples, "member", object) = Anywhere(tuples, "member")
  BY DEF Related
<1> QED BY <1>1, <1>2 DEF Standing

\* The standing of a user towards an account, in a store that is typed, is one
\* of four, and towards a workload one that the terms' meaning allows.
LEMMA AccountStandings ==
    ASSUME NEW tuples, Typed(tuples), NEW user, NEW object,
           NEW relation \in {"can_view", "can_transfer"}
    PROVE  Standing(tuples, user, relation, object)
             \in {{}, {"owner"}, {"delegate"}, {"delegate from owner", "delegate"}}
<1> DEFINE st == Standing(tuples, user, relation, object)
<1>1. /\ st \subseteq {"owner", "delegate from owner", "delegate"}
      /\ "owner" \in st <=> user \in Direct(tuples, "owner", object)
      /\ "delegate from owner" \in st <=> user \in From(tuples, "delegate", "owner", object)
      /\ "delegate" \in st <=> user \in Anywhere(tuples, "delegate")
  BY AccountTerms
<1> HIDE DEF st
<1>2. ASSUME "delegate from owner" \in st PROVE "delegate" \in st
  <2>1. PICK via \in Direct(tuples, "owner", object) : user \in Direct(tuples, "delegate", via)
    BY <1>1, <1>2 DEF From
  <2>2. PICK t \in tuples : t[1] = user /\ t[2] = "delegate"
    BY <2>1 DEF Direct
  <2>3. user \in Anywhere(tuples, "delegate")
    BY <2>2 DEF Anywhere
  <2> QED BY <1>1, <2>3
<1>3. ASSUME "owner" \in st, "delegate" \in st PROVE FALSE
  <2>1. PICK t \in tuples : t[1] = user /\ t[2] = "owner"
    BY <1>1, <1>3 DEF Direct
  <2>2. PICK u \in tuples : u[1] = user /\ u[2] = "delegate"
    BY <1>1, <1>3 DEF Anywhere
  <2> QED BY <2>1, <2>2 DEF Typed
<1>4. CASE "owner" \in st
  <2>1. st = {"owner"}
    BY <1>1, <1>2, <1>3, <1>4
  <2> QED BY <2>1 DEF st
<1>5. CASE "delegate from owner" \in st
  <2>1. st = {"delegate from owner", "delegate"}
    BY <1>1, <1>2, <1>3, <1>5
  <2> QED BY <2>1 DEF st
<1>6. CASE "delegate from owner" \notin st /\ "owner" \notin st
  <2>1. st = {"delegate"} \/ st = {}
    BY <1>1, <1>6
  <2> QED BY <2>1 DEF st
<1> QED BY <1>4, <1>5, <1>6

\* The tuples of the script, one by one.
LEMMA TableTuples ==
    ASSUME NEW user, NEW relation, NEW object
    PROVE  user \in Direct(TUPLES, relation, object) <=>
             <<user, relation, object>> \in TUPLES
<1>1. \A t \in TUPLES : t = <<t[1], t[2], t[3]>>
  BY DEF TUPLES
<1>2. ASSUME user \in Direct(TUPLES, relation, object)
      PROVE  <<user, relation, object>> \in TUPLES
  <2>1. PICK t \in TUPLES : t[1] = user /\ t[2] = relation /\ t[3] = object
    BY <1>2 DEF Direct
  <2>2. t = <<user, relation, object>>
    BY <1>1, <2>1
  <2> QED BY <2>1, <2>2
<1>3. ASSUME <<user, relation, object>> \in TUPLES
      PROVE  user \in Direct(TUPLES, relation, object)
  <2> DEFINE t == <<user, relation, object>>
  <2>1. t \in TUPLES /\ t[1] = user /\ t[2] = relation /\ t[3] = object
    BY <1>3
  <2> QED BY <2>1 DEF Direct
<1> QED BY <1>2, <1>3

\* How the people of the scenarios stand, by the script's own tuples.
LEMMA TableStandings ==
    /\ \A relation \in {"can_view", "can_transfer"} :
           /\ Standing(TUPLES, "alice", relation, "acct-alice") = {"owner"}
           /\ Standing(TUPLES, "assistant", relation, "acct-alice")
                = {"delegate from owner", "delegate"}
           /\ Standing(TUPLES, "assistant", relation, "acct-bob") = {"delegate"}
           /\ Standing(TUPLES, "carol", relation, "acct-alice") = {}
    /\ Standing(TUPLES, "bob", "can_admin", "billing-job") = {"member from owner_team", "member"}
    /\ Standing(TUPLES, "alice", "can_admin", "billing-job") = {}
<1>1. /\ Direct(TUPLES, "owner", "acct-alice") = {"alice"}
      /\ Direct(TUPLES, "owner", "acct-bob") = {"bob"}
      /\ Direct(TUPLES, "delegate", "alice") = {"assistant"}
      /\ Direct(TUPLES, "delegate", "bob") = {}
      /\ Direct(TUPLES, "operator", "billing-job") = {}
      /\ Direct(TUPLES, "owner_team", "billing-job") = {"payments"}
      /\ Direct(TUPLES, "member", "payments") = {"bob"}
  <2>1. Direct(TUPLES, "owner", "acct-alice") = {"alice"}
    BY TableTuples DEF TUPLES
  <2>2. Direct(TUPLES, "owner", "acct-bob") = {"bob"}
    BY TableTuples DEF TUPLES
  <2>3. Direct(TUPLES, "delegate", "alice") = {"assistant"}
    BY TableTuples DEF TUPLES
  <2>4. Direct(TUPLES, "delegate", "bob") = {}
    BY TableTuples DEF TUPLES
  <2>5. Direct(TUPLES, "operator", "billing-job") = {}
    BY TableTuples DEF TUPLES
  <2>6. Direct(TUPLES, "owner_team", "billing-job") = {"payments"}
    BY TableTuples DEF TUPLES
  <2>7. Direct(TUPLES, "member", "payments") = {"bob"}
    BY TableTuples DEF TUPLES
  <2> QED BY <2>1, <2>2, <2>3, <2>4, <2>5, <2>6, <2>7
<1>2. /\ From(TUPLES, "delegate", "owner", "acct-alice") = {"assistant"}
      /\ From(TUPLES, "delegate", "owner", "acct-bob") = {}
      /\ From(TUPLES, "member", "owner_team", "billing-job") = {"bob"}
  BY <1>1 DEF From
<1>3. /\ Anywhere(TUPLES, "delegate") = {"assistant"}
      /\ Anywhere(TUPLES, "member") = {"bob"}
  <2>1. ASSUME NEW user, NEW relation
        PROVE  user \in Anywhere(TUPLES, relation)
                 <=> \E object : user \in Direct(TUPLES, relation, object)
    BY DEF Anywhere, Direct
  <2>2. ASSUME NEW user, NEW relation
        PROVE  user \in Anywhere(TUPLES, relation)
                 <=> \E object : <<user, relation, object>> \in TUPLES
    BY <2>1, TableTuples
  <2>3. Anywhere(TUPLES, "delegate") = {"assistant"}
    BY <2>2 DEF TUPLES
  <2>4. Anywhere(TUPLES, "member") = {"bob"}
    BY <2>2 DEF TUPLES
  <2> QED BY <2>3, <2>4
<1>4. ASSUME NEW relation \in {"can_view", "can_transfer"}
      PROVE  /\ Standing(TUPLES, "alice", relation, "acct-alice") = {"owner"}
             /\ Standing(TUPLES, "assistant", relation, "acct-alice")
                  = {"delegate from owner", "delegate"}
             /\ Standing(TUPLES, "assistant", relation, "acct-bob") = {"delegate"}
             /\ Standing(TUPLES, "carol", relation, "acct-alice") = {}
  <2>1. Standing(TUPLES, "alice", relation, "acct-alice") = {"owner"}
    <3> DEFINE st == Standing(TUPLES, "alice", relation, "acct-alice")
    <3>1. /\ st \subseteq {"owner", "delegate from owner", "delegate"}
          /\ "owner" \in st <=> "alice" \in Direct(TUPLES, "owner", "acct-alice")
          /\ "delegate from owner" \in st
               <=> "alice" \in From(TUPLES, "delegate", "owner", "acct-alice")
          /\ "delegate" \in st <=> "alice" \in Anywhere(TUPLES, "delegate")
      BY AccountTerms
    <3> QED BY <1>1, <1>2, <1>3, <3>1
  <2>2. Standing(TUPLES, "assistant", relation, "acct-alice") = {"delegate from owner", "delegate"}
    <3> DEFINE st == Standing(TUPLES, "assistant", relation, "acct-alice")
    <3>1. /\ st \subseteq {"owner", "delegate from owner", "delegate"}
          /\ "owner" \in st <=> "assistant" \in Direct(TUPLES, "owner", "acct-alice")
          /\ "delegate from owner" \in st
               <=> "assistant" \in From(TUPLES, "delegate", "owner", "acct-alice")
          /\ "delegate" \in st <=> "assistant" \in Anywhere(TUPLES, "delegate")
      BY AccountTerms
    <3> QED BY <1>1, <1>2, <1>3, <3>1
  <2>3. Standing(TUPLES, "assistant", relation, "acct-bob") = {"delegate"}
    <3> DEFINE st == Standing(TUPLES, "assistant", relation, "acct-bob")
    <3>1. /\ st \subseteq {"owner", "delegate from owner", "delegate"}
          /\ "owner" \in st <=> "assistant" \in Direct(TUPLES, "owner", "acct-bob")
          /\ "delegate from owner" \in st
               <=> "assistant" \in From(TUPLES, "delegate", "owner", "acct-bob")
          /\ "delegate" \in st <=> "assistant" \in Anywhere(TUPLES, "delegate")
      BY AccountTerms
    <3> QED BY <1>1, <1>2, <1>3, <3>1
  <2>4. Standing(TUPLES, "carol", relation, "acct-alice") = {}
    <3> DEFINE st == Standing(TUPLES, "carol", relation, "acct-alice")
    <3>1. /\ st \subseteq {"owner", "delegate from owner", "delegate"}
          /\ "owner" \in st <=> "carol" \in Direct(TUPLES, "owner", "acct-alice")
          /\ "delegate from owner" \in st
               <=> "carol" \in From(TUPLES, "delegate", "owner", "acct-alice")
          /\ "delegate" \in st <=> "carol" \in Anywhere(TUPLES, "delegate")
      BY AccountTerms
    <3> QED BY <1>1, <1>2, <1>3, <3>1
  <2> QED BY <2>1, <2>2, <2>3, <2>4
<1>5. Standing(TUPLES, "bob", "can_admin", "billing-job") = {"member from owner_team", "member"}
  <2> DEFINE st == Standing(TUPLES, "bob", "can_admin", "billing-job")
  <2>1. /\ st \subseteq {"operator", "member from owner_team", "member"}
        /\ "operator" \in st <=> "bob" \in Direct(TUPLES, "operator", "billing-job")
        /\ "member from owner_team" \in st
             <=> "bob" \in From(TUPLES, "member", "owner_team", "billing-job")
        /\ "member" \in st <=> "bob" \in Anywhere(TUPLES, "member")
    BY WorkloadTerms
  <2> QED BY <1>1, <1>2, <1>3, <2>1
<1>6. Standing(TUPLES, "alice", "can_admin", "billing-job") = {}
  <2> DEFINE st == Standing(TUPLES, "alice", "can_admin", "billing-job")
  <2>1. /\ st \subseteq {"operator", "member from owner_team", "member"}
        /\ "operator" \in st <=> "alice" \in Direct(TUPLES, "operator", "billing-job")
        /\ "member from owner_team" \in st
             <=> "alice" \in From(TUPLES, "member", "owner_team", "billing-job")
        /\ "member" \in st <=> "alice" \in Anywhere(TUPLES, "member")
    BY WorkloadTerms
  <2> QED BY <1>1, <1>2, <1>3, <2>1
<1> QED BY <1>4, <1>5, <1>6

\* A model that passes answers for each of those standings as it should.
LEMMA PassedStandings ==
    ASSUME NEW m \in Models, Answer[m] = Expected
    PROVE  /\ \A relation \in {"can_view", "can_transfer"} :
                  /\ {"owner"} \in m[relation]
                  /\ {"delegate from owner", "delegate"} \in m[relation]
                  /\ {"delegate"} \notin m[relation] /\ {} \notin m[relation]
           /\ {"member from owner_team", "member"} \in m["can_admin"] /\ {} \notin m["can_admin"]
<1>1. DOMAIN SCENARIOS = 1 .. 11
  BY DEF SCENARIOS
<1>2. ASSUME NEW i \in 1 .. 11
      PROVE  Check(m, TUPLES, SCENARIOS[i].user, SCENARIOS[i].relation, SCENARIOS[i].object)
               = SCENARIOS[i].expected
  BY <1>1, <1>2, LiveModelAssumption DEF TableExpected, TableAnswer
<1>3. /\ Check(m, TUPLES, "alice", "can_view", "acct-alice")
      /\ Check(m, TUPLES, "alice", "can_transfer", "acct-alice")
      /\ Check(m, TUPLES, "assistant", "can_view", "acct-alice")
      /\ Check(m, TUPLES, "assistant", "can_transfer", "acct-alice")
      /\ ~Check(m, TUPLES, "assistant", "can_view", "acct-bob")
      /\ ~Check(m, TUPLES, "assistant", "can_transfer", "acct-bob")
      /\ ~Check(m, TUPLES, "carol", "can_view", "acct-alice")
      /\ ~Check(m, TUPLES, "carol", "can_transfer", "acct-alice")
      /\ Check(m, TUPLES, "bob", "can_admin", "billing-job")
      /\ ~Check(m, TUPLES, "alice", "can_admin", "billing-job")
  BY <1>2 DEF SCENARIOS, Scenario
<1> QED BY <1>3, TableStandings DEF Check

\* can_view of a store, by the standing.
LEMMA ViewersByStanding ==
    ASSUME NEW tuples, NEW user, NEW object, NEW relation \in {"can_view", "can_transfer"}
    PROVE  user \in Viewers(tuples, object)
             <=> Standing(tuples, user, relation, object) \cap {"owner", "delegate from owner"} # {}
<1> DEFINE st == Standing(tuples, user, relation, object)
<1>1. /\ "owner" \in st <=> user \in Direct(tuples, "owner", object)
      /\ "delegate from owner" \in st <=> user \in From(tuples, "delegate", "owner", object)
  BY AccountTerms
<1> HIDE DEF st
<1>2. st \cap {"owner", "delegate from owner"} # {} <=> user \in Viewers(tuples, object)
  BY <1>1 DEF Viewers
<1> QED BY <1>2 DEF st

LEMMA OperatorsByStanding ==
    ASSUME NEW tuples, NEW user, NEW object
    PROVE  user \in Operators(tuples, object)
             <=> Standing(tuples, user, "can_admin", object)
                   \cap {"operator", "member from owner_team"} # {}
<1> DEFINE st == Standing(tuples, user, "can_admin", object)
<1>1. /\ "operator" \in st <=> user \in Direct(tuples, "operator", object)
      /\ "member from owner_team" \in st <=> user \in From(tuples, "member", "owner_team", object)
  BY WorkloadTerms
<1> HIDE DEF st
<1>2. st \cap {"operator", "member from owner_team"} # {} <=> user \in Operators(tuples, object)
  BY <1>1 DEF Operators
<1> QED BY <1>2 DEF st

\* From the few questions of the table to every question.
THEOREM PassIsForAllData == Spec => []PassMeansCanonical
<1>1. ASSUME TypeOK, VerdictRight PROVE PassMeansCanonical
  <2> SUFFICES ASSUME NEW r \in Runs, verdict[r] = "PASS", NEW tuples \in Stores,
                      NEW user \in Names, NEW object \in Names
               PROVE  /\ \A relation \in {"can_view", "can_transfer"} :
                             Check(fga, tuples, user, relation, object)
                                 <=> user \in Viewers(tuples, object)
                      /\ Standing(tuples, user, "can_admin", object)
                             \in {{}, {"member from owner_team", "member"}}
                           => (Check(fga, tuples, user, "can_admin", object)
                                   <=> user \in Operators(tuples, object))
    BY DEF PassMeansCanonical
  <2>1. fga \in Models /\ Answer[fga] = Expected
    <3>1. verdict[r] \in {None, "SKIP", "traceback", Deserved}
      BY <1>1 DEF VerdictRight
    <3>2. Deserved = "PASS"
      BY <3>1, LiveModelAssumption
    <3>3. fga \in Models
      BY <1>1 DEF TypeOK
    <3> QED BY <3>2, <3>3 DEF Deserved
  <2>2. ASSUME NEW relation \in {"can_view", "can_transfer"}
        PROVE  Check(fga, tuples, user, relation, object) <=> user \in Viewers(tuples, object)
    <3> DEFINE st == Standing(tuples, user, relation, object)
    <3>1. st \in {{}, {"owner"}, {"delegate"}, {"delegate from owner", "delegate"}}
      BY AccountStandings, LiveModelAssumption
    <3>2. /\ {"owner"} \in fga[relation] /\ {"delegate from owner", "delegate"} \in fga[relation]
          /\ {"delegate"} \notin fga[relation] /\ {} \notin fga[relation]
      BY <2>1, PassedStandings
    <3>3. user \in Viewers(tuples, object) <=> st \cap {"owner", "delegate from owner"} # {}
      BY ViewersByStanding
    <3> HIDE DEF st
    <3>4. st \in fga[relation] <=> st \cap {"owner", "delegate from owner"} # {}
      BY <3>1, <3>2
    <3> QED BY <3>3, <3>4 DEF Check, st
  <2>3. ASSUME Standing(tuples, user, "can_admin", object)
                 \in {{}, {"member from owner_team", "member"}}
        PROVE  Check(fga, tuples, user, "can_admin", object) <=> user \in Operators(tuples, object)
    <3> DEFINE st == Standing(tuples, user, "can_admin", object)
    <3>1. {"member from owner_team", "member"} \in fga["can_admin"] /\ {} \notin fga["can_admin"]
      BY <2>1, PassedStandings
    <3>2. user \in Operators(tuples, object) <=> st \cap {"operator", "member from owner_team"} # {}
      BY OperatorsByStanding
    <3>3. st \in {{}, {"member from owner_team", "member"}}
      BY <2>3
    <3> HIDE DEF st
    <3>4. st \in fga["can_admin"] <=> st \cap {"operator", "member from owner_team"} # {}
      BY <3>1, <3>3
    <3> QED BY <3>2, <3>4 DEF Check, st
  <2> QED BY <2>2, <2>3
<1> QED BY <1>1, TypeCorrect, VerdictsAreRight, PTL

=============================================================================
