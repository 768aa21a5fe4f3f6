--------------------------- MODULE WorkbenchProofs ---------------------------
(***************************************************************************)
(* Proofs about a clone of the repository.  Workbench: what progress.py    *)
(* shows of a module is earned or has a cause, whatever is edited and      *)
(* whatever docker does while a grader runs.  Review: what the guards and  *)
(* the lint pass is what RBAC, ArgoCD and the readers of the reports take  *)
(* it for, and a README is served without its answers, for any proposals.  *)
(***************************************************************************)
EXTENDS Workbench, Review, FiniteSetTheorems, FunctionTheorems, SequenceTheorems,
        WellFoundedInduction, TLAPS

AnyContent == {"poor", "core", "copy", "hidden", "right"}
AnyDocker == {"absent", "down", "up"}
Failures == {"checker", "container", "daemon"}
Lefts == {SubSeq(Progress, i, 4) : i \in 1 .. 5} \cup {<<m>> : m \in NOCLUSTER}
Jobs == [caller : {"terminal", "tutor"}, program : {"progress", "grade", "hint"}, left : Lefts]

\* What every variable holds.
Sorts ==
    /\ work \in [Parts -> AnyContent] /\ been \in [Parts -> SUBSET AnyContent]
    /\ \A p \in Parts : work[p] \in Contents(p) /\ been[p] \subseteq Contents(p)
    /\ docker \in AnyDocker /\ installed \in BOOLEAN
    /\ happened \subseteq AnyDocker \cup Failures
    /\ orphan \in BOOLEAN
    /\ job # None => job \in Jobs
    /\ reply \in {None, "unknown", "cluster", "no hint", "no spec", "text", "refused",
                  "output", "failed"}

\* A grader has a job and has printed nothing; the history includes the present.
Underway ==
    grader # None =>
        /\ job # None /\ job.left # <<>> /\ said = None
        /\ docker \in happened
        /\ \A p \in PartsOf[Module] : work[p] \in been[p]

\* What a grader found so far, it found in the history.
SoFar ==
    /\ At("m0", "compare") =>
           IF grader.rc = 0 THEN been["policies"] \cap Suites # {}
           ELSE ~(been["policies"] \subseteq {"right"})
    /\ At("m6", "docker") \/ At("m6", "model") =>
           IF grader.rc = 0 THEN "right" \in been["agent"]
           ELSE ~installed \/ ~(been["agent"] \subseteq {"right"})
    /\ At("m6", "model") => "up" \in happened

\* A docker run failed, of a docker that had answered.
Broke == "up" \in happened /\ happened \cap {"container", "daemon"} # {}

Marks == DoneEarned /\ TodoHasCause /\ MarkAgrees
Kept == Sorts /\ Underway /\ SoFar /\ Marks

-----------------------------------------------------------------------------
\* The parts, and what is right for each.
LEMMA PartFacts ==
    /\ Parts = {"policies", "workload", "agent", "model"}
    /\ DOMAIN PartsOf = {"m0", "m1", "m6", "m7"}
    /\ PartsOf["m0"] = {"policies"} /\ PartsOf["m1"] = {"workload"}
    /\ PartsOf["m6"] = {"agent", "model"} /\ PartsOf["m7"] = {}
<1>1. DOMAIN PartsOf = {"m0", "m1", "m6", "m7"}
  BY DEF PartsOf
<1>2. /\ PartsOf["m0"] = {"policies"} /\ PartsOf["m1"] = {"workload"}
      /\ PartsOf["m6"] = {"agent", "model"} /\ PartsOf["m7"] = {}
  BY DEF PartsOf
<1>3. Parts = PartsOf["m0"] \cup PartsOf["m1"] \cup PartsOf["m6"] \cup PartsOf["m7"]
  BY <1>1 DEF Parts
<1> QED BY <1>1, <1>2, <1>3

\* What each part may hold, and which of it is right.
LEMMA ContentFacts ==
    /\ \A p \in Parts : Contents(p) \subseteq AnyContent /\ {"poor", "right"} \subseteq Contents(p)
    /\ Contents("policies") = {"poor", "core", "copy", "right"}
    /\ Contents("workload") = {"poor", "hidden", "right"}
    /\ Contents("agent") = {"poor", "right"} /\ Contents("model") = {"poor", "right"}
    /\ Right("policies") = {"right"} /\ Right("workload") = {"hidden", "right"}
    /\ Right("agent") = {"right"} /\ Right("model") = {"right"}
  BY PartFacts DEF Contents, Right, AnyContent

\* The modules left to a job lose their head.
LEMMA LeftFacts ==
    /\ Progress \in Lefts
    /\ \A m \in NOCLUSTER : <<m>> \in Lefts
    /\ \A q \in Lefts : q # <<>> => Head(q) \in NOCLUSTER /\ Tail(q) \in Lefts
<1>1. /\ Progress \in Seq({"m0", "m1", "m6", "m7"}) /\ Len(Progress) = 4
      /\ NOCLUSTER = {"m0", "m1", "m6", "m7"}
  <2>1. NOCLUSTER = {"m0", "m1", "m6", "m7"}
    BY WorkbenchAssumption, PartFacts
  <2>2. Len(Progress) = 4 /\ Progress \in Seq({"m0", "m1", "m6", "m7"})
    BY DEF Progress
  <2> QED BY <2>1, <2>2
<1>2. SubSeq(Progress, 1, 4) = Progress /\ SubSeq(Progress, 5, 4) = <<>>
  BY <1>1, SubSeqFull, SubSeqEmpty
<1>3. ASSUME NEW i \in 1 .. 4
      PROVE  /\ Head(SubSeq(Progress, i, 4)) = Progress[i]
             /\ Tail(SubSeq(Progress, i, 4)) = SubSeq(Progress, i + 1, 4)
  BY <1>1, HeadTailOfSubSeq
<1>4. \A i \in 1 .. 4 : Progress[i] \in NOCLUSTER
  BY <1>1 DEF Progress
<1>5. ASSUME NEW q \in Lefts, q # <<>> PROVE Head(q) \in NOCLUSTER /\ Tail(q) \in Lefts
  <2>1. CASE q \in {<<m>> : m \in NOCLUSTER}
    BY <2>1, <1>2 DEF Lefts
  <2>2. ASSUME NEW i \in 1 .. 5, q = SubSeq(Progress, i, 4)
        PROVE  Head(q) \in NOCLUSTER /\ Tail(q) \in Lefts
    <3>1. i \in 1 .. 4
      BY <2>2, <1>2, <1>5
    <3> QED BY <2>2, <3>1, <1>3, <1>4 DEF Lefts
  <2> QED BY <1>5, <2>1, <2>2 DEF Lefts
<1> QED BY <1>2, <1>5 DEF Lefts

\* At first no grader runs and nothing is shown.
LEMMA InitKept == Init => Kept
<1> SUFFICES ASSUME Init PROVE Kept
  OBVIOUS
<1>1. Sorts
  BY PartFacts, ContentFacts DEF Init, Sorts, Nothing, AnyContent, AnyDocker
<1> QED
  BY <1>1 DEF Init, Kept, Underway, SoFar, At, Marks, DoneEarned, TodoHasCause, MarkAgrees, Marked

-----------------------------------------------------------------------------
\* Nothing printed, no grader: there is nothing to show.
LEMMA QuietKept ==
    ASSUME Sorts', grader' = None, said' = None
    PROVE  Kept'
  BY DEF Kept, Underway, SoFar, At, Marks, DoneEarned, TodoHasCause, MarkAgrees, Marked

\* The learner and the daemon only add to the history of a grader underway.
LEMMA EditKept ==
    ASSUME Kept, NEW p \in Parts, NEW c \in Contents(p), Edit(p, c)
    PROVE  Kept'
<1> USE DEF Kept, Edit
<1>1. Sorts'
  BY ContentFacts DEF Sorts
<1>2. \A q \in Parts : been[q] \subseteq been'[q]
  BY DEF Sorts
<1>3. CASE grader = None
  BY <1>1, <1>3 DEF Underway, SoFar, At, Marks, DoneEarned, TodoHasCause, MarkAgrees, Marked
<1>4. CASE grader # None
  <2>1. Module \in DOMAIN PartsOf /\ PartsOf[Module] \subseteq Parts
    BY <1>4, LeftFacts, PartFacts, WorkbenchAssumption DEF Underway, Sorts, Jobs, Module
  <2>2. Underway'
    BY <1>4, <2>1 DEF Underway, Sorts, Module
  <2>3. SoFar'
    BY <1>2, <1>4, PartFacts DEF SoFar, At, Module, Suites
  <2>4. said' = None
    BY <1>4 DEF Underway
  <2> QED
    BY <1>1, <2>2, <2>3, <2>4 DEF Marks, DoneEarned, TodoHasCause, MarkAgrees, Marked
<1> QED BY <1>3, <1>4

\* The daemon comes and goes; the history of a grader underway keeps it.
LEMMA DaemonKept ==
    ASSUME Kept, Daemon
    PROVE  Kept'
<1> USE DEF Kept, Daemon
<1>1. Sorts' /\ happened \subseteq happened'
  BY DEF Sorts, AnyDocker
<1>2. CASE grader = None
  BY <1>1, <1>2 DEF Underway, SoFar, At, Marks, DoneEarned, TodoHasCause, MarkAgrees, Marked
<1>3. CASE grader # None
  <2>1. Underway' /\ SoFar'
    BY <1>1, <1>3 DEF Underway, SoFar, At, Module, Suites
  <2> QED
    BY <1>1, <1>3, <2>1 DEF Underway, Marks, DoneEarned, TodoHasCause, MarkAgrees, Marked
<1> QED BY <1>2, <1>3

\* A call that starts, is answered at once, ends or runs out of time.
LEMMA CallKept ==
    ASSUME Kept,
           \/ \E caller \in {"terminal", "tutor"} : ListProgress(caller)
           \/ \E m \in NOCLUSTER : Grade(m) \/ Hint(m)
           \/ \E a \in {"unknown", "cluster", "no hint", "no spec", "text", "refused"} : Answer(a)
           \/ CallTimeout \/ OrphanEnds \/ EndJob
    PROVE  Kept'
<1> USE DEF Kept
<1>1. ASSUME NEW caller \in {"terminal", "tutor"}, NEW program \in {"progress", "grade", "hint"},
             NEW left \in Lefts, Run(caller, program, left)
      PROVE  Kept'
  <2>1. grader' = None /\ said' = None
    BY <1>1 DEF Run, Underway
  <2>2. Sorts'
    BY <1>1 DEF Run, Sorts, Jobs, history
  <2> QED BY <2>1, <2>2, QuietKept
<1>2. ASSUME NEW a \in {"unknown", "cluster", "no hint", "no spec", "text", "refused"}, Answer(a)
      PROVE  Kept'
  <2>1. Sorts'
    BY <1>2 DEF Answer, Sorts, history
  <2>2. grader = None
    BY <1>2 DEF Answer, Underway
  <2> QED
    BY <1>2, <2>1, <2>2 DEF Answer, history, Underway, SoFar, At, Marks, DoneEarned, TodoHasCause,
                            MarkAgrees, Marked
<1>3. CASE CallTimeout
  <2>1. Sorts'
    BY <1>3 DEF CallTimeout, Sorts, history
  <2> QED BY <1>3, <2>1, QuietKept DEF CallTimeout
<1>4. CASE EndJob
  <2>1. Sorts'
    BY <1>4 DEF EndJob, Sorts, history
  <2>2. grader = None
    BY <1>4 DEF EndJob, Underway
  <2> QED
    BY <1>4, <2>1, <2>2 DEF EndJob, history, Underway, SoFar, At, Marks, DoneEarned, TodoHasCause,
                            MarkAgrees, Marked
<1>5. CASE OrphanEnds
  <2>1. Sorts'
    BY <1>5 DEF OrphanEnds, Sorts
  <2> QED
    BY <1>5, <2>1 DEF OrphanEnds, Underway, SoFar, At, Module, Suites, Marks, DoneEarned,
                      TodoHasCause, MarkAgrees, Marked
<1>6. ASSUME NEW caller \in {"terminal", "tutor"}, ListProgress(caller) PROVE Kept'
  BY <1>6, <1>1, LeftFacts DEF ListProgress
<1>7. ASSUME NEW m \in NOCLUSTER, Grade(m) \/ Hint(m) PROVE Kept'
  BY <1>7, <1>1, LeftFacts DEF Grade, Hint
<1> HIDE DEF Kept
<1> QED BY <1>2, <1>3, <1>4, <1>5, <1>6, <1>7

\* The tool's answer ends the call.
LEMMA TellKept ==
    ASSUME Kept, NEW m, Tell(m)
    PROVE  Kept'
<1>1. \E a \in {"unknown", "cluster", "no hint", "no spec", "text", "refused"} : Answer(a)
  <2>1. ASSUME NEW files, Read(files) PROVE Answer("refused") \/ Answer("text")
    BY <2>1 DEF Read
  <2> QED BY <2>1 DEF Tell
<1> QED BY <1>1, CallKept

-----------------------------------------------------------------------------
\* A grader starts with the history of this moment.
LEMMA StartKept ==
    ASSUME Kept, StartGrader
    PROVE  Kept'
<1> USE DEF Kept, StartGrader
<1>1. Module \in {"m0", "m1", "m6", "m7"}
  BY LeftFacts, PartFacts, WorkbenchAssumption DEF Sorts, Jobs, Module
<1>2. Module' = Module /\ grader'.step = FirstStep[Module] /\ said' = None
  BY DEF Module
<1>3. Sorts'
  <2>1. \A p \in Parts : work[p] \in AnyContent /\ work[p] \in Contents(p)
    BY DEF Sorts
  <2>2. been' \in [Parts -> SUBSET AnyContent] /\ \A p \in Parts : been'[p] \subseteq Contents(p)
    BY <2>1
  <2>3. happened' \subseteq AnyDocker \cup Failures
    BY DEF Sorts
  <2> QED BY <2>2, <2>3 DEF Sorts
<1>4. Underway'
  BY <1>1, <1>2, PartFacts DEF Underway, Sorts
<1>5. SoFar'
  BY <1>1, <1>2 DEF SoFar, At, FirstStep
<1> QED
  BY <1>2, <1>3, <1>4, <1>5 DEF Marks, DoneEarned, TodoHasCause, MarkAgrees, Marked

\* A grader that goes on to its next step.
LEMMA ContinueKept ==
    ASSUME Kept, grader # None, NEW step, NEW rc, ContinueWith(step, rc), UNCHANGED happened, SoFar'
    PROVE  Kept'
<1>1. Sorts' /\ Underway'
  BY DEF Kept, ContinueWith, Sorts, Underway, Module
<1>2. said' = None
  BY DEF Kept, ContinueWith, Underway
<1> QED
  BY <1>1, <1>2 DEF Kept, Marks, DoneEarned, TodoHasCause, MarkAgrees, Marked

\* A grader that ends, with a mark that keeps the properties.
LEMMA EndKept ==
    ASSUME Kept, grader # None, grader' = None,
           happened' \in SUBSET (AnyDocker \cup Failures),
           job' = [job EXCEPT !.left = Tail(@)],
           UNCHANGED <<work, docker, installed, reply, been, orphan>>, Marks'
    PROVE  Kept'
<1>1. job' \in Jobs
  <2>1. job \in Jobs /\ job.left # <<>>
    BY DEF Kept, Sorts, Underway
  <2>2. Tail(job.left) \in Lefts
    BY <2>1, LeftFacts DEF Jobs
  <2> QED BY <2>1, <2>2 DEF Jobs
<1>2. Sorts'
  BY <1>1 DEF Kept, Sorts
<1> QED BY <1>2 DEF Kept, Underway, SoFar, At

-----------------------------------------------------------------------------
\* What holds of a grader underway, and of the parts that it looks at.
LEMMA UnderwayFacts ==
    ASSUME Kept, NEW m \in {"m0", "m1", "m6", "m7"}, NEW step, At(m, step)
    PROVE  /\ grader # None /\ Module = m /\ grader.step = step /\ docker \in happened
           /\ \A p \in PartsOf[m] : work[p] \in been[p]
  BY DEF Kept, Underway, At

\* A grader that ends with an exit code.
LEMMA FinishKept ==
    ASSUME Kept, grader # None, NEW rc, NEW skip, NEW graduated, Finish(rc, skip, graduated),
           happened' \in SUBSET (AnyDocker \cup Failures), Marks'
    PROVE  Kept'
  BY EndKept DEF Finish

\* labs/m0/grade.py: the policies go through the suites; the comparison follows.
LEMMA JudgePoliciesKept ==
    ASSUME Kept, JudgePolicies
    PROVE  Kept'
<1>1. /\ At("m0", "judge") /\ grader # None /\ Module = "m0"
      /\ work["policies"] \in been["policies"]
  BY UnderwayFacts, PartFacts DEF JudgePolicies
<1>2. ASSUME installed, NEW rc, rc = IF work["policies"] \in Suites THEN 0 ELSE 1,
             ContinueWith("compare", rc), UNCHANGED happened
      PROVE  Kept'
  <2>1. SoFar'
    BY <1>1, <1>2 DEF SoFar, At, Module, Suites, ContinueWith
  <2> QED BY <1>1, <1>2, <2>1, ContinueKept
<1>3. ASSUME ~installed, Finish(2, FALSE, FALSE), UNCHANGED happened PROVE Kept'
  <2>1. Marks'
    BY <1>3 DEF Finish, Mark, Marks, DoneEarned, TodoHasCause, MarkAgrees, Marked
  <2> QED BY <1>1, <1>3, <2>1, FinishKept DEF Kept, Sorts
<1> QED BY <1>2, <1>3 DEF JudgePolicies

\* The file is read again and compared with the answer key.
LEMMA CompareKept ==
    ASSUME Kept, Compare
    PROVE  Kept'
<1> DEFINE rc == IF work["policies"] = "copy" THEN 1 ELSE grader.rc
<1>1. /\ At("m0", "compare") /\ grader # None /\ Module = "m0"
      /\ work["policies"] \in been["policies"]
  BY UnderwayFacts, PartFacts DEF Compare
<1>2. Finish(rc, FALSE, rc = 0 /\ job.program = "progress") /\ UNCHANGED happened
  BY DEF Compare
<1>3. IF rc = 0 THEN been["policies"] \cap Suites # {} ELSE ~(been["policies"] \subseteq {"right"})
  BY <1>1 DEF Kept, SoFar
<1>4. /\ said'.module = "m0" /\ said'.program = job.program /\ UNCHANGED been
      /\ said'.mark = (IF rc # 0 THEN "todo" ELSE "done")
      /\ said'.graduated = (rc = 0 /\ job.program = "progress")
  BY <1>1, <1>2 DEF Finish, Mark
<1> HIDE DEF rc
<1>5. Marks'
  BY <1>3, <1>4, PartFacts, ContentFacts
  DEF Suites, Marks, DoneEarned, TodoHasCause, MarkAgrees, Marked
<1> QED BY <1>1, <1>2, <1>5, FinishKept DEF Kept, Sorts

\* grade.py of m1: the scan of the manifest, counted or broken off.
LEMMA ScanKept ==
    ASSUME Kept, Scan
    PROVE  Kept'
<1>1. /\ grader # None /\ Module = "m1" /\ work["workload"] \in been["workload"]
  BY UnderwayFacts, PartFacts DEF Scan
<1>2. happened' \in SUBSET (AnyDocker \cup Failures)
  BY DEF Scan, Kept, Sorts, Failures
<1>3. ASSUME NEW rc \in {1, 2}, Finish(rc, FALSE, FALSE),
             ~installed \/ work["workload"] = "poor" \/ "checker" \in happened'
      PROVE  Kept'
  <2>1. /\ said'.module = "m1" /\ said'.mark = "todo"
        /\ said'.graduated = FALSE /\ UNCHANGED <<been, installed>>
    BY <1>1, <1>3 DEF Finish, Mark
  <2>2. Marks'
    BY <1>1, <1>3, <2>1, PartFacts, ContentFacts
    DEF Marks, DoneEarned, TodoHasCause, MarkAgrees, Marked
  <2> QED BY <1>1, <1>2, <1>3, <2>2, FinishKept
<1>4. ASSUME Finish(0, FALSE, TRUE), work["workload"] # "poor"
      PROVE  Kept'
  <2>1. /\ said'.module = "m1" /\ said'.mark = "done"
        /\ said'.graduated = TRUE /\ UNCHANGED been
    BY <1>1, <1>4 DEF Finish, Mark
  <2>2. work["workload"] \in Right("workload")
    BY <1>4, PartFacts, ContentFacts DEF Kept, Sorts
  <2>3. Marks'
    BY <1>1, <2>1, <2>2, PartFacts
    DEF Marks, DoneEarned, TodoHasCause, MarkAgrees, Marked
  <2> QED BY <1>1, <1>2, <1>4, <2>3, FinishKept
<1>5. ASSUME NEW rc, rc = (IF ~installed THEN 2 ELSE IF work["workload"] = "poor" THEN 1 ELSE 0),
             Finish(rc, FALSE, rc = 0)
      PROVE  Kept'
  <2>1. CASE rc \in {1, 2}
    <3>1. (rc = 0) = FALSE
      BY <2>1
    <3>2. Finish(rc, FALSE, FALSE)
      BY ONLY <1>5, <3>1, Zenon
    <3>3. ~installed \/ work["workload"] = "poor"
      BY <1>5, <2>1
    <3> QED BY ONLY <1>3, <2>1, <3>2, <3>3
  <2>2. CASE rc = 0
    <3>1. (rc = 0) = TRUE
      BY <2>2
    <3>2. Finish(0, FALSE, TRUE)
      BY ONLY <1>5, <2>2, <3>1, Zenon
    <3>3. work["workload"] # "poor"
      BY <1>5, <2>2
    <3> QED BY <1>4, <3>2, <3>3
  <2> QED BY <1>5, <2>1, <2>2
<1> QED BY <1>2, <1>3, <1>5 DEF Scan

\* Part A of m6 goes into the findings; Part B follows.
LEMMA JudgeAgentKept ==
    ASSUME Kept, JudgeAgent
    PROVE  Kept'
<1>1. /\ At("m6", "judge") /\ grader # None /\ Module = "m6"
      /\ work["agent"] \in been["agent"]
  BY UnderwayFacts, PartFacts DEF JudgeAgent
<1>2. ASSUME job.program = "hint", Finish(0, FALSE, FALSE), UNCHANGED happened PROVE Kept'
  <2>1. Marks'
    BY <1>2 DEF Finish, Marks, DoneEarned, TodoHasCause, MarkAgrees, Marked
  <2> QED BY <1>1, <1>2, <2>1, FinishKept DEF Kept, Sorts
<1>3. ASSUME NEW rc, ContinueWith("docker", rc), UNCHANGED happened,
             rc = IF ~installed THEN 2 ELSE IF work["agent"] = "right" THEN 0 ELSE 1
      PROVE  Kept'
  <2>1. SoFar'
    BY <1>1, <1>3 DEF SoFar, At, Module, ContinueWith
  <2> QED BY <1>1, <1>3, <2>1, ContinueKept
<1> QED BY <1>2, <1>3 DEF JudgeAgent

\* The end of both parts of m6, from what Part A found and how Part B ended.
LEMMA FinishBothKept ==
    ASSUME Kept, At("m6", "docker") \/ At("m6", "model"),
           NEW rebac \in 0 .. 2, FinishBoth(rebac),
           happened' \in SUBSET (AnyDocker \cup Failures),
           rebac = 0 => "right" \in been["model"],
           rebac = 1 => ~(been["model"] \subseteq {"right"}) \/ Broke',
           rebac = 2 => happened' \cap {"absent", "down"} # {}
    PROVE  Kept'
<1>1. grader # None /\ Module = "m6"
  BY DEF At
<1>2. IF grader.rc = 0 THEN "right" \in been["agent"]
      ELSE ~installed \/ ~(been["agent"] \subseteq {"right"})
  BY DEF Kept, SoFar
<1>3. /\ said'.module = "m6" /\ UNCHANGED <<been, installed>>
      /\ said'.mark = (IF grader.rc # 0 \/ rebac = 1 THEN "todo"
                       ELSE IF rebac = 2 THEN "part" ELSE "done")
      /\ said'.graduated = (grader.rc = 0 /\ rebac = 0)
  BY <1>1 DEF FinishBoth, Finish, Exit, Mark
<1>4. MarkAgrees'
  <2>1. said'.mark = "done" <=> grader.rc = 0 /\ rebac = 0
    BY <1>3
  <2>2. CASE grader.rc = 0 /\ rebac = 0
    <3>1. said'.graduated = TRUE
      BY <2>2, <1>3
    <3> QED BY <2>1, <2>2, <3>1 DEF MarkAgrees
  <2>3. CASE ~(grader.rc = 0 /\ rebac = 0)
    <3>1. said'.graduated = FALSE
      BY <2>3, <1>3
    <3> QED BY <2>1, <2>3, <3>1 DEF MarkAgrees
  <2> QED BY <2>2, <2>3
<1>5. DoneEarned'
  <2>1. CASE said'.mark = "done"
    <3>1. "right" \in been'["agent"] /\ "right" \in been'["model"]
      BY <2>1, <1>2, <1>3
    <3> QED BY <2>1, <3>1, <1>3, PartFacts, ContentFacts DEF DoneEarned, Marked
  <2>2. CASE said'.mark = "part"
    BY <2>2, <1>2, <1>3 DEF DoneEarned, Marked
  <2> QED BY <2>1, <2>2 DEF DoneEarned, Marked
<1>6. TodoHasCause'
  <2>1. CASE grader.rc # 0
    BY <2>1, <1>2, <1>3, PartFacts, ContentFacts DEF TodoHasCause, Marked
  <2>2. CASE rebac = 1
    BY <2>2, <1>3, PartFacts, ContentFacts DEF TodoHasCause, Marked, Broke
  <2> QED BY <2>1, <2>2, <1>3 DEF TodoHasCause, Marked
<1> QED BY <1>1, <1>4, <1>5, <1>6, FinishKept DEF FinishBoth, Marks

\* docker info decides whether Part B runs.
LEMMA AskDockerKept ==
    ASSUME Kept, AskDocker
    PROVE  Kept'
<1>1. At("m6", "docker") /\ grader # None /\ Module = "m6" /\ docker \in happened
  BY UnderwayFacts DEF AskDocker
<1>2. ASSUME docker = "up", ContinueWith("model", grader.rc), UNCHANGED happened PROVE Kept'
  <2>1. SoFar'
    BY <1>1, <1>2 DEF Kept, SoFar, At, Module, ContinueWith
  <2> QED BY <1>1, <1>2, <2>1, ContinueKept
<1>3. ASSUME docker # "up", FinishBoth(2), UNCHANGED happened PROVE Kept'
  <2>1. happened' \cap {"absent", "down"} # {} /\ happened' \in SUBSET (AnyDocker \cup Failures)
    BY <1>1, <1>3 DEF Kept, Sorts, AnyDocker
  <2> QED BY <1>1, <1>3, <2>1, FinishBothKept
<1> QED BY <1>2, <1>3 DEF AskDocker

\* docker run judges the relationship model, or fails.
LEMMA RunModelKept ==
    ASSUME Kept, RunModel
    PROVE  Kept'
<1>1. At("m6", "model") /\ work["model"] \in been["model"] /\ "up" \in happened
  BY UnderwayFacts, PartFacts DEF RunModel, Kept, SoFar
<1>2. happened \in SUBSET (AnyDocker \cup Failures)
  BY DEF Kept, Sorts
<1>3. ASSUME NEW rebac \in {0, 1}, rebac = IF work["model"] = "right" THEN 0 ELSE 1,
             FinishBoth(rebac), UNCHANGED happened
      PROVE  Kept'
  BY <1>1, <1>2, <1>3, FinishBothKept
<1>4. ASSUME NEW mark \in {"container", "daemon"}, happened' = happened \cup {mark}, FinishBoth(1)
      PROVE  Kept'
  BY <1>1, <1>2, <1>4, FinishBothKept DEF Broke, Failures
<1> QED BY <1>3, <1>4 DEF RunModel

\* The cross-layer lint judges the reference, no work.
LEMMA LintReferenceKept ==
    ASSUME Kept, LintReference
    PROVE  Kept'
<1>1. grader # None /\ Module = "m7"
  BY DEF LintReference, At
<1>2. Marks'
  BY <1>1 DEF LintReference, Finish, Marks, DoneEarned, TodoHasCause, MarkAgrees, Marked
<1> QED BY <1>1, <1>2, FinishKept DEF LintReference, Kept, Sorts

\* A grader that exceeds its limit is ended as todo.
LEMMA GraderTimeoutKept ==
    ASSUME Kept, GraderTimeout
    PROVE  Kept'
<1>1. Marks'
  BY DEF GraderTimeout, Marks, DoneEarned, TodoHasCause, MarkAgrees, Marked
<1>2. happened' \in SUBSET (AnyDocker \cup Failures) /\ UNCHANGED been
  BY DEF GraderTimeout, history, Kept, Sorts
<1> QED BY <1>1, <1>2, EndKept DEF GraderTimeout, history

-----------------------------------------------------------------------------
\* Every step of the workbench keeps the invariant.
LEMMA KeptInvariant == Spec => []Kept
<1>1. Kept /\ [Next]_vars => Kept'
  <2> SUFFICES ASSUME Kept, [Next]_vars PROVE Kept'
    OBVIOUS
  <2>1. CASE UNCHANGED vars
    BY <2>1 DEF vars, Kept, Sorts, Underway, SoFar, At, Module, Suites, Marks, DoneEarned,
                TodoHasCause, MarkAgrees, Marked
  <2>2. CASE GraderStep
    BY <2>2, JudgePoliciesKept, CompareKept, ScanKept, JudgeAgentKept, AskDockerKept,
       RunModelKept, LintReferenceKept DEF GraderStep
  <2>3. CASE Next
    BY <2>2, <2>3, EditKept, DaemonKept, CallKept, TellKept, StartKept, GraderTimeoutKept
    DEF Next
  <2> QED BY <2>1, <2>3
<1> QED BY <1>1, InitKept, PTL DEF Spec

\* The steps, histories and answers belong to the program underway.
THEOREM WorkbenchTypeCorrect == Spec => []TypeOK
<1>1. Kept => TypeOK
  BY DEF Kept, Sorts, Underway, TypeOK, Jobs, Lefts, AnyDocker, Failures
<1> QED BY <1>1, KeptInvariant, PTL

\* What progress.py shows as done was right, part by part, at some moment of
\* its grading; what it shows in part had a right Part A and no docker.
THEOREM DoneIsEarned == Spec => []DoneEarned
  BY KeptInvariant, PTL DEF Kept, Marks

\* What it shows as todo has a cause: wrong work, missing dependencies, a limit
\* of time, or a docker that failed after it had answered.
THEOREM TodoIsCaused == Spec => []TodoHasCause
  BY KeptInvariant, PTL DEF Kept, Marks

\* The mark is what the grader itself said: the exit code and the text agree.
THEOREM MarksAgree == Spec => []MarkAgrees
  BY KeptInvariant, PTL DEF Kept, Marks

-----------------------------------------------------------------------------
(***************************************************************************)
(* Review                                                                  *)
(***************************************************************************)
\* A result is that of the proposal's own check.
Earned ==
    /\ proposal = Nil => result = Nil
    /\ proposal # Nil => proposal \in Proposals
    /\ Judged("deployer") =>
           result = WithLive(DeployerExit(proposal), DeployerLiveExit(proposal))
    /\ Judged("project") =>
           result = WithLive(ReconcilerExit(proposal), ReconcilerLiveExit(proposal))
    /\ Judged("waves") => result = WaveExit(proposal)
    /\ Judged("application") => result = GradeApplication(proposal)
    /\ Judged("lint") => result = Main(proposal)
    /\ Judged("lesson") => result = RedactLesson(TextOf(proposal.blocks))

\* Every step of a review keeps it: one check has judged one proposal.
LEMMA EarnedInvariant == ReviewSpec => []Earned
<1>1. ReviewInit => Earned
  BY DEF ReviewInit, Earned, Judged
<1>2. Earned /\ [ReviewNext]_reviewVars => Earned'
  <2> SUFFICES ASSUME Earned, [ReviewNext]_reviewVars PROVE Earned'
    OBVIOUS
  <2>1. CASE UNCHANGED reviewVars
    BY <2>1 DEF reviewVars, Earned, Judged, WithLive
  <2>2. CASE Propose
    BY <2>2 DEF Propose, Earned, Judged
  <2>3. CASE Conclude
    BY <2>3 DEF Conclude, Earned, Judged
  <2>4. ASSUME NEW check, NEW r, Judge(check, r),
               check = "deployer" =>
                   r = WithLive(DeployerExit(proposal), DeployerLiveExit(proposal)),
               check = "project" =>
                   r = WithLive(ReconcilerExit(proposal), ReconcilerLiveExit(proposal)),
               check = "waves" => r = WaveExit(proposal),
               check = "application" => r = GradeApplication(proposal),
               check = "lint" => r = Main(proposal),
               check = "lesson" => r = RedactLesson(TextOf(proposal.blocks))
        PROVE  Earned'
    BY <2>4 DEF Judge, Earned, Judged, WithLive
  <2>6. CASE CheckDeployer
    BY <2>6, <2>4 DEF CheckDeployer
  <2>7. CASE CheckReconciler
    BY <2>7, <2>4 DEF CheckReconciler
  <2>8. CASE CheckWaves
    BY <2>8, <2>4 DEF CheckWaves
  <2>9. CASE CheckApplication
    BY <2>9, <2>4 DEF CheckApplication
  <2>10. CASE CheckLayers
    BY <2>10, <2>4 DEF CheckLayers
  <2>11. CASE ServeLesson
    BY <2>11, <2>4 DEF ServeLesson
  <2> QED BY <2>1, <2>2, <2>3, <2>6, <2>7, <2>8, <2>9, <2>10, <2>11 DEF ReviewNext
<1> QED BY <1>1, <1>2, PTL DEF ReviewSpec

-----------------------------------------------------------------------------
\* A role that passes the static guard gives nothing on the guard's list.
LEMMA PassedRoleIsBounded ==
    ASSUME NEW f, DeployerExit(f) = 0, NEW resource \in FORBIDDEN, NEW verb
    PROVE  ~Grants(f.rules, verb, resource)
<1>1. Held(f) \cap FORBIDDEN = {} /\ ~Wildcard(f)
  BY DEF DeployerExit
<1> SUFFICES ASSUME NEW r \in f.rules, {resource, "*"} \cap r.resources # {}
             PROVE  FALSE
  BY DEF Grants
<1>2. CASE resource \in r.resources
  BY <1>1, <1>2 DEF Held
<1>3. CASE "*" \in r.resources
  BY <1>1, <1>3 DEF Wildcard
<1> QED BY <1>2, <1>3

\* Hence a live failure is another binding's, or a role's that does not deploy.
LEMMA LiveFailureExplained ==
    ASSUME NEW f, DeployerExit(f) = 0, DeployerLiveExit(f) # 0
    PROVE  \E g \in GROUPS :
               \/ \E d \in Denied : Grants(f.others[g], d[1], d[2])
               \/ ~Grants(f.rules, "create", "deployments")
<1>1. PICK g \in GROUPS : \/ \E d \in Denied : CanI(f, d[1], d[2], g)
                          \/ ~CanI(f, "create", "deployments", g)
  BY DEF DeployerLiveExit
<1>2. ASSUME NEW d \in Denied PROVE ~Grants(f.rules, d[1], d[2])
  <2>1. d[2] \in FORBIDDEN
    BY DEF Denied, FORBIDDEN
  <2> QED BY <2>1, PassedRoleIsBounded
<1> QED BY <1>1, <1>2 DEF CanI

\* A project of literal entries that passes permits none of the forbidden kinds.
LEMMA PassedProjectIsBounded ==
    ASSUME NEW p, ReconcilerExit(p) = 0, Literal(p)
    PROVE  /\ {d.name : d \in p.destinations} \subseteq ALLOWED_NS
           /\ \A kind \in FORBIDDEN_NS : ~Permitted(p, kind)
<1>1. /\ ReadNames(p.destinations) \subseteq ALLOWED_NS
      /\ ReadKinds(p.clusterWhitelist) \cap FORBIDDEN_CLUSTER = {}
      /\ "Secret" \in ReadKinds(p.namespaceBlacklist)
  BY DEF ReconcilerExit
<1>2. {d.name : d \in p.destinations} = ReadNames(p.destinations)
  BY DEF Literal, ReadNames
<1>3. ASSUME NEW kind \in FORBIDDEN_CLUSTER PROVE ~Permitted(p, kind)
  <2> SUFFICES ASSUME NEW e \in p.clusterWhitelist, e.kind \in {kind, "*"} PROVE FALSE
    BY DEF Permitted, Listed, FORBIDDEN_CLUSTER, ClusterScoped
  <2>1. e.plain /\ e.kind = kind
    BY DEF Literal
  <2> QED BY <1>1, <2>1 DEF ReadKinds
<1>4. ~Permitted(p, "Secret")
  <2>1. PICK e \in p.namespaceBlacklist : e.kind = "Secret"
    BY <1>1 DEF ReadKinds
  <2>2. e.group # "other"
    BY DEF Literal
  <2> QED BY <2>1, <2>2 DEF Permitted, Listed, ClusterScoped
<1> QED BY <1>1, <1>2, <1>3, <1>4 DEF FORBIDDEN_NS

\* The static half decides first.
LEMMA StaticFirst ==
    ASSUME NEW static, NEW live, WithLive(static, live) = 0
    PROVE  static = 0
  BY DEF WithLive

\* What check-deployer-rbac.py passes, wildcards and subresources included, and
\* what its live half can still find, for any rules.
THEOREM PassedDeployerIsBounded == ReviewSpec => []DeployerBounded
<1>1. Earned => DeployerBounded
  <2> SUFFICES ASSUME Earned, Judged("deployer") PROVE DeployerBounded
    BY DEF DeployerBounded, Passed, Judged
  <2>1. result = WithLive(DeployerExit(proposal), DeployerLiveExit(proposal))
    BY DEF Earned
  <2>2. CASE result = 0
    <3>1. DeployerExit(proposal) = 0
      BY <2>1, <2>2, StaticFirst
    <3> QED BY <2>2, <3>1, PassedRoleIsBounded DEF DeployerBounded, Passed
  <2>3. CASE result # 0
    <3>1. DeployerExit(proposal) = 0 => DeployerLiveExit(proposal) # 0
      BY <2>1, <2>3 DEF WithLive
    <3> QED BY <2>3, <3>1, LiveFailureExplained DEF DeployerBounded, Passed
  <2> QED BY <2>2, <2>3
<1> QED BY <1>1, EarnedInvariant, PTL

\* What check-reconciler-rbac.py passes, by ArgoCD's reading of the lists.
THEOREM PassedProjectsAreBounded == ReviewSpec => []ReconcilerBounded
<1>1. Earned => ReconcilerBounded
  <2> SUFFICES ASSUME Earned, Judged("project"), result = 0, Literal(proposal)
               PROVE  ReconcilerBounded
    BY DEF ReconcilerBounded, Passed
  <2>1. ReconcilerExit(proposal) = 0
    BY StaticFirst DEF Earned
  <2> QED BY <2>1, PassedProjectIsBounded DEF ReconcilerBounded
<1> QED BY <1>1, EarnedInvariant, PTL

-----------------------------------------------------------------------------
\* The wave that the guard keeps for an Application is that of its file.
LEMMA WaveOfFile ==
    ASSUME NEW files, \A f, g \in files : f.app = g.app => f = g, NEW h \in files
    PROVE  Waves(files)[h.app] = h.wave
<1> DEFINE chosen == CHOOSE f \in files : f.app = h.app
<1>1. chosen \in files /\ chosen.app = h.app
  OBVIOUS
<1>2. chosen = h
  BY <1>1
<1>3. h.app \in {f.app : f \in files}
  OBVIOUS
<1> QED BY <1>2, <1>3 DEF Waves

\* In every order that the waves of passed files leave open, the accounts come
\* before the workload and the network policies.
LEMMA PassedWavesKeepOrder ==
    ASSUME NEW w, WaveExit(w) = 0, IsFiniteSet(w.files),
           \A f \in w.files : f.wave \in Int,
           \A f, g \in w.files : f.app = g.app => f = g,
           NEW o \in Orders(w.files), NEW i \in DOMAIN o, NEW j \in DOMAIN o,
           o[i].app = TIERS.identity, o[j].app \in {TIERS.workload, TIERS.network}
    PROVE  i < j
<1> DEFINE wave == Waves(w.files)
<1>1. wave[TIERS.identity] < wave[TIERS.workload]
      /\ wave[TIERS.workload] <= wave[TIERS.network]
      /\ \A t \in DOMAIN TIERS : \E f \in w.files : f.app = TIERS[t]
  BY DEF WaveExit
<1>2. \A t \in DOMAIN TIERS : wave[TIERS[t]] \in Int
  BY <1>1, WaveOfFile
<1>3. o[i] \in w.files /\ o[j] \in w.files
  BY DEF Orders
<1>4. o[i].wave = wave[TIERS.identity] /\ o[j].wave = wave[o[j].app]
  BY <1>3, WaveOfFile
<1>5. o[i].wave < o[j].wave /\ o[i].wave \in Int /\ o[j].wave \in Int
  BY <1>1, <1>2, <1>4 DEF TIERS
<1>6. Cardinality(w.files) \in Nat
  BY FS_CardinalityType
<1>7. i \in Int /\ j \in Int
  BY <1>6 DEF Orders
<1>8. \A a, b \in DOMAIN o : a < b => o[a].wave <= o[b].wave
  BY DEF Orders
<1>9. CASE j < i
  BY <1>5, <1>8, <1>9
<1>10. CASE i = j
  BY <1>5, <1>10
<1> QED BY <1>7, <1>9, <1>10

\* What check-sync-wave-order.py and the grader of m10 pass, for any files.
THEOREM PassedWavesOrder == ReviewSpec => []WavesKeepOrder
<1>1. ASSUME Earned, Passed("waves"), NEW o \in Orders(proposal.files),
             NEW i \in DOMAIN o, NEW j \in DOMAIN o, o[i].app = TIERS.identity,
             o[j].app \in {TIERS.workload, TIERS.network}
      PROVE  i < j
  <2>1. WaveExit(proposal) = 0 /\ proposal \in Proposals /\ proposal.check = "waves"
    BY <1>1 DEF Earned, Passed, Judged
  <2> QED BY <1>1, <2>1, PassedWavesKeepOrder, ProposalsAssumption
<1>2. ASSUME Earned, Passed("application")
      PROVE  /\ proposal.namespace \in ALLOWED_NS
             /\ WaveExit([annotated |-> TRUE,
                          files |-> {[app |-> TIERS.identity, wave |-> -1],
                                     [app |-> TIERS.workload, wave |-> 0],
                                     [app |-> TIERS.network, wave |-> proposal.wave]}]) = 0
  <2>1. proposal.wave = 1 /\ proposal.namespace = "shop"
    BY <1>2 DEF Earned, Passed, GradeApplication
  <2> DEFINE a == [app |-> TIERS.identity, wave |-> -1]
             b == [app |-> TIERS.workload, wave |-> 0]
             c == [app |-> TIERS.network, wave |-> 1]
             w == [annotated |-> TRUE, files |-> {a, b, c}]
  <2>2. \A f, g \in {a, b, c} : f.app = g.app => f = g
    BY DEF TIERS
  <2>3. /\ Waves({a, b, c})[TIERS.identity] = -1
        /\ Waves({a, b, c})[TIERS.workload] = 0
        /\ Waves({a, b, c})[TIERS.network] = 1
    <3>1. \A h \in {a, b, c} : Waves({a, b, c})[h.app] = h.wave
      BY <2>2, WaveOfFile
    <3>2. /\ a \in {a, b, c} /\ a.app = TIERS.identity /\ a.wave = -1
          /\ b \in {a, b, c} /\ b.app = TIERS.workload /\ b.wave = 0
          /\ c \in {a, b, c} /\ c.app = TIERS.network /\ c.wave = 1
      OBVIOUS
    <3> HIDE DEF a, b, c
    <3> QED BY <3>1, <3>2
  <2>4. {TIERS[t] : t \in DOMAIN TIERS} \ {f.app : f \in {a, b, c}} = {}
    BY DEF TIERS
  <2>5. WaveExit(w) = 0
    BY <2>3, <2>4 DEF WaveExit
  <2> QED BY <2>1, <2>5 DEF ALLOWED_NS
<1>3. Earned => WavesKeepOrder
  BY <1>1, <1>2 DEF WavesKeepOrder
<1> QED BY <1>3, EarnedInvariant, PTL

-----------------------------------------------------------------------------
\* The classification, test by test, is what the solver enumerates.
LEMMA ClassifyAgrees ==
    ASSUME NEW f, f.grant \in BOOLEAN, f.reach \in BOOLEAN, f.gate \in BOOLEAN
    PROVE  /\ Classify(f) = "ungated" <=> f.reach /\ ~f.gate
           /\ Classify(f) = "shadowed" <=> f.grant /\ ~f.reach
           /\ Severity(Classify(f)) = "error" <=> f.reach /\ ~f.gate
           /\ Severity(Classify(f)) = "warning" <=> f.grant /\ ~f.reach
  BY DEF Classify, Severity

\* The page counts three actions at most.
LEMMA FiniteActions == IsFiniteSet(Actions)
<1>1. Actions = ({"ViewAccount"} \cup {"Transfer"}) \cup {"ViewAuditLog"}
  BY DEF Actions, ActionHandler
<1>2. IsFiniteSet({"ViewAccount"} \cup {"Transfer"})
  BY FS_Singleton, FS_AddElement
<1>3. IsFiniteSet(({"ViewAccount"} \cup {"Transfer"}) \cup {"ViewAuditLog"})
  BY <1>2, FS_AddElement
<1> QED BY <1>1, <1>3

\* Findings of one severity are as many as the actions they are about.
LEMMA CountedOnce ==
    ASSUME NEW facts, NEW level
    PROVE  Cardinality({f \in Findings(facts) : f.severity = level})
               = Cardinality({a \in Actions : Severity(Classify(facts[a])) = level})
<1> DEFINE S == {a \in Actions : Severity(Classify(facts[a])) = level}
           T == {f \in Findings(facts) : f.severity = level}
           finding == [a \in S |-> [action |-> a, kind |-> Classify(facts[a]),
                                   severity |-> Severity(Classify(facts[a]))]]
<1>2. IsFiniteSet(S)
  BY FiniteActions, FS_Subset
<1>3. finding \in Bijection(S, T)
  <2>1. finding \in [S -> T]
    BY DEF Findings
  <2>2. \A a, b \in S : finding[a] = finding[b] => a = b
    OBVIOUS
  <2>3. \A t \in T : \E a \in S : finding[a] = t
    BY DEF Findings
  <2> QED BY <2>1, <2>2, <2>3, Fun_IsBij
<1>4. ExistsBijection(S, T)
  BY <1>3 DEF ExistsBijection
<1>5. Cardinality(T) = Cardinality(S)
  BY <1>2, <1>4, FS_Bijection
<1> QED BY <1>5

\* The exit code, the SARIF log and the page agree, for any inputs and options.
THEOREM ReportsAgree == ReviewSpec => []ExitMatchesReport
<1>1. ASSUME NEW l \in Proposals, l.check = "lint", NEW facts,
             facts = Facts(l.switches, l.grants, l.calls)
      PROVE  /\ {r.action : r \in {s \in Sarif(Findings(facts)) : s.level = "error"}}
                     = Ungated(facts)
             /\ {r.action : r \in Sarif(Findings(facts))} = Ungated(facts) \cup Shadowed(facts)
             /\ Html(Findings(facts)).warnings = Cardinality(Shadowed(facts))
             /\ Html(Findings(facts)).errors = Cardinality(Ungated(facts))
             /\ IsFiniteSet(Ungated(facts))
  <2>1. \A a \in Actions : /\ facts[a].grant \in BOOLEAN /\ facts[a].reach \in BOOLEAN
                           /\ facts[a].gate \in BOOLEAN
    <3>1. l.grants \in [Actions -> BOOLEAN]
      BY <1>1, ProposalsAssumption
    <3> DEFINE gate(a) == /\ GatedInApp(a, l.calls)
                          /\ a = "Transfer" => "--ungate-transfer" \notin l.switches
    <3>2. \A a \in Actions : /\ L7Reachable(a, L7Rules(l.switches)) \in BOOLEAN
                             /\ gate(a) \in BOOLEAN
      BY DEF L7Reachable, GatedInApp
    <3>3. facts = [a \in Actions |-> [grant |-> l.grants[a],
                                     reach |-> L7Reachable(a, L7Rules(l.switches)),
                                     gate |-> gate(a)]]
      BY <1>1, Zenon DEF Facts
    <3> HIDE DEF gate
    <3> QED BY <3>1, <3>2, <3>3
  <2>2. \A a \in Actions :
            /\ Classify(facts[a]) = "ungated" <=> a \in Ungated(facts)
            /\ Classify(facts[a]) = "shadowed" <=> a \in Shadowed(facts)
            /\ Severity(Classify(facts[a])) = "error" <=> a \in Ungated(facts)
            /\ Severity(Classify(facts[a])) = "warning" <=> a \in Shadowed(facts)
    BY <2>1, ClassifyAgrees DEF Ungated, Shadowed
  <2>3. Ungated(facts) \subseteq Actions /\ Shadowed(facts) \subseteq Actions
    BY DEF Ungated, Shadowed
  <2> DEFINE F(a) == [action |-> a, kind |-> Classify(facts[a]),
                      severity |-> Severity(Classify(facts[a]))]
             R(a) == [action |-> a, level |-> IF Classify(facts[a]) = "ungated"
                                              THEN "error" ELSE "warning"]
  <2>4. Sarif(Findings(facts)) = {R(a) : a \in Ungated(facts) \cup Shadowed(facts)}
    <3>1. {f \in Findings(facts) : f.kind \in {"ungated", "shadowed"}}
              = {F(a) : a \in Ungated(facts) \cup Shadowed(facts)}
      BY <2>2, <2>3 DEF Findings
    <3> DEFINE row(f) == [action |-> f.action,
                          level |-> IF f.kind = "ungated" THEN "error" ELSE "warning"]
    <3>2. \A a : row(F(a)) = R(a)
      OBVIOUS
    <3>3. Sarif(Findings(facts)) = {row(f) : f \in {g \in Findings(facts) :
                                                      g.kind \in {"ungated", "shadowed"}}}
      BY DEF Sarif
    <3> HIDE DEF F, R, row
    <3> QED BY <3>1, <3>2, <3>3
  <2>5. \A a \in Ungated(facts) \cup Shadowed(facts) :
            R(a).action = a /\ (R(a).level = "error" <=> a \in Ungated(facts))
    BY <2>2, <2>3
  <2> HIDE DEF F, R
  <2>6. {r.action : r \in {s \in Sarif(Findings(facts)) : s.level = "error"}} = Ungated(facts)
    BY <2>4, <2>5
  <2>7. {r.action : r \in Sarif(Findings(facts))} = Ungated(facts) \cup Shadowed(facts)
    BY <2>4, <2>5
  <2>8. /\ {a \in Actions : Severity(Classify(facts[a])) = "error"} = Ungated(facts)
        /\ {a \in Actions : Severity(Classify(facts[a])) = "warning"} = Shadowed(facts)
    BY <2>2, <2>3
  <2>9. /\ Html(Findings(facts)).errors = Cardinality(Ungated(facts))
        /\ Html(Findings(facts)).warnings = Cardinality(Shadowed(facts))
    <3>1. Cardinality({f \in Findings(facts) : f.severity = "error"})
              = Cardinality({a \in Actions : Severity(Classify(facts[a])) = "error"})
      BY CountedOnce
    <3>2. Cardinality({f \in Findings(facts) : f.severity = "warning"})
              = Cardinality({a \in Actions : Severity(Classify(facts[a])) = "warning"})
      BY CountedOnce
    <3> QED BY <2>8, <3>1, <3>2, Zenon DEF Html
  <2> QED BY <2>3, <2>6, <2>7, <2>9, FiniteActions, FS_Subset
<1>2. Earned => ExitMatchesReport
  <2> SUFFICES ASSUME Earned, Judged("lint") PROVE ExitMatchesReport
    BY DEF ExitMatchesReport
  <2> DEFINE facts == Facts(proposal.switches, proposal.grants, proposal.calls)
  <2>1. result = Main(proposal) /\ proposal \in Proposals /\ proposal.check = "lint"
    BY DEF Earned, Judged
  <2>2. /\ {r.action : r \in {s \in Sarif(Findings(facts)) : s.level = "error"}}
                 = Ungated(facts)
        /\ {r.action : r \in Sarif(Findings(facts))} = Ungated(facts) \cup Shadowed(facts)
        /\ Html(Findings(facts)).warnings = Cardinality(Shadowed(facts))
        /\ Html(Findings(facts)).errors = Cardinality(Ungated(facts))
        /\ IsFiniteSet(Ungated(facts))
    BY <1>1, <2>1
  <2>3. Html(Findings(facts)).errors = 0 <=> Ungated(facts) = {}
    BY <2>2, FS_EmptySet
  <2>4. /\ result.exit = 0 <=> /\ proposal.bare = {} /\ proposal.readable
                              /\ Ungated(facts) = {}
        /\ result.wrote # {} => proposal.bare = {} /\ proposal.readable
    BY <2>1 DEF Main
  <2> HIDE DEF facts
  <2> QED BY <2>2, <2>3, <2>4 DEF ExitMatchesReport, facts
<1> QED BY <1>2, EarnedInvariant, PTL

-----------------------------------------------------------------------------
(***************************************************************************)
(* Lessons.  The passes are recursive over a text.  A statement about all  *)
(* texts is shown of the shortest one that would contradict it, since a    *)
(* set of numbers has a least element.                                     *)
(***************************************************************************)
LEMMA LeastNat ==
    ASSUME NEW T \in SUBSET Nat, T # {}
    PROVE  \E m \in T : \A n \in T : m <= n
<1> DEFINE R == {ss \in Nat \X Nat : ss[1] < ss[2]}
<1>1. IsWellFoundedOn(R, Nat)
  BY NatLessThanWellFounded DEF OpToRel
<1>2. \A a, b \in Nat : a < b => <<a, b>> \in R
  OBVIOUS
<1> HIDE DEF R
<1>3. PICK m \in T : \A n \in T : <<n, m>> \notin R
  BY <1>1, WFMin
<1>4. ASSUME NEW n \in T PROVE m <= n
  <2>1. n \in Nat /\ m \in Nat
    OBVIOUS
  <2>2. ~(n < m)
    BY <1>2, <1>3, <2>1
  <2> QED BY <2>1, <2>2
<1> QED BY <1>4

\* Every reading goes forward.
Forward(piece, next) ==
    /\ Len(piece) \in Nat
    /\ \A i \in 1 .. Len(piece) : next[i] \in i + 1 .. Len(piece) + 1

\* The equation that defines Tails.
From(piece, next, f, i) == IF i = Len(piece) + 1 THEN <<>> ELSE piece[i] \o f[next[i]]

\* The recursive function of Tails exists: when every next[i] lies beyond i, the
\* reading satisfies its equation.
LEMMA TailsMeaning ==
    ASSUME NEW piece, NEW next, Forward(piece, next)
    PROVE  \A i \in 1 .. Len(piece) + 1 :
             Tails(piece, next)[i] = From(piece, next, Tails(piece, next), i)
<1> DEFINE n == Len(piece)
           Upto(k, g) == \A i \in n + 1 - k .. n + 1 : g[i] = From(piece, next, g, i)
           T == {k \in Nat : k <= n /\ \A g : ~Upto(k, g)}
<1>1. ASSUME T # {} PROVE FALSE
  <2>1. PICK k \in T : \A l \in T : k <= l
    BY <1>1, LeastNat
  <2>2. k # 0
    <3> DEFINE g == [i \in {n + 1} |-> <<>>]
    <3>1. Upto(0, g)
      BY DEF From, Forward
    <3> QED BY <3>1, <2>1
  <2>3. PICK g : Upto(k - 1, g)
    <3>1. k - 1 \in Nat /\ k - 1 <= n /\ ~(k <= k - 1)
      BY <2>1, <2>2 DEF Forward
    <3>2. k - 1 \notin T
      BY <3>1, <2>1
    <3> QED BY <3>1, <3>2
  <2> DEFINE first == n + 1 - k
             h == [i \in first .. n + 1 |-> IF i = first THEN From(piece, next, g, i) ELSE g[i]]
  <2>4. ASSUME NEW i \in first .. n + 1 PROVE h[i] = From(piece, next, h, i)
    <3>1. k \in Nat /\ k <= n /\ n \in Nat /\ first \in 1 .. n
      BY <2>1, <2>2 DEF Forward
    <3>2. CASE i = n + 1
      BY <3>1, <3>2, <2>3 DEF From
    <3>3. CASE i # n + 1
      <4>1. next[i] \in i + 1 .. n + 1
        BY <3>1, <3>3 DEF Forward
      <4>2. h[next[i]] = g[next[i]]
        BY <3>1, <4>1
      <4>3. h[i] = From(piece, next, g, i)
        BY <3>1, <2>3
      <4> HIDE DEF h
      <4>4. From(piece, next, h, i) = From(piece, next, g, i)
        BY <4>2, <3>3 DEF From
      <4> QED BY <4>3, <4>4
    <3> QED BY <3>2, <3>3
  <2>5. Upto(k, h)
    BY <2>4
  <2> QED BY <2>1, <2>5
<1>2. PICK g : \A i \in 1 .. n + 1 : g[i] = From(piece, next, g, i)
  BY <1>1 DEF Forward
<1> DEFINE f == [i \in 1 .. n + 1 |-> g[i]]
<1>3. f = [i \in 1 .. n + 1 |-> IF i = n + 1 THEN <<>> ELSE piece[i] \o f[next[i]]]
  <2>1. ASSUME NEW i \in 1 .. n + 1, i # n + 1 PROVE f[next[i]] = g[next[i]]
    BY <2>1 DEF Forward
  <2> QED BY <1>2, <2>1 DEF From
<1>4. Tails(piece, next)
        = [i \in 1 .. n + 1 |-> IF i = n + 1 THEN <<>> ELSE piece[i] \o Tails(piece, next)[next[i]]]
  BY <1>3 DEF Tails
<1> QED BY <1>4 DEF From

\* One list is the other, with d positions before it.
Shifted(piece, next, piece2, next2, d) ==
    /\ Len(piece) = d + Len(piece2)
    /\ \A i \in 1 .. Len(piece2) : piece[d + i] = piece2[i] /\ next[d + i] = d + next2[i]

\* What is read from a position on depends on what follows it alone.
LEMMA TailsAgree ==
    ASSUME NEW piece, NEW next, Forward(piece, next),
           NEW piece2, NEW next2, Forward(piece2, next2),
           NEW d \in Nat, Shifted(piece, next, piece2, next2, d)
    PROVE  \A i \in 1 .. Len(piece2) + 1 : Tails(piece, next)[d + i] = Tails(piece2, next2)[i]
<1> DEFINE n == Len(piece2)
           T == {k \in Nat : k <= n
                   /\ Tails(piece, next)[d + n + 1 - k] # Tails(piece2, next2)[n + 1 - k]}
<1>0. n \in Nat /\ Len(piece) = d + n
  BY DEF Forward, Shifted
<1>1. ASSUME T # {} PROVE FALSE
  <2>1. PICK k \in T : \A l \in T : k <= l
    BY <1>1, LeastNat
  <2> DEFINE i == n + 1 - k
  <2>2. k \in Nat /\ k <= n /\ i \in 1 .. n + 1 /\ d + i \in 1 .. d + n + 1
    BY <2>1, <1>0
  <2>3. /\ Tails(piece, next)[d + i] = From(piece, next, Tails(piece, next), d + i)
        /\ Tails(piece2, next2)[i] = From(piece2, next2, Tails(piece2, next2), i)
    BY <1>0, <2>2, TailsMeaning
  <2>4. CASE i = n + 1
    BY <2>1, <2>2, <2>3, <2>4, <1>0 DEF From
  <2>5. CASE i # n + 1
    <3> DEFINE j == next2[i]
    <3>1. j \in i + 1 .. n + 1 /\ next[d + i] = d + j /\ piece[d + i] = piece2[i]
      BY <2>2, <2>5 DEF Forward, Shifted
    <3> HIDE DEF j
    <3> DEFINE l == n + 1 - j
    <3>2. l \in Nat /\ l <= n /\ ~(k <= l) /\ n + 1 - l = j /\ d + n + 1 - l = d + j
      BY <3>1, <2>2, <1>0
    <3> HIDE DEF l
    <3>3. l \notin T
      BY <3>2, <2>1
    <3>4. Tails(piece, next)[d + j] = Tails(piece2, next2)[j]
      BY <3>2, <3>3
    <3>5. From(piece, next, Tails(piece, next), d + i) = piece[d + i] \o Tails(piece, next)[d + j]
      <4>1. d + i # Len(piece) + 1
        BY <2>2, <2>5, <1>0
      <4> HIDE DEF i
      <4> QED BY <3>1, <4>1 DEF From
    <3>6. From(piece2, next2, Tails(piece2, next2), i) = piece2[i] \o Tails(piece2, next2)[j]
      BY <3>1, <2>2, <2>5, <1>0 DEF From, j
    <3>7. Tails(piece, next)[d + i] = Tails(piece2, next2)[i]
      BY <2>3, <3>1, <3>4, <3>5, <3>6
    <3>8. d + n + 1 - k = d + i
      BY <2>2, <1>0
    <3> QED BY <2>1, <3>7, <3>8
  <2> QED BY <2>4, <2>5
<1>2. ASSUME NEW i \in 1 .. n + 1 PROVE Tails(piece, next)[d + i] = Tails(piece2, next2)[i]
  <2>1. n + 1 - i \in Nat /\ n + 1 - i <= n
    BY <1>0
  <2>2. n + 1 - (n + 1 - i) = i /\ d + n + 1 - (n + 1 - i) = d + i
    BY <1>0
  <2>3. n + 1 - i \notin T
    BY <1>1
  <2> QED BY <2>1, <2>2, <2>3
<1> QED BY <1>2

\* Pieces over a set, put together, are a sequence over it.
LEMMA TailsType ==
    ASSUME NEW S, NEW piece, NEW next, Forward(piece, next),
           \A i \in 1 .. Len(piece) : piece[i] \in Seq(S)
    PROVE  \A i \in 1 .. Len(piece) + 1 : Tails(piece, next)[i] \in Seq(S)
<1> DEFINE n == Len(piece)
           f == Tails(piece, next)
           T == {k \in Nat : k <= n /\ f[n + 1 - k] \notin Seq(S)}
<1>0. n \in Nat
  BY DEF Forward
<1>1. ASSUME T # {} PROVE FALSE
  <2>1. PICK k \in T : \A l \in T : k <= l
    BY <1>1, LeastNat
  <2> DEFINE i == n + 1 - k
  <2>2. k \in Nat /\ k <= n /\ i \in 1 .. n + 1 /\ f[i] \notin Seq(S)
    BY <2>1, <1>0
  <2>3. f[i] = From(piece, next, f, i)
    BY <2>2, TailsMeaning
  <2>4. CASE i = n + 1
    <3>1. f[i] = <<>>
      BY <2>3, <2>4 DEF From
    <3> QED BY <3>1, <2>2, EmptySeq
  <2>5. CASE i # n + 1
    <3> DEFINE j == next[i]
               l == n + 1 - j
    <3>1. j \in i + 1 .. n + 1 /\ piece[i] \in Seq(S) /\ f[i] = piece[i] \o f[j]
      <4>1. i \in 1 .. n
        BY <1>0, <2>2, <2>5
      <4>2. j \in i + 1 .. n + 1 /\ piece[i] \in Seq(S)
        BY <4>1 DEF Forward
      <4>3. f[i] = piece[i] \o f[j]
        BY <2>3, <2>5 DEF From
      <4> QED BY <4>2, <4>3
    <3> HIDE DEF j
    <3>2. l \in Nat /\ l <= n /\ ~(k <= l) /\ n + 1 - l = j
      BY <3>1, <2>2, <1>0
    <3> HIDE DEF l
    <3>3. f[j] \in Seq(S)
      BY <3>2, <2>1
    <3> QED BY <3>1, <3>3, <2>2, ConcatProperties
  <2> QED BY <2>4, <2>5
<1>2. ASSUME NEW i \in 1 .. n + 1 PROVE f[i] \in Seq(S)
  <2> DEFINE k == n + 1 - i
  <2>1. k \in Nat /\ k <= n /\ n + 1 - k = i
    BY <1>0
  <2> HIDE DEF k
  <2> QED BY <1>1, <2>1
<1> QED BY <1>2

-----------------------------------------------------------------------------
Passes == {"cut", "fold", "fence"}
Texts == Seq(Tokens)

\* The end of a match is its first closing marker.
LEMMA EndMeaning ==
    ASSUME NEW pass \in Passes, NEW text \in Texts, NEW i \in 1 .. Len(text),
           Matches(pass, text, i)
    PROVE  /\ EndOf(pass, text, i) \in i + 1 .. Len(text)
           /\ text[EndOf(pass, text, i)] \in Closes[pass]
           /\ \A k \in i + 1 .. Len(text) :
                 text[k] \in Closes[pass] => EndOf(pass, text, i) <= k
<1>1. Len(text) \in Nat
  BY LenProperties DEF Texts
<1> DEFINE E == Ends(pass, text, i)
<1>2. E \in SUBSET Nat /\ E # {}
  BY <1>1 DEF Matches, Ends
<1>3. \E j \in E : \A k \in E : j <= k
  BY <1>2, LeastNat
<1>4. EndOf(pass, text, i) \in E /\ \A k \in E : EndOf(pass, text, i) <= k
  BY <1>3 DEF EndOf
<1> QED BY <1>4 DEF Ends

\* A replacement is a text.
LEMMA ReplacedType ==
    ASSUME NEW pass \in Passes, NEW m \in Texts
    PROVE  Replaced(pass, m) \in Texts
<1>1. /\ <<>> \in Texts /\ <<"<details>", "</details>">> \in Texts
      /\ <<"<details>", "<summary>", "</details>">> \in Texts
  <2>1. <<>> \in Seq(Tokens)
    BY EmptySeq
  <2>2. "<details>" \in Tokens /\ "<summary>" \in Tokens /\ "</details>" \in Tokens
    BY DEF Tokens, Markers
  <2>3. \A a, b, c \in Tokens : <<a, b>> \in Seq(Tokens) /\ <<a, b, c>> \in Seq(Tokens)
    OBVIOUS
  <2> QED BY <2>1, <2>2, <2>3 DEF Texts
<1> QED BY <1>1 DEF Replaced, Folded, RedactFence, Passes

\* A pass goes forward, and its pieces are texts.
LEMMA PassForward ==
    ASSUME NEW pass \in Passes, NEW text \in Texts
    PROVE  /\ Len(text) \in Nat /\ Len(Pieces(pass, text)) = Len(text)
           /\ Forward(Pieces(pass, text), Onward(pass, text))
           /\ \A i \in 1 .. Len(text) : Pieces(pass, text)[i] \in Texts
<1>1. Len(text) \in Nat
  BY LenProperties DEF Texts
<1>2. ASSUME NEW i \in 1 .. Len(text) PROVE Pieces(pass, text)[i] \in Texts
  <2>1. CASE Matches(pass, text, i)
    <3> DEFINE e == EndOf(pass, text, i)
    <3>1. e \in i + 1 .. Len(text)
      BY <2>1, EndMeaning
    <3>2. SubSeq(text, i, e) \in Texts
      <4>1. \A k \in i .. e : text[k] \in Tokens
        BY <1>1, <3>1, ElementOfSeq DEF Texts
      <4>2. i \in Int /\ e \in Int
        BY <1>1, <3>1
      <4> HIDE DEF e
      <4> QED BY <4>1, <4>2, SubSeqProperties DEF Texts
    <3>3. Pieces(pass, text)[i] = Replaced(pass, SubSeq(text, i, e))
      BY <2>1 DEF Pieces
    <3> QED BY <3>2, <3>3, ReplacedType
  <2>2. CASE ~Matches(pass, text, i)
    <3>1. Pieces(pass, text)[i] = <<text[i]>> /\ text[i] \in Tokens
      BY <2>2, ElementOfSeq DEF Pieces, Texts
    <3> QED BY <3>1 DEF Texts
  <2> QED BY <2>1, <2>2
<1>3. Len(Pieces(pass, text)) = Len(text)
  <2>1. Pieces(pass, text) \in [1 .. Len(text) -> Texts]
    BY <1>2 DEF Pieces
  <2> QED BY <1>1, <2>1
<1>4. ASSUME NEW i \in 1 .. Len(text) PROVE Onward(pass, text)[i] \in i + 1 .. Len(text) + 1
  <2>1. CASE Matches(pass, text, i)
    <3>1. EndOf(pass, text, i) \in i + 1 .. Len(text)
      BY <2>1, EndMeaning
    <3>2. Onward(pass, text)[i] = EndOf(pass, text, i) + 1
      BY <2>1 DEF Onward
    <3> QED BY <1>1, <3>1, <3>2
  <2>2. CASE ~Matches(pass, text, i)
    <3>1. Onward(pass, text)[i] = i + 1
      BY <2>2 DEF Onward
    <3> QED BY <1>1, <3>1
  <2> QED BY <2>1, <2>2
<1> QED BY <1>1, <1>2, <1>3, <1>4 DEF Forward

\* What a pass makes of a text is a text.
LEMMA SubType ==
    ASSUME NEW pass \in Passes, NEW text \in Texts
    PROVE  Sub(pass, text) \in Texts
<1>1. \A i \in 1 .. Len(text) + 1 : Tails(Pieces(pass, text), Onward(pass, text))[i] \in Texts
  BY PassForward, TailsType DEF Texts
<1> QED BY <1>1, PassForward DEF Sub

\* A pass over the rest of a text, once it has come to its start.
LEMMA SubOfRest ==
    ASSUME NEW pass \in Passes, NEW m \in Texts, NEW t \in Texts
    PROVE  Tails(Pieces(pass, m \o t), Onward(pass, m \o t))[Len(m) + 1] = Sub(pass, t)
<1> DEFINE text == m \o t
           d == Len(m)
<1>1. /\ d \in Nat /\ Len(t) \in Nat /\ text \in Texts /\ Len(text) = d + Len(t)
      /\ \A i \in 1 .. Len(t) : text[d + i] = t[i]
  <2>1. d \in Nat /\ Len(t) \in Nat
    BY LenProperties DEF Texts
  <2>2. /\ text \in Texts /\ Len(text) = d + Len(t)
        /\ \A i \in 1 .. d + Len(t) : text[i] = IF i <= d THEN m[i] ELSE t[i - d]
    BY ConcatProperties DEF Texts
  <2> HIDE DEF text, d
  <2>3. ASSUME NEW i \in 1 .. Len(t) PROVE text[d + i] = t[i]
    <3> DEFINE x == d + i
    <3>1. x \in 1 .. d + Len(t) /\ ~(x <= d) /\ x - d = i
      BY <2>1
    <3> HIDE DEF x
    <3>2. text[x] = t[i]
      BY <2>2, <3>1
    <3> QED BY <3>2 DEF x
  <2> QED BY <2>1, <2>2, <2>3
<1> HIDE DEF text, d
<1>2. ASSUME NEW i \in 1 .. Len(t)
      PROVE  /\ Pieces(pass, text)[d + i] = Pieces(pass, t)[i]
             /\ Onward(pass, text)[d + i] = d + Onward(pass, t)[i]
  <2>1. d + i \in 1 .. Len(text) /\ text[d + i] = t[i]
    BY <1>1
  <2>2. ASSUME NEW j \in i + 1 .. Len(t)
        PROVE  d + j \in d + i + 1 .. Len(text) /\ text[d + j] = t[j]
    BY <1>1
  <2>3. ASSUME NEW k \in d + i + 1 .. Len(text)
        PROVE  k - d \in i + 1 .. Len(t) /\ text[k] = t[k - d]
    <3>1. k - d \in i + 1 .. Len(t) /\ k - d \in 1 .. Len(t) /\ d + (k - d) = k
      BY <1>1
    <3>2. text[d + (k - d)] = t[k - d]
      BY <1>1, <3>1
    <3> QED BY <3>1, <3>2
  <2>4. Matches(pass, text, d + i) <=> Matches(pass, t, i)
    <3>1. Ends(pass, text, d + i) # {} <=> Ends(pass, t, i) # {}
      BY <2>2, <2>3 DEF Ends
    <3> QED BY <2>1, <3>1 DEF Matches
  <2>5. CASE Matches(pass, t, i)
    <3> DEFINE e == EndOf(pass, t, i)
               f == EndOf(pass, text, d + i)
    <3>1. e \in i + 1 .. Len(t) /\ t[e] \in Closes[pass]
          /\ \A k \in i + 1 .. Len(t) : t[k] \in Closes[pass] => e <= k
      BY <2>5, EndMeaning
    <3>2. f \in d + i + 1 .. Len(text) /\ text[f] \in Closes[pass]
          /\ \A k \in d + i + 1 .. Len(text) : text[k] \in Closes[pass] => f <= k
      BY <1>1, <2>1, <2>4, <2>5, EndMeaning
    <3>3. Pieces(pass, text)[d + i] = Replaced(pass, SubSeq(text, d + i, f))
          /\ Onward(pass, text)[d + i] = f + 1
      BY <2>1, <2>4, <2>5 DEF Pieces, Onward
    <3>4. Pieces(pass, t)[i] = Replaced(pass, SubSeq(t, i, e)) /\ Onward(pass, t)[i] = e + 1
      BY <2>5 DEF Pieces, Onward
    <3> HIDE DEF e, f
    <3>5. f = d + e
      <4>1. d + e \in d + i + 1 .. Len(text) /\ text[d + e] = t[e]
        BY <2>2, <3>1
      <4>2. f <= d + e
        BY <3>1, <3>2, <4>1
      <4>3. f - d \in i + 1 .. Len(t) /\ text[f] = t[f - d]
        BY <2>3, <3>2
      <4>4. e <= f - d
        BY <3>1, <3>2, <4>3
      <4>5. d \in Int /\ e \in Int /\ f \in Int
        BY <3>1, <3>2, <1>1
      <4> QED BY <4>2, <4>4, <4>5
    <3>6. SubSeq(text, d + i, f) = SubSeq(t, i, e)
      <4>1. d + i \in d + 1 .. d + Len(t) /\ f \in d + 1 .. d + Len(t)
            /\ d + i - d = i /\ f - d = e
        BY <1>1, <3>1, <3>5
      <4>2. SubSeq(text, d + i, f) = SubSeq(t, d + i - d, f - d)
        BY <4>1, SubSeqOfConcat2 DEF Texts, text, d
      <4> QED BY <4>1, <4>2
    <3>7. Pieces(pass, text)[d + i] = Pieces(pass, t)[i]
      BY <3>3, <3>4, <3>6
    <3>8. f + 1 = d + (e + 1)
      BY <3>1, <3>5, <1>1
    <3> QED BY <3>3, <3>4, <3>7, <3>8
  <2>6. CASE ~Matches(pass, t, i)
    <3>1. Pieces(pass, text)[d + i] = <<text[d + i]>> /\ Onward(pass, text)[d + i] = d + i + 1
      BY <2>1, <2>4, <2>6 DEF Pieces, Onward
    <3>2. Pieces(pass, t)[i] = <<t[i]>> /\ Onward(pass, t)[i] = i + 1
      BY <2>6 DEF Pieces, Onward
    <3> QED BY <2>1, <3>1, <3>2, <1>1
  <2> QED BY <2>5, <2>6
<1>3. \A i \in 1 .. Len(t) + 1 : Tails(Pieces(pass, text), Onward(pass, text))[d + i]
                                    = Tails(Pieces(pass, t), Onward(pass, t))[i]
  <2> DEFINE P == Pieces(pass, text)
             N == Onward(pass, text)
             Q == Pieces(pass, t)
             M == Onward(pass, t)
  <2>1. /\ Len(P) = Len(text) /\ Len(Q) = Len(t) /\ Forward(P, N) /\ Forward(Q, M)
    BY <1>1, PassForward
  <2>2. \A i \in 1 .. Len(t) : P[d + i] = Q[i] /\ N[d + i] = d + M[i]
    BY <1>2
  <2> HIDE DEF P, N, Q, M
  <2>3. d \in Nat /\ Len(P) = d + Len(Q)
    BY <1>1, <2>1
  <2>4. \A i \in 1 .. Len(Q) : P[d + i] = Q[i] /\ N[d + i] = d + M[i]
    BY <2>1, <2>2
  <2>5. Shifted(P, N, Q, M, d)
    BY <2>3, <2>4 DEF Shifted
  <2>6. \A i \in 1 .. Len(Q) + 1 : Tails(P, N)[d + i] = Tails(Q, M)[i]
    BY <2>1, <2>3, <2>5, TailsAgree
  <2> QED BY <2>1, <2>6 DEF P, N, Q, M
<1>4. Tails(Pieces(pass, text), Onward(pass, text))[d + 1]
        = Tails(Pieces(pass, t), Onward(pass, t))[1]
  BY <1>1, <1>3
<1> QED BY <1>4 DEF Sub, text, d

\* A pass yields its first piece, and then what it makes of the rest.
LEMMA SubOfFirst ==
    ASSUME NEW pass \in Passes, NEW text \in Texts, text # <<>>
    PROVE  Sub(pass, text) = Pieces(pass, text)[1]
             \o Tails(Pieces(pass, text), Onward(pass, text))[Onward(pass, text)[1]]
<1> DEFINE P == Pieces(pass, text)
           N == Onward(pass, text)
<1>1. Len(text) \in Nat \ {0} /\ Len(P) = Len(text) /\ Forward(P, N)
  BY PassForward, EmptySeq DEF Texts
<1> HIDE DEF P, N
<1>2. Tails(P, N)[1] = From(P, N, Tails(P, N), 1)
  BY <1>1, TailsMeaning
<1>3. Tails(P, N)[1] = P[1] \o Tails(P, N)[N[1]]
  <2>1. 1 # Len(P) + 1
    BY <1>1
  <2> QED BY <1>2, <2>1 DEF From
<1> QED BY <1>3 DEF Sub, P, N

\* A text that a pass replaces as a whole.
IsMatch(pass, m) ==
    /\ Len(m) > 1 /\ m[1] \in Opens[pass] /\ m[Len(m)] \in Closes[pass]
    /\ \A i \in 2 .. Len(m) - 1 : m[i] \notin Closes[pass]

\* A pass over a text that begins with a match.
LEMMA SubReplaces ==
    ASSUME NEW pass \in Passes, NEW m \in Texts, NEW t \in Texts, IsMatch(pass, m)
    PROVE  Sub(pass, m \o t) = Replaced(pass, m) \o Sub(pass, t)
<1> DEFINE text == m \o t
           d == Len(m)
<1>1. /\ d \in Nat /\ Len(t) \in Nat /\ text \in Texts /\ Len(text) = d + Len(t)
      /\ \A i \in 1 .. d : text[i] = m[i]
  <2>1. d \in Nat /\ Len(t) \in Nat
    BY LenProperties DEF Texts
  <2>2. /\ text \in Texts /\ Len(text) = d + Len(t)
        /\ \A i \in 1 .. d + Len(t) : text[i] = IF i <= d THEN m[i] ELSE t[i - d]
    BY ConcatProperties DEF Texts
  <2> HIDE DEF text, d
  <2> QED BY <2>1, <2>2
<1>2. /\ d > 1 /\ m[1] \in Opens[pass] /\ m[d] \in Closes[pass]
      /\ \A i \in 2 .. d - 1 : m[i] \notin Closes[pass]
  BY DEF IsMatch
<1>3. SubSeq(text, 1, d) = m
  <2>1. SubSeq(text, 1, d) = SubSeq(m, 1, d)
    BY <1>1, <1>2, SubSeqOfConcat1 DEF Texts
  <2> QED BY <2>1, SubSeqFull DEF Texts
<1> HIDE DEF text, d
<1>4. d \in Ends(pass, text, 1)
  BY <1>1, <1>2 DEF Ends
<1>5. Matches(pass, text, 1)
  BY <1>1, <1>2, <1>4 DEF Matches
<1>6. EndOf(pass, text, 1) = d
  <2> DEFINE e == EndOf(pass, text, 1)
  <2>0. 1 \in 1 .. Len(text) /\ 1 + 1 = 2
    BY <1>1, <1>2
  <2>1. e \in 2 .. Len(text) /\ text[e] \in Closes[pass]
        /\ \A k \in 2 .. Len(text) : text[k] \in Closes[pass] => e <= k
    <3>1. /\ EndOf(pass, text, 1) \in 1 + 1 .. Len(text)
          /\ text[EndOf(pass, text, 1)] \in Closes[pass]
          /\ \A k \in 1 + 1 .. Len(text) :
                text[k] \in Closes[pass] => EndOf(pass, text, 1) <= k
      BY <1>1, <1>5, <2>0, EndMeaning
    <3> QED BY <2>0, <3>1
  <2> HIDE DEF e
  <2>2. e <= d
    BY <1>1, <1>2, <2>1
  <2>3. ~(e < d)
    BY <1>1, <1>2, <2>1
  <2> QED BY <1>1, <2>1, <2>2, <2>3 DEF e
<1>7. Pieces(pass, text)[1] = Replaced(pass, m) /\ Onward(pass, text)[1] = d + 1
  <2>1. 1 \in 1 .. Len(text)
    BY <1>1, <1>2
  <2>2. /\ Pieces(pass, text)[1] = Replaced(pass, SubSeq(text, 1, EndOf(pass, text, 1)))
        /\ Onward(pass, text)[1] = EndOf(pass, text, 1) + 1
    BY <1>5, <2>1 DEF Pieces, Onward
  <2> QED BY <1>3, <1>6, <2>2
<1>8. text # <<>>
  BY <1>1, <1>2, EmptySeq DEF Texts
<1>9. Sub(pass, text) = Pieces(pass, text)[1]
             \o Tails(Pieces(pass, text), Onward(pass, text))[Onward(pass, text)[1]]
  BY <1>1, <1>8, SubOfFirst
<1>10. Tails(Pieces(pass, text), Onward(pass, text))[d + 1] = Sub(pass, t)
  BY SubOfRest DEF text, d
<1> QED BY <1>7, <1>9, <1>10 DEF text

\* ... and over one that begins with anything but an opening.
LEMMA SubSkips ==
    ASSUME NEW pass \in Passes, NEW x \in Tokens, x \notin Opens[pass], NEW t \in Texts
    PROVE  Sub(pass, <<x>> \o t) = <<x>> \o Sub(pass, t)
<1> DEFINE m == <<x>>
           text == m \o t
<1>1. m \in Texts /\ Len(m) = 1 /\ m[1] = x
  BY DEF Texts
<1> HIDE DEF m
<1>2. text \in Texts /\ Len(text) \in Nat /\ Len(text) >= 1 /\ text[1] = x
  <2>1. Len(t) \in Nat
    BY LenProperties DEF Texts
  <2>2. /\ text \in Texts /\ Len(text) = Len(m) + Len(t)
        /\ \A i \in 1 .. Len(m) + Len(t) :
              text[i] = IF i <= Len(m) THEN m[i] ELSE t[i - Len(m)]
    BY <1>1, ConcatProperties DEF Texts
  <2> HIDE DEF text
  <2> QED BY <1>1, <2>1, <2>2
<1> HIDE DEF text
<1>3. ~Matches(pass, text, 1)
  BY <1>2 DEF Matches
<1>4. Pieces(pass, text)[1] = m /\ Onward(pass, text)[1] = 2
  BY <1>2, <1>3 DEF Pieces, Onward, m
<1>5. text # <<>>
  BY <1>2, EmptySeq DEF Texts
<1>6. Sub(pass, text) = Pieces(pass, text)[1]
             \o Tails(Pieces(pass, text), Onward(pass, text))[Onward(pass, text)[1]]
  BY <1>2, <1>5, SubOfFirst
<1>7. Tails(Pieces(pass, text), Onward(pass, text))[2] = Sub(pass, t)
  <2>1. Tails(Pieces(pass, text), Onward(pass, text))[Len(m) + 1] = Sub(pass, t)
    BY <1>1, SubOfRest DEF text
  <2> QED BY <1>1, <2>1
<1> QED BY <1>4, <1>6, <1>7 DEF text, m

\* Texts may be joined in any order of the joins.
LEMMA TextsAssociative ==
    ASSUME NEW p \in Texts, NEW q \in Texts, NEW u \in Texts
    PROVE  (p \o q) \o u = p \o (q \o u)
<1>1. p \in Seq(Tokens) /\ q \in Seq(Tokens) /\ u \in Seq(Tokens)
  BY DEF Texts
<1> QED BY <1>1

\* ... and over one that begins with a stretch without openings.
LEMMA SubKeeps ==
    ASSUME NEW pass \in Passes, NEW b \in Texts, NEW t \in Texts,
           \A i \in 1 .. Len(b) : b[i] \notin Opens[pass]
    PROVE  Sub(pass, b \o t) = b \o Sub(pass, t)
<1> DEFINE Bare(c) == \A i \in 1 .. Len(c) : c[i] \notin Opens[pass]
           Stays(c) == Sub(pass, c \o t) = c \o Sub(pass, t)
           T == {k \in Nat : \E c \in Texts : Len(c) = k /\ Bare(c) /\ ~Stays(c)}
<1>1. ASSUME T # {} PROVE FALSE
  <2>1. PICK k \in T : \A l \in T : k <= l
    BY <1>1, LeastNat
  <2>2. PICK c \in Texts : Len(c) = k /\ Bare(c) /\ ~Stays(c)
    BY <2>1
  <2>3. CASE c = <<>>
    <3>1. c \o t = t /\ c \o Sub(pass, t) = Sub(pass, t)
      BY <2>3, SubType, ConcatEmptySeq DEF Texts
    <3> QED BY <2>2, <3>1
  <2>4. CASE c # <<>>
    <3> DEFINE x == Head(c)
               r == Tail(c)
    <3>1. x \in Tokens /\ r \in Texts /\ Len(r) = k - 1 /\ k \in Nat \ {0}
          /\ \A i \in 1 .. Len(r) : r[i] = c[i + 1]
      BY <2>2, <2>4, HeadTailProperties, EmptySeq DEF Texts
    <3>2. x = c[1] /\ c = <<x>> \o r
      <4>1. SubSeq(c, 1, Len(c)) = <<c[1]>> \o SubSeq(c, 2, Len(c))
        BY <2>2, <3>1, SubSeqRecursiveFirst DEF Texts
      <4>2. SubSeq(c, 1, Len(c)) = c /\ r = SubSeq(c, 2, Len(c))
        BY <2>2, <2>4, SubSeqFull, TailIsSubSeq DEF Texts
      <4>3. x = c[1]
        BY <2>2, <2>4, <3>1
      <4> QED BY <4>1, <4>2, <4>3
    <3> HIDE DEF x, r
    <3>3. x \notin Opens[pass] /\ Bare(r)
      <4>1. 1 \in 1 .. Len(c) /\ \A i \in 1 .. Len(r) : i + 1 \in 1 .. Len(c)
        BY <2>2, <3>1
      <4> QED BY <2>2, <3>1, <3>2, <4>1
    <3>4. Stays(r)
      <4>1. k - 1 \in Nat /\ ~(k <= k - 1)
        BY <3>1
      <4>2. k - 1 \notin T
        BY <2>1, <4>1
      <4> QED BY <3>1, <3>3, <4>1, <4>2
    <3>5. <<x>> \in Texts
      BY <3>1 DEF Texts
    <3>6. c \o t = <<x>> \o (r \o t) /\ r \o t \in Texts
      BY <3>1, <3>2, <3>5, ConcatAssociative, ConcatProperties DEF Texts
    <3>7. Sub(pass, <<x>> \o (r \o t)) = <<x>> \o Sub(pass, r \o t)
      BY <3>1, <3>3, <3>6, SubSkips
    <3>8. <<x>> \o (r \o Sub(pass, t)) = (<<x>> \o r) \o Sub(pass, t)
      <4>1. Sub(pass, t) \in Texts
        BY SubType
      <4> QED BY <3>1, <3>5, <4>1, TextsAssociative
    <3>9. Stays(c)
      BY <3>2, <3>4, <3>6, <3>7, <3>8
    <3> QED BY <2>2, <3>9
  <2> QED BY <2>3, <2>4
<1>2. Bare(b)
  OBVIOUS
<1>3. Len(b) \in Nat
  BY LenProperties DEF Texts
<1> HIDE DEF Bare, Stays
<1>4. Stays(b)
  BY <1>1, <1>2, <1>3
<1> QED BY <1>4 DEF Stays

\* A pass makes nothing of the empty text.
LEMMA SubOfNothing ==
    ASSUME NEW pass \in Passes PROVE Sub(pass, <<>>) = <<>>
<1> DEFINE P == Pieces(pass, <<>>)
           N == Onward(pass, <<>>)
<1>1. <<>> \in Texts /\ Len(<<>>) = 0
  BY EmptySeq DEF Texts
<1>2. Forward(P, N) /\ Len(P) = 0
  BY <1>1, PassForward
<1> HIDE DEF P, N
<1>3. Tails(P, N)[1] = From(P, N, Tails(P, N), 1)
  BY <1>2, TailsMeaning
<1> QED BY <1>2, <1>3 DEF From, Sub, P, N

-----------------------------------------------------------------------------
IsBlock(b) ==
    /\ b \in [text : Texts, kept : Texts]
    /\ IsProse(b) \/ IsFence(b) \/ IsFold(b) \/ IsCut(b)

\* What each pass makes of a text's first block.
LEMMA BlockServed ==
    ASSUME NEW b, IsBlock(b), NEW t \in Texts
    PROVE  RedactLesson(b.text \o t) = b.kept \o RedactLesson(t)
<1> DEFINE m == b.text
           c == Sub("cut", t)
           f == Sub("fold", c)
           s == Sub("fence", f)
<1>1. m \in Texts /\ b.kept \in Texts /\ c \in Texts /\ f \in Texts /\ s \in Texts
  BY SubType DEF IsBlock, Passes
<1>2. Len(m) \in Nat /\ \A i \in 1 .. Len(m) : m[i] \in Tokens
  BY <1>1, LenProperties, ElementOfSeq DEF Texts
<1>3. /\ Opens["cut"] = {"<cut>"} /\ Opens["fold"] = {"<details>"} /\ Opens["fence"] = Fences
      /\ Closes["cut"] = {"</cut>"} /\ Closes["fold"] = {"</details>"} /\ Closes["fence"] = Fences
  BY DEF Opens, Closes
<1>4. "cut" \in Passes /\ "fold" \in Passes /\ "fence" \in Passes
  BY DEF Passes
<1>5. Words \cap {"<cut>", "</cut>", "<details>", "</details>"} = {} /\ Words \cap Fences = {}
  BY LessonAssumption DEF Markers
<1>6. RedactLesson(t) = s /\ RedactLesson(m \o t) = Sub("fence", Sub("fold", Sub("cut", m \o t)))
  BY DEF RedactLesson
<1> HIDE DEF m, c, f, s
<1>7. CASE IsProse(b)
  <2>1. \A i \in 1 .. Len(m) : m[i] \in Words
    BY <1>7 DEF IsProse, m
  <2>2. Sub("cut", m \o t) = m \o c
    BY <1>1, <1>3, <1>4, <1>5, <2>1, SubKeeps DEF c
  <2>3. Sub("fold", m \o c) = m \o f
    BY <1>1, <1>3, <1>4, <1>5, <2>1, SubKeeps DEF f
  <2>4. Sub("fence", m \o f) = m \o s
    BY <1>1, <1>3, <1>4, <1>5, <2>1, SubKeeps DEF s
  <2> QED BY <1>6, <1>7, <2>2, <2>3, <2>4 DEF IsProse, m
<1>8. CASE IsFence(b)
  <2>1. /\ Len(m) > 1 /\ m[1] \in Fences /\ m[Len(m)] = "fence"
        /\ \A i \in 2 .. Len(m) - 1 : m[i] \in Words
    BY <1>8 DEF IsFence, Encloses, m
  <2>2. \A i \in 1 .. Len(m) : m[i] \in Words \cup Fences
    <3>1. ASSUME NEW i \in 1 .. Len(m) PROVE i = 1 \/ i = Len(m) \/ i \in 2 .. Len(m) - 1
      BY <1>2
    <3>2. "fence" \in Fences
      BY DEF Fences
    <3> QED BY <2>1, <3>1, <3>2
  <2>3. Sub("cut", m \o t) = m \o c
    BY <1>1, <1>3, <1>4, <1>5, <2>2, SubKeeps DEF c, Fences
  <2>4. Sub("fold", m \o c) = m \o f
    BY <1>1, <1>3, <1>4, <1>5, <2>2, SubKeeps DEF f, Fences
  <2>5. Sub("fence", m \o f) = Replaced("fence", m) \o s
    <3>1. m[Len(m)] \in Fences
      BY <2>1 DEF Fences
    <3>2. \A i \in 2 .. Len(m) - 1 : m[i] \notin Fences
      BY <1>5, <2>1
    <3>3. IsMatch("fence", m)
      BY <1>3, <2>1, <3>1, <3>2 DEF IsMatch
    <3> QED BY <1>1, <1>4, <3>3, SubReplaces DEF s
  <2>6. Replaced("fence", m) = b.kept
    BY <1>8 DEF Replaced, RedactFence, IsFence, m
  <2> QED BY <1>6, <2>3, <2>4, <2>5, <2>6 DEF m
<1>9. CASE IsFold(b)
  <2>1. /\ Len(m) > 1 /\ m[1] = "<details>" /\ m[Len(m)] = "</details>"
        /\ \A i \in 2 .. Len(m) - 1 : m[i] \in Words \cup Fences \cup {"<summary>"}
    BY <1>9 DEF IsFold, Encloses, m
  <2>2. \A i \in 1 .. Len(m) :
            m[i] \in Words \cup Fences \cup {"<summary>", "<details>", "</details>"}
    BY <1>2, <2>1
  <2>3. Sub("cut", m \o t) = m \o c
    <3>1. \A i \in 1 .. Len(m) : m[i] \notin Opens["cut"]
      BY <1>3, <1>5, <2>2 DEF Fences
    <3> QED BY <1>1, <1>4, <3>1, SubKeeps DEF c
  <2>4. Sub("fold", m \o c) = Replaced("fold", m) \o f
    <3>1. \A i \in 2 .. Len(m) - 1 : m[i] \notin Closes["fold"]
      BY <1>3, <1>5, <2>1 DEF Fences
    <3>2. IsMatch("fold", m)
      BY <1>3, <2>1, <3>1 DEF IsMatch
    <3> QED BY <1>1, <1>4, <3>2, SubReplaces DEF f
  <2>5. Replaced("fold", m) = b.kept
    BY <1>9 DEF Replaced, Folded, IsFold, m
  <2>6. Sub("fence", b.kept \o f) = b.kept \o s
    <3>1. \A i \in 1 .. Len(b.kept) : b.kept[i] \notin Opens["fence"]
      <4>1. CASE m[2] = "<summary>"
        <5>1. b.kept = <<"<details>", "<summary>", "</details>">>
          BY <1>9, <4>1 DEF IsFold, m
        <5>2. Len(b.kept) = 3 /\ b.kept[1] = "<details>" /\ b.kept[2] = "<summary>"
              /\ b.kept[3] = "</details>"
          BY <5>1
        <5>3. \A i \in 1 .. 3 : i = 1 \/ i = 2 \/ i = 3
          OBVIOUS
        <5> QED BY <1>3, <5>2, <5>3 DEF Fences
      <4>2. CASE m[2] # "<summary>"
        <5>1. b.kept = <<"<details>", "</details>">>
          BY <1>9, <4>2 DEF IsFold, m
        <5>2. Len(b.kept) = 2 /\ b.kept[1] = "<details>" /\ b.kept[2] = "</details>"
          BY <5>1
        <5>3. \A i \in 1 .. 2 : i = 1 \/ i = 2
          OBVIOUS
        <5> QED BY <1>3, <5>2, <5>3 DEF Fences
      <4> QED BY <4>1, <4>2
    <3> QED BY <1>1, <1>4, <3>1, SubKeeps DEF s
  <2> QED BY <1>6, <2>3, <2>4, <2>5, <2>6 DEF m
<1>10. CASE IsCut(b)
  <2>1. /\ Len(m) > 1 /\ m[1] = "<cut>" /\ m[Len(m)] = "</cut>"
        /\ \A i \in 2 .. Len(m) - 1 : m[i] # "</cut>"
    BY <1>10 DEF IsCut, Encloses, m
  <2>2. Sub("cut", m \o t) = Replaced("cut", m) \o c
    <3>1. IsMatch("cut", m)
      BY <1>3, <2>1 DEF IsMatch
    <3> QED BY <1>1, <1>4, <3>1, SubReplaces DEF c
  <2>3. Replaced("cut", m) = <<>> /\ b.kept = <<>>
    BY <1>10 DEF Replaced, IsCut
  <2>4. <<>> \o c = c /\ <<>> \o s = s
    BY <1>1, ConcatEmptySeq DEF Texts
  <2> QED BY <1>6, <2>2, <2>3, <2>4 DEF f, s, m
<1> QED BY <1>7, <1>8, <1>9, <1>10 DEF IsBlock, m

\* Blocks put together: the first, and then the others.
LEMMA FlatTails ==
    ASSUME NEW parts \in Seq(Texts)
    PROVE  LET P == Tails(parts, [i \in DOMAIN parts |-> i + 1]) IN
           /\ P[Len(parts) + 1] = <<>>
           /\ \A i \in 1 .. Len(parts) : P[i] = parts[i] \o P[i + 1]
           /\ \A i \in 1 .. Len(parts) + 1 : P[i] \in Texts
<1> DEFINE N == [i \in DOMAIN parts |-> i + 1]
           P == Tails(parts, N)
           n == Len(parts)
<1>1. n \in Nat /\ DOMAIN parts = 1 .. n /\ \A i \in 1 .. n : parts[i] \in Texts
  BY LenProperties, ElementOfSeq
<1>2. \A i \in 1 .. n : N[i] = i + 1
  BY <1>1
<1>3. Forward(parts, N)
  BY <1>1, <1>2 DEF Forward
<1> HIDE DEF N
<1>4. \A i \in 1 .. n + 1 : P[i] = From(parts, N, P, i)
  BY <1>3, TailsMeaning
<1>5. \A i \in 1 .. n + 1 : P[i] \in Texts
  BY <1>1, <1>3, TailsType DEF Texts
<1> HIDE DEF P
<1>6. P[n + 1] = <<>>
  BY <1>1, <1>4 DEF From
<1>7. ASSUME NEW i \in 1 .. n PROVE P[i] = parts[i] \o P[i + 1]
  <2>1. i # n + 1 /\ i \in 1 .. n + 1
    BY <1>1
  <2> QED BY <1>2, <1>4, <2>1 DEF From
<1> QED BY <1>5, <1>6, <1>7 DEF P, N

\* The three passes over a README, by induction over its last blocks.
LEMMA ReadmeServed ==
    ASSUME NEW blocks, IsReadme(blocks)
    PROVE  RedactLesson(TextOf(blocks)) = KeptOf(blocks)
<1> DEFINE A == [i \in DOMAIN blocks |-> blocks[i].text]
           B == [i \in DOMAIN blocks |-> blocks[i].kept]
           P == Tails(A, [i \in DOMAIN A |-> i + 1])
           K == Tails(B, [i \in DOMAIN B |-> i + 1])
           n == Len(blocks)
<1>1. n \in Nat /\ DOMAIN blocks = 1 .. n /\ \A i \in 1 .. n : IsBlock(blocks[i])
  <2>1. blocks \in Seq([text : Texts, kept : Texts])
    BY DEF IsReadme, Texts
  <2>2. n \in Nat /\ DOMAIN blocks = 1 .. n
    BY <2>1, LenProperties
  <2>3. \A i \in 1 .. n : blocks[i] \in [text : Texts, kept : Texts]
    BY <2>1, ElementOfSeq
  <2> QED BY <2>2, <2>3 DEF IsReadme, IsBlock
<1>2. /\ A \in Seq(Texts) /\ Len(A) = n /\ \A i \in 1 .. n : A[i] = blocks[i].text
      /\ B \in Seq(Texts) /\ Len(B) = n /\ \A i \in 1 .. n : B[i] = blocks[i].kept
  <2>1. A \in [1 .. n -> Texts] /\ B \in [1 .. n -> Texts]
    BY <1>1 DEF IsBlock
  <2> QED BY <1>1, <2>1
<1> HIDE DEF A, B
<1>3. /\ P[n + 1] = <<>> /\ \A i \in 1 .. n : P[i] = A[i] \o P[i + 1]
      /\ \A i \in 1 .. n + 1 : P[i] \in Texts
      /\ K[n + 1] = <<>> /\ \A i \in 1 .. n : K[i] = B[i] \o K[i + 1]
  BY <1>2, FlatTails
<1>4. TextOf(blocks) = P[1] /\ KeptOf(blocks) = K[1]
  BY DEF TextOf, KeptOf, Flat, A, B
<1> HIDE DEF P, K, n
<1> DEFINE T == {k \in Nat : k <= n /\ RedactLesson(P[n + 1 - k]) # K[n + 1 - k]}
<1>5. ASSUME T # {} PROVE FALSE
  <2>1. PICK k \in T : \A l \in T : k <= l
    BY <1>5, LeastNat
  <2>2. CASE k = 0
    <3>1. RedactLesson(<<>>) = <<>>
      BY SubOfNothing DEF RedactLesson, Passes
    <3>2. n + 1 - k = n + 1
      BY <2>2, <1>1
    <3> QED BY <1>3, <2>1, <3>1, <3>2
  <2>3. CASE k # 0
    <3> DEFINE i == n + 1 - k
    <3>1. i \in 1 .. n /\ n + 1 - (k - 1) = i + 1 /\ i + 1 \in 1 .. n + 1
          /\ k - 1 \in Nat /\ k - 1 <= n /\ ~(k <= k - 1)
      BY <2>1, <2>3, <1>1
    <3>2. RedactLesson(P[i + 1]) = K[i + 1]
      BY <2>1, <3>1
    <3>3. RedactLesson(P[i]) # K[i]
      BY <2>1
    <3> HIDE DEF i
    <3>4. RedactLesson(blocks[i].text \o P[i + 1]) = blocks[i].kept \o RedactLesson(P[i + 1])
      BY <1>1, <1>3, <3>1, BlockServed
    <3>5. P[i] = blocks[i].text \o P[i + 1] /\ K[i] = blocks[i].kept \o K[i + 1]
      BY <1>2, <1>3, <3>1
    <3> QED BY <3>2, <3>3, <3>4, <3>5
  <2> QED BY <2>2, <2>3
<1>6. n \in Nat /\ n <= n /\ n + 1 - n = 1
  BY <1>1 DEF n
<1>7. n \notin T
  BY <1>5
<1>8. RedactLesson(P[n + 1 - n]) = K[n + 1 - n]
  BY <1>6, <1>7
<1> QED BY <1>4, <1>6, <1>8

\* What the tutor serves of a README is what is to be served of its blocks, for
\* any number of blocks of any length.
THEOREM LessonsAreRedacted == ReviewSpec => []RedactionExact
<1>1. ASSUME Earned PROVE RedactionExact
  <2> SUFFICES ASSUME Judged("lesson") PROVE result = KeptOf(proposal.blocks)
    BY DEF RedactionExact
  <2>1. result = RedactLesson(TextOf(proposal.blocks)) /\ IsReadme(proposal.blocks)
    BY <1>1, ProposalsAssumption DEF Earned, Judged
  <2> QED BY <2>1, ReadmeServed
<1> QED BY <1>1, EarnedInvariant, PTL

=============================================================================
