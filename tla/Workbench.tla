----------------------------- MODULE Workbench ------------------------------
(***************************************************************************)
(* A learner's clone: the graders labs/m0/grade.py, labs/m1/grade.py,      *)
(* labs/m6/grade.py and formal/cross_layer.py, scripts/progress.py, which  *)
(* runs them one after the other, and mcp/tutor_server.py, which runs one  *)
(* program per call.  The learner edits, and docker comes and goes, while  *)
(* they run; the graders share nothing but the files they read.            *)
(***************************************************************************)
EXTENDS Naturals, Sequences

CONSTANTS
    MODULES,     \* module -> [lesson, spec: its files, hints: its grader has --hint]
    NOCLUSTER,   \* the modules with a grader to run here
    AnswerKeys,  \* the files that no tool may read
    None

\* The parts of each module's work, and what is right for each of them.
PartsOf == [m0 |-> {"policies"}, m1 |-> {"workload"}, m6 |-> {"agent", "model"}, m7 |-> {}]
Parts == UNION {PartsOf[m] : m \in DOMAIN PartsOf}

\* policies: passes no suite, the core one, both, or is the answer key, which
\* passes the core suite alone.  workload: with findings, with skip
\* annotations over them, or fixed.
Contents(p) ==
    CASE p = "policies" -> {"poor", "core", "copy", "right"}
      [] p = "workload" -> {"poor", "hidden", "right"}
      [] OTHER -> {"poor", "right"}
Right(p) == IF p = "workload" THEN {"hidden", "right"} ELSE {"right"}

ASSUME WorkbenchAssumption ==
    /\ NOCLUSTER = DOMAIN PartsOf /\ NOCLUSTER \subseteq DOMAIN MODULES
    /\ \A m \in DOMAIN MODULES : None \notin MODULES[m].lesson \cup MODULES[m].spec

VARIABLES
    work,       \* part -> its content
    docker,     \* "absent", "down" or "up"
    installed,  \* whether the graders' dependencies are
    job,        \* the program run for a caller, with the modules it has left
    grader,     \* the grader underway: its next step and what it found so far
    said,       \* what the last grader ended with
    reply,      \* the tutor's last answer
    been,       \* history: the contents each part had since the grader began
    happened,   \* history: the states docker had since, and what did not work:
                \* "checker", "container", or with no daemon "daemon"
    orphan      \* whether a grader goes on whose caller was killed

vars == <<work, docker, installed, job, grader, said, reply, been, happened, orphan>>
history == <<been, happened, orphan>>

Nothing == [p \in Parts |-> {}]

Init ==
    /\ work = [p \in Parts |-> "poor"]
    /\ docker \in {"absent", "up"} /\ installed \in BOOLEAN
    /\ job = None /\ grader = None /\ said = None /\ reply = None
    /\ been = Nothing /\ happened = {} /\ orphan = FALSE

-----------------------------------------------------------------------------
\* The learner edits a file; docker's daemon stops or starts.
Edit(p, c) ==
    /\ c # work[p]
    /\ work' = [work EXCEPT ![p] = c]
    /\ been' = IF grader = None \/ been[p] = {} THEN been
               ELSE [been EXCEPT ![p] = @ \cup {c}]
    /\ UNCHANGED <<docker, installed, job, grader, said, reply, happened, orphan>>

Daemon ==
    /\ docker # "absent"
    /\ docker' = IF docker = "up" THEN "down" ELSE "up"
    /\ happened' = IF grader = None THEN happened ELSE happened \cup {docker'}
    /\ UNCHANGED <<work, installed, job, grader, said, reply, been, orphan>>

-----------------------------------------------------------------------------
(***************************************************************************)
(* Calls: progress.py from a terminal, and the tutor's tools.              *)
(***************************************************************************)
Run(caller, program, modules) ==
    /\ job = None
    /\ job' = [caller |-> caller, program |-> program, left |-> modules]
    /\ reply' = None /\ said' = None
    /\ UNCHANGED <<work, docker, installed, grader, history>>

Progress == <<"m0", "m1", "m6", "m7">>
ListProgress(caller) == Run(caller, "progress", Progress)

Grade(m) == m \in NOCLUSTER /\ Run("tutor", "grade", <<m>>)
Hint(m) == m \in NOCLUSTER /\ MODULES[m].hints /\ Run("tutor", "hint", <<m>>)

Answer(a) ==
    /\ job = None /\ reply' = a
    /\ UNCHANGED <<work, docker, installed, job, grader, said, history>>

\* read_guarded(): an answer key raises instead.
Read(files) == Answer(IF files \cap AnswerKeys # {} THEN "refused" ELSE "text")

\* The answers that run nothing.
Tell(m) ==
    IF m \notin DOMAIN MODULES THEN Answer("unknown")
    ELSE \/ m \notin NOCLUSTER /\ Answer("cluster")
         \/ ~MODULES[m].hints /\ Answer("no hint")
         \/ MODULES[m].spec = {} /\ Answer("no spec")
         \/ MODULES[m].spec # {} /\ Read(MODULES[m].spec)
         \/ Read(MODULES[m].lesson)

-----------------------------------------------------------------------------
(***************************************************************************)
(* A grader: its steps, one for each look at a file or at docker.          *)
(***************************************************************************)
Module == Head(job.left)
At(m, step) == grader # None /\ Module = m /\ grader.step = step

FirstStep == [m0 |-> "judge", m1 |-> "scan", m6 |-> "judge", m7 |-> "lint"]

StartGrader ==
    /\ job # None /\ job.left # <<>> /\ grader = None
    /\ grader' = [step |-> FirstStep[Module], rc |-> 0]
    /\ said' = None
    /\ been' = [p \in Parts |-> IF p \in PartsOf[Module] THEN {work[p]} ELSE {}]
    /\ happened' = {docker}
    /\ UNCHANGED <<work, docker, installed, job, reply, orphan>>

ContinueWith(step, rc) ==
    /\ grader' = [step |-> step, rc |-> rc]
    /\ UNCHANGED <<work, docker, installed, job, said, reply, been, orphan>>

\* A slip: the sentinel of a skipped part taken for the exit code.
MarkBySentinel(rc, skip) == IF rc = 2 THEN "part" ELSE IF rc = 0 THEN "done" ELSE "todo"

\* progress.py: the mark of a grader that ended with rc and printed `SKIP:' or not.
Mark(rc, skip) == IF rc # 0 THEN "todo" ELSE IF skip THEN "part" ELSE "done"

Finish(rc, skip, graduated) ==
    /\ said' = [module |-> Module, program |-> job.program, graduated |-> graduated,
                mark |-> Mark(rc, skip), timedOut |-> FALSE]
    /\ grader' = None
    /\ job' = [job EXCEPT !.left = Tail(@)]
    /\ UNCHANGED <<work, docker, installed, reply, been, orphan>>

\* labs/m0/grade.py: progress.py asks for both suites, the tutor for the core.
Suites == IF job.program = "progress" THEN {"right"} ELSE {"core", "copy", "right"}

JudgePolicies ==
    /\ At("m0", "judge") /\ UNCHANGED happened
    /\ IF installed
       THEN ContinueWith("compare", IF work["policies"] \in Suites THEN 0 ELSE 1)
       ELSE Finish(2, FALSE, FALSE)

\* The file is read again, to be compared with the answer key.
Compare ==
    /\ At("m0", "compare") /\ UNCHANGED happened
    /\ LET rc == IF work["policies"] = "copy" THEN 1 ELSE grader.rc
       IN  Finish(rc, FALSE, rc = 0 /\ job.program = "progress")

\* labs/m1/grade.py: checkov counts what is not skipped, or breaks off without
\* a count.  (The file is also read before; that only prints a warning of skip
\* annotations.)
Scan ==
    /\ At("m1", "scan")
    /\ \/ /\ UNCHANGED happened
          /\ LET rc == IF ~installed THEN 2 ELSE IF work["workload"] = "poor" THEN 1 ELSE 0
             IN  Finish(rc, FALSE, rc = 0)
       \/ happened' = happened \cup {"checker"} /\ Finish(2, FALSE, FALSE)

\* labs/m6/grade.py, Part A.  (--hint is no part's name: it grades nothing.)
JudgeAgent ==
    /\ At("m6", "judge") /\ UNCHANGED happened
    /\ IF job.program = "hint" THEN Finish(0, FALSE, FALSE)
       ELSE ContinueWith("docker", IF ~installed THEN 2
                                   ELSE IF work["agent"] = "right" THEN 0 ELSE 1)

\* The exit code, from those of both parts: a skip (2) of Part B is no failure.
Exit(agent, rebac) == IF agent # 0 \/ rebac = 1 THEN 1 ELSE 0
FinishBoth(rebac) ==
    Finish(Exit(grader.rc, rebac), rebac = 2, grader.rc = 0 /\ rebac = 0)

AskDockerNot ==  \* a slip: Part B without asking for the daemon
    /\ At("m6", "docker") /\ UNCHANGED happened
    /\ IF docker = "absent" THEN FinishBoth(2) ELSE ContinueWith("model", grader.rc)

\* Part B: which docker, docker info.
AskDocker ==
    /\ At("m6", "docker") /\ UNCHANGED happened
    /\ IF docker = "up" THEN ContinueWith("model", grader.rc) ELSE FinishBoth(2)

RunModelSkip ==  \* a slip: a container that does not run passes as skipped
    /\ At("m6", "model") /\ UNCHANGED happened
    /\ FinishBoth(IF docker = "up" /\ work["model"] # "right" THEN 1 ELSE 0)

\* docker run ... model test: a container that does not run counts as a failure.
RunModel ==
    /\ At("m6", "model")
    /\ \/ /\ docker = "up" /\ UNCHANGED happened
          /\ FinishBoth(IF work["model"] = "right" THEN 0 ELSE 1)
       \/ /\ happened' = happened \cup {IF docker = "up" THEN "container" ELSE "daemon"}
          /\ FinishBoth(1)

\* formal/cross_layer.py reads none of the learner's files.
LintReference ==
    /\ At("m7", "lint") /\ UNCHANGED happened
    /\ Finish(IF installed THEN 0 ELSE 1, FALSE, FALSE)

GraderStep ==
    JudgePolicies \/ Compare \/ Scan \/ JudgeAgent \/ AskDocker \/ RunModel \/ LintReference

-----------------------------------------------------------------------------
\* progress.py gives each grader 300 s.  (Under the tutor it has not got them.)
GraderTimeout ==
    /\ grader # None /\ job.caller = "terminal"
    /\ said' = [module |-> Module, program |-> job.program, graduated |-> FALSE,
                mark |-> "todo", timedOut |-> TRUE]
    /\ grader' = None /\ job' = [job EXCEPT !.left = Tail(@)]
    /\ UNCHANGED <<work, docker, installed, reply, history>>

CallTimeoutGrade ==  \* a slip: list_progress without a limit
    /\ job # None /\ job.caller = "tutor" /\ job.program # "progress"
    /\ job' = None /\ grader' = None /\ said' = None /\ reply' = "failed"
    /\ UNCHANGED <<work, docker, installed, history>>

CallTimeoutUnkilled ==  \* a slip: the program is left running
    /\ job # None /\ job.caller = "tutor"
    /\ job' = None /\ said' = None /\ reply' = "failed"
    /\ UNCHANGED <<work, docker, installed, grader, history>>

\* _run() gives a whole call 180 s and then kills the program it called: the
\* grader itself, or progress.py, whose grader goes on with nobody to read it.
CallTimeout ==
    /\ job # None /\ job.caller = "tutor"
    /\ job' = None /\ grader' = None /\ said' = None /\ reply' = "failed"
    /\ orphan' = (orphan \/ (job.program = "progress" /\ grader # None))
    /\ UNCHANGED <<work, docker, installed, been, happened>>

\* (A bound: of several such graders the last to end counts.  It writes nothing.)
OrphanEnds ==
    /\ orphan /\ orphan' = FALSE
    /\ UNCHANGED <<work, docker, installed, job, grader, said, reply, been, happened>>

EndJob ==
    /\ job # None /\ job.left = <<>>
    /\ job' = None
    /\ reply' = IF job.caller = "tutor" THEN "output" ELSE reply
    /\ UNCHANGED <<work, docker, installed, grader, said, history>>

Next ==
    \/ \E p \in Parts : \E c \in Contents(p) : Edit(p, c)
    \/ Daemon
    \/ \E caller \in {"terminal", "tutor"} : ListProgress(caller)
    \/ \E m \in NOCLUSTER : Grade(m) \/ Hint(m)
    \/ \E m \in DOMAIN MODULES \cup {"m99"} : Tell(m)
    \/ StartGrader \/ GraderStep \/ GraderTimeout \/ CallTimeout \/ OrphanEnds \/ EndJob

Spec == Init /\ [][Next]_vars

\* The limits of time run out, and what starts and ends a grader goes on; a
\* grader itself may hang.
Fairness ==
    /\ WF_vars(StartGrader) /\ WF_vars(EndJob)
    /\ WF_vars(GraderTimeout) /\ WF_vars(CallTimeout)

FairSpec == Spec /\ Fairness

-----------------------------------------------------------------------------
\* The steps, histories and answers that belong to the program underway; the
\* grader that a job waits for ends with it.
TypeOK ==
    /\ \A p \in Parts : work[p] \in Contents(p) /\ been[p] \subseteq Contents(p)
    /\ docker \in {"absent", "down", "up"} /\ installed \in BOOLEAN
    /\ happened \subseteq {"absent", "down", "up", "checker", "container", "daemon"}
    /\ orphan \in BOOLEAN
    /\ job # None => job.left \in {SubSeq(Progress, i, 4) : i \in 1 .. 5}
                                     \cup {<<m>> : m \in NOCLUSTER}
    /\ grader # None => job # None /\ job.left # <<>> /\ said = None
    /\ reply \in {None, "unknown", "cluster", "no hint", "no spec", "text", "refused",
                  "output", "failed"}

Marked(m) == said # None /\ said.program = "progress" /\ said.mark = m /\ said.module # "m7"

\* A module that progress.py shows as done was right: every part of it was so
\* at some moment of the grading, whatever was edited in between, the copy of
\* the answer key included; and one that it shows in part is m6, with a right
\* Part A and a docker that was not there.
DoneEarned ==
    /\ Marked("done") => \A p \in PartsOf[said.module] : been[p] \cap Right(p) # {}
    /\ Marked("part") =>
           /\ said.module = "m6" /\ "right" \in been["agent"]
           /\ happened \cap {"absent", "down"} # {}

\* A module is not shown as todo without a cause: work that was wrong at some
\* moment, missing dependencies, a limit of time, a checkov that broke off, or
\* a docker run that failed after docker had answered.  A docker that does not
\* answer is none; one that stops between the two counts against the learner,
\* although labs/m6/grade.py:45-46 means a daemon that is not running to be a
\* skip.
TodoHasCause ==
    Marked("todo") =>
        \/ ~installed \/ said.timedOut
        \/ \E p \in PartsOf[said.module] : ~(been[p] \subseteq Right(p))
        \/ said.module = "m1" /\ "checker" \in happened
        \/ /\ said.module = "m6" /\ "up" \in happened
           /\ happened \cap {"container", "daemon"} # {}

\* What progress.py makes of a grader's exit code and text is what the grader
\* itself said: done if and only if it printed that the module is graduated.
MarkAgrees ==
    said # None /\ said.program = "progress" /\ said.module # "m7" =>
        (said.mark = "done" <=> said.graduated)

\* Every run of progress.py and every call of the tutor ends, although a grader
\* may hang.
EveryCallAnswered == job # None ~> job = None

=============================================================================
