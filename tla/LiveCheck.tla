----------------------------- MODULE LiveCheck ------------------------------
(***************************************************************************)
(* rebac/check_live.py: a run starts an OpenFGA server in a container of a *)
(* fixed name and port, loads the relationship model and the tuples over   *)
(* HTTP, asks it every scenario and prints the verdict.  Several runs      *)
(* share the name, the port and the docker daemon; the server keeps its    *)
(* stores in memory.                                                       *)
(***************************************************************************)
EXTENDS Naturals, Sequences

CONSTANTS
    Runs,      \* processes that may run the script
    Models,    \* what model.fga may contain
    Expected,  \* the expected answer of each scenario
    Answer,    \* model -> what the engine answers to each scenario
    None

ASSUME LiveCheckAssumption ==
    /\ Expected \in Seq(BOOLEAN) /\ Expected # <<>>
    /\ Answer \in [Models -> [1 .. Len(Expected) -> BOOLEAN]]

VARIABLES
    fga,      \* model.fga; not edited while runs are underway
    docker,   \* "absent", "down" or "up"
    engine,   \* the container of that name, or None
    pc,       \* run -> its next step
    asked,    \* run -> how many scenarios it has asked
    failures, \* run -> whether an answer differed from the expected one
    verdict   \* run -> what it printed, or None

vars == <<fga, docker, engine, pc, asked, failures, verdict>>

Stages == {"transform", "boot", "wait", "store", "model", "tuples", "check", "finally"}

\* How a run stops: at its end, at its end with the daemon not answering the
\* last removal, or killed on the way.
Stopped == {"ended", "unswept", "killed"}

Init ==
    /\ fga \in Models /\ docker \in {"absent", "up"}
    /\ engine = None
    /\ pc = [r \in Runs |-> "ended"]
    /\ asked = [r \in Runs |-> 0]
    /\ failures = [r \in Runs |-> FALSE]
    /\ verdict = [r \in Runs |-> None]

To(r, stage) == pc' = [pc EXCEPT ![r] = stage]
Report(r, v) == verdict' = [verdict EXCEPT ![r] = v]

\* docker rm -f: whichever run's container has the name; no effect, and no
\* error either, without a daemon.
Remove == engine' = IF docker = "up" THEN None ELSE engine

-----------------------------------------------------------------------------
\* main() up to the first removal.
Launch(r) ==
    /\ pc[r] \in Stopped
    /\ asked' = [asked EXCEPT ![r] = 0]
    /\ failures' = [failures EXCEPT ![r] = FALSE]
    /\ IF docker = "absent"
       THEN To(r, "ended") /\ Report(r, "SKIP") /\ UNCHANGED engine
       ELSE To(r, "transform") /\ Report(r, None) /\ Remove
    /\ UNCHANGED <<fga, docker>>

\* Every way out goes through `finally'.
Leave(r, v) ==
    /\ To(r, "finally") /\ Report(r, v)
    /\ UNCHANGED <<fga, docker, engine, asked, failures>>

\* The transform, or the start of the server, fails: no daemon, no image, the
\* name or the port taken.  A port that is taken leaves a container behind that
\* was created and not started.
Transform(r) ==
    /\ pc[r] = "transform"
    /\ \/ Leave(r, "SKIP")
       \/ /\ docker = "up" /\ To(r, "boot")
          /\ UNCHANGED <<fga, docker, engine, asked, failures, verdict>>

Container(r, state) ==
    [by |-> r, state |-> state, stores |-> [s \in Runs |-> "none"]]

Boot(r) ==
    /\ pc[r] = "boot"
    /\ \/ Leave(r, "SKIP")
       \/ /\ docker = "up" /\ engine = None
          /\ \/ engine' = Container(r, "starting") /\ To(r, "wait") /\ UNCHANGED verdict
             \/ engine' = Container(r, "exited") /\ To(r, "finally") /\ Report(r, "SKIP")
          /\ UNCHANGED <<fga, docker, asked, failures>>

Serving == engine # None /\ engine.state = "ready"

\* _wait_healthy(): whoever answers on the port.
Healthy(r) ==
    /\ pc[r] = "wait" /\ Serving
    /\ To(r, "store")
    /\ UNCHANGED <<fga, docker, engine, asked, failures, verdict>>

\* A slip: polling without a deadline.
PollOn(r) == pc[r] = "wait" /\ ~Serving /\ UNCHANGED vars

\* 60 polls without an answer.
Timeout(r) == pc[r] = "wait" /\ ~Serving /\ Leave(r, "SKIP")

-----------------------------------------------------------------------------
(***************************************************************************)
(* HTTP requests.  One to a server that is gone, or about a store it does  *)
(* not have, raises; what main() does not catch (an answer cut short)      *)
(* leaves through `finally' as well, with a traceback.                     *)
(***************************************************************************)
Known(r, progress) == Serving /\ engine.stores[r] = progress

\* Where each request finds the run's store, and where it leaves it.
Before == [store |-> "none", model |-> "empty", tuples |-> "model", check |-> "tuples"]
After == [store |-> "empty", model |-> "model", tuples |-> "tuples"]
NextStage == [store |-> "model", model |-> "tuples", tuples |-> "check"]

Post(r) ==
    /\ pc[r] \in DOMAIN After /\ Known(r, Before[pc[r]])
    /\ engine' = [engine EXCEPT !.stores[r] = After[pc[r]]]
    /\ To(r, NextStage[pc[r]])
    /\ UNCHANGED <<fga, docker, asked, failures, verdict>>

Record(r, answer) ==
    LET n == asked[r] + 1
        bad == failures[r] \/ answer # Expected[n]
    IN  /\ asked' = [asked EXCEPT ![r] = n]
        /\ failures' = [failures EXCEPT ![r] = bad]
        /\ IF n < Len(Expected) THEN UNCHANGED <<pc, verdict>>
           ELSE To(r, "finally") /\ Report(r, IF bad THEN "FAIL" ELSE "PASS")
        /\ UNCHANGED <<fga, docker, engine>>

AskLenient(r) ==  \* a slip: an error response counts as `not allowed'
    /\ pc[r] = "check"
    /\ Record(r, Known(r, "tuples") /\ Answer[fga][asked[r] + 1])

AskOn(r) ==  \* a slip: one more scenario than the table has
    /\ pc[r] = "check" /\ Known(r, "tuples") /\ asked[r] < Len(Expected)
    /\ asked' = [asked EXCEPT ![r] = @ + 1]
    /\ UNCHANGED <<fga, docker, engine, pc, failures, verdict>>

\* POST /check for the next scenario.
Ask(r) ==
    /\ pc[r] = "check" /\ Known(r, "tuples")
    /\ Record(r, Answer[fga][asked[r] + 1])

RequestFails(r) ==
    /\ pc[r] \in DOMAIN Before /\ ~Known(r, Before[pc[r]])
    /\ \E v \in {"SKIP", "traceback"} : Leave(r, v)

FinallyVerdictOnly(r) ==  \* a slip: removal only where a verdict was reached
    /\ pc[r] = "finally"
    /\ IF verdict[r] \in {"PASS", "FAIL"} THEN Remove ELSE UNCHANGED engine
    /\ To(r, IF docker = "up" THEN "ended" ELSE "unswept")
    /\ UNCHANGED <<fga, docker, asked, failures, verdict>>

Finally(r) ==
    /\ pc[r] = "finally"
    /\ Remove
    /\ To(r, IF docker = "up" THEN "ended" ELSE "unswept")
    /\ UNCHANGED <<fga, docker, asked, failures, verdict>>

Step(r) ==
    \/ Transform(r) \/ Boot(r) \/ Healthy(r) \/ Timeout(r)
    \/ Post(r) \/ Ask(r) \/ RequestFails(r) \/ Finally(r)

-----------------------------------------------------------------------------
\* The environment: a run is killed; the server comes up or dies, with all its
\* stores; the daemon stops, with its containers, and starts.
Kill(r) ==
    /\ pc[r] \in Stages
    /\ To(r, "killed")
    /\ UNCHANGED <<fga, docker, engine, asked, failures, verdict>>

Halted == IF engine = None THEN None ELSE Container(engine.by, "exited")

EngineReady ==
    /\ engine # None /\ engine.state = "starting"
    /\ engine' = [engine EXCEPT !.state = "ready"]
    /\ UNCHANGED <<fga, docker, pc, asked, failures, verdict>>

EngineDies ==
    /\ engine # None /\ engine' = Halted
    /\ UNCHANGED <<fga, docker, pc, asked, failures, verdict>>

DaemonStops ==
    /\ docker = "up" /\ docker' = "down"
    /\ engine' = Halted
    /\ UNCHANGED <<fga, pc, asked, failures, verdict>>

DaemonStarts ==
    /\ docker = "down" /\ docker' = "up"
    /\ UNCHANGED <<fga, engine, pc, asked, failures, verdict>>

Next ==
    \/ EngineReady \/ EngineDies \/ DaemonStops \/ DaemonStarts
    \/ \E r \in Runs : Launch(r) \/ Step(r) \/ Kill(r)

Spec == Init /\ [][Next]_vars

\* A run that was launched goes on: every command and request returns.
Fairness == \A r \in Runs : WF_vars(Step(r))

FairSpec == Spec /\ Fairness

-----------------------------------------------------------------------------
\* A run never asks past its table, and a container is some run's.
TypeOK ==
    /\ fga \in Models /\ docker \in {"absent", "down", "up"}
    /\ engine \in {None} \cup
           [by: Runs, state: {"starting", "ready", "exited"},
            stores: [Runs -> {"none", "empty", "model", "tuples"}]]
    /\ pc \in [Runs -> Stages \cup Stopped]
    /\ asked \in [Runs -> 0 .. Len(Expected)]
    /\ \A r \in Runs : pc[r] = "check" => asked[r] < Len(Expected)
    /\ failures \in [Runs -> BOOLEAN]
    /\ verdict \in [Runs -> {None, "SKIP", "traceback", "PASS", "FAIL"}]

\* What the model under test deserves.
Deserved == IF Answer[fga] = Expected THEN "PASS" ELSE "FAIL"

\* A verdict that is printed is about model.fga: with other runs removing the
\* container, taking over the port and answering in its place, with servers
\* that lose their stores and daemons that stop, a run ends in the verdict that
\* the model deserves or in none.
VerdictRight ==
    \A r \in Runs : verdict[r] \in {None, "SKIP", "traceback", Deserved}

\* No run that ended where docker could hear it leaves its container behind,
\* whichever way it left main().
CleanedUp == engine # None => pc[engine.by] # "ended"

\* A run that was launched stops, whatever the other runs and docker do.
EveryRunEnds == \A r \in Runs : pc[r] \in Stages ~> pc[r] \in Stopped

=============================================================================
