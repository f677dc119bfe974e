-------------------------------- MODULE Octopus --------------------------------
(***************************************************************************)
(* OctopusCoordinator.coordinate (saleha/core/swarm/octopus_coordinator.py)*)
(* on an AgentWorkerPool (agent_worker_pool.py).  A mission runs five of   *)
(* its arms on the pool and waits for each with a timeout; the others run  *)
(* on its own thread.  A timed-out arm is not stopped: it keeps its worker *)
(* and may still write on the mission's blackboard.  All missions of the   *)
(* web server share one pool.                                              *)
(*                                                                         *)
(* Prompts, plans, events, conflict notices, the tool registry and         *)
(* durations are left out; an arm is reduced to the verdict it writes.     *)
(***************************************************************************)
EXTENDS Integers, Sequences, FiniteSets

CONSTANTS
  Missions,     \* calls of coordinate()
  PoolSize      \* max_workers of the pool

ASSUME OctopusAssumption == IsFiniteSet(Missions) /\ PoolSize \in Nat \ {0}

VARIABLES
  stage,        \* how far the thread of a mission is
  source,       \* blackboard.source_code: nothing, the coder's text, a patch of it
  current,      \* current_code, the text handed to the checks
  tests,        \* blackboard.tests_ran and tests_passed
  audit,        \* blackboard.security_checked and security_clean
  review,       \* blackboard.review_ran and review_approved
  outputs,      \* status of each arm in blackboard.brain_outputs
  queue,        \* the pool's queue: <<mission, arm>>
  future,       \* the future of each arm
  answer,       \* the WorkerTaskResult of each arm
  overall,      \* overall_success
  result,       \* the OctopusExecutionResult
  examined      \* the text each check looked at; history

board == <<source, current, tests, audit, review>>
pool == <<queue, future>>
octopusVars == <<stage, board, outputs, pool, answer, overall, result, examined>>

Texts == {"none", "draft", "patched"}
Checks == {"tests", "audit", "review"}

\* The arms that run on the pool, and those of a batch that precede each.
Arms == {"planner", "architect", "security", "qa", "sre"}
Earlier == [planner |-> {}, architect |-> {"planner"},
            security |-> {}, qa |-> {"security"}, sre |-> {"security", "qa"}]

\* The tasks of the execute_parallel call that a mission is in.
Batch(m) == CASE stage[m] = "strategy" -> {"planner", "architect"}
              [] stage[m] = "verification" -> {"security", "qa", "sre"}
              [] OTHER -> {}

Per(v) == [m \in Missions |-> v]

OctopusInit ==
  /\ stage = Per("new")
  /\ source = Per("none") /\ current = Per("none")
  /\ tests = Per("not run") /\ audit = Per("not run") /\ review = Per("not run")
  /\ outputs = Per([a \in Arms \cup {"coder", "critic"} |-> "none"])
  /\ queue = <<>>
  /\ future = Per([a \in Arms |-> "none"])
  /\ answer = Per([a \in Arms |-> "none"])
  /\ overall = Per(FALSE)
  /\ result = Per([success |-> FALSE, clean |-> FALSE, passed |-> FALSE,
                   approved |-> FALSE, ran |-> FALSE, checked |-> FALSE])
  /\ examined = Per([c \in Checks |-> "none"])

Stages(m, from, to) == stage[m] = from /\ stage' = [stage EXCEPT ![m] = to]
Outputs(m, a, s) == outputs' = [outputs EXCEPT ![m][a] = s]
Examines(m, c, text) == examined' = [examined EXCEPT ![m][c] = text]

--------------------------------------------------------------------------------
(* The thread of a mission. *)

BeginMission(m) ==
  /\ Stages(m, "new", "strategy")
  /\ UNCHANGED <<board, outputs, pool, answer, overall, result, examined>>

\* execute_parallel: one submit per task.
Submit(m, a) ==
  /\ a \in Batch(m)
  /\ future[m][a] = "none"
  /\ \A b \in Earlier[a] : future[m][b] # "none"
  /\ queue' = Append(queue, <<m, a>>)
  /\ future' = [future EXCEPT ![m][a] = "queued"]
  /\ UNCHANGED <<stage, board, outputs, answer, overall, result, examined>>

\* Mutant: future.result() without a timeout.
ReplyUntimed(f) == CASE f = "done" -> "ok"
                     [] f = "raised" -> "failed"
                     [] OTHER -> "none"

\* future.result(timeout): what is over is answered, what is not times out.
Reply(f) == CASE f = "done" -> "ok"
              [] f = "raised" -> "failed"
              [] OTHER -> "timeout"

\* The futures are waited for one after the other, once all are submitted.
Await(m, a) ==
  /\ a \in Batch(m)
  /\ \A b \in Batch(m) : future[m][b] # "none"
  /\ answer[m][a] = "none"
  /\ \A b \in Earlier[a] : answer[m][b] # "none"
  /\ answer' = [answer EXCEPT ![m][a] = Reply(future[m][a])]
  /\ UNCHANGED <<stage, board, outputs, pool, overall, result, examined>>

\* The loop over the answers of a batch.  Its callback is not guarded: one that
\* raises ends the mission.
RecordBatch(m) ==
  /\ Batch(m) # {}
  /\ \A a \in Batch(m) : answer[m][a] # "none"
  /\ \/ stage' = [stage EXCEPT ![m] =
                    IF stage[m] = "strategy" THEN "implementation" ELSE "critique"]
     \/ stage' = [stage EXCEPT ![m] = "aborted"]
  /\ outputs' = [outputs EXCEPT ![m] =
       [a \in DOMAIN outputs[m] |->
          IF a \notin Batch(m) THEN outputs[m][a]
          ELSE IF answer[m][a] = "ok" THEN "success" ELSE "failed"]]
  /\ UNCHANGED <<board, pool, answer, overall, result, examined>>

\* The coder, on the mission's thread.  It raises when it has no code.
Implement(m) ==
  /\ Stages(m, "implementation", "verification")
  /\ \/ source' = [source EXCEPT ![m] = "draft"] /\ Outputs(m, "coder", "success")
     \/ source' = source /\ Outputs(m, "coder", "failed")
  /\ current' = [current EXCEPT ![m] = source'[m]]
  /\ UNCHANGED <<tests, audit, review, pool, answer, overall, result, examined>>

\* The critic, on the mission's thread, reads the blackboard again.
Critique(m) ==
  /\ Stages(m, "critique", "synthesis")
  /\ \/ /\ UNCHANGED <<review, examined>>
        /\ Outputs(m, "critic", "failed")
     \/ /\ current[m] # "none"
        /\ \E v \in {"rejected", "approved"} : review' = [review EXCEPT ![m] = v]
        /\ Examines(m, "review", source[m])
        /\ Outputs(m, "critic", "success")
  /\ UNCHANGED <<source, current, tests, audit, pool, answer, overall, result>>

\* overall_success is read field by field, without the lock: first code and tests,
JudgeTests(m) ==
  /\ Stages(m, "synthesis", "judging")
  /\ overall' = [overall EXCEPT ![m] = source[m] # "none" /\ tests[m] = "passed"]
  /\ UNCHANGED <<board, outputs, pool, answer, result, examined>>

\* Mutant: the scan need only have run.
JudgeRestLoosely(m) ==
  /\ Stages(m, "judging", "reporting")
  /\ overall' = [overall EXCEPT ![m] =
                   @ /\ audit[m] # "not run" /\ review[m] = "approved"]
  /\ UNCHANGED <<board, outputs, pool, answer, result, examined>>

\* then security and review.
JudgeRest(m) ==
  /\ Stages(m, "judging", "reporting")
  /\ overall' = [overall EXCEPT ![m] =
                   @ /\ audit[m] = "clean" /\ review[m] = "approved"]
  /\ UNCHANGED <<board, outputs, pool, answer, result, examined>>

\* The result reads the fields once more: the verdicts,
ReportVerdicts(m) ==
  /\ Stages(m, "reporting", "returning")
  /\ result' = [result EXCEPT ![m] =
       [success |-> overall[m], clean |-> audit[m] = "clean",
        passed |-> tests[m] = "passed", approved |-> review[m] = "approved",
        ran |-> @.ran, checked |-> @.checked]]
  /\ UNCHANGED <<board, outputs, pool, answer, overall, examined>>

\* and later what has run.
ReportRan(m) ==
  /\ Stages(m, "returning", "done")
  /\ result' = [result EXCEPT ![m] =
       [success |-> @.success, clean |-> @.clean, passed |-> @.passed,
        approved |-> @.approved,
        ran |-> tests[m] # "not run", checked |-> audit[m] # "not run"]]
  /\ UNCHANGED <<board, outputs, pool, answer, overall, examined>>

MissionStep(m) ==
  \/ \E a \in Arms : Submit(m, a) \/ Await(m, a)
  \/ RecordBatch(m) \/ Implement(m) \/ Critique(m)
  \/ JudgeTests(m) \/ JudgeRest(m) \/ ReportVerdicts(m) \/ ReportRan(m)

--------------------------------------------------------------------------------
(* The workers of the pool.  Nothing stops an arm whose mission has stopped
   waiting for it. *)

InWork == {t \in Missions \X Arms : future[t[1]][t[2]] = "running"}

\* An idle worker takes the head of the queue.
StartArm ==
  /\ queue # <<>>
  /\ Cardinality(InWork) < PoolSize
  /\ future' = [future EXCEPT ![Head(queue)[1]][Head(queue)[2]] = "running"]
  /\ queue' = Tail(queue)
  /\ UNCHANGED <<stage, board, outputs, answer, overall, result, examined>>

Ends(m, a, how) ==
  /\ future[m][a] = "running"
  /\ future' = [future EXCEPT ![m][a] = how]
  /\ UNCHANGED <<stage, current, review, outputs, queue, answer, overall, result>>

\* Any arm may raise, and the checks must when there is no code.
ArmRaises(m, a) ==
  /\ Ends(m, a, "raised")
  /\ UNCHANGED <<source, tests, audit, examined>>

\* Mutant: the scan puts its patch in place of the code.
RunSecuritySwapping(m) ==
  /\ current[m] # "none"
  /\ Ends(m, "security", "done")
  /\ \E v \in {"issues", "clean"} : audit' = [audit EXCEPT ![m] = v]
  /\ source' = [source EXCEPT ![m] = "patched"]
  /\ Examines(m, "audit", "patched")
  /\ UNCHANGED tests

RunSecurity(m) ==
  /\ current[m] # "none"
  /\ Ends(m, "security", "done")
  /\ \E v \in {"issues", "clean"} : audit' = [audit EXCEPT ![m] = v]
  /\ Examines(m, "audit", current[m])
  /\ UNCHANGED <<source, tests>>

\* Without generated tests, or with a suite that ran none, QA has not run.
RunQA(m) ==
  /\ current[m] # "none"
  /\ Ends(m, "qa", "done")
  /\ \E v \in {"not run", "failed", "passed"} : tests' = [tests EXCEPT ![m] = v]
  /\ Examines(m, "tests", current[m])
  /\ UNCHANGED <<source, audit>>

\* The planner, the architect and the SRE arm write nothing a verdict depends on.
RunOther(m, a) ==
  /\ a \in {"planner", "architect", "sre"}
  /\ Ends(m, a, "done")
  /\ UNCHANGED <<source, tests, audit, examined>>

PoolStep ==
  \/ StartArm
  \/ \E m \in Missions :
       \/ RunSecurity(m) \/ RunQA(m)
       \/ \E a \in Arms : ArmRaises(m, a) \/ RunOther(m, a)

OctopusNext == PoolStep \/ \E m \in Missions : BeginMission(m) \/ MissionStep(m)

\* The thread of a mission runs, and what it calls itself ends.  Arms on the
\* pool owe nothing: they may hang for ever.
OctopusSpec ==
  /\ OctopusInit /\ [][OctopusNext]_octopusVars
  /\ \A m \in Missions : WF_octopusVars(MissionStep(m))

--------------------------------------------------------------------------------
\* Type correctness; the queue holds each waiting task once, and no more tasks
\* run than there are workers.
OctopusTypeOK ==
  /\ stage \in [Missions -> {"new", "strategy", "implementation", "verification",
                             "critique", "synthesis", "judging", "reporting",
                             "returning", "done", "aborted"}]
  /\ source \in [Missions -> Texts] /\ current \in [Missions -> Texts]
  /\ tests \in [Missions -> {"not run", "failed", "passed"}]
  /\ audit \in [Missions -> {"not run", "issues", "clean"}]
  /\ review \in [Missions -> {"not run", "rejected", "approved"}]
  /\ outputs \in [Missions -> [Arms \cup {"coder", "critic"} -> {"none", "success", "failed"}]]
  /\ queue \in Seq(Missions \X Arms)
  /\ future \in [Missions -> [Arms -> {"none", "queued", "running", "done", "raised"}]]
  /\ answer \in [Missions -> [Arms -> {"none", "ok", "failed", "timeout"}]]
  /\ overall \in [Missions -> BOOLEAN]
  /\ result \in [Missions -> [success: BOOLEAN, clean: BOOLEAN, passed: BOOLEAN,
                              approved: BOOLEAN, ran: BOOLEAN, checked: BOOLEAN]]
  /\ examined \in [Missions -> [Checks -> Texts]]
  /\ \A m \in Missions, a \in Arms :
       future[m][a] = "queued" <=> \E i \in DOMAIN queue : queue[i] = <<m, a>>
  /\ \A i, j \in DOMAIN queue : queue[i] = queue[j] => i = j
  /\ Cardinality(InWork) <= PoolSize

\* What a mission reports as passed, clean or approved was found so of the very
\* text it returns, however late the arm that found it ("every verdict starts as
\* not done", octopus_coordinator.py:89; "the returned code was not the code that
\* was tested", :382).
VerdictsAreOfFinalCode ==
  \A m \in Missions : stage[m] = "done" =>
    /\ result[m].passed => tests[m] = "passed" /\ examined[m]["tests"] = source[m]
    /\ result[m].clean => audit[m] = "clean" /\ examined[m]["audit"] = source[m]
    /\ result[m].approved => review[m] = "approved" /\ examined[m]["review"] = source[m]

\* Success is not reported beside a check that is not reported as run and passed,
\* though the fields are read one by one while late arms still write them
\* ("every check to have run and come back positive", :522).
SuccessIsReported ==
  \A m \in Missions : stage[m] = "done" /\ result[m].success =>
    /\ source[m] # "none"
    /\ result[m].ran /\ result[m].passed
    /\ result[m].checked /\ result[m].clean
    /\ result[m].approved

\* No arm can hold a mission up for ever, stuck or never started as it may be.
MissionsEnd ==
  \A m \in Missions : stage[m] = "strategy" ~> stage[m] \in {"done", "aborted"}
================================================================================
