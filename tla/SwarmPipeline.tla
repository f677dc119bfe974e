----------------------------- MODULE SwarmPipeline -----------------------------
(***************************************************************************)
(* SwarmPipelineEngine.execute_swarm and resume_swarm (saleha/core/swarm/  *)
(* swarm_pipeline_engine.py) with the checkpoint file of one execution     *)
(* (swarm_checkpoint_store.py).  Each call runs the stages of a route,     *)
(* saves a checkpoint after each, and returns a verdict.  A call may raise *)
(* or be killed anywhere; another may then resume the execution.           *)
(*                                                                         *)
(* Prompts, summaries, events and the provenance chain are left out; the   *)
(* search for a repair is RepairSearch, here its result.                   *)
(***************************************************************************)
EXTENDS Integers, Sequences

CONSTANTS
  Calls,        \* calls of execute_swarm or resume_swarm with one execution id
  Route,        \* role_sequence
  Programs,     \* texts a coder may produce
  Clean,        \* those the security scan finds nothing in
  CrossCheck    \* candidates > 1

NoText == "no code"

\* The router names a role once, and the guard between the coder and QA.
ASSUME PipelineAssumption ==
  /\ Route \in Seq(STRING)
  /\ \A i, j \in 1..Len(Route) : Route[i] = Route[j] => i = j
  /\ \A i, j \in 1..Len(Route) : i < j /\ Route[i] = "Coder" /\ Route[j] = "QALead" =>
       \E k \in i..j : Route[k] = "SecurityGuard"
  /\ NoText \notin Programs /\ Clean \subseteq Programs
  /\ CrossCheck \in BOOLEAN

VARIABLES
  step,         \* where a call is
  ran,          \* how many stages it has run
  status,       \* cp.status, in the memory of the call
  flags,        \* source_code and the verdicts, in the memory of the call
  file,         \* checkpoint_<id>.json
  tmp,          \* checkpoint_<id>.json.tmp
  handle,       \* the file a call has open, under its present name
  returned,     \* the SwarmExecutionResult of a call
  stored,       \* texts in semantic memory
  tested,       \* the text that the checks of a call have passed; history
  earned,       \* verdicts of runs that were completed; history
  apart,        \* no call has begun while another was alive; history
  reused        \* execute_swarm was given an id that had been used; history

work == <<step, ran, status, flags, tested>>
disk == <<file, tmp, handle>>
results == <<returned, stored, earned>>
pipelineVars == <<work, disk, results, apart, reused>>

\* Every verdict starts as "not done".
NotDone == [code |-> NoText, generated |-> FALSE, checked |-> FALSE, secure |-> FALSE,
            tests |-> FALSE, passed |-> FALSE]

\* The content of a file that is not a checkpoint: get_checkpoint gives None.
Unreadable(s) == [status |-> s, stages |-> 0, flags |-> NotDone]
Readable(f) == f.status \in {"in_progress", "completed"}

\* What save_checkpoint writes.
Snapshot(c) == [status |-> status[c], stages |-> ran[c], flags |-> flags[c]]

\* _overall_success, and the verdict that is returned.
Success(f) == f.generated /\ f.checked /\ f.secure /\ f.tests /\ f.passed
Verdict(f) == [success |-> Success(f), code |-> f.code, clean |-> f.secure,
               passed |-> f.passed]

\* Mutant: a completed run succeeded.
RecomputedTrusting(f) == [success |-> TRUE, code |-> f.code,
                          clean |-> f.checked /\ f.secure, passed |-> f.tests /\ f.passed]

\* A verdict that is recomputed from a checkpoint.
Recomputed(f) == [success |-> Success(f), code |-> f.code,
                  clean |-> f.checked /\ f.secure, passed |-> f.tests /\ f.passed]

NoVerdict == [success |-> FALSE, code |-> "no verdict", clean |-> FALSE, passed |-> FALSE]

PipelineInit ==
  /\ step = [c \in Calls |-> "idle"]
  /\ ran = [c \in Calls |-> 0]
  /\ status = [c \in Calls |-> "in_progress"]
  /\ flags = [c \in Calls |-> NotDone]
  /\ file = Unreadable("none") /\ tmp = Unreadable("none")
  /\ handle = [c \in Calls |-> "closed"]
  /\ returned = [c \in Calls |-> NoVerdict]
  /\ stored = {}
  /\ tested = [c \in Calls |-> NoText]
  /\ earned = {}
  /\ apart = TRUE /\ reused = FALSE

Alive(c) == step[c] \in {"stage", "open", "write", "replace", "saved", "decide"}
Begins(c) == step[c] = "idle" /\ apart' = (apart /\ ~\E d \in Calls : Alive(d))

--------------------------------------------------------------------------------
(* Calls begin. *)

\* execute_swarm takes any id, a new one or one there is, and saves its first checkpoint
\* at once.
Execute(c) ==
  /\ Begins(c)
  /\ reused' = (reused \/ \E d \in Calls : step[d] # "idle")
  /\ step' = [step EXCEPT ![c] = "open"]
  /\ UNCHANGED <<ran, status, flags, tested, disk, results>>

\* A completed run is returned from its checkpoint.
ResumeCompleted(c) ==
  /\ file.status = "completed"
  /\ step' = [step EXCEPT ![c] = "returned"]
  /\ returned' = [returned EXCEPT ![c] = Recomputed(file.flags)]
  /\ UNCHANGED <<ran, status, flags, tested, disk, stored, earned>>

\* Mutant: every run is run again.
ResumeAgain(c) ==
  /\ Readable(file)
  /\ step' = [step EXCEPT ![c] = "open"]
  /\ UNCHANGED <<ran, status, flags, tested, disk, results>>

\* An unfinished one is run again from the first stage, under a new checkpoint.
ResumeUnfinished(c) ==
  /\ file.status = "in_progress"
  /\ step' = [step EXCEPT ![c] = "open"]
  /\ UNCHANGED <<ran, status, flags, tested, disk, results>>

\* There is no checkpoint, or none that can be read: ValueError.
ResumeNothing(c) ==
  /\ ~Readable(file)
  /\ step' = [step EXCEPT ![c] = "raised"]
  /\ UNCHANGED <<ran, status, flags, tested, disk, results>>

Resume(c) ==
  /\ Begins(c)
  /\ UNCHANGED reused
  /\ ResumeCompleted(c) \/ ResumeUnfinished(c) \/ ResumeNothing(c)

--------------------------------------------------------------------------------
(* The stages of execute_swarm, one per role of the route. *)

\* A stage ends, whether it was a success, failed or skipped, and is saved.
StageOf(c, roles) ==
  /\ step[c] = "stage"
  /\ Route[ran[c] + 1] \in roles
  /\ ran' = [ran EXCEPT ![c] = @ + 1]
  /\ step' = [step EXCEPT ![c] = "open"]
  /\ UNCHANGED <<status, disk, results>>

\* The design, the compression, the review and roles without an agent decide
\* nothing; nor does a check without code to check.
Pass(c) ==
  /\ StageOf(c, STRING \ (IF flags[c].generated
                          THEN {"Coder", "SecurityGuard", "QALead"} ELSE {"Coder"}))
  /\ UNCHANGED <<flags, tested>>

\* The coder has code or has none.
Generate(c) ==
  /\ StageOf(c, {"Coder"})
  /\ \/ UNCHANGED flags
     \/ \E t \in Programs :
          flags' = [flags EXCEPT ![c] = [@ EXCEPT !.code = t, !.generated = TRUE]]
  /\ UNCHANGED tested

\* The scan is of the code as generated; a patch of it is not scanned again.
Audit(c) ==
  /\ flags[c].generated
  /\ StageOf(c, {"SecurityGuard"})
  /\ \E t \in Programs :
       /\ flags[c].code \in Clean => t = flags[c].code
       /\ flags' = [flags EXCEPT ![c] =
            [@ EXCEPT !.checked = TRUE, !.code = t, !.secure = flags[c].code \in Clean]]
  /\ UNCHANGED tested

\* Mutant: the repaired text is not scanned.
TestsSayUnscanned(c, t, ranAny, passed) ==
  /\ flags' = [flags EXCEPT ![c] = [@ EXCEPT !.tests = ranAny, !.passed = passed, !.code = t]]
  /\ tested' = [tested EXCEPT ![c] = IF passed THEN t ELSE NoText]

\* The verdict of the tests on a text; one that is new is scanned.
TestsSay(c, t, ranAny, passed) ==
  /\ flags' = [flags EXCEPT ![c] =
       [@ EXCEPT !.tests = ranAny, !.passed = passed, !.code = t,
                 !.secure = IF t = flags[c].code THEN flags[c].secure ELSE t \in Clean]]
  /\ tested' = [tested EXCEPT ![c] = IF passed THEN t ELSE NoText]

\* QA has no tests to run.
NoTests(c) ==
  /\ flags[c].generated
  /\ StageOf(c, {"QALead"})
  /\ UNCHANGED <<flags, tested>>

\* Of several solutions the tests favour one, which passes when two agree; a
\* single one is left to RunTests.
CrossChecked(c) ==
  /\ CrossCheck
  /\ flags[c].generated
  /\ StageOf(c, {"QALead"})
  /\ \E t \in Programs, agreed \in BOOLEAN : TestsSay(c, t, TRUE, agreed)

\* The tests fail or pass.  Where they pass, the comparison with a brute-force
\* version may contradict them, and then a repair may be found, which has passed both.
RunTests(c) ==
  /\ flags[c].generated
  /\ StageOf(c, {"QALead"})
  /\ \/ \E some \in BOOLEAN : TestsSay(c, flags[c].code, some, FALSE)
     \/ TestsSay(c, flags[c].code, TRUE, TRUE)
     \/ \E t \in Programs \ {flags[c].code} : TestsSay(c, t, TRUE, TRUE)

Stage(c) ==
  Pass(c) \/ Generate(c) \/ Audit(c) \/ NoTests(c) \/ CrossChecked(c) \/ RunTests(c)

--------------------------------------------------------------------------------
(* save_checkpoint. *)

Moves(c, from, to) == step[c] = from /\ step' = [step EXCEPT ![c] = to]
SaveKeeps == UNCHANGED <<ran, status, flags, tested, results>>

\* Mutant: the checkpoint is written in place.
SaveOpenInPlace(c) ==
  /\ Moves(c, "open", "write")
  /\ file' = Unreadable("empty")
  /\ handle' = [handle EXCEPT ![c] = "file"]
  /\ SaveKeeps /\ UNCHANGED tmp

\* open(tmp_path, "w") truncates what another call may be writing.
SaveOpen(c) ==
  /\ Moves(c, "open", "write")
  /\ tmp' = Unreadable("empty")
  /\ handle' = [handle EXCEPT ![c] = "tmp"]
  /\ SaveKeeps /\ UNCHANGED file

\* Text written over another call's is the new text only if it covers the old one.
Over(old, new) == {new} \cup (IF old.status = "empty" THEN {} ELSE {Unreadable("torn")})

\* json.dump, and the end of the with statement.
SaveWrite(c) ==
  /\ Moves(c, "write", "replace")
  /\ handle' = [handle EXCEPT ![c] = "closed"]
  /\ \/ handle[c] = "tmp" /\ tmp' \in Over(tmp, Snapshot(c)) /\ UNCHANGED file
     \/ handle[c] = "file" /\ file' \in Over(file, Snapshot(c)) /\ UNCHANGED tmp
     \/ handle[c] = "unnamed" /\ UNCHANGED <<file, tmp>>
  /\ SaveKeeps

\* os.replace moves whatever the name now names; an open file keeps its writers.
SaveReplace(c) ==
  /\ Moves(c, "replace", "saved")
  /\ tmp.status # "none"
  /\ file' = tmp /\ tmp' = Unreadable("none")
  /\ handle' = [d \in Calls |-> CASE handle[d] = "tmp" -> "file"
                                  [] handle[d] = "file" -> "unnamed"
                                  [] OTHER -> handle[d]]
  /\ SaveKeeps

\* An error is suppressed, wherever it comes: the call goes on.
SaveFails(c) ==
  /\ step[c] \in {"open", "write", "replace"}
  /\ step' = [step EXCEPT ![c] = "saved"]
  /\ handle' = [handle EXCEPT ![c] = "closed"]
  /\ SaveKeeps /\ UNCHANGED <<file, tmp>>

Save(c) == SaveOpen(c) \/ SaveWrite(c) \/ SaveReplace(c) \/ SaveFails(c)

--------------------------------------------------------------------------------
(* The end of a call. *)

MoreStages(c) == ran[c] < Len(Route)

NextStage(c) ==
  /\ Moves(c, "saved", "stage")
  /\ MoreStages(c)
  /\ UNCHANGED <<ran, status, flags, tested, disk, results>>

\* After the last stage, the checkpoint is saved as completed.
Complete(c) ==
  /\ Moves(c, "saved", "open")
  /\ ~MoreStages(c)
  /\ status[c] = "in_progress"
  /\ status' = [status EXCEPT ![c] = "completed"]
  /\ earned' = earned \cup {[verdict |-> Verdict(flags[c]), tested |-> tested[c]]}
  /\ UNCHANGED <<ran, flags, tested, disk, returned, stored>>

\* Only a success becomes a pattern.
Remember(c) ==
  /\ Moves(c, "saved", "decide")
  /\ status[c] = "completed"
  /\ stored' = IF Success(flags[c]) THEN stored \cup {flags[c].code} ELSE stored
  /\ UNCHANGED <<ran, status, flags, tested, disk, returned, earned>>

\* The local variables of a call go with it.
Forgets(c) ==
  /\ ran' = [ran EXCEPT ![c] = 0]
  /\ status' = [status EXCEPT ![c] = "in_progress"]
  /\ flags' = [flags EXCEPT ![c] = NotDone]
  /\ tested' = [tested EXCEPT ![c] = NoText]

Return(c) ==
  /\ Moves(c, "decide", "returned")
  /\ returned' = [returned EXCEPT ![c] = Verdict(flags[c])]
  /\ Forgets(c)
  /\ UNCHANGED <<disk, stored, earned>>

\* An agent, a contract or a callback raises, or the process is killed.
Dies(c) ==
  /\ Alive(c)
  /\ step' = [step EXCEPT ![c] = "raised"]
  /\ handle' = [handle EXCEPT ![c] = "closed"]
  /\ Forgets(c)
  /\ UNCHANGED <<file, tmp, results>>

CallStep(c) ==
  \/ Execute(c) \/ Resume(c)
  \/ /\ \/ Stage(c) \/ Save(c) \/ NextStage(c) \/ Complete(c)
        \/ Remember(c) \/ Return(c) \/ Dies(c)
     /\ UNCHANGED <<apart, reused>>

PipelineNext == \E c \in Calls : CallStep(c)

PipelineSpec == PipelineInit /\ [][PipelineNext]_pipelineVars

--------------------------------------------------------------------------------
Flags == [code: Programs \cup {NoText}, generated: BOOLEAN, checked: BOOLEAN,
          secure: BOOLEAN, tests: BOOLEAN, passed: BOOLEAN]
Verdicts == [success: BOOLEAN, code: Programs \cup {NoText}, clean: BOOLEAN, passed: BOOLEAN]
Files == [status: {"none", "empty", "torn", "in_progress", "completed"},
          stages: 0..Len(Route), flags: Flags]

\* Type correctness; a call runs no stage that the route does not have.
PipelineTypeOK ==
  /\ step \in [Calls -> {"idle", "stage", "open", "write", "replace", "saved",
                         "decide", "returned", "raised"}]
  /\ ran \in [Calls -> 0..Len(Route)]
  /\ status \in [Calls -> {"in_progress", "completed"}]
  /\ flags \in [Calls -> Flags]
  /\ file \in Files /\ tmp \in Files
  /\ handle \in [Calls -> {"closed", "tmp", "file", "unnamed"}]
  /\ returned \in [Calls -> Verdicts \cup {NoVerdict}]
  /\ stored \subseteq Programs \cup {NoText}
  /\ tested \in [Calls -> Programs \cup {NoText}]
  /\ earned \subseteq [verdict: Verdicts, tested: Programs \cup {NoText}]
  /\ \A c \in Calls : step[c] = "stage" => ran[c] < Len(Route)

\* A success is of the text that is returned: the scan finds nothing in it and the
\* last of the checks has passed it, though the scan, the cross-check and the repair
\* each may put another text in its place ("The security stage scanned the old code,
\* not this one", swarm_pipeline_engine.py:535).
SuccessIsOfFinalCode ==
  \A e \in earned : e.verdict.success =>
    /\ e.verdict.code \in Clean
    /\ e.tested = e.verdict.code

\* Every verdict that is returned, by whichever call, and every pattern that is kept
\* was earned by a run of all the stages ("A completed run's verdict is recomputed
\* from the saved flags", :737; "Only a verified result becomes a reusable pattern",
\* :699), whatever was killed, could not be saved, or ran at the same time.
VerdictsWereEarned ==
  /\ \A c \in Calls : returned[c] # NoVerdict =>
       \E e \in earned : e.verdict = returned[c]
  /\ \A t \in stored : \E e \in earned : e.verdict.success /\ e.verdict.code = t

\* A call that dies in any step of a save, or one whose save fails, leaves the last
\* checkpoint readable (swarm_checkpoint_store.py:66), while calls do not overlap.
CheckpointIsWhole == apart => file.status \notin {"empty", "torn"}

\* A completed execution stays as it is: calls that resume it give its verdict back
\* ("Return a completed run from its checkpoint", swarm_pipeline_engine.py:733),
\* while calls do not overlap and execute_swarm is given no id a second time.
CompletedStays ==
  [][apart' /\ ~reused' /\ file.status = "completed" => file' = file]_pipelineVars
================================================================================
