------------------------------- MODULE AgentLoop -------------------------------
(***************************************************************************)
(* One run of the agent loop (saleha/core/loop/agentic_loop.py, _run) with *)
(* its evidence ledger (saleha/core/verification/task_evidence.py): a      *)
(* model that may reply anything, tools that may fail in every way their   *)
(* handlers report, a working tree, the project's test suite, and the      *)
(* gates a finish claim must pass.                                         *)
(*                                                                         *)
(* A file's text is one of a few contents, the suite is a function of the  *)
(* tree (a run of it may also time out), a tool call is the tool, the file *)
(* and how its path is spelled, and the text it names.  What only shapes   *)
(* the prompt (transcript, hints, checklist, read-only nudge) is left out: *)
(* the model may reply anything to any prompt.                             *)
(***************************************************************************)
EXTENDS Integers, FiniteSets

CONSTANTS
  SrcFiles, TestFiles,  \* the paths tool calls name, tests apart
  Spellings,            \* how a call may spell the path of a file
  Tested,               \* the files the suite's verdict depends on
  Missing,              \* the files that do not exist when the run starts
  Texts,                \* what an edit can leave in a file
  Original,             \* the text of a file when the run starts
  Absent, Damaged,      \* no file; a file a failed write has truncated
  Untouched,            \* no entry in pre_patch_snapshot
  Goals,                \* subset of {"repair", "change", "not_repair"}
  Tools,                \* allowed_tools: the tools this run offers
  EditOutcomes,         \* subset of {"ok", "failed", "rejected", "refused"}
  Faults,               \* whether a write may raise OSError half way
  PatchCandidates,      \* patch_candidates > 0
  MaxSteps, MinActions, MaxParseRetries, MaxToolCalls,
  RequireEvidence, Required

Files == SrcFiles \cup TestFiles
Contents == Texts \cup {Original, Absent} \cup (IF Faults THEN {Damaged} ELSE {})

ASSUME LoopAssumption ==
  /\ IsFiniteSet(Files) /\ SrcFiles \cap TestFiles = {}
  /\ Missing \subseteq Files /\ Tested \subseteq Files
  /\ "plain" \in Spellings /\ Spellings \subseteq {"plain", "blank", "dots", "slash"}
  /\ Absent \notin Files
  /\ {Absent, Damaged, Untouched} \cap (Texts \cup {Original}) = {}
  /\ Untouched \notin {Absent, Damaged}
  /\ MaxSteps \in Nat /\ MinActions \in Nat
  /\ MaxParseRetries \in Nat /\ MaxToolCalls \in Nat
  /\ {Faults, PatchCandidates, RequireEvidence} \subseteq BOOLEAN

VARIABLES
  goal, allowWrite,     \* the kind of goal; the --write switch
  suite, hasTests,      \* the suite's verdict on the tested files; is there one
  disk,                 \* the working tree
  step, outcome,        \* step_no; how the run ended
  label,                \* LoopResult.verification
  parseFailures,        \* consecutive replies with no block, as the code counts
  attempted, succeeded, \* mutations_attempted > 0, mutations_succeeded > 0
  actions,              \* successful_actions, up to MinActions
  verdict,              \* auto_test_verdict
  coverage,             \* coverage_verdict
  snapshot,             \* pre_patch_snapshot: images by file and key
  testRead,             \* test_files_read is not empty
  seen,                 \* seen_calls
  ledger, evidence, spent,   \* EvidenceLedger.state, its kinds, tool_calls_used
  \* History, read by no action:
  wrote,                \* a tool changed the tree, or forged a tool's file
  revert,               \* verdict of the last revert-check
  slipped               \* test files an edit has named past _is_test_path

env == <<goal, allowWrite, suite, hasTests>>
acct == <<attempted, succeeded, actions, testRead, seen, snapshot>>
led == <<ledger, evidence, spent>>
hist == <<wrote, revert, slipped>>
vars == <<env, disk, step, outcome, label, parseFailures, acct, verdict, coverage,
          led, hist>>

Edits == {"patch_file", "write_file", "forge_tool"}
Verdicts == {"none", "PASSED", "FAILED", "OTHER", "NO_COMMAND"}
EvidenceKind == {"FILE_READ", "FILE_MODIFIED", "CODE_EXECUTED", "TESTS_PASSED",
                 "SEARCH_PERFORMED"}
TaskState == {"ANALYZING", "IMPLEMENTING", "ACCEPTED", "FAILED"}

\* _safe_path strips the path and normalises it: one file, however spelled.
\* _norm_rel_path, the key of the images, drops a blank but keeps "x/../a.py"
\* ("dots") and "a.py/" ("slash").
KeyOf(spelling) == IF spelling = "blank" THEN "plain" ELSE spelling
Keys == {KeyOf(s) : s \in Spellings}

Call(tools, files, spellings, texts) ==
  [tool : tools, file : files, spelling : spellings, text : texts]

\* run_tests names no file, or a target that narrows the run.
Calls ==
  {c \in Call({"read_file"}, Files, Spellings, {Untouched})
         \cup Call({"patch_file", "write_file"}, Files, Spellings, Texts)
         \cup Call({"run_tests"}, TestFiles \cup {Absent}, {"plain"}, {Untouched})
         \cup Call({"list_dir", "run_code", "forge_tool"}, {Absent}, {"plain"}, {Untouched}) :
     c.tool \in Tools}

\* _is_test_path sees the path as it is written: a leading or trailing blank or a
\* trailing slash hides a test's name or directory from it, dots do not.
LooksLikeTest(file, spelling) == file \in TestFiles /\ spelling \in {"plain", "dots"}

Source(tree) == [f \in Tested |-> tree[f]]
InitialDisk == [f \in Files |-> IF f \in Missing THEN Absent ELSE Original]

Init ==
  /\ goal \in Goals
  /\ allowWrite \in BOOLEAN
  /\ hasTests \in BOOLEAN
  /\ suite \in [[Tested -> Contents] -> {"PASSED", "FAILED"}]
  /\ ~hasTests => \A t \in DOMAIN suite : suite[t] = "FAILED"
  /\ disk = InitialDisk
  /\ step = 1 /\ outcome = "running" /\ label = "" /\ parseFailures = 0
  /\ attempted = FALSE /\ succeeded = FALSE /\ actions = 0
  /\ verdict = "none" /\ coverage = "none"
  /\ snapshot = [f \in Files |-> [k \in Keys |-> Untouched]]
  /\ testRead = FALSE /\ seen = {}
  /\ ledger = "ANALYZING" /\ evidence = {} /\ spent = 0
  /\ wrote = FALSE /\ revert = "none" /\ slipped = {}

\* _tool_run_tests: the exit code of the discovered command, or a timeout.
TestRun(tree) ==
  IF hasTests THEN {suite[Source(tree)], "OTHER"} ELSE {"NO_COMMAND"}

\* With a target: some of the tests, which may pass where the suite fails.
TargetRun == IF hasTests THEN {"PASSED", "FAILED", "OTHER"} ELSE {"NO_COMMAND"}

Running == outcome = "running" /\ step <= MaxSteps

\* The reply is answered with an observation only, and the loop continues.
NextStep == step' = step + 1 /\ UNCHANGED <<outcome, label>>

\* EvidenceLedger.fail
FailLedger == ledger' = IF ledger \in {"ACCEPTED", "FAILED"} THEN ledger ELSE "FAILED"

Fail == outcome' = "failed" /\ UNCHANGED <<step, label>>

--------------------------------------------------------------------------------
(* Ends of the run that are not a finish. *)

\* The deadline at the top of a step, or a model call that failed.
TimeoutOrModelError ==
  /\ Running
  /\ Fail
  /\ UNCHANGED <<env, disk, parseFailures, acct, verdict, coverage, led, hist>>

Exhausted ==
  /\ outcome = "running" /\ step > MaxSteps
  /\ Fail
  /\ IF RequireEvidence THEN FailLedger ELSE UNCHANGED ledger
  /\ UNCHANGED <<env, disk, parseFailures, acct, verdict, coverage, evidence,
                 spent, hist>>

\* A reply with neither a finish nor a tool_call block.
NoBlock ==
  /\ Running
  /\ parseFailures' = parseFailures + 1
  /\ IF parseFailures' > MaxParseRetries
     THEN Fail /\ IF RequireEvidence THEN FailLedger ELSE UNCHANGED ledger
     ELSE NextStep /\ UNCHANGED ledger
  /\ UNCHANGED <<env, disk, acct, verdict, coverage, evidence, spent, hist>>

--------------------------------------------------------------------------------
(* finish(): the gates, in the code's order. *)

\* Mutant: one required kind is enough.
EvidenceMissingAll == RequireEvidence /\ Required \cap evidence = {}

EvidenceMissing == RequireEvidence /\ ~(Required \subseteq evidence)
AllEditsFailed == attempted /\ ~succeeded
NothingRepaired == allowWrite /\ ~succeeded /\ goal = "repair"
TooFewActions == actions < MinActions

RefusedOutright == EvidenceMissing \/ AllEditsFailed \/ NothingRepaired \/ TooFewActions

\* Mutant: only goals worded as repairs are verified.
AutoVerifiedRepairs == allowWrite /\ succeeded /\ goal = "repair"

AutoVerified == allowWrite /\ succeeded /\ goal # "not_repair"

\* auto_test_verdict when the gate is through: cached, or from a run made now.
VerdictNow ==
  IF AutoVerified /\ verdict = "none" THEN TestRun(disk) ELSE {verdict}

Red(v) == AutoVerified /\ v \in {"FAILED", "OTHER"}

DepthGates(v) == allowWrite /\ succeeded /\ goal = "repair" /\ v # "NO_COMMAND"

\* The files with an image, and the images of a file, one for each key it had.
Images(f) == {snapshot[f][k] : k \in Keys} \ {Untouched}
Patched == {f \in Files : Images(f) # {}}

\* Images are put back in the order of their keys: of several of one file that of
\* the last key stays, whichever edit it was taken before.
RevertedTrees ==
  {tree \in [Files -> Contents] :
     \A f \in Files : IF f \in Patched THEN tree[f] \in Images(f) ELSE tree[f] = disk[f]}

\* _revert_check: FALSE when the suite passes without the patch as well.
RevertVerdicts ==
  IF Patched = {} \/ \E f \in Patched : disk[f] = Absent
  THEN {"UNKNOWN"}
  ELSE {CASE t = "PASSED" -> "FALSE" [] t = "FAILED" -> "TRUE" [] OTHER -> "UNKNOWN" :
          t \in UNION {TestRun(tree) : tree \in RevertedTrees}}

CoverageNow == IF coverage = "none" THEN {"TRUE", "FALSE", "UNKNOWN"} ELSE {coverage}

\* _verification_label
VerificationLabel(v) ==
  CASE v = "PASSED" -> "tests passed"
    [] v = "none" /\ ~succeeded -> ""
    [] OTHER -> "NOT verified"

\* ledger.accept(): through VERIFYING to ACCEPTED.
Accept ==
  ledger' = IF RequireEvidence /\ Required \subseteq evidence /\ ledger # "FAILED"
            THEN "ACCEPTED" ELSE ledger

Succeed(v) ==
  /\ outcome' = "success"
  /\ label' = VerificationLabel(v)
  /\ Accept
  /\ UNCHANGED <<step, evidence, spent>>

\* A write of the revert-check raised OSError: the run fails loudly, with some of
\* the patched files as they were before the patch, or truncated.
RevertError ==
  /\ Faults
  /\ disk' \in {tree \in [Files -> Contents] :
                 \A f \in Files :
                   tree[f] \in {disk[f]} \cup (IF f \in Patched THEN Images(f) \cup {Damaged} ELSE {})}
  /\ Fail
  /\ UNCHANGED <<led, coverage, revert>>

\* The depth gates after the test file was read: revert-check, then coverage.
ProvePatch(v) ==
  \/ \E r \in RevertVerdicts :
       /\ revert' = r
       /\ UNCHANGED disk
       /\ \/ r = "FALSE" /\ NextStep /\ UNCHANGED <<led, coverage>>
          \/ /\ r # "FALSE"
             /\ coverage' \in CoverageNow
             /\ IF coverage' = "FALSE" THEN NextStep /\ UNCHANGED led ELSE Succeed(v)
  \/ RevertError

Finish ==
  /\ Running
  /\ \/ /\ RefusedOutright
        /\ NextStep
        /\ UNCHANGED <<disk, verdict, coverage, revert, led>>
     \/ /\ ~RefusedOutright
        /\ \E v \in VerdictNow :
             /\ verdict' = v
             /\ \/ /\ Red(v) \/ (DepthGates(v) /\ ~testRead)
                   /\ NextStep
                   /\ UNCHANGED <<disk, coverage, revert, led>>
                \/ /\ ~Red(v) /\ DepthGates(v) /\ testRead
                   /\ ProvePatch(v)
                \/ /\ ~Red(v) /\ ~DepthGates(v)
                   /\ Succeed(v)
                   /\ UNCHANGED <<disk, coverage, revert>>
  /\ UNCHANGED <<env, parseFailures, acct, wrote, slipped>>

--------------------------------------------------------------------------------
(* Tool calls. *)

\* A handled call: what it reports, the arguments in force and the image taken
\* before they were (pre_patch_text), the tree it leaves, the calls carried out.
Result(obs, c, tree) ==
  [obs |-> obs, call |-> c, disk |-> tree, passed |-> FALSE, done |-> {c},
   image |-> IF c.file \in Files THEN disk[c.file] ELSE Absent]

Wrote(tree, c) == [tree EXCEPT ![c.file] = c.text]
Tore(tree, c) == [tree EXCEPT ![c.file] = Damaged]

\* _tool_patch_file and _tool_write_file on a tree: refused by the switch or the
\* approval gate, failed without a write (no match, no such file, OSError), rejected
\* for broken syntax, written, or failed half way (OSError).
EditResults(c, tree) ==
  LET patches == c.tool = "patch_file"
      there == tree[c.file] # Absent
      all == {Result("refused", c, tree)}
             \cup (IF allowWrite THEN {Result("failed", c, tree)} ELSE {})
             \cup (IF allowWrite /\ patches /\ there THEN {Result("rejected", c, tree)} ELSE {})
             \cup (IF allowWrite /\ (there \/ ~patches)
                   THEN {Result("ok", c, Wrote(tree, c))} ELSE {})
      torn == IF Faults /\ allowWrite /\ (there \/ ~patches)
              THEN {Result("failed", c, Tore(tree, c))} ELSE {}
  IN  {r \in all : r.obs \in EditOutcomes} \cup torn

\* The patches a search may try: the model's own, and those it draws.
Candidates ==
  {e \in Calls : /\ e.tool = "patch_file" /\ ~LooksLikeTest(e.file, e.spelling)
                 /\ disk[e.file] # Absent}

\* The end of a search that tried d: the caller is told of the patch e.
Searched(r, d, e) == [r EXCEPT !.done = d \cup {e}]

\* attempt() accepts e, as the suite does: it stays on disk, whoever proposed it.
Wins(tree, d) ==
  {[Searched(Result("ok", e, Wrote(tree, e)), d, e) EXCEPT !.image = tree[e.file]] :
     e \in {x \in Candidates : "PASSED" \in TestRun(Wrote(tree, x))}}

\* The removal of a losing e raised OSError, which ends the call c.
Stuck(c, tree, d) ==
  UNION {{Searched(Result("crashed", c, left), d, e) : left \in {Wrote(tree, e), Tore(tree, e)}} :
           e \in Candidates}

\* _search_patch on a red suite: patches are tried and removed, those of d failed
\* half way and are left, until one wins, one cannot be removed, or none is left
\* and the model's own is applied as a plain patch_file would.
Search(c) ==
  UNION {LET tree == [f \in Files |-> IF f \in {e.file : e \in d} THEN Damaged ELSE disk[f]]
         IN  Wins(tree, d)
             \cup (IF Faults THEN Stuck(c, tree, d) ELSE {})
             \cup {Searched(r, d, c) : r \in EditResults(c, tree)} :
           d \in IF Faults THEN SUBSET Candidates ELSE {{}}}

SearchPatch(c) ==
  EditResults(c, disk) \cup IF "FAILED" \in TestRun(disk) THEN Search(c) ELSE {}

\* What the handler of a call reports and does.
Results(c) ==
  {Result("crashed", c, disk)} \cup
  CASE c.tool = "patch_file" /\ PatchCandidates /\ allowWrite /\ goal = "repair" -> SearchPatch(c)
    [] c.tool = "patch_file" /\ ~(PatchCandidates /\ allowWrite /\ goal = "repair") ->
         EditResults(c, disk)
    [] c.tool = "write_file" -> EditResults(c, disk)
    [] c.tool = "forge_tool" ->
         {Result(obs, c, disk) :
            obs \in EditOutcomes \cap (IF allowWrite THEN {"ok", "failed", "refused"} ELSE {"refused"})}
    [] c.tool = "run_tests" -> {[Result("ok", c, disk) EXCEPT !.passed = (t = "PASSED")] :
            t \in IF c.file = Absent THEN TestRun(disk) ELSE TargetRun}
    [] OTHER -> {Result("ok", c, disk)}

\* Mutant: only patches of test files are refused.
EditsTestByPatch(c) ==
  allowWrite /\ goal = "repair" /\ c.tool = "patch_file" /\ LooksLikeTest(c.file, c.spelling)

EditsTest(c) ==
  /\ allowWrite /\ goal = "repair"
  /\ c.tool \in {"patch_file", "write_file"} /\ LooksLikeTest(c.file, c.spelling)

\* A call the loop answers without running it: an edit of a test file on a
\* repair goal, a patch of a path no tool has confirmed yet, or one read too
\* many in a row.
RefuseCall(c) ==
  /\ Running
  /\ allowWrite
  /\ EditsTest(c) \/ c.tool \in {"patch_file", "read_file", "list_dir"}
  /\ parseFailures' = 0
  /\ NextStep
  /\ UNCHANGED <<env, disk, acct, verdict, coverage, led, hist>>

\* The observation of a repeated call starts with "[repeat]", so every test of
\* how it starts sees neither a refusal nor a failure in it.
Repeated(r) == r.call \in seen
ReadsAs(r, obs) == r.obs = obs /\ ~Repeated(r)
Counted(r) == r.call.tool \in Edits /\ ~ReadsAs(r, "refused")
Landed(r) == Counted(r) /\ r.obs # "crashed" /\ ~ReadsAs(r, "failed")

\* Mutant: each edit overwrites the pre-patch image.
SnapshotOfLast(r) ==
  [f \in Files |-> [k \in Keys |->
     IF Landed(r) /\ r.call.file = f /\ KeyOf(r.call.spelling) = k
     THEN r.image ELSE snapshot[f][k]]]

\* pre_patch_snapshot.setdefault: of one key, the earliest image wins.
SnapshotAfter(r) ==
  [f \in Files |-> [k \in Keys |->
     IF Landed(r) /\ r.call.file = f /\ KeyOf(r.call.spelling) = k /\ snapshot[f][k] = Untouched
     THEN r.image ELSE snapshot[f][k]]]

\* Mutant: an edit leaves the cached verdict.
VerdictKept(r) == verdict

VerdictAfter(r) == IF Landed(r) THEN "none" ELSE verdict

Account(r) ==
  /\ attempted' = (attempted \/ Counted(r))
  /\ succeeded' = (succeeded \/ Landed(r))
  /\ actions' = IF r.obs # "crashed" /\ ~Repeated(r) /\ actions < MinActions
                THEN actions + 1 ELSE actions
  /\ testRead' = (testRead \/ (r.call.tool = "read_file" /\ r.obs # "crashed"
                                 /\ LooksLikeTest(r.call.file, KeyOf(r.call.spelling))))
  /\ snapshot' = SnapshotAfter(r)
  /\ seen' = seen \cup {r.call}
  /\ verdict' = VerdictAfter(r)
  /\ coverage' = IF Landed(r) THEN "none" ELSE coverage

EvidenceOf(r) ==
  CASE r.call.tool = "read_file" -> {"FILE_READ"}
    [] r.call.tool = "list_dir" -> {"SEARCH_PERFORMED"}
    [] r.call.tool \in Edits -> {"FILE_MODIFIED"}
    [] r.call.tool = "run_code" -> {"CODE_EXECUTED"}
    [] r.call.tool = "run_tests" /\ r.passed /\ ~Repeated(r) -> {"TESTS_PASSED"}
    [] OTHER -> {}

\* Evidence, the ledger's state and the budget, when evidence is required.
RecordEvidence(r) ==
  LET kinds == IF ReadsAs(r, "crashed") THEN {} ELSE EvidenceOf(r)
      working == IF "FILE_MODIFIED" \in kinds /\ ledger = "ANALYZING"
                 THEN "IMPLEMENTING" ELSE ledger
  IN  IF RequireEvidence
      THEN /\ evidence' = evidence \cup kinds
           /\ spent' = spent + 1
           /\ IF spent' > MaxToolCalls
              THEN ledger' = "FAILED" /\ Fail
              ELSE ledger' = working /\ NextStep
      ELSE NextStep /\ UNCHANGED led

\* The test files that edits named without looking like tests.
Hidden(calls) ==
  {e.file : e \in {x \in calls : /\ x.tool \in {"patch_file", "write_file"}
                                 /\ x.file \in TestFiles
                                 /\ ~LooksLikeTest(x.file, x.spelling)}}

CallTool(c) ==
  /\ Running
  /\ ~EditsTest(c)
  /\ parseFailures' = 0
  /\ \E r \in Results(c) :
       /\ disk' = r.disk
       /\ Account(r)
       /\ RecordEvidence(r)
       /\ wrote' = (wrote \/ disk' # disk \/ (c.tool = "forge_tool" /\ r.obs = "ok"))
       /\ slipped' = slipped \cup Hidden(r.done)
  /\ UNCHANGED <<env, revert>>

Next ==
  \/ TimeoutOrModelError
  \/ Exhausted
  \/ NoBlock
  \/ Finish
  \/ \E c \in Calls : RefuseCall(c)
  \/ \E c \in Calls : CallTool(c)

Spec == Init /\ [][Next]_vars
-------------------------------------------------------------------------------
Green == hasTests /\ suite[Source(disk)] = "PASSED"
Changed == disk # InitialDisk
Succeeded == outcome = "success"

\* Type correctness.
LoopTypeOK ==
  /\ goal \in Goals
  /\ allowWrite \in BOOLEAN /\ hasTests \in BOOLEAN
  /\ attempted \in BOOLEAN /\ succeeded \in BOOLEAN
  /\ testRead \in BOOLEAN /\ wrote \in BOOLEAN
  /\ disk \in [Files -> Contents]
  /\ step \in 1..(MaxSteps + 1)
  /\ outcome \in {"running", "success", "failed"}
  /\ label \in {"", "tests passed", "NOT verified"}
  /\ parseFailures \in 0..(MaxParseRetries + 1)
  /\ actions \in 0..MinActions
  /\ verdict \in Verdicts
  /\ coverage \in {"none", "TRUE", "FALSE", "UNKNOWN"}
  /\ snapshot \in [Files -> [Keys -> Contents \cup {Untouched}]]
  /\ seen \subseteq Calls
  /\ ledger \in TaskState
  /\ evidence \subseteq EvidenceKind
  /\ spent \in 0..(MaxToolCalls + 1)
  /\ revert \in {"none", "TRUE", "FALSE", "UNKNOWN"}
  /\ slipped \subseteq TestFiles

\* The cached verdict of the suite is that of the tree as it is now, after any
\* interleaving of edits, repeats, rejected finishes and reverts of the patch
\* (auto_test_verdict: "Invalidated by any new mutation").
VerdictIsCurrent == verdict = "PASSED" => Green

\* "Any change on disk is checked": a run whose tree differs from the one it
\* was given succeeds only over a suite that is green now, or says it had no
\* suite to run, unless the caller said the goal is not a repair.
EveryChangeIsTested ==
  Succeeded /\ Changed /\ goal # "not_repair" =>
    IF hasTests THEN Green /\ label = "tests passed" ELSE label = "NOT verified"

\* No file was patched under two keys.
OneSpelling == \A f \in Files : \A k, m \in Keys :
  snapshot[f][k] # Untouched /\ snapshot[f][m] # Untouched => k = m

\* A repair whose revert-check says "proven" was red on the tree the run was
\* given and is green on the tree it leaves, whatever was patched how often and
\* by whom, as long as every file was patched under one key: of a file patched
\* as "a.py" and as "x/../a.py" the revert may put back a later image.
ProvenRepair ==
  Succeeded /\ goal = "repair" /\ revert = "TRUE" /\ OneSpelling =>
    Green /\ suite[Source(InitialDisk)] = "FAILED"

\* What a run may never touch: anything without --write; and on a repair goal a
\* test, by the model, a drawn candidate, a write that failed or a restore,
\* unless an edit that was carried out named it past _is_test_path.
TreeIsGuarded ==
  \A f \in Files :
    ~allowWrite \/ (goal = "repair" /\ f \in TestFiles \ slipped) => disk[f] = InitialDisk[f]

\* With require_evidence the ledger and the loop agree on how the run ended:
\* ACCEPTED exactly when it succeeded, and then over all required evidence;
\* a failed ledger is a failed run.
LedgerAgrees ==
  RequireEvidence =>
    /\ ledger = "ACCEPTED" <=> Succeeded
    /\ Succeeded => Required \subseteq evidence
    /\ ledger = "FAILED" => outcome = "failed"

--------------------------------------------------------------------------------
(* What comments of the code say and the code does not do. *)

\* "a run that tried to change a file, failed, and calls it done is a false
\* green" (finish): a run that attempted an edit succeeds only if one landed.
NoFalseGreen == Succeeded /\ attempted => wrote
================================================================================
