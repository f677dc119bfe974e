# Saleha: specifications, model checks and proofs

Saleha is a coding agent that runs on local models. A goal goes through an agent
loop that lets a model edit a working tree under verification gates; the model is
reached through a client with queueing, retries and a circuit breaker; workflows run
graphs of nodes on a thread pool; around these stand a swarm of role agents, a web
server, a command line, daemons, a desktop shell and several optional Rust crates.

This directory holds TLA+ modules translated from that source, TLC configurations
that check them on small instances, and TLAPS proofs for every value of the constants.
`PROJECT.json` maps every definition to the lines it stands for, and lists runs,
hazards, findings and theorems.

## 1. The system

Paths are below `src/saleha/`.

| Component | State | Operations | What makes it correct |
|---|---|---|---|
| circuit breaker (`core/platform/circuit_breaker.py`) | per server: state, failures, opened_at, epoch, probes, behind a lock | `admit`, `record` | a cool-down is kept; no probe slot leaks or is released twice; only the current round's probe decides; only consecutive failures open |
| async model client (`core/platform/async_ollama.py`) | semaphore of in-flight slots; locals of each `generate()` | `generate`, attempts, backoff, cancellation | slots and admissions are conserved on every path out; retries respect attempts and deadline; every request ends |
| blocking providers (`core/platform/model_provider.py`) | none of their own | `generate`, `is_available`, `stream_generate` | same use of the breaker |
| fast inference (`core/platform/fast_inference.py`) | prompt cache, batch queue | `generate`, batching | cache coherence, deadline before admission |
| agent loop (`core/loop/agentic_loop.py`) | counters of edits and actions, cached test verdict, snapshot of patched files, seen calls; the working tree | one reply per step: tool call, finish, unreadable | what a run claims of the tree is true of the tree |
| evidence ledger (`core/verification/task_evidence.py`) | task state, evidence, budget | record, judge, accept, fail | acceptance means all required evidence, and evidence means something happened |
| work ledger (`core/verification/work_ledger.py`) | a file of hash-chained entries, each process's copy of it, hashes mirrored outside the repository | load, record, anchor, verify | a file that passes holds what was anchored, and all below it; with the count, an omission shows; what nobody disturbed passes |
| workflow engine (`core/workflow/workflow_engine.py`) | node statuses, lists per execution | batches, execute | order, cascade of failures, true report, termination |
| task DAG (`core/workflow/dag_engine.py`) | the same scheme over role agents | run | the same |
| octopus coordinator, worker pool (`core/swarm/octopus_coordinator.py`, `agent_worker_pool.py`) | a blackboard per mission; a thread pool and its queue, shared by all missions | five arms on the pool with timeouts, the others on the mission's thread; the verdict | what is reported was found of the text that is returned; no arm holds a mission up |
| repair search (`core/verification/verified_search.py`) | candidates seen, the first that passed, a stop event, behind a lock | tries on threads, verify, escalate to the next model | nothing is verified twice; what passed is found; the bigger model is asked last |
| swarm pipeline, checkpoints (`core/swarm/swarm_pipeline_engine.py`, `swarm_checkpoint_store.py`) | the stages' flags, the text; one JSON file per execution | execute, resume, save | a success is of the returned text; a checkpoint is whole whatever crashes |
| rest of the swarm (`core/swarm/`) | votes, bus, board | vote, publish | agreement rules |
| sandbox, harness (`core/sandbox/`, `core/harness/`) | processes and containers | run with limits, approve | the limits; an unapproved edit never lands |
| task scheduler (`core/daemons/task_scheduler.py`) | JSON file of tasks, each process's copy of it | load, register, cancel, trigger, run due, save | the file stays whole; no execution is counted that did not happen; a due time is served once |
| daemons (`core/daemons/`) | a heartbeat table, a child process | ping, start, stop | a silent worker is noticed |
| stores and telemetry (`core/memory/`, `core/telemetry/`) | SQLite tables, log files | single statements, append | hash chain of the audit log |
| web server, command line (`server/`, `cli/`) | sessions, registry of workflows | HTTP handlers, commands | one registered workflow, many requests |
| desktop shell (`../apps/desktop/src-tauri/`) | a child process | start, watch, stop | never two children, none left over |
| PBFT replicas (`../rust/crates/saleha-consensus/src/pbft.rs`) | view, votes and phase per (view, sequence) | five message handlers and a timeout | agreement; what is committed was signed by correct replicas; a view change was asked for by one |
| other Rust crates (`../rust/`) | HotStuff, a compiler-like pipeline | not called by the Python program | agreement |

**How they interact.** The agent loop asks a provider for each reply; provider threads
and `generate()` coroutines share one process-wide breaker per server. Tools of the
loop write the tree, and the loop's gates run the project's tests over it; evidence is
recorded in the ledger that a finish consults. The web server is threaded and executes
workflows out of a registry, so requests share the node objects of one `WorkflowDAG`. It
shares the schedule file with the chat and with `saleha scheduler`, each in a process of
its own. `proof_receipt.py` loads the work ledger, runs a test suite, and records. Missions
of the octopus coordinator share one worker pool; a pipeline stage whose tests fail calls
the repair search, which reports to the model router.

**What is hard here.** Threads overtake each other between a clock read and a lock;
results of one half-open round arrive in the next; cancellation at any `await`;
deadlines against backoff and queueing; a cached verdict of a tree that changes under
it; the same tool call sent twice, or one file named by several spellings of its path; a write or a restore that fails half way; executions
that share statuses; batches larger than their pool; files loaded long before they are
written back, by several processes, any of which may be killed between two system calls;
tasks that go on after their timeout; several results at one wake-up;
votes that come late, twice, as another kind of vote, or from liars. `PROJECT.json` lists each hazard
at its line, with the properties that would catch it.

## 2. Plan

1. **Breaker, CircuitBreaker** with proofs, **ModelClient** on top (done).
2. **AgentLoop** with the evidence ledger, and its proofs (done).
3. **DAGSchedule**, the abstract promise of a workflow; **Workflow**, which implements
   it, with the proof of that (done).
4. **Pbft** with proofs: the one component of the repository that is a distributed
   protocol (done).
5. **WorkLedger** and **TaskScheduler** with proofs: files shared by processes that crash
   (done).
6. **ModelClient_proofs**: the client takes only the steps of the breaker's protocol, and
   its own invariants (done).
7. **Octopus**, **RepairSearch** and **SwarmPipeline**, with their proofs in
   **Swarm_proofs**: the three parts of the swarm where threads, timeouts or crashes decide
   what is reported (done).
8. Left, in this order: fast inference with its prompt cache on `CircuitBreaker`; the task
   DAG; HotStuff; the swarm's votes; the desktop shell and its child.
9. **Every safety property a run checks is a theorem** (done). Liveness stays with TLC; the
   part of it that is not about fairness is proved (section 6).

A run asks one question, and a divergence that reading the code settles is told in
section 4 without a run of its own.

## 3. Modules

`Breaker <- CircuitBreaker <- ModelClient` by EXTENDS; each `*_proofs` module extends the
module it is about, and `ModelClient_proofs` also `CircuitBreaker_proofs`, whose theorems
it carries over; `Workflow` instantiates `DAGSchedule`; `Swarm_proofs` has the proofs of
`Octopus`, `RepairSearch` and `SwarmPipeline`, which share no state. `MC*` modules add
what only TLC needs: symmetry sets, patterns of loss, a view, and in `MCSwarm` a variable
`part` that chooses which of the three parts of the swarm a behaviour is of. A definition
whose comment starts with "Mutant:" is a plausible bug in the definition after it; no
specification uses it, it serves to see that the property can fail.

### Breaker, CircuitBreaker

`Breaker` is the pure half: `AdmitCall` and `RecordResult` are `admit_call` and
`record_result` over the record `BreakerSnapshot`; `last_error`, `reason` and
`detail` are wording. `CircuitBreaker` is one key of the store and the callers.
A call is four steps: `Begin` reads the clock, `Admit` is the transaction under the
lock, `Finish` ends the call in any `Health` and reads the clock again, `Record` is the
second transaction. The clock reads are separate because the code reads
`time.monotonic()` before it takes the lock. History variables `rounds`, `born` and
`streak` let the properties speak of rounds and consecutive failures without the
fields the code itself compares.

`reset_shared_breaker` is left out: only tests call it (`tests/conftest.py`), with no
call in flight. It starts epochs at 0 again, so a reset during a probe would let that
probe decide a later round. `OpenSeconds` is in whole seconds, the clock's unit.

### ModelClient

`AsyncOllamaClient.generate`: `Enqueue`, `Acquire` and `LeaveQueue` are the wait for
`_slots` under `queue_timeout`; `OutOfTime`/`TryAttempt` the top of the attempt loop;
`AdmitRequest`, `Answer`, `Settle` and `Wake` one attempt, with the breaker steps of
`CircuitBreaker` inside them; `Cancel` is a cancellation delivered at any `await`.
An answer is one of the pairs in `Exchange` (kind, health, whether a retry may help).
`next_delay`, jitter and Retry-After included, is any delay up to `MaxDelay`. `Provider`
threads use the same breaker and no slot.

### AgentLoop

One run of `_run`, in the order of the code: the deadline or a failed model call
(`TimeoutOrModelError`), the step limit (`Exhausted`), an unreadable reply (`NoBlock`),
a finish claim (`Finish`, with its gates in the code's order), a tool call (`CallTool`)
or one the loop refuses to run (`RefuseCall`). A finish is one action, because nothing
else runs meanwhile.

Abstractions: the model replies anything to anything, so the prompt and the transcript
are out. A file's text is one of `Original`, an edit text, `Absent` and (with `Faults`)
`Damaged`. The suite is an arbitrary function of the files of `Tested`, chosen at Init, and
each run of it may time out instead (`"OTHER"`). `run_tests` with a target may pass where the
suite fails. `require_test_read` is TRUE, the default. `forge_tool` counts as an edit but
writes no file of the tree. The coverage verdict is any of its three values.
`RefuseCall` stands for the refusals that depend on what navigation has confirmed: the
paths and the counts they need are not modelled, the loop may refuse any such call.

A call names a file and how its path is spelled, because three parts of the code read the
same path differently. `_safe_path` strips and normalises it (`agentic_loop.py:797`), so every
spelling reaches the one file. `_is_test_path` sees it as written (`:2763`, `:1583`): a blank
around it or a slash after it hides a test's name or directory (`LooksLikeTest`), so an edit
of `' tests/util.py'` or `'test_x.py/'` is let through; `slipped` is the test files such an
edit has named. `_norm_rel_path`, the key of `pre_patch_snapshot` (`:191-201`), drops the
blank but keeps `x/../a.py`, `src//a.py` and `a.py/` apart from the plain path (`KeyOf`), so
that one file may have several images. The revert-check puts all images back, in the order of
their keys, and of several of one file any may come last (`RevertedTrees`). One that works
restores the patched files, so it leaves `disk` as it was; `RevertError` is one that does not.

`SearchPatch` is `_search_patch`: a drawn candidate stays only over a passing suite, a losing
one is removed. With `Faults` a candidate's write may fail half way, after which the search
goes on over the torn file, and its removal may raise, which ends the call (`Stuck`); when no
candidate is left, the model's own patch is applied as if there had been no search.

### DAGSchedule, Workflow

`DAGSchedule` says what an execution promises: a node runs once, after everything it
depends on has succeeded; it is skipped only below a failure; success is reported
exactly when every node succeeded. `Workflow` is the code: `NextBatch` and `Layers` are
`get_topological_batches`, `Orderable` its two errors, `Examine` the skip decision of
the loop over a batch, `Start`/`Return`/`Raise`/`Check`/`Complete` the worker's
`_run_single_node`, `Collect` the `as_completed` loop, `CloseBatch` the end of the
`with` block, `Conclude` the result. `status` is in the node objects and shared by all
executions; `pc`, `done` and the lists are per execution. `Overlap` says whether callers
may run at the same time. `Return` lets a body leave any of the statuses that
nodes set themselves (`SelfHealingNode` sets COMPLETED or HEALED, `nodes.py` none).
The four lists are sets, since a node enters one of them at most once; outputs,
blackboard, events and durations are out. The graph is chosen at Init and may be cyclic
or name an unknown node; duplicates in `depends_on` change nothing.

### Pbft

The handlers of `PbftNode`, one action each; one that returns an error changes nothing
and is no step. `round` is the map `rounds`, with an absent round as a new one; the votes
for leaving a view, which the code keeps in the round (view, 0), are `asked`. `sent` and
`changes` are all messages correct replicas ever sent, and never shrink: delivery is late,
repeated, reordered or does not happen. A faulty replica has no state: whatever it could
sign is receivable. `Lost` lists messages a replica never gets, to prune instances; the
proofs leave it arbitrary.

`pre_prepare_bytes`, `prepare_bytes` and `commit_bytes` are the same bytes, the view, the
sequence number and the digest (`pbft.rs:296-304`). What `verify_signature` accepts is
therefore what the sender has signed of these three in a message of any kind (`Signed`,
`Receives`): a Commit is also its sender's Prepare, and a Prepare its Commit. View changes have
bytes of another length and are not interchangeable with them.

Facts of the code that the model keeps: a proposal delivered again takes its round back to
PrePrepared, committed or not; the Commit is signed for the digest of the vote that completed
the quorum and not for the round's (`:207`); the view may go back, since the number in the last
vote is obeyed; `self.sequence` is always 0, so all view-change votes of a view meet in one
round; the quorum `2f + 1` with `f` rounded down intersects in a correct replica only for
`n = 3f + 1` (for 5 or 6 replicas two quorums may meet in a faulty one).

Together they cost agreement within one view. Of four replicas let 0, the leader, be faulty. It
proposes d to 1 and 2 and d' to 3; 1 commits d. It sends d to 1 and 2 again, which takes both
back to PrePrepared, with a quorum of Prepares for d in hand. The next Prepare either counts is
3's, for d', and each signs a Commit for d', which it does not hold. These two signatures,
delivered to 3 as Prepares and then as Commits, make it commit d'. The first delivery of d
suffices if the Prepares for it have come before it. This contradicts the guarantee of
`pbft.rs:2`, "Safety + Liveness when f < n/3"; it has no run of its own beside `pbft_views`, which
contradicts the same line without any faulty replica. Signing for a proposal one does not hold is
`Strayed`, and `AgreementUnlessStrayed` says that nothing else parts two correct replicas:
without it, signatures of any kind, delivered as any other, do no harm. `CommitIsSigned` is what
remains of a quorum's meaning, that more than f correct replicas have signed what is
committed; they need not have accepted it. `AgreementInView` holds while nobody is faulty.

### WorkLedger

`file` is the lines of the ledger file, `mem` the copy each process loaded, and a hash is the
sequence of the contents it is of (`HashOf`): SHA-256 without collisions, which anyone can
compute. `Record` is `_record` up to the append, `Anchor` the mirror in the kernel's ledger or
its failure, `RecordCut` a write cut short before its newline (then the next append lengthens
that line: `WithLine`), `Closed` a process that finished or was killed. `LoseLine` and
`AlterLine` are what edits, merges and disks do to the file. `Rechain` is what its holder can
do with it, `_delete_and_rechain` of `test_work_ledger.py:225` and more: drop lines, move or repeat
them, put claims of its own into them first (`Forged`, by `AlterLine`), number them from 0 and
compute every hash again.
`Verify` is the verdict `chain_intact` of `verify(recheck=False)` for whoever loads the file now;
the kernel is installed and its own ledger is whole. HEAD may be any commit, or git may not
answer; when it does not answer at verification, the order is taken as right (`:541`). A git
that fails between two of its calls gives a verdict between these two. `recorded`, `basis` and
`undisturbed` are history; a record is undisturbed when it continued the whole file, whatever
commit it was made at.

A chain that was computed again is intact to every check inside the file
(`work_ledger.py:446-451`, `:489-495`; `test_deletion_plus_rechain_is_NOT_caught`), so no
property says that intact is history. What is held outside of the file is what counts:

- an anchor pins its entry in its place, and all that entry stands on (`AnchorsPinHistory`).
  What is above the last anchor, or was never anchored, may be cut off or replaced;
- the count `expect_entries` makes an omission show (`CountClosesTheHole`): a file of the right
  number of entries that passes lacks none of them, unless another line is in its place, one
  that claims what nobody recorded or what a line beside it claims. It pins neither what is
  claimed nor the order: who holds the file may alter a claim, repeat or move it, compute the
  chain again, and with the same count it passes. `:628-634` promise no more than that an
  omission is not silent.

Other consequences that the model shows: two receipts at once fork the chain
(`proof_receipt.py:264` loads, then runs tests for up to 15 minutes, then records), and the
ledger is then reported as tampered with; a record whose write lost only its newline is
readable until the next append makes it corrupt. And honest work, one record after the other on
the whole file, is called TAMPERED when one was made after checking out an older commit, or
after a rebase (`:543-552`), although rule 3 (`:51-54`) wants such differences kept apart from
TAMPERED. `OnlyOrderIsBlamed` says that this is the only thing undisturbed work is blamed for. A
write cut inside a multi-byte character, which makes `_load` raise, is left out.

### TaskScheduler

A process has one `TaskSchedulerEngine`, created at import, that all its threads use;
`mem` is its `_tasks`. `_save` is three steps (`OpenTmp`, `Dump`, `Replace`) on a temporary
file whose name all processes share, with POSIX meaning: the open file may be moved over
the schedule, and a write then lands in the schedule itself (`fd`). Any of the steps may raise
OSError (`SaveFails`): the operation ends, the temporary file stays as it is or torn, and the
process lives on with a copy it has not saved; in the constructor the import fails and nothing
is loaded. The `FileNotFoundError` of a save whose file another one has moved is one of these.
`Kill` ends a process at any point. `seeds` counts the defaults the constructor has still to
save, one save each. Running a goal takes from `Starts` to `FinishRun`. `Calls` says who uses
which operation: the server triggers, the commands and the chat do the rest. A cron
expression is reduced to the next run it gives, a minute later or none within eight days.
A task is numbered as it is registered, which is also its place in the list of `run_due_tasks`.
`ran`, `dueRuns`, `truth`, `alone`, `shared`, `cut` are history; `cut` says that a kill or a
failed save has cut an operation short.

What the model shows and no property forbids: operations of two processes that overlap lose
updates (that is why `AloneIsExact` says "alone"); two saves at once can leave a torn
file, which the next process takes for an empty schedule and seeds with the defaults,
or end one of them with `FileNotFoundError`; two `run-due` commands at once run a task that is
due twice; what a save that failed has left unsaved is saved by the next save of that process,
or lost with it; the defaults come back when all tasks have been
cancelled; a task whose next run is more than eight days away is never due again.
`cancel_task` is called by tests only; it is modelled because it is public.

### Octopus

A mission is a call of `coordinate`, and `stage` says how far its thread is. `Submit` and
`Await` are `execute_parallel` of the pool: all tasks of a batch are submitted, then their
futures waited for one by one, each with a timeout (`Reply`); `RecordBatch` is the loop over
the answers, whose callback is not guarded and may end the mission. `Implement` and
`Critique` run on the mission's thread. The workers are `StartArm` (the head of the
queue, a free worker) and the ends of an arm: `RunSecurity`, `RunQA`, `RunOther`,
`ArmRaises`; an arm without an end hangs. `overall_success` is computed field by field
without the lock, and the result reads the fields again: `JudgeTests`, `JudgeRest`,
`ReportVerdicts`, `ReportRan`. A late arm may write between any two, so a check that
passed late can stand beside a success of FALSE; the reverse is `SuccessIsReported`.
Prompts, plans, events, conflict notices and the tool registry are out: no verdict
depends on them. `examined` is history.

### RepairSearch

`VerifiedSearch` with its threads, run once for each model of `_repair_with_counterexample`
(`tier`). `SubmitTry` and `Collect` are the caller's loop: fill up to `AtOnce` threads unless
the stop event is set, wait for the first to end (`wait(FIRST_COMPLETED)` returns all that
have), note the first that passed. A try is three steps: `Draw` asks the model and may get
nothing, `Compare` looks the text up and notes it in one critical section, `Verify` runs the
verifier, which finds anything or does not run. `EndSearch` is the end of a tier: a winner is
returned, else the next model is asked. A candidate whose verification did not run stays
noted, so its repeats are duplicates and are never verified.

### SwarmPipeline

Calls of `execute_swarm` and `resume_swarm` for one execution id. `execute_swarm` takes any id,
one already used included (`Execute`, and `reused` as history). A stage is one step that
leaves `flags` (the text, what ran, what was found) and the save after it is four:
`SaveOpen`, `SaveWrite`, `SaveReplace` or, anywhere, `SaveFails`, on a temporary file whose
name all calls share, with the same POSIX meaning as in `TaskScheduler`. `Dies` is a stage that
raises or a process that is killed. The route is a constant; its assumption (a scan between the
coder and QA, each role once) is what `AutonomousSwarmRouter.route_goal_to_dag` builds
(`swarm_pipeline_engine.py:117-140`). `Clean` is the texts the scanner finds nothing in.
`earned`, `tested` and `apart` are history; `apart` says that no call has begun while another
was alive.

What the model shows and no property forbids: a resumed run starts at the first stage (the
docstring at `:735` says so, `swarm_checkpoint_store.py:4-5` promises the opposite) and overwrites the
old checkpoint with an empty one before it; `execute_swarm` with the id of
a completed run overwrites its checkpoint (`:363-384`); overlapping calls of one id may leave a file that cannot be
read, or put a completed one back in progress; a kill after the last save leaves a completed
success that is never remembered; a completed run whose last save failed is run again; the
reviewer's verdict is no part of success (`_overall_success`).

## 4. Runs

Constants are in the `.cfg` of each run. The larger ones have about 3 million
distinct states; alone, none takes more than three minutes.

| Run | Question | Bounds, and why they are enough |
|---|---|---|
| `breaker_rounds` | a round's counter is exactly its probes in flight; a probe of an earlier round neither decides nor frees a slot; slow threads keep the cool-down; only consecutive failures open; a full round does not stay full | two callers, two probes per round; threshold 2, so a success can fall between failures; cool-down 2 and clock to 7: three half-open rounds, and a probe outlives one |
| `client_requests` | slots, probes and admissions conserved under cancellation anywhere, retries bounded, kinds honest, every queued request ends | two requests, one slot, a provider thread; clock to 2: a queue wait, an attempt, a backoff and a second attempt against both deadlines |
| `loop_gates` | every interleaving of edits, reads, candidates and finishes over every suite: the verdict is current, every change is tested, a proven repair was red before unless a file was patched under two keys | 5 steps: patch, patch the file by another spelling, read the test, finish, and one to spare; one source and one test file, two texts, two spellings. The suite looks at the source file and fails without it, and files are read by their plain path (`Bounded`). `write_file` and `run_tests` are left to `loop_ledger` |
| `loop_ledger` | writes, candidates and restores that fail half way, and paths that hide a test: what may be touched; what ACCEPTED means | 4 steps, 3 tool calls: the budget is exceeded within the run; a repair and another goal; every tool that writes the tree, a spelling with a slash after the path |
| `workflow_sequential` | two executions after one another over every graph of three nodes: refinement of `DAGSchedule`, true lists, exact cascade, termination | three nodes give chains, diamonds' halves, cycles, unknown dependencies and a batch above the pool of 2; the second execution meets every status the first can leave |
| `pbft_round` | a faulty leader and voter against three correct replicas, with signatures delivered as any kind of message and a view change: what parts two correct replicas in one round, who has signed what is committed, nobody moved by the faulty alone | n = 4, f = 1, two proposals: two full quorums with one liar in both are possible, and two correct replicas do commit differently, after one has strayed; without that premise the run fails. `Equivocates` gives each half its proposal and lets 3 tell of its own; one correct replica may time out, after a commit (`ChangeAfterCommit`), the second vote is the liar's |
| `work_ledger` | what passes verification, with an anchor, with the count and without both, whoever computed the chain again; what undisturbed work fails for; no record covers up a break | two processes, three records, two accidents: a fork; a loss and a repair on top of it; a claim altered and the chain computed again over it; two commits in either order. `Bounded`: git fails for one record at most, and for none after an accident; three hashes are anchored only at the end; where lines are moved the behaviour goes on only if that was the second accident and nothing is anchored (the state itself is checked) |
| `task_schedule` | the file stays whole unless two saves meet; operations that follow each other are exact across processes, crashes and failed saves; counts are of real executions; a due time is served once | two threads of one process and another process; two tasks, two goals, one tick; one default schedule where the code has two, since with two a third task is needed to see anything else. `VIEW` drops histories once no property reads them: `alone` never becomes true again; the two threads of the server do the same and are symmetric |
| `swarm_parts` | of a mission: verdicts are of the returned text, success contradicts no field beside it, every mission ends; of a repair: nothing is verified twice, what passed is found, the bigger model is asked last; of a pipeline: success is of the returned text, what is returned or remembered was earned, checkpoints stay whole and completed | the three parts share no state, so that a behaviour of one is checked with the others at rest (`part`). One mission on a pool of two, smaller than its batch of three, so an arm of its own first batch can hold a worker through the second: it meets every wait another mission could cause. Four tries of the first model, three at once, two of the second, three texts: several end before a wake-up, two draw one text, one still runs when another passed. Two calls, one after the other or at once, each dying or failing to save in any step; a clean and an unclean text. An id is executed again only when the call before is over (`Bounded`): where two overlap, `Execute` does what `ResumeUnfinished` does |

Three runs end in a violation, each of something the repository says:

| Run | What it shows |
|---|---|
| `loop_repeat` | a failed patch sent twice reads "[repeat] ...", counts as landed, and the run succeeds over an untouched tree (`NoFalseGreen`) |
| `workflow_overlap` | two executions of one registered workflow share node statuses, and a node below a failure runs (`FailuresCascade`) |
| `pbft_views` | a view change forgets what was committed: without any faulty replica, two commit differently for one sequence number (`Agreement`) |

Divergences met while modelling, without a run of their own. In the consensus crate: a faulty
leader parts two correct replicas within one view (section 3). In the work ledger: honest work
after a checkout or a rebase is called TAMPERED (section 3, `work_ledger.py:543`); the anchored
entries are put in a dictionary by number, so when a line is lost and another entry is
anchored under its number, `verify_external_anchor` reports a match (`work_ledger.py:354`;
`:332` says "(False, detail) when an anchored entry is missing"). In the swarm: an arm that
times out keeps its worker, and once all four hang every later task of any mission times out
in the queue without having run (`agent_worker_pool.py:97`; `:4` promises "graceful fault
recovery"); a check that timed out may pass while the critic runs, so that a mission succeeds
whose `brain_outputs` list that arm as failed (`octopus_coordinator.py:89-91`); a repeated
candidate counts against the model as "code already judged wrong"
(`swarm_pipeline_engine.py:333`) though the first copy passed, or its verification did not
run, after which `:344` reports it as "judged already" and it is never verified. In the loop
and the client: a path with a blank around it or a slash after it passes the guard of the tests
and is written (`agentic_loop.py:2763`, `:797`); a file patched under two keys may be reverted to a
later image than its first, so that the revert-check speaks of another tree than the one before
the patch (`:191`, `:3061`); reading a missing
file, or an edit that fails, is recorded as evidence of a read or of a change
(`agentic_loop.py:3092`; `task_evidence.py:84` says "actually read a real file"); an
identical `run_tests` call after a fix reads "[repeat] ..." and its pass is not recorded
(`:3095`); a write that truncates the file and then fails keeps the cached verdict of
the suite in force (`:134`, and `:2501` "Any change on disk is checked"); a patch rejected
for broken syntax reads "patch rejected:" (`agentic_loop.py:1493`), which the failure
prefixes do not list, so it counts as landed at once (`"rejected"` in `EditOutcomes` of
`loop_repeat` gives that shorter counterexample to `NoFalseGreen`); a test file
that does not exist counts as read (`:2181`); a finish that is refused does not reset
the count of unreadable replies (`:2747`); `CIRCUIT_OPEN` is documented as "nothing was
sent" and may end a request after an attempt (`async_ollama.py:65`, `:231`); an error
raised by the callback of `stream_generate` is recorded against the server
(`model_provider.py:145`).

`CHECK_DEADLOCK FALSE` stands where the system stops by design: requests that are
done, a run that ended, executions that concluded. The breaker never stops.

## 5. Fairness

- `CircuitBreaker`: weak fairness of `Admit`, `Finish` and `Record`. The lock is held
  for a pure function only, and every HTTP call has a timeout. Nobody is obliged to
  start a call, and the clock need not advance.
- `ModelClient`: weak fairness of each request's `Progress` and of the clock. The event
  loop runs every ready callback; timers fire; requests have timeouts. Cancellation and
  provider threads have none.
- `Workflow`: weak fairness of each execution's `Progress`: pool threads run, and a
  node's body ends (bodies carry timeouts of their own). Nobody has to call `execute`.
- `AgentLoop`, `WorkLedger`, `TaskScheduler`, `RepairSearch`, `SwarmPipeline`: none, nothing in
  them is a liveness claim.
- `Octopus`: weak fairness of each mission's thread (`MissionStep`): its waits have
  timeouts, and the coder and the critic end or raise (`MCSwarm` states the same). Workers
  and arms have none: `MissionsEnd` holds though no arm ever starts.
- `Pbft`: none. The crate has no transport, no retransmission and an unused
  `LEADER_TIMEOUT_MS`, so nothing in the code obliges a vote to arrive or a view to end.

## 6. Proofs

`tlapm` checks every `*_proofs` module completely.

**CircuitBreaker_proofs**, from `PolicyAssumption` (what `BreakerPolicy` enforces) and
`CallsAssumption` (finitely many callers). `AdmitFacts` and `RecordFacts` state what the
two pure functions can do to a snapshot. `SlotsAreProbesInFlight` is not inductive: it needs that
the snapshot's epoch is the number of rounds and no probe in flight has a later one
(`EpochsAreRounds`): a count that is right stays right because an old probe's epoch is
not the current one. The other properties need that a clock value read before the lock
is not ahead of the clock (`StampsArePast`), that a closed circuit has counted no more
failures than the history's streak (`FailuresAreConsecutive`), and that with one probe
per round a probe in flight is the current round's (`ProbesAreCurrent`).
Together they are `BreakerInv` (theorem `Invariance`). From it: `TypeCorrect`,
`SlotsAccounted`, `OneProbeAtATime`, and the action properties `CurrentProbeDecides`,
`OpensOnConsecutiveFailures`, `CoolDownKept`, for any number of callers and any policy.
`FullRoundIsOwed` is `FullRoundEnds` without its fairness: a round that refuses callers has a
probe of its own out, nothing but the record of one of these changes that, and any such record does.

**Workflow_proofs**, from `WorkflowAssumption` and `~Overlap`. `WorkflowInv` says of
every node where its handling may be given the batches left behind (`Position`), what
a queued node may rely on (`Ready`), what history and lists say at each place
(`Stage`), and that while an execution runs the shared status of a node it has handled
is its own (`StatusIsMine`); the last is what overlapping callers break.
`Implementation` is the refinement of `DAGSchedule`; `ReportsAreTrue` and `TypeCorrect`
follow, the latter with the bound on the pool, for every graph, number of nodes and of
workers. `FailureCascades` is proved on the schedule and carried over by the refinement: the
induction over the length of a path is in the steps of an execution, since what is skipped
is below something that failed or was itself skipped for a cause already there (`Caused`),
and what was started stands on successes only (`Grounded`); `Upstream` is therefore defined
by its closure and not by recursion.

Three results do not need `~Overlap`. `LayersEquation` shows that the recursive function
`Layers` obeys its equation (by the least number at which it might not, `Least`), from which
`OrderableIsAcyclic`: the loop of `get_topological_batches` covers the graph exactly when all
dependencies are nodes and no set of nodes is `Knotted`, each depending on another of the set,
so its errors are raised for these graphs and no others. `NobodyIsStuck` then says that
a running execution always has a step (`CanMove` lists the guards): the next batch is not empty,
and a full pool has a worker whose node can go on, since a batch holds no two nodes
of which one waits for the other. `Placed`, its invariant, speaks only of the
order of batches and not of statuses.

**ModelClient_proofs**, from the same assumptions and `ConfigAssumption`.
`ClientFollowsProtocol`: every step of the client is a step or a stutter of
`CircuitBreaker`, so that its theorems hold of requests and provider threads alike
(`ClientSingleProbe` is one of them). `ClientInv` adds that the free slots and the
holders make up `max_in_flight` (`SlotsConserved`), and per request what its place says of
its attempts, its result and its deadlines (`RequestInv`): attempts are counted as they are
sent, so whoever may try again has room for one more; a request is between admission and
record exactly while it is calling, which is what cancellation must not break. From
it `BulkheadHolds`, `ClientTypeCorrect`, `AdmissionsAreRecorded`, `RetriesAreBounded` and
`KindsStayHonest`, for any number of requests, threads and slots.

**AgentLoop_proofs**, from `LoopAssumption` (the constants for texts and paths differ; bounds
are numbers). A call is seen through `ResultFacts`: every file it changed was named by an edit that was let
through, with the switch on; and with whole writes it changed one file at most, whose image it
took before and which it reports as "ok". `GuardInv` adds to `TreeIsGuarded` that on a repair no
image of a test file is held, but of one that an edit named past `_is_test_path`
(`NoTestIsPatched`), without which a restore could write one; this and `LedgerAgrees` hold with
failing writes, candidates' included. The other three need `~Faults`, since a torn write leaves a
stale verdict in force (section 4). `TreeInv` then says that of the images of a patched file one
is of the tree the run was given, and that every changed file has one (`SnapshotIsInitial`); where
a file has one key only (`OneSpelling`, the premise of `ProvenRepair`) that is the image put
back, so that the tree without its patch is the initial one (`RevertedIsInitial`), for which the
revert-check's verdict then speaks; that a verdict knows whether there is a suite
(`VerdictHasSuite`); and that a revert-check was made on a repair with a suite
(`RevertIsOfRepair`).

**Pbft_proofs**, from `ReplicasAssumption` (at most f faulty replicas). Since a signature says
only which replica signed which proposal in which round, so does the invariant. `IInv`: a Prepare
names the proposal its correct sender holds, and who has sent a Commit holds one
(`SignersHold`); the Prepares of correct replicas in a tally are signed (`TalliesAreSigned`); a
round past PrePrepared, and every commit, is `Backed`: by a quorum whose correct members have
signed its proposal (`PhasesAreBacked`, `CommitsAreBacked`); a correct leader that has not strayed
has signed one proposal only (`LeadersAgree`); who is counted as asking for a view change has
asked (`AskersAsked`). A held proposal is never exchanged (`Keeps`) and signatures stay, therefore
what is backed stays backed.
`CommitsSigned` (`CommitIsSigned`) and `ViewChangesAskedFor` need only the counting, for every n.
`DisagreementIsStrayed` (`AgreementUnlessStrayed`) assumes `TotalNodes = 3 * MaxFaults + 1`: two
quorums then meet in a correct replica (`QuorumsMeet`), which has signed both proposals. It
holds one at most, so that it has signed the other in a Commit and strayed, or it is the
leader that proposed one and holds the other, which `LeadersAgree` excludes. Agreement itself is
proved where nobody is faulty (`AgreementAmongCorrect`, for every n): then whatever is
signed was proposed, and once in a round (`OneProposal`).

**WorkLedger_proofs**, from `LedgerAssumption`. The key is `Pinned`: a hash is what was hashed, so
two right chains that hold one hash are equal up to it, at the same place; nothing about who
wrote them is used. `IInv`: a claim in the file is a recorded one or forged (`FileIsClaimed`);
a recorded entry has the number and the link of what its writer had loaded (`RecordsStand`);
what is anchored was recorded (`AnchorsStand`); and while undisturbed the file is the record,
numbered and linked (`FileIsTheRecord`). `AnchoredStands` (`AnchorsPinHistory`) follows
by `Pinned` from the anchored hash in the file and that of the record; `VerifiersAgree`, that two
files which pass at different times are the same up to every hash they share, whatever was done
to the file in between, from `Pinned` alone: to note the last hash is to pin the whole file.
`CountIsEnough` (`CountClosesTheHole`) follows because n different numbers up to n are all
of them; `BreaksStayVisible` because appending to a file that fails leaves a prefix that fails
(`PrefixIsIntact`); `HonestWorkIsIntact` (`OnlyOrderIsBlamed`) from the last part of `IInv`.
All these theorems hold for any number of writers, records and accidents, any commits and any
relation of ancestry.

**TaskScheduler_proofs**, from `SchedulerAssumption` (a file that is no schedule is not mistaken
for one; the constructor has a default to register). Every invariant rests on `BaseInv`: a
copy is a schedule or not loaded, only a loaded process works, and nobody else uses a module that
is being imported (`Importing`). `WholeInv` follows one
save: while no two have met, one thread at most is saving, into the temporary
file, which is empty when opened, whatever a kill or a failed save left there, and whole when
moved.
`CountInv` says of every copy and both files that they count no more than was run.
`AloneInv` says how far the one thread at work is (`Progress`): the file is the
schedule as it should be until the change, the copy after it, and `base` is what a kill or a
failed save falls back to. `SlotInv` adds that what is still to come of a task is later than what was
served of it (`Slots`), except while it runs.

**Swarm_proofs**, from `SearchAssumption`, `OctopusAssumption` and `PipelineAssumption`.
*Search*: `SearchInv` says which tries of the tier are under way (`TriesInOrder`), that a text
being verified is noted, has no verdict yet and is with one thread only (`VerifyingOnce`),
hence `NoTextIsVerifiedTwice`, and which tries the verdicts that passed are of (`PassedAreTries`). A try that passed is running, collected or the winner
(`PassedIsFound`), and while it is there no try is submitted and no tier begun
(`WinnersStopTheSearch`, `EscalationIsLast`).
*Octopus*: a late arm is what makes `VerdictsAreOfFinalCode` not inductive. `BoardOf` says of each
verdict that it was found of the text handed to the checks, which is the blackboard's from
`Implement` on; `ReportOf` what is known of `overall` and `result` at each place of the thread:
a check once clean or passed stays so, as each arm runs once, thus nothing read later contradicts
what was read before. `QueueInv` and `WorkersInv` (a task is queued once, `StartArm` adds one
running task and needs a free worker) give the bound on the pool. `NoArmHoldsAMission` is
`MissionsEnd` without its fairness: the thread of a mission always has a step whose guard no arm
can close (`HasAStep`), each step submits, answers or moves the stage on (`Further`), and no
step of anybody takes back what was reached (`NoneLost`).
*Pipeline*: `FlagsOf` ties a call's text to what the scan and the tests said, by how far it is on
the route: that QA has passed implies that the text is scanned, because a scan precedes QA.
`StatusOf` says that a call marked completed has run all stages and that its verdict is earned;
`FileOf` says the same of both files, and `HistoryInv` of what is returned and remembered. These hold
with overlapping calls. `WriteOf` and `WholeInv`, for as long as calls are apart (`ApartInv`),
follow one save as in `TaskScheduler`; while besides no id is used twice, a completed checkpoint
(`Held`) is left to a call that is about to return.

The type invariants (`TypeCorrect`, `ClientTypeCorrect`, ... of each module) are parts of these
inductive invariants and are proved, not run; so are `OneProbeAtATime`, `ClientSingleProbe`,
`WinnersStopTheSearch` and the theorems above that name no property of a run.

**Only model-checked**: liveness (`FullRoundEnds`, `RequestsEnd`, `ExecutionsEnd`,
`MissionsEnd`), since the prover has neither ENABLED nor what weak fairness makes of it. For
three of them the part without fairness is proved (`FullRoundIsOwed`, `NobodyIsStuck`,
`NoArmHoldsAMission`); that these parts and weak fairness give the property is not.
`RequestsEnd` depends on the clock as well, and nothing of it is proved.

## 7. Not modelled

Section 2 says what is planned. Beyond that: retrieval, the code graph, editing
helpers, prompts, personas and model routing are functions of their input; the
sandbox is the operating system's; training, vision, voice, web pages and contracts are
outside the core; votes, bus, teams and topologies of the swarm are sequential or have
no caller that could overlap; HotStuff and threshold signatures have no caller in the repository but
benchmarks. In the modelled
parts: parsing of replies, payloads, environment variables and Retry-After; cost and
time budgets of the evidence ledger and its states PLANNING and REPAIRING, which the loop
never enters; the kill of a process in the middle of a revert-check; aliasing of node
outputs by `SelfHealingNode`.
