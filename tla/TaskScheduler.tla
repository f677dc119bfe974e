---------------------------- MODULE TaskScheduler ----------------------------
(***************************************************************************)
(* saleha/core/daemons/task_scheduler.py: the schedule that the web server,*)
(* the chat and the `scheduler' commands share through one JSON file.  A   *)
(* process loads it once, at import; its threads then change that copy and *)
(* save all of it through a temporary file whose name they all share.      *)
(*                                                                         *)
(* A goal takes a while to run, a save has three steps, each of which may  *)
(* fail, and a process may be killed between any two.  POSIX: a file that  *)
(* has been replaced stays writable for whoever has it open.               *)
(***************************************************************************)
EXTENDS Integers, FiniteSets, Functions

CONSTANTS
  Threads,     \* threads that use the engine
  Process,     \* [Threads -> process]
  Calls,       \* [Threads -> operations its caller uses]
  Absent, Empty, Torn,  \* a file that is not there, holds nothing, or no JSON
  Unloaded,    \* a process that has no copy yet
  Defaults,    \* schedules of _init_default_schedules (2)
  MaxTasks,    \* bound of the tasks ever registered
  MaxRuns,     \* bound of the goals ever run
  MaxTime      \* bound of the clock

TaskIds == 1 .. MaxTasks
Never == 0                       \* no run within the eight days of the horizon
Task == [runs : Nat, next : Nat]
IsSchedule(f) == \E S \in SUBSET TaskIds : f \in [S -> Task]
IsFile(f) == IsSchedule(f) \/ f \in {Absent, Empty, Torn}
Processes == {Process[a] : a \in Threads}
None == <<>>                     \* a schedule with no task

ASSUME SchedulerAssumption ==
  /\ Defaults \in Nat \ {0} /\ MaxTasks \in Nat /\ MaxRuns \in Nat /\ MaxTime \in Nat
  /\ \A f \in {Absent, Empty, Torn, Unloaded} : ~IsSchedule(f)
  /\ Absent \notin {Empty, Torn}

VARIABLES
  now,        \* the clock
  file, tmp,  \* what scheduled_tasks.json and scheduled_tasks.json.tmp hold
  mem,        \* TaskSchedulerEngine._tasks of each process
  pc, cur,    \* what each thread does, and the task whose goal it runs
  todo, at,   \* run_due_tasks: the tasks left of its list, and its `now'
  seeds,      \* default schedules the constructor still has to save
  fd,         \* the file a thread has open for writing
  used,       \* tasks registered so far; they are numbered
  ran,        \* history: goals run to their end, of each task
  dueRuns,    \* history: goals run_due_tasks started, of each task
  truth,      \* history: the schedule, were every change atomic and shared
  base,       \* history: what it was at the last save that succeeded
  alone,      \* history: operations follow each other, each on the file as it is
  shared,     \* history: two threads were saving at once
  cut         \* history: an operation was cut short, by a kill or a save that failed

engine == <<mem, pc, cur, todo, at, seeds, used>>
disk == <<file, tmp, fd>>
history == <<ran, dueRuns, truth, base, alone, shared, cut>>
vars == <<now, engine, disk, history>>

ThreadsOf(p) == {a \in Threads : Process[a] = p}
Saving(a) == pc[a] \in {"opened", "dumped"}
Quiet == \A a \in Threads : pc[a] = "idle"

Init ==
  /\ now = 0 /\ file = Absent /\ tmp = Absent
  /\ mem = [p \in Processes |-> Unloaded]
  /\ pc = [a \in Threads |-> "idle"] /\ cur = [a \in Threads |-> 0]
  /\ todo = [a \in Threads |-> {}] /\ at = [a \in Threads |-> 0]
  /\ seeds = [a \in Threads |-> 0] /\ fd = [a \in Threads |-> "none"]
  /\ used = 0
  /\ ran = [t \in TaskIds |-> 0] /\ dueRuns = [t \in TaskIds |-> 0]
  /\ truth = None /\ base = None
  /\ alone = TRUE /\ shared = FALSE /\ cut = FALSE

\* _load: what cannot be read is no schedule.
Loaded(f) == IF IsSchedule(f) THEN f ELSE None

\* _next_run_after
NextRuns == {now + 1, Never}

\* The history of an operation that thread a begins.
Begins(a) ==
  alone' = /\ alone
           /\ \A b \in Threads \ {a} : pc[b] = "idle"
           /\ mem[Process[a]] \in {Unloaded, Loaded(file)}

\* The import of the module has finished in a's process.
Ready(a) == pc[a] = "idle" /\ mem[Process[a]] # Unloaded
              /\ \A b \in ThreadsOf(Process[a]) : seeds[b] = 0

\* A change of the copy of a's process, and the same change of the truth.
Changed(a, schedule, true) ==
  mem' = [mem EXCEPT ![Process[a]] = schedule] /\ truth' = true

With(schedule, t, task) ==
  [u \in DOMAIN schedule \cup {t} |-> IF u = t THEN task ELSE schedule[u]]
Without(schedule, t) == [u \in DOMAIN schedule \ {t} |-> schedule[u]]

\* The constructor: _load, and _init_default_schedules when that gives nothing.
Load(a) ==
  /\ pc[a] = "idle" /\ mem[Process[a]] = Unloaded
  /\ \A b \in ThreadsOf(Process[a]) : seeds[b] = 0
  /\ mem' = [mem EXCEPT ![Process[a]] = Loaded(file)]
  /\ IF Loaded(file) = None
     THEN /\ used + Defaults <= MaxTasks
          /\ seeds' = [seeds EXCEPT ![a] = Defaults]
          /\ pc' = [pc EXCEPT ![a] = "seed"]
     ELSE UNCHANGED <<seeds, pc>>
  /\ Begins(a)
  /\ UNCHANGED <<now, disk, cur, todo, at, used, ran, dueRuns, truth, base, shared, cut>>

\* register_task up to _save, by a caller or by the constructor.
Add(a) ==
  \E next \in NextRuns :
    LET task == [runs |-> 0, next |-> next]
    IN  /\ used' = used + 1
        /\ Changed(a, With(mem[Process[a]], used + 1, task), With(truth, used + 1, task))
        /\ pc' = [pc EXCEPT ![a] = "save"]
        /\ UNCHANGED <<now, disk, cur, todo, at, seeds, ran, dueRuns, base, shared, cut>>

RegisterTask(a) ==
  /\ Ready(a) /\ "register" \in Calls[a] /\ used < MaxTasks
  /\ Begins(a)
  /\ Add(a)

Seed(a) ==
  /\ pc[a] = "seed" /\ used < MaxTasks
  /\ Add(a) /\ UNCHANGED alone

\* cancel_task of a task there is.
CancelTask(a, t) ==
  /\ Ready(a) /\ "cancel" \in Calls[a] /\ t \in DOMAIN mem[Process[a]]
  /\ Begins(a)
  /\ Changed(a, Without(mem[Process[a]], t), Without(truth, t))
  /\ pc' = [pc EXCEPT ![a] = "save"]
  /\ UNCHANGED <<now, disk, cur, todo, at, seeds, used, ran, dueRuns, base, shared, cut>>

RunsStarted == SumFunction(ran) + Cardinality({a \in Threads : pc[a] = "run"})

\* Mutant: the execution is counted before it has happened.
StartsCounted(a, t) ==
  /\ RunsStarted < MaxRuns
  /\ cur' = [cur EXCEPT ![a] = t] /\ pc' = [pc EXCEPT ![a] = "run"]
  /\ mem' = [mem EXCEPT ![Process[a]][t].runs = @ + 1]
  /\ UNCHANGED <<now, disk, at, seeds, used, ran, truth, base, shared, cut>>

\* trigger_task_now up to the goal's run.
Starts(a, t) ==
  /\ RunsStarted < MaxRuns
  /\ cur' = [cur EXCEPT ![a] = t] /\ pc' = [pc EXCEPT ![a] = "run"]
  /\ UNCHANGED <<now, disk, mem, at, seeds, used, ran, truth, base, shared, cut>>

TriggerTaskNow(a, t) ==
  /\ Ready(a) /\ "trigger" \in Calls[a] /\ t \in DOMAIN mem[Process[a]]
  /\ Begins(a)
  /\ Starts(a, t)
  /\ UNCHANGED <<todo, dueRuns>>

\* run_due_tasks: the list of the tasks there are, and the time.
RunDueTasks(a) ==
  /\ Ready(a) /\ "run_due" \in Calls[a] /\ mem[Process[a]] # None
  /\ Begins(a)
  /\ todo' = [todo EXCEPT ![a] = DOMAIN mem[Process[a]]]
  /\ at' = [at EXCEPT ![a] = now]
  /\ pc' = [pc EXCEPT ![a] = "due"]
  /\ UNCHANGED <<now, disk, mem, cur, seeds, used, ran, dueRuns, truth, base, shared, cut>>

\* The next task of the list, which is in the order of registration: cancelled since,
\* not due, or run now.  The list holds the task itself, so a run by another thread has
\* moved its next_run_timestamp.
NextOfList(a) ==
  \E t \in todo[a] :
    LET copy == mem[Process[a]]
        due == t \in DOMAIN copy /\ copy[t].next # Never /\ copy[t].next <= at[a]
    IN  /\ pc[a] = "due"
        /\ \A u \in todo[a] : t <= u
        /\ todo' = [todo EXCEPT ![a] = @ \ {t}]
        /\ \/ /\ due
              /\ Starts(a, t)
              /\ dueRuns' = [dueRuns EXCEPT ![t] = @ + 1]
           \/ /\ ~due
              /\ pc' = [pc EXCEPT ![a] = IF todo[a] = {t} THEN "idle" ELSE "due"]
              /\ UNCHANGED <<now, disk, mem, cur, at, seeds, used, ran, dueRuns, truth,
                             base, shared, cut>>
        /\ UNCHANGED alone

\* Mutant: a run leaves the time of the next one as it was.
RunKeepsNext(task, next) == [task EXCEPT !.runs = @ + 1]

\* The task after a run.
Run(task, next) == [runs |-> task.runs + 1, next |-> next]

\* The goal has run, with success or not; trigger_task_now up to _save.  A task that
\* was cancelled in the meantime changes for nobody.
FinishRun(a) ==
  \E next \in NextRuns :
    LET t == cur[a]
        copy == mem[Process[a]]
        After(s) == IF t \in DOMAIN s THEN [s EXCEPT ![t] = Run(@, next)] ELSE s
    IN  /\ pc[a] = "run"
        /\ ran' = [ran EXCEPT ![t] = @ + 1]
        /\ Changed(a, After(copy), After(truth))
        /\ pc' = [pc EXCEPT ![a] = "save"] /\ cur' = [cur EXCEPT ![a] = 0]
        /\ UNCHANGED <<now, disk, todo, at, seeds, used, dueRuns, base, alone, shared, cut>>

-------------------------------------------------------------------------------
(* _save. *)

\* What the constructor has left to save, and what a thread goes on with, after a save.
SeedsLeft(a) == IF seeds[a] = 0 THEN 0 ELSE seeds[a] - 1
Goes(a) ==
  IF SeedsLeft(a) > 0 THEN "seed" ELSE IF todo[a] # {} THEN "due" ELSE "idle"

\* Mutant: the schedule is written in place.
OpensInPlace(a) ==
  /\ file' = Empty /\ UNCHANGED tmp
  /\ fd' = [fd EXCEPT ![a] = "file"]

\* open(tmp, "w") makes the file, or empties the one there is.
Opens(a) ==
  /\ tmp' = Empty /\ UNCHANGED file
  /\ fd' = [fd EXCEPT ![a] = "tmp"]

OpenTmp(a) ==
  /\ pc[a] = "save"
  /\ Opens(a)
  /\ pc' = [pc EXCEPT ![a] = "opened"]
  /\ shared' = (shared \/ \E b \in Threads \ {a} : Saving(b))
  /\ UNCHANGED <<now, mem, cur, todo, at, seeds, used, ran, dueRuns, truth, base, alone, cut>>

\* The schedule written into a file: over what is there already it may be too short.
Written(old, schedule) == IF old = Empty THEN {schedule} ELSE {schedule, Torn}

\* json.dump of the whole copy, and close; the file may have been replaced since.
Dump(a) ==
  /\ pc[a] = "opened"
  /\ CASE fd[a] = "tmp"  -> tmp' \in Written(tmp, mem[Process[a]]) /\ UNCHANGED file
       [] fd[a] = "file" -> file' \in Written(file, mem[Process[a]]) /\ UNCHANGED tmp
       [] fd[a] = "lost" -> UNCHANGED <<file, tmp>>
  /\ fd' = [fd EXCEPT ![a] = "none"]
  /\ pc' = [pc EXCEPT ![a] = "dumped"]
  /\ UNCHANGED <<now, mem, cur, todo, at, seeds, used, history>>

\* os.replace of a temporary file there is.
Replace(a) ==
  /\ pc[a] = "dumped" /\ tmp # Absent
  /\ file' = tmp /\ tmp' = Absent
  /\ fd' = [b \in Threads |-> CASE fd[b] = "tmp" -> "file" [] fd[b] = "file" -> "lost"
                                [] OTHER -> fd[b]]
  /\ pc' = [pc EXCEPT ![a] = Goes(a)] /\ seeds' = [seeds EXCEPT ![a] = SeedsLeft(a)]
  /\ base' = truth
  /\ UNCHANGED <<now, mem, cur, todo, at, used, ran, dueRuns, truth, alone, shared, cut>>

\* OSError, at any step: no room, no permission, or another thread has moved the
\* temporary file away.  It ends the operation; the process lives on with a copy it has
\* not saved, unless that was the constructor and the import of the module has failed.
SaveFails(a) ==
  /\ pc[a] \in {"save", "opened", "dumped"}
  /\ IF fd[a] = "tmp" THEN tmp' \in {tmp, Torn} ELSE UNCHANGED tmp
  /\ IF fd[a] = "file" THEN file' \in {file, Torn} ELSE UNCHANGED file
  /\ fd' = [fd EXCEPT ![a] = "none"]
  /\ pc' = [pc EXCEPT ![a] = "idle"]
  /\ todo' = [todo EXCEPT ![a] = {}] /\ seeds' = [seeds EXCEPT ![a] = 0]
  /\ mem' = IF seeds[a] = 0 THEN mem ELSE [mem EXCEPT ![Process[a]] = Unloaded]
  /\ truth' = base /\ cut' = TRUE
  /\ UNCHANGED <<now, cur, at, used, ran, dueRuns, base, alone, shared>>

-------------------------------------------------------------------------------
\* The process ends, or is killed whatever its threads are doing.  What they had
\* changed and not saved is undone.
Kill(p) ==
  LET idle == [a \in Threads |-> IF Process[a] = p THEN "idle" ELSE pc[a]]
      At0(f, z) == [a \in Threads |-> IF Process[a] = p THEN z ELSE f[a]]
  IN  /\ mem[p] # Unloaded
      /\ mem' = [mem EXCEPT ![p] = Unloaded]
      /\ pc' = idle /\ cur' = At0(cur, 0) /\ todo' = At0(todo, {})
      /\ at' = At0(at, 0) /\ seeds' = At0(seeds, 0) /\ fd' = At0(fd, "none")
      /\ cut' = (cut \/ idle # pc)
      /\ truth' = IF idle = pc \/ Loaded(file) = truth THEN truth ELSE base
      /\ UNCHANGED <<now, file, tmp, used, ran, dueRuns, base, alone, shared>>

Tick ==
  /\ now < MaxTime
  /\ now' = now + 1
  /\ UNCHANGED <<engine, disk, history>>

Next ==
  \/ Tick
  \/ \E p \in Processes : Kill(p)
  \/ \E a \in Threads :
       \/ Load(a) \/ RegisterTask(a) \/ Seed(a) \/ RunDueTasks(a) \/ NextOfList(a)
       \/ \E t \in TaskIds : CancelTask(a, t) \/ TriggerTaskNow(a, t)
       \/ FinishRun(a) \/ OpenTmp(a) \/ Dump(a) \/ Replace(a) \/ SaveFails(a)

Spec == Init /\ [][Next]_vars
-------------------------------------------------------------------------------
\* Type correctness; a thread works only in a process that has loaded the schedule,
\* and has a file open only between open and close.
SchedulerTypeOK ==
  /\ now \in 0 .. MaxTime /\ IsFile(file) /\ IsFile(tmp)
  /\ \A p \in Processes : IsSchedule(mem[p]) \/ mem[p] = Unloaded
  /\ \A a \in Threads :
       /\ pc[a] \in {"idle", "seed", "due", "run", "save", "opened", "dumped"}
       /\ pc[a] # "idle" => mem[Process[a]] # Unloaded
       /\ fd[a] # "none" <=> pc[a] = "opened"
       /\ todo[a] \subseteq TaskIds /\ (pc[a] = "due" => todo[a] # {})
       /\ pc[a] = "run" <=> cur[a] # 0
       /\ seeds[a] \in 0 .. Defaults
  /\ used \in 0 .. MaxTasks

\* Only two saves at once can tear the schedule: a process killed anywhere, or a save
\* that fails at any step, leaves the file whole, even over the temporary file that an
\* earlier one left behind.
CrashLeavesItWhole == ~shared => IsSchedule(file) \/ file = Absent

\* While operations follow each other, each in a process whose copy is the file as it
\* is, the file between them is the schedule they made of it, by whichever processes
\* and threads; and an operation that was cut short has happened or has not.
AloneIsExact == alone /\ Quiet => Loaded(file) = truth

\* A schedule never claims executions that did not happen, whatever is lost, repeated
\* or saved from an old copy.
CountedWereRun ==
  \A s \in {mem[p] : p \in Processes} \cup {file, tmp} :
    IsSchedule(s) => \A t \in DOMAIN s : s[t].runs <= ran[t]

\* run_due_tasks runs a task at most once for each time that has come, while nothing
\* overlaps and nothing is cut short.
SlotRunsOnce == alone /\ ~cut => \A t \in TaskIds : dueRuns[t] <= now
===============================================================================
