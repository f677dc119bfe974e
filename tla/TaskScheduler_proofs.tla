-------------------------- MODULE TaskScheduler_proofs --------------------------
(***************************************************************************)
(* Proofs about TaskScheduler for every number of threads, processes, tasks*)
(* and executions, whoever uses which operation, with kills and failing    *)
(* saves at any point.                                                     *)
(***************************************************************************)
EXTENDS TaskScheduler, TLAPS

Schedules == UNION {[S -> Task] : S \in SUBSET TaskIds}

\* Nobody else uses a module that a thread is importing.
Importing ==
  /\ seeds \in [Threads -> Nat]
  /\ \A a \in Threads : seeds[a] # 0 =>
       \A b \in ThreadsOf(Process[a]) \ {a} : pc[b] = "idle"

\* What the threads hold; only a process that has loaded the schedule works, and a run
\* is of a task there is.
BaseInv ==
  /\ now \in Nat /\ used \in Nat
  /\ mem \in [Processes -> Schedules \cup {Unloaded}]
  /\ pc \in [Threads -> {"idle", "seed", "due", "run", "save", "opened", "dumped"}]
  /\ cur \in [Threads -> TaskIds \cup {0}]
  /\ at \in [Threads -> 0 .. now]
  /\ fd \in [Threads -> {"none", "tmp", "file", "lost"}]
  /\ ran \in [TaskIds -> Nat] /\ dueRuns \in [TaskIds -> Nat]
  /\ \A a \in Threads : /\ pc[a] # "idle" => mem[Process[a]] # Unloaded
                        /\ pc[a] = "run" => cur[a] \in TaskIds
                        /\ pc[a] = "opened" <=> fd[a] # "none"
  /\ Importing

-------------------------------------------------------------------------------
(* Schedules. *)

LEMMA ScheduleFacts ==
  /\ \A f : IsSchedule(f) <=> f \in Schedules
  /\ Absent \notin Schedules /\ Empty \notin Schedules /\ Torn \notin Schedules
  /\ Unloaded \notin Schedules /\ Absent # Empty /\ Absent # Torn
<1>1. \A f : IsSchedule(f) <=> f \in Schedules
  BY DEF IsSchedule, Schedules
<1> QED BY <1>1, SchedulerAssumption

\* The tasks of a schedule.
LEMMA TaskFacts ==
  ASSUME NEW s \in Schedules
  PROVE  DOMAIN s \subseteq TaskIds /\ s \in [DOMAIN s -> Task]
BY DEF Schedules

LEMMA NoneFacts == None \in Schedules /\ DOMAIN None = {}
<1>1. None \in [{} -> Task] /\ DOMAIN None = {}
  BY DEF None
<1> QED BY <1>1 DEF Schedules

LEMMA NoTasks ==
  ASSUME NEW s \in Schedules, DOMAIN s = {}
  PROVE  s = None
<1>1. s \in [{} -> Task] /\ None \in [{} -> Task]
  BY TaskFacts, NoneFacts
<1> QED BY <1>1

LEMMA LoadedFacts ==
  ASSUME NEW f
  PROVE  /\ Loaded(f) \in Schedules
         /\ f \in Schedules => Loaded(f) = f
BY ScheduleFacts, NoneFacts DEF Loaded

LEMMA WithFacts ==
  ASSUME NEW s \in Schedules, NEW t \in TaskIds, NEW task \in Task
  PROVE  /\ With(s, t, task) \in Schedules
         /\ DOMAIN With(s, t, task) = DOMAIN s \cup {t}
         /\ \A u \in DOMAIN s \cup {t} : With(s, t, task)[u] = IF u = t THEN task ELSE s[u]
<1>1. DOMAIN s \cup {t} \in SUBSET TaskIds /\ s \in [DOMAIN s -> Task]
  BY TaskFacts
<1>2. With(s, t, task) \in [DOMAIN s \cup {t} -> Task]
  BY <1>1 DEF With
<1> QED BY <1>1, <1>2 DEF With, Schedules

LEMMA WithoutFacts ==
  ASSUME NEW s \in Schedules, NEW t
  PROVE  /\ Without(s, t) \in Schedules
         /\ DOMAIN Without(s, t) = DOMAIN s \ {t}
         /\ \A u \in DOMAIN s \ {t} : Without(s, t)[u] = s[u]
<1>1. DOMAIN s \ {t} \in SUBSET TaskIds /\ s \in [DOMAIN s -> Task]
  BY TaskFacts
<1>2. Without(s, t) \in [DOMAIN s \ {t} -> Task]
  BY <1>1 DEF Without
<1> QED BY <1>1, <1>2 DEF Without, Schedules

\* The schedule a run of task t leaves.
AfterRun(s, t, next) == IF t \in DOMAIN s THEN [s EXCEPT ![t] = Run(@, next)] ELSE s

LEMMA AfterRunFacts ==
  ASSUME NEW s \in Schedules, NEW t, NEW next \in Nat
  PROVE  /\ AfterRun(s, t, next) \in Schedules
         /\ DOMAIN AfterRun(s, t, next) = DOMAIN s
         /\ \A u \in DOMAIN s :
              AfterRun(s, t, next)[u] =
                IF u = t THEN [runs |-> s[u].runs + 1, next |-> next] ELSE s[u]
<1>1. DOMAIN s \in SUBSET TaskIds /\ s \in [DOMAIN s -> Task]
  BY TaskFacts
<1>2. CASE t \notin DOMAIN s
  BY <1>2 DEF AfterRun
<1>3. CASE t \in DOMAIN s
  <2>1. [runs |-> s[t].runs + 1, next |-> next] \in Task
    BY <1>1, <1>3 DEF Task
  <2>2. AfterRun(s, t, next) = [s EXCEPT ![t] = [runs |-> s[t].runs + 1, next |-> next]]
    BY <1>3 DEF AfterRun, Run
  <2>3. AfterRun(s, t, next) \in [DOMAIN s -> Task]
    BY <1>1, <2>1, <2>2
  <2> QED BY <1>1, <2>2, <2>3 DEF Schedules
<1> QED BY <1>2, <1>3

LEMMA NextRunFacts ==
  ASSUME now \in Nat, NEW next \in NextRuns
  PROVE  next \in Nat /\ (next = Never \/ next = now + 1)
BY DEF NextRuns, Never

-------------------------------------------------------------------------------
(* What each action does to the copies, the files and the threads. *)

\* A registration, by a caller or the constructor.
LEMMA AddFacts ==
  ASSUME BaseInv, NEW a \in Threads, Add(a), used < MaxTasks, mem[Process[a]] # Unloaded
  PROVE  \E task \in Task :
           /\ task.runs = 0 /\ (task.next = Never \/ task.next = now + 1)
           /\ used' = used + 1 /\ used' \in TaskIds
           /\ mem[Process[a]] \in Schedules
           /\ mem' = [mem EXCEPT ![Process[a]] = With(mem[Process[a]], used + 1, task)]
           /\ truth' = With(truth, used + 1, task)
<1>1. PICK next \in NextRuns :
        /\ used' = used + 1
        /\ Changed(a, With(mem[Process[a]], used + 1, [runs |-> 0, next |-> next]),
                      With(truth, used + 1, [runs |-> 0, next |-> next]))
  BY DEF Add
<1>2. [runs |-> 0, next |-> next] \in Task /\ (next = Never \/ next = now + 1)
  BY NextRunFacts DEF BaseInv, Task
<1>3. used + 1 \in TaskIds
  BY SchedulerAssumption DEF BaseInv, TaskIds
<1>4. mem[Process[a]] \in Schedules
  BY DEF BaseInv, Processes
<1> QED BY <1>1, <1>2, <1>3, <1>4 DEF Changed

\* The end of a run.
LEMMA FinishFacts ==
  ASSUME BaseInv, NEW a \in Threads, FinishRun(a)
  PROVE  \E next \in Nat :
           /\ next = Never \/ next = now + 1
           /\ cur[a] \in TaskIds /\ mem[Process[a]] \in Schedules
           /\ ran' = [ran EXCEPT ![cur[a]] = @ + 1]
           /\ mem' = [mem EXCEPT ![Process[a]] = AfterRun(mem[Process[a]], cur[a], next)]
           /\ truth' = AfterRun(truth, cur[a], next)
<1>1. PICK next \in NextRuns :
        /\ pc[a] = "run"
        /\ ran' = [ran EXCEPT ![cur[a]] = @ + 1]
        /\ Changed(a, AfterRun(mem[Process[a]], cur[a], next), AfterRun(truth, cur[a], next))
  BY DEF FinishRun, AfterRun
<1>2. next \in Nat /\ (next = Never \/ next = now + 1)
  BY NextRunFacts DEF BaseInv
<1>3. cur[a] \in TaskIds /\ mem[Process[a]] \in Schedules
  BY <1>1 DEF BaseInv, Processes
<1> QED BY <1>1, <1>2, <1>3 DEF Changed

\* A due task that is run now.
Launches(a, t) ==
  /\ pc[a] = "due" /\ pc' = [pc EXCEPT ![a] = "run"] /\ cur' = [cur EXCEPT ![a] = t]
  /\ t \in DOMAIN mem[Process[a]]
  /\ mem[Process[a]][t].next # Never /\ mem[Process[a]][t].next <= at[a]
  /\ dueRuns' = [dueRuns EXCEPT ![t] = @ + 1]

\* One that is passed over.
Passes(a) ==
  /\ pc[a] = "due" /\ pc' \in {[pc EXCEPT ![a] = "idle"], [pc EXCEPT ![a] = "due"]}
  /\ UNCHANGED <<cur, dueRuns>>

LEMMA ListFacts ==
  ASSUME NEW a \in Threads, NextOfList(a)
  PROVE  /\ (\E t : Launches(a, t)) \/ Passes(a)
         /\ UNCHANGED <<now, disk, mem, at, used, ran, truth, base, alone, shared, cut>>
BY DEF NextOfList, Starts, Launches, Passes, disk

LEMMA TriggerFacts ==
  ASSUME NEW a \in Threads, NEW t, TriggerTaskNow(a, t)
  PROVE  /\ pc[a] = "idle" /\ mem[Process[a]] # Unloaded /\ t \in DOMAIN mem[Process[a]]
         /\ pc' = [pc EXCEPT ![a] = "run"] /\ cur' = [cur EXCEPT ![a] = t]
         /\ Begins(a)
         /\ UNCHANGED <<now, disk, mem, at, used, ran, dueRuns, truth, base, shared, cut>>
BY DEF TriggerTaskNow, Starts, Ready, disk

LEMMA BaseInit == Init => BaseInv
BY DEF Init, BaseInv, Importing

\* A step of one thread, at work or in a module that has been imported, that is not the
\* beginning of an import.
LEMMA ImportStays ==
  ASSUME BaseInv, NEW a \in Threads, NEW s, pc' = [pc EXCEPT ![a] = s],
         NEW n \in Nat, seeds' = [seeds EXCEPT ![a] = n], n # 0 => seeds[a] # 0,
         pc[a] # "idle" \/ Ready(a)
  PROVE  Importing'
BY DEF BaseInv, Importing, ThreadsOf, Ready

LEMMA ImportStaysToo ==
  ASSUME BaseInv, NEW a \in Threads, NEW s, pc' = [pc EXCEPT ![a] = s], seeds' = seeds,
         pc[a] # "idle" \/ Ready(a)
  PROVE  Importing'
BY DEF BaseInv, Importing, ThreadsOf, Ready

LEMMA ImportStep == BaseInv /\ [Next]_vars => Importing'
<1> SUFFICES ASSUME BaseInv, [Next]_vars PROVE Importing'
  OBVIOUS
<1>1. CASE Tick \/ UNCHANGED vars
  BY <1>1 DEF Tick, vars, engine, BaseInv, Importing
<1>2. ASSUME NEW p \in Processes, Kill(p) PROVE Importing'
  BY <1>2 DEF Kill, BaseInv, Importing, ThreadsOf
<1>3. ASSUME NEW a \in Threads, Load(a) PROVE Importing'
  <2>1. \A b \in ThreadsOf(Process[a]) : pc[b] = "idle" /\ seeds[b] = 0
    BY <1>3 DEF Load, BaseInv, ThreadsOf
  <2>2. \/ UNCHANGED <<pc, seeds>>
        \/ pc' = [pc EXCEPT ![a] = "seed"] /\ seeds' = [seeds EXCEPT ![a] = Defaults]
    BY <1>3 DEF Load
  <2> QED BY <2>1, <2>2, SchedulerAssumption DEF BaseInv, Importing, ThreadsOf
<1>4. ASSUME NEW a \in Threads, RegisterTask(a) \/ Seed(a) PROVE Importing'
  BY <1>4, ImportStaysToo DEF RegisterTask, Seed, Add
<1>5. ASSUME NEW a \in Threads, NEW t \in TaskIds, CancelTask(a, t) \/ TriggerTaskNow(a, t)
      PROVE  Importing'
  BY <1>5, ImportStaysToo DEF CancelTask, TriggerTaskNow, Starts
<1>6. ASSUME NEW a \in Threads, RunDueTasks(a) \/ FinishRun(a) \/ OpenTmp(a) \/ Dump(a)
      PROVE  Importing'
  BY <1>6, ImportStaysToo DEF RunDueTasks, FinishRun, OpenTmp, Dump
<1>7. ASSUME NEW a \in Threads, NextOfList(a) PROVE Importing'
  <2>1. /\ pc[a] = "due" /\ seeds' = seeds
        /\ \E s \in {"run", "idle", "due"} : pc' = [pc EXCEPT ![a] = s]
    BY <1>7 DEF NextOfList, Starts
  <2> QED BY <2>1, ImportStaysToo
<1>8. ASSUME NEW a \in Threads, Replace(a) PROVE Importing'
  <2>1. SeedsLeft(a) \in Nat /\ (SeedsLeft(a) # 0 => seeds[a] # 0)
    BY DEF SeedsLeft, BaseInv, Importing
  <2> QED BY <1>8, <2>1, ImportStays DEF Replace
<1>9. ASSUME NEW a \in Threads, SaveFails(a) PROVE Importing'
  BY <1>9, ImportStays DEF SaveFails
<1> QED BY <1>1, <1>2, <1>3, <1>4, <1>5, <1>6, <1>7, <1>8, <1>9 DEF Next

\* A registration keeps it.
LEMMA AddKeeps ==
  ASSUME BaseInv, Importing', NEW a \in Threads, Add(a), used < MaxTasks, mem[Process[a]] # Unloaded,
         pc[a] # "opened", pc' = [pc EXCEPT ![a] = "save"],
         UNCHANGED <<now, cur, at, fd, ran, dueRuns>>
  PROVE  BaseInv'
<1>1. PICK task \in Task :
        /\ used' = used + 1 /\ used' \in TaskIds /\ mem[Process[a]] \in Schedules
        /\ mem' = [mem EXCEPT ![Process[a]] = With(mem[Process[a]], used + 1, task)]
  BY AddFacts
<1>2. With(mem[Process[a]], used + 1, task) \in Schedules
  BY <1>1, WithFacts
<1>3. mem' \in [Processes -> Schedules \cup {Unloaded}]
  BY <1>1, <1>2 DEF BaseInv
<1>4. \A b \in Threads : pc'[b] # "idle" => mem'[Process[b]] # Unloaded
  BY <1>1, <1>2, ScheduleFacts DEF BaseInv, Processes
<1> QED BY <1>1, <1>3, <1>4 DEF BaseInv

LEMMA BaseStep == BaseInv /\ [Next]_vars => BaseInv'
<1> SUFFICES ASSUME BaseInv, [Next]_vars PROVE BaseInv'
  OBVIOUS
<1>0. Importing'
  BY ImportStep
<1>1. CASE Tick
  BY <1>0, <1>1 DEF Tick, engine, disk, history, BaseInv
<1>2. ASSUME NEW p \in Processes, Kill(p) PROVE BaseInv'
  BY <1>0, <1>2 DEF Kill, BaseInv
<1>3. ASSUME NEW a \in Threads, Load(a) PROVE BaseInv'
  <2>1. /\ mem' = [mem EXCEPT ![Process[a]] = Loaded(file)] /\ Loaded(file) \in Schedules
        /\ pc[a] = "idle" /\ (pc' = pc \/ pc' = [pc EXCEPT ![a] = "seed"])
        /\ UNCHANGED <<now, cur, at, fd, used, ran, dueRuns>>
    BY <1>3, LoadedFacts DEF Load, disk
  <2> QED BY <1>0, <2>1, ScheduleFacts DEF BaseInv, Processes
<1>4. ASSUME NEW a \in Threads, RegisterTask(a) PROVE BaseInv'
  <2>1. /\ Add(a) /\ used < MaxTasks /\ mem[Process[a]] # Unloaded
        /\ pc[a] # "opened" /\ pc' = [pc EXCEPT ![a] = "save"]
        /\ UNCHANGED <<now, cur, at, fd, ran, dueRuns>>
    BY <1>4 DEF RegisterTask, Ready, Add, disk
  <2> QED BY <1>0, <2>1, AddKeeps
<1>5. ASSUME NEW a \in Threads, Seed(a) PROVE BaseInv'
  <2>1. /\ Add(a) /\ used < MaxTasks /\ mem[Process[a]] # Unloaded
        /\ pc[a] # "opened" /\ pc' = [pc EXCEPT ![a] = "save"]
        /\ UNCHANGED <<now, cur, at, fd, ran, dueRuns>>
    BY <1>0, <1>5 DEF Seed, Add, disk, BaseInv
  <2> QED BY <1>0, <2>1, AddKeeps
<1>6. ASSUME NEW a \in Threads, NEW t \in TaskIds, CancelTask(a, t) PROVE BaseInv'
  <2>1. /\ mem' = [mem EXCEPT ![Process[a]] = Without(mem[Process[a]], t)]
        /\ mem[Process[a]] # Unloaded /\ pc[a] = "idle" /\ pc' = [pc EXCEPT ![a] = "save"]
        /\ UNCHANGED <<now, cur, at, fd, used, ran, dueRuns>>
    BY <1>6 DEF CancelTask, Ready, Changed, disk
  <2>2. Process[a] \in Processes /\ mem[Process[a]] \in Schedules
    BY <1>0, <2>1 DEF BaseInv, Processes
  <2>3. Without(mem[Process[a]], t) \in Schedules
    BY <2>2, WithoutFacts
  <2> QED BY <1>0, <2>1, <2>2, <2>3, ScheduleFacts DEF BaseInv, Processes
<1>7. ASSUME NEW a \in Threads, NEW t \in TaskIds, TriggerTaskNow(a, t) PROVE BaseInv'
  <2>1. /\ mem[Process[a]] # Unloaded /\ pc[a] = "idle"
        /\ pc' = [pc EXCEPT ![a] = "run"] /\ cur' = [cur EXCEPT ![a] = t]
        /\ UNCHANGED <<now, fd, mem, at, used, ran, dueRuns>>
    BY <1>7, TriggerFacts DEF disk
  <2> QED BY <1>0, <2>1 DEF BaseInv
<1>8. ASSUME NEW a \in Threads, RunDueTasks(a) PROVE BaseInv'
  <2>1. /\ mem[Process[a]] # Unloaded /\ pc[a] = "idle"
        /\ pc' = [pc EXCEPT ![a] = "due"] /\ at' = [at EXCEPT ![a] = now]
        /\ UNCHANGED <<now, fd, mem, cur, used, ran, dueRuns>>
    BY <1>8 DEF RunDueTasks, Ready, disk
  <2> QED BY <1>0, <2>1 DEF BaseInv
<1>9. ASSUME NEW a \in Threads, NextOfList(a) PROVE BaseInv'
  <2>1. UNCHANGED <<now, fd, mem, at, used, ran>>
    BY <1>9, ListFacts DEF disk
  <2>2. ASSUME NEW t, Launches(a, t) PROVE BaseInv'
    <3>1. mem[Process[a]] \in Schedules /\ t \in TaskIds
      BY <1>0, <2>2, TaskFacts DEF Launches, BaseInv, Processes
    <3>2. pc' = [pc EXCEPT ![a] = "run"] /\ cur' = [cur EXCEPT ![a] = t] /\ pc[a] = "due"
          /\ dueRuns' = [dueRuns EXCEPT ![t] = @ + 1]
      BY <2>2 DEF Launches
    <3> QED BY <1>0, <2>1, <3>1, <3>2 DEF BaseInv
  <2>3. CASE Passes(a)
    BY <1>0, <2>1, <2>3 DEF Passes, BaseInv
  <2> QED BY <1>9, <2>2, <2>3, ListFacts
<1>10. ASSUME NEW a \in Threads, FinishRun(a) PROVE BaseInv'
  <2>1. PICK next \in Nat :
          /\ cur[a] \in TaskIds /\ mem[Process[a]] \in Schedules
          /\ ran' = [ran EXCEPT ![cur[a]] = @ + 1]
          /\ mem' = [mem EXCEPT ![Process[a]] = AfterRun(mem[Process[a]], cur[a], next)]
    BY <1>10, FinishFacts
  <2>2. /\ pc[a] = "run" /\ pc' = [pc EXCEPT ![a] = "save"] /\ cur' = [cur EXCEPT ![a] = 0]
        /\ UNCHANGED <<now, fd, at, used, dueRuns>>
    BY <1>10 DEF FinishRun, disk
  <2>3. AfterRun(mem[Process[a]], cur[a], next) \in Schedules
    BY <2>1, AfterRunFacts
  <2> QED BY <1>0, <2>1, <2>2, <2>3, ScheduleFacts DEF BaseInv, Processes
<1>11. ASSUME NEW a \in Threads, OpenTmp(a) PROVE BaseInv'
  <2>1. /\ fd' = [fd EXCEPT ![a] = "tmp"] /\ pc[a] = "save" /\ pc' = [pc EXCEPT ![a] = "opened"]
        /\ UNCHANGED <<now, mem, cur, at, used, ran, dueRuns>>
    BY <1>11 DEF OpenTmp, Opens
  <2> QED BY <1>0, <2>1 DEF BaseInv
<1>12. ASSUME NEW a \in Threads, Dump(a) PROVE BaseInv'
  BY <1>0, <1>12 DEF Dump, history, BaseInv
<1>15. ASSUME NEW a \in Threads, SaveFails(a) PROVE BaseInv'
  <2>1. /\ pc[a] # "idle" /\ pc' = [pc EXCEPT ![a] = "idle"] /\ fd' = [fd EXCEPT ![a] = "none"]
        /\ mem' = IF seeds[a] = 0 THEN mem ELSE [mem EXCEPT ![Process[a]] = Unloaded]
        /\ UNCHANGED <<now, cur, at, used, ran, dueRuns>>
    BY <1>15 DEF SaveFails
  <2>2. ASSUME NEW b \in Threads, pc'[b] # "idle" PROVE mem'[Process[b]] # Unloaded
    BY <2>1, <2>2 DEF BaseInv, Importing, ThreadsOf, Processes
  <2> QED BY <1>0, <2>1, <2>2 DEF BaseInv
<1>13. ASSUME NEW a \in Threads, Replace(a) PROVE BaseInv'
  BY <1>0, <1>13 DEF Replace, Goes, disk, BaseInv
<1>14. CASE UNCHANGED vars
  BY <1>0, <1>14 DEF vars, engine, disk, history, BaseInv
<1> QED
  BY <1>1, <1>2, <1>3, <1>4, <1>5, <1>6, <1>7, <1>8, <1>9, <1>10, <1>11, <1>12, <1>13, <1>14, <1>15 DEF Next

LEMMA BaseAlways == Spec => []BaseInv
BY BaseInit, BaseStep, PTL DEF Spec

-------------------------------------------------------------------------------
(* Type correctness. *)

\* What the place of a thread says of what it holds.
Consistent(a) ==
  /\ pc[a] = "seed" => seeds[a] # 0
  /\ pc[a] = "due" => todo[a] # {}
  /\ pc[a] # "run" => cur[a] = 0
  /\ pc[a] # "opened" => fd[a] = "none"

TypeInv ==
  /\ BaseInv
  /\ now <= MaxTime /\ used <= MaxTasks
  /\ IsFile(file) /\ IsFile(tmp)
  /\ todo \in [Threads -> SUBSET TaskIds] /\ seeds \in [Threads -> 0 .. Defaults]
  /\ \A a \in Threads : Consistent(a)

\* A step of one thread: the others hold what they held.
LEMMA OneThread ==
  ASSUME TypeInv, BaseInv', NEW a \in Threads, now' = now, used' <= MaxTasks,
         IsFile(file)', IsFile(tmp)',
         NEW T \in SUBSET TaskIds, todo' = [todo EXCEPT ![a] = T],
         NEW n \in 0 .. Defaults, seeds' = [seeds EXCEPT ![a] = n],
         Consistent(a)',
         \A b \in Threads \ {a} : /\ pc'[b] = pc[b] /\ cur'[b] = cur[b]
                                  /\ fd[b] = "none" => fd'[b] = "none"
  PROVE  TypeInv'
<1>1. todo' \in [Threads -> SUBSET TaskIds] /\ seeds' \in [Threads -> 0 .. Defaults]
  BY DEF TypeInv
<1>2. \A b \in Threads \ {a} : todo'[b] = todo[b] /\ seeds'[b] = seeds[b]
  BY DEF TypeInv
<1>3. \A b \in Threads \ {a} : Consistent(b)'
  BY <1>2 DEF TypeInv, Consistent
<1> QED BY <1>1, <1>3 DEF TypeInv

\* One that leaves the list and the schedules to register as they are.
LEMMA OneThreadOnly ==
  ASSUME TypeInv, BaseInv', NEW a \in Threads, now' = now, used' <= MaxTasks,
         IsFile(file)', IsFile(tmp)', UNCHANGED <<todo, seeds>>, Consistent(a)',
         \A b \in Threads \ {a} : /\ pc'[b] = pc[b] /\ cur'[b] = cur[b]
                                  /\ fd[b] = "none" => fd'[b] = "none"
  PROVE  TypeInv'
BY DEF TypeInv, Consistent

LEMMA TypeStep == TypeInv /\ [Next]_vars => TypeInv'
<1> SUFFICES ASSUME TypeInv, [Next]_vars PROVE TypeInv'
  OBVIOUS
<1>1. /\ BaseInv /\ BaseInv' /\ Defaults \in Nat \ {0} /\ MaxTasks \in Nat /\ MaxTime \in Nat
      /\ IsFile(file) /\ IsFile(tmp) /\ used <= MaxTasks
      /\ \A a \in Threads : Consistent(a)
  BY BaseStep, SchedulerAssumption DEF TypeInv
<1>2. CASE Tick
  BY <1>1, <1>2 DEF Tick, engine, disk, history, TypeInv, Consistent, IsFile, IsSchedule, BaseInv
<1>3. CASE UNCHANGED vars
  BY <1>1, <1>3 DEF vars, engine, disk, history, TypeInv, Consistent, IsFile, IsSchedule
<1>4. ASSUME NEW p \in Processes, Kill(p) PROVE TypeInv'
  <2>1. /\ pc' = [a \in Threads |-> IF Process[a] = p THEN "idle" ELSE pc[a]]
        /\ cur' = [a \in Threads |-> IF Process[a] = p THEN 0 ELSE cur[a]]
        /\ todo' = [a \in Threads |-> IF Process[a] = p THEN {} ELSE todo[a]]
        /\ seeds' = [a \in Threads |-> IF Process[a] = p THEN 0 ELSE seeds[a]]
        /\ fd' = [a \in Threads |-> IF Process[a] = p THEN "none" ELSE fd[a]]
        /\ UNCHANGED <<now, used, file, tmp>>
    BY <1>4 DEF Kill
  <2>2. todo' \in [Threads -> SUBSET TaskIds] /\ seeds' \in [Threads -> 0 .. Defaults]
    BY <1>1, <2>1 DEF TypeInv
  <2>3. \A a \in Threads : Consistent(a)'
    BY <1>1, <2>1 DEF Consistent
  <2> QED BY <1>1, <2>1, <2>2, <2>3 DEF TypeInv, IsFile, IsSchedule
<1>5. ASSUME NEW a \in Threads, Load(a) PROVE TypeInv'
  <2>1. /\ pc[a] = "idle" /\ UNCHANGED <<now, file, tmp, fd, cur, todo, used>>
        /\ \/ seeds' = [seeds EXCEPT ![a] = Defaults] /\ pc' = [pc EXCEPT ![a] = "seed"]
           \/ UNCHANGED <<seeds, pc>>
    BY <1>5 DEF Load, disk
  <2>2. CASE UNCHANGED <<seeds, pc>>
    BY <1>1, <2>1, <2>2 DEF TypeInv, Consistent, IsFile, IsSchedule
  <2>3. CASE seeds' = [seeds EXCEPT ![a] = Defaults] /\ pc' = [pc EXCEPT ![a] = "seed"]
    <3>1. \A b \in Threads \ {a} : pc'[b] = pc[b] /\ seeds'[b] = seeds[b]
      BY <1>1, <2>3 DEF BaseInv, TypeInv
    <3>2. pc'[a] = "seed" /\ seeds'[a] = Defaults
      BY <1>1, <2>3 DEF BaseInv, TypeInv
    <3>3. \A b \in Threads : Consistent(b)'
      BY <1>1, <2>1, <3>1, <3>2 DEF Consistent
    <3>4. seeds' \in [Threads -> 0 .. Defaults]
      BY <1>1, <2>3 DEF TypeInv
    <3> QED BY <1>1, <2>1, <3>3, <3>4 DEF TypeInv, IsFile, IsSchedule
  <2> QED BY <2>1, <2>2, <2>3
<1>6. ASSUME NEW a \in Threads, RegisterTask(a) PROVE TypeInv'
  <2>1. /\ pc[a] = "idle" /\ used < MaxTasks /\ used' = used + 1
        /\ pc' = [pc EXCEPT ![a] = "save"] /\ UNCHANGED <<now, file, tmp, fd, cur, todo, seeds>>
    BY <1>6 DEF RegisterTask, Ready, Add, disk
  <2>2. used' <= MaxTasks /\ pc'[a] = "save" /\ \A b \in Threads \ {a} : pc'[b] = pc[b]
    BY <1>1, <2>1 DEF BaseInv
  <2> QED BY <1>1, <2>1, <2>2, OneThreadOnly DEF Consistent, IsFile, IsSchedule
<1>7. ASSUME NEW a \in Threads, Seed(a) PROVE TypeInv'
  <2>1. /\ pc[a] = "seed" /\ used < MaxTasks /\ used' = used + 1
        /\ pc' = [pc EXCEPT ![a] = "save"] /\ UNCHANGED <<now, file, tmp, fd, cur, todo, seeds>>
    BY <1>7 DEF Seed, Add, disk
  <2>2. used' <= MaxTasks /\ pc'[a] = "save" /\ \A b \in Threads \ {a} : pc'[b] = pc[b]
    BY <1>1, <2>1 DEF BaseInv
  <2> QED BY <1>1, <2>1, <2>2, OneThreadOnly DEF Consistent, IsFile, IsSchedule
<1>8. ASSUME NEW a \in Threads, NEW t, CancelTask(a, t) PROVE TypeInv'
  <2>1. /\ pc[a] = "idle" /\ pc' = [pc EXCEPT ![a] = "save"]
        /\ UNCHANGED <<now, file, tmp, fd, cur, todo, seeds, used>>
    BY <1>8 DEF CancelTask, Ready, disk
  <2>2. pc'[a] = "save" /\ \A b \in Threads \ {a} : pc'[b] = pc[b]
    BY <1>1, <2>1 DEF BaseInv
  <2> QED BY <1>1, <2>1, <2>2, OneThreadOnly DEF Consistent, IsFile, IsSchedule
<1>9. ASSUME NEW a \in Threads, NEW t, TriggerTaskNow(a, t) PROVE TypeInv'
  <2>1. /\ pc[a] = "idle" /\ pc' = [pc EXCEPT ![a] = "run"] /\ cur' = [cur EXCEPT ![a] = t]
        /\ UNCHANGED <<now, file, tmp, fd, todo, seeds, used>>
    BY <1>9 DEF TriggerTaskNow, Starts, Ready, disk
  <2>2. pc'[a] = "run" /\ \A b \in Threads \ {a} : pc'[b] = pc[b] /\ cur'[b] = cur[b]
    BY <1>1, <2>1 DEF BaseInv
  <2> QED BY <1>1, <2>1, <2>2, OneThreadOnly DEF Consistent, IsFile, IsSchedule
<1>10. ASSUME NEW a \in Threads, RunDueTasks(a) PROVE TypeInv'
  <2>1. /\ pc[a] = "idle" /\ pc' = [pc EXCEPT ![a] = "due"]
        /\ mem[Process[a]] # Unloaded /\ mem[Process[a]] # None
        /\ todo' = [todo EXCEPT ![a] = DOMAIN mem[Process[a]]]
        /\ UNCHANGED <<now, file, tmp, fd, cur, seeds, used>>
    BY <1>10 DEF RunDueTasks, Ready, disk
  <2>2. pc'[a] = "due" /\ \A b \in Threads \ {a} : pc'[b] = pc[b]
    BY <1>1, <2>1 DEF BaseInv
  <2>3. mem[Process[a]] \in Schedules
    BY <1>1, <2>1 DEF BaseInv, Processes
  <2>4. DOMAIN mem[Process[a]] \subseteq TaskIds /\ DOMAIN mem[Process[a]] # {}
    BY <2>1, <2>3, TaskFacts, NoTasks
  <2>5. /\ \A b \in Threads \ {a} : todo'[b] = todo[b]
        /\ todo'[a] # {} /\ todo' \in [Threads -> SUBSET TaskIds]
    BY <1>1, <2>1, <2>4 DEF TypeInv
  <2>6. \A b \in Threads : Consistent(b)'
    BY <1>1, <2>1, <2>2, <2>5 DEF Consistent
  <2> QED BY <1>1, <2>1, <2>5, <2>6 DEF TypeInv, IsFile, IsSchedule
<1>11. ASSUME NEW a \in Threads, NextOfList(a) PROVE TypeInv'
  <2>1. PICK t \in todo[a] :
          /\ pc[a] = "due" /\ todo' = [todo EXCEPT ![a] = @ \ {t}]
          /\ \/ pc' = [pc EXCEPT ![a] = "run"] /\ cur' = [cur EXCEPT ![a] = t]
             \/ /\ pc' = [pc EXCEPT ![a] = IF todo[a] = {t} THEN "idle" ELSE "due"]
                /\ cur' = cur
          /\ UNCHANGED <<now, file, tmp, fd, seeds, used>>
    BY <1>11 DEF NextOfList, Starts, disk
  <2>2. /\ \A b \in Threads \ {a} : pc'[b] = pc[b] /\ cur'[b] = cur[b] /\ todo'[b] = todo[b]
        /\ todo'[a] = todo[a] \ {t} /\ todo' \in [Threads -> SUBSET TaskIds]
    BY <1>1, <2>1 DEF BaseInv, TypeInv
  <2>3. pc'[a] = "run" \/ (cur' = cur /\ pc'[a] = IF todo[a] = {t} THEN "idle" ELSE "due")
    BY <1>1, <2>1 DEF BaseInv
  <2>4. \A b \in Threads : Consistent(b)'
    BY <1>1, <2>1, <2>2, <2>3 DEF Consistent
  <2> QED BY <1>1, <2>1, <2>2, <2>4 DEF TypeInv, IsFile, IsSchedule
<1>12. ASSUME NEW a \in Threads, FinishRun(a) PROVE TypeInv'
  <2>1. /\ pc[a] = "run" /\ pc' = [pc EXCEPT ![a] = "save"] /\ cur' = [cur EXCEPT ![a] = 0]
        /\ UNCHANGED <<now, file, tmp, fd, todo, seeds, used>>
    BY <1>12 DEF FinishRun, disk
  <2>2. /\ pc'[a] = "save" /\ cur'[a] = 0
        /\ \A b \in Threads \ {a} : pc'[b] = pc[b] /\ cur'[b] = cur[b]
    BY <1>1, <2>1 DEF BaseInv
  <2> QED BY <1>1, <2>1, <2>2, OneThreadOnly DEF Consistent, IsFile, IsSchedule
<1>13. ASSUME NEW a \in Threads, OpenTmp(a) PROVE TypeInv'
  <2>1. /\ pc[a] = "save" /\ pc' = [pc EXCEPT ![a] = "opened"] /\ tmp' = Empty
        /\ fd' = [fd EXCEPT ![a] = "tmp"] /\ UNCHANGED <<now, file, cur, todo, seeds, used>>
    BY <1>13 DEF OpenTmp, Opens
  <2>2. pc'[a] = "opened" /\ \A b \in Threads \ {a} : pc'[b] = pc[b] /\ fd'[b] = fd[b]
    BY <1>1, <2>1 DEF BaseInv
  <2> QED BY <1>1, <2>1, <2>2, OneThreadOnly DEF Consistent, IsFile, IsSchedule
<1>14. ASSUME NEW a \in Threads, Dump(a) PROVE TypeInv'
  <2>1. /\ pc[a] = "opened" /\ pc' = [pc EXCEPT ![a] = "dumped"] /\ fd' = [fd EXCEPT ![a] = "none"]
        /\ UNCHANGED <<now, cur, todo, seeds, used>>
    BY <1>14 DEF Dump
  <2>2. /\ pc'[a] = "dumped" /\ fd'[a] = "none"
        /\ \A b \in Threads \ {a} : pc'[b] = pc[b] /\ fd'[b] = fd[b]
    BY <1>1, <2>1 DEF BaseInv
  <2>3. fd[a] \in {"tmp", "file", "lost"} /\ mem[Process[a]] \in Schedules
    BY <1>1, <2>1 DEF BaseInv, Processes
  <2>4. file' \in {file, mem[Process[a]], Torn} /\ tmp' \in {tmp, mem[Process[a]], Torn}
    BY <1>14, <2>3 DEF Dump, Written
  <2>5. IsFile(file)' /\ IsFile(tmp)'
    BY <1>1, <2>3, <2>4, ScheduleFacts DEF IsFile
  <2> QED BY <1>1, <2>1, <2>2, <2>5, OneThreadOnly DEF Consistent
<1>15. ASSUME NEW a \in Threads, Replace(a) PROVE TypeInv'
  <2>1. /\ pc[a] = "dumped" /\ pc' = [pc EXCEPT ![a] = Goes(a)] /\ file' = tmp /\ tmp' = Absent
        /\ fd' = [b \in Threads |-> CASE fd[b] = "tmp" -> "file" [] fd[b] = "file" -> "lost"
                                       [] OTHER -> fd[b]]
        /\ seeds' = [seeds EXCEPT ![a] = SeedsLeft(a)] /\ todo' = [todo EXCEPT ![a] = todo[a]]
        /\ UNCHANGED <<now, cur, used>>
    BY <1>1, <1>15 DEF Replace, TypeInv
  <2>2. SeedsLeft(a) \in 0 .. Defaults /\ todo[a] \in SUBSET TaskIds
    BY <1>1 DEF SeedsLeft, TypeInv
  <2>3. /\ pc'[a] = Goes(a) /\ seeds'[a] = SeedsLeft(a) /\ todo'[a] = todo[a]
        /\ \A b \in Threads \ {a} : pc'[b] = pc[b]
        /\ \A b \in Threads : fd[b] = "none" => fd'[b] = "none"
    BY <1>1, <2>1 DEF BaseInv, TypeInv
  <2>4. Consistent(a)'
    BY <1>1, <2>1, <2>2, <2>3 DEF Consistent, Goes
  <2>5. IsFile(file)' /\ IsFile(tmp)' /\ used' <= MaxTasks
    BY <1>1, <2>1 DEF IsFile, IsSchedule
  <2> QED BY <1>1, <2>1, <2>2, <2>3, <2>4, <2>5, OneThread
<1>16. ASSUME NEW a \in Threads, SaveFails(a) PROVE TypeInv'
  <2>1. /\ pc[a] # "run" /\ pc' = [pc EXCEPT ![a] = "idle"] /\ fd' = [fd EXCEPT ![a] = "none"]
        /\ todo' = [todo EXCEPT ![a] = {}] /\ seeds' = [seeds EXCEPT ![a] = 0]
        /\ file' \in {file, Torn} /\ tmp' \in {tmp, Torn} /\ UNCHANGED <<now, cur, used>>
    BY <1>16 DEF SaveFails
  <2>2. /\ pc'[a] = "idle" /\ fd'[a] = "none"
        /\ \A b \in Threads \ {a} : pc'[b] = pc[b] /\ fd'[b] = fd[b]
    BY <1>1, <2>1 DEF BaseInv
  <2>3. Consistent(a)'
    BY <1>1, <2>1, <2>2 DEF Consistent
  <2>4. {} \in SUBSET TaskIds /\ 0 \in 0 .. Defaults
    BY <1>1
  <2>5. IsFile(file)' /\ IsFile(tmp)' /\ used' <= MaxTasks
    BY <1>1, <2>1 DEF IsFile, IsSchedule
  <2> QED BY <1>1, <2>1, <2>2, <2>3, <2>4, <2>5, OneThread
<1> QED BY <1>2, <1>3, <1>4, <1>5, <1>6, <1>7, <1>8, <1>9, <1>10, <1>11, <1>12, <1>13, <1>14, <1>15, <1>16
  DEF Next

\* Type correctness: a thread works only in a process that has loaded the schedule, and
\* has a file open only between open and close, whoever is killed and whatever save fails.
THEOREM SchedulerTypeCorrect == Spec => []SchedulerTypeOK
<1>1. Init => TypeInv
  BY BaseInit, SchedulerAssumption DEF Init, TypeInv, Consistent, IsFile
<1>2. TypeInv => SchedulerTypeOK
  <2> SUFFICES ASSUME TypeInv PROVE SchedulerTypeOK
    OBVIOUS
  <2>1. /\ BaseInv /\ now \in 0 .. MaxTime /\ used \in 0 .. MaxTasks
        /\ IsFile(file) /\ IsFile(tmp)
    BY SchedulerAssumption DEF TypeInv, BaseInv
  <2>2. \A p \in Processes : IsSchedule(mem[p]) \/ mem[p] = Unloaded
    BY <2>1, ScheduleFacts DEF BaseInv
  <2>3. ASSUME NEW a \in Threads
        PROVE  /\ pc[a] \in {"idle", "seed", "due", "run", "save", "opened", "dumped"}
               /\ pc[a] # "idle" => mem[Process[a]] # Unloaded
               /\ fd[a] # "none" <=> pc[a] = "opened"
               /\ todo[a] \subseteq TaskIds /\ (pc[a] = "due" => todo[a] # {})
               /\ pc[a] = "run" <=> cur[a] # 0
               /\ seeds[a] \in 0 .. Defaults
    <3>1. Consistent(a)
      BY DEF TypeInv
    <3>2. pc[a] = "run" => cur[a] # 0
      BY <2>1 DEF BaseInv, TaskIds
    <3> QED BY <2>1, <3>1, <3>2 DEF BaseInv, TypeInv, Consistent
  <2> QED BY <2>1, <2>2, <2>3 DEF SchedulerTypeOK
<1> QED BY <1>1, <1>2, TypeStep, PTL DEF Spec

-------------------------------------------------------------------------------
(* A crash leaves the file whole. *)

\* While no two threads have saved at once, one thread at most is saving, into the
\* temporary file, which holds nothing and then the whole schedule.
WholeInv ==
  /\ BaseInv
  /\ ~shared =>
       /\ IsSchedule(file) \/ file = Absent
       /\ \A a, b \in Threads : Saving(a) /\ Saving(b) => a = b
       /\ \A a \in Threads : /\ pc[a] = "opened" => fd[a] = "tmp" /\ tmp = Empty
                             /\ pc[a] = "dumped" => tmp \in Schedules

\* The steps that leave the files and who saves into them alone.
LEMMA FilesStay ==
  ASSUME BaseInv, [Next]_vars
  PROVE  \/ \E a \in Threads : OpenTmp(a) \/ Dump(a) \/ Replace(a) \/ SaveFails(a)
         \/ \E p \in Processes : Kill(p)
         \/ /\ UNCHANGED <<file, tmp, fd, shared>>
            /\ \A a \in Threads : Saving(a)' => pc'[a] = pc[a]
<1> DEFINE Stay == /\ UNCHANGED <<file, tmp, fd, shared>>
                   /\ \A a \in Threads : Saving(a)' => pc'[a] = pc[a]
<1>1. ASSUME NEW a \in Threads, UNCHANGED <<file, tmp, fd, shared>>,
             pc' = pc \/ \E s \in {"idle", "seed", "due", "run", "save"} : pc' = [pc EXCEPT ![a] = s]
      PROVE  Stay
  BY <1>1 DEF Saving, BaseInv
<1>2. ASSUME UNCHANGED <<file, tmp, fd, shared, pc>> PROVE Stay
  BY <1>2 DEF Saving
<1>3. CASE Tick \/ UNCHANGED vars
  BY <1>2, <1>3 DEF Tick, vars, engine, disk, history
<1>4. ASSUME NEW a \in Threads, Load(a) PROVE Stay
  BY <1>1, <1>4 DEF Load, disk
<1>5. ASSUME NEW a \in Threads, RegisterTask(a) \/ Seed(a) PROVE Stay
  BY <1>1, <1>5 DEF RegisterTask, Seed, Add, disk
<1>6. ASSUME NEW a \in Threads, NEW t, CancelTask(a, t) PROVE Stay
  BY <1>1, <1>6 DEF CancelTask, disk
<1>7. ASSUME NEW a \in Threads, NEW t, TriggerTaskNow(a, t) PROVE Stay
  BY <1>1, <1>7, TriggerFacts DEF disk
<1>8. ASSUME NEW a \in Threads, RunDueTasks(a) PROVE Stay
  BY <1>1, <1>8 DEF RunDueTasks, disk
<1>9. ASSUME NEW a \in Threads, NextOfList(a) PROVE Stay
  BY <1>1, <1>9, ListFacts DEF Launches, Passes, disk
<1>10. ASSUME NEW a \in Threads, FinishRun(a) PROVE Stay
  BY <1>1, <1>10 DEF FinishRun, disk
<1> QED BY <1>3, <1>4, <1>5, <1>6, <1>7, <1>8, <1>9, <1>10 DEF Next

LEMMA WholeStep == WholeInv /\ [Next]_vars => WholeInv'
<1> SUFFICES ASSUME WholeInv, [Next]_vars PROVE WholeInv'
  OBVIOUS
<1>1. BaseInv /\ BaseInv'
  BY BaseStep DEF WholeInv
<1>2. CASE /\ UNCHANGED <<file, tmp, fd, shared>>
           /\ \A a \in Threads : Saving(a)' => pc'[a] = pc[a]
  BY <1>1, <1>2 DEF WholeInv, Saving, IsSchedule
<1>3. ASSUME NEW p \in Processes, Kill(p) PROVE WholeInv'
  <2>1. /\ \A a \in Threads : pc'[a] = "idle" \/ (pc'[a] = pc[a] /\ fd'[a] = fd[a])
        /\ UNCHANGED <<file, tmp, shared>>
    BY <1>3 DEF Kill
  <2> QED BY <1>1, <2>1 DEF WholeInv, Saving, IsSchedule
<1>4. ASSUME NEW a \in Threads, OpenTmp(a) PROVE WholeInv'
  <2>1. /\ tmp' = Empty /\ file' = file /\ fd' = [fd EXCEPT ![a] = "tmp"]
        /\ pc' = [pc EXCEPT ![a] = "opened"]
        /\ shared' = (shared \/ \E b \in Threads \ {a} : Saving(b))
    BY <1>4 DEF OpenTmp, Opens
  <2>2. ASSUME ~shared' PROVE ~shared /\ \A b \in Threads : Saving(b)' => b = a
    BY <1>1, <2>1, <2>2 DEF Saving, BaseInv
  <2> QED BY <1>1, <2>1, <2>2 DEF WholeInv, Saving, IsSchedule, BaseInv
<1>5. ASSUME NEW a \in Threads, Dump(a) PROVE WholeInv'
  <2> SUFFICES ASSUME ~shared'
               PROVE  /\ IsSchedule(file') \/ file' = Absent
                      /\ \A b, c \in Threads : Saving(b)' /\ Saving(c)' => b = c
                      /\ \A b \in Threads :
                           /\ pc'[b] = "opened" => fd'[b] = "tmp" /\ tmp' = Empty
                           /\ pc'[b] = "dumped" => tmp' \in Schedules
    BY <1>1 DEF WholeInv, IsSchedule
  <2>1. /\ pc[a] = "opened" /\ pc' = [pc EXCEPT ![a] = "dumped"] /\ shared' = shared
    BY <1>5 DEF Dump, history
  <2>2. fd[a] = "tmp" /\ tmp = Empty /\ (IsSchedule(file) \/ file = Absent)
        /\ \A b, c \in Threads : Saving(b) /\ Saving(c) => b = c
    BY <2>1 DEF WholeInv
  <2>3. tmp' = mem[Process[a]] /\ file' = file
    BY <1>5, <2>2 DEF Dump, Written
  <2>4. mem[Process[a]] \in Schedules
    BY <1>1, <2>1 DEF BaseInv, Processes
  <2>5. \A b \in Threads : Saving(b)' => b = a
    BY <1>1, <2>1, <2>2 DEF Saving, BaseInv
  <2> QED BY <1>1, <2>1, <2>2, <2>3, <2>4, <2>5 DEF BaseInv, Saving
<1>6. ASSUME NEW a \in Threads, Replace(a) PROVE WholeInv'
  <2> SUFFICES ASSUME ~shared'
               PROVE  /\ IsSchedule(file') \/ file' = Absent
                      /\ \A b \in Threads : ~Saving(b)'
    BY <1>1 DEF WholeInv, IsSchedule, Saving
  <2>1. pc[a] = "dumped" /\ ~shared
    BY <1>6 DEF Replace
  <2>2. tmp \in Schedules /\ \A b \in Threads : Saving(b) => b = a
    BY <2>1 DEF WholeInv, Saving
  <2>3. tmp # Absent
    BY <2>2, ScheduleFacts
  <2>4. file' = tmp /\ \E s \in {"seed", "due", "idle"} : pc' = [pc EXCEPT ![a] = s]
    BY <1>6, <2>3 DEF Replace, Goes
  <2> QED BY <1>1, <2>2, <2>4, ScheduleFacts DEF Saving, BaseInv
<1>7. ASSUME NEW a \in Threads, SaveFails(a) PROVE WholeInv'
  <2>1. /\ pc[a] \in {"save", "opened", "dumped"} /\ pc' = [pc EXCEPT ![a] = "idle"]
        /\ fd' = [fd EXCEPT ![a] = "none"] /\ shared' = shared
        /\ fd[a] # "file" => file' = file
        /\ fd[a] = "none" => tmp' = tmp
    BY <1>7 DEF SaveFails
  <2>2. CASE pc[a] = "save"
    <3>1. fd[a] = "none" /\ fd' = fd
      BY <1>1, <2>1, <2>2 DEF BaseInv
    <3> QED BY <1>1, <1>2, <2>1, <3>1 DEF Saving, BaseInv
  <2>3. CASE pc[a] # "save"
    <3> SUFFICES ASSUME ~shared'
                 PROVE  /\ IsSchedule(file') \/ file' = Absent
                        /\ \A b \in Threads : ~Saving(b)'
      BY <1>1 DEF WholeInv, IsSchedule, Saving
    <3>1. /\ IsSchedule(file) \/ file = Absent
          /\ \A b \in Threads : Saving(b) => b = a
          /\ fd[a] # "file"
      BY <1>1, <2>1, <2>3 DEF WholeInv, Saving, BaseInv
    <3> QED BY <1>1, <2>1, <3>1 DEF Saving, BaseInv
  <2> QED BY <2>2, <2>3
<1> QED BY <1>2, <1>3, <1>4, <1>5, <1>6, <1>7, <1>1, FilesStay

\* _save: a process killed anywhere, or a save that fails at any step, leaves the
\* schedule whole, unless two threads have saved at once, whatever temporary file an
\* earlier one left behind.
THEOREM CrashesLeaveItWhole == Spec => []CrashLeavesItWhole
<1>1. Init => WholeInv
  BY BaseInit DEF Init, WholeInv, Saving
<1>2. WholeInv => CrashLeavesItWhole
  BY DEF WholeInv, CrashLeavesItWhole
<1> QED BY <1>1, <1>2, WholeStep, PTL DEF Spec

-------------------------------------------------------------------------------
(* No execution is counted that did not happen. *)

\* A schedule counts what has been run at most.
Honest(s) == s \in Schedules => \A t \in DOMAIN s : s[t].runs <= ran[t]
HonestNext(s) == s \in Schedules => \A t \in DOMAIN s : s[t].runs <= ran'[t]

CountInv ==
  /\ BaseInv
  /\ \A p \in Processes : Honest(mem[p])
  /\ Honest(file) /\ Honest(tmp)

\* A schedule stays honest when more is run.
LEMMA HonestStays ==
  ASSUME BaseInv, BaseInv', \A t \in TaskIds : ran[t] <= ran'[t], NEW s, Honest(s)
  PROVE  HonestNext(s)
BY TaskFacts DEF Honest, HonestNext, BaseInv, Task

LEMMA CountStep == CountInv /\ [Next]_vars => CountInv'
<1> SUFFICES ASSUME CountInv, [Next]_vars PROVE CountInv'
  OBVIOUS
<1>1. BaseInv /\ BaseInv'
  BY BaseStep DEF CountInv
<1>2. \A t \in TaskIds : ran[t] \in Nat
  BY <1>1 DEF BaseInv
<1>3. CASE UNCHANGED <<mem, file, tmp, ran>>
  BY <1>1, <1>3 DEF CountInv, Honest
<1>4. ASSUME NEW a \in Threads, NEW s \in Schedules, mem' = [mem EXCEPT ![Process[a]] = s],
             HonestNext(s), UNCHANGED <<file, tmp>>, \A t \in TaskIds : ran[t] <= ran'[t]
      PROVE  CountInv'
  <2>1. \A r : Honest(r) => HonestNext(r)
    BY <1>1, <1>4, HonestStays
  <2>2. ASSUME NEW p \in Processes PROVE HonestNext(mem'[p])
    <3>1. mem'[p] = IF p = Process[a] THEN s ELSE mem[p]
      BY <1>1, <1>4 DEF BaseInv
    <3> QED BY <1>4, <2>1, <3>1 DEF CountInv
  <2>3. HonestNext(file') /\ HonestNext(tmp')
    BY <1>4, <2>1 DEF CountInv
  <2> QED BY <1>1, <2>2, <2>3 DEF CountInv, Honest, HonestNext
<1>5. ASSUME NEW a \in Threads, Add(a), used < MaxTasks, mem[Process[a]] # Unloaded PROVE CountInv'
  <2>1. PICK task \in Task :
          /\ task.runs = 0 /\ used + 1 \in TaskIds /\ mem[Process[a]] \in Schedules
          /\ mem' = [mem EXCEPT ![Process[a]] = With(mem[Process[a]], used + 1, task)]
    BY <1>1, <1>5, AddFacts
  <2>2. UNCHANGED <<file, tmp, ran>>
    BY <1>5 DEF Add, disk
  <2>3. Honest(mem[Process[a]])
    BY DEF CountInv, Processes
  <2>4. PICK s : s = With(mem[Process[a]], used + 1, task)
    OBVIOUS
  <2>5. s \in Schedules /\ HonestNext(s)
    <3>1. /\ s \in Schedules /\ DOMAIN s = DOMAIN mem[Process[a]] \cup {used + 1}
          /\ \A u \in DOMAIN s : s[u] = IF u = used + 1 THEN task ELSE mem[Process[a]][u]
      BY <2>1, <2>4, WithFacts
    <3> QED BY <1>2, <2>1, <2>2, <2>3, <3>1 DEF Honest, HonestNext
  <2>6. mem' = [mem EXCEPT ![Process[a]] = s] /\ \A t \in TaskIds : ran[t] <= ran'[t]
    BY <1>2, <2>1, <2>2, <2>4
  <2> QED BY <1>4, <2>2, <2>5, <2>6
<1>6. ASSUME NEW a \in Threads, NEW t, CancelTask(a, t) PROVE CountInv'
  <2>1. /\ mem' = [mem EXCEPT ![Process[a]] = Without(mem[Process[a]], t)]
        /\ mem[Process[a]] # Unloaded /\ UNCHANGED <<file, tmp, ran>>
    BY <1>6 DEF CancelTask, Ready, Changed, disk
  <2>2. Honest(mem[Process[a]]) /\ mem[Process[a]] \in Schedules
    BY <1>1, <2>1 DEF CountInv, Processes, BaseInv
  <2>3. PICK s : s = Without(mem[Process[a]], t)
    OBVIOUS
  <2>4. s \in Schedules /\ HonestNext(s)
    <3>1. /\ s \in Schedules /\ DOMAIN s = DOMAIN mem[Process[a]] \ {t}
          /\ \A u \in DOMAIN mem[Process[a]] \ {t} : s[u] = mem[Process[a]][u]
      BY <2>2, <2>3, WithoutFacts, Zenon
    <3> QED BY <2>1, <2>2, <3>1 DEF Honest, HonestNext
  <2>5. mem' = [mem EXCEPT ![Process[a]] = s] /\ \A u \in TaskIds : ran[u] <= ran'[u]
    BY <1>2, <2>1, <2>3
  <2> QED BY <1>4, <2>1, <2>4, <2>5
<1>7. ASSUME NEW a \in Threads, FinishRun(a) PROVE CountInv'
  <2>1. PICK next \in Nat :
          /\ cur[a] \in TaskIds /\ mem[Process[a]] \in Schedules
          /\ ran' = [ran EXCEPT ![cur[a]] = @ + 1]
          /\ mem' = [mem EXCEPT ![Process[a]] = AfterRun(mem[Process[a]], cur[a], next)]
    BY <1>1, <1>7, FinishFacts
  <2>2. UNCHANGED <<file, tmp>>
    BY <1>7 DEF FinishRun, disk
  <2>3. Honest(mem[Process[a]])
    BY DEF CountInv, Processes
  <2>4. \A t \in TaskIds : ran'[t] = IF t = cur[a] THEN ran[t] + 1 ELSE ran[t]
    BY <1>1, <2>1 DEF BaseInv
  <2>5. \A t \in TaskIds : ran[t] <= ran'[t]
    BY <1>2, <2>4
  <2>6. PICK s : s = AfterRun(mem[Process[a]], cur[a], next)
    OBVIOUS
  <2>7. /\ s \in Schedules /\ DOMAIN s = DOMAIN mem[Process[a]]
        /\ \A u \in DOMAIN s :
             s[u] = IF u = cur[a] THEN [runs |-> mem[Process[a]][u].runs + 1, next |-> next]
                                  ELSE mem[Process[a]][u]
    BY <2>1, <2>6, AfterRunFacts
  <2>8. HonestNext(s)
    <3> SUFFICES ASSUME NEW t \in DOMAIN s PROVE s[t].runs <= ran'[t]
      BY DEF HonestNext
    <3>1. t \in TaskIds /\ mem[Process[a]][t].runs \in Nat /\ mem[Process[a]][t].runs <= ran[t]
      <4>1. /\ t \in DOMAIN mem[Process[a]] /\ mem[Process[a]] \in Schedules
            /\ DOMAIN mem[Process[a]] \subseteq TaskIds
            /\ mem[Process[a]] \in [DOMAIN mem[Process[a]] -> Task]
        BY <2>1, <2>7, TaskFacts
      <4>2. mem[Process[a]][t] \in Task
        BY <4>1
      <4> QED BY <2>3, <4>1, <4>2 DEF Honest, Task
    <3>2. CASE t = cur[a]
      <4>1. s[t] = [runs |-> mem[Process[a]][t].runs + 1, next |-> next]
        BY <2>7, <3>2
      <4>2. s[t].runs = mem[Process[a]][t].runs + 1 /\ ran'[t] = ran[t] + 1
        BY <2>4, <3>1, <3>2, <4>1
      <4> QED BY <1>2, <3>1, <4>2
    <3>3. CASE t # cur[a]
      <4>1. s[t] = mem[Process[a]][t] /\ ran'[t] = ran[t]
        BY <2>4, <2>7, <3>1, <3>3
      <4> QED BY <3>1, <4>1
    <3> QED BY <3>2, <3>3
  <2>9. mem' = [mem EXCEPT ![Process[a]] = s]
    BY <2>1, <2>6
  <2> QED BY <1>4, <2>2, <2>5, <2>7, <2>8, <2>9
<1>8. ASSUME NEW a \in Threads, Load(a) PROVE CountInv'
  <2>1. mem' = [mem EXCEPT ![Process[a]] = Loaded(file)] /\ UNCHANGED <<file, tmp, ran>>
    BY <1>8 DEF Load, disk
  <2>2. PICK s : s = Loaded(file)
    OBVIOUS
  <2>3. s \in Schedules /\ HonestNext(s)
    BY <2>1, <2>2, NoneFacts, ScheduleFacts DEF Loaded, Honest, HonestNext, CountInv
  <2>4. mem' = [mem EXCEPT ![Process[a]] = s] /\ \A t \in TaskIds : ran[t] <= ran'[t]
    BY <1>2, <2>1, <2>2
  <2> QED BY <1>4, <2>1, <2>3, <2>4
<1>9. ASSUME NEW p \in Processes, Kill(p) PROVE CountInv'
  BY <1>1, <1>9, ScheduleFacts DEF Kill, BaseInv, CountInv, Honest
<1>10. ASSUME NEW a \in Threads, OpenTmp(a) PROVE CountInv'
  BY <1>1, <1>10, ScheduleFacts DEF OpenTmp, Opens, CountInv, Honest
<1>11. ASSUME NEW a \in Threads, Dump(a) PROVE CountInv'
  <2>1. /\ file' \in {file, mem[Process[a]], Torn} /\ tmp' \in {tmp, mem[Process[a]], Torn}
        /\ UNCHANGED <<mem, ran>>
    <3>1. UNCHANGED <<mem, ran>> /\ fd[a] \in {"none", "tmp", "file", "lost"} /\ pc[a] = "opened"
      BY <1>1, <1>11 DEF Dump, history, BaseInv
    <3>2. fd[a] # "none" => file' \in {file, mem[Process[a]], Torn} /\ tmp' \in {tmp, mem[Process[a]], Torn}
      BY <1>11, <3>1 DEF Dump, Written
    <3>3. fd[a] # "none"
      BY <1>1, <3>1 DEF BaseInv
    <3> QED BY <3>1, <3>2, <3>3
  <2> QED BY <1>1, <2>1, ScheduleFacts DEF CountInv, Honest, Processes
<1>12. ASSUME NEW a \in Threads, Replace(a) PROVE CountInv'
  BY <1>1, <1>12, ScheduleFacts DEF Replace, disk, CountInv, Honest
<1>16. ASSUME NEW a \in Threads, SaveFails(a) PROVE CountInv'
  <2>1. /\ file' \in {file, Torn} /\ tmp' \in {tmp, Torn} /\ ran' = ran
        /\ mem' = mem \/ mem' = [mem EXCEPT ![Process[a]] = Unloaded]
    BY <1>16 DEF SaveFails
  <2>2. \A p \in Processes : mem'[p] = mem[p] \/ mem'[p] = Unloaded
    BY <1>1, <2>1 DEF BaseInv
  <2> QED BY <1>1, <2>1, <2>2, ScheduleFacts DEF CountInv, Honest
<1>13. ASSUME NEW a \in Threads, (\E t : TriggerTaskNow(a, t)) \/ RunDueTasks(a) \/ NextOfList(a)
       PROVE  CountInv'
  BY <1>3, <1>13, TriggerFacts, ListFacts DEF RunDueTasks, disk
<1>14. ASSUME NEW a \in Threads, RegisterTask(a) \/ Seed(a) PROVE CountInv'
  BY <1>1, <1>5, <1>14 DEF RegisterTask, Seed, Ready, BaseInv
<1>15. CASE Tick \/ UNCHANGED vars
  BY <1>3, <1>15 DEF Tick, vars, engine, disk, history
<1> QED BY <1>6, <1>7, <1>8, <1>9, <1>10, <1>11, <1>12, <1>13, <1>14, <1>15, <1>16 DEF Next

\* trigger_task_now and _save: no schedule, in memory or on disk, claims an execution
\* that did not happen, whatever is lost, repeated or saved from an old copy.
THEOREM CountsAreHonest == Spec => []CountedWereRun
<1>1. Init => CountInv
  BY BaseInit, ScheduleFacts DEF Init, CountInv, Honest
<1>2. CountInv => CountedWereRun
  BY ScheduleFacts DEF CountInv, CountedWereRun, Honest
<1> QED BY <1>1, <1>2, CountStep, PTL DEF Spec

-------------------------------------------------------------------------------
(* Operations that follow each other. *)

\* How far thread a is with its operation: the copy of its process is the schedule as it
\* should be, which the file is until the change is made, and the temporary file before
\* it is moved.
Progress(a) ==
  /\ pc[a] = "idle" => truth = Loaded(file)
  /\ pc[a] # "idle" => mem[Process[a]] = truth
  /\ pc[a] \in {"seed", "due", "run"} => truth = Loaded(file)
  /\ pc[a] = "opened" => fd[a] = "tmp" /\ tmp = Empty
  /\ pc[a] = "dumped" => tmp = truth

\* While operations follow each other, one thread at most is at work.
AloneInv ==
  /\ BaseInv
  /\ alone =>
       /\ base = Loaded(file)
       /\ Quiet => truth = Loaded(file)
       /\ \A a, b \in Threads : pc[a] # "idle" /\ pc[b] # "idle" => a = b
       /\ \A a \in Threads : pc[a] # "idle" => Progress(a)

\* What thread a does keeps this, if nobody else is at work.
LEMMA OneAtWork ==
  ASSUME BaseInv', NEW a \in Threads,
         alone' => /\ \A b \in Threads \ {a} : pc'[b] = "idle"
                   /\ base' = Loaded(file)' /\ Progress(a)'
  PROVE  AloneInv'
BY DEF AloneInv, Quiet, Progress

\* Thread a is at work, or begins its operation, alone.
Continues(a) == pc[a] # "idle" /\ alone' = alone

LEMMA OthersIdle ==
  ASSUME AloneInv, NEW a \in Threads, Continues(a), alone',
         \/ pc' = pc
         \/ \E s \in {"idle", "seed", "due", "run", "save", "opened", "dumped"} :
              pc' = [pc EXCEPT ![a] = s]
  PROVE  /\ alone /\ base = Loaded(file) /\ Progress(a)
         /\ mem[Process[a]] \in Schedules
         /\ \A b \in Threads \ {a} : pc'[b] = "idle"
BY DEF AloneInv, BaseInv, Continues, Processes

LEMMA BeginsAlone ==
  ASSUME AloneInv, NEW a \in Threads, Begins(a), pc[a] = "idle", alone',
         \/ pc' = pc
         \/ \E s \in {"idle", "seed", "due", "run", "save", "opened", "dumped"} :
              pc' = [pc EXCEPT ![a] = s]
  PROVE  /\ base = Loaded(file) /\ truth = Loaded(file)
         /\ mem[Process[a]] \in {Unloaded, truth}
         /\ \A b \in Threads \ {a} : pc'[b] = "idle"
BY DEF AloneInv, BaseInv, Begins, Quiet

LEMMA AloneStep == AloneInv /\ [Next]_vars => AloneInv'
<1> SUFFICES ASSUME AloneInv, [Next]_vars PROVE AloneInv'
  OBVIOUS
<1>1. BaseInv /\ BaseInv'
  BY BaseStep DEF AloneInv
<1>2. \A a \in Threads : Process[a] \in Processes
  BY DEF Processes
<1>3. CASE UNCHANGED <<file, tmp, fd, mem, pc, truth, base, alone>>
  BY <1>1, <1>3 DEF AloneInv, Quiet, Progress, Loaded, IsSchedule
<1>4. CASE Tick \/ UNCHANGED vars
  BY <1>3, <1>4 DEF Tick, vars, engine, disk, history
<1>5. ASSUME NEW p \in Processes, Kill(p) PROVE AloneInv'
  <2>1. /\ pc' = [a \in Threads |-> IF Process[a] = p THEN "idle" ELSE pc[a]]
        /\ fd' = [a \in Threads |-> IF Process[a] = p THEN "none" ELSE fd[a]]
        /\ mem' = [mem EXCEPT ![p] = Unloaded]
        /\ truth' = IF pc' = pc \/ Loaded(file) = truth THEN truth ELSE base
        /\ UNCHANGED <<file, tmp, base, alone>>
    BY <1>5 DEF Kill
  <2> SUFFICES ASSUME alone
               PROVE  /\ base = Loaded(file)
                      /\ Quiet' => truth' = Loaded(file)
                      /\ \A a, b \in Threads : pc'[a] # "idle" /\ pc'[b] # "idle" => a = b
                      /\ \A a \in Threads : pc'[a] # "idle" => Progress(a)'
    BY <1>1, <2>1 DEF AloneInv, Loaded, IsSchedule
  <2>2. /\ base = Loaded(file) /\ (Quiet => truth = Loaded(file))
        /\ \A a, b \in Threads : pc[a] # "idle" /\ pc[b] # "idle" => a = b
        /\ \A a \in Threads : pc[a] # "idle" => Progress(a)
    BY DEF AloneInv
  <2>3. CASE pc' = pc
    <3>1. truth' = truth
      BY <2>1, <2>3
    <3>2. ASSUME NEW a \in Threads, pc[a] # "idle" PROVE Progress(a)'
      <4>1. Process[a] # p
        BY <2>1, <2>3, <3>2
      <4>2. fd'[a] = fd[a] /\ mem'[Process[a]] = mem[Process[a]] /\ pc'[a] = pc[a]
        BY <1>1, <1>2, <2>1, <2>3, <4>1 DEF BaseInv
      <4> QED BY <2>1, <2>2, <3>1, <3>2, <4>2 DEF Progress, Loaded, IsSchedule
    <3> QED BY <2>2, <2>3, <3>1, <3>2 DEF Quiet
  <2>4. CASE pc' # pc
    <3>1. PICK a \in Threads : pc'[a] # pc[a]
      BY <1>1, <2>1, <2>4 DEF BaseInv
    <3>2. pc[a] # "idle" /\ Process[a] = p
      BY <2>1, <3>1
    <3>3. \A b \in Threads : pc'[b] = "idle"
      BY <2>1, <2>2, <3>2
    <3>4. truth' = Loaded(file)
      BY <2>1, <2>2, <2>4
    <3> QED BY <2>2, <3>3, <3>4
  <2> QED BY <2>3, <2>4
<1>6. ASSUME NEW a \in Threads, Load(a) PROVE AloneInv'
  <2>1. /\ pc[a] = "idle" /\ Begins(a) /\ mem' = [mem EXCEPT ![Process[a]] = Loaded(file)]
        /\ pc' = pc \/ pc' = [pc EXCEPT ![a] = "seed"]
        /\ UNCHANGED <<file, tmp, truth, base>>
    BY <1>6 DEF Load, disk
  <2>2. mem'[Process[a]] = Loaded(file) /\ pc'[a] \in {"idle", "seed"}
    BY <1>1, <1>2, <2>1 DEF BaseInv
  <2> QED BY <1>1, <2>1, <2>2, BeginsAlone, OneAtWork DEF Progress, Loaded, IsSchedule
<1>7. ASSUME NEW a \in Threads, RegisterTask(a) PROVE AloneInv'
  <2>1. /\ pc[a] = "idle" /\ Begins(a) /\ pc' = [pc EXCEPT ![a] = "save"]
        /\ Add(a) /\ used < MaxTasks /\ mem[Process[a]] # Unloaded
        /\ UNCHANGED <<file, tmp, base>>
    BY <1>7 DEF RegisterTask, Ready, Add, disk
  <2>2. PICK task \in Task :
          /\ mem' = [mem EXCEPT ![Process[a]] = With(mem[Process[a]], used + 1, task)]
          /\ truth' = With(truth, used + 1, task)
    BY <1>1, <2>1, AddFacts
  <2>3. pc'[a] = "save" /\ mem'[Process[a]] = With(mem[Process[a]], used + 1, task)
    BY <1>1, <1>2, <2>1, <2>2 DEF BaseInv
  <2> QED BY <1>1, <2>1, <2>2, <2>3, BeginsAlone, OneAtWork DEF Progress, Loaded, IsSchedule
<1>8. ASSUME NEW a \in Threads, Seed(a) PROVE AloneInv'
  <2>1. /\ Continues(a) /\ pc' = [pc EXCEPT ![a] = "save"]
        /\ Add(a) /\ used < MaxTasks /\ mem[Process[a]] # Unloaded
        /\ UNCHANGED <<file, tmp, base>>
    BY <1>1, <1>8 DEF Seed, Continues, Add, disk, BaseInv
  <2>2. PICK task \in Task :
          /\ mem' = [mem EXCEPT ![Process[a]] = With(mem[Process[a]], used + 1, task)]
          /\ truth' = With(truth, used + 1, task)
    BY <1>1, <2>1, AddFacts
  <2>3. pc'[a] = "save" /\ mem'[Process[a]] = With(mem[Process[a]], used + 1, task)
    BY <1>1, <1>2, <2>1, <2>2 DEF BaseInv
  <2> QED BY <1>1, <2>1, <2>2, <2>3, OthersIdle, OneAtWork DEF Progress, Continues, Loaded, IsSchedule
<1>9. ASSUME NEW a \in Threads, NEW t, CancelTask(a, t) PROVE AloneInv'
  <2>1. /\ pc[a] = "idle" /\ Begins(a) /\ pc' = [pc EXCEPT ![a] = "save"]
        /\ mem' = [mem EXCEPT ![Process[a]] = Without(mem[Process[a]], t)]
        /\ truth' = Without(truth, t)
        /\ mem[Process[a]] # Unloaded /\ UNCHANGED <<file, tmp, base>>
    BY <1>9 DEF CancelTask, Ready, Changed, disk
  <2>2. pc'[a] = "save" /\ mem'[Process[a]] = Without(mem[Process[a]], t)
    BY <1>1, <1>2, <2>1 DEF BaseInv
  <2> QED BY <1>1, <2>1, <2>2, BeginsAlone, OneAtWork DEF Progress, Loaded, IsSchedule
<1>10. ASSUME NEW a \in Threads, NEW t, TriggerTaskNow(a, t) PROVE AloneInv'
  <2>1. /\ pc[a] = "idle" /\ Begins(a) /\ pc' = [pc EXCEPT ![a] = "run"]
        /\ mem[Process[a]] # Unloaded /\ UNCHANGED <<file, tmp, mem, truth, base>>
    BY <1>10, TriggerFacts DEF disk
  <2>2. pc'[a] = "run"
    BY <1>1, <2>1 DEF BaseInv
  <2> QED BY <1>1, <2>1, <2>2, BeginsAlone, OneAtWork DEF Progress, Loaded, IsSchedule
<1>11. ASSUME NEW a \in Threads, RunDueTasks(a) PROVE AloneInv'
  <2>1. /\ pc[a] = "idle" /\ Begins(a) /\ pc' = [pc EXCEPT ![a] = "due"]
        /\ mem[Process[a]] # Unloaded /\ UNCHANGED <<file, tmp, mem, truth, base>>
    BY <1>11 DEF RunDueTasks, Ready, disk
  <2>2. pc'[a] = "due"
    BY <1>1, <2>1 DEF BaseInv
  <2> QED BY <1>1, <2>1, <2>2, BeginsAlone, OneAtWork DEF Progress, Loaded, IsSchedule
<1>12. ASSUME NEW a \in Threads, NextOfList(a) PROVE AloneInv'
  <2>1. /\ Continues(a) /\ UNCHANGED <<file, tmp, fd, mem, truth, base>>
        /\ \E s \in {"idle", "due", "run"} : pc' = [pc EXCEPT ![a] = s]
        /\ pc[a] = "due"
    BY <1>12, ListFacts DEF Launches, Passes, Continues, disk
  <2>2. pc'[a] \in {"idle", "due", "run"}
    BY <1>1, <2>1 DEF BaseInv
  <2> QED BY <1>1, <2>1, <2>2, OthersIdle, OneAtWork DEF Progress, Continues, Loaded, IsSchedule
<1>13. ASSUME NEW a \in Threads, FinishRun(a) PROVE AloneInv'
  <2>1. /\ Continues(a) /\ pc' = [pc EXCEPT ![a] = "save"] /\ UNCHANGED <<file, tmp, base>>
    BY <1>13 DEF FinishRun, Continues, disk
  <2>2. PICK next \in Nat :
          /\ mem' = [mem EXCEPT ![Process[a]] = AfterRun(mem[Process[a]], cur[a], next)]
          /\ truth' = AfterRun(truth, cur[a], next)
    BY <1>1, <1>13, FinishFacts
  <2>3. pc'[a] = "save" /\ mem'[Process[a]] = AfterRun(mem[Process[a]], cur[a], next)
    BY <1>1, <1>2, <2>1, <2>2 DEF BaseInv
  <2> QED BY <1>1, <2>1, <2>2, <2>3, OthersIdle, OneAtWork DEF Progress, Continues, Loaded, IsSchedule
<1>14. ASSUME NEW a \in Threads, OpenTmp(a) PROVE AloneInv'
  <2>1. /\ Continues(a) /\ pc' = [pc EXCEPT ![a] = "opened"] /\ tmp' = Empty
        /\ fd' = [fd EXCEPT ![a] = "tmp"] /\ UNCHANGED <<file, mem, truth, base>>
    BY <1>14 DEF OpenTmp, Opens, Continues
  <2>2. pc'[a] = "opened" /\ fd'[a] = "tmp"
    BY <1>1, <2>1 DEF BaseInv
  <2> QED BY <1>1, <2>1, <2>2, OthersIdle, OneAtWork DEF Progress, Continues, Loaded, IsSchedule
<1>15. ASSUME NEW a \in Threads, Dump(a) PROVE AloneInv'
  <2>1. /\ Continues(a) /\ pc[a] = "opened" /\ pc' = [pc EXCEPT ![a] = "dumped"]
        /\ UNCHANGED <<mem, truth, base>>
    BY <1>15 DEF Dump, Continues, history
  <2>2. pc'[a] = "dumped"
    BY <1>1, <2>1 DEF BaseInv
  <2>3. ASSUME fd[a] = "tmp", tmp = Empty PROVE tmp' = mem[Process[a]] /\ file' = file
    BY <1>15, <2>3 DEF Dump, Written
  <2> QED BY <1>1, <2>1, <2>2, <2>3, OthersIdle, OneAtWork DEF Progress, Continues, Loaded, IsSchedule
<1>16. ASSUME NEW a \in Threads, Replace(a) PROVE AloneInv'
  <2>1. /\ Continues(a) /\ pc[a] = "dumped" /\ UNCHANGED <<mem, truth>>
        /\ \E s \in {"seed", "due", "idle"} : pc' = [pc EXCEPT ![a] = s]
    BY <1>16 DEF Replace, Goes, Continues
  <2>2. pc'[a] \in {"seed", "due", "idle"}
    BY <1>1, <2>1 DEF BaseInv
  <2>3. ASSUME alone' PROVE /\ file' = truth /\ base' = truth /\ Loaded(truth) = truth
                            /\ mem[Process[a]] = truth
    <3>1. tmp = truth /\ mem[Process[a]] = truth /\ truth \in Schedules
      BY <2>1, <2>3, OthersIdle DEF Progress
    <3>2. tmp # Absent
      BY <3>1, ScheduleFacts
    <3> QED BY <1>16, <3>1, <3>2, LoadedFacts DEF Replace
  <2> QED BY <1>1, <2>1, <2>2, <2>3, OthersIdle, OneAtWork DEF Progress, Loaded, IsSchedule
<1>17. ASSUME NEW a \in Threads, SaveFails(a) PROVE AloneInv'
  <2>1. /\ Continues(a) /\ pc[a] # "idle" /\ pc' = [pc EXCEPT ![a] = "idle"]
        /\ truth' = base /\ base' = base /\ (fd[a] # "file" => file' = file)
    BY <1>17 DEF SaveFails, Continues
  <2>2. pc'[a] = "idle"
    BY <1>1, <2>1 DEF BaseInv
  <2>3. ASSUME alone' PROVE base = Loaded(file) /\ file' = file
    <3>1. base = Loaded(file) /\ Progress(a)
      BY <2>1, <2>3, OthersIdle
    <3> QED BY <1>1, <2>1, <3>1 DEF Progress, BaseInv
  <2> QED BY <1>1, <2>1, <2>2, <2>3, OthersIdle, OneAtWork DEF Progress, Loaded, IsSchedule
<1> QED BY <1>4, <1>5, <1>6, <1>7, <1>8, <1>9, <1>10, <1>11, <1>12, <1>13, <1>14, <1>15, <1>16, <1>17
  DEF Next

LEMMA AloneAlways == Spec => []AloneInv
<1>1. Init => AloneInv
  BY BaseInit, ScheduleFacts DEF Init, AloneInv, Loaded
<1> QED BY <1>1, AloneStep, PTL DEF Spec

\* _load and _save: operations that follow each other, each on the file as it is, make
\* the file what they say, whichever processes and threads they are of; one that was cut
\* short, by a kill or a save that failed, has happened or has not.
THEOREM AloneStaysExact == Spec => []AloneIsExact
<1>1. AloneInv => AloneIsExact
  BY DEF AloneInv, AloneIsExact
<1> QED BY <1>1, AloneAlways, PTL

-------------------------------------------------------------------------------
(* A due time is served once. *)

\* What is still to come of task t is later than what run_due_tasks has served, unless
\* t is being run; a task that is not registered yet has served nothing.
Slots(t) ==
  /\ dueRuns[t] <= now
  /\ t > used => dueRuns[t] = 0 /\ t \notin DOMAIN truth
  /\ t \in DOMAIN truth /\ truth[t].next # Never =>
       dueRuns[t] < truth[t].next \/ \E a \in Threads : pc[a] = "run" /\ cur[a] = t

SlotInv == AloneInv /\ (alone /\ ~cut => \A t \in TaskIds : Slots(t))

LEMMA TruthFacts ==
  ASSUME AloneInv, alone
  PROVE  /\ truth \in Schedules
         /\ \A a \in Threads : pc[a] # "idle" => mem[Process[a]] = truth
<1>1. \A a \in Threads : pc[a] # "idle" => mem[Process[a]] = truth /\ mem[Process[a]] \in Schedules
  BY DEF AloneInv, Progress, BaseInv, Processes
<1>2. Quiet => truth \in Schedules
  BY LoadedFacts DEF AloneInv
<1> QED BY <1>1, <1>2 DEF Quiet

\* Steps that neither change the schedule nor end a run.
LEMMA SlotsStay ==
  ASSUME SlotInv, AloneInv', alone' /\ ~cut' => alone /\ ~cut /\ truth' = truth /\
           \A a \in Threads : pc[a] = "run" => pc'[a] = "run" /\ cur'[a] = cur[a],
         UNCHANGED <<dueRuns, used>>, now' \in Nat, now <= now'
  PROVE  SlotInv'
<1> SUFFICES ASSUME alone', ~cut', NEW t \in TaskIds PROVE Slots(t)'
  BY DEF SlotInv
<1>1. Slots(t) /\ truth' = truth /\ dueRuns' = dueRuns /\ used' = used
      /\ \A a \in Threads : pc[a] = "run" => pc'[a] = "run" /\ cur'[a] = cur[a]
  BY DEF SlotInv
<1>2. dueRuns[t] \in Nat /\ now \in Nat
  BY DEF SlotInv, AloneInv, BaseInv
<1>3. dueRuns[t] <= now'
  BY <1>1, <1>2 DEF Slots
<1> QED BY <1>1, <1>3 DEF Slots

\* A registration.
LEMMA SlotsAdd ==
  ASSUME SlotInv, AloneInv', NEW a \in Threads, Add(a), used < MaxTasks,
         mem[Process[a]] # Unloaded, alone' => alone, pc[a] # "run"
  PROVE  SlotInv'
<1> SUFFICES ASSUME alone', ~cut', NEW t \in TaskIds PROVE Slots(t)'
  BY DEF SlotInv
<1>1. BaseInv /\ AloneInv /\ alone /\ ~cut
  BY DEF SlotInv, AloneInv, Add
<1>2. /\ pc' = [pc EXCEPT ![a] = "save"] /\ UNCHANGED <<now, cur, dueRuns>>
  BY DEF Add
<1>3. PICK task \in Task :
        /\ task.next = Never \/ task.next = now + 1
        /\ used' = used + 1 /\ used' \in TaskIds /\ truth' = With(truth, used + 1, task)
  BY <1>1, AddFacts
<1>4. /\ DOMAIN truth' = DOMAIN truth \cup {used + 1}
      /\ \A u \in DOMAIN truth \cup {used + 1} :
           truth'[u] = IF u = used + 1 THEN task ELSE truth[u]
  <2>1. truth \in Schedules /\ used + 1 \in TaskIds
    BY <1>1, <1>3, TruthFacts
  <2>2. /\ DOMAIN With(truth, used + 1, task) = DOMAIN truth \cup {used + 1}
        /\ \A u \in DOMAIN truth \cup {used + 1} :
             With(truth, used + 1, task)[u] = IF u = used + 1 THEN task ELSE truth[u]
    BY DEF With
  <2> QED BY <1>3, <2>2
<1>5. Slots(t) /\ dueRuns[t] \in Nat /\ now \in Nat /\ used \in Nat /\ t \in Nat
  <2>1. Slots(t)
    BY <1>1 DEF SlotInv
  <2>2. dueRuns[t] \in Nat /\ now \in Nat /\ used \in Nat
    BY <1>1 DEF BaseInv
  <2> QED BY <2>1, <2>2 DEF TaskIds
<1>6. \A b \in Threads : pc[b] = "run" => pc'[b] = "run" /\ cur'[b] = cur[b]
  BY <1>1, <1>2 DEF BaseInv
<1>7. CASE t = used + 1
  <2>1. dueRuns[t] = 0 /\ truth'[t] = task
    BY <1>4, <1>5, <1>7 DEF Slots
  <2> QED BY <1>2, <1>3, <1>5, <1>7, <2>1 DEF Slots
<1>8. CASE t # used + 1
  <2>1. /\ t \in DOMAIN truth' <=> t \in DOMAIN truth
        /\ t \in DOMAIN truth => truth'[t] = truth[t]
        /\ t > used' => t > used
    BY <1>3, <1>4, <1>5, <1>8
  <2> QED BY <1>2, <1>5, <1>6, <2>1 DEF Slots
<1> QED BY <1>7, <1>8

LEMMA SlotStep == SlotInv /\ [Next]_vars => SlotInv'
<1> SUFFICES ASSUME SlotInv, [Next]_vars PROVE SlotInv'
  OBVIOUS
<1>1. BaseInv /\ BaseInv' /\ AloneInv /\ AloneInv' /\ now \in Nat /\ now' \in Nat
  BY AloneStep, BaseStep DEF SlotInv, AloneInv, BaseInv
<1>2. CASE Tick
  BY <1>1, <1>2, SlotsStay DEF Tick, engine, disk, history
<1>3. CASE UNCHANGED vars
  BY <1>1, <1>3, SlotsStay DEF vars, engine, disk, history
<1>4. ASSUME NEW p \in Processes, Kill(p) PROVE SlotInv'
  <2>1. /\ pc' = [a \in Threads |-> IF Process[a] = p THEN "idle" ELSE pc[a]]
        /\ cur' = [a \in Threads |-> IF Process[a] = p THEN 0 ELSE cur[a]]
        /\ cut' = (cut \/ pc' # pc)
        /\ pc' = pc => truth' = truth
        /\ UNCHANGED <<alone, dueRuns, used, now>>
    BY <1>4 DEF Kill
  <2>2. ASSUME alone', ~cut'
        PROVE  /\ alone /\ ~cut /\ truth' = truth
               /\ \A a \in Threads : pc[a] = "run" => pc'[a] = "run" /\ cur'[a] = cur[a]
    BY <2>1, <2>2
  <2> QED BY <1>1, <2>1, <2>2, SlotsStay
<1>5. ASSUME NEW a \in Threads, Load(a) PROVE SlotInv'
  <2>1. /\ alone' => alone
        /\ \A b \in Threads : pc[b] = "run" => pc'[b] = "run" /\ cur'[b] = cur[b]
        /\ UNCHANGED <<dueRuns, used, now, truth, cut>>
    BY <1>1, <1>5 DEF Load, Begins, BaseInv
  <2> QED BY <1>1, <2>1, SlotsStay
<1>6. ASSUME NEW a \in Threads, RegisterTask(a) \/ Seed(a) PROVE SlotInv'
  <2>1. /\ Add(a) /\ used < MaxTasks /\ mem[Process[a]] # Unloaded
    BY <1>1, <1>6 DEF RegisterTask, Seed, Ready, BaseInv
  <2>2. (alone' => alone) /\ pc[a] # "run"
    <3>1. CASE RegisterTask(a)
      BY <3>1 DEF RegisterTask, Ready, Begins
    <3>2. CASE Seed(a)
      BY <3>2 DEF Seed
    <3> QED BY <1>6, <3>1, <3>2
  <2> QED BY <1>1, <2>1, <2>2, SlotsAdd
<1>7. ASSUME NEW a \in Threads, NEW t, CancelTask(a, t) PROVE SlotInv'
  <2> SUFFICES ASSUME alone', ~cut', NEW u \in TaskIds PROVE Slots(u)'
    BY <1>1 DEF SlotInv
  <2>1. /\ alone /\ ~cut /\ truth' = Without(truth, t)
        /\ pc[a] = "idle" /\ pc' = [pc EXCEPT ![a] = "save"]
        /\ UNCHANGED <<dueRuns, used, now, cur>>
    BY <1>7 DEF CancelTask, Changed, Ready, Begins
  <2>2. /\ DOMAIN truth' = DOMAIN truth \ {t}
        /\ \A v \in DOMAIN truth \ {t} : truth'[v] = truth[v]
    BY <1>1, <2>1, WithoutFacts, TruthFacts, Zenon
  <2>3. \A b \in Threads : pc[b] = "run" => pc'[b] = "run" /\ cur'[b] = cur[b]
    BY <1>1, <2>1 DEF BaseInv
  <2>4. Slots(u)
    BY <2>1 DEF SlotInv
  <2> QED BY <2>1, <2>2, <2>3, <2>4 DEF Slots
<1>8. ASSUME NEW a \in Threads, NEW t, TriggerTaskNow(a, t) PROVE SlotInv'
  <2>1. /\ alone' => alone
        /\ \A b \in Threads : pc[b] = "run" => pc'[b] = "run" /\ cur'[b] = cur[b]
        /\ UNCHANGED <<dueRuns, used, now, truth, cut>>
    <3>1. /\ pc[a] = "idle" /\ Begins(a) /\ UNCHANGED <<now, used, dueRuns, truth, cut>>
          /\ pc' = [pc EXCEPT ![a] = "run"] /\ cur' = [cur EXCEPT ![a] = t]
      BY <1>8, TriggerFacts
    <3>2. \A b \in Threads : b # a => pc'[b] = pc[b] /\ cur'[b] = cur[b]
      BY <1>1, <3>1 DEF BaseInv
    <3> QED BY <3>1, <3>2 DEF Begins
  <2> QED BY <1>1, <2>1, SlotsStay
<1>9. ASSUME NEW a \in Threads, RunDueTasks(a) PROVE SlotInv'
  <2>1. /\ alone' => alone
        /\ \A b \in Threads : pc[b] = "run" => pc'[b] = "run" /\ cur'[b] = cur[b]
        /\ UNCHANGED <<dueRuns, used, now, truth, cut>>
    BY <1>1, <1>9 DEF RunDueTasks, Ready, Begins, BaseInv
  <2> QED BY <1>1, <2>1, SlotsStay
<1>10. ASSUME NEW a \in Threads, NextOfList(a) PROVE SlotInv'
  <2>1. UNCHANGED <<now, mem, at, used, truth, alone, cut>>
    BY <1>10, ListFacts
  <2>2. CASE Passes(a)
    <3>1. \A b \in Threads : pc[b] = "run" => pc'[b] = "run" /\ cur'[b] = cur[b]
      BY <1>1, <2>2 DEF Passes, BaseInv
    <3> QED BY <1>1, <2>1, <2>2, <3>1, SlotsStay DEF Passes
  <2>3. ASSUME NEW t, Launches(a, t) PROVE SlotInv'
    <3> SUFFICES ASSUME alone, ~cut, NEW u \in TaskIds PROVE Slots(u)'
      BY <1>1, <2>1 DEF SlotInv
    <3>1. /\ pc[a] = "due" /\ pc'[a] = "run" /\ cur'[a] = t
          /\ \A b \in Threads : pc[b] # "run"
          /\ dueRuns' = [dueRuns EXCEPT ![t] = @ + 1]
      BY <1>1, <2>3 DEF Launches, AloneInv, BaseInv
    <3>2. /\ mem[Process[a]] = truth /\ truth \in Schedules /\ t \in DOMAIN truth
          /\ truth[t].next # Never /\ truth[t].next <= at[a]
      BY <1>1, <2>3, <3>1, TruthFacts DEF Launches
    <3>3. Slots(u) /\ dueRuns[u] \in Nat /\ at[a] \in 0 .. now
      BY <1>1 DEF SlotInv, BaseInv
    <3>4. CASE u = t
      <4>1. truth[t].next \in Nat
        <5>1. truth \in [DOMAIN truth -> Task]
          BY <3>2, TaskFacts
        <5> QED BY <3>2, <5>1 DEF Task
      <4>2. dueRuns[u] < truth[t].next
        BY <3>1, <3>2, <3>3, <3>4 DEF Slots
      <4>3. dueRuns'[u] = dueRuns[u] + 1
        BY <1>1, <3>1, <3>4 DEF BaseInv
      <4>4. dueRuns'[u] <= now
        BY <1>1, <3>2, <3>3, <4>1, <4>2, <4>3
      <4>5. ~ (u > used)
        BY <3>2, <3>3, <3>4 DEF Slots
      <4> QED BY <2>1, <3>1, <3>4, <4>4, <4>5 DEF Slots
    <3>5. CASE u # t
      <4>1. dueRuns'[u] = dueRuns[u]
        BY <1>1, <3>1, <3>5 DEF BaseInv
      <4> QED BY <2>1, <3>1, <3>3, <4>1 DEF Slots
    <3> QED BY <3>4, <3>5
  <2> QED BY <1>10, <2>2, <2>3, ListFacts
<1>11. ASSUME NEW a \in Threads, FinishRun(a) PROVE SlotInv'
  <2> SUFFICES ASSUME alone', ~cut', NEW u \in TaskIds PROVE Slots(u)'
    BY <1>1 DEF SlotInv
  <2>1. /\ alone /\ ~cut /\ pc[a] = "run" /\ UNCHANGED <<dueRuns, used, now>>
        /\ pc' = [pc EXCEPT ![a] = "save"] /\ cur' = [cur EXCEPT ![a] = 0]
    BY <1>11 DEF FinishRun
  <2>2. PICK next \in Nat : /\ next = Never \/ next = now + 1
                            /\ truth' = AfterRun(truth, cur[a], next)
    BY <1>1, <1>11, FinishFacts
  <2>3. /\ DOMAIN truth' = DOMAIN truth
        /\ \A v \in DOMAIN truth :
             truth'[v] = IF v = cur[a] THEN [runs |-> truth[v].runs + 1, next |-> next] ELSE truth[v]
    BY <1>1, <2>1, <2>2, AfterRunFacts, TruthFacts
  <2>4. Slots(u) /\ dueRuns[u] \in Nat
    BY <1>1, <2>1 DEF SlotInv, BaseInv
  <2>5. CASE u = cur[a]
    <3>1. u \in DOMAIN truth => truth'[u].next = next
      BY <2>3, <2>5
    <3>2. dueRuns[u] < now + 1
      BY <1>1, <2>4 DEF Slots
    <3> QED BY <2>1, <2>2, <2>3, <2>4, <3>1, <3>2 DEF Slots
  <2>6. CASE u # cur[a]
    <3>1. \A b \in Threads : ~ (pc[b] = "run" /\ cur[b] = u)
      BY <1>1, <2>1, <2>6 DEF AloneInv
    <3> QED BY <2>1, <2>3, <2>4, <2>6, <3>1 DEF Slots
  <2> QED BY <2>5, <2>6
<1>12. ASSUME NEW a \in Threads, OpenTmp(a) \/ Dump(a) \/ Replace(a) PROVE SlotInv'
  <2>1. /\ alone' = alone
        /\ \A b \in Threads : pc[b] = "run" => pc'[b] = "run" /\ cur'[b] = cur[b]
        /\ UNCHANGED <<dueRuns, used, now, truth, cut>>
    BY <1>1, <1>12 DEF OpenTmp, Dump, Replace, Goes, history, disk, BaseInv
  <2> QED BY <1>1, <2>1, SlotsStay
<1>13. ASSUME NEW a \in Threads, SaveFails(a) PROVE SlotInv'
  BY <1>1, <1>13, SlotsStay DEF SaveFails
<1> QED BY <1>2, <1>3, <1>4, <1>5, <1>6, <1>7, <1>8, <1>9, <1>10, <1>11, <1>12, <1>13 DEF Next

\* run_due_tasks: a time that has come is served at most once, while nothing overlaps
\* and nothing is cut short.
THEOREM SlotsRunOnce == Spec => []SlotRunsOnce
<1>1. Init => SlotInv
  <2> SUFFICES ASSUME Init PROVE SlotInv
    OBVIOUS
  <2>1. AloneInv
    BY BaseInit, ScheduleFacts DEF Init, AloneInv, Loaded
  <2>2. /\ dueRuns = [t \in TaskIds |-> 0] /\ now = 0 /\ DOMAIN truth = {}
    BY NoneFacts DEF Init
  <2> QED BY <2>1, <2>2 DEF SlotInv, Slots
<1>2. SlotInv => SlotRunsOnce
  BY DEF SlotInv, Slots, SlotRunsOnce
<1> QED BY <1>1, <1>2, SlotStep, PTL DEF Spec
================================================================================
