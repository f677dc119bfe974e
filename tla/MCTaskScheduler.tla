--------------------------- MODULE MCTaskScheduler ---------------------------
(* Instances of TaskScheduler for TLC. *)
EXTENDS TaskScheduler, TLC

CONSTANTS request1, request2, command

\* Two request threads of the web server, and one `saleha scheduler' command.
WebAndCommand == [a \in Threads |-> IF a = command THEN "cli" ELSE "server"]
\* The endpoint triggers; the commands do the rest.
Callers == [a \in Threads |-> IF a = command THEN {"register", "cancel", "run_due"}
                                            ELSE {"trigger"}]

\* The two requests are of one process and do the same.
Requests == Permutations({request1, request2})

\* Histories no property looks at any more are the same, and so is the time of a list
\* that is empty.
Visible ==
  <<now, disk, mem, pc, cur, todo, seeds, used, ran, alone, shared,
    [a \in Threads |-> IF todo[a] = {} THEN 0 ELSE at[a]],
    IF alone THEN <<truth, base, cut>> ELSE <<>>,
    IF alone /\ ~cut THEN dueRuns ELSE <<>>>>
===============================================================================
