------------------------------ MODULE RepairSearch ------------------------------
(***************************************************************************)
(* VerifiedSearch (saleha/core/verification/verified_search.py), and       *)
(* SwarmPipelineEngine._repair_with_counterexample (saleha/core/swarm/     *)
(* swarm_pipeline_engine.py), which runs one search per model, cheapest    *)
(* first.  The tries of a search are threads: each draws a candidate,      *)
(* drops it if the text is known, and has it verified.                     *)
(*                                                                         *)
(* Details, reports and times are left out; a verifier may find anything.  *)
(***************************************************************************)
EXTENDS Integers, FiniteSets

CONSTANTS
  Candidates,   \* texts a source may produce, stripped
  Original,     \* the solution that is to be repaired
  Tiers,        \* how many models there are to try
  Tries,        \* RepairTier.tries: the budget of each search
  AtOnce        \* RepairTier.at_once: its concurrency

ASSUME SearchAssumption ==
  /\ Original \in Candidates
  /\ Tiers \in Nat \ {0}
  /\ Tries \in [1..Tiers -> Nat] /\ AtOnce \in [1..Tiers -> Nat \ {0}]

VARIABLES
  tier,         \* the search that runs
  mode,         \* "searching", "over"
  begun,        \* next_index: the tries submitted so far
  at,           \* where each try is
  text,         \* its candidate
  outcome,      \* its outcome
  seen,         \* _seen: the texts that are known
  winner,       \* SearchResult.winner
  taught,       \* record_verdict: what the router was told of each model
  verdicts,     \* texts that a verifier has looked at, by what it found; history
  looks         \* how often a verifier has looked at each text; history

try == <<at, text, outcome>>
searchVars == <<tier, mode, begun, try, seen, winner, taught, verdicts, looks>>

NoCandidate == "no candidate"
NoTry == -1
Outcomes == {"passed", "failed", "did_not_run", "duplicate"}

\* The tries of the search with the largest budget, numbered from 0.
Slots == UNION {0..Tries[t] - 1 : t \in 1..Tiers}

SearchInit ==
  /\ tier = 1
  /\ mode = "searching"
  /\ begun = 0
  /\ at = [i \in Slots |-> "idle"]
  /\ text = [i \in Slots |-> NoCandidate]
  /\ outcome = [i \in Slots |-> "none"]
  /\ seen = {Original}
  /\ winner = NoTry
  /\ taught = [t \in 1..Tiers |-> [good |-> 0, bad |-> 0]]
  /\ verdicts = {}
  /\ looks = [c \in Candidates |-> 0]

Running == {i \in Slots : at[i] \in {"drawing", "comparing", "verifying", "ended"}}

\* _stop is set when a winner is known; the running tries do not look at it.
WinnerKnown == winner # NoTry

--------------------------------------------------------------------------------
(* run(): the calling thread. *)

MaySubmit == Cardinality(Running) < AtOnce[tier] /\ begun < Tries[tier] /\ ~WinnerKnown

SubmitTry ==
  /\ mode = "searching"
  /\ MaySubmit
  /\ at' = [at EXCEPT ![begun] = "drawing"]
  /\ begun' = begun + 1
  /\ UNCHANGED <<tier, mode, text, outcome, seen, winner, taught, verdicts, looks>>

Ended == {i \in Slots : at[i] = "ended"}
Passed(S) == {i \in S : outcome[i] = "passed"}
Least(S) == {i \in S : \A j \in S : i <= j}

\* Mutant: of several futures that are done, one is looked at.
WinnersOfOne ==
  IF WinnerKnown \/ Passed(Least(Ended)) = {} THEN {winner} ELSE Passed(Least(Ended))

\* The first to pass of the futures that are done, in the order of the tries.
Winners ==
  IF WinnerKnown \/ Passed(Ended) = {} THEN {winner} ELSE Least(Passed(Ended))

\* wait(FIRST_COMPLETED) delivers every future that is done by then.
Collect ==
  /\ mode = "searching"
  /\ ~MaySubmit
  /\ Ended # {}
  /\ at' = [i \in Slots |-> IF i \in Ended THEN "collected" ELSE at[i]]
  /\ winner' \in Winners
  /\ UNCHANGED <<tier, mode, begun, text, outcome, seen, taught, verdicts, looks>>

\* Mutant: a search ends when nothing runs.
SearchIsOverEarly == Running = {} /\ begun > 0

SearchIsOver == Running = {} /\ (begun >= Tries[tier] \/ WinnerKnown)

Collected(o) == {i \in Slots : at[i] = "collected" /\ outcome[i] = o}

\* A search is over: the router is told, and the next model's search starts with
\* all texts of this one known, unless there is a winner or no model is left.
EndSearch ==
  /\ mode = "searching"
  /\ SearchIsOver
  /\ taught' = [taught EXCEPT ![tier] =
       [good |-> @.good + Cardinality(Collected("passed")),
        bad |-> @.bad + Cardinality(Collected("failed") \cup Collected("duplicate"))]]
  /\ IF WinnerKnown \/ tier = Tiers
     THEN mode' = "over" /\ UNCHANGED <<tier, begun, at, text, outcome, seen>>
     ELSE /\ tier' = tier + 1
          /\ begun' = 0
          /\ at' = [i \in Slots |-> "idle"]
          /\ text' = [i \in Slots |-> NoCandidate]
          /\ outcome' = [i \in Slots |-> "none"]
          /\ seen' = {Original} \cup seen \cup ({text[i] : i \in Slots} \ {NoCandidate})
          /\ UNCHANGED mode
  /\ UNCHANGED <<winner, verdicts, looks>>

--------------------------------------------------------------------------------
(* _attempt(i): the threads. *)

Goes(i, from, to) == at[i] = from /\ at' = [at EXCEPT ![i] = to]
TryEnds(i, o) == outcome' = [outcome EXCEPT ![i] = o]
ThreadKeeps == UNCHANGED <<tier, mode, begun, winner, taught>>

\* The source raised or gave nothing.
DrawNothing(i) ==
  /\ Goes(i, "drawing", "ended")
  /\ TryEnds(i, "did_not_run")
  /\ ThreadKeeps /\ UNCHANGED <<text, seen, verdicts, looks>>

Draw(i) ==
  /\ Goes(i, "drawing", "comparing")
  /\ \E c \in Candidates : text' = [text EXCEPT ![i] = c]
  /\ ThreadKeeps /\ UNCHANGED <<outcome, seen, verdicts, looks>>

\* Mutant: a text becomes known when its verdict is in.
CompareOnly(i) ==
  /\ \/ text[i] \in seen /\ Goes(i, "comparing", "ended") /\ TryEnds(i, "duplicate")
     \/ text[i] \notin seen /\ Goes(i, "comparing", "verifying") /\ UNCHANGED outcome
  /\ ThreadKeeps /\ UNCHANGED <<text, seen, verdicts, looks>>

\* Under _seen_lock.
Compare(i) ==
  /\ \/ text[i] \in seen /\ Goes(i, "comparing", "ended") /\ TryEnds(i, "duplicate")
     \/ text[i] \notin seen /\ Goes(i, "comparing", "verifying") /\ UNCHANGED outcome
  /\ seen' = seen \cup {text[i]}
  /\ ThreadKeeps /\ UNCHANGED <<text, verdicts, looks>>

\* The verifier gives one of its three outcomes, or raises (it did not run).
Verify(i) ==
  /\ Goes(i, "verifying", "ended")
  /\ \E o \in Outcomes \ {"duplicate"} :
       /\ TryEnds(i, o)
       /\ verdicts' = verdicts \cup {<<text[i], o>>}
  /\ looks' = [looks EXCEPT ![text[i]] = @ + 1]
  /\ ThreadKeeps /\ UNCHANGED <<text, seen>>

Attempt(i) == DrawNothing(i) \/ Draw(i) \/ Compare(i) \/ Verify(i)
Search == SubmitTry \/ Collect \/ EndSearch

SearchNext == Search \/ \E i \in Slots : Attempt(i)

SearchSpec == SearchInit /\ [][SearchNext]_searchVars

--------------------------------------------------------------------------------
\* Type correctness; never more tries at once than the tier allows.
SearchTypeOK ==
  /\ tier \in 1..Tiers
  /\ mode \in {"searching", "over"}
  /\ begun \in 0..Tries[tier]
  /\ at \in [Slots -> {"idle", "drawing", "comparing", "verifying", "ended", "collected"}]
  /\ text \in [Slots -> Candidates \cup {NoCandidate}]
  /\ outcome \in [Slots -> Outcomes \cup {"none"}]
  /\ seen \subseteq Candidates
  /\ winner \in Slots \cup {NoTry}
  /\ taught \in [1..Tiers -> [good: Nat, bad: Nat]]
  /\ verdicts \subseteq Candidates \X Outcomes
  /\ looks \in [Candidates -> Nat]
  /\ Cardinality(Running) <= AtOnce[tier]

\* No text is verified twice, by whichever thread or model it is drawn again,
\* and the one that is to be repaired never ("not re-verified",
\* verified_search.py:41; "judged already; not again", swarm_pipeline_engine.py:344).
VerifiedOnce ==
  /\ \A c \in Candidates : looks[c] <= 1
  /\ looks[Original] = 0

\* A repair is found exactly when a verifier has passed some candidate, and what is
\* found is such a candidate ("only a verifier's explicit PASSED can make `found`
\* true", verified_search.py:12): none that passed is lost among the threads.
FoundWhatPassed ==
  mode = "over" =>
    /\ (winner # NoTry) <=> (\E c \in Candidates : <<c, "passed">> \in verdicts)
    /\ winner # NoTry => <<text[winner], "passed">> \in verdicts

\* "The escalation model only when every one of those tries failed"
\* (swarm_pipeline_engine.py:279): a tier is left when each of its tries has been
\* made and collected and none has passed.
EscalatesLast ==
  [][tier' # tier =>
       /\ \A i \in 0..Tries[tier] - 1 : at[i] = "collected" /\ outcome[i] # "passed"
       /\ \A i \in Slots : at[i] \in {"idle", "collected"}]_searchVars

\* "Candidates not yet started when a winner appears are never started"
\* (verified_search.py:112).
NothingStartsAfterWinner ==
  [][(\E i \in Slots : at[i] = "idle" /\ at'[i] # "idle") =>
       ~\E i \in Slots : at[i] = "collected" /\ outcome[i] = "passed"]_searchVars
================================================================================
