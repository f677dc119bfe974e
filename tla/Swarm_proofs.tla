------------------------------ MODULE Swarm_proofs ------------------------------
(***************************************************************************)
(* Proofs about the swarm: the search for a repair (RepairSearch) for      *)
(* every number of models, tries and threads, the octopus coordinator      *)
(* (Octopus) for every number of missions and workers, and the pipeline    *)
(* with its checkpoints (SwarmPipeline) for every route and number of      *)
(* calls.                                                                  *)
(***************************************************************************)
EXTENDS Octopus, RepairSearch, SwarmPipeline, FiniteSetTheorems, TLAPS

-------------------------------------------------------------------------------
(* RepairSearch. *)

\* Tries are submitted in order.
TriesInOrder == \A i \in Slots : at[i] = "idle" <=> i >= begun

\* A text that is being verified is known and has not been verified, and no other
\* thread verifies it; what has been verified is known.
VerifyingOnce ==
  /\ Original \in seen
  /\ \A c \in Candidates : looks[c] <= 1 /\ (looks[c] # 0 => c \in seen /\ c # Original)
  /\ \A i \in Slots :
       /\ at[i] = "comparing" => text[i] \in Candidates
       /\ at[i] = "verifying" => /\ text[i] \in seen /\ text[i] # Original
                                 /\ looks[text[i]] = 0
  /\ \A i, j \in Slots :
       at[i] = "verifying" /\ at[j] = "verifying" /\ text[i] = text[j] => i = j

\* The verdicts that passed are those of the tries of this tier that have passed; once
\* one of these is collected, there is a winner, which is such a one.
PassedAreTries ==
  /\ \A i \in Slots : outcome[i] = "passed" =>
       at[i] \in {"ended", "collected"} /\ <<text[i], "passed">> \in verdicts
  /\ \A c \in Candidates : <<c, "passed">> \in verdicts =>
       \E i \in Slots : text[i] = c /\ outcome[i] = "passed"
  /\ \A i \in Slots : at[i] = "collected" /\ outcome[i] = "passed" => winner # NoTry
  /\ winner # NoTry =>
       winner \in Slots /\ at[winner] = "collected" /\ outcome[winner] = "passed"
  /\ mode = "over" => Running = {}

SearchInv == SearchTypeOK /\ TriesInOrder /\ VerifyingOnce /\ PassedAreTries

\* There are finitely many tries, numbered from 0.
LEMMA SlotFacts ==
  /\ Slots \subseteq Nat /\ NoTry \notin Slots
  /\ IsFiniteSet(Slots)
  /\ \A t \in 1..Tiers : \A i \in Nat : i < Tries[t] => i \in Slots
<1>1. \A t \in 1..Tiers : Tries[t] \in Nat
  BY SearchAssumption
<1> DEFINE S == {0..Tries[t] - 1 : t \in 1..Tiers}
<1>2. IsFiniteSet(S)
  <2> DEFINE f == [t \in 1..Tiers |-> 0..Tries[t] - 1]
  <2>1. f \in Surjection(1..Tiers, S)
    BY DEF Surjection
  <2>2. IsFiniteSet(1..Tiers)
    BY SearchAssumption, FS_Interval
  <2> QED BY <2>1, <2>2, FS_Surjection
<1>3. ASSUME NEW T \in S
      PROVE  IsFiniteSet(T)
  <2>1. PICK t \in 1..Tiers : T = 0..Tries[t] - 1
    OBVIOUS
  <2>2. Tries[t] - 1 \in Int
    BY <1>1
  <2> HIDE DEF S
  <2>3. \A n \in Int : IsFiniteSet(0..n)
    BY FS_Interval
  <2> QED BY <2>1, <2>2, <2>3
<1>4. IsFiniteSet(UNION S)
  <2> HIDE DEF S
  <2> QED BY <1>2, <1>3, FS_UNION
<1> QED BY <1>1, <1>4 DEF Slots, NoTry

LEMMA TryCounts ==
  /\ IsFiniteSet(Running) /\ Cardinality(Running) \in Nat
  /\ \A oc : Cardinality(Collected(oc)) \in Nat
  /\ Cardinality(Collected("failed") \cup Collected("duplicate")) \in Nat
<1>1. Running \subseteq Slots /\ \A oc : Collected(oc) \subseteq Slots
  BY DEF Running, Collected
<1>2. \A S \in SUBSET Slots : IsFiniteSet(S) /\ Cardinality(S) \in Nat
  BY SlotFacts, FS_Subset, FS_CardinalityType
<1> QED BY <1>1, <1>2

LEMMA SearchInvInit == SearchInit => SearchInv
<1> SUFFICES ASSUME SearchInit PROVE SearchInv
  OBVIOUS
<1>1. Running = {} /\ Cardinality(Running) = 0
  BY FS_EmptySet DEF SearchInit, Running
<1>2. SearchTypeOK
  BY <1>1, SearchAssumption, SlotFacts DEF SearchInit, SearchTypeOK
<1>3. TriesInOrder /\ VerifyingOnce /\ PassedAreTries
  BY <1>1, SlotFacts DEF SearchInit, TriesInOrder, VerifyingOnce, PassedAreTries, Running
<1> QED BY <1>2, <1>3 DEF SearchInv

\* A thread that goes on: as many run as before.
LEMMA GoesRunning ==
  ASSUME SearchTypeOK, NEW i \in Slots, NEW p, NEW q,
         p \in {"drawing", "comparing", "verifying"},
         q \in {"comparing", "verifying", "ended"}, Goes(i, p, q)
  PROVE  /\ Running' = Running
         /\ at' \in [Slots -> {"idle", "drawing", "comparing", "verifying", "ended", "collected"}]
BY DEF Goes, Running, SearchTypeOK

LEMMA SubmitInv == SearchInv /\ SubmitTry => SearchInv'
<1> SUFFICES ASSUME SearchInv, SubmitTry PROVE SearchInv'
  OBVIOUS
<1>1. begun \in Slots /\ begun \in Nat
  BY SlotFacts, SearchAssumption DEF SearchInv, SearchTypeOK, SubmitTry, MaySubmit
<1>2. Running' = Running \cup {begun}
  BY <1>1 DEF SearchInv, SearchTypeOK, SubmitTry, Running
<1>3. Cardinality(Running') <= AtOnce[tier]
  <2>1. AtOnce[tier] \in Nat /\ Cardinality(Running) < AtOnce[tier]
    BY SearchAssumption DEF SearchInv, SearchTypeOK, SubmitTry, MaySubmit
  <2>2. Cardinality(Running \cup {begun}) \in
          {Cardinality(Running), Cardinality(Running) + 1}
    BY TryCounts, FS_AddElement
  <2>3. Cardinality(Running) \in Nat
    BY TryCounts
  <2> QED BY <1>2, <2>1, <2>2, <2>3
<1>4. SearchTypeOK'
  <2>1. at' \in [Slots -> {"idle", "drawing", "comparing", "verifying", "ended", "collected"}]
    BY DEF SearchInv, SearchTypeOK, SubmitTry
  <2>2. begun' \in 0..Tries[tier]
    <3>1. begun' = begun + 1 /\ begun < Tries[tier]
      BY DEF SubmitTry, MaySubmit
    <3>2. Tries[tier] \in Nat
      BY SearchAssumption DEF SearchInv, SearchTypeOK
    <3> QED BY <1>1, <3>1, <3>2
  <2>3. UNCHANGED <<tier, mode, text, outcome, winner, taught, seen, verdicts, looks>>
    BY DEF SubmitTry
  <2>4. Cardinality(Running') <= AtOnce[tier'] /\ begun' \in 0..Tries[tier']
    BY <1>3, <2>2, <2>3
  <2>5. /\ tier' \in 1..Tiers /\ mode' \in {"searching", "over"} /\ seen' \subseteq Candidates
        /\ text' \in [Slots -> Candidates \cup {NoCandidate}]
        /\ outcome' \in [Slots -> Outcomes \cup {"none"}] /\ winner' \in Slots \cup {NoTry}
        /\ taught' \in [1..Tiers -> [good: Nat, bad: Nat]]
        /\ verdicts' \subseteq Candidates \X Outcomes /\ looks' \in [Candidates -> Nat]
    BY <2>3 DEF SearchInv, SearchTypeOK
  <2> QED BY <2>1, <2>4, <2>5, Zenon DEF SearchTypeOK
<1>5. TriesInOrder'
  BY <1>1, SlotFacts DEF SearchInv, SearchTypeOK, TriesInOrder, SubmitTry
<1>6. VerifyingOnce'
  BY <1>1 DEF SearchInv, SearchTypeOK, VerifyingOnce, SubmitTry
<1>7. PassedAreTries'
  BY <1>1 DEF SearchInv, SearchTypeOK, TriesInOrder, PassedAreTries, SubmitTry
<1> QED BY <1>4, <1>5, <1>6, <1>7 DEF SearchInv

LEMMA CollectInv == SearchInv /\ Collect => SearchInv'
<1> SUFFICES ASSUME SearchInv, Collect PROVE SearchInv'
  OBVIOUS
<1>1. \A i \in Slots : at'[i] = IF at[i] = "ended" THEN "collected" ELSE at[i]
  BY DEF Collect, Ended
<1>2. Running' \subseteq Running
  BY <1>1 DEF Running
<1>3. Cardinality(Running') <= AtOnce[tier]
  <2>1. IsFiniteSet(Running) /\ Cardinality(Running) \in Nat
    BY TryCounts
  <2>2. Cardinality(Running') <= Cardinality(Running) /\ IsFiniteSet(Running')
    BY <1>2, <2>1, FS_Subset
  <2>3. Cardinality(Running') \in Nat
    BY <2>2, FS_CardinalityType
  <2>4. AtOnce[tier] \in Nat /\ Cardinality(Running) <= AtOnce[tier]
    BY SearchAssumption DEF SearchInv, SearchTypeOK
  <2> QED BY <2>1, <2>2, <2>3, <2>4
<1>4. /\ winner # NoTry => winner' = winner
      /\ winner = NoTry /\ Passed(Ended) # {} => winner' \in Passed(Ended)
      /\ winner = NoTry /\ Passed(Ended) = {} => winner' = NoTry
  BY DEF Collect, Winners, WinnerKnown, Least
<1>5. winner' # NoTry =>
        winner' \in Slots /\ at'[winner'] = "collected" /\ outcome[winner'] = "passed"
  BY <1>1, <1>4 DEF SearchInv, PassedAreTries, Passed, Ended
<1>6. SearchTypeOK'
  BY <1>1, <1>3, <1>5 DEF SearchInv, SearchTypeOK, Collect
<1>7. TriesInOrder' /\ VerifyingOnce'
  BY <1>1 DEF SearchInv, SearchTypeOK, TriesInOrder, VerifyingOnce, Collect
<1>8. \A i \in Slots : at'[i] = "collected" /\ outcome[i] = "passed" => winner' # NoTry
  BY <1>1, <1>4, SlotFacts DEF SearchInv, PassedAreTries, Passed, Ended
<1>9. PassedAreTries'
  BY <1>1, <1>2, <1>5, <1>8 DEF SearchInv, SearchTypeOK, PassedAreTries, Collect
<1> QED BY <1>6, <1>7, <1>9 DEF SearchInv

\* A search without a winner that is over has seen nothing pass.
LEMMA NothingPassed ==
  ASSUME SearchInv, SearchIsOver, ~WinnerKnown
  PROVE  \A c \in Candidates : <<c, "passed">> \notin verdicts
BY DEF SearchInv, SearchIsOver, WinnerKnown, PassedAreTries, Running

LEMMA EndSearchInv == SearchInv /\ EndSearch => SearchInv'
<1> SUFFICES ASSUME SearchInv, EndSearch PROVE SearchInv'
  OBVIOUS
<1>1. Running = {}
  BY DEF EndSearch, SearchIsOver
<1>2. taught' \in [1..Tiers -> [good: Nat, bad: Nat]]
  <2> DEFINE good == Cardinality(Collected("passed"))
             bad == Cardinality(Collected("failed") \cup Collected("duplicate"))
  <2>1. good \in Nat /\ bad \in Nat
    BY TryCounts
  <2>2. taught' = [taught EXCEPT ![tier] = [good |-> @.good + good, bad |-> @.bad + bad]]
    BY DEF EndSearch
  <2> HIDE DEF good, bad
  <2> QED BY <2>1, <2>2 DEF SearchInv, SearchTypeOK
<1>3. CASE WinnerKnown \/ tier = Tiers
  <2>1. mode' = "over" /\ UNCHANGED <<tier, begun, at, text, outcome, seen>>
    BY <1>3 DEF EndSearch
  <2>2. UNCHANGED <<winner, verdicts, looks>> /\ Running' = Running
    BY <2>1 DEF EndSearch, Running
  <2>3. SearchTypeOK'
    BY <1>2, <2>1, <2>2 DEF SearchInv, SearchTypeOK
  <2>4. TriesInOrder' /\ VerifyingOnce'
    BY <2>1, <2>2 DEF SearchInv, TriesInOrder, VerifyingOnce
  <2>5. PassedAreTries'
    BY <1>1, <2>1, <2>2 DEF SearchInv, PassedAreTries
  <2> QED BY <2>3, <2>4, <2>5 DEF SearchInv
<1>4. CASE ~WinnerKnown /\ tier # Tiers
  <2>1. /\ tier' = tier + 1 /\ begun' = 0
        /\ at' = [i \in Slots |-> "idle"]
        /\ text' = [i \in Slots |-> NoCandidate]
        /\ outcome' = [i \in Slots |-> "none"]
        /\ seen' = {Original} \cup seen \cup ({text[i] : i \in Slots} \ {NoCandidate})
        /\ UNCHANGED <<mode, winner, verdicts, looks>>
    BY <1>4 DEF EndSearch
  <2>2. Running' = {} /\ Cardinality(Running') = 0
    BY <2>1, FS_EmptySet DEF Running
  <2>3. tier' \in 1..Tiers
    BY <1>4, <2>1, SearchAssumption DEF SearchInv, SearchTypeOK
  <2>4. SearchTypeOK'
    <3>2. seen' \subseteq Candidates
      BY <2>1, SearchAssumption DEF SearchInv, SearchTypeOK
    <3>3. begun' \in 0..Tries[tier'] /\ Cardinality(Running') <= AtOnce[tier']
      BY <2>1, <2>2, <2>3, SearchAssumption
    <3>4. /\ mode' \in {"searching", "over"} /\ winner' \in Slots \cup {NoTry}
          /\ verdicts' \subseteq Candidates \X Outcomes /\ looks' \in [Candidates -> Nat]
      BY <2>1 DEF SearchInv, SearchTypeOK
    <3>5. /\ at' \in [Slots -> {"idle", "drawing", "comparing", "verifying", "ended", "collected"}]
          /\ text' \in [Slots -> Candidates \cup {NoCandidate}]
          /\ outcome' \in [Slots -> Outcomes \cup {"none"}]
      BY <2>1
    <3> QED BY <1>2, <2>3, <3>2, <3>3, <3>4, <3>5, Zenon DEF SearchTypeOK
  <2>5. TriesInOrder' /\ VerifyingOnce'
    BY <2>1, SlotFacts DEF SearchInv, TriesInOrder, VerifyingOnce
  <2>6. PassedAreTries'
    BY <1>4, <2>1, <2>2, NothingPassed
       DEF SearchInv, PassedAreTries, EndSearch, WinnerKnown
  <2> QED BY <2>4, <2>5, <2>6 DEF SearchInv
<1> QED BY <1>3, <1>4

LEMMA DrawInv ==
  ASSUME SearchInv, NEW i \in Slots, DrawNothing(i) \/ Draw(i)
  PROVE  SearchInv'
<1>1. at[i] = "drawing" /\ at' = [at EXCEPT ![i] = at'[i]] /\ Running' = Running
      /\ at'[i] \in {"ended", "comparing"}
      /\ at' \in [Slots -> {"idle", "drawing", "comparing", "verifying", "ended", "collected"}]
  BY GoesRunning DEF DrawNothing, Draw, Goes, SearchInv, SearchTypeOK
<1>2. UNCHANGED <<tier, mode, begun, winner, taught, seen, verdicts, looks>>
  BY DEF DrawNothing, Draw, ThreadKeeps
<1>0. outcome[i] # "passed"
  BY <1>1 DEF SearchInv, PassedAreTries
<1>3. /\ text' \in [Slots -> Candidates \cup {NoCandidate}]
      /\ outcome' \in [Slots -> Outcomes \cup {"none"}]
      /\ \A j \in Slots \ {i} : text'[j] = text[j] /\ outcome'[j] = outcome[j]
      /\ at'[i] = "comparing" => text'[i] \in Candidates
      /\ outcome'[i] # "passed"
  BY <1>0 DEF DrawNothing, Draw, Goes, TryEnds, SearchInv, SearchTypeOK, Outcomes
<1>4. SearchTypeOK'
  BY <1>1, <1>2, <1>3 DEF SearchInv, SearchTypeOK
<1>5. TriesInOrder' /\ VerifyingOnce'
  BY <1>1, <1>2, <1>3 DEF SearchInv, SearchTypeOK, TriesInOrder, VerifyingOnce
<1>6. PassedAreTries'
  <2>1. \A j \in Slots : j # i => at'[j] = at[j]
    BY <1>1 DEF SearchInv, SearchTypeOK
  <2>2. \A j \in Slots : outcome'[j] = "passed" \/ outcome[j] = "passed" =>
          j # i /\ text'[j] = text[j] /\ outcome'[j] = outcome[j]
    BY <1>0, <1>3
  <2> QED BY <1>1, <1>2, <2>1, <2>2 DEF SearchInv, PassedAreTries
<1> QED BY <1>4, <1>5, <1>6 DEF SearchInv

LEMMA CompareInv ==
  ASSUME SearchInv, NEW i \in Slots, Compare(i)
  PROVE  SearchInv'
<1>1. at[i] = "comparing" /\ at' = [at EXCEPT ![i] = at'[i]] /\ Running' = Running
      /\ at'[i] \in {"ended", "verifying"}
      /\ at' \in [Slots -> {"idle", "drawing", "comparing", "verifying", "ended", "collected"}]
  BY GoesRunning DEF Compare, Goes, SearchInv, SearchTypeOK
<1>2. UNCHANGED <<tier, mode, begun, winner, taught, text, verdicts, looks>>
      /\ seen' = seen \cup {text[i]}
  BY DEF Compare, ThreadKeeps
<1>0. outcome[i] # "passed"
  BY <1>1 DEF SearchInv, PassedAreTries
<1>3. /\ outcome' \in [Slots -> Outcomes \cup {"none"}]
      /\ \A j \in Slots \ {i} : outcome'[j] = outcome[j]
      /\ outcome'[i] # "passed"
      /\ at'[i] = "verifying" => text[i] \notin seen
  BY <1>0, <1>1 DEF Compare, Goes, TryEnds, SearchInv, SearchTypeOK, Outcomes
<1>4. text[i] \in Candidates
  BY <1>1 DEF SearchInv, VerifyingOnce
<1>5. SearchTypeOK'
  BY <1>1, <1>2, <1>3, <1>4 DEF SearchInv, SearchTypeOK
<1>6. TriesInOrder'
  BY <1>1, <1>2 DEF SearchInv, SearchTypeOK, TriesInOrder
<1>7. VerifyingOnce'
  <2>1. VerifyingOnce /\ at \in [Slots -> {"idle", "drawing", "comparing", "verifying",
                                           "ended", "collected"}]
    BY DEF SearchInv, SearchTypeOK
  <2>2. \A j \in Slots \ {i} : at'[j] = at[j]
    BY <1>1, <2>1
  <2>3. text[i] \notin seen \/ at'[i] # "verifying"
    BY <1>3
  <2>4. \A c \in Candidates : looks[c] # 0 => c \in seen /\ c # Original
    BY <2>1 DEF VerifyingOnce
  <2>5. text[i] \notin seen => text[i] # Original /\ (text[i] \in Candidates => looks[text[i]] = 0)
    BY <2>1, <2>4 DEF VerifyingOnce
  <2>6. \A j \in Slots : /\ at[j] = "comparing" => text[j] \in Candidates
                         /\ at[j] = "verifying" => /\ text[j] \in seen /\ text[j] # Original
                                                  /\ looks[text[j]] = 0
    BY <2>1 DEF VerifyingOnce
  <2>7. /\ Original \in seen'
        /\ \A c \in Candidates : looks'[c] <= 1 /\ (looks'[c] # 0 => c \in seen' /\ c # Original)
    BY <1>2, <2>1 DEF VerifyingOnce
  <2>8. \A j \in Slots : /\ at'[j] = "comparing" => text'[j] \in Candidates
                         /\ at'[j] = "verifying" => /\ text'[j] \in seen' /\ text'[j] # Original
                                                   /\ looks'[text'[j]] = 0
    BY <1>1, <1>2, <1>4, <2>2, <2>3, <2>5, <2>6
  <2>9. ASSUME NEW j \in Slots, NEW k \in Slots, at'[j] = "verifying", at'[k] = "verifying",
               text'[j] = text'[k], j # k
        PROVE  FALSE
    <3>1. text[j] = text[k]
      BY <1>2, <2>9
    <3>2. CASE j # i /\ k # i
      <4>1. at[j] = "verifying" /\ at[k] = "verifying"
        BY <2>2, <2>9, <3>2
      <4> QED BY <2>1, <2>9, <3>1, <4>1 DEF VerifyingOnce
    <3>3. CASE j = i
      BY <2>2, <2>3, <2>6, <2>9, <3>1, <3>3
    <3>4. CASE k = i
      BY <2>2, <2>3, <2>6, <2>9, <3>1, <3>4
    <3> QED BY <3>2, <3>3, <3>4
  <2> QED BY <2>7, <2>8, <2>9 DEF VerifyingOnce
<1>8. PassedAreTries'
  BY <1>0, <1>1, <1>2, <1>3 DEF SearchInv, SearchTypeOK, PassedAreTries
<1> QED BY <1>5, <1>6, <1>7, <1>8 DEF SearchInv

LEMMA VerifyInv ==
  ASSUME SearchInv, NEW i \in Slots, Verify(i)
  PROVE  SearchInv'
<1>0. Goes(i, "verifying", "ended")
  BY DEF Verify
<1>1. at[i] = "verifying" /\ at' = [at EXCEPT ![i] = "ended"] /\ Running' = Running
      /\ at' \in [Slots -> {"idle", "drawing", "comparing", "verifying", "ended", "collected"}]
  <2>1. at[i] = "verifying" /\ at' = [at EXCEPT ![i] = "ended"]
    BY <1>0 DEF Goes
  <2>2. Running' = Running
    BY <2>1 DEF Running, SearchInv, SearchTypeOK
  <2> QED BY <2>1, <2>2 DEF SearchInv, SearchTypeOK
<1>2. UNCHANGED <<tier, mode, begun, winner, taught, text, seen>>
      /\ looks' = [looks EXCEPT ![text[i]] = @ + 1]
  BY DEF Verify, ThreadKeeps
<1>3. PICK oc \in Outcomes \ {"duplicate"} :
        /\ outcome' = [outcome EXCEPT ![i] = oc]
        /\ verdicts' = verdicts \cup {<<text[i], oc>>}
  BY DEF Verify, TryEnds
<1>4. text[i] \in Candidates /\ looks[text[i]] = 0 /\ text[i] # Original
  BY <1>1 DEF SearchInv, SearchTypeOK, VerifyingOnce
<1>5. SearchTypeOK'
  BY <1>1, <1>2, <1>3, <1>4 DEF SearchInv, SearchTypeOK
<1>6. TriesInOrder'
  BY <1>1, <1>2 DEF SearchInv, SearchTypeOK, TriesInOrder
<1>7. VerifyingOnce'
  BY <1>1, <1>2, <1>4 DEF SearchInv, SearchTypeOK, VerifyingOnce
<1>8. outcome[i] # "passed"
  BY <1>1 DEF SearchInv, PassedAreTries
<1>9. PassedAreTries'
  BY <1>1, <1>2, <1>3, <1>4, <1>8 DEF SearchInv, SearchTypeOK, PassedAreTries
<1> QED BY <1>5, <1>6, <1>7, <1>9 DEF SearchInv

LEMMA SearchInvStep == SearchInv /\ [SearchNext]_searchVars => SearchInv'
<1> SUFFICES ASSUME SearchInv, [SearchNext]_searchVars PROVE SearchInv'
  OBVIOUS
<1>1. CASE Search
  BY <1>1, SubmitInv, CollectInv, EndSearchInv DEF Search
<1>2. CASE \E i \in Slots : Attempt(i)
  BY <1>2, DrawInv, CompareInv, VerifyInv DEF Attempt
<1>3. CASE UNCHANGED searchVars
  <2>1. UNCHANGED <<tier, mode, begun, at, text, outcome, seen, winner, taught,
                    verdicts, looks>>
    BY <1>3 DEF searchVars, try
  <2>2. Running' = Running
    BY <2>1 DEF Running
  <2> QED BY <2>1, <2>2 DEF SearchInv, SearchTypeOK, TriesInOrder, VerifyingOnce,
                            PassedAreTries
<1> QED BY <1>1, <1>2, <1>3 DEF SearchNext

LEMMA SearchInvariant == SearchSpec => []SearchInv
BY SearchInvInit, SearchInvStep, PTL DEF SearchSpec

\* Type correctness: never more tries at once than a tier allows, whatever its budget
\* and however the threads interleave (verified_search.py:127-146).
THEOREM SearchTypeCorrect == SearchSpec => []SearchTypeOK
<1>1. SearchInv => SearchTypeOK
  BY DEF SearchInv
<1> QED BY <1>1, SearchInvariant, PTL

\* No text is verified twice, and the one to be repaired never, for any number of
\* threads that draw the same text and any number of models (verified_search.py:167).
THEOREM NoTextIsVerifiedTwice == SearchSpec => []VerifiedOnce
<1>1. SearchInv => VerifiedOnce
  BY SearchAssumption DEF SearchInv, SearchTypeOK, VerifyingOnce, VerifiedOnce
<1> QED BY <1>1, SearchInvariant, PTL

\* A repair is found exactly when some verdict passed (verified_search.py:141).
THEOREM PassedIsFound == SearchSpec => []FoundWhatPassed
<1>1. SearchInv => FoundWhatPassed
  <2> SUFFICES ASSUME SearchInv, mode = "over"
               PROVE  /\ (winner # NoTry) <=> (\E c \in Candidates : <<c, "passed">> \in verdicts)
                      /\ winner # NoTry => <<text[winner], "passed">> \in verdicts
    BY DEF FoundWhatPassed
  <2>1. winner # NoTry => <<text[winner], "passed">> \in verdicts /\ text[winner] \in Candidates
    BY DEF SearchInv, SearchTypeOK, PassedAreTries
  <2>2. ASSUME NEW c \in Candidates, <<c, "passed">> \in verdicts PROVE winner # NoTry
    BY <2>2 DEF SearchInv, PassedAreTries, Running
  <2> QED BY <2>1, <2>2
<1> QED BY <1>1, SearchInvariant, PTL

\* The bigger model is asked only when every try of the smaller one is collected and
\* none has passed (swarm_pipeline_engine.py:279).
THEOREM EscalationIsLast == SearchSpec => EscalatesLast
<1>1. SearchInv /\ [SearchNext]_searchVars =>
        [tier' # tier =>
           /\ \A i \in 0..Tries[tier] - 1 : at[i] = "collected" /\ outcome[i] # "passed"
           /\ \A i \in Slots : at[i] \in {"idle", "collected"}]_searchVars
  <2> SUFFICES ASSUME SearchInv, [SearchNext]_searchVars, tier' # tier
               PROVE  /\ \A i \in 0..Tries[tier] - 1 : at[i] = "collected" /\ outcome[i] # "passed"
                      /\ \A i \in Slots : at[i] \in {"idle", "collected"}
    OBVIOUS
  <2>1. EndSearch
    BY DEF SearchNext, Search, SubmitTry, Collect, Attempt, DrawNothing, Draw, Compare,
           Verify, ThreadKeeps, searchVars
  <2>2. Running = {} /\ begun >= Tries[tier] /\ winner = NoTry
    BY <2>1 DEF EndSearch, SearchIsOver, WinnerKnown
  <2>3. \A i \in Slots : at[i] \in {"idle", "collected"}
    BY <2>2 DEF SearchInv, SearchTypeOK, Running
  <2>4. \A i \in 0..Tries[tier] - 1 : i \in Slots /\ at[i] # "idle"
    <3>1. tier \in 1..Tiers /\ Tries[tier] \in Nat /\ begun \in Nat
      BY SearchAssumption DEF SearchInv, SearchTypeOK
    <3> SUFFICES ASSUME NEW i \in 0..Tries[tier] - 1 PROVE i \in Slots /\ at[i] # "idle"
      OBVIOUS
    <3>2. i \in Nat /\ i < Tries[tier] /\ ~(i >= begun)
      BY <2>2, <3>1
    <3>3. i \in Slots
      BY <3>1, <3>2, SlotFacts
    <3> QED BY <3>2, <3>3 DEF SearchInv, TriesInOrder
  <2> QED BY <2>2, <2>3, <2>4 DEF SearchInv, PassedAreTries
<1> QED BY <1>1, SearchInvariant, PTL DEF SearchSpec, EscalatesLast

\* No try starts once one that passed has been collected (verified_search.py:112).
THEOREM WinnersStopTheSearch == SearchSpec => NothingStartsAfterWinner
<1> DEFINE Start == (\E i \in Slots : at[i] = "idle" /\ at'[i] # "idle") =>
                      ~\E i \in Slots : at[i] = "collected" /\ outcome[i] = "passed"
<1>1. SearchInv /\ [SearchNext]_searchVars => [Start]_searchVars
  <2> SUFFICES ASSUME SearchInv, [SearchNext]_searchVars,
                      NEW i \in Slots, at[i] = "idle", at'[i] # "idle"
               PROVE  winner = NoTry
    BY DEF SearchInv, PassedAreTries
  <2>1. SubmitTry
    BY DEF SearchNext, Search, Collect, Ended, EndSearch, Attempt, DrawNothing, Draw,
           Compare, Verify, Goes, SearchInv, SearchTypeOK, searchVars, try
  <2> QED BY <2>1 DEF SubmitTry, MaySubmit, WinnerKnown
<1> QED BY <1>1, SearchInvariant, PTL DEF SearchSpec, NothingStartsAfterWinner

-------------------------------------------------------------------------------
(* Octopus. *)

Stages1 == {"new", "strategy", "implementation"}
Reports == {"reporting", "returning", "done"}

\* The checks of a mission begin when its text is final, each runs once, and a verdict
\* is that of its check.
BoardOf(m) ==
  /\ current[m] = source[m]
  /\ stage[m] \in Stages1 => future[m]["qa"] = "none" /\ future[m]["security"] = "none"
  /\ tests[m] # "not run" => future[m]["qa"] = "done"
  /\ tests[m] = "passed" => examined[m]["tests"] = source[m] /\ source[m] # "none"
  /\ audit[m] # "not run" => future[m]["security"] = "done"
  /\ audit[m] = "clean" => examined[m]["audit"] = source[m]
  /\ review[m] # "not run" => stage[m] \in Reports \cup {"synthesis", "judging"}
  /\ review[m] = "approved" => examined[m]["review"] = source[m]

BoardInv == \A m \in Missions : BoardOf(m)

\* What is judged and reported is what the board says, then and later.
ReportOf(m) ==
  /\ overall[m] => /\ stage[m] \in Reports \cup {"judging"}
                   /\ source[m] # "none" /\ tests[m] = "passed"
  /\ overall[m] /\ stage[m] \in Reports => audit[m] = "clean" /\ review[m] = "approved"
  /\ result[m].passed => stage[m] \in {"returning", "done"} /\ tests[m] = "passed"
  /\ result[m].clean => stage[m] \in {"returning", "done"} /\ audit[m] = "clean"
  /\ result[m].approved => stage[m] \in {"returning", "done"} /\ review[m] = "approved"
  /\ result[m].success =>
       overall[m] /\ result[m].passed /\ result[m].clean /\ result[m].approved
  /\ result[m].success /\ stage[m] = "done" => result[m].ran /\ result[m].checked

ReportInv == \A m \in Missions : ReportOf(m)

\* The parts of the type invariant.
BoardTypes ==
  /\ stage \in [Missions -> {"new", "strategy", "implementation", "verification",
                             "critique", "synthesis", "judging", "reporting",
                             "returning", "done", "aborted"}]
  /\ source \in [Missions -> Texts] /\ current \in [Missions -> Texts]
  /\ tests \in [Missions -> {"not run", "failed", "passed"}]
  /\ audit \in [Missions -> {"not run", "issues", "clean"}]
  /\ review \in [Missions -> {"not run", "rejected", "approved"}]
  /\ outputs \in [Missions -> [Arms \cup {"coder", "critic"} -> {"none", "success", "failed"}]]
  /\ answer \in [Missions -> [Arms -> {"none", "ok", "failed", "timeout"}]]
  /\ examined \in [Missions -> [Checks -> Texts]]

FutureTypes ==
  future \in [Missions -> [Arms -> {"none", "queued", "running", "done", "raised"}]]

ReportTypes ==
  /\ overall \in [Missions -> BOOLEAN]
  /\ result \in [Missions -> [success: BOOLEAN, clean: BOOLEAN, passed: BOOLEAN,
                              approved: BOOLEAN, ran: BOOLEAN, checked: BOOLEAN]]

QueueInv ==
  /\ queue \in Seq(Missions \X Arms)
  /\ \A m \in Missions, a \in Arms :
       future[m][a] = "queued" <=> \E i \in DOMAIN queue : queue[i] = <<m, a>>
  /\ \A i, j \in DOMAIN queue : queue[i] = queue[j] => i = j

WorkersInv == Cardinality(InWork) <= PoolSize

PoolInv == FutureTypes /\ QueueInv /\ WorkersInv

OctopusInv == BoardTypes /\ PoolInv /\ ReportTypes /\ BoardInv /\ ReportInv

LEMMA OctopusInvTypes == OctopusInv => OctopusTypeOK
BY DEF OctopusInv, BoardTypes, PoolInv, FutureTypes, ReportTypes, QueueInv, WorkersInv,
       OctopusTypeOK

LEMMA InWorkFinite == IsFiniteSet(InWork) /\ Cardinality(InWork) \in Nat
<1>1. IsFiniteSet(Arms)
  <2>1. IsFiniteSet({"planner"}) /\ IsFiniteSet({"architect"}) /\ IsFiniteSet({"security"})
        /\ IsFiniteSet({"qa"}) /\ IsFiniteSet({"sre"})
    BY FS_Singleton
  <2>2. Arms = ((({"planner"} \cup {"architect"}) \cup {"security"}) \cup {"qa"}) \cup {"sre"}
    BY DEF Arms
  <2> QED BY <2>1, <2>2, FS_Union
<1>2. IsFiniteSet(Missions \X Arms)
  BY <1>1, OctopusAssumption, FS_Product
<1>3. InWork \subseteq Missions \X Arms
  BY DEF InWork
<1> QED BY <1>2, <1>3, FS_Subset, FS_CardinalityType

LEMMA QueueFacts ==
  ASSUME QueueInv
  PROVE  /\ Len(queue) \in Nat /\ DOMAIN queue = 1..Len(queue)
         /\ \A m \in Missions, a \in Arms :
              future[m][a] = "queued" <=> \E i \in 1..Len(queue) : queue[i] = <<m, a>>
         /\ \A i, j \in 1..Len(queue) : queue[i] = queue[j] => i = j
<1>1. queue \in Seq(Missions \X Arms)
  BY DEF QueueInv
<1>2. Len(queue) \in Nat /\ DOMAIN queue = 1..Len(queue)
  BY <1>1
<1> DEFINE D == DOMAIN queue
<1>3. /\ \A m \in Missions, a \in Arms :
           future[m][a] = "queued" <=> \E i \in D : queue[i] = <<m, a>>
      /\ \A i, j \in D : queue[i] = queue[j] => i = j
  BY DEF QueueInv
<1> HIDE DEF D
<1>4. D = 1..Len(queue)
  BY <1>2 DEF D
<1> QED BY <1>2, <1>3, <1>4

LEMMA QueueFactsNext ==
  ASSUME NEW n \in Nat, queue' \in Seq(Missions \X Arms), DOMAIN queue' = 1..n,
         \A m \in Missions, a \in Arms :
           future'[m][a] = "queued" <=> \E i \in 1..n : queue'[i] = <<m, a>>,
         \A i, j \in 1..n : queue'[i] = queue'[j] => i = j
  PROVE  QueueInv'
<1> DEFINE D == DOMAIN queue'
<1>1. /\ \A m \in Missions, a \in Arms :
           future'[m][a] = "queued" <=> \E i \in D : queue'[i] = <<m, a>>
      /\ \A i, j \in D : queue'[i] = queue'[j] => i = j
  <2>1. D = 1..n
    OBVIOUS
  <2> HIDE DEF D
  <2> QED BY <2>1
<1> QED BY <1>1 DEF QueueInv

\* What a step leaves alone keeps what is said of it.
LEMMA BoardFrame ==
  ASSUME NEW p \in Missions, BoardOf(p), stage'[p] = stage[p], source'[p] = source[p],
         current'[p] = current[p], tests'[p] = tests[p], audit'[p] = audit[p],
         review'[p] = review[p], future'[p]["qa"] = future[p]["qa"],
         future'[p]["security"] = future[p]["security"],
         \A c \in Checks : examined'[p][c] = examined[p][c]
  PROVE  BoardOf(p)'
<1>1. "tests" \in Checks /\ "audit" \in Checks /\ "review" \in Checks
  BY DEF Checks
<1> QED BY <1>1 DEF BoardOf

LEMMA ReportFrame ==
  ASSUME NEW p \in Missions, ReportOf(p), stage'[p] = stage[p], source'[p] = source[p],
         tests'[p] = tests[p], audit'[p] = audit[p], review'[p] = review[p],
         overall'[p] = overall[p], result'[p] = result[p]
  PROVE  ReportOf(p)'
BY DEF ReportOf

LEMMA OctopusInvInit == OctopusInit => OctopusInv
<1> SUFFICES ASSUME OctopusInit PROVE OctopusInv
  OBVIOUS
<1>1. BoardTypes
  BY DEF OctopusInit, BoardTypes, Per, Texts, Checks
<1>2. FutureTypes /\ (\A m \in Missions, a \in Arms : future[m][a] = "none")
  BY DEF OctopusInit, FutureTypes, Per
<1>3. queue \in Seq(Missions \X Arms) /\ \A i \in DOMAIN queue : FALSE
  <2>1. queue = <<>>
    BY DEF OctopusInit
  <2> QED BY <2>1
<1>4. QueueInv
  BY <1>2, <1>3 DEF QueueInv
<1>5. WorkersInv
  <2>1. InWork = {}
    BY <1>2 DEF InWork
  <2> QED BY <2>1, FS_EmptySet, OctopusAssumption DEF WorkersInv
<1>6. ReportTypes
  BY DEF OctopusInit, ReportTypes, Per
<1>7. BoardInv
  BY <1>2 DEF OctopusInit, BoardInv, BoardOf, Per, Arms
<1>8. ReportInv
  BY DEF OctopusInit, ReportInv, ReportOf, Per
<1> QED BY <1>1, <1>2, <1>4, <1>5, <1>6, <1>7, <1>8 DEF OctopusInv, PoolInv

\* Steps of a mission's thread that leave the pool alone.
LEMMA PoolKept ==
  ASSUME PoolInv, UNCHANGED pool
  PROVE  PoolInv'
<1>1. queue' = queue /\ future' = future
  BY DEF pool
<1>2. InWork' = InWork
  BY <1>1 DEF InWork
<1> QED BY <1>1, <1>2 DEF PoolInv, FutureTypes, QueueInv, WorkersInv

LEMMA BeginInv ==
  ASSUME OctopusInv, NEW m \in Missions, BeginMission(m)
  PROVE  OctopusInv'
<1>1. /\ stage' = [stage EXCEPT ![m] = "strategy"] /\ stage[m] = "new"
      /\ UNCHANGED <<source, current, tests, audit, review, outputs, queue, future,
                     answer, overall, result, examined>>
      /\ UNCHANGED pool
  BY DEF BeginMission, Stages, board, pool
<1>2. BoardTypes'
  BY <1>1 DEF OctopusInv, BoardTypes
<1>6. \A p \in Missions : stage'[p] = IF p = m THEN "strategy" ELSE stage[p]
  BY <1>1 DEF OctopusInv, BoardTypes
<1>3. ASSUME NEW p \in Missions PROVE BoardOf(p)'
  <2>1. BoardOf(p)
    BY DEF OctopusInv, BoardInv
  <2>2. CASE p # m
    BY <1>1, <1>6, <2>1, <2>2, BoardFrame
  <2>3. CASE p = m
    BY <1>1, <1>6, <2>1, <2>3 DEF BoardOf, Stages1, Reports
  <2> QED BY <2>2, <2>3
<1>4. ASSUME NEW p \in Missions PROVE ReportOf(p)'
  <2>1. ReportOf(p)
    BY DEF OctopusInv, ReportInv
  <2>2. CASE p # m
    BY <1>1, <1>6, <2>1, <2>2, ReportFrame
  <2>3. CASE p = m
    BY <1>1, <1>6, <2>1, <2>3 DEF ReportOf, Reports
  <2> QED BY <2>2, <2>3
<1>5. ReportTypes'
  BY <1>1 DEF OctopusInv, ReportTypes
<1> QED BY <1>1, <1>2, <1>3, <1>4, <1>5, PoolKept DEF OctopusInv, BoardInv, ReportInv

LEMMA SubmitArmInv ==
  ASSUME OctopusInv, NEW m \in Missions, NEW a \in Arms, Submit(m, a)
  PROVE  OctopusInv'
<1> DEFINE n == Len(queue)
<1>1. /\ queue' = Append(queue, <<m, a>>) /\ future[m][a] = "none"
      /\ future' = [future EXCEPT ![m][a] = "queued"] /\ a \in Batch(m)
      /\ UNCHANGED <<stage, source, current, tests, audit, review, outputs, answer,
                     overall, result, examined>>
  BY DEF Submit, board
<1>2. queue \in Seq(Missions \X Arms) /\ n \in Nat
  BY DEF OctopusInv, PoolInv, QueueInv
<1>3. /\ queue' \in Seq(Missions \X Arms) /\ DOMAIN queue' = 1..n + 1
      /\ DOMAIN queue = 1..n
      /\ queue'[n + 1] = <<m, a>> /\ \A i \in 1..n : queue'[i] = queue[i]
  <2>1. <<m, a>> \in Missions \X Arms
    OBVIOUS
  <2> QED BY <1>1, <1>2, <2>1
<1> HIDE DEF n
<1>4. \A p \in Missions, b \in Arms :
        future[p][b] = "queued" <=> \E i \in 1..n : queue[i] = <<p, b>>
  BY QueueFacts DEF OctopusInv, PoolInv, n
<1>5. \A i, j \in 1..n : queue[i] = queue[j] => i = j
  BY QueueFacts DEF OctopusInv, PoolInv, n
<1>6. \A i \in 1..n : queue[i] # <<m, a>>
  BY <1>1, <1>4
<1>7. \A i, j \in 1..n + 1 : queue'[i] = queue'[j] => i = j
  <2>1. \A i \in 1..n + 1 : i \in 1..n \/ i = n + 1
    BY <1>2
  <2> QED BY <1>3, <1>5, <1>6, <2>1
<1>8. /\ FutureTypes'
      /\ \A p \in Missions, b \in Arms :
           future'[p][b] = IF p = m /\ b = a THEN "queued" ELSE future[p][b]
  BY <1>1 DEF OctopusInv, PoolInv, FutureTypes
<1>9. \A p \in Missions, b \in Arms :
        future'[p][b] = "queued" <=> \E i \in 1..n + 1 : queue'[i] = <<p, b>>
  <2> SUFFICES ASSUME NEW p \in Missions, NEW b \in Arms
               PROVE  future'[p][b] = "queued" <=> \E i \in 1..n + 1 : queue'[i] = <<p, b>>
    OBVIOUS
  <2>1. CASE p = m /\ b = a
    BY <1>2, <1>3, <1>8, <2>1
  <2>2. CASE ~(p = m /\ b = a)
    <3>1. \A i \in 1..n + 1 : queue'[i] = <<p, b>> => i \in 1..n /\ queue[i] = <<p, b>>
      <4>1. \A i \in 1..n + 1 : i \in 1..n \/ i = n + 1
        BY <1>2
      <4> QED BY <1>3, <2>2, <4>1
    <3>2. \A i \in 1..n : i \in 1..n + 1
      BY <1>2
    <3>3. (\E i \in 1..n : queue[i] = <<p, b>>) <=> \E i \in 1..n + 1 : queue'[i] = <<p, b>>
      BY <1>3, <3>1, <3>2
    <3>4. future'[p][b] = future[p][b]
      BY <1>8, <2>2
    <3> QED BY <1>4, <3>3, <3>4
  <2> QED BY <2>1, <2>2
<1>10. WorkersInv'
  <2>1. InWork' = InWork
    BY <1>1, <1>8 DEF InWork
  <2> QED BY <2>1 DEF OctopusInv, PoolInv, WorkersInv
<1>11. PoolInv'
  <2>1. n + 1 \in Nat
    BY <1>2
  <2> QED BY <1>3, <1>7, <1>8, <1>9, <1>10, <2>1, QueueFactsNext DEF PoolInv
<1>12. BoardTypes'
  BY <1>1 DEF OctopusInv, BoardTypes
<1>13. ASSUME NEW p \in Missions PROVE BoardOf(p)'
  <2>1. a \in {"security", "qa"} => stage[m] = "verification"
    BY <1>1 DEF Batch
  <2>2. BoardOf(p) /\ "qa" \in Arms /\ "security" \in Arms
    BY DEF OctopusInv, BoardInv, Arms
  <2>3. CASE p # m \/ a \notin {"security", "qa"}
    <3>1. future'[p]["qa"] = future[p]["qa"] /\ future'[p]["security"] = future[p]["security"]
      BY <1>8, <2>2, <2>3
    <3> QED BY <1>1, <2>2, <3>1, BoardFrame
  <2>4. CASE p = m /\ a \in {"security", "qa"}
    <3>1. stage'[m] = "verification" /\ future[m][a] = "none"
      BY <1>1, <2>1, <2>4
    <3>2. \A b \in {"qa", "security"} : b # a => future'[m][b] = future[m][b]
      BY <1>8, <2>2
    <3> QED BY <1>1, <2>2, <2>4, <3>1, <3>2 DEF BoardOf, Stages1
  <2> QED BY <2>3, <2>4
<1>14. ASSUME NEW p \in Missions PROVE ReportOf(p)'
  BY <1>1 DEF OctopusInv, ReportInv, ReportOf
<1>15. ReportTypes'
  BY <1>1 DEF OctopusInv, ReportTypes
<1> QED BY <1>11, <1>12, <1>13, <1>14, <1>15 DEF OctopusInv, BoardInv, ReportInv

LEMMA AwaitInv ==
  ASSUME OctopusInv, NEW m \in Missions, NEW a \in Arms, Await(m, a)
  PROVE  OctopusInv'
<1>1. Reply(future[m][a]) \in {"ok", "failed", "timeout"}
  BY DEF Reply
<1>2. /\ UNCHANGED <<stage, source, current, tests, audit, review, outputs, queue, future,
                     overall, result, examined>>
      /\ UNCHANGED pool
      /\ answer' = [answer EXCEPT ![m][a] = Reply(future[m][a])]
  BY DEF Await, board, pool
<1>3. BoardTypes'
  BY <1>1, <1>2 DEF OctopusInv, BoardTypes
<1>4. ASSUME NEW p \in Missions PROVE BoardOf(p)' /\ ReportOf(p)'
  BY <1>2 DEF OctopusInv, BoardInv, BoardOf, ReportInv, ReportOf
<1>5. ReportTypes'
  BY <1>2 DEF OctopusInv, ReportTypes
<1> QED BY <1>2, <1>3, <1>4, <1>5, PoolKept DEF OctopusInv, BoardInv, ReportInv

LEMMA RecordInv ==
  ASSUME OctopusInv, NEW m \in Missions, RecordBatch(m)
  PROVE  OctopusInv'
<1>1. /\ UNCHANGED <<source, current, tests, audit, review, queue, future, answer,
                     overall, result, examined>>
      /\ UNCHANGED pool
      /\ stage[m] \in {"strategy", "verification"}
  BY DEF RecordBatch, board, pool, Batch
<1>2. PICK to \in {"aborted", "implementation", "critique"} :
        stage' = [stage EXCEPT ![m] = to]
  BY DEF RecordBatch
<1>3. BoardTypes'
  <2>1. outputs' \in [Missions -> [Arms \cup {"coder", "critic"} -> {"none", "success", "failed"}]]
    <3>1. outputs \in [Missions -> [Arms \cup {"coder", "critic"} -> {"none", "success", "failed"}]]
      BY DEF OctopusInv, BoardTypes
    <3> DEFINE new == [a \in DOMAIN outputs[m] |->
                         IF a \notin Batch(m) THEN outputs[m][a]
                         ELSE IF answer[m][a] = "ok" THEN "success" ELSE "failed"]
    <3>2. new \in [Arms \cup {"coder", "critic"} -> {"none", "success", "failed"}]
      BY <3>1
    <3>3. outputs' = [outputs EXCEPT ![m] = new]
      BY DEF RecordBatch
    <3> HIDE DEF new
    <3> QED BY <3>1, <3>2, <3>3
  <2>2. to = "implementation" => stage[m] = "strategy"
    BY <1>1, <1>2 DEF RecordBatch, OctopusInv, BoardTypes
  <2> QED BY <1>1, <1>2, <2>1 DEF OctopusInv, BoardTypes
<1>4. to = "implementation" => stage[m] = "strategy"
  BY <1>1, <1>2 DEF RecordBatch, OctopusInv, BoardTypes
<1>8. \A p \in Missions : stage'[p] = IF p = m THEN to ELSE stage[p]
  BY <1>2 DEF OctopusInv, BoardTypes
<1>5. ASSUME NEW p \in Missions PROVE BoardOf(p)'
  <2>1. BoardOf(p)
    BY DEF OctopusInv, BoardInv
  <2>2. CASE p # m
    BY <1>1, <1>8, <2>1, <2>2, BoardFrame
  <2>3. CASE p = m
    BY <1>1, <1>2, <1>4, <1>8, <2>1, <2>3 DEF BoardOf, Stages1, Reports
  <2> QED BY <2>2, <2>3
<1>6. ASSUME NEW p \in Missions PROVE ReportOf(p)'
  <2>1. ReportOf(p)
    BY DEF OctopusInv, ReportInv
  <2>2. CASE p # m
    BY <1>1, <1>8, <2>1, <2>2, ReportFrame
  <2>3. CASE p = m
    BY <1>1, <1>8, <2>1, <2>3 DEF ReportOf, Reports
  <2> QED BY <2>2, <2>3
<1>7. ReportTypes'
  BY <1>1 DEF OctopusInv, ReportTypes
<1> QED BY <1>1, <1>3, <1>5, <1>6, <1>7, PoolKept DEF OctopusInv, BoardInv, ReportInv

LEMMA OutputTyped ==
  ASSUME outputs \in [Missions -> [Arms \cup {"coder", "critic"} -> {"none", "success", "failed"}]],
         NEW m \in Missions, NEW a \in {"coder", "critic"}, NEW s \in {"success", "failed"}
  PROVE  [outputs EXCEPT ![m][a] = s]
           \in [Missions -> [Arms \cup {"coder", "critic"} -> {"none", "success", "failed"}]]
<1>1. [outputs[m] EXCEPT ![a] = s] \in [Arms \cup {"coder", "critic"} -> {"none", "success", "failed"}]
  OBVIOUS
<1> QED BY <1>1

\* A check notes the text it looks at.
LEMMA ExaminesTyped ==
  ASSUME examined \in [Missions -> [Checks -> Texts]], NEW m \in Missions, NEW c \in Checks,
         NEW s \in Texts, examined' = [examined EXCEPT ![m][c] = s]
  PROVE  /\ examined' \in [Missions -> [Checks -> Texts]]
         /\ \A p \in Missions, k \in Checks :
              examined'[p][k] = IF p = m /\ k = c THEN s ELSE examined[p][k]
<1>1. [examined[m] EXCEPT ![c] = s] \in [Checks -> Texts]
  OBVIOUS
<1>2. examined' = [examined EXCEPT ![m] = [examined[m] EXCEPT ![c] = s]]
  OBVIOUS
<1> QED BY <1>1, <1>2

LEMMA ImplementInv ==
  ASSUME OctopusInv, NEW m \in Missions, Implement(m)
  PROVE  OctopusInv'
<1>1. /\ UNCHANGED <<tests, audit, review, queue, future, answer, overall, result, examined>>
      /\ UNCHANGED pool
      /\ stage[m] = "implementation" /\ stage' = [stage EXCEPT ![m] = "verification"]
      /\ source' = [source EXCEPT ![m] = "draft"] \/ source' = source
      /\ current' = [current EXCEPT ![m] = source'[m]]
  BY DEF Implement, Stages, pool
<1>2. BoardTypes'
  <2>1. outputs' \in [Missions -> [Arms \cup {"coder", "critic"} -> {"none", "success", "failed"}]]
    <3>1. PICK s \in {"success", "failed"} : outputs' = [outputs EXCEPT ![m]["coder"] = s]
      BY DEF Implement, Outputs
    <3> QED BY <3>1, OutputTyped DEF OctopusInv, BoardTypes
  <2>2. source' \in [Missions -> Texts]
    BY <1>1 DEF OctopusInv, BoardTypes, Texts
  <2>3. current' \in [Missions -> Texts]
    BY <1>1, <2>2 DEF OctopusInv, BoardTypes
  <2> QED BY <1>1, <2>1, <2>2, <2>3 DEF OctopusInv, BoardTypes
<1>3. tests[m] = "not run" /\ audit[m] = "not run" /\ review[m] = "not run"
  BY <1>1 DEF OctopusInv, BoardTypes, BoardInv, BoardOf, Stages1, Reports
<1>4. ASSUME NEW p \in Missions PROVE BoardOf(p)'
  <2>1. p # m => source'[p] = source[p] /\ current'[p] = current[p] /\ stage'[p] = stage[p]
    BY <1>1 DEF OctopusInv, BoardTypes
  <2>2. current'[m] = source'[m] /\ stage'[m] = "verification"
    BY <1>1 DEF OctopusInv, BoardTypes
  <2>3. CASE p # m
    BY <1>1, <2>1, <2>3, BoardFrame DEF OctopusInv, BoardInv
  <2>4. CASE p = m
    BY <1>1, <1>3, <2>2, <2>4 DEF BoardOf, Stages1
  <2> QED BY <2>3, <2>4
<1>5. ASSUME NEW p \in Missions PROVE ReportOf(p)'
  <2>1. p # m => source'[p] = source[p] /\ stage'[p] = stage[p]
    BY <1>1 DEF OctopusInv, BoardTypes
  <2> QED BY <1>1, <1>3, <2>1 DEF OctopusInv, ReportInv, ReportOf, Reports
<1>6. ReportTypes'
  BY <1>1 DEF OctopusInv, ReportTypes
<1> QED BY <1>1, <1>2, <1>4, <1>5, <1>6, PoolKept DEF OctopusInv, BoardInv, ReportInv

LEMMA CritiqueInv ==
  ASSUME OctopusInv, NEW m \in Missions, Critique(m)
  PROVE  OctopusInv'
<1>1. /\ UNCHANGED <<source, current, tests, audit, queue, future, answer, overall, result>>
      /\ UNCHANGED pool
      /\ stage[m] = "critique" /\ stage' = [stage EXCEPT ![m] = "synthesis"]
  BY DEF Critique, Stages, pool
<1>2. \/ UNCHANGED <<review, examined>>
      \/ \E v \in {"rejected", "approved"} :
           /\ review' = [review EXCEPT ![m] = v]
           /\ examined' = [examined EXCEPT ![m]["review"] = source[m]]
  BY DEF Critique, Examines
<1>3. BoardTypes'
  <2>1. outputs' \in [Missions -> [Arms \cup {"coder", "critic"} -> {"none", "success", "failed"}]]
    <3>1. PICK s \in {"success", "failed"} : outputs' = [outputs EXCEPT ![m]["critic"] = s]
      BY DEF Critique, Outputs
    <3> QED BY <3>1, OutputTyped DEF OctopusInv, BoardTypes
  <2>2. review' \in [Missions -> {"not run", "rejected", "approved"}]
    BY <1>2 DEF OctopusInv, BoardTypes
  <2>3. examined' \in [Missions -> [Checks -> Texts]]
    BY <1>2, ExaminesTyped DEF OctopusInv, BoardTypes, Checks
  <2> QED BY <1>1, <2>1, <2>2, <2>3 DEF OctopusInv, BoardTypes
<1>4. review[m] = "not run"
  BY <1>1 DEF OctopusInv, BoardTypes, BoardInv, BoardOf, Reports
<1>5. /\ \A p \in Missions, c \in Checks :
           p # m \/ c # "review" => examined'[p][c] = examined[p][c]
      /\ \A p \in Missions : p # m => review'[p] = review[p]
      /\ review'[m] = "approved" => examined'[m]["review"] = source[m]
  <2>1. CASE UNCHANGED <<review, examined>>
    BY <1>4, <2>1
  <2>2. ASSUME NEW v \in {"rejected", "approved"},
               review' = [review EXCEPT ![m] = v],
               examined' = [examined EXCEPT ![m]["review"] = source[m]]
        PROVE  /\ \A p \in Missions, c \in Checks :
                    p # m \/ c # "review" => examined'[p][c] = examined[p][c]
               /\ \A p \in Missions : p # m => review'[p] = review[p]
               /\ review'[m] = "approved" => examined'[m]["review"] = source[m]
    <3>1. /\ examined \in [Missions -> [Checks -> Texts]] /\ source[m] \in Texts
          /\ "review" \in Checks /\ review \in [Missions -> {"not run", "rejected", "approved"}]
      BY DEF OctopusInv, BoardTypes, Checks
    <3>2. \A p \in Missions, c \in Checks :
            examined'[p][c] = IF p = m /\ c = "review" THEN source[m] ELSE examined[p][c]
      BY <2>2, <3>1, ExaminesTyped
    <3>3. \A p \in Missions : review'[p] = IF p = m THEN v ELSE review[p]
      BY <2>2, <3>1
    <3> QED BY <3>1, <3>2, <3>3
  <2> QED BY <1>2, <2>1, <2>2
<1>6. \A p \in Missions : stage'[p] = IF p = m THEN "synthesis" ELSE stage[p]
  BY <1>1 DEF OctopusInv, BoardTypes
<1>7. ASSUME NEW p \in Missions PROVE BoardOf(p)'
  <2>1. CASE p # m
    BY <1>1, <1>5, <1>6, <2>1, BoardFrame DEF OctopusInv, BoardInv
  <2>2. CASE p = m
    <3>1. /\ examined'[m]["tests"] = examined[m]["tests"]
          /\ examined'[m]["audit"] = examined[m]["audit"]
      BY <1>5 DEF Checks
    <3>2. BoardOf(m) /\ stage'[m] = "synthesis"
      BY <1>6 DEF OctopusInv, BoardInv
    <3> QED BY <1>1, <1>5, <2>2, <3>1, <3>2 DEF BoardOf, Stages1
  <2> QED BY <2>1, <2>2
<1>8. ASSUME NEW p \in Missions PROVE ReportOf(p)'
  <2>1. CASE p # m
    BY <1>1, <1>5, <1>6, <2>1, ReportFrame DEF OctopusInv, ReportInv
  <2>2. CASE p = m
    BY <1>1, <1>6, <2>2 DEF OctopusInv, ReportInv, ReportOf, Reports
  <2> QED BY <2>1, <2>2
<1>9. ReportTypes'
  BY <1>1 DEF OctopusInv, ReportTypes
<1> QED BY <1>1, <1>3, <1>7, <1>8, <1>9, PoolKept DEF OctopusInv, BoardInv, ReportInv

LEMMA JudgeInv ==
  ASSUME OctopusInv, NEW m \in Missions, JudgeTests(m) \/ JudgeRest(m)
  PROVE  OctopusInv'
<1>1. /\ UNCHANGED <<source, current, tests, audit, review, outputs, queue, future, answer,
                     result, examined>>
      /\ UNCHANGED pool
  BY DEF JudgeTests, JudgeRest, board, pool
<1>2. PICK to \in {"judging", "reporting"} :
        /\ stage' = [stage EXCEPT ![m] = to]
        /\ \A p \in Missions : stage'[p] = IF p = m THEN to ELSE stage[p]
        /\ stage[m] = IF to = "judging" THEN "synthesis" ELSE "judging"
  BY DEF JudgeTests, JudgeRest, Stages, OctopusInv, BoardTypes
<1>3. BoardTypes'
  BY <1>1, <1>2 DEF OctopusInv, BoardTypes
<1>4. ASSUME NEW p \in Missions PROVE BoardOf(p)'
  <2>1. CASE p # m
    BY <1>1, <1>2, <2>1, BoardFrame DEF OctopusInv, BoardInv
  <2>2. CASE p = m
    BY <1>1, <1>2, <2>2 DEF OctopusInv, BoardInv, BoardOf, Stages1, Reports
  <2> QED BY <2>1, <2>2
<1>5. /\ overall' \in [Missions -> BOOLEAN]
      /\ \A p \in Missions : p # m => overall'[p] = overall[p]
      /\ overall'[m] => source[m] # "none" /\ tests[m] = "passed"
      /\ to = "reporting" /\ overall'[m] => audit[m] = "clean" /\ review[m] = "approved"
  <2>1. CASE JudgeTests(m)
    <3>1. overall' = [overall EXCEPT ![m] = source[m] # "none" /\ tests[m] = "passed"]
          /\ to # "reporting"
      BY <1>2, <2>1 DEF JudgeTests, Stages
    <3> QED BY <3>1 DEF OctopusInv, ReportTypes
  <2>2. CASE JudgeRest(m)
    <3>1. overall' = [overall EXCEPT ![m] =
                        overall[m] /\ audit[m] = "clean" /\ review[m] = "approved"]
      BY <2>2 DEF JudgeRest
    <3> QED BY <3>1 DEF OctopusInv, ReportTypes, ReportInv, ReportOf
  <2> QED BY <2>1, <2>2
<1>6. ~ result[m].passed /\ ~ result[m].clean /\ ~ result[m].approved /\ ~ result[m].success
  BY <1>2 DEF OctopusInv, ReportInv, ReportOf
<1>7. ASSUME NEW p \in Missions PROVE ReportOf(p)'
  BY <1>1, <1>2, <1>5, <1>6 DEF OctopusInv, ReportInv, Reports, ReportOf
<1>8. ReportTypes'
  BY <1>1, <1>5 DEF OctopusInv, ReportTypes
<1> QED BY <1>1, <1>3, <1>4, <1>7, <1>8, PoolKept DEF OctopusInv, BoardInv, ReportInv

LEMMA ReportsInv ==
  ASSUME OctopusInv, NEW m \in Missions, ReportVerdicts(m) \/ ReportRan(m)
  PROVE  OctopusInv'
<1>1. /\ UNCHANGED <<source, current, tests, audit, review, outputs, queue, future, answer,
                     overall, examined>>
      /\ UNCHANGED pool
  BY DEF ReportVerdicts, ReportRan, board, pool
<1>2. PICK to \in {"returning", "done"} :
        /\ stage' = [stage EXCEPT ![m] = to]
        /\ \A p \in Missions : stage'[p] = IF p = m THEN to ELSE stage[p]
        /\ stage[m] = IF to = "returning" THEN "reporting" ELSE "returning"
  BY DEF ReportVerdicts, ReportRan, Stages, OctopusInv, BoardTypes
<1>3. BoardTypes'
  BY <1>1, <1>2 DEF OctopusInv, BoardTypes
<1>4. ASSUME NEW p \in Missions PROVE BoardOf(p)'
  <2>1. CASE p # m
    BY <1>1, <1>2, <2>1, BoardFrame DEF OctopusInv, BoardInv
  <2>2. CASE p = m
    BY <1>1, <1>2, <2>2 DEF OctopusInv, BoardInv, BoardOf, Stages1, Reports
  <2> QED BY <2>1, <2>2
<1>5. CASE ReportVerdicts(m)
  <2>1. /\ to = "returning"
        /\ result' = [result EXCEPT ![m] =
             [success |-> overall[m], clean |-> audit[m] = "clean",
              passed |-> tests[m] = "passed", approved |-> review[m] = "approved",
              ran |-> result[m].ran, checked |-> result[m].checked]]
    BY <1>2, <1>5 DEF ReportVerdicts, Stages
  <2>2. ReportTypes'
    BY <1>1, <2>1 DEF OctopusInv, ReportTypes
  <2>3. /\ result'[m].success <=> overall[m]
        /\ result'[m].clean <=> audit[m] = "clean"
        /\ result'[m].passed <=> tests[m] = "passed"
        /\ result'[m].approved <=> review[m] = "approved"
        /\ \A p \in Missions : p # m => result'[p] = result[p]
    BY <2>1 DEF OctopusInv, ReportTypes
  <2>4. ASSUME NEW p \in Missions PROVE ReportOf(p)'
    <3>1. CASE p # m
      BY <1>1, <1>2, <2>3, <3>1, ReportFrame DEF OctopusInv, ReportInv
    <3>2. CASE p = m
      <4>1. ReportOf(m) /\ stage'[m] = to /\ to \in Reports /\ stage[m] \in Reports
        BY <1>2, <2>1 DEF OctopusInv, ReportInv, Reports
      <4> QED BY <1>1, <1>2, <2>1, <2>3, <3>2, <4>1 DEF ReportOf
    <3> QED BY <3>1, <3>2
  <2> QED BY <1>1, <1>3, <1>4, <2>2, <2>4, PoolKept DEF OctopusInv, BoardInv, ReportInv
<1>6. CASE ReportRan(m)
  <2>1. /\ to = "done"
        /\ result' = [result EXCEPT ![m] =
             [success |-> result[m].success, clean |-> result[m].clean,
              passed |-> result[m].passed, approved |-> result[m].approved,
              ran |-> tests[m] # "not run", checked |-> audit[m] # "not run"]]
    BY <1>2, <1>6 DEF ReportRan, Stages
  <2>2. ReportTypes'
    BY <1>1, <2>1 DEF OctopusInv, ReportTypes
  <2>3. /\ result'[m].success <=> result[m].success
        /\ result'[m].clean <=> result[m].clean
        /\ result'[m].passed <=> result[m].passed
        /\ result'[m].approved <=> result[m].approved
        /\ result'[m].ran <=> tests[m] # "not run"
        /\ result'[m].checked <=> audit[m] # "not run"
        /\ \A p \in Missions : p # m => result'[p] = result[p]
    BY <2>1 DEF OctopusInv, ReportTypes
  <2>4. ASSUME NEW p \in Missions PROVE ReportOf(p)'
    <3>1. CASE p # m
      BY <1>1, <1>2, <2>3, <3>1, ReportFrame DEF OctopusInv, ReportInv
    <3>2. CASE p = m
      <4>1. /\ ReportOf(m) /\ stage'[m] = "done" /\ "done" \in Reports
            /\ stage[m] = "returning" /\ stage[m] \in Reports
        BY <1>2, <2>1 DEF OctopusInv, ReportInv, Reports
      <4>2. /\ tests'[m] = tests[m] /\ audit'[m] = audit[m] /\ review'[m] = review[m]
            /\ overall'[m] = overall[m] /\ source'[m] = source[m]
        BY <1>1
      <4>3. result'[m].success => result'[m].ran /\ result'[m].checked
        BY <2>3, <4>1 DEF ReportOf
      <4> QED BY <2>3, <3>2, <4>1, <4>2, <4>3 DEF ReportOf
    <3> QED BY <3>1, <3>2
  <2> QED BY <1>1, <1>3, <1>4, <2>2, <2>4, PoolKept DEF OctopusInv, BoardInv, ReportInv
<1> QED BY <1>5, <1>6

LEMMA StartArmInv == OctopusInv /\ StartArm => OctopusInv'
<1> SUFFICES ASSUME OctopusInv, StartArm PROVE OctopusInv'
  OBVIOUS
<1> DEFINE n == Len(queue)
<1>1. queue \in Seq(Missions \X Arms) /\ queue # <<>> /\ n \in Nat \ {0}
  <2>1. queue \in Seq(Missions \X Arms) /\ queue # <<>>
    BY DEF OctopusInv, PoolInv, QueueInv, StartArm
  <2> QED BY <2>1
<1>2. PICK m \in Missions, a \in Arms : Head(queue) = <<m, a>>
  <2>1. Head(queue) \in Missions \X Arms
    BY <1>1
  <2> QED BY <2>1
<1>3. /\ future' = [future EXCEPT ![m][a] = "running"] /\ queue' = Tail(queue)
      /\ Cardinality(InWork) < PoolSize
      /\ UNCHANGED <<stage, source, current, tests, audit, review, outputs, answer,
                     overall, result, examined>>
  <2>1. Head(queue)[1] = m /\ Head(queue)[2] = a
    BY <1>2
  <2> QED BY <2>1 DEF StartArm, board
<1>4. /\ queue' \in Seq(Missions \X Arms) /\ DOMAIN queue' = 1..n - 1 /\ DOMAIN queue = 1..n
      /\ \A i \in 1..n - 1 : queue'[i] = queue[i + 1]
      /\ queue[1] = <<m, a>>
  BY <1>1, <1>2, <1>3
<1> HIDE DEF n
<1>5. \A i, j \in 1..n : queue[i] = queue[j] => i = j
  BY QueueFacts DEF OctopusInv, PoolInv, n
<1>6. \A p \in Missions, b \in Arms :
        future[p][b] = "queued" <=> \E i \in 1..n : queue[i] = <<p, b>>
  BY QueueFacts DEF OctopusInv, PoolInv, n
<1>7. /\ FutureTypes'
      /\ \A p \in Missions, b \in Arms :
           future'[p][b] = IF p = m /\ b = a THEN "running" ELSE future[p][b]
  BY <1>3 DEF OctopusInv, PoolInv, FutureTypes
<1>8. future[m][a] = "queued"
  BY <1>1, <1>4, <1>6
<1>9. \A i, j \in 1..n - 1 : queue'[i] = queue'[j] => i = j
  <2>1. \A i \in 1..n - 1 : i + 1 \in 1..n /\ i \in Int
    BY <1>1
  <2> QED BY <1>4, <1>5, <2>1
<1>10. \A p \in Missions, b \in Arms :
         future'[p][b] = "queued" <=> \E i \in 1..n - 1 : queue'[i] = <<p, b>>
  <2> SUFFICES ASSUME NEW p \in Missions, NEW b \in Arms
               PROVE  future'[p][b] = "queued" <=> \E i \in 1..n - 1 : queue'[i] = <<p, b>>
    OBVIOUS
  <2>1. CASE p = m /\ b = a
    <3>1. \A i \in 1..n - 1 : queue'[i] # <<m, a>>
      <4>1. \A i \in 1..n - 1 : i + 1 \in 1..n /\ 1 \in 1..n /\ i + 1 # 1
        BY <1>1
      <4> QED BY <1>4, <1>5, <4>1
    <3> QED BY <1>7, <2>1, <3>1
  <2>2. CASE ~(p = m /\ b = a)
    <3>1. \A i \in 1..n : queue[i] = <<p, b>> => i - 1 \in 1..n - 1 /\ queue'[i - 1] = <<p, b>>
      <4>1. <<p, b>> # <<m, a>>
        BY <2>2
      <4>2. \A i \in 1..n : i # 1 => i - 1 \in 1..n - 1 /\ (i - 1) + 1 = i
        BY <1>1
      <4> QED BY <1>4, <4>1, <4>2
    <3>2. \A i \in 1..n - 1 : queue'[i] = <<p, b>> => i + 1 \in 1..n /\ queue[i + 1] = <<p, b>>
      BY <1>1, <1>4
    <3>3. (\E i \in 1..n : queue[i] = <<p, b>>) <=> \E i \in 1..n - 1 : queue'[i] = <<p, b>>
      <4>1. ASSUME NEW i \in 1..n, queue[i] = <<p, b>>
            PROVE  \E j \in 1..n - 1 : queue'[j] = <<p, b>>
        BY <3>1, <4>1
      <4>2. ASSUME NEW i \in 1..n - 1, queue'[i] = <<p, b>>
            PROVE  \E j \in 1..n : queue[j] = <<p, b>>
        BY <3>2, <4>2
      <4> QED BY <4>1, <4>2
    <3>4. future'[p][b] = future[p][b]
      BY <1>7, <2>2
    <3> QED BY <1>6, <3>3, <3>4
  <2> QED BY <2>1, <2>2
<1>11. InWork' = InWork \cup {<<m, a>>}
  <2>1. \A t \in Missions \X Arms : t = <<t[1], t[2]>> /\ t[1] \in Missions /\ t[2] \in Arms
    OBVIOUS
  <2> QED BY <1>7, <2>1 DEF InWork
<1>12. WorkersInv'
  <2>1. Cardinality(InWork \cup {<<m, a>>}) \in {Cardinality(InWork), Cardinality(InWork) + 1}
    BY InWorkFinite, FS_AddElement
  <2>2. Cardinality(InWork) \in Nat /\ PoolSize \in Nat
    BY InWorkFinite, OctopusAssumption
  <2> QED BY <1>3, <1>11, <2>1, <2>2 DEF WorkersInv
<1>13. PoolInv'
  <2>1. n - 1 \in Nat
    BY <1>1
  <2> QED BY <1>4, <1>7, <1>9, <1>10, <1>12, <2>1, QueueFactsNext DEF PoolInv
<1>14. BoardTypes'
  BY <1>3 DEF OctopusInv, BoardTypes
<1>15. ASSUME NEW p \in Missions PROVE BoardOf(p)'
  <2>1. BoardOf(p) /\ "qa" \in Arms /\ "security" \in Arms
    BY DEF OctopusInv, BoardInv, Arms
  <2>2. CASE p # m \/ a \notin {"security", "qa"}
    <3>1. future'[p]["qa"] = future[p]["qa"] /\ future'[p]["security"] = future[p]["security"]
      BY <1>7, <2>1, <2>2
    <3> QED BY <1>3, <2>1, <3>1, BoardFrame
  <2>3. CASE p = m /\ a \in {"security", "qa"}
    <3>1. \A b \in {"qa", "security"} : b # a => future'[m][b] = future[m][b]
      BY <1>7, <2>1
    <3> QED BY <1>3, <1>8, <2>1, <2>3, <3>1 DEF BoardOf
  <2> QED BY <2>2, <2>3
<1>16. (\A p \in Missions : ReportOf(p)') /\ ReportTypes'
  BY <1>3 DEF OctopusInv, ReportInv, ReportOf, ReportTypes
<1> QED BY <1>13, <1>14, <1>15, <1>16 DEF OctopusInv, BoardInv, ReportInv

\* An arm that ends frees its worker.
LEMMA EndsPool ==
  ASSUME PoolInv, NEW m \in Missions, NEW a \in Arms, NEW how \in {"done", "raised"},
         Ends(m, a, how)
  PROVE  /\ PoolInv'
         /\ future[m][a] = "running"
         /\ \A p \in Missions, b \in Arms :
              future'[p][b] = IF p = m /\ b = a THEN how ELSE future[p][b]
<1>1. /\ future[m][a] = "running" /\ queue' = queue
      /\ future' = [future EXCEPT ![m][a] = how]
  BY DEF Ends
<1>2. /\ FutureTypes'
      /\ \A p \in Missions, b \in Arms :
           future'[p][b] = IF p = m /\ b = a THEN how ELSE future[p][b]
  BY <1>1 DEF PoolInv, FutureTypes
<1>3. QueueInv'
  <2>1. \A p \in Missions, b \in Arms : future'[p][b] = "queued" <=> future[p][b] = "queued"
    BY <1>1, <1>2
  <2> QED BY <1>1, <2>1 DEF PoolInv, QueueInv
<1>4. InWork' = InWork \ {<<m, a>>}
  <2>1. \A t \in Missions \X Arms : t = <<t[1], t[2]>> /\ t[1] \in Missions /\ t[2] \in Arms
    OBVIOUS
  <2> QED BY <1>1, <1>2, <2>1 DEF InWork
<1>5. WorkersInv'
  <2>1. Cardinality(InWork \ {<<m, a>>}) \in {Cardinality(InWork), Cardinality(InWork) - 1}
    BY InWorkFinite, FS_RemoveElement
  <2>2. Cardinality(InWork) \in Nat /\ PoolSize \in Nat /\ Cardinality(InWork) <= PoolSize
    BY InWorkFinite, OctopusAssumption DEF PoolInv, WorkersInv
  <2> QED BY <1>4, <2>1, <2>2 DEF WorkersInv
<1> QED BY <1>1, <1>2, <1>3, <1>5 DEF PoolInv

LEMMA ArmRaisesInv ==
  ASSUME OctopusInv, NEW m \in Missions, NEW a \in Arms, ArmRaises(m, a) \/ RunOther(m, a)
  PROVE  OctopusInv'
<1>1. PICK how \in {"done", "raised"} :
        Ends(m, a, how) /\ (how = "done" => a \in {"planner", "architect", "sre"})
  BY DEF ArmRaises, RunOther
<1>2. UNCHANGED <<stage, source, current, tests, audit, review, outputs, answer, overall,
                  result, examined>>
  BY DEF ArmRaises, RunOther, Ends
<1>3. /\ PoolInv'
      /\ future[m][a] = "running"
      /\ \A p \in Missions, b \in Arms :
           future'[p][b] = IF p = m /\ b = a THEN how ELSE future[p][b]
  BY <1>1, EndsPool DEF OctopusInv
<1>4. BoardTypes'
  BY <1>2 DEF OctopusInv, BoardTypes
<1>5. ASSUME NEW p \in Missions PROVE BoardOf(p)'
  <2>1. BoardOf(p)
    BY DEF OctopusInv, BoardInv
  <2>2. \A b \in {"qa", "security"} : future'[p][b] = future[p][b] \/ future[p][b] = "running"
    BY <1>3 DEF Arms
  <2>3. \A b \in {"qa", "security"} : future[p][b] = "running" =>
          /\ b = "qa" => tests[p] = "not run"
          /\ b = "security" => audit[p] = "not run"
    BY <2>1 DEF BoardOf
  <2>4. stage[p] \in Stages1 =>
          \A b \in {"qa", "security"} : future'[p][b] = "none"
    BY <2>1, <2>2 DEF BoardOf
  <2>5. (tests[p] # "not run" => future'[p]["qa"] = "done")
        /\ (audit[p] # "not run" => future'[p]["security"] = "done")
    BY <2>1, <2>2, <2>3 DEF BoardOf
  <2> QED BY <1>2, <2>1, <2>4, <2>5 DEF BoardOf, Stages1
<1>6. (\A p \in Missions : ReportOf(p)') /\ ReportTypes'
  BY <1>2 DEF OctopusInv, ReportInv, ReportOf, ReportTypes
<1> QED BY <1>3, <1>4, <1>5, <1>6 DEF OctopusInv, BoardInv, ReportInv

LEMMA RunSecurityInv ==
  ASSUME OctopusInv, NEW m \in Missions, RunSecurity(m)
  PROVE  OctopusInv'
<1>1. PICK v \in {"issues", "clean"} :
        /\ Ends(m, "security", "done")
        /\ audit' = [audit EXCEPT ![m] = v]
        /\ examined' = [examined EXCEPT ![m]["audit"] = current[m]]
        /\ UNCHANGED <<stage, source, current, tests, review, outputs, answer, overall, result>>
  BY DEF RunSecurity, Ends, Examines
<1>2. "security" \in Arms /\ current[m] \in Texts /\ "audit" \in Checks
  BY DEF Arms, Checks, OctopusInv, BoardTypes
<1>3. BoardTypes'
  BY <1>1, <1>2 DEF OctopusInv, BoardTypes
<1>4. /\ PoolInv'
      /\ future[m]["security"] = "running"
      /\ \A p \in Missions, b \in Arms :
           future'[p][b] = IF p = m /\ b = "security" THEN "done" ELSE future[p][b]
  BY <1>1, <1>2, EndsPool DEF OctopusInv
<1>5. audit[m] = "not run"
  BY <1>4 DEF OctopusInv, BoardInv, BoardOf
<1>6. /\ \A p \in Missions, k \in Checks :
           examined'[p][k] = IF p = m /\ k = "audit" THEN current[m] ELSE examined[p][k]
      /\ \A p \in Missions : audit'[p] = IF p = m THEN v ELSE audit[p]
  <2>1. DOMAIN audit = Missions /\ examined \in [Missions -> [Checks -> Texts]]
    BY DEF OctopusInv, BoardTypes
  <2>2. \A p \in Missions, k \in Checks :
          examined'[p][k] = IF p = m /\ k = "audit" THEN current[m] ELSE examined[p][k]
    <3>1. examined' = [examined EXCEPT ![m] = [examined[m] EXCEPT !["audit"] = current[m]]]
      BY <1>1
    <3>2. \A p \in Missions : DOMAIN examined[p] = Checks
      BY <2>1
    <3>3. \A p \in Missions :
            examined'[p] = IF p = m THEN [examined[m] EXCEPT !["audit"] = current[m]] ELSE examined[p]
      BY <2>1, <3>1
    <3> QED BY <3>2, <3>3
  <2>3. \A p \in Missions : audit'[p] = IF p = m THEN v ELSE audit[p]
    BY <1>1, <2>1
  <2> QED BY <2>2, <2>3
<1>7. ASSUME NEW p \in Missions PROVE BoardOf(p)'
  <2>1. BoardOf(p) /\ "qa" \in Arms /\ "security" \in Arms
    BY DEF OctopusInv, BoardInv, Arms
  <2>2. CASE p # m
    BY <1>1, <1>4, <1>6, <2>1, <2>2, BoardFrame
  <2>3. CASE p = m
    <3>1. /\ future'[m]["qa"] = future[m]["qa"] /\ future'[m]["security"] = "done"
      BY <1>4, <2>1
    <3>2. /\ examined'[m]["audit"] = current[m]
          /\ examined'[m]["tests"] = examined[m]["tests"]
          /\ examined'[m]["review"] = examined[m]["review"]
      BY <1>6 DEF Checks
    <3> QED BY <1>1, <1>2, <1>4, <1>6, <2>1, <2>3, <3>1, <3>2 DEF BoardOf, Stages1
  <2> QED BY <2>2, <2>3
<1>8. ASSUME NEW p \in Missions PROVE ReportOf(p)'
  <2>1. CASE p # m
    BY <1>1, <1>6, <2>1, ReportFrame DEF OctopusInv, ReportInv
  <2>2. CASE p = m
    BY <1>1, <1>5, <1>6, <2>2 DEF OctopusInv, ReportInv, ReportOf
  <2> QED BY <2>1, <2>2
<1>9. ReportTypes'
  BY <1>1 DEF OctopusInv, ReportTypes
<1> QED BY <1>3, <1>4, <1>7, <1>8, <1>9 DEF OctopusInv, BoardInv, ReportInv

LEMMA RunQAInv ==
  ASSUME OctopusInv, NEW m \in Missions, RunQA(m)
  PROVE  OctopusInv'
<1>1. PICK v \in {"not run", "failed", "passed"} :
        /\ Ends(m, "qa", "done")
        /\ tests' = [tests EXCEPT ![m] = v]
        /\ examined' = [examined EXCEPT ![m]["tests"] = current[m]]
        /\ UNCHANGED <<stage, source, current, audit, review, outputs, answer, overall, result>>
  BY DEF RunQA, Ends, Examines
<1>2. "qa" \in Arms /\ current[m] \in Texts /\ "tests" \in Checks /\ current[m] # "none"
  BY DEF Arms, Checks, OctopusInv, BoardTypes, RunQA
<1>3. BoardTypes'
  BY <1>1, <1>2 DEF OctopusInv, BoardTypes
<1>4. /\ PoolInv'
      /\ future[m]["qa"] = "running"
      /\ \A p \in Missions, b \in Arms :
           future'[p][b] = IF p = m /\ b = "qa" THEN "done" ELSE future[p][b]
  BY <1>1, <1>2, EndsPool DEF OctopusInv
<1>5. tests[m] = "not run"
  BY <1>4 DEF OctopusInv, BoardInv, BoardOf
<1>6. /\ \A p \in Missions, k \in Checks :
           examined'[p][k] = IF p = m /\ k = "tests" THEN current[m] ELSE examined[p][k]
      /\ \A p \in Missions : tests'[p] = IF p = m THEN v ELSE tests[p]
  <2>1. DOMAIN tests = Missions /\ examined \in [Missions -> [Checks -> Texts]]
    BY DEF OctopusInv, BoardTypes
  <2>2. \A p \in Missions, k \in Checks :
          examined'[p][k] = IF p = m /\ k = "tests" THEN current[m] ELSE examined[p][k]
    <3>1. examined' = [examined EXCEPT ![m] = [examined[m] EXCEPT !["tests"] = current[m]]]
      BY <1>1
    <3>2. \A p \in Missions : DOMAIN examined[p] = Checks
      BY <2>1
    <3>3. \A p \in Missions :
            examined'[p] = IF p = m THEN [examined[m] EXCEPT !["tests"] = current[m]] ELSE examined[p]
      BY <2>1, <3>1
    <3> QED BY <3>2, <3>3
  <2>3. \A p \in Missions : tests'[p] = IF p = m THEN v ELSE tests[p]
    BY <1>1, <2>1
  <2> QED BY <2>2, <2>3
<1>7. ASSUME NEW p \in Missions PROVE BoardOf(p)'
  <2>1. BoardOf(p) /\ "qa" \in Arms /\ "security" \in Arms
    BY DEF OctopusInv, BoardInv, Arms
  <2>2. CASE p # m
    <3>1. /\ future'[p]["qa"] = future[p]["qa"] /\ future'[p]["security"] = future[p]["security"]
          /\ tests'[p] = tests[p] /\ \A k \in Checks : examined'[p][k] = examined[p][k]
      BY <1>4, <1>6, <2>1, <2>2
    <3> QED BY <1>1, <2>1, <3>1, BoardFrame
  <2>3. CASE p = m
    <3>1. /\ future'[m]["qa"] = "done" /\ future'[m]["security"] = future[m]["security"]
      BY <1>4, <2>1
    <3>2. /\ examined'[m]["tests"] = current[m]
          /\ examined'[m]["audit"] = examined[m]["audit"]
          /\ examined'[m]["review"] = examined[m]["review"]
      BY <1>6 DEF Checks
    <3> QED BY <1>1, <1>2, <1>4, <1>6, <2>1, <2>3, <3>1, <3>2 DEF BoardOf, Stages1
  <2> QED BY <2>2, <2>3
<1>8. ASSUME NEW p \in Missions PROVE ReportOf(p)'
  <2>1. CASE p # m
    BY <1>1, <1>6, <2>1, ReportFrame DEF OctopusInv, ReportInv
  <2>2. CASE p = m
    BY <1>1, <1>5, <1>6, <2>2 DEF OctopusInv, ReportInv, ReportOf
  <2> QED BY <2>1, <2>2
<1>9. ReportTypes'
  BY <1>1 DEF OctopusInv, ReportTypes
<1> QED BY <1>3, <1>4, <1>7, <1>8, <1>9 DEF OctopusInv, BoardInv, ReportInv

LEMMA OctopusInvStep == OctopusInv /\ [OctopusNext]_octopusVars => OctopusInv'
<1> SUFFICES ASSUME OctopusInv, [OctopusNext]_octopusVars PROVE OctopusInv'
  OBVIOUS
<1>1. CASE PoolStep
  <2>1. CASE StartArm
    BY <2>1, StartArmInv
  <2>2. ASSUME NEW m \in Missions, RunSecurity(m) \/ RunQA(m) PROVE OctopusInv'
    BY <2>2, RunSecurityInv, RunQAInv
  <2>3. ASSUME NEW m \in Missions, NEW a \in Arms, ArmRaises(m, a) \/ RunOther(m, a)
        PROVE  OctopusInv'
    BY <2>3, ArmRaisesInv
  <2> QED BY <1>1, <2>1, <2>2, <2>3 DEF PoolStep
<1>2. ASSUME NEW m \in Missions, BeginMission(m) \/ MissionStep(m) PROVE OctopusInv'
  <2>1. ASSUME NEW a \in Arms, Submit(m, a) \/ Await(m, a) PROVE OctopusInv'
    BY <2>1, SubmitArmInv, AwaitInv
  <2> QED BY <1>2, <2>1, BeginInv, RecordInv, ImplementInv, CritiqueInv, JudgeInv, ReportsInv
             DEF MissionStep
<1>3. CASE UNCHANGED octopusVars
  <2>1. UNCHANGED pool /\ UNCHANGED <<stage, source, current, tests, audit, review, outputs,
                                      future, answer, overall, result, examined>>
    BY <1>3 DEF octopusVars, board, pool
  <2>2. BoardTypes' /\ ReportTypes'
    BY <2>1 DEF OctopusInv, BoardTypes, ReportTypes
  <2>3. ASSUME NEW p \in Missions PROVE BoardOf(p)' /\ ReportOf(p)'
    BY <2>1, BoardFrame, ReportFrame DEF OctopusInv, BoardInv, ReportInv
  <2> QED BY <2>1, <2>2, <2>3, PoolKept DEF OctopusInv, BoardInv, ReportInv
<1> QED BY <1>1, <1>2, <1>3 DEF OctopusNext

LEMMA OctopusInvariant == OctopusSpec => []OctopusInv
BY OctopusInvInit, OctopusInvStep, PTL DEF OctopusSpec

\* Type correctness: every waiting task is queued once, and no more tasks run than there
\* are workers, however many missions share the pool (agent_worker_pool.py:56-80).
THEOREM OctopusTypeCorrect == OctopusSpec => []OctopusTypeOK
BY OctopusInvTypes, OctopusInvariant, PTL

\* Verdicts are of the text that is returned, however late the arms that found them
\* (octopus_coordinator.py:562-578).
THEOREM VerdictsAreOfTheCode == OctopusSpec => []VerdictsAreOfFinalCode
<1>1. OctopusInv => VerdictsAreOfFinalCode
  BY DEF OctopusInv, BoardInv, BoardOf, ReportInv, ReportOf, VerdictsAreOfFinalCode
<1> QED BY <1>1, OctopusInvariant, PTL

\* Success is not reported beside a check that is not, though the fields are read one by
\* one while late arms write them (octopus_coordinator.py:524-578).
THEOREM SuccessIsNotContradicted == OctopusSpec => []SuccessIsReported
<1>1. OctopusInv => SuccessIsReported
  BY DEF OctopusInv, ReportInv, ReportOf, SuccessIsReported
<1> QED BY <1>1, OctopusInvariant, PTL

-------------------------------------------------------------------------------
(* A mission goes on, up to fairness: what is left of MissionsEnd when the     *)
(* scheduler is set aside.                                                     *)

\* How far the thread of a mission is: the arms it has submitted, those it has an answer
\* for, and its stage.
Submitted(m) == {a \in Arms : future[m][a] # "none"}
Answered(m) == {a \in Arms : answer[m][a] # "none"}
StageNo(s) == CASE s = "new" -> 0            [] s = "strategy" -> 1
                [] s = "implementation" -> 2 [] s = "verification" -> 3
                [] s = "critique" -> 4       [] s = "synthesis" -> 5
                [] s = "judging" -> 6        [] s = "reporting" -> 7
                [] s = "returning" -> 8      [] OTHER -> 9

NoneLost(m) ==
  /\ Submitted(m) \subseteq Submitted(m)' /\ Answered(m) \subseteq Answered(m)'
  /\ StageNo(stage[m]) <= StageNo(stage'[m])

Further(m) ==
  \/ Submitted(m)' # Submitted(m) \/ Answered(m)' # Answered(m)
  \/ StageNo(stage[m]) < StageNo(stage'[m])

\* The guards of the steps of the thread, of which one at least is open.
CanSubmit(m, a) ==
  a \in Batch(m) /\ future[m][a] = "none" /\ \A b \in Earlier[a] : future[m][b] # "none"
CanAwait(m, a) ==
  /\ a \in Batch(m) /\ answer[m][a] = "none"
  /\ \A b \in Batch(m) : future[m][b] # "none"
  /\ \A b \in Earlier[a] : answer[m][b] # "none"
CanRecord(m) == Batch(m) # {} /\ \A a \in Batch(m) : answer[m][a] # "none"
OnOwnThread(m) == stage[m] \in {"implementation", "critique", "synthesis", "judging",
                                "reporting", "returning"}
HasAStep(m) ==
  \/ \E a \in Arms : CanSubmit(m, a) \/ CanAwait(m, a)
  \/ CanRecord(m) \/ OnOwnThread(m)

NobodyHoldsAMission ==
  \A m \in Missions : stage[m] \notin {"new", "done", "aborted"} => HasAStep(m)

StepsAreNeverUndone ==
  [][\A m \in Missions : NoneLost(m) /\ (MissionStep(m) => Further(m))]_octopusVars

\* Whatever the arms do, a batch is submitted, or answered, or ready to be recorded.
LEMMA BatchGoesOn ==
  ASSUME NEW m \in Missions, Batch(m) # {}
  PROVE  HasAStep(m)
<1> USE DEF HasAStep, CanSubmit, CanAwait, CanRecord, Arms
<1>1. CASE stage[m] = "strategy"
  <2>1. Batch(m) = {"planner", "architect"}
    BY <1>1 DEF Batch
  <2>2. Earlier["planner"] = {} /\ Earlier["architect"] = {"planner"}
    BY DEF Earlier
  <2>3. CASE future[m]["planner"] = "none"
    BY <2>1, <2>2, <2>3
  <2>4. CASE future[m]["planner"] # "none" /\ future[m]["architect"] = "none"
    BY <2>1, <2>2, <2>4
  <2>5. CASE future[m]["planner"] # "none" /\ future[m]["architect"] # "none"
    <3>1. CASE answer[m]["planner"] = "none"
      BY <2>1, <2>2, <2>5, <3>1
    <3>2. CASE answer[m]["planner"] # "none" /\ answer[m]["architect"] = "none"
      BY <2>1, <2>2, <2>5, <3>2
    <3>3. CASE answer[m]["planner"] # "none" /\ answer[m]["architect"] # "none"
      BY <2>1, <3>3
    <3> QED BY <3>1, <3>2, <3>3
  <2> QED BY <2>3, <2>4, <2>5
<1>2. CASE stage[m] = "verification"
  <2>1. Batch(m) = {"security", "qa", "sre"}
    BY <1>2 DEF Batch
  <2>2. Earlier["security"] = {} /\ Earlier["qa"] = {"security"}
        /\ Earlier["sre"] = {"security", "qa"}
    BY DEF Earlier
  <2>3. ASSUME \E a \in Batch(m) : future[m][a] = "none" PROVE HasAStep(m)
    <3>1. CASE future[m]["security"] = "none"
      BY <2>1, <2>2, <3>1
    <3>2. CASE future[m]["security"] # "none" /\ future[m]["qa"] = "none"
      BY <2>1, <2>2, <3>2
    <3>3. CASE /\ future[m]["security"] # "none" /\ future[m]["qa"] # "none"
               /\ future[m]["sre"] = "none"
      BY <2>1, <2>2, <3>3
    <3> QED BY <2>1, <2>3, <3>1, <3>2, <3>3
  <2>4. ASSUME \A a \in Batch(m) : future[m][a] # "none" PROVE HasAStep(m)
    <3>1. CASE answer[m]["security"] = "none"
      BY <2>1, <2>2, <2>4, <3>1
    <3>2. CASE answer[m]["security"] # "none" /\ answer[m]["qa"] = "none"
      BY <2>1, <2>2, <2>4, <3>2
    <3>3. CASE /\ answer[m]["security"] # "none" /\ answer[m]["qa"] # "none"
               /\ answer[m]["sre"] = "none"
      BY <2>1, <2>2, <2>4, <3>3
    <3>4. CASE \A a \in Batch(m) : answer[m][a] # "none"
      BY <2>1, <3>4
    <3> QED BY <2>1, <3>1, <3>2, <3>3, <3>4
  <2> QED BY <2>3, <2>4
<1>3. stage[m] \in {"strategy", "verification"}
  BY DEF Batch
<1> QED BY <1>1, <1>2, <1>3

\* A step on the futures only takes back no submission.
LEMMA FutureGrows ==
  ASSUME FutureTypes, NEW m \in Missions, NEW a \in Arms,
         NEW s \in {"queued", "running", "done", "raised"},
         future' = [future EXCEPT ![m][a] = s], UNCHANGED <<stage, answer>>
  PROVE  /\ \A p \in Missions : NoneLost(p)
         /\ future[m][a] = "none" => Further(m)
<1>1. \A p \in Missions, b \in Arms :
        future'[p][b] = IF p = m /\ b = a THEN s ELSE future[p][b]
  BY DEF FutureTypes
<1>2. ASSUME NEW p \in Missions PROVE NoneLost(p)
  <2>1. Submitted(p) \subseteq Submitted(p)' /\ Answered(p) \subseteq Answered(p)'
    BY <1>1 DEF Submitted, Answered
  <2>2. StageNo(stage[p]) \in Nat /\ stage'[p] = stage[p]
    BY DEF StageNo
  <2> QED BY <2>1, <2>2 DEF NoneLost
<1>3. ASSUME future[m][a] = "none" PROVE Further(m)
  <2>1. a \in Submitted(m)' /\ a \notin Submitted(m)
    BY <1>1, <1>3 DEF Submitted
  <2> QED BY <2>1 DEF Further
<1> QED BY <1>2, <1>3

\* A step that moves the stage on leaves what was submitted and answered.
LEMMA StageGrows ==
  ASSUME BoardTypes, NEW m \in Missions, NEW to,
         stage' = [stage EXCEPT ![m] = to], StageNo(stage[m]) < StageNo(to),
         UNCHANGED <<future, answer>>
  PROVE  Further(m) /\ \A p \in Missions : NoneLost(p)
<1>1. \A p \in Missions : stage'[p] = IF p = m THEN to ELSE stage[p]
  BY DEF BoardTypes
<1>2. \A p \in Missions : /\ StageNo(stage[p]) \in Nat
                          /\ Submitted(p)' = Submitted(p) /\ Answered(p)' = Answered(p)
  BY DEF StageNo, Submitted, Answered
<1>3. StageNo(to) \in Nat
  BY DEF StageNo
<1> QED BY <1>1, <1>2, <1>3 DEF Further, NoneLost

\* Every step of the thread of a mission takes it further.
LEMMA MissionGoesOn ==
  ASSUME BoardTypes, FutureTypes, NEW m \in Missions, MissionStep(m)
  PROVE  Further(m) /\ \A p \in Missions : NoneLost(p)
<1>1. ASSUME NEW a \in Arms, Submit(m, a) PROVE Further(m) /\ \A p \in Missions : NoneLost(p)
  <2>1. /\ future' = [future EXCEPT ![m][a] = "queued"] /\ future[m][a] = "none"
        /\ UNCHANGED <<stage, answer>>
    BY <1>1 DEF Submit
  <2> QED BY <2>1, FutureGrows
<1>2. ASSUME NEW a \in Arms, Await(m, a) PROVE Further(m) /\ \A p \in Missions : NoneLost(p)
  <2>1. /\ answer' = [answer EXCEPT ![m][a] = Reply(future[m][a])] /\ answer[m][a] = "none"
        /\ UNCHANGED <<stage, future>>
    BY <1>2 DEF Await, pool
  <2>2. Reply(future[m][a]) # "none"
    BY DEF Reply
  <2>3. \A p \in Missions, b \in Arms :
          answer'[p][b] = IF p = m /\ b = a THEN Reply(future[m][a]) ELSE answer[p][b]
    BY <2>1 DEF BoardTypes
  <2>4. ASSUME NEW p \in Missions PROVE NoneLost(p)
    <3>1. Submitted(p) \subseteq Submitted(p)' /\ Answered(p) \subseteq Answered(p)'
      BY <2>1, <2>2, <2>3 DEF Submitted, Answered
    <3>2. StageNo(stage[p]) \in Nat /\ stage'[p] = stage[p]
      BY <2>1 DEF StageNo
    <3> QED BY <3>1, <3>2 DEF NoneLost
  <2>5. a \in Answered(m)' /\ a \notin Answered(m)
    BY <2>1, <2>2, <2>3 DEF Answered
  <2> QED BY <2>4, <2>5 DEF Further
<1>3. ASSUME NEW to, stage' = [stage EXCEPT ![m] = to], UNCHANGED <<future, answer>>,
             StageNo(stage[m]) < StageNo(to)
      PROVE  Further(m) /\ \A p \in Missions : NoneLost(p)
  BY <1>3, StageGrows
<1>4. CASE RecordBatch(m)
  <2>1. stage[m] \in {"strategy", "verification"} /\ UNCHANGED <<future, answer>>
    BY <1>4 DEF RecordBatch, Batch, pool
  <2>2. \/ stage[m] = "strategy" /\ stage' = [stage EXCEPT ![m] = "implementation"]
        \/ stage[m] = "verification" /\ stage' = [stage EXCEPT ![m] = "critique"]
        \/ stage' = [stage EXCEPT ![m] = "aborted"]
    BY <1>4, <2>1 DEF RecordBatch
  <2>3. /\ StageNo("strategy") = 1 /\ StageNo("implementation") = 2
        /\ StageNo("verification") = 3 /\ StageNo("critique") = 4
        /\ StageNo("aborted") = 9
    BY DEF StageNo
  <2> QED BY <1>3, <2>1, <2>2, <2>3
<1>5. CASE Implement(m)
  <2>1. /\ stage[m] = "implementation" /\ stage' = [stage EXCEPT ![m] = "verification"]
        /\ UNCHANGED <<future, answer>> /\ StageNo("implementation") < StageNo("verification")
    BY <1>5 DEF Implement, Stages, pool, StageNo
  <2> QED BY <1>3, <2>1
<1>6. CASE Critique(m)
  <2>1. /\ stage[m] = "critique" /\ stage' = [stage EXCEPT ![m] = "synthesis"]
        /\ UNCHANGED <<future, answer>> /\ StageNo("critique") < StageNo("synthesis")
    BY <1>6 DEF Critique, Stages, pool, StageNo
  <2> QED BY <1>3, <2>1
<1>7. CASE JudgeTests(m)
  <2>1. /\ stage[m] = "synthesis" /\ stage' = [stage EXCEPT ![m] = "judging"]
        /\ UNCHANGED <<future, answer>> /\ StageNo("synthesis") < StageNo("judging")
    BY <1>7 DEF JudgeTests, Stages, pool, StageNo
  <2> QED BY <1>3, <2>1
<1>8. CASE JudgeRest(m)
  <2>1. /\ stage[m] = "judging" /\ stage' = [stage EXCEPT ![m] = "reporting"]
        /\ UNCHANGED <<future, answer>> /\ StageNo("judging") < StageNo("reporting")
    BY <1>8 DEF JudgeRest, Stages, pool, StageNo
  <2> QED BY <1>3, <2>1
<1>9. CASE ReportVerdicts(m)
  <2>1. /\ stage[m] = "reporting" /\ stage' = [stage EXCEPT ![m] = "returning"]
        /\ UNCHANGED <<future, answer>> /\ StageNo("reporting") < StageNo("returning")
    BY <1>9 DEF ReportVerdicts, Stages, pool, StageNo
  <2> QED BY <1>3, <2>1
<1>10. CASE ReportRan(m)
  <2>1. /\ stage[m] = "returning" /\ stage' = [stage EXCEPT ![m] = "done"]
        /\ UNCHANGED <<future, answer>>
    BY <1>10, Zenon DEF ReportRan, Stages, pool
  <2>2. StageNo("returning") < StageNo("done")
    BY DEF StageNo
  <2> QED BY <1>3, <2>1, <2>2
<1> QED BY <1>1, <1>2, <1>4, <1>5, <1>6, <1>7, <1>8, <1>9, <1>10 DEF MissionStep

\* The steps of the pool and of the missions, one by one.
LEMMA GoingOn ==
  ASSUME OctopusInv, OctopusNext
  PROVE  \A p \in Missions : NoneLost(p)
<1>1. BoardTypes /\ FutureTypes /\ QueueInv
  BY DEF OctopusInv, PoolInv
<1>2. CASE StartArm
  <2>1. Head(queue) \in Missions \X Arms
    BY <1>1, <1>2 DEF StartArm, QueueInv
  <2>2. PICK m \in Missions, a \in Arms : Head(queue) = <<m, a>>
    BY <2>1
  <2>3. Head(queue)[1] = m /\ Head(queue)[2] = a
    BY <2>2
  <2>4. future' = [future EXCEPT ![m][a] = "running"] /\ UNCHANGED <<stage, answer>>
    BY <1>2, <2>3, Zenon DEF StartArm
  <2> QED BY <1>1, <2>4, FutureGrows
<1>3. ASSUME NEW m \in Missions, NEW a \in Arms, NEW how \in {"done", "raised"}, Ends(m, a, how)
      PROVE  \A p \in Missions : NoneLost(p)
  <2>1. future' = [future EXCEPT ![m][a] = how] /\ UNCHANGED <<stage, answer>>
    BY <1>3 DEF Ends
  <2> QED BY <1>1, <2>1, FutureGrows
<1>4. CASE PoolStep
  <2>1. "security" \in Arms /\ "qa" \in Arms
    BY DEF Arms
  <2> QED BY <1>2, <1>3, <1>4, <2>1 DEF PoolStep, RunSecurity, RunQA, ArmRaises, RunOther
<1>5. ASSUME NEW m \in Missions, BeginMission(m) PROVE \A p \in Missions : NoneLost(p)
  <2>1. /\ stage' = [stage EXCEPT ![m] = "strategy"] /\ stage[m] = "new"
        /\ UNCHANGED <<future, answer>>
    BY <1>5 DEF BeginMission, Stages, pool
  <2>2. StageNo("new") < StageNo("strategy")
    BY DEF StageNo
  <2> QED BY <1>1, <2>1, <2>2, StageGrows
<1>6. ASSUME NEW m \in Missions, MissionStep(m) PROVE \A p \in Missions : NoneLost(p)
  BY <1>1, <1>6, MissionGoesOn
<1> QED BY <1>4, <1>5, <1>6 DEF OctopusNext

\* A mission that runs has a step to take whatever its arms and the pool do, every step
\* takes it further, and nothing takes it back: at most one step per arm submitted, per
\* answer and per stage, it is over (octopus_coordinator.py:277-578; the waits with a
\* timeout of agent_worker_pool.py:87-101).
THEOREM NoArmHoldsAMission == OctopusSpec => []NobodyHoldsAMission /\ StepsAreNeverUndone
<1> DEFINE A == \A m \in Missions : NoneLost(m) /\ (MissionStep(m) => Further(m))
<1>1. OctopusInv => NobodyHoldsAMission
  <2> SUFFICES ASSUME OctopusInv, NEW m \in Missions,
                      stage[m] \notin {"new", "done", "aborted"}
               PROVE  HasAStep(m)
    BY DEF NobodyHoldsAMission
  <2>1. OnOwnThread(m) \/ Batch(m) # {}
    <3>1. stage[m] \in {"new", "strategy", "implementation", "verification", "critique",
                        "synthesis", "judging", "reporting", "returning", "done", "aborted"}
      BY DEF OctopusInv, BoardTypes
    <3>2. stage[m] \in {"strategy", "verification"} => Batch(m) # {}
      BY DEF Batch
    <3> QED BY <3>1, <3>2 DEF OnOwnThread
  <2> QED BY <2>1, BatchGoesOn DEF HasAStep
<1>2. OctopusInv /\ [OctopusNext]_octopusVars => [A]_octopusVars
  <2> SUFFICES ASSUME OctopusInv, OctopusNext PROVE A
    OBVIOUS
  <2> QED BY GoingOn, MissionGoesOn DEF OctopusInv, PoolInv
<1> QED BY <1>1, <1>2, OctopusInvariant, PTL DEF OctopusSpec, StepsAreNeverUndone

-------------------------------------------------------------------------------
(* SwarmPipeline. *)

\* The text a call holds is what its verdicts are of: the scan and the tests come after
\* the coder, in that order, and a text that takes the place of another is judged anew.
FlagsOf(c) ==
  /\ ~flags[c].generated => ~flags[c].secure /\ ~flags[c].passed
  /\ flags[c].generated => \E i \in 1..ran[c] : Route[i] = "Coder"
  /\ flags[c].passed =>
       /\ flags[c].tests /\ tested[c] = flags[c].code
       /\ \E i, j \in 1..ran[c] : i < j /\ Route[i] = "Coder" /\ Route[j] = "QALead"
  /\ flags[c].secure => flags[c].checked /\ flags[c].code \in Clean
  /\ flags[c].generated =>
       \A i, k \in 1..ran[c] :
         i < k /\ Route[i] = "Coder" /\ Route[k] = "SecurityGuard" => flags[c].checked

\* A completed call has run every stage, and its verdict is noted.
StatusOf(c) ==
  /\ step[c] = "stage" => ran[c] < Len(Route)
  /\ status[c] = "completed" =>
       /\ step[c] # "stage" /\ ran[c] = Len(Route)
       /\ \E e \in earned : e.verdict = Verdict(flags[c])
  /\ step[c] = "decide" => status[c] = "completed"
  /\ returned[c] # NoVerdict => \E e \in earned : e.verdict = returned[c]

\* The verdict of a completed checkpoint is noted too.
FileOf(f) == f.status = "completed" => \E e \in earned : e.verdict = Recomputed(f.flags)

HistoryInv ==
  /\ \A e \in earned : e.verdict.success => e.verdict.code \in Clean /\ e.tested = e.verdict.code
  /\ \A t \in stored : \E e \in earned : e.verdict.success /\ e.verdict.code = t

PipelineTypes ==
  /\ step \in [Calls -> {"idle", "stage", "open", "write", "replace", "saved",
                         "decide", "returned", "raised"}]
  /\ ran \in [Calls -> 0..Len(Route)]
  /\ status \in [Calls -> {"in_progress", "completed"}]
  /\ flags \in [Calls -> Flags]
  /\ file \in Files /\ tmp \in Files
  /\ handle \in [Calls -> {"closed", "tmp", "file", "unnamed"}]
  /\ returned \in [Calls -> Verdicts \cup {NoVerdict}]
  /\ stored \subseteq Programs \cup {NoText}
  /\ tested \in [Calls -> Programs \cup {NoText}]
  /\ earned \subseteq [verdict: Verdicts, tested: Programs \cup {NoText}]

PipelineInv ==
  /\ PipelineTypes
  /\ \A c \in Calls : FlagsOf(c) /\ StatusOf(c)
  /\ FileOf(file) /\ FileOf(tmp)
  /\ HistoryInv

\* Routes and texts.
LEMMA RouteFacts ==
  /\ Len(Route) \in Nat
  /\ \A i \in 1..Len(Route) : Route[i] \in STRING
BY PipelineAssumption

LEMMA NotDoneTyped == NotDone \in Flags
BY DEF NotDone, Flags

LEMMA UnreadableTyped ==
  ASSUME NEW s \in {"none", "empty", "torn"}
  PROVE  Unreadable(s) \in Files /\ FileOf(Unreadable(s))
BY NotDoneTyped, RouteFacts DEF Unreadable, Files, FileOf

LEMMA VerdictTyped ==
  ASSUME NEW f \in Flags
  PROVE  Verdict(f) \in Verdicts /\ Recomputed(f) \in Verdicts
BY DEF Verdict, Recomputed, Success, Verdicts, Flags

LEMMA PipelineInvTypes == PipelineInv => PipelineTypeOK
BY DEF PipelineInv, PipelineTypes, StatusOf, PipelineTypeOK

LEMMA PipelineInvInit == PipelineInit => PipelineInv
<1> SUFFICES ASSUME PipelineInit PROVE PipelineInv
  OBVIOUS
<1>1. PipelineTypes
  BY NotDoneTyped, UnreadableTyped, RouteFacts DEF PipelineInit, PipelineTypes
<1>2. ASSUME NEW c \in Calls PROVE FlagsOf(c) /\ StatusOf(c)
  <2>1. flags[c] = NotDone /\ step[c] = "idle" /\ status[c] = "in_progress" /\ returned[c] = NoVerdict
    BY DEF PipelineInit
  <2> QED BY <2>1 DEF FlagsOf, StatusOf, NotDone
<1>3. FileOf(file) /\ FileOf(tmp)
  BY UnreadableTyped DEF PipelineInit
<1>4. HistoryInv
  BY DEF PipelineInit, HistoryInv
<1> QED BY <1>1, <1>2, <1>3, <1>4 DEF PipelineInv

\* What a call that is left alone has, it keeps, while verdicts are only noted.
LEMMA CallFrame ==
  ASSUME NEW c \in Calls, FlagsOf(c), StatusOf(c), earned \subseteq earned',
         step'[c] = step[c], ran'[c] = ran[c], status'[c] = status[c],
         flags'[c] = flags[c], tested'[c] = tested[c], returned'[c] = returned[c]
  PROVE  FlagsOf(c)' /\ StatusOf(c)'
<1>1. FlagsOf(c)'
  BY DEF FlagsOf
<1>2. StatusOf(c)'
  BY DEF StatusOf, Verdict, Success
<1> QED BY <1>1, <1>2

\* A call that moves on without touching its memory, and not to a stage or a decision.
LEMMA MemoryKept ==
  ASSUME PipelineInv, NEW c \in Calls,
         UNCHANGED <<ran, status, flags, tested, returned, stored, earned>>,
         NEW to \in {"open", "write", "replace", "saved", "raised"},
         step' = [step EXCEPT ![c] = to]
  PROVE  /\ \A d \in Calls : FlagsOf(d)' /\ StatusOf(d)'
         /\ HistoryInv'
<1>1. ASSUME NEW d \in Calls PROVE FlagsOf(d)' /\ StatusOf(d)'
  <2>1. FlagsOf(d) /\ StatusOf(d)
    BY DEF PipelineInv
  <2>2. step'[d] = IF d = c THEN to ELSE step[d]
    BY DEF PipelineInv, PipelineTypes
  <2>3. FlagsOf(d)'
    BY <2>1 DEF FlagsOf
  <2>4. StatusOf(d)'
    BY <2>1, <2>2 DEF StatusOf, Verdict, Success
  <2> QED BY <2>3, <2>4
<1>2. HistoryInv'
  BY DEF PipelineInv, HistoryInv
<1> QED BY <1>1, <1>2

LEMMA BeginCallInv ==
  ASSUME PipelineInv, NEW c \in Calls,
         Execute(c) \/ ResumeUnfinished(c) \/ ResumeNothing(c)
  PROVE  PipelineInv'
<1>1. PICK to \in {"open", "raised"} :
        /\ step' = [step EXCEPT ![c] = to]
        /\ UNCHANGED <<ran, status, flags, tested, file, tmp, handle, returned, stored, earned>>
  BY DEF Execute, ResumeUnfinished, ResumeNothing, disk, results
<1>2. PipelineTypes'
  BY <1>1 DEF PipelineInv, PipelineTypes
<1>3. FileOf(file)' /\ FileOf(tmp)'
  BY <1>1 DEF PipelineInv, FileOf, Recomputed, Success
<1> QED BY <1>1, <1>2, <1>3, MemoryKept DEF PipelineInv

LEMMA ResumeCompletedInv ==
  ASSUME PipelineInv, NEW c \in Calls, ResumeCompleted(c)
  PROVE  PipelineInv'
<1>1. /\ file.status = "completed"
      /\ step' = [step EXCEPT ![c] = "returned"]
      /\ returned' = [returned EXCEPT ![c] = Recomputed(file.flags)]
      /\ UNCHANGED <<ran, status, flags, tested, file, tmp, handle, stored, earned>>
  BY DEF ResumeCompleted, disk
<1>2. Recomputed(file.flags) \in Verdicts
  BY VerdictTyped DEF PipelineInv, PipelineTypes, Files
<1>3. PipelineTypes'
  BY <1>1, <1>2 DEF PipelineInv, PipelineTypes
<1>4. FileOf(file)' /\ FileOf(tmp)' /\ HistoryInv'
  BY <1>1 DEF PipelineInv, FileOf, Recomputed, Success, HistoryInv
<1>5. ASSUME NEW d \in Calls PROVE FlagsOf(d)' /\ StatusOf(d)'
  <2>1. FlagsOf(d) /\ StatusOf(d)
    BY DEF PipelineInv
  <2>2. CASE d # c
    BY <1>1, <2>1, <2>2, CallFrame DEF PipelineInv, PipelineTypes
  <2>3. CASE d = c
    <3>1. step'[c] = "returned" /\ returned'[c] = Recomputed(file.flags)
      BY <1>1 DEF PipelineInv, PipelineTypes
    <3>2. FlagsOf(c)'
      BY <1>1, <2>1, <2>3 DEF FlagsOf
    <3>3. \E e \in earned' : e.verdict = returned'[c]
      BY <1>1, <3>1 DEF PipelineInv, FileOf
    <3> QED BY <1>1, <2>1, <2>3, <3>1, <3>2, <3>3 DEF StatusOf, Verdict, Success
  <2> QED BY <2>2, <2>3
<1> QED BY <1>3, <1>4, <1>5 DEF PipelineInv

\* The stages.
LEMMA StageFacts ==
  ASSUME PipelineInv, NEW c \in Calls, NEW roles, StageOf(c, roles)
  PROVE  /\ step[c] = "stage" /\ Route[ran[c] + 1] \in roles
         /\ ran[c] \in Nat /\ ran[c] + 1 \in 1..Len(Route)
         /\ ran' = [ran EXCEPT ![c] = ran[c] + 1] /\ ran'[c] = ran[c] + 1
         /\ step' = [step EXCEPT ![c] = "open"] /\ step'[c] = "open"
         /\ ran' \in [Calls -> 0..Len(Route)]
         /\ UNCHANGED <<status, file, tmp, handle, returned, stored, earned>>
         /\ flags[c] \in Flags
         /\ status[c] = "in_progress" /\ FlagsOf(c) /\ StatusOf(c)
<1>1. /\ step[c] = "stage" /\ Route[ran[c] + 1] \in roles
      /\ ran' = [ran EXCEPT ![c] = ran[c] + 1]
      /\ step' = [step EXCEPT ![c] = "open"]
      /\ UNCHANGED <<status, file, tmp, handle, returned, stored, earned>>
  BY DEF StageOf, disk, results
<1>2. FlagsOf(c) /\ StatusOf(c) /\ flags[c] \in Flags /\ ran[c] \in 0..Len(Route)
      /\ status[c] \in {"in_progress", "completed"}
  BY DEF PipelineInv, PipelineTypes
<1>3. ran[c] < Len(Route) /\ status[c] = "in_progress"
  BY <1>1, <1>2 DEF StatusOf
<1>4. ran[c] \in Nat /\ ran[c] + 1 \in 1..Len(Route) /\ ran[c] + 1 \in 0..Len(Route)
  BY <1>2, <1>3, RouteFacts
<1>5. ran' \in [Calls -> 0..Len(Route)] /\ ran'[c] = ran[c] + 1 /\ step'[c] = "open"
  BY <1>1, <1>4 DEF PipelineInv, PipelineTypes
<1> QED BY <1>1, <1>2, <1>3, <1>4, <1>5

\* A stage changes the memory of its own call only, to flags of which the invariant holds.
LEMMA StageKept ==
  ASSUME PipelineInv, NEW c \in Calls, NEW roles, StageOf(c, roles),
         NEW f \in Flags, flags' = [flags EXCEPT ![c] = f],
         NEW t \in Programs \cup {NoText}, tested' = [tested EXCEPT ![c] = t],
         FlagsOf(c)'
  PROVE  PipelineInv'
<1>1. PipelineTypes'
  <2>1. /\ step' = [step EXCEPT ![c] = "open"] /\ ran' \in [Calls -> 0..Len(Route)]
        /\ UNCHANGED <<status, file, tmp, handle, returned, stored, earned>>
    BY StageFacts
  <2> QED BY <2>1 DEF PipelineInv, PipelineTypes
<1>2. FileOf(file)' /\ FileOf(tmp)' /\ HistoryInv'
  <2>1. UNCHANGED <<file, tmp, stored, earned>>
    BY StageFacts
  <2>2. HistoryInv'
    BY <2>1 DEF PipelineInv, HistoryInv
  <2> QED BY <2>1, <2>2 DEF PipelineInv, FileOf, Recomputed, Success
<1>3. ASSUME NEW d \in Calls PROVE FlagsOf(d)' /\ StatusOf(d)'
  <2>1. FlagsOf(d) /\ StatusOf(d)
    BY DEF PipelineInv
  <2>2. CASE d # c
    <3>1. /\ step'[d] = step[d] /\ ran'[d] = ran[d] /\ flags'[d] = flags[d]
          /\ tested'[d] = tested[d] /\ status'[d] = status[d] /\ returned'[d] = returned[d]
          /\ earned' = earned
      BY <2>2, StageFacts DEF PipelineInv, PipelineTypes
    <3> QED BY <2>1, <3>1, CallFrame
  <2>3. CASE d = c
    BY <2>1, <2>3, StageFacts DEF StatusOf
  <2> QED BY <2>2, <2>3
<1> QED BY <1>1, <1>2, <1>3 DEF PipelineInv

\* Where the flags stay as they are, a stage may be any but a guard with code to check.
LEMMA StagePassed ==
  ASSUME PipelineInv, NEW c \in Calls, NEW roles, StageOf(c, roles),
         UNCHANGED <<flags, tested>>,
         flags[c].generated => Route[ran[c] + 1] # "SecurityGuard"
  PROVE  PipelineInv'
<1>1. /\ flags' = [flags EXCEPT ![c] = flags[c]]
      /\ tested' = [tested EXCEPT ![c] = tested[c]]
      /\ flags[c] \in Flags /\ tested[c] \in Programs \cup {NoText}
  BY DEF PipelineInv, PipelineTypes
<1>2. FlagsOf(c)'
  <2>1. /\ FlagsOf(c) /\ ran'[c] = ran[c] + 1 /\ ran[c] \in Nat
        /\ flags'[c] = flags[c] /\ tested'[c] = tested[c]
    BY StageFacts
  <2>2. 1..ran[c] \subseteq 1..ran'[c]
    BY <2>1
  <2>3. flags[c].generated => \E i \in 1..ran'[c] : Route[i] = "Coder"
    BY <2>1, <2>2 DEF FlagsOf
  <2>4. flags[c].passed =>
          \E i, j \in 1..ran'[c] : i < j /\ Route[i] = "Coder" /\ Route[j] = "QALead"
    BY <2>1, <2>2 DEF FlagsOf
  <2>5. ASSUME flags[c].generated, NEW i \in 1..ran'[c], NEW k \in 1..ran'[c], i < k,
               Route[i] = "Coder", Route[k] = "SecurityGuard"
        PROVE  flags[c].checked
    <3>1. k # ran[c] + 1
      BY <2>5
    <3>2. i \in 1..ran[c] /\ k \in 1..ran[c]
      BY <2>1, <2>5, <3>1
    <3> QED BY <2>1, <2>5, <3>2 DEF FlagsOf
  <2> QED BY <2>1, <2>3, <2>4, <2>5 DEF FlagsOf
<1> QED BY <1>1, <1>2, StageKept

LEMMA GenerateInv ==
  ASSUME PipelineInv, NEW c \in Calls, Generate(c)
  PROVE  PipelineInv'
<1>1. StageOf(c, {"Coder"}) /\ tested' = tested
  BY DEF Generate
<1>2. CASE UNCHANGED flags
  BY <1>1, <1>2, StageFacts, StagePassed
<1>3. ASSUME NEW t \in Programs,
             flags' = [flags EXCEPT ![c] = [@ EXCEPT !.code = t, !.generated = TRUE]]
      PROVE  PipelineInv'
  <2> DEFINE f == [flags[c] EXCEPT !.code = t, !.generated = TRUE]
  <2>1. /\ FlagsOf(c) /\ flags[c] \in Flags /\ ran[c] \in Nat /\ ran'[c] = ran[c] + 1
        /\ ran[c] + 1 \in 1..Len(Route) /\ Route[ran[c] + 1] = "Coder"
    BY <1>1, StageFacts
  <2>2. /\ f \in Flags /\ f.code = t /\ f.generated
        /\ f.secure = flags[c].secure /\ f.passed = flags[c].passed
    BY <2>1 DEF Flags
  <2>3. flags' = [flags EXCEPT ![c] = f] /\ flags'[c] = f
    BY <1>3 DEF PipelineInv, PipelineTypes
  <2> HIDE DEF f
  <2>4. \A i \in 1..ran[c] : Route[i] # "Coder"
    BY <2>1, PipelineAssumption
  <2>5. ~flags[c].generated /\ ~flags[c].secure /\ ~flags[c].passed
    BY <2>1, <2>4 DEF FlagsOf
  <2>6. ASSUME NEW i \in 1..ran'[c], NEW k \in 1..ran'[c], i < k, Route[i] = "Coder"
        PROVE  FALSE
    <3>1. i \in 1..ran[c]
      BY <2>1, <2>6
    <3> QED BY <2>4, <2>6, <3>1
  <2>7. \E i \in 1..ran'[c] : Route[i] = "Coder"
    BY <2>1
  <2>8. FlagsOf(c)'
    BY <2>2, <2>3, <2>5, <2>6, <2>7 DEF FlagsOf
  <2>9. tested' = [tested EXCEPT ![c] = tested[c]] /\ tested[c] \in Programs \cup {NoText}
    BY <1>1 DEF PipelineInv, PipelineTypes
  <2> QED BY <1>1, <2>2, <2>3, <2>8, <2>9, StageKept
<1> QED BY <1>2, <1>3 DEF Generate

LEMMA AuditInv ==
  ASSUME PipelineInv, NEW c \in Calls, Audit(c)
  PROVE  PipelineInv'
<1>1. StageOf(c, {"SecurityGuard"}) /\ tested' = tested /\ flags[c].generated
  BY DEF Audit
<1>2. PICK t \in Programs :
        /\ flags[c].code \in Clean => t = flags[c].code
        /\ flags' = [flags EXCEPT ![c] =
             [@ EXCEPT !.checked = TRUE, !.code = t, !.secure = flags[c].code \in Clean]]
  BY DEF Audit
<1> DEFINE s == flags[c].code \in Clean
<1> DEFINE f == [flags[c] EXCEPT !.checked = TRUE, !.code = t, !.secure = s]
<1>3. /\ FlagsOf(c) /\ flags[c] \in Flags /\ ran[c] \in Nat /\ ran'[c] = ran[c] + 1
      /\ ran[c] + 1 \in 1..Len(Route) /\ Route[ran[c] + 1] = "SecurityGuard"
  BY <1>1, StageFacts
<1>4. /\ f \in Flags /\ f.code = t /\ f.checked /\ (f.secure <=> flags[c].code \in Clean)
      /\ (f.generated <=> flags[c].generated) /\ (f.passed <=> flags[c].passed)
  <2>1. s \in BOOLEAN /\ (s <=> flags[c].code \in Clean)
    OBVIOUS
  <2> HIDE DEF s
  <2> QED BY <1>3, <2>1 DEF Flags
<1>5. flags' = [flags EXCEPT ![c] = f] /\ flags'[c] = f
  BY <1>2 DEF PipelineInv, PipelineTypes
<1> HIDE DEF f
<1>6. ~flags[c].passed
  <2> SUFFICES ASSUME NEW i \in 1..ran[c], NEW j \in 1..ran[c], i < j,
                      Route[i] = "Coder", Route[j] = "QALead"
               PROVE  FALSE
    BY <1>3 DEF FlagsOf
  <2>1. i \in 1..Len(Route) /\ j \in 1..Len(Route)
    BY <1>3, RouteFacts
  <2>2. PICK k \in i..j : Route[k] = "SecurityGuard"
    BY <2>1, PipelineAssumption
  <2>3. k \in 1..Len(Route) /\ k # ran[c] + 1
    BY <1>3, <2>1, <2>2, RouteFacts
  <2> QED BY <1>3, <2>2, <2>3, PipelineAssumption
<1>7. \E i \in 1..ran'[c] : Route[i] = "Coder"
  <2>1. 1..ran[c] \subseteq 1..ran'[c]
    BY <1>3
  <2> QED BY <1>1, <1>3, <2>1 DEF FlagsOf
<1>8. FlagsOf(c)'
  BY <1>1, <1>2, <1>4, <1>5, <1>6, <1>7 DEF FlagsOf
<1>9. tested' = [tested EXCEPT ![c] = tested[c]] /\ tested[c] \in Programs \cup {NoText}
  BY <1>1 DEF PipelineInv, PipelineTypes
<1> QED BY <1>1, <1>4, <1>5, <1>8, <1>9, StageKept

\* QA comes after the guard, so a text that takes the place of the scanned one is
\* scanned under a flag that is set.
LEMMA TestsInv ==
  ASSUME PipelineInv, NEW c \in Calls, StageOf(c, {"QALead"}), flags[c].generated,
         NEW t \in Programs \cup {NoText}, NEW ranAny \in BOOLEAN, NEW passed \in BOOLEAN,
         passed => ranAny, TestsSay(c, t, ranAny, passed)
  PROVE  PipelineInv'
<1> DEFINE s == IF t = flags[c].code THEN flags[c].secure ELSE t \in Clean
<1> DEFINE f == [flags[c] EXCEPT !.tests = ranAny, !.passed = passed, !.code = t,
                                 !.secure = s]
<1> DEFINE u == IF passed THEN t ELSE NoText
<1>1. flags' = [flags EXCEPT ![c] = f] /\ tested' = [tested EXCEPT ![c] = u]
  BY DEF TestsSay
<1>2. /\ FlagsOf(c) /\ flags[c] \in Flags /\ ran[c] \in Nat /\ ran'[c] = ran[c] + 1
      /\ ran[c] + 1 \in 1..Len(Route) /\ Route[ran[c] + 1] = "QALead"
  BY StageFacts
<1>3. s \in BOOLEAN
  <2>1. flags[c].secure \in BOOLEAN
    BY <1>2 DEF Flags
  <2>2. CASE t = flags[c].code
    BY <2>1, <2>2
  <2>3. CASE t # flags[c].code
    BY <2>3
  <2> QED BY <2>2, <2>3
<1> HIDE DEF s
<1>4. /\ f \in Flags /\ f.code = t /\ (f.secure <=> s) /\ (f.passed <=> passed)
      /\ (f.tests <=> ranAny) /\ f.generated /\ (f.checked <=> flags[c].checked)
  BY <1>2, <1>3 DEF Flags
<1>5. u \in Programs \cup {NoText} /\ (passed => u = t)
  OBVIOUS
<1> HIDE DEF f, u
<1>6. flags'[c] = f /\ tested'[c] = u
  BY <1>1 DEF PipelineInv, PipelineTypes
<1>7. PICK i \in 1..ran[c] : Route[i] = "Coder"
  BY <1>2 DEF FlagsOf
<1>8. flags[c].checked
  <2>1. i \in 1..Len(Route) /\ i < ran[c] + 1
    BY <1>2, <1>7, RouteFacts
  <2>2. PICK k \in i..ran[c] + 1 : Route[k] = "SecurityGuard"
    BY <1>2, <1>7, <2>1, PipelineAssumption
  <2>3. k # i /\ k # ran[c] + 1
    BY <1>2, <1>7, <2>2
  <2>4. k \in 1..ran[c] /\ i < k
    BY <1>2, <1>7, <2>2, <2>3
  <2> QED BY <1>2, <1>7, <2>2, <2>4 DEF FlagsOf
<1>9. s => t \in Clean
  BY <1>2 DEF s, FlagsOf
<1>10. /\ i \in 1..ran'[c] /\ ran[c] + 1 \in 1..ran'[c] /\ i < ran[c] + 1
  BY <1>2, <1>7
<1>11. FlagsOf(c)'
  BY <1>2, <1>4, <1>5, <1>6, <1>7, <1>8, <1>9, <1>10 DEF FlagsOf
<1> QED BY <1>1, <1>4, <1>5, <1>11, StageKept

LEMMA StageInv ==
  ASSUME PipelineInv, NEW c \in Calls, Stage(c)
  PROVE  PipelineInv'
<1>1. CASE Pass(c)
  <2> DEFINE roles == STRING \ (IF flags[c].generated
                                THEN {"Coder", "SecurityGuard", "QALead"} ELSE {"Coder"})
  <2>1. StageOf(c, roles) /\ UNCHANGED <<flags, tested>>
    BY <1>1 DEF Pass
  <2>2. flags[c].generated => Route[ran[c] + 1] # "SecurityGuard"
    BY <2>1, StageFacts
  <2> QED BY <2>1, <2>2, StagePassed
<1>2. CASE Generate(c)
  BY <1>2, GenerateInv
<1>3. CASE Audit(c)
  BY <1>3, AuditInv
<1>4. CASE NoTests(c)
  <2>1. StageOf(c, {"QALead"}) /\ UNCHANGED <<flags, tested>>
    BY <1>4 DEF NoTests
  <2> QED BY <2>1, StageFacts, StagePassed
<1>5. CASE CrossChecked(c)
  BY <1>5, TestsInv DEF CrossChecked
<1>6. CASE RunTests(c)
  <2>1. flags[c].code \in Programs \cup {NoText}
    BY DEF PipelineInv, PipelineTypes, Flags
  <2> QED BY <1>6, <2>1, TestsInv DEF RunTests
<1> QED BY <1>1, <1>2, <1>3, <1>4, <1>5, <1>6 DEF Stage

\* A checkpoint has the verdict of the call that saves it.
LEMMA SnapshotFacts ==
  ASSUME PipelineInv, NEW c \in Calls
  PROVE  Snapshot(c) \in Files /\ FileOf(Snapshot(c))
<1>1. /\ FlagsOf(c) /\ StatusOf(c) /\ flags[c] \in Flags /\ ran[c] \in 0..Len(Route)
      /\ status[c] \in {"in_progress", "completed"}
  BY DEF PipelineInv, PipelineTypes
<1>2. Snapshot(c) \in Files
  BY <1>1 DEF Snapshot, Files
<1>3. Recomputed(flags[c]) = Verdict(flags[c])
  <2>1. /\ (flags[c].checked /\ flags[c].secure) = flags[c].secure
        /\ (flags[c].tests /\ flags[c].passed) = flags[c].passed
    <3>1. /\ flags[c].checked \in BOOLEAN /\ flags[c].secure \in BOOLEAN
          /\ flags[c].tests \in BOOLEAN /\ flags[c].passed \in BOOLEAN
      BY <1>1 DEF Flags
    <3>2. /\ flags[c].secure => flags[c].checked
          /\ flags[c].passed => flags[c].tests
      BY <1>1 DEF FlagsOf
    <3> QED BY <3>1, <3>2
  <2> QED BY <2>1 DEF Recomputed, Verdict
<1>4. FileOf(Snapshot(c))
  BY <1>1, <1>3 DEF FileOf, Snapshot, StatusOf
<1> QED BY <1>2, <1>4

LEMMA OverFacts ==
  ASSUME PipelineInv, NEW c \in Calls, NEW old, NEW f \in Over(old, Snapshot(c))
  PROVE  f \in Files /\ FileOf(f)
BY SnapshotFacts, UnreadableTyped DEF Over

LEMMA SaveInv ==
  ASSUME PipelineInv, NEW c \in Calls, Save(c)
  PROVE  PipelineInv'
<1>1. /\ UNCHANGED <<ran, status, flags, tested, returned, stored, earned>>
      /\ \E to \in {"write", "replace", "saved"} : step' = [step EXCEPT ![c] = to]
  BY DEF Save, SaveOpen, SaveWrite, SaveReplace, SaveFails, SaveKeeps, Moves, results
<1>2. /\ file' \in Files /\ tmp' \in Files
      /\ handle' \in [Calls -> {"closed", "tmp", "file", "unnamed"}]
      /\ FileOf(file') /\ FileOf(tmp')
  <2>1. /\ file \in Files /\ tmp \in Files /\ FileOf(file) /\ FileOf(tmp)
        /\ handle \in [Calls -> {"closed", "tmp", "file", "unnamed"}]
    BY DEF PipelineInv, PipelineTypes
  <2>2. CASE SaveOpen(c)
    BY <2>1, <2>2, UnreadableTyped DEF SaveOpen
  <2>3. CASE SaveWrite(c)
    <3>1. handle' \in [Calls -> {"closed", "tmp", "file", "unnamed"}]
      BY <2>1, <2>3 DEF SaveWrite
    <3>2. \/ tmp' \in Over(tmp, Snapshot(c)) /\ UNCHANGED file
          \/ file' \in Over(file, Snapshot(c)) /\ UNCHANGED tmp
          \/ UNCHANGED <<file, tmp>>
      BY <2>3 DEF SaveWrite
    <3> QED BY <2>1, <3>1, <3>2, OverFacts
  <2>4. CASE SaveReplace(c)
    <3>1. handle' \in [Calls -> {"closed", "tmp", "file", "unnamed"}]
      BY <2>1, <2>4 DEF SaveReplace
    <3> QED BY <2>1, <2>4, <3>1, UnreadableTyped DEF SaveReplace
  <2>5. CASE SaveFails(c)
    BY <2>1, <2>5 DEF SaveFails
  <2> QED BY <2>2, <2>3, <2>4, <2>5 DEF Save
<1>3. PipelineTypes'
  <2>1. step' \in [Calls -> {"idle", "stage", "open", "write", "replace", "saved",
                            "decide", "returned", "raised"}]
    BY <1>1 DEF PipelineInv, PipelineTypes
  <2> QED BY <1>1, <1>2, <2>1 DEF PipelineInv, PipelineTypes
<1>4. FileOf(file)' /\ FileOf(tmp)'
  BY <1>1, <1>2 DEF FileOf, Recomputed, Success
<1> QED BY <1>1, <1>3, <1>4, MemoryKept DEF PipelineInv

LEMMA NextStageInv ==
  ASSUME PipelineInv, NEW c \in Calls, NextStage(c)
  PROVE  PipelineInv'
<1>1. /\ step' = [step EXCEPT ![c] = "stage"] /\ ran[c] < Len(Route)
      /\ UNCHANGED <<ran, status, flags, tested, file, tmp, handle, returned, stored, earned>>
  BY DEF NextStage, Moves, MoreStages, disk, results
<1>2. PipelineTypes'
  BY <1>1 DEF PipelineInv, PipelineTypes
<1>3. FileOf(file)' /\ FileOf(tmp)' /\ HistoryInv'
  BY <1>1 DEF PipelineInv, FileOf, Recomputed, Success, HistoryInv
<1>4. ASSUME NEW d \in Calls PROVE FlagsOf(d)' /\ StatusOf(d)'
  <2>1. FlagsOf(d) /\ StatusOf(d) /\ step'[d] = IF d = c THEN "stage" ELSE step[d]
    BY <1>1 DEF PipelineInv, PipelineTypes
  <2>2. CASE d # c
    BY <1>1, <2>1, <2>2, CallFrame
  <2>3. CASE d = c
    <3>1. FlagsOf(c)'
      BY <1>1, <2>1, <2>3 DEF FlagsOf
    <3>2. status[c] # "completed"
      BY <1>1, <2>1, <2>3, RouteFacts DEF StatusOf
    <3> QED BY <1>1, <2>1, <2>3, <3>1, <3>2 DEF StatusOf
  <2> QED BY <2>2, <2>3
<1> QED BY <1>2, <1>3, <1>4 DEF PipelineInv

LEMMA CompleteInv ==
  ASSUME PipelineInv, NEW c \in Calls, Complete(c)
  PROVE  PipelineInv'
<1> DEFINE e == [verdict |-> Verdict(flags[c]), tested |-> tested[c]]
<1>1. /\ step' = [step EXCEPT ![c] = "open"] /\ ~(ran[c] < Len(Route))
      /\ status' = [status EXCEPT ![c] = "completed"] /\ earned' = earned \cup {e}
      /\ UNCHANGED <<ran, flags, tested, file, tmp, handle, returned, stored>>
  BY DEF Complete, Moves, MoreStages, disk
<1>2. /\ FlagsOf(c) /\ StatusOf(c) /\ flags[c] \in Flags /\ ran[c] \in 0..Len(Route)
      /\ tested[c] \in Programs \cup {NoText}
  BY DEF PipelineInv, PipelineTypes
<1>3. /\ e.verdict = Verdict(flags[c]) /\ e.tested = tested[c]
      /\ e \in [verdict: Verdicts, tested: Programs \cup {NoText}]
      /\ e \in earned' /\ earned \subseteq earned'
  BY <1>1, <1>2, VerdictTyped
<1>4. e.verdict.success => e.verdict.code \in Clean /\ e.tested = e.verdict.code
  <2>1. /\ Verdict(flags[c]).success <=> Success(flags[c])
        /\ Verdict(flags[c]).code = flags[c].code
    BY DEF Verdict
  <2> QED BY <1>2, <1>3, <2>1 DEF Success, FlagsOf
<1> HIDE DEF e
<1>5. PipelineTypes'
  BY <1>1, <1>3 DEF PipelineInv, PipelineTypes
<1>6. HistoryInv'
  BY <1>1, <1>3, <1>4 DEF PipelineInv, HistoryInv
<1>7. FileOf(file)' /\ FileOf(tmp)'
  BY <1>1, <1>3 DEF PipelineInv, FileOf, Recomputed, Success
<1>8. ASSUME NEW d \in Calls PROVE FlagsOf(d)' /\ StatusOf(d)'
  <2>1. /\ FlagsOf(d) /\ StatusOf(d)
        /\ d # c => step'[d] = step[d] /\ status'[d] = status[d]
        /\ d = c => step'[d] = "open" /\ status'[d] = "completed"
    BY <1>1 DEF PipelineInv, PipelineTypes
  <2>2. CASE d # c
    BY <1>1, <1>3, <2>1, <2>2, CallFrame
  <2>3. CASE d = c
    <3>1. FlagsOf(c)'
      BY <1>1, <1>2 DEF FlagsOf
    <3>2. ran[c] = Len(Route)
      BY <1>1, <1>2, RouteFacts
    <3>3. \E x \in earned' : x.verdict = Verdict(flags[c])
      BY <1>3
    <3>4. returned[c] # NoVerdict => \E x \in earned' : x.verdict = returned[c]
      BY <1>2, <1>3 DEF StatusOf
    <3>5. StatusOf(c)'
      BY <1>1, <2>1, <2>3, <3>2, <3>3, <3>4 DEF StatusOf, Verdict, Success
    <3> QED BY <2>3, <3>1, <3>5
  <2> QED BY <2>2, <2>3
<1> QED BY <1>5, <1>6, <1>7, <1>8 DEF PipelineInv

LEMMA RememberInv ==
  ASSUME PipelineInv, NEW c \in Calls, Remember(c)
  PROVE  PipelineInv'
<1>1. /\ step' = [step EXCEPT ![c] = "decide"] /\ status[c] = "completed"
      /\ UNCHANGED <<ran, status, flags, tested, file, tmp, handle, returned, earned>>
      /\ stored' = IF Success(flags[c]) THEN stored \cup {flags[c].code} ELSE stored
  BY DEF Remember, Moves, disk
<1>2. StatusOf(c) /\ flags[c] \in Flags
  BY DEF PipelineInv, PipelineTypes
<1>3. flags[c].code \in Programs \cup {NoText}
  BY <1>2 DEF Flags
<1>4. PipelineTypes'
  BY <1>1, <1>3 DEF PipelineInv, PipelineTypes
<1>5. HistoryInv'
  <2>1. PICK e \in earned : e.verdict = Verdict(flags[c])
    BY <1>1, <1>2 DEF StatusOf
  <2>2. Success(flags[c]) => e.verdict.success /\ e.verdict.code = flags[c].code
    BY <2>1 DEF Verdict
  <2> QED BY <1>1, <2>1, <2>2 DEF PipelineInv, HistoryInv
<1>6. FileOf(file)' /\ FileOf(tmp)'
  BY <1>1 DEF PipelineInv, FileOf, Recomputed, Success
<1>7. ASSUME NEW d \in Calls PROVE FlagsOf(d)' /\ StatusOf(d)'
  <2>1. FlagsOf(d) /\ StatusOf(d) /\ step'[d] = IF d = c THEN "decide" ELSE step[d]
    BY <1>1 DEF PipelineInv, PipelineTypes
  <2>2. CASE d # c
    BY <1>1, <2>1, <2>2, CallFrame
  <2>3. CASE d = c
    <3>1. FlagsOf(c)'
      BY <1>1, <2>1, <2>3 DEF FlagsOf
    <3> QED BY <1>1, <2>1, <2>3, <3>1 DEF StatusOf, Verdict, Success
  <2> QED BY <2>2, <2>3
<1> QED BY <1>4, <1>5, <1>6, <1>7 DEF PipelineInv

\* A call that is over has forgotten what it held.
LEMMA EndInv ==
  ASSUME PipelineInv, NEW c \in Calls, Return(c) \/ Dies(c)
  PROVE  PipelineInv'
<1>1. /\ ran' = [ran EXCEPT ![c] = 0] /\ status' = [status EXCEPT ![c] = "in_progress"]
      /\ flags' = [flags EXCEPT ![c] = NotDone] /\ tested' = [tested EXCEPT ![c] = NoText]
      /\ UNCHANGED <<file, tmp, stored, earned>>
      /\ \E to \in {"returned", "raised"} : step' = [step EXCEPT ![c] = to]
  BY DEF Return, Dies, Forgets, Moves, disk, results
<1>2. StatusOf(c) /\ flags[c] \in Flags
  BY DEF PipelineInv, PipelineTypes
<1>3. /\ returned' \in [Calls -> Verdicts \cup {NoVerdict}]
      /\ handle' \in [Calls -> {"closed", "tmp", "file", "unnamed"}]
      /\ \A d \in Calls : d # c => returned'[d] = returned[d]
      /\ returned'[c] # NoVerdict => \E e \in earned : e.verdict = returned'[c]
  <2>1. CASE Return(c)
    <3>1. returned' = [returned EXCEPT ![c] = Verdict(flags[c])] /\ handle' = handle
          /\ status[c] = "completed"
      BY <1>2, <2>1 DEF Return, Moves, disk, StatusOf
    <3> QED BY <1>2, <3>1, VerdictTyped DEF PipelineInv, PipelineTypes, StatusOf
  <2>2. CASE Dies(c)
    <3>1. returned' = returned /\ handle' = [handle EXCEPT ![c] = "closed"]
      BY <2>2 DEF Dies, results
    <3> QED BY <1>2, <3>1 DEF PipelineInv, PipelineTypes, StatusOf
  <2> QED BY <2>1, <2>2
<1>4. PipelineTypes'
  <2>1. 0 \in 0..Len(Route)
    BY RouteFacts
  <2>2. /\ step' \in [Calls -> {"idle", "stage", "open", "write", "replace", "saved",
                               "decide", "returned", "raised"}]
        /\ ran' \in [Calls -> 0..Len(Route)]
    BY <1>1, <2>1 DEF PipelineInv, PipelineTypes
  <2>3. /\ status' \in [Calls -> {"in_progress", "completed"}]
        /\ flags' \in [Calls -> Flags] /\ tested' \in [Calls -> Programs \cup {NoText}]
    BY <1>1, NotDoneTyped DEF PipelineInv, PipelineTypes
  <2> QED BY <1>1, <1>3, <2>2, <2>3 DEF PipelineInv, PipelineTypes
<1>5. FileOf(file)' /\ FileOf(tmp)' /\ HistoryInv'
  <2>1. HistoryInv'
    BY <1>1 DEF PipelineInv, HistoryInv
  <2> QED BY <1>1, <2>1 DEF PipelineInv, FileOf, Recomputed, Success
<1>6. ASSUME NEW d \in Calls PROVE FlagsOf(d)' /\ StatusOf(d)'
  <2>1. FlagsOf(d) /\ StatusOf(d)
    BY DEF PipelineInv
  <2>2. CASE d # c
    <3>1. /\ step'[d] = step[d] /\ ran'[d] = ran[d] /\ status'[d] = status[d]
          /\ flags'[d] = flags[d] /\ tested'[d] = tested[d] /\ returned'[d] = returned[d]
      BY <1>1, <1>3, <2>2 DEF PipelineInv, PipelineTypes
    <3> QED BY <1>1, <2>1, <3>1, CallFrame
  <2>3. CASE d = c
    <3>1. /\ step'[c] \in {"returned", "raised"} /\ status'[c] = "in_progress"
          /\ flags'[c] = NotDone
      BY <1>1 DEF PipelineInv, PipelineTypes
    <3>2. FlagsOf(c)'
      BY <3>1 DEF FlagsOf, NotDone
    <3>3. StatusOf(c)'
      BY <1>1, <1>3, <3>1 DEF StatusOf
    <3> QED BY <2>3, <3>2, <3>3
  <2> QED BY <2>2, <2>3
<1> QED BY <1>4, <1>5, <1>6 DEF PipelineInv

LEMMA PipelineInvStep == PipelineInv /\ [PipelineNext]_pipelineVars => PipelineInv'
<1> SUFFICES ASSUME PipelineInv, [PipelineNext]_pipelineVars PROVE PipelineInv'
  OBVIOUS
<1>1. ASSUME NEW c \in Calls, CallStep(c) PROVE PipelineInv'
  <2>1. CASE Execute(c)
    BY <2>1, BeginCallInv
  <2>2. CASE Resume(c)
    BY <2>2, BeginCallInv, ResumeCompletedInv DEF Resume
  <2>3. CASE Stage(c)
    BY <2>3, StageInv
  <2>4. CASE Save(c)
    BY <2>4, SaveInv
  <2>5. CASE NextStage(c) \/ Complete(c) \/ Remember(c) \/ Return(c) \/ Dies(c)
    BY <2>5, NextStageInv, CompleteInv, RememberInv, EndInv
  <2> QED BY <1>1, <2>1, <2>2, <2>3, <2>4, <2>5 DEF CallStep
<1>2. CASE UNCHANGED pipelineVars
  <2>1. UNCHANGED <<step, ran, status, flags, tested, file, tmp, handle, returned, stored, earned>>
    BY <1>2 DEF pipelineVars, work, disk, results
  <2>2. ASSUME NEW c \in Calls PROVE FlagsOf(c)' /\ StatusOf(c)'
    BY <2>1, CallFrame DEF PipelineInv
  <2>3. PipelineTypes'
    BY <2>1 DEF PipelineInv, PipelineTypes
  <2>4. FileOf(file)' /\ FileOf(tmp)'
    BY <2>1 DEF PipelineInv, FileOf, Recomputed, Success
  <2>5. HistoryInv'
    BY <2>1 DEF PipelineInv, HistoryInv
  <2> QED BY <2>2, <2>3, <2>4, <2>5 DEF PipelineInv
<1> QED BY <1>1, <1>2 DEF PipelineNext

LEMMA PipelineInvariant == PipelineSpec => []PipelineInv
BY PipelineInvInit, PipelineInvStep, PTL DEF PipelineSpec

\* Type correctness, for any route the router makes and any number of calls; a call runs
\* no stage that the route does not have (swarm_pipeline_engine.py:407).
THEOREM PipelineTypeCorrect == PipelineSpec => []PipelineTypeOK
BY PipelineInvTypes, PipelineInvariant, PTL

\* A success is of the text that is returned, whichever stages put another in its place
\* (swarm_pipeline_engine.py:535).
THEOREM SuccessesAreOfTheCode == PipelineSpec => []SuccessIsOfFinalCode
<1>1. PipelineInv => SuccessIsOfFinalCode
  BY DEF PipelineInv, HistoryInv, SuccessIsOfFinalCode
<1> QED BY <1>1, PipelineInvariant, PTL

\* Every verdict and every pattern was earned, whatever died and however calls overlap
\* (swarm_pipeline_engine.py:737).
THEOREM VerdictsAreNotMadeUp == PipelineSpec => []VerdictsWereEarned
<1>1. PipelineInv => VerdictsWereEarned
  BY DEF PipelineInv, StatusOf, HistoryInv, VerdictsWereEarned
<1> QED BY <1>1, PipelineInvariant, PTL

\* While calls do not overlap, one at a time has the temporary file open, and a completed
\* checkpoint whose id is used once is left to a call that is about to return.
Held == file.status = "completed" /\ ~reused

WriteOf(c) ==
  /\ handle[c] # "closed" => step[c] = "write"
  /\ step[c] = "write" => handle[c] = "tmp" /\ tmp = Unreadable("empty")
  /\ step[c] = "replace" => tmp = Snapshot(c)
  /\ Held /\ Alive(c) =>
       step[c] \in {"saved", "decide"} /\ status[c] = "completed"

WholeInv ==
  /\ \A c, d \in Calls : Alive(c) /\ Alive(d) => c = d
  /\ \A c \in Calls : WriteOf(c)
  /\ file.status \in {"none", "in_progress", "completed"}
  /\ file.status # "none" => \E c \in Calls : step[c] # "idle"

LEMMA WholeInit == PipelineInit => WholeInv
<1> SUFFICES ASSUME PipelineInit PROVE WholeInv
  OBVIOUS
<1>1. /\ \A c \in Calls : step[c] = "idle" /\ handle[c] = "closed"
      /\ file.status = "none"
  BY DEF PipelineInit, Unreadable
<1> QED BY <1>1 DEF WholeInv, WriteOf, Alive

\* Nobody else is alive when a call takes a step.
LEMMA WholeKept ==
  ASSUME PipelineInv, WholeInv, NEW c \in Calls, \A d \in Calls : Alive(d) => d = c,
         NEW to, to # "idle", step' = [step EXCEPT ![c] = to],
         \A d \in Calls : d # c => handle'[d] = handle[d],
         file'.status \in {"none", "in_progress", "completed"},
         WriteOf(c)'
  PROVE  WholeInv'
<1>1. \A d \in Calls : step'[d] = IF d = c THEN to ELSE step[d]
  BY DEF PipelineInv, PipelineTypes
<1>2. ASSUME NEW d \in Calls, d # c PROVE ~Alive(d)' /\ WriteOf(d)'
  <2>1. ~Alive(d) /\ WriteOf(d) /\ step'[d] = step[d] /\ handle'[d] = handle[d]
    BY <1>1, <1>2 DEF WholeInv
  <2>2. ~Alive(d)'
    BY <2>1 DEF Alive
  <2> QED BY <2>1, <2>2 DEF WriteOf, Alive
<1> QED BY <1>1, <1>2 DEF WholeInv

LEMMA WholeStep ==
  PipelineInv /\ WholeInv /\ apart' /\ [PipelineNext]_pipelineVars =>
    WholeInv' /\ (Held /\ ~reused' => file' = file)
<1> SUFFICES ASSUME PipelineInv, WholeInv, apart', [PipelineNext]_pipelineVars
             PROVE  WholeInv' /\ (Held /\ ~reused' => file' = file)
  OBVIOUS
<1>1. ASSUME NEW c \in Calls, CallStep(c)
      PROVE  WholeInv' /\ (Held /\ ~reused' => file' = file)
  <2>1. /\ WriteOf(c) /\ StatusOf(c) /\ file.status \in {"none", "in_progress", "completed"}
        /\ \A to : step' = [step EXCEPT ![c] = to] => step'[c] = to
        /\ handle \in [Calls -> {"closed", "tmp", "file", "unnamed"}]
        /\ status[c] \in {"in_progress", "completed"} /\ ran[c] \in 0..Len(Route)
        /\ status \in [Calls -> {"in_progress", "completed"}]
        /\ Len(Route) \in Nat
    BY RouteFacts DEF WholeInv, PipelineInv, PipelineTypes
  <2>2. CASE Execute(c) \/ Resume(c)
    <3>1. (\A d \in Calls : ~Alive(d)) /\ step[c] = "idle"
      BY <2>2 DEF Execute, Resume, Begins
    <3>2. UNCHANGED <<ran, status, flags, tested, file, tmp, handle>>
      BY <2>2 DEF Execute, Resume, ResumeCompleted, ResumeUnfinished, ResumeNothing, disk
    <3>3. CASE Execute(c) \/ (Resume(c) /\ ResumeUnfinished(c))
      <4>1. step' = [step EXCEPT ![c] = "open"] /\ ~Held'
        BY <3>2, <3>3 DEF Execute, ResumeUnfinished, Resume, WholeInv, Held
      <4>2. WriteOf(c)'
        BY <2>1, <3>1, <3>2, <4>1 DEF WriteOf
      <4> QED BY <2>1, <3>1, <3>2, <4>1, <4>2, WholeKept
    <3>4. CASE ResumeCompleted(c) \/ ResumeNothing(c)
      <4>1. PICK to \in {"returned", "raised"} : step' = [step EXCEPT ![c] = to]
        BY <3>4 DEF ResumeCompleted, ResumeNothing
      <4>2. WriteOf(c)'
        BY <2>1, <3>1, <3>2, <4>1 DEF WriteOf, Alive
      <4> QED BY <2>1, <3>1, <3>2, <4>1, <4>2, WholeKept
    <3> QED BY <2>2, <3>3, <3>4 DEF Resume
  <2>3. ASSUME ~(Execute(c) \/ Resume(c)) PROVE Alive(c) /\ \A d \in Calls : Alive(d) => d = c
    <3>1. Alive(c)
      BY <1>1, <2>3 DEF CallStep, Stage, Pass, Generate, Audit, NoTests, CrossChecked, RunTests,
             StageOf, Save, SaveOpen, SaveWrite, SaveReplace, SaveFails, NextStage, Complete,
             Remember, Return, Dies, Moves, Alive
    <3> QED BY <3>1 DEF WholeInv
  <2>9. step[c] # "idle" => reused' = reused
    BY <1>1 DEF CallStep, Execute, Resume, Begins
  <2>4. CASE Stage(c)
    <3>1. PICK roles : StageOf(c, roles)
      BY <2>4 DEF Stage, Pass, Generate, Audit, NoTests, CrossChecked, RunTests
    <3>2. /\ step[c] = "stage" /\ step' = [step EXCEPT ![c] = "open"]
          /\ UNCHANGED <<status, file, tmp, handle>>
      BY <3>1 DEF StageOf, disk
    <3>3. ~Held /\ handle[c] = "closed"
      BY <2>1, <3>2 DEF WriteOf, Alive
    <3>4. WriteOf(c)'
      BY <2>1, <3>2, <3>3, <2>9 DEF WriteOf, Held
    <3>5. ~(Execute(c) \/ Resume(c))
      BY <3>2 DEF Execute, Resume, Begins
    <3> QED BY <2>1, <2>3, <3>2, <3>3, <3>4, <3>5, WholeKept
  <2>5. CASE Save(c)
    <3>1. step[c] \in {"open", "write", "replace"}
      BY <2>5 DEF Save, SaveOpen, SaveWrite, SaveReplace, SaveFails, Moves
    <3>2. ~Held
      BY <2>1, <3>1 DEF WriteOf, Alive
    <3>3. ~(Execute(c) \/ Resume(c))
      BY <3>1 DEF Execute, Resume, Begins
    <3>4. UNCHANGED <<ran, status, flags>>
      BY <2>5 DEF Save, SaveOpen, SaveWrite, SaveReplace, SaveFails, SaveKeeps
    <3>5. CASE SaveOpen(c)
      <4>1. /\ step' = [step EXCEPT ![c] = "write"] /\ tmp' = Unreadable("empty")
            /\ handle' = [handle EXCEPT ![c] = "tmp"] /\ file' = file
        BY <3>5 DEF SaveOpen, Moves
      <4>2. WriteOf(c)'
        BY <2>1, <3>2, <3>1, <4>1, <2>9 DEF WriteOf, Held, Unreadable
      <4> QED BY <2>1, <2>3, <3>2, <3>3, <4>1, <4>2, WholeKept
    <3>6. CASE SaveWrite(c)
      <4>1. /\ step[c] = "write" /\ step' = [step EXCEPT ![c] = "replace"]
            /\ handle' = [handle EXCEPT ![c] = "closed"]
        BY <3>6 DEF SaveWrite, Moves
      <4>2. handle[c] = "tmp" /\ tmp = Unreadable("empty")
        BY <2>1, <4>1 DEF WriteOf
      <4>3. tmp' = Snapshot(c) /\ file' = file
        BY <3>6, <4>2 DEF SaveWrite, Over, Unreadable
      <4>4. Snapshot(c)' = Snapshot(c)
        BY <3>4 DEF Snapshot
      <4>5. WriteOf(c)'
        BY <2>1, <3>2, <3>1, <4>1, <4>3, <4>4, <2>9 DEF WriteOf, Held
      <4> QED BY <2>1, <2>3, <3>2, <3>3, <4>1, <4>3, <4>5, WholeKept
    <3>7. CASE SaveReplace(c)
      <4>1. /\ step[c] = "replace" /\ step' = [step EXCEPT ![c] = "saved"]
            /\ file' = tmp /\ \A d \in Calls : handle[d] = "closed" => handle'[d] = "closed"
        BY <3>7 DEF SaveReplace, Moves
      <4>2. tmp = Snapshot(c) /\ tmp.status = status[c]
        BY <2>1, <4>1 DEF WriteOf, Snapshot
      <4>3. \A d \in Calls : handle[d] = "closed"
        BY <2>3, <3>3, <4>1 DEF WholeInv, WriteOf, Alive
      <4>4. WriteOf(c)'
        BY <2>1, <3>1, <3>4, <4>1, <4>2, <4>3, <2>9 DEF WriteOf, Held
      <4> QED BY <2>1, <2>3, <3>2, <3>3, <4>1, <4>2, <4>3, <4>4, WholeKept
    <3>8. CASE SaveFails(c)
      <4>1. /\ step' = [step EXCEPT ![c] = "saved"] /\ handle' = [handle EXCEPT ![c] = "closed"]
            /\ UNCHANGED <<file, tmp>>
        BY <3>8 DEF SaveFails
      <4>2. WriteOf(c)'
        BY <2>1, <3>2, <3>1, <4>1, <2>9 DEF WriteOf, Held
      <4> QED BY <2>1, <2>3, <3>2, <3>3, <4>1, <4>2, WholeKept
    <3> QED BY <2>5, <3>5, <3>6, <3>7, <3>8 DEF Save
  <2>6. CASE NextStage(c) \/ Complete(c)
    <3>1. /\ step[c] = "saved" /\ UNCHANGED <<file, tmp, handle>>
          /\ ran[c] < Len(Route) \/ status[c] = "in_progress"
          /\ \E to \in {"stage", "open"} : step' = [step EXCEPT ![c] = to]
      BY <2>6 DEF NextStage, Complete, MoreStages, Moves, disk
    <3>2. ~Held /\ handle[c] = "closed"
      BY <2>1, <3>1 DEF WriteOf, StatusOf, Alive
    <3>3. ~(Execute(c) \/ Resume(c))
      BY <3>1 DEF Execute, Resume, Begins
    <3>4. WriteOf(c)'
      BY <2>1, <3>1, <3>2, <2>9 DEF WriteOf, Held
    <3> QED BY <2>1, <2>3, <3>1, <3>2, <3>3, <3>4, WholeKept
  <2>7. CASE Remember(c)
    <3>1. /\ step[c] = "saved" /\ step' = [step EXCEPT ![c] = "decide"]
          /\ status[c] = "completed" /\ UNCHANGED <<status, file, tmp, handle>>
      BY <2>7 DEF Remember, Moves, disk
    <3>2. ~(Execute(c) \/ Resume(c)) /\ handle[c] = "closed"
      BY <2>1, <3>1 DEF Execute, Resume, Begins, WriteOf
    <3>3. WriteOf(c)'
      BY <2>1, <3>1, <3>2, <2>9 DEF WriteOf, Held
    <3> QED BY <2>1, <2>3, <3>1, <3>2, <3>3, WholeKept
  <2>8. CASE Return(c) \/ Dies(c)
    <3>1. /\ UNCHANGED <<file, tmp>> /\ Alive(c)
          /\ \E to \in {"returned", "raised"} : step' = [step EXCEPT ![c] = to]
          /\ \A d \in Calls : d # c => handle'[d] = handle[d]
          /\ handle[c] = "closed" => handle'[c] = "closed"
          /\ Dies(c) => handle'[c] = "closed"
          /\ Return(c) => step[c] = "decide"
      BY <2>1, <2>8 DEF Return, Dies, Moves, disk, Alive
    <3>2. ~(Execute(c) \/ Resume(c)) /\ handle'[c] = "closed"
      BY <2>1, <2>8, <3>1 DEF Execute, Resume, Begins, WriteOf, Alive
    <3>3. WriteOf(c)'
      BY <2>1, <3>1, <3>2, <2>9 DEF WriteOf, Held, Alive
    <3> QED BY <2>1, <2>3, <3>1, <3>2, <3>3, WholeKept
  <2> QED BY <1>1, <2>2, <2>4, <2>5, <2>6, <2>7, <2>8 DEF CallStep
<1>2. CASE UNCHANGED pipelineVars
  <2>1. UNCHANGED <<step, ran, status, flags, file, tmp, handle>>
    BY <1>2 DEF pipelineVars, work, disk
  <2> QED BY <1>2, <2>1 DEF WholeInv, WriteOf, Held, Alive, Snapshot, pipelineVars
<1> QED BY <1>1, <1>2 DEF PipelineNext

\* Once calls have overlapped, they have; before, files are whole.
ApartInv == apart => WholeInv

LEMMA ApartBefore == [PipelineNext]_pipelineVars /\ apart' => apart
<1>1. ASSUME NEW c \in Calls, CallStep(c), apart' PROVE apart
  BY <1>1 DEF CallStep, Execute, Resume, Begins
<1> QED BY <1>1 DEF PipelineNext, pipelineVars

LEMMA ReusedBefore == [PipelineNext]_pipelineVars /\ ~reused' => ~reused
<1>1. ASSUME NEW c \in Calls, CallStep(c), ~reused' PROVE ~reused
  BY <1>1 DEF CallStep, Execute, Resume
<1> QED BY <1>1 DEF PipelineNext, pipelineVars

LEMMA ApartInvariant == PipelineSpec => []ApartInv
<1>1. PipelineInit => ApartInv
  BY WholeInit DEF ApartInv
<1>2. PipelineInv /\ ApartInv /\ [PipelineNext]_pipelineVars => ApartInv'
  BY WholeStep, ApartBefore DEF ApartInv
<1> QED BY <1>1, <1>2, PipelineInvariant, PTL DEF PipelineSpec

\* A call that dies in a save, or whose save fails, leaves the last checkpoint readable,
\* for any number of calls, while they do not overlap (swarm_checkpoint_store.py:66).
THEOREM CheckpointsAreWhole == PipelineSpec => []CheckpointIsWhole
<1>1. ApartInv => CheckpointIsWhole
  BY DEF ApartInv, WholeInv, CheckpointIsWhole
<1> QED BY <1>1, ApartInvariant, PTL

\* A completed execution stays completed, and as it is, while calls do not overlap and
\* its id is not executed again (swarm_pipeline_engine.py:733).
THEOREM CompletionIsFinal == PipelineSpec => CompletedStays
<1>1. PipelineInv /\ ApartInv /\ [PipelineNext]_pipelineVars =>
        [apart' /\ ~reused' /\ file.status = "completed" => file' = file]_pipelineVars
  BY WholeStep, ApartBefore, ReusedBefore DEF ApartInv, Held
<1> QED BY <1>1, PipelineInvariant, ApartInvariant, PTL DEF PipelineSpec, CompletedStays

===============================================================================
