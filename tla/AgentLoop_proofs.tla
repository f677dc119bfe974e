---------------------------- MODULE AgentLoop_proofs ----------------------------
(***************************************************************************)
(* Proofs about AgentLoop for every set of files, texts, tools and goals,  *)
(* every suite and every bound.  What may be touched and what the ledger   *)
(* means hold with writes that fail half way; what is said of the tree's   *)
(* tests needs that writes are whole (Faults = FALSE).                     *)
(***************************************************************************)
EXTENDS AgentLoop, TLAPS

\* A run that goes on has neither limit behind it.
WithinLimits ==
  outcome = "running" => parseFailures <= MaxParseRetries /\ spent <= MaxToolCalls

\* A repair has no image of a test file to put back, unless an edit slipped by.
NoTestIsPatched ==
  allowWrite /\ goal = "repair" =>
    \A f \in TestFiles \ slipped : \A k \in Keys : snapshot[f][k] = Untouched

HasImage(f) == \E k \in Keys : snapshot[f][k] # Untouched

\* With whole writes, one of the images of a patched file is that of the tree the run
\* was given, every file that has changed has one, and only a landed edit changes one.
SnapshotIsInitial ==
  \A f \in Files :
    /\ HasImage(f) => \E k \in Keys : snapshot[f][k] = InitialDisk[f]
    /\ disk[f] # InitialDisk[f] => HasImage(f) /\ allowWrite /\ succeeded

\* A verdict says whether there is a suite.
VerdictHasSuite ==
  /\ verdict \in {"PASSED", "FAILED", "OTHER"} => hasTests
  /\ verdict = "NO_COMMAND" => ~hasTests

\* A revert-check was made on a repair with a suite.
RevertIsOfRepair ==
  revert # "none" => allowWrite /\ succeeded /\ goal = "repair" /\ hasTests

SuiteType == suite \in [[Tested -> Contents] -> {"PASSED", "FAILED"}]

LoopInv == LoopTypeOK /\ SuiteType /\ WithinLimits
GuardInv == LoopInv /\ NoTestIsPatched /\ TreeIsGuarded
TreeInv == LoopInv /\ SnapshotIsInitial /\ VerdictHasSuite /\ VerdictIsCurrent
             /\ RevertIsOfRepair /\ EveryChangeIsTested /\ ProvenRepair

-------------------------------------------------------------------------------
\* What a call names.
LEMMA CallFacts ==
  ASSUME NEW c \in Calls
  PROVE  /\ c.tool \in {"patch_file", "write_file"} =>
              c.file \in Files /\ c.text \in Texts /\ KeyOf(c.spelling) \in Keys
         /\ c.tool = "forge_tool" => c.file = Absent
BY DEF Calls, Call, Keys

\* What an edit of one file can leave.
LEMMA WroteFacts ==
  ASSUME NEW c \in Calls, NEW tree \in [Files -> Contents],
         c.tool \in {"patch_file", "write_file"}
  PROVE  /\ Wrote(tree, c) \in [Files -> Contents]
         /\ \A f \in Files : f # c.file => Wrote(tree, c)[f] = tree[f]
         /\ Faults => Tore(tree, c) \in [Files -> Contents]
         /\ \A f \in Files : f # c.file => Tore(tree, c)[f] = tree[f]
<1>1. c.file \in Files /\ c.text \in Contents
  BY CallFacts DEF Contents
<1>2. Faults => Damaged \in Contents
  BY DEF Contents
<1> QED BY <1>1, <1>2 DEF Wrote, Tore

\* An edit the guard has let through, or the call itself.
LetThrough(c, e) ==
  /\ e \in Calls /\ e.tool \in {"patch_file", "write_file"}
  /\ e = c \/ ~LooksLikeTest(e.file, e.spelling)

\* Every file that differs from the tree before was named by an edit of d.
NamedBy(c, tree, d) ==
  \A f \in Files : tree[f] # disk[f] => \E e \in d : LetThrough(c, e) /\ e.file = f

\* What a handler can report and do: it changes the tree by edits that were let
\* through, with the switch on; with whole writes by one edit, which it reports "ok"
\* and before which it took the image.
ResultFacts(c, r) ==
  /\ r.call \in Calls /\ r.call.tool = c.tool
  /\ r.disk \in [Files -> Contents]
  /\ r.passed \in BOOLEAN
  /\ c.tool \notin {"patch_file", "write_file"} => r.disk = disk
  /\ c.tool \in {"patch_file", "write_file"} => r.image \in Contents
  /\ ~allowWrite => r.disk = disk
  /\ NamedBy(c, r.disk, r.done)
  /\ r.call = c \/ ~LooksLikeTest(r.call.file, r.call.spelling)
  /\ r.obs # "crashed" => r.call \in r.done
  /\ ~Faults /\ r.disk # disk => r.obs = "ok"
  /\ ~Faults => \A f \in Files : f # r.call.file => r.disk[f] = disk[f]
  /\ ~Faults /\ c.tool \in {"patch_file", "write_file"} => r.image = disk[r.call.file]

\* What an edit of a tree reports and leaves of it.
LEMMA EditCases ==
  ASSUME NEW c \in Calls, NEW tree, NEW r \in EditResults(c, tree)
  PROVE  \/ \E obs \in {"refused", "failed", "rejected"} : r = Result(obs, c, tree)
         \/ allowWrite /\ r = Result("ok", c, Wrote(tree, c))
         \/ Faults /\ allowWrite /\ r = Result("failed", c, Tore(tree, c))
BY Zenon DEF EditResults

LEMMA EditFacts ==
  ASSUME LoopTypeOK, NEW c \in Calls, c.tool \in {"patch_file", "write_file"},
         NEW r \in EditResults(c, disk)
  PROVE  ResultFacts(c, r)
<1>1. /\ disk \in [Files -> Contents] /\ allowWrite \in BOOLEAN
      /\ c.file \in Files /\ disk[c.file] \in Contents
  BY CallFacts DEF LoopTypeOK
<1>2. ASSUME NEW obs, r = Result(obs, c, disk) PROVE ResultFacts(c, r)
  <2>1. /\ r.call = c /\ r.disk = disk /\ r.passed = FALSE /\ r.done = {c}
        /\ r.image = disk[c.file]
    BY <1>1, <1>2 DEF Result
  <2> QED BY <1>1, <2>1 DEF ResultFacts, NamedBy
<1>3. ASSUME NEW obs, NEW tree \in [Files -> Contents], r = Result(obs, c, tree), allowWrite,
             \A f \in Files : f # c.file => tree[f] = disk[f], ~Faults => obs = "ok"
      PROVE  ResultFacts(c, r)
  <2>1. /\ r.obs = obs /\ r.call = c /\ r.disk = tree /\ r.passed = FALSE /\ r.done = {c}
        /\ r.image = disk[c.file]
    BY <1>1, <1>3 DEF Result
  <2>2. NamedBy(c, tree, {c})
    BY <1>3 DEF NamedBy, LetThrough
  <2> QED BY <1>1, <1>3, <2>1, <2>2 DEF ResultFacts
<1>4. CASE allowWrite /\ r = Result("ok", c, Wrote(disk, c))
  BY <1>1, <1>3, <1>4, WroteFacts
<1>5. CASE Faults /\ allowWrite /\ r = Result("failed", c, Tore(disk, c))
  BY <1>1, <1>3, <1>5, WroteFacts
<1> QED BY <1>2, <1>4, <1>5, EditCases

\* The end of a search: what it leaves was named by the candidates it tried.
LEMMA SearchFacts ==
  ASSUME LoopTypeOK, NEW c \in Calls, c.tool = "patch_file", allowWrite, NEW r \in Search(c)
  PROVE  ResultFacts(c, r)
<1> DEFINE Torn(d) == [f \in Files |-> IF f \in {e.file : e \in d} THEN Damaged ELSE disk[f]]
<1>1. /\ disk \in [Files -> Contents] /\ c.file \in Files /\ disk[c.file] \in Contents
  BY CallFacts DEF LoopTypeOK
<1>2. PICK d \in IF Faults THEN SUBSET Candidates ELSE {{}} :
        \/ r \in Wins(Torn(d), d)
        \/ Faults /\ r \in Stuck(c, Torn(d), d)
        \/ r \in {Searched(x, d, c) : x \in EditResults(c, Torn(d))}
  BY Zenon DEF Search
<1>3. /\ \A e \in Candidates : LetThrough(c, e) /\ e.tool = "patch_file" /\ e.file \in Files
                               /\ ~LooksLikeTest(e.file, e.spelling)
      /\ d \subseteq Candidates /\ (~Faults => d = {})
  BY <1>2, CallFacts DEF Candidates, LetThrough
<1>4. /\ Torn(d) \in [Files -> Contents] /\ (~Faults => Torn(d) = disk)
      /\ \A f \in Files : Torn(d)[f] # disk[f] => \E e \in d : e.file = f
  BY <1>1, <1>3 DEF Contents
<1> HIDE DEF Torn
\* One edit e on top of the torn tree.
<1>5. ASSUME NEW e, LetThrough(c, e), NEW tree \in [Files -> Contents],
             \A f \in Files : f # e.file => tree[f] = Torn(d)[f]
      PROVE  NamedBy(c, tree, d \cup {e})
  <2> SUFFICES ASSUME NEW f \in Files, tree[f] # disk[f]
               PROVE  \E x \in d \cup {e} : LetThrough(c, x) /\ x.file = f
    BY DEF NamedBy
  <2>1. CASE f = e.file
    BY <1>5, <2>1
  <2>2. CASE f # e.file
    <3>1. PICK x \in d : x.file = f
      BY <1>4, <1>5, <2>2
    <3> QED BY <1>3, <3>1
  <2> QED BY <2>1, <2>2
<1>6. CASE r \in Wins(Torn(d), d)
  <2>1. PICK e \in Candidates :
          r = [Searched(Result("ok", e, Wrote(Torn(d), e)), d, e) EXCEPT !.image = Torn(d)[e.file]]
    BY <1>6 DEF Wins
  <2>2. /\ r.obs = "ok" /\ r.call = e /\ r.disk = Wrote(Torn(d), e) /\ r.passed = FALSE
        /\ r.done = d \cup {e} /\ r.image = Torn(d)[e.file]
    BY <2>1 DEF Searched, Result
  <2>3. e \in Calls /\ LetThrough(c, e) /\ e.tool = "patch_file" /\ e.file \in Files
        /\ ~LooksLikeTest(e.file, e.spelling)
    BY <1>3 DEF LetThrough
  <2>4. /\ r.disk \in [Files -> Contents]
        /\ \A f \in Files : f # e.file => r.disk[f] = Torn(d)[f]
    BY <1>4, <2>2, <2>3, WroteFacts
  <2>5. NamedBy(c, r.disk, r.done)
    BY <1>5, <2>2, <2>3, <2>4
  <2>6. r.image \in Contents /\ (~Faults => r.image = disk[e.file])
    BY <1>4, <2>2, <2>3
  <2>7. ~Faults => \A f \in Files : f # r.call.file => r.disk[f] = disk[f]
    BY <1>4, <2>2, <2>4
  <2> QED BY <2>2, <2>3, <2>4, <2>5, <2>6, <2>7 DEF ResultFacts
<1>7. CASE Faults /\ r \in Stuck(c, Torn(d), d)
  <2>0. PICK e \in Candidates : \E left \in {Wrote(Torn(d), e), Tore(Torn(d), e)} :
          r = Searched(Result("crashed", c, left), d, e)
    BY <1>7 DEF Stuck
  <2>1. PICK left \in {Wrote(Torn(d), e), Tore(Torn(d), e)} :
          r = Searched(Result("crashed", c, left), d, e)
    BY <2>0
  <2>2. /\ r.obs = "crashed" /\ r.call = c /\ r.disk = left /\ r.passed = FALSE
        /\ r.done = d \cup {e} /\ r.image = disk[c.file]
    BY <1>1, <2>1 DEF Searched, Result
  <2>3. /\ left \in [Files -> Contents]
        /\ \A f \in Files : f # e.file => left[f] = Torn(d)[f]
    BY <1>3, <1>4, <1>7, <2>1, WroteFacts DEF LetThrough
  <2>4. NamedBy(c, r.disk, r.done)
    BY <1>3, <1>5, <2>2, <2>3
  <2> QED BY <1>1, <1>7, <2>2, <2>3, <2>4 DEF ResultFacts
<1>8. CASE r \in {Searched(x, d, c) : x \in EditResults(c, Torn(d))}
  <2>1. PICK x \in EditResults(c, Torn(d)) : r = Searched(x, d, c)
    BY <1>8
  <2>2. ASSUME NEW obs, NEW tree \in [Files -> Contents], x = Result(obs, c, tree),
               \A f \in Files : f # c.file => tree[f] = Torn(d)[f],
               ~Faults /\ tree # disk => obs = "ok"
        PROVE  ResultFacts(c, r)
    <3>1. /\ r.obs = obs /\ r.call = c /\ r.disk = tree /\ r.passed = FALSE
          /\ r.done = d \cup {c} /\ r.image = disk[c.file]
      BY <1>1, <2>1, <2>2 DEF Searched, Result
    <3>2. NamedBy(c, r.disk, r.done)
      BY <1>5, <2>2, <3>1 DEF LetThrough
    <3>3. ~Faults => \A f \in Files : f # c.file => r.disk[f] = disk[f]
      BY <1>4, <2>2, <3>1
    <3> QED BY <1>1, <2>2, <3>1, <3>2, <3>3 DEF ResultFacts
  <2>3. CASE \E obs \in {"refused", "failed", "rejected"} : x = Result(obs, c, Torn(d))
    BY <1>4, <2>2, <2>3
  <2>4. CASE x = Result("ok", c, Wrote(Torn(d), c))
    BY <1>4, <2>2, <2>4, WroteFacts
  <2>5. CASE Faults /\ x = Result("failed", c, Tore(Torn(d), c))
    BY <1>4, <2>2, <2>5, WroteFacts
  <2> QED BY <2>3, <2>4, <2>5, EditCases
<1> QED BY <1>2, <1>6, <1>7, <1>8

LEMMA ResultsAre ==
  ASSUME LoopTypeOK, NEW c \in Calls, NEW r \in Results(c)
  PROVE  ResultFacts(c, r)
<1>1. disk \in [Files -> Contents] /\ allowWrite \in BOOLEAN
  BY DEF LoopTypeOK
<1>2. c.tool \in {"patch_file", "write_file"} => c.file \in Files /\ disk[c.file] \in Contents
  BY <1>1, CallFacts
<1>3. CASE r = Result("crashed", c, disk)
  <2>1. /\ r.obs = "crashed" /\ r.call = c /\ r.disk = disk /\ r.passed = FALSE /\ r.done = {c}
        /\ c.file \in Files => r.image = disk[c.file]
    BY <1>3 DEF Result
  <2> QED BY <1>1, <1>2, <2>1 DEF ResultFacts, NamedBy
<1>4. CASE c.tool \in {"patch_file", "write_file"} /\ r \in EditResults(c, disk)
  BY <1>4, EditFacts
<1>5. CASE c.tool = "patch_file" /\ allowWrite /\ r \in Search(c)
  BY <1>5, SearchFacts
<1>6. CASE c.tool = "patch_file"
  BY <1>3, <1>4, <1>5, <1>6 DEF Results, SearchPatch
<1>7. CASE c.tool = "write_file"
  BY <1>3, <1>4, <1>7 DEF Results
<1>8. CASE c.tool \notin {"patch_file", "write_file"}
  <2>1. ASSUME NEW obs, NEW p \in BOOLEAN, r = [Result(obs, c, disk) EXCEPT !.passed = p]
        PROVE  ResultFacts(c, r)
    <3>1. r.call = c /\ r.disk = disk /\ r.passed = p /\ r.done = {c}
      BY <2>1 DEF Result
    <3> QED BY <1>1, <1>8, <3>1 DEF ResultFacts, NamedBy
  <2>2. ASSUME NEW obs, r = Result(obs, c, disk)
        PROVE  ResultFacts(c, r)
    <3>1. r.call = c /\ r.disk = disk /\ r.passed = FALSE /\ r.done = {c}
      BY <2>2 DEF Result
    <3> QED BY <1>1, <1>8, <3>1 DEF ResultFacts, NamedBy
  <2>3. CASE c.tool = "forge_tool"
    <3>1. \/ r = Result("crashed", c, disk)
          \/ \E obs : r = Result(obs, c, disk)
      BY <2>3 DEF Results
    <3> QED BY <2>2, <3>1, Zenon
  <2>4. CASE c.tool = "run_tests"
    <3>1. \/ r = Result("crashed", c, disk)
          \/ \E t : r = [Result("ok", c, disk) EXCEPT !.passed = (t = "PASSED")]
      BY <2>4 DEF Results
    <3>2. \A t : (t = "PASSED") \in BOOLEAN
      OBVIOUS
    <3> QED BY <2>1, <2>2, <3>1, <3>2, Zenon
  <2>5. CASE c.tool \notin {"forge_tool", "run_tests"}
    <3>1. r = Result("crashed", c, disk) \/ r = Result("ok", c, disk)
      BY <1>8, <2>5 DEF Results
    <3> QED BY <2>2, <3>1, Zenon
  <2> QED BY <2>3, <2>4, <2>5
<1> QED BY <1>6, <1>7, <1>8

\* A step of a call, seen from its result.
LEMMA CallStep ==
  ASSUME LoopTypeOK, NEW c \in Calls, CallTool(c)
  PROVE  \E r \in Results(c) :
           /\ ResultFacts(c, r) /\ disk' = r.disk /\ Account(r) /\ RecordEvidence(r)
           /\ ~EditsTest(c) /\ Running /\ UNCHANGED <<env, revert>>
           /\ slipped' = slipped \cup Hidden(r.done)
BY ResultsAre DEF CallTool

-------------------------------------------------------------------------------
LEMMA BoundsAreNat ==
  MaxSteps \in Nat /\ MinActions \in Nat /\ MaxParseRetries \in Nat /\ MaxToolCalls \in Nat
BY LoopAssumption

\* The initial state.
LEMMA LoopInit == Init => LoopInv
<1> SUFFICES ASSUME Init PROVE LoopInv
  OBVIOUS
<1>1. /\ disk \in [Files -> Contents] /\ slipped \subseteq TestFiles
      /\ snapshot \in [Files -> [Keys -> Contents \cup {Untouched}]]
  BY DEF Init, InitialDisk, Contents
<1>2. /\ step \in 1 .. (MaxSteps + 1) /\ parseFailures \in 0 .. (MaxParseRetries + 1)
      /\ actions \in 0 .. MinActions /\ spent \in 0 .. (MaxToolCalls + 1)
      /\ parseFailures <= MaxParseRetries /\ spent <= MaxToolCalls
  <2>1. step = 1 /\ parseFailures = 0 /\ actions = 0 /\ spent = 0
    BY DEF Init
  <2> QED BY <2>1, BoundsAreNat
<1>3. /\ goal \in Goals /\ allowWrite \in BOOLEAN /\ hasTests \in BOOLEAN
      /\ attempted \in BOOLEAN /\ succeeded \in BOOLEAN
      /\ testRead \in BOOLEAN /\ wrote \in BOOLEAN
  BY DEF Init
<1>4. /\ outcome \in {"running", "success", "failed"}
      /\ label \in {"", "tests passed", "NOT verified"}
      /\ verdict \in Verdicts /\ coverage \in {"none", "TRUE", "FALSE", "UNKNOWN"}
      /\ seen \subseteq Calls /\ ledger \in TaskState /\ evidence \subseteq EvidenceKind
      /\ revert \in {"none", "TRUE", "FALSE", "UNKNOWN"}
  BY DEF Init, Verdicts, TaskState
<1>5. LoopTypeOK
  BY <1>1, <1>2, <1>3, <1>4, Zenon DEF LoopTypeOK
<1>6. SuiteType /\ WithinLimits
  BY <1>2 DEF Init, SuiteType, WithinLimits
<1> QED BY <1>5, <1>6 DEF LoopInv

\* What a step that runs no tool and checks nothing keeps.
LEMMA LoopStays ==
  ASSUME LoopInv, UNCHANGED <<env, disk, acct, verdict, coverage, evidence, spent, hist>>,
         step' \in 1 .. (MaxSteps + 1), parseFailures' \in 0 .. (MaxParseRetries + 1),
         outcome' \in {"running", "success", "failed"}, label' = label, ledger' \in TaskState,
         outcome' = "running" => outcome = "running" /\ parseFailures' <= MaxParseRetries
  PROVE  LoopInv'
<1>1. LoopTypeOK /\ SuiteType /\ WithinLimits
  BY DEF LoopInv
<1>2. /\ goal' = goal /\ allowWrite' = allowWrite /\ suite' = suite /\ hasTests' = hasTests
      /\ attempted' = attempted /\ succeeded' = succeeded /\ actions' = actions
      /\ testRead' = testRead /\ seen' = seen /\ snapshot' = snapshot
      /\ wrote' = wrote /\ revert' = revert /\ disk' = disk /\ verdict' = verdict
      /\ slipped' = slipped
      /\ coverage' = coverage /\ evidence' = evidence /\ spent' = spent
  BY DEF env, acct, hist
<1>3. LoopTypeOK'
  <2>1. /\ goal' \in Goals /\ allowWrite' \in BOOLEAN /\ hasTests' \in BOOLEAN
        /\ attempted' \in BOOLEAN /\ succeeded' \in BOOLEAN
        /\ testRead' \in BOOLEAN /\ wrote' \in BOOLEAN
    BY <1>1, <1>2 DEF LoopTypeOK
  <2>2. /\ disk' \in [Files -> Contents] /\ actions' \in 0..MinActions
        /\ verdict' \in Verdicts /\ coverage' \in {"none", "TRUE", "FALSE", "UNKNOWN"}
        /\ snapshot' \in [Files -> [Keys -> Contents \cup {Untouched}]] /\ seen' \subseteq Calls
    BY <1>1, <1>2 DEF LoopTypeOK
  <2>3. /\ label' \in {"", "tests passed", "NOT verified"} /\ evidence' \subseteq EvidenceKind
        /\ spent' \in 0..(MaxToolCalls + 1) /\ slipped' \subseteq TestFiles
        /\ revert' \in {"none", "TRUE", "FALSE", "UNKNOWN"}
    BY <1>1, <1>2 DEF LoopTypeOK
  <2> QED BY <2>1, <2>2, <2>3, Zenon DEF LoopTypeOK
<1>4. SuiteType' /\ WithinLimits'
  BY <1>1, <1>2 DEF SuiteType, WithinLimits
<1> QED BY <1>3, <1>4 DEF LoopInv

\* A call keeps the types and the limits of a run that goes on.
LEMMA CallTyped ==
  ASSUME LoopInv, NEW c \in Calls, CallTool(c)
  PROVE  LoopInv'
<1> USE BoundsAreNat
<1>1. LoopTypeOK /\ SuiteType /\ WithinLimits
  BY DEF LoopInv
<1>2. PICK r \in Results(c) :
        /\ ResultFacts(c, r) /\ disk' = r.disk /\ Account(r) /\ RecordEvidence(r)
        /\ ~EditsTest(c) /\ Running /\ UNCHANGED <<env, revert>>
        /\ slipped' = slipped \cup Hidden(r.done)
  BY <1>1, CallStep
<1>3. /\ goal' \in Goals /\ allowWrite' \in BOOLEAN /\ hasTests' \in BOOLEAN
      /\ disk' \in [Files -> Contents] /\ revert' \in {"none", "TRUE", "FALSE", "UNKNOWN"}
      /\ SuiteType'
  BY <1>1, <1>2 DEF LoopTypeOK, env, ResultFacts, SuiteType
<1>4. /\ attempted' \in BOOLEAN /\ succeeded' \in BOOLEAN /\ testRead' \in BOOLEAN
  <2>1. attempted \in BOOLEAN /\ succeeded \in BOOLEAN /\ testRead \in BOOLEAN
    BY <1>1 DEF LoopTypeOK
  <2>2. Counted(r) \in BOOLEAN /\ Landed(r) \in BOOLEAN
    BY DEF Counted, Landed
  <2> QED BY <1>2, <2>1, <2>2 DEF Account
<1>5. actions' \in 0 .. MinActions
  <2>1. actions \in 0 .. MinActions
    BY <1>1 DEF LoopTypeOK
  <2>2. actions' = actions \/ (actions < MinActions /\ actions' = actions + 1)
    BY <1>2 DEF Account
  <2> QED BY <2>1, <2>2
<1>6. verdict' \in Verdicts /\ coverage' \in {"none", "TRUE", "FALSE", "UNKNOWN"}
  BY <1>1, <1>2 DEF LoopTypeOK, Account, VerdictAfter, Verdicts
<1>7. snapshot' \in [Files -> [Keys -> Contents \cup {Untouched}]]
  <2>1. snapshot \in [Files -> [Keys -> Contents \cup {Untouched}]]
    BY <1>1 DEF LoopTypeOK
  <2>2. Landed(r) => r.image \in Contents \/ r.call.file \notin Files
    <3>1. r.call.tool = "forge_tool" => r.call.file \notin Files
      BY <1>2, CallFacts, LoopAssumption DEF ResultFacts
    <3> QED BY <1>2, <3>1 DEF Landed, Counted, Edits, ResultFacts
  <2> QED BY <1>2, <2>1, <2>2 DEF Account, SnapshotAfter
<1>8. seen' \subseteq Calls
  BY <1>1, <1>2 DEF LoopTypeOK, Account, ResultFacts
<1>9. evidence' \subseteq EvidenceKind
  <2>1. EvidenceOf(r) \subseteq EvidenceKind
    BY DEF EvidenceOf, EvidenceKind
  <2> QED BY <1>1, <1>2, <2>1 DEF LoopTypeOK, RecordEvidence, led
<1>10. /\ ledger' \in TaskState /\ spent' \in 0 .. MaxToolCalls + 1
       /\ step' \in 1 .. MaxSteps + 1 /\ outcome' \in {"running", "failed"}
       /\ label' = label
       /\ outcome' = "running" => spent' <= MaxToolCalls
  <2>1. /\ ledger \in TaskState /\ spent \in 0 .. MaxToolCalls + 1 /\ spent <= MaxToolCalls
        /\ step \in 1 .. MaxSteps + 1 /\ step <= MaxSteps /\ outcome = "running"
    BY <1>1, <1>2 DEF LoopTypeOK, WithinLimits, Running
  <2>2. CASE RequireEvidence
    BY <1>2, <2>1, <2>2 DEF RecordEvidence, NextStep, Fail, TaskState
  <2>3. CASE ~RequireEvidence
    BY <1>2, <2>1, <2>3 DEF RecordEvidence, NextStep, led
  <2> QED BY <2>2, <2>3
<1>11. parseFailures' = 0 /\ parseFailures' \in 0 .. (MaxParseRetries + 1)
       /\ parseFailures' <= MaxParseRetries
  BY BoundsAreNat DEF CallTool
<1>12. wrote' \in BOOLEAN /\ slipped' \subseteq TestFiles
  <2>1. Hidden(r.done) \subseteq TestFiles
    BY DEF Hidden
  <2> QED BY <1>1, <1>2, <2>1 DEF CallTool, LoopTypeOK
<1>13. label' \in {"", "tests passed", "NOT verified"}
       /\ outcome' \in {"running", "success", "failed"}
  BY <1>1, <1>10 DEF LoopTypeOK
<1>14. LoopTypeOK'
  BY <1>3, <1>4, <1>5, <1>6, <1>7, <1>8, <1>9, <1>10, <1>11, <1>12, <1>13, Zenon DEF LoopTypeOK
<1>15. WithinLimits'
  BY <1>10, <1>11 DEF WithinLimits
<1> QED BY <1>3, <1>14, <1>15 DEF LoopInv

\* A finish ends the run, or goes on with the next step; it keeps what a run has done.
LEMMA FinishFacts ==
  ASSUME LoopInv, Finish
  PROVE  /\ disk' \in [Files -> Contents]
         /\ UNCHANGED <<env, parseFailures, acct, wrote, slipped, evidence, spent>>
         /\ step' \in 1 .. MaxSteps + 1
         /\ outcome' \in {"running", "success", "failed"}
         /\ label' \in {"", "tests passed", "NOT verified"}
         /\ verdict' \in Verdicts
         /\ coverage' \in {"none", "TRUE", "FALSE", "UNKNOWN"}
         /\ ledger' \in TaskState
         /\ revert' \in {"none", "TRUE", "FALSE", "UNKNOWN"}
<1> USE BoundsAreNat
<1>1. /\ LoopTypeOK /\ SuiteType /\ step \in 1 .. MaxSteps + 1 /\ step <= MaxSteps
      /\ outcome = "running" /\ disk \in [Files -> Contents]
  BY DEF LoopInv, LoopTypeOK, Finish, Running
<1>2. ASSUME NextStep PROVE step' \in 1 .. MaxSteps + 1 /\ outcome' = outcome /\ label' = label
  BY <1>1, <1>2 DEF NextStep
<1>3. ASSUME NEW v, Succeed(v)
      PROVE  /\ outcome' = "success" /\ label' \in {"", "tests passed", "NOT verified"}
             /\ ledger' \in TaskState /\ UNCHANGED <<step, evidence, spent>>
  BY <1>1, <1>3 DEF Succeed, Accept, VerificationLabel, LoopTypeOK, TaskState
<1>4. VerdictNow \subseteq Verdicts
  <2>1. Source(disk) \in [Tested -> Contents]
    BY <1>1, LoopAssumption DEF Source
  <2> QED BY <1>1, <2>1 DEF VerdictNow, TestRun, Verdicts, SuiteType, LoopTypeOK
<1>5. CoverageNow \subseteq {"none", "TRUE", "FALSE", "UNKNOWN"}
  BY <1>1 DEF CoverageNow, LoopTypeOK
<1>6. RevertVerdicts \subseteq {"TRUE", "FALSE", "UNKNOWN"}
  BY DEF RevertVerdicts
<1>7. ASSUME RevertError
      PROVE  /\ disk' \in [Files -> Contents] /\ outcome' = "failed"
             /\ UNCHANGED <<step, label, led, coverage, revert>>
  BY <1>7 DEF RevertError, Fail
<1>8. ASSUME NEW v \in Verdicts, ProvePatch(v)
      PROVE  /\ disk' \in [Files -> Contents]
             /\ UNCHANGED <<evidence, spent>>
             /\ step' \in 1 .. MaxSteps + 1
             /\ outcome' \in {"running", "success", "failed"}
             /\ label' \in {"", "tests passed", "NOT verified"}
             /\ coverage' \in {"none", "TRUE", "FALSE", "UNKNOWN"}
             /\ ledger' \in TaskState
             /\ revert' \in {"none", "TRUE", "FALSE", "UNKNOWN"}
  <2>1. CASE RevertError
    BY <1>1, <1>7, <2>1 DEF LoopTypeOK, led
  <2>2. ASSUME NEW t \in RevertVerdicts, revert' = t, UNCHANGED disk,
               \/ t = "FALSE" /\ NextStep /\ UNCHANGED <<led, coverage>>
               \/ /\ t # "FALSE" /\ coverage' \in CoverageNow
                  /\ IF coverage' = "FALSE" THEN NextStep /\ UNCHANGED led ELSE Succeed(v)
        PROVE  /\ disk' \in [Files -> Contents]
               /\ UNCHANGED <<evidence, spent>>
               /\ step' \in 1 .. MaxSteps + 1
               /\ outcome' \in {"running", "success", "failed"}
               /\ label' \in {"", "tests passed", "NOT verified"}
               /\ coverage' \in {"none", "TRUE", "FALSE", "UNKNOWN"}
               /\ ledger' \in TaskState
               /\ revert' \in {"none", "TRUE", "FALSE", "UNKNOWN"}
    <3>1. revert' \in {"TRUE", "FALSE", "UNKNOWN"} /\ disk' \in [Files -> Contents]
      BY <1>1, <1>6, <2>2
    <3>2. CASE NextStep /\ UNCHANGED led /\ coverage' \in {"none", "TRUE", "FALSE", "UNKNOWN"}
      BY <1>1, <1>2, <3>1, <3>2 DEF LoopTypeOK, led
    <3>3. CASE Succeed(v) /\ coverage' \in {"none", "TRUE", "FALSE", "UNKNOWN"}
      BY <1>1, <1>3, <3>1, <3>3
    <3> QED BY <1>1, <1>5, <2>2, <3>2, <3>3 DEF LoopTypeOK
  <2> QED BY <1>8, <2>1, <2>2 DEF ProvePatch
<1>9. UNCHANGED <<env, parseFailures, acct, wrote, slipped>>
  BY DEF Finish
<1>10. CASE RefusedOutright /\ NextStep /\ UNCHANGED <<disk, verdict, coverage, revert, led>>
  BY <1>1, <1>2, <1>9, <1>10 DEF LoopTypeOK, led
<1>11. ASSUME NEW v \in VerdictNow, verdict' = v,
              \/ NextStep /\ UNCHANGED <<disk, coverage, revert, led>>
              \/ ProvePatch(v)
              \/ Succeed(v) /\ UNCHANGED <<disk, coverage, revert>>
       PROVE  /\ disk' \in [Files -> Contents]
              /\ UNCHANGED <<env, parseFailures, acct, wrote, slipped, evidence, spent>>
              /\ step' \in 1 .. MaxSteps + 1
              /\ outcome' \in {"running", "success", "failed"}
              /\ label' \in {"", "tests passed", "NOT verified"}
              /\ verdict' \in Verdicts
              /\ coverage' \in {"none", "TRUE", "FALSE", "UNKNOWN"}
              /\ ledger' \in TaskState
              /\ revert' \in {"none", "TRUE", "FALSE", "UNKNOWN"}
  <2>1. v \in Verdicts
    BY <1>4
  <2>2. CASE NextStep /\ UNCHANGED <<disk, coverage, revert, led>>
    BY <1>1, <1>2, <1>9, <1>11, <2>1, <2>2 DEF LoopTypeOK, led
  <2>3. CASE ProvePatch(v)
    BY <1>8, <1>9, <1>11, <2>1, <2>3
  <2>4. CASE Succeed(v) /\ UNCHANGED <<disk, coverage, revert>>
    BY <1>1, <1>3, <1>9, <1>11, <2>1, <2>4 DEF LoopTypeOK
  <2> QED BY <1>11, <2>2, <2>3, <2>4
<1> QED BY <1>10, <1>11 DEF Finish

\* Every step keeps the types and the limits.
LEMMA LoopStep == LoopInv /\ [Next]_vars => LoopInv'
<1> SUFFICES ASSUME LoopInv, [Next]_vars PROVE LoopInv'
  OBVIOUS
<1> USE BoundsAreNat
<1>1. LoopTypeOK /\ SuiteType /\ WithinLimits
  BY DEF LoopInv
<1>2. CASE TimeoutOrModelError
  <2>1. UNCHANGED <<env, disk, acct, verdict, coverage, evidence, spent, hist>>
    BY <1>2 DEF TimeoutOrModelError, led
  <2>2. /\ step' = step /\ label' = label /\ outcome' = "failed"
        /\ parseFailures' = parseFailures /\ ledger' = ledger
    BY <1>2 DEF TimeoutOrModelError, Fail, led
  <2>3. /\ step \in 1 .. (MaxSteps + 1) /\ parseFailures \in 0 .. (MaxParseRetries + 1)
        /\ ledger \in TaskState
    BY <1>1 DEF LoopTypeOK
  <2> QED BY <2>1, <2>2, <2>3, LoopStays
<1>3. CASE Exhausted
  <2>1. /\ step \in 1 .. (MaxSteps + 1) /\ parseFailures \in 0 .. (MaxParseRetries + 1)
        /\ ledger \in TaskState
    BY <1>1 DEF LoopTypeOK
  <2>2. UNCHANGED <<env, disk, acct, verdict, coverage, evidence, spent, hist, parseFailures>>
    BY <1>3 DEF Exhausted
  <2>3. step' = step /\ label' = label /\ outcome' = "failed" /\ ledger' \in TaskState
    BY <1>3, <2>1 DEF Exhausted, Fail, FailLedger, TaskState
  <2> QED BY <2>1, <2>2, <2>3, LoopStays
<1>4. CASE NoBlock
  <2>1. /\ parseFailures \in 0 .. MaxParseRetries /\ step \in 1 .. MaxSteps
        /\ outcome = "running" /\ ledger \in TaskState
    <3>1. outcome = "running" /\ step <= MaxSteps
      BY <1>4 DEF NoBlock, Running
    <3>2. /\ step \in 1 .. (MaxSteps + 1) /\ parseFailures \in 0 .. (MaxParseRetries + 1)
          /\ ledger \in TaskState
      BY <1>1 DEF LoopTypeOK
    <3>3. parseFailures <= MaxParseRetries
      BY <1>1, <3>1 DEF WithinLimits
    <3> QED BY <3>1, <3>2, <3>3
  <2>2. /\ parseFailures' = parseFailures + 1
        /\ UNCHANGED <<env, disk, acct, verdict, coverage, evidence, spent, hist>>
    BY <1>4 DEF NoBlock
  <2>3. parseFailures' \in 0 .. (MaxParseRetries + 1)
    BY <2>1, <2>2
  <2>4. CASE parseFailures' > MaxParseRetries
    <3>1. step' = step /\ label' = label /\ outcome' = "failed" /\ ledger' \in TaskState
      BY <1>4, <2>1, <2>4 DEF NoBlock, Fail, FailLedger, TaskState
    <3>2. step' \in 1 .. (MaxSteps + 1)
      BY <2>1, <3>1
    <3> QED BY <2>2, <2>3, <3>1, <3>2, LoopStays
  <2>5. CASE ~ (parseFailures' > MaxParseRetries)
    <3>1. step' = step + 1 /\ label' = label /\ outcome' = "running" /\ ledger' \in TaskState
      BY <1>4, <2>1, <2>5 DEF NoBlock, NextStep
    <3>2. step' \in 1 .. (MaxSteps + 1) /\ parseFailures' <= MaxParseRetries
      BY <2>1, <2>3, <2>5, <3>1
    <3> QED BY <2>1, <2>2, <2>3, <3>1, <3>2, LoopStays
  <2> QED BY <2>4, <2>5
<1>5. CASE Finish
  <2>1. outcome = "running"
    BY <1>5 DEF Finish, Running
  <2> QED BY <1>1, <1>5, <2>1, FinishFacts DEF env, acct, LoopInv, LoopTypeOK, SuiteType, WithinLimits
<1>6. ASSUME NEW c \in Calls, RefuseCall(c) PROVE LoopInv'
  <2>1. step \in 1 .. MaxSteps /\ outcome = "running" /\ ledger \in TaskState
    <3>1. outcome = "running" /\ step <= MaxSteps
      BY <1>6 DEF RefuseCall, Running
    <3>2. step \in 1 .. (MaxSteps + 1) /\ ledger \in TaskState
      BY <1>1 DEF LoopTypeOK
    <3> QED BY <3>1, <3>2
  <2>2. /\ step' = step + 1 /\ parseFailures' = 0 /\ UNCHANGED <<outcome, label, ledger>>
        /\ UNCHANGED <<env, disk, acct, verdict, coverage, evidence, spent, hist>>
    BY <1>6 DEF RefuseCall, NextStep, led
  <2>3. /\ step' \in 1 .. (MaxSteps + 1) /\ parseFailures' \in 0 .. (MaxParseRetries + 1)
        /\ parseFailures' <= MaxParseRetries
    BY <2>1, <2>2
  <2> QED BY <2>1, <2>2, <2>3, LoopStays
<1>7. ASSUME NEW c \in Calls, CallTool(c) PROVE LoopInv'
  BY <1>7, CallTyped
<1>8. CASE UNCHANGED vars
  <2>1. /\ step' = step /\ parseFailures' = parseFailures /\ UNCHANGED <<outcome, label, ledger>>
        /\ UNCHANGED <<env, disk, acct, verdict, coverage, evidence, spent, hist>>
    BY <1>8 DEF vars, led
  <2>2. /\ step \in 1 .. (MaxSteps + 1) /\ parseFailures \in 0 .. (MaxParseRetries + 1)
        /\ outcome \in {"running", "success", "failed"} /\ ledger \in TaskState
        /\ outcome = "running" => parseFailures <= MaxParseRetries
    BY <1>1 DEF LoopTypeOK, WithinLimits
  <2> QED BY <2>1, <2>2, LoopStays
<1> QED BY <1>2, <1>3, <1>4, <1>5, <1>6, <1>7, <1>8 DEF Next

LEMMA LoopAlways == Spec => []LoopInv
BY LoopInit, LoopStep, PTL DEF Spec

\* Type correctness, and the limits on unreadable replies and tool calls, with
\* failing writes too.
THEOREM LoopTypeCorrect == Spec => []LoopTypeOK
BY LoopAlways, PTL DEF LoopInv

-------------------------------------------------------------------------------
(* What may be touched. *)

\* The steps that change the tree, the images or the switch.
LEMMA TreeSteps ==
  ASSUME [Next]_vars
  PROVE  \/ \E c \in Calls : CallTool(c)
         \/ Finish
         \/ UNCHANGED <<env, disk, acct, verdict, revert, slipped>>
BY DEF Next, TimeoutOrModelError, Exhausted, NoBlock, RefuseCall, hist, vars

\* A finish leaves the tree alone, or puts images back after a depth gate.
LEMMA FinishTree ==
  ASSUME Finish
  PROVE  disk' = disk \/ (allowWrite /\ goal = "repair" /\ RevertError)
BY DEF Finish, ProvePatch, DepthGates

\* No step writes the tree without the switch, or a test on a repair.
LEMMA GuardStep == GuardInv /\ [Next]_vars => GuardInv'
<1> SUFFICES ASSUME GuardInv, [Next]_vars PROVE GuardInv'
  OBVIOUS
<1> USE BoundsAreNat
<1>1. LoopInv /\ NoTestIsPatched /\ TreeIsGuarded /\ LoopTypeOK /\ LoopInv'
  BY LoopStep DEF GuardInv, LoopInv
<1>2. CASE UNCHANGED <<env, disk, acct, verdict, revert, slipped>>
  BY <1>1, <1>2 DEF env, acct, GuardInv, NoTestIsPatched, TreeIsGuarded
<1>3. ASSUME NEW c \in Calls, CallTool(c) PROVE GuardInv'
  <2>1. PICK r \in Results(c) :
          /\ ResultFacts(c, r) /\ disk' = r.disk /\ Account(r) /\ RecordEvidence(r)
          /\ ~EditsTest(c) /\ Running /\ UNCHANGED <<env, revert>>
          /\ slipped' = slipped \cup Hidden(r.done)
    BY <1>1, <1>3, CallStep
  <2>2. allowWrite' = allowWrite /\ goal' = goal
    BY <2>1 DEF env
  <2>3. ASSUME allowWrite, goal = "repair", NEW e \in r.done, LetThrough(c, e), e.file \in TestFiles
        PROVE  e.file \in slipped'
    <3>1. ~LooksLikeTest(e.file, e.spelling)
      BY <2>1, <2>3 DEF LetThrough, EditsTest
    <3> QED BY <2>1, <2>3, <3>1 DEF Hidden, LetThrough
  <2>4. NoTestIsPatched'
    <3> SUFFICES ASSUME allowWrite, goal = "repair", NEW f \in TestFiles, f \notin slipped',
                        NEW k \in Keys
                 PROVE  snapshot'[f][k] = Untouched
      BY <2>2 DEF NoTestIsPatched
    <3>1. ~ (Landed(r) /\ r.call.file = f)
      <4> SUFFICES ASSUME Landed(r), r.call.file = f PROVE FALSE
        OBVIOUS
      <4>1. r.call.tool # "forge_tool"
        BY <2>1, CallFacts, LoopAssumption DEF ResultFacts, Files
      <4>2. LetThrough(c, r.call) /\ r.call \in r.done
        BY <2>1, <4>1 DEF Landed, Counted, Edits, ResultFacts, LetThrough
      <4> QED BY <2>3, <4>2
    <3>2. f \in Files /\ snapshot[f][k] = Untouched
      BY <1>1, <2>1 DEF NoTestIsPatched, Files
    <3>3. snapshot' = SnapshotAfter(r)
      BY <2>1 DEF Account
    <3> QED BY <3>1, <3>2, <3>3 DEF SnapshotAfter
  <2>5. TreeIsGuarded'
    <3> SUFFICES ASSUME NEW f \in Files, ~allowWrite \/ (goal = "repair" /\ f \in TestFiles \ slipped')
                 PROVE  disk'[f] = InitialDisk[f]
      BY <2>2 DEF TreeIsGuarded, InitialDisk
    <3>1. disk[f] = InitialDisk[f]
      BY <1>1, <2>1 DEF TreeIsGuarded
    <3>2. CASE ~allowWrite
      BY <2>1, <3>1, <3>2 DEF ResultFacts
    <3>3. CASE allowWrite
      <4> SUFFICES ASSUME disk'[f] # disk[f] PROVE FALSE
        BY <3>1
      <4>1. PICK e \in r.done : LetThrough(c, e) /\ e.file = f
        BY <2>1 DEF ResultFacts, NamedBy
      <4> QED BY <2>3, <3>3, <4>1
    <3>4. allowWrite \in BOOLEAN
      BY <1>1 DEF LoopTypeOK
    <3> QED BY <3>2, <3>3, <3>4
  <2> QED BY <1>1, <2>4, <2>5 DEF GuardInv
<1>4. CASE Finish
  <2>1. UNCHANGED <<env, acct, slipped>>
    BY <1>4 DEF Finish
  <2>2. NoTestIsPatched'
    BY <1>1, <2>1 DEF env, acct, NoTestIsPatched
  <2>3. CASE disk' = disk
    BY <1>1, <2>1, <2>2, <2>3 DEF env, GuardInv, TreeIsGuarded, InitialDisk
  <2>4. CASE allowWrite /\ goal = "repair" /\ RevertError
    <3> SUFFICES ASSUME NEW f \in Files, f \in TestFiles \ slipped PROVE disk'[f] = InitialDisk[f]
      BY <1>1, <2>1, <2>2, <2>4 DEF env, GuardInv, TreeIsGuarded, InitialDisk
    <3>1. f \notin Patched /\ disk[f] = InitialDisk[f]
      BY <1>1, <2>4 DEF NoTestIsPatched, Patched, Images, TreeIsGuarded
    <3>2. disk'[f] = disk[f]
      BY <2>4, <3>1 DEF RevertError
    <3> QED BY <3>1, <3>2
  <2> QED BY <1>4, <2>3, <2>4, FinishTree
<1> QED BY <1>2, <1>3, <1>4, TreeSteps

\* _tool_patch_file, _search_patch, _revert_check: without --write the tree is never
\* touched, and on a repair no test is, by the model, a drawn candidate or a restore,
\* however their writes fail, unless an edit named it so that _is_test_path misses it.
THEOREM TreeStaysGuarded == Spec => []TreeIsGuarded
<1>1. Init => GuardInv
  <2> SUFFICES ASSUME Init PROVE GuardInv
    OBVIOUS
  <2>1. \A f \in Files, k \in Keys : snapshot[f][k] = Untouched
    BY DEF Init
  <2>2. TreeIsGuarded /\ TestFiles \subseteq Files
    BY DEF Init, TreeIsGuarded, Files
  <2> QED BY <2>1, <2>2, LoopInit DEF GuardInv, NoTestIsPatched
<1>2. GuardInv => TreeIsGuarded
  BY DEF GuardInv
<1> QED BY <1>1, <1>2, GuardStep, PTL DEF Spec

-------------------------------------------------------------------------------
(* What the ledger means. *)

LEMMA LedgerStep ==
  ASSUME LoopInv, LedgerAgrees, [Next]_vars
  PROVE  LedgerAgrees'
<1> SUFFICES ASSUME RequireEvidence PROVE LedgerAgrees'
  BY DEF LedgerAgrees
<1>1. /\ LoopTypeOK
      /\ ledger = "ACCEPTED" <=> outcome = "success"
      /\ outcome = "success" => Required \subseteq evidence
      /\ ledger = "FAILED" => outcome = "failed"
  BY DEF LedgerAgrees, Succeeded, LoopInv
<1>2. CASE UNCHANGED <<outcome, ledger, evidence>>
  BY <1>1, <1>2 DEF LedgerAgrees, Succeeded
<1>3. CASE /\ outcome = "running" /\ outcome' = "failed"
           /\ ledger' \in {ledger, "FAILED"}
  BY <1>1, <1>3 DEF LedgerAgrees, Succeeded
<1>4. CASE /\ outcome = "running" /\ outcome' = "running"
           /\ ledger' \in {ledger, "IMPLEMENTING"}
  BY <1>1, <1>4 DEF LedgerAgrees, Succeeded
<1>5. CASE TimeoutOrModelError
  BY <1>3, <1>5 DEF TimeoutOrModelError, Running, Fail, led
<1>6. CASE Exhausted
  BY <1>1, <1>3, <1>6 DEF Exhausted, Fail, FailLedger
<1>7. CASE NoBlock
  BY <1>1, <1>3, <1>4, <1>7 DEF NoBlock, Running, Fail, FailLedger, NextStep
<1>8. ASSUME NEW c \in Calls, RefuseCall(c) PROVE LedgerAgrees'
  BY <1>4, <1>8 DEF RefuseCall, Running, NextStep, led
<1>9. ASSUME NEW c \in Calls, CallTool(c) PROVE LedgerAgrees'
  <2>1. PICK r \in Results(c) : RecordEvidence(r) /\ outcome = "running"
    BY <1>9 DEF CallTool, Running
  <2> QED BY <1>3, <1>4, <2>1 DEF RecordEvidence, Fail, NextStep
<1>10. CASE Finish
  <2>1. outcome = "running"
    BY <1>10 DEF Finish, Running
  <2>2. CASE NextStep /\ UNCHANGED led
    BY <1>4, <2>1, <2>2 DEF NextStep, led
  <2>3. CASE RevertError
    BY <1>3, <2>1, <2>3 DEF RevertError, Fail, led
  <2>4. ASSUME NEW v, Succeed(v), ~EvidenceMissing PROVE LedgerAgrees'
    <3>1. Required \subseteq evidence
      BY <2>4 DEF EvidenceMissing
    <3>2. ledger # "FAILED"
      BY <1>1, <2>1
    <3> QED BY <2>4, <3>1, <3>2 DEF Succeed, Accept, LedgerAgrees, Succeeded
  <2>5. ASSUME NEW v, ProvePatch(v), ~EvidenceMissing PROVE LedgerAgrees'
    BY <2>2, <2>3, <2>4, <2>5 DEF ProvePatch
  <2>6. CASE RefusedOutright
    BY <1>10, <2>2, <2>6 DEF Finish
  <2>7. CASE ~RefusedOutright
    <3>1. ~EvidenceMissing
      BY <2>7 DEF RefusedOutright
    <3> QED BY <1>10, <2>2, <2>4, <2>5, <2>7, <3>1 DEF Finish
  <2> QED BY <2>6, <2>7
<1>11. CASE UNCHANGED vars
  BY <1>2, <1>11 DEF vars, led
<1> QED BY <1>5, <1>6, <1>7, <1>8, <1>9, <1>10, <1>11 DEF Next

\* EvidenceLedger.accept and fail, as the loop calls them: ACCEPTED is exactly a run
\* that succeeded, over all required evidence; a failed ledger is a failed run.
THEOREM LedgerAgreesAlways == Spec => []LedgerAgrees
<1>1. Init => LedgerAgrees
  BY DEF Init, LedgerAgrees, Succeeded
<1> QED BY <1>1, LoopAlways, LedgerStep, PTL DEF Spec

-------------------------------------------------------------------------------
(* What is said of the tests, as long as writes are whole. *)

\* What a run of the suite can say.
LEMMA TestRunFacts ==
  ASSUME SuiteType, hasTests \in BOOLEAN, NEW tree \in [Files -> Contents],
         NEW v \in TestRun(tree)
  PROVE  /\ v \in {"PASSED", "FAILED", "OTHER", "NO_COMMAND"}
         /\ v = "NO_COMMAND" <=> ~hasTests
         /\ v \in {"PASSED", "FAILED"} => v = suite[Source(tree)]
<1>1. Source(tree) \in [Tested -> Contents]
  BY LoopAssumption DEF Source
<1>2. suite[Source(tree)] \in {"PASSED", "FAILED"}
  BY <1>1 DEF SuiteType
<1> QED BY <1>2 DEF TestRun

\* A call keeps the images, and clears the verdict when it changes the tree.
LEMMA CallTree ==
  ASSUME ~Faults, TreeInv, NEW c \in Calls, CallTool(c)
  PROVE  TreeInv'
<1> USE BoundsAreNat
<1>1. LoopInv /\ LoopTypeOK /\ LoopInv' /\ LoopTypeOK'
  BY LoopStep DEF TreeInv, LoopInv, Next
<1>2. PICK r \in Results(c) :
        /\ ResultFacts(c, r) /\ disk' = r.disk /\ Account(r) /\ RecordEvidence(r)
        /\ ~EditsTest(c) /\ Running /\ UNCHANGED <<env, revert>>
        /\ slipped' = slipped \cup Hidden(r.done)
  BY <1>1, CallStep
<1>3. /\ goal' = goal /\ allowWrite' = allowWrite /\ suite' = suite /\ hasTests' = hasTests
      /\ revert' = revert
  BY <1>2 DEF env
<1>4. disk' # disk => allowWrite /\ Landed(r)
  <2>1. disk' # disk => r.obs = "ok" /\ r.call.tool \in {"patch_file", "write_file"} /\ allowWrite
    BY <1>2 DEF ResultFacts
  <2> QED BY <2>1 DEF Landed, Counted, Edits, ReadsAs
<1>5. \A f \in Files : disk'[f] # disk[f] => f = r.call.file
  BY <1>2 DEF ResultFacts
<1>6. SnapshotIsInitial'
  <2> SUFFICES ASSUME NEW f \in Files
               PROVE  /\ HasImage(f)' => \E k \in Keys : snapshot'[f][k] = InitialDisk[f]
                      /\ disk'[f] # InitialDisk[f] => HasImage(f)' /\ allowWrite /\ succeeded'
    BY <1>3 DEF SnapshotIsInitial, InitialDisk, HasImage
  <2>1. /\ HasImage(f) => \E k \in Keys : snapshot[f][k] = InitialDisk[f]
        /\ disk[f] # InitialDisk[f] => HasImage(f) /\ allowWrite /\ succeeded
    BY DEF TreeInv, SnapshotIsInitial
  <2>2. \A k \in Keys : snapshot'[f][k] =
          IF Landed(r) /\ r.call.file = f /\ KeyOf(r.call.spelling) = k /\ snapshot[f][k] = Untouched
          THEN r.image ELSE snapshot[f][k]
    BY <1>2 DEF Account, SnapshotAfter
  <2>3. InitialDisk[f] # Untouched /\ disk[f] # Untouched /\ succeeded' = (succeeded \/ Landed(r))
    BY <1>1, <1>2, LoopAssumption DEF LoopTypeOK, Contents, InitialDisk, Account
  <2>4. CASE HasImage(f)
    <3>1. PICK k \in Keys : snapshot[f][k] = InitialDisk[f]
      BY <2>1, <2>4
    <3>2. snapshot'[f][k] = InitialDisk[f]
      BY <2>2, <2>3, <3>1
    <3> QED BY <1>4, <2>1, <2>3, <3>2 DEF HasImage
  <2>5. CASE ~HasImage(f)
    <3>1. disk[f] = InitialDisk[f] /\ \A k \in Keys : snapshot[f][k] = Untouched
      BY <2>1, <2>5 DEF HasImage
    <3>2. CASE Landed(r) /\ r.call.file = f
      <4>1. r.call.tool \in {"patch_file", "write_file"}
        BY <1>2, <3>2, CallFacts, LoopAssumption DEF Landed, Counted, Edits, ResultFacts
      <4>2. r.image = disk[f] /\ KeyOf(r.call.spelling) \in Keys
        BY <1>2, <3>2, <4>1, CallFacts DEF ResultFacts
      <4>3. snapshot'[f][KeyOf(r.call.spelling)] = InitialDisk[f]
        BY <2>2, <3>1, <3>2, <4>2
      <4> QED BY <1>4, <2>3, <3>1, <4>2, <4>3 DEF HasImage
    <3>3. CASE ~ (Landed(r) /\ r.call.file = f)
      <4>1. disk'[f] = disk[f]
        BY <1>4, <1>5, <3>3
      <4>2. ~HasImage(f)'
        BY <2>2, <3>1, <3>3 DEF HasImage
      <4> QED BY <3>1, <4>1, <4>2
    <3> QED BY <3>2, <3>3
  <2> QED BY <2>4, <2>5
<1>7. VerdictIsCurrent' /\ VerdictHasSuite'
  <2>1. verdict' = IF Landed(r) THEN "none" ELSE verdict
    BY <1>2 DEF Account, VerdictAfter
  <2>2. CASE Landed(r)
    BY <2>1, <2>2 DEF VerdictIsCurrent, VerdictHasSuite
  <2>3. CASE ~Landed(r)
    BY <1>3, <1>4, <2>1, <2>3 DEF TreeInv, VerdictIsCurrent, VerdictHasSuite, Green, Source
  <2> QED BY <2>2, <2>3
<1>8. RevertIsOfRepair'
  BY <1>2, <1>3 DEF TreeInv, RevertIsOfRepair, Account
<1>9. outcome' # "success"
  BY <1>2 DEF RecordEvidence, NextStep, Fail, Running
<1> QED BY <1>1, <1>6, <1>7, <1>8, <1>9 DEF TreeInv, EveryChangeIsTested, ProvenRepair, Succeeded

\* The tree without its patch is the tree the run was given, if no file had two keys.
LEMMA RevertedIsInitial ==
  ASSUME TreeInv, OneSpelling, NEW tree \in RevertedTrees
  PROVE  tree = InitialDisk
<1>1. tree \in [Files -> Contents]
  BY DEF RevertedTrees
<1>2. ASSUME NEW f \in Files PROVE tree[f] = InitialDisk[f]
  <2>1. /\ HasImage(f) => \E k \in Keys : snapshot[f][k] = InitialDisk[f]
        /\ ~HasImage(f) => disk[f] = InitialDisk[f]
        /\ InitialDisk[f] # Untouched
    BY LoopAssumption DEF TreeInv, SnapshotIsInitial, InitialDisk
  <2>2. CASE HasImage(f)
    <3>1. PICK k \in Keys : snapshot[f][k] = InitialDisk[f]
      BY <2>1, <2>2
    <3>2. PICK m \in Keys : tree[f] = snapshot[f][m] /\ snapshot[f][m] # Untouched
      BY <2>1, <3>1 DEF RevertedTrees, Patched, Images
    <3> QED BY <2>1, <3>1, <3>2 DEF OneSpelling
  <2>3. CASE ~HasImage(f)
    <3>1. f \notin Patched
      BY <2>3 DEF HasImage, Patched, Images
    <3> QED BY <2>1, <2>3, <3>1 DEF RevertedTrees
  <2> QED BY <2>2, <2>3
<1> QED BY <1>1, <1>2 DEF InitialDisk

\* The verdict a finish goes by is current, and knows whether there is a suite.
LEMMA VerdictNowFacts ==
  ASSUME TreeInv, NEW v \in VerdictNow
  PROVE  /\ v = "PASSED" => Green
         /\ v \in {"PASSED", "FAILED", "OTHER"} => hasTests
         /\ v = "NO_COMMAND" => ~hasTests
         /\ AutoVerified => v # "none"
         /\ v \in Verdicts
<1>1. /\ LoopTypeOK /\ SuiteType /\ hasTests \in BOOLEAN /\ disk \in [Files -> Contents]
      /\ VerdictHasSuite /\ VerdictIsCurrent /\ verdict \in Verdicts
  BY DEF TreeInv, LoopInv, LoopTypeOK
<1>2. CASE AutoVerified /\ verdict = "none"
  <2>1. v \in TestRun(disk)
    BY <1>2 DEF VerdictNow
  <2> QED BY <1>1, <2>1, TestRunFacts DEF Green, Verdicts
<1>3. CASE ~ (AutoVerified /\ verdict = "none")
  <2>1. v = verdict
    BY <1>3 DEF VerdictNow
  <2> QED BY <1>1, <1>3, <2>1 DEF VerdictIsCurrent, VerdictHasSuite
<1> QED BY <1>2, <1>3

\* A finish that succeeds says of the tree what is true of it.
LEMMA FinishTruth ==
  ASSUME ~Faults, TreeInv, Finish
  PROVE  TreeInv'
<1> USE BoundsAreNat
<1>1. LoopInv /\ LoopTypeOK /\ LoopInv' /\ LoopTypeOK'
  BY LoopStep DEF TreeInv, LoopInv, Next
<1>2. /\ goal' = goal /\ allowWrite' = allowWrite /\ suite' = suite /\ hasTests' = hasTests
      /\ snapshot' = snapshot /\ succeeded' = succeeded /\ disk' = disk
      /\ outcome = "running" /\ hasTests \in BOOLEAN /\ disk \in [Files -> Contents]
      /\ SuiteType
  BY <1>1, FinishTree DEF Finish, env, acct, RevertError, Running, LoopTypeOK, LoopInv
<1>3. SnapshotIsInitial'
  BY <1>2 DEF TreeInv, SnapshotIsInitial, InitialDisk, HasImage
<1>4. Green' = Green
  BY <1>2 DEF Green, Source
<1>5. CASE RefusedOutright /\ NextStep /\ UNCHANGED <<verdict, revert>>
  BY <1>1, <1>2, <1>3, <1>4, <1>5 DEF TreeInv, VerdictHasSuite, VerdictIsCurrent,
    RevertIsOfRepair, EveryChangeIsTested, ProvenRepair, Succeeded, NextStep
<1>6. ASSUME NEW v \in VerdictNow, verdict' = v, ~Faults,
             \/ /\ Red(v) \/ (DepthGates(v) /\ ~testRead)
                /\ NextStep
                /\ UNCHANGED <<disk, coverage, revert, led>>
             \/ /\ ~Red(v) /\ DepthGates(v) /\ testRead
                /\ ProvePatch(v)
             \/ /\ ~Red(v) /\ ~DepthGates(v)
                /\ Succeed(v)
                /\ UNCHANGED <<disk, coverage, revert>>
      PROVE  TreeInv'
  <2>1. /\ v = "PASSED" => Green
        /\ v \in {"PASSED", "FAILED", "OTHER"} => hasTests
        /\ v = "NO_COMMAND" => ~hasTests
        /\ AutoVerified => v # "none"
        /\ v \in Verdicts
    BY <1>6, VerdictNowFacts
  <2>2. VerdictIsCurrent' /\ VerdictHasSuite'
    BY <1>2, <1>4, <1>6, <2>1 DEF VerdictIsCurrent, VerdictHasSuite
  <2>3. DepthGates(v) /\ ~Red(v) => v = "PASSED" /\ hasTests
    BY <2>1 DEF DepthGates, Red, AutoVerified, Verdicts
  <2>4. RevertIsOfRepair'
    <3>1. CASE revert' = revert
      BY <1>2, <3>1 DEF TreeInv, RevertIsOfRepair
    <3>2. CASE revert' # revert
      BY <1>2, <1>6, <2>3, <3>2 DEF RevertIsOfRepair, DepthGates
    <3> QED BY <3>1, <3>2
  <2>5. CASE outcome' # "success"
    BY <1>1, <1>3, <2>2, <2>4, <2>5 DEF TreeInv, EveryChangeIsTested, ProvenRepair, Succeeded
  <2>6. CASE outcome' = "success"
    <3>1. ~Red(v) /\ label' = VerificationLabel(v)
      BY <1>2, <1>6, <2>6 DEF NextStep, ProvePatch, Succeed, RevertError
    <3>2. EveryChangeIsTested'
      <4> SUFFICES ASSUME disk # InitialDisk, goal # "not_repair"
                   PROVE  IF hasTests THEN Green /\ label' = "tests passed"
                                      ELSE label' = "NOT verified"
        BY <1>2, <1>4 DEF EveryChangeIsTested, Succeeded, Changed, InitialDisk
      <4>1. allowWrite /\ succeeded
        <5>1. PICK f \in Files : disk[f] # InitialDisk[f]
          BY <1>2 DEF InitialDisk
        <5> QED BY <5>1 DEF TreeInv, SnapshotIsInitial
      <4>2. v \in {"PASSED", "NO_COMMAND"}
        BY <2>1, <3>1, <4>1 DEF Red, AutoVerified, Verdicts
      <4> QED BY <1>2, <2>1, <3>1, <4>2 DEF VerificationLabel
    <3>3. ProvenRepair'
      <4> SUFFICES ASSUME goal = "repair", revert' = "TRUE", OneSpelling
                   PROVE  Green /\ suite[Source(InitialDisk)] = "FAILED"
        BY <1>2, <1>4 DEF ProvenRepair, Succeeded, InitialDisk, Source, OneSpelling
      <4>1. DepthGates(v)
        <5>1. allowWrite /\ succeeded /\ hasTests
          BY <1>2, <2>4 DEF RevertIsOfRepair
        <5> QED BY <2>1, <5>1 DEF DepthGates
      <4>2. Green
        BY <2>1, <2>3, <3>1, <4>1
      <4>3. "TRUE" \in RevertVerdicts
        <5>1. ProvePatch(v) /\ ~RevertError
          BY <1>6, <2>6, <3>1, <4>1, <1>2 DEF RevertError, NextStep
        <5> QED BY <5>1 DEF ProvePatch
      <4>4. PICK tree \in RevertedTrees : "FAILED" \in TestRun(tree)
        BY <4>3 DEF RevertVerdicts
      <4>5. InitialDisk \in [Files -> Contents] /\ tree = InitialDisk
        BY RevertedIsInitial DEF InitialDisk, Contents
      <4>6. suite[Source(InitialDisk)] = "FAILED"
        BY <1>2, <4>4, <4>5, TestRunFacts
      <4> QED BY <4>2, <4>6
    <3> QED BY <1>1, <1>3, <2>2, <2>4, <3>2, <3>3 DEF TreeInv
  <2> QED BY <2>5, <2>6
<1> QED BY <1>5, <1>6 DEF Finish

\* The invariant holds as long as writes are whole.
LEMMA TreeAlways == ASSUME ~Faults PROVE Spec => []TreeInv
<1>1. Init => TreeInv
  <2> SUFFICES ASSUME Init PROVE TreeInv
    OBVIOUS
  <2>1. SnapshotIsInitial
    <3>1. disk = InitialDisk /\ \A f \in Files, k \in Keys : snapshot[f][k] = Untouched
      BY DEF Init
    <3> QED BY <3>1 DEF SnapshotIsInitial, HasImage
  <2>2. verdict = "none" /\ revert = "none" /\ outcome = "running"
    BY DEF Init
  <2> QED BY <2>1, <2>2, LoopInit DEF TreeInv, VerdictHasSuite, VerdictIsCurrent,
               RevertIsOfRepair, EveryChangeIsTested, ProvenRepair, Succeeded
<1>2. TreeInv /\ [Next]_vars => TreeInv'
  <2> SUFFICES ASSUME TreeInv, [Next]_vars PROVE TreeInv'
    OBVIOUS
  <2>1. ASSUME NEW c \in Calls, CallTool(c) PROVE TreeInv'
    BY <2>1, CallTree
  <2>2. CASE Finish
    BY <2>2, FinishTruth
  <2>3. CASE /\ UNCHANGED <<env, disk, acct, verdict, revert>>
             /\ outcome' # "success" \/ UNCHANGED <<outcome, label>>
    <3>1. LoopInv'
      BY LoopStep DEF TreeInv
    <3>2. /\ goal' = goal /\ allowWrite' = allowWrite /\ suite' = suite /\ hasTests' = hasTests
          /\ snapshot' = snapshot /\ succeeded' = succeeded /\ disk' = disk
          /\ verdict' = verdict /\ revert' = revert
      BY <2>3 DEF env, acct
    <3>3. Green' = Green /\ InitialDisk' = InitialDisk
      BY <3>2 DEF Green, Source, InitialDisk
    <3>4. EveryChangeIsTested' /\ ProvenRepair'
      <4>1. OneSpelling' = OneSpelling
        BY <3>2 DEF OneSpelling
      <4> QED BY <2>3, <3>2, <3>3, <4>1
            DEF TreeInv, EveryChangeIsTested, ProvenRepair, Succeeded, Changed, Source
    <3>5. SnapshotIsInitial'
      BY <3>2, <3>3 DEF TreeInv, SnapshotIsInitial, HasImage
    <3> QED BY <3>1, <3>2, <3>3, <3>4, <3>5 DEF TreeInv, VerdictHasSuite,
               VerdictIsCurrent, RevertIsOfRepair
  <2>4. \/ \E c \in Calls : CallTool(c)
        \/ Finish
        \/ /\ UNCHANGED <<env, disk, acct, verdict, revert>>
           /\ outcome' # "success" \/ UNCHANGED <<outcome, label>>
    BY DEF Next, TimeoutOrModelError, Exhausted, NoBlock, RefuseCall, hist, vars, Fail, NextStep
  <2> QED BY <2>1, <2>2, <2>3, <2>4
<1> QED BY <1>1, <1>2, PTL DEF Spec

\* auto_test_verdict: a cached pass of the suite is one of the tree as it is.
THEOREM VerdictStaysCurrent == ASSUME ~Faults PROVE Spec => []VerdictIsCurrent
<1>1. TreeInv => VerdictIsCurrent
  BY DEF TreeInv
<1> QED BY <1>1, TreeAlways, PTL

\* finish: a changed tree is reported a success over a green suite only, or as not
\* verified when there is no suite.
THEOREM ChangesAreTested == ASSUME ~Faults PROVE Spec => []EveryChangeIsTested
<1>1. TreeInv => EveryChangeIsTested
  BY DEF TreeInv
<1> QED BY <1>1, TreeAlways, PTL

\* _revert_check: a proven repair was red on the tree the run was given, and is green on
\* the one it leaves, whatever was patched how often, if no file was patched under two
\* keys.
THEOREM RepairsAreProven == ASSUME ~Faults PROVE Spec => []ProvenRepair
<1>1. TreeInv => ProvenRepair
  BY DEF TreeInv
<1> QED BY <1>1, TreeAlways, PTL
================================================================================
