------------------------------ MODULE Pbft_proofs ------------------------------
(***************************************************************************)
(* Proofs about Pbft for every number of replicas, set of proposals, set   *)
(* of sequence numbers, bound, and pattern of loss.  A signature counts as *)
(* any kind of message, so what a quorum stands for is what its correct    *)
(* members have signed; unless one of them strayed, that is what they hold *)
(* or, for a leader, what it proposed.  Two quorums of 3f + 1 replicas     *)
(* share a correct one.                                                    *)
(***************************************************************************)
EXTENDS Pbft, FiniteSetTheorems, TLAPS

\* A quorum whose correct members have signed d in round (v, s).
Backed(v, s, d) ==
  \E Q \in SUBSET Replicas :
    Cardinality(Q) >= Quorum /\ \A q \in Q \cap Correct : Signed(q, v, s, d)

\* Leaders propose; a Prepare names the proposal its sender holds, and who sends a
\* Commit holds one.
SignersHold ==
  \A m \in sent :
    /\ m.by \in Correct
    /\ m.kind = "PrePrepare" => m.by = Leader(m.view)
    /\ m.kind = "Prepare" => round[m.by][m.view][m.seq].digest = m.digest
    /\ m.kind = "Commit" => round[m.by][m.view][m.seq].digest # NoDigest

\* The Prepares of a correct replica that another one holds are signed.
TalliesAreSigned ==
  \A r, q \in Correct, v \in Views, s \in Sequences :
    round[r][v][s].prepares[q] # NoDigest => Signed(q, v, s, round[r][v][s].prepares[q])

\* A round past Idle has a proposal; past PrePrepared a quorum backs it.
PhasesAreBacked ==
  \A r \in Correct, v \in Views, s \in Sequences :
    /\ round[r][v][s].phase # "Idle" => round[r][v][s].digest \in Digests
    /\ round[r][v][s].phase \in {"Prepared", "Committed"} =>
         Backed(v, s, round[r][v][s].digest)

CommitsAreBacked ==
  \A r \in Correct : \A c \in committed[r] : Backed(c.view, c.seq, c.digest)

\* A correct leader that has not strayed has signed one proposal only, and holds no
\* other.
StrayedBy(l, v, s) ==
  \E m \in sent : /\ m.kind = "Commit" /\ m.by = l /\ m.view = v /\ m.seq = s
                 /\ round[l][v][s].digest # m.digest

LeadersAgree ==
  \A v \in Views, s \in Sequences :
    Leader(v) \in Correct /\ ~StrayedBy(Leader(v), v, s) =>
      /\ \A d, e \in Digests :
           Signed(Leader(v), v, s, d) /\ Signed(Leader(v), v, s, e) => d = e
      /\ round[Leader(v)][v][s].digest # NoDigest =>
           Signed(Leader(v), v, s, round[Leader(v)][v][s].digest)

\* A correct replica counted as asking for a view change has asked for one.
AskersAsked ==
  \A r, q \in Correct, v \in Views :
    q \in asked[r][v] => \E m \in changes : m.by = q

IInv == /\ PbftTypeOK
        /\ SignersHold
        /\ TalliesAreSigned
        /\ PhasesAreBacked
        /\ CommitsAreBacked
        /\ LeadersAgree
        /\ AskersAsked

\* While nobody is faulty, whatever is signed in a round was proposed, and once.
OneProposal ==
  /\ \A m \in sent : \E o \in sent : /\ o.kind = "PrePrepare" /\ o.digest = m.digest
                                   /\ o.view = m.view /\ o.seq = m.seq
  /\ \A m, o \in sent : m.kind = "PrePrepare" /\ o.kind = "PrePrepare"
                         /\ m.view = o.view /\ m.seq = o.seq => m.digest = o.digest

\* The step writes R to round (v, s) of r and leaves every other round.
WritesRound(r, v, s, R) ==
  \A q \in Correct, w \in Views, t \in Sequences :
    round'[q][w][t] = IF q = r /\ w = v /\ t = s THEN R ELSE round[q][w][t]

\* An accepted proposal stays accepted.
Keeps ==
  \A q \in Correct, w \in Views, t \in Sequences :
    round[q][w][t].digest # NoDigest => round'[q][w][t].digest = round[q][w][t].digest

-------------------------------------------------------------------------------
\* Replicas is a finite set of TotalNodes members.
LEMMA ReplicasFinite ==
  IsFiniteSet(Replicas) /\ Cardinality(Replicas) = TotalNodes
<1>1. TotalNodes - 1 \in Int /\ 0 \in Int
  BY ReplicasAssumption
<1> QED BY <1>1, FS_Interval, ReplicasAssumption DEF Replicas

LEMMA FaultBound == MaxFaults \in Nat /\ Quorum \in Nat /\ 3 * MaxFaults < TotalNodes
BY ReplicasAssumption DEF MaxFaults, Quorum

\* The steps that change a round, a message or a commit, one by one.
LEMMA StepCases ==
  ASSUME [Next]_vars
  PROVE  \/ \E r \in Correct, s \in Sequences, d \in Digests : Propose(r, s, d)
         \/ \E r \in Correct, s \in Sequences, d \in Digests : HandlePrePrepare(r, s, d)
         \/ \E r \in Correct, q \in Replicas, s \in Sequences, d \in Digests :
              HandlePrepare(r, q, s, d)
         \/ \E r \in Correct, q \in Replicas, s \in Sequences, d \in Digests :
              HandleCommit(r, q, s, d)
         \/ UNCHANGED <<round, sent, committed>>
BY DEF Next, vars, InitiateViewChange, HandleViewChange

\* What a write to one round of one replica leaves and changes.
LEMMA RoundWritten ==
  ASSUME round \in [Correct -> [Views -> [Sequences -> ConsensusRound]]],
         NEW r \in Correct, NEW v \in Views, NEW s \in Sequences,
         NEW R \in ConsensusRound,
         round' = [round EXCEPT ![r][v][s] = R]
  PROVE  /\ round' \in [Correct -> [Views -> [Sequences -> ConsensusRound]]]
         /\ WritesRound(r, v, s, R)
<1>1. round' \in [Correct -> [Views -> [Sequences -> ConsensusRound]]]
  OBVIOUS
<1>2. WritesRound(r, v, s, R)
  BY DEF WritesRound
<1> QED BY <1>1, <1>2

\* The initial state is typed, and nothing is signed, tallied or committed.
LEMMA IInvInit == Init => IInv
<1> SUFFICES ASSUME Init PROVE IInv
  OBVIOUS
<1>1. NewRound \in ConsensusRound /\ NewRound.phase = "Idle" /\ NewRound.digest = NoDigest
        /\ \A q \in Replicas : NewRound.prepares[q] = NoDigest
  BY DEF NewRound, ConsensusRound, ConsensusPhase, Votes
<1>2. PbftTypeOK
  BY <1>1, ReplicasAssumption DEF Init, PbftTypeOK, Views, Message, ViewChange
<1>3. SignersHold /\ CommitsAreBacked
  BY DEF Init, SignersHold, CommitsAreBacked
<1>4. TalliesAreSigned /\ PhasesAreBacked
  BY <1>1 DEF Init, TalliesAreSigned, PhasesAreBacked, Correct
<1>5. AskersAsked
  BY DEF Init, AskersAsked
<1>6. LeadersAgree
  BY <1>1 DEF Init, LeadersAgree, Signed
<1> QED BY <1>2, <1>3, <1>4, <1>5, <1>6 DEF IInv

-------------------------------------------------------------------------------
\* Each handler of a round, reduced to the one round it writes.

\* handle_pre_prepare takes the proposal, or keeps the one it has.
LEMMA PrePrepareWrites ==
  ASSUME PbftTypeOK, NEW r \in Correct, NEW s \in Sequences, NEW d \in Digests,
         HandlePrePrepare(r, s, d)
  PROVE  \E R \in ConsensusRound :
           /\ round' \in [Correct -> [Views -> [Sequences -> ConsensusRound]]]
           /\ WritesRound(r, view[r], s, R)
           /\ R.digest = d /\ R.phase = "PrePrepared"
           /\ R.prepares = round[r][view[r]][s].prepares
           /\ round[r][view[r]][s].digest \in {NoDigest, d}
<1> DEFINE v == view[r]
           rd == round[r][v][s]
           R == [rd EXCEPT !.digest = d, !.phase = "PrePrepared"]
<1>1. v \in Views /\ rd \in ConsensusRound
  BY DEF PbftTypeOK
<1>2. R \in ConsensusRound /\ R.digest = d /\ R.phase = "PrePrepared"
        /\ R.prepares = rd.prepares
  BY <1>1 DEF ConsensusRound, ConsensusPhase
<1>3. round' = [round EXCEPT ![r][v][s] = R] /\ rd.digest \in {NoDigest, d}
  BY DEF HandlePrePrepare, AcceptsProposal
<1>4. round \in [Correct -> [Views -> [Sequences -> ConsensusRound]]]
  BY DEF PbftTypeOK
<1> HIDE DEF R
<1>5. /\ round' \in [Correct -> [Views -> [Sequences -> ConsensusRound]]]
      /\ WritesRound(r, v, s, R)
  BY <1>1, <1>2, <1>3, <1>4, RoundWritten
<1> QED BY <1>2, <1>3, <1>5

\* What handle_prepare makes of round (view[r], s) and sends.
PrepareWrote(r, q, s, d, R) ==
  /\ WritesRound(r, view[r], s, R)
  /\ R.digest = round[r][view[r]][s].digest
  /\ R.prepares = [round[r][view[r]][s].prepares EXCEPT ![q] = d]
  /\ \/ R.phase = round[r][view[r]][s].phase /\ sent' = sent
     \/ /\ R.phase = "Prepared" /\ round[r][view[r]][s].phase = "PrePrepared"
        /\ HasQuorum(R.prepares, R.digest)
        /\ sent' = sent \cup {Msg("Commit", r, view[r], s, d)}

\* handle_prepare tallies one vote and moves on only with a quorum.
LEMMA PrepareWrites ==
  ASSUME PbftTypeOK, NEW r \in Correct, NEW q \in Replicas, NEW s \in Sequences,
         NEW d \in Digests, HandlePrepare(r, q, s, d)
  PROVE  /\ round' \in [Correct -> [Views -> [Sequences -> ConsensusRound]]]
         /\ \E R \in ConsensusRound : PrepareWrote(r, q, s, d, R)
<1> DEFINE v == view[r]
           rd == round[r][v][s]
           tally == [rd.prepares EXCEPT ![q] = d]
           prepared == rd.phase = "PrePrepared" /\ HasQuorum(tally, rd.digest)
           R == [rd EXCEPT !.prepares = tally,
                           !.phase = IF prepared THEN "Prepared" ELSE @]
<1>1. v \in Views /\ rd \in ConsensusRound
  BY DEF PbftTypeOK
<1>2. tally \in Votes
  BY <1>1 DEF ConsensusRound, Votes
<1>3. /\ round' = [round EXCEPT ![r][v][s] = R]
      /\ sent' = IF prepared THEN sent \cup {Msg("Commit", r, v, s, d)} ELSE sent
  BY DEF HandlePrepare
<1> HIDE DEF tally, prepared
<1>4. R \in ConsensusRound
  BY <1>1, <1>2 DEF ConsensusRound, ConsensusPhase
<1>5. R.digest = rd.digest /\ R.prepares = tally
        /\ R.phase = IF prepared THEN "Prepared" ELSE rd.phase
  BY <1>1 DEF ConsensusRound
<1>6. round \in [Correct -> [Views -> [Sequences -> ConsensusRound]]]
  BY DEF PbftTypeOK
<1> HIDE DEF R
<1>7. /\ round' \in [Correct -> [Views -> [Sequences -> ConsensusRound]]]
      /\ WritesRound(r, v, s, R)
  BY <1>1, <1>3, <1>4, <1>6, RoundWritten
<1>8. \/ R.phase = rd.phase /\ sent' = sent
      \/ /\ R.phase = "Prepared" /\ rd.phase = "PrePrepared"
         /\ HasQuorum(R.prepares, R.digest)
         /\ sent' = sent \cup {Msg("Commit", r, v, s, d)}
  BY <1>3, <1>5 DEF prepared
<1>9. R.prepares = [rd.prepares EXCEPT ![q] = d]
  BY <1>5 DEF tally
<1>10. PrepareWrote(r, q, s, d, R)
  BY <1>5, <1>7, <1>8, <1>9 DEF PrepareWrote
<1> QED BY <1>4, <1>7, <1>10

\* handle_commit tallies one vote and commits only what was Prepared.
LEMMA CommitWrites ==
  ASSUME PbftTypeOK, NEW r \in Correct, NEW q \in Replicas, NEW s \in Sequences,
         NEW d \in Digests, HandleCommit(r, q, s, d)
  PROVE  \E R \in ConsensusRound :
           /\ round' \in [Correct -> [Views -> [Sequences -> ConsensusRound]]]
           /\ WritesRound(r, view[r], s, R)
           /\ R.digest = round[r][view[r]][s].digest
           /\ R.prepares = round[r][view[r]][s].prepares
           /\ \/ R.phase = round[r][view[r]][s].phase /\ committed' = committed
              \/ /\ R.phase = "Committed" /\ round[r][view[r]][s].phase = "Prepared"
                 /\ committed' =
                      [committed EXCEPT ![r] =
                         @ \cup {[view |-> view[r], seq |-> s, digest |-> R.digest]}]
<1> DEFINE v == view[r]
           rd == round[r][v][s]
           tally == [rd.commits EXCEPT ![q] = d]
           commits == rd.phase = "Prepared" /\ HasQuorum(tally, rd.digest)
           R == [rd EXCEPT !.commits = tally,
                           !.phase = IF commits THEN "Committed" ELSE @]
<1>1. v \in Views /\ rd \in ConsensusRound
  BY DEF PbftTypeOK
<1>2. tally \in Votes
  BY <1>1 DEF ConsensusRound, Votes
<1>3. /\ round' = [round EXCEPT ![r][v][s] = R]
      /\ committed' = IF commits
                      THEN [committed EXCEPT ![r] =
                              @ \cup {[view |-> v, seq |-> s, digest |-> rd.digest]}]
                      ELSE committed
  BY DEF HandleCommit
<1>a. commits => rd.phase = "Prepared"
  OBVIOUS
<1> HIDE DEF tally, commits
<1>4. R \in ConsensusRound
  BY <1>1, <1>2 DEF ConsensusRound, ConsensusPhase
<1>5. R.digest = rd.digest /\ R.prepares = rd.prepares
        /\ R.phase = IF commits THEN "Committed" ELSE rd.phase
  BY <1>1 DEF ConsensusRound
<1>6. round \in [Correct -> [Views -> [Sequences -> ConsensusRound]]]
  BY DEF PbftTypeOK
<1> HIDE DEF R
<1>7. /\ round' \in [Correct -> [Views -> [Sequences -> ConsensusRound]]]
      /\ WritesRound(r, v, s, R)
  BY <1>1, <1>3, <1>4, <1>6, RoundWritten
<1>8. \/ R.phase = rd.phase /\ committed' = committed
      \/ /\ R.phase = "Committed" /\ rd.phase = "Prepared"
         /\ committed' = [committed EXCEPT ![r] =
                            @ \cup {[view |-> v, seq |-> s, digest |-> R.digest]}]
  BY <1>3, <1>5, <1>a
<1> QED BY <1>4, <1>5, <1>7, <1>8

-------------------------------------------------------------------------------
\* Every message a correct replica signs is well formed.
LEMMA MsgTyped ==
  ASSUME NEW kind \in {"PrePrepare", "Prepare", "Commit"}, NEW r \in Correct,
         NEW v \in Views, NEW s \in Sequences, NEW d \in Digests
  PROVE  Msg(kind, r, v, s, d) \in Message
BY DEF Msg, Message, Correct

\* PbftTypeOK: the types of the replicas' state, of the messages they have sent and
\* of what they have committed; a counter stops at MAX_VIEW_CHANGES.
LEMMA TypeStep ==
  ASSUME PbftTypeOK, PhasesAreBacked, [Next]_vars
  PROVE  PbftTypeOK'
<1>1. \A r \in Correct : view[r] \in Views
  BY DEF PbftTypeOK
<1>2. ASSUME NEW r \in Correct, NEW s \in Sequences, NEW d \in Digests, Propose(r, s, d)
      PROVE  PbftTypeOK'
  <2>1. Msg("PrePrepare", r, view[r], s, d) \in Message
    BY <1>1, MsgTyped
  <2> QED BY <1>2, <2>1 DEF PbftTypeOK, Propose
<1>3. ASSUME NEW r \in Correct, NEW s \in Sequences, NEW d \in Digests,
             HandlePrePrepare(r, s, d)
      PROVE  PbftTypeOK'
  <2>1. round' \in [Correct -> [Views -> [Sequences -> ConsensusRound]]]
    BY <1>3, PrePrepareWrites
  <2>2. Msg("Prepare", r, view[r], s, d) \in Message
    BY <1>1, MsgTyped
  <2> QED BY <1>3, <2>1, <2>2 DEF PbftTypeOK, HandlePrePrepare
<1>4. ASSUME NEW r \in Correct, NEW q \in Replicas, NEW s \in Sequences,
             NEW d \in Digests, HandlePrepare(r, q, s, d)
      PROVE  PbftTypeOK'
  <2>1. /\ round' \in [Correct -> [Views -> [Sequences -> ConsensusRound]]]
        /\ sent' = sent \/ sent' = sent \cup {Msg("Commit", r, view[r], s, d)}
    BY <1>4, PrepareWrites DEF PrepareWrote
  <2>2. Msg("Commit", r, view[r], s, d) \in Message
    BY <1>1, MsgTyped
  <2> QED BY <1>4, <2>1, <2>2 DEF PbftTypeOK, HandlePrepare
<1>5. ASSUME NEW r \in Correct, NEW q \in Replicas, NEW s \in Sequences,
             NEW d \in Digests, HandleCommit(r, q, s, d)
      PROVE  PbftTypeOK'
  <2> DEFINE Commits == [view : Views, seq : Sequences, digest : Digests]
  <2>1. PICK R \in ConsensusRound :
          /\ round' \in [Correct -> [Views -> [Sequences -> ConsensusRound]]]
          /\ R.digest = round[r][view[r]][s].digest
          /\ \/ committed' = committed
             \/ /\ round[r][view[r]][s].phase = "Prepared"
                /\ committed' =
                     [committed EXCEPT ![r] =
                        @ \cup {[view |-> view[r], seq |-> s, digest |-> R.digest]}]
    BY <1>5, CommitWrites
  <2>2. committed' \in [Correct -> SUBSET Commits]
    <3>1. CASE committed' = committed
      BY <3>1 DEF PbftTypeOK
    <3>2. CASE committed' # committed
      <4>1. R.digest \in Digests
        BY <1>1, <2>1, <3>2 DEF PhasesAreBacked
      <4>2. [view |-> view[r], seq |-> s, digest |-> R.digest] \in Commits
        BY <1>1, <4>1
      <4>3. committed \in [Correct -> SUBSET Commits]
        BY DEF PbftTypeOK
      <4> HIDE DEF Commits
      <4> QED BY <2>1, <3>2, <4>2, <4>3
    <3> QED BY <3>1, <3>2
  <2> QED BY <1>5, <2>1, <2>2 DEF PbftTypeOK, HandleCommit
<1>6. ASSUME NEW r \in Correct, InitiateViewChange(r)
      PROVE  PbftTypeOK'
  <2>1. r \in Replicas /\ view[r] + 1 \in Views
    BY <1>1, <1>6, ReplicasAssumption DEF InitiateViewChange, Correct, Views
  <2>2. [by |-> r, new_view |-> view[r] + 1] \in ViewChange
    BY <2>1 DEF ViewChange
  <2>3. changes' \subseteq ViewChange
    BY <1>6, <2>2 DEF InitiateViewChange, PbftTypeOK
  <2>4. changeCount' \in [Correct -> 0 .. MaxViewChanges]
    BY <1>6, ReplicasAssumption DEF InitiateViewChange, PbftTypeOK
  <2> QED BY <1>6, <2>3, <2>4 DEF PbftTypeOK, InitiateViewChange
<1>7. ASSUME NEW r \in Correct, NEW q \in Replicas, NEW v \in Views,
             HandleViewChange(r, q, v)
      PROVE  PbftTypeOK'
  <2>0. 0 \in 0 .. MaxViewChanges
    BY ReplicasAssumption
  <2>1. view' \in [Correct -> Views] /\ changeCount' \in [Correct -> 0 .. MaxViewChanges]
    <3>1. \/ view' = [view EXCEPT ![r] = v] /\ changeCount' = [changeCount EXCEPT ![r] = 0]
          \/ UNCHANGED <<view, changeCount>>
      BY <1>7 DEF HandleViewChange
    <3> QED BY <2>0, <3>1 DEF PbftTypeOK
  <2>2. asked' \in [Correct -> [Views -> SUBSET Replicas]]
    <3> DEFINE votes == asked[r][view[r]] \cup {q}
    <3>1. asked' = [asked EXCEPT ![r][view[r]] = votes]
      BY <1>7 DEF HandleViewChange
    <3>2. votes \in SUBSET Replicas
      BY <1>1 DEF PbftTypeOK
    <3>3. asked \in [Correct -> [Views -> SUBSET Replicas]]
      BY DEF PbftTypeOK
    <3> HIDE DEF votes
    <3> QED BY <3>1, <3>2, <3>3
  <2> QED BY <1>7, <2>1, <2>2 DEF PbftTypeOK, HandleViewChange
<1>8. CASE UNCHANGED vars
  BY <1>8 DEF PbftTypeOK, vars
<1> QED BY <1>2, <1>3, <1>4, <1>5, <1>6, <1>7, <1>8 DEF Next

-------------------------------------------------------------------------------
\* A step keeps accepted proposals.
LEMMA KeepsStep ==
  ASSUME PbftTypeOK, [Next]_vars
  PROVE  Keeps
<1>1. ASSUME NEW r \in Correct, NEW s \in Sequences, NEW d \in Digests,
             HandlePrePrepare(r, s, d)
      PROVE  Keeps
  BY <1>1, PrePrepareWrites DEF Keeps, WritesRound
<1>2. ASSUME NEW r \in Correct, NEW q \in Replicas, NEW s \in Sequences, NEW d \in Digests,
             HandlePrepare(r, q, s, d)
      PROVE  Keeps
  <2>1. PICK R \in ConsensusRound : PrepareWrote(r, q, s, d, R)
    BY <1>2, PrepareWrites
  <2> QED BY <2>1 DEF PrepareWrote, Keeps, WritesRound
<1>3. ASSUME NEW r \in Correct, NEW q \in Replicas, NEW s \in Sequences, NEW d \in Digests,
             HandleCommit(r, q, s, d)
      PROVE  Keeps
  BY <1>3, CommitWrites DEF Keeps, WritesRound
<1>4. round' = round => Keeps
  BY DEF Keeps
<1>5. ASSUME NEW r \in Correct, NEW s \in Sequences, NEW d \in Digests, Propose(r, s, d)
      PROVE  Keeps
  BY <1>4, <1>5 DEF Propose
<1> QED BY <1>1, <1>2, <1>3, <1>4, <1>5, StepCases

\* What a step signs: a leader proposes once and nothing but what it holds; a replica
\* prepares what the leader has signed; it commits what somebody has signed, while it
\* holds a proposal.
NewlySigned(m) ==
  LET l == Leader(m.view)
      held == round[m.by][m.view][m.seq].digest
  IN  /\ m.by \in Correct
      /\ \/ /\ m.kind = "PrePrepare" /\ m.by = l
            /\ held \in {NoDigest, m.digest}
            /\ \A o \in sent : ~(o.kind = "PrePrepare" /\ o.view = m.view /\ o.seq = m.seq)
         \/ /\ m.kind = "Prepare"
            /\ round'[m.by][m.view][m.seq].digest = m.digest
            /\ l \in Faulty \/ Signed(l, m.view, m.seq, m.digest)
         \/ /\ m.kind = "Commit"
            /\ held # NoDigest
            /\ \E q \in Replicas : q \in Faulty \/ Signed(q, m.view, m.seq, m.digest)

LEMMA SentStep ==
  ASSUME PbftTypeOK, PhasesAreBacked, [Next]_vars
  PROVE  sent \subseteq sent' /\ \A m \in sent' \ sent : NewlySigned(m)
<1>0. \A r \in Correct : view[r] \in Views
  BY DEF PbftTypeOK
<1>1. ASSUME NEW r \in Correct, NEW s \in Sequences, NEW d \in Digests, Propose(r, s, d)
      PROVE  sent \subseteq sent' /\ \A m \in sent' \ sent : NewlySigned(m)
  <2> DEFINE n == Msg("PrePrepare", r, view[r], s, d)
  <2>1. sent' = sent \cup {n} /\ r = Leader(view[r])
    BY <1>1 DEF Propose
  <2>2. round[r][view[r]][s].digest \in {NoDigest, d}
    BY <1>0, <1>1 DEF Propose
  <2>3. \A o \in sent : ~(o.kind = "PrePrepare" /\ o.view = view[r] /\ o.seq = s)
    BY <1>1 DEF Propose
  <2>4. NewlySigned(n)
    BY <2>1, <2>2, <2>3 DEF NewlySigned, Msg
  <2> HIDE DEF n
  <2> QED BY <2>1, <2>4
<1>2. ASSUME NEW r \in Correct, NEW s \in Sequences, NEW d \in Digests,
             HandlePrePrepare(r, s, d)
      PROVE  sent \subseteq sent' /\ \A m \in sent' \ sent : NewlySigned(m)
  <2> DEFINE n == Msg("Prepare", r, view[r], s, d)
  <2>1. sent' = sent \cup {n}
    BY <1>2 DEF HandlePrePrepare
  <2>2. round'[r][view[r]][s].digest = d
    BY <1>0, <1>2, PrePrepareWrites DEF WritesRound
  <2>3. Leader(view[r]) \in Faulty \/ Signed(Leader(view[r]), view[r], s, d)
    BY <1>2 DEF HandlePrePrepare, Receives, Msg
  <2>4. NewlySigned(n)
    BY <2>2, <2>3 DEF NewlySigned, Msg
  <2> HIDE DEF n
  <2> QED BY <2>1, <2>4
<1>3. ASSUME NEW r \in Correct, NEW q \in Replicas, NEW s \in Sequences, NEW d \in Digests,
             HandlePrepare(r, q, s, d)
      PROVE  sent \subseteq sent' /\ \A m \in sent' \ sent : NewlySigned(m)
  <2> DEFINE n == Msg("Commit", r, view[r], s, d)
  <2>0. PICK R \in ConsensusRound : PrepareWrote(r, q, s, d, R)
    BY <1>3, PrepareWrites
  <2>1. \/ sent' = sent
        \/ sent' = sent \cup {n} /\ round[r][view[r]][s].phase = "PrePrepared"
    BY <2>0 DEF PrepareWrote
  <2>2. q \in Faulty \/ Signed(q, view[r], s, d)
    BY <1>3 DEF HandlePrepare, Receives, Msg
  <2>3. CASE sent' = sent
    BY <2>3
  <2>4. CASE sent' # sent
    <3>1. round[r][view[r]][s].digest # NoDigest
      BY <1>0, <2>1, <2>4, ReplicasAssumption DEF PhasesAreBacked
    <3>2. NewlySigned(n)
      BY <2>2, <3>1 DEF NewlySigned, Msg
    <3> HIDE DEF n
    <3> QED BY <2>1, <3>2
  <2> QED BY <2>3, <2>4
<1>4. ASSUME NEW r \in Correct, NEW q \in Replicas, NEW s \in Sequences, NEW d \in Digests,
             HandleCommit(r, q, s, d)
      PROVE  sent' = sent
  BY <1>4 DEF HandleCommit
<1> QED BY <1>1, <1>2, <1>3, <1>4, StepCases

\* A signature once made stays; so does a quorum of them.
LEMMA SignedStays ==
  ASSUME sent \subseteq sent', NEW q, NEW v, NEW s, NEW d, Signed(q, v, s, d)
  PROVE  Signed(q, v, s, d)'
BY DEF Signed

LEMMA BackedStays ==
  ASSUME sent \subseteq sent', NEW v \in Views, NEW s \in Sequences, NEW d \in Digests,
         Backed(v, s, d)
  PROVE  Backed(v, s, d)'
<1>1. PICK Q \in SUBSET Replicas :
        Cardinality(Q) >= Quorum /\ \A q \in Q \cap Correct : Signed(q, v, s, d)
  BY DEF Backed
<1>2. \A q \in Q \cap Correct : Signed(q, v, s, d)'
  BY <1>1, SignedStays
<1> QED BY <1>1, <1>2 DEF Backed

\* The same, of the proposal a round holds.
LEMMA StillBacked ==
  ASSUME sent \subseteq sent', NEW p \in Correct, NEW v \in Views, NEW s \in Sequences,
         Backed(v, s, round[p][v][s].digest),
         round'[p][v][s].digest = round[p][v][s].digest
  PROVE  Backed(v, s, round[p][v][s].digest)'
<1> DEFINE d == round[p][v][s].digest
<1>1. PICK Q \in SUBSET Replicas :
        Cardinality(Q) >= Quorum /\ \A q \in Q \cap Correct : Signed(q, v, s, d)
  BY DEF Backed
<1>2. \A q \in Q \cap Correct : Signed(q, v, s, d)'
  BY <1>1 DEF Signed
<1> QED BY <1>1, <1>2 DEF Backed

\* What signers hold they keep holding.
LEMMA SignersStep ==
  ASSUME PbftTypeOK, PhasesAreBacked, SignersHold, [Next]_vars
  PROVE  SignersHold'
<1>1. Keeps /\ sent \subseteq sent' /\ \A m \in sent' \ sent : NewlySigned(m)
  BY KeepsStep, SentStep
<1>2. PbftTypeOK'
  BY TypeStep
<1> SUFFICES ASSUME NEW m \in sent'
             PROVE  /\ m.by \in Correct
                    /\ m.kind = "PrePrepare" => m.by = Leader(m.view)
                    /\ m.kind = "Prepare" => round'[m.by][m.view][m.seq].digest = m.digest
                    /\ m.kind = "Commit" => round'[m.by][m.view][m.seq].digest # NoDigest
  BY DEF SignersHold
<1>3. /\ m.kind \in {"PrePrepare", "Prepare", "Commit"} /\ m.view \in Views
      /\ m.seq \in Sequences /\ m.digest \in Digests
  BY <1>2 DEF PbftTypeOK, Message
<1>4. CASE m \in sent
  <2>1. m.by \in Correct
    BY <1>4 DEF SignersHold
  <2>2. round[m.by][m.view][m.seq].digest # NoDigest =>
          round'[m.by][m.view][m.seq].digest = round[m.by][m.view][m.seq].digest
    BY <1>1, <1>3, <2>1 DEF Keeps
  <2> QED BY <1>3, <1>4, <2>1, <2>2, ReplicasAssumption DEF SignersHold
<1>5. CASE m \notin sent
  <2>1. NewlySigned(m)
    BY <1>1, <1>5
  <2>2. m.by \in Correct
    BY <2>1 DEF NewlySigned
  <2> QED BY <1>1, <1>3, <2>1, <2>2 DEF NewlySigned, Keeps
<1> QED BY <1>4, <1>5

\* A vote of a correct replica is tallied only after it has signed it.
LEMMA TalliesStep ==
  ASSUME PbftTypeOK, PhasesAreBacked, TalliesAreSigned, [Next]_vars
  PROVE  TalliesAreSigned'
<1>1. sent \subseteq sent'
  BY SentStep
<1>2. ASSUME NEW p \in Correct, NEW q \in Correct, NEW w \in Views, NEW t \in Sequences,
             round[p][w][t].prepares[q] # NoDigest,
             round'[p][w][t].prepares[q] = round[p][w][t].prepares[q]
      PROVE  Signed(q, w, t, round[p][w][t].prepares[q])'
  BY <1>1, <1>2 DEF TalliesAreSigned, Signed
<1>3. ASSUME NEW r \in Correct, NEW s \in Sequences, NEW d \in Digests,
             HandlePrePrepare(r, s, d)
      PROVE  TalliesAreSigned'
  <2>1. \A p \in Correct, w \in Views, t \in Sequences :
          round'[p][w][t].prepares = round[p][w][t].prepares
    BY <1>3, PrePrepareWrites DEF WritesRound
  <2> QED BY <1>2, <2>1 DEF TalliesAreSigned
<1>4. ASSUME NEW r \in Correct, NEW q \in Replicas, NEW s \in Sequences, NEW d \in Digests,
             HandlePrepare(r, q, s, d)
      PROVE  TalliesAreSigned'
  <2>0. PICK R \in ConsensusRound : PrepareWrote(r, q, s, d, R)
    BY <1>4, PrepareWrites
  <2>1. /\ WritesRound(r, view[r], s, R)
        /\ R.prepares = [round[r][view[r]][s].prepares EXCEPT ![q] = d]
    BY <2>0 DEF PrepareWrote
  <2>2. view[r] \in Views /\ round[r][view[r]][s].prepares \in Votes
    BY DEF PbftTypeOK, ConsensusRound
  <2>3. ASSUME q \in Correct
        PROVE  Signed(q, view[r], s, d)
    BY <1>4, <2>3 DEF HandlePrepare, Receives, Msg, Correct
  <2>4. ASSUME NEW p \in Correct, NEW o \in Correct, NEW w \in Views, NEW t \in Sequences,
               round'[p][w][t].prepares[o] # NoDigest
        PROVE  Signed(o, w, t, round[p][w][t].prepares[o])'
    <3>1. CASE p = r /\ w = view[r] /\ t = s /\ o = q
      <4>1. round'[p][w][t].prepares[o] = d
        BY <2>1, <2>2, <3>1 DEF WritesRound, Votes
      <4> QED BY <1>1, <2>3, <3>1, <4>1 DEF Signed
    <3>2. CASE ~(p = r /\ w = view[r] /\ t = s /\ o = q)
      <4>1. o \in Replicas
        BY DEF Correct
      <4>2. round'[p][w][t].prepares[o] = round[p][w][t].prepares[o]
        BY <2>1, <2>2, <3>2, <4>1 DEF WritesRound, Votes
      <4> QED BY <1>2, <2>4, <4>2
    <3> QED BY <3>1, <3>2
  <2> QED BY <2>4 DEF TalliesAreSigned
<1>5. ASSUME NEW r \in Correct, NEW q \in Replicas, NEW s \in Sequences, NEW d \in Digests,
             HandleCommit(r, q, s, d)
      PROVE  TalliesAreSigned'
  <2>1. \A p \in Correct, w \in Views, t \in Sequences :
          round'[p][w][t].prepares = round[p][w][t].prepares
    BY <1>5, CommitWrites DEF WritesRound
  <2> QED BY <1>2, <2>1 DEF TalliesAreSigned
<1>6. round' = round => TalliesAreSigned'
  BY <1>2 DEF TalliesAreSigned
<1>7. ASSUME NEW r \in Correct, NEW s \in Sequences, NEW d \in Digests, Propose(r, s, d)
      PROVE  TalliesAreSigned'
  BY <1>6, <1>7 DEF Propose
<1> QED BY <1>3, <1>4, <1>5, <1>6, <1>7, StepCases

\* A quorum of Prepares tallied by a step backs the round's proposal from then on.
LEMMA QuorumBacks ==
  ASSUME NEW r \in Correct, NEW v \in Views, NEW s \in Sequences, TalliesAreSigned',
         HasQuorum(round'[r][v][s].prepares, round'[r][v][s].digest)
  PROVE  Backed(v, s, round[r][v][s].digest)'
<1> DEFINE votes == round'[r][v][s].prepares
           d == round'[r][v][s].digest
           Q == {q \in Replicas : votes[q] # NoDigest /\ votes[q] = d}
<1>1. Cardinality(Q) >= Quorum
  BY DEF HasQuorum
<1>2. \A q \in Q \cap Correct : Signed(q, v, s, round[r][v][s].digest)'
  <2> SUFFICES ASSUME NEW q \in Q \cap Correct
               PROVE  Signed(q, v, s, round[r][v][s].digest)'
    OBVIOUS
  <2>1. Signed(q, v, s, round[r][v][s].prepares[q])'
    BY DEF TalliesAreSigned
  <2> QED BY <2>1 DEF Signed
<1>3. Q \in SUBSET Replicas
  OBVIOUS
<1> HIDE DEF Q
<1> QED BY <1>1, <1>2, <1>3 DEF Backed

\* A step signs one message at most.
LEMMA SentOne ==
  ASSUME PbftTypeOK, [Next]_vars, NEW m \in sent' \ sent, NEW o \in sent' \ sent
  PROVE  m = o
<1>1. ASSUME NEW r \in Correct, NEW q \in Replicas, NEW s \in Sequences, NEW d \in Digests,
             HandlePrepare(r, q, s, d)
      PROVE  m = o
  <2>1. sent' = sent \/ sent' = sent \cup {Msg("Commit", r, view[r], s, d)}
    BY <1>1, PrepareWrites DEF PrepareWrote
  <2> QED BY <2>1
<1>2. ASSUME NEW r \in Correct, NEW s \in Sequences, NEW d \in Digests, Propose(r, s, d)
      PROVE  m = o
  BY <1>2 DEF Propose
<1>3. ASSUME NEW r \in Correct, NEW s \in Sequences, NEW d \in Digests,
             HandlePrePrepare(r, s, d)
      PROVE  m = o
  BY <1>3 DEF HandlePrePrepare
<1>4. ASSUME NEW r \in Correct, NEW q \in Replicas, NEW s \in Sequences, NEW d \in Digests,
             HandleCommit(r, q, s, d)
      PROVE  m = o
  BY <1>4 DEF HandleCommit
<1> QED BY <1>1, <1>2, <1>3, <1>4, StepCases

\* A replica that takes a proposal has it from the leader.
LEMMA HeldStep ==
  ASSUME PbftTypeOK, [Next]_vars, NEW p \in Correct, NEW v \in Views, NEW s \in Sequences,
         round[p][v][s].digest = NoDigest, round'[p][v][s].digest # NoDigest
  PROVE  \E d \in Digests :
           /\ round'[p][v][s].digest = d
           /\ Leader(v) \in Faulty \/ Signed(Leader(v), v, s, d)
<1>1. ASSUME NEW r \in Correct, NEW t \in Sequences, NEW d \in Digests,
             HandlePrePrepare(r, t, d)
      PROVE  /\ round'[p][v][s].digest = d
             /\ Leader(v) \in Faulty \/ Signed(Leader(v), v, s, d)
  <2>1. p = r /\ v = view[r] /\ s = t /\ round'[p][v][s].digest = d
    BY <1>1, PrePrepareWrites DEF WritesRound
  <2>2. Leader(view[r]) \in Faulty \/ Signed(Leader(view[r]), view[r], t, d)
    BY <1>1 DEF HandlePrePrepare, Receives, Msg
  <2> QED BY <2>1, <2>2
<1>2. ASSUME NEW r \in Correct, NEW q \in Replicas, NEW t \in Sequences, NEW d \in Digests,
             HandlePrepare(r, q, t, d)
      PROVE  FALSE
  <2>1. PICK R \in ConsensusRound : PrepareWrote(r, q, t, d, R)
    BY <1>2, PrepareWrites
  <2> QED BY <2>1 DEF PrepareWrote, WritesRound
<1>3. ASSUME NEW r \in Correct, NEW q \in Replicas, NEW t \in Sequences, NEW d \in Digests,
             HandleCommit(r, q, t, d)
      PROVE  FALSE
  BY <1>3, CommitWrites DEF WritesRound
<1>4. round' # round
  OBVIOUS
<1> QED BY <1>1, <1>2, <1>3, <1>4, StepCases DEF Propose

\* A round is Prepared or Committed only while a quorum backs its proposal.
LEMMA PhasesStep ==
  ASSUME IInv, [Next]_vars, TalliesAreSigned', PbftTypeOK'
  PROVE  PhasesAreBacked'
<1> DEFINE Kept(p, w, t) ==
             /\ round'[p][w][t].digest = round[p][w][t].digest
             /\ round'[p][w][t].phase = round[p][w][t].phase
           Holds(p, w, t) ==
             /\ round[p][w][t].phase # "Idle" => round[p][w][t].digest \in Digests
             /\ round[p][w][t].phase \in {"Prepared", "Committed"} =>
                  Backed(w, t, round[p][w][t].digest)
<1>1. sent \subseteq sent'
  BY SentStep DEF IInv
<1>2. ASSUME NEW p \in Correct, NEW w \in Views, NEW t \in Sequences, Kept(p, w, t)
      PROVE  Holds(p, w, t)'
  <2>1. Holds(p, w, t)
    BY DEF IInv, PhasesAreBacked
  <2>2. CASE round[p][w][t].phase \in {"Prepared", "Committed"}
    <3>1. round[p][w][t].digest \in Digests /\ Backed(w, t, round[p][w][t].digest)
      BY <2>1, <2>2
    <3>2. Backed(w, t, round[p][w][t].digest)'
      BY <1>1, <1>2, <3>1, StillBacked
    <3> QED BY <1>2, <3>1, <3>2
  <2>3. CASE round[p][w][t].phase \notin {"Prepared", "Committed"}
    BY <1>2, <2>1, <2>3
  <2> QED BY <2>2, <2>3
<1>3. ASSUME NEW r \in Correct, NEW s \in Sequences, NEW d \in Digests,
             HandlePrePrepare(r, s, d)
      PROVE  PhasesAreBacked'
  <2>1. PICK R \in ConsensusRound :
          WritesRound(r, view[r], s, R) /\ R.digest = d /\ R.phase = "PrePrepared"
    BY <1>3, PrePrepareWrites DEF IInv
  <2>2. ASSUME NEW p \in Correct, NEW w \in Views, NEW t \in Sequences
        PROVE  Kept(p, w, t) \/ (round'[p][w][t].digest = d /\ round'[p][w][t].phase = "PrePrepared")
    BY <2>1 DEF WritesRound
  <2>3. ASSUME NEW p \in Correct, NEW w \in Views, NEW t \in Sequences
        PROVE  Holds(p, w, t)'
    BY <1>2, <2>2
  <2> QED BY <2>3 DEF PhasesAreBacked
<1>4. ASSUME NEW r \in Correct, NEW q \in Replicas, NEW s \in Sequences, NEW d \in Digests,
             HandlePrepare(r, q, s, d)
      PROVE  PhasesAreBacked'
  <2>1. PICK R \in ConsensusRound : PrepareWrote(r, q, s, d, R)
    BY <1>4, PrepareWrites DEF IInv
  <2>2. ASSUME NEW p \in Correct, NEW w \in Views, NEW t \in Sequences
        PROVE  Holds(p, w, t)'
    <3>1. CASE Kept(p, w, t)
      BY <1>2, <3>1
    <3>2. CASE ~Kept(p, w, t)
      <4>1. /\ p = r /\ w = view[r] /\ t = s
            /\ round'[p][w][t] = R /\ R.digest = round[r][view[r]][s].digest
            /\ round[r][view[r]][s].phase = "PrePrepared"
            /\ HasQuorum(R.prepares, R.digest)
        BY <2>1, <3>2 DEF PrepareWrote, WritesRound
      <4>2. Backed(w, t, round[p][w][t].digest)'
        <5>1. HasQuorum(round'[p][w][t].prepares, round'[p][w][t].digest)
          BY <4>1
        <5> QED BY <5>1, QuorumBacks
      <4>3. round'[p][w][t].digest \in Digests
        BY <4>1 DEF IInv, PhasesAreBacked
      <4> QED BY <4>2, <4>3
    <3> QED BY <3>1, <3>2
  <2> QED BY <2>2 DEF PhasesAreBacked
<1>5. ASSUME NEW r \in Correct, NEW q \in Replicas, NEW s \in Sequences, NEW d \in Digests,
             HandleCommit(r, q, s, d)
      PROVE  PhasesAreBacked'
  <2>1. PICK R \in ConsensusRound :
          /\ WritesRound(r, view[r], s, R)
          /\ R.digest = round[r][view[r]][s].digest
          /\ \/ R.phase = round[r][view[r]][s].phase
             \/ R.phase = "Committed" /\ round[r][view[r]][s].phase = "Prepared"
    BY <1>5, CommitWrites DEF IInv
  <2>2. ASSUME NEW p \in Correct, NEW w \in Views, NEW t \in Sequences
        PROVE  Holds(p, w, t)'
    <3>1. CASE Kept(p, w, t)
      BY <1>2, <3>1
    <3>2. CASE ~Kept(p, w, t)
      <4>1. /\ round'[p][w][t].digest = round[p][w][t].digest
            /\ round[p][w][t].phase = "Prepared"
        BY <2>1, <3>2 DEF WritesRound
      <4>2. round[p][w][t].digest \in Digests /\ Backed(w, t, round[p][w][t].digest)
        BY <4>1 DEF IInv, PhasesAreBacked
      <4> QED BY <1>1, <4>1, <4>2, StillBacked
    <3> QED BY <3>1, <3>2
  <2> QED BY <2>2 DEF PhasesAreBacked
<1>6. round' = round => PhasesAreBacked'
  BY <1>2 DEF PhasesAreBacked
<1>7. ASSUME NEW r \in Correct, NEW s \in Sequences, NEW d \in Digests, Propose(r, s, d)
      PROVE  PhasesAreBacked'
  BY <1>6, <1>7 DEF Propose
<1> QED BY <1>3, <1>4, <1>5, <1>6, <1>7, StepCases

\* What is committed was Prepared.
LEMMA CommitsStep ==
  ASSUME IInv, [Next]_vars
  PROVE  CommitsAreBacked'
<1>1. sent \subseteq sent'
  BY SentStep DEF IInv
<1>2. ASSUME NEW r \in Correct, NEW c \in committed[r]
      PROVE  Backed(c.view, c.seq, c.digest)'
  <2>1. c.view \in Views /\ c.seq \in Sequences /\ c.digest \in Digests
    BY DEF IInv, PbftTypeOK
  <2>2. Backed(c.view, c.seq, c.digest)
    BY DEF IInv, CommitsAreBacked
  <2> QED BY <1>1, <2>1, <2>2, BackedStays
<1>3. committed' = committed => CommitsAreBacked'
  BY <1>2 DEF CommitsAreBacked
<1>4. ASSUME NEW r \in Correct, NEW q \in Replicas, NEW s \in Sequences, NEW d \in Digests,
             HandleCommit(r, q, s, d)
      PROVE  CommitsAreBacked'
  <2> DEFINE e == round[r][view[r]][s].digest
             new == [view |-> view[r], seq |-> s, digest |-> e]
  <2>1. \/ committed' = committed
        \/ /\ round[r][view[r]][s].phase = "Prepared"
           /\ committed' = [committed EXCEPT ![r] = @ \cup {new}]
           /\ round'[r][view[r]][s].digest = e
    BY <1>4, CommitWrites DEF IInv, WritesRound, PbftTypeOK
  <2>2. CASE committed' # committed
    <3>1. view[r] \in Views /\ e \in Digests /\ Backed(view[r], s, e)
      BY <2>1, <2>2 DEF IInv, PhasesAreBacked, PbftTypeOK
    <3>2. Backed(view[r], s, e)
      BY <3>1
    <3>3. PICK Q \in SUBSET Replicas :
            Cardinality(Q) >= Quorum /\ \A p \in Q \cap Correct : Signed(p, view[r], s, e)
      BY <3>2 DEF Backed
    <3>4. ASSUME NEW p \in Correct, NEW c \in committed'[p]
          PROVE  Backed(c.view, c.seq, c.digest)'
      <4>1. CASE c \in committed[p]
        BY <1>2, <4>1
      <4>2. CASE c \notin committed[p]
        <5>1. c = new
          <6>1. committed' = [committed EXCEPT ![r] = @ \cup {new}]
            BY <2>1, <2>2
          <6>2. DOMAIN committed = Correct
            BY DEF IInv, PbftTypeOK
          <6>3. committed'[p] = IF p = r THEN committed[r] \cup {new} ELSE committed[p]
            BY <6>1, <6>2
          <6> QED BY <3>4, <4>2, <6>3
        <5>2. c.view = view[r] /\ c.seq = s /\ c.digest = e
          BY <5>1
        <5>3. \A o \in Q \cap Correct : Signed(o, c.view, c.seq, c.digest)'
          BY <1>1, <3>3, <5>2 DEF Signed
        <5> QED BY <3>3, <5>3 DEF Backed
      <4> QED BY <4>1, <4>2
    <3> QED BY <3>4 DEF CommitsAreBacked
  <2> QED BY <1>3, <2>2
<1>5. ASSUME NEW r \in Correct, NEW s \in Sequences, NEW d \in Digests,
             Propose(r, s, d) \/ HandlePrePrepare(r, s, d)
      PROVE  CommitsAreBacked'
  BY <1>3, <1>5 DEF Propose, HandlePrePrepare
<1>6. ASSUME NEW r \in Correct, NEW q \in Replicas, NEW s \in Sequences, NEW d \in Digests,
             HandlePrepare(r, q, s, d)
      PROVE  CommitsAreBacked'
  BY <1>3, <1>6 DEF HandlePrepare
<1> QED BY <1>3, <1>4, <1>5, <1>6, StepCases

\* A correct leader stays with its one proposal, or has strayed.
LEMMA LeadersStep ==
  ASSUME IInv, [Next]_vars
  PROVE  LeadersAgree'
<1>1. Keeps /\ sent \subseteq sent' /\ \A m \in sent' \ sent : NewlySigned(m)
  BY KeepsStep, SentStep DEF IInv
<1>2. PbftTypeOK'
  BY TypeStep DEF IInv
<1> SUFFICES ASSUME NEW v \in Views, NEW s \in Sequences, Leader(v) \in Correct,
                    ~StrayedBy(Leader(v), v, s)'
             PROVE  /\ \A d, e \in Digests :
                         Signed(Leader(v), v, s, d)' /\ Signed(Leader(v), v, s, e)' => d = e
                    /\ round'[Leader(v)][v][s].digest # NoDigest =>
                         Signed(Leader(v), v, s, round[Leader(v)][v][s].digest)'
  BY DEF LeadersAgree, Leader
<1> DEFINE l == Leader(v)
           held == round[l][v][s].digest
           Mine(m) == m.by = l /\ m.view = v /\ m.seq = s
<1>3. \A m \in sent : Mine(m) /\ m.kind = "Commit" => held # NoDigest
  BY DEF IInv, SignersHold
<1>4. ~StrayedBy(l, v, s)
  <2> SUFFICES ASSUME NEW m \in sent, m.kind = "Commit", Mine(m), held # m.digest
               PROVE  FALSE
    BY DEF StrayedBy
  <2>1. round'[l][v][s].digest = held
    BY <1>1, <1>3 DEF Keeps
  <2> QED BY <1>1, <2>1 DEF StrayedBy
<1>5. /\ \A d, e \in Digests : Signed(l, v, s, d) /\ Signed(l, v, s, e) => d = e
      /\ held # NoDigest => Signed(l, v, s, held)
  BY <1>4 DEF IInv, LeadersAgree
<1>6. \A m \in sent' : Mine(m) /\ m.kind = "Commit" => round'[l][v][s].digest = m.digest
  BY DEF StrayedBy
<1>7. \A m \in sent' : m.kind \in {"PrePrepare", "Prepare", "Commit"} /\ m.digest \in Digests
  BY <1>2 DEF PbftTypeOK, Message
<1>8. \A m \in sent : Mine(m) => m.kind = "PrePrepare" \/ (m.digest = held /\ held # NoDigest)
  <2> SUFFICES ASSUME NEW m \in sent, Mine(m), m.kind # "PrePrepare"
               PROVE  m.digest = held /\ held # NoDigest
    OBVIOUS
  <2>1. m.kind \in {"Prepare", "Commit"} /\ m.digest # NoDigest
    BY <1>1, <1>7, ReplicasAssumption
  <2>2. m.kind = "Commit" => held = m.digest
    BY <1>4 DEF StrayedBy
  <2> QED BY <2>1, <2>2 DEF IInv, SignersHold
\* What the step signs for the leader is what it had signed before, if anything.
<1>9. ASSUME NEW m \in sent' \ sent, Mine(m), NEW o \in sent, Mine(o)
      PROVE  m.digest = o.digest
  <2>1. NewlySigned(m)
    BY <1>1
  <2>2. Signed(l, v, s, o.digest) /\ o.digest \in Digests /\ m.digest \in Digests
    BY <1>1, <1>7, <1>9 DEF Signed
  <2>3. CASE m.kind = "PrePrepare"
    <3>1. o.kind # "PrePrepare" /\ held \in {NoDigest, m.digest}
      BY <1>9, <2>1, <2>3 DEF NewlySigned
    <3> QED BY <1>8, <1>9, <3>1
  <2>4. CASE m.kind = "Prepare"
    <3>1. l \notin Faulty
      BY DEF Correct
    <3>2. Signed(l, v, s, m.digest)
      BY <1>9, <2>1, <2>4, <3>1 DEF NewlySigned
    <3> QED BY <1>5, <2>2, <3>2
  <2>5. CASE m.kind = "Commit"
    <3>1. held # NoDigest
      BY <1>9, <2>1, <2>5 DEF NewlySigned
    <3>2. m.digest = held
      BY <1>1, <1>6, <1>9, <2>5, <3>1 DEF Keeps
    <3> QED BY <1>5, <2>2, <3>1, <3>2
  <2> QED BY <1>7, <2>3, <2>4, <2>5
<1>10. ASSUME NEW m \in sent' \ sent, Mine(m), NEW o \in sent' \ sent, Mine(o)
       PROVE  m.digest = o.digest
  BY <1>10, SentOne DEF IInv
<1>11. \A d, e \in Digests : Signed(l, v, s, d)' /\ Signed(l, v, s, e)' => d = e
  <2> SUFFICES ASSUME NEW m \in sent', Mine(m), NEW o \in sent', Mine(o)
               PROVE  m.digest = o.digest
    BY DEF Signed, Leader
  <2>1. CASE m \in sent /\ o \in sent
    BY <1>5, <1>7, <2>1 DEF Signed
  <2> QED BY <1>9, <1>10, <2>1
<1>12. ASSUME round'[l][v][s].digest # NoDigest
       PROVE  Signed(l, v, s, round[l][v][s].digest)'
  <2>1. CASE held # NoDigest
    BY <1>1, <1>5, <2>1 DEF Keeps, Signed, Leader
  <2>2. CASE held = NoDigest
    <3>1. PICK d \in Digests : round'[l][v][s].digest = d /\ Signed(l, v, s, d)
      BY <1>12, <2>2, HeldStep DEF IInv, Correct
    <3> QED BY <1>1, <3>1 DEF Signed, Leader
  <2> QED BY <2>1, <2>2
<1> QED BY <1>11, <1>12

\* Who is counted as asking, and what a replica that changes its view has counted.
LEMMA AskersStep ==
  ASSUME IInv, [Next]_vars
  PROVE  /\ AskersAsked'
         /\ \A r \in Correct : view'[r] # view[r] =>
              HasViewChangeQuorum(asked'[r][view[r]]) /\ changes' = changes
<1>1. ASSUME NEW r \in Correct, NEW q \in Replicas, NEW v \in Views,
             HandleViewChange(r, q, v)
      PROVE  /\ AskersAsked'
             /\ \A p \in Correct :
                  view'[p] # view[p] =>
                    HasViewChangeQuorum(asked'[p][view[p]]) /\ changes' = changes
  <2> DEFINE votes == asked[r][view[r]] \cup {q}
  <2>1. /\ asked' = [asked EXCEPT ![r][view[r]] = votes]
        /\ changes' = changes
        /\ \/ HasViewChangeQuorum(votes) /\ view' = [view EXCEPT ![r] = v]
           \/ view' = view
    BY <1>1 DEF HandleViewChange
  <2>2. /\ view \in [Correct -> Views]
        /\ asked \in [Correct -> [Views -> SUBSET Replicas]]
    BY DEF IInv, PbftTypeOK
  <2>3. q \in Correct => \E m \in changes : m.by = q
    BY <1>1 DEF HandleViewChange, ReceivesViewChange, Correct
  <2>4. \A p \in Correct, w \in Views :
          asked'[p][w] = asked[p][w] \/ asked'[p][w] = asked[p][w] \cup {q}
    BY <2>1, <2>2
  <2>5. AskersAsked'
    BY <2>1, <2>3, <2>4 DEF IInv, AskersAsked
  <2>6. asked'[r][view[r]] = votes
    BY <2>1, <2>2
  <2>7. \A p \in Correct : p # r => view'[p] = view[p]
    BY <2>1, <2>2
  <2> QED BY <2>1, <2>5, <2>6, <2>7
<1>2. ASSUME UNCHANGED <<view, asked>>, changes \subseteq changes'
      PROVE  /\ AskersAsked'
             /\ \A p \in Correct :
                  view'[p] # view[p] =>
                    HasViewChangeQuorum(asked'[p][view[p]]) /\ changes' = changes
  BY <1>2 DEF IInv, AskersAsked
<1>3. ASSUME ~ \E r \in Correct, q \in Replicas, v \in Views : HandleViewChange(r, q, v)
      PROVE  UNCHANGED <<view, asked>> /\ changes \subseteq changes'
  <2>1. CASE UNCHANGED vars
    BY <2>1 DEF vars
  <2>2. CASE Next
    <3>1. PICK r \in Correct :
            \/ \E s \in Sequences, d \in Digests :
                 \/ Propose(r, s, d)
                 \/ HandlePrePrepare(r, s, d)
                 \/ \E q \in Replicas : HandlePrepare(r, q, s, d) \/ HandleCommit(r, q, s, d)
            \/ InitiateViewChange(r)
      BY <1>3, <2>2 DEF Next
    <3>2. CASE InitiateViewChange(r)
      BY <3>2 DEF InitiateViewChange
    <3>3. ASSUME NEW s \in Sequences, NEW d \in Digests,
                 Propose(r, s, d) \/ HandlePrePrepare(r, s, d)
          PROVE  UNCHANGED <<view, asked>> /\ changes \subseteq changes'
      BY <3>3 DEF Propose, HandlePrePrepare
    <3>4. ASSUME NEW s \in Sequences, NEW d \in Digests, NEW q \in Replicas,
                 HandlePrepare(r, q, s, d) \/ HandleCommit(r, q, s, d)
          PROVE  UNCHANGED <<view, asked>> /\ changes \subseteq changes'
      BY <3>4 DEF HandlePrepare, HandleCommit
    <3> QED BY <3>1, <3>2, <3>3, <3>4
  <2> QED BY <2>1, <2>2
<1> QED BY <1>1, <1>2, <1>3

LEMMA IInvStep ==
  ASSUME IInv, [Next]_vars
  PROVE  IInv'
<1>1. PbftTypeOK' /\ SignersHold'
  BY TypeStep, SignersStep DEF IInv
<1>2. TalliesAreSigned'
  BY TalliesStep DEF IInv
<1>3. PhasesAreBacked'
  BY <1>1, <1>2, PhasesStep
<1>4. CommitsAreBacked' /\ LeadersAgree' /\ AskersAsked'
  BY CommitsStep, LeadersStep, AskersStep
<1> QED BY <1>1, <1>2, <1>3, <1>4 DEF IInv

LEMMA IInvAlways == Spec => []IInv
<1>1. IInv /\ [Next]_vars => IInv'
  BY IInvStep
<1> QED BY <1>1, IInvInit, PTL DEF Spec

-------------------------------------------------------------------------------
\* A set of replicas larger than f has a correct member.
LEMMA CorrectMember ==
  ASSUME NEW Q \in SUBSET Replicas, Cardinality(Q) > MaxFaults
  PROVE  Q \cap Correct # {}
<1> SUFFICES ASSUME Q \subseteq Faulty
             PROVE  FALSE
  BY DEF Correct
<1>1. IsFiniteSet(Faulty)
  BY ReplicasFinite, FS_Subset, ReplicasAssumption
<1>2. Cardinality(Q) <= Cardinality(Faulty) /\ Cardinality(Faulty) \in Nat
  BY <1>1, FS_Subset, FS_CardinalityType
<1>3. Cardinality(Q) \in Nat
  BY ReplicasFinite, FS_Subset, FS_CardinalityType
<1> QED BY <1>2, <1>3, FaultBound, ReplicasAssumption

\* Among 3f + 1 replicas two quorums share a correct one.
LEMMA QuorumsMeet ==
  ASSUME TotalNodes = 3 * MaxFaults + 1,
         NEW P \in SUBSET Replicas, Cardinality(P) >= Quorum,
         NEW Q \in SUBSET Replicas, Cardinality(Q) >= Quorum
  PROVE  P \cap Q \cap Correct # {}
<1>1. IsFiniteSet(P) /\ IsFiniteSet(Q) /\ IsFiniteSet(P \cap Q) /\ IsFiniteSet(P \cup Q)
  BY ReplicasFinite, FS_Subset
<1>2. Cardinality(P \cup Q) = Cardinality(P) + Cardinality(Q) - Cardinality(P \cap Q)
  BY <1>1, FS_Union
<1>3. Cardinality(P \cup Q) <= TotalNodes
  BY ReplicasFinite, FS_Subset
<1>4. /\ Cardinality(P) \in Nat /\ Cardinality(Q) \in Nat
      /\ Cardinality(P \cap Q) \in Nat /\ Cardinality(P \cup Q) \in Nat
  BY <1>1, FS_CardinalityType
<1>5. Cardinality(P \cap Q) > MaxFaults
  BY <1>2, <1>3, <1>4, FaultBound DEF Quorum
<1> QED BY <1>5, CorrectMember

\* A backed proposal is signed by more than f correct replicas.
LEMMA BackersCorrect ==
  ASSUME NEW v, NEW s, NEW d, Backed(v, s, d)
  PROVE  Cardinality({q \in Correct : Signed(q, v, s, d)}) > MaxFaults
<1> DEFINE B == {q \in Correct : Signed(q, v, s, d)}
<1>1. PICK Q \in SUBSET Replicas :
        Cardinality(Q) >= Quorum /\ \A q \in Q \cap Correct : Signed(q, v, s, d)
  BY DEF Backed
<1>2. Q \subseteq Faulty \cup B
  BY <1>1 DEF Correct
<1>3. IsFiniteSet(Faulty) /\ IsFiniteSet(B) /\ IsFiniteSet(Q)
  <2>1. B \subseteq Replicas
    BY DEF Correct
  <2> HIDE DEF B
  <2> QED BY <2>1, ReplicasFinite, FS_Subset, ReplicasAssumption
<1> HIDE DEF B
<1>4. /\ Cardinality(Q) <= Cardinality(Faulty \cup B)
      /\ Cardinality(Faulty \cup B) = Cardinality(Faulty) + Cardinality(B) - Cardinality(Faulty \cap B)
      /\ IsFiniteSet(Faulty \cup B) /\ IsFiniteSet(Faulty \cap B)
  BY <1>2, <1>3, FS_Union, FS_Subset, FS_Intersection
<1>5. /\ Cardinality(Faulty) \in Nat /\ Cardinality(B) \in Nat /\ Cardinality(Q) \in Nat
      /\ Cardinality(Faulty \cap B) \in Nat /\ Cardinality(Faulty \cup B) \in Nat
  BY <1>3, <1>4, FS_CardinalityType
<1>6. Cardinality(B) > MaxFaults
  BY <1>1, <1>4, <1>5, FaultBound, ReplicasAssumption DEF Quorum
<1> QED BY <1>6 DEF B

-------------------------------------------------------------------------------
\* Type correctness, and only rounds, votes and views that exist: for every number
\* of replicas.
THEOREM PbftTypeCorrect == Spec => []PbftTypeOK
BY IInvAlways, PTL DEF IInv

\* handle_pre_prepare, handle_prepare, handle_commit: among 3f + 1 replicas, two correct
\* ones commit different proposals in one round only after a correct replica has signed
\* a Commit for a proposal it does not hold, whichever messages are lost, late, repeated
\* or delivered as another kind, and whatever f faulty replicas sign.
THEOREM DisagreementIsStrayed ==
  ASSUME TotalNodes = 3 * MaxFaults + 1
  PROVE  Spec => []AgreementUnlessStrayed
<1>1. IInv => AgreementUnlessStrayed
  <2> SUFFICES ASSUME IInv, NEW r \in Correct, NEW q \in Correct,
                      NEW a \in committed[r], NEW b \in committed[q],
                      a.view = b.view, a.seq = b.seq, ~Strayed(a.view, a.seq)
               PROVE  a.digest = b.digest
    BY DEF AgreementUnlessStrayed
  <2> DEFINE v == a.view
             s == a.seq
  <2>0. /\ v \in Views /\ s \in Sequences
        /\ a.digest \in Digests /\ b.digest \in Digests
    BY DEF IInv, PbftTypeOK
  <2>1. Backed(v, s, a.digest) /\ Backed(v, s, b.digest)
    BY DEF IInv, CommitsAreBacked
  <2>2. PICK P \in SUBSET Replicas :
          Cardinality(P) >= Quorum /\ \A p \in P \cap Correct : Signed(p, v, s, a.digest)
    BY <2>1 DEF Backed
  <2>3. PICK Q \in SUBSET Replicas :
          Cardinality(Q) >= Quorum /\ \A p \in Q \cap Correct : Signed(p, v, s, b.digest)
    BY <2>1 DEF Backed
  <2>4. PICK p \in P \cap Q \cap Correct : TRUE
    BY <2>2, <2>3, QuorumsMeet
  <2>5. Signed(p, v, s, a.digest) /\ Signed(p, v, s, b.digest)
    BY <2>2, <2>3, <2>4
  <2>6. CASE p = Leader(v)
    <3>1. ~StrayedBy(p, v, s)
      BY DEF Strayed, StrayedBy
    <3> QED BY <2>0, <2>4, <2>5, <2>6, <3>1 DEF IInv, LeadersAgree
  <2>7. CASE p # Leader(v)
    <3>1. ASSUME NEW d, Signed(p, v, s, d)
          PROVE  d = round[p][v][s].digest
      <4>1. PICK m \in sent : m.by = p /\ m.view = v /\ m.seq = s /\ m.digest = d
        BY <3>1 DEF Signed
      <4>2. m.kind \in {"Prepare", "Commit"}
        BY <2>7, <4>1 DEF IInv, SignersHold, PbftTypeOK, Message
      <4> QED BY <4>1, <4>2 DEF IInv, SignersHold, Strayed
    <3> QED BY <2>5, <3>1
  <2> QED BY <2>6, <2>7
<1> QED BY <1>1, IInvAlways, PTL

\* handle_commit: every committed proposal has been signed, in its round, by more than f
\* correct replicas.  This one holds for every number of replicas.
THEOREM CommitsSigned == Spec => []CommitIsSigned
<1>1. IInv => CommitIsSigned
  BY BackersCorrect DEF IInv, CommitsAreBacked, CommitIsSigned
<1> QED BY <1>1, IInvAlways, PTL

\* While nobody is faulty, a step signs what was proposed in the round.
LEMMA OneProposalStep ==
  ASSUME Faulty = {}, IInv, OneProposal, [Next]_vars
  PROVE  OneProposal'
<1>1. sent \subseteq sent' /\ \A m \in sent' \ sent : NewlySigned(m)
  BY SentStep DEF IInv
<1>2. \A q, v, s, d : Signed(q, v, s, d) =>
        \E o \in sent : o.kind = "PrePrepare" /\ o.digest = d /\ o.view = v /\ o.seq = s
  BY DEF OneProposal, Signed
<1>3. \A m \in sent' : \E o \in sent' : /\ o.kind = "PrePrepare" /\ o.digest = m.digest
                                        /\ o.view = m.view /\ o.seq = m.seq
  <2> SUFFICES ASSUME NEW m \in sent', m \notin sent
               PROVE  \E o \in sent' : /\ o.kind = "PrePrepare" /\ o.digest = m.digest
                                       /\ o.view = m.view /\ o.seq = m.seq
    BY <1>1 DEF OneProposal
  <2>1. NewlySigned(m)
    BY <1>1
  <2>2. \/ m.kind = "PrePrepare"
        \/ \E q \in Replicas \cup {Leader(m.view)} : Signed(q, m.view, m.seq, m.digest)
    BY <2>1 DEF NewlySigned
  <2> QED BY <1>1, <1>2, <2>2
<1>4. ASSUME NEW m \in sent', NEW o \in sent', m.kind = "PrePrepare",
             o.kind = "PrePrepare", m.view = o.view, m.seq = o.seq
      PROVE  m.digest = o.digest
  <2>1. CASE m \in sent /\ o \in sent
    BY <1>4, <2>1 DEF OneProposal
  <2>2. CASE m \notin sent /\ o \notin sent
    BY <2>2, SentOne DEF IInv
  <2>3. CASE m \in sent /\ o \notin sent
    BY <1>1, <1>4, <2>3 DEF NewlySigned
  <2>4. CASE m \notin sent /\ o \in sent
    BY <1>1, <1>4, <2>4 DEF NewlySigned
  <2> QED BY <2>1, <2>2, <2>3, <2>4
<1> QED BY <1>3, <1>4 DEF OneProposal

\* handle_pre_prepare, handle_prepare, handle_commit: while nobody is faulty no two
\* replicas commit different proposals in one round, whatever is lost, late, repeated or
\* delivered as another kind, for every number of replicas.
THEOREM AgreementAmongCorrect ==
  ASSUME Faulty = {}
  PROVE  Spec => []AgreementInView
<1>1. Init => OneProposal
  BY DEF Init, OneProposal
<1>2. IInv /\ OneProposal /\ [Next]_vars => OneProposal'
  BY OneProposalStep
<1>3. IInv /\ OneProposal => AgreementInView
  <2> SUFFICES ASSUME IInv, OneProposal, NEW r \in Correct, NEW q \in Correct,
                      NEW a \in committed[r], NEW b \in committed[q],
                      a.view = b.view, a.seq = b.seq
               PROVE  a.digest = b.digest
    BY DEF AgreementInView
  <2>1. ASSUME NEW d, Backed(a.view, a.seq, d)
        PROVE  \E m \in sent : m.view = a.view /\ m.seq = a.seq /\ m.digest = d
    <3>1. PICK Q \in SUBSET Replicas :
            /\ Cardinality(Q) >= Quorum
            /\ \A p \in Q \cap Correct : Signed(p, a.view, a.seq, d)
      BY <2>1 DEF Backed
    <3>2. Cardinality(Q) > MaxFaults
      <4>1. Cardinality(Q) \in Nat
        BY ReplicasFinite, FS_Subset, FS_CardinalityType
      <4> QED BY <3>1, <4>1, FaultBound DEF Quorum
    <3>3. PICK p \in Q \cap Correct : TRUE
      BY <3>2, CorrectMember
    <3> QED BY <3>1, <3>3 DEF Signed
  <2>2. Backed(a.view, a.seq, a.digest) /\ Backed(a.view, a.seq, b.digest)
    BY DEF IInv, CommitsAreBacked
  <2>3. PICK m \in sent : m.view = a.view /\ m.seq = a.seq /\ m.digest = a.digest
    BY <2>1, <2>2
  <2>4. PICK n \in sent : n.view = a.view /\ n.seq = a.seq /\ n.digest = b.digest
    BY <2>1, <2>2
  <2> QED BY <2>3, <2>4 DEF OneProposal
<1> QED BY <1>1, <1>2, <1>3, IInvAlways, PTL DEF Spec

\* handle_view_change: f faulty replicas alone never move a correct one to another view.
THEOREM ViewChangesAskedFor == Spec => ViewChangeIsAskedFor
<1>1. ASSUME IInv, [Next]_vars, NEW r \in Correct, view'[r] # view[r]
      PROVE  \E m \in changes : m.by \in Correct /\ m.by \in asked'[r][view[r]]
  <2>1. HasViewChangeQuorum(asked'[r][view[r]]) /\ changes' = changes /\ IInv'
    BY <1>1, AskersStep, IInvStep
  <2>2. asked'[r][view[r]] \in SUBSET Replicas /\ view[r] \in Views
    BY <1>1, <2>1 DEF IInv, PbftTypeOK
  <2>3. Cardinality(asked'[r][view[r]]) > MaxFaults
    <3>1. Cardinality(asked'[r][view[r]]) \in Nat
      BY <2>2, ReplicasFinite, FS_Subset, FS_CardinalityType
    <3> QED BY <2>1, <3>1, FaultBound DEF HasViewChangeQuorum
  <2>4. PICK q \in asked'[r][view[r]] : q \in Correct
    BY <2>2, <2>3, CorrectMember
  <2>5. \E m \in changes' : m.by = q
    BY <2>1, <2>2, <2>4 DEF IInv, AskersAsked
  <2> QED BY <2>1, <2>4, <2>5
<1>2. IInv /\ [Next]_vars => [\A r \in Correct : view'[r] # view[r] =>
        \E m \in changes : m.by \in Correct /\ m.by \in asked'[r][view[r]]]_vars
  BY <1>1
<1> QED BY <1>2, IInvAlways, PTL DEF Spec, ViewChangeIsAskedFor
===============================================================================
