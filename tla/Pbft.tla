--------------------------------- MODULE Pbft ---------------------------------
(***************************************************************************)
(* The replicas of rust/crates/saleha-consensus/src/pbft.rs: three phases  *)
(* per (view, sequence), and view changes that carry no certificates.      *)
(*                                                                         *)
(* The crate holds the handlers and no transport.  Here the network keeps  *)
(* every signature; it may be delivered late, twice, in any order, never,  *)
(* or as a message of another kind than it was made for, since all three   *)
(* kinds sign the same bytes.  Faulty replicas, the fault model the crate  *)
(* names, may have signed anything; they have no state.  A handler that    *)
(* returns an error changes nothing and is no step.                        *)
(***************************************************************************)
EXTENDS Integers, FiniteSets

CONSTANTS
  TotalNodes,       \* PbftNode.total_nodes; NodeIds are 0 .. TotalNodes - 1
  Faulty,           \* the replicas that may send anything
  Digests,          \* digests of the proposals
  NoDigest,         \* proposal_digest: None, or no vote in a HashMap
  Sequences,        \* sequence numbers proposed
  MaxView,          \* bound of the views
  MaxViewChanges,   \* MAX_VIEW_CHANGES
  Lost,             \* bound: pairs of a replica and a message it never gets
  Impatient         \* bound: replicas whose leader timeout may expire

Replicas == 0 .. TotalNodes - 1
Correct == Replicas \ Faulty
Views == 0 .. MaxView

\* f and the quorum of has_prepare_quorum and has_commit_quorum.
MaxFaults == (TotalNodes - 1) \div 3
Quorum == 2 * MaxFaults + 1

\* MAX_VIEW_CHANGES is 10; the rest is what "f < n/3" and the bounds mean.
ASSUME ReplicasAssumption ==
  /\ TotalNodes \in Nat \ {0}
  /\ Faulty \subseteq Replicas /\ Cardinality(Faulty) <= MaxFaults
  /\ NoDigest \notin Digests
  /\ MaxView \in Nat /\ MaxViewChanges \in Nat \ {0}
  /\ Impatient \subseteq Replicas

VARIABLES
  view,         \* PbftNode.view of each correct replica
  changeCount,  \* PbftNode.view_change_count
  round,        \* PbftNode.rounds; an absent round is a new one
  asked,        \* view_change_votes of the round (view, sequence 0): who voted
  sent,         \* PrePrepare, Prepare and Commit messages of correct replicas
  changes,      \* ViewChange messages of correct replicas
  committed     \* history: the rounds handle_commit returned a value for

vars == <<view, changeCount, round, asked, sent, changes, committed>>

ConsensusPhase == {"Idle", "PrePrepared", "Prepared", "Committed"}
Votes == [Replicas -> Digests \cup {NoDigest}]
ConsensusRound == [phase : ConsensusPhase, digest : Digests \cup {NoDigest},
                   prepares : Votes, commits : Votes]

NewRound == [phase |-> "Idle", digest |-> NoDigest,
             prepares |-> [q \in Replicas |-> NoDigest],
             commits |-> [q \in Replicas |-> NoDigest]]

Message == [kind : {"PrePrepare", "Prepare", "Commit"}, by : Replicas,
            view : Views, seq : Sequences, digest : Digests]
Msg(kind, r, v, s, d) == [kind |-> kind, by |-> r, view |-> v, seq |-> s, digest |-> d]
ViewChange == [by : Replicas, new_view : Views]

Init ==
  /\ view = [r \in Correct |-> 0]
  /\ changeCount = [r \in Correct |-> 0]
  /\ round = [r \in Correct |-> [v \in Views |-> [s \in Sequences |-> NewRound]]]
  /\ asked = [r \in Correct |-> [v \in Views |-> {}]]
  /\ sent = {}
  /\ changes = {}
  /\ committed = [r \in Correct |-> {}]

Leader(v) == v % TotalNodes

\* pre_prepare_bytes, prepare_bytes and commit_bytes are the view, the sequence
\* number and the digest: what q has signed of them in any kind of message.
Signed(q, v, s, d) ==
  \E m \in sent : m.by = q /\ m.view = v /\ m.seq = s /\ m.digest = d

\* A message reaches r and verify_signature accepts it as its sender's.
Receives(r, m) ==
  <<r, m>> \notin Lost /\ (m.by \in Faulty \/ Signed(m.by, m.view, m.seq, m.digest))

\* view_change_bytes has another length than the bytes of the other three.
ReceivesViewChange(r, m) ==
  <<r, m>> \notin Lost /\ (m.by \in Faulty \/ m \in changes)

\* Mutant: one vote short.
HasQuorumShort(votes, digest) ==
  Cardinality({q \in Replicas : votes[q] # NoDigest /\ votes[q] = digest}) >= Quorum - 1

\* has_prepare_quorum and has_commit_quorum.
HasQuorum(votes, digest) ==
  Cardinality({q \in Replicas : votes[q] # NoDigest /\ votes[q] = digest}) >= Quorum

\* The caller of the crate: a correct leader signs one proposal per round, and
\* none that contradicts a proposal it has seen for that sequence.
Propose(r, s, d) ==
  LET seen == {round[r][w][s].digest : w \in Views} \ {NoDigest}
  IN  /\ r = Leader(view[r])
      /\ \A m \in sent : ~(m.kind = "PrePrepare" /\ m.view = view[r] /\ m.seq = s)
      /\ seen \subseteq {d}
      /\ sent' = sent \cup {Msg("PrePrepare", r, view[r], s, d)}
      /\ UNCHANGED <<view, changeCount, round, asked, changes, committed>>

\* EquivocationDetected is not raised.
AcceptsProposal(rd, d) == rd.digest \in {NoDigest, d}

\* handle_pre_prepare.  A proposal that is delivered again takes the round back
\* to PrePrepared.  A closed channel loses the Prepare as the network may.
HandlePrePrepare(r, s, d) ==
  LET rd == round[r][view[r]][s]
  IN  /\ Receives(r, Msg("PrePrepare", Leader(view[r]), view[r], s, d))
      /\ AcceptsProposal(rd, d)
      /\ round' = [round EXCEPT ![r][view[r]][s] =
                     [rd EXCEPT !.digest = d, !.phase = "PrePrepared"]]
      /\ sent' = sent \cup {Msg("Prepare", r, view[r], s, d)}
      /\ UNCHANGED <<view, changeCount, asked, changes, committed>>

\* handle_prepare.  The Commit names the digest of the vote just received.
HandlePrepare(r, q, s, d) ==
  LET rd == round[r][view[r]][s]
      tally == [rd.prepares EXCEPT ![q] = d]
      prepared == rd.phase = "PrePrepared" /\ HasQuorum(tally, rd.digest)
  IN  /\ Receives(r, Msg("Prepare", q, view[r], s, d))
      /\ round' = [round EXCEPT ![r][view[r]][s] =
                     [rd EXCEPT !.prepares = tally,
                                !.phase = IF prepared THEN "Prepared" ELSE @]]
      /\ sent' = IF prepared THEN sent \cup {Msg("Commit", r, view[r], s, d)} ELSE sent
      /\ UNCHANGED <<view, changeCount, asked, changes, committed>>

\* handle_commit
HandleCommit(r, q, s, d) ==
  LET rd == round[r][view[r]][s]
      tally == [rd.commits EXCEPT ![q] = d]
      commits == rd.phase = "Prepared" /\ HasQuorum(tally, rd.digest)
  IN  /\ Receives(r, Msg("Commit", q, view[r], s, d))
      /\ round' = [round EXCEPT ![r][view[r]][s] =
                     [rd EXCEPT !.commits = tally,
                                !.phase = IF commits THEN "Committed" ELSE @]]
      /\ committed' = IF commits
                      THEN [committed EXCEPT ![r] =
                              @ \cup {[view |-> view[r], seq |-> s, digest |-> rd.digest]}]
                      ELSE committed
      /\ UNCHANGED <<view, changeCount, asked, sent, changes>>

\* initiate_view_change, called when a leader's time is up.
InitiateViewChange(r) ==
  /\ r \in Impatient
  /\ changeCount[r] < MaxViewChanges
  /\ view[r] < MaxView
  /\ changeCount' = [changeCount EXCEPT ![r] = @ + 1]
  /\ changes' = IF changeCount[r] + 1 < MaxViewChanges
                THEN changes \cup {[by |-> r, new_view |-> view[r] + 1]}
                ELSE changes
  /\ UNCHANGED <<view, round, asked, sent, committed>>

\* Mutant: one vote short.
HasViewChangeQuorumShort(votes) == Cardinality(votes) >= MaxFaults

HasViewChangeQuorum(votes) == Cardinality(votes) >= MaxFaults + 1

\* handle_view_change: the votes are for leaving the round's view, whatever view
\* each of them asks for; the last one is obeyed.
HandleViewChange(r, q, new_view) ==
  LET votes == asked[r][view[r]] \cup {q}
  IN  /\ ReceivesViewChange(r, [by |-> q, new_view |-> new_view])
      /\ asked' = [asked EXCEPT ![r][view[r]] = votes]
      /\ IF HasViewChangeQuorum(votes)
         THEN /\ view' = [view EXCEPT ![r] = new_view]
              /\ changeCount' = [changeCount EXCEPT ![r] = 0]
         ELSE UNCHANGED <<view, changeCount>>
      /\ UNCHANGED <<round, sent, changes, committed>>

Next ==
  \E r \in Correct :
    \/ \E s \in Sequences, d \in Digests :
         \/ Propose(r, s, d)
         \/ HandlePrePrepare(r, s, d)
         \/ \E q \in Replicas : HandlePrepare(r, q, s, d) \/ HandleCommit(r, q, s, d)
    \/ InitiateViewChange(r)
    \/ \E q \in Replicas, v \in Views : HandleViewChange(r, q, v)

Spec == Init /\ [][Next]_vars
-------------------------------------------------------------------------------
\* Type correctness; only sent proposals, votes and rounds of the views exist.
PbftTypeOK ==
  /\ view \in [Correct -> Views]
  /\ changeCount \in [Correct -> 0 .. MaxViewChanges]
  /\ round \in [Correct -> [Views -> [Sequences -> ConsensusRound]]]
  /\ asked \in [Correct -> [Views -> SUBSET Replicas]]
  /\ sent \subseteq Message
  /\ changes \subseteq ViewChange
  /\ committed \in [Correct -> SUBSET [view : Views, seq : Sequences, digest : Digests]]

\* handle_prepare has signed, in round (v, s), a Commit for the last vote it counted
\* where the replica holds another proposal.
Strayed(v, s) ==
  \E m \in sent : /\ m.kind = "Commit" /\ m.view = v /\ m.seq = s
                 /\ round[m.by][v][s].digest # m.digest

\* Within a view, two correct replicas commit different proposals in one round only
\* after a correct replica has signed a Commit for a proposal it does not hold:
\* neither what a faulty leader proposes to whom, nor a message delivered often, late
\* or as another kind, parts them otherwise.
AgreementUnlessStrayed ==
  \A r, q \in Correct : \A a \in committed[r], b \in committed[q] :
    a.view = b.view /\ a.seq = b.seq /\ a.digest # b.digest => Strayed(a.view, a.seq)

\* A committed proposal is not the faulty replicas' alone: f + 1 correct ones have
\* signed it in that round.
CommitIsSigned ==
  \A r \in Correct : \A a \in committed[r] :
    Cardinality({q \in Correct : Signed(q, a.view, a.seq, a.digest)}) > MaxFaults

\* Within a view no two correct replicas commit different proposals in one round.  It
\* holds while nobody is faulty, and not under "f < n/3".
AgreementInView ==
  \A r, q \in Correct : \A a \in committed[r], b \in committed[q] :
    a.view = b.view /\ a.seq = b.seq => a.digest = b.digest

\* Faulty replicas cannot move a correct one out of its view: one correct replica
\* at least had asked to leave some view.
ViewChangeIsAskedFor ==
  [][\A r \in Correct : view'[r] # view[r] =>
       \E m \in changes : m.by \in Correct /\ m.by \in asked'[r][view[r]]]_vars

\* "Guarantee: Safety + Liveness when f < n/3 Byzantine nodes" (pbft.rs:2): correct
\* replicas never commit different proposals for one sequence number, view changes
\* included.
Agreement ==
  \A r, q \in Correct : \A a \in committed[r], b \in committed[q] :
    a.seq = b.seq => a.digest = b.digest
===============================================================================
