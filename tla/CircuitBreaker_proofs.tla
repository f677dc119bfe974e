------------------------ MODULE CircuitBreaker_proofs ------------------------
(***************************************************************************)
(* Proofs that the circuit breaker is safe for every number of callers,    *)
(* every policy and every length of the run.                               *)
(*                                                                         *)
(* The argument: what AdmitCall and RecordResult do to a snapshot is       *)
(* stated once (AdmitFacts, RecordFacts); an inductive invariant ties the  *)
(* snapshot to the calls in flight (BreakerInv); the properties follow     *)
(* from it, step by step.                                                  *)
(***************************************************************************)
EXTENDS CircuitBreaker, FiniteSetTheorems, TLAPS

-------------------------------------------------------------------------------
(* The two pure functions. *)

\* Starting a round and opening the circuit set several fields at once.
LEMMA RoundFacts ==
  ASSUME NEW s \in BreakerSnapshot, s.state = "OPEN", NEW r, r = RoundFor(s)
  PROVE  /\ r \in BreakerSnapshot
         /\ r.state = "HALF_OPEN" /\ r.epoch = s.epoch + 1 /\ r.probes = 0
<1>1. /\ r.state = "HALF_OPEN" /\ r.failures = s.failures /\ r.opened_at = s.opened_at
      /\ r.epoch = s.epoch + 1 /\ r.probes = 0
  BY DEF RoundFor, BreakerSnapshot
<1>2. r = [state |-> r.state, failures |-> r.failures, opened_at |-> r.opened_at,
           epoch |-> r.epoch, probes |-> r.probes]
  BY DEF RoundFor, BreakerSnapshot
<1> QED BY <1>1, <1>2 DEF BreakerSnapshot, CircuitState

LEMMA OpenedFacts ==
  ASSUME NEW s \in BreakerSnapshot, NEW t \in Nat, NEW r, r = Opened(s, t)
  PROVE  /\ r \in BreakerSnapshot
         /\ r.state = "OPEN" /\ r.epoch = s.epoch /\ r.probes = s.probes
<1>1. /\ r.state = "OPEN" /\ r.failures = s.failures + 1 /\ r.opened_at = t
      /\ r.epoch = s.epoch /\ r.probes = s.probes
  BY DEF Opened, BreakerSnapshot
<1>2. r = [state |-> r.state, failures |-> r.failures, opened_at |-> r.opened_at,
           epoch |-> r.epoch, probes |-> r.probes]
  BY DEF Opened, BreakerSnapshot
<1> QED BY <1>1, <1>2 DEF BreakerSnapshot, CircuitState

\* What admit_call can do: change nothing, start a new round with its first
\* probe, or add a probe to the round in progress.
Unmoved(s, a) == a.snap = s /\ ~a.adm.probe
NewRound(s, t, a) ==
  /\ s.state = "OPEN" /\ ~Cooling(s, t)
  /\ a.adm = Probe(s.epoch + 1)
  /\ a.snap.state = "HALF_OPEN" /\ a.snap.epoch = s.epoch + 1 /\ a.snap.probes = 1
JoinRound(s, a) ==
  /\ s.state = "HALF_OPEN" /\ s.probes < HalfOpenProbes
  /\ a.adm = Probe(s.epoch)
  /\ a.snap = [s EXCEPT !.probes = @ + 1]

\* Every admission is one of the three, and well typed.
LEMMA AdmitFacts ==
  ASSUME NEW s \in BreakerSnapshot, NEW t \in Nat
  PROVE  /\ AdmitCall(s, t).snap \in BreakerSnapshot
         /\ AdmitCall(s, t).adm \in Admission
         /\ AdmitCall(s, t).adm.probe => AdmitCall(s, t).adm.allowed
         /\ \/ Unmoved(s, AdmitCall(s, t))
            \/ NewRound(s, t, AdmitCall(s, t))
            \/ JoinRound(s, AdmitCall(s, t))
<1> USE PolicyAssumption
<1>1. CASE s.state = "CLOSED"
  BY <1>1 DEF AdmitCall, BreakerSnapshot, Admission, Ordinary, Unmoved
<1>2. CASE s.state = "OPEN" /\ Cooling(s, t)
  BY <1>2 DEF AdmitCall, BreakerSnapshot, Admission, Refusal, Unmoved
<1>3. CASE s.state = "OPEN" /\ ~Cooling(s, t)
  <2> DEFINE round == RoundFor(s)
  <2>1. round \in BreakerSnapshot /\ round.probes = 0 /\ round.epoch = s.epoch + 1
        /\ round.state = "HALF_OPEN"
    BY <1>3, RoundFacts
  <2>2. ~(round.probes >= HalfOpenProbes)
    BY <2>1, PolicyAssumption
  <2>3. AdmitCall(s, t) = [snap |-> [round EXCEPT !.probes = @ + 1], adm |-> Probe(round.epoch)]
    BY <1>3, <2>2, Zenon DEF AdmitCall
  <2> HIDE DEF round
  <2>4. [round EXCEPT !.probes = @ + 1] \in BreakerSnapshot
        /\ [round EXCEPT !.probes = @ + 1].state = "HALF_OPEN"
        /\ [round EXCEPT !.probes = @ + 1].epoch = s.epoch + 1
        /\ [round EXCEPT !.probes = @ + 1].probes = 1
    BY <2>1 DEF BreakerSnapshot
  <2>5. Probe(round.epoch) = Probe(s.epoch + 1) /\ Probe(s.epoch + 1) \in Admission
        /\ Probe(s.epoch + 1).allowed
    BY <2>1 DEF Probe, Admission, BreakerSnapshot
  <2>6. NewRound(s, t, AdmitCall(s, t))
    <3> DEFINE a == AdmitCall(s, t)
    <3>1. a.adm = Probe(s.epoch + 1) /\ a.snap = [round EXCEPT !.probes = @ + 1]
      BY <2>3, <2>5
    <3> QED BY <1>3, <2>4, <3>1, Zenon DEF NewRound
  <2>7. /\ AdmitCall(s, t).snap \in BreakerSnapshot
        /\ AdmitCall(s, t).adm \in Admission
        /\ AdmitCall(s, t).adm.allowed
    BY <2>3, <2>4, <2>5
  <2> QED BY <2>6, <2>7
<1>4. CASE s.state = "HALF_OPEN"
  <2>1. CASE s.probes >= HalfOpenProbes
    BY <1>4, <2>1 DEF AdmitCall, RoundFor, BreakerSnapshot, Admission, Refusal, Unmoved
  <2>2. CASE ~(s.probes >= HalfOpenProbes)
    BY <1>4, <2>2 DEF AdmitCall, RoundFor, BreakerSnapshot, Admission, Probe, JoinRound
  <2> QED BY <2>1, <2>2
<1> QED BY <1>1, <1>2, <1>3, <1>4 DEF BreakerSnapshot, CircuitState

\* What record_result can do: it leaves the epoch and an open circuit alone;
\* only a deciding result moves a half-open circuit; only an UNHEALTHY one that
\* completes the threshold opens a closed circuit.
Recorded(s, a, h, r) ==
  /\ r.epoch = s.epoch
  /\ s.state = "OPEN" => r = s
  /\ s.state = "HALF_OPEN" /\ ~Decides(s, a) => r = s
  /\ s.state = "HALF_OPEN" /\ Decides(s, a) =>
       \/ r.state = "CLOSED" /\ r.probes = 0 /\ r.failures = 0
       \/ r.state = "OPEN" /\ r.probes = 0
       \/ r = [s EXCEPT !.probes = HandBack(@)]
  /\ s.state = "CLOSED" =>
       /\ r.probes = s.probes
       /\ \/ r.state = "CLOSED" /\ h = "HEALTHY" /\ r.failures = 0
          \/ /\ r.state = "CLOSED" /\ h = "UNHEALTHY"
             /\ r.failures = s.failures + 1 /\ r.failures < FailureThreshold
          \/ r.state = "OPEN" /\ h = "UNHEALTHY" /\ s.failures + 1 >= FailureThreshold
          \/ r = s /\ h = "UNKNOWN"

\* Every recorded result does one of these things.
LEMMA RecordFacts ==
  ASSUME NEW s \in BreakerSnapshot, NEW a \in Admission, NEW h \in Health, NEW t \in Nat
  PROVE  /\ RecordResult(s, a, h, t) \in BreakerSnapshot
         /\ Recorded(s, a, h, RecordResult(s, a, h, t))
<1> SUFFICES ASSUME NEW r, r = RecordResult(s, a, h, t)
             PROVE  r \in BreakerSnapshot /\ Recorded(s, a, h, r)
  OBVIOUS
<1> USE DEF Recorded
<1> USE PolicyAssumption
<1>1. CASE s.state = "OPEN"
  BY <1>1 DEF RecordResult, Decides
<1>2. CASE s.state = "CLOSED"
  <2>1. r = ClosedResult(s, h, t)
    BY <1>2 DEF RecordResult, Decides
  <2>2. CASE h = "HEALTHY"
    BY <1>2, <2>1, <2>2 DEF ClosedResult, BreakerSnapshot
  <2>3. CASE h = "UNHEALTHY"
    <3>1. CASE s.failures + 1 >= FailureThreshold
      <4>1. ~(s.failures + 1 < FailureThreshold) /\ h # "HEALTHY"
        BY <2>3, <3>1 DEF BreakerSnapshot
      <4>2. r = Opened(s, t)
        BY <2>1, <2>3, <3>1, <4>1, Zenon DEF ClosedResult
      <4>3. r \in BreakerSnapshot /\ r.state = "OPEN" /\ r.epoch = s.epoch /\ r.probes = s.probes
        BY <4>2, OpenedFacts
      <4> QED BY <1>2, <2>3, <3>1, <4>3
    <3>2. CASE ~(s.failures + 1 >= FailureThreshold)
      <4>1. r = [s EXCEPT !.failures = @ + 1]
        BY <2>1, <2>3, <3>2 DEF ClosedResult, BreakerSnapshot
      <4> QED BY <1>2, <2>3, <3>2, <4>1 DEF BreakerSnapshot
    <3> QED BY <3>1, <3>2
  <2>4. CASE h = "UNKNOWN"
    BY <1>2, <2>1, <2>4 DEF ClosedResult
  <2> QED BY <1>2, <2>2, <2>3, <2>4 DEF Health
<1>3. CASE s.state = "HALF_OPEN" /\ ~Decides(s, a)
  BY <1>3 DEF RecordResult
<1>4. CASE s.state = "HALF_OPEN" /\ Decides(s, a)
  <2>1. r = ProbeResult(s, h, t)
    BY <1>4 DEF RecordResult
  <2>2. CASE h = "HEALTHY"
    BY <1>4, <2>1, <2>2 DEF ProbeResult, FreshSnapshot, BreakerSnapshot, CircuitState
  <2>3. CASE h = "UNHEALTHY"
    <3>1. r = [Opened(s, t) EXCEPT !.probes = 0]
      BY <2>1, <2>3 DEF ProbeResult
    <3>2. r \in BreakerSnapshot /\ r.state = "OPEN" /\ r.epoch = s.epoch /\ r.probes = 0
      BY <3>1, OpenedFacts DEF BreakerSnapshot
    <3> QED BY <1>4, <3>2
  <2>4. CASE h = "UNKNOWN"
    BY <1>4, <2>1, <2>4 DEF ProbeResult, BreakerSnapshot, HandBack
  <2> QED BY <1>4, <2>2, <2>3, <2>4 DEF Health
<1> QED BY <1>1, <1>2, <1>3, <1>4 DEF BreakerSnapshot, CircuitState

-------------------------------------------------------------------------------
(* Type correctness. *)

LEMMA InitType == Init => TypeOK
BY PolicyAssumption DEF Init, TypeOK, FreshSnapshot, BreakerSnapshot, CircuitState,
   Refusal, Admission, Health

\* Every step of the breaker's clients keeps the types.
LEMMA NextType == TypeOK /\ [Next]_cvars => TypeOK'
<1> SUFFICES ASSUME TypeOK, [Next]_cvars PROVE TypeOK'
  OBVIOUS
<1> USE PolicyAssumption, CallsAssumption
<1>1. CASE Tick
  BY <1>1 DEF Tick, TypeOK
<1>2. ASSUME NEW c \in Calls, Begin(c) PROVE TypeOK'
  BY <1>2 DEF Begin, Goto, TypeOK
<1>3. ASSUME NEW c \in Calls, Admit(c) PROVE TypeOK'
  <2>1. AdmitCall(snap, stamp[c]).snap \in BreakerSnapshot
        /\ AdmitCall(snap, stamp[c]).adm \in Admission
    BY AdmitFacts DEF TypeOK
  <2>2. rounds' \in Nat
    BY <1>3 DEF Admit, TypeOK
  <2> QED BY <1>3, <2>1, <2>2 DEF Admit, Goto, TypeOK
<1>4. ASSUME NEW c \in Calls, NEW h \in Health, Finish(c, h) PROVE TypeOK'
  BY <1>4 DEF Finish, Goto, TypeOK
<1>5. ASSUME NEW c \in Calls, Record(c) PROVE TypeOK'
  <2>1. snap' \in BreakerSnapshot
    <3>1. snap' = RecordResult(snap, adm[c], health[c], stamp[c])
      BY <1>5 DEF Record
    <3> QED BY <3>1, RecordFacts DEF TypeOK
  <2>2. streak' \in 0..FailureThreshold
    BY <1>5 DEF Record, TypeOK, Health
  <2>3. Refusal \in Admission /\ "UNKNOWN" \in Health
    BY DEF Refusal, Admission, Health
  <2> QED BY <1>5, <2>1, <2>2, <2>3 DEF Record, Goto, TypeOK
<1>6. CASE UNCHANGED cvars
  BY <1>6 DEF cvars, TypeOK
<1> QED BY <1>1, <1>2, <1>3, <1>4, <1>5, <1>6 DEF Next, Call

\* The breaker's state, and that of the calls that use it, stay well typed.
THEOREM TypeCorrect == Safety => []TypeOK
BY InitType, NextType, PTL DEF Safety

-------------------------------------------------------------------------------
(* The inductive invariant.  Its parts are of use only together: a slot count  *)
(* that is right stays right because an old probe's epoch is not the current  *)
(* one, which holds because epochs are those of the rounds.                   *)

\* A caller that is not sending or recording holds no admission.
EpochsAreRounds ==
  /\ snap.epoch = rounds
  /\ \A c \in InFlight : adm[c].probe => adm[c].epoch <= rounds /\ born[c] = adm[c].epoch

\* A clock value read before the lock is never ahead of the clock.
StampsArePast == \A c \in Calls : stamp[c] <= now

FailuresAreConsecutive == snap.state = "CLOSED" => snap.failures <= streak

\* With one probe per round, a probe in flight is the current round's.
ProbesAreCurrent ==
  HalfOpenProbes = 1 =>
    \A c \in InFlight : adm[c].probe => snap.state = "HALF_OPEN" /\ c \in CurrentProbes

BreakerInv ==
  /\ TypeOK
  /\ EpochsAreRounds
  /\ StampsArePast
  /\ FailuresAreConsecutive
  /\ SlotsAreProbesInFlight
  /\ ProbesAreCurrent

LEMMA InitInv == Init => BreakerInv
<1> SUFFICES ASSUME Init PROVE BreakerInv
  OBVIOUS
<1>1. TypeOK
  BY InitType
<1>2. InFlight = {}
  BY DEF Init, InFlight
<1>3. EpochsAreRounds /\ FailuresAreConsecutive /\ ProbesAreCurrent
  BY <1>2 DEF Init, EpochsAreRounds, FailuresAreConsecutive, ProbesAreCurrent, FreshSnapshot
<1>4. StampsArePast
  BY DEF Init, StampsArePast
<1>5. SlotsAreProbesInFlight
  BY PolicyAssumption DEF Init, SlotsAreProbesInFlight, FreshSnapshot
<1> QED BY <1>1, <1>3, <1>4, <1>5 DEF BreakerInv

\* Counting the probes of the current round is counting a finite set.
LEMMA CurrentProbesFinite == IsFiniteSet(CurrentProbes)
BY CallsAssumption, FS_Subset DEF CurrentProbes, InFlight

\* A step that moves neither the snapshot nor any admission, nor takes a call
\* off the wire or puts one on it, keeps the invariant.
LEMMA QuietStep ==
  ASSUME BreakerInv, TypeOK', StampsArePast',
         UNCHANGED <<snap, adm, rounds, born, streak>>, InFlight' = InFlight
  PROVE  BreakerInv'
<1>1. CurrentProbes' = CurrentProbes
  BY DEF CurrentProbes
<1>2. EpochsAreRounds' /\ FailuresAreConsecutive' /\ ProbesAreCurrent'
  BY <1>1 DEF BreakerInv, EpochsAreRounds, FailuresAreConsecutive, ProbesAreCurrent
<1>3. SlotsAreProbesInFlight'
  BY <1>1 DEF BreakerInv, SlotsAreProbesInFlight
<1> QED BY <1>2, <1>3 DEF BreakerInv

\* An admission keeps the invariant: it puts a probe on the wire exactly when it
\* takes a slot of the round.
LEMMA AdmitInv ==
  ASSUME BreakerInv, TypeOK', NEW c \in Calls, Admit(c)
  PROVE  BreakerInv'
<1> USE PolicyAssumption DEF BreakerInv
<1> DEFINE a == AdmitCall(snap, stamp[c])
<1>1. /\ snap \in BreakerSnapshot /\ stamp[c] \in Nat /\ now \in Nat /\ rounds \in Nat
      /\ pc \in [Calls -> {"idle", "admit", "sending", "record"}]
      /\ adm \in [Calls -> Admission] /\ born \in [Calls -> Nat]
      /\ stamp \in [Calls -> Nat]
  BY DEF TypeOK
<1>2. /\ a.snap \in BreakerSnapshot /\ a.adm \in Admission
      /\ a.adm.probe => a.adm.allowed
      /\ Unmoved(snap, a) \/ NewRound(snap, stamp[c], a) \/ JoinRound(snap, a)
  BY <1>1, AdmitFacts
<1>3. /\ snap' = a.snap /\ adm' = [adm EXCEPT ![c] = a.adm]
      /\ pc[c] = "admit"
      /\ pc' = [pc EXCEPT ![c] = IF a.adm.allowed THEN "sending" ELSE "idle"]
      /\ stamp' = [stamp EXCEPT ![c] = 0] /\ now' = now /\ streak' = streak
      /\ rounds' = IF snap.state = "OPEN" /\ a.snap.state = "HALF_OPEN"
                   THEN rounds + 1 ELSE rounds
      /\ born' = [born EXCEPT ![c] = IF a.adm.allowed THEN rounds' ELSE 0]
  BY Zenon DEF Admit, Goto
<1> HIDE DEF a
<1>4. StampsArePast'
  BY <1>1, <1>3 DEF StampsArePast
<1>5. /\ c \notin InFlight
      /\ \A d \in Calls \ {c} : /\ d \in InFlight' <=> d \in InFlight
                               /\ adm'[d] = adm[d] /\ born'[d] = born[d]
      /\ adm'[c] = a.adm
      /\ c \in InFlight' <=> a.adm.allowed
      /\ a.adm.allowed => born'[c] = rounds'
      /\ InFlight \subseteq Calls /\ InFlight' \subseteq Calls
  BY <1>1, <1>3 DEF InFlight
<1>6. CASE Unmoved(snap, a)
  <2>1. snap' = snap /\ ~a.adm.probe /\ rounds' = rounds
    BY <1>3, <1>6 DEF Unmoved
  <2>2. CurrentProbes' = CurrentProbes
    BY <1>5, <2>1 DEF CurrentProbes
  <2>3. EpochsAreRounds'
    BY <1>5, <2>1 DEF EpochsAreRounds
  <2>4. FailuresAreConsecutive' /\ SlotsAreProbesInFlight'
    BY <1>3, <2>1, <2>2 DEF FailuresAreConsecutive, SlotsAreProbesInFlight
  <2>5. ProbesAreCurrent'
    BY <1>5, <2>1, <2>2 DEF ProbesAreCurrent
  <2> QED BY <1>4, <2>3, <2>4, <2>5
<1>7. CASE NewRound(snap, stamp[c], a)
  <2>1. /\ snap.state = "OPEN" /\ snap'.state = "HALF_OPEN"
        /\ snap'.epoch = snap.epoch + 1 /\ snap'.probes = 1
        /\ a.adm.probe /\ a.adm.allowed /\ a.adm.epoch = snap.epoch + 1
        /\ rounds' = rounds + 1
    BY <1>3, <1>7 DEF NewRound, Probe
  <2>2. EpochsAreRounds'
    BY <1>1, <1>5, <2>1 DEF EpochsAreRounds, Admission, BreakerSnapshot
  <2>3. \A d \in InFlight : adm[d].probe => adm[d].epoch # snap'.epoch
    BY <1>1, <1>5, <2>1 DEF EpochsAreRounds, Admission
  <2>4. CurrentProbes' = {c}
    BY <1>5, <2>1, <2>3 DEF CurrentProbes
  <2>5. SlotsAreProbesInFlight'
    <3>1. Cardinality(CurrentProbes') = 1
      BY <2>4, FS_Singleton
    <3>2. 1 <= HalfOpenProbes
      BY PolicyAssumption
    <3> QED BY <2>1, <3>1, <3>2 DEF SlotsAreProbesInFlight
  <2>6. FailuresAreConsecutive'
    BY <2>1 DEF FailuresAreConsecutive
  <2>7. ProbesAreCurrent'
    BY <1>5, <2>1, <2>4 DEF ProbesAreCurrent
  <2> QED BY <1>4, <2>2, <2>5, <2>6, <2>7
<1>8. CASE JoinRound(snap, a)
  <2>1. /\ snap.state = "HALF_OPEN" /\ snap'.state = "HALF_OPEN"
        /\ snap'.epoch = snap.epoch /\ snap'.probes = snap.probes + 1
        /\ snap.probes < HalfOpenProbes
        /\ a.adm.probe /\ a.adm.allowed /\ a.adm.epoch = snap.epoch
        /\ rounds' = rounds
    BY <1>1, <1>3, <1>8 DEF JoinRound, Probe, BreakerSnapshot
  <2>2. EpochsAreRounds'
    BY <1>1, <1>5, <2>1 DEF EpochsAreRounds, Admission, BreakerSnapshot
  <2>3. CurrentProbes' = CurrentProbes \cup {c} /\ c \notin CurrentProbes
    BY <1>5, <2>1 DEF CurrentProbes
  <2>4. Cardinality(CurrentProbes') = Cardinality(CurrentProbes) + 1
    BY <2>3, CurrentProbesFinite, FS_AddElement
  <2>5. SlotsAreProbesInFlight'
    BY <1>1, <2>1, <2>4 DEF SlotsAreProbesInFlight, BreakerSnapshot
  <2>6. FailuresAreConsecutive'
    BY <2>1 DEF FailuresAreConsecutive
  <2>7. ProbesAreCurrent'
    BY <1>5, <2>1, <2>3 DEF ProbesAreCurrent
  <2> QED BY <1>4, <2>2, <2>5, <2>6, <2>7
<1> QED BY <1>2, <1>6, <1>7, <1>8

\* A recorded result keeps the invariant: only a probe of the current round frees
\* a slot of it, and that probe leaves the wire in the same step.
LEMMA RecordInv ==
  ASSUME BreakerInv, TypeOK', NEW c \in Calls, Record(c)
  PROVE  BreakerInv'
<1> USE PolicyAssumption DEF BreakerInv
<1> DEFINE r == RecordResult(snap, adm[c], health[c], stamp[c])
<1>1. /\ snap \in BreakerSnapshot /\ stamp[c] \in Nat /\ now \in Nat /\ rounds \in Nat
      /\ pc \in [Calls -> {"idle", "admit", "sending", "record"}]
      /\ adm \in [Calls -> Admission] /\ born \in [Calls -> Nat]
      /\ stamp \in [Calls -> Nat] /\ adm[c] \in Admission /\ health[c] \in Health
      /\ streak \in 0..FailureThreshold
  BY DEF TypeOK
<1>2. r \in BreakerSnapshot /\ Recorded(snap, adm[c], health[c], r)
  BY <1>1, RecordFacts
<1>3. /\ snap' = r /\ adm' = [adm EXCEPT ![c] = Refusal]
      /\ pc[c] = "record" /\ pc' = [pc EXCEPT ![c] = "idle"]
      /\ stamp' = [stamp EXCEPT ![c] = 0] /\ now' = now /\ rounds' = rounds
      /\ born' = [born EXCEPT ![c] = 0]
      /\ streak' = CASE health[c] = "HEALTHY" -> 0
                    [] health[c] = "UNHEALTHY" /\ streak < FailureThreshold -> streak + 1
                    [] OTHER -> streak
  BY Zenon DEF Record, Goto
<1> HIDE DEF r
<1> USE DEF Recorded
<1>4. StampsArePast'
  BY <1>1, <1>3 DEF StampsArePast
<1>5. /\ c \in InFlight /\ c \notin InFlight'
      /\ \A d \in Calls \ {c} : /\ d \in InFlight' <=> d \in InFlight
                               /\ adm'[d] = adm[d] /\ born'[d] = born[d]
      /\ InFlight \subseteq Calls /\ InFlight' \subseteq Calls
  BY <1>1, <1>3 DEF InFlight
<1>6. EpochsAreRounds'
  BY <1>2, <1>3, <1>5 DEF EpochsAreRounds
<1>7. CurrentProbes' = CurrentProbes \ {c}
  BY <1>2, <1>3, <1>5 DEF CurrentProbes
<1>8. FailuresAreConsecutive'
  <2>1. CASE snap.state = "CLOSED" /\ health[c] = "HEALTHY"
    BY <1>2, <1>3, <2>1 DEF FailuresAreConsecutive
  <2>2. CASE snap.state = "CLOSED" /\ health[c] = "UNHEALTHY"
    <3>1. snap.failures <= streak /\ snap.failures \in Nat
      BY <1>1, <2>2 DEF FailuresAreConsecutive, BreakerSnapshot
    <3>2. streak' = IF streak < FailureThreshold THEN streak + 1 ELSE streak
      BY <1>3, <2>2
    <3> QED BY <1>1, <1>2, <1>3, <2>2, <3>1, <3>2 DEF FailuresAreConsecutive
  <2>3. CASE snap.state = "CLOSED" /\ health[c] = "UNKNOWN"
    <3>1. streak' = streak
      BY <1>3, <2>3
    <3> QED BY <1>2, <1>3, <2>3, <3>1 DEF FailuresAreConsecutive
  <2>4. CASE snap.state # "CLOSED"
    <3>1. r.state = "CLOSED" => r.failures = 0
      BY <1>1, <1>2, <2>4 DEF BreakerSnapshot, CircuitState
    <3>2. streak' \in Nat
      BY DEF TypeOK
    <3> QED BY <1>3, <3>1, <3>2 DEF FailuresAreConsecutive
  <2> QED BY <1>1, <2>1, <2>2, <2>3, <2>4 DEF Health
<1>9. SlotsAreProbesInFlight'
  <2>1. CASE snap.state # "HALF_OPEN"
    BY <1>1, <1>2, <1>3, <2>1 DEF SlotsAreProbesInFlight, BreakerSnapshot, CircuitState
  <2>2. CASE snap.state = "HALF_OPEN" /\ ~Decides(snap, adm[c])
    <3>1. c \notin CurrentProbes
      BY <2>2 DEF Decides, CurrentProbes
    <3>2. CurrentProbes' = CurrentProbes
      BY <1>7, <3>1
    <3> QED BY <1>2, <1>3, <2>2, <3>2 DEF SlotsAreProbesInFlight
  <2>3. CASE snap.state = "HALF_OPEN" /\ Decides(snap, adm[c])
    <3>1. c \in CurrentProbes
      BY <1>5, <2>3 DEF Decides, CurrentProbes
    <3>2. Cardinality(CurrentProbes') = Cardinality(CurrentProbes) - 1
      BY <1>7, <3>1, CurrentProbesFinite, FS_RemoveElement
    <3>3. Cardinality(CurrentProbes) \in Nat /\ Cardinality(CurrentProbes) # 0
      BY <3>1, CurrentProbesFinite, FS_CardinalityType, FS_EmptySet
    <3>4. snap.probes = Cardinality(CurrentProbes) /\ snap.probes <= HalfOpenProbes
      BY <2>3 DEF SlotsAreProbesInFlight
    <3>5. HandBack(snap.probes) = snap.probes - 1
      BY <3>3, <3>4 DEF HandBack
    <3>6. CASE r = [snap EXCEPT !.probes = HandBack(@)]
      <4>1. r.state = "HALF_OPEN" /\ r.probes = snap.probes - 1
        BY <1>1, <2>3, <3>5, <3>6 DEF BreakerSnapshot
      <4> QED BY <1>1, <1>3, <3>2, <3>4, <4>1 DEF SlotsAreProbesInFlight, BreakerSnapshot
    <3>7. CASE r.state # "HALF_OPEN" /\ r.probes = 0
      BY <1>3, <3>7 DEF SlotsAreProbesInFlight
    <3> QED BY <1>2, <2>3, <3>6, <3>7
  <2> QED BY <2>1, <2>2, <2>3
<1>10. ProbesAreCurrent'
  <2> SUFFICES ASSUME HalfOpenProbes = 1, NEW d \in InFlight', adm'[d].probe
               PROVE  snap'.state = "HALF_OPEN" /\ d \in CurrentProbes'
    BY DEF ProbesAreCurrent
  <2>1. d # c /\ d \in InFlight /\ adm[d].probe
    BY <1>5
  <2>2. snap.state = "HALF_OPEN" /\ d \in CurrentProbes
    BY <2>1 DEF ProbesAreCurrent
  <2>3. c \notin CurrentProbes
    <3> SUFFICES ASSUME c \in CurrentProbes PROVE FALSE
      OBVIOUS
    <3>1. Cardinality({c, d}) = 2
      <4>1. IsFiniteSet({d}) /\ Cardinality({d}) = 1
        BY FS_Singleton
      <4>2. {c, d} = {d} \cup {c} /\ c \notin {d}
        BY <2>1
      <4>3. Cardinality({d} \cup {c}) = Cardinality({d}) + 1
        BY <4>1, <4>2, FS_AddElement
      <4> QED BY <4>1, <4>2, <4>3
    <3>2. Cardinality({c, d}) <= Cardinality(CurrentProbes)
      BY <2>2, CurrentProbesFinite, FS_Subset
    <3>3. Cardinality(CurrentProbes) <= 1
      BY <2>2 DEF SlotsAreProbesInFlight
    <3>4. Cardinality(CurrentProbes) \in Nat
      BY CurrentProbesFinite, FS_CardinalityType
    <3> QED BY <3>1, <3>2, <3>3, <3>4
  <2>4. snap' = snap
    BY <1>2, <1>3, <1>5, <2>2, <2>3 DEF Decides, CurrentProbes
  <2> QED BY <1>7, <2>1, <2>2, <2>4
<1> QED BY <1>4, <1>6, <1>8, <1>9, <1>10

\* Every step of the breaker's clients keeps the invariant.
LEMMA NextInv == BreakerInv /\ [Next]_cvars => BreakerInv'
<1> SUFFICES ASSUME BreakerInv, [Next]_cvars PROVE BreakerInv'
  OBVIOUS
<1>1. TypeOK /\ TypeOK'
  BY NextType DEF BreakerInv
<1>2. CASE Tick
  <2>1. StampsArePast'
    BY <1>1, <1>2 DEF Tick, TypeOK, BreakerInv, StampsArePast
  <2>2. InFlight' = InFlight
    BY <1>2 DEF Tick, InFlight
  <2> QED BY <1>1, <1>2, <2>1, <2>2, QuietStep DEF Tick
<1>3. ASSUME NEW c \in Calls, Begin(c) PROVE BreakerInv'
  <2>1. StampsArePast'
    BY <1>1, <1>3 DEF Begin, TypeOK, BreakerInv, StampsArePast
  <2>2. InFlight' = InFlight
    BY <1>1, <1>3 DEF Begin, Goto, InFlight, TypeOK
  <2> QED BY <1>1, <1>3, <2>1, <2>2, QuietStep DEF Begin
<1>4. ASSUME NEW c \in Calls, NEW h \in Health, Finish(c, h) PROVE BreakerInv'
  <2>1. StampsArePast'
    BY <1>1, <1>4 DEF Finish, TypeOK, BreakerInv, StampsArePast
  <2>2. InFlight' = InFlight
    BY <1>1, <1>4 DEF Finish, Goto, InFlight, TypeOK
  <2> QED BY <1>1, <1>4, <2>1, <2>2, QuietStep DEF Finish
<1>5. CASE UNCHANGED cvars
  <2>1. InFlight' = InFlight /\ StampsArePast'
    BY <1>5 DEF cvars, InFlight, StampsArePast, BreakerInv
  <2> QED BY <1>1, <1>5, <2>1, QuietStep DEF cvars
<1> QED BY <1>1, <1>2, <1>3, <1>4, <1>5, AdmitInv, RecordInv DEF Next, Call

\* The invariant holds in every reachable state.
THEOREM Invariance == Safety => []BreakerInv
BY InitInv, NextInv, PTL DEF Safety

-------------------------------------------------------------------------------
(* The properties the runs check. *)

\* A probe slot is neither leaked nor released twice.
THEOREM SlotsAccounted == Safety => []SlotsAreProbesInFlight
BY Invariance, PTL DEF BreakerInv

\* With one probe per round, no two probes are ever in flight together.
THEOREM OneProbeAtATime == Safety => []SingleProbe
<1>1. BreakerInv => SingleProbe
  <2> SUFFICES ASSUME BreakerInv, HalfOpenProbes = 1
               PROVE  Cardinality({c \in InFlight : adm[c].probe}) <= 1
    BY DEF SingleProbe
  <2> DEFINE P == {c \in InFlight : adm[c].probe}
  <2>1. CASE P = {}
    BY <2>1, FS_EmptySet
  <2>2. CASE P # {}
    <3>1. snap.state = "HALF_OPEN" /\ P \subseteq CurrentProbes
      BY <2>2 DEF BreakerInv, ProbesAreCurrent
    <3>2. Cardinality(CurrentProbes) <= 1
      BY <3>1 DEF BreakerInv, SlotsAreProbesInFlight
    <3>3. Cardinality(P) <= Cardinality(CurrentProbes)
      BY <3>1, CurrentProbesFinite, FS_Subset
    <3>4. Cardinality(P) \in Nat /\ Cardinality(CurrentProbes) \in Nat
      BY <3>1, CurrentProbesFinite, FS_Subset, FS_CardinalityType
    <3> QED BY <3>2, <3>3, <3>4
  <2> QED BY <2>1, <2>2
<1> QED BY <1>1, Invariance, PTL

\* Which step it is that ends a call: the other actions of a caller do not go
\* from "record" to "idle".
LEMMA EndsByRecord ==
  ASSUME TypeOK, [Next]_cvars, NEW c \in Calls, pc[c] = "record", pc'[c] = "idle"
  PROVE  Record(c)
<1>1. CASE Tick \/ UNCHANGED cvars
  BY <1>1 DEF Tick, cvars
<1>2. ASSUME NEW d \in Calls, Call(d) PROVE Record(c)
  <2>1. CASE Begin(d)
    BY <2>1 DEF Begin, Goto, TypeOK
  <2>2. CASE Admit(d)
    BY <2>2 DEF Admit, Goto, TypeOK
  <2>3. ASSUME NEW h \in Health, Finish(d, h) PROVE Record(c)
    BY <2>3 DEF Finish, Goto, TypeOK
  <2>4. CASE Record(d)
    <3>1. c = d
      BY <2>4 DEF Record, Goto, TypeOK
    <3> QED BY <2>4, <3>1
  <2> QED BY <1>2, <2>1, <2>2, <2>3, <2>4 DEF Call
<1> QED BY <1>1, <1>2 DEF Next

\* Only a probe of the round in progress moves a half-open circuit.
THEOREM CurrentProbeDecides == Safety => OnlyCurrentProbeDecides
<1> DEFINE A == \A c \in Calls :
       snap.state = "HALF_OPEN" /\ pc[c] = "record" /\ pc'[c] = "idle" /\ snap' # snap
         => adm[c].probe /\ born[c] = rounds
<1>1. BreakerInv /\ [Next]_cvars => [A]_cvars
  <2> SUFFICES ASSUME BreakerInv, [Next]_cvars, NEW c \in Calls,
                      snap.state = "HALF_OPEN", pc[c] = "record", pc'[c] = "idle", snap' # snap
               PROVE  adm[c].probe /\ born[c] = rounds
    OBVIOUS
  <2>1. snap' = RecordResult(snap, adm[c], health[c], stamp[c])
    BY EndsByRecord DEF BreakerInv, Record
  <2>2. Recorded(snap, adm[c], health[c], snap')
    BY <2>1, RecordFacts DEF BreakerInv, TypeOK
  <2>3. adm[c].probe /\ adm[c].epoch = snap.epoch
    BY <2>2 DEF Recorded, Decides
  <2>4. c \in InFlight
    BY DEF InFlight
  <2> QED BY <2>3, <2>4 DEF BreakerInv, EpochsAreRounds
<1> QED BY <1>1, Invariance, PTL DEF Safety, OnlyCurrentProbeDecides

\* What a step does to the snapshot: nothing, or one of the two transactions.
LEMMA StepOfSnapshot ==
  ASSUME BreakerInv, [Next]_cvars, snap' # snap
  PROVE  \E c \in Calls : Admit(c) \/ Record(c)
BY DEF Next, Call, Tick, Begin, Finish, cvars

\* A closed circuit opens only on failure_threshold consecutive failures.
THEOREM OpensOnConsecutiveFailures == Safety => OpensOnlyOnConsecutiveFailures
<1> DEFINE A == snap.state = "CLOSED" /\ snap'.state # "CLOSED" =>
                  snap'.state = "OPEN" /\ streak' = FailureThreshold
<1>1. BreakerInv /\ [Next]_cvars => [A]_cvars
  <2> SUFFICES ASSUME BreakerInv, [Next]_cvars, snap.state = "CLOSED", snap'.state # "CLOSED"
               PROVE  snap'.state = "OPEN" /\ streak' = FailureThreshold
    OBVIOUS
  <2>1. PICK c \in Calls : Admit(c) \/ Record(c)
    BY StepOfSnapshot
  <2>2. snap \in BreakerSnapshot /\ streak \in 0..FailureThreshold /\ snap.failures <= streak
        /\ stamp[c] \in Nat /\ adm[c] \in Admission /\ health[c] \in Health
    BY DEF BreakerInv, TypeOK, FailuresAreConsecutive
  <2>3. CASE Admit(c)
    <3>1. snap' = AdmitCall(snap, stamp[c]).snap
      BY <2>3 DEF Admit
    <3> QED BY <2>2, <3>1, AdmitFacts DEF Unmoved, NewRound, JoinRound
  <2>4. CASE Record(c)
    <3>1. snap' = RecordResult(snap, adm[c], health[c], stamp[c])
      BY <2>4 DEF Record
    <3>2. snap'.state = "OPEN" /\ health[c] = "UNHEALTHY" /\ snap.failures + 1 >= FailureThreshold
      BY <2>2, <3>1, RecordFacts DEF Recorded
    <3>3. streak' = IF streak < FailureThreshold THEN streak + 1 ELSE streak
      BY <2>4, <3>2 DEF Record
    <3> QED BY <2>2, <3>2, <3>3, PolicyAssumption DEF BreakerSnapshot
  <2> QED BY <2>1, <2>3, <2>4
<1> QED BY <1>1, Invariance, PTL DEF Safety, OpensOnlyOnConsecutiveFailures

\* An open circuit stays quiet for the whole cool-down.
THEOREM CoolDownKept == Safety => CoolDownIsKept
<1> DEFINE A == snap.state = "OPEN" /\ snap'.state # "OPEN" =>
                  snap'.state = "HALF_OPEN" /\ now >= snap.opened_at + OpenSeconds
<1>1. BreakerInv /\ [Next]_cvars => [A]_cvars
  <2> SUFFICES ASSUME BreakerInv, [Next]_cvars, snap.state = "OPEN", snap'.state # "OPEN"
               PROVE  snap'.state = "HALF_OPEN" /\ now >= snap.opened_at + OpenSeconds
    OBVIOUS
  <2>1. PICK c \in Calls : Admit(c) \/ Record(c)
    BY StepOfSnapshot
  <2>2. snap \in BreakerSnapshot /\ now \in Nat /\ stamp[c] \in Nat /\ stamp[c] <= now
        /\ adm[c] \in Admission /\ health[c] \in Health
    BY DEF BreakerInv, TypeOK, StampsArePast
  <2>3. CASE Admit(c)
    <3>1. snap' = AdmitCall(snap, stamp[c]).snap
      BY <2>3 DEF Admit
    <3>2. snap'.state = "HALF_OPEN" /\ ~Cooling(snap, stamp[c])
      BY <2>2, <3>1, AdmitFacts DEF Unmoved, NewRound, JoinRound
    <3> QED BY <2>2, <3>2, PolicyAssumption DEF Cooling, BreakerSnapshot
  <2>4. CASE Record(c)
    <3>1. snap' = RecordResult(snap, adm[c], health[c], stamp[c])
      BY <2>4 DEF Record
    <3> QED BY <2>2, <3>1, RecordFacts DEF Recorded
  <2> QED BY <2>1, <2>3, <2>4
<1> QED BY <1>1, Invariance, PTL DEF Safety, CoolDownIsKept

-------------------------------------------------------------------------------
(* A full round, up to fairness: who holds it full, and what ends it.  *)

Full == snap.state = "HALF_OPEN" /\ snap.probes >= HalfOpenProbes

\* Callers are refused by a half-open circuit only while a probe of this very
\* round is out.
HeldByAProbe == Full => CurrentProbes # {}

\* The round stays full, held by the same probes, until one of them is
\* recorded; and then it is full no more, whatever the result.
EndedByAProbe ==
  [][Full => IF \E c \in CurrentProbes : Record(c)
             THEN ~Full'
             ELSE Full' /\ CurrentProbes' = CurrentProbes]_cvars

\* The step of a caller that is not a probe of the full round.
LEMMA FullStays ==
  ASSUME BreakerInv, Full, [Next]_cvars, ~\E c \in CurrentProbes : Record(c)
  PROVE  snap' = snap /\ CurrentProbes' = CurrentProbes
<1> USE DEF CurrentProbes, InFlight
<1>1. TypeOK
  BY DEF BreakerInv
<1>2. CASE Tick \/ UNCHANGED cvars
  BY <1>2 DEF Tick, cvars
<1>3. ASSUME NEW c \in Calls, Call(c) PROVE snap' = snap /\ CurrentProbes' = CurrentProbes
  <2>1. CASE Begin(c)
    BY <1>1, <2>1 DEF Begin, Goto, TypeOK
  <2>2. CASE Admit(c)
    <3>1. snap' = AdmitCall(snap, stamp[c]).snap /\ adm'[c] = AdmitCall(snap, stamp[c]).adm
      BY <1>1, <2>2 DEF Admit, TypeOK
    <3>2. Unmoved(snap, AdmitCall(snap, stamp[c]))
      <4>1. snap.state = "HALF_OPEN" /\ snap.probes >= HalfOpenProbes
        BY DEF Full
      <4>2. snap \in BreakerSnapshot /\ stamp[c] \in Nat /\ snap.probes \in Nat
        BY <1>1 DEF TypeOK, BreakerSnapshot
      <4>3. ~(snap.probes < HalfOpenProbes)
        BY <4>1, <4>2, PolicyAssumption
      <4> QED BY <4>1, <4>2, <4>3, AdmitFacts DEF NewRound, JoinRound
    <3>3. snap' = snap /\ ~adm'[c].probe
      BY <3>1, <3>2 DEF Unmoved
    <3>4. pc[c] = "admit"
      BY <2>2 DEF Admit, Goto
    <3>5. \A d \in Calls \ {c} : pc'[d] = pc[d] /\ adm'[d] = adm[d]
      BY <1>1, <2>2 DEF Admit, Goto, TypeOK
    <3> QED BY <3>3, <3>4, <3>5
  <2>3. ASSUME NEW h \in Health, Finish(c, h) PROVE snap' = snap /\ CurrentProbes' = CurrentProbes
    <3>1. snap' = snap /\ adm' = adm /\ pc[c] = "sending" /\ pc'[c] = "record"
      BY <1>1, <2>3 DEF Finish, Goto, TypeOK
    <3>2. \A d \in Calls \ {c} : pc'[d] = pc[d]
      BY <1>1, <2>3 DEF Finish, Goto, TypeOK
    <3> QED BY <3>1, <3>2
  <2>4. CASE Record(c)
    <3>1. pc[c] = "record" /\ pc'[c] = "idle"
      BY <1>1, <2>4 DEF Record, Goto, TypeOK
    <3>2. c \notin CurrentProbes
      BY <2>4
    <3>3. ~Decides(snap, adm[c])
      BY <3>1, <3>2 DEF Decides
    <3>4. snap' = RecordResult(snap, adm[c], health[c], stamp[c])
      BY <2>4 DEF Record
    <3>5. snap' = snap
      BY <1>1, <3>3, <3>4, RecordFacts DEF Full, Recorded, TypeOK
    <3>6. \A d \in Calls \ {c} : pc'[d] = pc[d] /\ adm'[d] = adm[d]
      BY <1>1, <2>4 DEF Record, Goto, TypeOK
    <3> QED BY <3>1, <3>2, <3>5, <3>6
  <2> QED BY <1>3, <2>1, <2>2, <2>3, <2>4 DEF Call
<1> QED BY <1>2, <1>3 DEF Next

\* What a full round waits for is always there, and ends it: this is what
\* FullRoundEnds comes to once the fairness of Finish and Record is set aside.
THEOREM FullRoundIsOwed == Safety => []HeldByAProbe /\ EndedByAProbe
<1> DEFINE A == Full => IF \E c \in CurrentProbes : Record(c)
                        THEN ~Full'
                        ELSE Full' /\ CurrentProbes' = CurrentProbes
<1>1. BreakerInv => HeldByAProbe
  <2> SUFFICES ASSUME BreakerInv, Full, CurrentProbes = {} PROVE FALSE
    BY DEF HeldByAProbe
  <2>1. snap.probes = Cardinality(CurrentProbes)
    BY DEF BreakerInv, SlotsAreProbesInFlight, Full
  <2>2. Cardinality(CurrentProbes) = 0
    BY FS_EmptySet
  <2> QED BY <2>1, <2>2, PolicyAssumption DEF Full
<1>2. BreakerInv /\ [Next]_cvars => [A]_cvars
  <2> SUFFICES ASSUME BreakerInv, [Next]_cvars, Full PROVE A
    OBVIOUS
  <2>1. ASSUME NEW c \in CurrentProbes, Record(c) PROVE ~Full'
    <3>1. /\ snap' = RecordResult(snap, adm[c], health[c], stamp[c])
          /\ c \in Calls /\ pc[c] = "record" /\ Decides(snap, adm[c])
      BY <2>1 DEF Record, Goto, CurrentProbes, InFlight, Decides, Full
    <3>2. /\ snap \in BreakerSnapshot /\ adm[c] \in Admission
          /\ health[c] \in Health /\ stamp[c] \in Nat
      BY <3>1 DEF BreakerInv, TypeOK
    <3>3. \/ snap'.state \in {"CLOSED", "OPEN"}
          \/ snap' = [snap EXCEPT !.probes = HandBack(@)]
      BY <3>1, <3>2, RecordFacts DEF Recorded, Full
    <3>4. ASSUME snap' = [snap EXCEPT !.probes = HandBack(@)] PROVE snap'.probes < HalfOpenProbes
      <4>1. snap.probes \in Nat /\ snap.probes <= HalfOpenProbes
        BY <3>2 DEF BreakerSnapshot, BreakerInv, SlotsAreProbesInFlight
      <4>2. snap'.probes = HandBack(snap.probes)
        BY <3>2, <3>4 DEF BreakerSnapshot
      <4> QED BY <4>1, <4>2, PolicyAssumption DEF HandBack
    <3>5. snap'.probes \in Nat
      BY <3>1, <3>2, RecordFacts DEF BreakerSnapshot
    <3> QED BY <3>3, <3>4, <3>5, PolicyAssumption DEF Full
  <2>2. ASSUME ~\E c \in CurrentProbes : Record(c) PROVE Full' /\ CurrentProbes' = CurrentProbes
    BY <2>2, FullStays DEF Full
  <2> QED BY <2>1, <2>2
<1> QED BY <1>1, <1>2, Invariance, PTL DEF Safety, EndedByAProbe
===============================================================================
