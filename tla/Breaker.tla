------------------------------- MODULE Breaker -------------------------------
(***************************************************************************)
(* The pure half of saleha/core/platform/circuit_breaker.py: the snapshot  *)
(* the store keeps for one model server and the two functions that move    *)
(* it.  They hold no state; CircuitBreaker applies them atomically.        *)
(* last_error, reason and detail are wording and are left out.             *)
(***************************************************************************)
EXTENDS Integers

CONSTANTS
  FailureThreshold,   \* BreakerPolicy.failure_threshold
  OpenSeconds,        \* BreakerPolicy.open_seconds
  HalfOpenProbes      \* BreakerPolicy.half_open_probes

\* BreakerPolicy.__post_init__ rejects every other policy.
ASSUME PolicyAssumption ==
  /\ FailureThreshold \in Nat \ {0}
  /\ OpenSeconds \in Nat \ {0}
  /\ HalfOpenProbes \in Nat \ {0}

CircuitState == {"CLOSED", "OPEN", "HALF_OPEN"}
Health == {"HEALTHY", "UNHEALTHY", "UNKNOWN"}

BreakerSnapshot ==
  [state : CircuitState, failures : Nat, opened_at : Nat, epoch : Nat, probes : Nat]

\* Mutant: a probe that closes the circuit forgets the epoch as well.
FreshSnapshotForgetsEpoch(epoch) ==
  [state |-> "CLOSED", failures |-> 0, opened_at |-> 0, epoch |-> 0, probes |-> 0]

FreshSnapshot(epoch) ==
  [state |-> "CLOSED", failures |-> 0, opened_at |-> 0, epoch |-> epoch, probes |-> 0]

Admission == [allowed : BOOLEAN, probe : BOOLEAN, epoch : Nat]

Ordinary == [allowed |-> TRUE, probe |-> FALSE, epoch |-> 0]
Refusal  == [allowed |-> FALSE, probe |-> FALSE, epoch |-> 0]
Probe(epoch) == [allowed |-> TRUE, probe |-> TRUE, epoch |-> epoch]

\* Mutant: the cool-down ends a second early.
CoolingShort(snap, now) == snap.opened_at + OpenSeconds - now > 1

Cooling(snap, now) == snap.opened_at + OpenSeconds - now > 0

\* The half-open snapshot a call meets: an open circuit past its cool-down
\* starts a new round.
RoundFor(snap) ==
  IF snap.state = "OPEN"
  THEN [snap EXCEPT !.state = "HALF_OPEN", !.epoch = @ + 1, !.probes = 0]
  ELSE snap

\* admit_call: the new snapshot and the admission.
AdmitCall(snap, now) ==
  LET round == RoundFor(snap)
  IN  CASE snap.state = "CLOSED" -> [snap |-> snap, adm |-> Ordinary]
        [] snap.state = "OPEN" /\ Cooling(snap, now) -> [snap |-> snap, adm |-> Refusal]
        [] OTHER ->
             IF round.probes >= HalfOpenProbes
             THEN [snap |-> round, adm |-> Refusal]
             ELSE [snap |-> [round EXCEPT !.probes = @ + 1], adm |-> Probe(round.epoch)]

\* Mutant: no slot is given back.
HandBackNone(probes) == probes

\* max(0, probes - 1)
HandBack(probes) == IF probes > 0 THEN probes - 1 ELSE 0

\* Mutant: the result of any probe decides the round in progress.
DecidesAnyRound(snap, adm) == adm.probe /\ snap.state = "HALF_OPEN"

Decides(snap, adm) ==
  adm.probe /\ snap.state = "HALF_OPEN" /\ adm.epoch = snap.epoch

\* An open circuit, cooling down from now on.
Opened(snap, now) ==
  [snap EXCEPT !.state = "OPEN", !.failures = @ + 1, !.opened_at = now]

\* What the current round's probe does to a half-open circuit.
ProbeResult(snap, health, now) ==
  CASE health = "HEALTHY"   -> FreshSnapshot(snap.epoch)
    [] health = "UNHEALTHY" -> [Opened(snap, now) EXCEPT !.probes = 0]
    [] OTHER                -> [snap EXCEPT !.probes = HandBack(@)]

\* Mutant: a success does not reset the count of failures.
ClosedResultKeepsCount(snap, health, now) ==
  CASE health = "UNHEALTHY" /\ snap.failures + 1 >= FailureThreshold ->
         Opened(snap, now)
    [] health = "UNHEALTHY" /\ snap.failures + 1 < FailureThreshold ->
         [snap EXCEPT !.failures = @ + 1]
    [] OTHER -> snap

\* What any result does to a closed circuit.
ClosedResult(snap, health, now) ==
  CASE health = "HEALTHY" -> [snap EXCEPT !.failures = 0]
    [] health = "UNHEALTHY" /\ snap.failures + 1 >= FailureThreshold ->
         Opened(snap, now)
    [] health = "UNHEALTHY" /\ snap.failures + 1 < FailureThreshold ->
         [snap EXCEPT !.failures = @ + 1]
    [] OTHER -> snap

\* record_result
RecordResult(snap, adm, health, now) ==
  CASE Decides(snap, adm) -> ProbeResult(snap, health, now)
    [] ~Decides(snap, adm) /\ snap.state = "CLOSED" -> ClosedResult(snap, health, now)
    [] OTHER -> snap
==============================================================================
