---------------------------- MODULE CircuitBreaker ----------------------------
(***************************************************************************)
(* One key of the process-wide circuit breaker and the threads that call   *)
(* the server behind it (saleha/core/platform/circuit_breaker.py).         *)
(*                                                                         *)
(* Every client follows the same protocol: read the clock, admit() under   *)
(* the store's lock, send, read the clock again, record() under the lock.  *)
(* The two clock reads are steps of their own, because the code reads the  *)
(* clock before it takes the lock: a thread may be overtaken in between.   *)
(* A caller's locals return to their initial values when they go out of    *)
(* scope.                                                                  *)
(***************************************************************************)
EXTENDS Breaker, FiniteSets

CONSTANTS
  Calls,    \* the callers: threads or coroutines, each making calls in turn
  MaxNow    \* bound of the clock; TLC's only bound, every counter follows it

ASSUME CallsAssumption == IsFiniteSet(Calls) /\ MaxNow \in Nat

VARIABLES
  now,      \* time.monotonic(), in whole seconds
  snap,     \* the store's snapshot for this key
  pc,       \* where each caller is
  stamp,    \* the clock value a caller read before taking the lock
  adm,      \* the Admission a caller holds
  health,   \* the Health of a caller's finished call
  \* History, read by no action:
  rounds,   \* half-open rounds ever started
  born,     \* the value of rounds when a caller was admitted
  streak    \* UNHEALTHY results folded in since the last HEALTHY one, capped

cvars == <<now, snap, pc, stamp, adm, health, rounds, born, streak>>

Init ==
  /\ now = 0
  /\ snap = FreshSnapshot(0)
  /\ pc = [c \in Calls |-> "idle"]
  /\ stamp = [c \in Calls |-> 0]
  /\ adm = [c \in Calls |-> Refusal]
  /\ health = [c \in Calls |-> "UNKNOWN"]
  /\ rounds = 0
  /\ born = [c \in Calls |-> 0]
  /\ streak = 0

Goto(c, from, to) == pc[c] = from /\ pc' = [pc EXCEPT ![c] = to]

Tick ==
  /\ now < MaxNow
  /\ now' = now + 1
  /\ UNCHANGED <<snap, pc, stamp, adm, health, rounds, born, streak>>

\* CircuitBreaker.admit, up to the lock.
Begin(c) ==
  /\ Goto(c, "idle", "admit")
  /\ stamp' = [stamp EXCEPT ![c] = now]
  /\ UNCHANGED <<now, snap, adm, health, rounds, born, streak>>

\* CircuitBreaker.admit, the transaction.
Admit(c) ==
  LET step == AdmitCall(snap, stamp[c])
  IN  /\ Goto(c, "admit", IF step.adm.allowed THEN "sending" ELSE "idle")
      /\ snap' = step.snap
      /\ adm' = [adm EXCEPT ![c] = step.adm]
      /\ stamp' = [stamp EXCEPT ![c] = 0]
      /\ rounds' = IF snap.state = "OPEN" /\ step.snap.state = "HALF_OPEN"
                   THEN rounds + 1 ELSE rounds
      /\ born' = [born EXCEPT ![c] = IF step.adm.allowed THEN rounds' ELSE 0]
      /\ UNCHANGED <<now, health, streak>>

\* The call ends, with an answer, an error or a cancellation, and
\* CircuitBreaker.record reads the clock.
Finish(c, h) ==
  /\ Goto(c, "sending", "record")
  /\ health' = [health EXCEPT ![c] = h]
  /\ stamp' = [stamp EXCEPT ![c] = now]
  /\ UNCHANGED <<now, snap, adm, rounds, born, streak>>

\* CircuitBreaker.record, the transaction.
Record(c) ==
  /\ Goto(c, "record", "idle")
  /\ snap' = RecordResult(snap, adm[c], health[c], stamp[c])
  /\ streak' = CASE health[c] = "HEALTHY" -> 0
                 [] health[c] = "UNHEALTHY" /\ streak < FailureThreshold -> streak + 1
                 [] OTHER -> streak
  /\ stamp' = [stamp EXCEPT ![c] = 0]
  /\ adm' = [adm EXCEPT ![c] = Refusal]
  /\ health' = [health EXCEPT ![c] = "UNKNOWN"]
  /\ born' = [born EXCEPT ![c] = 0]
  /\ UNCHANGED <<now, rounds>>

Call(c) ==
  \/ Begin(c)
  \/ Admit(c)
  \/ \E h \in Health : Finish(c, h)
  \/ Record(c)

Next == Tick \/ \E c \in Calls : Call(c)

\* A client always leaves the lock, and its HTTP timeouts end every call;
\* nobody is obliged to start one.
Fairness ==
  \A c \in Calls : /\ WF_cvars(Admit(c))
                   /\ WF_cvars(\E h \in Health : Finish(c, h))
                   /\ WF_cvars(Record(c))

Safety == Init /\ [][Next]_cvars
Spec == Safety /\ Fairness
-------------------------------------------------------------------------------
InFlight == {c \in Calls : pc[c] \in {"sending", "record"}}

\* The calls that hold a probe slot of the half-open round the snapshot is in.
CurrentProbes == {c \in InFlight : adm[c].probe /\ adm[c].epoch = snap.epoch}

\* Type correctness.
TypeOK ==
  /\ now \in Nat
  /\ snap \in BreakerSnapshot
  /\ pc \in [Calls -> {"idle", "admit", "sending", "record"}]
  /\ stamp \in [Calls -> Nat]
  /\ adm \in [Calls -> Admission]
  /\ health \in [Calls -> Health]
  /\ rounds \in Nat
  /\ born \in [Calls -> Nat]
  /\ streak \in 0..FailureThreshold

\* A probe slot is neither leaked nor released twice: while the circuit is
\* half-open the counter is exactly the number of this round's probes still in
\* flight, and never above the policy (BreakerSnapshot.probes; max(0, ...) in
\* record_result never hides a negative count).
SlotsAreProbesInFlight ==
  /\ snap.state = "HALF_OPEN" => snap.probes = Cardinality(CurrentProbes)
  /\ snap.state # "HALF_OPEN" => snap.probes = 0
  /\ snap.probes <= HalfOpenProbes

\* "Only the current round's probe decides whether an open circuit closes"
\* (module docstring): a result that moves a half-open circuit, be it by closing
\* it, reopening it or freeing a slot, is that of a probe admitted in this very
\* round.  The round is the history variables', not the epoch the code compares.
OnlyCurrentProbeDecides ==
  [][\A c \in Calls :
       snap.state = "HALF_OPEN" /\ pc[c] = "record" /\ pc'[c] = "idle" /\ snap' # snap
         => adm[c].probe /\ born[c] = rounds]_cvars

\* A closed circuit opens only on failure_threshold consecutive UNHEALTHY
\* results: no HEALTHY result was folded in among them, whatever calls of
\* earlier rounds reported in the meantime.
OpensOnlyOnConsecutiveFailures ==
  [][snap.state = "CLOSED" /\ snap'.state # "CLOSED" =>
       snap'.state = "OPEN" /\ streak' = FailureThreshold]_cvars

\* An open circuit stays quiet for the whole cool-down, also when the thread
\* that ends it read its clock long before it got the lock.
CoolDownIsKept ==
  [][snap.state = "OPEN" /\ snap'.state # "OPEN" =>
       snap'.state = "HALF_OPEN" /\ now >= snap.opened_at + OpenSeconds]_cvars

\* With one probe per round (the default, and all the environment can set) no
\* two probes are ever in flight together, of whatever rounds.
SingleProbe ==
  HalfOpenProbes = 1 => Cardinality({c \in InFlight : adm[c].probe}) <= 1

\* A half-open circuit never stays full: a probe's slot is given back or the
\* round ends, so a hung or cancelled probe cannot lock callers out for good.
FullRoundEnds ==
  snap.state = "HALF_OPEN" /\ snap.probes >= HalfOpenProbes
    ~> (snap.state # "HALF_OPEN" \/ snap.probes < HalfOpenProbes)
===============================================================================
