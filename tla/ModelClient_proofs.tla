-------------------------- MODULE ModelClient_proofs --------------------------
(***************************************************************************)
(* Proofs about ModelClient for every number of requests and threads and   *)
(* every configuration.  The client is one more set of callers of the      *)
(* circuit breaker, so what is proved of the breaker holds under it; what  *)
(* is its own follows from an invariant of each request and from counting  *)
(* the requests that hold a slot.                                          *)
(***************************************************************************)
EXTENDS ModelClient, CircuitBreaker_proofs

\* What a call that was sent can end with.
Answers == {e.kind : e \in Exchange} \cup {"CANCELLED"}

\* Attempts are counted as they are sent, and another one needs room for it.
AttemptsCounted(r) ==
  /\ phase[r] \in {"new", "queued"} => attempts[r] = 0
  /\ phase[r] \in {"top", "sleeping"} \/ pc[r] = "admit" => attempts[r] < MaxAttempts
  /\ pc[r] \in {"sending", "record"} => attempts[r] > 0
  /\ attempts[r] <= MaxAttempts

RequestInv(r) ==
  /\ pc[r] # "idle" <=> phase[r] = "calling"
  /\ AttemptsCounted(r)
  /\ pc[r] = "record" => result[r] \in Answers
  /\ phase[r] = "sleeping" => wake[r] < deadline[r]
  /\ phase[r] = "done" =>
       /\ result[r] = "QUEUE_TIMEOUT" => attempts[r] = 0
       /\ attempts[r] = 0 => result[r] \in NotSent \cup {"CANCELLED", "TIMEOUT"}

\* The client's variables but the semaphore's bound.
ClientTypes ==
  /\ slots \in Nat
  /\ phase \in [Requests -> {"new", "queued", "top", "calling", "sleeping", "done"}]
  /\ attempts \in [Requests -> Nat]
  /\ deadline \in [Requests -> Nat]
  /\ wake \in [Requests -> Nat]
  /\ retryable \in [Requests -> BOOLEAN]
  /\ result \in [Requests -> ResultKind]

ClientInv ==
  /\ TypeOK /\ ClientTypes
  /\ SlotsConserved
  /\ \A r \in Requests : RequestInv(r)

-------------------------------------------------------------------------------
\* A step of the client is a step of one of the breaker's callers, or none.
LEMMA ClientStepIsCall == [ClientNext]_vars => [Next]_cvars
<1> SUFFICES ASSUME [ClientNext]_vars PROVE [Next]_cvars
  OBVIOUS
<1> USE ConfigAssumption
<1>1. CASE UNCHANGED vars
  BY <1>1 DEF vars
<1>2. CASE Tick
  BY <1>2 DEF Next
<1>3. ASSUME NEW c \in Calls \ Requests, Provider(c) PROVE Next
  BY <1>3 DEF Provider, Next
<1>4. ASSUME NEW r \in Requests, Request(r) PROVE [Next]_cvars
  <2>1. r \in Calls
    OBVIOUS
  <2>2. ASSUME NEW kind, NEW h \in Health, NEW again, Return(r, kind, h, again) PROVE Next
    BY <2>1, <2>2 DEF Return, Next, Call
  <2>3. CASE Enqueue(r) \/ Acquire(r) \/ OutOfTime(r) \/ Wake(r)
    BY <2>3 DEF Enqueue, Acquire, OutOfTime, Wake
  <2>4. CASE LeaveQueue(r, "QUEUE_TIMEOUT")
    BY <2>4 DEF LeaveQueue
  <2>5. CASE TryAttempt(r) \/ AdmitRequest(r) \/ Settle(r)
    BY <2>1, <2>5 DEF TryAttempt, AdmitRequest, Settle, Next, Call
  <2>6. CASE Answer(r)
    <3>1. PICK e \in Exchange : Return(r, e.kind, e.health, e.retryable)
      BY <2>6 DEF Answer
    <3>2. e.health \in Health
      BY DEF Exchange, Health
    <3> QED BY <2>2, <3>1, <3>2
  <2>7. CASE Cancel(r)
    <3>1. "UNKNOWN" \in Health
      BY DEF Health
    <3> QED BY <2>2, <2>7, <3>1 DEF Cancel, LeaveQueue
  <2> QED BY <1>4, <2>3, <2>4, <2>5, <2>6, <2>7 DEF Request, Progress
<1> QED BY <1>1, <1>2, <1>3, <1>4 DEF ClientNext

\* Whatever the requests and the provider threads do, the breaker sees callers that
\* follow its protocol.
THEOREM ClientFollowsProtocol == ClientSafety => Safety
<1>1. ClientInit => Init
  BY DEF ClientInit
<1> QED BY <1>1, ClientStepIsCall, PTL DEF ClientSafety, Safety
-------------------------------------------------------------------------------
(* Counting the slots. *)

LEMMA HoldersFinite == IsFiniteSet(Holders) /\ Cardinality(Holders) \in Nat
BY ConfigAssumption, CallsAssumption, FS_Subset, FS_CardinalityType DEF Holders

\* What a step of request r leaves alone.
OthersStay(r) ==
  \A q \in Requests \ {r} :
    /\ pc'[q] = pc[q] /\ phase'[q] = phase[q] /\ attempts'[q] = attempts[q]
    /\ deadline'[q] = deadline[q] /\ wake'[q] = wake[q] /\ result'[q] = result[q]

\* The semaphore counts the request that comes to hold a slot, or gives it back.
SlotFollows(r) ==
  \/ slots' = slots /\ (r \in Holders' <=> r \in Holders)
  \/ slots' = slots - 1 /\ r \notin Holders /\ r \in Holders'
  \/ slots' = slots + 1 /\ r \in Holders /\ r \notin Holders'

LEMMA SlotsStep ==
  ASSUME SlotsConserved, slots \in Nat, NEW r \in Requests, OthersStay(r), SlotFollows(r)
  PROVE  SlotsConserved'
<1>1. \A q \in Requests \ {r} : q \in Holders' <=> q \in Holders
  BY DEF OthersStay, Holders
<1>2. Holders \subseteq Requests /\ Holders' \subseteq Requests
  BY DEF Holders
<1>3. IsFiniteSet(Holders) /\ Cardinality(Holders) \in Nat
  BY HoldersFinite
<1>4. slots + Cardinality(Holders) = MaxInFlight
  BY DEF SlotsConserved
<1>5. SUFFICES slots' + Cardinality(Holders') = MaxInFlight
  BY DEF SlotsConserved
<1>6. CASE slots' = slots /\ (r \in Holders' <=> r \in Holders)
  <2>1. Holders' = Holders
    BY <1>1, <1>2, <1>6
  <2> QED BY <1>4, <1>6, <2>1
<1>7. CASE slots' = slots - 1 /\ r \notin Holders /\ r \in Holders'
  <2>1. Holders' = Holders \cup {r}
    BY <1>1, <1>2, <1>7
  <2>2. Cardinality(Holders') = Cardinality(Holders) + 1
    BY <1>3, <1>7, <2>1, FS_AddElement
  <2> QED BY <1>3, <1>4, <1>7, <2>2
<1>8. CASE slots' = slots + 1 /\ r \in Holders /\ r \notin Holders'
  <2>1. Holders' = Holders \ {r}
    BY <1>1, <1>2, <1>8
  <2>2. Cardinality(Holders') = Cardinality(Holders) - 1
    BY <1>3, <1>8, <2>1, FS_RemoveElement
  <2> QED BY <1>3, <1>4, <1>8, <2>2
<1> QED BY <1>6, <1>7, <1>8 DEF SlotFollows

-------------------------------------------------------------------------------
(* The step of each request. *)

\* The ways in which a request leaves.
LEMMA Leaving ==
  ASSUME ClientInv, NEW r \in Requests, NEW kind \in ResultKind, Ends(r, kind),
         pc' = pc \/ pc' = [pc EXCEPT ![r] = "idle"], pc'[r] = "idle",
         UNCHANGED attempts,
         kind = "QUEUE_TIMEOUT" => attempts[r] = 0,
         attempts[r] = 0 => kind \in NotSent \cup {"CANCELLED", "TIMEOUT"},
         slots' \in Nat
  PROVE  ClientTypes' /\ OthersStay(r) /\ RequestInv(r)' /\ r \notin Holders'
<1>1. ClientTypes /\ RequestInv(r)
  BY DEF ClientInv
<1>2. attempts' = attempts
  OBVIOUS
<1>3. ClientTypes'
  BY <1>1, <1>2 DEF ClientTypes, Ends
<1>4. OthersStay(r)
  BY <1>1, <1>2, ConfigAssumption DEF ClientTypes, Ends, OthersStay, ClientInv, TypeOK
<1>5. phase'[r] = "done" /\ result'[r] = kind
  BY <1>1 DEF ClientTypes, Ends
<1>6. attempts[r] <= MaxAttempts
  BY <1>1 DEF RequestInv, AttemptsCounted
<1>7. AttemptsCounted(r)'
  BY <1>2, <1>5, <1>6 DEF AttemptsCounted
<1> QED BY <1>2, <1>3, <1>4, <1>5, <1>7 DEF RequestInv, Holders

\* The step of a request keeps its types, its invariant and the count of the slots.
StepOf(r) == ClientTypes' /\ OthersStay(r) /\ RequestInv(r)' /\ SlotFollows(r)

LEMMA LeavesHolding ==
  ASSUME ClientInv, NEW r \in Requests, NEW kind \in ResultKind, Leave(r, kind),
         r \in Holders,
         pc' = pc \/ pc' = [pc EXCEPT ![r] = "idle"], pc'[r] = "idle",
         UNCHANGED attempts,
         kind # "QUEUE_TIMEOUT",
         attempts[r] = 0 => kind \in NotSent \cup {"CANCELLED", "TIMEOUT"}
  PROVE  StepOf(r)
<1>1. Ends(r, kind) /\ slots' = slots + 1
  BY DEF Leave
<1>2. slots' \in Nat
  BY <1>1 DEF ClientInv, ClientTypes
<1>3. ClientTypes' /\ OthersStay(r) /\ RequestInv(r)' /\ r \notin Holders'
  BY <1>1, <1>2, Leaving
<1> QED BY <1>1, <1>3 DEF StepOf, SlotFollows

LEMMA QueueStep ==
  ASSUME ClientInv, NEW r \in Requests, Enqueue(r) \/ Acquire(r) PROVE StepOf(r)
<1>1. /\ ClientTypes /\ RequestInv(r) /\ now \in Nat /\ r \in Calls
      /\ pc \in [Calls -> {"idle", "admit", "sending", "record"}]
  BY ConfigAssumption DEF ClientInv, TypeOK
<1>2. CASE Enqueue(r)
  <2>1. /\ phase[r] = "new" /\ phase' = [phase EXCEPT ![r] = "queued"]
        /\ deadline' = [deadline EXCEPT ![r] = now + QueueTimeout]
        /\ UNCHANGED <<pc, slots, attempts, wake, retryable, result>>
    BY <1>2 DEF Enqueue, Step, cvars
  <2>2. ClientTypes'
    BY <1>1, <2>1, ConfigAssumption DEF ClientTypes
  <2>3. phase'[r] = "queued"
    BY <1>1, <2>1 DEF ClientTypes
  <2>4. OthersStay(r)
    BY <1>1, <2>1 DEF ClientTypes, OthersStay
  <2>5. RequestInv(r)'
    BY <1>1, <2>1, <2>3 DEF RequestInv, AttemptsCounted
  <2>6. SlotFollows(r)
    BY <2>1, <2>3 DEF SlotFollows, Holders
  <2> QED BY <2>2, <2>4, <2>5, <2>6 DEF StepOf
<1>3. CASE Acquire(r)
  <2>1. /\ phase[r] = "queued" /\ phase' = [phase EXCEPT ![r] = "top"]
        /\ slots > 0 /\ slots' = slots - 1
        /\ deadline' = [deadline EXCEPT ![r] = now + TotalTimeout]
        /\ UNCHANGED <<pc, attempts, wake, retryable, result>>
    BY <1>3 DEF Acquire, Step, cvars
  <2>2. ClientTypes'
    BY <1>1, <2>1, ConfigAssumption DEF ClientTypes
  <2>3. phase'[r] = "top"
    BY <1>1, <2>1 DEF ClientTypes
  <2>4. OthersStay(r)
    BY <1>1, <2>1 DEF ClientTypes, OthersStay
  <2>5. RequestInv(r)'
    BY <1>1, <2>1, <2>3, ConfigAssumption DEF RequestInv, AttemptsCounted
  <2>6. SlotFollows(r)
    BY <2>1, <2>3 DEF SlotFollows, Holders
  <2> QED BY <2>2, <2>4, <2>5, <2>6 DEF StepOf
<1> QED BY <1>2, <1>3

LEMMA LeaveQueueStep ==
  ASSUME ClientInv, NEW r \in Requests, NEW kind \in {"QUEUE_TIMEOUT", "CANCELLED"},
         LeaveQueue(r, kind)
  PROVE  StepOf(r)
<1>1. /\ phase[r] = "queued" /\ Ends(r, kind) /\ UNCHANGED <<pc, slots, attempts>>
  BY DEF LeaveQueue, cvars
<1>2. /\ ClientTypes /\ RequestInv(r)
  BY DEF ClientInv
<1>3. pc[r] = "idle" /\ attempts[r] = 0 /\ r \notin Holders
  BY <1>1, <1>2, ConfigAssumption DEF RequestInv, AttemptsCounted, Holders, ClientInv, TypeOK
<1>4. kind \in ResultKind /\ kind \in NotSent \cup {"CANCELLED", "TIMEOUT"}
  BY DEF ResultKind, NotSent
<1>5. slots' \in Nat
  BY <1>1, <1>2 DEF ClientTypes
<1>6. ClientTypes' /\ OthersStay(r) /\ RequestInv(r)' /\ r \notin Holders'
  BY <1>1, <1>3, <1>4, <1>5, Leaving
<1> QED BY <1>1, <1>3, <1>6 DEF StepOf, SlotFollows

LEMMA TopStep ==
  ASSUME ClientInv, TypeOK', NEW r \in Requests, OutOfTime(r) \/ TryAttempt(r) PROVE StepOf(r)
<1>1. /\ ClientTypes /\ RequestInv(r) /\ now \in Nat /\ r \in Calls
      /\ pc \in [Calls -> {"idle", "admit", "sending", "record"}]
  BY ConfigAssumption DEF ClientInv, TypeOK
<1>2. CASE OutOfTime(r)
  <2>1. phase[r] = "top" /\ Leave(r, "TIMEOUT") /\ UNCHANGED <<pc, attempts>>
    BY <1>2 DEF OutOfTime, cvars
  <2>2. pc[r] = "idle" /\ r \in Holders
    BY <1>1, <2>1 DEF RequestInv, Holders
  <2>3. "TIMEOUT" \in ResultKind
    BY DEF ResultKind, Exchange
  <2> QED BY <2>1, <2>2, <2>3, LeavesHolding
<1>3. CASE TryAttempt(r)
  <2>1. /\ phase[r] = "top" /\ phase' = [phase EXCEPT ![r] = "calling"]
        /\ pc[r] = "idle" /\ pc' = [pc EXCEPT ![r] = "admit"]
        /\ UNCHANGED <<slots, attempts, deadline, wake, retryable, result>>
    BY <1>3 DEF TryAttempt, Step, Begin, Goto
  <2>2. ClientTypes'
    BY <1>1, <2>1 DEF ClientTypes
  <2>3. phase'[r] = "calling" /\ pc'[r] = "admit"
    BY <1>1, <2>1 DEF ClientTypes
  <2>4. OthersStay(r)
    BY <1>1, <2>1, ConfigAssumption DEF ClientTypes, OthersStay
  <2>5. RequestInv(r)'
    BY <1>1, <2>1, <2>3 DEF RequestInv, AttemptsCounted
  <2>6. SlotFollows(r)
    BY <2>1, <2>3 DEF SlotFollows, Holders
  <2> QED BY <2>2, <2>4, <2>5, <2>6 DEF StepOf
<1> QED BY <1>2, <1>3

LEMMA AdmitStep ==
  ASSUME ClientInv, NEW r \in Requests, AdmitRequest(r) PROVE StepOf(r)
<1>1. /\ ClientTypes /\ RequestInv(r) /\ r \in Calls
      /\ pc \in [Calls -> {"idle", "admit", "sending", "record"}]
      /\ adm \in [Calls -> Admission]
  BY ConfigAssumption DEF ClientInv, TypeOK
<1> DEFINE a == AdmitCall(snap, stamp[r]).adm
<1>2. /\ pc[r] = "admit" /\ pc' = [pc EXCEPT ![r] = IF a.allowed THEN "sending" ELSE "idle"]
      /\ adm' = [adm EXCEPT ![r] = a]
  BY DEF AdmitRequest, Admit, Goto
<1> HIDE DEF a
<1>3. adm'[r] = a /\ phase[r] = "calling" /\ r \in Holders /\ attempts[r] < MaxAttempts
  BY <1>1, <1>2 DEF RequestInv, AttemptsCounted, Holders
<1>4. CASE adm'[r].allowed /\ attempts' = [attempts EXCEPT ![r] = @ + 1]
           /\ UNCHANGED <<slots, phase, deadline, wake, retryable, result>>
  <2>1. pc' = [pc EXCEPT ![r] = "sending"] /\ pc'[r] = "sending"
    BY <1>1, <1>2, <1>3, <1>4
  <2>2. ClientTypes'
    BY <1>1, <1>4 DEF ClientTypes
  <2>3. attempts'[r] = attempts[r] + 1 /\ attempts[r] \in Nat
    BY <1>1, <1>4 DEF ClientTypes
  <2>4. OthersStay(r)
    BY <1>1, <1>4, <2>1, ConfigAssumption DEF ClientTypes, OthersStay
  <2>5. RequestInv(r)'
    BY <1>1, <1>3, <1>4, <2>1, <2>3, ConfigAssumption DEF RequestInv, AttemptsCounted
  <2>6. SlotFollows(r)
    BY <1>4 DEF SlotFollows, Holders
  <2> QED BY <2>2, <2>4, <2>5, <2>6 DEF StepOf
<1>5. CASE ~adm'[r].allowed /\ Leave(r, "CIRCUIT_OPEN") /\ UNCHANGED attempts
  <2>1. pc' = [pc EXCEPT ![r] = "idle"] /\ pc'[r] = "idle"
    BY <1>1, <1>2, <1>3, <1>5
  <2>2. "CIRCUIT_OPEN" \in ResultKind /\ "CIRCUIT_OPEN" \in NotSent
    BY DEF ResultKind, NotSent
  <2> QED BY <1>3, <1>5, <2>1, <2>2, LeavesHolding
<1> QED BY <1>4, <1>5 DEF AdmitRequest

LEMMA ReturnStep ==
  ASSUME ClientInv, NEW r \in Requests, NEW kind \in Answers, NEW h, NEW again \in BOOLEAN,
         Return(r, kind, h, again)
  PROVE  StepOf(r)
<1>1. /\ ClientTypes /\ RequestInv(r) /\ r \in Calls
      /\ pc \in [Calls -> {"idle", "admit", "sending", "record"}]
  BY ConfigAssumption DEF ClientInv, TypeOK
<1>2. /\ pc[r] = "sending" /\ pc' = [pc EXCEPT ![r] = "record"]
      /\ result' = [result EXCEPT ![r] = kind]
      /\ retryable' = [retryable EXCEPT ![r] = again]
      /\ UNCHANGED <<slots, phase, attempts, deadline, wake>>
  BY DEF Return, Finish, Goto
<1>3. phase[r] = "calling" /\ pc'[r] = "record" /\ result'[r] = kind
  BY <1>1, <1>2 DEF RequestInv, ClientTypes
<1>4. kind \in ResultKind
  BY DEF Answers, ResultKind
<1>5. ClientTypes'
  BY <1>1, <1>2, <1>4 DEF ClientTypes
<1>6. OthersStay(r)
  BY <1>1, <1>2, ConfigAssumption DEF ClientTypes, OthersStay
<1>7. RequestInv(r)'
  BY <1>1, <1>2, <1>3 DEF RequestInv, AttemptsCounted
<1>8. SlotFollows(r)
  BY <1>2 DEF SlotFollows, Holders
<1> QED BY <1>5, <1>6, <1>7, <1>8 DEF StepOf

LEMMA SettleStep ==
  ASSUME ClientInv, NEW r \in Requests, Settle(r) PROVE StepOf(r)
<1>1. /\ ClientTypes /\ RequestInv(r) /\ r \in Calls /\ now \in Nat
      /\ pc \in [Calls -> {"idle", "admit", "sending", "record"}]
  BY ConfigAssumption DEF ClientInv, TypeOK
<1>2. /\ pc[r] = "record" /\ pc' = [pc EXCEPT ![r] = "idle"] /\ pc'[r] = "idle"
      /\ now' = now /\ attempts' = attempts
  BY <1>1 DEF Settle, Record, Goto
<1>3. phase[r] = "calling" /\ r \in Holders /\ result[r] \in Answers /\ attempts[r] > 0
  BY <1>1, <1>2 DEF RequestInv, AttemptsCounted, Holders
<1>4. PICK delay \in 0 .. MaxDelay :
       \/ /\ Retries(r, delay)
          /\ phase' = [phase EXCEPT ![r] = "sleeping"]
          /\ wake' = [wake EXCEPT ![r] = now + delay]
          /\ UNCHANGED <<slots, deadline, retryable, result>>
       \/ ~Retries(r, delay) /\ Leave(r, result[r])
  BY DEF Settle
<1>5. CASE /\ Retries(r, delay)
           /\ phase' = [phase EXCEPT ![r] = "sleeping"]
           /\ wake' = [wake EXCEPT ![r] = now + delay]
           /\ UNCHANGED <<slots, deadline, retryable, result>>
  <2>1. ClientTypes'
    BY <1>1, <1>2, <1>5, ConfigAssumption DEF ClientTypes
  <2>2. phase'[r] = "sleeping" /\ wake'[r] = now + delay
    BY <1>1, <1>5 DEF ClientTypes
  <2>3. now + delay < deadline[r] /\ attempts[r] < MaxAttempts
    BY <1>1, <1>5, ConfigAssumption DEF Retries, ClientTypes
  <2>4. OthersStay(r)
    BY <1>1, <1>2, <1>5, ConfigAssumption DEF ClientTypes, OthersStay
  <2>5. RequestInv(r)'
    BY <1>1, <1>2, <1>5, <2>2, <2>3 DEF RequestInv, AttemptsCounted
  <2>6. SlotFollows(r)
    BY <1>3, <1>5, <2>2 DEF SlotFollows, Holders
  <2> QED BY <2>1, <2>4, <2>5, <2>6 DEF StepOf
<1>6. CASE Leave(r, result[r])
  <2>1. result[r] \in ResultKind /\ result[r] # "QUEUE_TIMEOUT"
    BY <1>3 DEF Answers, ResultKind, Exchange
  <2>2. ~ (attempts[r] = 0)
    BY <1>3
  <2> QED BY <1>2, <1>3, <1>6, <2>1, <2>2, LeavesHolding
<1> QED BY <1>4, <1>5, <1>6

LEMMA SleepStep ==
  ASSUME ClientInv, NEW r \in Requests,
         \/ Wake(r)
         \/ phase[r] = "sleeping" /\ Leave(r, "CANCELLED") /\ UNCHANGED <<cvars, attempts>>
  PROVE  StepOf(r)
<1>1. /\ ClientTypes /\ RequestInv(r) /\ r \in Calls
      /\ pc \in [Calls -> {"idle", "admit", "sending", "record"}]
  BY ConfigAssumption DEF ClientInv, TypeOK
<1>2. CASE Wake(r)
  <2>1. /\ phase[r] = "sleeping" /\ phase' = [phase EXCEPT ![r] = "top"]
        /\ wake' = [wake EXCEPT ![r] = 0] /\ retryable' = [retryable EXCEPT ![r] = FALSE]
        /\ UNCHANGED <<pc, slots, attempts, deadline, result>>
    BY <1>2 DEF Wake, Step, cvars
  <2>2. ClientTypes'
    BY <1>1, <2>1 DEF ClientTypes
  <2>3. phase'[r] = "top"
    BY <1>1, <2>1 DEF ClientTypes
  <2>4. OthersStay(r)
    BY <1>1, <2>1 DEF ClientTypes, OthersStay
  <2>5. RequestInv(r)'
    BY <1>1, <2>1, <2>3 DEF RequestInv, AttemptsCounted
  <2>6. SlotFollows(r)
    BY <2>1, <2>3 DEF SlotFollows, Holders
  <2> QED BY <2>2, <2>4, <2>5, <2>6 DEF StepOf
<1>3. CASE phase[r] = "sleeping" /\ Leave(r, "CANCELLED") /\ UNCHANGED <<cvars, attempts>>
  <2>1. pc' = pc /\ pc[r] = "idle" /\ r \in Holders
    BY <1>1, <1>3 DEF RequestInv, Holders, cvars
  <2>2. "CANCELLED" \in ResultKind
    BY DEF ResultKind
  <2> QED BY <1>3, <2>1, <2>2, LeavesHolding
<1> QED BY <1>2, <1>3

LEMMA RequestStep ==
  ASSUME ClientInv, TypeOK', NEW r \in Requests, Request(r) PROVE StepOf(r)
<1>1. CASE Enqueue(r) \/ Acquire(r)
  BY <1>1, QueueStep
<1>2. CASE LeaveQueue(r, "QUEUE_TIMEOUT")
  BY <1>2, LeaveQueueStep
<1>3. CASE OutOfTime(r) \/ TryAttempt(r)
  BY <1>3, TopStep
<1>4. CASE AdmitRequest(r)
  BY <1>4, AdmitStep
<1>5. CASE Answer(r)
  <2>1. PICK e \in Exchange : Return(r, e.kind, e.health, e.retryable)
    BY <1>5 DEF Answer
  <2>2. e.kind \in Answers
    BY DEF Answers
  <2>3. e.retryable \in BOOLEAN
    <3>1. \E k, h : \E b \in BOOLEAN : e = [kind |-> k, health |-> h, retryable |-> b]
      BY Zenon DEF Exchange
    <3> QED BY <3>1
  <2> QED BY <2>1, <2>2, <2>3, ReturnStep
<1>6. CASE Settle(r)
  BY <1>6, SettleStep
<1>7. CASE Wake(r)
  BY <1>7, SleepStep
<1>8. CASE Cancel(r)
  <2>1. CASE LeaveQueue(r, "CANCELLED")
    BY <2>1, LeaveQueueStep
  <2>2. CASE Return(r, "CANCELLED", "UNKNOWN", FALSE)
    <3>1. "CANCELLED" \in Answers
      BY DEF Answers
    <3> QED BY <2>2, <3>1, ReturnStep
  <2>3. CASE phase[r] = "sleeping" /\ Leave(r, "CANCELLED") /\ UNCHANGED <<cvars, attempts>>
    BY <2>3, SleepStep
  <2> QED BY <1>8, <2>1, <2>2, <2>3 DEF Cancel
<1> QED BY <1>1, <1>2, <1>3, <1>4, <1>5, <1>6, <1>7, <1>8 DEF Request, Progress

-------------------------------------------------------------------------------
LEMMA ClientInvInit == ClientInit => ClientInv
<1> SUFFICES ASSUME ClientInit PROVE ClientInv
  OBVIOUS
<1>1. TypeOK
  BY InitType DEF ClientInit
<1>2. ClientTypes
  BY ConfigAssumption DEF ClientInit, ClientTypes, ResultKind
<1>3. SlotsConserved
  <2>1. Holders = {}
    BY DEF ClientInit, Holders
  <2>2. Cardinality(Holders) = 0
    BY <2>1, FS_EmptySet
  <2> QED BY <2>2, ConfigAssumption DEF ClientInit, SlotsConserved
<1>4. ASSUME NEW r \in Requests PROVE RequestInv(r)
  BY ConfigAssumption DEF ClientInit, Init, RequestInv, AttemptsCounted
<1> QED BY <1>1, <1>2, <1>3, <1>4 DEF ClientInv

\* Nothing of a request moves but by its own steps.
LEMMA Untouched ==
  ASSUME NEW q \in Requests, RequestInv(q),
         pc'[q] = pc[q], phase'[q] = phase[q], attempts'[q] = attempts[q],
         deadline'[q] = deadline[q], wake'[q] = wake[q], result'[q] = result[q]
  PROVE  RequestInv(q)'
BY DEF RequestInv, AttemptsCounted

LEMMA ClientInvStep == ClientInv /\ [ClientNext]_vars => ClientInv'
<1> SUFFICES ASSUME ClientInv, [ClientNext]_vars PROVE ClientInv'
  OBVIOUS
<1>1. TypeOK'
  BY ClientStepIsCall, NextType DEF ClientInv
<1>2. ASSUME NEW r \in Requests, Request(r) PROVE ClientInv'
  <2>1. ClientTypes' /\ OthersStay(r) /\ RequestInv(r)' /\ SlotFollows(r)
    BY <1>1, <1>2, RequestStep DEF StepOf
  <2>2. SlotsConserved'
    BY <2>1, SlotsStep DEF ClientInv, ClientTypes
  <2>3. ASSUME NEW q \in Requests \ {r} PROVE RequestInv(q)'
    BY <2>1, <2>3, Untouched DEF ClientInv, OthersStay
  <2> QED BY <1>1, <2>1, <2>2, <2>3 DEF ClientInv
<1>3. ASSUME UNCHANGED lvars, \A q \in Requests : pc'[q] = pc[q] PROVE ClientInv'
  <2>1. ClientTypes' /\ SlotsConserved'
    BY <1>3 DEF ClientInv, ClientTypes, SlotsConserved, Holders, lvars
  <2>2. ASSUME NEW q \in Requests PROVE RequestInv(q)'
    BY <1>3, <2>2, Untouched DEF ClientInv, lvars
  <2> QED BY <1>1, <2>1, <2>2 DEF ClientInv
<1>4. CASE Tick /\ UNCHANGED lvars
  BY <1>3, <1>4 DEF Tick
<1>5. ASSUME NEW c \in Calls \ Requests, Provider(c) PROVE ClientInv'
  <2>1. pc \in [Calls -> {"idle", "admit", "sending", "record"}]
    BY DEF ClientInv, TypeOK
  <2>2. \E to : pc' = [pc EXCEPT ![c] = to]
    BY <1>5 DEF Provider, Call, Begin, Admit, Finish, Record, Goto
  <2>3. \A q \in Requests : pc'[q] = pc[q]
    BY <2>1, <2>2, ConfigAssumption
  <2> QED BY <1>3, <1>5, <2>3 DEF Provider
<1>6. CASE UNCHANGED vars
  BY <1>3, <1>6 DEF vars, cvars
<1> QED BY <1>2, <1>4, <1>5, <1>6 DEF ClientNext

LEMMA ClientInvariance == ClientSafety => []ClientInv
BY ClientInvInit, ClientInvStep, PTL DEF ClientSafety

\* A slot is taken exactly while a request is between acquire() and its return.
THEOREM BulkheadHolds == ClientSafety => []SlotsConserved
BY ClientInvariance, PTL DEF ClientInv

\* The client's state is well typed; the semaphore stays within its bound because its
\* value and the holders add up to it.
THEOREM ClientTypeCorrect == ClientSafety => []ClientTypeOK
<1>1. ClientInv => ClientTypeOK
  <2> SUFFICES ASSUME ClientInv PROVE ClientTypeOK
    OBVIOUS
  <2>1. slots \in Nat /\ Cardinality(Holders) \in Nat /\ MaxInFlight \in Nat
    BY HoldersFinite, ConfigAssumption DEF ClientInv, ClientTypes
  <2>2. slots \in 0 .. MaxInFlight
    BY <2>1 DEF ClientInv, SlotsConserved
  <2> QED BY <2>2 DEF ClientInv, ClientTypes, ClientTypeOK
<1> QED BY <1>1, ClientInvariance, PTL

\* No request ends or sleeps with an admission it has not recorded.
THEOREM AdmissionsAreRecorded == ClientSafety => []AdmissionsRecorded
<1>1. ClientInv => AdmissionsRecorded
  BY DEF ClientInv, RequestInv, AdmissionsRecorded
<1> QED BY <1>1, ClientInvariance, PTL

\* No sleep reaches the deadline and no request makes more than max_attempts.
THEOREM RetriesAreBounded == ClientSafety => []RetriesBounded
<1>1. ClientInv => RetriesBounded
  BY DEF ClientInv, RequestInv, AttemptsCounted, RetriesBounded
<1> QED BY <1>1, ClientInvariance, PTL

\* The reported kind says truly whether anything was sent.
THEOREM KindsStayHonest == ClientSafety => []KindsAreHonest
<1>1. ClientInv => KindsAreHonest
  BY DEF ClientInv, RequestInv, KindsAreHonest
<1> QED BY <1>1, ClientInvariance, PTL

\* Under the client too, one probe at a time (SingleProbe) when the policy says one.
THEOREM ClientSingleProbe == ClientSafety => []SingleProbe
BY ClientFollowsProtocol, OneProbeAtATime, PTL
===============================================================================
