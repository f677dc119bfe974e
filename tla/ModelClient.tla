------------------------------ MODULE ModelClient ------------------------------
(***************************************************************************)
(* AsyncOllamaClient.generate (saleha/core/platform/async_ollama.py):      *)
(* requests that queue for an in-flight slot, make breaker-guarded         *)
(* attempts under a deadline, sleep between retries while they keep the    *)
(* slot, and may be cancelled at every await.  They share the breaker of   *)
(* CircuitBreaker with threads that call the same server through           *)
(* OllamaProvider (model_provider.py), which make single attempts and hold *)
(* no slot.  The content of an answer is reduced to its ResultKind.        *)
(***************************************************************************)
EXTENDS CircuitBreaker

CONSTANTS
  Requests,       \* the generate() calls; the other Calls are provider threads
  MaxInFlight,    \* ClientConfig.max_in_flight
  MaxAttempts,    \* RetryPolicy.max_attempts
  MaxDelay,       \* RetryPolicy.max_delay
  QueueTimeout,   \* ClientConfig.queue_timeout
  TotalTimeout    \* ClientConfig.total_timeout

\* ClientConfig.__post_init__ and RetryPolicy.__post_init__.
ASSUME ConfigAssumption ==
  /\ Requests \subseteq Calls
  /\ {MaxInFlight, MaxAttempts, QueueTimeout, TotalTimeout} \subseteq Nat \ {0}
  /\ MaxDelay \in Nat

VARIABLES
  slots,      \* the value of the semaphore _slots
  phase,      \* where each generate() is
  attempts,   \* requests actually sent
  deadline,   \* end of the queue wait, then of total_timeout
  wake,       \* end of the backoff sleep
  retryable,  \* AttemptOutcome.retryable of the last attempt
  result      \* ResultKind of the last attempt, then of the request

lvars == <<slots, phase, attempts, deadline, wake, retryable, result>>
vars == <<cvars, lvars>>

\* The Exchange kinds _send_once and interpret_answer produce, with what each
\* says about the server and whether a retry can help.
Exchange ==
  {[kind |-> "OK",           health |-> "HEALTHY",   retryable |-> FALSE],
   [kind |-> "EMPTY",        health |-> "HEALTHY",   retryable |-> FALSE],
   [kind |-> "REJECTED",     health |-> "HEALTHY",   retryable |-> FALSE],
   [kind |-> "BUSY",         health |-> "UNHEALTHY", retryable |-> TRUE],
   [kind |-> "SERVER_ERROR", health |-> "UNHEALTHY", retryable |-> TRUE],
   [kind |-> "SERVER_ERROR", health |-> "UNHEALTHY", retryable |-> FALSE],
   [kind |-> "SERVER_ERROR", health |-> "UNKNOWN",   retryable |-> FALSE],
   [kind |-> "TIMEOUT",      health |-> "UNHEALTHY", retryable |-> FALSE],
   [kind |-> "UNREACHABLE",  health |-> "UNHEALTHY", retryable |-> TRUE]}

NotSent == {"CIRCUIT_OPEN", "QUEUE_TIMEOUT"}
ResultKind == {e.kind : e \in Exchange} \cup NotSent \cup {"CANCELLED", "NONE"}

ClientInit ==
  /\ Init
  /\ slots = MaxInFlight
  /\ phase = [r \in Requests |-> "new"]
  /\ attempts = [r \in Requests |-> 0]
  /\ deadline = [r \in Requests |-> 0]
  /\ wake = [r \in Requests |-> 0]
  /\ retryable = [r \in Requests |-> FALSE]
  /\ result = [r \in Requests |-> "NONE"]

Step(r, from, to) == phase[r] = from /\ phase' = [phase EXCEPT ![r] = to]

\* A generate() returns or raises, and its locals are gone.
Ends(r, kind) ==
  /\ phase' = [phase EXCEPT ![r] = "done"]
  /\ result' = [result EXCEPT ![r] = kind]
  /\ deadline' = [deadline EXCEPT ![r] = 0]
  /\ wake' = [wake EXCEPT ![r] = 0]
  /\ retryable' = [retryable EXCEPT ![r] = FALSE]

\* One that holds a slot does: the finally releases it.
Leave(r, kind) == Ends(r, kind) /\ slots' = slots + 1

\* generate() is called.  Here and in Acquire the guard on MaxNow keeps the
\* timeout that starts within the bound of the clock.
Enqueue(r) ==
  /\ Step(r, "new", "queued")
  /\ now + QueueTimeout <= MaxNow
  /\ deadline' = [deadline EXCEPT ![r] = now + QueueTimeout]
  /\ UNCHANGED <<cvars, slots, attempts, wake, retryable, result>>

\* slots.acquire() succeeds and _attempts starts its own clock.
Acquire(r) ==
  /\ Step(r, "queued", "top")
  /\ slots > 0
  /\ now + TotalTimeout <= MaxNow
  /\ slots' = slots - 1
  /\ deadline' = [deadline EXCEPT ![r] = now + TotalTimeout]
  /\ UNCHANGED <<cvars, attempts, wake, retryable, result>>

\* The wait for a slot ends without one: queue_timeout, or a cancellation.
LeaveQueue(r, kind) ==
  /\ phase[r] = "queued"
  /\ kind = "QUEUE_TIMEOUT" => now >= deadline[r]
  /\ Ends(r, kind)
  /\ UNCHANGED <<cvars, slots, attempts>>

\* Top of the attempt loop with total_timeout spent.
OutOfTime(r) ==
  /\ phase[r] = "top"
  /\ now >= deadline[r]
  /\ Leave(r, "TIMEOUT")
  /\ UNCHANGED <<cvars, attempts>>

\* Top of the attempt loop with time left: breaker.admit is called.
TryAttempt(r) ==
  /\ Step(r, "top", "calling")
  /\ now < deadline[r]
  /\ Begin(r)
  /\ UNCHANGED <<slots, attempts, deadline, wake, retryable, result>>

\* Mutant: an attempt is counted only when it is retried.
AdmitRequestUncounted(r) ==
  /\ Admit(r)
  /\ \/ adm'[r].allowed /\ UNCHANGED lvars
     \/ ~adm'[r].allowed /\ Leave(r, "CIRCUIT_OPEN") /\ UNCHANGED attempts

\* The breaker answers: send, or end the request unsent.
AdmitRequest(r) ==
  /\ Admit(r)
  /\ \/ /\ adm'[r].allowed
        /\ attempts' = [attempts EXCEPT ![r] = @ + 1]
        /\ UNCHANGED <<slots, phase, deadline, wake, retryable, result>>
     \/ /\ ~adm'[r].allowed
        /\ Leave(r, "CIRCUIT_OPEN")
        /\ UNCHANGED attempts

\* _send_once returns, or raises because the request was cancelled.
Return(r, kind, h, again) ==
  /\ Finish(r, h)
  /\ result' = [result EXCEPT ![r] = kind]
  /\ retryable' = [retryable EXCEPT ![r] = again]
  /\ UNCHANGED <<slots, phase, attempts, deadline, wake>>

\* Mutant: an exchange that outlives the deadline is never completed.
AnswerInTime(r) ==
  now < deadline[r] /\ \E e \in Exchange : Return(r, e.kind, e.health, e.retryable)

Answer(r) == \E e \in Exchange : Return(r, e.kind, e.health, e.retryable)

\* Mutant: a sleep may end at the deadline.
RetriesUpToDeadline(r, delay) ==
  /\ retryable[r]
  /\ attempts[r] < MaxAttempts
  /\ delay <= deadline[r] - now

\* next_delay: whether backing off by `delay` leads to another attempt.
Retries(r, delay) ==
  /\ retryable[r]
  /\ attempts[r] < MaxAttempts
  /\ delay < deadline[r] - now

\* breaker.record, then next_delay: sleep with the slot, or end the request.
Settle(r) ==
  /\ Record(r)
  /\ \E delay \in 0..MaxDelay :
       \/ /\ Retries(r, delay)
          /\ phase' = [phase EXCEPT ![r] = "sleeping"]
          /\ wake' = [wake EXCEPT ![r] = now + delay]
          /\ UNCHANGED <<slots, deadline, retryable, result>>
       \/ /\ ~Retries(r, delay)
          /\ Leave(r, result[r])
  /\ UNCHANGED attempts

Wake(r) ==
  /\ Step(r, "sleeping", "top")
  /\ now >= wake[r]
  /\ wake' = [wake EXCEPT ![r] = 0]
  /\ retryable' = [retryable EXCEPT ![r] = FALSE]
  /\ UNCHANGED <<cvars, slots, attempts, deadline, result>>

\* Mutant: a cancelled sleep keeps its slot.
CancelKeepsSlot(r) ==
  \/ LeaveQueue(r, "CANCELLED")
  \/ Return(r, "CANCELLED", "UNKNOWN", FALSE)
  \/ /\ phase[r] = "sleeping"
     /\ Ends(r, "CANCELLED")
     /\ UNCHANGED <<cvars, slots, attempts>>

\* Mutant: a cancelled send is not recorded with the breaker.
CancelUnrecorded(r) ==
  \/ LeaveQueue(r, "CANCELLED")
  \/ /\ phase[r] = "sleeping" \/ pc[r] = "sending"
     /\ Leave(r, "CANCELLED")
     /\ UNCHANGED <<cvars, attempts>>

\* Task cancellation, delivered at whichever await the request is in.
Cancel(r) ==
  \/ LeaveQueue(r, "CANCELLED")
  \/ Return(r, "CANCELLED", "UNKNOWN", FALSE)
  \/ /\ phase[r] = "sleeping"
     /\ Leave(r, "CANCELLED")
     /\ UNCHANGED <<cvars, attempts>>

Progress(r) ==
  \/ Acquire(r) \/ LeaveQueue(r, "QUEUE_TIMEOUT")
  \/ OutOfTime(r) \/ TryAttempt(r)
  \/ AdmitRequest(r) \/ Answer(r) \/ Settle(r) \/ Wake(r)

Request(r) == Enqueue(r) \/ Progress(r) \/ Cancel(r)

\* OllamaProvider.generate / is_available / stream_generate in another thread.
Provider(c) == Call(c) /\ UNCHANGED lvars

ClientNext ==
  \/ Tick /\ UNCHANGED lvars
  \/ \E r \in Requests : Request(r)
  \/ \E c \in Calls \ Requests : Provider(c)

\* The event loop runs every ready callback, timers fire, and time passes.
ClientFairness ==
  /\ WF_vars(Tick /\ UNCHANGED lvars)
  /\ \A r \in Requests : WF_vars(Progress(r))

ClientSafety == ClientInit /\ [][ClientNext]_vars
ClientSpec == ClientSafety /\ ClientFairness
-------------------------------------------------------------------------------
Holders == {r \in Requests : phase[r] \in {"top", "calling", "sleeping"}}

\* Type correctness of the client's own state.
ClientTypeOK ==
  /\ slots \in 0..MaxInFlight
  /\ phase \in [Requests -> {"new", "queued", "top", "calling", "sleeping", "done"}]
  /\ attempts \in [Requests -> Nat]
  /\ deadline \in [Requests -> Nat]
  /\ wake \in [Requests -> Nat]
  /\ retryable \in [Requests -> BOOLEAN]
  /\ result \in [Requests -> ResultKind]

\* The bulkhead: a slot is taken exactly while a request is between acquire()
\* and its return, on every path out (refusal, error, cancellation while
\* sending, cancellation while sleeping), so at most max_in_flight requests are
\* on the wire.
SlotsConserved == slots + Cardinality(Holders) = MaxInFlight

\* No request ends or sleeps with an admission it has not recorded: a probe
\* slot cannot be lost by cancelling its holder, and a sleeping request does
\* not occupy the server.
AdmissionsRecorded ==
  \A r \in Requests : pc[r] # "idle" <=> phase[r] = "calling"

\* "Never sleeps past the deadline" (next_delay), and retries stay within
\* max_attempts whatever the interleaving with the breaker.
RetriesBounded ==
  \A r \in Requests :
    /\ phase[r] = "sleeping" => wake[r] < deadline[r]
    /\ attempts[r] <= MaxAttempts

\* A kind of answer implies a request went out: QUEUE_TIMEOUT, "not sent", is
\* never reported for a request that reached the server, and no other kind but
\* the two "not sent" ones and TIMEOUT is reported for one that did not.
KindsAreHonest ==
  \A r \in Requests : phase[r] = "done" =>
    /\ result[r] = "QUEUE_TIMEOUT" => attempts[r] = 0
    /\ attempts[r] = 0 => result[r] \in NotSent \cup {"CANCELLED", "TIMEOUT"}

\* Every request that was made ends: no slot, sleep, refusal or half-open round
\* it waits on keeps it for ever.
RequestsEnd == \A r \in Requests : phase[r] = "queued" ~> phase[r] = "done"
===============================================================================
