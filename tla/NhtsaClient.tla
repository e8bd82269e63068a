---------------------------- MODULE NhtsaClient ----------------------------
(***************************************************************************)
(* Fetches of vehicle types through one circuit breaker: fetchWithRetry()  *)
(* of the use case fires the breaker (nhtsa-api.client.ts), which runs     *)
(* retryWithBackoff() (retry.decorator.ts) and gives up on it after its    *)
(* timeout, without stopping it: the task goes on sending requests that    *)
(* nobody awaits.  getAllMakes() is the same with MaxRetries = 0.          *)
(*                                                                         *)
(* The breaker is the opossum library, as circuit-breaker.config.ts        *)
(* configures it.  It counts fires and failures in a sliding window of     *)
(* time: whenever it looks, any part of what it counted may be forgotten.  *)
(* Time is left out otherwise, except for one order: the timeout of a call *)
(* is no longer than the reset timeout, so that no call fired before the   *)
(* breaker opened is still awaited when it becomes half-open.              *)
(***************************************************************************)
EXTENDS Naturals

CONSTANTS Fetches,          \* concurrent loops of fetchWithRetry
          MaxRetries,       \* MAX_RETRIES of fetchWithRetry (2 in the code)
          MaxAttempts,      \* maxAttempts of retryWithBackoff (3 in the code)
          VolumeThreshold,  \* fires below which the breaker stays closed (5)
          WindowBound       \* bound: the window holds no more fires or failures

ASSUME BoundAssumption ==
  /\ MaxRetries \in Nat /\ MaxAttempts \in Nat \ {0}
  /\ VolumeThreshold \in Nat \ {0} /\ WindowBound \in Nat /\ WindowBound >= VolumeThreshold

VARIABLES phase,         \* where each fetch stands
          attempt,       \* its loop counter
          task,          \* the retryWithBackoff() of each of its calls
          late,          \* its call has met an outage
          circuit,       \* state of the breaker
          window,        \* fires and failures that the breaker still counts
          pendingClose,  \* half-open, and the test call has not been fired
          healthy        \* the API answers every new request in time

vars == <<phase, attempt, task, late, circuit, window,
          pendingClose, healthy>>

Attempts == 0 .. MaxRetries
Task == [step : {"none", "request", "sleep"}, attempt : 0 .. MaxAttempts]
NoTask == [step |-> "none", attempt |-> 0]

Running(f, a) == task[f][a].step # "none"
\* The call this fetch awaits; every other running task is abandoned.
Awaited(f, a) == phase[f] = "awaiting" /\ a = attempt[f]

Window == [fires : 0 .. WindowBound, failures : 0 .. WindowBound]
\* What the window may still hold when it is next looked at.
Remembered ==
  {w \in Window : w.fires <= window.fires /\ w.failures <= window.failures}

\* More than half of the calls failed, and there were enough of them.
FailuresOpen(w) == w.fires >= VolumeThreshold /\ 2 * w.failures > w.fires

Init ==
  /\ phase = [f \in Fetches |-> "idle"]
  /\ attempt = [f \in Fetches |-> 0]
  /\ task = [f \in Fetches |-> [a \in Attempts |-> NoTask]]
  /\ late = [f \in Fetches |-> FALSE]
  /\ circuit = "closed"
  /\ window = [fires |-> 0, failures |-> 0]
  /\ pendingClose = FALSE
  /\ healthy = TRUE

\* A loop turns to its next make.  Bound: only when the tasks it abandoned
\* are over; those of other loops may go on.
Begin(f) ==
  /\ phase[f] \in {"idle", "answered", "failed"}
  /\ \A a \in Attempts : ~Running(f, a)
  /\ phase' = [phase EXCEPT ![f] = "fire"]
  /\ attempt' = [attempt EXCEPT ![f] = 0]
  /\ UNCHANGED <<task, late, circuit, window, pendingClose, healthy>>

\* Seeded fault: one retry too many.
AttemptFails_OneMore(f) ==
  phase' = [phase EXCEPT ![f] = IF attempt[f] <= MaxRetries THEN "delay" ELSE "failed"]
\* The catch block of fetchWithRetry: wait for the next attempt, or throw.
AttemptFails(f) ==
  phase' = [phase EXCEPT ![f] = IF attempt[f] < MaxRetries THEN "delay" ELSE "failed"]

\* Every fire is counted, a rejected one too.
CountFire ==
  \E w \in Remembered :
    w.fires < WindowBound /\ window' = [w EXCEPT !.fires = @ + 1]

\* fire(): a half-open breaker lets one call through, an open one none.
Fire(f) ==
  /\ phase[f] = "fire"
  /\ CountFire
  /\ circuit = "closed" \/ pendingClose
  /\ pendingClose' = FALSE
  /\ phase' = [phase EXCEPT ![f] = "awaiting"]
  /\ task' = [task EXCEPT ![f][attempt[f]] = [step |-> "request", attempt |-> 1]]
  /\ late' = [late EXCEPT ![f] = ~healthy]
  /\ UNCHANGED <<attempt, circuit, healthy>>

FireRejected(f) ==
  /\ phase[f] = "fire"
  /\ CountFire
  /\ circuit # "closed" /\ ~pendingClose
  /\ AttemptFails(f)
  /\ UNCHANGED <<attempt, task, late, circuit, pendingClose, healthy>>

NextAttempt(f) ==
  /\ phase[f] = "delay"
  /\ attempt' = [attempt EXCEPT ![f] = @ + 1]
  /\ phase' = [phase EXCEPT ![f] = "fire"]
  /\ UNCHANGED <<task, late, circuit, window, pendingClose, healthy>>

\* A call that fails opens a half-open breaker, and a closed one when the
\* window holds enough failures.
CallFails(f) ==
  /\ AttemptFails(f)
  /\ \E w \in Remembered :
       w.failures < WindowBound /\ window' = [w EXCEPT !.failures = @ + 1]
  /\ circuit' = IF circuit = "closed" /\ ~FailuresOpen(window') THEN "closed" ELSE "open"

EndTask(f, a) == task' = [task EXCEPT ![f][a] = NoTask]

\* Seeded fault: whichever task of the fetch succeeds answers it.
TaskSucceeds_AnyTask(f, a) ==
  /\ task[f][a].step = "request"
  /\ EndTask(f, a)
  /\ phase' = [phase EXCEPT ![f] = "answered"]
  /\ circuit' = IF circuit = "halfOpen" THEN "closed" ELSE circuit
  /\ UNCHANGED <<attempt, late, window, pendingClose, healthy>>
\* A request is answered, the response parsed.  The result of an abandoned
\* task goes nowhere.
TaskSucceeds(f, a) ==
  /\ task[f][a].step = "request"
  /\ EndTask(f, a)
  /\ IF Awaited(f, a)
     THEN /\ phase' = [phase EXCEPT ![f] = "answered"]
          /\ circuit' = IF circuit = "halfOpen" THEN "closed" ELSE circuit
     ELSE UNCHANGED <<phase, circuit>>
  /\ UNCHANGED <<attempt, late, window, pendingClose, healthy>>

\* The last attempt fails, or one fails for good: a status 4xx, or a
\* response that does not parse, which is read as an outage of the API: as
\* every failure, it meets an awaited call only while that is late.
TaskFails(f, a) ==
  /\ task[f][a].step = "request" /\ (late[f] \/ ~Awaited(f, a))
  /\ EndTask(f, a)
  /\ IF Awaited(f, a) THEN CallFails(f) ELSE UNCHANGED <<phase, circuit, window>>
  /\ UNCHANGED <<attempt, late, pendingClose, healthy>>

Backoff(f, a) ==
  /\ task[f][a].step = "request" /\ (late[f] \/ ~Awaited(f, a))
  /\ task[f][a].attempt < MaxAttempts
  /\ task' = [task EXCEPT ![f][a].step = "sleep"]
  /\ UNCHANGED <<phase, attempt, late, circuit, window, pendingClose, healthy>>

Wake(f, a) ==
  /\ task[f][a].step = "sleep"
  /\ task' = [task EXCEPT ![f][a] = [step |-> "request", attempt |-> @.attempt + 1]]
  /\ UNCHANGED <<phase, attempt, late, circuit, window, pendingClose, healthy>>

\* Seeded faults: a call that times out is not a failure to the breaker;
\* the breaker has no timeout.
Timeout_NotCounted(f) ==
  /\ phase[f] = "awaiting" /\ late[f]
  /\ AttemptFails(f)
  /\ UNCHANGED <<attempt, task, late, circuit, window, pendingClose, healthy>>
Timeout_Never(f) == phase[f] = "awaiting" /\ UNCHANGED vars
\* The timeout of the breaker rejects the call; its task runs on.
Timeout(f) ==
  /\ phase[f] = "awaiting" /\ late[f]
  /\ CallFails(f)
  /\ UNCHANGED <<attempt, task, late, pendingClose, healthy>>

\* Seeded fault: the reset timeout is shorter than the timeout of a call.
HalfOpen_Early ==
  /\ circuit = "open"
  /\ circuit' = "halfOpen"
  /\ pendingClose' = TRUE
  /\ UNCHANGED <<phase, attempt, task, late, window, healthy>>
HalfOpen ==
  /\ circuit = "open"
  /\ \A f \in Fetches : phase[f] # "awaiting"
  /\ circuit' = "halfOpen"
  /\ pendingClose' = TRUE
  /\ UNCHANGED <<phase, attempt, task, late, window, healthy>>

\* The API fails or hangs for a while; calls of that while are late.
Outage ==
  /\ healthy
  /\ healthy' = FALSE
  /\ late' = [f \in Fetches |-> phase[f] = "awaiting" \/ late[f]]
  /\ UNCHANGED <<phase, attempt, task, circuit, window, pendingClose>>
Recover ==
  /\ ~healthy
  /\ healthy' = TRUE
  /\ UNCHANGED <<phase, attempt, task, late, circuit, window, pendingClose>>

Loop(f) == Fire(f) \/ FireRejected(f) \/ NextAttempt(f)

Next ==
  \/ HalfOpen \/ Outage \/ Recover
  \/ \E f \in Fetches :
       \/ Begin(f) \/ Loop(f) \/ Timeout(f)
       \/ \E a \in Attempts :
            TaskSucceeds(f, a) \/ TaskFails(f, a) \/ Backoff(f, a) \/ Wake(f, a)

Spec == Init /\ [][Next]_vars

\* Timers fire and the event loop runs what is ready.  A healthy API answers;
\* one that is not need never answer.
FairSpec ==
  /\ Spec
  /\ WF_vars(HalfOpen)
  /\ \A f \in Fetches :
       /\ WF_vars(Loop(f)) /\ WF_vars(Timeout(f))
       /\ \A a \in Attempts :
            WF_vars(healthy /\ TaskSucceeds(f, a)) /\ WF_vars(Wake(f, a))

-----------------------------------------------------------------------------
TypeOK ==
  /\ phase \in [Fetches -> {"idle", "fire", "awaiting", "delay", "answered", "failed"}]
  /\ attempt \in [Fetches -> Attempts]
  /\ task \in [Fetches -> [Attempts -> Task]]
  /\ late \in [Fetches -> BOOLEAN]
  /\ circuit \in {"closed", "open", "halfOpen"} /\ window \in Window
  /\ pendingClose \in BOOLEAN /\ healthy \in BOOLEAN

\* A half-open breaker tests the API with one call at a time, whatever the
\* other fetches, their retries and their abandoned tasks do meanwhile.
ProbeIsAlone ==
  /\ pendingClose => circuit = "halfOpen" /\ \A f \in Fetches : phase[f] # "awaiting"
  /\ circuit = "halfOpen" =>
       \A f, g \in Fetches : phase[f] = "awaiting" /\ phase[g] = "awaiting" => f = g

\* A fetch that awaits its call has a task that will settle it: no late
\* answer of an earlier attempt ends the fetch or uses up the task.
AwaitedCallRuns ==
  \A f \in Fetches :
    /\ phase[f] = "awaiting" => Running(f, attempt[f])
    /\ phase[f] \in {"answered", "fire"} => ~Running(f, attempt[f])

\* A fetch ends although the API may hang for ever: the timeout of the
\* breaker is what the use case relies on.
FetchSettles ==
  \A f \in Fetches : phase[f] = "fire" ~> phase[f] \in {"answered", "failed"}

\* When the API is healthy for good and makes keep coming, the breaker closes
\* for good: no probe is lost, no late failure opens it again and again.
BreakerRecovers ==
  <>[]healthy /\ []<>(\E f \in Fetches : phase[f] = "fire")
    => <>[](circuit = "closed")
=============================================================================
