------------------------- MODULE NhtsaClientProofs -------------------------
(***************************************************************************)
(* Theorems about NhtsaClient for every set of concurrent loops, numbers   *)
(* of retries and attempts, threshold and window.                          *)
(***************************************************************************)
EXTENDS NhtsaClient, TLAPS

\* What keeps the retries in order: a loop that will try again has an
\* attempt left, attempts that have not begun have no task, and a task that
\* sleeps has a request left.
AttemptsInOrder ==
  \A f \in Fetches :
    /\ phase[f] = "delay" => attempt[f] < MaxRetries
    /\ \A a \in Attempts :
         /\ a > attempt[f] => ~Running(f, a)
         /\ task[f][a].step = "sleep" => task[f][a].attempt < MaxAttempts

IInv == TypeOK /\ AttemptsInOrder /\ AwaitedCallRuns /\ ProbeIsAlone

-----------------------------------------------------------------------------
\* The absence of a task is typed like one.
LEMMA NoTaskIsATask == NoTask \in Task
<1> USE BoundAssumption
<1>1. 0 \in 0 .. MaxAttempts
  OBVIOUS
<1> QED
  BY <1>1 DEF NoTask, Task

\* Giving one attempt of one loop another task keeps the typing.
LEMMA TaskUpdate ==
  ASSUME TypeOK, NEW f \in Fetches, NEW a \in Attempts, NEW t \in Task,
         task' = [task EXCEPT ![f][a] = t]
  PROVE  task' \in [Fetches -> [Attempts -> Task]]
<1> DEFINE r == [task[f] EXCEPT ![a] = t]
<1>1. r \in [Attempts -> Task]
  BY DEF TypeOK
<1>2. task' = [task EXCEPT ![f] = r]
  OBVIOUS
<1> HIDE DEF r
<1> QED
  BY <1>1, <1>2 DEF TypeOK

\* A remembered window with one fire or one failure more is a window.
LEMMA WindowCounts ==
  ASSUME NEW w \in Window
  PROVE  /\ w.fires < WindowBound => [w EXCEPT !.fires = @ + 1] \in Window
         /\ w.failures < WindowBound => [w EXCEPT !.failures = @ + 1] \in Window
<1> USE BoundAssumption
<1>1. w.fires \in 0 .. WindowBound /\ w.failures \in 0 .. WindowBound
  BY DEF Window
<1>2. ASSUME w.fires < WindowBound
      PROVE  [w EXCEPT !.fires = @ + 1] \in Window
  <2> DEFINE n == w.fires + 1
  <2>1. n \in 0 .. WindowBound
    BY <1>1, <1>2
  <2>2. [w EXCEPT !.fires = @ + 1] = [w EXCEPT !.fires = n]
    BY DEF Window
  <2> HIDE DEF n
  <2> QED
    BY <1>1, <2>1, <2>2 DEF Window
<1>3. ASSUME w.failures < WindowBound
      PROVE  [w EXCEPT !.failures = @ + 1] \in Window
  <2> DEFINE n == w.failures + 1
  <2>1. n \in 0 .. WindowBound
    BY <1>1, <1>3
  <2>2. [w EXCEPT !.failures = @ + 1] = [w EXCEPT !.failures = n]
    BY DEF Window
  <2> HIDE DEF n
  <2> QED
    BY <1>1, <2>1, <2>2 DEF Window
<1> QED
  BY <1>2, <1>3

\* Counting a fire leaves a window.
LEMMA CountFireTyped ==
  ASSUME CountFire
  PROVE  window' \in Window
<1>1. PICK w \in Remembered : w.fires < WindowBound /\ window' = [w EXCEPT !.fires = @ + 1]
  BY DEF CountFire
<1>2. w \in Window
  BY DEF Remembered
<1> QED
  BY <1>1, <1>2, WindowCounts

\* A loop whose call fails waits for another attempt or gives up.
LEMMA AttemptFailsTyped ==
  ASSUME TypeOK, NEW f \in Fetches, AttemptFails(f)
  PROVE  phase' \in [Fetches -> {"idle", "fire", "awaiting", "delay", "answered", "failed"}]
<1>1. PICK p \in {"delay", "failed"} : phase' = [phase EXCEPT ![f] = p]
  BY DEF AttemptFails
<1> QED
  BY <1>1 DEF TypeOK

\* A call that fails never closes the breaker.
LEMMA CallFailsTyped ==
  ASSUME TypeOK, NEW f \in Fetches, CallFails(f)
  PROVE  /\ phase' \in [Fetches -> {"idle", "fire", "awaiting", "delay", "answered", "failed"}]
         /\ window' \in Window
         /\ circuit' \in {"closed", "open"}
         /\ circuit' = "closed" => circuit = "closed"
<1>1. phase' \in [Fetches -> {"idle", "fire", "awaiting", "delay", "answered", "failed"}]
  BY AttemptFailsTyped DEF CallFails
<1>2. window' \in Window
  <2>1. PICK w \in Remembered :
          w.failures < WindowBound /\ window' = [w EXCEPT !.failures = @ + 1]
    BY DEF CallFails
  <2>2. w \in Window
    BY DEF Remembered
  <2> QED
    BY <2>1, <2>2, WindowCounts
<1>3. circuit' \in {"closed", "open"} /\ (circuit' = "closed" => circuit = "closed")
  BY DEF CallFails
<1> QED
  BY <1>1, <1>2, <1>3

-----------------------------------------------------------------------------
\* Nothing runs in the beginning.
LEMMA InitIInv == Init => IInv
<1> SUFFICES ASSUME Init PROVE IInv
  OBVIOUS
<1> USE BoundAssumption
<1>1. TypeOK
  <2>1. 0 \in Attempts /\ 0 \in 0 .. WindowBound
    BY DEF Attempts
  <2>2. task \in [Fetches -> [Attempts -> Task]]
    BY NoTaskIsATask DEF Init
  <2>3. window \in Window
    BY <2>1 DEF Init, Window
  <2> QED
    BY <2>1, <2>2, <2>3 DEF Init, TypeOK
<1>2. AttemptsInOrder /\ AwaitedCallRuns /\ ProbeIsAlone
  BY DEF Init, AttemptsInOrder, AwaitedCallRuns, ProbeIsAlone, Running, NoTask, Attempts
<1> QED
  BY <1>1, <1>2 DEF IInv

\* Every step keeps the typing; the next attempt exists because the loop is
\* in order.
LEMMA TypeOKStep ==
  ASSUME TypeOK, AttemptsInOrder, [Next]_vars
  PROVE  TypeOK'
<1> USE BoundAssumption
<1> USE DEF TypeOK
<1>1. CASE UNCHANGED vars
  BY <1>1 DEF vars
<1>2. CASE HalfOpen
  BY <1>2 DEF HalfOpen
<1>3. CASE Outage
  BY <1>3 DEF Outage
<1>4. CASE Recover
  BY <1>4 DEF Recover
<1>5. ASSUME NEW f \in Fetches,
             \/ Begin(f) \/ Loop(f) \/ Timeout(f)
             \/ \E a \in Attempts :
                  TaskSucceeds(f, a) \/ TaskFails(f, a) \/ Backoff(f, a) \/ Wake(f, a)
      PROVE  TypeOK'
  <2>1. CASE Begin(f)
    BY <2>1 DEF Begin, Attempts
  <2>2. CASE Fire(f)
    <3>1. window' \in Window
      BY <2>2, CountFireTyped DEF Fire
    <3>2. [step |-> "request", attempt |-> 1] \in Task
      BY DEF Task
    <3>3. task' \in [Fetches -> [Attempts -> Task]]
      BY <2>2, <3>2, TaskUpdate DEF Fire
    <3> QED
      BY <2>2, <3>1, <3>3 DEF Fire
  <2>3. CASE FireRejected(f)
    BY <2>3, CountFireTyped, AttemptFailsTyped DEF FireRejected
  <2>4. CASE NextAttempt(f)
    <3>1. attempt[f] + 1 \in Attempts
      BY <2>4 DEF NextAttempt, AttemptsInOrder, Attempts
    <3> QED
      BY <2>4, <3>1 DEF NextAttempt
  <2>5. CASE Timeout(f)
    BY <2>5, CallFailsTyped DEF Timeout
  <2>6. ASSUME NEW a \in Attempts,
              TaskSucceeds(f, a) \/ TaskFails(f, a) \/ Backoff(f, a) \/ Wake(f, a)
       PROVE  TypeOK'
    <3>1. CASE TaskSucceeds(f, a)
      <4>1. task' \in [Fetches -> [Attempts -> Task]]
        BY <3>1, NoTaskIsATask, TaskUpdate DEF TaskSucceeds, EndTask
      <4> QED
        BY <3>1, <4>1 DEF TaskSucceeds
    <3>2. CASE TaskFails(f, a)
      <4>1. task' \in [Fetches -> [Attempts -> Task]]
        BY <3>2, NoTaskIsATask, TaskUpdate DEF TaskFails, EndTask
      <4> QED
        BY <3>2, <4>1, CallFailsTyped DEF TaskFails
    <3>3. CASE Backoff(f, a)
      <4> DEFINE t == [task[f][a] EXCEPT !.step = "sleep"]
      <4>1. t \in Task
        <5> DEFINE old == task[f][a]
        <5>1. old \in Task
          OBVIOUS
        <5> HIDE DEF old
        <5>2. [old EXCEPT !.step = "sleep"] \in Task
          BY <5>1 DEF Task
        <5> QED
          BY <5>2 DEF old
      <4>2. task' = [task EXCEPT ![f][a] = t]
        BY <3>3 DEF Backoff
      <4> HIDE DEF t
      <4>3. task' \in [Fetches -> [Attempts -> Task]]
        BY <4>1, <4>2, TaskUpdate
      <4> QED
        BY <3>3, <4>3 DEF Backoff
    <3>4. CASE Wake(f, a)
      <4> DEFINE n == task[f][a].attempt + 1
                 t == [step |-> "request", attempt |-> n]
      <4>1. n \in 0 .. MaxAttempts
        BY <3>4 DEF Wake, Task, AttemptsInOrder
      <4>2. task' = [task EXCEPT ![f][a] = t]
        BY <3>4 DEF Wake
      <4> HIDE DEF n
      <4>3. t \in Task
        BY <4>1 DEF Task
      <4> HIDE DEF t
      <4>4. task' \in [Fetches -> [Attempts -> Task]]
        BY <4>2, <4>3, TaskUpdate
      <4> QED
        BY <3>4, <4>4 DEF Wake
    <3> QED
      BY <2>6, <3>1, <3>2, <3>3, <3>4
  <2> QED
    BY <1>5, <2>1, <2>2, <2>3, <2>4, <2>5, <2>6 DEF Loop
<1> QED
  BY <1>1, <1>2, <1>3, <1>4, <1>5 DEF Next

\* Every step keeps the retries in order.
LEMMA AttemptsInOrderStep ==
  ASSUME TypeOK, AttemptsInOrder, [Next]_vars
  PROVE  AttemptsInOrder'
<1> USE BoundAssumption
<1> USE DEF TypeOK, AttemptsInOrder, Attempts, Task, Running, NoTask
<1>1. CASE UNCHANGED vars
  BY <1>1 DEF vars
<1>2. CASE HalfOpen
  BY <1>2 DEF HalfOpen
<1>3. CASE Outage
  BY <1>3 DEF Outage
<1>4. CASE Recover
  BY <1>4 DEF Recover
<1>5. ASSUME NEW f \in Fetches,
             \/ Begin(f) \/ Loop(f) \/ Timeout(f)
             \/ \E a \in Attempts :
                  TaskSucceeds(f, a) \/ TaskFails(f, a) \/ Backoff(f, a) \/ Wake(f, a)
      PROVE  AttemptsInOrder'
  <2>1. CASE Begin(f)
    BY <2>1 DEF Begin
  <2>2. CASE Fire(f)
    BY <2>2 DEF Fire
  <2>3. CASE FireRejected(f)
    BY <2>3 DEF FireRejected, AttemptFails
  <2>4. CASE NextAttempt(f)
    BY <2>4 DEF NextAttempt
  <2>5. CASE Timeout(f)
    BY <2>5 DEF Timeout, CallFails, AttemptFails
  <2>6. ASSUME NEW a \in Attempts,
              TaskSucceeds(f, a) \/ TaskFails(f, a) \/ Backoff(f, a) \/ Wake(f, a)
       PROVE  AttemptsInOrder'
    <3>1. CASE TaskSucceeds(f, a)
      BY <3>1 DEF TaskSucceeds, EndTask, NoTask, Awaited
    <3>2. CASE TaskFails(f, a)
      BY <3>2 DEF TaskFails, EndTask, NoTask, Awaited, CallFails, AttemptFails
    <3>3. CASE Backoff(f, a)
      BY <3>3 DEF Backoff
    <3>4. CASE Wake(f, a)
      BY <3>4 DEF Wake
    <3> QED
      BY <2>6, <3>1, <3>2, <3>3, <3>4
  <2> QED
    BY <1>5, <2>1, <2>2, <2>3, <2>4, <2>5, <2>6 DEF Loop
<1> QED
  BY <1>1, <1>2, <1>3, <1>4, <1>5 DEF Next

\* Only its own task ends the call that a fetch awaits.
LEMMA AwaitedCallRunsStep ==
  ASSUME TypeOK, AttemptsInOrder, AwaitedCallRuns, [Next]_vars
  PROVE  AwaitedCallRuns'
<1> USE BoundAssumption
<1> USE DEF TypeOK, AttemptsInOrder, AwaitedCallRuns, Attempts, Task, Running, NoTask
<1>1. CASE UNCHANGED vars
  BY <1>1 DEF vars
<1>2. CASE HalfOpen
  BY <1>2 DEF HalfOpen
<1>3. CASE Outage
  BY <1>3 DEF Outage
<1>4. CASE Recover
  BY <1>4 DEF Recover
<1>5. ASSUME NEW f \in Fetches,
             \/ Begin(f) \/ Loop(f) \/ Timeout(f)
             \/ \E a \in Attempts :
                  TaskSucceeds(f, a) \/ TaskFails(f, a) \/ Backoff(f, a) \/ Wake(f, a)
      PROVE  AwaitedCallRuns'
  <2>1. CASE Begin(f)
    BY <2>1 DEF Begin
  <2>2. CASE Fire(f)
    BY <2>2 DEF Fire
  <2>3. CASE FireRejected(f)
    BY <2>3 DEF FireRejected, AttemptFails
  <2>4. CASE NextAttempt(f)
    BY <2>4 DEF NextAttempt
  <2>5. CASE Timeout(f)
    BY <2>5 DEF Timeout, CallFails, AttemptFails
  <2>6. ASSUME NEW a \in Attempts,
              TaskSucceeds(f, a) \/ TaskFails(f, a) \/ Backoff(f, a) \/ Wake(f, a)
       PROVE  AwaitedCallRuns'
    <3>1. CASE TaskSucceeds(f, a)
      BY <3>1 DEF TaskSucceeds, EndTask, NoTask, Awaited
    <3>2. CASE TaskFails(f, a)
      BY <3>2 DEF TaskFails, EndTask, NoTask, Awaited, CallFails, AttemptFails
    <3>3. CASE Backoff(f, a)
      BY <3>3 DEF Backoff
    <3>4. CASE Wake(f, a)
      <4>1. \A g \in Fetches, b \in Attempts : Running(g, b)' <=> Running(g, b)
        BY <3>4 DEF Wake
      <4>2. phase' = phase /\ attempt' = attempt
        BY <3>4 DEF Wake
      <4> HIDE DEF Running
      <4> QED
        BY <4>1, <4>2
    <3> QED
      BY <2>6, <3>1, <3>2, <3>3, <3>4
  <2> QED
    BY <1>5, <2>1, <2>2, <2>3, <2>4, <2>5, <2>6 DEF Loop
<1> QED
  BY <1>1, <1>2, <1>3, <1>4, <1>5 DEF Next

\* A breaker becomes half-open when no call is awaited, and then fires one.
LEMMA ProbeIsAloneStep ==
  ASSUME TypeOK, ProbeIsAlone, [Next]_vars
  PROVE  ProbeIsAlone'
<1> USE BoundAssumption
<1> USE DEF TypeOK, ProbeIsAlone
<1>1. CASE UNCHANGED vars
  BY <1>1 DEF vars
<1>2. CASE HalfOpen
  BY <1>2 DEF HalfOpen
<1>3. CASE Outage
  BY <1>3 DEF Outage
<1>4. CASE Recover
  BY <1>4 DEF Recover
<1>5. ASSUME NEW f \in Fetches,
             \/ Begin(f) \/ Loop(f) \/ Timeout(f)
             \/ \E a \in Attempts :
                  TaskSucceeds(f, a) \/ TaskFails(f, a) \/ Backoff(f, a) \/ Wake(f, a)
      PROVE  ProbeIsAlone'
  <2>1. CASE Begin(f)
    BY <2>1 DEF Begin
  <2>2. CASE Fire(f)
    BY <2>2 DEF Fire
  <2>3. CASE FireRejected(f)
    BY <2>3 DEF FireRejected, AttemptFails
  <2>4. CASE NextAttempt(f)
    BY <2>4 DEF NextAttempt
  <2>5. CASE Timeout(f)
    BY <2>5 DEF Timeout, CallFails, AttemptFails
  <2>6. ASSUME NEW a \in Attempts,
              TaskSucceeds(f, a) \/ TaskFails(f, a) \/ Backoff(f, a) \/ Wake(f, a)
       PROVE  ProbeIsAlone'
    <3>1. CASE TaskSucceeds(f, a)
      <4>1. CASE Awaited(f, a)
        BY <3>1, <4>1 DEF TaskSucceeds, Awaited
      <4>2. CASE ~Awaited(f, a)
        BY <3>1, <4>2 DEF TaskSucceeds
      <4> QED
        BY <4>1, <4>2
    <3>2. CASE TaskFails(f, a)
      <4>1. CASE Awaited(f, a)
        <5>1. CallFails(f) /\ UNCHANGED pendingClose
          BY <3>2, <4>1 DEF TaskFails
        <5>2. ~pendingClose /\ circuit' # "halfOpen"
          BY <4>1, <5>1, CallFailsTyped DEF Awaited
        <5> QED
          BY <5>1, <5>2
      <4>2. CASE ~Awaited(f, a)
        BY <3>2, <4>2 DEF TaskFails
      <4> QED
        BY <4>1, <4>2
    <3>3. CASE Backoff(f, a)
      BY <3>3 DEF Backoff
    <3>4. CASE Wake(f, a)
      <4>1. UNCHANGED <<phase, circuit, pendingClose>>
        BY <3>4 DEF Wake
      <4> QED
        BY <4>1
    <3> QED
      BY <2>6, <3>1, <3>2, <3>3, <3>4
  <2> QED
    BY <1>5, <2>1, <2>2, <2>3, <2>4, <2>5, <2>6 DEF Loop
<1> QED
  BY <1>1, <1>2, <1>3, <1>4, <1>5 DEF Next

-----------------------------------------------------------------------------
\* The four conjuncts hold together, each by its own lemma.
LEMMA Inductive == Spec => []IInv
<1>1. IInv /\ [Next]_vars => IInv'
  BY TypeOKStep, AttemptsInOrderStep, AwaitedCallRunsStep, ProbeIsAloneStep DEF IInv
<1> QED
  BY InitIInv, <1>1, PTL DEF Spec

\* The state keeps its shape: attempts and requests stay within their limits
\* however calls time out, are rejected and overlap.
THEOREM TypeCorrect == Spec => []TypeOK
<1>1. IInv => TypeOK
  BY DEF IInv
<1> QED
  BY Inductive, <1>1, PTL

\* A fetch that awaits its call has a task that will settle it, whatever its
\* abandoned tasks do (retry.decorator.ts under the timeout of the breaker).
THEOREM AwaitedCallsRun == Spec => []AwaitedCallRuns
<1>1. IInv => AwaitedCallRuns
  BY DEF IInv
<1> QED
  BY Inductive, <1>1, PTL

\* However many loops share the breaker, one call at a time tests the API
\* while it is half-open.
THEOREM ProbesAreAlone == Spec => []ProbeIsAlone
<1>1. IInv => ProbeIsAlone
  BY DEF IInv
<1> QED
  BY Inductive, <1>1, PTL
=============================================================================
