---------------------- MODULE IngestVehicleDataProofs ----------------------
(***************************************************************************)
(* Theorems about IngestVehicleData for every set of calls, feeds, chunk   *)
(* size and combination of failing dependencies.                           *)
(***************************************************************************)
EXTENDS IngestVehicleData, TLAPS

\* Every method of the aggregate returns a well-formed job.
LEMMA JobMethods ==
  ASSUME NEW j \in Job, NEW n \in Nat
  PROVE  /\ start(j, n) \in Job
         /\ incrementProcessed(j) \in Job
         /\ recordFailure(j, n) \in Job
         /\ complete(j) \in Job
         /\ fail(j) \in Job
<1>1. start(j, n) \in Job
  BY DEF Job, start, IngestionStatus
<1>2. incrementProcessed(j) \in Job
  BY DEF Job, incrementProcessed
<1>3. recordFailure(j, n) \in Job
  <2>1. Append(j.errors, n) \in Seq(Nat)
    BY DEF Job
  <2>2. j.failedMakes + 1 \in Nat
    BY DEF Job
  <2> DEFINE e == Append(j.errors, n)
             f == j.failedMakes + 1
  <2>3. recordFailure(j, n) = [j EXCEPT !.failedMakes = f, !.errors = e]
    BY DEF Job, recordFailure
  <2>4. e \in Seq(Nat) /\ f \in Nat
    BY <2>1, <2>2
  <2> HIDE DEF e, f
  <2> QED
    BY <2>3, <2>4 DEF Job
<1>4. complete(j) \in Job
  BY DEF Job, complete, IngestionStatus, TerminalStatus, SuccessStatus
<1>5. fail(j) \in Job
  <2> DEFINE e == Append(j.errors, WholeJob)
  <2>1. e \in Seq(Nat)
    BY DEF Job, WholeJob
  <2>2. fail(j) = [j EXCEPT !.status = "FAILED", !.completed = TRUE, !.errors = e]
    BY DEF Job, fail
  <2>3. "FAILED" \in IngestionStatus
    BY DEF IngestionStatus, TerminalStatus
  <2> HIDE DEF e
  <2> QED
    BY <2>1, <2>2, <2>3 DEF Job
<1> QED
  BY <1>1, <1>2, <1>3, <1>4, <1>5

LEMMA NewJob == create \in Job
  BY DEF Job, create, IngestionStatus

LEMMA NoRowIsNoJob == NoRow \notin Job
  BY DEF NoRow, Job, IngestionStatus, TerminalStatus, SuccessStatus

-----------------------------------------------------------------------------
(***************************************************************************)
(* Type correctness.  A call between its two first and last awaits has a   *)
(* job in memory: without that the typing is not inductive.                *)
(***************************************************************************)
HasJob == \A c \in Calls : pc[c] \in Running => job[c] \in Job
Typed == TypeOK /\ HasJob

\* What a step does to the control state and the job of call c alone.
LEMMA CatchTyped ==
  ASSUME Typed, NEW c \in Calls, pc[c] \in Running, Catch(c)
  PROVE  /\ pc' \in [Calls -> Control]
         /\ job' \in [Calls -> Job \union {NoRow}]
         /\ HasJob'
<1>1. job[c] \in Job
  BY DEF Typed, HasJob
<1>2. fail(job[c]) \in Job
  BY <1>1, JobMethods
<1>3. pc \in [Calls -> Control] /\ job \in [Calls -> Job \union {NoRow}]
  BY DEF Typed, TypeOK
<1>4. CASE isTerminalState(job[c])
  BY <1>3, <1>4 DEF Typed, HasJob, Catch, Goto, Control, Running, Settled
<1>5. CASE ~isTerminalState(job[c])
  <2>1. pc' = [pc EXCEPT ![c] = "saveFailed"] /\ job' = [job EXCEPT ![c] = fail(job[c])]
    BY <1>5 DEF Catch, Goto
  <2> QED
    BY <1>2, <1>3, <2>1 DEF Typed, HasJob, Control, Running, Settled
<1> QED
  BY <1>4, <1>5

LEMMA RejectTyped ==
  ASSUME Typed, NEW c \in Calls, Reject(c)
  PROVE  /\ pc' \in [Calls -> Control]
         /\ job' \in [Calls -> Job \union {NoRow}]
         /\ HasJob'
  BY DEF Typed, TypeOK, HasJob, Reject, Goto, Control, Running, Settled

LEMMA GotoTyped ==
  ASSUME Typed, NEW c \in Calls, NEW label \in Control,
         pc[c] \in Running, Goto(c, label),
         NEW j \in Job, job' = [job EXCEPT ![c] = j]
  PROVE  /\ pc' \in [Calls -> Control]
         /\ job' \in [Calls -> Job \union {NoRow}]
         /\ HasJob'
  BY DEF Typed, TypeOK, HasJob, Goto

LEMMA MoveTyped ==
  ASSUME Typed, NEW c \in Calls, NEW label \in Control,
         pc[c] \in Running, Goto(c, label), UNCHANGED job
  PROVE  /\ pc' \in [Calls -> Control]
         /\ job' \in [Calls -> Job \union {NoRow}]
         /\ HasJob'
  BY DEF Typed, TypeOK, HasJob, Goto

LEMMA SaveTyped ==
  ASSUME Typed, NEW c \in Calls, pc[c] \in Running, MaybeSaveJob(c)
  PROVE  jobs' \in [Calls -> Job \union {NoRow}]
  BY DEF Typed, TypeOK, HasJob, MaybeSaveJob, SaveJob

LEMMA PublishTyped ==
  ASSUME Typed, NEW c \in Calls, pc[c] \in Running,
         NEW kind \in {"Started", "Completed", "Failed"}, MaybePublish(c, kind)
  PROVE  events' \subseteq Event
<1>1. job[c] \in Job
  BY DEF Typed, HasJob
<1>2. EventOf(c, kind) \in Event
  BY <1>1 DEF EventOf, Event, Job
<1> QED
  BY <1>2 DEF Typed, TypeOK, MaybePublish, Publish

LEMMA InsertTyped ==
  ASSUME Typed, NEW c \in Calls, InsertChunk(c)
  PROVE  makes' \in [MakeIds -> MakeRow \union {NoMake}]
  BY DEF Typed, TypeOK, InsertChunk, MakeRow

LEMMA InitTyped == Init => Typed
<1> SUFFICES ASSUME Init PROVE TypeOK /\ HasJob
  BY DEF Typed
<1> USE DEF Init
<1>1. HasJob
  BY DEF HasJob, Running, Settled
<1>2. TypeOK
  BY BoundAssumption DEF TypeOK, Control, Settled
<1> QED
  BY <1>1, <1>2

LEMMA CheckTyped ==
  ASSUME Typed, NEW c \in Calls, Check(c)
  PROVE  Typed'
<1>1. /\ pc' \in [Calls -> Control]
      /\ job' \in [Calls -> Job \union {NoRow}]
      /\ HasJob'
  <2>1. CASE Reject(c)
    BY <2>1, RejectTyped
  <2>2. CASE Goto(c, "conflict") /\ UNCHANGED job
    BY <2>2 DEF Typed, TypeOK, HasJob, Goto, Control, Running, Settled
  <2>3. CASE Goto(c, "create") /\ job' = [job EXCEPT ![c] = create]
    BY <2>3, NewJob DEF Typed, TypeOK, HasJob, Goto, Control, Running, Settled
  <2> QED
    BY <2>1, <2>2, <2>3 DEF Check
<1> QED
  BY <1>1 DEF Typed, TypeOK, Check, local

LEMMA GetAllMakesTyped ==
  ASSUME Typed, NEW c \in Calls, GetAllMakes(c)
  PROVE  Typed'
<1>1. pc[c] = "getAllMakes" /\ pc[c] \in Running
  BY DEF GetAllMakes, Running, Control, Settled
<1>2. CASE Catch(c) /\ UNCHANGED feed
  BY <1>1, <1>2, CatchTyped DEF GetAllMakes, Typed, TypeOK
<1>3. ASSUME NEW f \in Feeds,
             feed' = [feed EXCEPT ![c] = f],
             job' = [job EXCEPT ![c] = start(@, Len(f))],
             Goto(c, "saveStarted")
      PROVE  Typed'
  <2>1. f \in Seq(MakeIds) /\ Len(f) \in Nat
    BY FeedAssumption
  <2>2. job[c] \in Job
    BY <1>1 DEF Typed, HasJob
  <2>3. start(job[c], Len(f)) \in Job
    BY <2>1, <2>2, JobMethods
  <2>4. job' = [job EXCEPT ![c] = start(job[c], Len(f))]
    BY <1>3
  <2>5. "saveStarted" \in Control
    BY DEF Control
  <2>6. /\ pc' \in [Calls -> Control]
        /\ job' \in [Calls -> Job \union {NoRow}]
        /\ HasJob'
    BY <1>1, <1>3, <2>3, <2>4, <2>5, GotoTyped
  <2>7. feed' \in [Calls -> Seq(MakeIds)]
    BY <1>3, <2>1 DEF Typed, TypeOK
  <2> QED
    BY <2>6, <2>7 DEF GetAllMakes, Typed, TypeOK
<1> QED
  BY <1>2, <1>3 DEF GetAllMakes

\* The steps whose awaited operation is a save of the job's row.
LEMMA SaveStepsTyped ==
  ASSUME Typed, NEW c \in Calls,
         \/ CreateJob(c) \/ SaveStarted(c) \/ SaveCompleted(c) \/ SaveFailed(c)
  PROVE  Typed'
<1> USE DEF CreateJob, SaveStarted, SaveCompleted, SaveFailed
<1>1. pc[c] \in Running
  BY DEF Running, Control, Settled
<1>2. MaybeSaveJob(c)
  BY DEF MaybeSaveJob
<1>3. jobs' \in [Calls -> Job \union {NoRow}]
  BY <1>1, <1>2, SaveTyped
<1>4. /\ pc' \in [Calls -> Control]
      /\ job' \in [Calls -> Job \union {NoRow}]
      /\ HasJob'
  <2>1. \/ Catch(c)
        \/ Reject(c)
        \/ \E label \in Control : Goto(c, label) /\ UNCHANGED job
    BY DEF Control
  <2> QED
    BY <1>1, <2>1, CatchTyped, RejectTyped, MoveTyped
<1>5. UNCHANGED <<local, makes, events, crashes>>
  OBVIOUS
<1> QED
  BY <1>3, <1>4, <1>5 DEF Typed, TypeOK, local

\* The steps whose awaited operation is a publish.
LEMMA PublishStepsTyped ==
  ASSUME Typed, NEW c \in Calls,
         \/ PublishStarted(c) \/ PublishCompleted(c) \/ PublishFailed(c)
  PROVE  Typed'
<1> USE DEF PublishStarted, PublishCompleted, PublishFailed
<1>1. pc[c] \in Running
  BY DEF Running, Control, Settled
<1>2. \E kind \in {"Started", "Completed", "Failed"} : MaybePublish(c, kind)
  BY DEF MaybePublish
<1>3. events' \subseteq Event
  BY <1>1, <1>2, PublishTyped
<1>4. /\ pc' \in [Calls -> Control]
      /\ job' \in [Calls -> Job \union {NoRow}]
      /\ HasJob'
  <2>1. \/ Catch(c)
        \/ Reject(c)
        \/ \E label \in Control : Goto(c, label) /\ UNCHANGED job
    BY DEF Control, Settled
  <2> QED
    BY <1>1, <2>1, CatchTyped, RejectTyped, MoveTyped
<1>5. UNCHANGED <<local, jobs, makes, crashes>>
  OBVIOUS
<1> QED
  BY <1>3, <1>4, <1>5 DEF Typed, TypeOK, local

LEMMA FetchStepsTyped ==
  ASSUME Typed, NEW c \in Calls,
         FetchSucceeds(c) \/ FetchRetries(c) \/ FetchGivesUp(c)
  PROVE  Typed'
<1> USE BoundAssumption DEF FetchSucceeds, FetchRetries, FetchGivesUp
<1>1. pc[c] = "fetch" /\ pc[c] \in Running /\ UNCHANGED pc
  BY DEF Running, Control, Settled
<1>2. job[c] \in Job
  BY <1>1 DEF Typed, HasJob
<1>3. feed[c][pos[c] + 1] \in MakeIds /\ feed[c][pos[c] + 1] \in Nat
  <2>1. pos[c] < Len(feed[c])
    OBVIOUS
  <2>2. feed[c] \in Seq(MakeIds) /\ pos[c] \in Nat
    BY DEF Typed, TypeOK
  <2> HIDE DEF FetchSucceeds, FetchRetries, FetchGivesUp
  <2>3. feed[c][pos[c] + 1] \in MakeIds
    BY <2>1, <2>2
  <2> QED
    BY <2>3, FeedAssumption
<1>4. \E j \in Job : job' = [job EXCEPT ![c] = j]
  <2>1. CASE FetchSucceeds(c)
    BY <1>2, <2>1, JobMethods
  <2>2. CASE FetchRetries(c)
    BY <1>2, <2>2 DEF Typed, TypeOK
  <2>3. CASE FetchGivesUp(c)
    BY <1>2, <1>3, <2>3, JobMethods
  <2> QED
    BY <2>1, <2>2, <2>3
<1>5. job' \in [Calls -> Job \union {NoRow}] /\ HasJob'
  BY <1>1, <1>4 DEF Typed, TypeOK, HasJob
<1>6. /\ fetched' \in [Calls -> SUBSET MakeIds]
      /\ pos' \in [Calls -> Nat]
      /\ attempt' \in [Calls -> 0 .. MaxRetries]
  <2>1. /\ fetched \in [Calls -> SUBSET MakeIds]
        /\ pos \in [Calls -> Nat]
        /\ attempt \in [Calls -> 0 .. MaxRetries]
    BY DEF Typed, TypeOK
  <2>2. CASE FetchSucceeds(c)
    BY <1>3, <2>1, <2>2
  <2>3. CASE FetchRetries(c)
    BY <2>1, <2>3
  <2>4. CASE FetchGivesUp(c)
    BY <2>1, <2>4
  <2> QED
    BY <2>2, <2>3, <2>4
<1>7. UNCHANGED <<feed, models, jobs, makes, events, crashes>>
  OBVIOUS
<1> QED
  BY <1>1, <1>5, <1>6, <1>7 DEF Typed, TypeOK

LEMMA StoreStepsTyped ==
  ASSUME Typed, NEW c \in Calls,
         Transform(c) \/ SaveChunk(c) \/ Complete(c)
  PROVE  Typed'
<1>1. pc[c] \in Running
  BY DEF Transform, SaveChunk, Complete, Running, Control, Settled
<1>2. CASE Transform(c)
  <2>1. models' \in [Calls -> SUBSET Nat]
    BY <1>2 DEF Transform, Typed, TypeOK
  <2>2. Goto(c, "saveMany") /\ UNCHANGED job /\ "saveMany" \in Control
    BY <1>2 DEF Transform, Control
  <2> QED
    BY <1>1, <1>2, <2>1, <2>2, MoveTyped DEF Transform, Typed, TypeOK
<1>3. CASE SaveChunk(c)
  <2>1. makes' \in [MakeIds -> MakeRow \union {NoMake}]
    <3>1. CASE InsertChunk(c)
      BY <3>1, InsertTyped
    <3>2. CASE UNCHANGED makes
      BY <3>2 DEF Typed, TypeOK
    <3> QED
      BY <1>3, <3>1, <3>2 DEF SaveChunk
  <2>2. models' \in [Calls -> SUBSET Nat]
    BY <1>3 DEF SaveChunk, Typed, TypeOK
  <2>3. /\ pc' \in [Calls -> Control]
        /\ job' \in [Calls -> Job \union {NoRow}]
        /\ HasJob'
    <3>1. CASE Catch(c)
      BY <1>1, <3>1, CatchTyped
    <3>2. CASE UNCHANGED <<pc, job>>
      BY <3>2 DEF Typed, TypeOK, HasJob
    <3> QED
      BY <1>3, <3>1, <3>2 DEF SaveChunk
  <2> QED
    BY <1>3, <2>1, <2>2, <2>3 DEF SaveChunk, Typed, TypeOK
<1>4. CASE Complete(c)
  <2>1. job[c] \in Job
    BY <1>1 DEF Typed, HasJob
  <2>2. complete(job[c]) \in Job /\ "saveCompleted" \in Control
    BY <2>1, JobMethods DEF Control
  <2>3. Goto(c, "saveCompleted") /\ job' = [job EXCEPT ![c] = complete(job[c])]
    BY <1>4 DEF Complete
  <2> QED
    BY <1>1, <1>4, <2>2, <2>3, GotoTyped DEF Complete, local, Typed, TypeOK
<1> QED
  BY <1>2, <1>3, <1>4

LEMMA CrashTyped ==
  ASSUME Typed, Crash
  PROVE  Typed'
<1>1. pc' \in [Calls -> Control]
  BY DEF Typed, TypeOK, Crash, Control, Settled
<1>2. HasJob'
  BY DEF Typed, HasJob, Crash, Running, Settled
<1> QED
  BY <1>1, <1>2, BoundAssumption DEF Typed, TypeOK, Crash, local

LEMMA StepTyped == Typed /\ [Next]_vars => Typed'
<1> SUFFICES ASSUME Typed, [Next]_vars PROVE Typed'
  OBVIOUS
<1>1. CASE Crash
  BY <1>1, CrashTyped
<1>2. ASSUME NEW c \in Calls, Check(c) \/ Proceed(c)
      PROVE  Typed'
  BY <1>2, CheckTyped, GetAllMakesTyped, SaveStepsTyped, PublishStepsTyped,
     FetchStepsTyped, StoreStepsTyped DEF Proceed
<1>3. CASE UNCHANGED vars
  BY <1>3 DEF vars, local, Typed, TypeOK, HasJob
<1> QED
  BY <1>1, <1>2, <1>3 DEF Next

\* Every reachable state of any number of concurrent ingestions is typed.
THEOREM TypeCorrect == Spec => []TypeOK
<1>1. Typed => TypeOK
  BY DEF Typed
<1> QED
  BY <1>1, InitTyped, StepTyped, PTL DEF Spec

-----------------------------------------------------------------------------
(***************************************************************************)
(* Consistency of a call with its row and its events.                      *)
(***************************************************************************)

\* A step of call c leaves the state of every other call alone.
OthersKeep(c) ==
  \A d \in Calls \ {c} :
    /\ pc'[d] = pc[d] /\ job'[d] = job[d] /\ jobs'[d] = jobs[d]
    /\ Announced(d)' = Announced(d)

LEMMA Frame ==
  ASSUME Consistent, NEW c \in Calls, OthersKeep(c), CallConsistent(c)'
  PROVE  Consistent'
<1> SUFFICES ASSUME NEW d \in Calls \ {c} PROVE CallConsistent(d)'
  BY DEF Consistent
<1> QED
  BY DEF Consistent, CallConsistent, OthersKeep

LEMMA SaveAnnounces ==
  ASSUME NEW c \in Calls, UNCHANGED events
  PROVE  \A d \in Calls : Announced(d)' = Announced(d)
  BY DEF Announced

LEMMA PublishAnnounces ==
  ASSUME NEW c \in Calls, NEW kind, Publish(c, kind)
  PROVE  /\ Announced(c)' = Announced(c) \union {kind}
         /\ \A d \in Calls \ {c} : Announced(d)' = Announced(d)
<1> DEFINE e == EventOf(c, kind)
<1>1. e.job = c /\ e.kind = kind
  BY DEF EventOf
<1>2. events' = events \union {e}
  BY DEF Publish
<1> HIDE DEF e
<1> QED
  BY <1>1, <1>2 DEF Announced

\* The control state and the in-memory job of one call after a step of it.
LEMMA CatchEffect ==
  ASSUME Typed, NEW c \in Calls, pc[c] \in Running, Catch(c)
  PROVE  /\ \A d \in Calls \ {c} : pc'[d] = pc[d] /\ job'[d] = job[d]
         /\ job'[c] \in Job
         /\ \/ /\ isTerminalState(job[c]) /\ pc'[c] = "rejected" /\ job'[c] = job[c]
            \/ /\ ~isTerminalState(job[c]) /\ pc'[c] = "saveFailed"
               /\ job'[c].status = "FAILED"
<1>1. pc \in [Calls -> Control] /\ job \in [Calls -> Job \union {NoRow}]
      /\ job[c] \in Job
  BY DEF Typed, TypeOK, HasJob
<1>2. fail(job[c]) \in Job /\ fail(job[c]).status = "FAILED"
  BY <1>1, JobMethods DEF fail, Job
<1>3. CASE isTerminalState(job[c])
  BY <1>1, <1>3 DEF Catch, Goto
<1>4. CASE ~isTerminalState(job[c])
  <2>1. job' = [job EXCEPT ![c] = fail(job[c])] /\ pc' = [pc EXCEPT ![c] = "saveFailed"]
    BY <1>4 DEF Catch, Goto
  <2> QED
    BY <1>1, <1>2, <1>4, <2>1
<1> QED
  BY <1>3, <1>4

LEMMA GotoEffect ==
  ASSUME Typed, NEW c \in Calls, NEW label, Goto(c, label)
  PROVE  pc'[c] = label /\ \A d \in Calls \ {c} : pc'[d] = pc[d]
  BY DEF Typed, TypeOK, Goto

LEMMA SaveEffect ==
  ASSUME Typed, NEW c \in Calls, MaybeSaveJob(c)
  PROVE  /\ jobs'[c] \in {job[c], jobs[c]}
         /\ \A d \in Calls \ {c} : jobs'[d] = jobs[d]
  BY DEF Typed, TypeOK, MaybeSaveJob, SaveJob

LEMMA CheckConsistent ==
  ASSUME Typed, Consistent, NEW c \in Calls, Check(c)
  PROVE  Consistent'
<1>1. pc[c] = "idle" /\ jobs[c] = NoRow /\ Announced(c) = {}
  BY DEF Check, Consistent, CallConsistent
<1>2. UNCHANGED jobs /\ \A d \in Calls : Announced(d)' = Announced(d)
  BY SaveAnnounces DEF Check
<1>3. \A d \in Calls \ {c} : pc'[d] = pc[d] /\ job'[d] = job[d]
  BY DEF Check, Goto, Reject, Typed, TypeOK
<1>4. \/ pc'[c] = "conflict"
      \/ pc'[c] = "create" /\ job'[c] = create
      \/ pc'[c] = "rejected"
  BY DEF Check, Goto, Reject, Typed, TypeOK
<1>5. CallConsistent(c)'
  BY <1>1, <1>2, <1>4, NewJob DEF CallConsistent, CanStart, Running, Settled
<1>6. OthersKeep(c)
  BY <1>2, <1>3 DEF OthersKeep
<1> QED
  BY <1>5, <1>6, Frame

LEMMA SaveStepsConsistent ==
  ASSUME Typed, Consistent, NEW c \in Calls,
         \/ CreateJob(c) \/ SaveStarted(c) \/ SaveCompleted(c) \/ SaveFailed(c)
  PROVE  Consistent'
<1>1. pc[c] \in Running /\ job[c] \in Job
  BY DEF CreateJob, SaveStarted, SaveCompleted, SaveFailed, Running, Control,
         Settled, Typed, HasJob
<1>2. /\ jobs'[c] \in {job[c], jobs[c]}
      /\ \A d \in Calls \ {c} : jobs'[d] = jobs[d]
  BY SaveEffect DEF CreateJob, SaveStarted, SaveCompleted, SaveFailed, MaybeSaveJob
<1>3. \A d \in Calls : Announced(d)' = Announced(d)
  BY SaveAnnounces DEF CreateJob, SaveStarted, SaveCompleted, SaveFailed
<1>4. CallConsistent(c)
  BY DEF Consistent
<1>5. \A d \in Calls \ {c} : pc'[d] = pc[d] /\ job'[d] = job[d]
  BY <1>1, CatchEffect DEF CreateJob, SaveStarted, SaveCompleted, SaveFailed,
     Goto, Reject, Typed, TypeOK
<1>6. OthersKeep(c)
  BY <1>2, <1>3, <1>5 DEF OthersKeep
<1> USE DEF CallConsistent, CanStart, assertInProgress, isTerminalState,
        TerminalStatus, SuccessStatus
<1>7. CallConsistent(c)'
  <2>1. CASE CreateJob(c)
    <3>1. pc[c] = "create" /\ job[c] = create /\ Announced(c) = {}
      BY <1>4, <2>1 DEF CreateJob
    <3>2. \/ pc'[c] = "getAllMakes" /\ jobs'[c] = job[c] /\ job'[c] = job[c]
          \/ pc'[c] = "rejected"
      BY <2>1 DEF CreateJob, Goto, Reject, SaveJob, Typed, TypeOK
    <3> QED
      BY <1>1, <1>3, <3>1, <3>2 DEF create, Running, Settled
  <2>2. CASE SaveStarted(c)
    <3>1. /\ pc[c] = "saveStarted" /\ job[c].status = "IN_PROGRESS"
          /\ jobs[c].status = "PENDING" /\ Announced(c) = {}
      BY <1>4, <2>2 DEF SaveStarted
    <3>2. CASE SaveJob(c) /\ Goto(c, "publishStarted") /\ UNCHANGED job
      <4>1. pc'[c] = "publishStarted" /\ jobs'[c] = job[c] /\ job'[c] = job[c]
        BY <3>2 DEF Goto, SaveJob, Typed, TypeOK
      <4> QED
        BY <1>1, <1>3, <3>1, <4>1
    <3>3. CASE Catch(c)
      <4>1. pc'[c] = "saveFailed" /\ job'[c] \in Job /\ job'[c].status = "FAILED"
        BY <1>1, <3>1, <3>3, CatchEffect
      <4>2. jobs'[c].status \in {"PENDING", "IN_PROGRESS"} /\ Announced(c)' = {}
        BY <1>2, <1>3, <3>1
      <4> QED
        BY <4>1, <4>2
    <3> QED
      BY <2>2, <3>2, <3>3 DEF SaveStarted
  <2>3. CASE SaveCompleted(c)
    <3>1. /\ pc[c] = "saveCompleted" /\ job[c].status \in SuccessStatus
          /\ Announced(c) = {"Started"}
      BY <1>4, <2>3 DEF SaveCompleted
    <3>2. CASE SaveJob(c) /\ Goto(c, "publishCompleted") /\ UNCHANGED job
      <4>1. pc'[c] = "publishCompleted" /\ jobs'[c] = job[c] /\ job'[c] = job[c]
        BY <3>2 DEF Goto, SaveJob, Typed, TypeOK
      <4> QED
        BY <1>1, <1>3, <3>1, <4>1
    <3>3. CASE Catch(c)
      <4>1. pc'[c] = "rejected"
        BY <1>1, <3>1, <3>3, CatchEffect
      <4> QED
        BY <4>1 DEF Running, Settled
    <3> QED
      BY <2>3, <3>2, <3>3 DEF SaveCompleted
  <2>4. CASE SaveFailed(c)
    <3>1. /\ pc[c] = "saveFailed" /\ job[c].status = "FAILED"
          /\ Announced(c) \subseteq {"Started"}
      BY <1>4, <2>4 DEF SaveFailed
    <3>2. \/ pc'[c] = "publishFailed" /\ jobs'[c] = job[c] /\ job'[c] = job[c]
          \/ pc'[c] = "rejected"
      BY <2>4 DEF SaveFailed, Goto, Reject, SaveJob, Typed, TypeOK
    <3> QED
      BY <1>1, <1>3, <3>1, <3>2 DEF Running, Settled
  <2> QED
    BY <2>1, <2>2, <2>3, <2>4
<1> QED
  BY <1>6, <1>7, Frame

LEMMA PublishStepsConsistent ==
  ASSUME Typed, Consistent, NEW c \in Calls,
         \/ PublishStarted(c) \/ PublishCompleted(c) \/ PublishFailed(c)
  PROVE  Consistent'
<1>1. pc[c] \in Running /\ job[c] \in Job
  BY DEF PublishStarted, PublishCompleted, PublishFailed, Running, Control,
     Settled, Typed, HasJob
<1>2. UNCHANGED jobs
  BY DEF PublishStarted, PublishCompleted, PublishFailed
<1>3. CallConsistent(c)
  BY DEF Consistent
<1>4. \A d \in Calls \ {c} :
        pc'[d] = pc[d] /\ job'[d] = job[d] /\ Announced(d)' = Announced(d)
  BY <1>1, CatchEffect, PublishAnnounces, SaveAnnounces
     DEF PublishStarted, PublishCompleted, PublishFailed, MaybePublish,
     Goto, Reject, Typed, TypeOK
<1>5. OthersKeep(c)
  BY <1>2, <1>4 DEF OthersKeep
<1> USE DEF CallConsistent, CanStart, assertInProgress, isTerminalState,
        TerminalStatus, SuccessStatus
<1>6. CallConsistent(c)'
  <2>1. CASE PublishStarted(c)
    <3>1. /\ pc[c] = "publishStarted" /\ job[c].status = "IN_PROGRESS"
          /\ jobs[c] = job[c] /\ Announced(c) = {}
      BY <1>3, <2>1 DEF PublishStarted
    <3>2. CASE Publish(c, "Started") /\ Goto(c, "fetch") /\ UNCHANGED job
      <4>1. pc'[c] = "fetch" /\ Announced(c)' = {"Started"}
        BY <3>1, <3>2, GotoEffect, PublishAnnounces
      <4> QED
        BY <1>1, <1>2, <3>1, <3>2, <4>1
    <3>3. CASE Catch(c) /\ MaybePublish(c, "Started")
      <4>1. pc'[c] = "saveFailed" /\ job'[c] \in Job /\ job'[c].status = "FAILED"
        BY <1>1, <3>1, <3>3, CatchEffect
      <4>2. Announced(c)' \subseteq {"Started"}
        BY <3>1, <3>3, PublishAnnounces, SaveAnnounces DEF MaybePublish
      <4> QED
        BY <1>2, <3>1, <4>1, <4>2
    <3> QED
      BY <2>1, <3>2, <3>3 DEF PublishStarted
  <2>2. CASE PublishCompleted(c)
    <3>1. /\ pc[c] = "publishCompleted" /\ job[c].status \in SuccessStatus
          /\ jobs[c] = job[c]
      BY <1>3, <2>2 DEF PublishCompleted
    <3>2. CASE Goto(c, "resolved") /\ UNCHANGED job
      <4>1. pc'[c] = "resolved"
        BY <3>2, GotoEffect
      <4> QED
        BY <1>2, <3>1, <3>2, <4>1 DEF Running, Settled
    <3>3. CASE Catch(c)
      <4>1. pc'[c] = "rejected"
        BY <1>1, <3>1, <3>3, CatchEffect
      <4> QED
        BY <4>1 DEF Running, Settled
    <3> QED
      BY <2>2, <3>2, <3>3 DEF PublishCompleted
  <2>3. CASE PublishFailed(c)
    <3>1. /\ pc[c] = "publishFailed" /\ job[c].status = "FAILED"
          /\ jobs[c] = job[c]
      BY <1>3, <2>3 DEF PublishFailed
    <3>2. pc'[c] \in {"resolved", "rejected"} /\ UNCHANGED job
      BY <2>3, GotoEffect DEF PublishFailed, Reject
    <3> QED
      BY <1>2, <3>1, <3>2 DEF Running, Settled
  <2> QED
    BY <2>1, <2>2, <2>3
<1> QED
  BY <1>5, <1>6, Frame

\* The steps that touch neither the job's row nor the exchange.
LEMMA InnerStepsConsistent ==
  ASSUME Typed, Consistent, NEW c \in Calls,
         \/ GetAllMakes(c) \/ FetchSucceeds(c) \/ FetchRetries(c)
         \/ FetchGivesUp(c) \/ Transform(c) \/ SaveChunk(c) \/ Complete(c)
  PROVE  Consistent'
<1>1. pc[c] \in Running /\ job[c] \in Job
  BY DEF GetAllMakes, FetchSucceeds, FetchRetries, FetchGivesUp, Transform,
     SaveChunk, Complete, Running, Control, Settled, Typed, HasJob
<1>2. UNCHANGED <<jobs, events>>
  BY DEF GetAllMakes, FetchSucceeds, FetchRetries, FetchGivesUp, Transform,
     SaveChunk, Complete
<1>3. \A d \in Calls : Announced(d)' = Announced(d)
  BY <1>2, SaveAnnounces
<1>4. CallConsistent(c)
  BY DEF Consistent
<1>5. \A d \in Calls \ {c} : pc'[d] = pc[d] /\ job'[d] = job[d]
  BY <1>1, CatchEffect DEF GetAllMakes, FetchSucceeds, FetchRetries,
     FetchGivesUp, Transform, SaveChunk, Complete, Goto, Typed, TypeOK
<1>6. OthersKeep(c)
  BY <1>2, <1>3, <1>5 DEF OthersKeep
<1>7. Typed'
  BY GetAllMakesTyped, FetchStepsTyped, StoreStepsTyped
<1> USE DEF CallConsistent, CanStart, assertInProgress, isTerminalState,
        TerminalStatus, SuccessStatus
<1>8. CallConsistent(c)'
  <2>1. CASE GetAllMakes(c)
    <3>1. /\ pc[c] = "getAllMakes" /\ job[c] = create
          /\ jobs[c].status = "PENDING" /\ Announced(c) = {}
      BY <1>4, <2>1 DEF GetAllMakes
    <3>2. CASE Catch(c)
      <4>1. pc'[c] = "saveFailed" /\ job'[c] \in Job /\ job'[c].status = "FAILED"
        BY <1>1, <3>1, <3>2, CatchEffect DEF create
      <4> QED
        BY <1>2, <1>3, <3>1, <4>1
    <3>3. ASSUME NEW f \in Feeds, job' = [job EXCEPT ![c] = start(@, Len(f))],
                 Goto(c, "saveStarted")
          PROVE  CallConsistent(c)'
      <4>1. pc'[c] = "saveStarted"
        BY <3>3, GotoEffect
      <4>2. job'[c] = start(job[c], Len(f))
        BY <3>3 DEF Typed, TypeOK
      <4>3. job'[c].status = "IN_PROGRESS" /\ job'[c] \in Job
        BY <1>1, <1>7, <4>1, <4>2 DEF start, Job, Typed, HasJob, Running, Control, Settled
      <4> QED
        BY <1>2, <1>3, <3>1, <4>1, <4>3
    <3> QED
      BY <2>1, <3>2, <3>3 DEF GetAllMakes
  <2>2. CASE FetchSucceeds(c) \/ FetchRetries(c) \/ FetchGivesUp(c) \/ Transform(c)
    <3>1. /\ pc[c] = "fetch" /\ job[c].status = "IN_PROGRESS"
          /\ jobs[c].status = "IN_PROGRESS" /\ Announced(c) = {"Started"}
      BY <1>4, <2>2 DEF FetchSucceeds, FetchRetries, FetchGivesUp, Transform
    <3>2. pc'[c] \in {"fetch", "saveMany"}
      BY <2>2, <3>1, GotoEffect DEF FetchSucceeds, FetchRetries, FetchGivesUp, Transform
    <3>3. job'[c] \in Job
      BY <1>7, <3>2 DEF Typed, HasJob, Running, Control, Settled
    <3>4. job'[c].status = job[c].status
      <4>1. CASE FetchSucceeds(c)
        BY <1>1, <4>1 DEF FetchSucceeds, incrementProcessed, Job, Typed, TypeOK
      <4>2. CASE FetchGivesUp(c)
        BY <1>1, <4>2 DEF FetchGivesUp, recordFailure, Job, Typed, TypeOK
      <4> QED
        BY <2>2, <4>1, <4>2 DEF FetchRetries, Transform
    <3> QED
      BY <1>2, <1>3, <3>1, <3>2, <3>3, <3>4
  <2>3. CASE SaveChunk(c)
    <3>1. /\ pc[c] = "saveMany" /\ job[c].status = "IN_PROGRESS"
          /\ jobs[c].status = "IN_PROGRESS" /\ Announced(c) = {"Started"}
      BY <1>4, <2>3 DEF SaveChunk
    <3>2. CASE UNCHANGED <<pc, job>>
      BY <1>1, <1>2, <1>3, <3>1, <3>2
    <3>3. CASE Catch(c)
      <4>1. pc'[c] = "saveFailed" /\ job'[c] \in Job /\ job'[c].status = "FAILED"
        BY <1>1, <3>1, <3>3, CatchEffect
      <4> QED
        BY <1>2, <1>3, <3>1, <4>1
    <3> QED
      BY <2>3, <3>2, <3>3 DEF SaveChunk
  <2>4. CASE Complete(c)
    <3>1. /\ pc[c] = "saveMany" /\ job[c].status = "IN_PROGRESS"
          /\ jobs[c].status = "IN_PROGRESS" /\ Announced(c) = {"Started"}
      BY <1>4, <2>4 DEF Complete
    <3>2. pc'[c] = "saveCompleted" /\ job'[c] = complete(job[c])
      BY <2>4, GotoEffect DEF Complete, Typed, TypeOK
    <3>3. job'[c].status \in SuccessStatus
      BY <1>1, <3>2 DEF complete, Job
    <3>4. job'[c] \in Job
      BY <1>7, <3>2 DEF Typed, HasJob, Running, Control, Settled
    <3> QED
      BY <1>2, <1>3, <3>1, <3>2, <3>3, <3>4
  <2> QED
    BY <2>1, <2>2, <2>3, <2>4
<1> QED
  BY <1>6, <1>8, Frame

LEMMA CrashConsistent ==
  ASSUME Typed, Consistent, Crash
  PROVE  Consistent'
<1> SUFFICES ASSUME NEW c \in Calls PROVE CallConsistent(c)'
  BY DEF Consistent
<1>1. CallConsistent(c)
  BY DEF Consistent
<1>2. Announced(c)' = Announced(c) /\ UNCHANGED <<job, jobs>>
  BY SaveAnnounces DEF Crash
<1>3. CASE pc'[c] = "crashed"
  BY <1>3 DEF CallConsistent, Running, Settled
<1>4. CASE pc'[c] = pc[c]
  BY <1>1, <1>2, <1>4 DEF CallConsistent
<1> QED
  BY <1>3, <1>4 DEF Crash

-----------------------------------------------------------------------------
(***************************************************************************)
(* What was announced stays recorded.                                      *)
(***************************************************************************)

\* A save only ever replaces a row that is not final, and the new row of an
\* announced job is past PENDING.
LEMMA SavedRow ==
  ASSUME Typed, Consistent, NEW c \in Calls,
         \/ CreateJob(c) \/ SaveStarted(c) \/ SaveCompleted(c) \/ SaveFailed(c)
  PROVE  /\ UNCHANGED events
         /\ jobs'[c] \in {job[c], jobs[c]}
         /\ \A d \in Calls \ {c} : jobs'[d] = jobs[d]
         /\ ~isTerminalState(jobs[c])
         /\ Announced(c) \subseteq {"Started"}
         /\ Announced(c) # {} => job[c].status \notin {"ABSENT", "PENDING"}
<1>1. CallConsistent(c)
  BY DEF Consistent
<1>2. UNCHANGED events
  BY DEF CreateJob, SaveStarted, SaveCompleted, SaveFailed
<1>3. /\ jobs'[c] \in {job[c], jobs[c]}
      /\ \A d \in Calls \ {c} : jobs'[d] = jobs[d]
  BY SaveEffect DEF CreateJob, SaveStarted, SaveCompleted, SaveFailed, MaybeSaveJob
<1> USE DEF CallConsistent, CanStart, assertInProgress, isTerminalState,
        TerminalStatus, SuccessStatus
<1>4. CASE CreateJob(c)
  <2>1. pc[c] = "create" /\ jobs[c] = NoRow /\ Announced(c) = {}
    BY <1>1, <1>4 DEF CreateJob
  <2> QED
    BY <1>2, <1>3, <2>1 DEF NoRow
<1>5. CASE SaveStarted(c)
  <2>1. pc[c] = "saveStarted" /\ jobs[c].status = "PENDING" /\ Announced(c) = {}
    BY <1>1, <1>5 DEF SaveStarted
  <2> QED
    BY <1>2, <1>3, <2>1
<1>6. CASE SaveCompleted(c)
  <2>1. /\ pc[c] = "saveCompleted" /\ jobs[c].status = "IN_PROGRESS"
        /\ job[c].status \in SuccessStatus /\ Announced(c) = {"Started"}
    BY <1>1, <1>6 DEF SaveCompleted
  <2> QED
    BY <1>2, <1>3, <2>1
<1>7. CASE SaveFailed(c)
  <2>1. /\ pc[c] = "saveFailed" /\ jobs[c].status \in {"PENDING", "IN_PROGRESS"}
        /\ job[c].status = "FAILED" /\ Announced(c) \subseteq {"Started"}
    BY <1>1, <1>7 DEF SaveFailed
  <2> QED
    BY <1>2, <1>3, <2>1
<1> QED
  BY <1>4, <1>5, <1>6, <1>7

\* What the table has to say about one event.
Recorded(e) ==
  /\ e.kind = "Completed" =>
       jobs[e.job].status \in SuccessStatus /\ SaysTheSame(e, jobs[e.job])
  /\ e.kind = "Failed" =>
       jobs[e.job].status = "FAILED" /\ SaysTheSame(e, jobs[e.job])
  /\ e.kind = "Started" =>
       jobs[e.job].status \notin {"ABSENT", "PENDING"}

LEMMA SaveKeepsRecord ==
  ASSUME Typed, Consistent, AnnouncedOutcomeIsDurable, NEW c \in Calls,
         \/ CreateJob(c) \/ SaveStarted(c) \/ SaveCompleted(c) \/ SaveFailed(c)
  PROVE  AnnouncedOutcomeIsDurable'
<1> SUFFICES ASSUME NEW e \in events' PROVE Recorded(e)'
  BY DEF AnnouncedOutcomeIsDurable, Recorded
<1>1. e \in events /\ e \in Event
  BY SavedRow DEF Typed, TypeOK
<1>2. Recorded(e)
  BY <1>1 DEF AnnouncedOutcomeIsDurable, Recorded
<1>3. CASE e.job # c
  <2>1. jobs'[e.job] = jobs[e.job]
    BY <1>1, <1>3, SavedRow DEF Event
  <2> QED
    BY <1>2, <2>1 DEF Recorded, SaysTheSame
<1>4. CASE e.job = c
  <2>1. e.kind \in Announced(c)
    BY <1>1, <1>4 DEF Announced
  <2>2. e.kind = "Started" /\ job[c].status \notin {"ABSENT", "PENDING"}
    BY <2>1, SavedRow
  <2>3. jobs'[c] \in {job[c], jobs[c]}
    BY SavedRow
  <2> QED
    BY <1>2, <1>4, <2>2, <2>3 DEF Recorded
<1> QED
  BY <1>3, <1>4

LEMMA PublishKeepsRecord ==
  ASSUME Typed, Consistent, AnnouncedOutcomeIsDurable, NEW c \in Calls,
         \/ PublishStarted(c) \/ PublishCompleted(c) \/ PublishFailed(c)
  PROVE  AnnouncedOutcomeIsDurable'
<1>1. CallConsistent(c)
  BY DEF Consistent
<1>2. UNCHANGED jobs
  BY DEF PublishStarted, PublishCompleted, PublishFailed
<1>3. ASSUME NEW kind, MaybePublish(c, kind), Recorded(EventOf(c, kind))
      PROVE  AnnouncedOutcomeIsDurable'
  <2> SUFFICES ASSUME NEW e \in events' PROVE Recorded(e)'
    BY DEF AnnouncedOutcomeIsDurable, Recorded
  <2>1. e \in events \/ e = EventOf(c, kind)
    BY <1>3 DEF MaybePublish, Publish
  <2>2. Recorded(e)
    BY <1>3, <2>1 DEF AnnouncedOutcomeIsDurable, Recorded
  <2> QED
    BY <1>2, <2>2 DEF Recorded, SaysTheSame
<1> USE DEF CallConsistent, assertInProgress, EventOf, Recorded, SaysTheSame
<1>4. CASE PublishStarted(c)
  <2>1. pc[c] = "publishStarted" /\ jobs[c].status = "IN_PROGRESS"
    BY <1>1, <1>4 DEF PublishStarted
  <2>2. Recorded(EventOf(c, "Started"))
    BY <2>1
  <2> QED
    BY <1>3, <1>4, <2>2 DEF PublishStarted, MaybePublish
<1>5. CASE PublishCompleted(c)
  <2>1. jobs[c] = job[c] /\ job[c].status \in SuccessStatus
    BY <1>1, <1>5 DEF PublishCompleted
  <2>2. Recorded(EventOf(c, "Completed"))
    BY <2>1 DEF SuccessStatus
  <2> QED
    BY <1>3, <1>5, <2>2 DEF PublishCompleted, MaybePublish
<1>6. CASE PublishFailed(c)
  <2>1. jobs[c] = job[c] /\ job[c].status = "FAILED"
    BY <1>1, <1>6 DEF PublishFailed
  <2>2. Recorded(EventOf(c, "Failed"))
    BY <2>1
  <2> QED
    BY <1>3, <1>6, <2>2 DEF PublishFailed, MaybePublish
<1> QED
  BY <1>4, <1>5, <1>6

\* The inductive invariant.
IInv == Typed /\ Consistent /\ AnnouncedOutcomeIsDurable

LEMMA InitInv == Init => IInv
<1> SUFFICES ASSUME Init PROVE Consistent /\ AnnouncedOutcomeIsDurable
  BY InitTyped DEF IInv
<1>1. Consistent
  BY DEF Init, Consistent, CallConsistent, Announced, Running, Settled
<1>2. AnnouncedOutcomeIsDurable
  BY DEF Init, AnnouncedOutcomeIsDurable
<1> QED
  BY <1>1, <1>2

LEMMA StepInv == IInv /\ [Next]_vars => IInv'
<1> SUFFICES ASSUME IInv, [Next]_vars
             PROVE  Consistent' /\ AnnouncedOutcomeIsDurable'
  BY StepTyped DEF IInv
<1> USE DEF IInv
<1>1. CASE Crash
  <2>1. AnnouncedOutcomeIsDurable'
    BY <1>1 DEF Crash, AnnouncedOutcomeIsDurable, SaysTheSame
  <2> QED
    BY <1>1, <2>1, CrashConsistent
<1>2. ASSUME NEW c \in Calls, Check(c) PROVE Consistent' /\ AnnouncedOutcomeIsDurable'
  <2>1. AnnouncedOutcomeIsDurable'
    BY <1>2 DEF Check, AnnouncedOutcomeIsDurable, SaysTheSame
  <2> QED
    BY <1>2, <2>1, CheckConsistent
<1>3. ASSUME NEW c \in Calls,
             \/ CreateJob(c) \/ SaveStarted(c) \/ SaveCompleted(c) \/ SaveFailed(c)
      PROVE  Consistent' /\ AnnouncedOutcomeIsDurable'
  BY <1>3, SaveStepsConsistent, SaveKeepsRecord
<1>4. ASSUME NEW c \in Calls,
             \/ PublishStarted(c) \/ PublishCompleted(c) \/ PublishFailed(c)
      PROVE  Consistent' /\ AnnouncedOutcomeIsDurable'
  BY <1>4, PublishStepsConsistent, PublishKeepsRecord
<1>5. ASSUME NEW c \in Calls,
             \/ GetAllMakes(c) \/ FetchSucceeds(c) \/ FetchRetries(c)
             \/ FetchGivesUp(c) \/ Transform(c) \/ SaveChunk(c) \/ Complete(c)
      PROVE  Consistent' /\ AnnouncedOutcomeIsDurable'
  <2>1. UNCHANGED <<jobs, events>>
    BY <1>5 DEF GetAllMakes, FetchSucceeds, FetchRetries, FetchGivesUp, Transform,
       SaveChunk, Complete
  <2>2. AnnouncedOutcomeIsDurable'
    BY <2>1 DEF AnnouncedOutcomeIsDurable, SaysTheSame
  <2> QED
    BY <1>5, <2>2, InnerStepsConsistent
<1>6. CASE UNCHANGED vars
  BY <1>6 DEF vars, Consistent, CallConsistent, Announced,
     AnnouncedOutcomeIsDurable, SaysTheSame
<1> QED
  BY <1>1, <1>2, <1>3, <1>4, <1>5, <1>6 DEF Next, Proceed

\* A call, its row and its events fit together in every reachable state.
THEOREM CallsConsistent == Spec => []Consistent
<1>1. IInv => Consistent
  BY DEF IInv
<1> QED
  BY <1>1, InitInv, StepInv, PTL DEF Spec

\* Whatever an event has announced of a job, the table says too, for ever.
THEOREM AnnouncedIsDurable == Spec => []AnnouncedOutcomeIsDurable
<1>1. IInv => AnnouncedOutcomeIsDurable
  BY DEF IInv
<1> QED
  BY <1>1, InitInv, StepInv, PTL DEF Spec

\* No step of any call writes the row of a job that is over.
THEOREM TerminalRowsFrozen == Spec => TerminalRowsNeverChange
<1> DEFINE Frozen == \A c \in Calls :
                     jobs[c].status \in TerminalStatus => jobs'[c] = jobs[c]
<1>1. IInv /\ [Next]_vars => [Frozen]_vars
  <2> SUFFICES ASSUME IInv, Next PROVE Frozen
    OBVIOUS
  <2>1. CASE UNCHANGED jobs
    BY <2>1
  <2>2. ASSUME NEW c \in Calls,
               \/ CreateJob(c) \/ SaveStarted(c) \/ SaveCompleted(c) \/ SaveFailed(c)
        PROVE  Frozen
    <3>1. /\ jobs[c].status \notin TerminalStatus
          /\ \A d \in Calls \ {c} : jobs'[d] = jobs[d]
      BY <2>2, SavedRow DEF IInv, isTerminalState
    <3> QED
      BY <3>1
  <2> QED
    BY <2>1, <2>2 DEF Next, Proceed, Crash, Check, PublishStarted, PublishCompleted,
       PublishFailed, GetAllMakes, FetchSucceeds, FetchRetries, FetchGivesUp,
       Transform, SaveChunk, Complete
<1>2. []IInv /\ [][Next]_vars => [][Frozen]_vars
  BY <1>1, PTL
<1> QED
  BY <1>2, InitInv, StepInv, PTL DEF Spec, TerminalRowsNeverChange

-----------------------------------------------------------------------------
(***************************************************************************)
(* Refinement of the ledger.                                               *)
(***************************************************************************)

LEMMA LedgerInit == Init => Ledger!Init
  BY DEF Init, Ledger!Init, statusOf, announcedOf, Announced, NoRow

LEMMA LedgerSame ==
  ASSUME UNCHANGED <<jobs, events>>
  PROVE  UNCHANGED Ledger!vars
<1>1. statusOf' = statusOf
  BY DEF statusOf
<1>2. announcedOf' = announcedOf
  BY DEF announcedOf, Announced
<1> QED
  BY <1>1, <1>2 DEF Ledger!vars

\* A save moves the status of one job, or changes nothing the ledger sees.
LEMMA LedgerSave ==
  ASSUME IInv, NEW c \in Calls,
         \/ CreateJob(c) \/ SaveStarted(c) \/ SaveCompleted(c) \/ SaveFailed(c)
  PROVE  [Ledger!Next]_(Ledger!vars)
<1>1. UNCHANGED events /\ CallConsistent(c)
  BY DEF IInv, Consistent, CreateJob, SaveStarted, SaveCompleted, SaveFailed
<1>2. UNCHANGED announcedOf
  BY <1>1 DEF announcedOf, Announced
<1>3. CASE UNCHANGED jobs
  BY <1>1, <1>3, LedgerSame
<1>4. CASE SaveJob(c)
  <2>1. statusOf' = [statusOf EXCEPT ![c] = job[c].status] /\ statusOf[c] = jobs[c].status
    BY <1>4 DEF SaveJob, statusOf, IInv, Typed, TypeOK
  <2>2. Ledger!Move(c, jobs[c].status, job[c].status)
    BY <1>2, <2>1 DEF Ledger!Move
  <2> USE DEF CallConsistent, assertInProgress
  <2>3. CASE CreateJob(c)
    <3>1. jobs[c].status = "ABSENT" /\ job[c].status = "PENDING"
      BY <1>1, <2>3 DEF CreateJob, NoRow, create
    <3> QED
      BY <2>2, <3>1 DEF Ledger!Next, Ledger!Create
  <2>4. CASE SaveStarted(c)
    <3>1. jobs[c].status = "PENDING" /\ job[c].status = "IN_PROGRESS"
      BY <1>1, <2>4 DEF SaveStarted
    <3> QED
      BY <2>2, <3>1 DEF Ledger!Next, Ledger!Begin
  <2>5. CASE SaveCompleted(c)
    <3>1. jobs[c].status = "IN_PROGRESS" /\ job[c].status \in Ledger!Success
      BY <1>1, <2>5 DEF SaveCompleted, SuccessStatus, Ledger!Success
    <3> QED
      BY <2>2, <3>1 DEF Ledger!Next, Ledger!Finish
  <2>6. CASE SaveFailed(c)
    <3>1. jobs[c].status \in {"PENDING", "IN_PROGRESS"} /\ job[c].status = "FAILED"
      BY <1>1, <2>6 DEF SaveFailed
    <3> QED
      BY <2>2, <3>1 DEF Ledger!Next, Ledger!Abandon, Ledger!Finish
  <2> QED
    BY <2>3, <2>4, <2>5, <2>6
<1> QED
  BY <1>3, <1>4 DEF CreateJob, SaveStarted, SaveCompleted, SaveFailed, MaybeSaveJob

\* A publish that is accepted announces one kind of event that is new.
LEMMA LedgerPublish ==
  ASSUME IInv, NEW c \in Calls,
         \/ PublishStarted(c) \/ PublishCompleted(c) \/ PublishFailed(c)
  PROVE  [Ledger!Next]_(Ledger!vars)
<1>1. UNCHANGED jobs /\ CallConsistent(c)
  BY DEF IInv, Consistent, PublishStarted, PublishCompleted, PublishFailed
<1>2. UNCHANGED statusOf /\ statusOf[c] = jobs[c].status /\ announcedOf[c] = Announced(c)
  BY <1>1 DEF statusOf, announcedOf
<1>3. CASE UNCHANGED events
  BY <1>1, <1>3, LedgerSame
<1>4. ASSUME NEW kind, Publish(c, kind), kind \notin Announced(c)
      PROVE  Ledger!Announce(c, kind)
  <2>1. /\ Announced(c)' = Announced(c) \union {kind}
        /\ \A d \in Calls \ {c} : Announced(d)' = Announced(d)
    BY <1>4, PublishAnnounces
  <2>2. announcedOf' = [announcedOf EXCEPT ![c] = @ \union {kind}]
    BY <2>1 DEF announcedOf
  <2> QED
    BY <1>2, <1>4, <2>2 DEF Ledger!Announce
<1> USE DEF CallConsistent, assertInProgress
<1>5. CASE PublishStarted(c) /\ Publish(c, "Started")
  <2>1. jobs[c].status = "IN_PROGRESS" /\ Announced(c) = {}
    BY <1>1, <1>5 DEF PublishStarted
  <2> QED
    BY <1>2, <1>4, <1>5, <2>1 DEF Ledger!Next, Ledger!AnnounceStarted
<1>6. CASE PublishCompleted(c) /\ Publish(c, "Completed")
  <2>1. jobs[c].status \in Ledger!Success /\ Announced(c) = {"Started"}
    BY <1>1, <1>6 DEF PublishCompleted, SuccessStatus, Ledger!Success
  <2> QED
    BY <1>2, <1>4, <1>6, <2>1 DEF Ledger!Next, Ledger!AnnounceCompleted
<1>7. CASE PublishFailed(c) /\ Publish(c, "Failed")
  <2>1. jobs[c].status = "FAILED" /\ Announced(c) \subseteq {"Started"}
    BY <1>1, <1>7 DEF PublishFailed
  <2> QED
    BY <1>2, <1>4, <1>7, <2>1 DEF Ledger!Next, Ledger!AnnounceFailed
<1> QED
  BY <1>3, <1>5, <1>6, <1>7 DEF PublishStarted, PublishCompleted, PublishFailed,
     MaybePublish

LEMMA LedgerStep == IInv /\ [Next]_vars => [Ledger!Next]_(Ledger!vars)
<1> SUFFICES ASSUME IInv, [Next]_vars PROVE [Ledger!Next]_(Ledger!vars)
  OBVIOUS
<1>1. CASE UNCHANGED <<jobs, events>>
  BY <1>1, LedgerSame
<1>2. ASSUME NEW c \in Calls,
             \/ CreateJob(c) \/ SaveStarted(c) \/ SaveCompleted(c) \/ SaveFailed(c)
      PROVE  [Ledger!Next]_(Ledger!vars)
  BY <1>2, LedgerSave
<1>3. ASSUME NEW c \in Calls,
             \/ PublishStarted(c) \/ PublishCompleted(c) \/ PublishFailed(c)
      PROVE  [Ledger!Next]_(Ledger!vars)
  BY <1>3, LedgerPublish
<1> QED
  BY <1>1, <1>2, <1>3 DEF Next, Proceed, vars, Crash, Check, GetAllMakes,
     FetchSucceeds, FetchRetries, FetchGivesUp, Transform, SaveChunk, Complete

\* Any number of concurrent, failing and dying ingestions look, in the jobs
\* table and on the exchange, like the ledger.
THEOREM LedgerImplemented == Spec => ImplementsLedger
  BY LedgerInit, LedgerStep, InitInv, StepInv, PTL
     DEF Spec, ImplementsLedger, Ledger!Spec

-----------------------------------------------------------------------------
(***************************************************************************)
(* What a finished ingestion leaves behind: the counters of its row and    *)
(* the makes it stored.                                                    *)
(***************************************************************************)
Succeeded(c) == jobs[c].status \in SuccessStatus

\* The phases of a call: before it has a feed; from then on; once the fetch
\* loop is over; once all is stored.
Fresh == {"idle", "create", "getAllMakes"}
Working(c) ==
  pc[c] \in {"saveStarted", "publishStarted", "fetch", "saveMany", "saveCompleted",
             "publishCompleted"} \/ Succeeded(c)
Storing(c) == pc[c] \in {"saveMany", "saveCompleted", "publishCompleted"} \/ Succeeded(c)
Finished(c) == pc[c] \in {"saveCompleted", "publishCompleted"} \/ Succeeded(c)

\* The counters of the in-memory job count the positions the loop is done with.
Counts(c) ==
  /\ job[c] \in Job
  /\ job[c].totalMakes = Len(feed[c]) /\ pos[c] <= Len(feed[c])
  /\ job[c].processedMakes + job[c].failedMakes = pos[c]
  /\ Len(job[c].errors) = job[c].failedMakes

\* What the loop did with a make was to fetch it or to record an error; both
\* only for a make that occurs twice.
Errors(c) == {job[c].errors[k] : k \in DOMAIN job[c].errors}
At(c, m) == {i \in 1 .. pos[c] : feed[c][i] = m}
Knows(c) ==
  /\ \A i \in 1 .. pos[c] : feed[c][i] \in fetched[c] \union Errors(c)
  /\ \A m \in fetched[c] \union Errors(c) : At(c, m) # {}
  /\ \A m \in fetched[c] \intersect Errors(c) : \E i, k \in At(c, m) : i # k

\* The valid makes that are not among the models any more are stored, each by
\* this call and each at one position of the feed only.
Valid(c) == {i \in DOMAIN feed[c] : isValidMake(feed[c][i])}
Inserted(c) == Valid(c) \ models[c]
Stores(c) ==
  /\ pos[c] = Len(feed[c]) /\ models[c] \subseteq Valid(c)
  /\ \A i \in Inserted(c) :
       /\ makes[feed[c][i]] # NoMake /\ makes[feed[c][i]].owner = c
       /\ makes[feed[c][i]].typed <=> feed[c][i] \in fetched[c]
  /\ \A i, k \in Inserted(c) : feed[c][i] = feed[c][k] => i = k

Accounted(c) ==
  /\ pc[c] \in Fresh => pos[c] = 0 /\ fetched[c] = {}
  /\ Working(c) => Counts(c) /\ Knows(c)
  /\ Storing(c) => Stores(c)
  /\ Finished(c) => /\ models[c] = {}
                    /\ job[c].status = "COMPLETED" <=> job[c].failedMakes = 0
  /\ Succeeded(c) => jobs[c] = job[c]

OInv == \A c \in Calls : Accounted(c)

-----------------------------------------------------------------------------
(***************************************************************************)
(* Steps that leave the accounts of a call alone.                          *)
(***************************************************************************)

\* A stored make stays as it is.
Kept == \A m \in MakeIds : makes[m] # NoMake => makes'[m] = makes[m]

LEMMA InsertKeeps ==
  ASSUME NEW c \in Calls, Insertable(c), InsertChunk(c)
  PROVE  Kept
BY DEF Kept, Insertable, InsertChunk

LEMMA StepKeeps ==
  ASSUME [Next]_vars
  PROVE  Kept
<1>1. CASE UNCHANGED makes
  BY <1>1 DEF Kept
<1>2. ASSUME NEW c \in Calls, SaveChunk(c)
      PROVE  Kept
  BY <1>1, <1>2, InsertKeeps DEF SaveChunk
<1> QED
  BY <1>1, <1>2 DEF Next, Proceed, vars, local, Crash, Check, CreateJob, GetAllMakes,
     SaveStarted, PublishStarted, FetchSucceeds, FetchRetries, FetchGivesUp,
     Transform, Complete, SaveCompleted, PublishCompleted, SaveFailed, PublishFailed

\* A call that has failed, or has no feed yet, owes no account.
LEMMA NoAccount ==
  ASSUME NEW c \in Calls, ~Working(c)',
         pc'[c] \in Fresh => pos'[c] = 0 /\ fetched'[c] = {}
  PROVE  Accounted(c)'
BY DEF Accounted, Working, Storing, Finished

\* What a call has in memory besides its control state.
SameLocal(c) ==
  /\ job'[c] = job[c] /\ feed'[c] = feed[c] /\ fetched'[c] = fetched[c]
  /\ models'[c] = models[c] /\ pos'[c] = pos[c]

\* A step that only moves the control state on, or saves the job, in a phase
\* whose account is already in order.
LEMMA SameAccount ==
  ASSUME Typed, Kept, NEW c \in Calls, Accounted(c), SameLocal(c),
         pc'[c] \in Fresh => pc[c] \in Fresh,
         Working(c)' => Working(c), Storing(c)' => Storing(c),
         Finished(c)' => Finished(c), Succeeded(c)' => jobs'[c] = job[c]
  PROVE  Accounted(c)'
<1> USE DEF SameLocal
<1>1. Counts(c) => Counts(c)'
  BY DEF Counts
<1>2. Knows(c) => Knows(c)'
  BY DEF Knows, Errors, At
<1>3. Stores(c) => Stores(c)'
  <2> SUFFICES ASSUME Stores(c) PROVE Stores(c)'
    OBVIOUS
  <2>1. Valid(c)' = Valid(c) /\ Inserted(c)' = Inserted(c)
    BY DEF Valid, Inserted, isValidMake
  <2>2. ASSUME NEW i \in Inserted(c)
        PROVE  /\ makes'[feed[c][i]] # NoMake /\ makes'[feed[c][i]].owner = c
               /\ makes'[feed[c][i]].typed <=> feed[c][i] \in fetched[c]
    <3>1. feed[c] \in Seq(MakeIds) /\ i \in DOMAIN feed[c]
      BY DEF Typed, TypeOK, Inserted, Valid
    <3>2. feed[c][i] \in MakeIds
      BY <3>1
    <3>3. makes'[feed[c][i]] = makes[feed[c][i]]
      BY <3>2 DEF Kept, Stores
    <3> QED
      BY <3>3 DEF Stores
  <2> QED
    BY <2>1, <2>2 DEF Stores
<1> QED
  BY <1>1, <1>2, <1>3 DEF Accounted

\* Another call's step leaves the account of c alone.
LEMMA OtherAccount ==
  ASSUME Typed, Kept, NEW c \in Calls, Accounted(c), SameLocal(c),
         pc'[c] = pc[c], jobs'[c] = jobs[c]
  PROVE  Accounted(c)'
<1>1. Succeeded(c)' => jobs'[c] = job[c]
  BY DEF Accounted, Succeeded
<1> QED
  BY <1>1, SameAccount DEF Working, Storing, Finished, Succeeded

-----------------------------------------------------------------------------
(***************************************************************************)
(* The steps of the call itself.                                           *)
(***************************************************************************)

\* What IInv says of one call, in the words used below.
LEMMA CallTyped ==
  ASSUME Typed, NEW c \in Calls
  PROVE  /\ pc[c] \in Control /\ feed[c] \in Seq(MakeIds) /\ pos[c] \in Nat
         /\ fetched[c] \subseteq MakeIds /\ models[c] \subseteq Nat
         /\ DOMAIN feed[c] = 1 .. Len(feed[c]) /\ Len(feed[c]) \in Nat
         /\ pc[c] \in Running => job[c] \in Job
BY DEF Typed, TypeOK, HasJob

\* A catch block that is entered before the job is terminal.
LEMMA CatchAccount ==
  ASSUME Typed, Consistent, NEW c \in Calls, Catch(c),
         pc[c] \in {"getAllMakes", "saveStarted", "publishStarted", "fetch", "saveMany"},
         jobs'[c] \in {job[c], jobs[c]}
  PROVE  Accounted(c)'
<1>1. CallConsistent(c) /\ pc[c] \in Running
  BY DEF Consistent, Running, Control, Settled
<1>2. job[c].status \in {"PENDING", "IN_PROGRESS"}
  BY <1>1 DEF CallConsistent, CanStart, assertInProgress
<1>3. ~isTerminalState(job[c])
  BY <1>2 DEF isTerminalState, TerminalStatus, SuccessStatus
<1>4. pc'[c] = "saveFailed"
  BY <1>1, <1>3, CatchEffect
<1>5. jobs[c].status \in {"PENDING", "IN_PROGRESS"}
  BY <1>1, <1>2 DEF CallConsistent
<1>6. ~Working(c)' /\ pc'[c] \notin Fresh
  BY <1>2, <1>4, <1>5 DEF Working, Succeeded, SuccessStatus, Fresh
<1> QED
  BY <1>6, NoAccount

LEMMA CheckAccount ==
  ASSUME Typed, Consistent, NEW c \in Calls, Accounted(c), Check(c)
  PROVE  Accounted(c)'
<1>1. pc[c] = "idle" /\ jobs[c] = NoRow /\ UNCHANGED <<jobs, pos, fetched>>
  BY DEF Check, Consistent, CallConsistent, local
<1>2. pc'[c] \in {"conflict", "create", "rejected"}
  BY GotoEffect DEF Check, Reject
<1>3. ~Working(c)'
  BY <1>1, <1>2 DEF Working, Succeeded, SuccessStatus, NoRow
<1>4. pos[c] = 0 /\ fetched[c] = {}
  BY <1>1 DEF Accounted, Fresh
<1> QED
  BY <1>1, <1>3, <1>4, NoAccount

LEMMA CreateJobAccount ==
  ASSUME Typed, Consistent, NEW c \in Calls, Accounted(c), CreateJob(c)
  PROVE  Accounted(c)'
<1>1. pc[c] = "create" /\ jobs[c] = NoRow /\ job[c] = create /\ UNCHANGED <<pos, fetched>>
  BY DEF CreateJob, Consistent, CallConsistent, local
<1>2. pc'[c] \in {"getAllMakes", "rejected"}
  BY GotoEffect DEF CreateJob, Reject
<1>3. jobs'[c] \in {job[c], jobs[c]}
  BY SaveEffect DEF CreateJob, MaybeSaveJob
<1>4. ~Working(c)'
  BY <1>1, <1>2, <1>3 DEF Working, Succeeded, SuccessStatus, NoRow, create
<1>5. pos[c] = 0 /\ fetched[c] = {}
  BY <1>1 DEF Accounted, Fresh
<1> QED
  BY <1>1, <1>4, <1>5, NoAccount

LEMMA GetAllMakesAccount ==
  ASSUME Typed, Consistent, NEW c \in Calls, Accounted(c), GetAllMakes(c)
  PROVE  Accounted(c)'
<1>1. pc[c] = "getAllMakes" /\ job[c] = create /\ jobs[c].status = "PENDING"
  BY DEF GetAllMakes, Consistent, CallConsistent
<1>2. UNCHANGED <<jobs, pos, fetched>> /\ pos[c] = 0 /\ fetched[c] = {}
  BY <1>1 DEF GetAllMakes, Accounted, Fresh
<1>3. CASE Catch(c)
  BY <1>1, <1>2, <1>3, CatchAccount
<1>4. ASSUME NEW f \in Feeds, feed' = [feed EXCEPT ![c] = f],
             job' = [job EXCEPT ![c] = start(@, Len(f))], Goto(c, "saveStarted")
      PROVE  Accounted(c)'
  <2>1. pc'[c] = "saveStarted" /\ feed'[c] = f /\ job'[c] = start(create, Len(f))
    BY <1>1, <1>4, GotoEffect DEF Typed, TypeOK
  <2>2. f \in Seq(MakeIds) /\ Len(f) \in Nat
    BY FeedAssumption
  <2>3. start(create, Len(f)) \in Job
    BY <2>2, NewJob, JobMethods
  <2>4. Counts(c)'
    BY <1>2, <2>1, <2>2, <2>3 DEF Counts, start, create
  <2>5. job'[c].errors = << >>
    BY <2>1 DEF start, create
  <2>6. Knows(c)'
    BY <1>2, <2>5 DEF Knows, Errors, At
  <2>7. ~Storing(c)' /\ pc'[c] \notin Fresh
    BY <1>1, <1>2, <2>1 DEF Storing, Succeeded, SuccessStatus, Fresh
  <2> QED
    BY <2>4, <2>6, <2>7 DEF Accounted, Storing, Finished
<1> QED
  BY <1>3, <1>4 DEF GetAllMakes

LEMMA StartStepsAccount ==
  ASSUME Typed, Consistent, Kept, NEW c \in Calls, Accounted(c),
         SaveStarted(c) \/ PublishStarted(c) \/ FetchRetries(c)
  PROVE  Accounted(c)'
<1>1. pc[c] \in {"saveStarted", "publishStarted", "fetch"} /\ CallConsistent(c)
  BY DEF SaveStarted, PublishStarted, FetchRetries, Consistent
<1>2. jobs'[c] \in {job[c], jobs[c]}
  BY SaveEffect DEF SaveStarted, MaybeSaveJob, PublishStarted, FetchRetries
<1>3. job[c].status = "IN_PROGRESS" /\ jobs[c].status \in {"PENDING", "IN_PROGRESS"}
  BY <1>1 DEF CallConsistent, assertInProgress
<1>4. CASE Catch(c)
  BY <1>1, <1>2, <1>4, CatchAccount
<1>5. CASE UNCHANGED job
  <2>1. pc'[c] \in {"publishStarted", "fetch"} \/ Catch(c)
    BY <1>1, GotoEffect DEF SaveStarted, PublishStarted, FetchRetries
  <2>2. SameLocal(c)
    BY <1>5 DEF SaveStarted, PublishStarted, FetchRetries, local, SameLocal
  <2>3. Working(c) /\ ~Succeeded(c)'
    BY <1>1, <1>2, <1>3 DEF Working, Succeeded, SuccessStatus
  <2>4. ASSUME pc'[c] \in {"publishStarted", "fetch"}
        PROVE  Accounted(c)'
    <3>1. ~Storing(c)' /\ ~Finished(c)' /\ pc'[c] \notin Fresh
      BY <2>3, <2>4 DEF Storing, Finished, Succeeded, Fresh
    <3> QED
      BY <2>2, <2>3, <3>1, SameAccount
  <2> QED
    BY <1>4, <2>1, <2>4
<1> QED
  BY <1>4, <1>5 DEF SaveStarted, PublishStarted, FetchRetries

LEMMA ErrorsGrow ==
  ASSUME NEW e \in Seq(Nat), NEW m \in Nat
  PROVE  {Append(e, m)[k] : k \in DOMAIN Append(e, m)} = {e[k] : k \in DOMAIN e} \union {m}
<1> DEFINE a == Append(e, m)
           n == Len(e)
<1>1. /\ n \in Nat /\ DOMAIN e = 1 .. n /\ DOMAIN a = 1 .. (n + 1)
      /\ a[n + 1] = m /\ \A k \in 1 .. n : a[k] = e[k]
  OBVIOUS
<1> HIDE DEF a, n
<1>2. 1 .. (n + 1) = (1 .. n) \union {n + 1}
  BY <1>1
<1>3. {a[k] : k \in DOMAIN a} = {e[k] : k \in DOMAIN e} \union {m}
  BY <1>1, <1>2
<1> QED
  BY <1>3 DEF a

\* One more make is done with: its types were fetched, or an error names it.
LEMMA FetchAccount ==
  ASSUME Typed, Consistent, NEW c \in Calls, Accounted(c),
         FetchSucceeds(c) \/ FetchGivesUp(c)
  PROVE  Accounted(c)'
<1> DEFINE p == pos[c] + 1
           m == feed[c][pos[c] + 1]
           f == fetched[c]
           e == job[c].errors
<1>1. /\ pc[c] = "fetch" /\ pos[c] < Len(feed[c]) /\ CallConsistent(c)
      /\ UNCHANGED <<pc, feed, jobs>> /\ job[c] \in Job
  BY CallTyped DEF FetchSucceeds, FetchGivesUp, Consistent, Running, Control, Settled
<1>2. Counts(c) /\ Knows(c)
  BY <1>1 DEF Accounted, Working
<1>3. p \in Nat /\ p <= Len(feed[c]) /\ m \in Nat /\ feed[c] \in Seq(MakeIds) /\ pos[c] \in Nat
  <2>1. pos[c] \in Nat /\ feed[c] \in Seq(MakeIds)
    BY CallTyped
  <2>2. m \in MakeIds
    BY <1>1, <2>1
  <2>3. m \in Nat
    BY <2>2, FeedAssumption
  <2>4. p \in Nat /\ p <= Len(feed[c])
    BY <1>1, CallTyped
  <2> QED
    BY <2>1, <2>3, <2>4
<1>4. pos'[c] = p
  BY DEF FetchSucceeds, FetchGivesUp, Typed, TypeOK
<1>5. \/ /\ fetched'[c] = f \union {m} /\ job'[c] = incrementProcessed(job[c])
      \/ /\ fetched'[c] = f /\ job'[c] = recordFailure(job[c], m)
  BY DEF FetchSucceeds, FetchGivesUp, Typed, TypeOK
<1>6. job'[c] \in Job
  BY <1>1, <1>3, <1>5, JobMethods
<1>7. e \in Seq(Nat)
  BY <1>1 DEF Job
<1>8. \/ /\ fetched'[c] = f \union {m} /\ job'[c].errors = e
         /\ job'[c].processedMakes = job[c].processedMakes + 1
         /\ job'[c].failedMakes = job[c].failedMakes
      \/ /\ fetched'[c] = f /\ job'[c].errors = Append(e, m)
         /\ job'[c].processedMakes = job[c].processedMakes
         /\ job'[c].failedMakes = job[c].failedMakes + 1
  BY <1>1, <1>5 DEF incrementProcessed, recordFailure, Job
<1>9. job'[c].totalMakes = job[c].totalMakes
  BY <1>1, <1>5 DEF incrementProcessed, recordFailure, Job
<1> HIDE DEF p, m, f, e
<1>10. Counts(c)'
  <2>1. Len(Append(e, m)) = Len(e) + 1
    BY <1>3, <1>7
  <2>2. /\ job[c].processedMakes \in Nat /\ job[c].failedMakes \in Nat /\ p = pos[c] + 1
        /\ Len(e) = job[c].failedMakes /\ Len(e) \in Nat /\ e = job[c].errors
        /\ job[c].processedMakes + job[c].failedMakes = pos[c]
        /\ job[c].totalMakes = Len(feed[c])
    BY <1>1, <1>2, <1>7 DEF Counts, Job, p, e
  <2>3. /\ job'[c].processedMakes + job'[c].failedMakes = p
        /\ Len(job'[c].errors) = job'[c].failedMakes
    <3>0. ASSUME NEW x \in Nat, NEW y \in Nat, x + y = pos[c]
          PROVE  (x + 1) + y = p /\ x + (y + 1) = p
      BY <1>3, <2>2, <3>0
    <3>1. CASE /\ job'[c].errors = e
               /\ job'[c].processedMakes = job[c].processedMakes + 1
               /\ job'[c].failedMakes = job[c].failedMakes
      BY <2>2, <3>0, <3>1
    <3>2. CASE /\ job'[c].errors = Append(e, m)
               /\ job'[c].processedMakes = job[c].processedMakes
               /\ job'[c].failedMakes = job[c].failedMakes + 1
      BY <2>1, <2>2, <3>0, <3>2
    <3> QED
      BY <1>8, <3>1, <3>2
  <2>4. job'[c].totalMakes = Len(feed'[c]) /\ pos'[c] <= Len(feed'[c])
    BY <1>1, <1>3, <1>4, <1>9, <2>2
  <2> QED
    BY <1>4, <1>6, <2>3, <2>4 DEF Counts
<1>11. /\ fetched'[c] \union Errors(c)' = (f \union Errors(c)) \union {m}
       /\ \A n \in fetched'[c] \intersect Errors(c)' :
            n \in f \intersect Errors(c) \/ (n = m /\ n \in f \union Errors(c))
  <2>1. Errors(c) = {e[k] : k \in DOMAIN e}
    BY DEF Errors, e
  <2>2. Errors(c)' = {job'[c].errors[k] : k \in DOMAIN job'[c].errors}
    BY DEF Errors
  <2>3. {Append(e, m)[k] : k \in DOMAIN Append(e, m)} = {e[k] : k \in DOMAIN e} \union {m}
    BY <1>3, <1>7, ErrorsGrow
  <2> QED
    BY <1>8, <2>1, <2>2, <2>3
<1>12. /\ feed[c][p] = m /\ 1 .. p = (1 .. pos[c]) \union {p} /\ p \notin 1 .. pos[c]
  BY <1>3 DEF p, m
<1>13. \A n : At(c, n)' = At(c, n) \union {i \in {p} : m = n}
  BY <1>1, <1>4, <1>12 DEF At
<1>14. Knows(c)'
  <2>1. \A i \in 1 .. pos'[c] : feed'[c][i] \in fetched'[c] \union Errors(c)'
    BY <1>1, <1>2, <1>4, <1>11, <1>12 DEF Knows, f
  <2>2. \A n \in fetched'[c] \union Errors(c)' : At(c, n)' # {}
    BY <1>2, <1>11, <1>13 DEF Knows, f
  <2>3. ASSUME NEW n \in fetched'[c] \intersect Errors(c)'
        PROVE  \E i, k \in At(c, n)' : i # k
    <3>1. CASE n \in f \intersect Errors(c)
      BY <1>2, <1>13, <3>1 DEF Knows, f
    <3>2. CASE n = m /\ n \in f \union Errors(c)
      <4>1. PICK i \in At(c, n) : TRUE
        BY <1>2, <3>2 DEF Knows, f
      <4>2. i # p /\ i \in At(c, n)' /\ p \in At(c, n)'
        BY <1>12, <1>13, <3>2, <4>1 DEF At
      <4> QED
        BY <4>2
    <3> QED
      BY <1>11, <3>1, <3>2
  <2> QED
    BY <2>1, <2>2, <2>3 DEF Knows
<1>15. ~Storing(c)' /\ pc'[c] \notin Fresh
  BY <1>1 DEF CallConsistent, Storing, Succeeded, SuccessStatus, Fresh
<1> QED
  BY <1>10, <1>14, <1>15 DEF Accounted, Storing, Finished

\* Nothing is stored yet, and every make that will be is a valid one.
LEMMA TransformAccount ==
  ASSUME Typed, Consistent, NEW c \in Calls, Accounted(c), Transform(c)
  PROVE  Accounted(c)'
<1>1. /\ pc[c] = "fetch" /\ pos[c] = Len(feed[c]) /\ CallConsistent(c)
      /\ UNCHANGED <<job, jobs, feed, fetched, pos>> /\ pc'[c] = "saveMany"
  BY GotoEffect DEF Transform, Consistent
<1>2. Counts(c) /\ Knows(c)
  BY <1>1 DEF Accounted, Working
<1>3. Counts(c)' /\ Knows(c)'
  <2>1. Counts(c)'
    BY <1>1, <1>2 DEF Counts
  <2>2. Errors(c)' = Errors(c) /\ \A m : At(c, m)' = At(c, m)
    BY <1>1 DEF Errors, At
  <2>3. Knows(c)'
    BY <1>1, <1>2, <2>2 DEF Knows
  <2> QED
    BY <2>1, <2>3
<1>4. models'[c] = Valid(c) /\ Valid(c)' = Valid(c)
  BY <1>1 DEF Transform, Valid, Typed, TypeOK, isValidMake
<1>5. Stores(c)'
  BY <1>1, <1>4 DEF Stores, Inserted
<1>6. ~Finished(c)' /\ pc'[c] \notin Fresh
  BY <1>1 DEF CallConsistent, Finished, Succeeded, SuccessStatus, Fresh
<1> QED
  BY <1>3, <1>5, <1>6 DEF Accounted, Finished

LEMMA NewRow ==
  ASSUME NEW c \in Calls, NEW r, NEW m, NEW S, r = [owner |-> c, typed |-> m \in S]
  PROVE  r # NoMake /\ r.owner = c /\ (r.typed <=> m \in S)
<1>1. r \in MakeRow
  BY DEF MakeRow
<1>2. r.owner = c
  OBVIOUS
<1>3. r.typed <=> m \in S
  BY Zenon
<1> QED
  BY <1>1, <1>2, <1>3, NoMakeAssumption

\* A chunk that commits adds its models to what is stored; one that does not
\* ends the ingestion.
LEMMA SaveChunkAccount ==
  ASSUME Typed, Consistent, Kept, NEW c \in Calls, Accounted(c), SaveChunk(c)
  PROVE  Accounted(c)'
<1>1. /\ pc[c] = "saveMany" /\ CallConsistent(c)
      /\ UNCHANGED <<jobs, feed, fetched, pos>>
  BY DEF SaveChunk, Consistent
<1>2. CASE Catch(c)
  BY <1>1, <1>2, CatchAccount
<1>3. ASSUME Insertable(c), InsertChunk(c), UNCHANGED <<pc, job>>,
             models' = [models EXCEPT ![c] = @ \ ChunkOf(c)]
      PROVE  Accounted(c)'
  <2> DEFINE K == ChunkOf(c)
  <2>1. Counts(c) /\ Knows(c) /\ Stores(c)
    BY <1>1 DEF Accounted, Working, Storing
  <2>2. Counts(c)'
    BY <1>1, <1>3, <2>1 DEF Counts
  <2>3. Knows(c)'
    <3>1. Errors(c)' = Errors(c) /\ \A m : At(c, m)' = At(c, m)
      BY <1>1, <1>3 DEF Errors, At
    <3> QED
      BY <1>1, <2>1, <3>1 DEF Knows
  <2>4. K \subseteq models[c] /\ models'[c] = models[c] \ K
    BY <1>3 DEF ChunkOf, Typed, TypeOK
  <2>5. Valid(c)' = Valid(c) /\ models[c] \subseteq Valid(c)
    BY <1>1, <2>1 DEF Valid, isValidMake, Stores
  <2>6. Inserted(c)' = Inserted(c) \union K
    BY <2>4, <2>5 DEF Inserted
  <2>7. \A i \in Valid(c) : feed[c][i] \in MakeIds
    BY CallTyped DEF Valid
  <2>8. ASSUME NEW i \in K
        PROVE  /\ makes[feed[c][i]] = NoMake
               /\ \A k \in K : feed[c][k] = feed[c][i] => k = i
               /\ makes'[feed[c][i]] # NoMake /\ makes'[feed[c][i]].owner = c
               /\ makes'[feed[c][i]].typed <=> feed[c][i] \in fetched[c]
    <3>1. feed[c][i] \in MakeIds
      BY <2>4, <2>5, <2>7
    <3>2. makes'[feed[c][i]] = [owner |-> c, typed |-> feed[c][i] \in fetched[c]]
      BY <1>3, <3>1 DEF InsertChunk
    <3>3. /\ makes[feed[c][i]] = NoMake
          /\ \A k \in K : feed[c][k] = feed[c][i] => k = i
      BY <1>3 DEF Insertable
    <3> QED
      BY <3>2, <3>3, NewRow
  <2>9. ASSUME NEW i \in Inserted(c)
        PROVE  /\ makes[feed[c][i]] # NoMake
               /\ makes'[feed[c][i]] = makes[feed[c][i]]
               /\ makes[feed[c][i]].owner = c
               /\ makes[feed[c][i]].typed <=> feed[c][i] \in fetched[c]
    <3>1. feed[c][i] \in MakeIds
      BY <2>7 DEF Inserted
    <3> QED
      BY <2>1, <3>1 DEF Stores, Kept
  <2> HIDE DEF K
  <2>10. \A i \in Inserted(c)' :
           /\ makes'[feed[c][i]] # NoMake /\ makes'[feed[c][i]].owner = c
           /\ makes'[feed[c][i]].typed <=> feed[c][i] \in fetched[c]
    <3> SUFFICES ASSUME NEW i \in Inserted(c) \union K
                 PROVE  /\ makes'[feed[c][i]] # NoMake /\ makes'[feed[c][i]].owner = c
                        /\ makes'[feed[c][i]].typed <=> feed[c][i] \in fetched[c]
      BY <2>6
    <3>1. CASE i \in K
      BY <2>8, <3>1
    <3>2. CASE i \in Inserted(c)
      BY <2>9, <3>2
    <3> QED
      BY <3>1, <3>2
  <2>11. \A i, k \in Inserted(c)' : feed[c][i] = feed[c][k] => i = k
    <3> SUFFICES ASSUME NEW i \in Inserted(c) \union K, NEW k \in Inserted(c) \union K,
                        feed[c][i] = feed[c][k]
                 PROVE  i = k
      BY <2>6
    <3>1. CASE i \in Inserted(c) /\ k \in Inserted(c)
      BY <2>1, <3>1 DEF Stores
    <3>2. CASE i \in K /\ k \in K
      BY <2>8, <3>2
    <3>3. CASE (i \in K /\ k \in Inserted(c)) \/ (i \in Inserted(c) /\ k \in K)
      BY <2>8, <2>9, <3>3
    <3> QED
      BY <3>1, <3>2, <3>3
  <2>12. Stores(c)'
    <3>1. pos[c] = Len(feed[c])
      BY <2>1 DEF Stores
    <3> QED
      BY <1>1, <2>4, <2>5, <2>10, <2>11, <3>1 DEF Stores
  <2>13. ~Finished(c)' /\ pc'[c] \notin Fresh
    BY <1>1, <1>3 DEF CallConsistent, Finished, Succeeded, SuccessStatus, Fresh
  <2> QED
    BY <2>2, <2>3, <2>12, <2>13 DEF Accounted, Finished
<1> QED
  BY <1>2, <1>3 DEF SaveChunk

\* The job is complete when no model is left; its counters decide how.
LEMMA CompleteAccount ==
  ASSUME Typed, Consistent, NEW c \in Calls, Accounted(c), Complete(c)
  PROVE  Accounted(c)'
<1>1. /\ pc[c] = "saveMany" /\ models[c] = {} /\ CallConsistent(c)
      /\ UNCHANGED <<jobs, feed, fetched, pos, models, makes>>
  BY DEF Complete, Consistent, local
<1>2. pc'[c] = "saveCompleted" /\ job'[c] = complete(job[c])
  BY GotoEffect DEF Complete, Typed, TypeOK
<1>3. Counts(c) /\ Knows(c) /\ Stores(c)
  BY <1>1 DEF Accounted, Working, Storing
<1>4. job[c] \in Job /\ job'[c] \in Job
  BY <1>2, <1>3, JobMethods DEF Counts
<1>5. /\ job'[c].totalMakes = job[c].totalMakes
      /\ job'[c].processedMakes = job[c].processedMakes
      /\ job'[c].failedMakes = job[c].failedMakes /\ job'[c].errors = job[c].errors
      /\ job'[c].status = IF job[c].failedMakes > 0 THEN "PARTIALLY_COMPLETED"
                                                     ELSE "COMPLETED"
  BY <1>2, <1>4 DEF complete, Job
<1>6. Counts(c)'
  BY <1>1, <1>3, <1>4, <1>5 DEF Counts
<1>7. Knows(c)'
  <2>1. Errors(c)' = Errors(c) /\ \A m : At(c, m)' = At(c, m)
    BY <1>1, <1>5 DEF Errors, At
  <2> QED
    BY <1>1, <1>3, <2>1 DEF Knows
<1>8. Stores(c)'
  <2>1. Inserted(c)' = Inserted(c) /\ Valid(c)' = Valid(c)
    BY <1>1 DEF Inserted, Valid, isValidMake
  <2> QED
    BY <1>1, <1>3, <2>1 DEF Stores
<1>9. job'[c].status = "COMPLETED" <=> job'[c].failedMakes = 0
  <2>1. job[c].failedMakes \in Nat
    BY <1>4 DEF Job
  <2>2. job[c].failedMakes > 0 <=> job[c].failedMakes # 0
    BY <2>1
  <2> QED
    BY <1>5, <2>2
<1>10. ~Succeeded(c)' /\ pc'[c] \notin Fresh
  BY <1>1, <1>2 DEF CallConsistent, Succeeded, SuccessStatus, Fresh
<1> QED
  BY <1>1, <1>6, <1>7, <1>8, <1>9, <1>10 DEF Accounted

\* The row of a success is the job in memory, however its save was answered.
LEMMA EndStepsAccount ==
  ASSUME Typed, Consistent, Kept, NEW c \in Calls, Accounted(c),
         SaveCompleted(c) \/ PublishCompleted(c)
  PROVE  Accounted(c)'
<1>1. pc[c] \in {"saveCompleted", "publishCompleted"} /\ CallConsistent(c)
  BY DEF SaveCompleted, PublishCompleted, Consistent
<1>2. /\ job[c].status \in SuccessStatus /\ pc[c] \in Running
      /\ jobs[c].status = "IN_PROGRESS" \/ jobs[c] = job[c]
  BY <1>1 DEF CallConsistent, Running, Control, Settled
<1>3. isTerminalState(job[c])
  BY <1>2 DEF isTerminalState, TerminalStatus
<1>4. jobs'[c] \in {job[c], jobs[c]}
  BY SaveEffect DEF SaveCompleted, MaybeSaveJob, PublishCompleted
<1>5. pc'[c] \in {"publishCompleted", "resolved", "rejected"} /\ job'[c] = job[c]
  BY <1>2, <1>3, GotoEffect, CatchEffect DEF SaveCompleted, PublishCompleted
<1>6. SameLocal(c)
  BY <1>5 DEF SaveCompleted, PublishCompleted, local, SameLocal
<1>7. Working(c) /\ Storing(c) /\ Finished(c)
  BY <1>1 DEF Working, Storing, Finished
<1>8. Succeeded(c)' => jobs'[c] = job[c]
  BY <1>2, <1>4 DEF Succeeded, SuccessStatus
<1>9. pc'[c] \notin Fresh
  BY <1>5 DEF Fresh
<1> QED
  BY <1>6, <1>7, <1>8, <1>9, SameAccount

LEMMA FailStepsAccount ==
  ASSUME Typed, Consistent, NEW c \in Calls, Accounted(c),
         SaveFailed(c) \/ PublishFailed(c)
  PROVE  Accounted(c)'
<1>1. pc[c] \in {"saveFailed", "publishFailed"} /\ CallConsistent(c)
  BY DEF SaveFailed, PublishFailed, Consistent
<1>2. /\ job[c].status = "FAILED"
      /\ jobs[c].status \in {"PENDING", "IN_PROGRESS", "FAILED"}
  BY <1>1 DEF CallConsistent
<1>3. jobs'[c] \in {job[c], jobs[c]}
  BY SaveEffect DEF SaveFailed, MaybeSaveJob, PublishFailed
<1>4. pc'[c] \in {"publishFailed", "resolved", "rejected"}
  BY GotoEffect DEF SaveFailed, PublishFailed, Reject
<1>5. ~Working(c)' /\ pc'[c] \notin Fresh
  BY <1>2, <1>3, <1>4 DEF Working, Succeeded, SuccessStatus, Fresh
<1> QED
  BY <1>5, NoAccount

LEMMA CrashAccount ==
  ASSUME Typed, Consistent, Kept, NEW c \in Calls, Accounted(c), Crash
  PROVE  Accounted(c)'
<1>1. UNCHANGED <<job, local, jobs>> /\ pc'[c] \in {pc[c], "crashed"}
  BY DEF Crash
<1>2. SameLocal(c)
  BY <1>1 DEF SameLocal, local
<1>3. Succeeded(c)' => jobs'[c] = job[c]
  BY <1>1 DEF Accounted, Succeeded
<1> QED
  BY <1>1, <1>2, <1>3, SameAccount DEF Working, Storing, Finished, Succeeded, Fresh

-----------------------------------------------------------------------------
(***************************************************************************)
(* The invariant and the theorems.                                         *)
(***************************************************************************)
LEMMA InitOutcome == Init => OInv
<1> SUFFICES ASSUME Init, NEW c \in Calls PROVE Accounted(c)
  BY DEF OInv
<1>1. pc[c] = "idle" /\ jobs[c] = NoRow /\ pos[c] = 0 /\ fetched[c] = {}
  BY DEF Init
<1>2. ~Working(c)
  BY <1>1 DEF Working, Succeeded, SuccessStatus, NoRow
<1> QED
  BY <1>1, <1>2 DEF Accounted, Working, Storing, Finished

\* A step of one call changes neither the memory nor the row of another.
LEMMA StepIsLocal ==
  ASSUME Typed, NEW c \in Calls, Check(c) \/ Proceed(c), NEW d \in Calls \ {c}
  PROVE  SameLocal(d) /\ pc'[d] = pc[d] /\ jobs'[d] = jobs[d]
<1>1. CASE Check(c)
  BY <1>1 DEF Check, Goto, Reject, local, SameLocal, Typed, TypeOK
<1>2. CASE \/ CreateJob(c) \/ SaveStarted(c) \/ SaveCompleted(c) \/ SaveFailed(c)
  <2>1. pc[c] \in Running
    BY <1>2 DEF CreateJob, SaveStarted, SaveCompleted, SaveFailed, Running, Control, Settled
  <2>2. jobs'[d] = jobs[d] /\ UNCHANGED local
    BY <1>2, SaveEffect DEF CreateJob, SaveStarted, SaveCompleted, SaveFailed, MaybeSaveJob
  <2>3. pc'[d] = pc[d] /\ job'[d] = job[d]
    BY <1>2, <2>1, CatchEffect, GotoEffect
       DEF CreateJob, SaveStarted, SaveCompleted, SaveFailed, Reject
  <2> QED
    BY <2>2, <2>3 DEF SameLocal, local
<1>3. CASE PublishStarted(c) \/ PublishCompleted(c) \/ PublishFailed(c)
  <2>1. pc[c] \in Running
    BY <1>3 DEF PublishStarted, PublishCompleted, PublishFailed, Running, Control, Settled
  <2>2. pc'[d] = pc[d] /\ job'[d] = job[d] /\ UNCHANGED <<local, jobs>>
    BY <1>3, <2>1, CatchEffect, GotoEffect
       DEF PublishStarted, PublishCompleted, PublishFailed, Reject
  <2> QED
    BY <2>2 DEF SameLocal, local
<1>4. CASE GetAllMakes(c) \/ SaveChunk(c)
  <2>1. pc[c] \in Running
    BY <1>4 DEF GetAllMakes, SaveChunk, Running, Control, Settled
  <2>2. CASE Catch(c)
    BY <1>4, <2>1, <2>2, CatchEffect DEF GetAllMakes, SaveChunk, SameLocal, Typed, TypeOK
  <2>3. CASE ~Catch(c)
    BY <1>4, <2>3, GotoEffect DEF GetAllMakes, SaveChunk, SameLocal, Typed, TypeOK
  <2> QED
    BY <2>2, <2>3
<1>5. CASE \/ FetchSucceeds(c) \/ FetchRetries(c) \/ FetchGivesUp(c)
           \/ Transform(c) \/ Complete(c)
  BY <1>5, GotoEffect DEF FetchSucceeds, FetchRetries, FetchGivesUp, Transform, Complete,
     local, SameLocal, Typed, TypeOK
<1> QED
  BY <1>1, <1>2, <1>3, <1>4, <1>5 DEF Proceed

LEMMA StepOutcome == IInv /\ OInv /\ [Next]_vars => OInv'
<1> SUFFICES ASSUME IInv, OInv, [Next]_vars, NEW d \in Calls
             PROVE  Accounted(d)'
  BY DEF OInv
<1>1. Typed /\ Consistent /\ Accounted(d) /\ Kept
  BY StepKeeps DEF IInv, OInv
<1>2. CASE Crash
  BY <1>1, <1>2, CrashAccount
<1>3. ASSUME NEW c \in Calls, Check(c) \/ Proceed(c)
      PROVE  Accounted(d)'
  <2>1. CASE d # c
    BY <1>1, <1>3, <2>1, StepIsLocal, OtherAccount
  <2>2. CASE d = c
    BY <1>1, <1>3, <2>2, CheckAccount, CreateJobAccount, GetAllMakesAccount,
       StartStepsAccount, FetchAccount, TransformAccount, SaveChunkAccount,
       CompleteAccount, EndStepsAccount, FailStepsAccount DEF Proceed
  <2> QED
    BY <2>1, <2>2
<1>4. CASE UNCHANGED vars
  BY <1>1, <1>4, OtherAccount DEF vars, local, SameLocal
<1> QED
  BY <1>2, <1>3, <1>4 DEF Next

\* The row of a finished job has counted every make of its feed once, with an
\* error for each that failed, for feeds of any length and any combination of
\* retries, refusals and crashes.
THEOREM OutcomesAccount == Spec => []OutcomeAccountsForEveryMake
<1>1. OInv => OutcomeAccountsForEveryMake
  <2> SUFFICES ASSUME OInv, NEW c \in Calls, jobs[c].status \in SuccessStatus
               PROVE  /\ jobs[c].totalMakes = Len(feed[c])
                      /\ jobs[c].processedMakes + jobs[c].failedMakes = jobs[c].totalMakes
                      /\ Len(jobs[c].errors) = jobs[c].failedMakes
                      /\ (jobs[c].status = "COMPLETED") <=> (jobs[c].failedMakes = 0)
    BY DEF OutcomeAccountsForEveryMake
  <2>1. Accounted(c) /\ Succeeded(c)
    BY DEF OInv, Succeeded
  <2>2. Counts(c) /\ Stores(c) /\ jobs[c] = job[c]
    BY <2>1 DEF Accounted, Working, Storing
  <2>3. job[c].status = "COMPLETED" <=> job[c].failedMakes = 0
    BY <2>1 DEF Accounted, Finished
  <2> QED
    BY <2>2, <2>3 DEF Counts, Stores
<1> QED
  BY <1>1, InitInv, StepInv, InitOutcome, StepOutcome, PTL DEF Spec

\* A finished job has itself stored every valid make of its feed, with its
\* vehicle types unless it recorded an error for it, whatever the chunks and
\* however many ingestions insert into the same table.
THEOREM CompletedIsStored == Spec => []CompletedIngestionIsStored
<1>1. OInv => CompletedIngestionIsStored
  <2> SUFFICES ASSUME OInv, NEW c \in Calls, jobs[c].status \in SuccessStatus,
                      NEW i \in DOMAIN feed[c], isValidMake(feed[c][i])
               PROVE  /\ makes[feed[c][i]] # NoMake
                      /\ makes[feed[c][i]].owner = c
                      /\ makes[feed[c][i]].typed <=>
                           \A k \in DOMAIN jobs[c].errors : jobs[c].errors[k] # feed[c][i]
    BY DEF CompletedIngestionIsStored
  <2>1. Accounted(c) /\ Succeeded(c)
    BY DEF OInv, Succeeded
  <2>2. Knows(c) /\ Stores(c) /\ jobs[c] = job[c] /\ models[c] = {}
    BY <2>1 DEF Accounted, Working, Storing, Finished
  <2>3. Inserted(c) = Valid(c) /\ i \in Inserted(c)
    BY <2>2 DEF Inserted, Valid
  <2>4. feed[c][i] \in Errors(c) <=>
          ~ \A k \in DOMAIN jobs[c].errors : jobs[c].errors[k] # feed[c][i]
    BY <2>2 DEF Errors
  <2>5. feed[c][i] \in fetched[c] <=> feed[c][i] \notin Errors(c)
    <3>1. feed[c][i] \in fetched[c] \union Errors(c)
      BY <2>2 DEF Knows, Stores
    <3>2. ASSUME feed[c][i] \in fetched[c] \intersect Errors(c)
          PROVE  FALSE
      <4>1. PICK k, l \in At(c, feed[c][i]) : k # l
        BY <2>2, <3>2 DEF Knows
      <4>2. k \in Valid(c) /\ l \in Valid(c) /\ feed[c][k] = feed[c][l]
        BY <2>2, <4>1 DEF At, Valid, Stores
      <4> QED
        BY <2>2, <2>3, <4>1, <4>2 DEF Stores
    <3> QED
      BY <3>1, <3>2
  <2> QED
    BY <2>2, <2>3, <2>4, <2>5 DEF Stores
<1> QED
  BY <1>1, InitInv, StepInv, InitOutcome, StepOutcome, PTL DEF Spec

\* A row that its call left IN_PROGRESS stays so, and no call made from then
\* on gets further than its check, for any number of calls and crashes.
THEOREM OrphansBlock == Spec => OrphanBlocksForever
<1> DEFINE Blocks == \A c \in Calls : Orphaned(c) =>
                       /\ Orphaned(c)'
                       /\ \A d \in Calls : pc[d] = "idle" =>
                            pc'[d] \in {"idle", "conflict", "rejected"}
<1>1. IInv /\ [Next]_vars => [Blocks]_vars
  <2> SUFFICES ASSUME IInv, Next, NEW c \in Calls, Orphaned(c)
               PROVE  /\ Orphaned(c)'
                      /\ \A d \in Calls : pc[d] = "idle" =>
                           pc'[d] \in {"idle", "conflict", "rejected"}
    OBVIOUS
  <2>1. Typed /\ pc[c] \in Settled /\ hasRunningJob
    BY DEF IInv, Orphaned, hasRunningJob
  <2>2. CASE Crash
    BY <2>1, <2>2 DEF Crash, Orphaned, Running, Control, Settled
  <2>3. ASSUME NEW a \in Calls, Check(a) \/ Proceed(a)
        PROVE  /\ Orphaned(c)'
               /\ \A d \in Calls : pc[d] = "idle" =>
                    pc'[d] \in {"idle", "conflict", "rejected"}
    <3>1. pc[a] \notin Settled
      BY <2>3 DEF Settled, Check, Proceed, CreateJob, GetAllMakes, SaveStarted,
         PublishStarted, FetchSucceeds, FetchRetries, FetchGivesUp, Transform,
         SaveChunk, Complete, SaveCompleted, PublishCompleted, SaveFailed, PublishFailed
    <3>2. Orphaned(c)'
      BY <2>1, <2>3, <3>1, StepIsLocal DEF Orphaned
    <3>3. ASSUME NEW d \in Calls, pc[d] = "idle"
          PROVE  pc'[d] \in {"idle", "conflict", "rejected"}
      <4>1. CASE d # a
        BY <2>1, <2>3, <3>3, <4>1, StepIsLocal
      <4>2. CASE d = a
        <5>1. Check(a)
          BY <2>3, <3>3, <4>2 DEF Proceed, CreateJob, GetAllMakes, SaveStarted,
             PublishStarted, FetchSucceeds, FetchRetries, FetchGivesUp, Transform,
             SaveChunk, Complete, SaveCompleted, PublishCompleted, SaveFailed, PublishFailed
        <5> QED
          BY <2>1, <4>2, <5>1, GotoEffect DEF Check, Reject
      <4> QED
        BY <4>1, <4>2
    <3> QED
      BY <3>2, <3>3
  <2> QED
    BY <2>2, <2>3 DEF Next
<1>2. []IInv /\ [][Next]_vars => [][Blocks]_vars
  BY <1>1, PTL
<1> QED
  BY <1>2, InitInv, StepInv, PTL DEF Spec, OrphanBlocksForever

-----------------------------------------------------------------------------
(***************************************************************************)
(* How calls end: what the liveness properties need besides fairness.      *)
(***************************************************************************)

\* A call ends with its process only in a crash, resolves with the publish of
\* an outcome, and never rejects for what the API answers or does not answer,
\* nor for a chunk that collides.
LEMMA StepEnds ==
  ASSUME Typed, Consistent, NEW c \in Calls, Check(c) \/ Proceed(c)
  PROVE  /\ pc'[c] # "crashed"
         /\ pc'[c] = "resolved" => Announced(c)' \intersect {"Completed", "Failed"} # {}
         /\ pc'[c] = "rejected" => pc[c] \notin {"getAllMakes", "fetch", "saveMany"}
<1>1. CallConsistent(c)
  BY DEF Consistent
<1>2. CASE Check(c)
  BY <1>2, GotoEffect DEF Check, Reject
<1>3. CASE CreateJob(c)
  BY <1>3, GotoEffect DEF CreateJob, Reject
<1>4. CASE SaveStarted(c) \/ SaveCompleted(c)
  <2>1. pc[c] \in Running /\ pc[c] \notin {"getAllMakes", "fetch", "saveMany"}
    BY <1>4 DEF SaveStarted, SaveCompleted, Running, Control, Settled
  <2>2. pc'[c] \notin {"crashed", "resolved"}
    BY <1>4, <2>1, GotoEffect, CatchEffect DEF SaveStarted, SaveCompleted
  <2> QED
    BY <2>1, <2>2
<1>5. CASE SaveFailed(c)
  BY <1>5, GotoEffect DEF SaveFailed, Reject
<1>6. CASE PublishStarted(c)
  <2>1. pc[c] \in Running /\ pc[c] = "publishStarted"
    BY <1>6 DEF PublishStarted, Running, Control, Settled
  <2> QED
    BY <1>6, <2>1, GotoEffect, CatchEffect DEF PublishStarted
<1>7. CASE PublishCompleted(c)
  <2>1. pc[c] \in Running /\ pc[c] = "publishCompleted"
    BY <1>7 DEF PublishCompleted, Running, Control, Settled
  <2>2. \/ Publish(c, "Completed") /\ Goto(c, "resolved")
        \/ Catch(c)
    BY <1>7 DEF PublishCompleted
  <2> QED
    BY <2>1, <2>2, GotoEffect, CatchEffect, PublishAnnounces
<1>8. CASE PublishFailed(c)
  <2>1. pc[c] = "publishFailed"
    BY <1>8 DEF PublishFailed
  <2>2. \/ Publish(c, "Failed") /\ Goto(c, "resolved")
        \/ Goto(c, "rejected")
    BY <1>8 DEF PublishFailed, Reject
  <2> QED
    BY <2>1, <2>2, GotoEffect, PublishAnnounces
<1>9. CASE GetAllMakes(c) \/ SaveChunk(c)
  <2>1. pc[c] \in Running /\ ~isTerminalState(job[c])
    BY <1>1, <1>9 DEF GetAllMakes, SaveChunk, CallConsistent, create, assertInProgress,
       isTerminalState, TerminalStatus, SuccessStatus, Running, Control, Settled
  <2>2. CASE Catch(c)
    BY <2>1, <2>2, CatchEffect
  <2>3. CASE ~Catch(c)
    <3>1. pc'[c] \in {"saveStarted", "saveMany"}
      BY <1>9, <2>3, GotoEffect DEF GetAllMakes, SaveChunk
    <3> QED
      BY <3>1
  <2> QED
    BY <2>2, <2>3
<1>10. CASE \/ FetchSucceeds(c) \/ FetchRetries(c) \/ FetchGivesUp(c)
            \/ Transform(c) \/ Complete(c)
  <2>1. pc'[c] \in {"fetch", "saveMany", "saveCompleted"}
    BY <1>10, GotoEffect DEF FetchSucceeds, FetchRetries, FetchGivesUp, Transform, Complete
  <2> QED
    BY <2>1
<1> QED
  BY <1>2, <1>3, <1>4, <1>5, <1>6, <1>7, <1>8, <1>9, <1>10 DEF Proceed

\* No event is ever taken back.
LEMMA EventsStay == [Next]_vars => \A d \in Calls : Announced(d) \subseteq Announced(d)'
<1>1. [Next]_vars => events \subseteq events'
  BY DEF Next, Check, Proceed, CreateJob, GetAllMakes, SaveStarted, PublishStarted,
     FetchSucceeds, FetchRetries, FetchGivesUp, Transform, SaveChunk, Complete,
     SaveCompleted, PublishCompleted, SaveFailed, PublishFailed, Crash, Publish,
     MaybePublish, vars
<1> QED
  BY <1>1 DEF Announced

Outcomes == {"Completed", "Failed"}
ResolvedIsAnnounced ==
  \A c \in Calls : pc[c] = "resolved" => Announced(c) \intersect Outcomes # {}

LEMMA StepAnnounced == IInv /\ ResolvedIsAnnounced /\ [Next]_vars => ResolvedIsAnnounced'
<1> SUFFICES ASSUME IInv, ResolvedIsAnnounced, [Next]_vars, NEW d \in Calls,
                    pc'[d] = "resolved"
             PROVE  Announced(d)' \intersect Outcomes # {}
  BY DEF ResolvedIsAnnounced
<1>1. CASE pc[d] = "resolved"
  BY <1>1, EventsStay DEF ResolvedIsAnnounced
<1>2. CASE pc[d] # "resolved"
  <2>1. Typed /\ Consistent
    BY DEF IInv
  <2>2. ~Crash /\ ~UNCHANGED vars
    BY <1>2 DEF Crash, vars
  <2>3. PICK c \in Calls : Check(c) \/ Proceed(c)
    BY <2>2 DEF Next
  <2>4. c = d
    BY <1>2, <2>1, <2>3, StepIsLocal
  <2> QED
    BY <2>1, <2>3, <2>4, StepEnds DEF Outcomes
<1> QED
  BY <1>1, <1>2

\* A call that resolved, be it its job completed or failed, left a final row
\* and announced exactly the outcome that the row tells, however its saves and
\* publishes failed on the way.
ResolvedHasOutcome ==
  \A c \in Calls : pc[c] = "resolved" =>
    /\ isTerminalState(jobs[c])
    /\ Announced(c) \intersect Outcomes =
         {IF jobs[c].status = "FAILED" THEN "Failed" ELSE "Completed"}

LEMMA OutcomeFrom == IInv /\ ResolvedIsAnnounced => ResolvedHasOutcome
<1> SUFFICES ASSUME IInv, ResolvedIsAnnounced, NEW c \in Calls, pc[c] = "resolved"
             PROVE  /\ isTerminalState(jobs[c])
                    /\ Announced(c) \intersect Outcomes =
                         {IF jobs[c].status = "FAILED" THEN "Failed" ELSE "Completed"}
  BY DEF ResolvedHasOutcome
<1>1. isTerminalState(jobs[c])
  BY DEF IInv, Consistent, CallConsistent
<1>2. /\ "Completed" \in Announced(c) => jobs[c].status \in SuccessStatus
      /\ "Failed" \in Announced(c) => jobs[c].status = "FAILED"
  BY DEF IInv, AnnouncedOutcomeIsDurable, Announced
<1>3. Announced(c) \intersect Outcomes # {}
  BY DEF ResolvedIsAnnounced
<1> QED
  BY <1>1, <1>2, <1>3 DEF Outcomes, SuccessStatus

\* For every set of calls, feeds, failing dependencies and any number of
\* crashes.
THEOREM ResolvedOutcome == Spec => []ResolvedHasOutcome
<1>1. Init => ResolvedIsAnnounced
  BY DEF Init, ResolvedIsAnnounced
<1> QED
  BY <1>1, InitInv, StepInv, StepAnnounced, OutcomeFrom, PTL DEF Spec
=============================================================================
