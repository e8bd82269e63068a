------------------------- MODULE StatusReaderProofs -------------------------
(***************************************************************************)
(* Theorems about StatusReader: what any number of clients is told, next   *)
(* to any number of ingestions that fail and die as they like.             *)
(***************************************************************************)
EXTENDS StatusReader, IngestVehicleDataProofs, FiniteSetTheorems, WellFoundedInduction

Open == {"PENDING", "IN_PROGRESS"}

Zero(j) == j.processedMakes = 0 /\ j.failedMakes = 0
All(j) == j.processedMakes + j.failedMakes = j.totalMakes

\* The phases in which nothing was counted yet, and those in which the job in
\* memory can be saved: the counters of such a job are 0 or complete.
Early == {"create", "getAllMakes", "saveStarted", "publishStarted"}
Savable == Running \ {"fetch"}

\* The row of a job that is open has counted nothing, that of a job that is
\* over nothing or everything; the feed of an open row is that of its call.
RowIsWhole(c) ==
  /\ pc[c] \in Early => Zero(job[c])
  /\ pc[c] \in Savable => Zero(job[c]) \/ All(job[c])
  /\ jobs[c] # NoRow => Zero(jobs[c]) \/ All(jobs[c])
  /\ jobs[c].status \in Open => Zero(jobs[c])
  /\ jobs[c].status = "PENDING" => jobs[c].totalMakes = 0
  /\ jobs[c].status = "IN_PROGRESS" /\ pc[c] \in Running =>
       jobs[c].totalMakes = job[c].totalMakes
WInv == \A c \in Calls : RowIsWhole(c)

BaseInv == IInv /\ OInv /\ WInv

-----------------------------------------------------------------------------
(***************************************************************************)
(* Numbers.                                                                *)
(***************************************************************************)
LEMMA Quotient ==
  ASSUME NEW a \in Nat, NEW b \in Nat \ {0}, NEW q \in Nat, b * q <= a, a < b * q + b
  PROVE  a \div b = q
OBVIOUS

LEMMA ProgressOf ==
  ASSUME NEW j \in Job
  PROVE  /\ progress(j) \in Nat
         /\ Zero(j) => progress(j) = 0
<1> DEFINE t == j.totalMakes
           s == j.processedMakes + j.failedMakes
<1>1. t \in Nat /\ s \in Nat
  BY DEF Job
<1>2. progress(j) = IF t > 0 THEN (200 * s + t) \div (2 * t) ELSE 0
  BY DEF progress
<1>3. Zero(j) => s = 0
  BY DEF Zero
<1> HIDE DEF t, s
<1>4. CASE t = 0
  BY <1>2, <1>4 DEF t
<1>5. CASE t # 0
  <2>1. t > 0 /\ 2 * t \in Nat \ {0} /\ 200 * s + t \in Nat
    BY <1>1, <1>5
  <2>2. (200 * s + t) \div (2 * t) \in Nat
    BY <2>1
  <2>3. ASSUME s = 0 PROVE (200 * s + t) \div (2 * t) = 0
    BY <1>1, <2>1, <2>3, Quotient
  <2> QED
    BY <1>2, <1>3, <1>5, <2>1, <2>2, <2>3 DEF t
<1> QED
  BY <1>4, <1>5

LEMMA RankOf ==
  /\ Rank("PENDING") = 0 /\ Rank("IN_PROGRESS") = 1
  /\ \A s : Rank(s) \in {0, 1, 2} /\ (s \notin Open => Rank(s) = 2)
BY DEF Rank, Open

\* A bounded set of numbers has a largest element: the set of larger members
\* of one element is smaller than all others, and strict inclusion of finite
\* sets is well-founded.
LEMMA Greatest ==
  ASSUME NEW S \in SUBSET Nat, S # {}, NEW m \in Nat, \A x \in S : x <= m
  PROVE  Max(S) \in S /\ \A y \in S : y <= Max(S)
<1> DEFINE Above(x) == {y \in S : y > x}
           T == {Above(x) : x \in S}
<1>1. IsWellFoundedOn(StrictSubsetOrdering(S), SUBSET S)
  BY FS_BoundedSetOfNaturals, FS_FiniteSubsetsOfFinite, FS_StrictSubsetOrderingWellFounded
<1>2. PICK A \in T : \A B \in T : <<B, A>> \notin StrictSubsetOrdering(S)
  <2>1. T # {} /\ T \subseteq SUBSET S
    OBVIOUS
  <2> HIDE DEF T
  <2> QED
    BY <1>1, <2>1, WFMin
<1>3. PICK x \in S : A = Above(x)
  OBVIOUS
<1>4. ASSUME NEW y \in S, y > x
      PROVE  FALSE
  <2>1. Above(y) \subseteq Above(x) /\ y \in Above(x) /\ y \notin Above(y)
    <3>1. x \in Nat /\ y \in Nat /\ \A z \in S : z \in Nat
      OBVIOUS
    <3>2. \A z \in S : z > y => z > x
      BY <1>4, <3>1
    <3>3. ~ (y > y)
      BY <3>1
    <3> QED
      BY <1>4, <3>2, <3>3
  <2>2. Above(y) \in T /\ Above(x) \in T /\ T \subseteq SUBSET S
    OBVIOUS
  <2> HIDE DEF Above, T
  <2>3. <<Above(y), Above(x)>> \in StrictSubsetOrdering(S)
    BY <2>1, <2>2 DEF StrictSubsetOrdering
  <2> QED
    BY <1>2, <1>3, <2>2, <2>3
<1>5. \A y \in S : x >= y
  BY <1>4
<1> QED
  BY <1>5 DEF Max

-----------------------------------------------------------------------------
(***************************************************************************)
(* Rows are whole.                                                         *)
(***************************************************************************)
SameCounts(j, k) ==
  /\ j.totalMakes = k.totalMakes /\ j.processedMakes = k.processedMakes
  /\ j.failedMakes = k.failedMakes

LEMMA MethodsCount ==
  ASSUME NEW j \in Job, NEW n \in Nat
  PROVE  /\ SameCounts(complete(j), j) /\ SameCounts(fail(j), j)
         /\ start(j, n).totalMakes = n
         /\ start(j, n).processedMakes = j.processedMakes
         /\ start(j, n).failedMakes = j.failedMakes
         /\ incrementProcessed(j).totalMakes = j.totalMakes
         /\ recordFailure(j, n).totalMakes = j.totalMakes
BY DEF Job, SameCounts, complete, fail, start, incrementProcessed, recordFailure

LEMMA CatchCounts ==
  ASSUME Typed, NEW c \in Calls, pc[c] \in Running, Catch(c)
  PROVE  SameCounts(job'[c], job[c]) /\ pc'[c] \in {"saveFailed", "rejected"}
<1>1. job[c] \in Job /\ job \in [Calls -> Job \union {NoRow}]
  BY DEF Typed, TypeOK, HasJob
<1>2. job'[c] = job[c] \/ job'[c] = fail(job[c])
  BY <1>1 DEF Catch
<1>3. SameCounts(job'[c], job[c])
  BY <1>1, <1>2, MethodsCount DEF SameCounts
<1> QED
  BY <1>3, CatchEffect

SavesAt == {"create", "saveStarted", "saveCompleted", "saveFailed"}

\* A step that leaves the counters of the job in memory alone, and saves it
\* or not.
LEMMA KeepsWhole ==
  ASSUME NEW c \in Calls, RowIsWhole(c), CallConsistent(c), NoRow \notin Job,
         pc[c] \in Running \ {"fetch"}, SameCounts(job'[c], job[c]),
         jobs'[c] = jobs[c] \/ (jobs'[c] = job[c] /\ pc[c] \in SavesAt),
         pc'[c] \in Early => pc[c] \in Early
  PROVE  RowIsWhole(c)'
<1>1. pc[c] \in Savable /\ (Zero(job[c]) \/ All(job[c]))
  BY DEF RowIsWhole, Savable
<1>2. (Zero(job[c])' <=> Zero(job[c])) /\ (All(job[c])' <=> All(job[c]))
  BY DEF SameCounts, Zero, All
<1>3. CASE jobs'[c] = jobs[c]
  BY <1>1, <1>2, <1>3 DEF RowIsWhole, Zero, All, SameCounts, Savable
<1>4. CASE jobs'[c] = job[c] /\ pc[c] \in SavesAt
  <2>1. (Zero(jobs[c])' <=> Zero(job[c])) /\ (All(jobs[c])' <=> All(job[c]))
    BY <1>4 DEF Zero, All
  <2>2. job[c].status \in Open => pc[c] \in Early
    BY <1>4 DEF CallConsistent, Open, Early, SavesAt, SuccessStatus
  <2>3. job[c].status = "PENDING" => job[c].totalMakes = 0
    BY <2>2 DEF CallConsistent, Open, Early, create, assertInProgress
  <2>4. jobs'[c].totalMakes = job'[c].totalMakes
    BY <1>4 DEF SameCounts
  <2> QED
    BY <1>1, <1>2, <1>4, <2>1, <2>2, <2>3, <2>4 DEF RowIsWhole
<1> QED
  BY <1>3, <1>4

LEMMA SaveStepsWhole ==
  ASSUME Typed, NEW c \in Calls, RowIsWhole(c), CallConsistent(c),
         \/ CreateJob(c) \/ SaveStarted(c) \/ SaveCompleted(c) \/ SaveFailed(c)
  PROVE  RowIsWhole(c)'
<1>1. pc[c] \in SavesAt /\ pc[c] \in Running \ {"fetch"}
  BY DEF CreateJob, SaveStarted, SaveCompleted, SaveFailed, SavesAt, Running, Control, Settled
<1>2. jobs'[c] \in {job[c], jobs[c]}
  BY SaveEffect DEF CreateJob, SaveStarted, SaveCompleted, SaveFailed, MaybeSaveJob
<1>3. SameCounts(job'[c], job[c])
  BY <1>1, CatchCounts
     DEF CreateJob, SaveStarted, SaveCompleted, SaveFailed, Reject, SameCounts
<1>4. pc'[c] \in Early => pc[c] \in Early
  BY <1>1, CatchCounts, GotoEffect
     DEF CreateJob, SaveStarted, SaveCompleted, SaveFailed, Reject, Early
<1> QED
  BY <1>1, <1>2, <1>3, <1>4, KeepsWhole, NoRowIsNoJob

LEMMA PublishStepsWhole ==
  ASSUME Typed, NEW c \in Calls, RowIsWhole(c), CallConsistent(c),
         \/ PublishStarted(c) \/ PublishCompleted(c) \/ PublishFailed(c)
  PROVE  RowIsWhole(c)'
<1>1. pc[c] \in Running \ {"fetch"} /\ UNCHANGED jobs
  BY DEF PublishStarted, PublishCompleted, PublishFailed, Running, Control, Settled
<1>2. SameCounts(job'[c], job[c])
  BY <1>1, CatchCounts DEF PublishStarted, PublishCompleted, PublishFailed, Reject, SameCounts
<1>3. pc'[c] \in Early => pc[c] \in Early
  BY <1>1, CatchCounts, GotoEffect
     DEF PublishStarted, PublishCompleted, PublishFailed, Reject, Early
<1> QED
  BY <1>1, <1>2, <1>3, KeepsWhole, NoRowIsNoJob

LEMMA CheckWhole ==
  ASSUME Typed, NEW c \in Calls, RowIsWhole(c), CallConsistent(c), Check(c)
  PROVE  RowIsWhole(c)'
<1>1. jobs[c] = NoRow /\ UNCHANGED jobs
  BY DEF Check, CallConsistent
<1>2. NoRow.status = "ABSENT"
  BY DEF NoRow
<1>3. \/ pc'[c] \in {"conflict", "rejected"}
      \/ pc'[c] = "create" /\ job'[c] = create
  BY GotoEffect DEF Check, Reject, Typed, TypeOK
<1>4. Zero(create)
  BY DEF Zero, create
<1>5. pc'[c] \in Early \/ pc'[c] \in Savable => Zero(job'[c])
  BY <1>3, <1>4 DEF Early, Savable, Running, Control, Settled
<1>6. jobs'[c].status = "ABSENT" /\ jobs'[c] = NoRow
  BY <1>1, <1>2
<1> QED
  BY <1>5, <1>6 DEF RowIsWhole, Open, Zero

LEMMA GetAllMakesWhole ==
  ASSUME Typed, NEW c \in Calls, RowIsWhole(c), CallConsistent(c), GetAllMakes(c)
  PROVE  RowIsWhole(c)'
<1>1. pc[c] = "getAllMakes" /\ pc[c] \in Running \ {"fetch"} /\ UNCHANGED jobs
  BY DEF GetAllMakes, Running, Control, Settled
<1>2. CASE Catch(c)
  BY <1>1, <1>2, CatchCounts, KeepsWhole, NoRowIsNoJob DEF Early
<1>3. ASSUME NEW f \in Feeds, job' = [job EXCEPT ![c] = start(@, Len(f))],
             Goto(c, "saveStarted")
      PROVE  RowIsWhole(c)'
  <2>1. job'[c] = start(job[c], Len(f)) /\ job[c] \in Job /\ Len(f) \in Nat
    <3>1. f \in Seq(MakeIds)
      BY FeedAssumption
    <3>2. Len(f) \in Nat
      BY <3>1
    <3> QED
      BY <1>1, <1>3, <3>2 DEF Typed, TypeOK, HasJob
  <2>2. Zero(job[c]) /\ jobs[c].status = "PENDING" /\ pc'[c] = "saveStarted"
    BY <1>1, <1>3, GotoEffect DEF RowIsWhole, Early, CallConsistent
  <2>3. Zero(job'[c])
    BY <2>1, <2>2, MethodsCount DEF Zero
  <2> QED
    BY <1>1, <2>2, <2>3 DEF RowIsWhole, Zero, All
<1> QED
  BY <1>2, <1>3 DEF GetAllMakes

LEMMA FetchWhole ==
  ASSUME Typed, NEW c \in Calls, RowIsWhole(c), CallConsistent(c),
         FetchSucceeds(c) \/ FetchRetries(c) \/ FetchGivesUp(c)
  PROVE  RowIsWhole(c)'
<1>1. pc[c] = "fetch" /\ pc[c] \in Running /\ UNCHANGED <<pc, jobs>>
  BY DEF FetchSucceeds, FetchRetries, FetchGivesUp, Running, Control, Settled
<1>2. job[c] \in Job /\ job \in [Calls -> Job \union {NoRow}]
  BY <1>1 DEF Typed, TypeOK, HasJob
<1>3. job'[c].totalMakes = job[c].totalMakes
  <2>1. CASE FetchSucceeds(c)
    BY <1>2, <2>1, MethodsCount DEF FetchSucceeds
  <2>2. CASE FetchRetries(c)
    BY <2>2 DEF FetchRetries
  <2>3. CASE FetchGivesUp(c)
    <3>1. feed[c][pos[c] + 1] \in Nat
      <4>1. feed[c] \in Seq(MakeIds) /\ pos[c] \in Nat /\ pos[c] < Len(feed[c])
        BY <2>3 DEF FetchGivesUp, Typed, TypeOK
      <4>2. pos[c] + 1 \in 1 .. Len(feed[c])
        BY <4>1
      <4>3. feed[c][pos[c] + 1] \in MakeIds
        BY <4>1, <4>2
      <4> QED
        BY <4>3, FeedAssumption
    <3> QED
      BY <1>2, <2>3, <3>1, MethodsCount DEF FetchGivesUp
  <2> QED
    BY <2>1, <2>2, <2>3
<1> QED
  BY <1>1, <1>3 DEF RowIsWhole, Early, Savable, Zero, All

LEMMA StoreStepsWhole ==
  ASSUME Typed, NEW c \in Calls, RowIsWhole(c), CallConsistent(c), Accounted(c),
         Transform(c) \/ SaveChunk(c) \/ Complete(c)
  PROVE  RowIsWhole(c)'
<1>1. UNCHANGED jobs
  BY DEF Transform, SaveChunk, Complete
<1>2. CASE Transform(c)
  <2>1. pc[c] = "fetch" /\ pc'[c] = "saveMany" /\ UNCHANGED job
    BY <1>2, GotoEffect DEF Transform
  <2>2. All(job[c])
    <3>1. Counts(c) /\ pos[c] = Len(feed[c])
      BY <1>2, <2>1 DEF Transform, Accounted, Working
    <3> QED
      BY <3>1 DEF Counts, All
  <2>3. pc[c] \in Running
    BY <2>1 DEF Running, Control, Settled
  <2> QED
    BY <1>1, <2>1, <2>2, <2>3 DEF RowIsWhole, Early, Zero, All
<1>3. CASE SaveChunk(c)
  <2>1. pc[c] = "saveMany" /\ pc[c] \in Running \ {"fetch"}
    BY <1>3 DEF SaveChunk, Running, Control, Settled
  <2>2. SameCounts(job'[c], job[c]) /\ pc'[c] \notin Early
    BY <1>3, <2>1, CatchCounts DEF SaveChunk, SameCounts, Early
  <2> QED
    BY <1>1, <2>1, <2>2, KeepsWhole, NoRowIsNoJob
<1>4. CASE Complete(c)
  <2>1. pc[c] = "saveMany" /\ pc[c] \in Running \ {"fetch"}
    BY <1>4 DEF Complete, Running, Control, Settled
  <2>2. job[c] \in Job /\ job'[c] = complete(job[c]) /\ pc'[c] = "saveCompleted"
    BY <1>4, <2>1, GotoEffect DEF Complete, Typed, TypeOK, HasJob
  <2>3. SameCounts(job'[c], job[c]) /\ pc'[c] \notin Early
    BY <2>2, MethodsCount DEF Early
  <2> QED
    BY <1>1, <2>1, <2>3, KeepsWhole, NoRowIsNoJob
<1> QED
  BY <1>2, <1>3, <1>4

LEMMA OtherWhole ==
  ASSUME NEW c \in Calls, RowIsWhole(c), job'[c] = job[c], jobs'[c] = jobs[c],
         pc'[c] = pc[c] \/ pc'[c] = "crashed"
  PROVE  RowIsWhole(c)'
BY DEF RowIsWhole, Zero, All, Early, Savable, Running, Control, Settled

LEMMA InitWhole == Init => WInv
<1> SUFFICES ASSUME Init, NEW c \in Calls PROVE RowIsWhole(c)
  BY DEF WInv
<1>1. pc[c] = "idle" /\ jobs[c] = NoRow /\ jobs[c].status = "ABSENT"
  BY DEF Init, NoRow
<1> QED
  BY <1>1 DEF RowIsWhole, Early, Savable, Running, Control, Settled, Open

LEMMA StepWhole == BaseInv /\ [Next]_vars => BaseInv'
<1> SUFFICES ASSUME BaseInv, [Next]_vars, NEW d \in Calls
             PROVE  RowIsWhole(d)'
  BY StepInv, StepOutcome DEF BaseInv, WInv
<1>1. Typed /\ CallConsistent(d) /\ RowIsWhole(d) /\ Accounted(d)
  BY DEF BaseInv, IInv, OInv, WInv, Consistent
<1>2. CASE Crash
  BY <1>1, <1>2, OtherWhole DEF Crash
<1>3. ASSUME NEW c \in Calls, Check(c) \/ Proceed(c)
      PROVE  RowIsWhole(d)'
  <2>1. CASE d # c
    BY <1>1, <1>3, <2>1, StepIsLocal, OtherWhole DEF SameLocal
  <2>2. CASE d = c
    BY <1>1, <1>3, <2>2, CheckWhole, SaveStepsWhole, GetAllMakesWhole,
       PublishStepsWhole, FetchWhole, StoreStepsWhole DEF Proceed
  <2> QED
    BY <2>1, <2>2
<1>4. CASE UNCHANGED vars
  BY <1>1, <1>4, OtherWhole DEF vars
<1> QED
  BY <1>2, <1>3, <1>4 DEF Next

-----------------------------------------------------------------------------
(***************************************************************************)
(* What becomes of a row, and of what was once read from it.               *)
(***************************************************************************)
Whole(j) ==
  /\ Zero(j) \/ All(j)
  /\ j.status \in Open => Zero(j)
  /\ j.status \in SuccessStatus => All(j)

\* A job may move from k to j.
Follows(j, k) ==
  /\ k.status \in Open /\ Rank(k.status) <= Rank(j.status)
  /\ k.totalMakes <= j.totalMakes

\* The row of c is j, or was once.
Was(c, j) ==
  /\ j \in Job /\ jobs[c] \in Job /\ Whole(j)
  /\ jobs[c] = j \/ Follows(jobs[c], j)

RowMoves(c) ==
  \/ jobs'[c] = jobs[c]
  \/ jobs'[c] \in Job /\ (jobs[c] = NoRow \/ Follows(jobs'[c], jobs[c]))

LEMMA StoredRow ==
  ASSUME BaseInv, NEW c \in Calls
  PROVE  /\ jobs[c] \in Job \union {NoRow}
         /\ c \in Stored <=> jobs[c] \in Job
         /\ jobs[c] \in Job => Whole(jobs[c]) /\ Was(c, jobs[c])
<1>1. Typed /\ Accounted(c) /\ RowIsWhole(c)
  BY DEF BaseInv, IInv, OInv, WInv
<1>2. jobs[c] \in Job \union {NoRow}
  BY <1>1 DEF Typed, TypeOK
<1>3. c \in Stored <=> jobs[c] \in Job
  BY <1>2, NoRowIsNoJob DEF Stored, NoRow, Job, IngestionStatus, TerminalStatus, SuccessStatus
<1>4. ASSUME jobs[c].status \in SuccessStatus
      PROVE  All(jobs[c])
  <2>1. Succeeded(c) /\ Working(c) /\ Storing(c)
    BY <1>4 DEF Succeeded, Working, Storing
  <2>2. Counts(c) /\ pos[c] = Len(feed[c]) /\ jobs[c] = job[c]
    BY <1>1, <2>1 DEF Accounted, Stores
  <2> QED
    BY <2>2 DEF Counts, All
<1>5. jobs[c] \in Job => Whole(jobs[c])
  BY <1>1, <1>4, NoRowIsNoJob DEF RowIsWhole, Whole
<1> QED
  BY <1>2, <1>3, <1>5 DEF Was

LEMMA SaveMoves ==
  ASSUME BaseInv, NEW c \in Calls,
         \/ CreateJob(c) \/ SaveStarted(c) \/ SaveCompleted(c) \/ SaveFailed(c)
  PROVE  \A d \in Calls : RowMoves(d)
<1>1. Typed /\ Consistent /\ CallConsistent(c) /\ RowIsWhole(c)
  BY DEF BaseInv, IInv, WInv, Consistent
<1>2. /\ jobs'[c] \in {job[c], jobs[c]}
      /\ \A d \in Calls \ {c} : jobs'[d] = jobs[d]
  BY <1>1, SavedRow
<1>3. pc[c] \in Running /\ job[c] \in Job
  BY <1>1 DEF CreateJob, SaveStarted, SaveCompleted, SaveFailed, Running, Control,
              Settled, CallConsistent
<1>4. jobs[c] = NoRow \/ Follows(job[c], jobs[c])
  <2>1. CASE CreateJob(c)
    BY <1>1, <2>1 DEF CreateJob, CallConsistent
  <2>2. CASE SaveStarted(c)
    <3>1. jobs[c].status = "PENDING" /\ job[c].status = "IN_PROGRESS"
      BY <1>1, <2>2 DEF SaveStarted, CallConsistent, assertInProgress
    <3>2. jobs[c].totalMakes = 0 /\ job[c].totalMakes \in Nat
      BY <1>1, <1>3, <3>1 DEF RowIsWhole, Job
    <3>3. jobs[c].totalMakes <= job[c].totalMakes
      BY <3>2
    <3> QED
      BY <3>1, <3>3, RankOf DEF Follows, Open
  <2>3. CASE SaveCompleted(c) \/ SaveFailed(c)
    <3>1. jobs[c].status \in Open /\ job[c].status \in TerminalStatus
      BY <1>1, <2>3 DEF SaveCompleted, SaveFailed, CallConsistent, Open, TerminalStatus
    <3>2. job[c].status \notin Open
      BY <3>1 DEF Open, TerminalStatus, SuccessStatus
    <3>3. Rank(jobs[c].status) <= Rank(job[c].status)
      <4>1. Rank(job[c].status) = 2 /\ Rank(jobs[c].status) \in {0, 1, 2}
        BY <3>2, RankOf
      <4> QED
        BY <4>1
    <3>4. jobs[c].totalMakes <= job[c].totalMakes
      <4>1. jobs[c].totalMakes = 0 \/ jobs[c].totalMakes = job[c].totalMakes
        BY <1>1, <1>3, <3>1 DEF RowIsWhole, Open
      <4>2. job[c].totalMakes \in Nat
        BY <1>3 DEF Job
      <4> QED
        BY <4>1, <4>2
    <3> QED
      BY <3>1, <3>3, <3>4 DEF Follows
  <2> QED
    BY <2>1, <2>2, <2>3
<1> QED
  BY <1>2, <1>3, <1>4 DEF RowMoves

LEMMA RowStep == BaseInv /\ [Next]_vars => \A d \in Calls : RowMoves(d)
<1> SUFFICES ASSUME BaseInv, [Next]_vars PROVE \A d \in Calls : RowMoves(d)
  OBVIOUS
<1>1. CASE UNCHANGED jobs
  BY <1>1 DEF RowMoves
<1>2. ASSUME NEW c \in Calls,
             \/ CreateJob(c) \/ SaveStarted(c) \/ SaveCompleted(c) \/ SaveFailed(c)
      PROVE  \A d \in Calls : RowMoves(d)
  BY <1>2, SaveMoves
<1> QED
  BY <1>1, <1>2 DEF Next, Proceed, vars, Crash, Check, GetAllMakes, PublishStarted,
     FetchSucceeds, FetchRetries, FetchGivesUp, Transform, SaveChunk, Complete,
     PublishCompleted, PublishFailed

LEMMA WasStays ==
  ASSUME NEW c \in Calls, NEW j, Was(c, j), RowMoves(c)
  PROVE  Was(c, j)'
<1>1. CASE jobs'[c] = jobs[c]
  BY <1>1 DEF Was
<1>2. CASE jobs'[c] \in Job /\ Follows(jobs'[c], jobs[c])
  <2>1. CASE jobs[c] = j
    BY <1>2, <2>1 DEF Was
  <2>2. CASE Follows(jobs[c], j)
    <3>1. /\ Rank(j.status) \in Int /\ Rank(jobs[c].status) \in Int
          /\ Rank(jobs'[c].status) \in Int
      <4>1. \A s : Rank(s) \in Int
        BY RankOf
      <4> QED
        BY <4>1
    <3>2. /\ j.totalMakes \in Int /\ jobs[c].totalMakes \in Int
          /\ jobs'[c].totalMakes \in Int
      BY <1>2 DEF Was, Job
    <3>3. Follows(jobs'[c], j)
      BY <1>2, <2>2, <3>1, <3>2 DEF Follows
    <3> QED
      BY <1>2, <3>3 DEF Was
  <2> QED
    BY <2>1, <2>2 DEF Was
<1> QED
  BY <1>1, <1>2, NoRowIsNoJob DEF RowMoves, Was

-----------------------------------------------------------------------------
(***************************************************************************)
(* The readers.                                                            *)
(***************************************************************************)
\* What a client is told of a job whose row is j.
ToldRow(j) == toGraphQL(toDTO(j))

Answers == {Nothing} \union {[job |-> c, told |-> ToldRow(j)] : c \in Calls, j \in Job}

\* Only finitely many jobs were ever created: the clock has a latest reading.
Stamped ==
  /\ startedAt \in [Calls -> Nat]
  /\ \E m \in Nat : \A c \in Calls : startedAt[c] <= m

ReaderTyped ==
  /\ request \in [Clients -> [phase : {"idle", "latest"}, known : SUBSET Calls]]
  /\ answer \in [Clients -> Answers]

\* The jobs that existed at the first query of ingestionStatus still exist.
KnownStands(r) ==
  request[r].known \subseteq Stored

\* Every answer was once true.
AnswerWas(r) ==
  answer[r] # Nothing =>
    \E c \in Calls, j \in Job :
      Was(c, j) /\ answer[r] = [job |-> c, told |-> ToldRow(j)]

ReaderInv ==
  /\ BaseInv /\ Stamped /\ ReaderTyped
  /\ \A r \in Clients : KnownStands(r) /\ AnswerWas(r)

LEMMA ReaderIsLocal == [ReaderNext]_allVars => [Next]_vars
BY DEF ReaderNext, Die, Ingest, Ask, FindRunning, FindLatest, FindById, allVars, Next

LEMMA NewAnswer ==
  ASSUME NEW c \in Calls, NEW t
  PROVE  LET a == [job |-> c, told |-> t]
         IN a # Nothing /\ a.job = c /\ a.told = t
<1> DEFINE a == [job |-> c, told |-> t]
<1>1. a.job = c /\ a.told = t /\ Nothing.job = NoJob
  BY DEF Nothing
<1> QED
  BY <1>1, NoJobAssumption

\* The clock.
LEMMA ClockReading ==
  ASSUME Stamped, NEW c \in Calls
  PROVE  Now \in Nat /\ \A d \in Calls : startedAt[d] <= Now
<1> DEFINE S == {startedAt[d] : d \in Calls}
<1>1. PICK m \in Nat : \A d \in Calls : startedAt[d] <= m
  BY DEF Stamped
<1>2. S \in SUBSET Nat /\ S # {} /\ \A x \in S : x <= m
  BY <1>1 DEF Stamped
<1>3. Max(S) \in S /\ \A x \in S : x <= Max(S)
  <2> HIDE DEF S
  <2> QED
    BY <1>2, Greatest
<1> QED
  BY <1>2, <1>3 DEF Now

LEMMA StampKeeps ==
  ASSUME Stamped, NEW c \in Calls, Stamp(c)
  PROVE  Stamped' /\ \A d \in Calls : pc[d] # "idle" => startedAt'[d] = startedAt[d]
<1>1. CASE startedAt' = startedAt
  BY <1>1 DEF Stamped
<1>2. ASSUME NEW t \in {Now, Now + 1}, startedAt' = [startedAt EXCEPT ![c] = t],
             pc[c] = "idle"
      PROVE  Stamped' /\ \A d \in Calls : pc[d] # "idle" => startedAt'[d] = startedAt[d]
  <2>1. Now \in Nat /\ \A d \in Calls : startedAt[d] \in Nat /\ startedAt[d] <= Now
    BY ClockReading DEF Stamped
  <2> HIDE DEF Now
  <2>2. t \in Nat /\ Now + 1 \in Nat /\ t <= Now + 1
    BY <2>1
  <2>3. \A d \in Calls : startedAt'[d] = IF d = c THEN t ELSE startedAt[d]
    BY <1>2 DEF Stamped
  <2>4. startedAt' \in [Calls -> Nat]
    BY <1>2, <2>2 DEF Stamped
  <2>5. \A d \in Calls : startedAt'[d] <= Now + 1
    BY <2>1, <2>2, <2>3
  <2> QED
    BY <1>2, <2>2, <2>3, <2>4, <2>5 DEF Stamped
<1> QED
  BY <1>1, <1>2 DEF Stamp

\* The time of a job that is stored is settled, and the job stays stored.
LEMMA StoredStays ==
  ASSUME BaseInv, Stamped, [ReaderNext]_allVars
  PROVE  /\ Stamped'
         /\ \A c \in Stored : startedAt'[c] = startedAt[c] /\ c \in Stored'
<1>1. \A c \in Stored : jobs[c] \in Job /\ c \in Calls
  BY StoredRow DEF Stored
<1>2. \A c \in Stored : pc[c] # "idle"
  BY <1>1, NoRowIsNoJob DEF BaseInv, IInv, Consistent, CallConsistent
<1>3. \A c \in Calls : RowMoves(c)
  BY ReaderIsLocal, RowStep
<1>4. \A c \in Stored : jobs'[c] \in Job
  BY <1>1, <1>3 DEF RowMoves
<1>5. \A c \in Stored : c \in Stored'
  BY <1>1, <1>4 DEF Stored, Job, IngestionStatus, TerminalStatus, SuccessStatus
<1>6. Stamped' /\ \A c \in Stored : startedAt'[c] = startedAt[c]
  <2>1. CASE UNCHANGED startedAt
    BY <2>1 DEF Stamped
  <2>2. ASSUME NEW c \in Calls, Ingest(c)
        PROVE  Stamped' /\ \A d \in Stored : startedAt'[d] = startedAt[d]
    BY <1>1, <1>2, <2>2, StampKeeps DEF Ingest
  <2> QED
    BY <2>1, <2>2
       DEF ReaderNext, Die, Ask, FindRunning, FindLatest, FindById, allVars, readerVars
<1> QED
  BY <1>5, <1>6

\* Where an answer comes from.
LEMMA TellWas ==
  ASSUME BaseInv, ReaderTyped, NEW r \in Clients, NEW c \in Stored, Tell(r, c),
         UNCHANGED vars, \A s \in Clients : AnswerWas(s)
  PROVE  answer' \in [Clients -> Answers] /\ \A s \in Clients : AnswerWas(s)'
<1>1. c \in Calls /\ jobs[c] \in Job /\ Was(c, jobs[c])
  BY StoredRow DEF Stored
<1>2. \A d \in Calls, j \in Job : Was(d, j) => Was(d, j)'
  BY DEF vars, Was
<1>3. /\ answer'[r] = [job |-> c, told |-> ToldRow(jobs[c])]
      /\ \A s \in Clients \ {r} : answer'[s] = answer[s]
      /\ answer' \in [Clients -> Answers]
  <2>1. [job |-> c, told |-> ToldRow(jobs[c])] \in Answers
    BY <1>1 DEF Answers
  <2> QED
    BY <2>1 DEF Tell, ToldRow, ReaderTyped
<1>4. AnswerWas(r)'
  BY <1>1, <1>2, <1>3 DEF AnswerWas
<1>5. ASSUME NEW s \in Clients \ {r} PROVE AnswerWas(s)'
  BY <1>2, <1>3 DEF AnswerWas
<1> QED
  BY <1>3, <1>4, <1>5

LEMMA RunningIsStored ==
  ASSUME NEW c \in findByStatus("IN_PROGRESS")
  PROVE  c \in Stored
BY DEF findByStatus, Stored

LEMMA AskKeeps ==
  ASSUME ReaderInv, NEW r \in Clients, Ask(r)
  PROVE  ReaderTyped' /\ \A s \in Clients : KnownStands(s)' /\ AnswerWas(s)'
<1>1. BaseInv /\ Stamped /\ ReaderTyped /\ UNCHANGED <<vars, startedAt>>
  BY DEF ReaderInv, Ask, FindRunning, FindLatest, FindById
<1>2. Stored' = Stored
  BY <1>1 DEF vars, Stored
<1>3. answer' \in [Clients -> Answers] /\ \A s \in Clients : AnswerWas(s)'
  <2>1. CASE UNCHANGED answer
    BY <1>1, <2>1 DEF ReaderInv, ReaderTyped, AnswerWas, Was, vars
  <2>2. CASE \E c \in Stored : Tell(r, c)
    BY <1>1, <2>2, TellWas DEF ReaderInv
  <2>3. CASE answer' = [answer EXCEPT ![r] = Nothing]
    <3>1. /\ answer'[r] = Nothing /\ \A s \in Clients \ {r} : answer'[s] = answer[s]
          /\ answer' \in [Clients -> Answers]
      BY <1>1, <2>3 DEF ReaderTyped, Answers
    <3> QED
      BY <1>1, <3>1 DEF ReaderInv, AnswerWas, Was, vars
  <2> QED
    BY <2>1, <2>2, <2>3, RunningIsStored DEF Ask, FindRunning, FindLatest, FindById, Newest
<1>4. /\ request' \in [Clients -> [phase : {"idle", "latest"}, known : SUBSET Calls]]
      /\ \A s \in Clients : KnownStands(s)'
  <2>1. CASE UNCHANGED request
    BY <1>1, <1>2, <2>1 DEF ReaderInv, ReaderTyped, KnownStands
  <2>2. ASSUME NEW q \in [phase : {"idle", "latest"}, known : SUBSET Calls],
               request' = [request EXCEPT ![r] = q],
               q.known \subseteq Stored
        PROVE  /\ request' \in [Clients -> [phase : {"idle", "latest"}, known : SUBSET Calls]]
               /\ \A s \in Clients : KnownStands(s)'
    <3>1. /\ request'[r] = q /\ \A s \in Clients \ {r} : request'[s] = request[s]
          /\ request' \in [Clients -> [phase : {"idle", "latest"}, known : SUBSET Calls]]
      BY <1>1, <2>2 DEF ReaderTyped
    <3>2. KnownStands(r)'
      BY <1>1, <1>2, <2>2, <3>1 DEF KnownStands
    <3>3. \A s \in Clients \ {r} : KnownStands(s)'
      BY <1>1, <1>2, <3>1 DEF ReaderInv, KnownStands
    <3> QED
      BY <3>1, <3>2, <3>3
  <2>3. Idle \in [phase : {"idle", "latest"}, known : SUBSET Calls] /\ Idle.known = {}
    BY DEF Idle
  <2>5. CASE request' = [request EXCEPT ![r] = [phase |-> "latest", known |-> Stored]]
    <3> DEFINE q == [phase |-> "latest", known |-> Stored]
    <3>1. q \in [phase : {"idle", "latest"}, known : SUBSET Calls] /\ q.known = Stored
      BY DEF Stored
    <3> HIDE DEF q
    <3> QED
      BY <2>2, <2>5, <3>1 DEF q
  <2> QED
    BY <2>1, <2>2, <2>3, <2>5 DEF Ask, FindRunning, FindLatest, FindById
<1> QED
  BY <1>3, <1>4 DEF ReaderTyped

LEMMA ReaderStart == ReaderInit => ReaderInv
<1> SUFFICES ASSUME ReaderInit PROVE ReaderInv
  OBVIOUS
<1>1. BaseInv
  BY InitInv, InitOutcome, InitWhole DEF ReaderInit, BaseInv
<1>2. Stamped
  <2>1. 0 \in Nat /\ \A c \in Calls : startedAt[c] = 0
    BY DEF ReaderInit
  <2> QED
    BY <2>1 DEF ReaderInit, Stamped
<1>3. ReaderTyped
  BY DEF ReaderInit, ReaderTyped, Idle, Answers
<1>4. \A r \in Clients : KnownStands(r) /\ AnswerWas(r)
  BY DEF ReaderInit, KnownStands, AnswerWas, Idle
<1> QED
  BY <1>1, <1>2, <1>3, <1>4 DEF ReaderInv

LEMMA ReaderStep == ReaderInv /\ [ReaderNext]_allVars => ReaderInv'
<1> SUFFICES ASSUME ReaderInv, [ReaderNext]_allVars PROVE ReaderInv'
  OBVIOUS
<1>1. BaseInv /\ Stamped /\ ReaderTyped /\ [Next]_vars
  BY ReaderIsLocal DEF ReaderInv
<1>2. BaseInv' /\ Stamped'
  BY <1>1, StepWhole, StoredStays
<1>3. ASSUME UNCHANGED answer
      PROVE  \A r \in Clients : AnswerWas(r)'
  <2> SUFFICES ASSUME NEW r \in Clients, answer[r] # Nothing PROVE AnswerWas(r)'
    BY <1>3 DEF AnswerWas
  <2>1. PICK c \in Calls, j \in Job :
          Was(c, j) /\ answer[r] = [job |-> c, told |-> ToldRow(j)]
    BY DEF ReaderInv, AnswerWas
  <2>2. Was(c, j)'
    BY <1>1, <2>1, RowStep, WasStays
  <2> QED
    BY <1>3, <2>1, <2>2 DEF AnswerWas
<1>4. ASSUME UNCHANGED request
      PROVE  \A r \in Clients : KnownStands(r)'
  BY <1>1, <1>4, StoredStays DEF ReaderInv, KnownStands
<1>5. CASE UNCHANGED <<request, answer>>
  BY <1>1, <1>2, <1>3, <1>4, <1>5 DEF ReaderInv, ReaderTyped
<1>6. CASE Die
  <2>1. Idle \in [phase : {"idle", "latest"}, known : SUBSET Calls] /\ Idle.known = {}
    BY DEF Idle
  <2>2. ReaderTyped' /\ \A r \in Clients : KnownStands(r)'
    BY <1>1, <1>6, <2>1 DEF Die, ReaderTyped, KnownStands
  <2> QED
    BY <1>2, <1>3, <1>6, <2>2 DEF Die, ReaderInv
<1>7. ASSUME NEW r \in Clients, Ask(r)
      PROVE  ReaderInv'
  BY <1>2, <1>7, AskKeeps DEF ReaderInv
<1> QED
  BY <1>5, <1>6, <1>7 DEF ReaderNext, Ingest, allVars, readerVars

LEMMA ReaderInductive == ReaderSpec => []ReaderInv
  BY ReaderStart, ReaderStep, PTL DEF ReaderSpec

-----------------------------------------------------------------------------
(***************************************************************************)
(* The theorems.                                                           *)
(***************************************************************************)
LEMMA ToldOf ==
  ASSUME NEW j \in Job
  PROVE  /\ ToldRow(j).status = j.status /\ ToldRow(j).progress = progress(j)
         /\ ToldRow(j).totalMakes = j.totalMakes
         /\ ToldRow(j).processedMakes = j.processedMakes
         /\ ToldRow(j).failedMakes = j.failedMakes
BY DEF ToldRow, toGraphQL, toDTO, progress

\* What was told of a job stands in for its row as it was then.
LEMMA LaterAnswer ==
  ASSUME NEW c \in Calls, NEW j \in Job, Was(c, j)
  PROVE  Supersedes(ToldRow(jobs[c]), ToldRow(j))
<1> DEFINE k == jobs[c]
<1>1. k \in Job /\ Whole(j)
  BY DEF Was
<1>2. \A s : Rank(s) \in Int
  <2>1. \A s : Rank(s) \in {0, 1, 2}
    BY RankOf
  <2> QED
    BY <2>1
<1>3. /\ progress(j) \in Nat /\ progress(k) \in Nat
      /\ j.totalMakes \in Nat /\ k.totalMakes \in Nat
      /\ j.processedMakes \in Nat /\ k.processedMakes \in Nat
      /\ j.failedMakes \in Nat /\ k.failedMakes \in Nat
  BY <1>1, ProgressOf DEF Job
<1>4. CASE k = j
  BY <1>1, <1>2, <1>3, <1>4, ToldOf DEF Supersedes
<1>5. CASE Follows(k, j)
  <2>1. Zero(j) /\ progress(j) = 0
    BY <1>1, <1>5, ProgressOf DEF Whole, Follows
  <2>2. Rank(j.status) < 2
    BY <1>5, RankOf DEF Follows, Open
  <2>3. Rank(j.status) <= Rank(k.status) /\ j.totalMakes <= k.totalMakes
    BY <1>5 DEF Follows
  <2> HIDE DEF k
  <2>4. Supersedes(ToldRow(k), ToldRow(j))
    BY <1>1, <1>2, <1>3, <2>1, <2>2, <2>3, ToldOf DEF Supersedes, Zero
  <2> QED
    BY <2>4 DEF k
<1> QED
  BY <1>4, <1>5 DEF Was

LEMMA SameAnswer ==
  ASSUME NEW j \in Job
  PROVE  Supersedes(ToldRow(j), ToldRow(j))
<1>1. Rank(j.status) \in Int
  <2>1. Rank(j.status) \in {0, 1, 2}
    BY RankOf
  <2> QED
    BY <2>1
<1>2. /\ progress(j) \in Nat /\ j.totalMakes \in Nat
      /\ j.processedMakes \in Nat /\ j.failedMakes \in Nat
  BY ProgressOf DEF Job
<1> QED
  BY <1>1, <1>2, ToldOf DEF Supersedes

LEMMA AnswerStep ==
  ASSUME ReaderInv, [ReaderNext]_allVars, NEW r \in Clients
  PROVE  \/ answer'[r] \in {answer[r], Nothing}
         \/ \E c \in Stored : answer'[r] = [job |-> c, told |-> ToldRow(jobs[c])]
<1>1. CASE UNCHANGED answer
  BY <1>1
<1>2. ASSUME NEW s \in Clients, Ask(s)
      PROVE  \/ answer'[r] \in {answer[r], Nothing}
             \/ \E c \in Stored : answer'[r] = [job |-> c, told |-> ToldRow(jobs[c])]
  <2>1. \/ UNCHANGED answer \/ answer' = [answer EXCEPT ![s] = Nothing]
        \/ \E c \in Stored : Tell(s, c)
    BY <1>2, RunningIsStored DEF Ask, FindRunning, FindLatest, FindById, Newest
  <2>2. answer \in [Clients -> Answers]
    BY DEF ReaderInv, ReaderTyped
  <2> QED
    BY <2>1, <2>2 DEF Tell, ToldRow
<1> QED
  BY <1>1, <1>2 DEF ReaderNext, Die, Ingest, allVars, readerVars

\* Polls of a client, whatever it asks by and whatever fails in between, tell
\* one story of a job, in its order.
THEOREM PollsAreMonotonic == ReaderSpec => PollsNeverGoBack
<1> DEFINE Forward ==
      \A r \in Clients :
        /\ answer[r] # Nothing /\ answer'[r] # Nothing
        /\ answer'[r].job = answer[r].job
        => Supersedes(answer'[r].told, answer[r].told)
<1>1. ReaderInv /\ [ReaderNext]_allVars => [Forward]_allVars
  <2> SUFFICES ASSUME ReaderInv, [ReaderNext]_allVars, NEW r \in Clients,
                      answer[r] # Nothing, answer'[r] # Nothing,
                      answer'[r].job = answer[r].job
               PROVE  Supersedes(answer'[r].told, answer[r].told)
    OBVIOUS
  <2>1. PICK c \in Calls, j \in Job :
          Was(c, j) /\ answer[r] = [job |-> c, told |-> ToldRow(j)]
    BY DEF ReaderInv, AnswerWas
  <2>2. answer[r].job = c /\ answer[r].told = ToldRow(j)
    BY <2>1
  <2>3. CASE answer'[r] = answer[r]
    BY <2>2, <2>3, SameAnswer
  <2>4. ASSUME NEW d \in Stored,
               answer'[r] = [job |-> d, told |-> ToldRow(jobs[d])]
        PROVE  Supersedes(answer'[r].told, answer[r].told)
    <3>1. answer'[r].job = d /\ answer'[r].told = ToldRow(jobs[d])
      BY <2>4
    <3>2. d = c
      BY <2>2, <3>1
    <3> QED
      BY <2>1, <2>2, <3>1, <3>2, LaterAnswer
  <2> QED
    BY <2>3, <2>4, AnswerStep
<1> QED
  BY <1>1, ReaderInductive, PTL DEF ReaderSpec, PollsNeverGoBack

\* However the steps of ingestions fall before, between and after the queries of
\* ingestionStatus: an answer about a job that does not run is about one no
\* older than any that existed when the client asked, and a client is never
\* told null when there was one.
THEOREM CurrentIsRunningOrNewest == ReaderSpec => CurrentIsNotStale
<1> DEFINE Answered(r) ==
      LET c == answer'[r].job
      IN \/ c = NoJob /\ Known(r) = {}
         \/ /\ NewestOf(c, findByStatus("IN_PROGRESS"))
            /\ answer'[r].told.status = "IN_PROGRESS"
         \/ NewestOf(c, Known(r))
<1>1. ASSUME ReaderInv, NEW r \in Clients
      PROVE  Known(r) \subseteq Stored
  <2>1. BaseInv /\ KnownStands(r) /\ AnswerWas(r)
    BY <1>1 DEF ReaderInv
  <2>2. \A c \in Calls : pc[c] = "resolved" => c \in Stored
    <3> SUFFICES ASSUME NEW c \in Calls, pc[c] = "resolved" PROVE c \in Stored
      OBVIOUS
    <3>1. jobs[c].status \in TerminalStatus
      BY <2>1 DEF BaseInv, IInv, Consistent, CallConsistent, isTerminalState
    <3> QED
      BY <3>1 DEF Stored, TerminalStatus, SuccessStatus
  <2>3. answer[r].job # NoJob => answer[r].job \in Stored
    <3>1. CASE answer[r] = Nothing
      BY <3>1 DEF Nothing
    <3>2. CASE answer[r] # Nothing
      <4>1. PICK c \in Calls, j \in Job :
              Was(c, j) /\ answer[r] = [job |-> c, told |-> ToldRow(j)]
        BY <2>1, <3>2 DEF AnswerWas
      <4>2. answer[r].job = c /\ jobs[c] \in Job
        BY <4>1 DEF Was
      <4> QED
        BY <4>1, <4>2 DEF Stored, Job, IngestionStatus, TerminalStatus, SuccessStatus
    <3> QED
      BY <3>1, <3>2
  <2> QED
    BY <2>1, <2>2, <2>3 DEF Known, KnownStands
<1>2. ASSUME ReaderInv, NEW r \in Clients, NEW c \in Stored, Tell(r, c)
      PROVE  answer'[r].job = c /\ c # NoJob /\ answer'[r].told.status = jobs[c].status
  <2>1. answer'[r] = [job |-> c, told |-> ToldRow(jobs[c])]
    BY <1>2 DEF Tell, ToldRow, ReaderInv, ReaderTyped
  <2>2. c \in Calls /\ jobs[c] \in Job
    BY <1>2, StoredRow DEF Stored, ReaderInv
  <2>3. answer'[r].job = c /\ answer'[r].told = ToldRow(jobs[c])
    BY <2>1
  <2> QED
    BY <2>2, <2>3, ToldOf, NoJobAssumption
<1>3. ASSUME ReaderInv, NEW r \in Clients, FindLatest(r)
      PROVE  Answered(r)
  <2>1. CASE Stored = {} /\ answer' = [answer EXCEPT ![r] = Nothing]
    <3>1. answer'[r] = Nothing
      BY <1>3, <2>1 DEF ReaderInv, ReaderTyped
    <3> QED
      BY <1>1, <1>3, <2>1, <3>1 DEF Nothing
  <2>2. ASSUME NEW c \in Newest(Stored), Tell(r, c)
        PROVE  Answered(r)
    <3>1. c \in Stored /\ \A d \in Stored : startedAt[d] <= startedAt[c]
      BY <2>2 DEF Newest
    <3>2. NewestOf(c, Known(r))
      BY <1>1, <1>2, <1>3, <2>2, <3>1 DEF NewestOf
    <3> QED
      BY <1>2, <1>3, <2>2, <3>1, <3>2
  <2> QED
    BY <1>3, <2>1, <2>2 DEF FindLatest
<1>4. ASSUME ReaderInv, NEW r \in Clients, FindRunning(r), request'[r].phase = "idle"
      PROVE  Answered(r)
  <2>1. PICK c \in Newest(findByStatus("IN_PROGRESS")) : Tell(r, c)
    BY <1>4 DEF FindRunning, ReaderInv, ReaderTyped
  <2>2. c \in findByStatus("IN_PROGRESS") /\ c \in Stored /\ jobs[c].status = "IN_PROGRESS"
    BY <2>1, RunningIsStored DEF Newest, findByStatus
  <2>3. \A d \in findByStatus("IN_PROGRESS") : startedAt[d] <= startedAt[c]
    BY <2>1 DEF Newest
  <2> HIDE DEF Answered
  <2>4. NewestOf(answer'[r].job, findByStatus("IN_PROGRESS"))
        /\ answer'[r].told.status = "IN_PROGRESS"
    BY <1>2, <1>4, <2>1, <2>2, <2>3 DEF NewestOf
  <2> QED
    BY <2>4 DEF Answered
<1> DEFINE Told == \A r \in Clients :
      FindLatest(r) \/ (FindRunning(r) /\ request'[r].phase = "idle") => Answered(r)
<1>5. ReaderInv => Told
  BY <1>3, <1>4
<1> QED
  BY <1>5, ReaderInductive, PTL DEF CurrentIsNotStale

-----------------------------------------------------------------------------
(***************************************************************************)
(* What only a disturbance can take from a client: the safety half of      *)
(* UndisturbedJobsGetAnOutcome, of which fairness adds that calls end.     *)
(***************************************************************************)

\* The clients read and leave the ingestions alone, so all that is said of
\* execute() holds with them beside it.
THEOREM ReadersAreHarmless == ReaderSpec => Spec
<1>1. ReaderInit => Init
  BY DEF ReaderInit
<1> QED
  BY <1>1, ReaderIsLocal, PTL DEF ReaderSpec, Spec

\* As long as no database or broker operation was rejected and the process
\* lived, every call that passed its check and is over resolved.
NoneGone == ~disturbed => \A c \in Calls : pc[c] \notin {"rejected", "crashed"}

LEMMA NoneGoneStep == BaseInv /\ NoneGone /\ [ReaderNext]_allVars => NoneGone'
<1> SUFFICES ASSUME BaseInv, NoneGone, [ReaderNext]_allVars, ~disturbed', NEW d \in Calls
             PROVE  pc'[d] \notin {"rejected", "crashed"}
  BY DEF NoneGone
<1>1. Typed /\ Consistent
  BY DEF BaseInv, IInv
<1>2. CASE Die
  BY <1>2 DEF Die
<1>3. ASSUME NEW c \in Calls, Ingest(c)
      PROVE  pc'[d] \notin {"rejected", "crashed"}
  <2>1. (Check(c) \/ Proceed(c)) /\ ~disturbed /\ ~Rejected(c)
    BY <1>3 DEF Ingest
  <2>2. CASE d # c
    BY <1>1, <2>1, <2>2, StepIsLocal DEF NoneGone
  <2>3. CASE d = c
    BY <1>1, <2>1, <2>3, StepEnds DEF Rejected
  <2> QED
    BY <2>2, <2>3
<1>4. CASE UNCHANGED <<vars, disturbed>>
  BY <1>4 DEF NoneGone, vars
<1>5. ASSUME NEW r \in Clients, Ask(r)
      PROVE  UNCHANGED <<vars, disturbed>>
  BY <1>5 DEF Ask, FindRunning, FindLatest, FindById
<1>6. UNCHANGED allVars => UNCHANGED <<vars, disturbed>>
  BY DEF allVars, readerVars
<1> QED
  BY <1>2, <1>3, <1>4, <1>5, <1>6 DEF ReaderNext

\* However often the API fails and chunks collide: a call that is over has a
\* final row and has announced its outcome, unless it was refused because
\* another job ran, or the database, the broker or the process failed.
UndisturbedCallsHaveAnOutcome ==
  \A c \in Calls : pc[c] \in Settled \ {"conflict"} =>
    \/ disturbed
    \/ isTerminalState(jobs[c]) /\ Announced(c) \intersect {"Completed", "Failed"} # {}

\* For any number of clients, calls and failures.
THEOREM UndisturbedOutcomes == ReaderSpec => []UndisturbedCallsHaveAnOutcome
<1>1. ReaderInit => NoneGone
  BY DEF ReaderInit, Init, NoneGone
<1>2. ReaderInv => BaseInv
  BY DEF ReaderInv
<1>3. ReaderSpec => []NoneGone
  BY <1>1, <1>2, ReaderInductive, NoneGoneStep, PTL DEF ReaderSpec
<1>4. NoneGone /\ ResolvedHasOutcome => UndisturbedCallsHaveAnOutcome
  BY DEF NoneGone, ResolvedHasOutcome, UndisturbedCallsHaveAnOutcome, Settled, Outcomes
<1> QED
  BY <1>3, <1>4, ReadersAreHarmless, ResolvedOutcome, PTL
=============================================================================
