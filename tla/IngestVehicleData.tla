------------------------- MODULE IngestVehicleData -------------------------
(***************************************************************************)
(* IngestVehicleDataUseCase.execute()                                      *)
(* (core/application/use-cases/ingest-vehicle-data.use-case.ts) run by     *)
(* several callers of one process against the two tables of the database  *)
(* and the event exchange.                                                 *)
(*                                                                         *)
(* A call runs alone between two awaits, so every action is one awaited    *)
(* operation with the code that follows it up to the next await.  Each     *)
(* execute() creates its own JobId, so a call also names its job.  An      *)
(* awaited operation on the database or the broker that rejects may have   *)
(* taken effect or not: the connection can be lost before or after the     *)
(* commit or the confirm.                                                  *)
(***************************************************************************)
EXTENDS IngestionJob, FiniteSets

CONSTANTS Calls,       \* the execute() invocations
          MakeIds,     \* the Make_IDs that occur in the external feed
          ValidMakes,  \* those that transform-xml-to-json keeps
          Feeds,       \* the answers getAllMakes() may give
          ChunkSize,   \* makes per transaction in saveMany (50 in the code)
          MaxRetries,  \* MAX_RETRIES of fetchWithRetry (2 in the code)
          Faults,      \* which of "db", "broker", "api" may reject
          MaxCrashes,  \* how often the process may die
          NoMake       \* a free slot of the vehicle_makes table

ASSUME FeedAssumption ==
  /\ MakeIds \subseteq Nat \ {0}
  /\ ValidMakes \subseteq MakeIds
  /\ Feeds \subseteq Seq(MakeIds)
ASSUME BoundAssumption ==
  ChunkSize \in Nat \ {0} /\ MaxRetries \in Nat /\ MaxCrashes \in Nat

NoRow == [status |-> "ABSENT"]

MakeRow == [owner : Calls, typed : BOOLEAN]
ASSUME NoMakeAssumption == NoMake \notin MakeRow

VARIABLES pc,       \* where each call stands
          job,      \* its in-memory IngestionJob
          feed,     \* externalMakes
          fetched,  \* the keys of typesMap
          models,   \* the feed positions whose VehicleMake is yet to insert
          pos,      \* how many makes of the feed the fetch loop is done with
          attempt,  \* attempt of fetchWithRetry
          jobs,     \* the ingestion_jobs table
          makes,    \* the vehicle_makes table, unique on make_id
          events,   \* what the vehicle.events exchange has accepted, or will
                    \* accept from the buffer of the channel
          crashes   \* how often the process has died

local == <<feed, fetched, models, pos, attempt>>
vars == <<pc, job, local, jobs, makes, events, crashes>>

Event == [kind : {"Started", "Completed", "Failed"}, job : Calls,
          totalMakes : Nat, processedMakes : Nat, failedMakes : Nat]

\* Where a call that will do no more stands: it resolved, it rejected (with
\* a ConflictError or another error), or its process died.
Settled == {"resolved", "conflict", "rejected", "crashed"}
Control == Settled \union
  {"idle", "create", "getAllMakes", "saveStarted", "publishStarted", "fetch",
   "saveMany", "saveCompleted", "publishCompleted", "saveFailed", "publishFailed"}
Running == Control \ (Settled \union {"idle"})

Init ==
  /\ pc = [c \in Calls |-> "idle"]
  /\ job = [c \in Calls |-> NoRow]
  /\ feed = [c \in Calls |-> << >>]
  /\ fetched = [c \in Calls |-> {}]
  /\ models = [c \in Calls |-> {}]
  /\ pos = [c \in Calls |-> 0]
  /\ attempt = [c \in Calls |-> 0]
  /\ jobs = [c \in Calls |-> NoRow]
  /\ makes = [m \in MakeIds |-> NoMake]
  /\ events = {}
  /\ crashes = 0

Goto(c, label) == pc' = [pc EXCEPT ![c] = label]

\* The catch block up to its first await: fail() throws on a job that is
\* already terminal in memory, and that exception leaves execute().
Catch(c) ==
  IF isTerminalState(job[c])
  THEN Goto(c, "rejected") /\ UNCHANGED job
  ELSE Goto(c, "saveFailed") /\ job' = [job EXCEPT ![c] = fail(@)]

Reject(c) == Goto(c, "rejected") /\ UNCHANGED job

\* Seeded fault: looks for the status a job has before it runs.
hasRunningJob_Pending == \E c \in Calls : jobs[c].status = "PENDING"
hasRunningJob == \E c \in Calls : jobs[c].status = "IN_PROGRESS"

Check(c) ==
  /\ pc[c] = "idle"
  /\ UNCHANGED <<local, jobs, makes, events, crashes>>
  /\ \/ hasRunningJob /\ Goto(c, "conflict") /\ UNCHANGED job
     \/ /\ ~hasRunningJob
        /\ Goto(c, "create")
        /\ job' = [job EXCEPT ![c] = create]
     \/ "db" \in Faults /\ Reject(c)

\* jobRepository.save(job): an upsert of the whole row by its id.  toORM()
\* leaves out nothing that Job keeps.
SaveJob(c) == jobs' = [jobs EXCEPT ![c] = job[c]]
MaybeSaveJob(c) == SaveJob(c) \/ UNCHANGED jobs

CreateJob(c) ==
  /\ pc[c] = "create"
  /\ UNCHANGED <<local, makes, events, crashes>>
  /\ \/ SaveJob(c) /\ Goto(c, "getAllMakes") /\ UNCHANGED job
     \/ "db" \in Faults /\ MaybeSaveJob(c) /\ Reject(c)

\* Seeded faults: the event is published before the save; the request is
\* made outside the try block.
GetAllMakes_PublishFirst(c) ==
  /\ pc[c] = "getAllMakes"
  /\ UNCHANGED <<fetched, models, pos, attempt, jobs, makes, events, crashes>>
  /\ \E f \in Feeds :
       /\ feed' = [feed EXCEPT ![c] = f]
       /\ job' = [job EXCEPT ![c] = start(@, Len(f))]
       /\ Goto(c, "publishStarted")
GetAllMakes_OutsideTry(c) ==
  /\ pc[c] = "getAllMakes"
  /\ UNCHANGED <<feed, fetched, models, pos, attempt, jobs, makes, events, crashes>>
  /\ "api" \in Faults /\ Reject(c)
GetAllMakes(c) ==
  /\ pc[c] = "getAllMakes"
  /\ UNCHANGED <<fetched, models, pos, attempt, jobs, makes, events, crashes>>
  /\ \/ \E f \in Feeds :
          /\ feed' = [feed EXCEPT ![c] = f]
          /\ job' = [job EXCEPT ![c] = start(@, Len(f))]
          /\ Goto(c, "saveStarted")
     \/ "api" \in Faults /\ Catch(c) /\ UNCHANGED feed

\* Seeded fault: the save is forgotten.
SaveStarted_Skipped(c) ==
  /\ pc[c] = "saveStarted" /\ Goto(c, "publishStarted")
  /\ UNCHANGED <<job, local, jobs, makes, events, crashes>>
SaveStarted(c) ==
  /\ pc[c] = "saveStarted"
  /\ UNCHANGED <<local, makes, events, crashes>>
  /\ \/ SaveJob(c) /\ Goto(c, "publishStarted") /\ UNCHANGED job
     \/ "db" \in Faults /\ MaybeSaveJob(c) /\ Catch(c)

\* eventPublisher.publish of an event with the counters its payload has; one
\* it does not have is 0.
EventOf(c, kind) ==
  [kind |-> kind, job |-> c, totalMakes |-> job[c].totalMakes,
   processedMakes |-> IF kind = "Started" THEN 0 ELSE job[c].processedMakes,
   failedMakes |-> IF kind = "Completed" THEN job[c].failedMakes ELSE 0]
Publish(c, kind) == events' = events \union {EventOf(c, kind)}
MaybePublish(c, kind) == Publish(c, kind) \/ UNCHANGED events

PublishStarted(c) ==
  /\ pc[c] = "publishStarted"
  /\ UNCHANGED <<local, jobs, makes, crashes>>
  /\ \/ Publish(c, "Started") /\ Goto(c, "fetch") /\ UNCHANGED job
     \/ "broker" \in Faults /\ MaybePublish(c, "Started") /\ Catch(c)

\* One getVehicleTypesForMake() of the loop over the feed.  The counters
\* change in memory only.  A make is given up after MaxRetries retries.
FetchSucceeds(c) ==
  /\ pc[c] = "fetch" /\ pos[c] < Len(feed[c])
  /\ fetched' = [fetched EXCEPT ![c] = @ \union {feed[c][pos[c] + 1]}]
  /\ job' = [job EXCEPT ![c] = incrementProcessed(@)]
  /\ pos' = [pos EXCEPT ![c] = @ + 1]
  /\ attempt' = [attempt EXCEPT ![c] = 0]
  /\ UNCHANGED <<pc, feed, models, jobs, makes, events, crashes>>

\* Seeded faults: every failed attempt is recorded; the attempts are not
\* counted.
FetchRetries_RecordsEach(c) ==
  /\ pc[c] = "fetch" /\ pos[c] < Len(feed[c])
  /\ "api" \in Faults /\ attempt[c] < MaxRetries
  /\ attempt' = [attempt EXCEPT ![c] = @ + 1]
  /\ job' = [job EXCEPT ![c] = recordFailure(@, feed[c][pos[c] + 1])]
  /\ UNCHANGED <<pc, feed, fetched, models, pos, jobs, makes, events, crashes>>
FetchRetries_Forever(c) ==
  /\ pc[c] = "fetch" /\ pos[c] < Len(feed[c])
  /\ "api" \in Faults /\ attempt[c] < MaxRetries
  /\ attempt' = [attempt EXCEPT ![c] = (@ + 1) % MaxRetries]
  /\ UNCHANGED <<pc, job, feed, fetched, models, pos, jobs, makes, events, crashes>>
FetchRetries(c) ==
  /\ pc[c] = "fetch" /\ pos[c] < Len(feed[c])
  /\ "api" \in Faults /\ attempt[c] < MaxRetries
  /\ attempt' = [attempt EXCEPT ![c] = @ + 1]
  /\ UNCHANGED <<pc, job, feed, fetched, models, pos, jobs, makes, events, crashes>>

FetchGivesUp(c) ==
  /\ pc[c] = "fetch" /\ pos[c] < Len(feed[c])
  /\ "api" \in Faults /\ attempt[c] = MaxRetries
  /\ job' = [job EXCEPT ![c] = recordFailure(@, feed[c][pos[c] + 1])]
  /\ pos' = [pos EXCEPT ![c] = @ + 1]
  /\ attempt' = [attempt EXCEPT ![c] = 0]
  /\ UNCHANGED <<pc, feed, fetched, models, jobs, makes, events, crashes>>

isValidMake(m) == m \in ValidMakes

\* transformUseCase.execute and createDomainModels: invalid makes are
\* dropped, a make that occurs twice stays twice.
Transform(c) ==
  /\ pc[c] = "fetch" /\ pos[c] = Len(feed[c])
  /\ models' = [models EXCEPT ![c] = {i \in DOMAIN feed[c] : isValidMake(feed[c][i])}]
  /\ Goto(c, "saveMany")
  /\ UNCHANGED <<job, feed, fetched, pos, attempt, jobs, makes, events, crashes>>

\* The next chunk of saveMany: the first ChunkSize models that are left.
ChunkOf(c) ==
  {i \in models[c] : Cardinality({k \in models[c] : k <= i}) <= ChunkSize}

\* Every VehicleMake is new, so TypeORM inserts the chunk in one
\* transaction: the unique make_id lets all of it in or none.
Insertable(c) ==
  \A i \in ChunkOf(c) :
    /\ makes[feed[c][i]] = NoMake
    /\ \A k \in ChunkOf(c) : feed[c][k] = feed[c][i] => k = i

InsertChunk(c) ==
  makes' = [m \in MakeIds |->
              IF \E i \in ChunkOf(c) : feed[c][i] = m
              THEN [owner |-> c, typed |-> m \in fetched[c]]
              ELSE makes[m]]

SaveChunk(c) ==
  /\ pc[c] = "saveMany" /\ models[c] # {}
  /\ UNCHANGED <<feed, fetched, pos, attempt, jobs, events, crashes>>
  /\ \/ /\ Insertable(c) /\ InsertChunk(c)
        /\ models' = [models EXCEPT ![c] = @ \ ChunkOf(c)]
        /\ UNCHANGED <<pc, job>>
     \/ ~Insertable(c) /\ Catch(c) /\ UNCHANGED <<makes, models>>
     \/ /\ "db" \in Faults /\ Catch(c) /\ UNCHANGED models
        /\ UNCHANGED makes \/ (Insertable(c) /\ InsertChunk(c))

\* Seeded faults: a last chunk that is not full is dropped; the event is
\* published before the save.
Complete_FullChunksOnly(c) ==
  /\ pc[c] = "saveMany" /\ Cardinality(models[c]) < ChunkSize
  /\ job' = [job EXCEPT ![c] = complete(@)]
  /\ Goto(c, "saveCompleted")
  /\ UNCHANGED <<local, jobs, makes, events, crashes>>
Complete_PublishFirst(c) ==
  /\ pc[c] = "saveMany" /\ models[c] = {}
  /\ job' = [job EXCEPT ![c] = complete(@)]
  /\ Goto(c, "publishCompleted")
  /\ UNCHANGED <<local, jobs, makes, events, crashes>>
Complete(c) ==
  /\ pc[c] = "saveMany" /\ models[c] = {}
  /\ job' = [job EXCEPT ![c] = complete(@)]
  /\ Goto(c, "saveCompleted")
  /\ UNCHANGED <<local, jobs, makes, events, crashes>>

SaveCompleted(c) ==
  /\ pc[c] = "saveCompleted"
  /\ UNCHANGED <<local, makes, events, crashes>>
  /\ \/ SaveJob(c) /\ Goto(c, "publishCompleted") /\ UNCHANGED job
     \/ "db" \in Faults /\ MaybeSaveJob(c) /\ Catch(c)

PublishCompleted(c) ==
  /\ pc[c] = "publishCompleted"
  /\ UNCHANGED <<local, jobs, makes, crashes>>
  /\ \/ Publish(c, "Completed") /\ Goto(c, "resolved") /\ UNCHANGED job
     \/ "broker" \in Faults /\ MaybePublish(c, "Completed") /\ Catch(c)

\* The rest of the catch block: nothing catches what it throws.
SaveFailed(c) ==
  /\ pc[c] = "saveFailed"
  /\ UNCHANGED <<local, makes, events, crashes>>
  /\ \/ SaveJob(c) /\ Goto(c, "publishFailed") /\ UNCHANGED job
     \/ "db" \in Faults /\ MaybeSaveJob(c) /\ Reject(c)

PublishFailed(c) ==
  /\ pc[c] = "publishFailed"
  /\ UNCHANGED <<local, jobs, makes, crashes>>
  /\ \/ Publish(c, "Failed") /\ Goto(c, "resolved") /\ UNCHANGED job
     \/ "broker" \in Faults /\ MaybePublish(c, "Failed") /\ Reject(c)

\* The process dies with every call in it; tables and exchange survive.
Crash ==
  /\ crashes < MaxCrashes
  /\ crashes' = crashes + 1
  /\ pc' = [c \in Calls |-> IF pc[c] \in Running THEN "crashed" ELSE pc[c]]
  /\ UNCHANGED <<job, local, jobs, makes, events>>

Proceed(c) ==
  \/ CreateJob(c) \/ GetAllMakes(c) \/ SaveStarted(c) \/ PublishStarted(c)
  \/ FetchSucceeds(c) \/ FetchRetries(c) \/ FetchGivesUp(c) \/ Transform(c)
  \/ SaveChunk(c) \/ Complete(c) \/ SaveCompleted(c) \/ PublishCompleted(c)
  \/ SaveFailed(c) \/ PublishFailed(c)

Next == Crash \/ \E c \in Calls : Check(c) \/ Proceed(c)

Spec == Init /\ [][Next]_vars

\* The event loop resumes a call whose awaited operation has answered, and the
\* database and the NHTSA client answer in the end, with a result or an error.
\* Not so the broker: publish() awaits waitForConfirms() without a timeout, and
\* nobody who waits is told that the channel closed.  Nobody has to call.
Publishing == {"publishStarted", "publishCompleted", "publishFailed"}
FairSpec == Spec /\ \A c \in Calls : WF_vars(pc[c] \notin Publishing /\ Proceed(c))

-----------------------------------------------------------------------------
(***************************************************************************)
(* Safety                                                                  *)
(***************************************************************************)

\* Every variable keeps its shape: the state a call and the two tables can
\* be in, whatever order the awaits of the calls answer in.
TypeOK ==
  /\ pc \in [Calls -> Control]
  /\ job \in [Calls -> Job \union {NoRow}]
  /\ feed \in [Calls -> Seq(MakeIds)]
  /\ fetched \in [Calls -> SUBSET MakeIds]
  /\ models \in [Calls -> SUBSET Nat]
  /\ pos \in [Calls -> Nat]
  /\ attempt \in [Calls -> 0 .. MaxRetries]
  /\ jobs \in [Calls -> Job \union {NoRow}]
  /\ makes \in [MakeIds -> MakeRow \union {NoMake}]
  /\ events \subseteq Event
  /\ crashes \in 0 .. MaxCrashes

\* A job the table shows as done has counted every make of its feed once,
\* is COMPLETED exactly when none failed, and has one error per failure:
\* no retry, exception or other call makes fetchVehicleTypes lose one.
OutcomeAccountsForEveryMake ==
  \A c \in Calls : jobs[c].status \in SuccessStatus =>
    /\ jobs[c].totalMakes = Len(feed[c])
    /\ jobs[c].processedMakes + jobs[c].failedMakes = jobs[c].totalMakes
    /\ Len(jobs[c].errors) = jobs[c].failedMakes
    /\ (jobs[c].status = "COMPLETED") <=> (jobs[c].failedMakes = 0)

\* execute() saves before it publishes: what an event says of a job, its
\* outcome and its counters, is already in the table and stays there, even
\* when a publish that was reported as failed had been accepted.
SaysTheSame(e, row) ==
  /\ row.status # "ABSENT" /\ row.totalMakes = e.totalMakes
  /\ row.processedMakes = e.processedMakes
  /\ e.kind = "Completed" => row.failedMakes = e.failedMakes
AnnouncedOutcomeIsDurable ==
  \A e \in events :
    /\ e.kind = "Completed" =>
         jobs[e.job].status \in SuccessStatus /\ SaysTheSame(e, jobs[e.job])
    /\ e.kind = "Failed" =>
         jobs[e.job].status = "FAILED" /\ SaysTheSame(e, jobs[e.job])
    /\ e.kind = "Started" =>
         jobs[e.job].status \notin {"ABSENT", "PENDING"}

\* A job the table shows as done has inserted every valid make of its feed
\* itself, and with its vehicle types unless the job recorded an error for
\* it: chunks, duplicates and a competing ingestion never leave a gap.
CompletedIngestionIsStored ==
  \A c \in Calls : jobs[c].status \in SuccessStatus =>
    \A i \in DOMAIN feed[c] : isValidMake(feed[c][i]) =>
      /\ makes[feed[c][i]] # NoMake
      /\ makes[feed[c][i]].owner = c
      /\ makes[feed[c][i]].typed <=>
           \A k \in DOMAIN jobs[c].errors : jobs[c].errors[k] # feed[c][i]

\* Where a call stands says what its row is and which events about it can be
\* on the exchange: the in-memory job is ahead of the row by at most one
\* save, no method of the aggregate is called in a state where it throws
\* (fail() apart), and the catch block is entered with a row not yet final.
Announced(c) == {e.kind : e \in {x \in events : x.job = c}}
CallConsistent(c) ==
  /\ pc[c] \in {"idle", "create", "conflict"} => jobs[c] = NoRow
  /\ pc[c] \in Running => job[c] \in Job
  /\ pc[c] \in {"create", "getAllMakes"} => job[c] = create
  /\ pc[c] \in {"getAllMakes", "saveStarted"} => jobs[c].status = "PENDING"
  /\ pc[c] = "getAllMakes" => CanStart(job[c])
  /\ pc[c] \in {"saveStarted", "publishStarted", "fetch", "saveMany"} =>
       assertInProgress(job[c])
  /\ pc[c] \in {"fetch", "saveMany", "saveCompleted"} =>
       jobs[c].status = "IN_PROGRESS"
  /\ pc[c] \in {"saveCompleted", "publishCompleted"} =>
       job[c].status \in SuccessStatus
  /\ pc[c] \in {"saveFailed", "publishFailed"} => job[c].status = "FAILED"
  /\ pc[c] = "saveFailed" => jobs[c].status \in {"PENDING", "IN_PROGRESS"}
  /\ pc[c] \in {"publishStarted", "publishCompleted", "publishFailed", "resolved"} =>
       jobs[c] = job[c]
  /\ pc[c] = "resolved" => isTerminalState(job[c])
  /\ pc[c] \in {"idle", "create", "conflict", "getAllMakes", "saveStarted",
                "publishStarted"} => Announced(c) = {}
  /\ pc[c] \in {"fetch", "saveMany", "saveCompleted", "publishCompleted"} =>
       Announced(c) = {"Started"}
  /\ pc[c] \in {"saveFailed", "publishFailed"} => Announced(c) \subseteq {"Started"}
Consistent == \A c \in Calls : CallConsistent(c)

-----------------------------------------------------------------------------
(***************************************************************************)
(* What no step does                                                       *)
(***************************************************************************)

\* The row of a finished job is never written again, although the catch
\* block runs after a save of COMPLETED that was reported as failed.
TerminalRowsNeverChange ==
  [][\A c \in Calls :
       jobs[c].status \in TerminalStatus => jobs'[c] = jobs[c]]_vars

\* Nothing in the code repairs the row of a job whose call is gone: it stays
\* IN_PROGRESS, and from then on no call gets past hasRunningJob().
Orphaned(c) == jobs[c].status = "IN_PROGRESS" /\ pc[c] \in Settled
OrphanBlocksForever ==
  [][\A c \in Calls : Orphaned(c) =>
       /\ Orphaned(c)'
       /\ \A d \in Calls : pc[d] = "idle" =>
            pc'[d] \in {"idle", "conflict", "rejected"}]_vars

-----------------------------------------------------------------------------
(***************************************************************************)
(* The abstract specification, with the table and the exchange as its      *)
(* state.                                                                  *)
(***************************************************************************)
statusOf == [c \in Calls |-> jobs[c].status]
announcedOf == [c \in Calls |-> Announced(c)]

Ledger == INSTANCE IngestionLedger
            WITH Jobs <- Calls, status <- statusOf, announced <- announcedOf

\* Table and exchange behave as the ledger of ingestion jobs.
ImplementsLedger == Ledger!Spec

-----------------------------------------------------------------------------
(***************************************************************************)
(* Liveness                                                                *)
(***************************************************************************)

\* A call that was made ends, whatever fails, unless it awaits one publish for
\* ever: every retry is bounded and no exception path waits for anything.
CallsSettle == \A c \in Calls :
  pc[c] # "idle" ~> pc[c] \in Settled \/ [](pc[c] \in Publishing)
=============================================================================
