---------------------------- MODULE IngestionJob ----------------------------
(***************************************************************************)
(* The IngestionJob aggregate (core/domain/entities/ingestion-job.entity.ts) *)
(* as a record and one operator per method.  A method that may throw is an *)
(* operator with its precondition beside it: the caller decides what the   *)
(* InvalidStateTransitionError does.  Timestamps are abstracted to whether *)
(* completedAt is set, an IngestionError to the make it is about (0 for    *)
(* the error fail() pushes).  A definition called X_Y is X with the fault Y *)
(* seeded into it: nothing uses it but the experiments that show that the  *)
(* properties notice the fault.                                            *)
(***************************************************************************)
EXTENDS Integers, Sequences

SuccessStatus == {"COMPLETED", "PARTIALLY_COMPLETED"}
TerminalStatus == SuccessStatus \union {"FAILED"}
IngestionStatus == {"PENDING", "IN_PROGRESS"} \union TerminalStatus

Job == [status : IngestionStatus, totalMakes : Nat, processedMakes : Nat,
        failedMakes : Nat, errors : Seq(Nat), completed : BOOLEAN]

\* The makeId of the error that fail() records for the job as a whole.
WholeJob == 0

create ==
  [status |-> "PENDING", totalMakes |-> 0, processedMakes |-> 0,
   failedMakes |-> 0, errors |-> << >>, completed |-> FALSE]

\* Seeded fault: the partly successful outcome is forgotten.
isTerminalState_NoPartial(job) == job.status \in {"COMPLETED", "FAILED"}
isTerminalState(job) == job.status \in TerminalStatus

assertInProgress(job) == job.status = "IN_PROGRESS"

CanStart(job) == job.status = "PENDING"

start(job, totalMakes) ==
  [job EXCEPT !.status = "IN_PROGRESS", !.totalMakes = totalMakes]

incrementProcessed(job) == [job EXCEPT !.processedMakes = @ + 1]

\* Seeded fault: the counter runs the wrong way.
recordFailure_Decrements(job, makeId) ==
  [job EXCEPT !.failedMakes = @ - 1, !.errors = Append(@, makeId)]
recordFailure(job, makeId) ==
  [job EXCEPT !.failedMakes = @ + 1, !.errors = Append(@, makeId)]

complete(job) ==
  [job EXCEPT !.status = IF job.failedMakes > 0 THEN "PARTIALLY_COMPLETED"
                                                 ELSE "COMPLETED",
              !.completed = TRUE]

\* fail() throws on a terminal job: see isTerminalState at the call.
fail(job) ==
  [job EXCEPT !.status = "FAILED", !.completed = TRUE,
              !.errors = Append(@, WholeJob)]
=============================================================================
