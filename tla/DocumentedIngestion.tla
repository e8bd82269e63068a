------------------------ MODULE DocumentedIngestion ------------------------
(***************************************************************************)
(* What the documentation and the feature files say of an ingestion, as    *)
(* properties of IngestVehicleData.  None of them holds of the code: each  *)
(* is the property of a run whose trace shows how the code departs from    *)
(* the text.                                                               *)
(***************************************************************************)
EXTENDS MCIngestVehicleData

\* data-ingestion.feature, "Prevent concurrent ingestion": when a job is
\* already running the new job is not created.  hasRunningJob() and the
\* first save are two awaits, and a job counts only once it is IN_PROGRESS.
NoJobCreatedWhileOneRuns ==
  [][\A c, d \in Calls :
       jobs[d].status = "IN_PROGRESS" /\ jobs[c].status = "ABSENT"
         => jobs'[c].status = "ABSENT"]_vars

\* sequence-diagrams.md, "Error Handling Flow": on a critical failure the
\* status becomes FAILED.  When the save of the completed job is what fails,
\* fail() throws on the job that is already terminal in memory, the save of
\* FAILED is never tried, and the row stays IN_PROGRESS for good.
FailedCompletionIsNotLeftRunning ==
  \A c \in Calls :
    pc[c] = "rejected" /\ job[c].status \in SuccessStatus
      => jobs[c].status # "IN_PROGRESS"

\* API.md, "GET /api/v1/ingestion/status": a job that is IN_PROGRESS shows 5432
\* of 10000 makes processed; sequence-diagrams.md, "Data Ingestion Flow": the
\* worker saves the count with each make.  The row may lag by the make that was
\* just fetched.  In the code the counters stay in the memory of the call, and
\* the row of a running job says 0 to the end.
RunningRowShowsProgress ==
  \A c \in Calls :
    pc[c] = "fetch" =>
      jobs[c].processedMakes + jobs[c].failedMakes + 1 >=
        job[c].processedMakes + job[c].failedMakes
=============================================================================
