---------------------------- MODULE StatusReader ----------------------------
(***************************************************************************)
(* The readers of the ingestion_jobs table: the GraphQL queries            *)
(* ingestionStatus and ingestionJob, through IngestDataService and the     *)
(* IngestionJobRepository, next to the calls of IngestVehicleData that     *)
(* write the table.  ingestionStatus takes two queries, and a job may      *)
(* start or end between them.  A client is modelled by what it has been    *)
(* told: the last answer it got about each job.                            *)
(***************************************************************************)
EXTENDS IngestVehicleData, FiniteSetsExt

CONSTANTS Clients,   \* who asks, one request at a time
          NoJob      \* the answer null

ASSUME NoJobAssumption == NoJob \notin Calls

VARIABLES startedAt, \* startedAt of the in-memory job, 0 before create()
          request,   \* where a client's ingestionStatus stands, and the jobs
                     \* that existed at its first query
          answer,    \* the last answer the client got: a job and what it was
                     \* told about it
          disturbed  \* a database or broker operation rejected, or a crash

readerVars == <<startedAt, request, answer, disturbed>>
allVars == <<vars, readerVars>>

\* The answer without the ids, the dates and the texts: the DTO of a row, and
\* what the resolver makes of it, with Math.round of the share.
toDTO(row) ==
  [status |-> row.status, totalMakes |-> row.totalMakes,
   processedMakes |-> row.processedMakes, failedMakes |-> row.failedMakes,
   completed |-> row.completed, errors |-> row.errors]
progress(dto) ==
  IF dto.totalMakes > 0
  THEN (200 * (dto.processedMakes + dto.failedMakes) + dto.totalMakes)
         \div (2 * dto.totalMakes)
  ELSE 0
toGraphQL(dto) ==
  [status |-> dto.status, totalMakes |-> dto.totalMakes,
   processedMakes |-> dto.processedMakes, failedMakes |-> dto.failedMakes,
   completed |-> dto.completed, progress |-> progress(dto), errors |-> dto.errors]

Stored == {c \in Calls : jobs[c].status # "ABSENT"}

\* order: { startedAt: 'DESC' }: jobs created in the same millisecond come in
\* any order, hence the set of those that may come first.  Seeded fault: the
\* order is ascending.
Newest_Oldest(S) == {c \in S : \A d \in S : startedAt[d] >= startedAt[c]}
Newest(S) == {c \in S : \A d \in S : startedAt[d] <= startedAt[c]}

findByStatus(status) == {c \in Calls : jobs[c].status = status}

Idle == [phase |-> "idle", known |-> {}]
Nothing == [job |-> NoJob, told |-> NoRow]

ReaderInit ==
  /\ Init
  /\ startedAt = [c \in Calls |-> 0]
  /\ request = [r \in Clients |-> Idle]
  /\ answer = [r \in Clients |-> Nothing]
  /\ disturbed = FALSE

\* The clock of the process does not run backwards; two jobs may be created
\* in the same millisecond.
Now == Max({startedAt[c] : c \in Calls})
Stamp(c) ==
  startedAt' \in IF pc[c] = "idle" /\ pc'[c] = "create"
                 THEN {[startedAt EXCEPT ![c] = t] : t \in {Now, Now + 1} \ {0}}
                 ELSE {startedAt}

\* An awaited operation on the database or the broker rejected.  A chunk that
\* collides with a stored make is the data's fault.
Rejected(c) ==
  /\ pc[c] \notin {"getAllMakes", "fetch"}
  /\ pc'[c] \in {"saveFailed", "rejected"}
  /\ pc[c] = "saveMany" => Insertable(c)

Ingest(c) ==
  /\ Check(c) \/ Proceed(c)
  /\ Stamp(c)
  /\ disturbed' = (disturbed \/ Rejected(c))
  /\ UNCHANGED <<request, answer>>

\* The requests under way die with the process; their clients may ask again.
Die ==
  /\ Crash
  /\ disturbed' = TRUE
  /\ request' = [r \in Clients |-> Idle]
  /\ UNCHANGED <<startedAt, answer>>

Tell(r, c) == answer' = [answer EXCEPT ![r] = [job |-> c, told |-> toGraphQL(toDTO(jobs[c]))]]

\* getCurrentIngestion(): the newest running job, if there is one ...
FindRunning(r) ==
  LET running == findByStatus("IN_PROGRESS")
  IN /\ request[r].phase = "idle"
     /\ \/ /\ running = {} /\ UNCHANGED answer
           /\ request' = [request EXCEPT ![r] = [phase |-> "latest", known |-> Stored]]
        \/ /\ \E c \in Newest(running) : Tell(r, c)
           /\ UNCHANGED request
     /\ UNCHANGED <<vars, startedAt, disturbed>>

\* ... and otherwise, one await later, the newest job of all.
FindLatest(r) ==
  /\ request[r].phase = "latest"
  /\ request' = [request EXCEPT ![r] = Idle]
  /\ \/ Stored = {} /\ answer' = [answer EXCEPT ![r] = Nothing]
     \/ \E c \in Newest(Stored) : Tell(r, c)
  /\ UNCHANGED <<vars, startedAt, disturbed>>

\* getIngestionStatus(id): one query.
FindById(r, c) ==
  /\ request[r].phase = "idle" /\ c \in Stored
  /\ Tell(r, c)
  /\ UNCHANGED <<vars, startedAt, request, disturbed>>

Ask(r) == FindRunning(r) \/ FindLatest(r) \/ \E c \in Calls : FindById(r, c)
ReaderNext == Die \/ (\E c \in Calls : Ingest(c)) \/ \E r \in Clients : Ask(r)

ReaderSpec == ReaderInit /\ [][ReaderNext]_allVars

\* The fairness of FairSpec: what a call awaits answers in the end, but for a
\* publish; nobody has to call or to ask.
FairReaderSpec ==
  /\ ReaderSpec
  /\ \A c \in Calls : WF_allVars(pc[c] \notin {"idle"} \union Publishing /\ Ingest(c))

-----------------------------------------------------------------------------
(***************************************************************************)
(* What no step does                                                       *)
(***************************************************************************)

Rank(status) ==
  CASE status = "PENDING" -> 0 [] status = "IN_PROGRESS" -> 1 [] OTHER -> 2

\* What a client is told of a job never goes back: no status before one it
\* was told already, no smaller counter, and nothing new about a job it was
\* told is over - also across a crash, and when a save that was reported as
\* failed had taken effect.
Supersedes(new, old) ==
  /\ Rank(new.status) >= Rank(old.status)
  /\ Rank(old.status) = 2 => new = old
  /\ new.totalMakes >= old.totalMakes /\ new.progress >= old.progress
  /\ new.processedMakes >= old.processedMakes /\ new.failedMakes >= old.failedMakes
PollsNeverGoBack ==
  [][\A r \in Clients :
       /\ answer[r] # Nothing /\ answer'[r] # Nothing
       /\ answer'[r].job = answer[r].job
       => Supersedes(answer'[r].told, answer[r].told)]_allVars

\* What ingestionStatus answers with one query or with two, between which
\* jobs may start and end.  Known(r) are the jobs that client r may expect it to
\* know: those that existed at its first query, those whose trigger was
\* answered, and the one that r was told about last.  The answer is null only if
\* there are none.  It is about the newest running job, which may be older than
\* a known one that is still PENDING or is over already; or it is about a job at
\* least as new as all that are known.  So polling never goes from a job to an
\* older one that does not run.
Known(r) ==
  (IF request[r].phase = "idle" THEN Stored ELSE request[r].known)
    \union {c \in Calls : pc[c] = "resolved"} \union ({answer[r].job} \ {NoJob})
NewestOf(c, S) == c # NoJob /\ \A d \in S : startedAt[d] <= startedAt[c]
CurrentIsNotStale ==
  [][\A r \in Clients :
       FindLatest(r) \/ (FindRunning(r) /\ request'[r].phase = "idle") =>
         LET c == answer'[r].job
         IN \/ c = NoJob /\ Known(r) = {}
            \/ /\ NewestOf(c, findByStatus("IN_PROGRESS"))
               /\ answer'[r].told.status = "IN_PROGRESS"
            \/ NewestOf(c, Known(r))]_allVars

-----------------------------------------------------------------------------
(***************************************************************************)
(* Liveness                                                                *)
(***************************************************************************)

\* While no operation of the database or the broker rejects and the process
\* lives, every job that was created gets an outcome and its event, unless its
\* call awaits one publish for ever, however often the NHTSA API fails and a
\* chunk collides: nothing else can take the outcome away.
UndisturbedJobsGetAnOutcome ==
  \A c \in Calls : jobs[c].status # "ABSENT" ~>
    \/ disturbed \/ [](pc[c] \in Publishing)
    \/ isTerminalState(jobs[c]) /\ Announced(c) \intersect {"Completed", "Failed"} # {}
=============================================================================
