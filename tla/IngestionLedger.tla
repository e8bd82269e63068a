-------------------------- MODULE IngestionLedger --------------------------
(***************************************************************************)
(* What the ingestion subsystem promises to whoever reads the              *)
(* ingestion_jobs table and listens on the vehicle.events exchange: the    *)
(* states a job goes through, and that an event about a job is announced   *)
(* at most once and only when the table already says the same.             *)
(***************************************************************************)
CONSTANT Jobs

VARIABLES status,      \* status column of the job's row, "ABSENT" before it
          announced    \* the kinds of event the exchange got about the job

vars == <<status, announced>>

Success == {"COMPLETED", "PARTIALLY_COMPLETED"}

Init ==
  /\ status = [j \in Jobs |-> "ABSENT"]
  /\ announced = [j \in Jobs |-> {}]

Move(j, from, to) ==
  /\ status[j] = from
  /\ status' = [status EXCEPT ![j] = to]
  /\ UNCHANGED announced

Create(j) == Move(j, "ABSENT", "PENDING")
Begin(j)  == Move(j, "PENDING", "IN_PROGRESS")

\* A job that never got its list of makes fails without having begun.
Abandon(j) == Move(j, "PENDING", "FAILED")

Finish(j) == \E s \in Success \union {"FAILED"} : Move(j, "IN_PROGRESS", s)

Announce(j, kind) ==
  /\ kind \notin announced[j]
  /\ announced' = [announced EXCEPT ![j] = @ \union {kind}]
  /\ UNCHANGED status

AnnounceStarted(j) ==
  status[j] = "IN_PROGRESS" /\ announced[j] = {} /\ Announce(j, "Started")

AnnounceCompleted(j) ==
  status[j] \in Success /\ announced[j] = {"Started"} /\ Announce(j, "Completed")

AnnounceFailed(j) ==
  status[j] = "FAILED" /\ Announce(j, "Failed")

Next == \E j \in Jobs :
  \/ Create(j) \/ Begin(j) \/ Abandon(j) \/ Finish(j)
  \/ AnnounceStarted(j) \/ AnnounceCompleted(j) \/ AnnounceFailed(j)

Spec == Init /\ [][Next]_vars
=============================================================================
