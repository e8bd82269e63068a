-------------------------- MODULE IngestionSystem --------------------------
(***************************************************************************)
(* Ingestions driven by messages: the Started event that execute()         *)
(* publishes is routed to vehicle.ingestion.process, whose consumer        *)
(* (ingestion-event.consumer.ts) calls execute() again.                    *)
(*                                                                         *)
(* execute() is seen through IngestionLedger, which IngestVehicleData      *)
(* implements: its row, its events, and whether the call resolved.  Every  *)
(* execute() that passes its check is named by the job it creates, and a   *)
(* message by the job whose Started event it carries.  The queue has the   *)
(* arguments of rabbitmq-topology.ts and the binding of the subscription.  *)
(*                                                                         *)
(* The broker redelivers what is unacknowledged when the process dies and  *)
(* when it loses the consumer's channel: a connection that breaks, or an   *)
(* ingestion that outlasts the broker's consumer timeout.  The second does *)
(* not stop the handler.  It goes on, and its ack throws in the end.       *)
(***************************************************************************)
EXTENDS Naturals, FiniteSets

CONSTANTS Jobs,         \* the execute() invocations that pass their check
          None,
          MaxTriggers,  \* bound: ingestions that clients trigger
          MAX_RETRIES,  \* of the consumer (3 in the code)
          MaxCrashes,   \* bound: how often the process may die
          MaxLosses     \* bound: how often the consumer may lose its channel

ASSUME NoneAssumption == None \notin Jobs
ASSUME BoundAssumption ==
  MaxTriggers \in Nat /\ MAX_RETRIES \in Nat /\ MaxCrashes \in Nat /\ MaxLosses \in Nat

VARIABLES status, announced,  \* the ledger
          call,      \* the execute() that creates each job
          cause,     \* the message its caller handles, None for a client
          place,     \* where the broker has the Started message of a job
          headers,   \* x-retry-count of the broker's copy of the message
          current,   \* the message that each channel's handler has
          run,       \* the execute() that it awaits
          losses,    \* the channels lost so far; it also names the open one
          triggers, crashes

ledger == <<status, announced>>
queue == <<place, headers>>
consumer == <<current, run, losses>>
vars == <<ledger, call, cause, queue, consumer, triggers, crashes>>

Channels == 0 .. MaxLosses

Ledger == INSTANCE IngestionLedger

\* The queue as setupRabbitMQTopology() leaves it: declared, bound and empty.
Init ==
  /\ Ledger!Init
  /\ call = [j \in Jobs |-> "none"] /\ cause = [j \in Jobs |-> None]
  /\ place = [j \in Jobs |-> "none"]
  /\ headers = [j \in Jobs |-> 0]
  /\ current = [n \in Channels |-> None] /\ run = [n \in Channels |-> None]
  /\ losses = 0 /\ triggers = 0 /\ crashes = 0

-----------------------------------------------------------------------------
(***************************************************************************)
(* execute()                                                               *)
(***************************************************************************)
\* Seeded fault: no check.
hasRunningJob_Never == FALSE
hasRunningJob == \E j \in Jobs : status[j] = "IN_PROGRESS"

Call(j, m) ==
  /\ call[j] = "none" /\ ~hasRunningJob
  /\ call' = [call EXCEPT ![j] = "running"]
  /\ cause' = [cause EXCEPT ![j] = m]

\* A client's execute().  One that is refused changes nothing.
Trigger(j) ==
  /\ triggers < MaxTriggers
  /\ Call(j, None)
  /\ triggers' = triggers + 1
  /\ UNCHANGED <<ledger, queue, consumer, crashes>>

\* Saves and publishes but the Started event.
Save(j) ==
  /\ call[j] = "running"
  /\ \/ Ledger!Create(j) \/ Ledger!Begin(j) \/ Ledger!Abandon(j)
     \/ Ledger!Finish(j) /\ (status'[j] = "FAILED" \/ announced[j] # {})
     \/ Ledger!AnnounceCompleted(j) \/ Ledger!AnnounceFailed(j)
  /\ UNCHANGED <<call, cause, queue, consumer, triggers, crashes>>

\* Seeded fault: the event is published before the save that starts the job.
AnnounceStarted_First(j) ==
  /\ call[j] = "running" /\ status[j] = "PENDING" /\ announced[j] = {}
  /\ announced' = [announced EXCEPT ![j] = {"Started"}]
  /\ place' = [place EXCEPT ![j] = "ready"]
  /\ UNCHANGED <<status, call, cause, headers, consumer, triggers, crashes>>
\* The exchange routes the Started event to the queue.
AnnounceStarted(j) ==
  /\ call[j] = "running"
  /\ Ledger!AnnounceStarted(j)
  /\ place' = [place EXCEPT ![j] = "ready"]
  /\ UNCHANGED <<call, cause, headers, consumer, triggers, crashes>>

\* execute() returns the job, be it completed or failed.
Resolve(j) ==
  /\ call[j] = "running" /\ announced[j] \intersect {"Completed", "Failed"} # {}
  /\ call' = [call EXCEPT ![j] = "resolved"]
  /\ UNCHANGED <<ledger, cause, queue, consumer, triggers, crashes>>

\* A save or a publish of the catch block fails, or fail() throws in it.
Reject(j) ==
  /\ call[j] = "running"
  /\ call' = [call EXCEPT ![j] = "rejected"]
  /\ UNCHANGED <<ledger, cause, queue, consumer, triggers, crashes>>

-----------------------------------------------------------------------------
(***************************************************************************)
(* The queue and its consumer, one unacknowledged message at a time.  What *)
(* a handler does concerns the broker only while its channel is open.      *)
(***************************************************************************)
Deliver(m) ==
  /\ current[losses] = None /\ place[m] = "ready"
  /\ current' = [current EXCEPT ![losses] = m]
  /\ place' = [place EXCEPT ![m] = "unacked"]
  /\ UNCHANGED <<ledger, call, cause, headers, run, losses, triggers, crashes>>

\* The handler calls execute(), which passes its check.
Execute(n, j) ==
  /\ current[n] # None /\ run[n] = None
  /\ Call(j, current[n])
  /\ run' = [run EXCEPT ![n] = j]
  /\ UNCHANGED <<ledger, queue, current, losses, triggers, crashes>>

\* The handler is over.  On a channel that was lost its ack throws, and so
\* does the nack of handleError() that this leads to: the broker has given the
\* message to somebody else and hears of neither.  Seeded fault: a late ack
\* or nack reaches the broker through the new channel.
Settle_AnyChannel(n, where) ==
  /\ place' = [place EXCEPT ![current[n]] = where]
  /\ current' = [current EXCEPT ![n] = None] /\ run' = [run EXCEPT ![n] = None]
Settle(n, where) ==
  /\ place' = IF n = losses THEN [place EXCEPT ![current[n]] = where] ELSE place
  /\ current' = [current EXCEPT ![n] = None] /\ run' = [run EXCEPT ![n] = None]

\* Seeded faults: the message is acknowledged before execute() is over; a
\* handled message is given back.
Ack_Early(n) ==
  /\ run[n] # None
  /\ Settle(n, "acked")
  /\ UNCHANGED <<ledger, call, cause, headers, losses, triggers, crashes>>
Ack_Requeues(n) ==
  /\ run[n] # None /\ call[run[n]] = "resolved"
  /\ Settle(n, "ready")
  /\ UNCHANGED <<ledger, call, cause, headers, losses, triggers, crashes>>
Ack(n) ==
  /\ run[n] # None /\ call[run[n]] = "resolved"
  /\ Settle(n, "acked")
  /\ UNCHANGED <<ledger, call, cause, headers, losses, triggers, crashes>>

\* handleError() writes the next retry count to the delivered copy and nacks;
\* what is requeued is the copy of the broker.
handleError(n) ==
  /\ Settle(n, IF headers[current[n]] < MAX_RETRIES THEN "ready" ELSE "dead")
  /\ UNCHANGED <<ledger, call, cause, headers, losses, triggers, crashes>>

\* execute() threw: a ConflictError at once, or anything later.
Refused(n) == current[n] # None /\ run[n] = None /\ hasRunningJob /\ handleError(n)
Failed(n) == run[n] # None /\ call[run[n]] = "rejected" /\ handleError(n)

\* x-message-ttl: the queue moves a message to the dead letter exchange.
Expire(m) ==
  /\ place[m] = "ready"
  /\ place' = [place EXCEPT ![m] = "dead"]
  /\ UNCHANGED <<ledger, call, cause, headers, consumer, triggers, crashes>>

Redelivered == [j \in Jobs |-> IF place[j] = "unacked" THEN "ready" ELSE place[j]]

\* The broker or the network closes the consumer's channel, and the consumer
\* gets another one: the message comes back while its handler goes on.
LoseChannel ==
  /\ losses < MaxLosses
  /\ losses' = losses + 1
  /\ place' = Redelivered
  /\ UNCHANGED <<ledger, call, cause, headers, current, run, triggers, crashes>>

\* The process dies, with every handler and every execute() in it.
Crash ==
  /\ crashes < MaxCrashes
  /\ crashes' = crashes + 1
  /\ call' = [j \in Jobs |-> IF call[j] = "running" THEN "crashed" ELSE call[j]]
  /\ place' = Redelivered
  /\ current' = [n \in Channels |-> None] /\ run' = [n \in Channels |-> None]
  /\ UNCHANGED <<ledger, cause, headers, losses, triggers>>

Next ==
  \/ LoseChannel \/ Crash
  \/ \E n \in Channels : Ack(n) \/ Refused(n) \/ Failed(n) \/ \E j \in Jobs : Execute(n, j)
  \/ \E j \in Jobs :
       \/ Trigger(j) \/ Save(j) \/ AnnounceStarted(j) \/ Resolve(j) \/ Reject(j)
       \/ Deliver(j) \/ Expire(j)

Spec == Init /\ [][Next]_vars

-----------------------------------------------------------------------------
\* The broker counts as unacknowledged what the handler of the open channel
\* has, and nothing else, whatever the handlers of lost channels still do; a
\* handler awaits an execute() only for its message.
TypeOK ==
  /\ status \in [Jobs -> Ledger!Success \union
                          {"ABSENT", "PENDING", "IN_PROGRESS", "FAILED"}]
  /\ announced \in [Jobs -> SUBSET {"Started", "Completed", "Failed"}]
  /\ call \in [Jobs -> {"none", "running", "resolved", "rejected", "crashed"}]
  /\ cause \in [Jobs -> Jobs \union {None}]
  /\ place \in [Jobs -> {"none", "ready", "unacked", "acked", "dead"}]
  /\ headers \in [Jobs -> 0 .. MAX_RETRIES]
  /\ current \in [Channels -> Jobs \union {None}] /\ run \in [Channels -> Jobs \union {None}]
  /\ losses \in Channels /\ triggers \in 0 .. MaxTriggers /\ crashes \in 0 .. MaxCrashes
  /\ \A m \in Jobs : place[m] = "unacked" <=> m = current[losses]
  /\ \A n \in Channels : /\ run[n] # None => current[n] # None /\ cause[run[n]] = current[n]
                         /\ n > losses => current[n] = None

\* Messages alone make at most one ingestion per channel write makes at once,
\* and only one while the consumer keeps its channel, although hasRunningJob()
\* and the save of the row are apart: the event that drives the next ingestion
\* is published when the row already says IN_PROGRESS, and the consumer handles
\* one message at a time.  A handler whose channel was lost goes on beside the
\* one that gets its message next.  Two clients do what they like
\* (concurrent_ingestion), so this is about one trigger.
AtWork(j) ==
  call[j] = "running" /\ status[j] \in {"ABSENT", "PENDING", "IN_PROGRESS"}
OneAtWorkPerChannel ==
  triggers <= 1 => Cardinality({j \in Jobs : AtWork(j)}) <= 1 + losses

\* A message is acknowledged for an outcome: its handler ran an ingestion to
\* a row that is final and announced, whatever was refused, redelivered or
\* lost in a crash before.
AckedHasOutcome ==
  \A m \in Jobs : place[m] = "acked" =>
    \E j \in Jobs : /\ cause[j] = m /\ call[j] = "resolved"
                    /\ status[j] \in Ledger!Success \union {"FAILED"}
                    /\ announced[j] \intersect {"Completed", "Failed"} # {}

\* A message is carried out again only for a redelivery that the consumer did
\* not ask for: a crash, or a channel lost before the ack.  Neither requeueing
\* nor an ack that throws makes the broker repeat one that was carried out.
NoDoubleProcessing ==
  \A m \in Jobs :
    Cardinality({j \in Jobs : cause[j] = m /\ call[j] = "resolved"}) <= 1 + crashes + losses

\* A row left IN_PROGRESS by a crash or a rejected call stops the queue: no
\* message is acknowledged any more and no job created.  Where a channel was
\* lost, another ingestion may be at work beside the orphan and end.
Orphan(j) == status[j] = "IN_PROGRESS" /\ call[j] \in {"rejected", "crashed"}
OrphanStopsTheQueue ==
  [][ triggers <= 1 /\ losses = 0 /\ (\E j \in Jobs : Orphan(j)) =>
        \A j \in Jobs : /\ status'[j] = status[j]
                        /\ place'[j] = "acked" => place[j] = "acked" ]_vars

=============================================================================
