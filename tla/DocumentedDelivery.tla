------------------------- MODULE DocumentedDelivery -------------------------
(***************************************************************************)
(* What the tests and the documentation say of message-driven ingestion    *)
(* and the code does not keep.  A history variable counts how often        *)
(* handleError() got each message.                                         *)
(***************************************************************************)
EXTENDS IngestionSystem

VARIABLE failures

CountedInit == Init /\ failures = [m \in Jobs |-> 0]

\* Bound: one failure more than the limit.
Fails(m) == \E n \in Channels : current[n] = m /\ (Refused(n) \/ Failed(n))
Count == failures' = [m \in Jobs |-> failures[m] + IF Fails(m) THEN 1 ELSE 0]
CountedNext ==
  /\ Next /\ Count
  /\ \A m \in Jobs : failures[m] <= MAX_RETRIES + 1

CountedSpec == CountedInit /\ [][CountedNext]_<<vars, failures>>

\* ingestion-event.consumer.spec.ts: "nacks without requeue after max
\* retries".  What is requeued never counts, and the ingestion that published
\* the message makes the consumer refuse it again and again while it runs.
RetriesAreBounded == \A m \in Jobs : failures[m] <= MAX_RETRIES + 1

\* sequence-diagrams.md, "Data Ingestion Flow": the Started event carries out
\* the job that a client triggered.  The consumer creates another one, whose
\* Started event creates the next.
OneJobPerTrigger ==
  Cardinality({j \in Jobs : status[j] # "ABSENT"}) <= triggers
=============================================================================
