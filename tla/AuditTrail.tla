----------------------------- MODULE AuditTrail -----------------------------
(***************************************************************************)
(* The events of ConfirmChannel on their way into the audit log: the queue *)
(* vehicle.audit.log, bound to the exchange with #, and AuditLogConsumer   *)
(* (adapters/primary/messaging/consumers/audit-log.consumer.ts), which     *)
(* writes an entry and acknowledges.                                       *)
(*                                                                         *)
(* The consumer holds one message at a time (prefetchCount 1).  Its        *)
(* process may restart and its channel may close, before or after the ack  *)
(* is sent: the broker takes the unacknowledged message back to the place  *)
(* it had.  The queue is durable and its messages persistent, and this     *)
(* queue's messages do not expire.                                         *)
(***************************************************************************)
EXTENDS ConfirmChannel, SequencesExt

CONSTANT MaxRedeliveries   \* bound: how often an ack is lost after its entry

ASSUME RedeliveryAssumption == MaxRedeliveries \in Nat

VARIABLES queue,     \* the delivery tags in vehicle.audit.log, oldest first
          acking,    \* whether the ack of the first of them is under way
          log,       \* the audit entries, by delivery tag
          redeliveries

auditVars == <<queue, acking, log, redeliveries>>
allVars == <<vars, auditVars>>

AuditInit ==
  /\ Init
  /\ queue = << >> /\ acking = FALSE
  /\ log = << >> /\ redeliveries = 0

\* A message that the exchange takes goes to the end of the queue.
Taken == {t \in Tags : msgs[t].state = "wire" /\ msgs'[t].state = "taken"}
Routed(A) ==
  /\ A
  /\ queue' = queue \o SetToSeq(Taken)
  /\ UNCHANGED <<acking, log, redeliveries>>

\* Seeded fault: the entry is written and the message given back.
handleEvent_Nacks ==
  /\ ~acking /\ queue # << >> /\ Len(log) < 4
  /\ log' = Append(log, Head(queue))
  /\ UNCHANGED <<vars, queue, acking, redeliveries>>
\* A delivery: the entry is written and the ack sent, which is on its way.
handleEvent ==
  /\ ~acking /\ queue # << >>
  /\ log' = Append(log, Head(queue))
  /\ acking' = TRUE
  /\ UNCHANGED <<vars, queue, redeliveries>>

\* Seeded faults: the message is dropped; it is put behind the others.
LoggingFails_Drops ==
  /\ ~acking /\ queue # << >>
  /\ queue' = Tail(queue)
  /\ UNCHANGED <<vars, acking, log, redeliveries>>
LoggingFails_ToTheEnd ==
  /\ ~acking /\ queue # << >>
  /\ queue' = Append(Tail(queue), Head(queue))
  /\ UNCHANGED <<vars, acking, log, redeliveries>>
\* A delivery for which the logger throws: nack with requeue, which puts the
\* message back where it was.
LoggingFails == ~acking /\ queue # << >> /\ UNCHANGED allVars

Acked ==
  /\ acking /\ acking' = FALSE
  /\ queue' = Tail(queue)
  /\ UNCHANGED <<vars, log, redeliveries>>

\* The ack never reaches the broker: the process or the channel is gone first.
LoseAck ==
  /\ acking /\ acking' = FALSE
  /\ redeliveries < MaxRedeliveries /\ redeliveries' = redeliveries + 1
  /\ UNCHANGED <<vars, queue, log>>

\* A delivery whose channel has closed meanwhile: the entry is written, the ack
\* throws, and the nack of the catch block that this leads to throws as well.
\* Nobody tells the broker anything, and it delivers the message once more.
AckThrows ==
  /\ ~acking /\ queue # << >>
  /\ log' = Append(log, Head(queue))
  /\ redeliveries < MaxRedeliveries /\ redeliveries' = redeliveries + 1
  /\ UNCHANGED <<vars, queue, acking>>

Consume == handleEvent \/ Acked
AuditNext == Routed(Next) \/ Consume \/ LoggingFails \/ LoseAck \/ AckThrows

AuditSpec == AuditInit /\ [][AuditNext]_allVars

\* The event loop resumes a call whose promise is settled; while the channel
\* is open the broker reads and answers what it is sent; it delivers what is
\* queued and gets the acks; the logger does not fail for ever.  Nobody has
\* to call, and nobody who waits is told that the channel closed.
FairAuditSpec ==
  /\ AuditSpec
  /\ WF_allVars(Routed(Broker))
  /\ WF_allVars(Routed(\E p \in Publishers : Proceed(p)))
  /\ WF_allVars(Consume)

-----------------------------------------------------------------------------
\* The log tells the events of all callers in the order in which they went
\* to the exchange, across nacks and redeliveries; only neighbours repeat.
LoggedInOrder ==
  \A i, k \in DOMAIN log : i < k => log[i] <= log[k]

\* An event is logged again only for an ack that was lost or thrown after its
\* entry: a failure of the logger, and the nack it leads to, repeats nothing.
RepeatsNeedARedelivery ==
  Len(log) <= Cardinality(ToSet(log)) + redeliveries

\* An event whose publish() resolved reaches the audit log, whatever other
\* callers publish, how often the logger fails, and also when the
\* publisher's channel closes or the consumer restarts or loses its own.
ConfirmedIsLogged ==
  \A p \in Publishers :
    pc[p] = "resolved" ~> \A i \in 1 .. Batch[p] :
      \E t \in ToSet(log) : msgs[t].by = p /\ msgs[t].event = i
=============================================================================
