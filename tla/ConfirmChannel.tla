--------------------------- MODULE ConfirmChannel ---------------------------
(***************************************************************************)
(* RabbitMQEventPublisher (adapters/secondary/messaging/publishers):       *)
(* publish(), publishWithRetry() and publishMany() called by several       *)
(* callers of one process, which share one confirm channel.                *)
(*                                                                         *)
(* The three methods are one loop: a call publishes Batch[p] events one    *)
(* after the other and tries each Attempts[p] times.  channel.publish()    *)
(* always queues the message, and says with its result whether the write   *)
(* buffer is full; waitForConfirms() waits for whatever the channel has    *)
(* not had confirmed, messages of other callers and of rejected calls      *)
(* included, and rejects when one of those is nacked.                      *)
(*                                                                         *)
(* The channel and the broker are modelled by what the publisher uses of   *)
(* them: messages reach the broker in order, it takes or refuses each, its *)
(* answers come back in any order, and the channel can close, which        *)
(* nothing in the code repairs.                                            *)
(***************************************************************************)
EXTENDS Integers, Sequences, FiniteSets

CONSTANTS Publishers,  \* the calls
          Batch,       \* events of each call: 1 but for publishMany
          Attempts     \* tries per event: 1 but for publishWithRetry

ASSUME CallAssumption ==
  /\ Batch \in [Publishers -> Nat \ {0}]
  /\ Attempts \in [Publishers -> Nat \ {0}]
  /\ \A p \in Publishers : Batch[p] = 1 \/ Attempts[p] = 1

VARIABLES pc,       \* where each call stands
          event,    \* which event of its batch it is at
          attempt,  \* the failed tries of that event
          awaits,   \* the delivery tags its waitForConfirms() waits for
          msgs,     \* what was queued on the channel, by delivery tag
          open      \* whether the channel is open

vars == <<pc, event, attempt, awaits, msgs, open>>

\* A message waits to be written, was taken into the exchange or refused by
\* the broker, has its answer back at the channel, or went down with it.  What
\* serializeEvent() and getRoutingKey() make of an event is named by the event.
Unanswered == {"wire", "taken", "refused"}
OnExchange == {"taken", "acked"}
Message == [by : Publishers, event : Nat, full : BOOLEAN,
            state : Unanswered \union {"acked", "nacked", "lost"}]

\* One connection and one confirm channel for all who publish.
Init ==
  /\ pc = [p \in Publishers |-> "idle"]
  /\ event = [p \in Publishers |-> 1]
  /\ attempt = [p \in Publishers |-> 0]
  /\ awaits = [p \in Publishers |-> {}]
  /\ msgs = << >>
  /\ open = TRUE

Goto(p, label) == pc' = [pc EXCEPT ![p] = label]

Begin(p) ==
  /\ pc[p] = "idle" /\ Goto(p, "publish")
  /\ UNCHANGED <<event, attempt, awaits, msgs, open>>

\* The catch block of publish(), and that of publishWithRetry().
PublishFails(p) ==
  /\ attempt' = [attempt EXCEPT ![p] = @ + 1]
  /\ Goto(p, IF attempt[p] + 1 >= Attempts[p] THEN "rejected" ELSE "publish")

Tags == DOMAIN msgs
Unconfirmed == {t \in Tags : msgs[t].state \in Unanswered}

\* Seeded fault: waitForConfirms() is asked for before the message is queued.
Awaited_Before == Unconfirmed
\* What waitForConfirms() waits for right after a message was queued.
Awaited == Unconfirmed \union {Len(msgs) + 1}

Queue(p, full) ==
  msgs' = Append(msgs, [by |-> p, event |-> event[p], full |-> full, state |-> "wire"])

Send(p) ==
  /\ pc[p] = "publish" /\ open
  /\ UNCHANGED <<event, open>>
  /\ \/ /\ Queue(p, FALSE) /\ Goto(p, "waiting")
        /\ awaits' = [awaits EXCEPT ![p] = Awaited]
        /\ UNCHANGED attempt
     \/ Queue(p, TRUE) /\ PublishFails(p) /\ UNCHANGED awaits

\* channel.publish() throws on a closed channel.
SendFails(p) ==
  /\ pc[p] = "publish" /\ ~open /\ PublishFails(p)
  /\ UNCHANGED <<event, awaits, msgs, open>>

AllAcked(p) == \A t \in awaits[p] : msgs[t].state = "acked"
\* Seeded fault: a nack fails whoever waits.
OneNacked_AnyMessage(p) == \E t \in Tags : msgs[t].state = "nacked"
OneNacked(p) == \E t \in awaits[p] : msgs[t].state = "nacked"

\* Seeded fault: any answer of the broker counts as a confirm.
Confirmed_AnyAnswer(p) ==
  /\ pc[p] = "waiting" /\ \A t \in awaits[p] : msgs[t].state \in {"acked", "nacked"}
  /\ Goto(p, IF event[p] = Batch[p] THEN "resolved" ELSE "publish")
  /\ event' = [event EXCEPT ![p] = IF @ = Batch[p] THEN @ ELSE @ + 1]
  /\ UNCHANGED <<attempt, awaits, msgs, open>>
\* waitForConfirms() resolves: the call is over or goes on to its next event.
Confirmed(p) ==
  /\ pc[p] = "waiting" /\ AllAcked(p)
  /\ Goto(p, IF event[p] = Batch[p] THEN "resolved" ELSE "publish")
  /\ event' = [event EXCEPT ![p] = IF @ = Batch[p] THEN @ ELSE @ + 1]
  /\ UNCHANGED <<attempt, awaits, msgs, open>>

\* Seeded fault: a nack is taken for an answer still to come.
Nacked_Ignored(p) == FALSE /\ UNCHANGED vars
\* waitForConfirms() rejects, whoever published what was nacked.
Nacked(p) ==
  /\ pc[p] = "waiting" /\ OneNacked(p) /\ PublishFails(p)
  /\ UNCHANGED <<event, awaits, msgs, open>>

Answer(t, from, to) ==
  /\ open /\ msgs[t].state = from
  /\ msgs' = [msgs EXCEPT ![t].state = to]
  /\ UNCHANGED <<pc, event, attempt, awaits, open>>

\* The broker takes the next message into the exchange, or refuses it.
BrokerReads == \E t \in Tags :
  /\ \A u \in 1 .. t - 1 : msgs[u].state # "wire"
  /\ Answer(t, "wire", "taken") \/ Answer(t, "wire", "refused")

BrokerAnswers == \E t \in Tags :
  Answer(t, "taken", "acked") \/ Answer(t, "refused", "nacked")

Broker == BrokerReads \/ BrokerAnswers

\* The channel ends.  Who waits may be told or not: no timeout is set.
Close ==
  /\ open /\ open' = FALSE
  /\ msgs' = [t \in Tags |-> IF msgs[t].state = "wire"
                               THEN [msgs[t] EXCEPT !.state = "lost"] ELSE msgs[t]]
  /\ UNCHANGED <<pc, event, attempt, awaits>>

ClosedWhileWaiting(p) ==
  /\ pc[p] = "waiting" /\ ~open /\ ~AllAcked(p) /\ PublishFails(p)
  /\ UNCHANGED <<event, awaits, msgs, open>>

Proceed(p) == Send(p) \/ SendFails(p) \/ Confirmed(p) \/ Nacked(p)

Next ==
  \/ Broker \/ Close
  \/ \E p \in Publishers : Begin(p) \/ Proceed(p) \/ ClosedWhileWaiting(p)

Spec == Init /\ [][Next]_vars

-----------------------------------------------------------------------------
TypeOK ==
  /\ pc \in [Publishers -> {"idle", "publish", "waiting", "resolved", "rejected"}]
  /\ event \in [Publishers -> Nat] /\ attempt \in [Publishers -> Nat]
  /\ \A p \in Publishers :
       event[p] \in 1 .. Batch[p] /\ attempt[p] \in 0 .. Attempts[p]
  /\ msgs \in Seq(Message)
  /\ awaits \in [Publishers -> SUBSET Tags]
  /\ open \in BOOLEAN

\* A call that resolved has every event of its batch on the exchange, by its
\* own messages: the confirms and rejections of the other callers of the
\* channel are never taken for its own.
ResolvedIsAccepted ==
  \A p \in Publishers : pc[p] = "resolved" =>
    \A i \in 1 .. Batch[p] : \E t \in Tags :
      msgs[t].by = p /\ msgs[t].event = i /\ msgs[t].state = "acked"

\* A call fails for a reason it can know of: its last message found the
\* buffer full, the channel closed, or the broker nacked a message that was
\* queued no later than its own.  What others publish afterwards cannot fail it.
FailureHasACause ==
  \A p \in Publishers : pc[p] = "rejected" =>
    \/ ~open
    \/ \E t \in Tags :
         /\ msgs[t].by = p /\ \A u \in Tags : msgs[u].by = p => u <= t
         /\ msgs[t].full \/ \E u \in 1 .. t : msgs[u].state = "nacked"

\* While the channel is open a call that was made ends: the messages that
\* others keep queueing do not keep it waiting, and the tries are bounded.
PublishSettles ==
  \A p \in Publishers :
    pc[p] = "publish" ~> pc[p] \in {"resolved", "rejected"} \/ ~open

-----------------------------------------------------------------------------
callOf == [p \in Publishers |->
             IF pc[p] \in {"publish", "waiting"} THEN "pending" ELSE pc[p]]
copiesOf == [p \in Publishers |-> [i \in 1 .. Batch[p] |->
  Cardinality({t \in Tags : /\ msgs[t].by = p /\ msgs[t].event = i
                            /\ msgs[t].state \in OnExchange})]]

Publication == INSTANCE EventPublication WITH call <- callOf, copies <- copiesOf

\* The publisher keeps the promise of its port.
ImplementsPublication == Publication!Spec
=============================================================================
