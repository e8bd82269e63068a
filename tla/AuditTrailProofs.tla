-------------------------- MODULE AuditTrailProofs --------------------------
(***************************************************************************)
(* Theorems about AuditTrail: the log of the events of any number of       *)
(* callers, whatever the broker refuses and however often an ack is lost   *)
(* or throws.                                                              *)
(***************************************************************************)
EXTENDS AuditTrail, ConfirmChannelProofs

AuditTyped ==
  /\ queue \in Seq(Nat) /\ log \in Seq(Nat)
  /\ acking \in BOOLEAN /\ redeliveries \in Nat
  /\ acking => queue # << >>

\* The exchange took what is queued or logged before all that is still to come.
Arrived == {t \in Tags : \A u \in Tags : msgs[u].state = "wire" => t < u}
ArrivedInOrder ==
  /\ \A i \in 1 .. Len(queue) : queue[i] \in Arrived
  /\ \A i \in 1 .. Len(log) : log[i] \in Arrived

QueueAscends ==
  \A i, k \in 1 .. Len(queue) : i < k => queue[i] < queue[k]

\* The log has nothing that comes behind the head of the queue.
LogIsBehind ==
  \A i \in 1 .. Len(log), k \in 1 .. Len(queue) : log[i] <= queue[k]

\* An entry that repeats was paid for by a lost ack, and so was one that is
\* about to: a delivery of what the log ends with.
Again == ~acking /\ queue # << >> /\ Head(queue) \in ToSet(log)
RedeliveriesPay ==
  /\ IsFiniteSet(ToSet(log))
  /\ Len(log) + (IF Again THEN 1 ELSE 0) <= Cardinality(ToSet(log)) + redeliveries

AuditInv ==
  /\ IInv /\ AuditTyped /\ ArrivedInOrder /\ QueueAscends /\ LogIsBehind
  /\ LoggedInOrder /\ RedeliveriesPay

-----------------------------------------------------------------------------
(***************************************************************************)
(* What reaches the queue.                                                 *)
(***************************************************************************)
LEMMA OneInSeq ==
  ASSUME NEW t
  PROVE  SetToSeq({t}) = <<t>>
  BY FS_Singleton DEF SetToSeq, IsInjective

LEMMA NoneInSeq == SetToSeq({}) = << >>
<1>1. Cardinality({}) = 0
  BY FS_EmptySet
<1>2. << >> \in [1 .. 0 -> {}] /\ IsInjective(<< >>)
  BY DEF IsInjective
<1>3. \A f \in [1 .. 0 -> {}] : f = << >>
  OBVIOUS
<1> QED
  BY <1>1, <1>2, <1>3 DEF SetToSeq

\* The messages still to come are those that were, or come behind all there are.
Pending ==
  /\ Tags \subseteq Tags'
  /\ \A u \in Tags' : msgs'[u].state = "wire" =>
       IF u \in Tags THEN msgs[u].state = "wire" ELSE \A t \in Tags : t < u

\* The broker takes the first of them.
Takes(t) ==
  /\ Taken = {t} /\ t \in Tags /\ msgs[t].state = "wire"
  /\ \A u \in Tags : msgs[u].state = "wire" => t <= u
  /\ \A u \in Tags' : msgs'[u].state = "wire" => t < u

LEMMA Routes ==
  ASSUME TypeOK, [Next]_vars
  PROVE  Pending /\ (Taken = {} \/ \E t \in Tags : Takes(t))
<1>1. Len(msgs) \in Nat /\ Tags = 1 .. Len(msgs) /\ \A t \in Tags : msgs[t] \in Message
  BY TagsAre
<1>2. CASE UNCHANGED msgs
  BY <1>2 DEF Pending, Taken, Tags
<1>3. ASSUME NEW p \in Publishers, Grown(p)
      PROVE  Pending /\ Taken = {}
  BY <1>1, <1>3 DEF Grown, Pending, Taken
<1>4. CASE Close
  <2>1. /\ Tags' = Tags
        /\ \A t \in Tags : msgs'[t] = IF msgs[t].state = "wire"
                                      THEN [msgs[t] EXCEPT !.state = "lost"] ELSE msgs[t]
    BY <1>4, CloseAnswers DEF Answered
  <2>2. \A t \in Tags : msgs[t].state = "wire" => msgs'[t].state = "lost"
    BY <1>1, <2>1 DEF Message
  <2> QED
    BY <2>1, <2>2 DEF Pending, Taken
<1>5. ASSUME NEW t \in Tags, NEW from \in Unanswered,
             NEW to \in Unanswered \union {"acked", "nacked"}, to # "wire",
             Answer(t, from, to)
      PROVE  /\ Tags' = Tags /\ msgs[t].state = from /\ msgs'[t].state = to
             /\ \A u \in Tags \ {t} : msgs'[u] = msgs[u]
  <2>1. /\ Tags' = Tags
        /\ \A u \in Tags : msgs'[u] = IF u = t THEN [msgs[t] EXCEPT !.state = to] ELSE msgs[u]
    BY <1>5, AnswerChangesOne DEF Answered
  <2>2. msgs[t] \in Message /\ msgs[t].state = from
    BY <1>1, <1>5 DEF Answer
  <2>3. [msgs[t] EXCEPT !.state = to].state = to
    BY <2>2 DEF Message
  <2> QED
    BY <2>1, <2>2, <2>3
<1>6. CASE BrokerReads
  <2>1. PICK t \in Tags, to \in {"taken", "refused"} :
          Answer(t, "wire", to) /\ \A u \in 1 .. t - 1 : msgs[u].state # "wire"
    BY <1>6 DEF BrokerReads
  <2>2. /\ Tags' = Tags /\ msgs[t].state = "wire" /\ msgs'[t].state = to
        /\ \A u \in Tags \ {t} : msgs'[u] = msgs[u]
    BY <1>5, <2>1 DEF Unanswered
  <2>3. Pending
    BY <2>1, <2>2 DEF Pending
  <2>4. \A u \in Tags : msgs[u].state = "wire" => t <= u
    BY <1>1, <2>1
  <2>5. \A u \in Tags' : msgs'[u].state = "wire" => t < u
    BY <1>1, <2>1, <2>2, <2>4
  <2>6. Taken = IF to = "taken" THEN {t} ELSE {}
    BY <2>1, <2>2 DEF Taken
  <2> QED
    BY <2>1, <2>2, <2>3, <2>4, <2>5, <2>6 DEF Takes
<1>7. CASE BrokerAnswers
  <2>1. PICK t \in Tags, from \in {"taken", "refused"}, to \in {"acked", "nacked"} :
          Answer(t, from, to)
    BY <1>7 DEF BrokerAnswers
  <2>2. /\ Tags' = Tags /\ msgs[t].state = from /\ msgs'[t].state = to
        /\ \A u \in Tags \ {t} : msgs'[u] = msgs[u]
    BY <1>5, <2>1 DEF Unanswered
  <2> QED
    BY <2>1, <2>2 DEF Pending, Taken
<1> QED
  BY <1>2, <1>3, <1>4, <1>6, <1>7, Steps, SendsGrow
     DEF Broker, vars, Begin, Confirmed, Fails

-----------------------------------------------------------------------------
(***************************************************************************)
(* The steps of the queue and of its consumer.                             *)
(***************************************************************************)
LEMMA SeqFacts ==
  ASSUME AuditTyped
  PROVE  /\ Len(queue) \in Nat /\ \A i \in 1 .. Len(queue) : queue[i] \in Nat
         /\ Len(log) \in Nat /\ \A i \in 1 .. Len(log) : log[i] \in Nat
         /\ ToSet(log) = {log[i] : i \in 1 .. Len(log)}
         /\ queue # << >> => /\ Len(queue) \in Nat \ {0}
                             /\ Head(queue) = queue[1] /\ Head(queue) \in Nat
<1>1. queue \in Seq(Nat) /\ log \in Seq(Nat)
  BY DEF AuditTyped
<1>2. /\ Len(queue) \in Nat /\ DOMAIN queue = 1 .. Len(queue)
      /\ Len(log) \in Nat /\ DOMAIN log = 1 .. Len(log)
  BY <1>1, LenProperties
<1>3. queue # << >> => Len(queue) \in Nat \ {0} /\ Head(queue) = queue[1]
  BY <1>1, EmptySeq
<1> QED
  BY <1>1, <1>2, <1>3 DEF ToSet

\* What has arrived stays ahead of what is still to come.
LEMMA ArrivedStays ==
  ASSUME TypeOK, Pending
  PROVE  Arrived \subseteq Arrived'
BY DEF Pending, Arrived

LEMMA RouteKeeps ==
  ASSUME AuditInv, Routed([Next]_vars)
  PROVE  AuditInv'
<1>1. /\ IInv' /\ TypeOK /\ Pending /\ (Taken = {} \/ \E t \in Tags : Takes(t))
      /\ UNCHANGED <<acking, log, redeliveries>> /\ queue' = queue \o SetToSeq(Taken)
  BY StepIInv, Routes DEF Routed, AuditInv, IInv
<1>2. Arrived \subseteq Arrived'
  BY <1>1, ArrivedStays
<1>3. ToSet(log)' = ToSet(log) /\ LoggedInOrder'
  BY <1>1 DEF ToSet, AuditInv, LoggedInOrder
<1>4. queue \in Seq(Nat) /\ AuditTyped
  BY DEF AuditInv, AuditTyped
<1>5. CASE Taken = {}
  <2>1. queue' = queue
    BY <1>1, <1>4, <1>5, NoneInSeq, ConcatEmptySeq
  <2>2. ArrivedInOrder'
    BY <1>1, <1>2, <2>1 DEF AuditInv, ArrivedInOrder
  <2> QED
    BY <1>1, <1>3, <2>1, <2>2 DEF AuditInv, AuditTyped, QueueAscends, LogIsBehind,
       RedeliveriesPay, Again
<1>6. ASSUME NEW t \in Tags, Takes(t)
      PROVE  AuditInv'
  <2>1. t \in Nat /\ t \in Tags'
    BY <1>1, TagsAre DEF Pending
  <2>2. queue' = Append(queue, t)
    <3>1. SetToSeq(Taken) = <<t>>
      BY <1>6, OneInSeq DEF Takes
    <3> QED
      BY <1>1, <1>4, <2>1, <3>1, AppendIsConcat
  <2> DEFINE n == Len(queue)
  <2>3. /\ queue' \in Seq(Nat) /\ queue' # << >> /\ Len(queue') = n + 1
        /\ \A i \in 1 .. n : queue'[i] = queue[i]
        /\ queue'[n + 1] = t /\ n \in Nat
    BY <1>4, <2>1, <2>2, AppendProperties, SeqFacts
  <2> HIDE DEF n
  <2>4. 1 .. (n + 1) = (1 .. n) \union {n + 1} /\ 1 .. Len(queue') = 1 .. (n + 1)
    BY <2>3
  <2>5. t \in Arrived'
    BY <1>6, <2>1 DEF Takes, Arrived
  <2>6. /\ \A i \in 1 .. n : queue[i] \in Arrived /\ queue[i] < t
        /\ \A i \in 1 .. Len(log) : log[i] \in Arrived /\ log[i] < t
    BY <1>6 DEF AuditInv, ArrivedInOrder, Arrived, Takes, n
  <2>7. ArrivedInOrder'
    <3>1. \A i \in 1 .. n : queue'[i] \in Arrived'
      BY <1>2, <2>3, <2>6
    <3>2. \A i \in 1 .. (n + 1) : queue'[i] \in Arrived'
      BY <2>3, <2>4, <2>5, <3>1
    <3>3. \A i \in 1 .. Len(log') : log'[i] \in Arrived'
      BY <1>1, <1>2, <2>6
    <3> QED
      BY <2>4, <3>2, <3>3 DEF ArrivedInOrder
  <2>8. QueueAscends'
    <3> SUFFICES ASSUME NEW i \in 1 .. (n + 1), NEW k \in 1 .. (n + 1), i < k
                 PROVE  queue'[i] < queue'[k]
      BY <2>4 DEF QueueAscends
    <3>1. i \in 1 .. n
      BY <2>3
    <3>2. CASE k \in 1 .. n
      BY <2>3, <3>1, <3>2 DEF AuditInv, QueueAscends, n
    <3>3. CASE k = n + 1
      BY <2>3, <2>6, <3>1, <3>3
    <3> QED
      BY <2>4, <3>2, <3>3
  <2>9. LogIsBehind'
    <3> SUFFICES ASSUME NEW i \in 1 .. Len(log), NEW k \in 1 .. (n + 1)
                 PROVE  log[i] <= queue'[k]
      BY <1>1, <2>4 DEF LogIsBehind
    <3>1. CASE k \in 1 .. n
      BY <2>3, <3>1 DEF AuditInv, LogIsBehind, n
    <3>2. CASE k = n + 1
      <4>1. log[i] \in Nat /\ log[i] < t
        BY <1>4, <2>6, SeqFacts
      <4> QED
        BY <2>1, <2>3, <3>2, <4>1
    <3> QED
      BY <2>4, <3>1, <3>2
  <2>10. Again' => Again
    <3>1. CASE queue = << >>
      <4>1. n = 0 /\ Head(queue') = t
        BY <1>4, <2>2, <2>3, <3>1, HeadTailAppend DEF n
      <4>2. t \notin ToSet(log)
        <5>1. \A i \in 1 .. Len(log) : log[i] # t
          BY <1>4, <2>1, <2>6, SeqFacts
        <5> QED
          BY <1>4, <5>1, SeqFacts
      <4> QED
        BY <1>3, <4>1, <4>2 DEF Again
    <3>2. CASE queue # << >>
      <4>1. Head(queue') = Head(queue)
        BY <1>4, <2>2, <3>2, HeadTailAppend
      <4> QED
        BY <1>1, <1>3, <3>2, <4>1 DEF Again
    <3> QED
      BY <3>1, <3>2
  <2>11. RedeliveriesPay'
    <3>1. Len(log) \in Nat /\ redeliveries \in Nat /\ Cardinality(ToSet(log)) \in Nat
      BY <1>4, SeqFacts, FS_CardinalityType DEF AuditInv, AuditTyped, RedeliveriesPay
    <3> QED
      BY <1>1, <1>3, <2>10, <3>1 DEF AuditInv, RedeliveriesPay
  <2> QED
    BY <1>1, <1>3, <2>3, <2>7, <2>8, <2>9, <2>11 DEF AuditInv, AuditTyped
<1> QED
  BY <1>1, <1>5, <1>6

\* The head of the queue is logged: the last entry, again or for the first time.
LEMMA EntryKeeps ==
  ASSUME AuditInv, handleEvent \/ AckThrows
  PROVE  AuditInv'
<1> DEFINE h == Head(queue)
           n == Len(log)
<1>1. /\ ~acking /\ queue # << >> /\ log' = Append(log, h)
      /\ UNCHANGED <<pc, event, attempt, awaits, msgs, open, queue>>
      /\ \/ acking' = TRUE /\ redeliveries' = redeliveries
         \/ acking' = FALSE /\ redeliveries' = redeliveries + 1
  BY DEF handleEvent, AckThrows, vars
<1>2. AuditTyped /\ h \in Nat /\ h = queue[1] /\ 1 \in 1 .. Len(queue) /\ Len(queue) \in Nat
  BY <1>1, SeqFacts DEF AuditInv
<1>3. /\ log' \in Seq(Nat) /\ Len(log') = n + 1 /\ log'[n + 1] = h
      /\ \A i \in 1 .. n : log'[i] = log[i]
      /\ n \in Nat
  BY <1>1, <1>2, AppendProperties DEF AuditTyped
<1> HIDE DEF h, n
<1>4. 1 .. (n + 1) = (1 .. n) \union {n + 1} /\ DOMAIN log' = 1 .. (n + 1)
  BY <1>3, LenProperties
<1>5. AuditTyped' /\ DOMAIN log = 1 .. n
  <2>1. acking' \in BOOLEAN /\ redeliveries' \in Nat
    <3>1. acking' \in BOOLEAN
      BY <1>1
    <3>2. redeliveries \in Nat
      BY <1>2 DEF AuditTyped
    <3>3. redeliveries' = redeliveries \/ redeliveries' = redeliveries + 1
      BY <1>1
    <3> QED
      BY <3>1, <3>2, <3>3
  <2>2. DOMAIN log = 1 .. n
    BY <1>2, LenProperties DEF AuditTyped, n
  <2> QED
    BY <1>1, <1>2, <1>3, <2>1, <2>2 DEF AuditTyped
<1>6. ToSet(log') = ToSet(log) \union {h}
  BY <1>3, <1>4, <1>5 DEF ToSet
<1>7. IInv'
  BY <1>1, StepIInv DEF AuditInv, vars
<1>8. ArrivedInOrder'
  <2>1. Arrived' = Arrived
    BY <1>1 DEF Arrived, Tags
  <2>2. h \in Arrived /\ \A i \in 1 .. n : log[i] \in Arrived
    BY <1>2 DEF AuditInv, ArrivedInOrder, n
  <2>3. \A i \in 1 .. (n + 1) : log'[i] \in Arrived
    BY <1>3, <1>4, <2>2
  <2> QED
    BY <1>1, <1>3, <2>1, <2>3 DEF AuditInv, ArrivedInOrder
<1>9. \A i \in 1 .. n : log[i] <= h
  BY <1>2 DEF AuditInv, LogIsBehind, n
<1>10. \A k \in 1 .. Len(queue) : h <= queue[k]
  <2> SUFFICES ASSUME NEW k \in 1 .. Len(queue) PROVE queue[1] <= queue[k]
    BY <1>2
  <2>1. queue[k] \in Nat /\ queue[1] \in Nat
    BY <1>2, SeqFacts
  <2>2. k = 1 \/ 1 < k
    BY <1>2
  <2> QED
    BY <1>2, <2>1, <2>2 DEF AuditInv, QueueAscends
<1>11. LogIsBehind'
  <2>1. \A i \in 1 .. (n + 1), k \in 1 .. Len(queue) : log'[i] <= queue[k]
    BY <1>3, <1>4, <1>10 DEF AuditInv, LogIsBehind, n
  <2> QED
    BY <1>1, <1>3, <2>1 DEF LogIsBehind
<1>12. LoggedInOrder'
  <2> SUFFICES ASSUME NEW i \in 1 .. (n + 1), NEW k \in 1 .. (n + 1), i < k
               PROVE  log'[i] <= log'[k]
    BY <1>4 DEF LoggedInOrder
  <2>1. i \in 1 .. n
    BY <1>3
  <2>2. CASE k \in 1 .. n
    BY <1>3, <1>5, <2>1, <2>2 DEF AuditInv, LoggedInOrder
  <2>3. CASE k = n + 1
    BY <1>3, <1>9, <2>1, <2>3
  <2> QED
    BY <1>4, <2>2, <2>3
<1>13. RedeliveriesPay'
  <2>1. IsFiniteSet(ToSet(log)) /\ Cardinality(ToSet(log)) \in Nat /\ redeliveries \in Nat
    BY <1>2, FS_CardinalityType DEF AuditInv, RedeliveriesPay, AuditTyped
  <2>2. IsFiniteSet(ToSet(log) \union {h})
        /\ Cardinality(ToSet(log) \union {h}) =
             Cardinality(ToSet(log)) + IF h \in ToSet(log) THEN 0 ELSE 1
    BY <2>1, FS_AddElement
  <2>3. Again <=> h \in ToSet(log)
    BY <1>1 DEF Again, h
  <2>4. n + (IF h \in ToSet(log) THEN 1 ELSE 0) <= Cardinality(ToSet(log)) + redeliveries
    BY <2>3 DEF AuditInv, RedeliveriesPay, n
  <2>5. n + 1 <= Cardinality(ToSet(log) \union {h}) + redeliveries
    BY <1>3, <2>1, <2>2, <2>4
  <2>6. \/ ~Again' /\ redeliveries' = redeliveries
        \/ redeliveries' = redeliveries + 1
    BY <1>1 DEF Again
  <2>7. Len(log') + (IF Again' THEN 1 ELSE 0)
          <= Cardinality(ToSet(log) \union {h}) + redeliveries'
    BY <1>3, <2>1, <2>2, <2>5, <2>6
  <2> QED
    BY <1>6, <2>2, <2>7 DEF RedeliveriesPay
<1> QED
  BY <1>1, <1>5, <1>7, <1>8, <1>11, <1>12, <1>13 DEF AuditInv, QueueAscends

\* The ack takes the head off the queue; what comes next was never logged.
LEMMA AckedKeeps ==
  ASSUME AuditInv, Acked
  PROVE  AuditInv'
<1> DEFINE n == Len(queue)
<1>1. /\ acking /\ acking' = FALSE /\ queue' = Tail(queue)
      /\ UNCHANGED <<pc, event, attempt, awaits, msgs, open, log, redeliveries>>
  BY DEF Acked, vars
<1>2. AuditTyped /\ queue # << >> /\ queue \in Seq(Nat) /\ n \in Nat \ {0}
  BY <1>1, SeqFacts DEF AuditInv, AuditTyped
<1>3. /\ queue' \in Seq(Nat) /\ Len(queue') = n - 1
      /\ \A i \in 1 .. (n - 1) : queue'[i] = queue[i + 1]
  BY <1>1, <1>2, HeadTailProperties
<1>4. \A i \in 1 .. n : queue[i] \in Nat
  BY <1>2, SeqFacts
<1>5. \A i \in 1 .. (n - 1) : i \in 1 .. n /\ i + 1 \in 1 .. n /\ 1 \in 1 .. n /\ 1 < i + 1
  BY <1>2
<1>6. /\ \A i \in 1 .. n : queue[i] \in Arrived
      /\ \A i, k \in 1 .. n : i < k => queue[i] < queue[k]
      /\ \A i \in 1 .. Len(log), k \in 1 .. n : log[i] <= queue[k]
  BY DEF AuditInv, ArrivedInOrder, QueueAscends, LogIsBehind
<1> HIDE DEF n
<1>7. IInv'
  BY <1>1, StepIInv DEF AuditInv, vars
<1>8. AuditTyped'
  BY <1>1, <1>2, <1>3 DEF AuditTyped
<1>9. ArrivedInOrder'
  <2>1. Arrived' = Arrived
    BY <1>1 DEF Arrived, Tags
  <2>2. \A i \in 1 .. (n - 1) : queue'[i] \in Arrived
    BY <1>3, <1>5, <1>6
  <2> QED
    BY <1>1, <1>3, <2>1, <2>2 DEF AuditInv, ArrivedInOrder
<1>10. QueueAscends'
  <2> SUFFICES ASSUME NEW i \in 1 .. (n - 1), NEW k \in 1 .. (n - 1), i < k
               PROVE  queue'[i] < queue'[k]
    BY <1>3 DEF QueueAscends
  <2>1. i + 1 < k + 1 /\ i + 1 \in 1 .. n /\ k + 1 \in 1 .. n
    BY <1>2, <1>5
  <2>2. queue[i + 1] < queue[k + 1]
    BY <1>6, <2>1
  <2> QED
    BY <1>3, <2>2
<1>11. LogIsBehind'
  <2>1. \A i \in 1 .. Len(log), k \in 1 .. (n - 1) : log[i] <= queue'[k]
    BY <1>3, <1>5, <1>6
  <2> QED
    BY <1>1, <1>3, <2>1 DEF LogIsBehind
<1>12. ~Again'
  <2>1. CASE queue' = << >>
    BY <2>1 DEF Again
  <2>2. CASE queue' # << >>
    <3>1. Head(queue') = queue'[1] /\ Len(queue') \in Nat \ {0}
      BY <1>3, <2>2, EmptySeq
    <3>2. 1 \in 1 .. (n - 1) /\ queue'[1] = queue[2] /\ 1 \in 1 .. n /\ 2 \in 1 .. n
      BY <1>2, <1>3, <3>1
    <3>3. queue[1] < queue[2] /\ queue[1] \in Nat /\ queue[2] \in Nat
      BY <1>4, <1>6, <3>2
    <3>4. \A i \in 1 .. Len(log) : log[i] # queue[2]
      <4> SUFFICES ASSUME NEW i \in 1 .. Len(log) PROVE log[i] # queue[2]
        OBVIOUS
      <4>1. log[i] \in Nat /\ log[i] <= queue[1]
        BY <1>2, <1>6, <3>2, SeqFacts
      <4> QED
        BY <3>3, <4>1
    <3>5. queue[2] \notin ToSet(log)
      BY <1>2, <3>4, SeqFacts
    <3>6. ToSet(log') = ToSet(log)
      BY <1>1
    <3> QED
      BY <3>1, <3>2, <3>5, <3>6 DEF Again
  <2> QED
    BY <2>1, <2>2
<1>13. RedeliveriesPay'
  <2>1. ~Again
    BY <1>1 DEF Again
  <2> QED
    BY <1>1, <1>12, <2>1 DEF AuditInv, RedeliveriesPay
<1> QED
  BY <1>1, <1>7, <1>8, <1>9, <1>10, <1>11, <1>13 DEF AuditInv, LoggedInOrder

\* A lost ack gives the message back, to be logged once more.
LEMMA LoseAckKeeps ==
  ASSUME AuditInv, LoseAck
  PROVE  AuditInv'
<1>1. /\ acking /\ acking' = FALSE /\ redeliveries' = redeliveries + 1
      /\ UNCHANGED <<pc, event, attempt, awaits, msgs, open, queue, log>>
  BY DEF LoseAck, vars
<1>2. IInv'
  BY <1>1, StepIInv DEF AuditInv, vars
<1>3. RedeliveriesPay'
  <2>1. /\ IsFiniteSet(ToSet(log)) /\ Cardinality(ToSet(log)) \in Nat
        /\ redeliveries \in Nat /\ Len(log) \in Nat
    BY FS_CardinalityType, SeqFacts DEF AuditInv, RedeliveriesPay, AuditTyped
  <2>2. Len(log) <= Cardinality(ToSet(log)) + redeliveries
    BY <1>1 DEF AuditInv, RedeliveriesPay, Again
  <2>3. Len(log) + (IF Again' THEN 1 ELSE 0) <= Cardinality(ToSet(log)) + (redeliveries + 1)
    BY <2>1, <2>2
  <2> QED
    BY <1>1, <2>1, <2>3 DEF RedeliveriesPay
<1>4. Arrived' = Arrived
  BY <1>1 DEF Arrived, Tags
<1>5. AuditTyped'
  <2>1. AuditTyped /\ redeliveries + 1 \in Nat
    BY DEF AuditInv, AuditTyped
  <2> QED
    BY <1>1, <2>1 DEF AuditTyped
<1>6. ArrivedInOrder'
  BY <1>1, <1>4 DEF AuditInv, ArrivedInOrder
<1>7. QueueAscends' /\ LogIsBehind' /\ LoggedInOrder'
  BY <1>1 DEF AuditInv, QueueAscends, LogIsBehind, LoggedInOrder
<1> QED
  BY <1>2, <1>3, <1>5, <1>6, <1>7 DEF AuditInv

LEMMA StutterKeeps ==
  ASSUME AuditInv, UNCHANGED allVars
  PROVE  AuditInv'
<1>1. UNCHANGED <<pc, event, attempt, awaits, msgs, open, queue, acking, log, redeliveries>>
  BY DEF allVars, auditVars, vars
<1>2. IInv'
  BY <1>1, StepIInv DEF AuditInv, vars
<1>3. Arrived' = Arrived
  BY <1>1 DEF Arrived, Tags
<1>4. AuditTyped' /\ ArrivedInOrder'
  BY <1>1, <1>3 DEF AuditInv, AuditTyped, ArrivedInOrder
<1>5. QueueAscends' /\ LogIsBehind' /\ LoggedInOrder' /\ RedeliveriesPay'
  BY <1>1 DEF AuditInv, QueueAscends, LogIsBehind, LoggedInOrder, RedeliveriesPay, Again
<1> QED
  BY <1>2, <1>4, <1>5 DEF AuditInv

-----------------------------------------------------------------------------
(***************************************************************************)
(* The theorems.                                                           *)
(***************************************************************************)
LEMMA AuditInductive == AuditSpec => []AuditInv
<1>1. AuditInit => AuditInv
  <2> SUFFICES ASSUME AuditInit PROVE AuditInv
    OBVIOUS
  <2>1. IInv /\ queue = << >> /\ log = << >> /\ acking = FALSE /\ redeliveries = 0
    BY InitIInv DEF AuditInit
  <2>2. ToSet(log) = {} /\ IsFiniteSet({}) /\ Cardinality({}) = 0
    BY <2>1, FS_EmptySet DEF ToSet
  <2>3. RedeliveriesPay
    BY <2>1, <2>2 DEF RedeliveriesPay, Again
  <2>4. AuditTyped
    BY <2>1, EmptySeq DEF AuditTyped
  <2>5. Len(queue) = 0 /\ Len(log) = 0 /\ DOMAIN log = {}
    BY <2>1
  <2>6. ArrivedInOrder /\ QueueAscends /\ LogIsBehind /\ LoggedInOrder
    BY <2>5 DEF ArrivedInOrder, QueueAscends, LogIsBehind, LoggedInOrder
  <2> QED
    BY <2>1, <2>3, <2>4, <2>6 DEF AuditInv
<1>2. AuditInv /\ [AuditNext]_allVars => AuditInv'
  <2> SUFFICES ASSUME AuditInv, [AuditNext]_allVars PROVE AuditInv'
    OBVIOUS
  <2>1. CASE Routed(Next)
    <3>1. Routed([Next]_vars)
      BY <2>1 DEF Routed
    <3> QED
      BY <3>1, RouteKeeps
  <2>2. CASE UNCHANGED allVars
    BY <2>2, StutterKeeps
  <2> QED
    BY <2>1, <2>2, EntryKeeps, AckedKeeps, LoseAckKeeps
       DEF AuditNext, Consume, LoggingFails
<1> QED
  BY <1>1, <1>2, PTL DEF AuditSpec

\* The audit log keeps the order of the exchange for any number of callers and
\* redeliveries: nack with requeue and redelivery never let one event overtake
\* another.
THEOREM LogKeepsOrder == AuditSpec => []LoggedInOrder
<1>1. AuditInv => LoggedInOrder
  BY DEF AuditInv
<1> QED
  BY <1>1, AuditInductive, PTL

\* However many events, failures of the logger and redeliveries: no more entries
\* repeat than acks were lost or thrown.
THEOREM RepeatsArePaid == AuditSpec => []RepeatsNeedARedelivery
<1>1. AuditInv => RepeatsNeedARedelivery
  <2> SUFFICES ASSUME AuditInv PROVE RepeatsNeedARedelivery
    OBVIOUS
  <2>1. Len(log) \in Nat /\ Cardinality(ToSet(log)) \in Nat /\ redeliveries \in Nat
    BY SeqFacts, FS_CardinalityType DEF AuditInv, RedeliveriesPay, AuditTyped
  <2> QED
    BY <2>1 DEF AuditInv, RedeliveriesPay, RepeatsNeedARedelivery
<1> QED
  BY <1>1, AuditInductive, PTL

-----------------------------------------------------------------------------
(***************************************************************************)
(* Nothing is lost on the way: what ConfirmedIsLogged needs besides        *)
(* fairness.                                                               *)
(***************************************************************************)

\* What the exchange took is queued or logged, and nothing else is: no nack,
\* ack or redelivery drops an event, and nothing that the broker refused, or that
\* went down with the channel, is told by the log.
OnTheWay == {t \in Tags : msgs[t].state \in OnExchange}
NothingIsLost == ToSet(queue) \union ToSet(log) = OnTheWay

\* The entry is written before the ack that takes its message off the queue.
EntryBeforeAck == acking => Head(queue) \in ToSet(log)

KeptInv == NothingIsLost /\ EntryBeforeAck

LEMMA QueueSet ==
  ASSUME AuditTyped
  PROVE  /\ ToSet(queue) = {queue[i] : i \in 1 .. Len(queue)}
         /\ queue # << >> => Head(queue) \in ToSet(queue)
<1>1. queue \in Seq(Nat) /\ DOMAIN queue = 1 .. Len(queue) /\ Len(queue) \in Nat
  BY LenProperties DEF AuditTyped
<1>2. ToSet(queue) = {queue[i] : i \in 1 .. Len(queue)}
  BY <1>1 DEF ToSet
<1> QED
  BY <1>1, <1>2, SeqFacts

\* A message is on the exchange once it is taken, and stays there.
LEMMA ExchangeGrows ==
  ASSUME TypeOK, [Next]_vars
  PROVE  OnTheWay' = OnTheWay \union Taken
<1>1. Len(msgs) \in Nat /\ Tags = 1 .. Len(msgs) /\ \A t \in Tags : msgs[t] \in Message
  BY TagsAre
<1>2. CASE UNCHANGED msgs
  BY <1>2 DEF OnTheWay, Taken, Tags
<1>3. ASSUME NEW p \in Publishers, Grown(p)
      PROVE  OnTheWay' = OnTheWay \union Taken
  BY <1>1, <1>3 DEF Grown, OnTheWay, Taken, OnExchange
<1>4. CASE Close
  <2>1. /\ Tags' = Tags
        /\ \A t \in Tags : msgs'[t] = IF msgs[t].state = "wire"
                                      THEN [msgs[t] EXCEPT !.state = "lost"] ELSE msgs[t]
    BY <1>4, CloseAnswers DEF Answered
  <2>2. \A t \in Tags : msgs'[t].state = IF msgs[t].state = "wire" THEN "lost" ELSE msgs[t].state
    BY <1>1, <2>1 DEF Message
  <2> QED
    BY <2>1, <2>2 DEF OnTheWay, Taken, OnExchange
<1>5. ASSUME NEW t \in Tags, NEW from \in Unanswered,
             NEW to \in Unanswered \union {"acked", "nacked"},
             Answer(t, from, to)
      PROVE  /\ Tags' = Tags /\ msgs[t].state = from /\ msgs'[t].state = to
             /\ \A u \in Tags \ {t} : msgs'[u] = msgs[u]
  <2>1. /\ Tags' = Tags
        /\ \A u \in Tags : msgs'[u] = IF u = t THEN [msgs[t] EXCEPT !.state = to] ELSE msgs[u]
    BY <1>5, AnswerChangesOne DEF Answered
  <2>2. msgs[t] \in Message /\ msgs[t].state = from
    BY <1>1, <1>5 DEF Answer
  <2>3. [msgs[t] EXCEPT !.state = to].state = to
    BY <2>2 DEF Message
  <2> QED
    BY <2>1, <2>2, <2>3
<1>6. CASE BrokerReads
  <2>1. PICK t \in Tags, to \in {"taken", "refused"} : Answer(t, "wire", to)
    BY <1>6 DEF BrokerReads
  <2>2. /\ Tags' = Tags /\ msgs[t].state = "wire" /\ msgs'[t].state = to
        /\ \A u \in Tags \ {t} : msgs'[u] = msgs[u]
    BY <1>5, <2>1 DEF Unanswered
  <2> QED
    BY <2>1, <2>2 DEF OnTheWay, Taken, OnExchange
<1>7. CASE BrokerAnswers
  <2>1. PICK t \in Tags :
          Answer(t, "taken", "acked") \/ Answer(t, "refused", "nacked")
    BY <1>7 DEF BrokerAnswers
  <2>2. CASE Answer(t, "taken", "acked")
    <3>1. /\ Tags' = Tags /\ msgs[t].state = "taken" /\ msgs'[t].state = "acked"
          /\ \A u \in Tags \ {t} : msgs'[u] = msgs[u]
      BY <1>5, <2>2 DEF Unanswered
    <3> QED
      BY <3>1 DEF OnTheWay, Taken, OnExchange
  <2>3. CASE Answer(t, "refused", "nacked")
    <3>1. /\ Tags' = Tags /\ msgs[t].state = "refused" /\ msgs'[t].state = "nacked"
          /\ \A u \in Tags \ {t} : msgs'[u] = msgs[u]
      BY <1>5, <2>3 DEF Unanswered
    <3> QED
      BY <3>1 DEF OnTheWay, Taken, OnExchange
  <2> QED
    BY <2>1, <2>2, <2>3
<1> QED
  BY <1>2, <1>3, <1>4, <1>6, <1>7, Steps, SendsGrow
     DEF Broker, vars, Begin, Confirmed, Fails

LEMMA RouteKeepsAll ==
  ASSUME AuditInv, KeptInv, Routed([Next]_vars)
  PROVE  KeptInv'
<1>1. /\ TypeOK /\ AuditTyped /\ (Taken = {} \/ \E t \in Tags : Takes(t))
      /\ UNCHANGED <<acking, log>> /\ queue' = queue \o SetToSeq(Taken)
      /\ OnTheWay' = OnTheWay \union Taken /\ queue \in Seq(Nat)
  BY Routes, ExchangeGrows DEF Routed, AuditInv, IInv, AuditTyped
<1>2. queue \in Seq(Nat) /\ AuditTyped
  BY <1>1
<1>3. CASE Taken = {}
  <2>1. queue' = queue
    BY <1>1, <1>3, NoneInSeq, ConcatEmptySeq
  <2> QED
    BY <1>1, <1>3, <2>1 DEF KeptInv, NothingIsLost, EntryBeforeAck
<1>4. ASSUME NEW t \in Tags, Takes(t)
      PROVE  KeptInv'
  <2>1. t \in Nat /\ Taken = {t}
    BY <1>1, <1>4, TagsAre DEF Takes
  <2>2. queue' = Append(queue, t)
    BY <1>1, <2>1, OneInSeq, AppendIsConcat
  <2> DEFINE n == Len(queue)
  <2>3. /\ queue' \in Seq(Nat) /\ Len(queue') = n + 1 /\ n \in Nat
        /\ \A i \in 1 .. n : queue'[i] = queue[i]
        /\ queue'[n + 1] = t
    BY <1>2, <2>1, <2>2, AppendProperties, SeqFacts
  <2>4. DOMAIN queue = 1 .. n /\ DOMAIN queue' = (1 .. n) \union {n + 1}
    BY <1>1, <2>3, LenProperties
  <2> HIDE DEF n
  <2>5. ToSet(queue') = ToSet(queue) \union {t}
    BY <2>3, <2>4 DEF ToSet
  <2>6. acking => Head(queue') = Head(queue)
    BY <1>1, <2>1, <2>2, HeadTailAppend DEF AuditTyped
  <2> QED
    BY <1>1, <2>1, <2>5, <2>6 DEF KeptInv, NothingIsLost, EntryBeforeAck
<1> QED
  BY <1>1, <1>3, <1>4

\* The consumer moves what the exchange took from the queue to the log.
LEMMA ConsumerKeepsAll ==
  ASSUME AuditInv, KeptInv, handleEvent \/ AckThrows \/ Acked \/ LoseAck \/ UNCHANGED allVars
  PROVE  KeptInv'
<1>1. AuditTyped /\ queue \in Seq(Nat) /\ log \in Seq(Nat)
  BY DEF AuditInv, AuditTyped
<1>2. UNCHANGED msgs /\ OnTheWay' = OnTheWay
  BY DEF handleEvent, AckThrows, Acked, LoseAck, allVars, vars, OnTheWay, Tags
<1>3. CASE handleEvent \/ AckThrows
  <2> DEFINE n == Len(log)
             h == Head(queue)
  <2>1. queue # << >> /\ h \in Nat /\ h \in ToSet(queue) /\ log' = Append(log, h)
        /\ queue' = queue
    BY <1>1, <1>3, SeqFacts, QueueSet DEF handleEvent, AckThrows
  <2>2. /\ Len(log') = n + 1 /\ log'[n + 1] = h /\ n \in Nat /\ log' \in Seq(Nat)
        /\ \A i \in 1 .. n : log'[i] = log[i]
    BY <1>1, <2>1, AppendProperties, SeqFacts
  <2>3. DOMAIN log = 1 .. n /\ DOMAIN log' = (1 .. n) \union {n + 1}
    BY <1>1, <2>2, LenProperties
  <2> HIDE DEF n, h
  <2>4. ToSet(log') = ToSet(log) \union {h}
    BY <2>2, <2>3 DEF ToSet
  <2> QED
    BY <1>2, <2>1, <2>4 DEF KeptInv, NothingIsLost, EntryBeforeAck, h
<1>4. CASE Acked
  <2> DEFINE n == Len(queue)
  <2>1. acking /\ queue # << >> /\ n \in Nat \ {0} /\ queue' = Tail(queue) /\ log' = log
        /\ ~acking' /\ Head(queue) = queue[1]
    BY <1>1, <1>4, SeqFacts DEF Acked, AuditTyped
  <2>2. /\ queue' \in Seq(Nat) /\ Len(queue') = n - 1
        /\ \A i \in 1 .. (n - 1) : queue'[i] = queue[i + 1]
    BY <1>1, <2>1, HeadTailProperties
  <2>3. DOMAIN queue = 1 .. n /\ DOMAIN queue' = 1 .. (n - 1)
    BY <1>1, <2>2, LenProperties
  <2> HIDE DEF n
  <2>4. \A i \in 1 .. n : i = 1 \/ (i - 1 \in 1 .. (n - 1) /\ (i - 1) + 1 = i)
    BY <2>1
  <2>5. \A i \in 1 .. (n - 1) : i + 1 \in 1 .. n
    BY <2>1
  <2>6. 1 \in 1 .. n
    BY <2>1
  <2>7. ToSet(queue) = ToSet(queue') \union {Head(queue)}
    <3>1. \A i \in 1 .. n : queue[i] = Head(queue) \/ queue[i] \in ToSet(queue')
      <4> SUFFICES ASSUME NEW i \in 1 .. n, i # 1 PROVE queue[i] \in ToSet(queue')
        BY <2>1
      <4>1. i - 1 \in DOMAIN queue' /\ queue'[i - 1] = queue[i]
        BY <2>2, <2>3, <2>4
      <4> QED
        BY <4>1 DEF ToSet
    <3>2. \A i \in 1 .. (n - 1) : queue'[i] \in ToSet(queue)
      BY <2>2, <2>3, <2>5 DEF ToSet
    <3> QED
      BY <2>1, <2>3, <2>6, <3>1, <3>2 DEF ToSet
  <2>8. Head(queue) \in ToSet(log)
    BY <2>1 DEF KeptInv, EntryBeforeAck
  <2> QED
    BY <1>2, <2>1, <2>7, <2>8 DEF KeptInv, NothingIsLost, EntryBeforeAck
<1>5. CASE LoseAck
  BY <1>2, <1>5 DEF LoseAck, KeptInv, NothingIsLost, EntryBeforeAck
<1>6. CASE UNCHANGED allVars
  BY <1>2, <1>6 DEF allVars, auditVars, KeptInv, NothingIsLost, EntryBeforeAck
<1> QED
  BY <1>3, <1>4, <1>5, <1>6

LEMMA KeptInductive == AuditSpec => []KeptInv
<1>1. AuditInit => KeptInv
  <2> SUFFICES ASSUME AuditInit PROVE KeptInv
    OBVIOUS
  <2>1. queue = << >> /\ log = << >> /\ acking = FALSE /\ msgs = << >>
    BY DEF AuditInit, Init
  <2>2. ToSet(queue) = {} /\ ToSet(log) = {} /\ OnTheWay = {}
    BY <2>1 DEF ToSet, OnTheWay, Tags
  <2> QED
    BY <2>1, <2>2 DEF KeptInv, NothingIsLost, EntryBeforeAck
<1>2. AuditInv /\ KeptInv /\ [AuditNext]_allVars => KeptInv'
  <2> SUFFICES ASSUME AuditInv, KeptInv, [AuditNext]_allVars PROVE KeptInv'
    OBVIOUS
  <2>1. CASE Routed(Next)
    <3>1. Routed([Next]_vars)
      BY <2>1 DEF Routed
    <3> QED
      BY <3>1, RouteKeepsAll
  <2> QED
    BY <2>1, ConsumerKeepsAll DEF AuditNext, Consume, LoggingFails
<1> QED
  BY <1>1, <1>2, AuditInductive, PTL DEF AuditSpec

\* No event that the exchange took leaves the way to the log, for any number of
\* callers, failures of the logger and redeliveries, and the log tells no other.
THEOREM NothingLost == AuditSpec => []NothingIsLost
  BY KeptInductive, PTL DEF KeptInv

\* The consumer leaves the channel as it found it, so all that is said of the
\* publishers holds with the log behind them.
THEOREM ConsumerIsHarmless == AuditSpec => Spec
<1>1. AuditInit => Init
  BY DEF AuditInit
<1>2. [AuditNext]_allVars => [Next]_vars
  BY DEF AuditNext, Routed, Consume, handleEvent, AckThrows, Acked, LoggingFails, LoseAck,
         allVars
<1> QED
  BY <1>1, <1>2, PTL DEF AuditSpec, Spec

\* An event whose publish() resolved is queued or logged from then on, whatever
\* becomes of the channel and of the consumer: with a logger that works in the
\* end, which ConfirmedIsLogged asks for, it is in the log.
ConfirmedIsKept ==
  \A p \in Publishers : pc[p] = "resolved" =>
    \A i \in 1 .. Batch[p] : \E t \in ToSet(queue) \union ToSet(log) :
      msgs[t].by = p /\ msgs[t].event = i

\* For any number of callers, events, failures and redeliveries.
THEOREM ConfirmedKept == AuditSpec => []ConfirmedIsKept
<1>1. NothingIsLost /\ ResolvedIsAccepted => ConfirmedIsKept
  BY DEF NothingIsLost, ResolvedIsAccepted, ConfirmedIsKept, OnTheWay, OnExchange
<1> QED
  BY <1>1, NothingLost, ConsumerIsHarmless, ResolvedCallsAreAccepted, PTL
=============================================================================
