------------------------ MODULE ConfirmChannelProofs ------------------------
(***************************************************************************)
(* Theorems about ConfirmChannel for every number of callers, events and   *)
(* tries.                                                                  *)
(***************************************************************************)
EXTENDS ConfirmChannel, SequenceTheorems, FiniteSetTheorems, TLAPS

\* The messages that a call has queued for an event of its batch.
Own(p, i) == {t \in Tags : msgs[t].by = p /\ msgs[t].event = i}

\* A call that has not failed has a try left.
TriesLeft == \A p \in Publishers : pc[p] # "rejected" => attempt[p] < Attempts[p]

\* Messages are those of calls that were made, for events they have reached.
NothingAhead ==
  \A t \in Tags : LET p == msgs[t].by IN
    pc[p] # "idle" /\ msgs[t].event \in 1 .. event[p]

\* A call that waits does so for its own last message, and for nothing that
\* was queued after it.
WaitsForItsOwn ==
  \A p \in Publishers : pc[p] = "waiting" =>
    \E t \in awaits[p] :
      /\ msgs[t].by = p /\ msgs[t].event = event[p]
      /\ \A u \in awaits[p] : u <= t
      /\ \A u \in Tags : msgs[u].by = p => u <= t

\* A call goes on to its next event only when the broker has taken the last.
EarlierAccepted ==
  \A p \in Publishers : \A i \in 1 .. Batch[p] :
    i < event[p] \/ pc[p] = "resolved" =>
      \E t \in Own(p, i) : msgs[t].state = "acked"

\* Every message of the event a call is at is a try that failed or the last.
Bound(p, i) ==
  IF i # event[p] THEN Attempts[p]
  ELSE IF pc[p] \in {"waiting", "resolved"} THEN attempt[p] + 1 ELSE attempt[p]

TriesCounted ==
  \A p \in Publishers : \A i \in 1 .. Batch[p] : Cardinality(Own(p, i)) <= Bound(p, i)

IInv ==
  /\ TypeOK /\ TriesLeft /\ NothingAhead /\ WaitsForItsOwn
  /\ EarlierAccepted /\ TriesCounted /\ FailureHasACause

-----------------------------------------------------------------------------
(***************************************************************************)
(* What the actions do to the messages.                                    *)
(***************************************************************************)

\* No message is taken back, and the answer of the broker is final.
Kept ==
  /\ Tags \subseteq Tags'
  /\ \A t \in Tags :
       /\ msgs'[t].by = msgs[t].by /\ msgs'[t].event = msgs[t].event
       /\ msgs'[t].full = msgs[t].full
       /\ msgs[t].state \in {"acked", "nacked"} => msgs'[t].state = msgs[t].state

\* The messages themselves stay, their states apart.
Answered == msgs' \in Seq(Message) /\ Tags' = Tags /\ Kept

LEMMA TagsAre ==
  ASSUME TypeOK
  PROVE  /\ Len(msgs) \in Nat /\ Tags = 1 .. Len(msgs)
         /\ \A t \in Tags : msgs[t] \in Message
<1>1. msgs \in Seq(Message)
  BY DEF TypeOK
<1> QED
  BY <1>1, LenProperties DEF Tags

\* A call's next message is behind all others.
Grown(p) ==
  /\ msgs' \in Seq(Message) /\ Kept
  /\ Tags' = Tags \union {Len(msgs) + 1} /\ Len(msgs) + 1 \notin Tags
  /\ \A t \in Tags : msgs'[t] = msgs[t]
  /\ msgs'[Len(msgs) + 1].by = p /\ msgs'[Len(msgs) + 1].event = event[p]
  /\ msgs'[Len(msgs) + 1].state = "wire"

LEMMA QueueAppends ==
  ASSUME TypeOK, NEW p \in Publishers, NEW full \in BOOLEAN, Queue(p, full)
  PROVE  Grown(p) /\ msgs'[Len(msgs) + 1].full = full
<1> DEFINE m == [by |-> p, event |-> event[p], full |-> full, state |-> "wire"]
<1>1. m \in Message /\ msgs \in Seq(Message)
  BY DEF TypeOK, Message, Unanswered
<1>2. msgs' = Append(msgs, m)
  BY DEF Queue
<1>3. m.by = p /\ m.event = event[p] /\ m.state = "wire" /\ m.full = full
  OBVIOUS
<1> HIDE DEF m
<1>4. /\ msgs' \in Seq(Message) /\ Len(msgs') = Len(msgs) + 1
      /\ \A t \in 1 .. Len(msgs) : msgs'[t] = msgs[t]
      /\ msgs'[Len(msgs) + 1] = m
  BY <1>1, <1>2, AppendProperties
<1>5. Len(msgs) \in Nat /\ Tags = 1 .. Len(msgs) /\ Tags' = 1 .. Len(msgs) + 1
  BY <1>1, <1>4, LenProperties DEF Tags
<1>6. Tags' = Tags \union {Len(msgs) + 1} /\ Len(msgs) + 1 \notin Tags
  BY <1>5
<1>7. Kept
  BY <1>4, <1>5, <1>6 DEF Kept
<1> QED
  BY <1>3, <1>4, <1>5, <1>6, <1>7 DEF Grown

LEMMA AnswerChangesOne ==
  ASSUME TypeOK, NEW t \in Tags, NEW from, NEW to \in Unanswered \union {"acked", "nacked"},
         from \in Unanswered, Answer(t, from, to)
  PROVE  /\ Answered
         /\ \A u \in Tags : msgs'[u] = IF u = t THEN [msgs[t] EXCEPT !.state = to] ELSE msgs[u]
<1> DEFINE m == [msgs[t] EXCEPT !.state = to]
<1>1. msgs[t] \in Message /\ msgs \in Seq(Message) /\ Tags = 1 .. Len(msgs)
  BY TagsAre DEF TypeOK
<1>2. /\ m \in Message /\ m.by = msgs[t].by /\ m.event = msgs[t].event
      /\ m.full = msgs[t].full
  BY <1>1 DEF Message
<1>3. msgs' = [msgs EXCEPT ![t] = m] /\ msgs[t].state \notin {"acked", "nacked"}
  BY DEF Answer, Unanswered
<1> HIDE DEF m
<1>4. /\ msgs' \in Seq(Message) /\ Len(msgs') = Len(msgs)
      /\ \A u \in 1 .. Len(msgs) : msgs'[u] = IF u = t THEN m ELSE msgs[u]
  BY <1>1, <1>2, <1>3, ExceptSeq
<1>5. Tags' = Tags
  BY <1>1, <1>4, LenProperties DEF Tags
<1>6. Kept
  BY <1>1, <1>2, <1>3, <1>4, <1>5 DEF Kept
<1> QED
  BY <1>1, <1>4, <1>5, <1>6 DEF Answered, m

LEMMA CloseAnswers ==
  ASSUME TypeOK, Close
  PROVE  /\ Answered
         /\ \A t \in Tags : msgs'[t] = IF msgs[t].state = "wire"
                                       THEN [msgs[t] EXCEPT !.state = "lost"] ELSE msgs[t]
<1> DEFINE lost(t) == IF msgs[t].state = "wire"
                        THEN [msgs[t] EXCEPT !.state = "lost"] ELSE msgs[t]
<1>1. Len(msgs) \in Nat /\ Tags = 1 .. Len(msgs) /\ \A t \in Tags : msgs[t] \in Message
  BY TagsAre
<1>2. msgs' = [t \in Tags |-> lost(t)]
  BY DEF Close
<1>3. \A t \in Tags : /\ lost(t) \in Message /\ lost(t).by = msgs[t].by
                      /\ lost(t).event = msgs[t].event /\ lost(t).full = msgs[t].full
                      /\ msgs[t].state \in {"acked", "nacked"} => lost(t) = msgs[t]
  BY <1>1 DEF Message
<1> HIDE DEF lost
<1>4. Tags' = Tags /\ \A t \in Tags : msgs'[t] = lost(t)
  BY <1>2 DEF Tags
<1>5. msgs' \in [1 .. Len(msgs) -> Message]
  BY <1>1, <1>2, <1>3
<1>6. msgs' \in Seq(Message)
  BY <1>1, <1>5, SeqDef
<1>7. Kept
  BY <1>3, <1>4 DEF Kept
<1> QED
  BY <1>4, <1>6, <1>7 DEF Answered, lost

\* The broker and the end of the channel leave the calls alone.
LEMMA ChannelStep ==
  ASSUME TypeOK, Broker \/ Close
  PROVE  /\ Answered /\ UNCHANGED <<pc, event, attempt, awaits>>
         /\ open' \in BOOLEAN /\ (~open => ~open')
<1>1. CASE Close
  BY <1>1, CloseAnswers DEF Close
<1>2. ASSUME NEW t \in Tags, NEW from \in Unanswered,
             NEW to \in Unanswered \union {"acked", "nacked"}, Answer(t, from, to)
      PROVE  Answered /\ UNCHANGED <<pc, event, attempt, awaits, open>>
  BY <1>2, AnswerChangesOne DEF Answer
<1>3. CASE Broker
  BY <1>2, <1>3 DEF Broker, BrokerReads, BrokerAnswers, Unanswered, TypeOK
<1> QED
  BY <1>1, <1>3

\* A try that fails after its message was queued, or without one.
Fails(p) ==
  /\ pc[p] \in {"publish", "waiting"} /\ PublishFails(p)
  /\ UNCHANGED <<event, awaits, msgs, open>>

SendQueues(p) ==
  /\ pc[p] = "publish" /\ Queue(p, FALSE) /\ Goto(p, "waiting")
  /\ awaits' = [awaits EXCEPT ![p] = Awaited]
  /\ UNCHANGED <<event, attempt, open>>

SendFull(p) ==
  /\ pc[p] = "publish" /\ Queue(p, TRUE) /\ PublishFails(p)
  /\ UNCHANGED <<event, awaits, open>>

LEMMA SendsGrow ==
  ASSUME TypeOK, NEW p \in Publishers, SendQueues(p) \/ SendFull(p)
  PROVE  Grown(p)
BY QueueAppends DEF SendQueues, SendFull

\* The steps, by what they change.
LEMMA Steps ==
  ASSUME [Next]_vars
  PROVE  \/ Broker \/ Close \/ UNCHANGED vars
         \/ \E p \in Publishers :
              \/ Begin(p) \/ SendQueues(p) \/ SendFull(p) \/ Confirmed(p)
              \/ Fails(p) /\ ~open
              \/ Fails(p) /\ OneNacked(p) /\ pc[p] = "waiting"
<1>1. ASSUME NEW p \in Publishers, Send(p)
      PROVE  SendQueues(p) \/ SendFull(p)
  BY <1>1 DEF Send, SendQueues, SendFull
<1>2. ASSUME NEW p \in Publishers, SendFails(p) \/ ClosedWhileWaiting(p)
      PROVE  Fails(p) /\ ~open
  BY <1>2 DEF SendFails, ClosedWhileWaiting, Fails
<1>3. ASSUME NEW p \in Publishers, Nacked(p)
      PROVE  Fails(p) /\ OneNacked(p) /\ pc[p] = "waiting"
  BY <1>3 DEF Nacked, Fails
<1> QED
  BY <1>1, <1>2, <1>3 DEF Next, Proceed

-----------------------------------------------------------------------------
(***************************************************************************)
(* The inductive invariant.                                                *)
(***************************************************************************)

PcTypes == {"idle", "publish", "waiting", "resolved", "rejected"}

\* A failed try is counted, and the call gives up with the last.
LEMMA FailCounts ==
  ASSUME TypeOK, TriesLeft, NEW p \in Publishers, pc[p] # "rejected", PublishFails(p)
  PROVE  /\ attempt' \in [Publishers -> Nat] /\ attempt'[p] = attempt[p] + 1
         /\ attempt'[p] <= Attempts[p]
         /\ \A q \in Publishers \ {p} : attempt'[q] = attempt[q] /\ pc'[q] = pc[q]
         /\ pc' \in [Publishers -> PcTypes] /\ pc'[p] \in {"publish", "rejected"}
         /\ pc'[p] = "publish" => attempt'[p] < Attempts[p]
<1>1. /\ attempt \in [Publishers -> Nat] /\ pc \in [Publishers -> PcTypes]
      /\ attempt[p] \in Nat /\ Attempts[p] \in Nat /\ attempt[p] < Attempts[p]
  BY CallAssumption DEF TypeOK, TriesLeft, PcTypes
<1>2. attempt' = [attempt EXCEPT ![p] = attempt[p] + 1]
  BY DEF PublishFails
<1>3. pc' = [pc EXCEPT ![p] = IF attempt[p] + 1 >= Attempts[p] THEN "rejected" ELSE "publish"]
  BY DEF PublishFails, Goto
<1>4. "rejected" \in PcTypes /\ "publish" \in PcTypes
  BY DEF PcTypes
<1> QED
  BY <1>1, <1>2, <1>3, <1>4

LEMMA InitIInv == Init => IInv
<1> SUFFICES ASSUME Init PROVE IInv
  OBVIOUS
<1> USE DEF Init
<1>1. Tags = {} /\ msgs \in Seq(Message)
  BY DEF Tags
<1>2. TypeOK
  BY <1>1, CallAssumption DEF TypeOK
<1>3. TriesLeft /\ FailureHasACause
  BY CallAssumption DEF TriesLeft, FailureHasACause
<1>4. NothingAhead /\ WaitsForItsOwn
  BY <1>1 DEF NothingAhead, WaitsForItsOwn
<1>5. EarlierAccepted
  BY CallAssumption DEF EarlierAccepted
<1>6. \A p, i : Own(p, i) = {}
  BY <1>1 DEF Own
<1>7. TriesCounted
  <2>1. \A p, i : Cardinality(Own(p, i)) = 0
    BY <1>6, FS_EmptySet
  <2>2. \A p \in Publishers : Attempts[p] \in Nat
    BY CallAssumption
  <2> QED
    BY <2>1, <2>2 DEF TriesCounted, Bound
<1> QED
  BY <1>2, <1>3, <1>4, <1>5, <1>7 DEF IInv

LEMMA TypeOKStep ==
  ASSUME IInv, [Next]_vars
  PROVE  TypeOK'
<1> USE DEF PcTypes
<1>0. /\ TypeOK /\ TriesLeft /\ msgs \in Seq(Message)
      /\ pc \in [Publishers -> PcTypes] /\ event \in [Publishers -> Nat]
      /\ attempt \in [Publishers -> Nat] /\ awaits \in [Publishers -> SUBSET Tags]
      /\ Batch \in [Publishers -> Nat \ {0}] /\ Attempts \in [Publishers -> Nat \ {0}]
      /\ \A q \in Publishers : event[q] \in 1 .. Batch[q] /\ attempt[q] \in 0 .. Attempts[q]
      /\ open \in BOOLEAN
  BY CallAssumption DEF IInv, TypeOK
<1>1. CASE Broker \/ Close
  BY <1>0, <1>1, ChannelStep DEF Answered, TypeOK
<1>2. CASE UNCHANGED vars
  BY <1>0, <1>2 DEF TypeOK, vars, Tags
<1>3. ASSUME NEW p \in Publishers, Begin(p)
      PROVE  TypeOK'
  BY <1>0, <1>3 DEF TypeOK, Begin, Goto, Tags
<1>4. ASSUME NEW p \in Publishers, SendQueues(p)
      PROVE  TypeOK'
  <2>1. msgs' \in Seq(Message) /\ Tags' = Tags \union {Len(msgs) + 1}
    BY <1>0, <1>4, SendsGrow DEF Grown
  <2>2. Awaited \subseteq Tags'
    BY <2>1 DEF Awaited, Unconfirmed
  <2>3. awaits' \in [Publishers -> SUBSET Tags']
    BY <1>0, <1>4, <2>1, <2>2 DEF SendQueues
  <2> QED
    BY <1>0, <1>4, <2>1, <2>3 DEF TypeOK, SendQueues, Goto
<1>5. ASSUME NEW p \in Publishers, SendFull(p)
      PROVE  TypeOK'
  <2>1. msgs' \in Seq(Message) /\ Tags' = Tags \union {Len(msgs) + 1}
    BY <1>0, <1>5, SendsGrow DEF Grown
  <2>2. awaits' \in [Publishers -> SUBSET Tags']
    BY <1>0, <1>5, <2>1 DEF SendFull
  <2>3. PublishFails(p) /\ pc[p] = "publish"
    BY <1>5 DEF SendFull
  <2>4. /\ attempt' \in [Publishers -> Nat] /\ pc' \in [Publishers -> PcTypes]
        /\ attempt'[p] <= Attempts[p] /\ \A q \in Publishers \ {p} : attempt'[q] = attempt[q]
    BY <1>0, <2>3, FailCounts
  <2>5. ASSUME NEW q \in Publishers PROVE attempt'[q] \in 0 .. Attempts[q]
    <3>1. attempt'[q] \in Nat /\ Attempts[q] \in Nat
      BY <1>0, <2>4
    <3>2. CASE q = p
      BY <2>4, <3>1, <3>2
    <3>3. CASE q # p
      <4>1. attempt'[q] = attempt[q] /\ attempt[q] \in 0 .. Attempts[q]
        BY <1>0, <2>4, <3>3
      <4> QED
        BY <4>1
    <3> QED
      BY <3>2, <3>3
  <2> QED
    BY <1>0, <1>5, <2>1, <2>2, <2>4, <2>5 DEF TypeOK, SendFull
<1>6. ASSUME NEW p \in Publishers, Confirmed(p)
      PROVE  TypeOK'
  <2>1. /\ event' \in [Publishers -> Nat]
        /\ \A q \in Publishers : event'[q] \in 1 .. Batch[q]
    BY <1>0, <1>6 DEF Confirmed
  <2> QED
    BY <1>0, <1>6, <2>1 DEF TypeOK, Confirmed, Goto, Tags
<1>7. ASSUME NEW p \in Publishers, Fails(p)
      PROVE  TypeOK'
  <2>1. /\ attempt' \in [Publishers -> Nat] /\ pc' \in [Publishers -> PcTypes]
        /\ \A q \in Publishers : attempt'[q] \in 0 .. Attempts[q]
    BY <1>0, <1>7, FailCounts DEF Fails
  <2> QED
    BY <1>0, <1>7, <2>1 DEF TypeOK, Fails, Tags
<1> QED
  BY <1>1, <1>2, <1>3, <1>4, <1>5, <1>6, <1>7, Steps

LEMMA TriesLeftStep ==
  ASSUME IInv, [Next]_vars
  PROVE  TriesLeft'
<1>0. TypeOK /\ TriesLeft /\ pc \in [Publishers -> PcTypes]
  BY DEF IInv, TypeOK, PcTypes
<1>1. CASE Broker \/ Close
  BY <1>0, <1>1, ChannelStep DEF TriesLeft
<1>2. CASE UNCHANGED vars
  BY <1>0, <1>2 DEF vars, TriesLeft
<1>3. ASSUME NEW p \in Publishers, Begin(p) \/ SendQueues(p) \/ Confirmed(p)
      PROVE  TriesLeft'
  BY <1>0, <1>3 DEF Begin, SendQueues, Confirmed, Goto, TriesLeft
<1>4. ASSUME NEW p \in Publishers, Fails(p) \/ SendFull(p)
      PROVE  TriesLeft'
  BY <1>0, <1>4, FailCounts DEF Fails, SendFull, TriesLeft
<1> QED
  BY <1>1, <1>2, <1>3, <1>4, Steps

LEMMA NothingAheadStep ==
  ASSUME IInv, [Next]_vars
  PROVE  NothingAhead'
<1>0. /\ TypeOK /\ NothingAhead /\ TriesLeft /\ pc \in [Publishers -> PcTypes]
      /\ \A t \in Tags : msgs[t].by \in Publishers
      /\ event \in [Publishers -> Nat] /\ \A q \in Publishers : event[q] >= 1
  BY TagsAre, CallAssumption DEF IInv, TypeOK, PcTypes, Message
<1>1. CASE Broker \/ Close
  BY <1>0, <1>1, ChannelStep DEF NothingAhead, Answered, Kept
<1>2. CASE UNCHANGED vars
  BY <1>0, <1>2 DEF vars, NothingAhead, Tags
<1>3. ASSUME NEW p \in Publishers, Begin(p) \/ Confirmed(p)
      PROVE  NothingAhead'
  BY <1>0, <1>3 DEF Begin, Confirmed, Goto, NothingAhead, Tags
<1>4. ASSUME NEW p \in Publishers, SendQueues(p)
      PROVE  NothingAhead'
  <2>1. /\ Tags' = Tags \union {Len(msgs) + 1} /\ \A t \in Tags : msgs'[t] = msgs[t]
        /\ msgs'[Len(msgs) + 1].by = p /\ msgs'[Len(msgs) + 1].event = event[p]
    BY <1>0, <1>4, SendsGrow DEF Grown
  <2>2. event' = event /\ pc' = [pc EXCEPT ![p] = "waiting"]
    BY <1>4 DEF SendQueues, Goto
  <2> QED
    BY <1>0, <2>1, <2>2 DEF NothingAhead
<1>5. ASSUME NEW p \in Publishers, SendFull(p)
      PROVE  NothingAhead'
  <2>1. /\ Tags' = Tags \union {Len(msgs) + 1} /\ \A t \in Tags : msgs'[t] = msgs[t]
        /\ msgs'[Len(msgs) + 1].by = p /\ msgs'[Len(msgs) + 1].event = event[p]
    BY <1>0, <1>5, SendsGrow DEF Grown
  <2>2. PublishFails(p) /\ pc[p] = "publish" /\ event' = event
    BY <1>5 DEF SendFull
  <2>3. pc'[p] # "idle" /\ \A q \in Publishers : q # p => pc'[q] = pc[q]
    BY <1>0, <2>2, FailCounts
  <2> QED
    BY <1>0, <2>1, <2>2, <2>3 DEF NothingAhead
<1>6. ASSUME NEW p \in Publishers, Fails(p)
      PROVE  NothingAhead'
  BY <1>0, <1>6, FailCounts DEF Fails, NothingAhead, Tags
<1> QED
  BY <1>1, <1>2, <1>3, <1>4, <1>5, <1>6, Steps

\* What a waiting call waits for.
Waits(p, t) ==
  /\ msgs[t].by = p /\ msgs[t].event = event[p]
  /\ \A u \in awaits[p] : u <= t
  /\ \A u \in Tags : msgs[u].by = p => u <= t

LEMMA WaitsForItsOwnStep ==
  ASSUME IInv, [Next]_vars
  PROVE  WaitsForItsOwn'
<1>0. /\ TypeOK /\ TriesLeft /\ pc \in [Publishers -> PcTypes]
      /\ awaits \in [Publishers -> SUBSET Tags]
      /\ \A q \in Publishers : pc[q] = "waiting" => \E t \in awaits[q] : Waits(q, t)
  BY DEF IInv, TypeOK, PcTypes, WaitsForItsOwn, Waits
<1>1. ASSUME NEW q \in Publishers, pc[q] = "waiting", Kept, awaits'[q] = awaits[q],
             event'[q] = event[q], \A u \in Tags' \ Tags : msgs'[u].by # q
      PROVE  \E t \in awaits'[q] : Waits(q, t)'
  <2>1. PICK t \in awaits[q] : Waits(q, t)
    BY <1>0, <1>1
  <2>2. t \in Tags /\ awaits[q] \subseteq Tags
    BY <1>0
  <2>3. Waits(q, t)'
    BY <1>1, <2>1, <2>2 DEF Waits, Kept
  <2> QED
    BY <1>1, <2>3
<1>2. Kept /\ Tags' = Tags => \A q \in Publishers : pc[q] = "waiting" /\ awaits'[q] = awaits[q]
        /\ event'[q] = event[q] => \E t \in awaits'[q] : Waits(q, t)'
  BY <1>1
<1>3. msgs' = msgs => Kept /\ Tags' = Tags
  BY DEF Kept, Tags
<1>4. ASSUME \A q \in Publishers : pc'[q] = "waiting" => \E t \in awaits'[q] : Waits(q, t)'
      PROVE  WaitsForItsOwn'
  BY <1>4 DEF WaitsForItsOwn, Waits
<1>5. CASE Broker \/ Close
  BY <1>0, <1>2, <1>4, <1>5, ChannelStep DEF Answered
<1>6. CASE UNCHANGED vars
  BY <1>2, <1>3, <1>4, <1>6 DEF vars
<1>7. ASSUME NEW p \in Publishers, Begin(p) \/ Confirmed(p)
      PROVE  WaitsForItsOwn'
  <2>1. UNCHANGED <<awaits, msgs>> /\ pc'[p] # "waiting"
    BY <1>0, <1>7 DEF Begin, Confirmed, Goto
  <2>2. \A q \in Publishers \ {p} : pc'[q] = pc[q] /\ event'[q] = event[q]
    BY <1>0, <1>7 DEF Begin, Confirmed, Goto, IInv, TypeOK
  <2> QED
    BY <1>2, <1>3, <1>4, <2>1, <2>2
<1>8. ASSUME NEW p \in Publishers, SendQueues(p)
      PROVE  WaitsForItsOwn'
  <2>0. PICK last : last = Len(msgs) + 1
    OBVIOUS
  <2>1. /\ Kept /\ Tags' = Tags \union {last} /\ Tags = 1 .. Len(msgs) /\ Len(msgs) \in Nat
        /\ msgs'[last].by = p /\ msgs'[last].event = event[p]
    BY <1>0, <1>8, <2>0, SendsGrow, TagsAre DEF Grown
  <2>2. event' = event /\ pc' = [pc EXCEPT ![p] = "waiting"]
        /\ awaits' = [awaits EXCEPT ![p] = Awaited]
    BY <1>8 DEF SendQueues, Goto
  <2>3. last \in Awaited /\ \A u \in Awaited \union Tags' : u <= last
    BY <2>0, <2>1 DEF Awaited, Unconfirmed
  <2>4. awaits'[p] = Awaited
    BY <1>0, <2>2
  <2>5. \E t \in awaits'[p] : Waits(p, t)'
    BY <2>1, <2>2, <2>3, <2>4 DEF Waits
  <2>6. ASSUME NEW q \in Publishers \ {p}, pc'[q] = "waiting"
        PROVE  \E t \in awaits'[q] : Waits(q, t)'
    BY <1>0, <1>1, <2>1, <2>2, <2>6
  <2> QED
    BY <1>4, <2>5, <2>6
<1>9. ASSUME NEW p \in Publishers, SendFull(p)
      PROVE  WaitsForItsOwn'
  <2>0. PICK last : last = Len(msgs) + 1
    OBVIOUS
  <2>1. Kept /\ Tags' = Tags \union {last} /\ msgs'[last].by = p
    BY <1>0, <1>9, <2>0, SendsGrow DEF Grown
  <2>2. PublishFails(p) /\ pc[p] = "publish" /\ event' = event /\ awaits' = awaits
    BY <1>9 DEF SendFull
  <2>3. pc'[p] # "waiting" /\ \A q \in Publishers \ {p} : pc'[q] = pc[q]
    BY <1>0, <2>2, FailCounts
  <2> QED
    BY <1>1, <1>4, <2>1, <2>2, <2>3
<1>10. ASSUME NEW p \in Publishers, Fails(p)
       PROVE  WaitsForItsOwn'
  <2>1. pc'[p] # "waiting" /\ \A q \in Publishers \ {p} : pc'[q] = pc[q]
    BY <1>0, <1>10, FailCounts DEF Fails
  <2> QED
    BY <1>2, <1>3, <1>4, <1>10, <2>1 DEF Fails
<1> QED
  BY <1>5, <1>6, <1>7, <1>8, <1>9, <1>10, Steps

LEMMA EarlierAcceptedStep ==
  ASSUME IInv, [Next]_vars
  PROVE  EarlierAccepted'
<1> DEFINE Taken(p, i) == \E t \in Own(p, i) : msgs[t].state = "acked"
<1>0. /\ TypeOK /\ TriesLeft /\ pc \in [Publishers -> PcTypes] /\ event \in [Publishers -> Nat]
      /\ awaits \in [Publishers -> SUBSET Tags]
      /\ \A q \in Publishers : event[q] \in 1 .. Batch[q] /\ Batch[q] \in Nat
      /\ \A q \in Publishers : \A i \in 1 .. Batch[q] :
           i < event[q] \/ pc[q] = "resolved" => Taken(q, i)
  BY CallAssumption DEF IInv, TypeOK, PcTypes, EarlierAccepted
<1>1. ASSUME Kept, NEW q, NEW i, Taken(q, i)
      PROVE  Taken(q, i)'
  BY <1>1 DEF Own, Kept
<1>2. ASSUME Kept, NEW p \in Publishers, event' = event, pc'[p] # "resolved",
             \A q \in Publishers \ {p} : pc'[q] = pc[q]
      PROVE  EarlierAccepted'
  <2> HIDE DEF Taken
  <2>1. \A q \in Publishers : \A i \in 1 .. Batch[q] :
           i < event'[q] \/ pc'[q] = "resolved" => Taken(q, i)'
    BY <1>0, <1>1, <1>2
  <2> QED
    BY <2>1 DEF EarlierAccepted, Taken
<1>3. ASSUME Kept, UNCHANGED <<pc, event>>
      PROVE  EarlierAccepted'
  <2> HIDE DEF Taken
  <2>1. \A q \in Publishers : \A i \in 1 .. Batch[q] :
           i < event'[q] \/ pc'[q] = "resolved" => Taken(q, i)'
    BY <1>0, <1>1, <1>3
  <2> QED
    BY <2>1 DEF EarlierAccepted, Taken
<1>4. msgs' = msgs => Kept
  BY DEF Kept, Tags
<1>5. CASE Broker \/ Close
  BY <1>0, <1>3, <1>5, ChannelStep DEF Answered
<1>6. CASE UNCHANGED vars
  BY <1>3, <1>4, <1>6 DEF vars
<1>7. ASSUME NEW p \in Publishers, Begin(p) \/ SendQueues(p)
      PROVE  EarlierAccepted'
  <2>1. Kept
    BY <1>0, <1>4, <1>7, SendsGrow DEF Begin, Grown
  <2>2. /\ event' = event /\ pc'[p] # "resolved"
        /\ \A q \in Publishers \ {p} : pc'[q] = pc[q]
    BY <1>0, <1>7 DEF Begin, SendQueues, Goto
  <2> QED
    BY <1>2, <2>1, <2>2
<1>8. ASSUME NEW p \in Publishers, Fails(p) \/ SendFull(p)
      PROVE  EarlierAccepted'
  <2>1. Kept
    BY <1>0, <1>4, <1>8, SendsGrow DEF Fails, Grown
  <2>2. event' = event /\ PublishFails(p) /\ pc[p] # "rejected"
    BY <1>8 DEF Fails, SendFull
  <2>3. pc'[p] # "resolved" /\ \A q \in Publishers \ {p} : pc'[q] = pc[q]
    BY <1>0, <2>2, FailCounts
  <2> QED
    BY <1>2, <2>1, <2>2, <2>3
<1>9. ASSUME NEW p \in Publishers, Confirmed(p)
      PROVE  EarlierAccepted'
  <2>1. PICK t \in awaits[p] : msgs[t].by = p /\ msgs[t].event = event[p]
    BY <1>9 DEF IInv, WaitsForItsOwn, Confirmed
  <2>2. t \in Own(p, event[p]) /\ msgs[t].state = "acked"
    BY <1>0, <1>9, <2>1 DEF Own, Confirmed, AllAcked
  <2>3. Taken(p, event[p])
    BY <2>2
  <2> HIDE DEF Taken
  <2>4. \A i \in 1 .. event[p] : Taken(p, i)
    BY <1>0, <2>3
  <2>5. /\ msgs' = msgs /\ \A q \in Publishers \ {p} : pc'[q] = pc[q] /\ event'[q] = event[q]
        /\ pc'[p] = "resolved" => event[p] = Batch[p]
        /\ event'[p] <= event[p] + 1 /\ event'[p] \in Nat
    BY <1>0, <1>9 DEF Confirmed, Goto
  <2>6. \A q \in Publishers : \A i \in 1 .. Batch[q] :
           i < event'[q] \/ pc'[q] = "resolved" => Taken(q, i)'
    BY <1>0, <1>1, <1>4, <2>4, <2>5
  <2> QED
    BY <2>6 DEF EarlierAccepted, Taken
<1> QED
  BY <1>5, <1>6, <1>7, <1>8, <1>9, Steps

LEMMA OwnFinite ==
  ASSUME TypeOK
  PROVE  \A p, i : IsFiniteSet(Own(p, i)) /\ Cardinality(Own(p, i)) \in Nat
<1>1. IsFiniteSet(Tags)
  BY TagsAre, FS_Interval
<1>2. \A p, i : Own(p, i) \in SUBSET Tags
  BY DEF Own
<1> QED
  BY <1>1, <1>2, FS_Subset, FS_CardinalityType

LEMMA GrownOwn ==
  ASSUME TypeOK, NEW p \in Publishers, Grown(p), event' = event
  PROVE  /\ Cardinality(Own(p, event[p])') = Cardinality(Own(p, event[p])) + 1
         /\ \A q, i : q # p \/ i # event[p] => Own(q, i)' = Own(q, i)
<1>0. PICK last : last = Len(msgs) + 1
  OBVIOUS
<1>1. /\ Tags' = Tags \union {last} /\ last \notin Tags
      /\ \A t \in Tags : msgs'[t] = msgs[t]
      /\ msgs'[last].by = p /\ msgs'[last].event = event[p]
  BY <1>0 DEF Grown
<1>2. Own(p, event[p])' = Own(p, event[p]) \union {last} /\ last \notin Own(p, event[p])
  BY <1>1 DEF Own
<1>3. \A q, i : q # p \/ i # event[p] => Own(q, i)' = Own(q, i)
  BY <1>1 DEF Own
<1> QED
  BY <1>2, <1>3, OwnFinite, FS_AddElement

LEMMA TriesCountedStep ==
  ASSUME IInv, [Next]_vars
  PROVE  TriesCounted'
<1>0. /\ TypeOK /\ TriesLeft /\ pc \in [Publishers -> PcTypes] /\ event \in [Publishers -> Nat]
      /\ attempt \in [Publishers -> Nat]
      /\ \A q \in Publishers : Batch[q] \in Nat /\ Attempts[q] \in Nat
      /\ \A q \in Publishers : \A i \in 1 .. Batch[q] : Cardinality(Own(q, i)) <= Bound(q, i)
      /\ \A q, i : Cardinality(Own(q, i)) \in Nat
  BY OwnFinite, CallAssumption DEF IInv, TypeOK, PcTypes, TriesCounted
<1>1. ASSUME NEW p \in Publishers, \A i : Own(p, i)' = Own(p, i),
             pc'[p] = pc[p], event'[p] = event[p], attempt'[p] = attempt[p]
      PROVE  \A i \in 1 .. Batch[p] : Cardinality(Own(p, i)') <= Bound(p, i)'
  BY <1>0, <1>1 DEF Bound
<1>2. msgs' = msgs \/ Answered => \A q, i : Own(q, i)' = Own(q, i)
  BY DEF Own, Tags, Answered, Kept
<1>3. ASSUME \A q \in Publishers : \A i \in 1 .. Batch[q] : Cardinality(Own(q, i)') <= Bound(q, i)'
      PROVE  TriesCounted'
  BY <1>3 DEF TriesCounted
<1>4. CASE Broker \/ Close
  BY <1>0, <1>1, <1>2, <1>3, <1>4, ChannelStep
<1>5. CASE UNCHANGED vars
  BY <1>1, <1>2, <1>3, <1>5 DEF vars
<1>6. ASSUME NEW p \in Publishers, Begin(p)
      PROVE  TriesCounted'
  <2>1. UNCHANGED <<event, attempt, msgs>> /\ pc[p] = "idle" /\ pc' = [pc EXCEPT ![p] = "publish"]
    BY <1>6 DEF Begin, Goto
  <2>2. \A i \in 1 .. Batch[p] : Cardinality(Own(p, i)') <= Bound(p, i)'
    BY <1>0, <1>2, <2>1 DEF Bound
  <2> QED
    BY <1>0, <1>1, <1>2, <1>3, <2>1, <2>2
<1>7. ASSUME NEW p \in Publishers, SendQueues(p)
      PROVE  TriesCounted'
  <2>1. /\ UNCHANGED <<event, attempt>> /\ pc[p] = "publish"
        /\ pc' = [pc EXCEPT ![p] = "waiting"]
    BY <1>7 DEF SendQueues, Goto
  <2>2. /\ Cardinality(Own(p, event[p])') = Cardinality(Own(p, event[p])) + 1
        /\ \A q, i : q # p \/ i # event[p] => Own(q, i)' = Own(q, i)
    BY <1>0, <1>7, <2>1, SendsGrow, GrownOwn
  <2>3. ASSUME NEW i \in 1 .. Batch[p]
        PROVE  Cardinality(Own(p, i)') <= Bound(p, i)'
    <3>1. CASE i = event[p]
      BY <1>0, <2>1, <2>2, <3>1 DEF Bound
    <3>2. CASE i # event[p]
      BY <1>0, <2>1, <2>2, <3>2 DEF Bound
    <3> QED
      BY <3>1, <3>2
  <2> QED
    BY <1>0, <1>1, <1>3, <2>1, <2>2, <2>3
<1>8. ASSUME NEW p \in Publishers, SendFull(p)
      PROVE  TriesCounted'
  <2>1. event' = event /\ pc[p] = "publish" /\ PublishFails(p)
    BY <1>8 DEF SendFull
  <2>2. /\ attempt'[p] = attempt[p] + 1 /\ pc'[p] \notin {"waiting", "resolved"}
        /\ \A q \in Publishers \ {p} : attempt'[q] = attempt[q] /\ pc'[q] = pc[q]
    BY <1>0, <2>1, FailCounts
  <2>3. /\ Cardinality(Own(p, event[p])') = Cardinality(Own(p, event[p])) + 1
        /\ \A q, i : q # p \/ i # event[p] => Own(q, i)' = Own(q, i)
    BY <1>0, <1>8, <2>1, SendsGrow, GrownOwn
  <2>4. ASSUME NEW i \in 1 .. Batch[p]
        PROVE  Cardinality(Own(p, i)') <= Bound(p, i)'
    <3>1. CASE i = event[p]
      BY <1>0, <2>1, <2>2, <2>3, <3>1 DEF Bound
    <3>2. CASE i # event[p]
      BY <1>0, <2>1, <2>3, <3>2 DEF Bound
    <3> QED
      BY <3>1, <3>2
  <2> QED
    BY <1>0, <1>1, <1>3, <2>1, <2>2, <2>3, <2>4
<1>9. ASSUME NEW p \in Publishers, Fails(p)
      PROVE  TriesCounted'
  <2>1. event' = event /\ msgs' = msgs /\ pc[p] \in {"publish", "waiting"} /\ PublishFails(p)
    BY <1>9 DEF Fails
  <2>2. /\ attempt'[p] = attempt[p] + 1 /\ pc'[p] \notin {"waiting", "resolved"}
        /\ \A q \in Publishers \ {p} : attempt'[q] = attempt[q] /\ pc'[q] = pc[q]
    BY <1>0, <2>1, FailCounts
  <2>3. \A i \in 1 .. Batch[p] : Cardinality(Own(p, i)') <= Bound(p, i)'
    BY <1>0, <1>2, <2>1, <2>2 DEF Bound
  <2> QED
    BY <1>0, <1>1, <1>2, <1>3, <2>1, <2>2, <2>3
<1>10. ASSUME NEW p \in Publishers, Confirmed(p)
       PROVE  TriesCounted'
  <2>1. /\ attempt' = attempt /\ msgs' = msgs /\ pc[p] = "waiting"
        /\ \A q \in Publishers \ {p} : pc'[q] = pc[q] /\ event'[q] = event[q]
    BY <1>0, <1>10 DEF Confirmed, Goto
  <2>2. attempt[p] + 1 <= Attempts[p]
    BY <1>0, <2>1 DEF TriesLeft
  <2>3. \A i : i \notin 1 .. event[p] => Cardinality(Own(p, i)) = 0
    <3>1. \A i : i \notin 1 .. event[p] => Own(p, i) = {}
      BY DEF IInv, NothingAhead, Own
    <3> QED
      BY <3>1, FS_EmptySet
  <2>4. \/ pc'[p] = "resolved" /\ event'[p] = event[p]
        \/ event'[p] = event[p] + 1 /\ pc'[p] = "publish"
    BY <1>0, <1>10 DEF Confirmed, Goto
  <2>5. ASSUME NEW i \in 1 .. Batch[p]
        PROVE  Cardinality(Own(p, i)') <= Bound(p, i)'
    <3>1. Own(p, i)' = Own(p, i) /\ Cardinality(Own(p, i)) <= Bound(p, i)
      BY <1>0, <1>2, <2>1
    <3>2. CASE pc'[p] = "resolved" /\ event'[p] = event[p]
      BY <1>0, <2>1, <3>1, <3>2 DEF Bound
    <3>3. CASE event'[p] = event[p] + 1 /\ pc'[p] = "publish"
      <4>1. CASE i = event[p] + 1
        <5>1. event[p] \in Nat /\ i \notin 1 .. event[p]
          BY <1>0, <4>1
        <5> QED
          BY <1>0, <2>1, <2>3, <3>1, <3>3, <4>1, <5>1 DEF Bound
      <4>2. CASE i # event[p] + 1
        BY <1>0, <2>1, <2>2, <3>1, <3>3, <4>2 DEF Bound
      <4> QED
        BY <4>1, <4>2
    <3> QED
      BY <2>4, <3>2, <3>3
  <2> QED
    BY <1>0, <1>1, <1>2, <1>3, <2>1, <2>5
<1> QED
  BY <1>4, <1>5, <1>6, <1>7, <1>8, <1>9, <1>10, Steps

\* Why a call failed on a channel that is open.
Cause(p, t) ==
  /\ msgs[t].by = p /\ \A u \in Tags : msgs[u].by = p => u <= t
  /\ msgs[t].full \/ \E u \in 1 .. t : msgs[u].state = "nacked"

LEMMA FailureHasACauseStep ==
  ASSUME IInv, [Next]_vars
  PROVE  FailureHasACause'
<1>0. /\ TypeOK /\ TriesLeft /\ pc \in [Publishers -> PcTypes]
      /\ Len(msgs) \in Nat /\ Tags = 1 .. Len(msgs)
      /\ \A q \in Publishers : pc[q] = "rejected" => ~open \/ \E t \in Tags : Cause(q, t)
  BY TagsAre DEF IInv, TypeOK, PcTypes, FailureHasACause, Cause
<1>1. ASSUME NEW q \in Publishers, NEW t \in Tags, Cause(q, t), Kept,
             \A u \in Tags' \ Tags : msgs'[u].by # q
      PROVE  \E k \in Tags' : Cause(q, k)'
  <2>1. 1 .. t \subseteq Tags
    BY <1>0
  <2>2. Cause(q, t)'
    BY <1>1, <2>1 DEF Cause, Kept
  <2> QED
    BY <1>1, <2>2 DEF Kept
<1>2. ASSUME NEW q \in Publishers, pc[q] = "rejected", Kept, ~open => ~open',
             \A u \in Tags' \ Tags : msgs'[u].by # q
      PROVE  ~open' \/ \E t \in Tags' : Cause(q, t)'
  BY <1>0, <1>1, <1>2
<1>3. ASSUME \A q \in Publishers : pc'[q] = "rejected" =>
               ~open' \/ \E t \in Tags' : Cause(q, t)'
      PROVE  FailureHasACause'
  BY <1>3 DEF FailureHasACause, Cause
<1>4. msgs' = msgs => Kept /\ Tags' = Tags
  BY DEF Kept, Tags
<1>5. CASE Broker \/ Close
  BY <1>0, <1>2, <1>3, <1>5, ChannelStep DEF Answered
<1>6. CASE UNCHANGED vars
  BY <1>2, <1>3, <1>4, <1>6 DEF vars
<1>7. ASSUME NEW p \in Publishers, Begin(p) \/ Confirmed(p)
      PROVE  FailureHasACause'
  <2>1. UNCHANGED <<msgs, open>> /\ pc'[p] # "rejected"
        /\ \A q \in Publishers \ {p} : pc'[q] = pc[q]
    BY <1>0, <1>7 DEF Begin, Confirmed, Goto
  <2> QED
    BY <1>2, <1>3, <1>4, <2>1
<1>8. ASSUME NEW p \in Publishers, SendQueues(p) \/ SendFull(p)
      PROVE  FailureHasACause'
  <2>0. PICK last : last = Len(msgs) + 1
    OBVIOUS
  <2>1. Kept /\ Tags' = Tags \union {last} /\ msgs'[last].by = p
    BY <1>0, <1>8, <2>0, SendsGrow DEF Grown
  <2>2. open' = open /\ \A q \in Publishers \ {p} : pc'[q] = pc[q]
    <3>1. CASE SendQueues(p)
      BY <1>0, <3>1 DEF SendQueues, Goto
    <3>2. CASE SendFull(p)
      <4>1. PublishFails(p) /\ pc[p] # "rejected" /\ open' = open
        BY <3>2 DEF SendFull
      <4> QED
        BY <1>0, <4>1, FailCounts
    <3> QED
      BY <1>8, <3>1, <3>2
  <2>3. ASSUME pc'[p] = "rejected"
        PROVE  \E t \in Tags' : Cause(p, t)'
    <3>1. Queue(p, TRUE)
      BY <1>0, <1>8, <2>3 DEF SendQueues, SendFull, Goto
    <3>2. msgs'[last].full = TRUE
      BY <1>0, <2>0, <3>1, QueueAppends
    <3>3. \A u \in Tags' : u <= last
      BY <1>0, <2>0, <2>1
    <3>4. Cause(p, last)'
      BY <2>1, <3>2, <3>3 DEF Cause
    <3> QED
      BY <2>1, <3>4
  <2> QED
    BY <1>2, <1>3, <2>1, <2>2, <2>3
<1>9. ASSUME NEW p \in Publishers, Fails(p),
             ~open \/ (OneNacked(p) /\ pc[p] = "waiting")
      PROVE  FailureHasACause'
  <2>1. msgs' = msgs /\ open' = open /\ pc[p] # "rejected" /\ PublishFails(p)
    BY <1>9 DEF Fails
  <2>2. \A q \in Publishers \ {p} : pc'[q] = pc[q]
    BY <1>0, <2>1, FailCounts
  <2>3. ~open' \/ \E t \in Tags' : Cause(p, t)'
    <3>1. CASE ~open
      BY <2>1, <3>1
    <3>2. CASE OneNacked(p) /\ pc[p] = "waiting"
      <4>1. PICK t \in awaits[p] : Waits(p, t)
        BY <3>2 DEF IInv, WaitsForItsOwn, Waits
      <4>2. PICK u \in awaits[p] : msgs[u].state = "nacked"
        BY <3>2 DEF OneNacked
      <4>3. t \in Tags /\ u \in 1 .. t
        BY <1>0, <4>1, <4>2 DEF Waits, TypeOK
      <4>4. Cause(p, t)
        BY <4>1, <4>2, <4>3 DEF Cause, Waits
      <4> QED
        BY <2>1, <4>3, <4>4 DEF Cause, Tags
    <3> QED
      BY <1>9, <3>1, <3>2
  <2> QED
    BY <1>2, <1>3, <1>4, <2>1, <2>2, <2>3
<1> QED
  BY <1>5, <1>6, <1>7, <1>8, <1>9, Steps

LEMMA StepIInv == IInv /\ [Next]_vars => IInv'
  BY TypeOKStep, TriesLeftStep, NothingAheadStep, WaitsForItsOwnStep, EarlierAcceptedStep,
     TriesCountedStep, FailureHasACauseStep DEF IInv

LEMMA Inductive == Spec => []IInv
  BY InitIInv, StepIInv, PTL DEF Spec

\* Calls, tries, messages and the channel keep their shape; in particular no
\* call tries an event more often than it may.
THEOREM TypeCorrect == Spec => []TypeOK
<1>1. IInv => TypeOK
  BY DEF IInv
<1> QED
  BY Inductive, <1>1, PTL

\* A call of publish(), publishWithRetry() or publishMany() that resolves has
\* the broker's confirm for a message of its own for each of its events, in
\* spite of a waitForConfirms() that all calls share.
THEOREM ResolvedCallsAreAccepted == Spec => []ResolvedIsAccepted
<1>1. IInv => ResolvedIsAccepted
  BY DEF IInv, EarlierAccepted, ResolvedIsAccepted, Own
<1> QED
  BY Inductive, <1>1, PTL

\* A call that rejects met a closed channel, a full buffer or the nack of a
\* message queued no later than its own: what is published behind it cannot
\* make it fail.
THEOREM FailuresHaveCauses == Spec => []FailureHasACause
<1>1. IInv => FailureHasACause
  BY DEF IInv
<1> QED
  BY Inductive, <1>1, PTL

-----------------------------------------------------------------------------
(***************************************************************************)
(* Refinement of the publication port.                                     *)
(***************************************************************************)

\* The copies of an event that the exchange has got.
Copies(p, i) == {t \in Tags : /\ msgs[t].by = p /\ msgs[t].event = i
                              /\ msgs[t].state \in OnExchange}

LEMMA CopiesFinite ==
  ASSUME TypeOK
  PROVE  \A p, i : /\ IsFiniteSet(Copies(p, i)) /\ Cardinality(Copies(p, i)) \in Nat
                   /\ Cardinality(Copies(p, i)) = 0 <=> Copies(p, i) = {}
<1>1. \A p, i : Copies(p, i) \in SUBSET Own(p, i)
  BY DEF Copies, Own
<1> QED
  BY <1>1, OwnFinite, FS_Subset, FS_CardinalityType, FS_EmptySet

LEMMA CopiesOf ==
  /\ copiesOf = [p \in Publishers |-> [i \in 1 .. Batch[p] |-> Cardinality(Copies(p, i))]]
  /\ copiesOf' = [p \in Publishers |-> [i \in 1 .. Batch[p] |-> Cardinality(Copies(p, i)')]]
BY DEF copiesOf, Copies

\* Messages that wait to be written or are refused are no copies.
LEMMA CopiesStay ==
  ASSUME TypeOK, [Next]_vars
  PROVE  \/ UNCHANGED copiesOf
         \/ \E t \in Tags : Answer(t, "wire", "taken")
<1> SUFFICES ASSUME \A t \in Tags : ~Answer(t, "wire", "taken")
             PROVE  UNCHANGED copiesOf
  OBVIOUS
<1>0. \A t \in Tags : msgs[t] \in Message
  BY TagsAre
<1>1. ASSUME \A p, i : Copies(p, i)' = Copies(p, i)
      PROVE  UNCHANGED copiesOf
  BY <1>1, CopiesOf
<1>2. CASE msgs' = msgs
  BY <1>1, <1>2 DEF Copies, Tags
<1>3. CASE Close
  BY <1>0, <1>1, <1>3, CloseAnswers DEF Copies, OnExchange, Answered, Message
<1>4. ASSUME NEW t \in Tags, NEW from \in Unanswered,
             NEW to \in Unanswered \union {"acked", "nacked"}, Answer(t, from, to),
             from \in OnExchange <=> to \in OnExchange
      PROVE  UNCHANGED copiesOf
  <2>1. msgs[t].state = from
    BY <1>4 DEF Answer
  <2>2. /\ Tags' = Tags
        /\ \A u \in Tags : msgs'[u] = IF u = t THEN [msgs[t] EXCEPT !.state = to] ELSE msgs[u]
    BY <1>4, AnswerChangesOne DEF Answered
  <2> QED
    BY <1>0, <1>1, <1>4, <2>1, <2>2 DEF Copies, Message
<1>5. CASE Broker
  BY <1>4, <1>5 DEF Broker, BrokerReads, BrokerAnswers, Unanswered, OnExchange
<1>6. ASSUME NEW p \in Publishers, Grown(p)
      PROVE  UNCHANGED copiesOf
  <2>1. \A q, i : Copies(q, i)' = Copies(q, i)
    BY <1>6 DEF Grown, Copies, OnExchange
  <2> QED
    BY <1>1, <2>1
<1> QED
  BY <1>2, <1>3, <1>5, <1>6, Steps, SendsGrow DEF vars, Begin, Confirmed, Fails

\* The broker takes the next event of a call, which was made and may try it
\* once more.
LEMMA TakenIsAccept ==
  ASSUME IInv, NEW t \in Tags, Answer(t, "wire", "taken")
  PROVE  Publication!Accept(msgs[t].by, msgs[t].event)
         /\ msgs[t].by \in Publishers /\ msgs[t].event \in 1 .. Batch[msgs[t].by]
<1>0. PICK p, i : p = msgs[t].by /\ i = msgs[t].event
  OBVIOUS
<1>1. /\ TypeOK /\ msgs[t] \in Message /\ p \in Publishers /\ msgs[t].state = "wire"
      /\ pc[p] # "idle" /\ i \in 1 .. event[p] /\ event[p] \in 1 .. Batch[p]
      /\ Batch[p] \in Nat /\ Attempts[p] \in Nat
  BY <1>0, TagsAre, CallAssumption DEF IInv, TypeOK, NothingAhead, Message, Answer
<1>2. i \in 1 .. Batch[p]
  BY <1>1
<1>3. callOf[p] # "idle" /\ UNCHANGED callOf
  BY <1>1 DEF callOf, Answer
<1>4. \A k \in 1 .. i - 1 : copiesOf[p][k] > 0
  <2>1. ASSUME NEW k \in 1 .. i - 1
        PROVE  Copies(p, k) # {} /\ k \in 1 .. Batch[p]
    <3>1. k \in 1 .. Batch[p] /\ k < event[p]
      BY <1>1, <2>1
    <3>2. PICK u \in Own(p, k) : msgs[u].state = "acked"
      BY <1>1, <3>1 DEF IInv, EarlierAccepted
    <3> QED
      BY <3>1, <3>2 DEF Own, Copies, OnExchange
  <2> QED
    BY <1>1, <2>1, CopiesFinite, CopiesOf
<1>5. /\ Copies(p, i)' = Copies(p, i) \union {t} /\ t \notin Copies(p, i)
      /\ \A q, k : q # p \/ k # i => Copies(q, k)' = Copies(q, k)
  <2>1. /\ Tags' = Tags
        /\ \A u \in Tags : msgs'[u] = IF u = t THEN [msgs[t] EXCEPT !.state = "taken"] ELSE msgs[u]
    BY <1>1, AnswerChangesOne DEF Answered, Unanswered
  <2> QED
    BY <1>0, <1>1, <2>1 DEF Copies, OnExchange, Message
<1>6. Cardinality(Copies(p, i)') = Cardinality(Copies(p, i)) + 1
  BY <1>1, <1>5, CopiesFinite, FS_AddElement
<1>7. Cardinality(Copies(p, i)) < Attempts[p]
  <2>1. Copies(p, i) \union {t} \in SUBSET Own(p, i)
    BY <1>0 DEF Copies, Own
  <2>2. /\ Cardinality(Copies(p, i) \union {t}) <= Cardinality(Own(p, i))
        /\ Cardinality(Own(p, i)) \in Nat
    BY <1>1, <2>1, OwnFinite, FS_Subset
  <2>3. Cardinality(Own(p, i)) <= Bound(p, i)
    BY <1>1, <1>2 DEF IInv, TriesCounted
  <2>4. Bound(p, i) <= Attempts[p] /\ Bound(p, i) \in Nat
    BY <1>1 DEF Bound, IInv, TriesLeft, TypeOK
  <2>5. Cardinality(Copies(p, i)) \in Nat
    BY <1>1, CopiesFinite
  <2> QED
    BY <1>1, <1>5, <1>6, <2>2, <2>3, <2>4, <2>5
<1>8. copiesOf' = [copiesOf EXCEPT ![p][i] = @ + 1]
  <2> DEFINE row(q) == [k \in 1 .. Batch[q] |-> Cardinality(Copies(q, k))]
             newRow(q) == [k \in 1 .. Batch[q] |-> Cardinality(Copies(q, k)')]
  <2>1. \A q : q # p => newRow(q) = row(q)
    BY <1>5
  <2>2. newRow(p) = [row(p) EXCEPT ![i] = @ + 1]
    BY <1>2, <1>5, <1>6
  <2>3. /\ copiesOf = [q \in Publishers |-> row(q)]
        /\ copiesOf' = [q \in Publishers |-> newRow(q)]
    BY CopiesOf
  <2> HIDE DEF row, newRow
  <2> QED
    BY <1>1, <2>1, <2>2, <2>3
<1>9. copiesOf[p][i] < Attempts[p]
  BY <1>1, <1>2, <1>7, CopiesOf
<1> QED
  BY <1>0, <1>1, <1>2, <1>3, <1>4, <1>8, <1>9 DEF Publication!Accept

LEMMA PublicationInit == Init => Publication!Init
<1> SUFFICES ASSUME Init PROVE Publication!Init
  OBVIOUS
<1>1. callOf = [p \in Publishers |-> "idle"]
  BY DEF Init, callOf
<1>2. \A p, i : Cardinality(Copies(p, i)) = 0
  <2>1. \A p, i : Copies(p, i) = {}
    BY DEF Init, Copies, Tags
  <2> QED
    BY <2>1, FS_EmptySet
<1>3. copiesOf = [p \in Publishers |-> [i \in 1 .. Batch[p] |-> 0]]
  BY <1>2, CopiesOf
<1> QED
  BY <1>1, <1>3 DEF Publication!Init

\* A step of a call moves its caller's knowledge, or nothing.
LEMMA CallMoves ==
  ASSUME IInv, [Next]_vars, UNCHANGED copiesOf
  PROVE  [Publication!Next]_(Publication!vars)
<1>0. /\ TypeOK /\ TriesLeft /\ pc \in [Publishers -> PcTypes]
      /\ \A q \in Publishers : event[q] \in 1 .. Batch[q] /\ Batch[q] \in Nat
  BY CallAssumption DEF IInv, TypeOK, PcTypes
<1> DEFINE Told(label) == IF label \in {"publish", "waiting"} THEN "pending" ELSE label
<1>1. callOf = [q \in Publishers |-> Told(pc[q])]
  BY DEF callOf
<1>2. callOf' = [q \in Publishers |-> Told(pc'[q])]
  BY DEF callOf
<1>3. ASSUME pc' = pc
      PROVE  [Publication!Next]_(Publication!vars)
  BY <1>1, <1>2, <1>3 DEF Publication!vars
<1>4. ASSUME NEW p \in Publishers, \A q \in Publishers \ {p} : pc'[q] = pc[q]
      PROVE  callOf' = [callOf EXCEPT ![p] = Told(pc'[p])] /\ callOf[p] = Told(pc[p])
  BY <1>1, <1>2, <1>4
<1>5. CASE Broker \/ Close
  BY <1>0, <1>3, <1>5, ChannelStep
<1>6. CASE UNCHANGED vars
  BY <1>3, <1>6 DEF vars
<1>7. ASSUME NEW p \in Publishers, Begin(p)
      PROVE  Publication!Begin(p)
  <2>1. pc[p] = "idle" /\ pc'[p] = "publish" /\ \A q \in Publishers \ {p} : pc'[q] = pc[q]
    BY <1>0, <1>7 DEF Begin, Goto
  <2> QED
    BY <1>4, <2>1 DEF Publication!Begin, Publication!Move
<1>8. ASSUME NEW p \in Publishers, pc[p] \in {"publish", "waiting"}, PublishFails(p)
      PROVE  [Publication!Reject(p)]_(Publication!vars)
  <2>1. pc'[p] \in {"publish", "rejected"} /\ \A q \in Publishers \ {p} : pc'[q] = pc[q]
    BY <1>0, <1>8, FailCounts
  <2>2. CASE pc'[p] = "rejected"
    BY <1>4, <1>8, <2>1, <2>2 DEF Publication!Reject, Publication!Move
  <2>3. CASE pc'[p] = "publish"
    <3>1. UNCHANGED callOf
      BY <1>1, <1>4, <1>8, <2>1, <2>3
    <3> QED
      BY <3>1 DEF Publication!vars
  <2> QED
    BY <2>1, <2>2, <2>3
<1>9. ASSUME NEW p \in Publishers, SendQueues(p)
      PROVE  UNCHANGED Publication!vars
  <2>1. pc[p] = "publish" /\ pc'[p] = "waiting" /\ \A q \in Publishers \ {p} : pc'[q] = pc[q]
    BY <1>0, <1>9 DEF SendQueues, Goto
  <2>2. UNCHANGED callOf
    BY <1>1, <1>4, <2>1
  <2> QED
    BY <2>2 DEF Publication!vars
<1>10. ASSUME NEW p \in Publishers, Confirmed(p)
       PROVE  [Publication!Resolve(p)]_(Publication!vars)
  <2>1. /\ pc[p] = "waiting" /\ pc'[p] \in {"publish", "resolved"}
        /\ pc'[p] = "resolved" => event[p] = Batch[p]
        /\ \A q \in Publishers \ {p} : pc'[q] = pc[q]
    BY <1>0, <1>10 DEF Confirmed, Goto
  <2>2. CASE pc'[p] = "resolved"
    <3>1. ASSUME NEW i \in 1 .. Batch[p]
          PROVE  Copies(p, i) # {}
      <4>1. CASE i < event[p]
        BY <4>1 DEF IInv, EarlierAccepted, Own, Copies, OnExchange
      <4>2. CASE i = event[p]
        <5>1. PICK t \in awaits[p] : msgs[t].by = p /\ msgs[t].event = event[p]
          BY <2>1 DEF IInv, WaitsForItsOwn
        <5> QED
          BY <1>0, <1>10, <4>2, <5>1 DEF Copies, OnExchange, Confirmed, AllAcked, TypeOK
      <4> QED
        BY <1>0, <2>1, <2>2, <4>1, <4>2
    <3>2. \A i \in 1 .. Batch[p] : copiesOf[p][i] > 0
      BY <1>0, <3>1, CopiesFinite, CopiesOf
    <3> QED
      BY <1>4, <2>1, <2>2, <3>2 DEF Publication!Resolve, Publication!Move
  <2>3. CASE pc'[p] = "publish"
    <3>1. UNCHANGED callOf
      BY <1>1, <1>4, <2>1, <2>3
    <3> QED
      BY <3>1 DEF Publication!vars
  <2> QED
    BY <2>1, <2>2, <2>3
<1>11. \/ Broker \/ Close \/ UNCHANGED vars
       \/ \E p \in Publishers : \/ Begin(p) \/ SendQueues(p) \/ Confirmed(p)
                                \/ pc[p] \in {"publish", "waiting"} /\ PublishFails(p)
  BY Steps DEF SendFull, Fails
<1> HIDE DEF Told
<1> QED
  BY <1>5, <1>6, <1>7, <1>8, <1>9, <1>10, <1>11 DEF Publication!Next

LEMMA PublicationStep == IInv /\ [Next]_vars => [Publication!Next]_(Publication!vars)
<1> SUFFICES ASSUME IInv, [Next]_vars PROVE [Publication!Next]_(Publication!vars)
  OBVIOUS
<1>1. TypeOK
  BY DEF IInv
<1>2. CASE \E t \in Tags : Answer(t, "wire", "taken")
  BY <1>2, TakenIsAccept DEF Publication!Next
<1> QED
  BY <1>1, <1>2, CopiesStay, CallMoves

\* For any number of callers, events and tries the publisher keeps what its
\* port promises: the exchange gets the events of a call in order and no event
\* more often than it may be tried, and all of them if the call resolves.
THEOREM PublicationImplemented == Spec => ImplementsPublication
  BY PublicationInit, PublicationStep, InitIInv, Inductive, PTL
     DEF Spec, ImplementsPublication, Publication!Spec
=============================================================================
