----------------------- MODULE IngestionSystemProofs -----------------------
(***************************************************************************)
(* Theorems about IngestionSystem for every set of jobs, every number of   *)
(* triggers, retries, crashes and lost channels.                           *)
(***************************************************************************)
EXTENDS IngestionSystem, FiniteSetTheorems, TLAPS

Final == {"COMPLETED", "PARTIALLY_COMPLETED", "FAILED"}
Outcome == {"Completed", "Failed"}

\* What the calls, the rows, the events and the messages of a job say of each
\* other: no row, event or message without a call, no message without its
\* event, no event before its row, no resolved call without an outcome.
Ledgered ==
  \A j \in Jobs :
    /\ call[j] = "none" => status[j] = "ABSENT"
    /\ status[j] \in {"ABSENT", "PENDING"} => announced[j] = {}
    /\ announced[j] \intersect Outcome # {} => status[j] \in Final
    /\ call[j] = "resolved" => announced[j] \intersect Outcome # {}
    /\ place[j] # "none" => "Started" \in announced[j]

\* Every call made for a message that still runs is awaited by a handler, be
\* its channel open or lost; what a handler has was once on the queue.
Handled ==
  /\ \A n \in Channels : run[n] # None => call[run[n]] # "none"
  /\ \A n \in Channels : current[n] # None => place[current[n]] # "none"
  /\ \A j \in Jobs : call[j] = "running" /\ cause[j] # None =>
                     \E n \in 0 .. losses : run[n] = j

\* With one trigger the triggered job has announced its start before there is
\* another one, and is alone at work.  While the consumer keeps its channel no
\* two jobs are unfinished at once, whether they are worked at or left behind,
\* and while its handler awaits an execute() only that job is.
Unfinished(j) == AtWork(j) \/ Orphan(j)
Chained ==
  /\ triggers = 0 => \A j \in Jobs : call[j] = "none"
  /\ triggers <= 1 =>
       /\ \A i, j \in Jobs : /\ call[i] # "none" /\ cause[i] = None /\ i # j
                             /\ "Started" \notin announced[i]
                             => call[j] = "none"
       /\ \A i, j \in Jobs : AtWork(i) /\ AtWork(j) /\ cause[i] = None => i = j
       /\ losses = 0 =>
            /\ \A i, j \in Jobs : Unfinished(i) /\ Unfinished(j) => i = j
            /\ \A i \in Jobs : Unfinished(i) /\ run[0] # None => run[0] = i

\* The ingestions that were or may yet be carried out for a message: those
\* that were or run, and one for each handler that still stands before its
\* execute() and whose channel is lost.  There is one of them, and one more for
\* each crash and each lost channel.
Work(m) == {j \in Jobs : cause[j] = m /\ call[j] \in {"running", "resolved"}}
Late(m) == {n \in Channels : n < losses /\ current[n] = m /\ run[n] = None}
Settled(m) ==
  \/ place[m] = "acked"
  \/ current[losses] = m /\ run[losses] # None /\ call[run[losses]] # "rejected"
Counted ==
  \A m \in Jobs : /\ IsFiniteSet(Work(m)) /\ IsFiniteSet(Late(m))
                  /\ Cardinality(Work(m)) + Cardinality(Late(m))
                       <= crashes + losses + IF Settled(m) THEN 1 ELSE 0

IInv == TypeOK /\ Ledgered /\ Handled /\ Chained /\ Counted /\ AckedHasOutcome

Status == Final \union {"ABSENT", "PENDING", "IN_PROGRESS"}
Kinds == Outcome \union {"Started"}

-----------------------------------------------------------------------------
(***************************************************************************)
(* What the steps do.                                                      *)
(***************************************************************************)

\* The ledger in the words of these proofs.
LEMMA StatusTyped ==
  ASSUME TypeOK
  PROVE  /\ status \in [Jobs -> Status] /\ announced \in [Jobs -> SUBSET Kinds]
         /\ Ledger!Success \union {"FAILED"} = Final
BY DEF TypeOK, Status, Final, Kinds, Outcome, Ledger!Success

\* A save moves the row of a call on, out of a state that is not final; a
\* publish adds the outcome of a final row.
Saved(j) ==
  /\ announced' = announced
  /\ \E s \in Final \union {"PENDING", "IN_PROGRESS"} :
       /\ status[j] \notin Final /\ status' = [status EXCEPT ![j] = s]
       /\ s = "PENDING" => status[j] = "ABSENT"
Published(j) ==
  /\ status' = status
  /\ \E kind \in Outcome :
       status[j] \in Final /\ announced' = [announced EXCEPT ![j] = @ \union {kind}]

LEMMA SaveChanges ==
  ASSUME NEW j \in Jobs, Save(j)
  PROVE  /\ call[j] = "running"
         /\ Saved(j) \/ Published(j)
         /\ UNCHANGED <<call, cause, queue, consumer, triggers, crashes>>
<1>1. CASE Ledger!Create(j) \/ Ledger!Begin(j) \/ Ledger!Abandon(j) \/ Ledger!Finish(j)
  BY <1>1 DEF Save, Saved, Final, Ledger!Create, Ledger!Begin, Ledger!Abandon,
              Ledger!Finish, Ledger!Move, Ledger!Success
<1>2. CASE Ledger!AnnounceCompleted(j) \/ Ledger!AnnounceFailed(j)
  BY <1>2 DEF Save, Published, Final, Outcome, Ledger!AnnounceCompleted,
              Ledger!AnnounceFailed, Ledger!Announce, Ledger!Success
<1> QED
  BY <1>1, <1>2 DEF Save

\* A started ingestion announces it, which puts its message into the queue.
Started(j) ==
  /\ call[j] = "running" /\ status[j] = "IN_PROGRESS" /\ announced[j] = {}
  /\ announced' = [announced EXCEPT ![j] = {"Started"}]
  /\ place' = [place EXCEPT ![j] = "ready"]
  /\ UNCHANGED <<status, call, cause, headers, consumer, triggers, crashes>>

LEMMA StartChanges ==
  ASSUME TypeOK, NEW j \in Jobs, AnnounceStarted(j)
  PROVE  Started(j)
BY StatusTyped DEF AnnounceStarted, Started, Ledger!AnnounceStarted, Ledger!Announce

\* A job that starts has no message yet.
LEMMA StartedIsNew ==
  ASSUME TypeOK, Ledgered, Handled, NEW j \in Jobs, Started(j)
  PROVE  place[j] = "none" /\ \A n \in Channels : j # current[n]
BY NoneAssumption DEF TypeOK, Ledgered, Handled, Started

\* The three ways a handler is over.
Leaves(n, where) ==
  /\ current[n] # None
  /\ Settle(n, where)
  /\ \/ where = "acked" /\ run[n] # None /\ call[run[n]] = "resolved"
     \/ where \in {"ready", "dead"} /\ (run[n] = None \/ call[run[n]] = "rejected")
  /\ UNCHANGED <<ledger, call, cause, headers, losses, triggers, crashes>>

Ways == {"acked", "ready", "dead"}

LEMMA MessageLeaves ==
  ASSUME TypeOK, NEW n \in Channels, Ack(n) \/ Refused(n) \/ Failed(n)
  PROVE  \E where \in Ways : Leaves(n, where)
BY DEF Ack, Refused, Failed, handleError, Leaves, TypeOK, Ways

\* What is left of the queue and the consumer when a handler is over.
LEMMA Left ==
  ASSUME TypeOK, NEW n \in Channels, NEW where \in Ways, Leaves(n, where)
  PROVE  /\ UNCHANGED <<status, announced, call, cause, headers, losses, triggers, crashes>>
         /\ \A k \in Channels : /\ current'[k] = IF k = n THEN None ELSE current[k]
                                /\ run'[k] = IF k = n THEN None ELSE run[k]
         /\ current' \in [Channels -> Jobs \union {None}]
         /\ run' \in [Channels -> Jobs \union {None}]
         /\ current[n] \in Jobs /\ place' \in [Jobs -> {"none", "ready", "unacked", "acked", "dead"}]
         /\ \A m \in Jobs : place'[m] = IF n = losses /\ m = current[n] THEN where ELSE place[m]
BY DEF TypeOK, Leaves, Settle, ledger, Ways

\* The steps, as the proofs below take them apart.
LEMMA Steps ==
  ASSUME TypeOK, [Next]_vars
  PROVE  \/ UNCHANGED vars \/ Crash
         \/ LoseChannel
         \/ \E n \in Channels : \/ \E where \in Ways : Leaves(n, where)
                                \/ \E j \in Jobs : Execute(n, j)
         \/ \E j \in Jobs : \/ Trigger(j) \/ Save(j) \/ Started(j) \/ Resolve(j) \/ Reject(j)
                            \/ Deliver(j) \/ Expire(j)
BY MessageLeaves, StartChanges DEF Next

-----------------------------------------------------------------------------
LEMMA InitIInv == Init => IInv
<1> SUFFICES ASSUME Init PROVE IInv
  OBVIOUS
<1> USE NoneAssumption, BoundAssumption DEF Init, Ledger!Init, Channels
<1>1. TypeOK
  BY DEF TypeOK
<1>2. Ledgered /\ Handled /\ AckedHasOutcome
  BY DEF Ledgered, Handled, AckedHasOutcome, Outcome
<1>3. Chained
  BY DEF Chained, Unfinished, AtWork, Orphan
<1>4. Counted
  <2>1. \A m \in Jobs : Work(m) = {} /\ Late(m) = {}
    BY DEF Work, Late
  <2>2. IsFiniteSet({}) /\ Cardinality({}) = 0
    BY FS_EmptySet
  <2>3. \A m \in Jobs : /\ IsFiniteSet(Work(m)) /\ Cardinality(Work(m)) = 0
                        /\ IsFiniteSet(Late(m)) /\ Cardinality(Late(m)) = 0
    BY <2>1, <2>2
  <2>4. losses = 0 /\ crashes = 0
    OBVIOUS
  <2> HIDE DEF Init
  <2> QED
    BY <2>3, <2>4 DEF Counted
<1> QED
  BY <1>1, <1>2, <1>3, <1>4 DEF IInv

LEMMA TypeOKStep ==
  ASSUME TypeOK, Ledgered, Handled, [Next]_vars
  PROVE  TypeOK'
<1> USE NoneAssumption, BoundAssumption
<1>0. losses \in Channels /\ losses \in Nat
  BY DEF TypeOK, Channels
<1>1. CASE UNCHANGED vars
  BY <1>1 DEF TypeOK, vars, ledger, queue, consumer
<1>2. CASE Crash
  BY <1>0, <1>2 DEF TypeOK, Crash, Redelivered, ledger
<1>3. CASE LoseChannel
  <2>1. losses' = losses + 1 /\ losses' \in Channels /\ losses' > losses
    BY <1>0, <1>3 DEF LoseChannel, Channels
  <2>2. current[losses'] = None
    BY <2>1 DEF TypeOK
  <2>3. /\ place' \in [Jobs -> {"none", "ready", "unacked", "acked", "dead"}]
        /\ \A m \in Jobs : place'[m] # "unacked"
    BY <1>3 DEF LoseChannel, Redelivered, TypeOK
  <2>4. \A n \in Channels : n > losses' => n > losses
    BY <1>0, <2>1 DEF Channels
  <2>5. UNCHANGED <<status, announced, call, cause, headers, current, run, triggers, crashes>>
    BY <1>3 DEF LoseChannel, ledger
  <2> QED
    BY <2>1, <2>2, <2>3, <2>4, <2>5 DEF TypeOK
<1>4. ASSUME NEW n \in Channels, NEW where \in Ways, Leaves(n, where)
      PROVE  TypeOK'
  BY <1>0, <1>4, Left DEF TypeOK, Ways
<1>5. ASSUME NEW j \in Jobs, Trigger(j)
      PROVE  TypeOK'
  BY <1>5 DEF TypeOK, Handled, Trigger, Call, ledger, queue, consumer
<1>6. ASSUME NEW j \in Jobs, Save(j)
      PROVE  TypeOK'
  <2>1. status' \in [Jobs -> Status] /\ announced' \in [Jobs -> SUBSET Kinds]
    BY <1>6, SaveChanges, StatusTyped DEF Saved, Published, Status, Kinds
  <2> QED
    BY <1>6, <2>1, SaveChanges DEF TypeOK, queue, consumer, Status, Final, Kinds, Outcome,
                                   Ledger!Success
<1>7. ASSUME NEW j \in Jobs, Started(j)
      PROVE  TypeOK'
  BY <1>0, <1>7, StartedIsNew DEF TypeOK, Started, consumer
<1>8. ASSUME NEW j \in Jobs, Resolve(j) \/ Reject(j)
      PROVE  TypeOK'
  BY <1>8 DEF TypeOK, Resolve, Reject, ledger, queue, consumer
<1>9. ASSUME NEW j \in Jobs, Deliver(j)
      PROVE  TypeOK'
  BY <1>0, <1>9 DEF TypeOK, Deliver, ledger
<1>10. ASSUME NEW n \in Channels, NEW j \in Jobs, Execute(n, j)
       PROVE  TypeOK'
  <2>1. /\ call[j] = "none" /\ call' = [call EXCEPT ![j] = "running"]
        /\ cause' = [cause EXCEPT ![j] = current[n]]
        /\ current[n] \in Jobs /\ run' = [run EXCEPT ![n] = j]
    BY <1>10 DEF Execute, Call, TypeOK
  <2>2. \A k \in Channels : run[k] # None => cause'[run[k]] = cause[run[k]]
    BY <2>1 DEF TypeOK, Handled
  <2>3. \A k \in Channels : run'[k] # None =>
          current[k] # None /\ cause'[run'[k]] = current[k]
    BY <2>1, <2>2 DEF TypeOK
  <2> QED
    BY <1>10, <2>1, <2>3 DEF TypeOK, Execute, ledger, queue
<1>11. ASSUME NEW j \in Jobs, Expire(j)
       PROVE  TypeOK'
  BY <1>11 DEF TypeOK, Expire, ledger, consumer
<1> QED
  BY <1>1, <1>2, <1>3, <1>4, <1>5, <1>6, <1>7, <1>8, <1>9, <1>10, <1>11, Steps

LEMMA LedgeredStep ==
  ASSUME TypeOK, Ledgered, Handled, [Next]_vars
  PROVE  Ledgered'
<1> USE StatusTyped
<1>1. CASE UNCHANGED vars
  BY <1>1 DEF Ledgered, vars, ledger, queue
<1>2. CASE Crash \/ LoseChannel
  BY <1>2 DEF TypeOK, Ledgered, Crash, LoseChannel, Redelivered, ledger
<1>3. ASSUME NEW n \in Channels, NEW where \in Ways, Leaves(n, where)
      PROVE  Ledgered'
  <2>1. place[current[n]] # "none" /\ current[n] \in Jobs
    BY <1>3, Left DEF Handled, Leaves
  <2> QED
    BY <1>3, <2>1, Left DEF Ledgered
<1>4. ASSUME NEW n \in Channels, NEW j \in Jobs, Trigger(j) \/ Execute(n, j)
      PROVE  Ledgered'
  BY <1>4 DEF TypeOK, Ledgered, Trigger, Execute, Call, ledger, queue
<1>5. ASSUME NEW j \in Jobs, Save(j)
      PROVE  Ledgered'
  <2>1. call[j] = "running" /\ UNCHANGED <<call, place>>
    BY <1>5, SaveChanges DEF queue
  <2>2. CASE Saved(j)
    BY <2>1, <2>2 DEF TypeOK, Ledgered, Saved, Final, Outcome
  <2>3. CASE Published(j)
    BY <2>1, <2>3 DEF TypeOK, Ledgered, Published, Final, Outcome
  <2> QED
    BY <1>5, <2>2, <2>3, SaveChanges
<1>6. ASSUME NEW j \in Jobs, Started(j)
      PROVE  Ledgered'
  BY <1>6 DEF TypeOK, Ledgered, Started, Outcome
<1>7. ASSUME NEW j \in Jobs, Resolve(j) \/ Reject(j)
      PROVE  Ledgered'
  BY <1>7 DEF TypeOK, Ledgered, Resolve, Reject, ledger, queue, Outcome
<1>8. ASSUME NEW j \in Jobs, Deliver(j) \/ Expire(j)
      PROVE  Ledgered'
  BY <1>8 DEF TypeOK, Ledgered, Deliver, Expire, ledger
<1>9. 0 \in Channels
  BY BoundAssumption DEF Channels
<1> QED
  BY <1>1, <1>2, <1>3, <1>4, <1>5, <1>6, <1>7, <1>8, <1>9, Steps

LEMMA HandledStep ==
  ASSUME TypeOK, Ledgered, Handled, [Next]_vars
  PROVE  Handled'
<1> USE NoneAssumption
<1>0. losses \in Nat /\ 0 .. losses \subseteq Channels
  BY BoundAssumption DEF TypeOK, Channels
<1>1. CASE UNCHANGED vars
  BY <1>1 DEF Handled, vars, queue, consumer
<1>2. CASE Crash
  BY <1>2 DEF TypeOK, Handled, Crash
<1>3. CASE LoseChannel
  <2>1. losses' = losses + 1 /\ UNCHANGED <<call, cause, current, run>>
        /\ \A m \in Jobs : place[m] # "none" => place'[m] # "none"
    BY <1>3 DEF LoseChannel, Redelivered
  <2>2. \A n \in 0 .. losses : n \in 0 .. losses'
    BY <1>0, <2>1
  <2> QED
    BY <2>1, <2>2 DEF Handled, TypeOK
<1>4. ASSUME NEW n \in Channels, NEW where \in Ways, Leaves(n, where)
      PROVE  Handled'
  <2>1. \A j \in Jobs : call[j] = "running" => run[n] # j
    BY <1>4 DEF Leaves
  <2>2. \A m \in Jobs : place[m] # "none" => place'[m] # "none"
    BY <1>4, Left DEF Ways
  <2> QED
    BY <1>0, <1>4, <2>1, <2>2, Left DEF Handled, TypeOK
<1>5. ASSUME NEW j \in Jobs, Trigger(j)
      PROVE  Handled'
  <2>1. /\ call[j] = "none" /\ call' = [call EXCEPT ![j] = "running"]
        /\ cause' = [cause EXCEPT ![j] = None]
        /\ UNCHANGED <<place, current, run, losses>>
    BY <1>5 DEF Trigger, Call, queue, consumer
  <2> QED
    BY <2>1 DEF Handled, TypeOK
<1>6. ASSUME NEW n \in Channels, NEW j \in Jobs, Execute(n, j)
      PROVE  Handled'
  <2>1. /\ call[j] = "none" /\ call' = [call EXCEPT ![j] = "running"]
        /\ cause' = [cause EXCEPT ![j] = current[n]]
        /\ run[n] = None /\ run' = [run EXCEPT ![n] = j]
        /\ UNCHANGED <<place, current, losses>>
    BY <1>6 DEF Execute, Call, queue
  <2>2. n \in 0 .. losses
    <3>1. ~ (n > losses)
      BY <1>6 DEF Execute, TypeOK
    <3> QED
      BY <1>0, <3>1 DEF Channels
  <2>3. \A k \in 0 .. losses : run'[k] = IF k = n THEN j ELSE run[k]
    BY <1>0, <2>1 DEF TypeOK
  <2>4. \A i \in Jobs : call'[i] = "running" /\ cause'[i] # None =>
                          \E k \in 0 .. losses : run'[k] = i
    <3> SUFFICES ASSUME NEW i \in Jobs, call'[i] = "running", cause'[i] # None
                 PROVE  \E k \in 0 .. losses : run'[k] = i
      OBVIOUS
    <3>1. CASE i = j
      BY <2>2, <2>3, <3>1
    <3>2. CASE i # j
      <4>1. PICK k \in 0 .. losses : run[k] = i
        BY <2>1, <3>2 DEF Handled, TypeOK
      <4> QED
        BY <2>1, <2>3, <4>1
    <3> QED
      BY <3>1, <3>2
  <2>5. \A k \in Channels : run'[k] # None => call'[run'[k]] # "none"
    BY <2>1 DEF Handled, TypeOK
  <2> QED
    BY <2>1, <2>4, <2>5 DEF Handled
<1>7. ASSUME NEW j \in Jobs, Save(j) \/ Started(j) \/ Deliver(j) \/ Expire(j)
      PROVE  Handled'
  <2>1. UNCHANGED <<call, cause, run, losses>>
    BY <1>7, SaveChanges DEF Started, Deliver, Expire, consumer
  <2>2. \A m \in Jobs : place[m] # "none" => place'[m] # "none"
    BY <1>7, SaveChanges DEF Started, Deliver, Expire, queue, TypeOK
  <2>3. \A n \in Channels : current'[n] = current[n] \/ (current'[n] = j /\ place[j] = "ready")
    BY <1>7, SaveChanges DEF Started, Deliver, Expire, consumer, TypeOK
  <2> QED
    BY <2>1, <2>2, <2>3 DEF Handled, TypeOK
<1>8. ASSUME NEW j \in Jobs, Resolve(j) \/ Reject(j)
      PROVE  Handled'
  BY <1>8 DEF TypeOK, Handled, Resolve, Reject, queue, consumer
<1> QED
  BY <1>1, <1>2, <1>3, <1>4, <1>5, <1>6, <1>7, <1>8, Steps

\* No step makes a job unfinished, or puts one to work, but the call that
\* creates it.
LEMMA UnfinishedStays ==
  ASSUME TypeOK, Ledgered, [Next]_vars,
         \A j \in Jobs : ~Trigger(j) /\ \A n \in Channels : ~Execute(n, j)
  PROVE  \A i \in Jobs : (Unfinished(i)' => Unfinished(i)) /\ (AtWork(i)' => AtWork(i))
<1> SUFFICES ASSUME NEW i \in Jobs
             PROVE  (Unfinished(i)' => Unfinished(i)) /\ (AtWork(i)' => AtWork(i))
  OBVIOUS
<1> USE DEF Unfinished, AtWork, Orphan
<1> DEFINE Stays == (Unfinished(i)' => Unfinished(i)) /\ (AtWork(i)' => AtWork(i))
<1>1. CASE UNCHANGED vars \/ LoseChannel
  BY <1>1 DEF vars, ledger, LoseChannel
<1>2. CASE Crash
  BY <1>2 DEF TypeOK, Crash, ledger
<1>3. ASSUME NEW n \in Channels, NEW where \in Ways, Leaves(n, where)
      PROVE  Stays
  BY <1>3 DEF Leaves, ledger
<1>4. ASSUME NEW j \in Jobs, Save(j)
      PROVE  Stays
  BY <1>4, SaveChanges, StatusTyped DEF Saved, Published, Final, Status
<1>5. ASSUME NEW j \in Jobs, Started(j) \/ Deliver(j) \/ Expire(j)
      PROVE  Stays
  BY <1>5 DEF Started, Deliver, Expire, ledger
<1>6. ASSUME NEW j \in Jobs, Resolve(j) \/ Reject(j)
      PROVE  Stays
  <2>1. Ledgered /\ UNCHANGED <<status, announced>>
    BY <1>6 DEF Resolve, Reject, ledger
  <2>2. call' = [call EXCEPT ![j] = "resolved"] \/ call' = [call EXCEPT ![j] = "rejected"]
    BY <1>6 DEF Resolve, Reject
  <2>3. call[j] = "running"
    BY <1>6 DEF Resolve, Reject
  <2> QED
    BY <2>1, <2>2, <2>3 DEF TypeOK
<1> HIDE DEF Stays
<1>7. Stays
  BY <1>1, <1>2, <1>3, <1>4, <1>5, <1>6, Steps DEF Stays
<1> QED
  BY <1>7 DEF Stays

LEMMA ChainedStep ==
  ASSUME TypeOK, Ledgered, Handled, Chained, [Next]_vars
  PROVE  Chained'
<1> USE NoneAssumption, BoundAssumption
<1>0. losses \in Nat /\ 0 \in Channels
  BY DEF TypeOK, Channels
<1>1. CASE \A j \in Jobs : ~Trigger(j) /\ \A n \in Channels : ~Execute(n, j)
  <2>1. \A i \in Jobs : (Unfinished(i)' => Unfinished(i)) /\ (AtWork(i)' => AtWork(i))
    BY <1>1, UnfinishedStays
  <2> DEFINE Kept == /\ triggers' = triggers /\ cause' = cause
                     /\ losses' = 0 => losses = 0
                     /\ \A i \in Jobs :
                          /\ call'[i] = "none" <=> call[i] = "none"
                          /\ "Started" \in announced[i] => "Started" \in announced'[i]
                     /\ run'[0] # None => run'[0] = run[0]
  <2>2. Kept
    <3>1. CASE UNCHANGED vars
      BY <3>1 DEF vars, ledger, consumer
    <3>2. CASE Crash
      BY <1>0, <3>2 DEF TypeOK, ledger, Crash
    <3>3. CASE LoseChannel
      BY <1>0, <3>3 DEF ledger, LoseChannel
    <3>4. ASSUME NEW n \in Channels, NEW where \in Ways, Leaves(n, where)
          PROVE  Kept
      BY <1>0, <3>4, Left
    <3>5. ASSUME NEW j \in Jobs, Save(j)
          PROVE  Kept
      BY <3>5, SaveChanges DEF TypeOK, Saved, Published, consumer
    <3>6. ASSUME NEW j \in Jobs, Started(j) \/ Deliver(j) \/ Expire(j)
          PROVE  Kept
      BY <3>6 DEF TypeOK, Started, Deliver, Expire, ledger, consumer
    <3>7. ASSUME NEW j \in Jobs, Resolve(j) \/ Reject(j)
          PROVE  Kept
      BY <3>7 DEF TypeOK, Resolve, Reject, ledger, consumer
    <3> HIDE DEF Kept
    <3> QED
      BY <1>1, <3>1, <3>2, <3>3, <3>4, <3>5, <3>6, <3>7, Steps
  <2> QED
    BY <2>1, <2>2 DEF Chained
<1>2. ASSUME NEW j \in Jobs, Trigger(j)
      PROVE  Chained'
  <2>1. triggers \in Nat /\ triggers' = triggers + 1
    BY <1>2 DEF Trigger, TypeOK
  <2>2. CASE triggers = 0
    <3>1. /\ \A i \in Jobs : call[i] = "none" /\ status[i] = "ABSENT"
          /\ \A n \in Channels : run[n] = None
          /\ UNCHANGED <<status, announced, run>>
      BY <1>2, <2>2 DEF Chained, Handled, Ledgered, TypeOK, Trigger, ledger, consumer
    <3>2. \A i \in Jobs : i # j => call'[i] = "none"
      BY <1>2, <3>1 DEF Trigger, Call, TypeOK
    <3>3. \A i \in Jobs : Unfinished(i)' \/ AtWork(i)' => i = j
      BY <3>1, <3>2 DEF Unfinished, AtWork, Orphan
    <3> QED
      BY <1>0, <2>1, <2>2, <3>1, <3>2, <3>3 DEF Chained
  <2>3. CASE triggers # 0
    BY <2>1, <2>3 DEF Chained
  <2> QED
    BY <2>2, <2>3
<1>3. ASSUME NEW n \in Channels, NEW j \in Jobs, Execute(n, j)
      PROVE  Chained'
  <2>1. /\ current[n] \in Jobs /\ "Started" \in announced[current[n]]
        /\ call[current[n]] # "none"
    BY <1>3 DEF Execute, TypeOK, Ledgered, Handled
  <2>2. /\ call[j] = "none" /\ call' = [call EXCEPT ![j] = "running"]
        /\ cause' = [cause EXCEPT ![j] = current[n]]
        /\ run[n] = None /\ run' = [run EXCEPT ![n] = j]
        /\ UNCHANGED <<status, announced, triggers, losses>>
        /\ \A i \in Jobs : status[i] # "IN_PROGRESS"
    BY <1>3 DEF Execute, Call, ledger, hasRunningJob
  <2>3. triggers # 0
    BY <2>1 DEF Chained
  <2>4. losses = 0 => n = 0
    <3>1. ~ (n > losses)
      BY <1>3 DEF Execute, TypeOK
    <3> QED
      BY <1>0, <3>1 DEF Channels
  <2>5. ASSUME triggers <= 1, NEW i \in Jobs, call[i] # "none", cause[i] = None
        PROVE  "Started" \in announced[i] /\ ~AtWork(i)
    <3>1. "Started" \in announced[i]
      BY <2>1, <2>5 DEF Chained
    <3> QED
      BY <2>2, <3>1 DEF AtWork, Ledgered
  <2>6. ASSUME triggers <= 1, losses = 0, NEW i \in Jobs, Unfinished(i)
        PROVE  FALSE
    <3>1. call[i] = "running" /\ AtWork(i)
      BY <2>2, <2>6 DEF Unfinished, AtWork, Orphan
    <3>2. cause[i] # None
      BY <2>5, <2>6, <3>1
    <3>3. run[0] = i
      BY <2>6, <3>1, <3>2 DEF Handled
    <3> QED
      BY <2>2, <2>4, <2>6, <3>3
  <2>7. /\ cause'[j] # None /\ run'[n] = j
        /\ \A i \in Jobs : i # j => cause'[i] = cause[i] /\ call'[i] = call[i]
    BY <2>1, <2>2 DEF TypeOK
  <2>8. ASSUME triggers <= 1, losses = 0
        PROVE  \A i \in Jobs : Unfinished(i)' => i = j
    BY <2>2, <2>6, <2>7, <2>8 DEF Unfinished, AtWork, Orphan
  <2>9. ASSUME triggers <= 1, NEW i \in Jobs, AtWork(i)', cause'[i] = None
        PROVE  FALSE
    <3>1. i # j /\ call[i] = "running" /\ cause[i] = None /\ AtWork(i)
      BY <2>2, <2>7, <2>9 DEF AtWork
    <3> QED
      BY <2>5, <2>9, <3>1
  <2>10. ASSUME triggers <= 1, NEW i \in Jobs, call'[i] # "none", cause'[i] = None
         PROVE  "Started" \in announced'[i]
    BY <2>2, <2>5, <2>7, <2>10
  <2> QED
    BY <2>2, <2>3, <2>4, <2>7, <2>8, <2>9, <2>10 DEF Chained
<1> QED
  BY <1>1, <1>2, <1>3

CountedAt(m) ==
  /\ IsFiniteSet(Work(m)) /\ IsFiniteSet(Late(m))
  /\ Cardinality(Work(m)) + Cardinality(Late(m))
       <= crashes + losses + IF Settled(m) THEN 1 ELSE 0

\* Smaller sets have no more elements, and one element is one element.
LEMMA Smaller ==
  ASSUME NEW S, IsFiniteSet(S), NEW T, T \subseteq S
  PROVE  /\ IsFiniteSet(T) /\ Cardinality(T) \in Nat /\ Cardinality(S) \in Nat
         /\ Cardinality(T) <= Cardinality(S)
BY FS_Subset, FS_CardinalityType

LEMMA OneMore ==
  ASSUME NEW S, IsFiniteSet(S), NEW x, NEW T, T = S \union {x}
  PROVE  /\ IsFiniteSet(T) /\ Cardinality(T) \in Nat /\ Cardinality(S) \in Nat
         /\ Cardinality(T) <= Cardinality(S) + 1
<1>1. Cardinality(S) \in Nat
  BY FS_CardinalityType
<1>2. /\ IsFiniteSet(T)
      /\ Cardinality(T) = IF x \in S THEN Cardinality(S) ELSE Cardinality(S) + 1
  BY FS_AddElement
<1> QED
  BY <1>1, <1>2

LEMMA OneLess ==
  ASSUME NEW S, IsFiniteSet(S), NEW x \in S, NEW T, T = S \ {x}
  PROVE  /\ IsFiniteSet(T) /\ Cardinality(T) \in Nat /\ Cardinality(S) \in Nat
         /\ Cardinality(T) = Cardinality(S) - 1
BY FS_RemoveElement, FS_CardinalityType

\* A step that adds no work, leaves nobody behind and settles nothing less.
LEMMA CountedKept ==
  ASSUME TypeOK, NEW m \in Jobs, CountedAt(m), UNCHANGED <<crashes, losses>>,
         Work(m)' \subseteq Work(m), Late(m)' \subseteq Late(m), Settled(m) => Settled(m)'
  PROVE  CountedAt(m)'
<1> USE BoundAssumption
<1>1. /\ IsFiniteSet(Work(m)') /\ Cardinality(Work(m)') \in Nat /\ Cardinality(Work(m)) \in Nat
      /\ Cardinality(Work(m)') <= Cardinality(Work(m))
  BY Smaller DEF CountedAt
<1>2. /\ IsFiniteSet(Late(m)') /\ Cardinality(Late(m)') \in Nat /\ Cardinality(Late(m)) \in Nat
      /\ Cardinality(Late(m)') <= Cardinality(Late(m))
  BY Smaller DEF CountedAt
<1>3. crashes \in Nat /\ losses \in Nat
  BY DEF TypeOK, Channels
<1> QED
  BY <1>1, <1>2, <1>3 DEF CountedAt

LEMMA AddUp ==
  ASSUME NEW w \in Nat, NEW l \in Nat, NEW v \in Nat, NEW k \in Nat,
         NEW c \in Nat, NEW d \in Nat, NEW e \in Nat, NEW f \in Nat,
         v <= w, k <= l, w + l <= c + d + 1, e + f = c + d + 1
  PROVE  v + k <= e + f
OBVIOUS

\* What only one more crash or one more lost channel unsettles is still paid for.
LEMMA CountedPaid ==
  ASSUME TypeOK, NEW m \in Jobs, CountedAt(m), crashes' + losses' = crashes + losses + 1,
         crashes' \in Nat, losses' \in Nat,
         Work(m)' \subseteq Work(m),
         \/ Late(m)' \subseteq Late(m)
         \/ ~Settled(m) /\ \E n : Late(m)' = Late(m) \union {n}
  PROVE  CountedAt(m)'
<1> USE BoundAssumption
<1>1. /\ IsFiniteSet(Work(m)') /\ Cardinality(Work(m)') \in Nat /\ Cardinality(Work(m)) \in Nat
      /\ Cardinality(Work(m)') <= Cardinality(Work(m))
  BY Smaller DEF CountedAt
<1>2. crashes \in Nat /\ losses \in Nat
  BY DEF TypeOK, Channels
<1>3. CASE Late(m)' \subseteq Late(m)
  <2>1. /\ IsFiniteSet(Late(m)') /\ Cardinality(Late(m)') \in Nat /\ Cardinality(Late(m)) \in Nat
        /\ Cardinality(Late(m)') <= Cardinality(Late(m))
    BY <1>3, Smaller DEF CountedAt
  <2>2. Cardinality(Work(m)) + Cardinality(Late(m)) <= crashes + losses + 1
    BY <1>2, <1>1, <2>1 DEF CountedAt
  <2>3. Cardinality(Work(m)') + Cardinality(Late(m)') <= crashes' + losses'
    BY <1>1, <1>2, <2>1, <2>2, AddUp
  <2>4. ASSUME NEW paid \in {0, 1}
        PROVE  Cardinality(Work(m)') + Cardinality(Late(m)') <= crashes' + losses' + paid
    BY <1>1, <2>1, <2>3
  <2> QED
    BY <1>1, <2>1, <2>4 DEF CountedAt
<1>4. ASSUME ~Settled(m), NEW n, Late(m)' = Late(m) \union {n}
      PROVE  CountedAt(m)'
  <2>1. /\ IsFiniteSet(Late(m)') /\ Cardinality(Late(m)') \in Nat /\ Cardinality(Late(m)) \in Nat
        /\ Cardinality(Late(m)') <= Cardinality(Late(m)) + 1
    BY <1>4, OneMore DEF CountedAt
  <2>2. Cardinality(Work(m)) + Cardinality(Late(m)) <= crashes + losses
    BY <1>1, <1>2, <1>4, <2>1 DEF CountedAt
  <2>3. Cardinality(Work(m)') + Cardinality(Late(m)') <= crashes' + losses'
    <3>1. /\ Cardinality(Work(m)) + (Cardinality(Late(m)) + 1) <= crashes + losses + 1
          /\ Cardinality(Late(m)) + 1 \in Nat
      BY <1>1, <1>2, <2>1, <2>2
    <3> QED
      BY <1>1, <1>2, <2>1, <3>1, AddUp
  <2>4. ASSUME NEW paid \in {0, 1}
        PROVE  Cardinality(Work(m)') + Cardinality(Late(m)') <= crashes' + losses' + paid
    BY <1>1, <2>1, <2>3
  <2> QED
    BY <1>1, <2>1, <2>4 DEF CountedAt
<1> QED
  BY <1>3, <1>4

\* A handler calls execute(): the open channel's settles its message, and one
\* of a lost channel was counted before.
LEMMA CountedExecute ==
  ASSUME TypeOK, Ledgered, Handled, NEW m \in Jobs, CountedAt(m),
         NEW n \in Channels, NEW j \in Jobs, Execute(n, j)
  PROVE  CountedAt(m)'
<1> USE NoneAssumption, BoundAssumption
<1>0. /\ losses \in Nat /\ losses \in Channels /\ crashes \in Nat
      /\ losses' = losses /\ crashes' = crashes /\ n \in Nat
  BY DEF TypeOK, Channels, Execute
<1>1. /\ call[j] = "none" /\ call' = [call EXCEPT ![j] = "running"]
      /\ cause' = [cause EXCEPT ![j] = current[n]]
      /\ current[n] # None /\ run[n] = None /\ run' = [run EXCEPT ![n] = j]
      /\ UNCHANGED <<place, current>>
  BY DEF Execute, Call, queue
<1>2. \A i \in Jobs : i # j => cause'[i] = cause[i] /\ call'[i] = call[i]
  BY <1>1 DEF TypeOK
<1>3. call'[j] = "running" /\ cause'[j] = current[n]
  BY <1>1 DEF TypeOK
<1>4. \A k \in Channels : run'[k] = IF k = n THEN j ELSE run[k]
  BY <1>1 DEF TypeOK
<1>5. run[losses] # None => run[losses] \in Jobs /\ run[losses] # j
  BY <1>0, <1>1 DEF TypeOK, Handled
<1>6. Settled(m) => Settled(m)'
  BY <1>0, <1>1, <1>2, <1>3, <1>4, <1>5 DEF Settled
<1>7. CASE current[n] # m
  <2>1. Work(m)' \subseteq Work(m)
    BY <1>2, <1>3, <1>7 DEF Work
  <2>2. Late(m)' \subseteq Late(m)
    BY <1>0, <1>1, <1>4 DEF Late, Channels
  <2> QED
    BY <1>0, <1>6, <2>1, <2>2, CountedKept
<1>8. CASE current[n] = m
  <2>1. Work(m)' = Work(m) \union {j}
    BY <1>1, <1>2, <1>3, <1>8 DEF Work
  <2>2. /\ IsFiniteSet(Work(m)') /\ Cardinality(Work(m)') \in Nat /\ Cardinality(Work(m)) \in Nat
        /\ Cardinality(Work(m)') <= Cardinality(Work(m)) + 1
    BY <2>1, OneMore DEF CountedAt
  <2>3. CASE n = losses
    <3>1. ~Settled(m) /\ Settled(m)'
      BY <1>0, <1>1, <1>3, <1>4, <1>8, <2>3 DEF Settled, TypeOK
    <3>2. Late(m)' \subseteq Late(m)
      BY <1>0, <1>1, <1>4 DEF Late, Channels
    <3>3. /\ IsFiniteSet(Late(m)') /\ Cardinality(Late(m)') \in Nat /\ Cardinality(Late(m)) \in Nat
          /\ Cardinality(Late(m)') <= Cardinality(Late(m))
      BY <3>2, Smaller DEF CountedAt
    <3> QED
      BY <1>0, <2>2, <3>1, <3>3 DEF CountedAt
  <2>4. CASE n # losses
    <3>1. n < losses
      BY <1>0, <1>1, <2>4 DEF TypeOK
    <3>2. n \in Late(m) /\ Late(m)' = Late(m) \ {n}
      BY <1>0, <1>1, <1>4, <1>8, <3>1 DEF Late, Channels
    <3>3. /\ IsFiniteSet(Late(m)') /\ Cardinality(Late(m)') \in Nat /\ Cardinality(Late(m)) \in Nat
          /\ Cardinality(Late(m)') = Cardinality(Late(m)) - 1
      BY <3>2, OneLess DEF CountedAt
    <3> QED
      BY <1>0, <1>6, <2>2, <3>3 DEF CountedAt
  <2> QED
    BY <2>3, <2>4
<1> QED
  BY <1>7, <1>8

\* An execute() that rejects is no work any more, and unsettles the message
\* only of the handler that awaited it.
LEMMA CountedReject ==
  ASSUME TypeOK, Handled, NEW m \in Jobs, CountedAt(m), NEW j \in Jobs, Reject(j)
  PROVE  CountedAt(m)'
<1> USE NoneAssumption, BoundAssumption
<1>0. /\ losses \in Nat /\ losses \in Channels /\ crashes \in Nat
      /\ losses' = losses /\ crashes' = crashes
  BY DEF TypeOK, Channels, Reject, consumer
<1>1. /\ call[j] = "running" /\ call' = [call EXCEPT ![j] = "rejected"]
      /\ UNCHANGED <<cause, place, current, run>>
  BY DEF Reject, queue, consumer
<1>2. Work(m)' \subseteq Work(m) /\ Late(m)' = Late(m)
  BY <1>0, <1>1 DEF Work, Late, TypeOK
<1>3. CASE run[losses] # j
  <2>1. Settled(m) => Settled(m)'
    BY <1>0, <1>1, <1>3 DEF Settled, TypeOK
  <2> QED
    BY <1>0, <1>2, <2>1, CountedKept
<1>4. CASE run[losses] = j /\ cause[j] # m
  <2>1. Settled(m) => Settled(m)'
    BY <1>0, <1>1, <1>4 DEF Settled, TypeOK
  <2> QED
    BY <1>0, <1>2, <2>1, CountedKept
<1>5. CASE run[losses] = j /\ cause[j] = m
  <2>1. j \in Work(m) /\ Work(m)' = Work(m) \ {j}
    BY <1>1, <1>5 DEF Work, TypeOK
  <2>2. /\ IsFiniteSet(Work(m)') /\ Cardinality(Work(m)') \in Nat /\ Cardinality(Work(m)) \in Nat
        /\ Cardinality(Work(m)') = Cardinality(Work(m)) - 1
    BY <2>1, OneLess DEF CountedAt
  <2>3. Cardinality(Late(m)) \in Nat
    BY FS_CardinalityType DEF CountedAt
  <2> QED
    BY <1>0, <1>2, <2>2, <2>3 DEF CountedAt
<1> QED
  BY <1>3, <1>4, <1>5

LEMMA CountedStep ==
  ASSUME TypeOK, Ledgered, Handled, Counted, [Next]_vars
  PROVE  Counted'
<1> USE NoneAssumption, BoundAssumption
<1> SUFFICES ASSUME NEW m \in Jobs, CountedAt(m)
             PROVE  CountedAt(m)'
  BY DEF Counted, CountedAt
<1>0. losses \in Nat /\ losses \in Channels /\ crashes \in Nat
  BY DEF TypeOK, Channels
<1> DEFINE Kept == /\ UNCHANGED <<crashes, losses>>
                   /\ Work(m)' \subseteq Work(m) /\ Late(m)' \subseteq Late(m)
                   /\ Settled(m) => Settled(m)'
<1>1. CASE UNCHANGED vars
  <2>1. Kept
    BY <1>1 DEF vars, consumer, queue, Work, Late, Settled
  <2> QED
    BY <2>1, CountedKept
<1>2. CASE Crash
  <2>1. Work(m)' \subseteq Work(m) /\ Late(m)' \subseteq Late(m)
    BY <1>2 DEF Crash, Work, Late, TypeOK
  <2>2. crashes' = crashes + 1 /\ losses' = losses
    BY <1>2 DEF Crash
  <2> QED
    BY <1>0, <2>1, <2>2, CountedPaid
<1>3. CASE LoseChannel
  <2>1. /\ losses' = losses + 1
        /\ UNCHANGED <<call, cause, current, run, crashes>>
    BY <1>3 DEF LoseChannel
  <2>2. Work(m)' \subseteq Work(m)
    BY <2>1 DEF Work
  <2>3. CASE current[losses] = m /\ run[losses] = None
    <3>1. Late(m)' = Late(m) \union {losses}
      BY <1>0, <2>1, <2>3 DEF Late, Channels
    <3>2. ~Settled(m)
      BY <2>3 DEF Settled, TypeOK
    <3>3. crashes' + losses' = crashes + losses + 1 /\ crashes' \in Nat /\ losses' \in Nat
      BY <1>0, <2>1
    <3>4. \E n : Late(m)' = Late(m) \union {n}
      BY <3>1
    <3> QED
      BY <2>2, <3>2, <3>3, <3>4, CountedPaid
  <2>4. CASE ~(current[losses] = m /\ run[losses] = None)
    <3>1. Late(m)' \subseteq Late(m)
      BY <1>0, <2>1, <2>4 DEF Late, Channels
    <3> QED
      BY <1>0, <2>1, <2>2, <3>1, CountedPaid
  <2> QED
    BY <2>3, <2>4
<1>4. ASSUME NEW n \in Channels, NEW where \in Ways, Leaves(n, where)
      PROVE  CountedAt(m)'
  <2>1. Work(m)' \subseteq Work(m) /\ Late(m)' \subseteq Late(m)
    BY <1>4, Left DEF Work, Late
  <2>2. Settled(m) => Settled(m)'
    <3>1. CASE n = losses
      BY <1>0, <1>4, <3>1, Left DEF Settled, TypeOK, Leaves
    <3>2. CASE n # losses
      BY <1>0, <1>4, <3>2, Left DEF Settled
    <3> QED
      BY <3>1, <3>2
  <2>3. UNCHANGED <<crashes, losses>>
    BY <1>4, Left
  <2> QED
    BY <2>1, <2>2, <2>3, CountedKept
<1>5. ASSUME NEW j \in Jobs, Trigger(j)
      PROVE  CountedAt(m)'
  <2>1. /\ call[j] = "none" /\ call' = [call EXCEPT ![j] = "running"]
        /\ cause' = [cause EXCEPT ![j] = None]
        /\ UNCHANGED <<place, current, run, losses, crashes>>
    BY <1>5 DEF Trigger, Call, queue, consumer
  <2>2. Work(m)' \subseteq Work(m) /\ Late(m)' = Late(m)
    BY <2>1 DEF Work, Late, TypeOK
  <2>3. Settled(m) => Settled(m)'
    BY <1>0, <2>1 DEF Settled, TypeOK
  <2> QED
    BY <2>1, <2>2, <2>3, CountedKept
<1>6. ASSUME NEW j \in Jobs, Save(j) \/ Started(j) \/ Deliver(j) \/ Expire(j)
      PROVE  CountedAt(m)'
  <2>1. /\ UNCHANGED <<call, cause, crashes, run, losses>>
        /\ place[m] = "acked" => place'[m] = "acked"
        /\ \A n \in Channels : n < losses => current'[n] = current[n]
        /\ run[losses] # None => current'[losses] = current[losses]
    <3>1. CASE Save(j)
      BY <3>1, SaveChanges DEF queue, consumer
    <3>2. CASE Started(j)
      BY <3>2, StartedIsNew DEF Started, consumer, TypeOK
    <3>3. CASE Deliver(j)
      BY <1>0, <3>3 DEF Deliver, TypeOK
    <3>4. CASE Expire(j)
      BY <3>4 DEF Expire, consumer, TypeOK
    <3> QED
      BY <1>6, <3>1, <3>2, <3>3, <3>4
  <2>2. Work(m)' \subseteq Work(m) /\ Late(m)' \subseteq Late(m)
    BY <2>1 DEF Work, Late
  <2>3. Settled(m) => Settled(m)'
    BY <2>1 DEF Settled
  <2> QED
    BY <2>1, <2>2, <2>3, CountedKept
<1>7. ASSUME NEW j \in Jobs, Resolve(j)
      PROVE  CountedAt(m)'
  <2>1. /\ call[j] = "running" /\ call' = [call EXCEPT ![j] = "resolved"]
        /\ UNCHANGED <<cause, place, current, run, losses, crashes>>
    BY <1>7 DEF Resolve, queue, consumer
  <2>2. Work(m)' \subseteq Work(m) /\ Late(m)' = Late(m)
    BY <2>1 DEF Work, Late, TypeOK
  <2>3. Settled(m) => Settled(m)'
    BY <1>0, <2>1 DEF Settled, TypeOK
  <2> QED
    BY <2>1, <2>2, <2>3, CountedKept
<1> QED
  BY <1>1, <1>2, <1>3, <1>4, <1>5, <1>6, <1>7, CountedExecute, CountedReject, Steps

LEMMA AckedStep ==
  ASSUME TypeOK, Ledgered, Handled, AckedHasOutcome, [Next]_vars
  PROVE  AckedHasOutcome'
<1> USE NoneAssumption
<1> DEFINE Handles(j, m) == cause[j] = m /\ call[j] = "resolved"
<1>1. Ledgered'
  BY LedgeredStep
<1>2. ASSUME NEW j \in Jobs, call[j] = "resolved"
      PROVE  call'[j] = "resolved" /\ cause'[j] = cause[j]
  <2>1. CASE UNCHANGED vars
    BY <1>2, <2>1 DEF vars
  <2>2. CASE Crash \/ LoseChannel
    BY <1>2, <2>2 DEF Crash, LoseChannel
  <2>3. ASSUME NEW n \in Channels, NEW where \in Ways, Leaves(n, where)
        PROVE  call'[j] = "resolved" /\ cause'[j] = cause[j]
    BY <1>2, <2>3 DEF Leaves
  <2>4. ASSUME NEW i \in Jobs, \/ Trigger(i) \/ Save(i) \/ Started(i) \/ Resolve(i)
                               \/ Reject(i) \/ Deliver(i) \/ Expire(i)
                               \/ \E n \in Channels : Execute(n, i)
        PROVE  call'[j] = "resolved" /\ cause'[j] = cause[j]
    BY <1>2, <2>4, SaveChanges DEF Trigger, Started, Resolve, Reject, Deliver, Execute, Expire,
                                   Call, TypeOK
  <2> QED
    BY <2>1, <2>2, <2>3, <2>4, Steps
<1>3. ASSUME NEW m \in Jobs, place'[m] = "acked", place[m] # "acked"
      PROVE  \E j \in Jobs : Handles(j, m)
  <2>1. ASSUME NEW n \in Channels, NEW where \in Ways, Leaves(n, where)
        PROVE  \E j \in Jobs : Handles(j, m)
    <3>1. m = current[n] /\ where = "acked"
      BY <1>3, <2>1, Left
    <3> QED
      BY <2>1, <3>1 DEF Leaves, TypeOK
  <2>2. CASE UNCHANGED vars \/ Crash \/ LoseChannel
    BY <1>3, <2>2 DEF vars, queue, Crash, LoseChannel, Redelivered, TypeOK
  <2>3. ASSUME NEW i \in Jobs, \/ Trigger(i) \/ Save(i) \/ Started(i) \/ Resolve(i)
                               \/ Reject(i) \/ Deliver(i) \/ Expire(i)
                               \/ \E n \in Channels : Execute(n, i)
        PROVE  FALSE
    BY <1>3, <2>3, SaveChanges DEF Trigger, Started, Resolve, Reject, Deliver, Execute, Expire,
                                   queue, TypeOK
  <2> QED
    BY <2>1, <2>2, <2>3, Steps
<1>4. ASSUME NEW m \in Jobs, place[m] = "acked"
      PROVE  \E j \in Jobs : Handles(j, m)
  BY <1>4 DEF AckedHasOutcome
<1>5. ASSUME NEW m \in Jobs, place'[m] = "acked"
      PROVE  \E j \in Jobs : /\ cause'[j] = m /\ call'[j] = "resolved"
                             /\ status'[j] \in Final /\ announced'[j] \intersect Outcome # {}
  <2>1. PICK j \in Jobs : Handles(j, m)
    BY <1>3, <1>4, <1>5
  <2> QED
    BY <1>1, <1>2, <2>1 DEF Ledgered
<1> QED
  BY <1>5 DEF AckedHasOutcome, Final, Outcome, Ledger!Success

LEMMA IInvStep == IInv /\ [Next]_vars => IInv'
BY TypeOKStep, LedgeredStep, HandledStep, ChainedStep, CountedStep, AckedStep DEF IInv

LEMMA Inductive == Spec => []IInv
BY InitIInv, IInvStep, PTL DEF Spec

-----------------------------------------------------------------------------
\* The broker counts as unacknowledged what the handler of the open channel
\* has, and a handler awaits an execute() only for its message.
THEOREM TypeCorrect == Spec => []TypeOK
<1>1. IInv => TypeOK
  BY DEF IInv
<1> QED
  BY Inductive, <1>1, PTL

\* What one trigger sets off is at work in one place for each channel that the
\* consumer has had, however many messages follow from it: two messages, or a
\* message and its requeued copy, never run side by side on one channel.
THEOREM OneAtWorkPerChannelAlways == Spec => []OneAtWorkPerChannel
<1>1. IInv => OneAtWorkPerChannel
  <2> SUFFICES ASSUME IInv, triggers <= 1
               PROVE  Cardinality({j \in Jobs : AtWork(j)}) <= 1 + losses
    BY DEF OneAtWorkPerChannel
  <2> DEFINE W == {j \in Jobs : AtWork(j)}
  <2>0. losses \in Nat /\ 0 .. losses \subseteq Channels
    BY BoundAssumption DEF IInv, TypeOK, Channels
  <2>1. CASE \E i \in W : cause[i] = None
    <3>1. PICK i \in W : cause[i] = None
      BY <2>1
    <3>2. W = {i}
      BY <3>1 DEF IInv, Chained
    <3> QED
      BY <2>0, <3>2, FS_Singleton
  <2>2. CASE \A i \in W : cause[i] # None
    <3> DEFINE awaits == [j \in W |-> CHOOSE n \in 0 .. losses : run[n] = j]
    <3>1. \A j \in W : awaits[j] \in 0 .. losses /\ run[awaits[j]] = j
      <4> SUFFICES ASSUME NEW j \in W
                   PROVE  awaits[j] \in 0 .. losses /\ run[awaits[j]] = j
        OBVIOUS
      <4>1. \E n \in 0 .. losses : run[n] = j
        BY <2>2 DEF IInv, Handled, AtWork
      <4> QED
        BY <4>1
    <3> HIDE DEF awaits
    <3>2. IsFiniteSet(0 .. losses) /\ Cardinality(0 .. losses) = losses + 1
      BY <2>0, FS_Interval
    <3>3. IsInjective(awaits)
      <4>1. DOMAIN awaits = W
        BY DEF awaits
      <4> QED
        BY <3>1, <4>1 DEF IsInjective
    <3>4. awaits \in Injection(W, 0 .. losses)
      <4>1. awaits \in [W -> 0 .. losses]
        BY <3>1 DEF awaits
      <4> QED
        BY <3>3, <4>1 DEF Injection
    <3>5. Cardinality(W) <= Cardinality(0 .. losses)
      BY <3>2, <3>4, FS_Injection
    <3> QED
      BY <2>0, <3>2, <3>5
  <2> QED
    BY <2>1, <2>2
<1> QED
  BY Inductive, <1>1, PTL

\* A message is acknowledged only for an ingestion that its handler ran to a
\* final row and an announced outcome.
THEOREM AcksHaveOutcomes == Spec => []AckedHasOutcome
<1>1. IInv => AckedHasOutcome
  BY DEF IInv
<1> QED
  BY Inductive, <1>1, PTL

\* A message is carried out once, and at most once more for every crash and
\* every channel that the consumer loses.
THEOREM RepeatsNeedRedeliveries == Spec => []NoDoubleProcessing
<1>1. IInv => NoDoubleProcessing
  <2>1. ASSUME IInv, NEW m \in Jobs,
               NEW D, D = {j \in Jobs : cause[j] = m /\ call[j] = "resolved"}
        PROVE  Cardinality(D) <= 1 + crashes + losses
    <3>1. D \subseteq Work(m)
      BY <2>1 DEF Work
    <3>2. /\ Cardinality(D) \in Nat /\ Cardinality(Work(m)) \in Nat
          /\ Cardinality(D) <= Cardinality(Work(m))
      BY <2>1, <3>1, Smaller DEF IInv, Counted
    <3>3. Cardinality(Late(m)) \in Nat
      BY <2>1, FS_CardinalityType DEF IInv, Counted
    <3>4. crashes \in Nat /\ losses \in Nat
      BY <2>1, BoundAssumption DEF IInv, TypeOK, Channels
    <3> QED
      BY <2>1, <3>2, <3>3, <3>4 DEF IInv, Counted
  <2> QED
    BY <2>1 DEF NoDoubleProcessing
<1> QED
  BY Inductive, <1>1, PTL

\* A row that nobody will finish stops what one trigger has set off, as long as
\* the consumer keeps its channel: no row changes and no message is
\* acknowledged any more.
THEOREM OrphansStopTheQueue == Spec => OrphanStopsTheQueue
<1> DEFINE Stopped == triggers <= 1 /\ losses = 0 /\ (\E j \in Jobs : Orphan(j)) =>
                        \A j \in Jobs : /\ status'[j] = status[j]
                                        /\ place'[j] = "acked" => place[j] = "acked"
<1>1. IInv /\ [Next]_vars => [Stopped]_vars
  <2> SUFFICES ASSUME IInv, [Next]_vars, triggers <= 1, losses = 0, NEW o \in Jobs, Orphan(o)
               PROVE  \A j \in Jobs : /\ status'[j] = status[j]
                                      /\ place'[j] = "acked" => place[j] = "acked"
    OBVIOUS
  <2>0. TypeOK /\ Ledgered /\ Chained
    BY DEF IInv
  <2>1. /\ call[o] \in {"rejected", "crashed"} /\ status[o] = "IN_PROGRESS"
        /\ \A i \in Jobs : Unfinished(i) => i = o
        /\ run[0] # None => run[0] = o
    BY <2>0 DEF Chained, Unfinished, Orphan
  <2> DEFINE Still == \A j \in Jobs : /\ status'[j] = status[j]
                                      /\ place'[j] = "acked" => place[j] = "acked"
  <2>2. ASSUME UNCHANGED vars \/ Crash \/ LoseChannel
        PROVE  Still
    BY <2>0, <2>2 DEF vars, ledger, queue, Crash, LoseChannel, Redelivered, TypeOK
  <2>3. ASSUME NEW n \in Channels, NEW where \in Ways, Leaves(n, where)
        PROVE  Still
    <3>1. n = losses => where # "acked"
      BY <2>1, <2>3 DEF Leaves
    <3> QED
      BY <2>0, <2>3, <3>1, Left
  <2>4. ASSUME NEW j \in Jobs, Save(j)
        PROVE  Still
    <3>1. CASE Saved(j)
      <4>1. call[j] = "running" /\ status[j] \notin Final
        BY <2>4, <3>1, SaveChanges DEF Saved
      <4>2. Unfinished(j)
        BY <2>0, <4>1, StatusTyped DEF Unfinished, AtWork, Status
      <4> QED
        BY <2>1, <4>1, <4>2
    <3>2. CASE Published(j)
      BY <2>4, <3>2, SaveChanges DEF Published, queue
    <3> QED
      BY <2>4, <3>1, <3>2, SaveChanges
  <2>5. ASSUME NEW j \in Jobs, \/ Trigger(j) \/ Started(j) \/ Resolve(j) \/ Reject(j)
                               \/ Deliver(j) \/ Expire(j)
                               \/ \E n \in Channels : Execute(n, j)
        PROVE  Still
    BY <2>0, <2>5 DEF Trigger, Started, Resolve, Reject, Deliver, Execute, Expire,
                      ledger, queue, TypeOK
  <2> HIDE DEF Still
  <2>6. Still
    BY <2>0, <2>2, <2>3, <2>4, <2>5, Steps
  <2> QED
    BY <2>6 DEF Still
<1> QED
  BY Inductive, <1>1, PTL DEF Spec, OrphanStopsTheQueue
=============================================================================
