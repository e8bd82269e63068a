-------------------------- MODULE EventPublication --------------------------
(***************************************************************************)
(* What a caller of IEventPublisherPort may rely on: the events of a call  *)
(* that resolved are on the exchange, in their order, and none of them     *)
(* more often than the call may try.  A call that rejected says nothing:   *)
(* its events may be there already or get there later.                     *)
(***************************************************************************)
EXTENDS Naturals

CONSTANTS Publishers,  \* the calls
          Batch,       \* how many events each call publishes
          Attempts     \* how often it may try each

VARIABLES call,    \* what each caller knows of its call
          copies   \* how often the exchange got each event of each call

vars == <<call, copies>>

Init ==
  /\ call = [p \in Publishers |-> "idle"]
  /\ copies = [p \in Publishers |-> [i \in 1 .. Batch[p] |-> 0]]

Move(p, from, to) ==
  call[p] = from /\ call' = [call EXCEPT ![p] = to] /\ UNCHANGED copies

Begin(p) == Move(p, "idle", "pending")
Reject(p) == Move(p, "pending", "rejected")
Resolve(p) ==
  (\A i \in 1 .. Batch[p] : copies[p][i] > 0) /\ Move(p, "pending", "resolved")

Accept(p, i) ==
  /\ call[p] # "idle"
  /\ \A k \in 1 .. i - 1 : copies[p][k] > 0
  /\ copies[p][i] < Attempts[p]
  /\ copies' = [copies EXCEPT ![p][i] = @ + 1]
  /\ UNCHANGED call

Next == \E p \in Publishers :
  Begin(p) \/ Reject(p) \/ Resolve(p) \/ \E i \in 1 .. Batch[p] : Accept(p, i)

Spec == Init /\ [][Next]_vars
=============================================================================
