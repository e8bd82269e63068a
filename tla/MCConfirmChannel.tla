-------------------------- MODULE MCConfirmChannel --------------------------
(***************************************************************************)
(* An instance of ConfirmChannel and AuditTrail for TLC: a                 *)
(* publishWithRetry() beside a publishMany() of two events, so up to four  *)
(* messages; the first of either is what publish() alone does.             *)
(***************************************************************************)
EXTENDS AuditTrail

CONSTANTS retry, many

MCBatch == [p \in Publishers |-> IF p = many THEN 2 ELSE 1]
MCAttempts == [p \in Publishers |-> IF p = retry THEN 2 ELSE 1]
=============================================================================
