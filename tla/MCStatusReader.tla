---------------------------- MODULE MCStatusReader --------------------------
(***************************************************************************)
(* An instance of StatusReader for TLC: a feed of one make, whose fetch    *)
(* can succeed or fail and whose chunk collides with that of the other     *)
(* call.                                                                   *)
(***************************************************************************)
EXTENDS StatusReader

MCMakeIds == {1}
MCFeeds == {<<1>>}
=============================================================================
