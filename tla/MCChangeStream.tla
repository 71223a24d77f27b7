---------------------------- MODULE MCChangeStream ----------------------------
(***************************************************************************)
(* ChangeStream for TLC: two documents, one of them in a collection that   *)
(* is read at the start.                                                   *)
(***************************************************************************)
EXTENDS ChangeStream
==============================================================================
