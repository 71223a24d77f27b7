---------------------------- MODULE MCNotification ----------------------------
(***************************************************************************)
(* Notification for TLC: a few events of any kind, in any order, a         *)
(* progress event that its filter drops and one that it lets through.      *)
(***************************************************************************)
EXTENDS Notification

MCPercents == {45, 97}
==============================================================================
