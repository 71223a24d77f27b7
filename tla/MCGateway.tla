----------------------------- MODULE MCGateway -----------------------------
(***************************************************************************)
(* Gateway for TLC: three requests of each group of kinds that touch the   *)
(* same documents, and, among those that open, revoke and orphan sessions, *)
(* two sockets.  The requests are interchangeable, and so are the sockets. *)
(***************************************************************************)
EXTENDS Gateway, TLC

MCConnected == { {"google", "logout", "delete"} }

MCScenarios ==
  { {"login", "refresh", "logout", "revoke"},
    {"forgot", "reset", "updatePassword", "updateUser", "assignRoles"},
    {"register", "google", "updateUser", "delete", "forgot"},
    {"login", "google", "refresh", "delete"} } \union MCConnected

MCOwners == {First} \union Calls

MCSymmetry == Permutations(Calls) \union Permutations(Sockets)
==============================================================================
