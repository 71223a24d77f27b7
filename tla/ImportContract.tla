---------------------------- MODULE ImportContract ----------------------------
(***************************************************************************)
(* What one attempt to import a file promises about the transactions       *)
(* collection, without batches, calls, timeouts and counters: rows appear  *)
(* in groups, none of them twice; a row is claimed as imported only after  *)
(* it is there, and only while the attempt runs.  Rows may still appear    *)
(* after it is over: the timeout of a call does not cancel it.             *)
(***************************************************************************)
EXTENDS Naturals

VARIABLES
  copies,   \* how many documents each row has
  claimed,  \* the rows reported as imported
  over      \* has the attempt ended?

contractVars == <<copies, claimed, over>>

Init ==
  /\ \A r \in DOMAIN copies : copies[r] = 0
  /\ claimed = {}
  /\ over = FALSE

Missing == {r \in DOMAIN copies : copies[r] = 0}

Present == DOMAIN copies \ Missing

Store ==
  /\ \E group \in SUBSET Missing :
       copies' = [r \in DOMAIN copies |-> IF r \in group THEN 1 ELSE copies[r]]
  /\ UNCHANGED <<claimed, over>>

Claim ==
  /\ ~over
  /\ \E group \in SUBSET (Present \ claimed) : claimed' = claimed \union group
  /\ UNCHANGED <<copies, over>>

Stop ==
  /\ ~over
  /\ over' = TRUE
  /\ UNCHANGED <<copies, claimed>>

Next == Store \/ Claim \/ Stop

Spec == Init /\ [][Next]_contractVars
==============================================================================
