---------------------------- MODULE MCBatchImport ----------------------------
(***************************************************************************)
(* BatchImport for TLC: batches of two rows, every file of up to           *)
(* MaxFileRows rows, both formats.                                         *)
(***************************************************************************)
EXTENDS BatchImport

CONSTANT MaxFileRows  \* the longest file considered

MCFiles == UNION {[1..n -> RowKind] : n \in 0..MaxFileRows}

MCProgressEvery == [csv |-> 2, excel |-> 2]
==============================================================================
