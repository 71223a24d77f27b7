--------------------------- MODULE MCUploadPipeline ---------------------------
(***************************************************************************)
(* UploadPipeline for TLC: a file of two batches, in the environments      *)
(* below; fewer attempts than the code's 3 where everything may fail.      *)
(***************************************************************************)
EXTENDS UploadPipeline

(* Nothing fails but calls of the transaction service; everything fails    *)
(* but nothing crashes; the process crashes and its locks expire.          *)
MCEnvironments == {{"call"}, FaultKind \ {"crash", "stall"}, {"crash", "stall", "slow"}}

(* Nothing fails at all. *)
MCCalm == {{}}

(* Only the process crashes. *)
MCCrashing == {{"crash"}}

MCFormats == {"csv", "excel"}
==============================================================================
