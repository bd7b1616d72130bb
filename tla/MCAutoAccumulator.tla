------------------------- MODULE MCAutoAccumulator -------------------------
(***************************************************************************)
(* An instance of AutoAccumulator, and of BufferedUpload in it, for TLC.   *)
(***************************************************************************)
EXTENDS AutoAccumulator

AllCalls == Calls

=============================================================================
