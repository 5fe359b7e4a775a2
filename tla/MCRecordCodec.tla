--------------------------- MODULE MCRecordCodec ---------------------------
(***************************************************************************)
(* A small instance of the records' bytes: a voter's key that reads as no  *)
(* value, as a value or as no tag, targets of which one is the realm       *)
(* itself, as for CreateGovernance, and numbers of which two could be      *)
(* taken for an option's tag.                                              *)
(***************************************************************************)
EXTENDS RecordCodec
=============================================================================
