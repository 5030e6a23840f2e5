---------------------------- MODULE MCRecordMark ----------------------------
(* Small instances of RecordMark for TLC.                                  *)
EXTENDS RecordMark
=============================================================================
