---------------------------- MODULE MCEntryTree ----------------------------
(***************************************************************************)
(* Instances of EntryTree for TLC: a buffer of two entries, so that chains *)
(* of three leave it in both directions.                                   *)
(***************************************************************************)
EXTENDS EntryTree

=============================================================================
