---------------------------- MODULE MCEntryStore ----------------------------
(* The write path on instances small enough for TLC. *)
EXTENDS EntryStore
=============================================================================
