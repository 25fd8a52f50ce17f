---------------------------- MODULE MCFileReads ----------------------------
(***************************************************************************)
(* FileReads for TLC: every file, texts of at most three bytes, a pid that *)
(* is used twice.                                                          *)
(***************************************************************************)
EXTENDS FileReads

MCFiles == DOMAIN Code

=============================================================================
