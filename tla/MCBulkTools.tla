----------------------------- MODULE MCBulkTools -----------------------------
(***************************************************************************)
(* An instance of BulkTools for TLC.                                       *)
(***************************************************************************)
EXTENDS BulkTools, MCBoard

==============================================================================
