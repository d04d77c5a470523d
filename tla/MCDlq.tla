-------------------------------- MODULE MCDlq --------------------------------
(***************************************************************************)
(* Small instances of Dlq for TLC.                                         *)
(***************************************************************************)
EXTENDS Dlq
=============================================================================
