---------------------------- MODULE MCImpersonation ----------------------------
(***************************************************************************)
(* Small instances of Impersonation for TLC.                               *)
(***************************************************************************)
EXTENDS Impersonation
================================================================================
