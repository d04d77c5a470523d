-------------------------- MODULE MCEntitlementCache --------------------------
(***************************************************************************)
(* Small instances of EntitlementCache for TLC.                            *)
(***************************************************************************)
EXTENDS EntitlementCache
=============================================================================
