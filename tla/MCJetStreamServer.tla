------------------------- MODULE MCJetStreamServer -------------------------
(***************************************************************************)
(* Small instances of JetStreamServer for TLC.                             *)
(***************************************************************************)
EXTENDS JetStreamServer
=============================================================================
