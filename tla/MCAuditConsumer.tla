--------------------------- MODULE MCAuditConsumer ---------------------------
(***************************************************************************)
(* Small instances of AuditConsumer for TLC.                               *)
(***************************************************************************)
EXTENDS AuditConsumer, TLC

\* The timer's flushes are interchangeable.
TimerSymmetry == Permutations(Timers)
=============================================================================
