------------------------------ MODULE MCBilling ------------------------------
(***************************************************************************)
(* Small instances of Billing for TLC.                                     *)
(***************************************************************************)
EXTENDS Billing, TLC

AllOps == {"manual", "initiate", "verify", "webhook", "refund", "submitUpi", "verifyUpi",
           "rejectUpi", "expireUpi", "markOverdue", "generate", "renew", "pause", "resume",
           "cancel", "expire", "assign", "cancelGrace", "trialExpiry"}

CancelOps == {"cancel", "expire"}

UpiOps == {"submitUpi", "expireUpi"}

Symmetry == Permutations(Requests) \cup Permutations(Payments) \cup Permutations(Utrs)
=============================================================================
