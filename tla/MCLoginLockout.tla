---------------------------- MODULE MCLoginLockout ----------------------------
(***************************************************************************)
(* Small instances of LoginLockout for TLC.                                *)
(***************************************************************************)
EXTENDS LoginLockout, TLC

\* Logins are interchangeable.
LoginSymmetry == Permutations(Logins)
=============================================================================
