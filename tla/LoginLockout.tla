----------------------------- MODULE LoginLockout -----------------------------
(***************************************************************************)
(* The brute-force lockout of one username: login-lockout.service.ts, as   *)
(* verifyCredentials of auth.service.ts uses it.  Every Redis command is   *)
(* one step, so overlapping logins interleave between them; a login may    *)
(* end after any of them.                                                  *)
(***************************************************************************)
EXTENDS Integers, FiniteSets

CONSTANTS
    Logins,        \* login requests under way at the same time
    MaxAttempts,   \* MAX_LOGIN_ATTEMPTS
    MaxTries,      \* bound: wrong passwords since the counter was forgiven
    MaxCrashes     \* bound: requests that end half-way

ASSUME LockoutAssumption ==
    /\ IsFiniteSet(Logins)
    /\ MaxAttempts \in Nat \ {0}
    /\ MaxTries \in Nat
    /\ MaxCrashes \in Nat

VARIABLES
    failures,   \* auth:failed-login:<user>; 0 when the key is absent
    locked,     \* whether auth:locked:<user> exists
    at,         \* the step each login takes next
    crashes,    \* logins that ended half-way
    tries       \* history: wrong passwords since the counter was forgiven

vars == <<failures, locked, at, crashes, tries>>

Step == {"idle", "verify", "clear", "incr", "lock", "drop"}

TypeOK ==
    /\ failures \in Nat
    /\ locked \in BOOLEAN
    /\ at \in [Logins -> Step]
    /\ crashes \in 0..MaxCrashes
    /\ tries \in 0..MaxTries

Init ==
    /\ failures = 0
    /\ locked = FALSE
    /\ at = [l \in Logins |-> "idle"]
    /\ crashes = 0
    /\ tries = 0

Move(l, from, to) == at[l] = from /\ at' = [at EXCEPT ![l] = to]
-----------------------------------------------------------------------------
(* verifyCredentials: a locked account is refused at once.                 *)
IsLocked(l) ==
    /\ ~locked
    /\ Move(l, "idle", "verify")
    /\ UNCHANGED <<failures, locked, crashes, tries>>

VerifyRight(l) ==
    /\ Move(l, "verify", "clear")
    /\ UNCHANGED <<failures, locked, crashes, tries>>

(* An unknown or inactive user counts like a wrong password.               *)
VerifyWrong(l) ==
    /\ tries < MaxTries
    /\ tries' = tries + 1
    /\ Move(l, "verify", "incr")
    /\ UNCHANGED <<failures, locked, crashes>>

(* The lock, if any, stays.                                                *)
ClearOnSuccess(l) ==
    /\ Move(l, "clear", "idle")
    /\ failures' = 0
    /\ tries' = 0
    /\ UNCHANGED <<locked, crashes>>

\* Mutant of IncrFailureCount: locks only when the count equals the limit.
IncrFailureCountExact(l) ==
    /\ failures' = failures + 1
    /\ Move(l, "incr", IF failures + 1 = MaxAttempts THEN "lock" ELSE "idle")
    /\ UNCHANGED <<locked, crashes, tries>>

\* Mutant of IncrFailureCount: counts down.
IncrFailureCountDown(l) ==
    /\ failures' = failures - 1
    /\ Move(l, "incr", IF failures - 1 >= MaxAttempts THEN "lock" ELSE "idle")
    /\ UNCHANGED <<locked, crashes, tries>>

(* recordFailure: the script that increments, then SET, then DEL.          *)
IncrFailureCount(l) ==
    /\ failures' = failures + 1
    /\ Move(l, "incr", IF failures + 1 >= MaxAttempts THEN "lock" ELSE "idle")
    /\ UNCHANGED <<locked, crashes, tries>>

SetLock(l) ==
    /\ Move(l, "lock", "drop")
    /\ locked' = TRUE
    /\ UNCHANGED <<failures, crashes, tries>>

DropCount(l) ==
    /\ Move(l, "drop", "idle")
    /\ failures' = 0
    /\ UNCHANGED <<locked, crashes, tries>>

(* The window has passed since the last failure.  Commands that a login    *)
(* has sent reach Redis long before that.                                  *)
WindowExpires ==
    /\ failures > 0
    /\ \A l \in Logins : at[l] \notin {"lock", "drop"}
    /\ failures' = 0
    /\ tries' = 0
    /\ UNCHANGED <<locked, at, crashes>>

(* LOCKOUT_DURATION_SECONDS have passed since SET.                         *)
LockExpires ==
    /\ locked
    /\ \A l \in Logins : at[l] \notin {"lock", "drop"}
    /\ locked' = FALSE
    /\ tries' = 0
    /\ UNCHANGED <<failures, at, crashes>>

(* The process ends, or Redis fails, between two commands.                 *)
Crash(l) ==
    /\ at[l] # "idle"
    /\ crashes < MaxCrashes
    /\ crashes' = crashes + 1
    /\ at' = [at EXCEPT ![l] = "idle"]
    /\ UNCHANGED <<failures, locked, tries>>

Next ==
    \/ \E l \in Logins : \/ IsLocked(l) \/ VerifyRight(l) \/ VerifyWrong(l)
                         \/ ClearOnSuccess(l) \/ IncrFailureCount(l)
                         \/ SetLock(l) \/ DropCount(l) \/ Crash(l)
    \/ WindowExpires \/ LockExpires

Spec == Init /\ [][Next]_vars
-----------------------------------------------------------------------------
(* However logins overlap, and wherever they end half-way, no more wrong   *)
(* passwords are let through than the limit, one per login under way and   *)
(* one per crash: a counter that jumped over MaxAttempts without a lock    *)
(* still locks at the next failure (login-lockout.service.ts:90-92).       *)
LockoutBound ==
    tries <= MaxAttempts - 1 + Cardinality(Logins) + crashes
=============================================================================
