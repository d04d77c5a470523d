-------------------------- MODULE LoginLockoutProofs --------------------------
(***************************************************************************)
(* Proofs about LoginLockout, for any limit and any number of overlapping  *)
(* logins.                                                                 *)
(*                                                                         *)
(* LockoutBound counts wrong passwords and says nothing of where they went *)
(* to, so it is not inductive.  Every wrong password is either in the      *)
(* counter, owed to it by a login that has not incremented it yet or has   *)
(* still to lock, or was lost in a crash; and once the account is locked   *)
(* only logins that passed isLocked before can add one.                    *)
(***************************************************************************)
EXTENDS LoginLockout, FiniteSetTheorems, TLAPS

In(P) == {l \in Logins : at[l] \in P}

Credit == IF failures < MaxAttempts THEN failures ELSE MaxAttempts - 1

(* The counter is dropped only under a lock.                               *)
DropUnderLock == \A l \in Logins : at[l] = "drop" => locked

(* Without a lock every wrong password is accounted for.                   *)
OpenBound == ~locked => tries <= Credit + Cardinality(In({"incr", "lock"})) + crashes

(* Under a lock only the logins at their check can add to them.            *)
LockedBound ==
    locked => tries + Cardinality(In({"verify"})) <= MaxAttempts - 1 + Cardinality(Logins) + crashes

IInv == TypeOK /\ DropUnderLock /\ OpenBound /\ LockedBound
-----------------------------------------------------------------------------
(* The logins at some steps are finitely many, and logins at other steps   *)
(* are others.                                                             *)
LEMMA Counted ==
    ASSUME NEW P, NEW Q, P \cap Q = {}
    PROVE  /\ IsFiniteSet(In(P)) /\ Cardinality(In(P)) \in Nat
           /\ Cardinality(Logins) \in Nat
           /\ Cardinality(In(P)) + Cardinality(In(Q)) <= Cardinality(Logins)
<1>1. In(P) \subseteq Logins /\ In(Q) \subseteq Logins /\ In(P) \cap In(Q) = {}
  BY DEF In
<1>2. IsFiniteSet(In(P)) /\ IsFiniteSet(In(Q)) /\ IsFiniteSet(In(P) \cup In(Q))
  BY <1>1, LockoutAssumption, FS_Subset
<1>3. /\ Cardinality(In(P)) \in Nat /\ Cardinality(In(Q)) \in Nat
      /\ Cardinality(Logins) \in Nat
  BY <1>2, LockoutAssumption, FS_CardinalityType
<1>4. Cardinality(In(P) \cup In(Q)) = Cardinality(In(P)) + Cardinality(In(Q)) - Cardinality(In(P) \cap In(Q))
  BY <1>2, FS_Union
<1>5. Cardinality(In(P) \cap In(Q)) = 0
  BY <1>1, FS_EmptySet
<1>6. Cardinality(In(P) \cup In(Q)) <= Cardinality(Logins)
  BY <1>1, LockoutAssumption, FS_Subset
<1> QED
  BY <1>2, <1>3, <1>4, <1>5, <1>6

(* What a login that moves does to the number of logins at some steps.     *)
LEMMA MoveCounts ==
    ASSUME TypeOK, NEW l \in Logins, NEW to \in Step, at' = [at EXCEPT ![l] = to], NEW P
    PROVE  /\ Cardinality(In(P)) \in Nat /\ Cardinality(In(P)') \in Nat
           /\ (at[l] \in P <=> to \in P) => Cardinality(In(P)') = Cardinality(In(P))
           /\ (at[l] \in P /\ to \notin P) => Cardinality(In(P)') = Cardinality(In(P)) - 1
           /\ (at[l] \notin P /\ to \in P) => Cardinality(In(P)') = Cardinality(In(P)) + 1
<1>1. at'[l] = to /\ \A x \in Logins \ {l} : at'[x] = at[x]
  BY DEF TypeOK
<1>2. IsFiniteSet(In(P)) /\ Cardinality(In(P)) \in Nat
  <2>1. In(P) \subseteq Logins
    BY DEF In
  <2> QED
    BY <2>1, LockoutAssumption, FS_Subset, FS_CardinalityType
<1>3. ASSUME at[l] \in P <=> to \in P PROVE In(P)' = In(P)
  BY <1>1, <1>3 DEF In
<1>4. ASSUME at[l] \in P, to \notin P PROVE Cardinality(In(P)') = Cardinality(In(P)) - 1
  <2>1. In(P)' = In(P) \ {l} /\ l \in In(P)
    BY <1>1, <1>4 DEF In
  <2> QED
    BY <1>2, <2>1, FS_RemoveElement
<1>5. ASSUME at[l] \notin P, to \in P PROVE Cardinality(In(P)') = Cardinality(In(P)) + 1
  <2>1. In(P)' = In(P) \cup {l} /\ l \notin In(P)
    BY <1>1, <1>5 DEF In
  <2> QED
    BY <1>2, <2>1, FS_AddElement
<1>6. Cardinality(In(P)') \in Nat
  <2>1. In(P)' \subseteq Logins
    BY DEF In
  <2> QED
    BY <2>1, LockoutAssumption, FS_Subset, FS_CardinalityType
<1> QED
  BY <1>2, <1>3, <1>4, <1>5, <1>6

(* The initial state.                                                      *)
LEMMA InitHolds == Init => IInv
<1> SUFFICES ASSUME Init PROVE IInv
  OBVIOUS
<1>1. TypeOK
  <2>1. at \in [Logins -> Step] /\ locked \in BOOLEAN
    BY DEF Init, Step
  <2>2. failures \in Nat /\ crashes \in 0..MaxCrashes /\ tries \in 0..MaxTries
    BY LockoutAssumption DEF Init
  <2> QED
    BY <2>1, <2>2 DEF TypeOK
<1>2. Cardinality(In({"incr", "lock"})) \in Nat
  <2>1. {"incr", "lock"} \cap {} = {}
    OBVIOUS
  <2> QED
    BY <2>1, Counted
<1>3. OpenBound
  BY <1>2, LockoutAssumption DEF Init, OpenBound, Credit
<1> QED
  BY <1>1, <1>3 DEF Init, IInv, DropUnderLock, LockedBound

(* Every step keeps the invariant.                                         *)
LEMMA StepHolds == IInv /\ [Next]_vars => IInv'
<1> SUFFICES ASSUME TypeOK, DropUnderLock, OpenBound, LockedBound, [Next]_vars PROVE IInv'
  BY DEF IInv
<1> DEFINE Owing == Cardinality(In({"incr", "lock"}))
           Checking == Cardinality(In({"verify"}))
           All == Cardinality(Logins)
<1>0. /\ Owing \in Nat /\ Checking \in Nat /\ All \in Nat /\ Owing + Checking <= All
      /\ failures \in Nat /\ tries \in Nat /\ crashes \in Nat /\ Credit \in Nat
      /\ Credit <= MaxAttempts - 1 /\ MaxAttempts \in Nat /\ locked \in BOOLEAN
  <2>1. {"incr", "lock"} \cap {"verify"} = {}
    OBVIOUS
  <2>2. Owing \in Nat /\ Checking \in Nat /\ All \in Nat /\ Owing + Checking <= All
    BY <2>1, Counted
  <2>3. failures \in Nat /\ tries \in Nat /\ crashes \in Nat /\ locked \in BOOLEAN
    BY LockoutAssumption DEF TypeOK
  <2> QED
    BY <2>2, <2>3, LockoutAssumption DEF Credit
<1>1. /\ ~locked => tries <= Credit + Owing + crashes
      /\ locked => tries + Checking <= MaxAttempts - 1 + All + crashes
  BY DEF OpenBound, LockedBound
<1>2. ASSUME NEW l \in Logins, NEW to \in Step, at' = [at EXCEPT ![l] = to]
      PROVE  /\ at' \in [Logins -> Step]
             /\ at'[l] = to /\ \A x \in Logins \ {l} : at'[x] = at[x]
  BY <1>2 DEF TypeOK
<1>3. ASSUME NEW l \in Logins, IsLocked(l) PROVE IInv'
  <2>1. /\ ~locked /\ at[l] = "idle" /\ at' = [at EXCEPT ![l] = "verify"] /\ "verify" \in Step
        /\ UNCHANGED <<failures, locked, crashes, tries>>
    BY <1>3 DEF IsLocked, Move, Step
  <2>2. Owing' = Owing
    BY <2>1, MoveCounts
  <2>3. Credit' = Credit
    BY <2>1 DEF Credit
  <2>4. TypeOK' /\ DropUnderLock'
    BY <1>2, <2>1 DEF TypeOK, DropUnderLock
  <2> QED
    BY <1>1, <2>1, <2>2, <2>3, <2>4 DEF IInv, OpenBound, LockedBound
<1>4. ASSUME NEW l \in Logins, VerifyRight(l) PROVE IInv'
  <2>1. /\ at[l] = "verify" /\ at' = [at EXCEPT ![l] = "clear"] /\ "clear" \in Step
        /\ UNCHANGED <<failures, locked, crashes, tries>>
    BY <1>4 DEF VerifyRight, Move, Step
  <2>2. Owing' = Owing /\ Checking' = Checking - 1
    BY <2>1, MoveCounts
  <2>3. Credit' = Credit
    BY <2>1 DEF Credit
  <2>4. TypeOK' /\ DropUnderLock'
    BY <1>2, <2>1 DEF TypeOK, DropUnderLock
  <2>5. locked => tries + (Checking - 1) <= MaxAttempts - 1 + All + crashes
    BY <1>0, <1>1
  <2> QED
    BY <1>1, <2>1, <2>2, <2>3, <2>4, <2>5 DEF IInv, OpenBound, LockedBound
<1>5. ASSUME NEW l \in Logins, VerifyWrong(l) PROVE IInv'
  <2>1. /\ at[l] = "verify" /\ at' = [at EXCEPT ![l] = "incr"] /\ "incr" \in Step
        /\ tries < MaxTries /\ tries' = tries + 1
        /\ UNCHANGED <<failures, locked, crashes>>
    BY <1>5 DEF VerifyWrong, Move, Step
  <2>2. Owing' = Owing + 1 /\ Checking' = Checking - 1
    BY <2>1, MoveCounts
  <2>3. Credit' = Credit
    BY <2>1 DEF Credit
  <2>4. TypeOK'
    BY <1>0, <1>2, <2>1, LockoutAssumption DEF TypeOK
  <2>5. DropUnderLock'
    BY <1>2, <2>1 DEF DropUnderLock
  <2>6. /\ ~locked => tries + 1 <= Credit + (Owing + 1) + crashes
        /\ locked => (tries + 1) + (Checking - 1) <= MaxAttempts - 1 + All + crashes
    BY <1>0, <1>1
  <2> QED
    BY <2>1, <2>2, <2>3, <2>4, <2>5, <2>6 DEF IInv, OpenBound, LockedBound
<1>6. ASSUME NEW l \in Logins, ClearOnSuccess(l) PROVE IInv'
  <2>1. /\ at[l] = "clear" /\ at' = [at EXCEPT ![l] = "idle"] /\ "idle" \in Step
        /\ failures' = 0 /\ tries' = 0 /\ UNCHANGED <<locked, crashes>>
    BY <1>6 DEF ClearOnSuccess, Move, Step
  <2>2. Owing' = Owing /\ Checking' = Checking
    BY <2>1, MoveCounts
  <2>3. Credit' = 0
    BY <2>1, LockoutAssumption DEF Credit
  <2>4. TypeOK'
    BY <1>2, <2>1, LockoutAssumption DEF TypeOK
  <2>5. DropUnderLock'
    BY <1>2, <2>1 DEF DropUnderLock
  <2>6. /\ 0 <= 0 + Owing + crashes
        /\ locked => 0 + Checking <= MaxAttempts - 1 + All + crashes
    BY <1>0, <1>1
  <2> QED
    BY <2>1, <2>2, <2>3, <2>4, <2>5, <2>6 DEF IInv, OpenBound, LockedBound
<1>7. ASSUME NEW l \in Logins, IncrFailureCount(l) PROVE IInv'
  <2>0. /\ at[l] = "incr" /\ failures' = failures + 1 /\ "idle" \in Step /\ "lock" \in Step
        /\ UNCHANGED <<locked, crashes, tries>>
    BY <1>7 DEF IncrFailureCount, Move, Step
  <2>1. CASE failures + 1 >= MaxAttempts
    <3>1. at' = [at EXCEPT ![l] = "lock"]
      BY <1>7, <2>1 DEF IncrFailureCount, Move
    <3>2. Owing' = Owing /\ Checking' = Checking
      BY <2>0, <3>1, MoveCounts
    <3>3. Credit <= Credit' /\ Credit' \in Nat
      BY <1>0, <2>0, LockoutAssumption DEF Credit
    <3>4. TypeOK'
      BY <1>0, <1>2, <2>0, <3>1 DEF TypeOK
    <3>5. DropUnderLock'
      BY <1>2, <2>0, <3>1 DEF DropUnderLock
    <3>6. ~locked => tries <= Credit' + Owing + crashes
      BY <1>0, <1>1, <3>3
    <3> QED
      BY <1>1, <2>0, <3>2, <3>4, <3>5, <3>6 DEF IInv, OpenBound, LockedBound
  <2>2. CASE ~(failures + 1 >= MaxAttempts)
    <3>1. at' = [at EXCEPT ![l] = "idle"]
      BY <1>7, <2>2 DEF IncrFailureCount, Move
    <3>2. Owing' = Owing - 1 /\ Checking' = Checking
      BY <2>0, <3>1, MoveCounts
    <3>3. Credit' = Credit + 1
      BY <1>0, <2>0, <2>2, LockoutAssumption DEF Credit
    <3>4. TypeOK'
      BY <1>0, <1>2, <2>0, <3>1 DEF TypeOK
    <3>5. DropUnderLock'
      BY <1>2, <2>0, <3>1 DEF DropUnderLock
    <3>6. ~locked => tries <= (Credit + 1) + (Owing - 1) + crashes
      BY <1>0, <1>1
    <3> QED
      BY <1>1, <2>0, <3>2, <3>3, <3>4, <3>5, <3>6 DEF IInv, OpenBound, LockedBound
  <2> QED
    BY <2>1, <2>2
<1>8. ASSUME NEW l \in Logins, SetLock(l) PROVE IInv'
  <2>1. /\ at[l] = "lock" /\ at' = [at EXCEPT ![l] = "drop"] /\ "drop" \in Step
        /\ locked' = TRUE /\ UNCHANGED <<failures, crashes, tries>>
    BY <1>8 DEF SetLock, Move, Step
  <2>2. Checking' = Checking
    BY <2>1, MoveCounts
  <2>3. TypeOK' /\ DropUnderLock'
    BY <1>2, <2>1 DEF TypeOK, DropUnderLock
  <2>4. tries + Checking <= MaxAttempts - 1 + All + crashes
    BY <1>0, <1>1
  <2> QED
    BY <2>1, <2>2, <2>3, <2>4 DEF IInv, OpenBound, LockedBound
<1>9. ASSUME NEW l \in Logins, DropCount(l) PROVE IInv'
  <2>1. /\ at[l] = "drop" /\ at' = [at EXCEPT ![l] = "idle"] /\ "idle" \in Step
        /\ failures' = 0 /\ UNCHANGED <<locked, crashes, tries>>
    BY <1>9 DEF DropCount, Move, Step
  <2>2. locked
    BY <2>1 DEF DropUnderLock
  <2>3. Checking' = Checking
    BY <2>1, MoveCounts
  <2>4. TypeOK'
    BY <1>2, <2>1 DEF TypeOK
  <2>5. DropUnderLock'
    BY <1>2, <2>1 DEF DropUnderLock
  <2> QED
    BY <1>1, <2>1, <2>2, <2>3, <2>4, <2>5 DEF IInv, OpenBound, LockedBound
<1>10. ASSUME NEW l \in Logins, Crash(l) PROVE IInv'
  <2>1. /\ at' = [at EXCEPT ![l] = "idle"] /\ "idle" \in Step
        /\ crashes < MaxCrashes /\ crashes' = crashes + 1
        /\ UNCHANGED <<failures, locked, tries>>
    BY <1>10 DEF Crash, Step
  <2>2. /\ Owing' \in Nat /\ Checking' \in Nat
        /\ Owing' = Owing \/ Owing' = Owing - 1
        /\ Checking' = Checking \/ Checking' = Checking - 1
    BY <2>1, MoveCounts
  <2>3. Credit' = Credit
    BY <2>1 DEF Credit
  <2>4. TypeOK'
    BY <1>0, <1>2, <2>1, LockoutAssumption DEF TypeOK
  <2>5. DropUnderLock'
    BY <1>2, <2>1 DEF DropUnderLock
  <2>6. /\ ~locked => tries <= Credit + Owing' + (crashes + 1)
        /\ locked => tries + Checking' <= MaxAttempts - 1 + All + (crashes + 1)
    BY <1>0, <1>1, <2>2
  <2> QED
    BY <2>1, <2>3, <2>4, <2>5, <2>6 DEF IInv, OpenBound, LockedBound
<1>11. CASE WindowExpires
  <2>1. failures' = 0 /\ tries' = 0 /\ UNCHANGED <<locked, at, crashes>>
    BY <1>11 DEF WindowExpires
  <2>2. Owing' = Owing /\ Checking' = Checking
    BY <2>1 DEF In
  <2>3. Credit' = 0
    BY <2>1, LockoutAssumption DEF Credit
  <2>4. TypeOK' /\ DropUnderLock'
    BY <2>1, LockoutAssumption DEF TypeOK, DropUnderLock
  <2>5. /\ 0 <= 0 + Owing + crashes
        /\ locked => 0 + Checking <= MaxAttempts - 1 + All + crashes
    BY <1>0, <1>1
  <2> QED
    BY <2>1, <2>2, <2>3, <2>4, <2>5 DEF IInv, OpenBound, LockedBound
<1>12. CASE LockExpires
  <2>1. /\ \A l \in Logins : at[l] \notin {"lock", "drop"}
        /\ locked' = FALSE /\ tries' = 0 /\ UNCHANGED <<failures, at, crashes>>
    BY <1>12 DEF LockExpires
  <2>2. Owing' = Owing
    BY <2>1 DEF In
  <2>3. Credit' = Credit
    BY <2>1 DEF Credit
  <2>4. TypeOK' /\ DropUnderLock'
    <3>1. locked' \in BOOLEAN
      BY <2>1
    <3>2. tries' \in 0..MaxTries
      BY <2>1, LockoutAssumption
    <3> QED
      BY <2>1, <3>1, <3>2 DEF TypeOK, DropUnderLock
  <2>5. 0 <= Credit + Owing + crashes
    BY <1>0
  <2> QED
    BY <2>1, <2>2, <2>3, <2>4, <2>5 DEF IInv, OpenBound, LockedBound
<1>13. CASE UNCHANGED vars
  BY <1>13 DEF vars, IInv, TypeOK, DropUnderLock, OpenBound, LockedBound, In, Credit
<1> QED
  BY <1>3, <1>4, <1>5, <1>6, <1>7, <1>8, <1>9, <1>10, <1>11, <1>12, <1>13 DEF Next

(* The inductive invariant holds of every reachable state.                 *)
THEOREM Inductive == Spec => []IInv
  BY InitHolds, StepHolds, PTL DEF Spec

(* Type correctness of the lockout.                                        *)
THEOREM TypeCorrect == Spec => []TypeOK
<1>1. IInv => TypeOK
  BY DEF IInv
<1> QED
  BY <1>1, Inductive, PTL

(* For any limit and any number of overlapping logins, no more wrong       *)
(* passwords pass before a lock than the limit, one per login under way    *)
(* and one per crash (verifyCredentials, recordFailure).                   *)
THEOREM Bounded == Spec => []LockoutBound
<1>1. IInv => LockoutBound
  <2> SUFFICES ASSUME TypeOK, OpenBound, LockedBound PROVE LockoutBound
    BY DEF IInv
  <2> DEFINE Owing == Cardinality(In({"incr", "lock"}))
             Checking == Cardinality(In({"verify"}))
             All == Cardinality(Logins)
  <2>1. {"incr", "lock"} \cap {"verify"} = {} /\ {"verify"} \cap {"incr", "lock"} = {}
    OBVIOUS
  <2>2. Owing \in Nat /\ Checking \in Nat /\ All \in Nat /\ Owing + Checking <= All
    BY <2>1, Counted
  <2>3. tries \in Nat /\ crashes \in Nat /\ failures \in Nat /\ locked \in BOOLEAN
    BY LockoutAssumption DEF TypeOK
  <2>4. Credit \in Nat /\ Credit <= MaxAttempts - 1
    BY <2>3, LockoutAssumption DEF Credit
  <2>5. \/ tries <= Credit + Owing + crashes
        \/ tries + Checking <= MaxAttempts - 1 + All + crashes
    BY DEF OpenBound, LockedBound
  <2>6. tries <= MaxAttempts - 1 + All + crashes
    BY <2>2, <2>3, <2>4, <2>5, LockoutAssumption
  <2> QED
    BY <2>6 DEF LockoutBound
<1> QED
  BY <1>1, Inductive, PTL
=============================================================================
