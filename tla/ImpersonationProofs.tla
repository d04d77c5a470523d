-------------------------- MODULE ImpersonationProofs --------------------------
(***************************************************************************)
(* Proofs about Impersonation, for any number of requests and any          *)
(* lifetimes that ImpersonationAssumption allows.                          *)
(*                                                                         *)
(* Neither property follows from what a request holds alone.  Fresh bounds *)
(* the age of an open row by the time its reader has waited or its entry   *)
(* has left; Outlived says that the tombstone lasts longer than every open *)
(* row that can still reach the cache, so that when a guard no longer sees *)
(* it there is none; Settled keeps that for the guards that began then.    *)
(***************************************************************************)
EXTENDS Impersonation, TLAPS

(* Before startImpersonation there is nothing to use.                      *)
Started == row = "none" =>
    /\ \A c \in Calls : call[c] = Idle
    /\ codes.live = 0
    /\ ~granted

(* No more codes are live than were issued, and only a wrong guess below   *)
(* the limit is written back.                                              *)
Counted ==
    /\ codes.live <= codes.issued
    /\ \A c \in Calls : call[c].at = "rewrite" => call[c].n < MaxOtpAttempts

CachedOpen == cache.ttl > 0 /\ cache.row = "open"
StoringOpen(c) == call[c].at = "store" /\ call[c].row = "open"

(* An open row that a request is about to store, or that is cached, is not *)
(* older than the time since it was read.  Who holds an ended row, the     *)
(* session has ended.                                                      *)
Fresh ==
    /\ row # "ended" => age = 0
    /\ \A c \in Calls : StoringOpen(c) => age <= call[c].since
    /\ CachedOpen => age + cache.ttl <= Window
    /\ \A c \in Calls : call[c].at = "store" /\ call[c].row = "ended" => row = "ended"
    /\ cache.ttl > 0 /\ cache.row = "ended" => row = "ended"

(* endImpersonation returns after the row was ended, and from then on the  *)
(* tombstone outlives every open row that can still reach the cache.       *)
Outlived ==
    /\ \A c \in Calls : call[c].at \in {"del", "tomb"} => row = "ended"
    /\ \A c \in Calls : call[c].after => ended
    /\ ended => /\ row = "ended"
                /\ CachedOpen => cache.ttl <= tomb
                /\ \A c \in Calls : StoringOpen(c) => CacheTtl + (MaxFill - call[c].since) <= tomb

Gone == ~CachedOpen /\ \A c \in Calls : ~StoringOpen(c)

(* Once a guard has found no tombstone after endImpersonation returned, no *)
(* open row is left, and none comes back.                                  *)
Late(c) == call[c].after /\ call[c].at \in {"get", "select", "store", "decide"}
Settled == \A c \in Calls : Late(c) =>
    /\ Gone
    /\ call[c].at = "decide" => call[c].row = "ended"

IInv == TypeOK /\ Started /\ Counted /\ Fresh /\ Outlived /\ Settled
-----------------------------------------------------------------------------
CallRow == [at : Step, row : Row, n : 0..MaxOtpAttempts, since : 0..MaxFill, after : BOOLEAN]

(* A step of request c leaves it at v and the others alone.                *)
Becomes(c, v) ==
    /\ call' \in [Calls -> CallRow]
    /\ call'[c] = v
    /\ \A x \in Calls \ {c} : call'[x] = call[x]

(* The types of the fields, one by one.                                    *)
LEMMA Types ==
    ASSUME TypeOK
    PROVE  /\ MaxOtpAttempts \in Nat \ {0} /\ CacheTtl \in Nat \ {0}
           /\ TombTtl \in Nat /\ MaxFill \in Nat /\ Window \in Nat
           /\ cache.row \in Row /\ cache.ttl \in 0..CacheTtl
           /\ tomb \in 0..TombTtl /\ age \in 0..(Window + 1)
           /\ \A c \in Calls : /\ call[c] \in CallRow /\ call[c].since \in 0..MaxFill
                               /\ call[c].row \in Row /\ call[c].at \in Step
                               /\ call[c].after \in BOOLEAN
<1>1. /\ MaxOtpAttempts \in Nat \ {0} /\ CacheTtl \in Nat \ {0}
      /\ TombTtl \in Nat /\ MaxFill \in Nat /\ Window \in Nat
  BY ImpersonationAssumption DEF Window
<1>2. cache.row \in Row /\ cache.ttl \in 0..CacheTtl
  BY DEF TypeOK
<1>3. \A c \in Calls : call[c] \in CallRow
  BY DEF TypeOK, CallRow
<1>4. \A c \in Calls : /\ call[c].since \in 0..MaxFill /\ call[c].row \in Row
                        /\ call[c].at \in Step /\ call[c].after \in BOOLEAN
  BY <1>3 DEF CallRow
<1> QED
  BY <1>1, <1>2, <1>3, <1>4 DEF TypeOK

(* Writing a well-typed v at c.                                            *)
LEMMA SetBecomes ==
    ASSUME TypeOK, NEW c \in Calls, NEW v \in CallRow, call' = [call EXCEPT ![c] = v]
    PROVE  Becomes(c, v)
  BY DEF TypeOK, CallRow, Becomes

(* A call that begins is at its first step and holds nothing.              *)
Opening(v, step) ==
    v.at = step /\ v.row = "open" /\ v.n = 0 /\ v.since = 0 /\ v.after = ended

LEMMA BeginBecomes ==
    ASSUME TypeOK, NEW c \in Calls, NEW step \in Step, Begin(c, step)
    PROVE  \E v \in CallRow : Becomes(c, v) /\ Opening(v, step)
<1>1. ASSUME NEW i \in CallRow, i.row = "open" /\ i.n = 0 /\ i.since = 0
      PROVE  [i EXCEPT !.at = step, !.after = ended] \in CallRow
             /\ Opening([i EXCEPT !.at = step, !.after = ended], step)
  BY <1>1 DEF TypeOK, CallRow, Opening
<1>2. Idle \in CallRow /\ Idle.row = "open" /\ Idle.n = 0 /\ Idle.since = 0
  BY Types DEF Idle, CallRow, Step, Row
<1>3. call' = [call EXCEPT ![c] = [Idle EXCEPT !.at = step, !.after = ended]]
  BY DEF Begin
<1> QED
  BY <1>1, <1>2, <1>3, SetBecomes

LEMMA MoveBecomes ==
    ASSUME TypeOK, NEW c \in Calls, NEW from \in Step, NEW to \in Step, Move(c, from, to)
    PROVE  Becomes(c, [call[c] EXCEPT !.at = to])
<1>1. [call[c] EXCEPT !.at = to] \in CallRow
  BY Types DEF CallRow
<1>2. call' = [call EXCEPT ![c] = [call[c] EXCEPT !.at = to]]
  BY DEF Move
<1> QED
  BY <1>1, <1>2, SetBecomes

LEMMA ReturnBecomes ==
    ASSUME TypeOK, NEW c \in Calls, call' = [call EXCEPT ![c] = Idle]
    PROVE  Becomes(c, Idle)
<1>1. Idle \in CallRow
  BY Types DEF Idle, CallRow, Step, Row
<1> QED
  BY <1>1, SetBecomes

-----------------------------------------------------------------------------
Elsewhere == Step \ {"del", "tomb", "get", "select", "store", "decide"}

(* A step that has to do neither with the guard nor with the end of the    *)
(* session, nor writes back an OTP, keeps what is said of them.            *)
LEMMA Aside ==
    ASSUME IInv, NEW c \in Calls, NEW v, Becomes(c, v),
           v.at \in Elsewhere, v.after => ended,
           UNCHANGED <<row, cache, tomb, ended, age>>
    PROVE  Fresh' /\ Outlived' /\ Settled'
<1>1. \A x \in Calls : call'[x].at \notin Elsewhere => call'[x] = call[x]
  BY DEF Becomes
<1>2. \A x \in Calls : StoringOpen(x)' => StoringOpen(x) /\ call'[x] = call[x]
  BY <1>1 DEF StoringOpen, Elsewhere
<1>3. CachedOpen' = CachedOpen
  BY DEF CachedOpen
<1>4. Fresh'
  BY <1>1, <1>2, <1>3 DEF IInv, Fresh, Elsewhere
<1>5. Outlived'
  <2>1. \A x \in Calls : call'[x].after => ended
    BY DEF Becomes, IInv, Outlived
  <2> QED
    BY <1>1, <1>2, <1>3, <2>1 DEF IInv, Outlived, Elsewhere
<1>6. Settled'
  <2>1. Gone => Gone'
    BY <1>2, <1>3 DEF Gone
  <2>2. \A x \in Calls : Late(x)' => Late(x) /\ call'[x] = call[x]
    BY <1>1 DEF Late, Elsewhere
  <2> QED
    BY <2>1, <2>2 DEF IInv, Settled
<1> QED
  BY <1>4, <1>5, <1>6

(* Once the session was started it stays so.                               *)
LEMMA StaysStarted ==
    ASSUME Started, row # "none", row' # "none" PROVE Started'
  BY DEF Started
LEMMA BusyStarted ==
    ASSUME Started, NEW c \in Calls, call[c].at # "idle" PROVE row # "none"
  BY DEF Started, Idle

(* What is neither a request nor the session's row nor the guard's.        *)
Codes ==
    /\ expired \in BOOLEAN
    /\ otp \in NoOtp..(MaxOtpAttempts - 1)
    /\ codes \in [live : 0..MaxCodes, issued : 0..MaxCodes]
    /\ codes.live <= codes.issued
    /\ granted \in BOOLEAN

(* Such a step keeps the invariant.                                        *)
LEMMA Quiet ==
    ASSUME IInv, NEW c \in Calls, NEW v, Becomes(c, v),
           v.at \in Elsewhere, v.after => ended, v.at = "rewrite" => v.n < MaxOtpAttempts,
           row # "none", Codes', UNCHANGED <<row, cache, tomb, ended, age>>
    PROVE  IInv'
<1>1. Fresh' /\ Outlived' /\ Settled'
  BY Aside
<1>2. TypeOK'
  BY DEF IInv, TypeOK, Becomes, CallRow, Codes
<1>3. Started'
  BY DEF Started
<1>4. Counted'
  BY DEF IInv, Counted, Becomes, Codes
<1> QED
  BY <1>1, <1>2, <1>3, <1>4 DEF IInv

(* The initial state.                                                      *)
LEMMA InitHolds == Init => IInv
<1> SUFFICES ASSUME Init PROVE IInv
  OBVIOUS
<1>1. TypeOK
  <2>1. Idle \in CallRow /\ Empty \in [row : Row, ttl : 0..CacheTtl]
    BY ImpersonationAssumption DEF CallRow, Empty, Row, Idle, Step
  <2>2. /\ NoOtp \in NoOtp..(MaxOtpAttempts - 1) /\ 0 \in 0..TombTtl /\ 0 \in 0..(Window + 1)
        /\ [live |-> 0, issued |-> 0] \in [live : 0..MaxCodes, issued : 0..MaxCodes]
    BY ImpersonationAssumption DEF NoOtp, Window
  <2>3. call \in [Calls -> CallRow]
    BY <2>1 DEF Init
  <2> QED
    BY <2>1, <2>2, <2>3 DEF Init, TypeOK, CallRow
<1>2. Started /\ Counted /\ Outlived
  BY DEF Init, Started, Counted, Outlived, Idle
<1>3. Fresh
  BY ImpersonationAssumption DEF Init, Fresh, StoringOpen, CachedOpen, Empty, Idle, Window
<1>4. Settled
  BY DEF Init, Settled, Late, Idle
<1> QED
  BY <1>1, <1>2, <1>3, <1>4 DEF IInv

-----------------------------------------------------------------------------
(* startImpersonation, the OTP and the one-time codes.                     *)
LEMMA IssueHolds == ASSUME IInv, NEW c \in Calls, Issue(c) PROVE IInv'
<1> USE DEF IInv
<1>0. /\ Codes
      /\ call[c].after => ended
      /\ call[c].at # "idle" => row # "none"
      /\ call[c].at = "rewrite" => call[c].n < MaxOtpAttempts
      /\ call[c] \in CallRow /\ MaxOtpAttempts \in Nat \ {0} /\ MaxCodes \in Nat
  BY Types, BusyStarted, ImpersonationAssumption DEF TypeOK, Counted, Codes, Outlived
<1>1. ASSUME NEW q \in BOOLEAN, StartImpersonation(c, q) PROVE IInv'
  <2>1. PICK v \in CallRow : Becomes(c, v) /\ Opening(v, IF q THEN "start" ELSE "code")
    BY <1>1, BeginBecomes DEF StartImpersonation, Step
  <2>2. /\ row = "none" /\ row' = "open"
        /\ UNCHANGED <<expired, otp, codes, granted, cache, tomb, ended, age>>
    BY <1>1 DEF StartImpersonation, redis
  <2>3. ~ended /\ age = 0 /\ \A x \in Calls : call[x] = Idle
    BY <2>2 DEF Outlived, Fresh, Started
  <2>4. \A x \in Calls : call'[x].at \in {"idle", "start", "code"} /\ ~call'[x].after
    <3>1. call'[c].at \in {"start", "code"} /\ ~call'[c].after
      BY <2>1, <2>3 DEF Becomes, Opening
    <3>2. ASSUME NEW x \in Calls \ {c} PROVE call'[x].at = "idle" /\ ~call'[x].after
      BY <2>1, <2>3 DEF Becomes, Idle
    <3> QED
      BY <3>1, <3>2
  <2>5. TypeOK'
    BY <2>1, <2>2 DEF TypeOK, Becomes, CallRow, Row
  <2>6. Started' /\ Counted'
    BY <2>2, <2>4 DEF Started, Counted
  <2>7. Fresh'
    BY <2>2, <2>3, <2>4 DEF Fresh, StoringOpen, CachedOpen
  <2>8. Outlived' /\ Settled'
    BY <2>2, <2>3, <2>4 DEF Outlived, Settled, Late
  <2> QED
    BY <2>5, <2>6, <2>7, <2>8
<1>2. ASSUME DispatchImpersonationOtp(c) PROVE IInv'
  <2>1. Becomes(c, Idle) /\ row # "none"
    BY <1>0, <1>2, ReturnBecomes DEF DispatchImpersonationOtp, Return
  <2>2. Codes' /\ UNCHANGED <<row, cache, tomb, ended, age>>
    BY <1>0, <1>2 DEF DispatchImpersonationOtp, Codes, NoOtp
  <2> QED
    BY <2>1, <2>2, Quiet DEF Idle, Elsewhere, Step
<1>3. ASSUME IssueCode(c) PROVE IInv'
  <2>1. Becomes(c, Idle) /\ row # "none"
    BY <1>0, <1>3, ReturnBecomes DEF IssueCode, Return
  <2>2. Codes' /\ UNCHANGED <<row, cache, tomb, ended, age>>
    BY <1>0, <1>3 DEF IssueCode, Codes
  <2> QED
    BY <2>1, <2>2, Quiet DEF Idle, Elsewhere, Step
<1>4. ASSUME VerifyOtp(c) PROVE IInv'
  <2>1. PICK v \in CallRow : Becomes(c, v) /\ Opening(v, "verify")
    BY <1>4, BeginBecomes DEF VerifyOtp, Step
  <2>2. row # "none" /\ Codes' /\ UNCHANGED <<row, cache, tomb, ended, age>>
    BY <1>0, <1>4 DEF VerifyOtp, redis, Codes
  <2> QED
    BY <2>1, <2>2, Quiet DEF Elsewhere, Step, Opening
<1>5. ASSUME RightOtp(c) PROVE IInv'
  <2>1. Becomes(c, [call[c] EXCEPT !.at = "consume"]) /\ row # "none"
    BY <1>0, <1>5, MoveBecomes DEF RightOtp, Move, Step
  <2>2. Codes' /\ UNCHANGED <<row, cache, tomb, ended, age>>
    BY <1>0, <1>5 DEF RightOtp, redis, Codes
  <2>3. LET v == [call[c] EXCEPT !.at = "consume"]
        IN  v.at = "consume" /\ (v.after => ended)
    BY <1>0 DEF CallRow
  <2> QED
    BY <2>1, <2>2, <2>3, Quiet DEF Elsewhere, Step
<1>6. ASSUME WrongOtp(c) PROVE IInv'
  <2> DEFINE step == IF otp + 1 >= MaxOtpAttempts THEN "kill" ELSE "rewrite"
             v == [call[c] EXCEPT !.at = step, !.n = otp + 1]
  <2>1. otp + 1 \in 0..MaxOtpAttempts /\ (step = "rewrite" => otp + 1 < MaxOtpAttempts)
    BY <1>0, <1>6 DEF WrongOtp, Codes, NoOtp
  <2>2. v \in CallRow /\ v.at = step /\ v.n = otp + 1 /\ (v.after => ended)
    BY <1>0, <2>1 DEF CallRow, Step
  <2>3. Becomes(c, v) /\ row # "none"
    <3>1. call' = [call EXCEPT ![c] = v]
      BY <1>6 DEF WrongOtp
    <3> QED
      BY <1>0, <1>6, <2>2, <3>1, SetBecomes DEF WrongOtp
  <2>4. Codes' /\ UNCHANGED <<row, cache, tomb, ended, age>>
    BY <1>0, <1>6 DEF WrongOtp, redis, Codes
  <2>5. v.at \in Elsewhere /\ (v.at = "rewrite" => v.n < MaxOtpAttempts)
    BY <2>1, <2>2 DEF Elsewhere, Step
  <2> QED
    BY <2>2, <2>3, <2>4, <2>5, Quiet
<1>7. ASSUME NoOtpLeft(c) PROVE IInv'
  <2>1. Becomes(c, Idle) /\ row # "none"
    BY <1>0, <1>7, ReturnBecomes DEF NoOtpLeft, Return
  <2>2. Codes' /\ UNCHANGED <<row, cache, tomb, ended, age>>
    BY <1>0, <1>7 DEF NoOtpLeft, redis, Codes
  <2> QED
    BY <2>1, <2>2, Quiet DEF Idle, Elsewhere, Step
<1>8. ASSUME ConsumeOtp(c) PROVE IInv'
  <2>1. Becomes(c, [call[c] EXCEPT !.at = "code"]) /\ row # "none"
    BY <1>0, <1>8, MoveBecomes DEF ConsumeOtp, Move, Step
  <2>2. Codes' /\ UNCHANGED <<row, cache, tomb, ended, age>>
    BY <1>0, <1>8 DEF ConsumeOtp, Codes, NoOtp
  <2>3. LET v == [call[c] EXCEPT !.at = "code"]
        IN  v.at = "code" /\ (v.after => ended)
    BY <1>0 DEF CallRow
  <2> QED
    BY <2>1, <2>2, <2>3, Quiet DEF Elsewhere, Step
<1>9. ASSUME KillOtp(c) PROVE IInv'
  <2>1. Becomes(c, Idle) /\ row # "none"
    BY <1>0, <1>9, ReturnBecomes DEF KillOtp, Return
  <2>2. Codes' /\ UNCHANGED <<row, cache, tomb, ended, age>>
    BY <1>0, <1>9 DEF KillOtp, Codes, NoOtp
  <2> QED
    BY <2>1, <2>2, Quiet DEF Idle, Elsewhere, Step
<1>10. ASSUME RewriteOtp(c) PROVE IInv'
  <2>1. Becomes(c, Idle) /\ row # "none"
    BY <1>0, <1>10, ReturnBecomes DEF RewriteOtp, Return
  <2>2. call[c].n \in 0..(MaxOtpAttempts - 1)
    BY <1>0, <1>10 DEF RewriteOtp, Return, CallRow
  <2>3. Codes' /\ UNCHANGED <<row, cache, tomb, ended, age>>
    BY <1>0, <1>10, <2>2 DEF RewriteOtp, Codes, NoOtp
  <2> QED
    BY <2>1, <2>3, Quiet DEF Idle, Elsewhere, Step
<1>11. ASSUME ExchangeCode(c) PROVE IInv'
  <2>1. PICK v \in CallRow : Becomes(c, v) /\ Opening(v, "redeem")
    BY <1>11, BeginBecomes DEF ExchangeCode, Step
  <2>2. row # "none"
    BY <1>0, <1>11 DEF ExchangeCode, Started, Codes
  <2>3. Codes' /\ UNCHANGED <<row, cache, tomb, ended, age>>
    BY <1>0, <1>11 DEF ExchangeCode, Codes
  <2> QED
    BY <2>1, <2>2, <2>3, Quiet DEF Elsewhere, Step, Opening
<1>12. ASSUME NEW ok \in BOOLEAN, Redeem(c, ok) PROVE IInv'
  <2>1. Becomes(c, Idle) /\ row # "none"
    BY <1>0, <1>12, ReturnBecomes DEF Redeem, Return
  <2>2. Codes' /\ UNCHANGED <<row, cache, tomb, ended, age>>
    BY <1>0, <1>12 DEF Redeem, redis, Codes
  <2> QED
    BY <2>1, <2>2, Quiet DEF Idle, Elsewhere, Step
<1> QED
  BY <1>1, <1>2, <1>3, <1>4, <1>5, <1>6, <1>7, <1>8, <1>9, <1>10, <1>11, <1>12 DEF Issue

(* The end of the session: endImpersonation and suspendReseller.           *)
LEMMA EndHolds == ASSUME IInv, NEW c \in Calls, End(c) PROVE IInv'
<1> USE DEF IInv
<1>0. /\ Codes
      /\ call[c].after => ended
      /\ call[c].at # "idle" => row # "none"
      /\ call[c] \in CallRow
  BY Types, BusyStarted, ImpersonationAssumption DEF TypeOK, Counted, Codes, Outlived
<1>1. ASSUME NEW step \in {"update", "suspend"}, Begin(c, step), row = "open",
             UNCHANGED <<row, expired, otp, codes, cache, tomb, granted, ended, age>>
      PROVE  IInv'
  <2>1. PICK v \in CallRow : Becomes(c, v) /\ Opening(v, step)
    BY <1>1, BeginBecomes DEF Step
  <2>2. Codes'
    BY <1>0, <1>1 DEF Codes
  <2> QED
    BY <1>1, <2>1, <2>2, Quiet DEF Elsewhere, Step, Opening
<1>2. ASSUME EndImpersonation(c) PROVE IInv'
  BY <1>1, <1>2 DEF EndImpersonation, redis
<1>3. ASSUME SuspendReseller(c) PROVE IInv'
  BY <1>1, <1>3 DEF SuspendReseller, redis
<1>4. ASSUME NEW v, Becomes(c, v), v.at \in {"idle", "del"}, v.after => ended,
             row # "none", row' = "ended",
             UNCHANGED <<expired, otp, codes, cache, tomb, granted, ended, age>>
      PROVE  IInv'
  <2>1. \A x \in Calls : /\ StoringOpen(x)' => StoringOpen(x) /\ call'[x] = call[x]
                         /\ Late(x)' => Late(x) /\ call'[x] = call[x]
                         /\ call'[x].at = "rewrite" => call'[x] = call[x]
                         /\ call'[x].after => ended
    BY <1>4 DEF Becomes, StoringOpen, Late, Outlived
  <2>2. CachedOpen' = CachedOpen
    BY <1>4 DEF CachedOpen
  <2>3. TypeOK'
    BY <1>4 DEF TypeOK, Becomes, CallRow, Row
  <2>4. Started' /\ Counted'
    BY <1>4, <2>1 DEF Started, Counted
  <2>5. Fresh' /\ Outlived'
    BY <1>4, <2>1, <2>2 DEF Fresh, Outlived
  <2>6. Settled'
    BY <2>1, <2>2 DEF Settled, Gone
  <2> QED
    BY <2>3, <2>4, <2>5, <2>6
<1>5. ASSUME UpdateEnded(c) PROVE IInv'
  <2>1. Becomes(c, [call[c] EXCEPT !.at = "del"]) /\ row # "none"
    BY <1>0, <1>5, MoveBecomes DEF UpdateEnded, Move, Step
  <2>2. LET v == [call[c] EXCEPT !.at = "del"]
        IN  v.at = "del" /\ (v.after => ended)
    BY <1>0 DEF CallRow
  <2> QED
    BY <1>4, <1>5, <2>1, <2>2 DEF UpdateEnded, redis
<1>6. ASSUME SuspendCommit(c) PROVE IInv'
  <2>1. Becomes(c, Idle) /\ row # "none" /\ Idle.at = "idle" /\ ~Idle.after
    BY <1>0, <1>6, ReturnBecomes DEF SuspendCommit, Return, Idle
  <2> QED
    BY <1>4, <1>6, <2>1 DEF SuspendCommit, redis
<1>7. ASSUME NEW v, Becomes(c, v), v.after = call[c].after,
             \/ call[c].at = "del" /\ v.at = "tomb"
             \/ call[c].at = "suspend" /\ v.at = "commit",
             cache' = Empty, UNCHANGED <<row, expired, otp, codes, tomb, granted, ended, age>>
      PROVE  IInv'
  <2>1. \A x \in Calls : /\ StoringOpen(x)' => StoringOpen(x) /\ call'[x] = call[x]
                         /\ Late(x)' => Late(x) /\ call'[x] = call[x]
                         /\ call'[x].at \in {"store", "rewrite"} => call'[x] = call[x]
                         /\ call'[x].after => ended
                         /\ call'[x].at \in {"del", "tomb"} => row = "ended"
    BY <1>7 DEF Becomes, StoringOpen, Late, Outlived
  <2>2. ~CachedOpen' /\ ~(cache'.ttl > 0)
    BY <1>7 DEF CachedOpen, Empty
  <2>3. TypeOK'
    <3>1. Empty \in [row : Row, ttl : 0..CacheTtl]
      BY Types DEF Empty, Row
    <3> QED
      BY <1>7, <3>1 DEF TypeOK, Becomes, CallRow
  <2>4. Started' /\ Counted'
    BY <1>7, <1>0, <2>1 DEF Started, Counted
  <2>5. Fresh' /\ Outlived'
    BY <1>7, <2>1, <2>2 DEF Fresh, Outlived
  <2>6. Settled'
    BY <2>1, <2>2 DEF Settled, Gone
  <2> QED
    BY <2>3, <2>4, <2>5, <2>6
<1>8. ASSUME DelCache(c) PROVE IInv'
  <2>1. Becomes(c, [call[c] EXCEPT !.at = "tomb"])
    BY <1>8, MoveBecomes DEF DelCache, Step
  <2>2. LET v == [call[c] EXCEPT !.at = "tomb"]
        IN  v.at = "tomb" /\ v.after = call[c].after
    BY <1>0 DEF CallRow
  <2> QED
    BY <1>7, <1>8, <2>1, <2>2 DEF DelCache, Move
<1>9. ASSUME SuspendDelCache(c) PROVE IInv'
  <2>1. Becomes(c, [call[c] EXCEPT !.at = "commit"])
    BY <1>9, MoveBecomes DEF SuspendDelCache, Step
  <2>2. LET v == [call[c] EXCEPT !.at = "commit"]
        IN  v.at = "commit" /\ v.after = call[c].after
    BY <1>0 DEF CallRow
  <2> QED
    BY <1>7, <1>9, <2>1, <2>2 DEF SuspendDelCache, Move
<1>10. ASSUME SetTombstone(c) PROVE IInv'
  <2>1. Becomes(c, Idle) /\ row = "ended"
    BY <1>10, ReturnBecomes DEF SetTombstone, Return, Outlived
  <2>2. /\ tomb' = TombTtl /\ ended' = TRUE
        /\ UNCHANGED <<row, expired, otp, codes, granted, cache, age>>
    BY <1>10 DEF SetTombstone
  <2>3. \A x \in Calls : /\ StoringOpen(x)' => StoringOpen(x) /\ call'[x] = call[x]
                         /\ Late(x)' => Late(x) /\ call'[x] = call[x]
                         /\ call'[x].at # "idle" => call'[x] = call[x]
    BY <2>1 DEF Becomes, StoringOpen, Late, Idle
  <2>4. CachedOpen' = CachedOpen
    BY <2>2 DEF CachedOpen
  <2>5. TypeOK'
    BY <2>1, <2>2, Types DEF TypeOK, Becomes, CallRow
  <2>6. Started' /\ Counted'
    BY <2>1, <2>2, <2>3 DEF Started, Counted
  <2>7. Fresh'
    BY <2>1, <2>2, <2>3, <2>4 DEF Fresh
  <2>8. Outlived'
    <3>1. ASSUME CachedOpen' PROVE cache'.ttl <= tomb'
      BY <2>2, Types, ImpersonationAssumption
    <3>2. ASSUME NEW x \in Calls, StoringOpen(x)'
          PROVE  CacheTtl + (MaxFill - call'[x].since) <= tomb'
      <4>1. call'[x].since \in 0..MaxFill
        BY <2>3, <3>2, Types
      <4> QED
        BY <2>2, <4>1, Types, ImpersonationAssumption
    <3> QED
      BY <2>1, <2>2, <2>3, <3>1, <3>2 DEF Outlived
  <2>9. Settled'
    BY <2>3, <2>4 DEF Settled, Gone
  <2> QED
    BY <2>5, <2>6, <2>7, <2>8, <2>9
<1> QED
  BY <1>2, <1>3, <1>5, <1>6, <1>8, <1>9, <1>10 DEF End

(* The guard.  An ended row it reads from the cache or the database is     *)
(* there to stay; an open one it stores is no older than its wait.         *)
LEMMA CheckHolds == ASSUME IInv, NEW c \in Calls, Check(c) PROVE IInv'
<1> USE DEF IInv
<1>0. /\ Codes
      /\ call[c].after => ended
      /\ call[c].at # "idle" => row # "none"
      /\ call[c] \in CallRow
  BY Types, BusyStarted, ImpersonationAssumption DEF TypeOK, Counted, Codes, Outlived
\* A step that changes c alone and stores nothing.
<1>1. ASSUME NEW v, Becomes(c, v), v.at \in {"get", "select", "decide"}, row # "none",
             v.after => ended /\ Gone,
             v.at = "decide" /\ v.after => v.row = "ended",
             UNCHANGED <<row, expired, otp, codes, cache, tomb, granted, ended, age>>
      PROVE  IInv'
  <2>1. \A x \in Calls : /\ StoringOpen(x)' => StoringOpen(x) /\ call'[x] = call[x]
                         /\ call'[x].at \in {"store", "rewrite", "del", "tomb"} => call'[x] = call[x]
                         /\ call'[x].after => ended
    BY <1>1 DEF Becomes, StoringOpen, Outlived
  <2>2. CachedOpen' = CachedOpen
    BY <1>1 DEF CachedOpen
  <2>3. TypeOK'
    BY <1>1 DEF TypeOK, Becomes, CallRow
  <2>4. Started' /\ Counted'
    BY <1>1, <2>1 DEF Started, Counted
  <2>5. Fresh' /\ Outlived'
    BY <1>1, <2>1, <2>2 DEF Fresh, Outlived
  <2>6. Settled'
    <3>1. Gone => Gone'
      BY <2>1, <2>2 DEF Gone
    <3>2. ASSUME NEW x \in Calls, Late(x)'
          PROVE  Gone /\ (call'[x].at = "decide" => call'[x].row = "ended")
      <4>1. CASE x = c
        BY <1>1, <3>2, <4>1 DEF Becomes, Late
      <4>2. CASE x # c
        BY <1>1, <3>2, <4>2 DEF Becomes, Late, Settled
      <4> QED
        BY <4>1, <4>2
    <3> QED
      BY <3>1, <3>2 DEF Settled
  <2> QED
    BY <2>3, <2>4, <2>5, <2>6
<1>2. ASSUME Guard(c) PROVE IInv'
  <2>1. PICK v \in CallRow : Becomes(c, v) /\ Opening(v, "get")
    BY <1>2, BeginBecomes DEF Guard, Step
  <2>2. row # "none" /\ tomb = 0
    BY <1>2 DEF Guard, Started
  <2>3. ASSUME ended PROVE Gone
    <3>1. ~CachedOpen
      BY <2>2, <2>3, Types DEF Outlived, CachedOpen
    <3>2. ASSUME NEW x \in Calls, StoringOpen(x) PROVE FALSE
      <4>1. CacheTtl + (MaxFill - call[x].since) <= 0 /\ call[x].since \in 0..MaxFill
        BY <2>2, <2>3, <3>2, Types DEF Outlived
      <4> QED
        BY <4>1, Types
    <3> QED
      BY <3>1, <3>2 DEF Gone
  <2> QED
    BY <1>1, <1>2, <2>1, <2>2, <2>3 DEF Guard, redis, Opening
<1>3. ASSUME GetHit(c) PROVE IInv'
  <2> DEFINE v == [[call[c] EXCEPT !.at = "decide"] EXCEPT !.row = cache.row]
  <2>1. /\ v \in CallRow /\ v.at = "decide" /\ v.row = cache.row /\ v.after = call[c].after
    BY <1>0, Types DEF CallRow, Step
  <2>2. call' = [call EXCEPT ![c] = v]
    BY <1>3 DEF GetHit
  <2>3. Becomes(c, v) /\ row # "none"
    BY <1>0, <1>3, <2>1, <2>2, SetBecomes DEF GetHit
  <2>4. v.after => ended /\ Gone /\ v.row = "ended"
    BY <1>0, <1>3, <2>1, Types DEF GetHit, Settled, Late, Gone, CachedOpen, Row
  <2> QED
    BY <1>1, <1>3, <2>1, <2>3, <2>4 DEF GetHit, redis
<1>4. ASSUME GetMiss(c) PROVE IInv'
  <2>1. Becomes(c, [call[c] EXCEPT !.at = "select"]) /\ row # "none"
    BY <1>0, <1>4, MoveBecomes DEF GetMiss, Move, Step
  <2>2. LET v == [call[c] EXCEPT !.at = "select"]
        IN  v.at = "select" /\ (v.after => ended /\ Gone)
    BY <1>0, <1>4 DEF CallRow, GetMiss, Move, Settled, Late
  <2> QED
    BY <1>1, <1>4, <2>1, <2>2 DEF GetMiss, redis
<1>5. ASSUME SelectRow(c) PROVE IInv'
  <2> DEFINE v == [[call[c] EXCEPT !.at = "store"] EXCEPT !.row = row]
  <2>1. row \in Row
    BY <1>0, <1>5 DEF SelectRow, TypeOK
  <2>2. /\ v \in CallRow /\ v.at = "store" /\ v.row = row
        /\ v.after = call[c].after /\ v.since = call[c].since
    BY <1>0, <2>1 DEF CallRow, Step
  <2>3. Becomes(c, v)
    <3>1. call' = [call EXCEPT ![c] = v]
      BY <1>5 DEF SelectRow
    <3> QED
      BY <2>2, <3>1, SetBecomes
  <2> HIDE DEF v
  <2>4. UNCHANGED <<row, expired, otp, codes, cache, tomb, granted, ended, age>>
    BY <1>5 DEF SelectRow, redis
  <2>5. \A x \in Calls : /\ StoringOpen(x)' =>
                             (StoringOpen(x) /\ call'[x] = call[x]) \/ (x = c /\ row = "open")
                         /\ call'[x].at \in {"rewrite", "del", "tomb", "decide"} => call'[x] = call[x]
                         /\ call'[x].at = "store" => call'[x] = call[x] \/ call'[x].row = row
                         /\ call'[x].after = call[x].after
    BY <2>2, <2>3 DEF Becomes, StoringOpen
  <2>6. CachedOpen' = CachedOpen
    BY <2>4 DEF CachedOpen
  <2>7. TypeOK'
    BY <2>3, <2>4 DEF TypeOK, Becomes, CallRow
  <2>8. Started' /\ Counted'
    BY <2>1, <2>4, <2>5 DEF Started, Counted, Row
  <2>9. Fresh'
    <3>1. ASSUME NEW x \in Calls, StoringOpen(x)' PROVE age' <= call'[x].since
      <4>1. CASE StoringOpen(x) /\ call'[x] = call[x]
        BY <2>4, <4>1 DEF Fresh
      <4>2. CASE x = c /\ row = "open"
        BY <2>2, <2>3, <2>4, <4>2, Types DEF Fresh, Becomes
      <4> QED
        BY <2>5, <3>1, <4>1, <4>2
    <3> QED
      BY <2>4, <2>5, <2>6, <3>1 DEF Fresh
  <2>10. Outlived'
    BY <2>4, <2>5, <2>6 DEF Outlived
  <2>11. Settled'
    <3>1. ASSUME NEW x \in Calls, Late(x)'
          PROVE  Gone' /\ (call'[x].at = "decide" => call'[x].row = "ended")
      <4>1. Late(x)
        BY <1>5, <2>2, <2>3, <3>1 DEF Becomes, Late, SelectRow
      <4>2. Gone /\ row = "ended"
        BY <4>1 DEF Late, Settled, Outlived
      <4> QED
        BY <2>5, <2>6, <4>1, <4>2 DEF Gone, Settled
    <3> QED
      BY <3>1 DEF Settled
  <2> QED
    BY <2>7, <2>8, <2>9, <2>10, <2>11
<1>6. ASSUME StoreRow(c) PROVE IInv'
  <2> DEFINE v == [call[c] EXCEPT !.at = "decide"]
             e == [row |-> call[c].row, ttl |-> CacheTtl]
  <2>1. Becomes(c, v) /\ call[c].at = "store"
    BY <1>6, MoveBecomes DEF StoreRow, Move, Step
  <2>2. v.at = "decide" /\ v.row = call[c].row /\ v.after = call[c].after
    BY <1>0 DEF CallRow
  <2>3. /\ cache' = e /\ e \in [row : Row, ttl : 0..CacheTtl]
        /\ e.row = call[c].row /\ e.ttl = CacheTtl
        /\ UNCHANGED <<row, expired, otp, codes, granted, tomb, ended, age>>
    BY <1>6, Types DEF StoreRow
  <2>4. \A x \in Calls : /\ StoringOpen(x)' => StoringOpen(x) /\ call'[x] = call[x]
                         /\ call'[x].at # "decide" => call'[x] = call[x]
                         /\ call'[x].after = call[x].after
    BY <2>1, <2>2 DEF Becomes, StoringOpen
  <2>5. CachedOpen' => StoringOpen(c)
    BY <2>1, <2>3 DEF CachedOpen, StoringOpen
  <2>6. TypeOK'
    BY <2>1, <2>3 DEF TypeOK, Becomes, CallRow
  <2>7. Started' /\ Counted'
    BY <1>0, <2>1, <2>3, <2>4 DEF Started, Counted
  <2>8. Fresh'
    <3>1. ASSUME CachedOpen' PROVE age' + cache'.ttl <= Window
      <4>1. age <= call[c].since /\ call[c].since \in 0..MaxFill
        BY <2>5, <3>1, Types DEF Fresh
      <4> QED
        BY <2>3, <4>1, Types DEF Window
    <3>2. cache'.row = "ended" => row = "ended"
      BY <2>1, <2>3 DEF Fresh
    <3> QED
      BY <2>3, <2>4, <3>1, <3>2 DEF Fresh
  <2>9. Outlived'
    <3>1. ASSUME CachedOpen', ended PROVE cache'.ttl <= tomb'
      <4>1. CacheTtl + (MaxFill - call[c].since) <= tomb /\ call[c].since \in 0..MaxFill
        BY <2>5, <3>1, Types DEF Outlived
      <4> QED
        BY <2>3, <4>1, Types
    <3> QED
      BY <2>3, <2>4, <3>1 DEF Outlived
  <2>10. Settled'
    <3>1. Gone => Gone'
      BY <2>4, <2>5 DEF Gone
    <3>2. ASSUME NEW x \in Calls, Late(x)'
          PROVE  Gone /\ (call'[x].at = "decide" => call'[x].row = "ended")
      <4>1. Late(x)
        BY <2>1, <2>2, <3>2 DEF Becomes, Late
      <4>2. Gone /\ (call[x].at = "decide" => call[x].row = "ended")
        BY <4>1 DEF Settled
      <4>3. ASSUME call'[x].at = "decide" PROVE call'[x].row = "ended"
        <5>1. CASE x = c
          BY <2>1, <2>2, <4>2, <5>1, Types DEF Becomes, Gone, StoringOpen, Row
        <5>2. CASE x # c
          BY <2>1, <4>2, <4>3, <5>2 DEF Becomes
        <5> QED
          BY <5>1, <5>2
      <4> QED
        BY <4>2, <4>3
    <3> QED
      BY <3>1, <3>2 DEF Settled
  <2> QED
    BY <2>6, <2>7, <2>8, <2>9, <2>10
<1>7. ASSUME Decide(c) PROVE IInv'
  <2>1. Becomes(c, Idle) /\ row # "none" /\ Idle.at = "idle" /\ ~Idle.after
    BY <1>0, <1>7, ReturnBecomes DEF Decide, Return, Idle
  <2>2. Codes' /\ UNCHANGED <<row, cache, tomb, ended, age>>
    BY <1>0, <1>7 DEF Decide, redis, Codes
  <2> QED
    BY <2>1, <2>2, Quiet DEF Elsewhere, Step
<1> QED
  BY <1>2, <1>3, <1>4, <1>5, <1>6, <1>7 DEF Check

(* What happens to a session whatever the requests do: expiry and a call   *)
(* that ends half-way.                                                     *)
LEMMA ExpiryHolds == ASSUME IInv, SessionExpires \/ OtpExpires \/ CodeExpires PROVE IInv'
<1> USE DEF IInv
<1>1. UNCHANGED <<row, cache, tomb, call, granted, ended, age>>
  BY DEF SessionExpires, OtpExpires, CodeExpires, redis
<1>2. Codes' /\ (row = "none" => codes'.live = 0)
  <2>1. Codes /\ (row = "none" => codes.live = 0) /\ MaxOtpAttempts \in Nat \ {0}
    BY Types DEF Codes, TypeOK, Counted, Started
  <2>2. CASE SessionExpires \/ OtpExpires
    <3>1. NoOtp \in NoOtp..(MaxOtpAttempts - 1)
      BY <2>1 DEF NoOtp
    <3>2. /\ expired' \in BOOLEAN /\ otp' \in {NoOtp, otp}
          /\ codes' = codes /\ granted' = granted
      BY <2>1, <2>2 DEF SessionExpires, OtpExpires, redis, Codes
    <3> QED
      BY <2>1, <3>1, <3>2 DEF Codes
  <2>3. CASE CodeExpires
    <3>1. codes' = [codes EXCEPT !.live = codes.live - 1] /\ codes.live > 0
      BY <2>3 DEF CodeExpires
    <3>2. codes' \in [live : 0..MaxCodes, issued : 0..MaxCodes] /\ codes'.live <= codes'.issued
      BY <2>1, <3>1, ImpersonationAssumption DEF Codes
    <3> QED
      BY <2>1, <2>3, <3>1, <3>2 DEF CodeExpires, Codes
  <2> QED
    BY <2>2, <2>3
<1>3. TypeOK'
  BY <1>1, <1>2 DEF TypeOK, Codes
<1>4. Started' /\ Counted'
  BY <1>1, <1>2 DEF Started, Counted, Codes
<1>5. Fresh' /\ Outlived' /\ Settled'
  BY <1>1 DEF Fresh, Outlived, Settled, Gone, Late, CachedOpen, StoringOpen
<1> QED
  BY <1>3, <1>4, <1>5

LEMMA FailHolds == ASSUME IInv, NEW c \in Calls, Fail(c) PROVE IInv'
<1> USE DEF IInv
<1>1. Becomes(c, Idle) /\ Idle.at = "idle" /\ ~Idle.after
  BY ReturnBecomes DEF Fail, Idle
<1>2. row # "none"
  BY DEF Fail, Started
<1>3. Codes' /\ UNCHANGED <<row, cache, tomb, ended, age>>
  BY DEF Fail, redis, Codes, TypeOK, Counted
<1> QED
  BY <1>1, <1>2, <1>3, Quiet DEF Elsewhere, Step

(* A tick takes one off the lifetimes of the entry and the tombstone, and  *)
(* adds one to the wait of a request that is about to store.               *)
LEMMA TickHolds == ASSUME IInv, Tick PROVE IInv'
<1> USE DEF IInv
<1>1. UNCHANGED <<row, expired, otp, codes, granted, ended>>
  BY DEF Tick
<1>2. \A x \in Calls : /\ call'[x] \in CallRow
                       /\ call'[x].at = call[x].at /\ call'[x].row = call[x].row
                       /\ call'[x].n = call[x].n /\ call'[x].after = call[x].after
                       /\ call[x].at = "store" => call'[x].since = call[x].since + 1
                       /\ call[x] = Idle => call'[x] = Idle
  <2> SUFFICES ASSUME NEW x \in Calls
               PROVE  /\ call'[x] \in CallRow
                      /\ call'[x].at = call[x].at /\ call'[x].row = call[x].row
                      /\ call'[x].n = call[x].n /\ call'[x].after = call[x].after
                      /\ call[x].at = "store" => call'[x].since = call[x].since + 1
                      /\ call[x] = Idle => call'[x] = Idle
    OBVIOUS
  <2>1. call[x] \in CallRow /\ MaxFill \in Nat
    BY Types
  <2>2. CASE call[x].at = "store"
    <3>1. /\ call'[x] = [call[x] EXCEPT !.since = call[x].since + 1]
          /\ call[x].since < MaxFill
      BY <2>2 DEF Tick, Storing
    <3>2. call[x] # Idle
      BY <2>2 DEF Idle
    <3> QED
      BY <2>1, <2>2, <3>1, <3>2 DEF CallRow
  <2>3. CASE call[x].at # "store"
    BY <2>1, <2>3 DEF Tick, Storing
  <2> QED
    BY <2>2, <2>3
<1>3. call' \in [Calls -> CallRow]
  BY <1>2 DEF Tick
<1>4. cache' \in [row : Row, ttl : 0..CacheTtl]
      /\ (cache'.ttl > 0 => cache.ttl > 0 /\ cache'.ttl = cache.ttl - 1 /\ cache'.row = cache.row)
  <2>1. CASE cache.ttl > 1
    <3>1. cache' = [cache EXCEPT !.ttl = cache.ttl - 1]
      BY <2>1 DEF Tick
    <3> QED
      BY <2>1, <3>1, Types DEF TypeOK
  <2>2. CASE ~(cache.ttl > 1)
    BY <2>2, Types DEF Tick, Empty, Row
  <2> QED
    BY <2>1, <2>2
<1>5. tomb' \in 0..TombTtl /\ tomb - 1 <= tomb'
  BY Types DEF Tick
<1>6. /\ age' \in 0..(Window + 1) /\ age' <= age + 1
      /\ row # "ended" => age' = age
  BY Types DEF Tick
<1>7. \A x \in Calls : StoringOpen(x)' => StoringOpen(x) /\ call'[x].since = call[x].since + 1
  BY <1>2 DEF StoringOpen
<1>8. CachedOpen' => CachedOpen /\ cache'.ttl = cache.ttl - 1
  BY <1>4 DEF CachedOpen
<1>9. TypeOK'
  BY <1>1, <1>3, <1>4, <1>5, <1>6 DEF TypeOK, CallRow
<1>10. Started' /\ Counted'
  BY <1>1, <1>2 DEF Started, Counted
<1>11. Fresh'
  <2>1. ASSUME NEW x \in Calls, StoringOpen(x)' PROVE age' <= call'[x].since
    <3>1. age <= call[x].since /\ call'[x].since = call[x].since + 1
      BY <1>7, <2>1 DEF Fresh
    <3> QED
      BY <1>6, <3>1, Types
  <2>2. ASSUME CachedOpen' PROVE age' + cache'.ttl <= Window
    <3>1. age + cache.ttl <= Window /\ cache'.ttl = cache.ttl - 1
      BY <1>8, <2>2 DEF Fresh
    <3> QED
      BY <1>6, <3>1, Types
  <2> QED
    BY <1>1, <1>2, <1>4, <1>6, <2>1, <2>2 DEF Fresh
<1>12. Outlived'
  <2>1. ASSUME CachedOpen', ended PROVE cache'.ttl <= tomb'
    <3>1. cache.ttl <= tomb /\ cache'.ttl = cache.ttl - 1
      BY <1>8, <2>1 DEF Outlived
    <3> QED
      BY <1>5, <3>1, Types
  <2>2. ASSUME NEW x \in Calls, StoringOpen(x)', ended
        PROVE  CacheTtl + (MaxFill - call'[x].since) <= tomb'
    <3>1. /\ CacheTtl + (MaxFill - call[x].since) <= tomb
          /\ call'[x].since = call[x].since + 1
      BY <1>7, <2>2 DEF Outlived
    <3> QED
      BY <1>5, <3>1, Types
  <2> QED
    BY <1>1, <1>2, <2>1, <2>2 DEF Outlived
<1>13. Settled'
  <2>1. Gone => Gone'
    BY <1>7, <1>8 DEF Gone
  <2> QED
    BY <1>2, <2>1 DEF Settled, Late
<1> QED
  BY <1>9, <1>10, <1>11, <1>12, <1>13

LEMMA StepHolds == IInv /\ [Next]_vars => IInv'
<1> SUFFICES ASSUME IInv, [Next]_vars PROVE IInv'
  OBVIOUS
<1>1. ASSUME NEW c \in Calls, Issue(c) PROVE IInv'
  BY <1>1, IssueHolds
<1>2. ASSUME NEW c \in Calls, End(c) PROVE IInv'
  BY <1>2, EndHolds
<1>3. ASSUME NEW c \in Calls, Check(c) PROVE IInv'
  BY <1>3, CheckHolds
<1>4. ASSUME NEW c \in Calls, Fail(c) PROVE IInv'
  BY <1>4, FailHolds
<1>5. CASE SessionExpires \/ OtpExpires \/ CodeExpires
  BY <1>5, ExpiryHolds
<1>6. CASE Tick
  BY <1>6, TickHolds
<1>7. CASE UNCHANGED vars
  BY <1>7 DEF vars, IInv, TypeOK, Started, Counted, Fresh, Outlived, Settled, Gone, Late,
     CachedOpen, StoringOpen
<1> QED
  BY <1>1, <1>2, <1>3, <1>4, <1>5, <1>6, <1>7 DEF Next

(* The inductive invariant holds of every reachable state.                 *)
THEOREM Inductive == Spec => []IInv
  BY InitHolds, StepHolds, PTL DEF Spec

(* Type correctness of the impersonation session.                          *)
THEOREM TypeCorrect == Spec => []TypeOK
<1>1. IInv => TypeOK
  BY DEF IInv
<1> QED
  BY <1>1, Inductive, PTL

(* No request that begins after endImpersonation returned is let through,  *)
(* for any number of requests under way and any lifetimes in which the     *)
(* tombstone outlasts a cache entry and its fill.                          *)
THEOREM EndedRejected == Spec => []EndedIsRejected
<1>1. IInv => EndedIsRejected
  BY DEF IInv, Settled, Late, EndedIsRejected, Allowed
<1> QED
  BY <1>1, Inductive, PTL
-----------------------------------------------------------------------------
(* The version a row stands for in BoundedStaleness.                       *)
Version(r) == IF r = "open" THEN 0 ELSE 1
Now == IF row = "ended" THEN 1 ELSE 0
Ages == [v \in 0..1 |-> IF v = 0 THEN age ELSE 0]

(* A request that gets to its decision gives the abstract answer, if what  *)
(* it holds is not too old.                                                *)
LEMMA Answers ==
    ASSUME IInv, NEW c \in Calls, NEW v \in CallRow, Becomes(c, v), v.at = "decide",
           v.row = "open" => age <= Window, v.row = "ended" => row = "ended",
           UNCHANGED <<row, age>>
    PROVE  Abstract!Next
<1>1. Answer' = [Answer EXCEPT ![c] = Version(v.row)]
  BY DEF Answer, Version, Becomes
<1>2. Version(v.row) \in 0..Now /\ Ages[Version(v.row)] <= Window
  BY Types DEF IInv, Version, Now, Ages, CallRow, Row
<1>3. Abstract!Answer(c)
  BY <1>1, <1>2 DEF Abstract!Answer, Now, Ages
<1> QED
  BY <1>3 DEF Abstract!Next

(* Every step of the guard and of the session is a step of the abstract    *)
(* specification or changes nothing it shows.                              *)
LEMMA StepSimulation == IInv /\ [Next]_vars => [Abstract!Next]_(Abstract!vars)
<1> SUFFICES ASSUME IInv, [Next]_vars PROVE [Abstract!Next]_(Abstract!vars)
  OBVIOUS
<1> USE DEF Abstract!NoAnswer
<1>0. /\ TypeOK /\ Fresh
      /\ \A c \in Calls : call[c] \in CallRow
  BY Types DEF IInv
\* A step of a request that neither comes to a decision nor leaves one.
<1>1. ASSUME NEW c \in Calls, NEW v, Becomes(c, v), v.at # "decide", call[c].at # "decide",
             UNCHANGED <<row, age>>
      PROVE  UNCHANGED Abstract!vars
  <2>1. Answer' = Answer
    BY <1>1 DEF Answer, Becomes
  <2> QED
    BY <1>1, <2>1 DEF Abstract!vars
\* A step of a request that leaves its decision.
<1>2. ASSUME NEW c \in Calls, Becomes(c, Idle), UNCHANGED <<row, age>>
      PROVE  Abstract!Next
  <2>1. Answer' = [Answer EXCEPT ![c] = -1]
    <3>1. call'[c].at = "idle" /\ \A x \in Calls \ {c} : call'[x] = call[x]
      BY <1>2 DEF Becomes, Idle
    <3> QED
      BY <3>1 DEF Answer
  <2>2. Abstract!Finish(c)
    BY <1>2, <2>1 DEF Abstract!Finish
  <2> QED
    BY <2>2 DEF Abstract!Next
<1>3. ASSUME NEW c \in Calls, NEW step \in Step \ {"decide"}, Begin(c, step),
             UNCHANGED <<row, age>>
      PROVE  UNCHANGED Abstract!vars
  <2>1. PICK v \in CallRow : Becomes(c, v) /\ Opening(v, step)
    BY <1>0, <1>3, BeginBecomes
  <2>2. call[c].at # "decide"
    BY <1>3 DEF Begin, Idle
  <2> QED
    BY <1>1, <1>3, <2>1, <2>2 DEF Opening
<1>4. ASSUME NEW c \in Calls, NEW from \in Step \ {"decide"}, NEW to \in Step \ {"decide"},
             Move(c, from, to), UNCHANGED <<row, age>>
      PROVE  UNCHANGED Abstract!vars
  <2>1. Becomes(c, [call[c] EXCEPT !.at = to]) /\ call[c].at # "decide"
    BY <1>0, <1>4, MoveBecomes DEF Move
  <2>2. [call[c] EXCEPT !.at = to].at = to
    BY <1>0 DEF CallRow
  <2> QED
    BY <1>1, <1>4, <2>1, <2>2
<1>5. ASSUME NEW c \in Calls, NEW from \in Step, Return(c, from), UNCHANGED <<row, age>>
      PROVE  Abstract!Next
  BY <1>0, <1>2, <1>5, ReturnBecomes DEF Return
<1>6. ASSUME row = "none", row' = "open", UNCHANGED age, NEW c \in Calls,
             NEW step \in Step \ {"decide"}, Begin(c, step)
      PROVE  UNCHANGED Abstract!vars
  <2>1. PICK v \in CallRow : Becomes(c, v) /\ Opening(v, step)
    BY <1>0, <1>6, BeginBecomes
  <2>2. call[c].at # "decide"
    BY <1>6 DEF Begin, Idle
  <2>3. Answer' = Answer
    BY <2>1, <2>2 DEF Answer, Becomes, Opening
  <2> QED
    BY <1>6, <2>3 DEF Abstract!vars
<1>7. ASSUME NEW c \in Calls, Issue(c) PROVE [Abstract!Next]_(Abstract!vars)
  <2>1. ASSUME NEW q \in BOOLEAN, StartImpersonation(c, q) PROVE UNCHANGED Abstract!vars
    BY <1>6, <2>1 DEF StartImpersonation, Step
  <2>2. ASSUME WrongOtp(c) PROVE UNCHANGED Abstract!vars
    <3>1. Answer' = Answer
      BY <1>0, <2>2 DEF WrongOtp, Answer, TypeOK
    <3> QED
      BY <2>2, <3>1 DEF WrongOtp, Abstract!vars
  <2>3. ASSUME VerifyOtp(c) \/ ExchangeCode(c) PROVE UNCHANGED Abstract!vars
    BY <1>3, <2>3 DEF VerifyOtp, ExchangeCode, Step
  <2>4. ASSUME RightOtp(c) \/ ConsumeOtp(c) PROVE UNCHANGED Abstract!vars
    BY <1>4, <2>4 DEF RightOtp, ConsumeOtp, Step
  <2>5. ASSUME \/ DispatchImpersonationOtp(c) \/ IssueCode(c) \/ NoOtpLeft(c)
               \/ KillOtp(c) \/ RewriteOtp(c) \/ \E ok \in BOOLEAN : Redeem(c, ok)
        PROVE  Abstract!Next
    BY <1>5, <2>5 DEF DispatchImpersonationOtp, IssueCode, NoOtpLeft, KillOtp, RewriteOtp,
       Redeem, Step
  <2> QED
    BY <1>7, <2>1, <2>2, <2>3, <2>4, <2>5 DEF Issue
\* The row is ended: the abstract record gets its next version.
<1>8. ASSUME NEW c \in Calls, NEW v, Becomes(c, v), v.at # "decide", call[c].at # "decide",
             row # "none", row' = "ended", UNCHANGED age
      PROVE  [Abstract!Next]_(Abstract!vars)
  <2>1. Answer' = Answer
    BY <1>8 DEF Answer, Becomes
  <2>2. CASE row = "ended"
    BY <1>8, <2>1, <2>2 DEF Abstract!vars
  <2>3. CASE row # "ended"
    BY <1>8, <2>1, <2>3 DEF Abstract!Next, Abstract!Write
  <2> QED
    BY <2>2, <2>3
<1>9. ASSUME NEW c \in Calls, End(c) PROVE [Abstract!Next]_(Abstract!vars)
  <2>1. ASSUME EndImpersonation(c) \/ SuspendReseller(c) PROVE UNCHANGED Abstract!vars
    BY <1>3, <2>1 DEF EndImpersonation, SuspendReseller, Step
  <2>2. ASSUME DelCache(c) \/ SuspendDelCache(c) PROVE UNCHANGED Abstract!vars
    BY <1>4, <2>2 DEF DelCache, SuspendDelCache, Step
  <2>3. ASSUME SetTombstone(c) PROVE Abstract!Next
    BY <1>5, <2>3 DEF SetTombstone, Step
  <2>4. ASSUME UpdateEnded(c) PROVE [Abstract!Next]_(Abstract!vars)
    <3>1. Becomes(c, [call[c] EXCEPT !.at = "del"]) /\ call[c].at = "update"
      BY <1>0, <2>4, MoveBecomes DEF UpdateEnded, Move, Step
    <3>2. [call[c] EXCEPT !.at = "del"].at = "del" /\ row # "none"
      BY <1>0, <3>1, BusyStarted DEF CallRow, IInv
    <3> QED
      BY <1>8, <2>4, <3>1, <3>2 DEF UpdateEnded
  <2>5. ASSUME SuspendCommit(c) PROVE [Abstract!Next]_(Abstract!vars)
    <3>1. Becomes(c, Idle) /\ call[c].at = "commit" /\ Idle.at = "idle"
      BY <1>0, <2>5, ReturnBecomes DEF SuspendCommit, Return, Idle
    <3>2. row # "none"
      BY <3>1, BusyStarted DEF IInv
    <3> QED
      BY <1>8, <2>5, <3>1, <3>2 DEF SuspendCommit
  <2> QED
    BY <1>9, <2>1, <2>2, <2>3, <2>4, <2>5 DEF End
<1>10. ASSUME NEW c \in Calls, Check(c) PROVE [Abstract!Next]_(Abstract!vars)
  <2>1. ASSUME Guard(c) PROVE UNCHANGED Abstract!vars
    BY <1>3, <2>1 DEF Guard, Step
  <2>2. ASSUME GetMiss(c) PROVE UNCHANGED Abstract!vars
    BY <1>4, <2>2 DEF GetMiss, Step
  <2>3. ASSUME SelectRow(c) PROVE UNCHANGED Abstract!vars
    <3>1. Answer' = Answer
      BY <1>0, <2>3 DEF SelectRow, Answer, TypeOK
    <3> QED
      BY <2>3, <3>1 DEF SelectRow, Abstract!vars
  <2>4. ASSUME GetHit(c) PROVE Abstract!Next
    <3> DEFINE v == [[call[c] EXCEPT !.at = "decide"] EXCEPT !.row = cache.row]
    <3>1. v \in CallRow /\ v.at = "decide" /\ v.row = cache.row
      BY <1>0, Types DEF CallRow, Step
    <3>2. Becomes(c, v)
      <4>1. call' = [call EXCEPT ![c] = v]
        BY <2>4 DEF GetHit
      <4> QED
        BY <1>0, <3>1, <4>1, SetBecomes
    <3>3. /\ cache.row = "open" => age <= Window
          /\ cache.row = "ended" => row = "ended"
      BY <1>0, <2>4, Types DEF GetHit, Fresh, CachedOpen
    <3> HIDE DEF v
    <3> QED
      BY <2>4, <3>1, <3>2, <3>3, Answers DEF GetHit
  <2>5. ASSUME StoreRow(c) PROVE Abstract!Next
    <3> DEFINE v == [call[c] EXCEPT !.at = "decide"]
    <3>1. v \in CallRow /\ v.at = "decide" /\ v.row = call[c].row
      BY <1>0 DEF CallRow, Step
    <3>2. Becomes(c, v) /\ call[c].at = "store"
      BY <1>0, <2>5, MoveBecomes DEF StoreRow, Move, Step
    <3>3. /\ call[c].row = "open" => age <= Window
          /\ call[c].row = "ended" => row = "ended"
      <4>1. call[c].row = "open" => age <= call[c].since
        BY <1>0, <3>2 DEF Fresh, StoringOpen
      <4>2. call[c].since <= Window /\ call[c].since \in Int
        BY <1>0, Types DEF Window
      <4> QED
        BY <1>0, <3>2, <4>1, <4>2, Types DEF Fresh
    <3> HIDE DEF v
    <3> QED
      BY <2>5, <3>1, <3>2, <3>3, Answers DEF StoreRow
  <2>6. ASSUME Decide(c) PROVE Abstract!Next
    BY <1>5, <2>6 DEF Decide, Step
  <2> QED
    BY <1>10, <2>1, <2>2, <2>3, <2>4, <2>5, <2>6 DEF Check
<1>11. ASSUME NEW c \in Calls, Fail(c) PROVE Abstract!Next
  BY <1>0, <1>2, <1>11, ReturnBecomes DEF Fail
<1>12. CASE SessionExpires \/ OtpExpires \/ CodeExpires
  BY <1>12 DEF SessionExpires, OtpExpires, CodeExpires, Abstract!vars, Answer
<1>13. CASE Tick
  <2>1. Answer' = Answer
    <3>1. \A c \in Calls : call'[c].at = call[c].at /\ call'[c].row = call[c].row
      BY <1>0, <1>13 DEF Tick, CallRow
    <3> QED
      BY <3>1 DEF Answer
  <2>2. Ages' = [v \in 0..1 |-> Abstract!Older(v)]
    <3>1. ASSUME NEW v \in 0..1
          PROVE  (IF v = 0 THEN age' ELSE 0) = Abstract!Older(v)
      <4>1. CASE v = 0
        BY <1>13, <4>1 DEF Tick, Ages, Abstract!Older
      <4>2. CASE v = 1
        BY <1>13, <4>2 DEF Tick, Ages, Abstract!Older
      <4> QED
        BY <4>1, <4>2
    <3> QED
      BY <3>1 DEF Ages
  <2>3. Abstract!Tick
    BY <1>13, <2>1, <2>2 DEF Tick, Abstract!Tick, Abstract!Versions, Ages
  <2> QED
    BY <2>3 DEF Abstract!Next
<1>14. CASE UNCHANGED vars
  BY <1>14 DEF vars, Abstract!vars, Answer
<1> QED
  BY <1>7, <1>9, <1>10, <1>11, <1>12, <1>13, <1>14 DEF Next

(* However the session was ended, a guard goes by the row as it is or as   *)
(* it was at most SESSION_CACHE_TTL and one fill ago: the guard implements *)
(* BoundedStaleness.                                                       *)
THEOREM Refinement == Spec => StaleBounded
<1>1. Init => Abstract!Init
  BY DEF Init, Idle, Answer, Abstract!Init, Abstract!Versions, Abstract!NoAnswer
<1>2. IInv /\ [Next]_vars => [Abstract!Next]_(Abstract!vars)
  BY StepSimulation
<1> QED
  BY <1>1, <1>2, Inductive, PTL DEF Spec, StaleBounded, Abstract!Spec
=============================================================================
