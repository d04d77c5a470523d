----------------------------- MODULE Impersonation -----------------------------
(***************************************************************************)
(* One impersonation session: impersonation.service.ts, the request guard  *)
(* impersonation-session.guard.ts with its Redis cache, and the part of    *)
(* admin-reseller.service.ts that ends the sessions of a reseller's staff. *)
(*                                                                         *)
(* Every transaction and every Redis command is one step.  The lifetimes   *)
(* of the cache entry and of the tombstone are counted in ticks, since a   *)
(* property compares them; a one-time code, an OTP and the session itself  *)
(* may expire at any moment.                                               *)
(***************************************************************************)
EXTENDS Integers

CONSTANTS
    Calls,          \* requests under way at the same time
    MaxOtpAttempts, \* MAX_OTP_ATTEMPTS
    MaxCodes,       \* bound: one-time codes ever issued
    CacheTtl,       \* SESSION_CACHE_TTL
    TombTtl,        \* lifetime of the tombstone
    MaxFill         \* bound: ticks between a guard's SELECT and its SET

(* The second line is "strictly > SESSION_CACHE_TTL" of the comment at     *)
(* impersonation.service.ts:519 made precise: the margin must cover the    *)
(* time a guard takes from its SELECT to its SET.                          *)
ASSUME ImpersonationAssumption ==
    /\ {MaxOtpAttempts, MaxCodes, CacheTtl, TombTtl, MaxFill} \subseteq Nat
    /\ CacheTtl + MaxFill <= TombTtl
    /\ CacheTtl > 0 /\ MaxOtpAttempts > 0

Window == MaxFill + CacheTtl

VARIABLES
    row,      \* impersonation_sessions: "none", "open" or "ended" (endedAt set)
    expired,  \* whether expiresAt has passed
    otp,      \* wrong guesses stored with the OTP, NoOtp when the key is absent
    codes,    \* one-time codes in Redis, and how many were issued
    granted,  \* whether an access token was handed out
    cache,    \* the guard's entry: the row as cached and ticks left
    tomb,     \* ticks left of the tombstone
    call,     \* requests under way
    \* History, read by no action:
    ended,    \* whether a call of endImpersonation has returned
    age       \* ticks since endedAt was set, up to Window + 1

vars == <<row, expired, otp, codes, granted, cache, tomb, call, ended, age>>
redis == <<otp, codes, cache, tomb>>

NoOtp == -1
Row == {"open", "ended"}
Empty == [row |-> "open", ttl |-> 0]

(* A call: its step; the row it read, or the attempts it read; ticks since *)
(* it read; whether it began after endImpersonation had returned.          *)
Step == {"idle", "start", "code", "verify", "consume", "kill", "rewrite", "redeem",
         "update", "del", "tomb", "suspend", "commit", "get", "select", "store", "decide"}
Idle == [at |-> "idle", row |-> "open", n |-> 0, since |-> 0, after |-> FALSE]

TypeOK ==
    /\ row \in Row \cup {"none"}
    /\ expired \in BOOLEAN
    /\ otp \in NoOtp..(MaxOtpAttempts - 1)
    /\ codes \in [live : 0..MaxCodes, issued : 0..MaxCodes]
    /\ granted \in BOOLEAN
    /\ cache \in [row : Row, ttl : 0..CacheTtl]
    /\ tomb \in 0..TombTtl
    /\ call \in [Calls -> [at : Step, row : Row, n : 0..MaxOtpAttempts,
                           since : 0..MaxFill, after : BOOLEAN]]
    /\ ended \in BOOLEAN
    /\ age \in 0..(Window + 1)

Init ==
    /\ row = "none"
    /\ expired = FALSE
    /\ otp = NoOtp
    /\ codes = [live |-> 0, issued |-> 0]
    /\ granted = FALSE
    /\ cache = Empty
    /\ tomb = 0
    /\ call = [c \in Calls |-> Idle]
    /\ ended = FALSE
    /\ age = 0

Begin(c, step) ==
    /\ call[c] = Idle
    /\ call' = [call EXCEPT ![c] = [Idle EXCEPT !.at = step, !.after = ended]]
Move(c, from, to) ==
    /\ call[c].at = from
    /\ call' = [call EXCEPT ![c].at = to]
Return(c, from) ==
    /\ call[c].at = from
    /\ call' = [call EXCEPT ![c] = Idle]
-----------------------------------------------------------------------------
(* startImpersonation: the checks before it may refuse; the row is         *)
(* inserted before the OTP is sent or the code stored.  A reseller, and a  *)
(* platform admin where the institute asks for consent, needs the OTP.     *)
StartImpersonation(c, otpRequired) ==
    /\ row = "none"
    /\ row' = "open"
    /\ Begin(c, IF otpRequired THEN "start" ELSE "code")
    /\ UNCHANGED <<expired, redis, granted, ended, age>>

DispatchImpersonationOtp(c) ==
    /\ Return(c, "start")
    /\ otp' = 0
    /\ UNCHANGED <<row, expired, codes, granted, cache, tomb, ended, age>>

(* issueImpersonationCode.                                                 *)
IssueCode(c) ==
    /\ Return(c, "code")
    /\ codes.issued < MaxCodes
    /\ codes' = [live |-> codes.live + 1, issued |-> codes.issued + 1]
    /\ UNCHANGED <<row, expired, otp, granted, cache, tomb, ended, age>>

(* verifyOtp: the row, then GET and the comparison, then DEL or SET.       *)
VerifyOtp(c) ==
    /\ row = "open"
    /\ Begin(c, "verify")
    /\ UNCHANGED <<row, expired, redis, granted, ended, age>>

RightOtp(c) ==
    /\ otp # NoOtp
    /\ Move(c, "verify", "consume")
    /\ UNCHANGED <<row, expired, redis, granted, ended, age>>

\* Mutant of WrongOtp: one attempt more than the limit.
WrongOtpLate(c) ==
    /\ otp # NoOtp
    /\ call[c].at = "verify"
    /\ call' = [call EXCEPT ![c].at = IF otp + 1 > MaxOtpAttempts THEN "kill" ELSE "rewrite",
                            ![c].n = otp + 1]
    /\ UNCHANGED <<row, expired, redis, granted, ended, age>>

WrongOtp(c) ==
    /\ otp # NoOtp
    /\ call[c].at = "verify"
    /\ call' = [call EXCEPT ![c].at = IF otp + 1 >= MaxOtpAttempts THEN "kill" ELSE "rewrite",
                            ![c].n = otp + 1]
    /\ UNCHANGED <<row, expired, redis, granted, ended, age>>

NoOtpLeft(c) ==
    /\ otp = NoOtp
    /\ Return(c, "verify")
    /\ UNCHANGED <<row, expired, redis, granted, ended, age>>

ConsumeOtp(c) ==
    /\ Move(c, "consume", "code")
    /\ otp' = NoOtp
    /\ UNCHANGED <<row, expired, codes, granted, cache, tomb, ended, age>>

KillOtp(c) ==
    /\ Return(c, "kill")
    /\ otp' = NoOtp
    /\ UNCHANGED <<row, expired, codes, granted, cache, tomb, ended, age>>

(* SET writes what was read plus one, whatever has become of the key.      *)
RewriteOtp(c) ==
    /\ Return(c, "rewrite")
    /\ otp' = call[c].n
    /\ UNCHANGED <<row, expired, codes, granted, cache, tomb, ended, age>>

(* exchangeCode: GETDEL, then one transaction that does not look at        *)
(* endedAt; it refuses when the target lost the account or membership.     *)
ExchangeCode(c) ==
    /\ codes.live > 0
    /\ codes' = [codes EXCEPT !.live = @ - 1]
    /\ Begin(c, "redeem")
    /\ UNCHANGED <<row, expired, otp, granted, cache, tomb, ended, age>>

Redeem(c, ok) ==
    /\ Return(c, "redeem")
    /\ granted' = (granted \/ ok)
    /\ UNCHANGED <<row, expired, redis, ended, age>>
-----------------------------------------------------------------------------
(* endImpersonation: SELECT, UPDATE, DEL, SET.                             *)
EndImpersonation(c) ==
    /\ row = "open"
    /\ Begin(c, "update")
    /\ UNCHANGED <<row, expired, redis, granted, ended, age>>

UpdateEnded(c) ==
    /\ Move(c, "update", "del")
    /\ row' = "ended"
    /\ UNCHANGED <<expired, redis, granted, ended, age>>

DelCache(c) ==
    /\ Move(c, "del", "tomb")
    /\ cache' = Empty
    /\ UNCHANGED <<row, expired, otp, codes, granted, tomb, ended, age>>

\* Mutant of SetTombstone: it lives no longer than a cache entry.
SetTombstoneShort(c) ==
    /\ Return(c, "tomb")
    /\ tomb' = CacheTtl
    /\ ended' = TRUE
    /\ UNCHANGED <<row, expired, otp, codes, granted, cache, age>>

SetTombstone(c) ==
    /\ Return(c, "tomb")
    /\ tomb' = TombTtl
    /\ ended' = TRUE
    /\ UNCHANGED <<row, expired, otp, codes, granted, cache, age>>

(* suspendReseller deletes the entry inside its transaction, before the    *)
(* UPDATE is visible to others, and sets no tombstone.                     *)
SuspendReseller(c) ==
    /\ row = "open"
    /\ Begin(c, "suspend")
    /\ UNCHANGED <<row, expired, redis, granted, ended, age>>

SuspendDelCache(c) ==
    /\ Move(c, "suspend", "commit")
    /\ cache' = Empty
    /\ UNCHANGED <<row, expired, otp, codes, granted, tomb, ended, age>>

SuspendCommit(c) ==
    /\ Return(c, "commit")
    /\ row' = "ended"
    /\ UNCHANGED <<expired, redis, granted, ended, age>>
-----------------------------------------------------------------------------
(* canActivate, for a request with a token of this session: the tombstone, *)
(* the cache, on a miss the row and the SET, then the decision.            *)
Guard(c) ==
    /\ granted
    /\ tomb = 0
    /\ Begin(c, "get")
    /\ UNCHANGED <<row, expired, redis, granted, ended, age>>

\* Mutant of GetHit: a read renews the entry's lifetime.
GetHitRenews(c) ==
    /\ call[c].at = "get"
    /\ cache.ttl > 0
    /\ cache' = [cache EXCEPT !.ttl = CacheTtl]
    /\ call' = [call EXCEPT ![c].at = "decide", ![c].row = cache.row]
    /\ UNCHANGED <<row, expired, otp, codes, granted, tomb, ended, age>>

GetHit(c) ==
    /\ call[c].at = "get"
    /\ cache.ttl > 0
    /\ call' = [call EXCEPT ![c].at = "decide", ![c].row = cache.row]
    /\ UNCHANGED <<row, expired, redis, granted, ended, age>>

GetMiss(c) ==
    /\ cache.ttl = 0
    /\ Move(c, "get", "select")
    /\ UNCHANGED <<row, expired, redis, granted, ended, age>>

SelectRow(c) ==
    /\ call[c].at = "select"
    /\ call' = [call EXCEPT ![c].at = "store", ![c].row = row]
    /\ UNCHANGED <<row, expired, redis, granted, ended, age>>

StoreRow(c) ==
    /\ Move(c, "store", "decide")
    /\ cache' = [row |-> call[c].row, ttl |-> CacheTtl]
    /\ UNCHANGED <<row, expired, otp, codes, granted, tomb, ended, age>>

(* The request is let through exactly if the row it holds is open and      *)
(* expiresAt has not passed.                                               *)
Allowed(c) == call[c].at = "decide" /\ call[c].row = "open" /\ ~expired

Decide(c) ==
    /\ Return(c, "decide")
    /\ UNCHANGED <<row, expired, redis, granted, ended, age>>
-----------------------------------------------------------------------------
SessionExpires ==
    /\ row # "none"
    /\ expired' = TRUE
    /\ UNCHANGED <<row, redis, granted, call, ended, age>>

OtpExpires ==
    /\ otp' = NoOtp
    /\ UNCHANGED <<row, expired, codes, granted, cache, tomb, call, ended, age>>

CodeExpires ==
    /\ codes.live > 0
    /\ codes' = [codes EXCEPT !.live = @ - 1]
    /\ UNCHANGED <<row, expired, otp, granted, cache, tomb, call, ended, age>>

(* A call ends half-way: an error, a lookup that refuses, or the process.  *)
(* A transaction that has not committed is undone.                         *)
Fail(c) ==
    /\ call[c] # Idle
    /\ call' = [call EXCEPT ![c] = Idle]
    /\ UNCHANGED <<row, expired, redis, granted, ended, age>>

Storing(c) == c.at = "store"

Tick ==
    /\ \A c \in Calls : Storing(call[c]) => call[c].since < MaxFill
    /\ cache' = IF cache.ttl > 1 THEN [cache EXCEPT !.ttl = @ - 1] ELSE Empty
    /\ tomb' = IF tomb > 0 THEN tomb - 1 ELSE 0
    /\ call' = [c \in Calls |-> IF Storing(call[c])
                                THEN [call[c] EXCEPT !.since = @ + 1] ELSE call[c]]
    /\ age' = IF row = "ended" /\ age <= Window THEN age + 1 ELSE age
    /\ UNCHANGED <<row, expired, otp, codes, granted, ended>>

Issue(c) ==
    \/ \E q \in BOOLEAN : StartImpersonation(c, q)
    \/ DispatchImpersonationOtp(c) \/ IssueCode(c)
    \/ VerifyOtp(c) \/ RightOtp(c) \/ WrongOtp(c) \/ NoOtpLeft(c)
    \/ ConsumeOtp(c) \/ KillOtp(c) \/ RewriteOtp(c)
    \/ ExchangeCode(c) \/ \E ok \in BOOLEAN : Redeem(c, ok)
End(c) ==
    \/ EndImpersonation(c) \/ UpdateEnded(c) \/ DelCache(c) \/ SetTombstone(c)
    \/ SuspendReseller(c) \/ SuspendDelCache(c) \/ SuspendCommit(c)
Check(c) ==
    \/ Guard(c) \/ GetHit(c) \/ GetMiss(c) \/ SelectRow(c) \/ StoreRow(c) \/ Decide(c)

Next ==
    \/ \E c \in Calls : Issue(c) \/ End(c) \/ Check(c) \/ Fail(c)
    \/ SessionExpires \/ OtpExpires \/ CodeExpires \/ Tick

Spec == Init /\ [][Next]_vars
-----------------------------------------------------------------------------
(* No request that begins after endImpersonation returned is let through,  *)
(* also when a guard that had read the open row stores it after the DEL:   *)
(* the tombstone outlives that entry (impersonation.service.ts:508-524).   *)
EndedIsRejected ==
    \A c \in Calls : call[c].after => ~Allowed(c)

(* However the session was ended, by suspendReseller or by a call that     *)
(* died before its Redis commands, a guard goes by the row as it is or as  *)
(* it was at most SESSION_CACHE_TTL and one fill ago.                      *)
Answer == [c \in Calls |-> IF call[c].at # "decide" THEN -1
                          ELSE IF call[c].row = "open" THEN 0 ELSE 1]
Abstract ==
    INSTANCE BoundedStaleness WITH
        Readers <- Calls, MaxVersion <- 1, answer <- Answer,
        current <- IF row = "ended" THEN 1 ELSE 0,
        age <- [v \in 0..1 |-> IF v = 0 THEN age ELSE 0]
StaleBounded == Abstract!Spec
=============================================================================
