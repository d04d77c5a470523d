------------------------------- MODULE Sessions -------------------------------
(***************************************************************************)
(* The sign-in sessions of one user: auth.service.ts over the table        *)
(* refresh_tokens (refresh-token.drizzle-repository.ts).                   *)
(*                                                                         *)
(* A session is a refresh token.  Every call of a repository is one        *)
(* transaction, so the requests of a user (tabs, devices, gateways)        *)
(* interleave between them, and a request may end after any of them.       *)
(*                                                                         *)
(* Tokens are numbered in the order their rows are inserted: token t was   *)
(* created before a moment at which `issued` was n exactly if t <= n.      *)
(* So createdAt < passwordChangedAt is t <= changedAt.                     *)
(* Memberships, scopes, passwords and expiresAt are data the properties do *)
(* not tell apart: a check on them succeeds or refuses.  So is the expiry  *)
(* of an access token, which is signed and stored nowhere: the one issued  *)
(* with a session may still be accepted after the session was revoked      *)
(* (jwt.strategy.ts looks at no row).                                      *)
(***************************************************************************)
EXTENDS Integers

CONSTANTS
    Requests,      \* requests of the user under way at the same time
    MaxTokens      \* bound: rows ever inserted

ASSUME SessionsAssumption == MaxTokens \in Nat

Tokens == 1..MaxTokens

(* What a revokedReason means to a later use of the token: "reuse" for     *)
(* rotation and null, which start the cascade, "plain" for user_initiated  *)
(* and password_change.                                                    *)
RevokeReason == {"reuse", "plain"}

VARIABLES
    issued,      \* rows of refresh_tokens so far
    revoked,     \* revokedReason of each token, "no" while revokedAt is null
    changedAt,   \* users.passwordChangedAt: the tokens up to this one are older
    req,         \* requests: the step they are at and what they have read
    \* History, read by no action:
    line,        \* how each token came about
    signedOutAt  \* the last time all of the user's tokens were revoked

db == <<issued, revoked, changedAt>>
history == <<line, signedOutAt>>
vars == <<db, req, history>>

(* The step a request takes next.                                          *)
Step == {"cascade", "fence", "rotate", "issue", "switch", "revoke",
         "revokeOthers", "update", "revokeAll"}

(* A request keeps the refresh token it was given, and the session it      *)
(* continues: a refresh that has accepted its token that one, a switch     *)
(* that of its access token (0: none).  Of both it is also recorded what   *)
(* had happened when they began.                                           *)
Idle == [at |-> "idle"]
Request == [at : Step, tok : 0..MaxTokens,
            via : {"login", "refresh", "switch"}, from : 0..MaxTokens,
            seen : 0..MaxTokens, fence : 0..MaxTokens, out : 0..MaxTokens]

(* A chain of sessions goes from a login, its root, through refreshes and  *)
(* switches.  parent is the token that was refreshed, 0 if none was; seen  *)
(* is how many tokens there were when that refresh read it.  overChange    *)
(* names the last password change between the read and the insert of a     *)
(* refresh of the chain, overOut the last sign-out between the start and   *)
(* the insert of a refresh or a switch, switched the last token that a     *)
(* switch issued.                                                          *)
Lineage == [parent : 0..MaxTokens, root : 0..MaxTokens, seen : 0..MaxTokens,
            overChange : 0..MaxTokens, overOut : 0..MaxTokens, switched : 0..MaxTokens]
NoLineage == [parent |-> 0, root |-> 0, seen |-> 0,
              overChange |-> 0, overOut |-> 0, switched |-> 0]

TypeOK ==
    /\ issued \in 0..MaxTokens
    /\ revoked \in [Tokens -> RevokeReason \cup {"no"}]
    /\ changedAt \in 0..issued
    /\ req \in [Requests -> Request \cup {Idle}]
    /\ line \in [Tokens -> Lineage]
    /\ signedOutAt \in 0..issued

Exists == 1..issued
Live(t) == revoked[t] = "no"

Init ==
    /\ issued = 0
    /\ revoked = [t \in Tokens |-> "no"]
    /\ changedAt = 0
    /\ req = [r \in Requests |-> Idle]
    /\ line = [t \in Tokens |-> NoLineage]
    /\ signedOutAt = 0
-----------------------------------------------------------------------------
(* The repository: one UPDATE or INSERT per call.                          *)

(* revoke writes whatever the row holds, so it may replace a reason.       *)
Revoke(t, reason) == revoked' = [revoked EXCEPT ![t] = reason]

RevokeWhere(S, reason) ==
    revoked' = [t \in Tokens |-> IF t \in S /\ Live(t) THEN reason ELSE revoked[t]]

\* Mutant of RevokeAllForUser: the newest session is kept.
RevokeAllButNewest(reason) ==
    /\ RevokeWhere(Exists \ {issued}, reason)
    /\ signedOutAt' = issued

RevokeAllForUser(reason) ==
    /\ RevokeWhere(Exists, reason)
    /\ signedOutAt' = issued

Goto(r, step) == req' = [req EXCEPT ![r].at = step]
Plain(step, t) == [at |-> step, tok |-> t, via |-> "login", from |-> 0,
                   seen |-> 0, fence |-> 0, out |-> 0]
Begin(r, step, t) == req[r] = Idle /\ req' = [req EXCEPT ![r] = Plain(step, t)]
Return(r) == req' = [req EXCEPT ![r] = Idle]
-----------------------------------------------------------------------------
(* refreshToken.                                                           *)

\* The request goes on with token t, which the read has accepted.
Accepted(t) == [at |-> "rotate", tok |-> t, via |-> "refresh", from |-> t,
                seen |-> issued, fence |-> changedAt, out |-> signedOutAt]

\* Mutant of LoadStored: passwordChangedAt is not looked at.
LoadStoredUnfenced(r, t) ==
    /\ req[r] = Idle
    /\ t \in Exists
    /\ revoked[t] \in {"no", "reuse"}
    /\ req' = [req EXCEPT ![r] = IF Live(t) THEN Accepted(t) ELSE Plain("cascade", t)]
    /\ UNCHANGED <<db, history>>

(* The first transaction reads the row with its user; the checks that      *)
(* follow decide which transaction comes next.  A token that is expired,   *)
(* or revoked for a plain reason, is refused and nothing is written.       *)
LoadStored(r, t) ==
    /\ req[r] = Idle
    /\ t \in Exists
    /\ revoked[t] \in {"no", "reuse"}
    /\ req' = [req EXCEPT ![r] =
                 CASE ~Live(t) -> Plain("cascade", t)
                   [] Live(t) /\ t <= changedAt -> Plain("fence", t)
                   [] OTHER -> Accepted(t)]
    /\ UNCHANGED <<db, history>>

CascadeRevoke(r) ==
    /\ req[r].at = "cascade"
    /\ RevokeAllForUser("reuse")
    /\ Return(r)
    /\ UNCHANGED <<issued, changedAt, line>>

FenceRevoke(r) ==
    /\ req[r].at = "fence"
    /\ Revoke(req[r].tok, "plain")
    /\ Return(r)
    /\ UNCHANGED <<issued, changedAt, line, signedOutAt>>

\* Mutant of RotateOld: the old token stays valid.
RotateNothing(r) ==
    /\ req[r].at = "rotate"
    /\ Goto(r, "issue")
    /\ UNCHANGED <<db, history>>

RotateOld(r) ==
    /\ req[r].at = "rotate"
    /\ Revoke(req[r].tok, "reuse")
    /\ Goto(r, "issue")
    /\ UNCHANGED <<issued, changedAt, line, signedOutAt>>

(* issueTokens: the row of the new token.  A token of a refresh or of a    *)
(* switch continues a chain, any other starts one.                         *)
NewLine(r, t) ==
    LET q == req[r]
        p == line[q.from]
    IN  IF q.via = "login"
        THEN [NoLineage EXCEPT !.root = t]
        ELSE LET out == IF signedOutAt > q.out THEN signedOutAt ELSE p.overOut IN
             IF q.via = "refresh"
             THEN [p EXCEPT !.parent = q.from, !.seen = q.seen, !.overOut = out,
                            !.overChange = IF changedAt > q.fence THEN changedAt ELSE @]
             ELSE [p EXCEPT !.parent = 0, !.seen = 0, !.overOut = out, !.switched = t]

IssueTokens(r) ==
    /\ req[r].at = "issue"
    /\ issued < MaxTokens
    /\ issued' = issued + 1
    /\ line' = [line EXCEPT ![issued + 1] = NewLine(r, issued + 1)]
    /\ Return(r)
    /\ UNCHANGED <<revoked, changedAt, signedOutAt>>

(* The lookups on the way may refuse: no user, no active membership, a     *)
(* suspended reseller; a refresh or a switch may have revoked its token by *)
(* then.  A login with several institutes also ends here, with a selection *)
(* token and no session.                                                   *)
Refuse(r) ==
    /\ req[r].at \in {"rotate", "issue"}
    /\ Return(r)
    /\ UNCHANGED <<db, history>>
-----------------------------------------------------------------------------
(* adminLogin, resellerLogin, instituteLogin once verifyCredentials has    *)
(* accepted the password (module LoginLockout); instituteLoginByUserId     *)
(* (passkey); selectInstitute, with the selection token of a login that    *)
(* may be five minutes old.  All go on to issueTokens.                     *)
Login(r) ==
    /\ Begin(r, "issue", 0)
    /\ UNCHANGED <<db, history>>
-----------------------------------------------------------------------------
(* switchInstitute, called with an access token issued with session u and  *)
(* some refresh token t: findByHash sees unrevoked rows only, and what it  *)
(* does not find stops nothing.                                            *)
SwitchInstitute(r, u, t) ==
    /\ req[r] = Idle
    /\ u \in Exists
    /\ t \in Exists
    /\ req' = [req EXCEPT ![r] =
                 [at |-> IF Live(t) THEN "switch" ELSE "issue",
                  tok |-> IF Live(t) THEN t ELSE 0, via |-> "switch", from |-> u,
                  seen |-> 0, fence |-> 0, out |-> signedOutAt]]
    /\ UNCHANGED <<db, history>>

SwitchRevoke(r) ==
    /\ req[r].at = "switch"
    /\ Revoke(req[r].tok, "plain")
    /\ req' = [req EXCEPT ![r].at = "issue", ![r].tok = 0]
    /\ UNCHANGED <<issued, changedAt, line, signedOutAt>>

(* logout: one transaction.                                                *)
LogoutAll ==
    /\ RevokeAllForUser("plain")
    /\ UNCHANGED <<issued, changedAt, req, line>>

LogoutOne(t) ==
    /\ t \in Exists
    /\ Revoke(t, "plain")
    /\ UNCHANGED <<issued, changedAt, req, line, signedOutAt>>

(* revokeSession reads the row, whatever its state, then revokes it.       *)
RevokeSession(r, t) ==
    /\ t \in Exists
    /\ Begin(r, "revoke", t)
    /\ UNCHANGED <<db, history>>

RevokeSessionRevoke(r) ==
    /\ req[r].at = "revoke"
    /\ Revoke(req[r].tok, "plain")
    /\ Return(r)
    /\ UNCHANGED <<issued, changedAt, line, signedOutAt>>

RevokeAllOtherSessions(r, t) ==
    /\ t \in Exists
    /\ Live(t)
    /\ Begin(r, "revokeOthers", t)
    /\ UNCHANGED <<db, history>>

RevokeAllOtherForUser(r) ==
    /\ req[r].at = "revokeOthers"
    /\ RevokeWhere(Exists \ {req[r].tok}, "plain")
    /\ Return(r)
    /\ UNCHANGED <<issued, changedAt, line, signedOutAt>>

(* changePassword: the current password is verified, then two              *)
(* transactions.                                                           *)
ChangePassword(r) ==
    /\ Begin(r, "update", 0)
    /\ UNCHANGED <<db, history>>

\* Mutant of UpdatePassword: passwordChangedAt lies in the future.
UpdatePasswordAhead(r) ==
    /\ req[r].at = "update"
    /\ changedAt' = issued + 1
    /\ Goto(r, "revokeAll")
    /\ UNCHANGED <<issued, revoked, history>>

UpdatePassword(r) ==
    /\ req[r].at = "update"
    /\ changedAt' = issued
    /\ Goto(r, "revokeAll")
    /\ UNCHANGED <<issued, revoked, history>>

ChangeRevokeAll(r) ==
    /\ req[r].at = "revokeAll"
    /\ RevokeAllForUser("plain")
    /\ Return(r)
    /\ UNCHANGED <<issued, changedAt, line>>

(* suspendReseller revokes the reseller-scope tokens of its staff, with no *)
(* reason.                                                                 *)
SuspendReseller(S) ==
    /\ RevokeWhere(S, "reuse")
    /\ UNCHANGED <<issued, changedAt, req, line, signedOutAt>>
-----------------------------------------------------------------------------
(* The process ends, or the database or Redis fails, between two steps.    *)
Crash(r) ==
    /\ req[r] # Idle
    /\ Return(r)
    /\ UNCHANGED <<db, history>>

Refresh(r) ==
    \/ \E t \in Tokens : LoadStored(r, t)
    \/ CascadeRevoke(r) \/ FenceRevoke(r) \/ RotateOld(r)
    \/ IssueTokens(r) \/ Refuse(r)
Manage(r) ==
    \/ \E u, t \in Tokens : SwitchInstitute(r, u, t)
    \/ \E t \in Tokens : RevokeSession(r, t) \/ RevokeAllOtherSessions(r, t)
    \/ SwitchRevoke(r) \/ RevokeSessionRevoke(r) \/ RevokeAllOtherForUser(r)
    \/ ChangePassword(r) \/ UpdatePassword(r) \/ ChangeRevokeAll(r)

Next ==
    \/ \E r \in Requests : Refresh(r) \/ Login(r) \/ Manage(r) \/ Crash(r)
    \/ LogoutAll
    \/ \E t \in Tokens : LogoutOne(t)
    \/ \E S \in SUBSET Exists : SuspendReseller(S)

Spec == Init /\ [][Next]_vars
-----------------------------------------------------------------------------
(* A session that goes back to a login before the last password change and *)
(* has a token from after it was carried over by a refresh that read its   *)
(* token before the change and inserted the new one after it, or by a      *)
(* switch, which asks for an access token only: no refresh begun after     *)
(* updatePassword prolongs an older session, even when the process ends    *)
(* before revokeAllForUser (auth.service.ts:706-707, :799).                *)
PasswordFence ==
    \A t \in Exists :
        t > changedAt /\ line[t].root <= changedAt =>
            line[t].overChange = changedAt \/ line[t].switched > changedAt

(* After all sessions were revoked (logout, a password change, the reuse   *)
(* cascade), no row from before is live, and a live row of a chain that    *)
(* began before was carried over by a request under way at that moment, or *)
(* by a switch, whose access token outlives the revocation.  Every other   *)
(* live row is of a login whose token was inserted later.                  *)
SignOutHolds ==
    \A t \in Exists :
        Live(t) => /\ t > signedOutAt
                   /\ line[t].root <= signedOutAt =>
                         line[t].overOut = signedOutAt \/ line[t].switched > signedOutAt

(* Two tokens issued for the same old token come from refreshes that       *)
(* overlapped: a refresh that reads a token after its successor exists     *)
(* issues nothing (auth.service.ts:494-497).                               *)
SiblingsOverlap ==
    \A s, t \in Exists :
        s < t /\ line[s].parent = line[t].parent /\ line[t].parent # 0 => s > line[t].seen
-----------------------------------------------------------------------------
(* auth.service.ts:671, of changePassword: "Revoke ALL refresh tokens for  *)
(* the user - caller must re-login on next request."  What is live after   *)
(* all tokens were revoked goes back to a later login, requests under way  *)
(* at that moment apart.                                                   *)
MustLogInAgain ==
    \A t \in Exists :
        Live(t) /\ line[t].root <= signedOutAt => line[t].overOut = signedOutAt
=============================================================================
