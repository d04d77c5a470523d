---------------------------- MODULE SessionsProofs ----------------------------
(***************************************************************************)
(* Proofs about Sessions, for any requests and number of tokens.           *)
(*                                                                         *)
(* What the properties say of a token depends on what the refresh that     *)
(* inserted it had read some transactions before.  Known says what still   *)
(* holds of that at every step in between, and ParentsRevoked why a token  *)
(* that is still live has no successor.                                    *)
(***************************************************************************)
EXTENDS Sessions, TLAPS

(* A refresh that has accepted its token and not yet inserted the next.    *)
Going(q) == q.at \in {"rotate", "issue"} /\ q.via = "refresh"

(* A switch on its way.                                                    *)
Switching(q) == q.at \in {"switch", "issue"} /\ q.via = "switch"

(* Only a refresh rotates, and only a switch revokes as one.               *)
Kind(q) ==
    /\ q.at = "rotate" => q.via = "refresh"
    /\ q.at = "switch" => q.via = "switch"

(* Token t was carried over the last sign-out, at `out`.                   *)
Explained(t, out) == line[t].overOut = out \/ line[t].switched > out

Known(q) ==
    /\ q.tok \in Exists /\ q.from = q.tok
    /\ q.seen \in 0..issued /\ q.fence \in 0..changedAt /\ q.out \in 0..signedOutAt
    /\ q.tok > q.fence /\ q.tok > q.out
    /\ signedOutAt = q.out => (line[q.tok].root <= q.out => Explained(q.tok, q.out))
    /\ \A s \in Exists : line[s].parent = q.tok => s > q.seen
    /\ q.at = "issue" => ~Live(q.tok)

RefreshKnows == \A r \in Requests : Going(req[r]) => Known(req[r])

SwitchKnows == \A r \in Requests : Switching(req[r]) => req[r].from \in Exists

Kinds == \A r \in Requests : Kind(req[r])

ParentsRevoked ==
    \A s \in Exists : line[s].parent # 0 => line[s].parent \in Tokens /\ ~Live(line[s].parent)

IInv ==
    /\ TypeOK /\ PasswordFence /\ SignOutHolds /\ SiblingsOverlap
    /\ RefreshKnows /\ SwitchKnows /\ Kinds /\ ParentsRevoked

(* What a step other than an insert leaves of a refresh: all of it,        *)
(* nothing, or all of it with its token revoked.  A switch names a session *)
(* that exists.                                                            *)
Keeps(r) ==
    \/ req'[r] = req[r]
    \/ Kind(req'[r]) /\ ~Going(req'[r]) /\ ~Switching(req'[r])
    \/ Kind(req'[r]) /\ ~Going(req'[r]) /\ req'[r].from \in Exists
    \/ /\ Kind(req'[r]) /\ Going(req[r]) /\ ~Switching(req'[r])
       /\ req'[r].tok = req[r].tok /\ req'[r].from = req[r].from /\ req'[r].seen = req[r].seen
       /\ req'[r].fence = req[r].fence /\ req'[r].out = req[r].out
       /\ revoked'[req[r].tok] # "no"
-----------------------------------------------------------------------------
(* The types of the fields, one by one.                                    *)
LEMMA Types ==
    ASSUME TypeOK
    PROVE  /\ issued \in Nat /\ issued <= MaxTokens /\ MaxTokens \in Nat
           /\ Exists \subseteq Tokens /\ Tokens \subseteq Int
           /\ changedAt \in 0..issued /\ signedOutAt \in 0..issued
           /\ changedAt \in Int /\ signedOutAt \in Int
           /\ \A t \in Tokens : line[t] \in Lineage /\ revoked[t] \in RevokeReason \cup {"no"}
<1>1. issued \in 0..MaxTokens /\ MaxTokens \in Nat
  BY SessionsAssumption DEF TypeOK
<1>2. issued \in Nat /\ issued <= MaxTokens
  BY <1>1
<1>3. Exists \subseteq Tokens /\ Tokens \subseteq Int
  BY <1>1, <1>2 DEF Exists, Tokens
<1>4. changedAt \in 0..issued /\ signedOutAt \in 0..issued
  BY DEF TypeOK
<1>5. \A t \in Tokens : line[t] \in Lineage /\ revoked[t] \in RevokeReason \cup {"no"}
  BY DEF TypeOK
<1> QED
  BY <1>1, <1>2, <1>3, <1>4, <1>5

(* Steps that insert no row, revoke at most, and start no refresh.         *)
LEMMA Kept ==
    ASSUME IInv, TypeOK', UNCHANGED <<issued, line>>,
           \A t \in Tokens : revoked[t] # "no" => revoked'[t] # "no",
           changedAt' = changedAt \/ changedAt' = issued,
           \/ signedOutAt' = signedOutAt
           \/ signedOutAt' = issued /\ \A t \in Exists : revoked'[t] # "no",
           \A r \in Requests : Keeps(r)
    PROVE  IInv'
<1> USE DEF IInv
<1>0. /\ issued \in Nat /\ Exists \subseteq Tokens /\ Tokens \subseteq Int /\ Exists' = Exists
      /\ changedAt \in 0..issued /\ signedOutAt \in 0..issued
      /\ Exists = 1..issued
  BY Types DEF Exists
<1>1. PasswordFence'
  <2>1. CASE changedAt' = changedAt
    BY <1>0, <2>1 DEF PasswordFence
  <2>2. CASE changedAt' = issued
    <3>1. \A t \in Exists : ~(t > issued)
      BY <1>0
    <3> QED
      BY <1>0, <2>2, <3>1 DEF PasswordFence
  <2> QED
    BY <2>1, <2>2
<1>2. SignOutHolds'
  <2>1. CASE signedOutAt' = signedOutAt
    BY <1>0, <2>1 DEF SignOutHolds, Live
  <2>2. CASE \A t \in Exists : revoked'[t] # "no"
    BY <1>0, <2>2 DEF SignOutHolds, Live
  <2> QED
    BY <2>1, <2>2
<1>3. SiblingsOverlap'
  BY <1>0 DEF SiblingsOverlap
<1>4. ParentsRevoked'
  BY <1>0 DEF ParentsRevoked, Live
<1>5. RefreshKnows'
  <2> SUFFICES ASSUME NEW r \in Requests, Going(req'[r]) PROVE Known(req[r])'
    BY DEF RefreshKnows, Going
  <2>1. /\ Going(req[r])
        /\ req'[r].tok = req[r].tok /\ req'[r].from = req[r].from /\ req'[r].seen = req[r].seen
        /\ req'[r].fence = req[r].fence /\ req'[r].out = req[r].out
        /\ req'[r] = req[r] \/ revoked'[req[r].tok] # "no"
    BY DEF Keeps
  <2>2. /\ req[r].tok \in Exists /\ req[r].from = req[r].tok /\ req[r].seen \in 0..issued
        /\ req[r].fence \in 0..changedAt /\ req[r].out \in 0..signedOutAt
        /\ req[r].tok > req[r].fence /\ req[r].tok > req[r].out
        /\ \A s \in Exists : line[s].parent = req[r].tok => s > req[r].seen
        /\ req[r].at = "issue" => revoked[req[r].tok] # "no"
    BY <2>1 DEF RefreshKnows, Known, Live
  <2>3. req[r].fence \in 0..changedAt' /\ req[r].out \in 0..signedOutAt'
    BY <1>0, <2>2
  <2>4. signedOutAt' = req[r].out =>
            (line[req[r].tok].root <= req[r].out => Explained(req[r].tok, req[r].out))
    <3>1. CASE signedOutAt' = signedOutAt
      BY <2>1, <3>1 DEF RefreshKnows, Known
    <3>2. CASE signedOutAt' = issued
      BY <1>0, <2>2, <3>2
    <3> QED
      BY <3>1, <3>2
  <2>5. req'[r].at = "issue" => revoked'[req[r].tok] # "no"
    BY <1>0, <2>1, <2>2
  <2> QED
    BY <1>0, <2>1, <2>2, <2>3, <2>4, <2>5 DEF Known, Live, Explained
<1>6. SwitchKnows'
  <2> SUFFICES ASSUME NEW r \in Requests, Switching(req'[r]) PROVE req'[r].from \in Exists
    BY <1>0 DEF SwitchKnows, Switching
  <2>1. ~Going(req'[r])
    BY DEF Going, Switching
  <2> QED
    BY <2>1 DEF Keeps, SwitchKnows
<1>7. Kinds'
  <2> SUFFICES ASSUME NEW r \in Requests PROVE Kind(req'[r])
    BY DEF Kinds, Kind
  <2> QED
    BY DEF Keeps, Kinds
<1> QED
  BY <1>1, <1>2, <1>3, <1>4, <1>5, <1>6, <1>7

(* The initial state.                                                      *)
LEMMA InitHolds == Init => IInv
<1> SUFFICES ASSUME Init PROVE IInv
  OBVIOUS
<1>1. Exists = {}
  BY DEF Init, Exists
<1>2. TypeOK
  <2>1. line \in [Tokens -> Lineage]
    BY SessionsAssumption DEF Init, Lineage, NoLineage
  <2>2. revoked \in [Tokens -> RevokeReason \cup {"no"}] /\ req \in [Requests -> Request \cup {Idle}]
    BY DEF Init
  <2> QED
    BY <2>1, <2>2, SessionsAssumption DEF Init, TypeOK
<1>3. RefreshKnows /\ SwitchKnows /\ Kinds
  BY DEF Init, RefreshKnows, SwitchKnows, Kinds, Kind, Going, Switching, Idle
<1> QED
  BY <1>1, <1>2, <1>3 DEF IInv, PasswordFence, SignOutHolds, SiblingsOverlap, ParentsRevoked
-----------------------------------------------------------------------------
(* A request that begins or returns is no refresh on its way.              *)
LEMMA PlainKeeps ==
    ASSUME TypeOK, NEW r \in Requests, NEW step \in Step \ {"rotate", "switch"},
           NEW t \in 0..MaxTokens, req' = [req EXCEPT ![r] = Plain(step, t)]
    PROVE  req' \in [Requests -> Request \cup {Idle}] /\ \A x \in Requests : Keeps(x)
<1>1. req \in [Requests -> Request \cup {Idle}]
  BY DEF TypeOK
<1>2. /\ Plain(step, t) \in Request /\ Kind(Plain(step, t))
      /\ ~Going(Plain(step, t)) /\ ~Switching(Plain(step, t))
  BY SessionsAssumption DEF Plain, Request, Kind, Going, Switching
<1>3. req'[r] = Plain(step, t) /\ \A x \in Requests \ {r} : req'[x] = req[x]
  BY <1>1
<1> QED
  BY <1>1, <1>2, <1>3 DEF Keeps

LEMMA ReturnKeeps ==
    ASSUME TypeOK, NEW r \in Requests, Return(r)
    PROVE  req' \in [Requests -> Request \cup {Idle}] /\ \A x \in Requests : Keeps(x)
<1>1. ~Going(Idle) /\ ~Switching(Idle) /\ Kind(Idle)
  BY DEF Going, Switching, Kind, Idle
<1>2. /\ req'[r] = Idle /\ \A x \in Requests \ {r} : req'[x] = req[x]
      /\ req' \in [Requests -> Request \cup {Idle}]
  BY DEF Return, TypeOK
<1> QED
  BY <1>1, <1>2 DEF Keeps

(* A request that goes on keeps what it read.                              *)
LEMMA GotoFields ==
    ASSUME TypeOK, NEW r \in Requests, NEW step \in Step, req[r].at \in Step, Goto(r, step)
    PROVE  /\ req' \in [Requests -> Request \cup {Idle}] /\ req[r] \in Request
           /\ req'[r] = [req[r] EXCEPT !.at = step]
           /\ \A x \in Requests \ {r} : req'[x] = req[x]
<1>1. req[r] \in Request
  <2>1. req[r] \in Request \/ req[r] = Idle
    BY DEF TypeOK
  <2>2. Idle.at \notin Step
    BY DEF Idle, Step
  <2> QED
    BY <2>1, <2>2
<1>2. [req[r] EXCEPT !.at = step] \in Request
  BY <1>1 DEF Request
<1> QED
  BY <1>1, <1>2 DEF Goto, TypeOK

(* An UPDATE of the repository revokes and never restores a token.         *)
LEMMA RevokeGrows ==
    ASSUME TypeOK, NEW t, NEW reason \in RevokeReason, Revoke(t, reason)
    PROVE  /\ revoked' \in [Tokens -> RevokeReason \cup {"no"}]
           /\ \A x \in Tokens : revoked[x] # "no" => revoked'[x] # "no"
           /\ t \in Tokens => revoked'[t] # "no"
<1>1. reason # "no"
  BY DEF RevokeReason
<1>2. revoked \in [Tokens -> RevokeReason \cup {"no"}]
  BY DEF TypeOK
<1> QED
  BY <1>1, <1>2 DEF Revoke

LEMMA RevokeWhereGrows ==
    ASSUME TypeOK, NEW S, NEW reason \in RevokeReason, RevokeWhere(S, reason)
    PROVE  /\ revoked' \in [Tokens -> RevokeReason \cup {"no"}]
           /\ \A x \in Tokens : revoked[x] # "no" => revoked'[x] # "no"
           /\ \A x \in S \cap Tokens : revoked'[x] # "no"
<1>1. reason # "no"
  BY DEF RevokeReason
<1>2. revoked \in [Tokens -> RevokeReason \cup {"no"}]
  BY DEF TypeOK
<1> QED
  BY <1>1, <1>2 DEF RevokeWhere, Live

(* A step that revokes one token or some, and changes no request to a      *)
(* refresh, keeps the invariant; so does one that revokes all.             *)
LEMMA RevokeHolds ==
    ASSUME IInv, NEW S, NEW t, NEW reason \in RevokeReason,
           Revoke(t, reason) \/ RevokeWhere(S, reason),
           UNCHANGED <<issued, changedAt, line, signedOutAt>>,
           req' \in [Requests -> Request \cup {Idle}], \A x \in Requests : Keeps(x)
    PROVE  IInv'
<1>1. TypeOK
  BY DEF IInv
<1>2. /\ revoked' \in [Tokens -> RevokeReason \cup {"no"}]
      /\ \A x \in Tokens : revoked[x] # "no" => revoked'[x] # "no"
  BY <1>1, RevokeGrows, RevokeWhereGrows
<1>3. TypeOK'
  BY <1>1, <1>2 DEF TypeOK
<1> QED
  BY <1>2, <1>3, Kept

LEMMA RevokeAllHolds ==
    ASSUME IInv, NEW reason \in RevokeReason, RevokeAllForUser(reason),
           UNCHANGED <<issued, changedAt, line>>,
           req' \in [Requests -> Request \cup {Idle}], \A x \in Requests : Keeps(x)
    PROVE  IInv'
<1>1. TypeOK
  BY DEF IInv
<1>2. RevokeWhere(Exists, reason) /\ signedOutAt' = issued
  BY DEF RevokeAllForUser
<1>3. /\ revoked' \in [Tokens -> RevokeReason \cup {"no"}]
      /\ \A x \in Tokens : revoked[x] # "no" => revoked'[x] # "no"
      /\ \A x \in Exists \cap Tokens : revoked'[x] # "no"
  BY <1>1, <1>2, RevokeWhereGrows
<1>4. issued \in Nat /\ Exists \subseteq Tokens
  BY <1>1, Types
<1>5. TypeOK'
  BY <1>1, <1>2, <1>3, <1>4 DEF TypeOK
<1> QED
  BY <1>2, <1>3, <1>4, <1>5, Kept

(* A step that changes nothing but requests, none of them to a refresh.    *)
LEMMA ReadHolds ==
    ASSUME IInv, UNCHANGED <<db, history>>,
           req' \in [Requests -> Request \cup {Idle}], \A x \in Requests : Keeps(x)
    PROVE  IInv'
<1>1. TypeOK' /\ UNCHANGED <<issued, line, revoked, changedAt, signedOutAt>>
  BY DEF IInv, TypeOK, db, history
<1> QED
  BY <1>1, Kept
-----------------------------------------------------------------------------
(* The read of a refresh keeps the invariant: a live token has no          *)
(* successor, so everything it will have to know holds.                    *)
LEMMA LoadHolds ==
    ASSUME IInv, NEW r \in Requests, NEW t \in Tokens, LoadStored(r, t)
    PROVE  IInv'
<1>0. TypeOK /\ UNCHANGED <<issued, revoked, changedAt, line, signedOutAt>> /\ t \in Exists
  BY DEF IInv, LoadStored, db, history
<1>1. CASE ~(Live(t) /\ ~(t <= changedAt))
  <2>1. PICK step \in {"cascade", "fence"} : req' = [req EXCEPT ![r] = Plain(step, t)]
    <3>1. CASE ~Live(t)
      BY <3>1 DEF LoadStored
    <3>2. CASE Live(t) /\ t <= changedAt
      BY <3>2 DEF LoadStored
    <3> QED
      BY <1>1, <3>1, <3>2
  <2>2. step \in Step \ {"rotate", "switch"} /\ t \in 0..MaxTokens
    BY SessionsAssumption DEF Step, Tokens
  <2>3. UNCHANGED <<db, history>>
    BY DEF LoadStored
  <2> QED
    BY <1>0, <2>1, <2>2, <2>3, PlainKeeps, ReadHolds
<1> SUFFICES ASSUME Live(t), ~(t <= changedAt) PROVE IInv'
  BY <1>1
<1> DEFINE q == [at |-> "rotate", tok |-> t, via |-> "refresh", from |-> t,
                 seen |-> issued, fence |-> changedAt, out |-> signedOutAt]
<1>2. /\ issued \in Nat /\ issued <= MaxTokens /\ MaxTokens \in Nat
      /\ changedAt \in 0..issued /\ signedOutAt \in 0..issued /\ t \in Int
  BY <1>0, Types
<1>3. q \in Request
  <2>1. "rotate" \in Step /\ t \in 0..MaxTokens
    BY <1>2 DEF Step, Tokens
  <2>2. issued \in 0..MaxTokens /\ changedAt \in 0..MaxTokens /\ signedOutAt \in 0..MaxTokens
    BY <1>2
  <2> QED
    BY <2>1, <2>2 DEF Request
<1>4. /\ q.at = "rotate" /\ q.tok = t /\ q.from = t /\ q.seen = issued
      /\ q.fence = changedAt /\ q.out = signedOutAt /\ ~Switching(q)
  BY DEF Switching
<1>5. req' = [req EXCEPT ![r] = q]
  BY DEF LoadStored, Accepted
<1> HIDE DEF q
<1>6. /\ req'[r] = q /\ \A x \in Requests \ {r} : req'[x] = req[x]
      /\ req' \in [Requests -> Request \cup {Idle}]
  BY <1>0, <1>3, <1>5 DEF TypeOK
<1>7. TypeOK' /\ Exists' = Exists
  BY <1>0, <1>6 DEF TypeOK, Exists
<1>8. PasswordFence' /\ SignOutHolds' /\ SiblingsOverlap' /\ ParentsRevoked'
  BY <1>0, <1>7 DEF IInv, PasswordFence, SignOutHolds, SiblingsOverlap, ParentsRevoked, Live
<1>9. RefreshKnows'
  <2> SUFFICES ASSUME NEW x \in Requests, Going(req'[x]) PROVE Known(req[x])'
    BY DEF RefreshKnows, Going
  <2>1. CASE x # r
    <3>1. req'[x] = req[x] /\ Known(req[x])
      BY <1>6, <2>1 DEF IInv, RefreshKnows
    <3> QED
      BY <1>0, <1>7, <3>1 DEF Known, Live, Explained
  <2>2. CASE x = r
    <3>1. revoked[t] = "no" /\ t > changedAt
      BY <1>2 DEF Live
    <3>2. t > signedOutAt /\ (line[t].root <= signedOutAt => Explained(t, signedOutAt))
      BY <1>0, <3>1 DEF IInv, SignOutHolds, Live, Explained
    <3>3. \A s \in Exists : line[s].parent # t
      <4>1. t # 0
        BY DEF Tokens
      <4> QED
        BY <3>1, <4>1 DEF IInv, ParentsRevoked, Live
    <3>4. issued \in 0..issued /\ changedAt \in 0..changedAt /\ signedOutAt \in 0..signedOutAt
      BY <1>2
    <3>5. q.at # "issue"
      BY <1>4
    <3> QED
      BY <1>0, <1>4, <1>6, <1>7, <2>2, <3>1, <3>2, <3>3, <3>4, <3>5 DEF Known, Explained
  <2> QED
    BY <2>1, <2>2
<1>10. SwitchKnows'
  <2> SUFFICES ASSUME NEW x \in Requests, Switching(req'[x]) PROVE req'[x].from \in Exists
    BY <1>7 DEF SwitchKnows, Switching
  <2>1. req'[x] = req[x]
    BY <1>4, <1>6
  <2> QED
    BY <2>1 DEF IInv, SwitchKnows
<1>11. Kinds'
  <2> SUFFICES ASSUME NEW x \in Requests PROVE Kind(req'[x])
    BY DEF Kinds, Kind
  <2>1. Kind(q)
    BY <1>4 DEF Kind, q
  <2> QED
    BY <1>6, <2>1 DEF IInv, Kinds
<1> QED
  BY <1>7, <1>8, <1>9, <1>10, <1>11 DEF IInv

(* What NewLine records of a new token, in terms of the state in which it  *)
(* is inserted.                                                            *)
LEMMA NewLineFacts ==
    ASSUME IInv, NEW r \in Requests, req[r].at = "issue", issued < MaxTokens
    PROVE  LET L == NewLine(r, issued + 1) IN
           /\ L \in Lineage
           /\ L.root <= changedAt => L.overChange = changedAt \/ L.switched > changedAt
           /\ L.root <= signedOutAt => L.overOut = signedOutAt \/ L.switched > signedOutAt
           /\ L.parent # 0 =>
                 /\ L.parent \in Tokens /\ revoked[L.parent] # "no"
                 /\ \A s \in Exists : line[s].parent = L.parent => s > L.seen
<1> DEFINE L == NewLine(r, issued + 1)
           q == req[r]
           p == line[q.from]
           out == IF signedOutAt > q.out THEN signedOutAt ELSE p.overOut
<1>0. /\ issued \in Nat /\ MaxTokens \in Nat /\ Exists \subseteq Tokens
      /\ changedAt \in 0..issued /\ signedOutAt \in 0..issued
      /\ issued + 1 \in 0..MaxTokens /\ 0 \in 0..MaxTokens
      /\ changedAt \in 0..MaxTokens /\ signedOutAt \in 0..MaxTokens
  <2>1. /\ issued \in Nat /\ MaxTokens \in Nat /\ Exists \subseteq Tokens
        /\ changedAt \in 0..issued /\ signedOutAt \in 0..issued
    BY Types DEF IInv
  <2> QED
    BY <2>1
<1>1. q \in Request
  <2>1. q \in Request \/ q = Idle
    BY DEF IInv, TypeOK
  <2>2. Idle.at # "issue"
    BY DEF Idle
  <2> QED
    BY <2>1, <2>2
<1>2. q.via \in {"login", "refresh", "switch"} /\ q.seen \in 0..MaxTokens
  BY <1>1 DEF Request
<1>3. CASE q.via = "refresh"
  <2>1. Known(q)
    BY <1>3 DEF IInv, RefreshKnows, Going
  <2>2. /\ q.from \in Exists /\ revoked[q.from] # "no" /\ q.from > q.fence
        /\ q.fence \in 0..changedAt /\ q.out \in 0..signedOutAt
    BY <2>1 DEF Known, Live
  <2>3. q.from \in Tokens /\ q.from \in 0..MaxTokens
    <3>1. q.from \in Tokens
      BY <1>0, <2>2
    <3> QED
      BY <1>0, <3>1 DEF Tokens
  <2>4. /\ p \in Lineage /\ p.overChange \in 0..MaxTokens /\ out \in 0..MaxTokens
        /\ p.root \in 0..MaxTokens /\ p.switched \in 0..MaxTokens
    <3>1. p \in Lineage
      BY <2>3, Types DEF IInv
    <3> HIDE DEF p
    <3>2. /\ p.overChange \in 0..MaxTokens /\ p.overOut \in 0..MaxTokens
          /\ p.root \in 0..MaxTokens /\ p.switched \in 0..MaxTokens
      BY <3>1 DEF Lineage
    <3> QED
      BY <1>0, <3>1, <3>2
  <2>5. /\ L \in Lineage /\ L.parent = q.from /\ L.root = p.root /\ L.seen = q.seen
        /\ L.overOut = out /\ L.switched = p.switched
        /\ L.overChange = IF changedAt > q.fence THEN changedAt ELSE p.overChange
    <3> DEFINE change == IF changedAt > q.fence THEN changedAt ELSE p.overChange
    <3>1. L = [p EXCEPT !.parent = q.from, !.seen = q.seen, !.overOut = out, !.overChange = change]
      BY <1>3, <2>4 DEF NewLine, Lineage
    <3>2. change \in 0..MaxTokens
      BY <1>0, <2>4
    <3> HIDE DEF change, out, p, q, L
    <3>3. /\ L \in Lineage /\ L.parent = q.from /\ L.root = p.root /\ L.seen = q.seen
          /\ L.overOut = out /\ L.switched = p.switched /\ L.overChange = change
      BY <1>2, <2>3, <2>4, <3>1, <3>2 DEF Lineage
    <3> QED
      BY <3>3 DEF change
  <2> HIDE DEF L
  <2>6. L.root <= changedAt => L.overChange = changedAt \/ L.switched > changedAt
    <3>1. CASE changedAt > q.fence
      BY <2>5, <3>1
    <3>2. CASE ~(changedAt > q.fence)
      <4>1. q.fence = changedAt
        BY <1>0, <2>2, <3>2
      <4>2. q.from > changedAt
        BY <2>2, <4>1
      <4>3. p.root <= changedAt => p.overChange = changedAt \/ p.switched > changedAt
        BY <2>2, <4>2 DEF IInv, PasswordFence
      <4> QED
        BY <2>5, <3>2, <4>3
    <3> QED
      BY <3>1, <3>2
  <2>7. L.root <= signedOutAt => L.overOut = signedOutAt \/ L.switched > signedOutAt
    <3>1. CASE signedOutAt > q.out
      BY <2>5, <3>1
    <3>2. CASE ~(signedOutAt > q.out)
      <4>1. q.out = signedOutAt
        BY <1>0, <2>2, <3>2
      <4>2. p.root <= signedOutAt => p.overOut = signedOutAt \/ p.switched > signedOutAt
        BY <2>1, <4>1 DEF Known, Explained
      <4> QED
        BY <2>5, <3>2, <4>2
    <3> QED
      BY <3>1, <3>2
  <2>8. \A s \in Exists : line[s].parent = L.parent => s > L.seen
    BY <2>1, <2>5 DEF Known
  <2> QED
    BY <2>2, <2>3, <2>5, <2>6, <2>7, <2>8 DEF L
<1>4. CASE q.via = "switch"
  <2>1. q.from \in Tokens
    BY <1>0, <1>4 DEF IInv, SwitchKnows, Switching
  <2>2. p \in Lineage /\ out \in 0..MaxTokens
    <3>1. p \in Lineage
      BY <2>1, Types DEF IInv
    <3> HIDE DEF p
    <3>2. p.overOut \in 0..MaxTokens
      BY <3>1 DEF Lineage
    <3> QED
      BY <1>0, <3>1, <3>2
  <2>3. L \in Lineage /\ L.parent = 0 /\ L.switched = issued + 1
    <3>1. L = [p EXCEPT !.parent = 0, !.seen = 0, !.overOut = out, !.switched = issued + 1]
      BY <1>4 DEF NewLine
    <3> HIDE DEF out, p, q, L
    <3> QED
      BY <1>0, <2>2, <3>1 DEF Lineage
  <2> HIDE DEF L
  <2> QED
    BY <1>0, <2>3 DEF L
<1>5. CASE q.via = "login"
  <2>1. L = [NoLineage EXCEPT !.root = issued + 1]
    BY <1>5 DEF NewLine
  <2>2. L \in Lineage /\ L.root = issued + 1 /\ L.parent = 0
    BY <1>0, <2>1 DEF Lineage, NoLineage
  <2> HIDE DEF L
  <2> QED
    BY <1>0, <2>2 DEF L
<1> QED
  BY <1>2, <1>3, <1>4, <1>5

(* The insert keeps the invariant.                                         *)
LEMMA IssueHolds ==
    ASSUME IInv, NEW r \in Requests, IssueTokens(r)
    PROVE  IInv'
<1> DEFINE n == issued + 1
           L == NewLine(r, n)
<1>0. /\ req[r].at = "issue" /\ issued < MaxTokens /\ issued' = n
      /\ line' = [line EXCEPT ![n] = L] /\ Return(r)
      /\ UNCHANGED <<revoked, changedAt, signedOutAt>>
  BY DEF IssueTokens
<1>1. /\ L \in Lineage
      /\ L.root <= changedAt => L.overChange = changedAt \/ L.switched > changedAt
      /\ L.root <= signedOutAt => L.overOut = signedOutAt \/ L.switched > signedOutAt
      /\ L.parent # 0 =>
            /\ L.parent \in Tokens /\ revoked[L.parent] # "no"
            /\ \A s \in Exists : line[s].parent = L.parent => s > L.seen
  BY <1>0, NewLineFacts
<1> HIDE DEF L
<1>2. TypeOK
  BY DEF IInv
<1>3. /\ issued \in Nat /\ MaxTokens \in Nat /\ Exists \subseteq Tokens /\ Tokens \subseteq Int
      /\ changedAt \in 0..issued /\ signedOutAt \in 0..issued
      /\ changedAt \in Int /\ signedOutAt \in Int
  BY <1>2, Types
<1>4. n \in Tokens /\ n \notin Exists /\ n \in Nat
      /\ \A t : t \in Exists' <=> t \in Exists \/ t = n
  BY <1>0, <1>3 DEF Tokens, Exists
<1>5. line'[n] = L /\ \A t \in Exists : line'[t] = line[t]
  BY <1>0, <1>2, <1>3, <1>4 DEF TypeOK
<1>6. req' \in [Requests -> Request \cup {Idle}] /\ \A x \in Requests : Keeps(x)
  BY <1>0, <1>2, ReturnKeeps
<1>7. TypeOK'
  <2>1. line' \in [Tokens -> Lineage]
    BY <1>0, <1>1, <1>2 DEF TypeOK
  <2>2. issued' \in 0..MaxTokens /\ changedAt' \in 0..issued' /\ signedOutAt' \in 0..issued'
    BY <1>0, <1>3
  <2> QED
    BY <1>0, <1>2, <1>6, <2>1, <2>2 DEF TypeOK
<1>8. PasswordFence'
  <2> SUFFICES ASSUME NEW t \in Exists'
               PROVE  t > changedAt /\ line'[t].root <= changedAt =>
                          line'[t].overChange = changedAt \/ line'[t].switched > changedAt
    BY <1>0 DEF PasswordFence
  <2> QED
    BY <1>1, <1>4, <1>5 DEF IInv, PasswordFence
<1>9. SignOutHolds'
  <2> SUFFICES ASSUME NEW t \in Exists', revoked[t] = "no"
               PROVE  /\ t > signedOutAt
                      /\ line'[t].root <= signedOutAt =>
                            line'[t].overOut = signedOutAt \/ line'[t].switched > signedOutAt
    BY <1>0 DEF SignOutHolds, Live
  <2>1. CASE t \in Exists
    BY <1>5, <2>1 DEF IInv, SignOutHolds, Live
  <2>2. CASE t = n
    BY <1>1, <1>3, <1>5, <2>2
  <2> QED
    BY <1>4, <2>1, <2>2
<1>10. SiblingsOverlap'
  <2> SUFFICES ASSUME NEW s \in Exists', NEW t \in Exists', s < t,
                      line'[s].parent = line'[t].parent, line'[t].parent # 0
               PROVE  s > line'[t].seen
    BY DEF SiblingsOverlap
  <2>1. s \in Exists
    BY <1>3, <1>4 DEF Exists
  <2>2. CASE t \in Exists
    BY <1>5, <2>1, <2>2 DEF IInv, SiblingsOverlap
  <2>3. CASE t = n
    BY <1>1, <1>5, <2>1, <2>3
  <2> QED
    BY <1>4, <2>2, <2>3
<1>11. ParentsRevoked'
  BY <1>0, <1>1, <1>4, <1>5 DEF IInv, ParentsRevoked, Live
<1>12. RefreshKnows'
  <2> SUFFICES ASSUME NEW x \in Requests, Going(req'[x]) PROVE Known(req[x])'
    BY DEF RefreshKnows, Going
  <2>1. req'[x] = req[x] /\ Known(req[x])
    <3>1. req'[r] = Idle /\ \A y \in Requests \ {r} : req'[y] = req[y]
      BY <1>0, <1>2 DEF Return, TypeOK
    <3>2. ~Going(Idle)
      BY DEF Going, Idle
    <3> QED
      BY <3>1, <3>2 DEF IInv, RefreshKnows
  <2>2. req[x].tok \in Exists /\ req[x].seen \in 0..issued
    BY <2>1 DEF Known
  <2>3. req[x].seen \in 0..issued' /\ n > req[x].seen /\ req[x].tok \in Exists'
    BY <1>0, <1>3, <1>4, <2>2
  <2>4. \A s \in Exists' : line'[s].parent = req[x].tok => s > req[x].seen
    BY <1>4, <1>5, <2>1, <2>3 DEF Known
  <2>5. line'[req[x].tok] = line[req[x].tok]
    BY <1>5, <2>2
  <2> QED
    BY <1>0, <2>1, <2>3, <2>4, <2>5 DEF Known, Live, Explained
<1>13. SwitchKnows'
  <2> SUFFICES ASSUME NEW x \in Requests, Switching(req'[x]) PROVE req'[x].from \in Exists'
    BY DEF SwitchKnows, Switching
  <2>1. req'[r] = Idle /\ \A y \in Requests \ {r} : req'[y] = req[y]
    BY <1>0, <1>2 DEF Return, TypeOK
  <2>2. ~Switching(Idle)
    BY DEF Switching, Idle
  <2> QED
    BY <1>4, <2>1, <2>2 DEF IInv, SwitchKnows
<1>14. Kinds'
  <2> SUFFICES ASSUME NEW x \in Requests PROVE Kind(req'[x])
    BY DEF Kinds, Kind
  <2>1. req'[r] = Idle /\ \A y \in Requests \ {r} : req'[y] = req[y]
    BY <1>0, <1>2 DEF Return, TypeOK
  <2>2. Kind(Idle)
    BY DEF Kind, Idle
  <2> QED
    BY <2>1, <2>2 DEF IInv, Kinds
<1> QED
  BY <1>7, <1>8, <1>9, <1>10, <1>11, <1>12, <1>13, <1>14 DEF IInv
-----------------------------------------------------------------------------
(* A switch names a session that exists, and never becomes a refresh.      *)
LEMMA SwitchHolds ==
    ASSUME IInv, NEW r \in Requests, NEW u \in Tokens, NEW t \in Tokens, SwitchInstitute(r, u, t)
    PROVE  IInv'
<1> DEFINE step == IF Live(t) THEN "switch" ELSE "issue"
           tok == IF Live(t) THEN t ELSE 0
           q == [at |-> step, tok |-> tok, via |-> "switch", from |-> u,
                 seen |-> 0, fence |-> 0, out |-> signedOutAt]
<1>0. TypeOK /\ u \in Exists /\ req' = [req EXCEPT ![r] = q] /\ UNCHANGED <<db, history>>
  BY DEF IInv, SwitchInstitute
<1>1. step \in {"switch", "issue"} /\ tok \in 0..MaxTokens /\ u \in 0..MaxTokens
      /\ signedOutAt \in 0..MaxTokens /\ 0 \in 0..MaxTokens
  <2>1. issued \in Nat /\ issued <= MaxTokens /\ MaxTokens \in Nat /\ signedOutAt \in 0..issued
    BY <1>0, Types
  <2> QED
    BY <2>1 DEF Tokens
<1> HIDE DEF step, tok
<1>2. q \in Request /\ ~Going(q) /\ Kind(q) /\ q.from \in Exists
  BY <1>0, <1>1 DEF Request, Going, Kind, Step
<1> HIDE DEF q
<1>3. /\ req'[r] = q /\ \A x \in Requests \ {r} : req'[x] = req[x]
      /\ req' \in [Requests -> Request \cup {Idle}]
  BY <1>0, <1>2 DEF TypeOK
<1>4. \A x \in Requests : Keeps(x)
  BY <1>2, <1>3 DEF Keeps
<1> QED
  BY <1>0, <1>3, <1>4, ReadHolds

LEMMA SwitchRevokeHolds ==
    ASSUME IInv, NEW r \in Requests, SwitchRevoke(r)
    PROVE  IInv'
<1> DEFINE o == req[r]
           q == [o EXCEPT !.at = "issue", !.tok = 0]
<1>0. /\ TypeOK /\ o.at = "switch" /\ "plain" \in RevokeReason /\ Revoke(o.tok, "plain")
      /\ req' = [req EXCEPT ![r] = q]
      /\ UNCHANGED <<issued, changedAt, line, signedOutAt>>
  BY DEF IInv, SwitchRevoke, RevokeReason
<1>1. o \in Request /\ o.via = "switch" /\ o.from \in Exists
  <2>1. o \in Request \/ o = Idle
    BY <1>0 DEF TypeOK
  <2>2. Idle.at # "switch"
    BY DEF Idle
  <2>3. o.via = "switch"
    BY <1>0 DEF IInv, Kinds, Kind
  <2>4. Switching(o)
    BY <1>0, <2>3 DEF Switching
  <2> QED
    BY <1>0, <2>1, <2>2, <2>3, <2>4 DEF IInv, SwitchKnows
<1> HIDE DEF o
<1>2. q \in Request /\ ~Going(q) /\ Kind(q) /\ q.from \in Exists
  <2>1. "issue" \in Step /\ 0 \in 0..MaxTokens
    BY SessionsAssumption DEF Step
  <2>2. q \in Request /\ q.at = "issue" /\ q.via = "switch" /\ q.from = o.from
    BY <1>1, <2>1 DEF Request
  <2> QED
    BY <1>1, <2>2 DEF Going, Kind
<1> HIDE DEF q
<1>3. /\ req'[r] = q /\ \A x \in Requests \ {r} : req'[x] = req[x]
      /\ req' \in [Requests -> Request \cup {Idle}]
  BY <1>0, <1>2 DEF TypeOK
<1>4. \A x \in Requests : Keeps(x)
  BY <1>2, <1>3 DEF Keeps
<1> QED
  BY <1>0, <1>3, <1>4, RevokeHolds
-----------------------------------------------------------------------------
(* Every step keeps the invariant.                                         *)
LEMMA StepHolds == IInv /\ [Next]_vars => IInv'
<1> SUFFICES ASSUME IInv, [Next]_vars PROVE IInv'
  OBVIOUS
<1>0. /\ TypeOK
      /\ "plain" \in RevokeReason /\ "reuse" \in RevokeReason
      /\ Tokens \subseteq 0..MaxTokens /\ 0 \in 0..MaxTokens
      /\ req \in [Requests -> Request \cup {Idle}]
  BY SessionsAssumption DEF IInv, TypeOK, RevokeReason, Tokens
<1>1. /\ "issue" \in Step /\ "switch" \in Step /\ "revoke" \in Step /\ "revokeOthers" \in Step
      /\ "update" \in Step /\ "revokeAll" \in Step /\ "rotate" \in Step
  BY DEF Step
<1>2. ASSUME NEW r \in Requests, Refresh(r) PROVE IInv'
  <2>1. ASSUME NEW t \in Tokens, LoadStored(r, t) PROVE IInv'
    BY <2>1, LoadHolds
  <2>2. CASE CascadeRevoke(r)
    BY <1>0, <2>2, ReturnKeeps, RevokeAllHolds DEF CascadeRevoke
  <2>3. CASE FenceRevoke(r)
    BY <1>0, <2>3, ReturnKeeps, RevokeHolds DEF FenceRevoke
  <2>4. CASE RotateOld(r)
    <3>1. /\ req[r].at = "rotate" /\ Revoke(req[r].tok, "reuse") /\ Goto(r, "issue")
          /\ UNCHANGED <<issued, changedAt, line, signedOutAt>>
      BY <2>4 DEF RotateOld
    <3>2. /\ req' \in [Requests -> Request \cup {Idle}] /\ req[r] \in Request
          /\ req'[r] = [req[r] EXCEPT !.at = "issue"]
          /\ \A x \in Requests \ {r} : req'[x] = req[x]
      BY <1>0, <1>1, <3>1, GotoFields
    <3>3. /\ req'[r].at = "issue" /\ req'[r].tok = req[r].tok /\ req'[r].seen = req[r].seen
          /\ req'[r].fence = req[r].fence /\ req'[r].out = req[r].out
          /\ req'[r].via = req[r].via /\ req'[r].from = req[r].from
      BY <3>2 DEF Request
    <3>4. Keeps(r)
      <4>0. req[r].via = "refresh"
        BY <3>1 DEF IInv, Kinds, Kind
      <4>1. Going(req[r]) /\ ~Switching(req'[r])
        BY <3>1, <3>3, <4>0 DEF Going, Switching
      <4>2. req[r].tok \in Tokens
        BY <4>1, Types DEF IInv, RefreshKnows, Known
      <4>3. revoked'[req[r].tok] # "no"
        BY <1>0, <3>1, <4>2, RevokeGrows
      <4> QED
        BY <3>3, <4>0, <4>1, <4>3 DEF Keeps, Kind
    <3>5. \A x \in Requests : Keeps(x)
      BY <3>2, <3>4 DEF Keeps
    <3> QED
      BY <1>0, <3>1, <3>2, <3>5, RevokeHolds
  <2>5. CASE IssueTokens(r)
    BY <2>5, IssueHolds
  <2>6. CASE Refuse(r)
    BY <1>0, <2>6, ReturnKeeps, ReadHolds DEF Refuse
  <2> QED
    BY <1>2, <2>1, <2>2, <2>3, <2>4, <2>5, <2>6 DEF Refresh
<1>3. ASSUME NEW r \in Requests, Login(r) \/ ChangePassword(r) PROVE IInv'
  BY <1>0, <1>1, <1>3, PlainKeeps, ReadHolds DEF Login, ChangePassword, Begin
<1>4. ASSUME NEW r \in Requests, NEW t \in Tokens, RevokeSession(r, t) \/ RevokeAllOtherSessions(r, t)
      PROVE  IInv'
  <2>1. PICK step \in Step \ {"rotate", "switch"}, k \in 0..MaxTokens : req' = [req EXCEPT ![r] = Plain(step, k)]
    BY <1>0, <1>1, <1>4 DEF RevokeSession, RevokeAllOtherSessions, Begin
  <2>2. UNCHANGED <<db, history>>
    BY <1>4 DEF RevokeSession, RevokeAllOtherSessions
  <2> QED
    BY <1>0, <2>1, <2>2, PlainKeeps, ReadHolds
<1>5. ASSUME NEW r \in Requests, SwitchRevoke(r) PROVE IInv'
  BY <1>5, SwitchRevokeHolds
<1>16. ASSUME NEW r \in Requests, NEW u \in Tokens, NEW t \in Tokens, SwitchInstitute(r, u, t)
       PROVE  IInv'
  BY <1>16, SwitchHolds
<1>6. ASSUME NEW r \in Requests, RevokeSessionRevoke(r) PROVE IInv'
  BY <1>0, <1>6, ReturnKeeps, RevokeHolds DEF RevokeSessionRevoke
<1>7. ASSUME NEW r \in Requests, RevokeAllOtherForUser(r) PROVE IInv'
  BY <1>0, <1>7, ReturnKeeps, RevokeHolds DEF RevokeAllOtherForUser
<1>8. ASSUME NEW r \in Requests, UpdatePassword(r) PROVE IInv'
  <2>1. /\ req[r].at = "update" /\ changedAt' = issued /\ Goto(r, "revokeAll")
        /\ UNCHANGED <<issued, revoked, line, signedOutAt>>
    BY <1>8 DEF UpdatePassword, history
  <2>2. /\ req' \in [Requests -> Request \cup {Idle}] /\ req[r] \in Request
        /\ req'[r] = [req[r] EXCEPT !.at = "revokeAll"]
        /\ \A x \in Requests \ {r} : req'[x] = req[x]
    BY <1>0, <1>1, <2>1, GotoFields DEF Step
  <2>3. \A x \in Requests : Keeps(x)
    <3>1. req'[r].at = "revokeAll"
      BY <2>2 DEF Request
    <3> QED
      BY <2>2, <3>1 DEF Keeps, Going, Switching, Kind
  <2>4. issued \in Nat
    BY <1>0, Types
  <2>5. TypeOK'
    BY <1>0, <2>1, <2>2, <2>4 DEF TypeOK
  <2> QED
    BY <2>1, <2>3, <2>5, Kept
<1>9. ASSUME NEW r \in Requests, ChangeRevokeAll(r) PROVE IInv'
  BY <1>0, <1>9, ReturnKeeps, RevokeAllHolds DEF ChangeRevokeAll
<1>10. ASSUME NEW r \in Requests, Crash(r) PROVE IInv'
  <2>1. Return(r) /\ UNCHANGED <<db, history>>
    BY <1>0, <1>10 DEF Crash
  <2> QED
    BY <1>0, <2>1, ReturnKeeps, ReadHolds
<1>11. ASSUME req' = req PROVE \A x \in Requests : Keeps(x)
  BY <1>11 DEF Keeps
<1>12. CASE LogoutAll
  BY <1>0, <1>11, <1>12, RevokeAllHolds DEF LogoutAll
<1>13. ASSUME NEW t \in Tokens, LogoutOne(t) PROVE IInv'
  BY <1>0, <1>11, <1>13, RevokeHolds DEF LogoutOne
<1>14. ASSUME NEW S \in SUBSET Exists, SuspendReseller(S) PROVE IInv'
  BY <1>0, <1>11, <1>14, RevokeHolds DEF SuspendReseller
<1>15. CASE UNCHANGED vars
  BY <1>0, <1>11, <1>15, ReadHolds DEF vars
<1> QED
  BY <1>2, <1>3, <1>4, <1>5, <1>6, <1>7, <1>8, <1>9, <1>10, <1>12, <1>13, <1>14, <1>15, <1>16
     DEF Next, Manage

(* The inductive invariant holds of every reachable state.                 *)
THEOREM Inductive == Spec => []IInv
  BY InitHolds, StepHolds, PTL DEF Spec

(* Type correctness of the sessions.                                       *)
THEOREM TypeCorrect == Spec => []TypeOK
<1>1. IInv => TypeOK
  BY DEF IInv
<1> QED
  BY <1>1, Inductive, PTL

(* No refresh begun after a password change prolongs an older session, for *)
(* any number of requests and tokens, wherever requests end half-way; what *)
(* is younger than the change and goes back to before it is of a refresh   *)
(* under way or of a switch (refreshToken, changePassword).                *)
THEOREM Fenced == Spec => []PasswordFence
<1>1. IInv => PasswordFence
  BY DEF IInv
<1> QED
  BY <1>1, Inductive, PTL

(* After all sessions were revoked no row from before is live, and a live  *)
(* one is of a later login or was carried over by a request under way or   *)
(* by a switch with an access token still valid (revokeAllForUser,         *)
(* switchInstitute).                                                       *)
THEOREM SignedOut == Spec => []SignOutHolds
<1>1. IInv => SignOutHolds
  BY DEF IInv
<1> QED
  BY <1>1, Inductive, PTL

(* Two successors of one token come from refreshes that overlapped         *)
(* (refreshToken).                                                         *)
THEOREM Overlapping == Spec => []SiblingsOverlap
<1>1. IInv => SiblingsOverlap
  BY DEF IInv
<1> QED
  BY <1>1, Inductive, PTL
=============================================================================
