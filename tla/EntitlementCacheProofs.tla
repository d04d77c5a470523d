------------------------ MODULE EntitlementCacheProofs ------------------------
(***************************************************************************)
(* Proofs about EntitlementCache, for any readers, number of changes and   *)
(* lifetimes.                                                              *)
(*                                                                         *)
(* That an answer is never older than Window does not follow from what the *)
(* readers hold alone: it takes Fresh, which relates the age of a version  *)
(* to the ticks since it was read and to the lifetime its entry has left.  *)
(***************************************************************************)
EXTENDS EntitlementCache, TLAPS

(* A version that is not superseded has no age; what a reader read has     *)
(* aged no longer than the reader has waited, and what is cached no longer *)
(* than one fill and the time since it was stored.                         *)
Fresh ==
    /\ \A v \in Versions : v >= current => age[v] = 0
    /\ \A r \in Readers :
          call[r].at = "store" => /\ call[r].v <= current
                                  /\ age[call[r].v] <= call[r].since
    /\ cache.ttl > 0 => /\ cache.v <= current
                        /\ age[cache.v] + cache.ttl <= Window

IInv == TypeOK /\ Fresh

Calls == [at : {"idle", "select", "store", "answer"}, v : Versions, since : 0..MaxFill]

-----------------------------------------------------------------------------
(* The types of the fields, one by one.                                    *)
LEMMA Types ==
    ASSUME TypeOK
    PROVE  /\ Versions \subseteq Int /\ 0 \in Versions /\ Window \in Nat
           /\ current \in Versions /\ current \in Int
           /\ cache.v \in Versions /\ cache.v \in Int /\ cache.ttl \in Nat
           /\ \A v \in Versions : age[v] \in Nat
           /\ \A r \in Readers : /\ call[r].v \in Versions /\ call[r].v \in Int
                                 /\ call[r].since \in 0..MaxFill
<1>1. Versions \subseteq Int /\ 0 \in Versions /\ Window \in Nat
  BY EntitlementAssumption DEF Versions, Window
<1>2. cache.v \in Versions /\ cache.ttl \in 0..CacheTtl /\ current \in Versions
  BY DEF TypeOK
<1>3. \A v \in Versions : age[v] \in 0..(Window + 1)
  BY DEF TypeOK
<1>4. \A r \in Readers : call[r].v \in Versions /\ call[r].since \in 0..MaxFill
  BY DEF TypeOK
<1>5. cache.v \in Int /\ current \in Int
  BY <1>1, <1>2
<1>8. cache.ttl \in Nat
  BY <1>2, EntitlementAssumption
<1>6. \A v \in Versions : age[v] \in Nat
  BY <1>1, <1>3
<1>7. \A r \in Readers : call[r].v \in Int
  BY <1>1, <1>4
<1> QED
  BY <1>1, <1>2, <1>4, <1>5, <1>6, <1>7, <1>8

(* A step of a reader leaves the readers well typed.                       *)
LEMMA GotoType ==
    ASSUME TypeOK, NEW r \in Readers, NEW step \in {"idle", "select", "store", "answer"},
           NEW v \in Versions, Goto(r, step, v)
    PROVE  /\ call' \in [Readers -> Calls]
           /\ call'[r] = [at |-> step, v |-> v, since |-> 0]
           /\ \A x \in Readers \ {r} : call'[x] = call[x]
  BY EntitlementAssumption DEF TypeOK, Goto, Calls

(* A tick ages a superseded version by one, up to Window + 1.              *)
LEMMA OlderType ==
    ASSUME TypeOK, NEW v \in Versions
    PROVE  /\ Older(v) \in 0..(Window + 1)
           /\ Older(v) <= age[v] + 1
           /\ v >= current => Older(v) = age[v]
  BY EntitlementAssumption DEF TypeOK, Older, Window, Versions

(* A reader's step that writes nothing but the reader keeps the invariant,  *)
(* if what the reader is about to store is in force.                       *)
LEMMA CallStep ==
    ASSUME TypeOK, Fresh, NEW r \in Readers,
           NEW step \in {"idle", "select", "store", "answer"}, NEW v \in Versions,
           Goto(r, step, v), step = "store" => v = current,
           UNCHANGED <<current, cache, pending, age>>
    PROVE  IInv'
<1>1. /\ call' \in [Readers -> Calls]
      /\ call'[r] = [at |-> step, v |-> v, since |-> 0]
      /\ \A x \in Readers \ {r} : call'[x] = call[x]
  BY GotoType
<1>2. TypeOK'
  BY <1>1 DEF TypeOK, Calls
<1>3. Fresh'
  <2>1. ASSUME NEW x \in Readers, call'[x].at = "store"
        PROVE  call'[x].v <= current /\ age[call'[x].v] <= call'[x].since
    <3>1. CASE x = r
      <4>1. step = "store" /\ call'[x].v = current /\ call'[x].since = 0
        BY <1>1, <2>1, <3>1
      <4>2. age[current] = 0 /\ current <= current
        BY DEF Fresh, TypeOK, Versions
      <4> QED
        BY <4>1, <4>2
    <3>2. CASE x # r
      BY <1>1, <2>1, <3>2 DEF Fresh
    <3> QED
      BY <3>1, <3>2
  <2> QED
    BY <2>1 DEF Fresh
<1> QED
  BY <1>2, <1>3 DEF IInv

(* The initial state.                                                      *)
LEMMA InitHolds == Init => IInv
  BY EntitlementAssumption DEF Init, IInv, TypeOK, Fresh, Versions, Empty,
     Idle, Window

(* Every step keeps the invariant.                                         *)
LEMMA StepHolds == IInv /\ [Next]_vars => IInv'
<1> SUFFICES ASSUME TypeOK, Fresh, [Next]_vars PROVE IInv'
  BY DEF IInv
<1>0. 0 \in Versions /\ Window \in Nat /\ Versions \subseteq Int /\ current \in Versions
  BY EntitlementAssumption DEF Versions, Window, TypeOK
<1>1. ASSUME NEW r \in Readers, GetHit(r) PROVE IInv'
  <2>1. cache.v \in Versions
    BY DEF TypeOK
  <2> QED
    BY <1>1, <2>1, CallStep DEF GetHit
<1>2. ASSUME NEW r \in Readers, GetMiss(r) PROVE IInv'
  BY <1>0, <1>2, CallStep DEF GetMiss
<1>3. ASSUME NEW r \in Readers, FindActiveByTenant(r) PROVE IInv'
  BY <1>0, <1>3, CallStep DEF FindActiveByTenant
<1>4. ASSUME NEW r \in Readers, Store(r) PROVE IInv'
  <2>1. call[r].v \in Versions /\ call[r].since \in 0..MaxFill /\ call[r].at = "store"
    BY <1>4 DEF Store, TypeOK
  <2>2. call' \in [Readers -> Calls] /\ \A x \in Readers : call'[x].at = "store" => call'[x] = call[x]
    <3>1. /\ call' \in [Readers -> Calls]
          /\ call'[r] = [at |-> "answer", v |-> call[r].v, since |-> 0]
          /\ \A x \in Readers \ {r} : call'[x] = call[x]
      BY <1>4, <2>1, GotoType DEF Store
    <3> QED
      BY <3>1
  <2>3. TypeOK'
    BY <1>4, <2>1, <2>2, EntitlementAssumption DEF Store, TypeOK, Calls
  <2>4. age[call[r].v] + CacheTtl <= Window
    BY <2>1, EntitlementAssumption DEF Fresh, Window, TypeOK, Versions
  <2>5. Fresh'
    BY <1>4, <2>1, <2>2, <2>4 DEF Store, Fresh
  <2> QED
    BY <2>3, <2>5 DEF IInv
<1>5. ASSUME NEW r \in Readers, Done(r) PROVE IInv'
  BY <1>0, <1>5, CallStep DEF Done
<1>6. CASE ChangeAnnounced \/ ChangeUnannounced
  <2>1. /\ current' = current + 1 /\ current' \in Versions
        /\ UNCHANGED <<cache, call, age>>
        /\ pending' \subseteq Versions
    <3>1. /\ current < MaxVersion /\ current' = current + 1
          /\ UNCHANGED <<cache, call, age>>
          /\ pending' \in {pending, pending \cup {current}}
      BY <1>6 DEF ChangeAnnounced, ChangeUnannounced
    <3>2. current + 1 \in Versions
      BY <1>0, <3>1, EntitlementAssumption DEF Versions
    <3>3. pending \subseteq Versions
      BY DEF TypeOK
    <3> QED
      BY <1>0, <3>1, <3>2, <3>3
  <2>2. TypeOK'
    BY <2>1 DEF TypeOK
  <2>3. Fresh'
    <3>1. \A v \in Versions : v <= current => v <= current + 1
      BY <1>0
    <3>2. \A v \in Versions : v >= current + 1 => v >= current
      BY <1>0
    <3>3. cache.v \in Versions /\ \A r \in Readers : call[r].v \in Versions
      BY DEF TypeOK
    <3> QED
      BY <2>1, <3>1, <3>2, <3>3 DEF Fresh
  <2> QED
    BY <2>2, <2>3 DEF IInv
<1>7. ASSUME NEW v \in Versions, Announce(v) PROVE IInv'
  <2>1. cache' \in {cache, Empty} /\ UNCHANGED <<current, call, age>>
        /\ pending' \subseteq pending
    BY <1>7 DEF Announce
  <2>2. TypeOK'
    <3>1. Empty \in [v : Versions, ttl : 0..CacheTtl]
      BY <1>0, EntitlementAssumption DEF Empty
    <3>2. cache' \in [v : Versions, ttl : 0..CacheTtl] /\ pending' \subseteq Versions
      BY <2>1, <3>1 DEF TypeOK
    <3> QED
      BY <2>1, <3>2 DEF TypeOK
  <2>3. Fresh'
    BY <1>0, <2>1 DEF Fresh, Empty
  <2> QED
    BY <2>2, <2>3 DEF IInv
<1>8. ASSUME NEW v \in Versions, AnnounceLost(v) PROVE IInv'
  BY <1>8 DEF AnnounceLost, IInv, TypeOK, Fresh
<1>9. CASE Tick
  <2>1. cache' \in [v : Versions, ttl : 0..CacheTtl]
    BY <1>0, <1>9, EntitlementAssumption DEF Tick, TypeOK, Empty
  <2>2. cache'.ttl > 0 =>
            cache'.ttl = cache.ttl - 1 /\ cache'.v = cache.v
    <3>1. CASE cache.ttl > 1
      <4>1. cache' = [cache EXCEPT !.ttl = cache.ttl - 1]
        BY <1>9, <3>1 DEF Tick
      <4> QED
        BY <4>1 DEF TypeOK
    <3>2. CASE ~(cache.ttl > 1)
      BY <1>9, <3>2 DEF Tick, Empty
    <3> QED
      BY <3>1, <3>2
  <2>3. call' \in [Readers -> Calls] /\
        \A r \in Readers : /\ call'[r].at = call[r].at /\ call'[r].v = call[r].v
                           /\ call[r].at = "store" => call'[r].since = call[r].since + 1
    <3>1. ASSUME NEW r \in Readers
          PROVE  /\ call'[r] \in Calls
                 /\ call'[r].at = call[r].at /\ call'[r].v = call[r].v
                 /\ call[r].at = "store" => call'[r].since = call[r].since + 1
      <4>1. CASE Storing(call[r])
        BY <1>9, <4>1, EntitlementAssumption DEF Tick, TypeOK, Storing, Calls
      <4>2. CASE ~Storing(call[r])
        BY <1>9, <4>2 DEF Tick, TypeOK, Storing, Calls
      <4> QED
        BY <4>1, <4>2
    <3>2. call' = [r \in Readers |-> call'[r]]
      BY <1>9 DEF Tick
    <3> QED
      BY <3>1, <3>2
  <2>4. age' = [v \in Versions |-> Older(v)] /\ age' \in [Versions -> 0..(Window + 1)]
    BY <1>9, OlderType DEF Tick
  <2>5. TypeOK'
    BY <1>9, <2>1, <2>3, <2>4 DEF Tick, TypeOK, Calls
  <2>6. Fresh'
    <3>1. /\ current' = current
          /\ \A v \in Versions : /\ age'[v] <= age[v] + 1
                                 /\ v >= current => age'[v] = age[v]
                                 /\ age[v] \in Int /\ age'[v] \in Int
      <4>1. \A v \in Versions : age[v] \in Nat /\ age'[v] \in 0..(Window + 1) /\ age'[v] = Older(v)
        BY <2>4, Types
      <4>2. \A v \in Versions : Older(v) <= age[v] + 1 /\ (v >= current => Older(v) = age[v])
        BY OlderType
      <4> QED
        BY <1>0, <1>9, <4>1, <4>2 DEF Tick
    <3>2. \A r \in Readers : call'[r].at = "store" =>
              call'[r].v <= current' /\ age'[call'[r].v] <= call'[r].since
      <4> SUFFICES ASSUME NEW r \in Readers, call'[r].at = "store"
                   PROVE  call'[r].v <= current' /\ age'[call'[r].v] <= call'[r].since
        OBVIOUS
      <4>1. /\ call[r].at = "store" /\ call'[r].v = call[r].v
            /\ call'[r].since = call[r].since + 1
        BY <2>3
      <4>2. call[r].v <= current /\ age[call[r].v] <= call[r].since
        BY <4>1 DEF Fresh
      <4>3. call[r].v \in Versions /\ call[r].since \in Int
        BY Types, EntitlementAssumption
      <4>4. /\ age'[call[r].v] <= age[call[r].v] + 1
            /\ age'[call[r].v] \in Int /\ age[call[r].v] \in Int
        BY <3>1, <4>3
      <4>5. age'[call[r].v] <= call[r].since + 1
        BY <4>2, <4>3, <4>4
      <4> QED
        BY <3>1, <4>1, <4>2, <4>5
    <3>3. cache'.ttl > 0 => cache'.v <= current' /\ age'[cache'.v] + cache'.ttl <= Window
      <4> SUFFICES ASSUME cache'.ttl > 0
                   PROVE  cache'.v <= current' /\ age'[cache'.v] + cache'.ttl <= Window
        OBVIOUS
      <4>1. cache.v \in Versions /\ cache.ttl \in Nat /\ Window \in Nat
        BY Types
      <4>2. cache'.ttl = cache.ttl - 1 /\ cache'.v = cache.v /\ cache.ttl > 0
        BY <2>1, <2>2, <4>1
      <4>3. cache.v <= current /\ age[cache.v] + cache.ttl <= Window
        BY <4>2 DEF Fresh
      <4>4. /\ age'[cache.v] <= age[cache.v] + 1
            /\ age'[cache.v] \in Int /\ age[cache.v] \in Int
        BY <3>1, <4>1
      <4>5. age'[cache.v] + (cache.ttl - 1) <= Window
        BY <4>1, <4>3, <4>4
      <4> QED
        BY <3>1, <4>2, <4>3, <4>5
    <3>4. \A v \in Versions : v >= current' => age'[v] = 0
      BY <3>1 DEF Fresh
    <3> QED
      BY <3>2, <3>3, <3>4 DEF Fresh
  <2> QED
    BY <2>5, <2>6 DEF IInv
<1>10. CASE UNCHANGED vars
  BY <1>10 DEF vars, IInv, TypeOK, Fresh
<1> QED
  BY <1>1, <1>2, <1>3, <1>4, <1>5, <1>6, <1>7, <1>8, <1>9, <1>10 DEF Next

(* The inductive invariant holds of every reachable state.                 *)
THEOREM Inductive == Spec => []IInv
  BY InitHolds, StepHolds, PTL DEF Spec

(* Type correctness of the entitlement cache.                              *)
THEOREM TypeCorrect == Spec => []TypeOK
<1>1. IInv => TypeOK
  BY DEF IInv
<1> QED
  BY <1>1, Inductive, PTL

-----------------------------------------------------------------------------
(* Every step of the cache is a step of the abstract one or changes        *)
(* nothing the abstract one shows.                                         *)
LEMMA StepSimulation == IInv /\ [Next]_vars => [Abstract!Next]_(Abstract!vars)
<1> SUFFICES ASSUME TypeOK, Fresh, [Next]_vars PROVE [Abstract!Next]_(Abstract!vars)
  BY DEF IInv
<1> USE DEF Abstract!NoAnswer
<1>0. 0 \in Versions /\ Window \in Nat /\ Versions \subseteq Int /\ current \in Versions
  BY EntitlementAssumption DEF Versions, Window, TypeOK
<1>1. ASSUME NEW r \in Readers, NEW v \in Versions, Goto(r, "answer", v),
             v <= current, age[v] <= Window, UNCHANGED <<current, age>>
      PROVE  Abstract!Next
  <2>1. Answer' = [Answer EXCEPT ![r] = v]
    <3>1. /\ call'[r].at = "answer" /\ call'[r].v = v
          /\ \A x \in Readers \ {r} : call'[x] = call[x]
      <4>1. call'[r] = [at |-> "answer", v |-> v, since |-> 0] /\ \A x \in Readers \ {r} : call'[x] = call[x]
        BY <1>1, GotoType
      <4> QED
        BY <4>1
    <3> QED
      BY <3>1 DEF Answer
  <2>2. v \in 0..current
    BY <1>0, <1>1 DEF Versions
  <2>3. Abstract!Answer(r)
    BY <1>1, <2>1, <2>2 DEF Abstract!Answer
  <2> QED
    BY <2>3 DEF Abstract!Next
<1>2. ASSUME NEW r \in Readers, GetHit(r) PROVE Abstract!Next
  <2>1. cache.v \in Versions /\ cache.v <= current /\ age[cache.v] <= Window
    <3>1. cache.ttl > 0 /\ cache.v <= current /\ age[cache.v] + cache.ttl <= Window
      BY <1>2 DEF GetHit, Fresh
    <3>2. cache.v \in Versions /\ cache.ttl \in Nat /\ age[cache.v] \in Nat
      BY Types
    <3> QED
      BY <1>0, <3>1, <3>2
  <2> QED
    BY <1>1, <1>2, <2>1 DEF GetHit
<1>3. ASSUME NEW r \in Readers, Store(r) PROVE Abstract!Next
  <2>1. call[r].v \in Versions /\ call[r].v <= current /\ age[call[r].v] <= Window
    <3>1. call[r].v <= current /\ age[call[r].v] <= call[r].since
      BY <1>3 DEF Store, Fresh
    <3>2. call[r].v \in Versions /\ call[r].since \in 0..MaxFill /\ age[call[r].v] \in Nat
      BY Types
    <3> QED
      BY <3>1, <3>2, EntitlementAssumption DEF Window
  <2> QED
    BY <1>1, <1>3, <2>1 DEF Store
<1>4. ASSUME NEW r \in Readers, GetMiss(r) \/ FindActiveByTenant(r) PROVE UNCHANGED Abstract!vars
  <2>1. PICK step \in {"select", "store"}, v \in Versions : Goto(r, step, v)
    BY <1>0, <1>4 DEF GetMiss, FindActiveByTenant
  <2>2. call[r].at # "answer" /\ UNCHANGED <<current, age>>
    BY <1>4 DEF GetMiss, FindActiveByTenant
  <2>3. Answer' = Answer
    <3>1. /\ call'[r].at # "answer"
          /\ \A x \in Readers \ {r} : call'[x] = call[x]
      <4>1. call'[r] = [at |-> step, v |-> v, since |-> 0] /\ \A x \in Readers \ {r} : call'[x] = call[x]
        BY <2>1, GotoType
      <4> QED
        BY <4>1
    <3> QED
      BY <2>2, <3>1 DEF Answer
  <2> QED
    BY <2>2, <2>3 DEF Abstract!vars
<1>5. ASSUME NEW r \in Readers, Done(r) PROVE Abstract!Next
  <2>1. Answer' = [Answer EXCEPT ![r] = -1]
    <3>1. /\ call'[r].at = "idle"
          /\ \A x \in Readers \ {r} : call'[x] = call[x]
      <4>1. call'[r] = [at |-> "idle", v |-> 0, since |-> 0] /\ \A x \in Readers \ {r} : call'[x] = call[x]
        BY <1>0, <1>5, GotoType DEF Done
      <4> QED
        BY <4>1
    <3> QED
      BY <3>1 DEF Answer
  <2>2. Abstract!Finish(r)
    BY <1>5, <2>1 DEF Done, Abstract!Finish
  <2> QED
    BY <2>2 DEF Abstract!Next
<1>6. CASE ChangeAnnounced \/ ChangeUnannounced
  <2>1. Abstract!Write
    BY <1>6 DEF ChangeAnnounced, ChangeUnannounced, Abstract!Write, Answer
  <2> QED
    BY <2>1 DEF Abstract!Next
<1>7. ASSUME NEW v \in Versions, Announce(v) \/ AnnounceLost(v) PROVE UNCHANGED Abstract!vars
  BY <1>7 DEF Announce, AnnounceLost, Abstract!vars, Answer
<1>8. CASE Tick
  <2>1. Answer' = Answer
    <3>1. \A r \in Readers : call'[r].at = call[r].at /\ call'[r].v = call[r].v
      BY <1>8 DEF Tick, TypeOK
    <3> QED
      BY <3>1 DEF Answer
  <2>2. age' = [v \in Versions |-> Abstract!Older(v)]
    BY <1>8 DEF Tick, Older, Abstract!Older
  <2>3. Abstract!Tick
    BY <1>8, <2>1, <2>2 DEF Tick, Abstract!Tick, Abstract!Versions, Versions
  <2> QED
    BY <2>3 DEF Abstract!Next
<1>9. CASE UNCHANGED vars
  BY <1>9 DEF vars, Abstract!vars, Answer
<1> QED
  BY <1>2, <1>3, <1>4, <1>5, <1>6, <1>7, <1>8, <1>9 DEF Next

(* Without any invalidation an answer is never older than                  *)
(* CACHE_TTL_SECONDS and one fill: the cache implements BoundedStaleness.  *)
THEOREM Refinement == Spec => StaleBounded
<1>1. Init => Abstract!Init
  BY DEF Init, Idle, Answer, Abstract!Init, Abstract!Versions, Versions, Abstract!NoAnswer
<1>2. IInv /\ [Next]_vars => [Abstract!Next]_(Abstract!vars)
  BY StepSimulation
<1> QED
  BY <1>1, <1>2, Inductive, PTL DEF Spec, StaleBounded, Abstract!Spec
=============================================================================
