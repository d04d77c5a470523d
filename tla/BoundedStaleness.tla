--------------------------- MODULE BoundedStaleness ---------------------------
(***************************************************************************)
(* What a read-through cache with a lifetime promises: an answer is the    *)
(* record as it is, or as it was at most Window ticks ago.                 *)
(***************************************************************************)
EXTENDS Integers

CONSTANTS
    Readers,      \* requests that ask for the record
    MaxVersion,   \* bound: how often the record changes
    Window        \* how long a superseded version may still be answered

VARIABLES
    current,   \* the version in the database
    age,       \* ticks since each version was superseded, up to Window + 1
    answer     \* the version each reader goes by

vars == <<current, age, answer>>

Versions == 0..MaxVersion
NoAnswer == -1

Init ==
    /\ current = 0
    /\ age = [v \in Versions |-> 0]
    /\ answer = [r \in Readers |-> NoAnswer]

Write ==
    /\ current < MaxVersion
    /\ current' = current + 1
    /\ UNCHANGED <<age, answer>>

Older(v) == IF v < current /\ age[v] <= Window THEN age[v] + 1 ELSE age[v]

Tick ==
    /\ age' = [v \in Versions |-> Older(v)]
    /\ UNCHANGED <<current, answer>>

Answer(r) ==
    /\ \E v \in 0..current :
          age[v] <= Window /\ answer' = [answer EXCEPT ![r] = v]
    /\ UNCHANGED <<current, age>>

Finish(r) ==
    /\ answer' = [answer EXCEPT ![r] = NoAnswer]
    /\ UNCHANGED <<current, age>>

Next == Write \/ Tick \/ \E r \in Readers : Answer(r) \/ Finish(r)

Spec == Init /\ [][Next]_vars
=============================================================================
