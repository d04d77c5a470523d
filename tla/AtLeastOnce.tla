---------------------------- MODULE AtLeastOnce ----------------------------
(***************************************************************************)
(* What the event transport promises its users, without servers, slots,    *)
(* timeouts or retries.  A message is accepted once; its handler may run   *)
(* to completion any number of times, even after the message was given up; *)
(* it may be recorded on the dead-letter stream; and it is finished only   *)
(* when one of the two has happened.                                       *)
(***************************************************************************)
CONSTANT Msgs

VARIABLES
    accepted,   \* messages the stream has stored
    executed,   \* messages some handler run has completed for
    recorded,   \* messages with a record on the dead-letter stream
    finished    \* messages the consumer will never hand out again: settled

vars == <<accepted, executed, recorded, finished>>

Init ==
    /\ accepted = {}
    /\ executed = {}
    /\ recorded = {}
    /\ finished = {}

Accept(m) ==
    /\ m \notin accepted
    /\ accepted' = accepted \cup {m}
    /\ UNCHANGED <<executed, recorded, finished>>

(* A handler run completes; when it is the run the server was waiting for, *)
(* the message is finished in the same step (the acknowledgement).         *)
Execute(m) ==
    /\ m \in accepted
    /\ executed' = executed \cup {m}
    /\ finished' \in {finished, finished \cup {m}}
    /\ UNCHANGED <<accepted, recorded>>

Record(m) ==
    /\ m \in accepted
    /\ recorded' = recorded \cup {m}
    /\ UNCHANGED <<accepted, executed, finished>>

Finish(m) ==
    /\ m \in recorded
    /\ finished' = finished \cup {m}
    /\ UNCHANGED <<accepted, executed, recorded>>

Next == \E m \in Msgs : Accept(m) \/ Execute(m) \/ Record(m) \/ Finish(m)

Spec == Init /\ [][Next]_vars
=============================================================================
