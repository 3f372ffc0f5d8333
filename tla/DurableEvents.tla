--------------------------- MODULE DurableEvents ---------------------------
(* What the outbox promises to the business code that writes an event in its *)
(* own transaction: a recorded event is handed over to a queue before it is  *)
(* called published, it ends published or given up, and an end is final.     *)
(* A hand-over may also come late, from a publisher that lost its lease.     *)
CONSTANTS Events

VARIABLES
    state,    \* state[e]: "absent", "recorded", "published" or "given up"
    handed    \* the events handed over to a queue

vars == <<state, handed>>

Init ==
    /\ state = [e \in Events |-> "absent"]
    /\ handed = {}

Record(e) ==
    /\ state[e] = "absent"
    /\ state' = [state EXCEPT ![e] = "recorded"]
    /\ UNCHANGED handed

HandOver(e) ==
    /\ state[e] # "absent"
    /\ handed' = handed \cup {e}
    /\ UNCHANGED state

Publish(e) ==
    /\ state[e] = "recorded"
    /\ e \in handed
    /\ state' = [state EXCEPT ![e] = "published"]
    /\ UNCHANGED handed

GiveUp(e) ==
    /\ state[e] = "recorded"
    /\ state' = [state EXCEPT ![e] = "given up"]
    /\ UNCHANGED handed

Next == \E e \in Events : Record(e) \/ HandOver(e) \/ Publish(e) \/ GiveUp(e)

Spec == Init /\ [][Next]_vars
=============================================================================
