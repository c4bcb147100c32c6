----------------------------- MODULE SlotLimit ------------------------------
(***************************************************************************)
(* What the health manager promises about provider concurrency: a caller   *)
(* is only ever let in while the provider has no limit or fewer callers    *)
(* than its limit.  A limit may be lowered under the callers already in.   *)
(***************************************************************************)
EXTENDS Integers, FiniteSets

CONSTANTS Caller, Provider

VARIABLES limit,  \* Provider -> its limit, 0 for none
          inside  \* Provider -> the callers that were let in

vars == <<limit, inside>>

Init ==
    /\ limit = [p \in Provider |-> 0]
    /\ inside = [p \in Provider |-> {}]

Enter(c, p) ==
    /\ \A q \in Provider : c \notin inside[q]
    /\ limit[p] <= 0 \/ Cardinality(inside[p]) < limit[p]
    /\ inside' = [inside EXCEPT ![p] = @ \cup {c}]
    /\ UNCHANGED limit

Leave(c, p) ==
    /\ c \in inside[p]
    /\ inside' = [inside EXCEPT ![p] = @ \ {c}]
    /\ UNCHANGED limit

Relimit(p) ==
    /\ limit' = [limit EXCEPT ![p] = limit'[p]]
    /\ UNCHANGED inside

Next ==
    \E p \in Provider :
        \/ \E c \in Caller : Enter(c, p) \/ Leave(c, p)
        \/ Relimit(p)

Spec == Init /\ [][Next]_vars
============================================================================
