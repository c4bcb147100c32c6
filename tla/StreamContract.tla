--------------------------- MODULE StreamContract ---------------------------
(***************************************************************************)
(* What provider.ChatStream promises the gateway: a call is refused or     *)
(* yields one stream; the stream gives the lines of the upstream's answer  *)
(* in the order they were said, each at most once, until it ends, and      *)
(* nothing after that.                                                     *)
(***************************************************************************)
EXTENDS Naturals, Sequences

CONSTANT MaxLines

VARIABLES
    state,   \* of the call and its stream
    heard    \* the lines that became events

vars == <<state, heard>>

Init ==
    /\ state = "none"
    /\ heard = <<>>

Open ==
    /\ state = "none"
    /\ state' \in {"open", "closed"}
    /\ UNCHANGED heard

\* A later line than any before; it may be the last one.
Deliver ==
    /\ state = "open"
    /\ \E line \in 1..MaxLines :
          /\ \A i \in DOMAIN heard : heard[i] < line
          /\ heard' = Append(heard, line)
    /\ state' \in {"open", "ended"}

End ==
    /\ state = "open"
    /\ state' = "ended"
    /\ UNCHANGED heard

Close ==
    /\ state \in {"open", "ended"}
    /\ state' = "closed"
    /\ UNCHANGED heard

Next == Open \/ Deliver \/ End \/ Close

Spec == Init /\ [][Next]_vars
============================================================================
