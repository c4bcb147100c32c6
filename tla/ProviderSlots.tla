--------------------------- MODULE ProviderSlots ----------------------------
(***************************************************************************)
(* The provider concurrency slots of internal/health/health.go: chat       *)
(* attempts and probes take a slot before an upstream request, wait for    *)
(* one while the provider is at its cap, and give it back when they are    *)
(* done.  The manager's mutex makes each locked section one step; the wait *)
(* itself is on a channel read under the lock and selected on after it.    *)
(*                                                                         *)
(* A notification closes a provider's channel and installs a fresh one, so *)
(* a channel is represented by the callers that hold it: "parked" callers  *)
(* select on the provider's current channel, "woken" ones on a closed one. *)
(***************************************************************************)
EXTENDS Integers, FiniteSets

CONSTANTS
    Caller,      \* goroutines that take slots, one at a time each
    Provider,
    Cap          \* the caps SetProviderCap may set; 0 or less is no cap

ASSUME SlotsAssumption ==
    /\ IsFiniteSet(Caller)
    /\ Cap \subseteq Int

VARIABLES
    provCap,     \* provider -> its cap
    inFlight,    \* provider -> slots in use, as the manager counts them
    pc,          \* caller -> where it stands
    want,        \* caller -> the provider it asked for
    ctxDone      \* caller -> its context is canceled or timed out

slotsVars == <<provCap, inFlight, pc, want, ctxDone>>

\* "trying" is about to take the lock; "holding" has its release function.
PC == {"idle", "trying", "parked", "woken", "holding"}

SlotsInit ==
    /\ provCap = [p \in Provider |-> 0]
    /\ inFlight = [p \in Provider |-> 0]
    /\ pc = [c \in Caller |-> "idle"]
    /\ want \in [Caller -> Provider]
    /\ ctxDone = [c \in Caller |-> FALSE]

\* Faulty variant: one caller too many.
FullOffByOne(p) == provCap[p] > 0 /\ inFlight[p] > provCap[p]

Full(p) == provCap[p] > 0 /\ inFlight[p] >= provCap[p]

\* notifyLocked: every caller that waits on the provider's channel is woken.
NotifyLocked(p) == [c \in Caller |->
    IF pc[c] = "parked" /\ want[c] = p THEN "woken" ELSE pc[c]]

----------------------------------------------------------------------------
\* AcquireSlot is called with a fresh context.
Ask(c, p) ==
    /\ pc[c] = "idle"
    /\ pc' = [pc EXCEPT ![c] = "trying"]
    /\ want' = [want EXCEPT ![c] = p]
    /\ ctxDone' = [ctxDone EXCEPT ![c] = FALSE]
    /\ UNCHANGED <<provCap, inFlight>>

\* The locked section of AcquireSlot finds the context done ...
Refuse(c) ==
    /\ pc[c] = "trying"
    /\ ctxDone[c]
    /\ pc' = [pc EXCEPT ![c] = "idle"]
    /\ UNCHANGED <<provCap, inFlight, want, ctxDone>>

\* ... or takes a slot ...
Admit(c) ==
    /\ pc[c] = "trying"
    /\ ~ctxDone[c]
    /\ ~Full(want[c])
    /\ inFlight' = [inFlight EXCEPT ![want[c]] = @ + 1]
    /\ pc' = [pc EXCEPT ![c] = "holding"]
    /\ UNCHANGED <<provCap, want, ctxDone>>

\* ... or reads the channel to wait on.
Park(c) ==
    /\ pc[c] = "trying"
    /\ ~ctxDone[c]
    /\ Full(want[c])
    /\ pc' = [pc EXCEPT ![c] = "parked"]
    /\ UNCHANGED <<provCap, inFlight, want, ctxDone>>

\* The select of AcquireSlot.
Retry(c) ==
    /\ pc[c] = "woken"
    /\ pc' = [pc EXCEPT ![c] = "trying"]
    /\ UNCHANGED <<provCap, inFlight, want, ctxDone>>

StopWaiting(c) ==
    /\ pc[c] \in {"parked", "woken"}
    /\ ctxDone[c]
    /\ pc' = [pc EXCEPT ![c] = "idle"]
    /\ UNCHANGED <<provCap, inFlight, want, ctxDone>>

\* Faulty variant: nobody is notified.
ReleaseSilently(c) ==
    /\ pc[c] = "holding"
    /\ inFlight' = [inFlight EXCEPT ![want[c]] = @ - 1]
    /\ pc' = [pc EXCEPT ![c] = "idle"]
    /\ UNCHANGED <<provCap, want, ctxDone>>

\* The first call of the release function; its sync.Once drops any other.
Release(c) ==
    LET p == want[c]
    IN  /\ pc[c] = "holding"
        /\ IF inFlight[p] > 0
           THEN /\ inFlight' = [inFlight EXCEPT ![p] = @ - 1]
                /\ pc' = [NotifyLocked(p) EXCEPT ![c] = "idle"]
           ELSE /\ pc' = [pc EXCEPT ![c] = "idle"]
                /\ UNCHANGED inFlight
        /\ UNCHANGED <<provCap, want, ctxDone>>

\* Faulty variant: a new cap wakes nobody.
SetProviderCapSilently(p, n) ==
    /\ provCap' = [provCap EXCEPT ![p] = n]
    /\ UNCHANGED <<inFlight, pc, want, ctxDone>>

SetProviderCap(p, n) ==
    /\ provCap' = [provCap EXCEPT ![p] = n]
    /\ pc' = NotifyLocked(p)
    /\ UNCHANGED <<inFlight, want, ctxDone>>

CancelContext(c) ==
    /\ pc[c] # "idle"
    /\ ~ctxDone[c]
    /\ ctxDone' = [ctxDone EXCEPT ![c] = TRUE]
    /\ UNCHANGED <<provCap, inFlight, pc, want>>

\* What the goroutine of AcquireSlot does by itself.
Acquire(c) == Refuse(c) \/ Admit(c) \/ Park(c) \/ Retry(c) \/ StopWaiting(c)

SlotsNext ==
    \/ \E c \in Caller : Acquire(c) \/ Release(c) \/ CancelContext(c)
    \/ \E c \in Caller, p \in Provider : Ask(c, p)
    \/ \E p \in Provider, n \in Cap : SetProviderCap(p, n)

SlotsSpec == SlotsInit /\ [][SlotsNext]_slotsVars

\* The goroutines run.  Nothing is assumed of the holders, of new callers or
\* of the caps, and no order among the waiters: Go's scheduler gives none.
FairSlots == SlotsSpec /\ \A c \in Caller : WF_slotsVars(Acquire(c))

----------------------------------------------------------------------------
(* Properties. *)

\* The counters are never negative and every caller stands somewhere (the fields
\* of Manager, AcquireSlot, ReleaseSlot).
SlotsTypeOK ==
    /\ provCap \in [Provider -> Cap \cup {0}]
    /\ inFlight \in [Provider -> Nat]
    /\ pc \in [Caller -> PC]
    /\ want \in [Caller -> Provider]
    /\ ctxDone \in [Caller -> BOOLEAN]

Holders(p) == {c \in Caller : pc[c] = "holding" /\ want[c] = p}

\* The manager's counter is the number of callers inside: no admission is
\* lost, none is counted twice, whatever is canceled, released or re-capped
\* in between (AcquireSlot, ReleaseSlot).
InFlightIsHolders ==
    \A p \in Provider : inFlight[p] = Cardinality(Holders(p))

\* No lost wake-up: a caller only sleeps while its provider is full, so every
\* release and every new cap that makes room has woken it (the channel is
\* read under the lock that notifyLocked holds).
NoStrandedWaiter ==
    \A c \in Caller : pc[c] = "parked" => Full(want[c])

\* What the lock protects and what is waited for agree: the counter is exact
\* and whoever sleeps has a reason to (AcquireSlot, ReleaseSlot, SetProviderCap).
AdmissionIsExact == InFlightIsHolders /\ NoStrandedWaiter

Waiting(c) == pc[c] \in {"trying", "parked", "woken"}

\* A canceled caller stops waiting even if no slot is ever released.
CanceledCallerLeaves ==
    \A c \in Caller : Waiting(c) /\ ctxDone[c] ~> ~Waiting(c)

\* Room is used: a caller that finds room is let in, gives up, or has lost the
\* room to another caller.
RoomIsUsed ==
    \A c \in Caller :
        Waiting(c) /\ ~Full(want[c]) ~> ~Waiting(c) \/ Full(want[c])

\* Nobody waits in vain, for a slot that is there or for one that nobody wants
\* any more (AcquireSlot's loop over the channel and the context).
WaitersSettle == CanceledCallerLeaves /\ RoomIsUsed

Limit == INSTANCE SlotLimit WITH
    limit <- provCap, inside <- [p \in Provider |-> Holders(p)]

\* The slots keep the limit of SlotLimit: AcquireSlot lets a caller in only
\* while the provider has room, and one caller is in once.
KeepsLimit == Limit!Spec
============================================================================
