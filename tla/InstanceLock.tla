---------------------------- MODULE InstanceLock ----------------------------
(***************************************************************************)
(* The lease file that lets one desktop process own a profile.  A process  *)
(* creates the file exclusively, or reads who owns it and, when that       *)
(* process is dead, renames the file aside and tries again.  Every step    *)
(* after the exclusive creation names the file by its path, so it acts on  *)
(* whatever lies there by then.                                            *)
(***************************************************************************)
EXTENDS Naturals

CONSTANTS
    Desktop,           \* desktop processes, each with a process id of its own
    CanMoveOpenFile    \* whether a file that is held open can be renamed or
                       \* removed: not on Windows, where the desktop runs

ASSUME CanMoveOpenFileAssumption == CanMoveOpenFile \in BOOLEAN

MaxAttempts == 4

None == "none"

\* A process that died before this story began.
Former == "former"
ASSUME NamesAssumption == {None, Former} \cap Desktop = {}

NoFile == [owner |-> None, whole |-> FALSE, open |-> FALSE]
LeaseFile(owner, whole, open) == [owner |-> owner, whole |-> whole, open |-> open]

LockStep == {"idle", "creating", "writing", "discarding", "reading", "probing",
             "moving", "owned", "closing", "removing"}

VARIABLES
    alive,      \* the processes that run
    lease,      \* the file at the lock's path
    lock,       \* where Acquire or Release of each process stands
    attempt     \* tries of its Acquire

lockVars == <<alive, lease, lock, attempt>>

\* The path is free, or a process of an earlier session has left its lease,
\* perhaps before it had written it.
LockInit(running) ==
    /\ alive = running
    /\ lease \in {NoFile, LeaseFile(Former, TRUE, FALSE), LeaseFile(Former, FALSE, FALSE)}
    /\ lock = [d \in Desktop |-> "idle"]
    /\ attempt = [d \in Desktop |-> 0]

----------------------------------------------------------------------------
At(d, step) == d \in alive /\ lock[d] = step

\* d goes on to another step; what Acquire has counted is forgotten
\* when it returns.
Moves(d, from, to) ==
    /\ At(d, from)
    /\ lock' = [lock EXCEPT ![d] = to]
    /\ attempt' = IF to \in {"idle", "owned"} THEN [attempt EXCEPT ![d] = 0] ELSE attempt

\* Whether the system lets anyone rename or remove the file at the path.
Movable == lease # NoFile /\ (CanMoveOpenFile \/ ~lease.open)

Acquire(d) ==
    /\ Moves(d, "idle", "creating")
    /\ UNCHANGED <<alive, lease>>

\* O_CREATE | O_EXCL
Create(d) ==
    /\ lease = NoFile
    /\ Moves(d, "creating", "writing")
    /\ lease' = LeaseFile(d, FALSE, TRUE)
    /\ UNCHANGED alive

CreateFails(d) ==
    /\ Moves(d, "creating", "idle")
    /\ UNCHANGED <<alive, lease>>

FindTaken(d) ==
    /\ lease # NoFile
    /\ Moves(d, "creating", "reading")
    /\ UNCHANGED <<alive, lease>>

\* Faulty variant: the file is closed once the lease is written.
WriteAndClose(d) ==
    /\ Moves(d, "writing", "owned")
    /\ lease' = IF lease.owner = d THEN LeaseFile(d, TRUE, FALSE) ELSE lease
    /\ UNCHANGED alive

\* Write and Sync go to the open file, wherever it lies by now.
Write(d) ==
    /\ Moves(d, "writing", "owned")
    /\ lease' = IF lease.owner = d THEN LeaseFile(d, TRUE, TRUE) ELSE lease
    /\ UNCHANGED alive

\* They fail: the file is closed, whole or not, ...
WriteFails(d) ==
    /\ Moves(d, "writing", "discarding")
    /\ \E whole \in BOOLEAN :
          lease' = IF lease.owner = d THEN LeaseFile(d, whole, FALSE) ELSE lease
    /\ UNCHANGED alive

\* ... and whatever is at the path removed.
Discard(d) ==
    /\ Moves(d, "discarding", "idle")
    /\ lease' = IF Movable THEN NoFile ELSE lease
    /\ UNCHANGED alive

\* A file that has gone, or holds no lease, ends Acquire with an error.
ReadLease(d) ==
    /\ Moves(d, "reading", IF lease.whole THEN "probing" ELSE "idle")
    /\ UNCHANGED <<alive, lease>>

\* The system is asked whether the owner runs, and its answer may be wrong: a
\* query that fails makes a living owner dead, and another process may have
\* taken a dead owner's id.
ProbeOwner(d) ==
    /\ \E next \in {"idle", "moving"} : Moves(d, "probing", next)
    /\ UNCHANGED <<alive, lease>>

\* The file at the path, no matter whose it is now, is renamed and removed;
\* MaxAttempts tries end Acquire.
MoveAside(d) ==
    /\ At(d, "moving")
    /\ lease' = IF Movable THEN NoFile ELSE lease
    /\ IF attempt[d] + 1 < MaxAttempts
       THEN /\ lock' = [lock EXCEPT ![d] = "creating"]
            /\ attempt' = [attempt EXCEPT ![d] = @ + 1]
       ELSE Moves(d, "moving", "idle")
    /\ UNCHANGED alive

\* Release closes the file, ...
CloseLease(d) ==
    /\ Moves(d, "owned", "closing")
    /\ lease' = IF lease.owner = d THEN [lease EXCEPT !.open = FALSE] ELSE lease
    /\ UNCHANGED alive

\* ... reads the one at the path, ...
CheckLease(d) ==
    /\ Moves(d, "closing", IF lease.whole /\ lease.owner = d THEN "removing" ELSE "idle")
    /\ UNCHANGED <<alive, lease>>

\* ... and removes it when it is its own.
RemoveLease(d) ==
    /\ Moves(d, "removing", "idle")
    /\ lease' = IF Movable THEN NoFile ELSE lease
    /\ UNCHANGED alive

\* A process that ends closes its files and leaves its lease.
Die(d) ==
    /\ d \in alive
    /\ alive' = alive \ {d}
    /\ lease' = IF lease.owner = d THEN [lease EXCEPT !.open = FALSE] ELSE lease
    /\ lock' = [lock EXCEPT ![d] = "idle"]
    /\ attempt' = [attempt EXCEPT ![d] = 0]

LockNext ==
    \E d \in Desktop :
        \/ Acquire(d) \/ Create(d) \/ CreateFails(d) \/ FindTaken(d)
        \/ Write(d) \/ WriteFails(d) \/ Discard(d)
        \/ ReadLease(d) \/ ProbeOwner(d) \/ MoveAside(d)
        \/ CloseLease(d) \/ CheckLease(d) \/ RemoveLease(d)
        \/ Die(d)

LockSpec == LockInit(Desktop) /\ [][LockNext]_lockVars

----------------------------------------------------------------------------
(* Properties *)

\* Types of the lock's state.
LockTypeOK ==
    /\ alive \subseteq Desktop
    /\ lease \in [owner : Desktop \cup {None, Former}, whole : BOOLEAN, open : BOOLEAN]
    /\ lock \in [Desktop -> LockStep]
    /\ attempt \in [Desktop -> 0..(MaxAttempts - 1)]

\* Two desktop processes never own the profile at once, and the owner's lease
\* lies at the path for the next one to find (InstanceLock.Acquire: "obtains
\* the lease or returns the existing live owner").
OneDesktop ==
    \A d \in Desktop : lock[d] = "owned" =>
        /\ lease.owner = d /\ lease.whole
        /\ \A e \in Desktop \ {d} : lock[e] # "owned"
=============================================================================
