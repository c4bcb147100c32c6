---------------------------- MODULE DesktopShell ----------------------------
(***************************************************************************)
(* A desktop program and the gateway it attaches to or starts.             *)
(*                                                                         *)
(* Two programs share the protocol.  The "tauri" shell (main.rs) keeps one *)
(* runtime record under a lifecycle lock, can restart its gateway after a  *)
(* configuration update, and is kept single by a plugin.  The "library"    *)
(* (GatewayConnector of desktop.go) returns a connection that its caller   *)
(* stops; two processes exclude each other with InstanceLock.              *)
(*                                                                         *)
(* Gateways are processes that load the configuration when they start and  *)
(* then compete for one management address; some are started by hand, and  *)
(* any of them may die.  A probe may get no answer from a gateway that     *)
(* serves.                                                                 *)
(***************************************************************************)
EXTENDS InstanceLock

CONSTANTS
    Gateway,    \* the gateway processes there can be at once
    MaxSaves    \* bound: configuration updates

ASSUME GatewayAssumption == None \notin Gateway
ASSUME MaxSavesAssumption == MaxSaves \in Nat

Outside == "outside"
ASSUME OutsideAssumption == Outside \notin Desktop

VARIABLES
    kind,      \* which program runs: "tauri" or "library"
    shared,    \* FMR_MANAGEMENT_TOKEN gives every process the same token
    gw,        \* the gateway processes
    saved,     \* the version of the configuration on disk
    shell,     \* what each desktop process holds and where it stands
    gone       \* desktop processes that have left by themselves

shellVars == <<kind, shared, gw, saved, shell, gone>>
vars == <<lockVars, shellVars>>

GatewayState == {"none", "starting", "serving"}
Dead == [state |-> "none", from |-> None, compatible |-> TRUE, loaded |-> 0, defied |-> FALSE]
Started(from, compatible) ==
    [state |-> "starting", from |-> from, compatible |-> compatible, loaded |-> saved,
     defied |-> FALSE]

Step == {"idle", "inspecting", "probing", "spawning", "polling", "aborting", "waiting",
         "stopping", "killing", "leaving"}
Operation == {"none", "setup", "attach", "update", "stop", "quit"}
Reply == {"none", "saved", "restarted", "failed"}

\* child, owner, status and error are the runtime record, or the connection;
\* held and running are locals of the operation in progress.
Fresh == [step |-> "idle", op |-> "none", running |-> FALSE, held |-> None, child |-> None,
          owner |-> "external", status |-> None, error |-> FALSE, reply |-> "none"]

Living(g) == g # None /\ gw[g].state # "none"

\* An identity that no process has and no desktop remembers.
Unused(g) ==
    /\ gw[g].state = "none"
    /\ \A d \in Desktop : g \notin {shell[d].child, shell[d].held, shell[d].status}

Init ==
    /\ kind \in {"tauri", "library"}
    /\ IF kind = "tauri" THEN \E d \in Desktop : LockInit({d}) ELSE LockInit(Desktop)
    /\ shared \in BOOLEAN
    /\ gw = [g \in Gateway |-> Dead]
    /\ saved = 0
    /\ shell = [d \in Desktop |->
          IF kind = "tauri" /\ d \in alive THEN [Fresh EXCEPT !.step = "inspecting", !.op = "setup"]
                            ELSE Fresh]
    /\ gone = {}

----------------------------------------------------------------------------
(* Gateways *)

GatewayChanges(g, process) ==
    /\ gw' = [gw EXCEPT ![g] = process]
    /\ UNCHANGED <<lockVars, kind, shared, saved, shell, gone>>

OutsideStart(g) ==
    /\ Unused(g)
    /\ \E compatible \in BOOLEAN : GatewayChanges(g, Started(Outside, compatible))

\* The first to bind the address serves, the others end.
Bind(g) ==
    /\ gw[g].state = "starting"
    /\ GatewayChanges(g, IF \E h \in Gateway : gw[h].state = "serving" THEN Dead
                         ELSE [gw[g] EXCEPT !.state = "serving"])

GatewayDies(g) == Living(g) /\ GatewayChanges(g, Dead)

Knows(d, g) == shared \/ gw[g].from = d
Answers(d, g) == gw[g].state = "serving" /\ Knows(d, g)
Refuses(d, g) == gw[g].state = "serving" /\ ~Knows(d, g)

----------------------------------------------------------------------------
\* Process d goes on as the record s says.
Goes(d, step, s) ==
    /\ d \in alive
    /\ shell[d].step = step
    /\ shell' = [shell EXCEPT ![d] = s]
    /\ UNCHANGED <<lockVars, kind, shared, gone>>

Quietly == UNCHANGED <<gw, saved>>

To(d, step) == [shell[d] EXCEPT !.step = step]
Begin(d, op, step) == [shell[d] EXCEPT !.step = step, !.op = op, !.reply = "none"]

Attached(s) ==
    [s EXCEPT !.step = "idle", !.op = "none", !.running = FALSE, !.error = FALSE,
              !.reply = IF s.op = "update" THEN "restarted" ELSE "none"]

\* Whoever asked for it is told; only the setup and an update note the error.
Failed(s) ==
    [s EXCEPT !.step = "idle", !.op = "none", !.running = FALSE,
              !.error = IF s.op \in {"setup", "update"} THEN TRUE ELSE @,
              !.reply = IF s.op = "update" THEN "failed" ELSE "none"]

----------------------------------------------------------------------------
(* Attaching or starting *)

\* The library's caller has the lease, and no connection yet.
BeginAttach(d) ==
    /\ \/ kind = "tauri" /\ Goes(d, "idle", Begin(d, "attach", "inspecting"))
       \/ /\ kind = "library"
          /\ lock[d] = "owned"
          /\ shell[d].status = None
          /\ Goes(d, "idle", Begin(d, "attach", "probing"))
    /\ Quietly

\* The child of an earlier operation has ended, or runs; when all is well with
\* it there is nothing to do.
Inspect(d) ==
    LET s == shell[d] IN
    /\ \/ /\ ~Living(s.child)
          /\ Goes(d, "inspecting",
                  [s EXCEPT !.step = "probing", !.running = FALSE, !.child = None,
                            !.status = IF s.child = None THEN @ ELSE None])
       \/ /\ Living(s.child) /\ s.status # None /\ ~s.error
          /\ Goes(d, "inspecting", Attached(s))
       \/ /\ Living(s.child) /\ (s.status = None \/ s.error)
          /\ Goes(d, "inspecting", [s EXCEPT !.step = "probing", !.running = TRUE])
    /\ Quietly

\* The system cannot say whether the child runs.
InspectFails(d) ==
    /\ shell[d].child # None
    /\ Goes(d, "inspecting", [Failed(shell[d]) EXCEPT !.status = None, !.error = TRUE])
    /\ Quietly

\* Faulty variant: whoever answers a probe was started by somebody else.
OwnerAfterProbeOutside(d) == "external"

\* ownership_after_successful_probe; a connector that has started nothing yet
\* has found an external gateway.
OwnerAfterProbe(d) ==
    IF kind = "tauri" /\ shell[d].running THEN "managed" ELSE "external"

ProbeAnswered(d) ==
    /\ \E g \in Gateway :
          /\ Answers(d, g)
          /\ Goes(d, "probing",
                IF gw[g].compatible
                THEN [Attached(shell[d]) EXCEPT !.owner = OwnerAfterProbe(d), !.status = g,
                                               !.child = IF shell[d].running THEN @ ELSE None]
                ELSE Failed(shell[d]))
    /\ Quietly

\* 401 or 403: no second gateway is started beside one that turns us away.
ProbeRefused(d) ==
    /\ \E g \in Gateway : Refuses(d, g)
    /\ Goes(d, "probing", Failed(shell[d]))
    /\ Quietly

\* Nobody answers, or not in time.
ProbeSilent(d) ==
    /\ Goes(d, "probing", IF shell[d].running THEN Failed(shell[d]) ELSE To(d, "spawning"))
    /\ Quietly

SpawnFails(d) == Goes(d, "spawning", Failed(shell[d])) /\ Quietly

Spawn(d) ==
    /\ \E g \in Gateway, compatible \in BOOLEAN :
          /\ Unused(g)
          /\ gw' = [gw EXCEPT ![g] = Started(d, compatible)]
          /\ Goes(d, "spawning", [shell[d] EXCEPT !.step = "polling", !.held = g])
    /\ UNCHANGED saved

\* Whichever gateway answers at the address is taken for the child.
PollAnswered(d) ==
    /\ \E g \in Gateway :
          /\ Answers(d, g)
          /\ Goes(d, "polling",
                IF gw[g].compatible
                THEN [Attached(shell[d]) EXCEPT !.owner = "managed", !.status = g,
                                               !.child = shell[d].held, !.held = None]
                ELSE To(d, "aborting"))
    /\ Quietly

\* The deadline, or the caller's context.
PollExpires(d) == Goes(d, "polling", To(d, "aborting")) /\ Quietly

\* Only the shell looks whether its child still runs.
PollFindsDead(d) ==
    /\ kind = "tauri"
    /\ ~Living(shell[d].held)
    /\ Goes(d, "polling", Failed([shell[d] EXCEPT !.held = None]))
    /\ Quietly

\* A child that was started for nothing is killed.
Abort(d) ==
    /\ Goes(d, "aborting", Failed([shell[d] EXCEPT !.held = None]))
    /\ gw' = [gw EXCEPT ![shell[d].held] = Dead]
    /\ UNCHANGED saved

\* A kill that the system refuses is ignored: the shell then waits for the
\* child to end, the library does not.
AbortRefused(d) ==
    /\ Living(shell[d].held)
    /\ IF kind = "tauri"
       THEN Goes(d, "aborting", To(d, "waiting")) /\ UNCHANGED gw
       ELSE /\ Goes(d, "aborting", Failed([shell[d] EXCEPT !.held = None]))
            /\ gw' = [gw EXCEPT ![shell[d].held].defied = TRUE]
    /\ UNCHANGED saved

AwaitDeath(d) ==
    /\ ~Living(shell[d].held)
    /\ Goes(d, "waiting", Failed([shell[d] EXCEPT !.held = None]))
    /\ Quietly

----------------------------------------------------------------------------
(* Updating the configuration, stopping and leaving *)

\* The gateway saves the new configuration; one that the shell manages is
\* then restarted to load it, unless the answer to the request was lost.
BeginUpdate(d) ==
    /\ kind = "tauri"
    /\ saved < MaxSaves
    /\ shell[d].status # None
    /\ \E g \in Gateway : Answers(d, g)
    /\ \/ Goes(d, "idle",
               IF shell[d].owner = "managed" THEN Begin(d, "update", "stopping")
               ELSE [Begin(d, "none", "idle") EXCEPT !.reply = "saved"])
       \/ Goes(d, "idle", [Begin(d, "none", "idle") EXCEPT !.reply = "failed"])
    /\ saved' = saved + 1
    /\ UNCHANGED gw

\* GatewayConnection.Stop, once for every connection.
BeginStop(d) ==
    /\ kind = "library"
    /\ shell[d].status # None
    /\ Goes(d, "idle", Begin(d, "stop", "stopping"))
    /\ Quietly

BeginQuit(d) ==
    /\ kind = "tauri"
    /\ Goes(d, "idle", Begin(d, "quit", "stopping"))
    /\ Quietly

\* Where the operation goes on when nothing is left to stop.
Stopped(s) ==
    [s EXCEPT !.held = None, !.status = None, !.error = FALSE,
              !.op = IF s.op = "stop" THEN "none" ELSE @,
              !.step = CASE s.op = "update" -> "inspecting"
                         [] s.op = "quit" -> "leaving"
                         [] OTHER -> "idle"]

\* Faulty variant: there is always a child to kill.
TakeChildAnyway(d) ==
    LET s == shell[d] IN
    /\ Goes(d, "stopping",
            IF s.owner = "managed"
            THEN [s EXCEPT !.step = "killing", !.status = None, !.held = s.child, !.child = None]
            ELSE Stopped([s EXCEPT !.child = None]))
    /\ Quietly

\* An external gateway is let go of, a managed child taken to be killed.
TakeChild(d) ==
    LET s == shell[d] IN
    /\ Goes(d, "stopping",
            IF s.owner = "managed" /\ s.child # None
            THEN [s EXCEPT !.step = "killing", !.status = None, !.held = s.child, !.child = None]
            ELSE Stopped([s EXCEPT !.child = None]))
    /\ Quietly

Kill(d) ==
    /\ Goes(d, "killing", Stopped(shell[d]))
    /\ gw' = [gw EXCEPT ![shell[d].held] = Dead]
    /\ UNCHANGED saved

\* Faulty variant: the operation goes on after a kill that was refused.
KillRefusedUnnoticed(d) ==
    /\ Living(shell[d].held)
    /\ Goes(d, "killing", [Stopped(shell[d]) EXCEPT !.child = shell[d].held])
    /\ Quietly

\* The shell keeps a child that it could not kill, and says so.  The library
\* returns the error, and never tries again.
KillRefused(d) ==
    LET s == shell[d] IN
    /\ Living(s.held)
    /\ IF kind = "tauri"
       THEN /\ Goes(d, "killing", [Failed(s) EXCEPT !.child = s.held, !.held = None, !.error = TRUE])
            /\ UNCHANGED gw
       ELSE /\ Goes(d, "killing", Stopped(s))
            /\ gw' = [gw EXCEPT ![s.held].defied = TRUE]
    /\ UNCHANGED saved

Unattached(d) == shell[d].step = "idle" /\ shell[d].status = None

\* The shell after its quit; the library's process when it has released the
\* lease and stopped its connection.
Leave(d) ==
    /\ IF kind = "tauri" THEN shell[d].step = "leaving"
       ELSE Unattached(d) /\ lock[d] = "idle"
    /\ Die(d)
    /\ gone' = gone \cup {d}
    /\ shell' = [shell EXCEPT ![d] = Fresh]
    /\ UNCHANGED <<kind, shared, gw, saved>>

\* A crash leaves the lease and the gateway behind.
Crash(d) ==
    /\ Die(d)
    /\ shell' = [shell EXCEPT ![d] = Fresh]
    /\ UNCHANGED <<kind, shared, gw, saved, gone>>

LockStepOf(d) ==
    /\ kind = "library"
    /\ \/ Acquire(d) \/ Create(d) \/ CreateFails(d) \/ FindTaken(d)
       \/ Write(d) \/ WriteFails(d) \/ Discard(d)
       \/ ReadLease(d) \/ ProbeOwner(d) \/ MoveAside(d)
       \/ Unattached(d) /\ CloseLease(d)
       \/ CheckLease(d) \/ RemoveLease(d)
    /\ UNCHANGED shellVars

Next ==
    \/ \E g \in Gateway : OutsideStart(g) \/ Bind(g) \/ GatewayDies(g)
    \/ \E d \in Desktop :
        \/ LockStepOf(d)
        \/ BeginAttach(d) \/ Inspect(d) \/ InspectFails(d)
        \/ ProbeAnswered(d) \/ ProbeRefused(d) \/ ProbeSilent(d)
        \/ Spawn(d) \/ SpawnFails(d)
        \/ PollAnswered(d) \/ PollExpires(d) \/ PollFindsDead(d)
        \/ Abort(d) \/ AbortRefused(d) \/ AwaitDeath(d)
        \/ BeginUpdate(d) \/ BeginStop(d) \/ BeginQuit(d)
        \/ TakeChild(d) \/ Kill(d) \/ KillRefused(d)
        \/ Leave(d) \/ Crash(d)

Spec == Init /\ [][Next]_vars

----------------------------------------------------------------------------
(* Properties *)

\* Types; an operation has a gateway in hand exactly where it waits for it or
\* kills it.
TypeOK ==
    /\ LockTypeOK
    /\ kind \in {"tauri", "library"}
    /\ shared \in BOOLEAN
    /\ gw \in [Gateway -> [state : GatewayState, from : Desktop \cup {None, Outside},
                           compatible : BOOLEAN, loaded : 0..MaxSaves, defied : BOOLEAN]]
    /\ saved \in 0..MaxSaves
    /\ shell \in [Desktop -> [step : Step, op : Operation, running : BOOLEAN,
                              held : Gateway \cup {None}, child : Gateway \cup {None},
                              owner : {"managed", "external"}, status : Gateway \cup {None},
                              error : BOOLEAN, reply : Reply]]
    /\ gone \subseteq Desktop \ alive
    /\ \A d \in Desktop :
          shell[d].held # None <=>
              shell[d].step \in {"polling", "aborting", "waiting", "killing"}

\* A desktop that runs can still stop every gateway it has started: it is the
\* child of a managed connection, or in the hands of the operation under way.
\* One that left by itself has left none behind.  Only a library's child that
\* the system would not kill is lost (GatewayConnection.Stop, stop_managed).
ChildrenAreKept ==
    \A g \in Gateway, d \in Desktop :
        Living(g) /\ gw[g].from = d =>
            \/ gw[g].defied /\ kind = "library"
            \/ d \in alive /\ shell[d].held = g
            \/ d \in alive /\ shell[d].child = g /\ shell[d].owner = "managed"
            \/ d \notin alive /\ d \notin gone

\* An update that was answered with "restarted" is in force: the child that
\* the shell is connected to has loaded the saved configuration
\* (update_gateway_config).
RestartsAreTrue ==
    \A d \in Desktop :
        /\ shell[d].reply = "restarted"
        /\ shell[d].status = shell[d].child
        /\ Living(shell[d].child)
        => gw[shell[d].child].loaded = saved
=============================================================================
