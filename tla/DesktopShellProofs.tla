------------------------ MODULE DesktopShellProofs -------------------------
(***************************************************************************)
(* Proofs about InstanceLock and DesktopShell for any number of desktop    *)
(* processes and gateways: one desktop owns the profile where an open file *)
(* cannot be moved, no child is lost, and a restart that was reported took *)
(* place.                                                                  *)
(***************************************************************************)
EXTENDS DesktopShell, TLAPS

(***************************************************************************)
(* The lease.                                                              *)
(***************************************************************************)

\* Whoever has created the file holds it open at the lock's path: that is what
\* keeps a process that read an older lease from moving the new one away.
HolderIsAtPath ==
    \A d \in Desktop : lock[d] \in {"writing", "owned"} =>
        /\ lease.owner = d /\ lease.open
        /\ lock[d] = "owned" => lease.whole

LockInv == LockTypeOK /\ (~CanMoveOpenFile => HolderIsAtPath)

\* No lease, or one of a former process: nobody holds it.
LEMMA LockStarts == ASSUME NEW running \in SUBSET Desktop, LockInit(running) PROVE LockInv
<1>1. alive \subseteq Desktop
  BY DEF LockInit
<1>2. lease \in [owner : Desktop \cup {None, Former}, whole : BOOLEAN, open : BOOLEAN]
  <2>1. lease \in {NoFile, LeaseFile(Former, TRUE, FALSE), LeaseFile(Former, FALSE, FALSE)}
    BY DEF LockInit
  <2>2. NoFile \in [owner : Desktop \cup {None, Former}, whole : BOOLEAN, open : BOOLEAN]
    BY DEF NoFile
  <2>3. ASSUME NEW whole \in BOOLEAN
        PROVE  LeaseFile(Former, whole, FALSE) \in
                  [owner : Desktop \cup {None, Former}, whole : BOOLEAN, open : BOOLEAN]
    BY DEF LeaseFile
  <2>4. LeaseFile(Former, TRUE, FALSE) \in
           [owner : Desktop \cup {None, Former}, whole : BOOLEAN, open : BOOLEAN]
    BY <2>3
  <2>5. LeaseFile(Former, FALSE, FALSE) \in
           [owner : Desktop \cup {None, Former}, whole : BOOLEAN, open : BOOLEAN]
    BY <2>3
  <2> QED BY <2>1, <2>2, <2>4, <2>5
<1>3. lock \in [Desktop -> LockStep] /\ \A d \in Desktop : lock[d] = "idle"
  BY DEF LockInit, LockStep
<1>4. attempt \in [Desktop -> 0..(MaxAttempts - 1)]
  BY DEF LockInit, MaxAttempts
<1> QED BY <1>1, <1>2, <1>3, <1>4 DEF LockInv, LockTypeOK, HolderIsAtPath

\* Types of what a step of Acquire or Release counts and reads.
LEMMA MovesType ==
    ASSUME LockTypeOK, NEW d \in Desktop, NEW from, NEW to \in LockStep, Moves(d, from, to)
    PROVE  /\ lock' \in [Desktop -> LockStep]
           /\ attempt' \in [Desktop -> 0..(MaxAttempts - 1)]
           /\ lock' = [lock EXCEPT ![d] = to] /\ lock[d] = from /\ d \in alive
BY DEF Moves, At, LockTypeOK, MaxAttempts

\* Each step of the lock by one process.
LEMMA LockStepKeeps ==
    ASSUME LockInv, NEW d \in Desktop,
           \/ Acquire(d) \/ Create(d) \/ CreateFails(d) \/ FindTaken(d)
           \/ Write(d) \/ WriteFails(d) \/ Discard(d)
           \/ ReadLease(d) \/ ProbeOwner(d) \/ MoveAside(d)
           \/ CloseLease(d) \/ CheckLease(d) \/ RemoveLease(d)
    PROVE  LockInv' /\ UNCHANGED alive
<1> USE DEF LockInv
<1>0. /\ LockTypeOK /\ None \notin Desktop /\ Former \notin Desktop
      /\ \A step \in {"idle", "creating", "writing", "discarding", "reading", "probing",
                      "moving", "owned", "closing", "removing"} : step \in LockStep
  BY NamesAssumption DEF LockStep
<1>1. CASE Acquire(d) \/ CreateFails(d) \/ FindTaken(d) \/ CheckLease(d)
  <2>1. /\ UNCHANGED <<alive, lease>>
        /\ \E from \in LockStep, to \in {"creating", "idle", "reading", "removing"} :
              Moves(d, from, to)
    BY <1>0, <1>1 DEF Acquire, CreateFails, FindTaken, CheckLease
  <2> QED BY <1>0, <2>1, MovesType DEF LockTypeOK, HolderIsAtPath
<1>2. CASE Create(d)
  <2>1. Moves(d, "creating", "writing") /\ lease = NoFile /\ UNCHANGED alive
        /\ lease' = [owner |-> d, whole |-> FALSE, open |-> TRUE]
    BY <1>2 DEF Create, LeaseFile
  <2>2. LockTypeOK' /\ lock' = [lock EXCEPT ![d] = "writing"]
    BY <1>0, <2>1, MovesType DEF LockTypeOK
  <2> QED BY <1>0, <2>1, <2>2 DEF LockTypeOK, HolderIsAtPath, NoFile
<1>3. CASE Write(d)
  <2>1. Moves(d, "writing", "owned") /\ UNCHANGED alive
        /\ lease' = IF lease.owner = d THEN [owner |-> d, whole |-> TRUE, open |-> TRUE] ELSE lease
    BY <1>3 DEF Write, LeaseFile
  <2>2. LockTypeOK' /\ lock' = [lock EXCEPT ![d] = "owned"] /\ lock[d] = "writing"
    BY <1>0, <2>1, MovesType DEF LockTypeOK
  <2> QED BY <1>0, <2>1, <2>2 DEF LockTypeOK, HolderIsAtPath
<1>4. CASE WriteFails(d)
  <2>1. PICK whole \in BOOLEAN :
           lease' = IF lease.owner = d THEN [owner |-> d, whole |-> whole, open |-> FALSE] ELSE lease
    BY <1>4 DEF WriteFails, LeaseFile
  <2>2. Moves(d, "writing", "discarding") /\ UNCHANGED alive
    BY <1>4 DEF WriteFails
  <2>3. LockTypeOK' /\ lock' = [lock EXCEPT ![d] = "discarding"]
    BY <1>0, <2>1, <2>2, MovesType DEF LockTypeOK
  <2> QED BY <1>0, <2>1, <2>2, <2>3 DEF LockTypeOK, HolderIsAtPath
<1>5. CASE ReadLease(d) \/ ProbeOwner(d)
  <2>1. /\ UNCHANGED <<alive, lease>>
        /\ \E from \in LockStep, to \in {"probing", "idle", "moving"} : Moves(d, from, to)
    BY <1>0, <1>5 DEF ReadLease, ProbeOwner, LockTypeOK
  <2> QED BY <1>0, <2>1, MovesType DEF LockTypeOK, HolderIsAtPath
<1>6. CASE CloseLease(d)
  <2>1. Moves(d, "owned", "closing") /\ UNCHANGED alive
        /\ lease' = IF lease.owner = d THEN [lease EXCEPT !.open = FALSE] ELSE lease
    BY <1>6 DEF CloseLease
  <2>2. LockTypeOK' /\ lock' = [lock EXCEPT ![d] = "closing"]
    BY <1>0, <2>1, MovesType DEF LockTypeOK
  <2> QED BY <1>0, <2>1, <2>2 DEF LockTypeOK, HolderIsAtPath
<1>7. CASE Discard(d) \/ RemoveLease(d) \/ MoveAside(d)
  <2>1. /\ UNCHANGED alive
        /\ lease' = IF Movable THEN NoFile ELSE lease
        /\ lock' \in [Desktop -> LockStep]
        /\ attempt' \in [Desktop -> 0..(MaxAttempts - 1)]
        /\ \E to \in {"idle", "creating"} : lock' = [lock EXCEPT ![d] = to]
    <3>1. CASE Discard(d) \/ RemoveLease(d)
      BY <1>0, <3>1, MovesType DEF Discard, RemoveLease
    <3>2. CASE MoveAside(d)
      <4>1. CASE attempt[d] + 1 < MaxAttempts
        BY <1>0, <3>2, <4>1 DEF MoveAside, LockTypeOK, MaxAttempts
      <4>2. CASE ~(attempt[d] + 1 < MaxAttempts)
        BY <1>0, <3>2, <4>2, MovesType DEF MoveAside
      <4> QED BY <3>2, <4>1, <4>2 DEF MoveAside
    <3> QED BY <1>7, <3>1, <3>2
  <2>2. LockTypeOK'
    BY <1>0, <2>1 DEF LockTypeOK, NoFile
  <2>3. ~CanMoveOpenFile /\ lease.open => lease' = lease
    BY <2>1 DEF Movable
  <2> QED BY <1>0, <2>1, <2>2, <2>3 DEF LockTypeOK, HolderIsAtPath
<1> QED BY <1>1, <1>2, <1>3, <1>4, <1>5, <1>6, <1>7

\* A process that ends closes its files and takes no step any more.
LEMMA DieKeeps ==
    ASSUME LockInv, NEW d \in Desktop, Die(d)
    PROVE  LockInv' /\ alive' = alive \ {d}
<1> USE DEF Die
<1>1. lease' = IF lease.owner = d THEN [lease EXCEPT !.open = FALSE] ELSE lease
  OBVIOUS
<1>2. lease' \in [owner : Desktop \cup {None, Former}, whole : BOOLEAN, open : BOOLEAN]
  BY <1>1 DEF LockInv, LockTypeOK
<1>3. lock' \in [Desktop -> LockStep] /\ lock' = [lock EXCEPT ![d] = "idle"]
  BY DEF LockInv, LockTypeOK, LockStep
<1>4. attempt' \in [Desktop -> 0..(MaxAttempts - 1)]
  BY DEF LockInv, LockTypeOK, MaxAttempts
<1>5. alive' \subseteq Desktop
  BY DEF LockInv, LockTypeOK
<1>6. ~CanMoveOpenFile => HolderIsAtPath'
  BY <1>1, <1>3 DEF LockInv, LockTypeOK, HolderIsAtPath
<1> QED BY <1>2, <1>3, <1>4, <1>5, <1>6 DEF LockInv, LockTypeOK

\* One owner at most, and its lease where the next process looks.
LEMMA LockInvMeans == LockInv /\ ~CanMoveOpenFile => OneDesktop
BY DEF LockInv, HolderIsAtPath, OneDesktop

----------------------------------------------------------------------------
(***************************************************************************)
(* The gateways a desktop has started.                                     *)
(***************************************************************************)

Gateways == [Gateway -> [state : GatewayState, from : Desktop \cup {None, Outside},
                         compatible : BOOLEAN, loaded : 0..MaxSaves, defied : BOOLEAN]]

Record == [step : Step, op : Operation, running : BOOLEAN,
           held : Gateway \cup {None}, child : Gateway \cup {None},
           owner : {"managed", "external"}, status : Gateway \cup {None},
           error : BOOLEAN, reply : Reply]

\* What holds of the record of a desktop process whatever the gateways do.  A
\* child is managed; none is in the way where the record is about to take one.
InOrder(s) ==
    /\ s \in Record
    /\ s.held # None <=> s.step \in {"polling", "aborting", "waiting", "killing"}
    /\ s.child # None => s.owner = "managed" /\ s.held = None
    /\ s.step = "killing" => s.owner = "managed"
    /\ s.step \in {"spawning", "leaving"} => s.child = None
    /\ s.step = "probing" /\ ~s.running => s.child = None
    /\ s.op = "update" /\ s.step # "stopping" => s.child = None
    /\ s.reply = "restarted" => s.step = "idle"
    /\ kind = "library" =>
          /\ ~s.running
          /\ s.child # None => s.status # None /\ s.step \in {"idle", "stopping"}
          /\ s.step \in {"idle", "probing", "spawning", "polling", "aborting", "stopping", "killing"}
          /\ s.op \in {"none", "attach", "stop"}

\* What an update has started has loaded what the update saved.
LoadsSaved(s) ==
    /\ s.op = "update" /\ s.step = "polling" /\ Living(s.held) => gw[s.held].loaded = saved
    /\ s.reply = "restarted" /\ s.status = s.child /\ Living(s.child) =>
          gw[s.child].loaded = saved

\* A gateway that d started is in d's hands, or was not to be killed.
Keeps(s, g) ==
    \/ gw[g].defied /\ kind = "library"
    \/ s.held = g
    \/ s.child = g /\ s.owner = "managed"

IInv ==
    /\ LockInv
    /\ kind \in {"tauri", "library"} /\ shared \in BOOLEAN
    /\ gw \in Gateways /\ saved \in 0..MaxSaves
    /\ shell \in [Desktop -> Record]
    /\ gone \subseteq Desktop \ alive
    /\ kind = "tauri" => \A d, e \in alive : d = e
    /\ \A d \in Desktop : InOrder(shell[d]) /\ LoadsSaved(shell[d])
    /\ \A d \in Desktop \ alive : shell[d] = Fresh
    /\ \A d \in Desktop, g \in Gateway : Living(g) /\ gw[g].from = d =>
          IF d \in alive THEN Keeps(shell[d], g)
          ELSE d \in gone => gw[g].defied /\ kind = "library"

\* The record of a process that has just begun, or is no more.
LEMMA FreshInOrder ==
    /\ kind \in {"tauri", "library"} => InOrder(Fresh)
    /\ LoadsSaved(Fresh)
    /\ kind = "tauri" => InOrder([Fresh EXCEPT !.step = "inspecting", !.op = "setup"])
    /\ LoadsSaved([Fresh EXCEPT !.step = "inspecting", !.op = "setup"])
BY DEF Fresh, InOrder, Record, Step, Operation, Reply, LoadsSaved

LEMMA ShellStarts == Init => IInv
<1> SUFFICES ASSUME Init PROVE IInv
  OBVIOUS
<1>1. LockInv /\ (kind = "tauri" => \A d, e \in alive : d = e) /\ alive \subseteq Desktop
  <2>1. CASE kind = "tauri"
    <3>1. PICK d \in Desktop : LockInit({d})
      BY <2>1 DEF Init
    <3> QED BY <3>1, LockStarts DEF LockInit
  <2>2. CASE kind # "tauri"
    <3>1. LockInit(Desktop)
      BY <2>2 DEF Init
    <3> QED BY <2>2, <3>1, LockStarts DEF LockInit
  <2> QED BY <2>1, <2>2
<1>2. gw \in Gateways /\ \A g \in Gateway : ~Living(g)
  BY MaxSavesAssumption DEF Init, Gateways, Dead, GatewayState, Living
<1>3. saved \in 0..MaxSaves
  BY MaxSavesAssumption DEF Init
<1>4. \A d \in Desktop : InOrder(shell[d]) /\ LoadsSaved(shell[d])
  BY FreshInOrder DEF Init
<1>5. shell \in [Desktop -> Record]
  <2>1. \A d \in Desktop : shell[d] \in Record
    BY <1>4 DEF InOrder
  <2> QED BY <2>1 DEF Init
<1>6. \A d \in Desktop \ alive : shell[d] = Fresh
  BY DEF Init
<1>7. kind \in {"tauri", "library"} /\ shared \in BOOLEAN /\ gone = {}
  BY DEF Init
<1> QED BY <1>1, <1>2, <1>3, <1>4, <1>5, <1>6, <1>7 DEF IInv

----------------------------------------------------------------------------
\* What may happen to a gateway that is there already.
Evolves(g) ==
    \/ gw'[g].state = "none"
    \/ /\ gw[g].state # "none"
       /\ gw'[g].from = gw[g].from /\ gw'[g].loaded = gw[g].loaded
       /\ gw[g].defied => gw'[g].defied

\* Gateways come, serve and die by themselves.
LEMMA GatewayStep ==
    ASSUME IInv, UNCHANGED <<lockVars, kind, shared, saved, shell, gone>>, gw' \in Gateways,
           \A g \in Gateway : Evolves(g) \/ (Unused(g) /\ gw'[g].from = Outside)
    PROVE  IInv'
<1> USE DEF IInv, lockVars
<1>1. LockInv'
  BY DEF LockInv, LockTypeOK, HolderIsAtPath
<1>2. \A d \in Desktop : InOrder(shell[d])'
  BY DEF InOrder
<1>3. ASSUME NEW d \in Desktop PROVE LoadsSaved(shell[d])'
  <2>1. \A g \in Gateway : Unused(g) => g # shell[d].held /\ g # shell[d].child
    BY DEF Unused
  <2>2. \A g \in Gateway : g \in {shell[d].held, shell[d].child} /\ Living(g)' =>
           Living(g) /\ gw'[g].loaded = gw[g].loaded
    BY <2>1 DEF Evolves, Living
  <2>3. shell[d].held \in Gateway \cup {None} /\ shell[d].child \in Gateway \cup {None}
    BY DEF Record
  <2> QED BY <2>2, <2>3, GatewayAssumption DEF LoadsSaved, Living
<1>4. ASSUME NEW d \in Desktop, NEW g \in Gateway, Living(g)', gw'[g].from = d
      PROVE  IF d \in alive THEN Keeps(shell[d], g)'
             ELSE d \in gone => gw'[g].defied /\ kind = "library"
  <2>1. Living(g) /\ gw[g].from = d /\ (gw[g].defied => gw'[g].defied)
    BY <1>4, OutsideAssumption DEF Evolves, Living
  <2> QED BY <2>1 DEF Keeps
<1> QED BY <1>1, <1>2, <1>3, <1>4

\* One desktop process goes on; the gateways do what it made them do.
LEMMA RecordStep ==
    ASSUME IInv, NEW d \in alive, NEW s, shell' = [shell EXCEPT ![d] = s],
           UNCHANGED <<lockVars, kind, shared, saved, gone>>, gw' \in Gateways,
           \A g \in Gateway : Evolves(g) \/ (Unused(g) /\ gw'[g].from = d),
           InOrder(s), LoadsSaved(s)',
           \A g \in Gateway : Living(g)' /\ gw'[g].from = d => Keeps(s, g)'
    PROVE  IInv'
<1> USE DEF IInv, lockVars
<1>0. d \in Desktop
  BY DEF LockInv, LockTypeOK
<1>1. LockInv'
  BY DEF LockInv, LockTypeOK, HolderIsAtPath
<1>2. shell' \in [Desktop -> Record]
  BY DEF InOrder
<1>3. ASSUME NEW e \in Desktop PROVE InOrder(shell[e])' /\ LoadsSaved(shell[e])'
  <2>1. CASE e = d
    <3>1. InOrder(s)'
      BY DEF InOrder
    <3>2. shell'[e] = s
      BY <1>0, <2>1
    <3> QED BY <3>1, <3>2 DEF InOrder, LoadsSaved
  <2>2. CASE e # d
    <3>1. shell'[e] = shell[e]
      BY <2>2
    <3>2. \A g \in Gateway : Unused(g) => g # shell[e].held /\ g # shell[e].child
      BY DEF Unused
    <3>3. \A g \in Gateway : g \in {shell[e].held, shell[e].child} /\ Living(g)' =>
             Living(g) /\ gw'[g].loaded = gw[g].loaded
      BY <3>2 DEF Evolves, Living
    <3>4. shell[e].held \in Gateway \cup {None} /\ shell[e].child \in Gateway \cup {None}
      BY DEF Record
    <3>5. LoadsSaved(shell[e])'
      BY <3>1, <3>3, <3>4, GatewayAssumption DEF LoadsSaved, Living
    <3> QED BY <3>1, <3>5 DEF InOrder
  <2> QED BY <2>1, <2>2
<1>4. \A e \in Desktop \ alive' : shell'[e] = Fresh
  OBVIOUS
<1>5. ASSUME NEW e \in Desktop, NEW g \in Gateway, Living(g)', gw'[g].from = e
      PROVE  IF e \in alive THEN Keeps(shell[e], g)'
             ELSE e \in gone => gw'[g].defied /\ kind = "library"
  <2>1. CASE e = d
    BY <1>0, <1>5, <2>1 DEF Keeps
  <2>2. CASE e # d
    <3>1. Living(g) /\ gw[g].from = e /\ (gw[g].defied => gw'[g].defied)
      BY <1>5, <2>2 DEF Evolves, Living
    <3> QED BY <2>2, <3>1 DEF Keeps
  <2> QED BY <2>1, <2>2
<1> QED BY <1>1, <1>2, <1>3, <1>4, <1>5

\* The gateways stay as they are.
LEMMA QuietStep ==
    ASSUME IInv, NEW d \in Desktop, NEW step, NEW s, Goes(d, step, s), Quietly,
           InOrder(s), LoadsSaved(s),
           \A g \in Gateway : Living(g) /\ gw[g].from = d => Keeps(s, g)
    PROVE  IInv'
<1>1. d \in alive /\ shell' = [shell EXCEPT ![d] = s] /\ UNCHANGED <<gw, saved>>
      /\ UNCHANGED <<lockVars, kind, shared, gone>>
  BY DEF Goes, Quietly
<1>2. gw' \in Gateways /\ \A g \in Gateway : Evolves(g)
  BY <1>1 DEF Evolves, IInv
<1>3. LoadsSaved(s)'
  BY <1>1 DEF LoadsSaved, Living
<1>4. \A g \in Gateway : Living(g)' /\ gw'[g].from = d => Keeps(s, g)'
  BY <1>1 DEF Living, Keeps
<1> QED BY <1>1, <1>2, <1>3, <1>4, RecordStep

\* What a process knows of its own record and of the gateways it has started.
LEMMA OwnRecord ==
    ASSUME IInv, NEW d \in alive
    PROVE  /\ d \in Desktop /\ shell[d] \in Record /\ kind \in {"tauri", "library"}
           /\ InOrder(shell[d]) /\ LoadsSaved(shell[d])
           /\ \A g \in Gateway : Living(g) /\ gw[g].from = d => Keeps(shell[d], g)
BY DEF IInv, LockInv, LockTypeOK

\* The names that records are made of.
LEMMA Names ==
    /\ \A step \in {"idle", "inspecting", "probing", "spawning", "polling", "aborting",
                    "waiting", "stopping", "killing", "leaving"} : step \in Step
    /\ \A op \in {"none", "setup", "attach", "update", "stop", "quit"} : op \in Operation
    /\ \A reply \in {"none", "saved", "restarted", "failed"} : reply \in Reply
BY DEF Step, Operation, Reply

\* An operation that failed leaves the record in order, whether or not it had
\* a gateway in hand.
LEMMA FailedInOrder ==
    ASSUME NEW s, InOrder(s), kind \in {"tauri", "library"}, s.step # "stopping"
    PROVE  /\ InOrder([Failed(s) EXCEPT !.held = None])
           /\ s.held = None => InOrder(Failed(s))
<1>1. s \in Record
  BY DEF InOrder
<1>2. Failed(s) \in Record
  BY <1>1, Names DEF Failed, Record
<1>3. [Failed(s) EXCEPT !.held = None] \in Record
  BY <1>2 DEF Record
<1>4. ASSUME NEW t \in {Failed(s), [Failed(s) EXCEPT !.held = None]}
      PROVE  /\ t.step = "idle" /\ t.op = "none" /\ ~t.running
             /\ t.child = s.child /\ t.owner = s.owner /\ t.status = s.status
             /\ t.reply \in {"none", "failed"}
  BY <1>1 DEF Failed, Record
<1>5. Failed(s).held = s.held /\ [Failed(s) EXCEPT !.held = None].held = None
  BY <1>1 DEF Failed, Record
<1>6. /\ s.child # None => s.owner = "managed"
      /\ kind = "library" /\ s.child # None => s.status # None
  BY DEF InOrder
<1>7. ASSUME NEW t \in {Failed(s), [Failed(s) EXCEPT !.held = None]}, t.held = None
      PROVE  InOrder(t)
  BY <1>2, <1>3, <1>4, <1>6, <1>7 DEF InOrder
<1> QED BY <1>5, <1>7

LEMMA BeginAttachStep == ASSUME IInv, NEW d \in Desktop, BeginAttach(d) PROVE IInv'
<1> DEFINE s(step) == Begin(d, "attach", step)
<1>1. PICK step \in {"inspecting", "probing"} :
         /\ Goes(d, "idle", s(step)) /\ Quietly /\ d \in alive /\ shell[d].step = "idle"
         /\ step = "probing" => kind = "library" /\ shell[d].status = None
         /\ step = "inspecting" => kind = "tauri"
  BY DEF BeginAttach, Goes
<1>2. /\ shell[d] \in Record /\ kind \in {"tauri", "library"}
      /\ InOrder(shell[d]) /\ LoadsSaved(shell[d])
      /\ \A g \in Gateway : Living(g) /\ gw[g].from = d => Keeps(shell[d], g)
  BY <1>1, OwnRecord
<1>3. InOrder(s(step))
  BY <1>1, <1>2 DEF InOrder, Begin, Record, Step, Operation, Reply
<1>4. LoadsSaved(s(step))
  BY <1>1, <1>2 DEF LoadsSaved, Begin, Record
<1>5. \A g \in Gateway : Living(g) /\ gw[g].from = d => Keeps(s(step), g)
  BY <1>1, <1>2 DEF Keeps, Begin, Record
<1> HIDE DEF s
<1> QED BY <1>1, <1>3, <1>4, <1>5, QuietStep

\* A step that reports no restart, starts nothing, and lets go of nothing that
\* runs.
LEMMA SmallStep ==
    ASSUME IInv, NEW d \in Desktop, NEW step, NEW t, Goes(d, step, t), Quietly, InOrder(t),
           t.reply # "restarted", ~(t.op = "update" /\ t.step = "polling"),
           t.held = shell[d].held \/ ~Living(shell[d].held),
           (t.child = shell[d].child /\ t.owner = shell[d].owner) \/ ~Living(shell[d].child)
    PROVE  IInv'
<1>1. d \in alive
  BY DEF Goes
<1>2. LoadsSaved(t)
  BY DEF LoadsSaved
<1>3. \A g \in Gateway : Living(g) /\ gw[g].from = d => Keeps(t, g)
  BY <1>1, OwnRecord DEF Keeps
<1> QED BY <1>2, <1>3, QuietStep

\* An operation fails; what it had in hand is dead.
LEMMA FailedStep ==
    ASSUME IInv, NEW d \in Desktop, NEW step, step # "stopping", Quietly,
           \/ shell[d].held = None /\ Goes(d, step, Failed(shell[d]))
           \/ ~Living(shell[d].held) /\ Goes(d, step, Failed([shell[d] EXCEPT !.held = None]))
    PROVE  IInv'
<1> DEFINE s == shell[d]
<1>1. d \in alive /\ s.step = step
  BY DEF Goes
<1>2. s \in Record /\ InOrder(s) /\ kind \in {"tauri", "library"}
  BY <1>1, OwnRecord
<1>3. Failed([s EXCEPT !.held = None]) = [Failed(s) EXCEPT !.held = None]
  BY <1>2 DEF Failed, Record
<1>4. PICK t \in {Failed(s), [Failed(s) EXCEPT !.held = None]} :
         /\ Goes(d, step, t)
         /\ \/ t = Failed(s) /\ s.held = None
            \/ t = [Failed(s) EXCEPT !.held = None] /\ ~Living(s.held)
  BY <1>3
<1>5. /\ t.step = "idle" /\ t.child = s.child /\ t.owner = s.owner
      /\ t.held = s.held \/ t.held = None
      /\ t.reply \in {"none", "failed"}
  BY <1>2 DEF Failed, Record
<1>6. t.held = s.held \/ ~Living(s.held)
  BY <1>4, <1>2 DEF Failed, Record
<1>7. InOrder(t)
  BY <1>1, <1>2, <1>4, FailedInOrder
<1> HIDE DEF s
<1> QED BY <1>4, <1>5, <1>6, <1>7, SmallStep DEF s

LEMMA InspectStep == ASSUME IInv, NEW d \in Desktop, Inspect(d) PROVE IInv'
<1> DEFINE s == shell[d]
           gone1 == [s EXCEPT !.step = "probing", !.running = FALSE, !.child = None,
                              !.status = IF s.child = None THEN @ ELSE None]
           runs == [s EXCEPT !.step = "probing", !.running = TRUE]
<1>1. d \in alive /\ s.step = "inspecting" /\ Quietly
  BY DEF Inspect, Goes
<1>2. s \in Record /\ InOrder(s) /\ kind = "tauri" /\ s.held = None /\ s.reply # "restarted"
      /\ (Living(s.child) => s.op # "update")
  BY <1>1, OwnRecord DEF InOrder, Living
<1>3. CASE ~Living(s.child) /\ Goes(d, "inspecting", gone1)
  <2>1. gone1 \in Record
    BY <1>2, Names DEF Record
  <2>2. /\ gone1.step = "probing" /\ gone1.child = None /\ gone1.held = None
        /\ gone1.reply = s.reply
    BY <1>2 DEF Record
  <2>3. InOrder(gone1)
    BY <1>2, <2>1, <2>2 DEF InOrder
  <2> HIDE DEF gone1
  <2> QED BY <1>1, <1>2, <1>3, <2>2, <2>3, SmallStep
<1>4. CASE Living(s.child) /\ Goes(d, "inspecting", Attached(s))
  <2>1. Attached(s) \in Record
    BY <1>2, Names DEF Record, Attached
  <2>2. /\ Attached(s).step = "idle" /\ Attached(s).held = None /\ Attached(s).op = "none"
        /\ Attached(s).reply = "none" /\ Attached(s).child = s.child
        /\ Attached(s).owner = s.owner
    BY <1>2, <1>4 DEF Record, Attached
  <2>3. InOrder(Attached(s))
    BY <1>2, <2>1, <2>2 DEF InOrder
  <2> QED BY <1>1, <1>2, <1>4, <2>2, <2>3, SmallStep
<1>5. CASE Living(s.child) /\ Goes(d, "inspecting", runs)
  <2>1. runs \in Record
    BY <1>2, Names DEF Record
  <2>2. /\ runs.step = "probing" /\ runs.held = None /\ runs.op = s.op /\ runs.running
        /\ runs.reply = s.reply /\ runs.child = s.child /\ runs.owner = s.owner
    BY <1>2 DEF Record
  <2>3. InOrder(runs)
    BY <1>2, <1>5, <2>1, <2>2 DEF InOrder
  <2> HIDE DEF runs
  <2> QED BY <1>1, <1>2, <1>5, <2>2, <2>3, SmallStep
<1> QED BY <1>3, <1>4, <1>5 DEF Inspect

LEMMA InspectFailsStep == ASSUME IInv, NEW d \in Desktop, InspectFails(d) PROVE IInv'
<1> DEFINE s == shell[d]
           t == [Failed(s) EXCEPT !.status = None, !.error = TRUE]
<1>1. d \in alive /\ s.step = "inspecting" /\ Quietly /\ Goes(d, "inspecting", t)
  BY DEF InspectFails, Goes
<1>2. s \in Record /\ InOrder(s) /\ kind = "tauri" /\ s.held = None
  BY <1>1, OwnRecord DEF InOrder
<1>3. Failed(s) \in Record
  BY <1>2, Names DEF Failed, Record
<1>4. t \in Record
  BY <1>3 DEF Record
<1>5. /\ t.step = "idle" /\ t.held = None /\ t.reply \in {"none", "failed"} /\ t.op = "none"
      /\ t.child = s.child /\ t.owner = s.owner
  BY <1>2 DEF Failed, Record
<1>6. InOrder(t)
  BY <1>2, <1>4, <1>5 DEF InOrder
<1> HIDE DEF t
<1> QED BY <1>1, <1>2, <1>5, <1>6, SmallStep

LEMMA ProbeAnsweredStep == ASSUME IInv, NEW d \in Desktop, ProbeAnswered(d) PROVE IInv'
<1> DEFINE s == shell[d]
           t(g) == [Attached(s) EXCEPT !.owner = OwnerAfterProbe(d), !.status = g,
                                       !.child = IF s.running THEN @ ELSE None]
<1>1. d \in alive /\ s.step = "probing" /\ Quietly
  BY DEF ProbeAnswered, Goes
<1>2. s \in Record /\ InOrder(s) /\ kind \in {"tauri", "library"} /\ s.held = None
      /\ (s.child # None => s.owner = "managed" /\ kind = "tauri" /\ s.running /\ s.op # "update")
      /\ (kind = "library" => s.op # "update")
  BY <1>1, OwnRecord DEF InOrder
<1>3. ASSUME NEW g \in Gateway, Goes(d, "probing", t(g))
      PROVE  IInv'
  <2>1. OwnerAfterProbe(d) \in {"managed", "external"}
        /\ (s.child # None => OwnerAfterProbe(d) = "managed")
    BY <1>2 DEF OwnerAfterProbe
  <2>2. Attached(s) \in Record
    BY <1>2, Names DEF Attached, Record
  <2>3. t(g) \in Record
    BY <2>1, <2>2 DEF Record
  <2>4. /\ t(g).step = "idle" /\ t(g).op = "none" /\ ~t(g).running /\ t(g).held = None
        /\ t(g).child = s.child /\ t(g).owner = OwnerAfterProbe(d) /\ t(g).status = g
        /\ t(g).reply = IF s.op = "update" THEN "restarted" ELSE "none"
    BY <1>2 DEF Attached, Record
  <2> HIDE DEF t
  <2>5. InOrder(t(g))
    BY <1>2, <2>1, <2>3, <2>4 DEF InOrder
  <2>6. t(g).reply = "restarted" => t(g).child = None
    BY <1>2, <2>4
  <2>7. LoadsSaved(t(g))
    BY <2>4, <2>6 DEF LoadsSaved, Living
  <2>8. \A h \in Gateway : Living(h) /\ gw[h].from = d => Keeps(t(g), h)
    BY <1>1, <1>2, <2>1, <2>4, OwnRecord, GatewayAssumption DEF Keeps
  <2> QED BY <1>1, <1>3, <2>5, <2>7, <2>8, QuietStep
<1>4. CASE Goes(d, "probing", Failed(s))
  BY <1>1, <1>2, <1>4, FailedStep
<1> QED BY <1>3, <1>4 DEF ProbeAnswered

LEMMA ProbeFailsStep ==
    ASSUME IInv, NEW d \in Desktop, ProbeRefused(d) \/ ProbeSilent(d) \/ SpawnFails(d)
    PROVE  IInv'
<1> DEFINE s == shell[d]
           t == To(d, "spawning")
<1>1. d \in alive /\ s.step \in {"probing", "spawning"} /\ Quietly
  BY DEF ProbeRefused, ProbeSilent, SpawnFails, Goes
<1>2. s \in Record /\ InOrder(s) /\ s.held = None
  BY <1>1, OwnRecord DEF InOrder
<1>3. CASE ProbeSilent(d) /\ ~s.running
  <2>1. Goes(d, "probing", t) /\ s.step = "probing" /\ s.child = None
    BY <1>2, <1>3 DEF ProbeSilent, Goes, InOrder
  <2>2. t \in Record
    BY <1>2, Names DEF To, Record
  <2>3. /\ t.step = "spawning" /\ t.held = None /\ t.child = s.child /\ t.owner = s.owner
        /\ t.op = s.op /\ t.running = s.running /\ t.reply = s.reply
    BY <1>2 DEF To, Record
  <2>4. InOrder(t) /\ t.reply # "restarted"
    BY <1>2, <2>1, <2>2, <2>3 DEF InOrder
  <2> HIDE DEF t
  <2> QED BY <1>1, <1>2, <2>1, <2>3, <2>4, SmallStep
<1>4. CASE ~(ProbeSilent(d) /\ ~s.running)
  BY <1>1, <1>2, <1>4, FailedStep DEF ProbeRefused, ProbeSilent, SpawnFails
<1> QED BY <1>3, <1>4

LEMMA SpawnStep == ASSUME IInv, NEW d \in Desktop, Spawn(d) PROVE IInv'
<1> DEFINE s == shell[d]
           t(g) == [s EXCEPT !.step = "polling", !.held = g]
<1>1. PICK g \in Gateway, compatible \in BOOLEAN :
         /\ Unused(g) /\ d \in alive /\ s.step = "spawning"
         /\ gw' = [gw EXCEPT ![g] = Started(d, compatible)]
         /\ Goes(d, "spawning", t(g))
         /\ UNCHANGED <<lockVars, kind, shared, saved, gone>>
  BY DEF Spawn, Goes
<1>2. s \in Record /\ InOrder(s) /\ s.held = None /\ s.child = None /\ s.reply # "restarted"
  BY <1>1, OwnRecord DEF InOrder
<1>3. Started(d, compatible) \in [state : GatewayState, from : Desktop \cup {None, Outside},
           compatible : BOOLEAN, loaded : 0..MaxSaves, defied : BOOLEAN]
      /\ Started(d, compatible).loaded = saved /\ Started(d, compatible).from = d
  BY DEF Started, GatewayState, IInv
<1>4. gw \in Gateways
  BY DEF IInv
<1>5. gw' \in Gateways /\ gw'[g].loaded = saved /\ gw'[g].from = d
      /\ \A h \in Gateway : h # g => gw'[h] = gw[h]
  BY <1>1, <1>3, <1>4 DEF Gateways
<1>6. PICK r : r = t(g)
  OBVIOUS
<1>7. /\ r \in Record /\ shell' = [shell EXCEPT ![d] = r]
      /\ r.step = "polling" /\ r.held = g /\ r.child = None /\ r.op = s.op
      /\ r.running = s.running /\ r.reply = s.reply
  BY <1>1, <1>2, <1>6, Names DEF Record, Goes
<1>8. InOrder(r)
  BY <1>2, <1>1, <1>6, <1>7, GatewayAssumption DEF InOrder
<1>9. LoadsSaved(r)'
  BY <1>1, <1>2, <1>5, <1>7 DEF LoadsSaved
<1>10. ASSUME NEW h \in Gateway, Living(h)', gw'[h].from = d
       PROVE  Keeps(r, h)'
  <2>1. CASE h = g
    BY <1>7, <2>1 DEF Keeps
  <2>2. CASE h # g
    <3>1. Living(h) /\ gw[h].from = d /\ gw'[h] = gw[h]
      BY <1>5, <1>10, <2>2 DEF Living
    <3>2. Keeps(s, h)
      BY <1>1, <3>1, OwnRecord
    <3> QED BY <1>1, <1>2, <3>1, <3>2, GatewayAssumption DEF Keeps
  <2> QED BY <2>1, <2>2
<1>11. ASSUME NEW h \in Gateway PROVE Evolves(h) \/ (Unused(h) /\ gw'[h].from = d)
  <2>1. CASE h = g
    BY <1>1, <1>5, <2>1
  <2>2. CASE h # g
    BY <1>5, <2>2 DEF Evolves
  <2> QED BY <2>1, <2>2
<1> QED BY <1>1, <1>5, <1>7, <1>8, <1>9, <1>10, <1>11, RecordStep

\* The wait for the child ends.
LEMMA AbortingStep ==
    ASSUME IInv, NEW d \in Desktop, Goes(d, "polling", To(d, "aborting")), Quietly
    PROVE  IInv'
<1> DEFINE s == shell[d]
           t == To(d, "aborting")
<1>1. d \in alive /\ s.step = "polling" /\ Goes(d, "polling", t)
  BY DEF Goes
<1>2. s \in Record /\ InOrder(s)
  BY <1>1, OwnRecord
<1>3. t \in Record
  BY <1>2, Names DEF To, Record
<1>4. /\ t.step = "aborting" /\ t.held = s.held /\ t.child = s.child /\ t.owner = s.owner
      /\ t.op = s.op /\ t.running = s.running /\ t.reply = s.reply
  BY <1>2 DEF To, Record
<1>5. InOrder(t) /\ t.reply # "restarted"
  BY <1>1, <1>2, <1>3, <1>4 DEF InOrder
<1> HIDE DEF t
<1> QED BY <1>1, <1>4, <1>5, SmallStep

LEMMA PollEndsStep ==
    ASSUME IInv, NEW d \in Desktop, PollExpires(d) \/ PollFindsDead(d) \/ AwaitDeath(d)
    PROVE  IInv'
BY AbortingStep, FailedStep DEF PollExpires, PollFindsDead, AwaitDeath

LEMMA PollAnsweredStep == ASSUME IInv, NEW d \in Desktop, PollAnswered(d) PROVE IInv'
<1> DEFINE s == shell[d]
           t(g) == [Attached(s) EXCEPT !.owner = "managed", !.status = g,
                                       !.child = s.held, !.held = None]
<1>1. d \in alive /\ s.step = "polling" /\ Quietly
  BY DEF PollAnswered, Goes
<1>2. s \in Record /\ InOrder(s) /\ s.held \in Gateway /\ s.child = None
      /\ kind \in {"tauri", "library"} /\ s.reply # "restarted"
      /\ (kind = "library" => ~s.running) /\ LoadsSaved(s)
  <2>1. s \in Record /\ InOrder(s) /\ kind \in {"tauri", "library"} /\ LoadsSaved(s)
    BY <1>1, OwnRecord
  <2>2. s.held \in Gateway \cup {None}
    BY <2>1 DEF Record
  <2> QED BY <1>1, <2>1, <2>2 DEF InOrder
<1>3. ASSUME NEW g \in Gateway, Goes(d, "polling", t(g))
      PROVE  IInv'
  <2>1. Attached(s) \in Record
    BY <1>2, Names DEF Attached, Record
  <2>2. t(g) \in Record
    BY <1>2, <2>1 DEF Record
  <2>3. /\ t(g).step = "idle" /\ t(g).op = "none" /\ ~t(g).running /\ t(g).held = None
        /\ t(g).child = s.held /\ t(g).owner = "managed" /\ t(g).status = g
        /\ t(g).reply = IF s.op = "update" THEN "restarted" ELSE "none"
    BY <1>2 DEF Attached, Record
  <2> HIDE DEF t
  <2>4. InOrder(t(g))
    BY <1>2, <2>2, <2>3, GatewayAssumption DEF InOrder
  <2>5. LoadsSaved(t(g))
    BY <1>1, <1>2, <2>3 DEF LoadsSaved
  <2>6. \A h \in Gateway : Living(h) /\ gw[h].from = d => Keeps(t(g), h)
    BY <1>1, <1>2, <2>3, OwnRecord, GatewayAssumption DEF Keeps
  <2> QED BY <1>1, <1>3, <2>4, <2>5, <2>6, QuietStep
<1>4. CASE Goes(d, "polling", To(d, "aborting"))
  BY <1>1, <1>4, AbortingStep
<1> QED BY <1>3, <1>4 DEF PollAnswered

\* Killing a gateway keeps the others as they are, ...
LEMMA KillsOne ==
    ASSUME IInv, NEW g \in Gateway, gw' = [gw EXCEPT ![g] = Dead]
    PROVE  /\ gw' \in Gateways /\ gw'[g].state = "none"
           /\ \A h \in Gateway : h # g => gw'[h] = gw[h]
           /\ \A h \in Gateway : Evolves(h)
<1>1. gw \in Gateways
  BY DEF IInv
<1>2. Dead \in [state : GatewayState, from : Desktop \cup {None, Outside},
                compatible : BOOLEAN, loaded : 0..MaxSaves, defied : BOOLEAN]
      /\ Dead.state = "none"
  BY MaxSavesAssumption DEF Dead, GatewayState
<1>3. gw' \in Gateways /\ gw'[g].state = "none" /\ \A h \in Gateway : h # g => gw'[h] = gw[h]
  BY <1>1, <1>2 DEF Gateways
<1> QED BY <1>3 DEF Evolves

\* ... and so does failing to.
LEMMA DefiesOne ==
    ASSUME IInv, NEW g \in Gateway, gw' = [gw EXCEPT ![g].defied = TRUE]
    PROVE  /\ gw' \in Gateways /\ gw'[g].defied
           /\ gw'[g].state = gw[g].state /\ gw'[g].loaded = gw[g].loaded
           /\ \A h \in Gateway : h # g => gw'[h] = gw[h]
           /\ \A h \in Gateway : Evolves(h)
<1>1. gw \in Gateways
  BY DEF IInv
<1>2. /\ gw' \in Gateways /\ gw'[g].defied /\ \A h \in Gateway : h # g => gw'[h] = gw[h]
      /\ gw'[g].state = gw[g].state /\ gw'[g].from = gw[g].from
      /\ gw'[g].loaded = gw[g].loaded
  BY <1>1 DEF Gateways
<1> QED BY <1>2 DEF Evolves

\* A step that lets go of the gateway in hand: killed, or not to be killed by
\* the library.
LEMMA ReleaseStep ==
    ASSUME IInv, NEW d \in alive, NEW t, shell' = [shell EXCEPT ![d] = t],
           UNCHANGED <<lockVars, kind, shared, saved, gone>>,
           shell[d].held \in Gateway, InOrder(t), t.held = None,
           t.reply # "restarted",
           \/ gw' = [gw EXCEPT ![shell[d].held] = Dead]
           \/ kind = "library" /\ gw' = [gw EXCEPT ![shell[d].held].defied = TRUE]
    PROVE  IInv'
<1>1. PICK g \in Gateway : g = shell[d].held
  OBVIOUS
<1>2. /\ gw' \in Gateways /\ \A h \in Gateway : h # g => gw'[h] = gw[h]
      /\ \A h \in Gateway : Evolves(h)
      /\ gw'[g].state = "none" \/ (kind = "library" /\ gw'[g].defied)
  BY <1>1, KillsOne, DefiesOne
<1>3. ASSUME NEW h \in Gateway, Living(h)', gw'[h].from = d
      PROVE  Keeps(t, h)'
  <2>1. CASE h = g
    BY <1>2, <1>3, <2>1 DEF Keeps, Living
  <2>2. CASE h # g
    <3>1. Living(h) /\ gw[h].from = d /\ gw'[h] = gw[h]
      BY <1>2, <1>3, <2>2 DEF Living
    <3>2. Keeps(shell[d], h) /\ InOrder(shell[d])
      BY <3>1, OwnRecord
    <3> QED BY <1>1, <2>2, <3>1, <3>2, GatewayAssumption DEF Keeps, InOrder
  <2> QED BY <2>1, <2>2
<1>4. LoadsSaved(t)'
  BY GatewayAssumption DEF LoadsSaved, Living
<1> QED BY <1>2, <1>3, <1>4, RecordStep

LEMMA AbortStep == ASSUME IInv, NEW d \in Desktop, Abort(d) \/ AbortRefused(d) PROVE IInv'
<1> DEFINE s == shell[d]
           f == Failed([s EXCEPT !.held = None])
           w == To(d, "waiting")
<1>1. d \in alive /\ s.step = "aborting" /\ UNCHANGED <<lockVars, kind, shared, saved, gone>>
  BY DEF Abort, AbortRefused, Goes
<1>2. s \in Record /\ InOrder(s) /\ s.held \in Gateway /\ kind \in {"tauri", "library"}
  <2>1. s \in Record /\ InOrder(s) /\ kind \in {"tauri", "library"}
    BY <1>1, OwnRecord
  <2>2. s.held \in Gateway \cup {None}
    BY <2>1 DEF Record
  <2> QED BY <1>1, <2>1, <2>2 DEF InOrder
<1>3. CASE kind = "tauri" /\ Goes(d, "aborting", w) /\ UNCHANGED gw
  <2>1. w \in Record
    BY <1>2, Names DEF To, Record
  <2>2. /\ w.step = "waiting" /\ w.held = s.held /\ w.child = s.child /\ w.owner = s.owner
        /\ w.op = s.op /\ w.running = s.running /\ w.reply = s.reply
    BY <1>2 DEF To, Record
  <2>3. InOrder(w) /\ w.reply # "restarted"
    BY <1>1, <1>2, <1>3, <2>1, <2>2 DEF InOrder
  <2>4. Quietly
    BY <1>1, <1>3 DEF Quietly
  <2> HIDE DEF w
  <2> QED BY <1>3, <2>2, <2>3, <2>4, SmallStep
<1>4. CASE /\ Goes(d, "aborting", f)
           /\ \/ gw' = [gw EXCEPT ![s.held] = Dead]
              \/ kind = "library" /\ gw' = [gw EXCEPT ![s.held].defied = TRUE]
  <2>1. f = [Failed(s) EXCEPT !.held = None]
    BY <1>2 DEF Failed, Record
  <2>2. InOrder(f)
    BY <1>1, <1>2, <2>1, FailedInOrder
  <2>3. f.held = None /\ f.reply # "restarted"
    BY <1>2 DEF Failed, Record
  <2>4. shell' = [shell EXCEPT ![d] = f]
    BY <1>4 DEF Goes
  <2> HIDE DEF f
  <2> QED BY <1>1, <1>2, <1>4, <2>2, <2>3, <2>4, ReleaseStep
<1> QED BY <1>2, <1>3, <1>4 DEF Abort, AbortRefused

\* Where an operation goes on when it has stopped its gateway.
LEMMA StoppedInOrder ==
    ASSUME NEW s, s \in Record, InOrder(s), kind \in {"tauri", "library"},
           s.step \in {"stopping", "killing"}, s.child = None
    PROVE  /\ InOrder(Stopped(s)) /\ Stopped(s).held = None /\ Stopped(s).child = None
           /\ Stopped(s).reply # "restarted" /\ Stopped(s).step # "polling"
<1> DEFINE t == Stopped(s)
<1>1. t \in Record
  BY Names DEF Stopped, Record
<1>2. /\ t.step \in {"inspecting", "leaving", "idle"} /\ t.held = None /\ t.child = s.child
      /\ t.op \in {s.op, "none"} /\ t.running = s.running /\ t.reply = s.reply
      /\ t.step = "inspecting" => s.op = "update"
      /\ t.step = "leaving" => s.op = "quit"
  BY DEF Stopped, Record
<1> HIDE DEF t
<1>3. InOrder(t)
  BY <1>1, <1>2 DEF InOrder
<1>4. t.reply # "restarted"
  BY <1>2 DEF InOrder
<1> QED BY <1>2, <1>3, <1>4 DEF t

LEMMA StopStarts ==
    ASSUME IInv, NEW d \in Desktop, BeginStop(d) \/ BeginQuit(d)
    PROVE  IInv'
<1> DEFINE s == shell[d]
<1>1. PICK op \in {"stop", "quit"} :
         /\ d \in alive /\ s.step = "idle" /\ Quietly
         /\ Goes(d, "idle", Begin(d, op, "stopping"))
         /\ kind = IF op = "stop" THEN "library" ELSE "tauri"
  BY DEF BeginStop, BeginQuit, Goes
<1> DEFINE t == Begin(d, op, "stopping")
<1>2. s \in Record /\ InOrder(s) /\ s.held = None
  BY <1>1, OwnRecord DEF InOrder
<1>3. t \in Record
  BY <1>2, Names DEF Begin, Record
<1>4. /\ t.step = "stopping" /\ t.held = None /\ t.child = s.child /\ t.owner = s.owner
      /\ t.op = op /\ t.running = s.running /\ t.reply = "none" /\ t.status = s.status
  BY <1>2 DEF Begin, Record
<1>5. Goes(d, "idle", t)
  BY <1>1
<1> HIDE DEF t
<1>6. InOrder(t)
  BY <1>1, <1>2, <1>3, <1>4 DEF InOrder
<1> QED BY <1>1, <1>2, <1>4, <1>5, <1>6, SmallStep

\* An update makes every earlier answer old, and there is no other process
\* that has one.
LEMMA BeginUpdateStep == ASSUME IInv, NEW d \in Desktop, BeginUpdate(d) PROVE IInv'
<1> DEFINE s == shell[d]
           u == Begin(d, "update", "stopping")
           v == [Begin(d, "none", "idle") EXCEPT !.reply = "saved"]
           w == [Begin(d, "none", "idle") EXCEPT !.reply = "failed"]
<1>1. /\ d \in alive /\ s.step = "idle" /\ kind = "tauri" /\ saved < MaxSaves
      /\ saved' = saved + 1 /\ UNCHANGED gw
      /\ UNCHANGED <<lockVars, kind, shared, gone>>
      /\ shell' \in {[shell EXCEPT ![d] = r] : r \in {u, v, w}}
  <2>1. d \in alive /\ s.step = "idle"
    BY DEF BeginUpdate, Goes
  <2> QED BY <2>1 DEF BeginUpdate, Goes
<1>2. s \in Record /\ InOrder(s) /\ s.held = None
  BY <1>1, OwnRecord DEF InOrder
<1>3. PICK r :
         /\ shell' = [shell EXCEPT ![d] = r] /\ r \in Record
         /\ r.step \in {"stopping", "idle"} /\ r.held = None /\ r.child = s.child
         /\ r.owner = s.owner /\ r.running = s.running /\ r.reply \in {"none", "saved", "failed"}
         /\ r.op = "update" => r.step = "stopping"
  <2>1. Begin(d, "none", "idle") \in Record
    BY <1>2, Names DEF Begin, Record
  <2>2. u \in Record /\ v \in Record /\ w \in Record
    BY <1>2, <2>1, Names DEF Begin, Record
  <2>3. /\ u.step = "stopping" /\ u.held = None /\ u.child = s.child
        /\ u.owner = s.owner /\ u.running = s.running /\ u.reply = "none"
    BY <1>2 DEF Begin, Record
  <2>4. /\ v.step = "idle" /\ v.held = None /\ v.child = s.child /\ v.op = "none"
        /\ v.owner = s.owner /\ v.running = s.running /\ v.reply = "saved"
    BY <1>2 DEF Begin, Record
  <2>5. /\ w.step = "idle" /\ w.held = None /\ w.child = s.child /\ w.op = "none"
        /\ w.owner = s.owner /\ w.running = s.running /\ w.reply = "failed"
    BY <1>2 DEF Begin, Record
  <2> HIDE DEF u, v, w
  <2> QED BY <1>1, <2>2, <2>3, <2>4, <2>5
<1>4. InOrder(r)
  BY <1>1, <1>2, <1>3 DEF InOrder
<1>5. d \in Desktop /\ (\A e \in Desktop : e # d => shell'[e] = Fresh) /\ shell'[d] = r
  BY <1>1, <1>3 DEF IInv
<1>6. LockInv' /\ saved' \in 0..MaxSaves /\ shell' \in [Desktop -> Record]
  <2>1. LockInv'
    BY <1>1 DEF IInv, lockVars, LockInv, LockTypeOK, HolderIsAtPath
  <2>2. saved' \in 0..MaxSaves
    BY <1>1, MaxSavesAssumption DEF IInv
  <2> QED BY <1>3, <2>1, <2>2 DEF IInv
<1>7. ASSUME NEW e \in Desktop PROVE InOrder(shell[e])' /\ LoadsSaved(shell[e])'
  <2>1. CASE e = d
    BY <1>1, <1>3, <1>4, <1>5, <2>1 DEF InOrder, LoadsSaved
  <2>2. CASE e # d
    <3>1. shell'[e] = Fresh
      BY <1>5, <2>2
    <3> QED BY <3>1, <1>1, FreshInOrder DEF InOrder, LoadsSaved, Fresh
  <2> QED BY <2>1, <2>2
<1>8. ASSUME NEW e \in Desktop, NEW g \in Gateway, Living(g)', gw'[g].from = e
      PROVE  IF e \in alive THEN Keeps(shell[e], g)'
             ELSE e \in gone => gw'[g].defied /\ kind = "library"
  <2>1. Living(g) /\ gw[g].from = e
    BY <1>1, <1>8 DEF Living
  <2>2. CASE e = d
    <3>1. Keeps(s, g)
      BY <1>1, <2>1, <2>2, OwnRecord
    <3> QED BY <1>1, <1>2, <1>3, <1>5, <2>2, <3>1 DEF Keeps
  <2>3. CASE e # d
    BY <1>1, <2>1, <2>3 DEF IInv
  <2> QED BY <2>2, <2>3
<1> QED BY <1>1, <1>5, <1>6, <1>7, <1>8 DEF IInv, lockVars

LEMMA TakeChildStep == ASSUME IInv, NEW d \in Desktop, TakeChild(d) PROVE IInv'
<1> DEFINE s == shell[d]
           k == [s EXCEPT !.step = "killing", !.status = None, !.held = s.child, !.child = None]
           l == [s EXCEPT !.child = None]
<1>1. /\ d \in alive /\ s.step = "stopping" /\ Quietly
      /\ Goes(d, "stopping", IF s.owner = "managed" /\ s.child # None THEN k ELSE Stopped(l))
  BY DEF TakeChild, Goes
<1>2. s \in Record /\ InOrder(s) /\ kind \in {"tauri", "library"} /\ s.held = None
      /\ s.reply # "restarted"
      /\ (s.child # None => s.owner = "managed")
  BY <1>1, OwnRecord DEF InOrder
<1>3. CASE s.owner = "managed" /\ s.child # None
  <2>1. k \in Record
    BY <1>2, Names DEF Record
  <2>2. /\ k.step = "killing" /\ k.held = s.child /\ k.child = None /\ k.owner = "managed"
        /\ k.op = s.op /\ k.running = s.running /\ k.reply = s.reply
    BY <1>2, <1>3 DEF Record
  <2>3. Goes(d, "stopping", k)
    BY <1>1, <1>3
  <2> HIDE DEF k
  <2>4. InOrder(k)
    BY <1>1, <1>2, <1>3, <2>1, <2>2 DEF InOrder
  <2>5. LoadsSaved(k)
    BY <1>2, <2>2 DEF LoadsSaved
  <2>6. \A g \in Gateway : Living(g) /\ gw[g].from = d => Keeps(k, g)
    BY <1>1, <1>2, <2>2, OwnRecord, GatewayAssumption DEF Keeps
  <2> QED BY <1>1, <2>3, <2>4, <2>5, <2>6, QuietStep
<1>4. CASE ~(s.owner = "managed" /\ s.child # None)
  <2>1. s.child = None /\ l = s
    BY <1>2, <1>4 DEF Record
  <2>2. Goes(d, "stopping", Stopped(s))
    BY <1>1, <1>4, <2>1
  <2>3. /\ InOrder(Stopped(s)) /\ Stopped(s).held = s.held /\ Stopped(s).child = s.child
        /\ Stopped(s).reply # "restarted" /\ Stopped(s).step # "polling"
    BY <1>1, <1>2, <2>1, StoppedInOrder
  <2>4. ~Living(s.child)
    BY <2>1 DEF Living
  <2> QED BY <1>1, <2>2, <2>3, <2>4, SmallStep
<1> QED BY <1>3, <1>4

LEMMA KillStep == ASSUME IInv, NEW d \in Desktop, Kill(d) \/ KillRefused(d) PROVE IInv'
<1> DEFINE s == shell[d]
           k == [Failed(s) EXCEPT !.child = s.held, !.held = None, !.error = TRUE]
<1>1. /\ d \in alive /\ s.step = "killing"
      /\ UNCHANGED <<lockVars, kind, shared, saved, gone>>
  BY DEF Kill, KillRefused, Goes
<1>2. s \in Record /\ InOrder(s) /\ kind \in {"tauri", "library"} /\ s.held \in Gateway
      /\ s.child = None /\ s.owner = "managed" /\ s.reply # "restarted"
  <2>1. s \in Record /\ InOrder(s) /\ kind \in {"tauri", "library"}
    BY <1>1, OwnRecord
  <2>2. s.held \in Gateway \cup {None}
    BY <2>1 DEF Record
  <2> QED BY <1>1, <2>1, <2>2 DEF InOrder
<1>3. CASE kind = "tauri" /\ Goes(d, "killing", k) /\ UNCHANGED gw
  <2>1. Failed(s) \in Record
    BY <1>2, Names DEF Failed, Record
  <2>2. k \in Record
    BY <1>2, <2>1 DEF Record
  <2>3. /\ k.step = "idle" /\ k.held = None /\ k.child = s.held /\ k.owner = "managed"
        /\ k.op = "none" /\ ~k.running /\ k.reply \in {"none", "failed"}
    BY <1>2 DEF Failed, Record
  <2> HIDE DEF k
  <2>4. InOrder(k)
    BY <1>2, <1>3, <2>2, <2>3 DEF InOrder
  <2>5. LoadsSaved(k)
    BY <2>3 DEF LoadsSaved
  <2>6. \A g \in Gateway : Living(g) /\ gw[g].from = d => Keeps(k, g)
    BY <1>1, <1>2, <2>3, OwnRecord, GatewayAssumption DEF Keeps
  <2>7. Quietly
    BY <1>1, <1>3 DEF Quietly
  <2> QED BY <1>3, <2>4, <2>5, <2>6, <2>7, QuietStep
<1>4. CASE /\ Goes(d, "killing", Stopped(s))
           /\ \/ gw' = [gw EXCEPT ![s.held] = Dead]
              \/ kind = "library" /\ gw' = [gw EXCEPT ![s.held].defied = TRUE]
  <2>1. InOrder(Stopped(s)) /\ Stopped(s).held = None /\ Stopped(s).reply # "restarted"
    BY <1>1, <1>2, StoppedInOrder
  <2>2. shell' = [shell EXCEPT ![d] = Stopped(s)]
    BY <1>4 DEF Goes
  <2> QED BY <1>1, <1>2, <1>4, <2>1, <2>2, ReleaseStep
<1> QED BY <1>2, <1>3, <1>4 DEF Kill, KillRefused

\* A process that leaves by itself keeps no gateway; one that crashes is not
\* held to it.
LEMMA EndStep == ASSUME IInv, NEW d \in Desktop, Leave(d) \/ Crash(d) PROVE IInv'
<1>1. /\ Die(d) /\ d \in alive /\ shell' = [shell EXCEPT ![d] = Fresh]
      /\ UNCHANGED <<kind, shared, gw, saved>> /\ gone' \in {gone, gone \cup {d}}
  BY DEF Leave, Crash, Die
<1>2. LockInv' /\ alive' = alive \ {d}
  BY <1>1, DieKeeps DEF IInv
<1>3. Fresh \in Record
  BY Names DEF Fresh, Record
<1>4. shell' \in [Desktop -> Record] /\ shell'[d] = Fresh
      /\ \A e \in Desktop : e # d => shell'[e] = shell[e]
  BY <1>1, <1>3 DEF IInv
<1>5. ASSUME NEW e \in Desktop PROVE InOrder(shell[e])' /\ LoadsSaved(shell[e])'
  <2>1. CASE e = d
    <3>1. InOrder(Fresh) /\ LoadsSaved(Fresh)
      BY FreshInOrder DEF IInv
    <3> QED BY <1>1, <1>4, <2>1, <3>1 DEF InOrder, LoadsSaved, Living
  <2>2. CASE e # d
    <3>1. shell'[e] = shell[e] /\ InOrder(shell[e]) /\ LoadsSaved(shell[e])
      BY <1>4, <2>2 DEF IInv
    <3> QED BY <1>1, <3>1 DEF InOrder, LoadsSaved, Living
  <2> QED BY <2>1, <2>2
<1>6. ASSUME NEW e \in Desktop, NEW g \in Gateway, Living(g)', gw'[g].from = e
      PROVE  IF e \in alive' THEN Keeps(shell[e], g)'
             ELSE e \in gone' => gw'[g].defied /\ kind' = "library"
  <2>1. Living(g) /\ gw[g].from = e
    BY <1>1, <1>6 DEF Living
  <2>2. CASE e # d
    BY <1>1, <1>2, <1>4, <2>1, <2>2 DEF IInv, Keeps
  <2>3. CASE e = d /\ gone' = gone
    BY <1>1, <1>2, <2>3 DEF IInv
  <2>4. CASE e = d /\ Leave(d)
    <3>1. shell[d].held = None /\ shell[d].child = None
      BY <1>1, <2>4, OwnRecord DEF Leave, Unattached, InOrder
    <3> QED BY <1>1, <1>2, <2>1, <2>4, <3>1, OwnRecord, GatewayAssumption DEF Keeps
  <2> QED BY <2>2, <2>3, <2>4 DEF Crash
<1>7. gone' \subseteq Desktop \ alive'
  BY <1>1, <1>2 DEF IInv
<1>8. \A e \in Desktop \ alive' : shell'[e] = Fresh
  BY <1>2, <1>4 DEF IInv
<1>9. kind' = "tauri" => \A e, f \in alive' : e = f
  BY <1>1, <1>2 DEF IInv
<1> QED BY <1>1, <1>2, <1>4, <1>5, <1>6, <1>7, <1>8, <1>9 DEF IInv

\* The lock and the gateways know nothing of each other.
LEMMA LockStepOfKeeps == ASSUME IInv, NEW d \in Desktop, LockStepOf(d) PROVE IInv'
<1>1. LockInv' /\ UNCHANGED alive /\ UNCHANGED shellVars
  BY LockStepKeeps DEF IInv, LockStepOf
<1> QED BY <1>1 DEF IInv, shellVars, InOrder, LoadsSaved, Keeps, Living

LEMMA GatewaysMove ==
    ASSUME IInv, NEW g \in Gateway, OutsideStart(g) \/ Bind(g) \/ GatewayDies(g)
    PROVE  IInv'
<1> DEFINE Process == [state : GatewayState, from : Desktop \cup {None, Outside},
                       compatible : BOOLEAN, loaded : 0..MaxSaves, defied : BOOLEAN]
<1>1. gw \in [Gateway -> Process] /\ saved \in 0..MaxSaves
  BY DEF IInv, Gateways
<1>2. Dead \in Process /\ Dead.state = "none"
  BY MaxSavesAssumption DEF Dead, GatewayState
<1>3. ASSUME NEW c \in BOOLEAN
      PROVE  Started(Outside, c) \in Process /\ Started(Outside, c).from = Outside
  BY <1>1 DEF Started, GatewayState
<1>4. PICK p \in Process :
         /\ GatewayChanges(g, p)
         /\ \/ p.state = "none"
            \/ Unused(g) /\ p.from = Outside
            \/ /\ gw[g].state # "none" /\ p.from = gw[g].from /\ p.loaded = gw[g].loaded
               /\ p.defied = gw[g].defied
  <2>1. CASE OutsideStart(g)
    BY <1>3, <2>1 DEF OutsideStart
  <2>2. CASE GatewayDies(g)
    BY <1>2, <2>2 DEF GatewayDies
  <2>3. CASE Bind(g)
    <3>1. [gw[g] EXCEPT !.state = "serving"] \in Process
          /\ [gw[g] EXCEPT !.state = "serving"].from = gw[g].from
          /\ [gw[g] EXCEPT !.state = "serving"].loaded = gw[g].loaded
          /\ [gw[g] EXCEPT !.state = "serving"].defied = gw[g].defied
      BY <1>1 DEF GatewayState
    <3> QED BY <1>2, <2>3, <3>1 DEF Bind
  <2> QED BY <2>1, <2>2, <2>3
<1>5. gw' = [gw EXCEPT ![g] = p] /\ UNCHANGED <<lockVars, kind, shared, saved, shell, gone>>
  BY <1>4 DEF GatewayChanges
<1>6. gw' \in Gateways /\ gw'[g] = p /\ \A h \in Gateway : h # g => gw'[h] = gw[h]
  BY <1>1, <1>5 DEF Gateways
<1>7. ASSUME NEW h \in Gateway PROVE Evolves(h) \/ (Unused(h) /\ gw'[h].from = Outside)
  <2>1. CASE h = g
    BY <1>4, <1>6, <2>1 DEF Evolves
  <2>2. CASE h # g
    BY <1>6, <2>2 DEF Evolves
  <2> QED BY <2>1, <2>2
<1> QED BY <1>5, <1>6, <1>7, GatewayStep

----------------------------------------------------------------------------
LEMMA ShellMoves == IInv /\ [Next]_vars => IInv'
<1> SUFFICES ASSUME IInv, [Next]_vars PROVE IInv'
  OBVIOUS
<1>1. CASE \E g \in Gateway : OutsideStart(g) \/ Bind(g) \/ GatewayDies(g)
  BY <1>1, GatewaysMove
<1>2. ASSUME NEW d \in Desktop,
             \/ LockStepOf(d)
             \/ BeginAttach(d) \/ Inspect(d) \/ InspectFails(d)
             \/ ProbeAnswered(d) \/ ProbeRefused(d) \/ ProbeSilent(d)
             \/ Spawn(d) \/ SpawnFails(d)
             \/ PollAnswered(d) \/ PollExpires(d) \/ PollFindsDead(d)
             \/ Abort(d) \/ AbortRefused(d) \/ AwaitDeath(d)
             \/ BeginUpdate(d) \/ BeginStop(d) \/ BeginQuit(d)
             \/ TakeChild(d) \/ Kill(d) \/ KillRefused(d)
             \/ Leave(d) \/ Crash(d)
      PROVE  IInv'
  BY <1>2, LockStepOfKeeps, BeginAttachStep, InspectStep, InspectFailsStep,
     ProbeAnsweredStep, ProbeFailsStep, SpawnStep, PollAnsweredStep, PollEndsStep,
     AbortStep, BeginUpdateStep, StopStarts, TakeChildStep, KillStep, EndStep
<1>3. CASE UNCHANGED vars
  BY <1>3 DEF vars, lockVars, shellVars, IInv, LockInv, LockTypeOK, HolderIsAtPath, InOrder,
              LoadsSaved, Keeps, Living
<1> QED BY <1>1, <1>2, <1>3 DEF Next

\* The inductive invariant: the records are in order, what an update started
\* has loaded what it saved, and nothing that was started is out of reach.
THEOREM DesktopInvariant == Spec => []IInv
<1>1. Init => IInv
  BY ShellStarts
<1>2. IInv /\ [Next]_vars => IInv'
  BY ShellMoves
<1> QED BY <1>1, <1>2, PTL DEF Spec

\* Types, and a gateway in hand exactly where an operation waits for it or
\* kills it (the locals of start_or_attach and stop_managed).
THEOREM DesktopTypes == Spec => []TypeOK
<1>1. IInv => TypeOK
  BY DEF IInv, LockInv, Gateways, Record, InOrder, TypeOK
<1> QED BY <1>1, DesktopInvariant, PTL

\* Where an open file cannot be renamed or removed, two desktop processes never
\* own the profile at once (InstanceLock.Acquire), whatever the gateways do.
THEOREM OneDesktopOwns == ~CanMoveOpenFile => (Spec => []OneDesktop)
<1>1. ASSUME ~CanMoveOpenFile, IInv PROVE OneDesktop
  BY <1>1, LockInvMeans DEF IInv
<1> SUFFICES ASSUME ~CanMoveOpenFile PROVE Spec => []OneDesktop
  OBVIOUS
<1>2. IInv => OneDesktop
  BY <1>1
<1> QED BY <1>2, DesktopInvariant, PTL

\* A desktop that runs can still stop every gateway it has started, and one
\* that left by itself left none behind (stop_managed, GatewayConnection.Stop).
THEOREM ChildrenStayKept == Spec => []ChildrenAreKept
<1>1. IInv => ChildrenAreKept
  BY DEF IInv, Keeps, ChildrenAreKept
<1> QED BY <1>1, DesktopInvariant, PTL

\* An update that was answered with "restarted" is in force
\* (update_gateway_config).
THEOREM RestartsTookPlace == Spec => []RestartsAreTrue
<1>1. IInv => RestartsAreTrue
  BY DEF IInv, LoadsSaved, RestartsAreTrue
<1> QED BY <1>1, DesktopInvariant, PTL
============================================================================
