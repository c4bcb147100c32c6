------------------------- MODULE ControlPlaneProofs -------------------------
(***************************************************************************)
(* Proofs about ControlPlane for any models, clients and bounds: the pin   *)
(* stays in the pool, a revision names one state, and only clients and     *)
(* restarts change what has been chosen.                                   *)
(***************************************************************************)
EXTENDS ControlPlane, TLAPS

(***************************************************************************)
(* Lemmas about the pool.                                                  *)
(***************************************************************************)

\* The empty gateway's state is a control state, and its pin is in order.
LEMMA DefaultsType == Defaults \in Control /\ PinInPool(Defaults)
BY DEF Defaults, Control, Mode, PinInPool

\* Taking away a pin that the pool has lost makes a good control state of any
\* selection (UpdateModelPool, ReplaceModelPool).
LEMMA PoolType ==
    ASSUME control \in Control, NEW selected \in SUBSET Model, NEW mode \in Mode
    PROVE  Pool(selected, mode) \in Control /\ PinInPool(Pool(selected, mode))
BY DEF Pool, KeptPin, Control, PinInPool

\* A control state whose pin is replaced by a model of the catalog and of the
\* pool is a good one (PinModel).
LEMMA PinType ==
    ASSUME control \in Control, NEW m \in control.selected
    PROVE  /\ [control EXCEPT !.pinned = m] \in Control
           /\ PinInPool([control EXCEPT !.pinned = m])
BY DEF Control, PinInPool

\* Without a pin every selection is a good one (AutoSelect).
LEMMA UnpinnedType ==
    ASSUME NEW selected \in SUBSET Model, NEW mode \in Mode
    PROVE  LET state == [selected |-> selected, mode |-> mode, pinned |-> NoModel]
           IN  state \in Control /\ PinInPool(state)
BY DEF Control, PinInPool

\* Every pool request of a client is one mutation to a good control state.
LEMMA PoolRequestMutates ==
    ASSUME TypeOK, NEW c \in Client, PoolRequest(c)
    PROVE  \E next \in Control, tombs \in SUBSET Model :
               PinInPool(next) /\ Mutate(c, next, tombs)
<1>1. control \in Control /\ control.selected \in SUBSET Model
         /\ control.mode \in Mode /\ catalog \in SUBSET Model /\ tombstones \in SUBSET Model
  BY DEF TypeOK, Control
<1>2. control.selected \cup AutoRoutable(catalog) \in SUBSET Model
  BY <1>1 DEF AutoRoutable
<1>3. "Automatic" \in Mode /\ "Manual" \in Mode
  BY DEF Mode
<1>4. CASE SelectAll(c)
  <2>1. LET next == Pool(control.selected \cup AutoRoutable(catalog), "Automatic")
        IN  next \in Control /\ PinInPool(next)
    BY <1>1, <1>2, <1>3, PoolType
  <2> QED BY <1>4, <2>1 DEF SelectAll
<1>5. CASE ClearAll(c)
  <2>1. Pool({}, "Manual") \in Control /\ PinInPool(Pool({}, "Manual"))
    BY <1>1, <1>3, PoolType
  <2> QED BY <1>5, <2>1 DEF ClearAll
<1>6. CASE \E add, remove \in SUBSET Model : \E mode \in ItemModes(add, remove) :
               SelectModels(c, add, remove, mode)
  <2>1. PICK add \in SUBSET Model, remove \in SUBSET Model :
            \E mode \in ItemModes(add, remove) : SelectModels(c, add, remove, mode)
    BY <1>6
  <2>2. PICK mode \in ItemModes(add, remove) : SelectModels(c, add, remove, mode)
    BY <2>1
  <2>3. mode \in Mode /\ (control.selected \cup add) \ remove \in SUBSET Model
    BY <1>1, <1>3, <2>2 DEF ItemModes
  <2>4. LET next == Pool((control.selected \cup add) \ remove, mode)
        IN  next \in Control /\ PinInPool(next)
    BY <1>1, <2>3, PoolType
  <2> QED BY <2>2, <2>4 DEF SelectModels
<1>7. CASE \E selected \in SUBSET Model, mode \in Mode : ReplaceModelPool(c, selected, mode)
  <2>1. PICK selected \in SUBSET Model, mode \in Mode : ReplaceModelPool(c, selected, mode)
    BY <1>7
  <2>2. Pool(selected, mode) \in Control /\ PinInPool(Pool(selected, mode))
    BY <1>1, <2>1, PoolType
  <2> QED BY <2>1, <2>2 DEF ReplaceModelPool
<1>8. CASE \E m \in Model : PinModel(c, m)
  <2>1. PICK m \in Model : PinModel(c, m)
    BY <1>8
  <2>2. m \in control.selected
    BY <2>1 DEF PinModel
  <2>3. /\ [control EXCEPT !.pinned = m] \in Control
        /\ PinInPool([control EXCEPT !.pinned = m])
    BY <1>1, <2>2, PinType
  <2> QED BY <1>1, <2>1, <2>3 DEF PinModel
<1>9. CASE AutoSelect(c)
  <2>1. LET next == [selected |-> control.selected \cup AutoRoutable(catalog),
                     mode |-> "Automatic", pinned |-> NoModel]
        IN  next \in Control /\ PinInPool(next)
    BY <1>2, <1>3, UnpinnedType
  <2> QED BY <1>9, <2>1 DEF AutoSelect
<1> QED BY <1>4, <1>5, <1>6, <1>7, <1>8, <1>9 DEF PoolRequest

\* A refresh adds models of the catalog to the selection and changes nothing
\* else of the control state (Reconcile).
LEMMA RefreshAdds ==
    ASSUME TypeOK, NEW models \in SUBSET Model, RefreshCatalog(models)
    PROVE  /\ control' \in Control
           /\ control.selected \subseteq control'.selected
           /\ control'.pinned = control.pinned
           /\ control'.mode = control.mode
<1>1. control \in Control /\ Included(models, excluded, control.mode) \in SUBSET Model
  BY DEF TypeOK, Included, DefaultSelected, AutoRoutable
<1>2. control' = [control EXCEPT !.selected =
                     @ \cup Included(models, excluded, control.mode)]
  BY DEF RefreshCatalog
<1> QED BY <1>1, <1>2 DEF Control

\* What a restart makes of a saved selection is a selection.
LEMMA BootPoolType ==
    ASSUME NEW saved \in Control, NEW models \in SUBSET Model, NEW ex \in SUBSET Generic
    PROVE  BootPool(saved, models, ex) \in SUBSET Model
BY ControlAssumption
   DEF BootPool, GenericPolicy, Included, DefaultSelected, AutoRoutable, Control

\* A start of the gateway serves the saved mode and pin, and a pool that has
\* the pin.
LEMMA BootControl ==
    ASSUME TypeOK, NEW models \in SUBSET Model, Boot(models)
    PROVE  /\ control' \in Control
           /\ PinInPool(control')
           /\ control'.mode = disk.control.mode
           /\ control'.pinned = disk.control.pinned
           /\ control'.selected = BootPool(disk.control, models, disk.excluded)
<1>1. disk.control \in Control /\ disk.excluded \in SUBSET Generic
  BY DEF TypeOK, Config
<1>2. BootPool(disk.control, models, disk.excluded) \in SUBSET Model
  BY <1>1, BootPoolType
<1>3. control' = [selected |-> BootPool(disk.control, models, disk.excluded),
                  mode |-> disk.control.mode, pinned |-> disk.control.pinned]
  BY DEF Boot
<1>4. disk.control.pinned = NoModel
         \/ disk.control.pinned \in BootPool(disk.control, models, disk.excluded)
  BY DEF Boot
<1> QED BY <1>1, <1>2, <1>3, <1>4 DEF Control, PinInPool

\* A configuration with another control state, or other exclusions, is one.
LEMMA ConfigUpdateType ==
    ASSUME NEW config \in Config, NEW state \in Control, NEW ex \in SUBSET Generic
    PROVE  /\ [config EXCEPT !.control = state] \in Config
           /\ [config EXCEPT !.control = state].control = state
           /\ [config EXCEPT !.excluded = ex] \in Config
           /\ [config EXCEPT !.excluded = ex].control = config.control
BY DEF Config

\* A save leaves the file alone or puts the configuration there.
LEMMA SaveOutcome ==
    ASSUME NEW config, SaveSucceeds(config) \/ SaveFails(config)
    PROVE  disk' = disk \/ disk' = config
BY DEF SaveSucceeds, SaveFails

\* Writing the value that a record's field already has changes nothing.
LEMMA SamePin ==
    ASSUME NEW state \in Control
    PROVE  [state EXCEPT !.pinned = state.pinned] = state
BY DEF Control

(***************************************************************************)
(* The invariant.                                                          *)
(***************************************************************************)

\* Nobody has asked for anything: no request, no view of a run.
LEMMA IdleRequestType ==
    NoRequest \in Request /\ NoRequest.at = "idle" /\ PinInPool(NoRequest.snapshot)
BY DefaultsType DEF NoRequest, Request, Phase

\* The invariant holds of the stopped gateway with the default configuration.
LEMMA InitInvariant == Init => IInv
<1> SUFFICES ASSUME Init PROVE IInv
  OBVIOUS
<1>1. [control |-> Defaults, excluded |-> {}] \in Config
  BY DefaultsType DEF Config
<1>2. [boot |-> 0, revision |-> 0, control |-> Defaults] \in View
  BY DefaultsType DEF View
<1>3. TypeOK
  BY <1>1, <1>2, DefaultsType, IdleRequestType DEF Init, TypeOK
<1>4. PinnedInPool
  BY DefaultsType, IdleRequestType DEF Init, PinnedInPool
<1>5. ClientsAreCurrent
  BY IdleRequestType DEF Init, ClientsAreCurrent
<1> QED BY <1>3, <1>4, <1>5 DEF IInv

\* A mutation of the pool (UpdateModelPool, ReplaceModelPool, PinModel,
\* AutoSelect) keeps the invariant: what anyone has seen is now older.
LEMMA MutateInvariant ==
    ASSUME IInv, NEW c \in Client, NEW next \in Control, NEW tombs \in SUBSET Model,
           PinInPool(next), Mutate(c, next, tombs)
    PROVE  IInv'
<1> DEFINE r == [at |-> "mutated", revision |-> revision + 1, pool |-> next,
                 snapshot |-> Defaults]
<1>1. r \in Request
  BY DefaultsType DEF IInv, TypeOK, Request, Phase
<1>2. request' = [request EXCEPT ![c] = r]
  BY DEF Mutate
<1>3. r.at = "mutated" /\ r.revision = revision + 1 /\ r.pool = next /\ r.snapshot = Defaults
  OBVIOUS
<1> HIDE DEF r
<1>4. TypeOK'
  BY <1>1, <1>2 DEF IInv, TypeOK, Mutate
<1>5. PinnedInPool'
  BY <1>2, <1>3, DefaultsType DEF IInv, TypeOK, PinnedInPool, Mutate
<1>6. ClientsAreCurrent'
  <2>1. \A d \in Client : view[d].revision \in Nat /\ request[d].revision \in Nat
    BY DEF IInv, TypeOK, View, Request
  <2>2. revision' = revision + 1 /\ control' = next /\ revision \in Nat
          /\ up /\ up' = up /\ boots' = boots /\ view' = view
    BY DEF IInv, TypeOK, Mutate
  <2>3. \A d \in Client : view'[d].boot <= boots'
    BY <2>2 DEF IInv, ClientsAreCurrent
  <2>4. \A d \in Client :
           up' /\ view'[d].boot = boots' => Seen(view[d].revision, view[d].control)'
    BY <2>1, <2>2 DEF IInv, ClientsAreCurrent, Seen
  <2>5. \A d \in Client :
           request'[d].at # "idle" => up' /\ Seen(request[d].revision, request[d].pool)'
    BY <1>2, <1>3, <2>1, <2>2 DEF IInv, TypeOK, ClientsAreCurrent, Seen
  <2> QED BY <2>3, <2>4, <2>5 DEF ClientsAreCurrent
<1> QED BY <1>4, <1>5, <1>6 DEF IInv

\* A refresh keeps the invariant: it only adds to the selection, under a new
\* revision (RefreshCatalog).
LEMMA RefreshInvariant ==
    ASSUME IInv, NEW models \in SUBSET Model, RefreshCatalog(models)
    PROVE  IInv'
<1>1. /\ control' \in Control
      /\ control.selected \subseteq control'.selected
      /\ control'.pinned = control.pinned
  BY RefreshAdds DEF IInv
<1>2. TypeOK'
  <2>1. tombstones' \in SUBSET Model
    BY DEF IInv, TypeOK, Control, RefreshCatalog
  <2> QED BY <1>1, <2>1 DEF IInv, TypeOK, RefreshCatalog
<1>3. PinnedInPool'
  BY <1>1 DEF IInv, PinnedInPool, PinInPool, RefreshCatalog
<1>4. ClientsAreCurrent'
  <2>1. \A d \in Client : view[d].revision \in Nat /\ request[d].revision \in Nat
    BY DEF IInv, TypeOK, View, Request
  <2>2. revision' = revision + 1 /\ revision \in Nat /\ up /\ up' = up
          /\ boots' = boots /\ view' = view /\ request' = request
    BY DEF IInv, TypeOK, RefreshCatalog
  <2> QED BY <2>1, <2>2 DEF IInv, ClientsAreCurrent, Seen
<1> QED BY <1>2, <1>3, <1>4 DEF IInv

\* Reading the pool keeps the invariant.
LEMMA ReadInvariant ==
    ASSUME IInv, NEW c \in Client, ReadPool(c)
    PROVE  IInv'
<1> DEFINE v == [boot |-> boots, revision |-> revision, control |-> control]
<1>1. v \in View
  BY DEF IInv, TypeOK, View
<1>2. view' = [view EXCEPT ![c] = v]
  BY DEF ReadPool
<1>3. v.boot = boots /\ v.revision = revision /\ v.control = control
  OBVIOUS
<1> HIDE DEF v
<1>4. TypeOK'
  BY <1>1, <1>2 DEF IInv, TypeOK, ReadPool
<1>5. PinnedInPool'
  BY DEF IInv, PinnedInPool, ReadPool
<1>6. ClientsAreCurrent'
  <2>1. up' = up /\ boots' = boots /\ revision' = revision /\ control' = control
          /\ request' = request /\ boots \in Nat /\ revision \in Nat
    BY DEF IInv, TypeOK, ReadPool
  <2>2. \A d \in Client : view'[d] = IF d = c THEN v ELSE view[d]
    BY <1>2 DEF IInv, TypeOK
  <2> QED BY <1>3, <2>1, <2>2 DEF IInv, ClientsAreCurrent, Seen
<1> QED BY <1>4, <1>5, <1>6 DEF IInv

\* Taking the snapshot to persist keeps the invariant (changed).
LEMMA SnapshotInvariant ==
    ASSUME IInv, NEW c \in Client, ControlSnapshot(c)
    PROVE  IInv'
<1>1. request \in [Client -> Request] /\ control \in Control
  BY DEF IInv, TypeOK
<1>2. request' = [request EXCEPT ![c].at = "snapped", ![c].snapshot = control]
  BY DEF ControlSnapshot
<1>3. request' \in [Client -> Request]
  BY <1>1, <1>2 DEF Request, Phase
<1>4. \A d \in Client : /\ d # c => request'[d] = request[d]
                       /\ request'[d].revision = request[d].revision
                       /\ request'[d].pool = request[d].pool
  BY <1>1, <1>2 DEF Request
<1>5. request'[c].snapshot = control
  BY <1>1, <1>2 DEF Request
<1>6. TypeOK'
  BY <1>3 DEF IInv, TypeOK, ControlSnapshot
<1>7. PinnedInPool'
  BY <1>4, <1>5 DEF IInv, PinnedInPool, ControlSnapshot
<1>8. ClientsAreCurrent'
  <2>1. up' /\ up' = up /\ boots' = boots /\ revision' = revision /\ control' = control
          /\ view' = view /\ request[c].at # "idle"
    BY DEF ControlSnapshot
  <2>2. \A d \in Client : request'[d].at # "idle" => request[d].at # "idle"
    BY <1>4, <2>1
  <2>3. \A d \in Client :
           request'[d].at # "idle" => up' /\ Seen(request[d].revision, request[d].pool)'
    BY <1>4, <2>1, <2>2 DEF IInv, ClientsAreCurrent, Seen
  <2> QED BY <2>1, <2>3 DEF IInv, ClientsAreCurrent, Seen
<1> QED BY <1>6, <1>7, <1>8 DEF IInv

\* Persisting keeps the invariant whether or not the file is written
\* (persistControlState).
LEMMA PersistInvariant ==
    ASSUME IInv, NEW c \in Client, PersistControlState(c)
    PROVE  IInv'
<1> DEFINE next == [cfg EXCEPT !.control = request[c].snapshot]
<1>1. request \in [Client -> Request] /\ request[c].snapshot \in Control
        /\ cfg \in Config /\ excluded \in SUBSET Generic
  BY DEF IInv, TypeOK, Request
<1>2. next \in Config /\ next.control = request[c].snapshot
  BY <1>1, ConfigUpdateType
<1>3. /\ cfg' = next
      /\ \/ SaveSucceeds(next) /\ request' = [request EXCEPT ![c].at = "saved"]
         \/ SaveFails(next) /\ request' = [request EXCEPT ![c] = NoRequest]
  BY DEF PersistControlState
<1> HIDE DEF next
<1>4. disk' = disk \/ disk' = next
  BY <1>3, SaveOutcome
<1>5. request' \in [Client -> Request]
  <2>1. CASE request' = [request EXCEPT ![c].at = "saved"]
    BY <1>1, <2>1 DEF Request, Phase
  <2>2. CASE request' = [request EXCEPT ![c] = NoRequest]
    BY <1>1, <2>2, IdleRequestType
  <2> QED BY <1>3, <2>1, <2>2
<1>6. \A d \in Client : \/ request'[d] = NoRequest
                       \/ /\ request'[d].revision = request[d].revision
                          /\ request'[d].pool = request[d].pool
                          /\ request'[d].snapshot = request[d].snapshot
                          /\ request[d].at # "idle" \/ request'[d].at = request[d].at
  <2>1. request[c].at # "idle"
    BY DEF PersistControlState
  <2>2. CASE request' = [request EXCEPT ![c].at = "saved"]
    BY <1>1, <2>1, <2>2 DEF Request
  <2>3. CASE request' = [request EXCEPT ![c] = NoRequest]
    BY <1>1, <2>3
  <2> QED BY <1>3, <2>2, <2>3
<1>7. TypeOK'
  BY <1>2, <1>3, <1>4, <1>5 DEF IInv, TypeOK, PersistControlState
<1>8. PinnedInPool'
  <2>1. PinInPool(next.control)
    BY <1>2 DEF IInv, PinnedInPool
  <2>2. PinInPool(cfg.control)' /\ PinInPool(disk.control)' /\ PinInPool(control)'
    BY <1>3, <1>4, <2>1 DEF IInv, PinnedInPool, PersistControlState
  <2>3. \A d \in Client : PinInPool(request[d].snapshot)'
    BY <1>6, IdleRequestType DEF IInv, PinnedInPool, PinInPool
  <2> QED BY <2>2, <2>3 DEF PinnedInPool
<1>9. ClientsAreCurrent'
  <2>1. up' = up /\ boots' = boots /\ revision' = revision /\ control' = control
          /\ view' = view
    BY DEF PersistControlState
  <2>2. \A d \in Client :
           request'[d].at # "idle" => up' /\ Seen(request[d].revision, request[d].pool)'
    BY <1>6, <2>1, IdleRequestType DEF IInv, ClientsAreCurrent, Seen
  <2> QED BY <2>1, <2>2 DEF IInv, ClientsAreCurrent, Seen
<1> QED BY <1>7, <1>8, <1>9 DEF IInv

\* Answering keeps the invariant: the pin of this moment belongs to the
\* answer's revision only if that is still the pool's (writePool).
LEMMA AnswerInvariant ==
    ASSUME IInv, NEW c \in Client, WritePool(c)
    PROVE  IInv'
<1> DEFINE pool == [request[c].pool EXCEPT !.pinned = control.pinned]
           v == [boot |-> boots, revision |-> request[c].revision, control |-> pool]
<1>1. request \in [Client -> Request] /\ request[c].pool \in Control
        /\ request[c].revision \in Nat /\ control \in Control /\ boots \in Nat
        /\ control.pinned \in Model \cup {NoModel}
  BY DEF IInv, TypeOK, Request, Control
<1>2. pool \in Control
  BY <1>1 DEF Control
<1>3. v \in View /\ v.boot = boots /\ v.revision = request[c].revision /\ v.control = pool
  BY <1>1, <1>2 DEF View
<1>4. Seen(v.revision, v.control)
  <2>1. Seen(request[c].revision, request[c].pool)
    BY DEF IInv, ClientsAreCurrent, WritePool
  <2>2. request[c].pool = control => pool = control
    BY <1>1, SamePin
  <2> QED BY <1>3, <2>1, <2>2 DEF Seen
<1>5. view' = [view EXCEPT ![c] = v] /\ request' = [request EXCEPT ![c] = NoRequest]
  BY DEF WritePool
<1> HIDE DEF v, pool
<1>6. TypeOK'
  BY <1>3, <1>5, IdleRequestType DEF IInv, TypeOK, WritePool
<1>7. PinnedInPool'
  BY <1>1, <1>5, IdleRequestType DEF IInv, PinnedInPool, WritePool
<1>8. ClientsAreCurrent'
  <2>1. up' = up /\ boots' = boots /\ revision' = revision /\ control' = control
    BY DEF WritePool
  <2>2. \A d \in Client : /\ view'[d] = IF d = c THEN v ELSE view[d]
                        /\ request'[d] = IF d = c THEN NoRequest ELSE request[d]
    BY <1>1, <1>5 DEF IInv, TypeOK
  <2>3. \A d \in Client : view'[d].boot <= boots'
    BY <1>1, <1>3, <2>1, <2>2 DEF IInv, ClientsAreCurrent
  <2>4. \A d \in Client :
           up' /\ view'[d].boot = boots' => Seen(view[d].revision, view[d].control)'
    BY <1>3, <1>4, <2>1, <2>2 DEF IInv, ClientsAreCurrent, Seen
  <2>5. \A d \in Client :
           request'[d].at # "idle" => up' /\ Seen(request[d].revision, request[d].pool)'
    BY <2>1, <2>2, IdleRequestType DEF IInv, ClientsAreCurrent, Seen
  <2> QED BY <2>3, <2>4, <2>5 DEF ClientsAreCurrent
<1> QED BY <1>6, <1>7, <1>8 DEF IInv

\* New exclusions keep the invariant (updateConfig).
LEMMA ConfigInvariant ==
    ASSUME IInv, NEW ex \in SUBSET Generic, UpdateConfig(ex)
    PROVE  IInv'
<1> DEFINE next == [cfg EXCEPT !.excluded = ex]
<1>1. next \in Config /\ next.control = cfg.control
  BY DefaultsType, ConfigUpdateType DEF IInv, TypeOK
<1>2. \/ SaveSucceeds(next) /\ cfg' = next
      \/ SaveFails(next) /\ cfg' = cfg
      \/ SaveSucceeds(cfg) /\ cfg' = cfg
  BY DEF UpdateConfig
<1> HIDE DEF next
<1>3. disk' \in {disk, next, cfg} /\ (cfg' = cfg \/ cfg' = next)
  BY <1>2, SaveOutcome
<1>4. TypeOK'
  BY <1>1, <1>3 DEF IInv, TypeOK, UpdateConfig
<1>5. PinnedInPool'
  <2>1. control' = control /\ request' = request
    BY DEF UpdateConfig
  <2>2. PinInPool(cfg.control)' /\ PinInPool(disk.control)'
    BY <1>1, <1>3 DEF IInv, PinnedInPool
  <2> QED BY <2>1, <2>2 DEF IInv, PinnedInPool
<1>6. ClientsAreCurrent'
  BY DEF IInv, ClientsAreCurrent, Seen, UpdateConfig
<1> QED BY <1>4, <1>5, <1>6 DEF IInv

\* A start keeps the invariant: everything seen is of an earlier run.
LEMMA BootInvariant ==
    ASSUME IInv, NEW models \in SUBSET Model, Boot(models)
    PROVE  IInv'
<1>1. control' \in Control /\ PinInPool(control)'
  BY BootControl DEF IInv
<1>2. disk \in Config /\ disk.excluded \in SUBSET Generic
  BY DEF IInv, TypeOK, Config
<1>3. TypeOK'
  <2>1. revision' \in Nat /\ boots' \in Nat
    BY DEF Boot, IInv, TypeOK
  <2> QED BY <1>1, <1>2, <2>1 DEF IInv, TypeOK, Boot
<1>4. PinnedInPool'
  BY <1>1 DEF IInv, PinnedInPool, Boot
<1>5. ClientsAreCurrent'
  <2>1. ~up /\ boots' = boots + 1 /\ boots \in Nat /\ view' = view /\ request' = request
    BY DEF IInv, TypeOK, Boot
  <2>2. \A d \in Client : view[d].boot \in Nat
    BY DEF IInv, TypeOK, View
  <2>3. \A d \in Client : view'[d].boot < boots'
    BY <2>1, <2>2 DEF IInv, ClientsAreCurrent
  <2>4. \A d \in Client : request'[d].at = "idle"
    BY <2>1 DEF IInv, ClientsAreCurrent
  <2>5. boots' \in Nat
    BY <2>1
  <2> QED BY <2>1, <2>2, <2>3, <2>4, <2>5 DEF ClientsAreCurrent
<1> QED BY <1>3, <1>4, <1>5 DEF IInv

\* Stopping keeps the invariant.
LEMMA StopInvariant ==
    ASSUME IInv, Stop
    PROVE  IInv'
<1>1. [control |-> Defaults, excluded |-> {}] \in Config
  BY DefaultsType DEF Config
<1>2. TypeOK'
  BY <1>1, DefaultsType, IdleRequestType DEF IInv, TypeOK, Stop
<1>3. PinnedInPool'
  BY DefaultsType, IdleRequestType DEF IInv, PinnedInPool, Stop
<1>4. ClientsAreCurrent'
  BY IdleRequestType DEF IInv, ClientsAreCurrent, Stop
<1> QED BY <1>2, <1>3, <1>4 DEF IInv

\* Every step keeps the invariant.
LEMMA StepInvariant == IInv /\ [Next]_vars => IInv'
<1> SUFFICES ASSUME IInv, [Next]_vars PROVE IInv'
  OBVIOUS
<1>1. CASE \E c \in Client : PoolRequest(c)
  <2>1. PICK c \in Client : PoolRequest(c)
    BY <1>1
  <2>2. PICK next \in Control, tombs \in SUBSET Model :
           PinInPool(next) /\ Mutate(c, next, tombs)
    BY <2>1, PoolRequestMutates DEF IInv
  <2> QED BY <2>2, MutateInvariant
<1>2. CASE \E c \in Client : ReadPool(c)
  BY <1>2, ReadInvariant
<1>3. CASE \E c \in Client : ControlSnapshot(c)
  BY <1>3, SnapshotInvariant
<1>4. CASE \E c \in Client : PersistControlState(c)
  BY <1>4, PersistInvariant
<1>5. CASE \E c \in Client : WritePool(c)
  BY <1>5, AnswerInvariant
<1>6. CASE \E models \in SUBSET Model : RefreshCatalog(models)
  BY <1>6, RefreshInvariant
<1>7. CASE \E models \in SUBSET Model : Boot(models)
  BY <1>7, BootInvariant
<1>8. CASE \E ex \in SUBSET Generic : UpdateConfig(ex)
  BY <1>8, ConfigInvariant
<1>9. CASE Stop
  BY <1>9, StopInvariant
<1>10. CASE UNCHANGED vars
  BY <1>10 DEF vars, IInv, TypeOK, PinnedInPool, ClientsAreCurrent, Seen
<1> QED
  BY <1>1, <1>2, <1>3, <1>4, <1>5, <1>6, <1>7, <1>8, <1>9, <1>10 DEF Next

\* The invariant holds in every reachable state.
THEOREM ControlInvariant == Spec => []IInv
<1> QED BY InitInvariant, StepInvariant, PTL DEF Spec

(***************************************************************************)
(* What follows from it.                                                   *)
(***************************************************************************)

\* The control state, the requests and the file keep their shape.
THEOREM ControlTypeCorrect == Spec => []TypeOK
<1>1. IInv => TypeOK
  BY DEF IInv
<1> QED BY <1>1, ControlInvariant, PTL

\* The pinned model is in the pool, in memory, in flight and on disk.
THEOREM PinStaysInPool == Spec => []PinnedInPool
<1>1. IInv => PinnedInPool
  BY DEF IInv
<1> QED BY <1>1, ControlInvariant, PTL

\* No update is lost: within a run, the revision a mutation is checked
\* against stands for exactly the pool and the pin its client has read.
THEOREM NoLostUpdate == Spec => []RevisionNamesState
<1>1. IInv => RevisionNamesState
  BY DEF IInv, ClientsAreCurrent, Seen, RevisionNamesState
<1> QED BY <1>1, ControlInvariant, PTL

\* While the gateway serves, only a client's request takes a model out of the
\* pool or moves the pin.
THEOREM RefreshKeepsSelection == Spec => OnlyClientsDeselect
<1> DEFINE Lost == ~(control.selected \subseteq control'.selected
                     /\ control'.pinned = control.pinned)
<1>1. IInv /\ [Next]_vars => [up /\ up' /\ Lost => ClientMutates]_vars
  <2> SUFFICES ASSUME IInv, Next, up, up', Lost PROVE ClientMutates
    OBVIOUS
  <2>1. CASE \E c \in Client : PoolRequest(c)
    <3>1. PICK c \in Client : PoolRequest(c)
      BY <2>1
    <3>2. PICK next \in Control, tombs \in SUBSET Model : Mutate(c, next, tombs)
      BY <3>1, PoolRequestMutates DEF IInv
    <3>3. request[c].at = "idle" /\ request'[c].at = "mutated"
      BY <3>2 DEF Mutate, IInv, TypeOK
    <3> QED BY <3>3 DEF ClientMutates
  <2>2. CASE \E models \in SUBSET Model : RefreshCatalog(models)
    BY <2>2, RefreshAdds DEF IInv
  <2>3. CASE \E models \in SUBSET Model : Boot(models)
    BY <2>3 DEF Boot
  <2>4. CASE Stop
    BY <2>4 DEF Stop
  <2>5. CASE control' = control
    BY <2>5
  <2>6. ASSUME NEW c \in Client,
               ReadPool(c) \/ ControlSnapshot(c) \/ PersistControlState(c) \/ WritePool(c)
        PROVE  control' = control
    BY <2>6 DEF ReadPool, ControlSnapshot, PersistControlState, WritePool
  <2>7. ASSUME NEW ex \in SUBSET Generic, UpdateConfig(ex) PROVE control' = control
    BY <2>7 DEF UpdateConfig
  <2> QED BY <2>1, <2>2, <2>3, <2>4, <2>5, <2>6, <2>7 DEF Next
<1> QED BY <1>1, ControlInvariant, PTL DEF Spec, OnlyClientsDeselect

\* A restart keeps the saved pin, and in Manual mode the saved selection of
\* native models.
THEOREM RestartIsFaithful == Spec => RestartKeepsChoice
<1> DEFINE Kept ==
      /\ control'.pinned = disk.control.pinned
      /\ disk.control.mode = "Manual" =>
             control'.selected \ Generic = disk.control.selected \ Generic
<1>1. IInv /\ [Next]_vars => [~up /\ up' => Kept]_vars
  <2> SUFFICES ASSUME IInv, Next, ~up, up' PROVE Kept
    OBVIOUS
  <2>1. PICK models \in SUBSET Model : Boot(models)
    BY DEF Next, PoolRequest, SelectAll, ClearAll, SelectModels, ReplaceModelPool, PinModel,
           AutoSelect, Mutate, ReadPool, ControlSnapshot, PersistControlState, WritePool,
           RefreshCatalog, UpdateConfig, Stop
  <2>2. /\ control'.pinned = disk.control.pinned
        /\ control'.selected = BootPool(disk.control, models, disk.excluded)
    BY <2>1, BootControl DEF IInv
  <2>3. ASSUME disk.control.mode = "Manual"
        PROVE  BootPool(disk.control, models, disk.excluded) \ Generic
                 = disk.control.selected \ Generic
    BY <2>3 DEF BootPool, RestoresPool, GenericPolicy, DefaultSelected
  <2> QED BY <2>2, <2>3
<1> QED BY <1>1, ControlInvariant, PTL DEF Spec, RestartKeepsChoice

(***************************************************************************)
(* Requests that take turns, and a file that can be written.               *)
(***************************************************************************)

\* A valid configuration is saved whenever the file can be written.
LEMMA SaveIsCertain ==
    ASSUME ~SaveMayFail, NEW config, PinInPool(config.control), SaveFails(config)
    PROVE  FALSE
BY DEF SaveFails, Valid, PinInPool

\* A mutation leaves nobody about to save: its client has yet to take the
\* snapshot, and no other request is under way.
LEMMA MutateInTurn ==
    ASSUME IInv, SavedInTurn, TakingTurns',
           NEW c \in Client, NEW next, NEW tombs, Mutate(c, next, tombs)
    PROVE  SavedInTurn'
<1>1. request'[c].at = "mutated"
  BY DEF IInv, TypeOK, Mutate
<1>2. \A d \in Client : d # c => request'[d].at = "idle"
  BY <1>1 DEF TakingTurns
<1> QED BY <1>1, <1>2 DEF SavedInTurn, Mutate

\* The snapshot is of this moment (changed).
LEMMA SnapshotInTurn ==
    ASSUME IInv, SavedInTurn, NEW c \in Client, ControlSnapshot(c)
    PROVE  SavedInTurn'
<1>1. request \in [Client -> Request] /\ c \in DOMAIN request
  BY DEF IInv, TypeOK
<1>2. request'[c].at = "snapped" /\ request'[c].snapshot = control
  BY <1>1 DEF ControlSnapshot, Request
<1>3. \A d \in Client : d # c => request'[d] = request[d]
  BY <1>1 DEF ControlSnapshot
<1>4. SameChoice(control, control)
  BY DEF SameChoice
<1>5. control' = control /\ cfg' = cfg /\ disk' = disk /\ up' = up
  BY DEF ControlSnapshot
<1> QED BY <1>2, <1>3, <1>4, <1>5 DEF SavedInTurn, SameChoice

\* What is saved is what the gateway still runs with, for nobody has changed
\* it since the snapshot (persistControlState).
LEMMA PersistInTurn ==
    ASSUME ~SaveMayFail, IInv, SavedInTurn, TakingTurns,
           NEW c \in Client, PersistControlState(c)
    PROVE  SavedInTurn'
<1> DEFINE next == [cfg EXCEPT !.control = request[c].snapshot]
<1>1. request \in [Client -> Request] /\ request[c].snapshot \in Control
        /\ cfg \in Config /\ excluded \in SUBSET Generic
  BY DEF IInv, TypeOK, Request
<1>2. next.control = request[c].snapshot
  BY <1>1, ConfigUpdateType
<1>3. PinInPool(next.control)
  BY <1>2 DEF IInv, PinnedInPool
<1>4. /\ request[c].at = "snapped"
      /\ cfg' = next
      /\ \/ SaveSucceeds(next) /\ request' = [request EXCEPT ![c].at = "saved"]
         \/ SaveFails(next)
      /\ control' = control
  BY DEF PersistControlState
<1> HIDE DEF next
<1>5. disk' = next /\ cfg' = next /\ request' = [request EXCEPT ![c].at = "saved"]
  BY <1>3, <1>4, SaveIsCertain DEF SaveSucceeds
<1>6. SameChoice(request[c].snapshot, control)
  BY <1>4 DEF SavedInTurn
<1>7. \A d \in Client : request'[d].at # "snapped"
  <2>1. request'[c].at = "saved"
    BY <1>1, <1>5 DEF Request
  <2>2. \A d \in Client : d # c => request'[d] = request[d] /\ request[d].at = "idle"
    BY <1>1, <1>4, <1>5 DEF TakingTurns
  <2> QED BY <2>1, <2>2
<1> QED BY <1>2, <1>4, <1>5, <1>6, <1>7 DEF SavedInTurn, SameChoice

\* An answered request had saved before (writePool).
LEMMA AnswerInTurn ==
    ASSUME IInv, SavedInTurn, TakingTurns, NEW c \in Client, WritePool(c)
    PROVE  SavedInTurn'
<1>1. request \in [Client -> Request] /\ request[c].at = "saved"
        /\ request' = [request EXCEPT ![c] = NoRequest]
        /\ up /\ up' = up /\ control' = control /\ cfg' = cfg /\ disk' = disk
  BY DEF IInv, TypeOK, WritePool
<1>2. \A d \in Client : request[d].at \in {"idle", "saved"}
  BY <1>1 DEF TakingTurns
<1>3. \A d \in Client : request'[d].at # "snapped"
  BY <1>1, <1>2, IdleRequestType
<1>4. SameChoice(disk.control, control)
  BY <1>1, <1>2 DEF SavedInTurn
<1> QED BY <1>1, <1>3, <1>4 DEF SavedInTurn, SameChoice

\* A refresh changes neither the mode nor the pin (Reconcile).
LEMMA RefreshInTurn ==
    ASSUME IInv, SavedInTurn, NEW models \in SUBSET Model, RefreshCatalog(models)
    PROVE  SavedInTurn'
<1>1. control'.pinned = control.pinned /\ control'.mode = control.mode
  BY RefreshAdds DEF IInv
<1> QED BY <1>1 DEF SavedInTurn, SameChoice, RefreshCatalog

\* The exclusions are saved with the control state that the file has
\* (updateConfig).
LEMMA ConfigInTurn ==
    ASSUME IInv, SavedInTurn, NEW ex \in SUBSET Generic, UpdateConfig(ex)
    PROVE  SavedInTurn'
<1> DEFINE next == [cfg EXCEPT !.excluded = ex]
<1>1. next.control = cfg.control
  BY DefaultsType, ConfigUpdateType DEF IInv, TypeOK
<1>2. /\ \/ SaveSucceeds(next) /\ cfg' = next
         \/ SaveFails(next) /\ cfg' = cfg
         \/ SaveSucceeds(cfg) /\ cfg' = cfg
      /\ up /\ up' = up /\ control' = control /\ request' = request
  BY DEF UpdateConfig
<1> HIDE DEF next
<1>3. disk' \in {disk, next, cfg} /\ (cfg' = cfg \/ cfg' = next)
  BY <1>2, SaveOutcome
<1>4. cfg'.control = cfg.control /\ disk'.control = disk.control
  BY <1>1, <1>2, <1>3 DEF SavedInTurn
<1> QED BY <1>2, <1>4 DEF SavedInTurn, SameChoice

\* A start serves the saved mode and pin, and nobody has asked yet.
LEMMA BootInTurn ==
    ASSUME IInv, SavedInTurn, NEW models \in SUBSET Model, Boot(models)
    PROVE  SavedInTurn'
<1>1. control'.mode = disk.control.mode /\ control'.pinned = disk.control.pinned
  BY BootControl DEF IInv
<1>2. cfg' = disk /\ disk' = disk /\ request' = request /\ ~up
  BY DEF Boot
<1>3. \A d \in Client : request'[d].at = "idle"
  BY <1>2 DEF IInv, ClientsAreCurrent
<1> QED BY <1>1, <1>2, <1>3 DEF SavedInTurn, SameChoice

\* Every step of requests that take turns keeps the file in step.
LEMMA StepInTurn ==
    ASSUME ~SaveMayFail
    PROVE  IInv /\ SavedInTurn /\ TakingTurns /\ TakingTurns' /\ [Next]_vars
               => SavedInTurn'
<1> SUFFICES ASSUME IInv, SavedInTurn, TakingTurns, TakingTurns', [Next]_vars
             PROVE  SavedInTurn'
  OBVIOUS
<1>1. CASE \E c \in Client : PoolRequest(c)
  <2>1. PICK c \in Client : PoolRequest(c)
    BY <1>1
  <2>2. PICK next \in Control, tombs \in SUBSET Model : Mutate(c, next, tombs)
    BY <2>1, PoolRequestMutates DEF IInv
  <2> QED BY <2>2, MutateInTurn
<1>2. CASE \E c \in Client : ReadPool(c)
  BY <1>2 DEF ReadPool, SavedInTurn, SameChoice
<1>3. CASE \E c \in Client : ControlSnapshot(c)
  BY <1>3, SnapshotInTurn
<1>4. CASE \E c \in Client : PersistControlState(c)
  BY <1>4, PersistInTurn
<1>5. CASE \E c \in Client : WritePool(c)
  BY <1>5, AnswerInTurn
<1>6. CASE \E models \in SUBSET Model : RefreshCatalog(models)
  BY <1>6, RefreshInTurn
<1>7. CASE \E models \in SUBSET Model : Boot(models)
  BY <1>7, BootInTurn
<1>8. CASE \E ex \in SUBSET Generic : UpdateConfig(ex)
  BY <1>8, ConfigInTurn
<1>9. CASE Stop
  BY <1>9, IdleRequestType DEF Stop, SavedInTurn
<1>10. CASE UNCHANGED vars
  BY <1>10 DEF vars, SavedInTurn, SameChoice
<1> QED
  BY <1>1, <1>2, <1>3, <1>4, <1>5, <1>6, <1>7, <1>8, <1>9, <1>10 DEF Next

\* With a file that can be written, overlap is all that can put the wrong
\* choice into it: as long as no two requests are between their mutation and
\* their answer at once, the file has the mode and the pin that the gateway
\* runs with whenever no request is under way (changed, persistControlState).
THEOREM TurnsArePersisted ==
    ASSUME ~SaveMayFail
    PROVE  Spec /\ []TakingTurns => []AnsweredIsPersisted
<1>1. Init => SavedInTurn
  BY IdleRequestType DEF Init, SavedInTurn
<1>2. IInv /\ SavedInTurn /\ TakingTurns /\ TakingTurns' /\ [Next]_vars => SavedInTurn'
  BY StepInTurn
<1>3. SavedInTurn => AnsweredIsPersisted
  BY IdleRequestType DEF SavedInTurn, AnsweredIsPersisted, Quiet, SameChoice
<1> QED BY <1>1, <1>2, <1>3, ControlInvariant, PTL DEF Spec

\* In particular for a single client, which waits for its answers.
COROLLARY OneClientIsPersisted ==
    ASSUME ~SaveMayFail, \A c, d \in Client : c = d
    PROVE  Spec => []AnsweredIsPersisted
<1>1. TakingTurns
  BY DEF TakingTurns
<1> QED BY <1>1, TurnsArePersisted, PTL

=============================================================================
