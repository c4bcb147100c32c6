---------------------------- MODULE ControlPlane ----------------------------
(***************************************************************************)
(* The control plane: the model pool and the pin that decide what is       *)
(* routed (internal/catalog, internal/gateway/control.go), the management  *)
(* requests that change them under an optimistic revision                  *)
(* (internal/control/server.go), catalog refreshes, and what is saved and  *)
(* restored around a restart (internal/app/app.go, internal/config).       *)
(*                                                                         *)
(* The gateway's lock makes each mutation one step, the configuration lock *)
(* each save.  Between the two a request holds a snapshot of its own.      *)
(***************************************************************************)
EXTENDS Integers

CONSTANTS
    Model,         \* ids of provider models
    Generic,       \* those of a configured OpenAI-compatible provider
    Free,          \* native ones with a route of free or free-tier access
    NoModel,
    Client,        \* management requests, one at a time each
    MaxRevision,   \* bound: pool revisions of a run, one fewer in each later run
    MaxBoots,      \* bound: runs of the gateway
    SaveMayFail    \* whether writing the configuration file may fail

ASSUME ControlAssumption ==
    /\ Generic \subseteq Model
    /\ Free \subseteq Model \ Generic
    /\ NoModel \notin Model
    /\ MaxRevision \in Nat
    /\ MaxBoots \in Nat
    /\ SaveMayFail \in BOOLEAN

Mode == {"Automatic", "Manual"}

\* What a ControlSnapshot says of the pool and the pin, and what is persisted.
Control == [selected : SUBSET Model, mode : Mode, pinned : Model \cup {NoModel}]

\* The control state of an empty gateway and of the default configuration.
Defaults == [selected |-> {}, mode |-> "Automatic", pinned |-> NoModel]

Config == [control : Control, excluded : SUBSET Generic]
View == [boot : Nat, revision : Nat, control : Control]

VARIABLES
    up,            \* the gateway serves
    boots,         \* runs so far
    control,       \* the pool's selection and mode, and the pinned model
    revision,      \* the pool's revision
    tombstones,    \* selected models the latest catalog lacks
    catalog,       \* models of the current catalog
    excluded,      \* models whose routes this run built disabled
    cfg,           \* the configuration in memory
    disk,          \* the configuration file
    request,       \* client -> its request: where it stands, the revision and
                   \*   pool its mutation returned, the snapshot to persist
    view           \* client -> the last pool it read: run, revision, content

vars == <<up, boots, control, revision, tombstones, catalog, excluded,
          cfg, disk, request, view>>

Phase == {"idle", "mutated", "snapped", "saved"}

Request == [at : Phase, revision : Nat, pool : Control, snapshot : Control]

NoRequest == [at |-> "idle", revision |-> 0, pool |-> Defaults, snapshot |-> Defaults]

Init ==
    /\ up = FALSE
    /\ boots = 0
    /\ control = Defaults
    /\ revision = 0
    /\ tombstones = {}
    /\ catalog = {}
    /\ excluded = {}
    /\ cfg = [control |-> Defaults, excluded |-> {}]
    /\ disk = [control |-> Defaults, excluded |-> {}]
    /\ request = [c \in Client |-> NoRequest]
    /\ view = [c \in Client |-> [boot |-> 0, revision |-> 0, control |-> Defaults]]

----------------------------------------------------------------------------
(* The pool. *)

\* hasAutoRoutableRoute, hasDefaultSelectedRoute: Automatic takes the free
\* models of the catalog, a generic one is in by default unless it is excluded.
AutoRoutable(models) == models \cap Free
DefaultSelected(models, ex) == (models \cap Generic) \ ex

\* What Reconcile adds to a selection.
Included(models, ex, mode) ==
    DefaultSelected(models, ex)
        \cup (IF mode = "Automatic" THEN AutoRoutable(models) ELSE {})

\* The pin survives a mutation only inside the new selection.
KeptPin(pin, selected) == IF pin \in selected THEN pin ELSE NoModel

\* Faulty variant: a pin outlives its model's selection.
PoolKeepingPin(selected, mode) ==
    [selected |-> selected, mode |-> mode, pinned |-> control.pinned]

Pool(selected, mode) ==
    [selected |-> selected, mode |-> mode,
     pinned |-> KeptPin(control.pinned, selected)]

\* A mutation of the revision that the client last read.
Mutate(c, next, tombs) ==
    /\ up
    /\ request[c].at = "idle"
    /\ view[c].revision = revision
    /\ revision + boots <= MaxRevision
    /\ control' = next
    /\ revision' = revision + 1
    /\ tombstones' = tombs
    /\ request' = [request EXCEPT ![c] =
                      [at |-> "mutated", revision |-> revision + 1, pool |-> next,
                       snapshot |-> Defaults]]
    /\ UNCHANGED <<up, boots, catalog, excluded, cfg, disk, view>>

\* UpdateModelPool with selectAll, with clearAll, and with single models:
\* touching one turns the mode to Manual unless the request names a mode.
SelectAll(c) ==
    Mutate(c, Pool(control.selected \cup AutoRoutable(catalog), "Automatic"), {})

ClearAll(c) == Mutate(c, Pool({}, "Manual"), {})

SelectModels(c, add, remove, mode) ==
    Mutate(c, Pool((control.selected \cup add) \ remove, mode), {})

ItemModes(add, remove) ==
    Mode \cup {IF add \cup remove = {} THEN control.mode ELSE "Manual"}

\* Faulty variant: the mode a request left out is stored as it came.
ReplaceModelPoolRaw(c, selected, mode) ==
    \E given \in {mode, ""} : Mutate(c, Pool(selected, given), {})

ReplaceModelPool(c, selected, mode) == Mutate(c, Pool(selected, mode), {})

\* Faulty variant: a pin is not a new revision.
PinModelSameRevision(c, m) ==
    /\ up
    /\ request[c].at = "idle"
    /\ view[c].revision = revision
    /\ m \in catalog \cap control.selected
    /\ control' = [control EXCEPT !.pinned = m]
    /\ request' = [request EXCEPT ![c] =
                      [at |-> "mutated", revision |-> revision, pool |-> control',
                       snapshot |-> Defaults]]
    /\ UNCHANGED <<up, boots, revision, tombstones, catalog, excluded, cfg, disk, view>>

PinModel(c, m) ==
    /\ m \in catalog \cap control.selected
    /\ Mutate(c, [control EXCEPT !.pinned = m], tombstones)

\* AutoSelect unpins first, then selects all.
AutoSelect(c) ==
    Mutate(c, [selected |-> control.selected \cup AutoRoutable(catalog),
               mode |-> "Automatic", pinned |-> NoModel], {})

\* Faulty variant: models that have disappeared leave the selection.
RefreshCatalogForgets(models) ==
    /\ up
    /\ revision + boots <= MaxRevision
    /\ catalog' = models
    /\ tombstones' = {}
    /\ control' = [control EXCEPT !.selected =
                      (@ \cap models) \cup Included(models, excluded, control.mode)]
    /\ revision' = revision + 1
    /\ UNCHANGED <<up, boots, excluded, cfg, disk, request, view>>

\* RefreshCatalog commits a discovery, which may lack the models of any
\* provider that did not answer, and Reconcile merges it into the pool.
RefreshCatalog(models) ==
    /\ up
    /\ revision + boots <= MaxRevision
    /\ catalog' = models
    /\ tombstones' = (tombstones \ control.selected) \cup (control.selected \ models)
    /\ control' = [control EXCEPT !.selected =
                      @ \cup Included(models, excluded, control.mode)]
    /\ revision' = revision + 1
    /\ UNCHANGED <<up, boots, excluded, cfg, disk, request, view>>

----------------------------------------------------------------------------
(* Requests after their mutation, and the configuration. *)

\* GET /control/v1/pool.
ReadPool(c) ==
    /\ up
    /\ request[c].at = "idle"
    /\ view' = [view EXCEPT ![c] =
                   [boot |-> boots, revision |-> revision, control |-> control]]
    /\ UNCHANGED <<up, boots, control, revision, tombstones, catalog, excluded,
                   cfg, disk, request>>

\* changed takes the snapshot to persist before OnChange takes the lock.
ControlSnapshot(c) ==
    /\ up
    /\ request[c].at = "mutated"
    /\ request' = [request EXCEPT ![c].at = "snapped", ![c].snapshot = control]
    /\ UNCHANGED <<up, boots, control, revision, tombstones, catalog, excluded,
                   cfg, disk, view>>

\* PersistedConfig.validate, as far as the control state can break it.
Valid(config) ==
    \/ config.control.pinned = NoModel
    \/ config.control.pinned \in config.control.selected

\* SavePersisted: a failure after the rename has replaced the file already.
SaveSucceeds(config) == Valid(config) /\ disk' = config

SaveFails(config) ==
    \/ ~Valid(config) /\ UNCHANGED disk
    \/ SaveMayFail /\ Valid(config) /\ disk' \in {disk, config}

\* persistControlState changes the memory first, whatever the save does.
PersistControlState(c) ==
    LET next == [cfg EXCEPT !.control = request[c].snapshot]
    IN  /\ up
        /\ request[c].at = "snapped"
        /\ cfg' = next
        /\ \/ SaveSucceeds(next) /\ request' = [request EXCEPT ![c].at = "saved"]
           \/ SaveFails(next) /\ request' = [request EXCEPT ![c] = NoRequest]
        /\ UNCHANGED <<up, boots, control, revision, tombstones, catalog, excluded,
                       view>>

\* writePool answers with the pool of the mutation and the pin of this moment.
WritePool(c) ==
    /\ up
    /\ request[c].at = "saved"
    /\ view' = [view EXCEPT ![c] =
                   [boot |-> boots, revision |-> request[c].revision,
                    control |-> [request[c].pool EXCEPT !.pinned = control.pinned]]]
    /\ request' = [request EXCEPT ![c] = NoRequest]
    /\ UNCHANGED <<up, boots, control, revision, tombstones, catalog, excluded,
                   cfg, disk>>

\* updateConfig saves new exclusions with whatever control state the memory
\* has; they take effect at the next start.  When the secret store refuses the
\* inference key after the save, the configuration in memory is saved again.
UpdateConfig(ex) ==
    LET next == [cfg EXCEPT !.excluded = ex]
    IN  /\ up
        /\ \/ SaveSucceeds(next) /\ cfg' = next
           \/ SaveFails(next) /\ UNCHANGED cfg
           \/ SaveSucceeds(cfg) /\ UNCHANGED cfg
        /\ UNCHANGED <<up, boots, control, revision, tombstones, catalog, excluded,
                       request, view>>

----------------------------------------------------------------------------
(* Restarts. *)

\* applyGenericSelectionPolicy: the exclusions of the configuration decide
\* over the generic models of the catalog, the saved selection over the rest.
GenericPolicy(selected, models, ex) ==
    (selected \ (models \cap Generic)) \cup DefaultSelected(models, ex)

\* Faulty variant: an empty Manual pool is taken for no pool.
RestoresNonEmptyPool(saved) == saved.selected # {}

\* RestoreControlState skips an empty Automatic pool.
RestoresPool(saved) == saved.selected # {} \/ saved.mode = "Manual"

\* The pool of NewGateway, then what is restored over it.
BootPool(saved, models, ex) ==
    IF RestoresPool(saved)
    THEN GenericPolicy(saved.selected, models, ex)
    ELSE Included(models, ex, "Automatic")

\* RunWithProvider: the configuration is loaded, the catalog discovered, the
\* control state restored.  A pin that cannot be restored ends the run.
Boot(models) ==
    LET saved == disk.control
        selected == BootPool(saved, models, disk.excluded)
    IN  /\ ~up
        /\ boots < MaxBoots
        /\ saved.pinned = NoModel \/ saved.pinned \in models \cap selected
        /\ up' = TRUE
        /\ boots' = boots + 1
        /\ control' = [selected |-> selected, mode |-> saved.mode, pinned |-> saved.pinned]
        /\ revision' = IF RestoresPool(saved) THEN 2 ELSE 1
        /\ tombstones' = {}
        /\ catalog' = models
        /\ excluded' = disk.excluded
        /\ cfg' = disk
        /\ UNCHANGED <<disk, request, view>>

\* The gateway stops or dies: requests under way are cut off, clients live on.
Stop ==
    /\ up
    /\ up' = FALSE
    /\ control' = Defaults
    /\ revision' = 0
    /\ tombstones' = {}
    /\ catalog' = {}
    /\ excluded' = {}
    /\ cfg' = [control |-> Defaults, excluded |-> {}]
    /\ request' = [c \in Client |-> NoRequest]
    /\ UNCHANGED <<boots, disk, view>>

PoolRequest(c) ==
    \/ SelectAll(c)
    \/ ClearAll(c)
    \/ \E add, remove \in SUBSET Model : \E mode \in ItemModes(add, remove) :
           SelectModels(c, add, remove, mode)
    \/ \E selected \in SUBSET Model, mode \in Mode : ReplaceModelPool(c, selected, mode)
    \/ \E m \in Model : PinModel(c, m)
    \/ AutoSelect(c)

Next ==
    \/ \E c \in Client :
           \/ ReadPool(c)
           \/ PoolRequest(c)
           \/ ControlSnapshot(c)
           \/ PersistControlState(c)
           \/ WritePool(c)
    \/ \E models \in SUBSET Model : RefreshCatalog(models) \/ Boot(models)
    \/ \E ex \in SUBSET Generic : UpdateConfig(ex)
    \/ Stop

Spec == Init /\ [][Next]_vars

----------------------------------------------------------------------------
(* Properties. *)

\* Modes are known, selections name models and revisions are counted in the
\* gateway, the requests and the file (PoolState, ControlSnapshot).
TypeOK ==
    /\ up \in BOOLEAN
    /\ boots \in Nat
    /\ control \in Control
    /\ revision \in Nat
    /\ tombstones \subseteq Model
    /\ catalog \subseteq Model
    /\ excluded \subseteq Generic
    /\ cfg \in Config
    /\ disk \in Config
    /\ request \in [Client -> Request]
    /\ view \in [Client -> View]

PinInPool(state) == state.pinned = NoModel \/ state.pinned \in state.selected

\* The pinned model is in the model pool: in the gateway, in every snapshot
\* about to be saved, in the configuration and in its file, through failed
\* saves, refreshes that lose the model and restarts (UpdateModelPool,
\* ReplaceModelPool, RestoreControlState).
PinnedInPool ==
    /\ PinInPool(control)
    /\ PinInPool(cfg.control)
    /\ PinInPool(disk.control)
    /\ \A c \in Client : PinInPool(request[c].snapshot)

\* Within one run of the gateway a revision names one pool and one pin, so a
\* mutation that passes the revision check changes exactly what its client
\* has seen: no update is lost (every mutation and every refresh).
RevisionNamesState ==
    \A c \in Client :
        up /\ view[c].boot = boots /\ view[c].revision = revision
            => view[c].control = control

ClientMutates ==
    \E c \in Client : request[c].at = "idle" /\ request'[c].at = "mutated"

\* Only a client takes a model out of the pool or moves the pin: refreshes
\* keep the selection of models that have disappeared (Reconcile).
OnlyClientsDeselect ==
    [][up /\ up' /\ ~(control.selected \subseteq control'.selected
                      /\ control'.pinned = control.pinned)
          => ClientMutates]_vars

\* A restart keeps the pin, and in Manual mode the saved selection of native
\* models, an empty one included (RestoreControlState after NewGateway).
RestartKeepsChoice ==
    [][~up /\ up' =>
          /\ control'.pinned = disk.control.pinned
          /\ disk.control.mode = "Manual" =>
                 control'.selected \ Generic = disk.control.selected \ Generic]_vars

Quiet == \A c \in Client : request[c] = NoRequest

\* With no request under way the file has the mode and the pin the gateway
\* runs with: ModelPoolConfig is "the persisted pool selection (source of
\* truth)" (catalog/pool.go:27).  True of one client and a file that can be
\* written; two concurrent requests may save in the other order.
AnsweredIsPersisted ==
    up /\ Quiet =>
        /\ disk.control.mode = control.mode
        /\ disk.control.pinned = control.pinned

----------------------------------------------------------------------------
(* The inductive invariant behind PinnedInPool and RevisionNamesState. *)

\* Of this run, revision r and what was seen at it: r is no later than the
\* pool's, and if it is the pool's the pool is what was seen.
Seen(r, state) == r <= revision /\ (r = revision => state = control)

\* What the clients know, and what the requests under way returned.
ClientsAreCurrent ==
    /\ \A c \in Client : view[c].boot <= boots
    /\ \A c \in Client :
           up /\ view[c].boot = boots => Seen(view[c].revision, view[c].control)
    /\ \A c \in Client :
           request[c].at # "idle" => up /\ Seen(request[c].revision, request[c].pool)

IInv == TypeOK /\ PinnedInPool /\ ClientsAreCurrent

----------------------------------------------------------------------------
(* What is true of requests that take turns. *)

\* No two requests are between their mutation and their answer.
TakingTurns ==
    \A c, d \in Client : request[c].at # "idle" /\ request[d].at # "idle" => c = d

SameChoice(state, other) == state.mode = other.mode /\ state.pinned = other.pinned

\* The memory is what the file has.  Only a request that has changed the pool
\* and has not saved yet is ahead of them, and what it is about to save is of
\* this moment: refreshes change neither the mode nor the pin.
SavedInTurn ==
    /\ up => cfg.control = disk.control
    /\ \A c \in Client :
           request[c].at = "snapped" => SameChoice(request[c].snapshot, control)
    /\ up /\ (\A c \in Client : request[c].at \in {"idle", "saved"})
           => SameChoice(disk.control, control)
============================================================================
