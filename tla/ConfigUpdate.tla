---------------------------- MODULE ConfigUpdate ----------------------------
(***************************************************************************)
(* Changing the providers and the inference key: updateConfig of           *)
(* internal/app/config_update.go over the configuration file               *)
(* (internal/config/config.go) and the secret store, which keeps a value   *)
(* in the credential store of the operating system or, when that refuses,  *)
(* in a file of its own (internal/config/secrets.go).                      *)
(*                                                                         *)
(* The configuration lock keeps updates and control saves apart, so what   *)
(* can interrupt an update is a failing step or the end of the program.    *)
(***************************************************************************)
EXTENDS Integers

CONSTANTS
    Provider,       \* provider ids
    Url, NoUrl,     \* endpoints; a provider without one is not configured
    Key,            \* inference keys
    InferenceToken, \* FMR_INFERENCE_TOKEN, the one secret without a provider
    NoSecret,
    Unsaid,         \* nothing was said about the inference key
    Backends,       \* what the OS store may do in a run: the sets of answers
                    \*   to choose from
    SaveFaults,     \* how a save may fail: "before", "after" the file is replaced
    MaxRevision,    \* bound: revisions of the configuration
    MaxFaults       \* bound: failing writes of the files, refused changes of
                    \*   the inference key and updates that are cut off

\* The OS store does what it is asked, tells an error, or is not there (no
\* backend, or no secret-tool): then nothing can be set and nothing is left to
\* delete, which is no error.
Answer == {"obeys", "refuses", "absent"}

ASSUME ConfigUpdateAssumption ==
    /\ NoUrl \notin Url
    /\ InferenceToken \notin Provider
    /\ NoSecret \notin Url \cup Key
    /\ Unsaid \notin Key \cup {NoSecret}
    /\ Backends \subseteq SUBSET Answer
    /\ SaveFaults \subseteq {"before", "after"}
    /\ MaxRevision \in Nat
    /\ MaxFaults \in Nat

\* References are provider.<id>.<revision>; the inference key has its own.
InferenceTokenKey == <<InferenceToken, 0>>
Slot == {<<p, n>> : p \in Provider, n \in 1..MaxRevision} \cup {InferenceTokenKey}

\* A credential is told apart by the endpoint it was entered for.
Secret == Url \cup Key \cup {NoSecret}
Secrets == [os : [Slot -> Secret], file : [Slot -> Secret]]

\* ref 0 is no credential.
Config ==
    {c \in [revision : 0..MaxRevision,
            url : [Provider -> Url \cup {NoUrl}],
            ref : [Provider -> 0..MaxRevision]] :
        \A p \in Provider : c.url[p] = NoUrl => c.ref[p] = 0}

VARIABLES
    up,         \* the gateway serves
    osAnswers,  \* what the OS store may do in this run
    cfg,        \* the configuration in memory; when down, that of the last run
    disk,       \* the configuration file
    secrets,    \* the OS store and the secret file
    at,         \* where updateConfig stands
    candidate,  \* the configuration it installs
    todo,       \* references still to be stored, or to be deleted
    written,    \* references stored for the candidate
    key,        \* what the request says of the inference key
    given,      \* the inference key of the last update that was answered
    faults,     \* how many of MaxFaults have happened
    troubled    \* an update was answered with an error or a pending clean-up,
                \*   or was cut off

updateVars == <<at, candidate, todo, written, key>>
vars == <<up, osAnswers, cfg, disk, secrets, updateVars, given, faults, troubled>>

Place == {"idle", "stage", "save", "inference", "rollback", "undo", "clean"}
KeyRequest == {"keep", "clear"} \cup Key

NoConfig == [revision |-> 0,
             url |-> [p \in Provider |-> NoUrl],
             ref |-> [p \in Provider |-> 0]]

Empty == [s \in Slot |-> NoSecret]

Init ==
    /\ up = FALSE
    /\ osAnswers \in Backends
    /\ \E p \in Provider, u \in Url : disk = [NoConfig EXCEPT !.url[p] = u]
    /\ cfg = disk
    /\ secrets = [os |-> Empty, file |-> Empty]
    /\ at = "idle"
    /\ candidate = NoConfig
    /\ todo = {}
    /\ written = {}
    /\ key = "keep"
    /\ given = Unsaid
    /\ faults = 0
    /\ troubled = FALSE

----------------------------------------------------------------------------
(* The secret store. *)

\* Faulty variant: the file is asked first.
GetFileFirst(store, s) ==
    IF store.file[s] # NoSecret THEN store.file[s] ELSE store.os[s]

Get(store, s) == IF store.os[s] # NoSecret THEN store.os[s] ELSE store.file[s]

\* What a write of a store may end with.
Outcome(ok, store, failures) == [ok |-> ok, store |-> store, failures |-> failures]

\* Rewriting the secret file fails before or after the file is replaced.
FileOutcomes(store, next) ==
    {Outcome(TRUE, next, 0)} \cup
        (IF next = store THEN {}
         ELSE {Outcome(FALSE, store, 1), Outcome(FALSE, next, 1)})

DeleteFromFile(store, s) == FileOutcomes(store, [store EXCEPT !.file[s] = NoSecret])

\* SecretStore.Set: the OS store, and then the copy in the file is removed as
\* well as can be; or the file.
SetSecret(answers, store, s, value) ==
    UNION {IF answer = "obeys"
           THEN {[o EXCEPT !.ok = TRUE] :
                     o \in DeleteFromFile([store EXCEPT !.os[s] = value], s)}
           ELSE FileOutcomes(store, [store EXCEPT !.file[s] = value])
           : answer \in answers}

\* SecretStore.DeleteStrict: both are deleted from, and a failure of either told.
DeleteStrict(store, s) ==
    UNION {IF answer # "refuses"
           THEN DeleteFromFile([store EXCEPT !.os[s] = NoSecret], s)
           ELSE {[o EXCEPT !.ok = FALSE] : o \in DeleteFromFile(store, s)}
           : answer \in osAnswers}

\* One of the outcomes happens.
Take(outcome, failures) ==
    /\ faults + failures <= MaxFaults
    /\ faults' = faults + failures
    /\ secrets' = outcome.store

----------------------------------------------------------------------------
(* The configuration file, replaced by one rename.  Where the rename is      *)
(* refused, replaceFile moves the file aside first (see FileReplacement);    *)
(* that a save or a crash can then leave no file is not modelled here.       *)

SaveSucceeds(config) == disk' = config /\ UNCHANGED faults

SaveFails(config) ==
    /\ faults < MaxFaults
    /\ faults' = faults + 1
    /\ \/ "before" \in SaveFaults /\ UNCHANGED disk
       \/ "after" \in SaveFaults /\ disk' = config

----------------------------------------------------------------------------
(* updateConfig. *)

\* Faulty variant: a credential follows its provider to another endpoint.
KeepsEndpointAnyway(old, url, apiKey) == TRUE

\* A provider that moves must have its credential replaced or cleared.
KeepsEndpoint(old, url, apiKey) ==
    \A p \in Provider :
        old.ref[p] # 0 /\ url[p] \notin {NoUrl, old.url[p]} => apiKey[p] # "keep"

\* Faulty variant: a provider that is removed keeps its reference.
NewRefKept(old, url, apiKey, p) ==
    CASE apiKey[p] = "keep" -> old.ref[p]
      [] apiKey[p] = "clear" -> 0
      [] OTHER -> old.revision + 1

NewRef(old, url, apiKey, p) ==
    CASE url[p] = NoUrl \/ apiKey[p] = "clear" -> 0
      [] url[p] # NoUrl /\ apiKey[p] = "keep" -> old.ref[p]
      [] OTHER -> old.revision + 1

Candidate(old, url, apiKey) ==
    [revision |-> old.revision + 1, url |-> url,
     ref |-> [p \in Provider |-> NewRef(old, url, apiKey, p)]]

\* The references of `new` that are named after its revision are its own.
Staged(new) == {<<p, new.revision>> : p \in {q \in Provider : new.ref[q] = new.revision}}

Stale(old, new) ==
    {<<p, old.ref[p]>> : p \in {q \in Provider : old.ref[q] \notin {0, new.ref[q]}}}

\* A request for another revision than the current one, or one that is not valid,
\* is refused before anything changes.
BeginUpdate(url, apiKey, inferenceKey) ==
    LET next == Candidate(cfg, url, apiKey)
    IN  /\ up
        /\ at = "idle"
        /\ cfg.revision < MaxRevision
        /\ \E p \in Provider : url[p] # NoUrl
        /\ KeepsEndpoint(cfg, url, apiKey)
        /\ candidate' = next
        /\ todo' = Staged(next)
        /\ written' = {}
        /\ key' = inferenceKey
        /\ at' = IF Staged(next) = {} THEN "save" ELSE "stage"
        /\ UNCHANGED <<up, osAnswers, cfg, disk, secrets, given, faults, troubled>>

\* The update ends: nothing of it is remembered.
Forget ==
    /\ at' = "idle"
    /\ candidate' = NoConfig
    /\ todo' = {}
    /\ written' = {}
    /\ key' = "keep"

\* cleanupStagedSecrets, before the error is answered.
BeginUndo(refs) ==
    IF refs = {} THEN Forget
    ELSE /\ at' = "undo"
         /\ todo' = refs
         /\ UNCHANGED <<candidate, written, key>>

\* The next staged credential, in any order.
StoreStaged ==
    /\ at = "stage"
    /\ \E r \in todo : \E o \in SetSecret(osAnswers, secrets, r, candidate.url[r[1]]) :
           /\ Take(o, o.failures)
           /\ IF o.ok
              THEN /\ written' = written \cup {r}
                   /\ todo' = todo \ {r}
                   /\ at' = IF todo = {r} THEN "save" ELSE "stage"
                   /\ UNCHANGED <<candidate, key, troubled>>
              ELSE BeginUndo(written) /\ troubled' = TRUE
    /\ UNCHANGED <<up, osAnswers, cfg, disk, given>>

\* Faulty variant: the memory is changed before the save.
SaveCandidateInMemory ==
    /\ at = "save"
    /\ cfg' = candidate
    /\ \/ /\ SaveSucceeds(candidate)
          /\ at' = "inference"
          /\ UNCHANGED <<candidate, todo, written, key, troubled>>
       \/ /\ SaveFails(candidate)
          /\ BeginUndo(written)
          /\ troubled' = TRUE
    /\ UNCHANGED <<up, osAnswers, secrets, given>>

SaveCandidate ==
    /\ at = "save"
    /\ \/ /\ SaveSucceeds(candidate)
          /\ at' = "inference"
          /\ UNCHANGED <<candidate, todo, written, key, troubled>>
       \/ /\ SaveFails(candidate)
          /\ BeginUndo(written)
          /\ troubled' = TRUE
    /\ UNCHANGED <<up, osAnswers, cfg, secrets, given>>

\* The memory follows the file; then the stale credentials go.
Commit ==
    /\ cfg' = candidate
    /\ IF Stale(cfg, candidate) = {} THEN Forget
       ELSE /\ at' = "clean"
            /\ todo' = Stale(cfg, candidate)
            /\ UNCHANGED <<candidate, written, key>>
    /\ UNCHANGED troubled

KeepKey ==
    /\ at = "inference"
    /\ key = "keep"
    /\ Commit
    /\ UNCHANGED <<up, osAnswers, disk, secrets, given, faults>>

\* The inference key is cleared or replaced.
ChangeKey ==
    LET value == IF key = "clear" THEN NoSecret ELSE key
        outcomes == IF key = "clear"
                    THEN DeleteStrict(secrets, InferenceTokenKey)
                    ELSE SetSecret(osAnswers, secrets, InferenceTokenKey, key)
    IN  /\ at = "inference"
        /\ key # "keep"
        /\ \E o \in outcomes :
               /\ Take(o, IF o.ok THEN o.failures ELSE 1)
               /\ IF o.ok
                  THEN given' = value /\ Commit
                  ELSE /\ given' = Unsaid
                       /\ at' = "rollback"
                       /\ troubled' = TRUE
                       /\ UNCHANGED <<cfg, candidate, todo, written, key>>
        /\ UNCHANGED <<up, osAnswers, disk>>

\* The configuration in memory is saved again, and the result ignored.
Rollback ==
    /\ at = "rollback"
    /\ SaveSucceeds(cfg) \/ SaveFails(cfg)
    /\ BeginUndo(written)
    /\ UNCHANGED <<up, osAnswers, cfg, secrets, given, troubled>>

\* The next staged credential of a failed update, or the next stale one of a
\* successful update, is deleted; a failure of the latter is a pending clean-up.
DeleteNext ==
    /\ at \in {"undo", "clean"}
    /\ \E r \in todo : \E o \in DeleteStrict(secrets, r) :
           /\ Take(o, o.failures)
           /\ troubled' = (troubled \/ ~o.ok)
           /\ IF todo = {r} THEN Forget
              ELSE /\ todo' = todo \ {r}
                   /\ UNCHANGED <<at, candidate, written, key>>
    /\ UNCHANGED <<up, osAnswers, cfg, disk, given>>

----------------------------------------------------------------------------
(* Around the updates. *)

\* persistControlState saves the configuration in memory with another pool.
PersistControlState ==
    /\ up
    /\ at = "idle"
    /\ SaveSucceeds(cfg) \/ SaveFails(cfg)
    /\ UNCHANGED <<up, osAnswers, cfg, secrets, updateVars, given, troubled>>

\* The program stops or dies, wherever an update stands.
Stop ==
    /\ up
    /\ up' = FALSE
    /\ Forget
    /\ IF at = "idle" THEN UNCHANGED <<faults, troubled>>
       ELSE /\ faults < MaxFaults
            /\ faults' = faults + 1
            /\ troubled' = TRUE
    /\ UNCHANGED <<osAnswers, cfg, disk, secrets, given>>

\* An OS store may have appeared since the last run; one that obeyed still does.
NextBackends == {answers \in Backends : "obeys" \in osAnswers => answers = osAnswers}

\* The configuration is loaded.  A gateway that listens beyond the loopback
\* makes itself an inference key if it has none.
Start(answers) ==
    /\ ~up
    /\ cfg' = disk
    /\ osAnswers' = answers
    /\ \/ up' = TRUE /\ UNCHANGED <<secrets, given, faults>>
       \/ /\ Get(secrets, InferenceTokenKey) = NoSecret
          /\ \E k \in Key : \E o \in SetSecret(answers, secrets, InferenceTokenKey, k) :
                 /\ Take(o, o.failures)
                 /\ up' = o.ok
                 /\ given' = IF o.ok THEN k ELSE Unsaid
    /\ UNCHANGED <<disk, updateVars, troubled>>

KeyDecision == {"keep", "clear", "new"}

Next ==
    \/ \E url \in [Provider -> Url \cup {NoUrl}], apiKey \in [Provider -> KeyDecision],
          inferenceKey \in KeyRequest :
           BeginUpdate(url, apiKey, inferenceKey)
    \/ StoreStaged \/ SaveCandidate \/ KeepKey \/ ChangeKey \/ Rollback \/ DeleteNext
    \/ PersistControlState
    \/ Stop
    \/ \E answers \in NextBackends : Start(answers)

Spec == Init /\ [][Next]_vars

----------------------------------------------------------------------------
(* Properties. *)

\* The structures of config.go and secrets.go; a provider that is not
\* configured has no credential.
TypeOK ==
    /\ up \in BOOLEAN
    /\ osAnswers \in Backends
    /\ {cfg, disk, candidate} \subseteq Config
    /\ secrets \in Secrets
    /\ at \in Place
    /\ todo \subseteq Slot
    /\ written \subseteq Slot
    /\ key \in KeyRequest
    /\ given \in Key \cup {NoSecret, Unsaid}
    /\ faults \in 0..MaxFaults
    /\ troubled \in BOOLEAN

\* Every credential that the file or the running configuration names can be
\* read and is the one that was entered for that endpoint, wherever an update
\* is, fails or is cut off: credentials are stored before the file names them
\* and deleted only when it no longer does (updateConfig).
CredentialsResolve ==
    \A config \in {cfg, disk}, p \in Provider :
        config.ref[p] # 0 => Get(secrets, <<p, config.ref[p]>>) = config.url[p]

\* A revision names one configuration, in this run and the next: the one in
\* memory never goes back or changes under a revision a client may hold,
\* whatever fails or is cut off (updateConfig saves before it commits), where one
\* rename replaces the file: a program that ends between the two of replaceFile's
\* fallback leaves none, and the next one begins with revision 0 again.
RevisionNamesConfig ==
    [][ /\ cfg'.revision >= cfg.revision
        /\ cfg'.revision = cfg.revision => cfg' = cfg ]_vars

\* Without an error, a pending clean-up or an interrupted update there is no
\* credential in either store that the configuration does not name.
NothingKeptSilently ==
    up /\ at = "idle" /\ ~troubled =>
        \A s \in Slot \ {InferenceTokenKey} :
            Get(secrets, s) # NoSecret => cfg.ref[s[1]] = s[2]

\* The stores and the configuration agree: what is named is there, and what is
\* not named is gone (updateConfig with its roll-backs and clean-ups).
StoresMatchConfig == CredentialsResolve /\ NothingKeptSilently

\* The inference key that is read is the one of the last update that was
\* answered ("stored key mismatch", config_update_test.go:105).
GivenKeyIsRead ==
    given # Unsaid => Get(secrets, InferenceTokenKey) = given

----------------------------------------------------------------------------
(* The inductive invariant behind TypeOK and RevisionNamesConfig. *)

\* The file is never older than the memory, and of the same age the same; the
\* candidate is the next revision until it is committed, and in the file when
\* it is; only its own references are being stored.
RevisionShape ==
    /\ disk.revision >= cfg.revision
    /\ disk.revision = cfg.revision => disk = cfg
    /\ ~up => at = "idle"
    /\ at \in {"stage", "save", "inference"} => candidate.revision = cfg.revision + 1
    /\ at = "inference" => disk = candidate
    /\ at = "stage" => todo \subseteq Staged(candidate)

IInv == TypeOK /\ RevisionShape

(***************************************************************************)
(* Inductive on top of it: what the stores hold.                           *)
(***************************************************************************)

\* An update works on the slots of providers; a reference is named after the
\* revision that brought it, and one the candidate did not bring is that of the
\* configuration before it, for the same endpoint.
SlotShape ==
    /\ todo \cup written \subseteq Slot \ {InferenceTokenKey}
    /\ \A config \in {cfg, disk}, p \in Provider : config.ref[p] <= config.revision
    /\ at \in {"stage", "save", "inference"} =>
          \A p \in Provider :
              \/ candidate.ref[p] \in {0, candidate.revision}
              \/ candidate.ref[p] = cfg.ref[p] /\ candidate.url[p] = cfg.url[p]

\* While nothing went wrong the file is the memory but for the moment between
\* save and commit, and what is stored is named, about to be, or about to go.
KeptShape ==
    /\ ~troubled =>
          /\ at \notin {"undo", "rollback"}
          /\ at # "inference" => disk = cfg
          /\ \A s \in Slot \ {InferenceTokenKey} :
                Get(secrets, s) # NoSecret =>
                    \/ cfg.ref[s[1]] = s[2]
                    \/ at \in {"stage", "save", "inference"} /\ s \in Staged(candidate)
                    \/ at = "clean" /\ s \in todo

\* A secret that is set may end in the file.
MayUseFile(answers) == \E answer \in answers : answer # "obeys"

\* Without an OS store the secrets are in the file alone.
SteadyShape ==
    MayUseFile(osAnswers) => \A s \in Slot : secrets.os[s] = NoSecret

\* The candidate's own credentials are stored before it is saved, and nothing
\* is deleted that the memory or the file names.
ResolveShape ==
    /\ up /\ at \notin {"inference", "rollback"} => disk = cfg
    /\ at = "rollback" => faults > 0
    /\ at \in {"stage", "save", "inference"} =>
          \A p \in Provider :
              candidate.ref[p] = candidate.revision =>
                  \/ at = "stage" /\ <<p, candidate.revision>> \in todo
                  \/ Get(secrets, <<p, candidate.revision>>) = candidate.url[p]
    /\ at \in {"stage", "save", "inference", "rollback"} =>
          \A r \in written : r[2] = cfg.revision + 1
    /\ at = "undo" => \A r \in todo : r[2] = cfg.revision + 1
    /\ at = "clean" => \A r \in todo : cfg.ref[r[1]] # r[2]
    /\ CredentialsResolve
============================================================================
