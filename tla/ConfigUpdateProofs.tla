------------------------- MODULE ConfigUpdateProofs -------------------------
(***************************************************************************)
(* Type correctness of ConfigUpdate and the meaning of its revisions, for  *)
(* any providers, endpoints, keys, OS stores, ways to fail and bounds; and *)
(* that stores and configuration agree, in part under the assumptions      *)
(* SteadyStores and OneFault on what may fail.                             *)
(***************************************************************************)
EXTENDS ConfigUpdate, TLAPS

\* What a write of the secret store may end with.
OutcomeType == [ok : BOOLEAN, store : Secrets, failures : {0, 1}]

\* Rewriting the secret file ends with a store of secrets (writeSecretToFile,
\* deleteSecretFromFile).
LEMMA FileOutcomesType ==
    ASSUME NEW store \in Secrets, NEW next \in Secrets,
           NEW o \in FileOutcomes(store, next)
    PROVE  o \in OutcomeType
<1>1. \/ o = Outcome(TRUE, next, 0)
      \/ o = Outcome(FALSE, store, 1)
      \/ o = Outcome(FALSE, next, 1)
  BY Zenon DEF FileOutcomes
<1>2. Outcome(TRUE, next, 0) \in OutcomeType
  BY DEF Outcome, OutcomeType
<1>3. Outcome(FALSE, store, 1) \in OutcomeType
  BY DEF Outcome, OutcomeType
<1>4. Outcome(FALSE, next, 1) \in OutcomeType
  BY DEF Outcome, OutcomeType
<1> QED
  BY <1>1, <1>2, <1>3, <1>4

\* Setting a secret does (SecretStore.Set).
LEMMA SetSecretType ==
    ASSUME NEW answers \in SUBSET Answer, NEW store \in Secrets, NEW s \in Slot,
           NEW value \in Secret, NEW o \in SetSecret(answers, store, s, value)
    PROVE  o \in OutcomeType
<1> DEFINE inOS == [store EXCEPT !.os[s] = value]
           inFile == [store EXCEPT !.file[s] = value]
           cleaned == [inOS EXCEPT !.file[s] = NoSecret]
<1>1. NoSecret \in Secret
  BY DEF Secret
<1>2. /\ inOS \in Secrets
      /\ inFile \in Secrets
      /\ cleaned \in Secrets
  BY <1>1 DEF Secrets
<1>3. CASE \E p \in DeleteFromFile(inOS, s) : o = [p EXCEPT !.ok = TRUE]
  <2>1. PICK p \in FileOutcomes(inOS, cleaned) : o = [p EXCEPT !.ok = TRUE]
    BY <1>3 DEF DeleteFromFile
  <2>2. p \in OutcomeType
    BY <1>2, <2>1, FileOutcomesType
  <2> QED
    BY <2>1, <2>2 DEF OutcomeType
<1>4. CASE o \in FileOutcomes(store, inFile)
  BY <1>2, <1>4, FileOutcomesType
<1> QED
  BY <1>3, <1>4 DEF SetSecret

\* So does deleting one (SecretStore.DeleteStrict).
LEMMA DeleteStrictType ==
    ASSUME NEW store \in Secrets, NEW s \in Slot, osAnswers \in SUBSET Answer,
           NEW o \in DeleteStrict(store, s)
    PROVE  o \in OutcomeType
<1> DEFINE outOfOS == [store EXCEPT !.os[s] = NoSecret]
           outOfBoth == [outOfOS EXCEPT !.file[s] = NoSecret]
           outOfFile == [store EXCEPT !.file[s] = NoSecret]
<1>1. NoSecret \in Secret
  BY DEF Secret
<1>2. /\ outOfOS \in Secrets
      /\ outOfBoth \in Secrets
      /\ outOfFile \in Secrets
  BY <1>1 DEF Secrets
<1>3. CASE o \in DeleteFromFile(outOfOS, s)
  BY <1>2, <1>3, FileOutcomesType DEF DeleteFromFile
<1>4. CASE \E p \in DeleteFromFile(store, s) : o = [p EXCEPT !.ok = FALSE]
  <2>1. PICK p \in FileOutcomes(store, outOfFile) : o = [p EXCEPT !.ok = FALSE]
    BY <1>4 DEF DeleteFromFile
  <2>2. p \in OutcomeType
    BY <1>2, <2>1, FileOutcomesType
  <2> QED
    BY <2>1, <2>2 DEF OutcomeType
<1> QED
  BY <1>3, <1>4 DEF DeleteStrict

\* An outcome that is taken leaves typed stores and a counter within its bound.
LEMMA TakeType ==
    ASSUME NEW o \in OutcomeType, NEW n \in {0, 1}, faults \in 0..MaxFaults,
           Take(o, n)
    PROVE  secrets' \in Secrets /\ faults' \in 0..MaxFaults
BY ConfigUpdateAssumption DEF Take, OutcomeType

\* The next configuration is one: a provider that is removed loses its
\* reference, and its staged references are the slots of its own revision.
LEMMA CandidateType ==
    ASSUME NEW old \in Config, old.revision < MaxRevision,
           NEW url \in [Provider -> Url \cup {NoUrl}],
           NEW apiKey \in [Provider -> KeyDecision]
    PROVE  /\ Candidate(old, url, apiKey) \in Config
           /\ Candidate(old, url, apiKey).revision = old.revision + 1
<1>1. old.revision + 1 \in 0..MaxRevision
  BY ConfigUpdateAssumption DEF Config
<1>2. ASSUME NEW p \in Provider
      PROVE  /\ NewRef(old, url, apiKey, p) \in 0..MaxRevision
             /\ url[p] = NoUrl => NewRef(old, url, apiKey, p) = 0
  <2>1. old.ref[p] \in 0..MaxRevision /\ 0 \in 0..MaxRevision
    BY <1>2, ConfigUpdateAssumption DEF Config
  <2>2. NewRef(old, url, apiKey, p) \in {0, old.ref[p], old.revision + 1}
    BY DEF NewRef
  <2>3. url[p] = NoUrl => NewRef(old, url, apiKey, p) = 0
    BY DEF NewRef
  <2> QED
    BY <1>1, <2>1, <2>2, <2>3
<1> QED
  BY <1>1, <1>2 DEF Candidate, Config

\* References of a configuration are slots, and a staged one has an endpoint.
LEMMA RefsAreSlots ==
    ASSUME NEW c \in Config, c.revision > 0, NEW old \in Config
    PROVE  /\ Staged(c) \subseteq Slot
           /\ Stale(old, c) \subseteq Slot
           /\ \A r \in Staged(c) : c.url[r[1]] \in Url
<1>1. c.revision \in 1..MaxRevision
  BY ConfigUpdateAssumption DEF Config
<1>2. ASSUME NEW p \in Provider, c.ref[p] = c.revision
      PROVE  <<p, c.revision>> \in Slot /\ c.url[p] \in Url
  BY <1>1, <1>2 DEF Config, Slot
<1>3. ASSUME NEW p \in Provider, old.ref[p] # 0
      PROVE  <<p, old.ref[p]>> \in Slot
  <2>1. old.ref[p] \in 1..MaxRevision
    BY <1>3, ConfigUpdateAssumption DEF Config
  <2> QED
    BY <2>1 DEF Slot
<1> QED
  BY <1>2, <1>3 DEF Staged, Stale

LEMMA InferenceKeyIsSlot == InferenceTokenKey \in Slot
BY DEF Slot

LEMMA EmptyConfig == NoConfig \in Config
BY ConfigUpdateAssumption DEF NoConfig, Config

----------------------------------------------------------------------------
\* The parts of TypeOK that an update's own variables make up.
UpdateType ==
    /\ candidate \in Config
    /\ at \in Place
    /\ todo \subseteq Slot
    /\ written \subseteq Slot
    /\ key \in KeyRequest

\* An update that ends, or goes on to undo itself, is left in a proper state.
LEMMA UndoType ==
    ASSUME UpdateType, NEW refs \in SUBSET Slot, BeginUndo(refs)
    PROVE  UpdateType' /\ at' \in {"idle", "undo"}
BY EmptyConfig DEF UpdateType, BeginUndo, Forget, Place, KeyRequest

LEMMA ForgetType ==
    ASSUME UpdateType, Forget
    PROVE  UpdateType' /\ at' = "idle"
BY EmptyConfig DEF UpdateType, Forget, Place, KeyRequest

\* The commit installs the next revision, which the file has already.
LEMMA CommitKeepsInvariant ==
    ASSUME IInv, at = "inference", Commit
    PROVE  /\ UpdateType' /\ cfg' \in Config
           /\ cfg' = disk /\ at' \in {"idle", "clean"}
           /\ candidate.revision = cfg.revision + 1
<1>1. /\ candidate \in Config /\ cfg \in Config /\ UpdateType
      /\ candidate.revision = cfg.revision + 1 /\ disk = candidate
  BY DEF IInv, TypeOK, RevisionShape, UpdateType
<1>2. candidate.revision > 0
  BY <1>1 DEF Config
<1>3. Stale(cfg, candidate) \subseteq Slot
  BY <1>1, <1>2, RefsAreSlots
<1>4. UpdateType' /\ at' \in {"idle", "clean"}
  <2>1. CASE Forget
    BY <1>1, <2>1, ForgetType
  <2>2. CASE ~Forget
    BY <1>1, <1>3, <2>2 DEF Commit, UpdateType, Place
  <2> QED
    BY <2>1, <2>2
<1> QED
  BY <1>1, <1>4 DEF Commit

\* A save leaves the file as it was or makes it the configuration that was
\* saved, whether it succeeds or fails before or after the replacement.
LEMMA SaveType ==
    ASSUME NEW config, SaveSucceeds(config) \/ SaveFails(config), faults \in 0..MaxFaults
    PROVE  disk' \in {disk, config} /\ faults' \in 0..MaxFaults
BY ConfigUpdateAssumption DEF SaveSucceeds, SaveFails

\* Every step keeps the inductive invariant.
LEMMA StepKeepsInvariant ==
    ASSUME IInv, [Next]_vars
    PROVE  IInv'
<1> USE DEF IInv
<1>0. /\ TypeOK /\ RevisionShape /\ UpdateType
      /\ cfg.revision \in 0..MaxRevision /\ disk.revision \in 0..MaxRevision
      /\ candidate.revision \in 0..MaxRevision
      /\ osAnswers \in SUBSET Answer
  BY ConfigUpdateAssumption DEF TypeOK, UpdateType, Config
<1>1. ASSUME NEW url \in [Provider -> Url \cup {NoUrl}],
             NEW apiKey \in [Provider -> KeyDecision],
             NEW inferenceKey \in KeyRequest,
             BeginUpdate(url, apiKey, inferenceKey)
      PROVE  IInv'
  <2> DEFINE next == Candidate(cfg, url, apiKey)
  <2>1. next \in Config /\ next.revision = cfg.revision + 1
    BY <1>0, <1>1, CandidateType DEF TypeOK, BeginUpdate
  <2>2. Staged(next) \subseteq Slot
    <3>1. next.revision > 0
      BY <1>0, <2>1
    <3> HIDE DEF next
    <3> QED
      BY <2>1, <3>1, RefsAreSlots
  <2>3. TypeOK'
    BY <1>0, <1>1, <2>1, <2>2 DEF TypeOK, BeginUpdate, Place
  <2>4. RevisionShape'
    BY <1>0, <1>1, <2>1 DEF RevisionShape, BeginUpdate
  <2> QED
    BY <2>3, <2>4
<1>2. ASSUME StoreStaged
      PROVE  IInv'
  <2>1. PICK r \in todo : \E o \in SetSecret(osAnswers, secrets, r, candidate.url[r[1]]) :
           /\ Take(o, o.failures)
           /\ IF o.ok
              THEN /\ written' = written \cup {r}
                   /\ todo' = todo \ {r}
                   /\ at' = IF todo = {r} THEN "save" ELSE "stage"
                   /\ UNCHANGED <<candidate, key, troubled>>
              ELSE BeginUndo(written) /\ troubled' = TRUE
    BY <1>2 DEF StoreStaged
  <2>2. PICK o \in SetSecret(osAnswers, secrets, r, candidate.url[r[1]]) :
           /\ Take(o, o.failures)
           /\ IF o.ok
              THEN /\ written' = written \cup {r}
                   /\ todo' = todo \ {r}
                   /\ at' = IF todo = {r} THEN "save" ELSE "stage"
                   /\ UNCHANGED <<candidate, key, troubled>>
              ELSE BeginUndo(written) /\ troubled' = TRUE
    BY <2>1
  <2>3. /\ at = "stage"
        /\ UNCHANGED <<up, osAnswers, cfg, disk, given>>
    BY <1>2 DEF StoreStaged
  <2>4. r \in Slot /\ candidate.url[r[1]] \in Secret
    <3>1. r \in Staged(candidate) /\ candidate.revision > 0
      BY <1>0, <2>3 DEF RevisionShape
    <3> QED
      BY <1>0, <3>1, RefsAreSlots DEF TypeOK, Secret
  <2>5. o \in OutcomeType
    BY <1>0, <2>4, SetSecretType DEF TypeOK
  <2>6. secrets' \in Secrets /\ faults' \in 0..MaxFaults
    <3>1. o.failures \in {0, 1}
      BY <2>5 DEF OutcomeType
    <3> QED
      BY <1>0, <2>2, <2>5, <3>1, TakeType DEF TypeOK
  <2>7. CASE o.ok
    <3>1. TypeOK'
      BY <1>0, <2>2, <2>3, <2>4, <2>6, <2>7 DEF TypeOK, Place
    <3>2. RevisionShape'
      BY <1>0, <2>2, <2>3, <2>7 DEF RevisionShape, Staged
    <3> QED
      BY <3>1, <3>2
  <2>8. CASE ~o.ok
    <3>1. UpdateType' /\ at' \in {"idle", "undo"} /\ troubled' = TRUE
      BY <1>0, <2>2, <2>8, UndoType DEF UpdateType
    <3>2. TypeOK'
      BY <1>0, <2>3, <2>6, <3>1 DEF TypeOK, UpdateType
    <3>3. RevisionShape'
      BY <1>0, <2>3, <3>1 DEF RevisionShape
    <3> QED
      BY <3>2, <3>3
  <2> QED
    BY <2>7, <2>8
<1>3. ASSUME SaveCandidate
      PROVE  IInv'
  <2>1. disk' \in {disk, candidate} /\ faults' \in 0..MaxFaults
    BY <1>0, <1>3, SaveType DEF SaveCandidate, TypeOK
  <2>2. CASE SaveSucceeds(candidate) /\ at' = "inference"
             /\ UNCHANGED <<candidate, todo, written, key, troubled>>
    <3>1. TypeOK'
      BY <1>0, <1>3, <2>1, <2>2 DEF TypeOK, SaveCandidate, Place
    <3>2. RevisionShape'
      BY <1>0, <1>3, <2>2 DEF RevisionShape, SaveCandidate, SaveSucceeds
    <3> QED
      BY <3>1, <3>2
  <2>3. CASE SaveFails(candidate) /\ BeginUndo(written) /\ troubled' = TRUE
    <3>1. UpdateType' /\ at' \in {"idle", "undo"}
      BY <1>0, <2>3, UndoType DEF UpdateType
    <3>2. TypeOK'
      BY <1>0, <1>3, <2>1, <2>3, <3>1 DEF TypeOK, UpdateType, SaveCandidate
    <3>3. RevisionShape'
      BY <1>0, <1>3, <2>1, <3>1 DEF RevisionShape, SaveCandidate
    <3> QED
      BY <3>2, <3>3
  <2> QED
    BY <1>3, <2>2, <2>3 DEF SaveCandidate
<1>4. ASSUME KeepKey
      PROVE  IInv'
  <2>1. /\ UpdateType' /\ cfg' \in Config /\ cfg' = disk /\ at' \in {"idle", "clean"}
    BY <1>4, CommitKeepsInvariant DEF KeepKey
  <2>2. TypeOK'
    BY <1>0, <1>4, <2>1 DEF TypeOK, UpdateType, KeepKey, Commit
  <2>3. RevisionShape'
    BY <1>0, <1>4, <2>1 DEF RevisionShape, KeepKey
  <2> QED
    BY <2>2, <2>3
<1>5. ASSUME ChangeKey
      PROVE  IInv'
  <2> DEFINE value == IF key = "clear" THEN NoSecret ELSE key
             outcomes == IF key = "clear"
                         THEN DeleteStrict(secrets, InferenceTokenKey)
                         ELSE SetSecret(osAnswers, secrets, InferenceTokenKey, key)
  <2>1. PICK o \in outcomes :
           /\ Take(o, IF o.ok THEN o.failures ELSE 1)
           /\ IF o.ok
              THEN given' = value /\ Commit
              ELSE /\ given' = Unsaid
                   /\ at' = "rollback"
                   /\ troubled' = TRUE
                   /\ UNCHANGED <<cfg, candidate, todo, written, key>>
    BY <1>5 DEF ChangeKey
  <2>2. /\ at = "inference" /\ key # "keep"
        /\ UNCHANGED <<up, osAnswers, disk>>
    BY <1>5 DEF ChangeKey
  <2>3. o \in OutcomeType
    <3>1. CASE key = "clear"
      BY <1>0, <2>1, <3>1, InferenceKeyIsSlot, DeleteStrictType DEF TypeOK
    <3>2. CASE key # "clear"
      <4>1. key \in Secret
        BY <1>0, <2>2, <3>2 DEF TypeOK, KeyRequest, Secret
      <4> QED
        BY <1>0, <2>1, <3>2, <4>1, InferenceKeyIsSlot, SetSecretType DEF TypeOK
    <3> QED
      BY <3>1, <3>2
  <2>4. secrets' \in Secrets /\ faults' \in 0..MaxFaults
    <3>1. (IF o.ok THEN o.failures ELSE 1) \in {0, 1}
      BY <2>3 DEF OutcomeType
    <3> QED
      BY <1>0, <2>1, <2>3, <3>1, TakeType DEF TypeOK
  <2>5. value \in Key \cup {NoSecret}
    BY <1>0, <2>2 DEF TypeOK, KeyRequest
  <2>6. CASE o.ok
    <3>1. /\ UpdateType' /\ cfg' \in Config /\ cfg' = disk /\ at' \in {"idle", "clean"}
      BY <2>1, <2>2, <2>6, CommitKeepsInvariant
    <3>2. troubled' = troubled /\ given' = value
      BY <2>1, <2>6 DEF Commit
    <3>3. TypeOK'
      BY <1>0, <2>2, <2>4, <2>5, <3>1, <3>2 DEF TypeOK, UpdateType
    <3>4. RevisionShape'
      BY <1>0, <2>2, <3>1 DEF RevisionShape
    <3> QED
      BY <3>3, <3>4
  <2>7. CASE ~o.ok
    <3>1. TypeOK'
      BY <1>0, <2>1, <2>2, <2>4, <2>7 DEF TypeOK, Place
    <3>2. RevisionShape'
      BY <1>0, <2>1, <2>2, <2>7 DEF RevisionShape
    <3> QED
      BY <3>1, <3>2
  <2> QED
    BY <2>6, <2>7
<1>6. ASSUME Rollback
      PROVE  IInv'
  <2>1. disk' \in {disk, cfg} /\ faults' \in 0..MaxFaults
    BY <1>0, <1>6, SaveType DEF Rollback, TypeOK
  <2>2. UpdateType' /\ at' \in {"idle", "undo"}
    BY <1>0, <1>6, UndoType DEF Rollback, UpdateType
  <2>3. TypeOK'
    BY <1>0, <1>6, <2>1, <2>2 DEF TypeOK, UpdateType, Rollback
  <2>4. RevisionShape'
    BY <1>0, <1>6, <2>1, <2>2 DEF RevisionShape, Rollback
  <2> QED
    BY <2>3, <2>4
<1>7. ASSUME DeleteNext
      PROVE  IInv'
  <2>1. PICK r \in todo : \E o \in DeleteStrict(secrets, r) :
           /\ Take(o, o.failures)
           /\ troubled' = (troubled \/ ~o.ok)
           /\ IF todo = {r} THEN Forget
              ELSE /\ todo' = todo \ {r}
                   /\ UNCHANGED <<at, candidate, written, key>>
    BY <1>7 DEF DeleteNext
  <2>2. PICK o \in DeleteStrict(secrets, r) :
           /\ Take(o, o.failures)
           /\ troubled' = (troubled \/ ~o.ok)
           /\ IF todo = {r} THEN Forget
              ELSE /\ todo' = todo \ {r}
                   /\ UNCHANGED <<at, candidate, written, key>>
    BY <2>1
  <2>3. o \in OutcomeType
    BY <1>0, <2>1, DeleteStrictType DEF TypeOK
  <2>4. secrets' \in Secrets /\ faults' \in 0..MaxFaults
    <3>1. o.failures \in {0, 1}
      BY <2>3 DEF OutcomeType
    <3> QED
      BY <1>0, <2>2, <2>3, <3>1, TakeType DEF TypeOK
  <2>5. troubled' \in BOOLEAN
    BY <1>0, <2>2, <2>3 DEF TypeOK, OutcomeType
  <2>6. UpdateType' /\ at' \in {"idle", "undo", "clean"}
    <3>1. CASE Forget
      BY <1>0, <3>1, ForgetType
    <3>2. CASE ~Forget
      BY <1>0, <1>7, <2>2, <3>2 DEF UpdateType, DeleteNext
    <3> QED
      BY <3>1, <3>2
  <2>7. at \in {"undo", "clean"} /\ UNCHANGED <<up, osAnswers, cfg, disk, given>>
    BY <1>7 DEF DeleteNext
  <2>8. TypeOK'
    BY <1>0, <2>4, <2>5, <2>6, <2>7 DEF TypeOK, UpdateType
  <2>9. RevisionShape'
    BY <1>0, <2>6, <2>7 DEF RevisionShape
  <2> QED
    BY <2>8, <2>9
<1>8. ASSUME PersistControlState
      PROVE  IInv'
  <2>1. disk' \in {disk, cfg} /\ faults' \in 0..MaxFaults
    BY <1>0, <1>8, SaveType DEF PersistControlState, TypeOK
  <2>2. TypeOK'
    BY <1>0, <1>8, <2>1 DEF TypeOK, PersistControlState, updateVars
  <2>3. RevisionShape'
    BY <1>0, <1>8, <2>1 DEF RevisionShape, PersistControlState, updateVars
  <2> QED
    BY <2>2, <2>3
<1>9. ASSUME Stop
      PROVE  IInv'
  <2>1. UpdateType' /\ at' = "idle"
    BY <1>0, <1>9, ForgetType DEF Stop
  <2>2. faults' \in 0..MaxFaults /\ troubled' \in BOOLEAN
    <3>1. faults \in 0..MaxFaults /\ troubled \in BOOLEAN
      BY <1>0 DEF TypeOK
    <3>2. CASE at = "idle"
      BY <1>9, <3>1, <3>2 DEF Stop
    <3>3. CASE at # "idle"
      <4>1. faults < MaxFaults /\ faults' = faults + 1 /\ troubled' = TRUE
        BY <1>9, <3>3 DEF Stop
      <4> QED
        BY <3>1, <4>1, ConfigUpdateAssumption
    <3> QED
      BY <3>2, <3>3
  <2>3. TypeOK'
    BY <1>0, <1>9, <2>1, <2>2 DEF TypeOK, UpdateType, Stop
  <2>4. RevisionShape'
    BY <1>0, <1>9, <2>1 DEF RevisionShape, Stop
  <2> QED
    BY <2>3, <2>4
<1>10. ASSUME NEW answers \in NextBackends, Start(answers)
       PROVE  IInv'
  <2>1. answers \in Backends /\ answers \in SUBSET Answer
    BY ConfigUpdateAssumption DEF NextBackends
  <2>2. /\ up' \in BOOLEAN /\ secrets' \in Secrets /\ faults' \in 0..MaxFaults
        /\ given' \in Key \cup {NoSecret, Unsaid}
    <3>1. CASE up' = TRUE /\ UNCHANGED <<secrets, given, faults>>
      BY <1>0, <3>1 DEF TypeOK
    <3>2. ASSUME NEW k \in Key,
                 NEW o \in SetSecret(answers, secrets, InferenceTokenKey, k),
                 Take(o, o.failures), up' = o.ok,
                 given' = IF o.ok THEN k ELSE Unsaid
          PROVE  /\ up' \in BOOLEAN /\ secrets' \in Secrets /\ faults' \in 0..MaxFaults
                 /\ given' \in Key \cup {NoSecret, Unsaid}
      <4>1. o \in OutcomeType
        BY <1>0, <2>1, <3>2, InferenceKeyIsSlot, SetSecretType DEF TypeOK, Secret
      <4>2. o.ok \in BOOLEAN /\ o.failures \in {0, 1}
        BY <4>1 DEF OutcomeType
      <4>3. secrets' \in Secrets /\ faults' \in 0..MaxFaults
        BY <1>0, <3>2, <4>1, <4>2, TakeType DEF TypeOK
      <4> QED
        BY <3>2, <4>2, <4>3
    <3> QED
      BY <1>10, <3>1, <3>2 DEF Start
  <2>3. /\ ~up /\ cfg' = disk /\ osAnswers' = answers
        /\ UNCHANGED <<disk, updateVars, troubled>>
    BY <1>10 DEF Start
  <2>4. TypeOK'
    BY <1>0, <2>1, <2>2, <2>3 DEF TypeOK, updateVars
  <2>5. RevisionShape'
    BY <1>0, <2>3 DEF RevisionShape, updateVars
  <2> QED
    BY <2>4, <2>5
<1>11. ASSUME UNCHANGED vars
       PROVE  IInv'
  <2>1. TypeOK'
    BY <1>0, <1>11 DEF TypeOK, vars, updateVars
  <2>2. RevisionShape'
    BY <1>0, <1>11 DEF RevisionShape, vars, updateVars
  <2> QED
    BY <2>1, <2>2
<1> QED
  BY <1>1, <1>2, <1>3, <1>4, <1>5, <1>6, <1>7, <1>8, <1>9, <1>10, <1>11 DEF Next

\* The first start finds the default configuration and empty stores.
LEMMA InitInvariant == Init => IInv
<1> SUFFICES ASSUME Init PROVE IInv
  OBVIOUS
<1>1. PICK p \in Provider, u \in Url : disk = [NoConfig EXCEPT !.url[p] = u]
  BY DEF Init
<1>2. disk \in Config /\ disk = cfg /\ disk.revision = 0
  BY <1>1, ConfigUpdateAssumption DEF NoConfig, Config, Init
<1>3. [os |-> Empty, file |-> Empty] \in Secrets
  BY DEF Empty, Secrets, Secret
<1>4. TypeOK
  <2>1. 0 \in 0..MaxFaults
    BY ConfigUpdateAssumption
  <2>2. candidate \in Config /\ secrets \in Secrets
    BY <1>3, EmptyConfig DEF Init
  <2>3. /\ up \in BOOLEAN /\ troubled \in BOOLEAN /\ osAnswers \in Backends
        /\ at \in Place /\ todo \subseteq Slot /\ written \subseteq Slot
        /\ key \in KeyRequest /\ given \in Key \cup {NoSecret, Unsaid}
        /\ faults \in 0..MaxFaults
    BY <2>1 DEF Init, Place, KeyRequest
  <2> QED
    BY <1>2, <2>2, <2>3 DEF TypeOK
<1>5. RevisionShape
  BY <1>2 DEF Init, RevisionShape
<1> QED
  BY <1>4, <1>5 DEF IInv

\* The invariant of the configuration: types, and a file that is never behind
\* the memory.
THEOREM ConfigInvariant == Spec => []IInv
BY InitInvariant, StepKeepsInvariant, PTL DEF Spec

\* Type correctness of the updates.
THEOREM ConfigTypeCorrect == Spec => []TypeOK
BY ConfigInvariant, PTL DEF IInv

\* A revision names one configuration across updates, failures and restarts
\* (updateConfig, RunWithProvider).
THEOREM RevisionsNameConfigs == Spec => RevisionNamesConfig
<1> DEFINE Kept == /\ cfg'.revision >= cfg.revision
                   /\ cfg'.revision = cfg.revision => cfg' = cfg
<1>1. ASSUME IInv, [Next]_vars
      PROVE  [Kept]_vars
  <2>0. cfg.revision \in Nat /\ disk.revision >= cfg.revision
        /\ (disk.revision = cfg.revision => disk = cfg)
    BY <1>1, ConfigUpdateAssumption DEF IInv, TypeOK, RevisionShape, Config
  <2>1. CASE cfg' = cfg
    BY <2>0, <2>1
  <2>2. CASE cfg' = disk
    BY <2>0, <2>2
  <2>3. CASE KeepKey \/ ChangeKey
    <3>1. cfg' = cfg \/ cfg' = disk
      <4>1. CASE Commit /\ at = "inference"
        BY <1>1, <4>1, CommitKeepsInvariant
      <4>2. CASE UNCHANGED cfg
        BY <4>2
      <4> QED
        BY <2>3, <4>1, <4>2 DEF KeepKey, ChangeKey
    <3> QED
      BY <2>1, <2>2, <3>1
  <2>4. CASE \/ StoreStaged \/ SaveCandidate \/ Rollback \/ DeleteNext
             \/ PersistControlState \/ Stop
             \/ \E url \in [Provider -> Url \cup {NoUrl}],
                   apiKey \in [Provider -> KeyDecision], inferenceKey \in KeyRequest :
                    BeginUpdate(url, apiKey, inferenceKey)
    BY <2>1, <2>4
    DEF StoreStaged, SaveCandidate, Rollback, DeleteNext, PersistControlState, Stop,
        BeginUpdate
  <2>5. CASE \E answers \in NextBackends : Start(answers)
    BY <2>2, <2>5 DEF Start
  <2>6. CASE UNCHANGED vars
    BY <2>6
  <2> QED
    BY <1>1, <2>3, <2>4, <2>5, <2>6 DEF Next
<1> QED
  BY <1>1, ConfigInvariant, PTL DEF Spec, RevisionNamesConfig

----------------------------------------------------------------------------
(* What the stores hold. *)

\* An OS store that obeys, refuses or is not there throughout a run.
SteadyStores == Backends \subseteq {{"obeys"}, {"refuses"}, {"absent"}}

\* One thing at most goes wrong, and a save that fails has replaced nothing.
OneFault == MaxFaults \in {0, 1} /\ SaveFaults \subseteq {"before"}

\* A rewritten file holds what it held or what it was to hold, and the latter if
\* no error is told (writeSecretToFile, deleteSecretFromFile).
LEMMA FileOutcomesEffect ==
    ASSUME NEW store, NEW next, NEW o \in FileOutcomes(store, next)
    PROVE  /\ o.store \in {store, next}
           /\ o.ok => o.store = next
           /\ \A b \in BOOLEAN : LET p == [o EXCEPT !.ok = b]
                                 IN  p.store = o.store /\ p.ok = b
<1>1. \/ o = Outcome(TRUE, next, 0)
      \/ o = Outcome(FALSE, store, 1)
      \/ o = Outcome(FALSE, next, 1)
  BY Zenon DEF FileOutcomes
<1> QED
  BY <1>1 DEF Outcome

\* One slot of a store is written.
InOS(store, s, value) == [store EXCEPT !.os[s] = value]
InFile(store, s, value) == [store EXCEPT !.file[s] = value]

\* What a store then holds.
LEMMA WrittenStores ==
    ASSUME NEW store \in Secrets, NEW s \in Slot, NEW value \in Secret
    PROVE  /\ InOS(store, s, value) \in Secrets
           /\ InOS(store, s, value).os[s] = value
           /\ InOS(store, s, value).file = store.file
           /\ \A t \in Slot \ {s} : InOS(store, s, value).os[t] = store.os[t]
           /\ InFile(store, s, value).file[s] = value
           /\ InFile(store, s, value).os = store.os
           /\ \A t \in Slot \ {s} : InFile(store, s, value).file[t] = store.file[t]
BY DEF Secrets, InOS, InFile

\* Setting a secret leaves every other one as it is read, and is read itself if
\* no older value in the OS store hides it.
SetsOnly(answers, store, s, value, o) ==
    /\ \A t \in Slot \ {s} : Get(o.store, t) = Get(store, t)
    /\ "obeys" \notin answers => o.store.os = store.os
    /\ /\ o.ok
       /\ value # NoSecret
       /\ MayUseFile(answers) => store.os[s] = NoSecret
       => Get(o.store, s) = value

\* SecretStore.Set sets one secret.
LEMMA SetSecretEffect ==
    ASSUME NEW answers \in SUBSET Answer, NEW store \in Secrets, NEW s \in Slot,
           NEW value \in Secret, NEW o \in SetSecret(answers, store, s, value)
    PROVE  SetsOnly(answers, store, s, value, o)
<1> DEFINE inOS == InOS(store, s, value)
           inFile == InFile(store, s, value)
           cleaned == InFile(inOS, s, NoSecret)
<1>0. NoSecret \in Secret
  BY DEF Secret
<1>a. /\ inOS \in Secrets /\ inOS.os[s] = value /\ inOS.file = store.file
      /\ inFile.file[s] = value /\ inFile.os = store.os
      /\ \A t \in Slot \ {s} : inOS.os[t] = store.os[t] /\ inFile.file[t] = store.file[t]
  BY WrittenStores
<1>b. /\ cleaned.os = inOS.os
      /\ \A t \in Slot \ {s} : cleaned.file[t] = inOS.file[t]
  <2> HIDE DEF inOS
  <2> QED
    BY <1>0, <1>a, WrittenStores
<1>1. \/ "obeys" \in answers /\ o.store \in {inOS, cleaned}
      \/ MayUseFile(answers) /\ o.store \in {store, inFile} /\ (o.ok => o.store = inFile)
  <2> HIDE DEF inOS, inFile, cleaned
  <2>1. ASSUME "obeys" \in answers,
               NEW p \in FileOutcomes(inOS, cleaned), o = [p EXCEPT !.ok = TRUE]
        PROVE  o.store \in {inOS, cleaned}
    BY <2>1, FileOutcomesEffect
  <2>2. ASSUME o \in FileOutcomes(store, inFile)
        PROVE  o.store \in {store, inFile} /\ (o.ok => o.store = inFile)
    BY <2>2, FileOutcomesEffect
  <2>3. \/ /\ "obeys" \in answers
           /\ \E p \in FileOutcomes(inOS, cleaned) : o = [p EXCEPT !.ok = TRUE]
        \/ MayUseFile(answers) /\ o \in FileOutcomes(store, inFile)
    <3>1. PICK answer \in answers :
             o \in (IF answer = "obeys"
                    THEN {[p EXCEPT !.ok = TRUE] : p \in DeleteFromFile(inOS, s)}
                    ELSE FileOutcomes(store, inFile))
      BY Zenon DEF SetSecret, inOS, inFile, InOS, InFile
    <3>2. DeleteFromFile(inOS, s) = FileOutcomes(inOS, cleaned)
      BY DEF DeleteFromFile, cleaned, InFile
    <3> QED
      BY <3>1, <3>2 DEF MayUseFile
  <2> QED
    BY <2>1, <2>2, <2>3
<1> HIDE DEF inOS, inFile, cleaned
<1>2. CASE "obeys" \in answers /\ o.store \in {inOS, cleaned}
  BY <1>2, <1>a, <1>b DEF Get, SetsOnly
<1>3. CASE MayUseFile(answers) /\ o.store \in {store, inFile} /\ (o.ok => o.store = inFile)
  BY <1>3, <1>a DEF Get, SetsOnly
<1> QED
  BY <1>1, <1>2, <1>3

\* Deleting one leaves the others, and nothing of it if it tells no error
\* (SecretStore.DeleteStrict).
LEMMA DeleteStrictEffect ==
    ASSUME NEW store \in Secrets, NEW s \in Slot, NEW o \in DeleteStrict(store, s)
    PROVE  /\ \A t \in Slot \ {s} : Get(o.store, t) = Get(store, t)
           /\ \A t \in Slot : store.os[t] = NoSecret => o.store.os[t] = NoSecret
           /\ o.ok => Get(o.store, s) = NoSecret
<1> DEFINE outOfOS == InOS(store, s, NoSecret)
           outOfBoth == InFile(outOfOS, s, NoSecret)
           outOfFile == InFile(store, s, NoSecret)
<1>0. NoSecret \in Secret
  BY DEF Secret
<1>a. /\ outOfOS \in Secrets /\ outOfOS.os[s] = NoSecret /\ outOfOS.file = store.file
      /\ outOfFile.os = store.os
      /\ \A t \in Slot \ {s} : outOfOS.os[t] = store.os[t] /\ outOfFile.file[t] = store.file[t]
  BY <1>0, WrittenStores
<1>b. /\ outOfBoth.os = outOfOS.os /\ outOfBoth.file[s] = NoSecret
      /\ \A t \in Slot \ {s} : outOfBoth.file[t] = outOfOS.file[t]
  <2> HIDE DEF outOfOS
  <2> QED
    BY <1>0, <1>a, WrittenStores
<1>1. \/ o.store \in {outOfOS, outOfBoth} /\ (o.ok => o.store = outOfBoth)
      \/ o.store \in {store, outOfFile} /\ ~o.ok
  <2>1. CASE o \in FileOutcomes(outOfOS, outOfBoth)
    BY <2>1, FileOutcomesEffect
  <2>2. CASE \E p \in FileOutcomes(store, outOfFile) : o = [p EXCEPT !.ok = FALSE]
    BY <2>2, FileOutcomesEffect
  <2> QED
    BY <2>1, <2>2 DEF DeleteStrict, DeleteFromFile, InOS, InFile
<1> HIDE DEF outOfOS, outOfFile, outOfBoth
<1>2. CASE o.store \in {outOfOS, outOfBoth} /\ (o.ok => o.store = outOfBoth)
  BY <1>2, <1>a, <1>b DEF Get
<1>3. CASE o.store \in {store, outOfFile} /\ ~o.ok
  BY <1>3, <1>a DEF Get
<1> QED
  BY <1>1, <1>2, <1>3

\* Storing a credential changes what is read of its slot alone (StoreStaged).
LEMMA StoreStagedEffect ==
    ASSUME IInv, StoreStaged
    PROVE  \E r \in todo, ok \in BOOLEAN :
              /\ r \in Slot /\ r \in Staged(candidate)
              /\ \A t \in Slot \ {r} : Get(secrets', t) = Get(secrets, t)
              /\ "obeys" \notin osAnswers => secrets'.os = secrets.os
              /\ ok /\ SteadyShape => Get(secrets', r) = candidate.url[r[1]]
              /\ IF ok
                 THEN /\ written' = written \cup {r}
                      /\ todo' = todo \ {r}
                      /\ at' = IF todo = {r} THEN "save" ELSE "stage"
                      /\ UNCHANGED <<candidate, key, troubled>>
                 ELSE BeginUndo(written) /\ troubled' = TRUE
<1>1. PICK r \in todo : \E o \in SetSecret(osAnswers, secrets, r, candidate.url[r[1]]) :
         /\ Take(o, o.failures)
         /\ IF o.ok
            THEN /\ written' = written \cup {r}
                 /\ todo' = todo \ {r}
                 /\ at' = IF todo = {r} THEN "save" ELSE "stage"
                 /\ UNCHANGED <<candidate, key, troubled>>
            ELSE BeginUndo(written) /\ troubled' = TRUE
  BY DEF StoreStaged
<1>2. PICK o \in SetSecret(osAnswers, secrets, r, candidate.url[r[1]]) :
         /\ secrets' = o.store
         /\ IF o.ok
            THEN /\ written' = written \cup {r}
                 /\ todo' = todo \ {r}
                 /\ at' = IF todo = {r} THEN "save" ELSE "stage"
                 /\ UNCHANGED <<candidate, key, troubled>>
            ELSE BeginUndo(written) /\ troubled' = TRUE
  BY <1>1 DEF Take
<1>3. /\ candidate \in Config /\ candidate.revision > 0 /\ r \in Staged(candidate)
      /\ osAnswers \in SUBSET Answer /\ secrets \in Secrets
  <2>1. cfg.revision \in Nat
    BY ConfigUpdateAssumption DEF IInv, TypeOK, Config
  <2> QED
    BY <2>1, ConfigUpdateAssumption DEF IInv, TypeOK, RevisionShape, StoreStaged
<1>4. r \in Slot /\ candidate.url[r[1]] \in Url
  BY <1>3, RefsAreSlots
<1>5. candidate.url[r[1]] \in Secret /\ candidate.url[r[1]] # NoSecret
  BY <1>4, ConfigUpdateAssumption DEF Secret
<1>6. /\ \A t \in Slot \ {r} : Get(o.store, t) = Get(secrets, t)
      /\ "obeys" \notin osAnswers => o.store.os = secrets.os
      /\ o.ok /\ SteadyShape => Get(o.store, r) = candidate.url[r[1]]
  <2>1. SetsOnly(osAnswers, secrets, r, candidate.url[r[1]], o)
    BY <1>3, <1>4, <1>5, SetSecretEffect
  <2>2. SteadyShape => (MayUseFile(osAnswers) => secrets.os[r] = NoSecret)
    BY <1>4 DEF SteadyShape
  <2> QED
    BY <1>5, <2>1, <2>2 DEF SetsOnly
<1>7. o.ok \in BOOLEAN
  BY <1>3, <1>4, <1>5, SetSecretType DEF OutcomeType
<1> QED
  BY <1>2, <1>3, <1>4, <1>6, <1>7

\* Deleting one does, and nothing of it is left if no error is told (DeleteNext).
LEMMA DeleteNextEffect ==
    ASSUME IInv, DeleteNext
    PROVE  \E r \in todo, ok \in BOOLEAN :
              /\ r \in Slot
              /\ \A t \in Slot \ {r} : Get(secrets', t) = Get(secrets, t)
              /\ \A t \in Slot : secrets.os[t] = NoSecret => secrets'.os[t] = NoSecret
              /\ ok => Get(secrets', r) = NoSecret
              /\ troubled' = (troubled \/ ~ok)
              /\ IF todo = {r} THEN Forget
                 ELSE /\ todo' = todo \ {r}
                      /\ UNCHANGED <<at, candidate, written, key>>
<1>1. PICK r \in todo : \E o \in DeleteStrict(secrets, r) :
         /\ Take(o, o.failures)
         /\ troubled' = (troubled \/ ~o.ok)
         /\ IF todo = {r} THEN Forget
            ELSE /\ todo' = todo \ {r}
                 /\ UNCHANGED <<at, candidate, written, key>>
  BY DEF DeleteNext
<1>2. PICK o \in DeleteStrict(secrets, r) :
         /\ secrets' = o.store
         /\ troubled' = (troubled \/ ~o.ok)
         /\ IF todo = {r} THEN Forget
            ELSE /\ todo' = todo \ {r}
                 /\ UNCHANGED <<at, candidate, written, key>>
  BY <1>1 DEF Take
<1>3. r \in Slot /\ osAnswers \in SUBSET Answer /\ secrets \in Secrets
  BY ConfigUpdateAssumption DEF IInv, TypeOK
<1>4. o.ok \in BOOLEAN
  BY <1>3, DeleteStrictType DEF OutcomeType
<1>5. /\ \A t \in Slot \ {r} : Get(o.store, t) = Get(secrets, t)
      /\ \A t \in Slot : secrets.os[t] = NoSecret => o.store.os[t] = NoSecret
      /\ o.ok => Get(o.store, r) = NoSecret
  BY <1>3, DeleteStrictEffect
<1> QED
  BY <1>2, <1>3, <1>4, <1>5

\* Changing the inference key touches no credential; it commits, and the new key
\* is the one that is read, or it fails (ChangeKey).
LEMMA ChangeKeyEffect ==
    ASSUME IInv, ChangeKey
    PROVE  /\ \A t \in Slot \ {InferenceTokenKey} : Get(secrets', t) = Get(secrets, t)
           /\ "obeys" \notin osAnswers =>
                 \A t \in Slot : secrets.os[t] = NoSecret => secrets'.os[t] = NoSecret
           /\ \/ /\ Commit
                 /\ SteadyShape => Get(secrets', InferenceTokenKey) = given'
              \/ /\ given' = Unsaid /\ at' = "rollback" /\ troubled' = TRUE
                 /\ faults' > 0
                 /\ UNCHANGED <<cfg, candidate, todo, written, key>>
<1> DEFINE value == IF key = "clear" THEN NoSecret ELSE key
           outcomes == IF key = "clear"
                       THEN DeleteStrict(secrets, InferenceTokenKey)
                       ELSE SetSecret(osAnswers, secrets, InferenceTokenKey, key)
<1>1. PICK o \in outcomes :
         /\ Take(o, IF o.ok THEN o.failures ELSE 1)
         /\ IF o.ok
            THEN given' = value /\ Commit
            ELSE /\ given' = Unsaid
                 /\ at' = "rollback"
                 /\ troubled' = TRUE
                 /\ UNCHANGED <<cfg, candidate, todo, written, key>>
  BY DEF ChangeKey
<1>2. /\ secrets' = o.store
      /\ ~o.ok => faults' = faults + 1
  BY <1>1 DEF Take
<1>3. /\ osAnswers \in SUBSET Answer /\ secrets \in Secrets /\ faults \in Nat
      /\ key \in {"clear"} \cup Key
  BY ConfigUpdateAssumption DEF IInv, TypeOK, KeyRequest, ChangeKey
<1>4. /\ \A t \in Slot \ {InferenceTokenKey} : Get(o.store, t) = Get(secrets, t)
      /\ "obeys" \notin osAnswers =>
            \A t \in Slot : secrets.os[t] = NoSecret => o.store.os[t] = NoSecret
      /\ o.ok /\ SteadyShape => Get(o.store, InferenceTokenKey) = value
  <2>1. CASE key = "clear"
    BY <1>3, <2>1, InferenceKeyIsSlot, DeleteStrictEffect
  <2>2. CASE key # "clear"
    <3>1. key \in Secret /\ key # NoSecret
      BY <1>3, <2>2, ConfigUpdateAssumption DEF Secret
    <3>2. SetsOnly(osAnswers, secrets, InferenceTokenKey, key, o)
      <4>1. o \in SetSecret(osAnswers, secrets, InferenceTokenKey, key)
        BY <2>2
      <4> HIDE DEF outcomes, value
      <4> QED
        BY <1>3, <3>1, <4>1, InferenceKeyIsSlot, SetSecretEffect
    <3>3. SteadyShape => (MayUseFile(osAnswers) => secrets.os[InferenceTokenKey] = NoSecret)
      BY InferenceKeyIsSlot DEF SteadyShape
    <3>4. value = key
      BY <2>2
    <3> HIDE DEF outcomes, value
    <3> QED
      BY <3>1, <3>2, <3>3, <3>4 DEF SetsOnly
  <2> QED
    BY <2>1, <2>2
<1> HIDE DEF value, outcomes
<1>5. /\ \A t \in Slot \ {InferenceTokenKey} : Get(secrets', t) = Get(secrets, t)
      /\ "obeys" \notin osAnswers =>
            \A t \in Slot : secrets.os[t] = NoSecret => secrets'.os[t] = NoSecret
  BY <1>2, <1>4
<1>6. CASE o.ok
  <2>1. Commit /\ given' = value
    BY <1>1, <1>6
  <2>2. SteadyShape => Get(secrets', InferenceTokenKey) = given'
    BY <1>2, <1>4, <1>6, <2>1
  <2> QED
    BY <1>5, <2>1, <2>2
<1>7. CASE ~o.ok
  <2>1. faults' > 0
    BY <1>2, <1>3, <1>7
  <2> QED
    BY <1>1, <1>5, <1>7, <2>1
<1> QED
  BY <1>6, <1>7

\* A start touches no credential, and a key it makes is the one that is read
\* unless an older one hides it (Start).
LEMMA StartEffect ==
    ASSUME IInv, NEW answers \in NextBackends, Start(answers)
    PROVE  /\ \A t \in Slot \ {InferenceTokenKey} : Get(secrets', t) = Get(secrets, t)
           /\ "obeys" \notin answers => secrets'.os = secrets.os
           /\ \/ UNCHANGED <<given, secrets>>
              \/ given' = Unsaid
              \/ (MayUseFile(answers) => secrets.os[InferenceTokenKey] = NoSecret)
                 => Get(secrets', InferenceTokenKey) = given'
<1>1. CASE UNCHANGED <<given, secrets>>
  BY <1>1
<1>2. ASSUME NEW k \in Key, NEW o \in SetSecret(answers, secrets, InferenceTokenKey, k),
             secrets' = o.store, given' = IF o.ok THEN k ELSE Unsaid
      PROVE  /\ \A t \in Slot \ {InferenceTokenKey} : Get(secrets', t) = Get(secrets, t)
             /\ "obeys" \notin answers => secrets'.os = secrets.os
             /\ \/ given' = Unsaid
                \/ (MayUseFile(answers) => secrets.os[InferenceTokenKey] = NoSecret)
                   => Get(secrets', InferenceTokenKey) = given'
  <2>1. answers \in SUBSET Answer /\ secrets \in Secrets
    BY ConfigUpdateAssumption DEF NextBackends, IInv, TypeOK
  <2>2. k \in Secret /\ k # NoSecret
    BY ConfigUpdateAssumption DEF Secret
  <2>3. SetsOnly(answers, secrets, InferenceTokenKey, k, o)
    BY <1>2, <2>1, <2>2, InferenceKeyIsSlot, SetSecretEffect
  <2> QED
    BY <1>2, <2>2, <2>3 DEF SetsOnly
<1> QED
  BY <1>1, <1>2 DEF Start, Take

----------------------------------------------------------------------------
(* References and slots. *)

\* What a commit cleans up is not the inference key (updateConfig).
LEMMA StaleSlots ==
    ASSUME IInv, at = "inference"
    PROVE  Stale(cfg, candidate) \subseteq Slot \ {InferenceTokenKey}
<1>1. /\ cfg \in Config /\ candidate \in Config /\ candidate.revision > 0
  BY ConfigUpdateAssumption DEF IInv, TypeOK, RevisionShape, Config
<1>2. Stale(cfg, candidate) \subseteq Slot
  BY <1>1, RefsAreSlots
<1>3. InferenceTokenKey \notin Stale(cfg, candidate)
  BY ConfigUpdateAssumption DEF Stale, InferenceTokenKey
<1> QED
  BY <1>2, <1>3

\* References are named after their revisions throughout (updateConfig).
LEMMA StepSlots == ASSUME IInv, SlotShape, [Next]_vars PROVE SlotShape'
<1>0. /\ cfg \in Config /\ disk \in Config /\ candidate \in Config
      /\ cfg.revision \in Nat
  BY ConfigUpdateAssumption DEF IInv, TypeOK, Config
<1>1. ASSUME NEW url \in [Provider -> Url \cup {NoUrl}],
             NEW apiKey \in [Provider -> KeyDecision],
             NEW inferenceKey \in KeyRequest,
             BeginUpdate(url, apiKey, inferenceKey)
      PROVE  SlotShape'
  <2> DEFINE next == Candidate(cfg, url, apiKey)
  <2>1. next \in Config /\ next.revision = cfg.revision + 1
    BY <1>0, <1>1, CandidateType DEF BeginUpdate
  <2>2. Staged(next) \subseteq Slot \ {InferenceTokenKey}
    <3> HIDE DEF next
    <3>1. Staged(next) \subseteq Slot
      BY <1>0, <2>1, RefsAreSlots
    <3>2. InferenceTokenKey \notin Staged(next)
      BY ConfigUpdateAssumption DEF Staged, InferenceTokenKey
    <3> QED
      BY <3>1, <3>2
  <2>3. ASSUME NEW p \in Provider
        PROVE  \/ next.ref[p] \in {0, next.revision}
               \/ next.ref[p] = cfg.ref[p] /\ next.url[p] = cfg.url[p]
    <3>1. /\ next.ref[p] = NewRef(cfg, url, apiKey, p) /\ next.url[p] = url[p]
          /\ next.revision = cfg.revision + 1
      BY DEF Candidate
    <3>2. KeepsEndpoint(cfg, url, apiKey)
      BY <1>1 DEF BeginUpdate
    <3> HIDE DEF next
    <3> QED
      BY <3>1, <3>2 DEF NewRef, KeepsEndpoint
  <2>4. /\ candidate' = next /\ todo' = Staged(next) /\ written' = {}
        /\ UNCHANGED <<cfg, disk>>
    BY <1>1 DEF BeginUpdate
  <2> HIDE DEF next
  <2> QED
    BY <2>2, <2>3, <2>4 DEF SlotShape
<1>2. CASE StoreStaged
  <2>1. PICK r \in todo, ok \in BOOLEAN :
           IF ok
           THEN /\ written' = written \cup {r}
                /\ todo' = todo \ {r}
                /\ UNCHANGED candidate
           ELSE BeginUndo(written)
    BY <1>2, StoreStagedEffect
  <2>2. at = "stage" /\ UNCHANGED <<cfg, disk>>
    BY <1>2 DEF StoreStaged
  <2> QED
    BY <2>1, <2>2 DEF SlotShape, BeginUndo, Forget
<1>3. CASE SaveCandidate
  <2>1. /\ disk' \in {disk, candidate} /\ at = "save" /\ UNCHANGED cfg
        /\ UNCHANGED <<candidate, todo, written>> \/ BeginUndo(written)
    BY <1>3 DEF SaveCandidate, SaveSucceeds, SaveFails
  <2>2. \A p \in Provider : candidate.ref[p] <= candidate.revision
    BY <1>0, <2>1 DEF SlotShape, IInv, RevisionShape, Config
  <2> QED
    BY <2>1, <2>2 DEF SlotShape, BeginUndo, Forget
<1>4. CASE KeepKey \/ ChangeKey
  <2>1. CASE Commit /\ at = "inference" /\ UNCHANGED disk
    <3>1. cfg' = candidate /\ disk = candidate
      BY <2>1 DEF Commit, IInv, RevisionShape
    <3>2. \A p \in Provider : candidate.ref[p] <= candidate.revision
      BY <3>1 DEF SlotShape
    <3> QED
      BY <2>1, <3>1, <3>2, StaleSlots DEF SlotShape, Commit, Forget
  <2>2. CASE at' = "rollback" /\ UNCHANGED <<cfg, disk, candidate, todo, written>>
    BY <2>2 DEF SlotShape
  <2>3. at = "inference" /\ UNCHANGED disk
    BY <1>4 DEF KeepKey, ChangeKey
  <2> QED
    BY <1>4, <2>1, <2>2, <2>3, ChangeKeyEffect DEF KeepKey
<1>5. CASE Rollback
  <2>1. disk' \in {disk, cfg} /\ UNCHANGED cfg /\ BeginUndo(written) /\ at = "rollback"
    BY <1>5 DEF Rollback, SaveSucceeds, SaveFails
  <2> QED
    BY <2>1 DEF SlotShape, BeginUndo, Forget
<1>6. CASE DeleteNext
  <2>1. /\ \/ Forget
           \/ todo' \subseteq todo /\ UNCHANGED <<at, candidate, written>>
        /\ at \in {"undo", "clean"} /\ UNCHANGED <<cfg, disk>>
    BY <1>6, DeleteNextEffect DEF DeleteNext
  <2> QED
    BY <2>1 DEF SlotShape, Forget
<1>7. CASE PersistControlState
  <2>1. disk' \in {disk, cfg} /\ UNCHANGED <<cfg, updateVars>>
    BY <1>7 DEF PersistControlState, SaveSucceeds, SaveFails
  <2> QED
    BY <2>1 DEF SlotShape, updateVars
<1>8. CASE Stop
  BY <1>8 DEF Stop, SlotShape, Forget
<1>9. CASE \E answers \in NextBackends : Start(answers)
  <2>1. cfg' = disk /\ at = "idle" /\ UNCHANGED <<disk, updateVars>>
    BY <1>9 DEF Start, IInv, RevisionShape
  <2> QED
    BY <2>1 DEF SlotShape, updateVars
<1>10. CASE UNCHANGED vars
  BY <1>10 DEF vars, updateVars, SlotShape
<1> QED
  BY <1>1, <1>2, <1>3, <1>4, <1>5, <1>6, <1>7, <1>8, <1>9, <1>10 DEF Next

\* The slots of credentials, and that references name such slots.
LEMMA CredentialSlots ==
    /\ \A s \in Slot \ {InferenceTokenKey} :
          s[1] \in Provider /\ s[2] \in 1..MaxRevision /\ s = <<s[1], s[2]>>
    /\ \A config \in Config, p \in Provider :
          config.ref[p] # 0 => <<p, config.ref[p]>> \in Slot \ {InferenceTokenKey}
<1>1. ASSUME NEW config \in Config, NEW p \in Provider, config.ref[p] # 0
      PROVE  <<p, config.ref[p]>> \in Slot \ {InferenceTokenKey}
  <2>1. config.ref[p] \in 1..MaxRevision
    BY <1>1, ConfigUpdateAssumption DEF Config
  <2> QED
    BY <2>1, ConfigUpdateAssumption DEF Slot, InferenceTokenKey
<1> QED
  BY <1>1 DEF Slot

----------------------------------------------------------------------------
(* Nothing is kept silently. *)

\* What is stored stays named, or on its way, while nothing goes wrong
\* (updateConfig).
LEMMA StepKeepsNothing == ASSUME IInv, SlotShape, KeptShape, [Next]_vars PROVE KeptShape'
<1> SUFFICES ASSUME ~troubled'
             PROVE  /\ at' \notin {"undo", "rollback"}
                    /\ at' # "inference" => disk' = cfg'
                    /\ \A s \in Slot \ {InferenceTokenKey} :
                          Get(secrets', s) # NoSecret =>
                              \/ cfg'.ref[s[1]] = s[2]
                              \/ at' \in {"stage", "save", "inference"} /\ s \in Staged(candidate')
                              \/ at' = "clean" /\ s \in todo'
  BY DEF KeptShape, Get, Staged
<1> DEFINE Accounted(s) ==
               \/ cfg.ref[s[1]] = s[2]
               \/ at \in {"stage", "save", "inference"} /\ s \in Staged(candidate)
               \/ at = "clean" /\ s \in todo
<1>0. ~troubled => /\ at \notin {"undo", "rollback"}
                   /\ at # "inference" => disk = cfg
                   /\ \A s \in Slot \ {InferenceTokenKey} :
                         Get(secrets, s) # NoSecret => Accounted(s)
  BY DEF KeptShape
<1>1. CASE \E url \in [Provider -> Url \cup {NoUrl}],
              apiKey \in [Provider -> KeyDecision], inferenceKey \in KeyRequest :
               BeginUpdate(url, apiKey, inferenceKey)
  <2>1. /\ at = "idle" /\ at' \in {"stage", "save"}
        /\ UNCHANGED <<cfg, disk, secrets, troubled>>
    BY <1>1 DEF BeginUpdate
  <2> QED
    BY <1>0, <2>1
<1>2. CASE StoreStaged
  <2>1. PICK r \in todo, ok \in BOOLEAN :
           /\ r \in Staged(candidate)
           /\ \A t \in Slot \ {r} : Get(secrets', t) = Get(secrets, t)
           /\ IF ok THEN at' \in {"save", "stage"} /\ UNCHANGED <<candidate, troubled>>
              ELSE troubled' = TRUE
    BY <1>2, StoreStagedEffect
  <2>2. at = "stage" /\ UNCHANGED <<cfg, disk>>
    BY <1>2 DEF StoreStaged
  <2> QED
    BY <1>0, <2>1, <2>2
<1>3. CASE SaveCandidate
  <2>1. /\ at = "save" /\ at' = "inference" /\ UNCHANGED <<cfg, candidate, secrets, troubled>>
    BY <1>3 DEF SaveCandidate
  <2> QED
    BY <1>0, <2>1
<1>4. CASE KeepKey \/ ChangeKey
  <2>1. /\ Commit /\ at = "inference" /\ UNCHANGED disk
        /\ \A t \in Slot \ {InferenceTokenKey} : Get(secrets', t) = Get(secrets, t)
    BY <1>4, ChangeKeyEffect DEF KeepKey, ChangeKey
  <2>2. /\ cfg' = candidate /\ disk = candidate /\ ~troubled
        /\ \/ Stale(cfg, candidate) = {} /\ at' = "idle"
           \/ at' = "clean" /\ todo' = Stale(cfg, candidate)
    BY <2>1 DEF Commit, Forget, IInv, RevisionShape
  <2>3. ASSUME NEW s \in Slot \ {InferenceTokenKey}, Get(secrets, s) # NoSecret
        PROVE  candidate.ref[s[1]] = s[2] \/ s \in Stale(cfg, candidate)
    <3>1. s[1] \in Provider /\ s[2] # 0 /\ s = <<s[1], s[2]>>
      BY CredentialSlots
    <3>2. CASE cfg.ref[s[1]] = s[2]
      BY <3>1, <3>2 DEF Stale
    <3>3. CASE s \in Staged(candidate)
      BY <3>3 DEF Staged
    <3> QED
      BY <1>0, <2>1, <2>2, <2>3, <3>2, <3>3
  <2> QED
    BY <2>1, <2>2, <2>3
<1>5. CASE Rollback
  BY <1>0, <1>5 DEF Rollback
<1>6. CASE DeleteNext
  <2>1. PICK r \in todo, ok \in BOOLEAN :
           /\ \A t \in Slot \ {r} : Get(secrets', t) = Get(secrets, t)
           /\ ok => Get(secrets', r) = NoSecret
           /\ troubled' = (troubled \/ ~ok)
           /\ IF todo = {r} THEN Forget
              ELSE todo' = todo \ {r} /\ UNCHANGED at
    BY <1>6, DeleteNextEffect
  <2>2. at = "clean" /\ ok /\ ~troubled /\ UNCHANGED <<cfg, disk>>
    BY <1>0, <1>6, <2>1 DEF DeleteNext
  <2>3. ASSUME NEW s \in Slot \ {InferenceTokenKey}, Get(secrets', s) # NoSecret
        PROVE  s # r /\ (cfg.ref[s[1]] = s[2] \/ s \in todo \ {r})
    BY <1>0, <2>1, <2>2, <2>3
  <2>4. CASE todo = {r}
    BY <1>0, <2>1, <2>2, <2>3, <2>4 DEF Forget
  <2>5. CASE todo # {r}
    BY <1>0, <2>1, <2>2, <2>3, <2>5
  <2> QED
    BY <2>4, <2>5
<1>7. CASE PersistControlState
  <2>1. /\ at = "idle" /\ disk' \in {disk, cfg}
        /\ UNCHANGED <<cfg, secrets, updateVars, troubled>>
    BY <1>7 DEF PersistControlState, SaveSucceeds, SaveFails
  <2> QED
    BY <1>0, <2>1 DEF updateVars
<1>8. CASE Stop
  <2>1. at = "idle" /\ at' = "idle" /\ UNCHANGED <<cfg, disk, secrets, troubled>>
    BY <1>8 DEF Stop, Forget
  <2> QED
    BY <1>0, <2>1
<1>9. CASE \E answers \in NextBackends : Start(answers)
  <2>1. /\ cfg' = disk /\ at = "idle" /\ UNCHANGED <<disk, updateVars, troubled>>
        /\ \A t \in Slot \ {InferenceTokenKey} : Get(secrets', t) = Get(secrets, t)
    BY <1>9, StartEffect DEF Start, IInv, RevisionShape
  <2> QED
    BY <1>0, <2>1 DEF updateVars
<1>10. CASE UNCHANGED vars
  BY <1>0, <1>10 DEF vars, updateVars
<1> QED
  BY <1>1, <1>2, <1>3, <1>4, <1>5, <1>6, <1>7, <1>8, <1>9, <1>10 DEF Next

----------------------------------------------------------------------------
(* The inference key that was given is read. *)

\* A steady store hides nothing, and only a change of the key changes what is
\* read of it (ChangeKey, Start).
LEMMA StepGives ==
    ASSUME SteadyStores, IInv, SlotShape, SteadyShape, GivenKeyIsRead, [Next]_vars
    PROVE  SteadyShape' /\ GivenKeyIsRead'
<1>0. /\ MayUseFile(osAnswers) => "obeys" \notin osAnswers
      /\ \A answers \in NextBackends :
            MayUseFile(answers) => "obeys" \notin answers /\ MayUseFile(osAnswers)
  BY DEF SteadyStores, IInv, TypeOK, NextBackends, MayUseFile
<1>1. CASE StoreStaged
  <2>1. PICK r \in todo :
           /\ \A t \in Slot \ {r} : Get(secrets', t) = Get(secrets, t)
           /\ "obeys" \notin osAnswers => secrets'.os = secrets.os
    BY <1>1, StoreStagedEffect
  <2>2. UNCHANGED <<osAnswers, given>> /\ r # InferenceTokenKey
    BY <1>1 DEF StoreStaged, SlotShape
  <2> QED
    BY <1>0, <2>1, <2>2, InferenceKeyIsSlot DEF SteadyShape, GivenKeyIsRead
<1>2. CASE DeleteNext
  <2>1. PICK r \in todo :
           /\ \A t \in Slot \ {r} : Get(secrets', t) = Get(secrets, t)
           /\ \A t \in Slot : secrets.os[t] = NoSecret => secrets'.os[t] = NoSecret
    BY <1>2, DeleteNextEffect
  <2>2. UNCHANGED <<osAnswers, given>> /\ r # InferenceTokenKey
    BY <1>2 DEF DeleteNext, SlotShape
  <2> QED
    BY <1>0, <2>1, <2>2, InferenceKeyIsSlot DEF SteadyShape, GivenKeyIsRead
<1>3. CASE ChangeKey
  BY <1>0, <1>3, ChangeKeyEffect DEF ChangeKey, SteadyShape, GivenKeyIsRead
<1>4. CASE \E answers \in NextBackends : Start(answers)
  <2>1. PICK answers \in NextBackends : Start(answers)
    BY <1>4
  <2>2. osAnswers' = answers
    BY <2>1 DEF Start
  <2>3. MayUseFile(answers) => /\ "obeys" \notin answers
                             /\ \A t \in Slot : secrets.os[t] = NoSecret
    BY <1>0 DEF SteadyShape
  <2> QED
    BY <2>1, <2>2, <2>3, StartEffect, InferenceKeyIsSlot DEF SteadyShape, GivenKeyIsRead
<1>5. CASE UNCHANGED <<osAnswers, secrets, given>>
  BY <1>5 DEF SteadyShape, GivenKeyIsRead, Get
<1> QED
  BY <1>1, <1>2, <1>3, <1>4, <1>5
  DEF Next, vars, BeginUpdate, SaveCandidate, KeepKey, Rollback, PersistControlState, Stop

----------------------------------------------------------------------------
(* Credentials resolve. *)

\* What reads the same for every reference of the configurations resolves as
\* before.
LEMMA StillResolves ==
    ASSUME IInv, CredentialsResolve, cfg' \in {cfg, disk}, disk' \in {cfg, disk},
           \A config \in {cfg, disk}, p \in Provider :
               config.ref[p] # 0 =>
                   Get(secrets', <<p, config.ref[p]>>) = Get(secrets, <<p, config.ref[p]>>)
    PROVE  CredentialsResolve'
BY DEF CredentialsResolve, Get

\* Credentials are stored before the file names them, and only those are deleted
\* that neither the file nor the memory names (updateConfig).
LEMMA StepResolves ==
    ASSUME OneFault, SteadyStores, IInv, SlotShape, SteadyShape, ResolveShape, [Next]_vars
    PROVE  ResolveShape'
<1>0. /\ cfg \in Config /\ disk \in Config /\ candidate \in Config
      /\ cfg.revision \in Nat
      /\ \A config \in {cfg, disk}, p \in Provider : config.ref[p] \in Nat
      /\ CredentialsResolve
  BY ConfigUpdateAssumption DEF IInv, TypeOK, Config, RevisionShape, ResolveShape
<1>a. \A config \in {cfg, disk}, p \in Provider :
         config.ref[p] # 0 => <<p, config.ref[p]>> \in Slot \ {InferenceTokenKey}
  BY <1>0, CredentialSlots
<1>b. at \notin {"idle", "inference", "rollback"} => disk = cfg
  <2>1. ~up => at = "idle"
    BY DEF IInv, RevisionShape
  <2> QED
    BY <2>1 DEF ResolveShape
<1>1. ASSUME NEW url \in [Provider -> Url \cup {NoUrl}],
             NEW apiKey \in [Provider -> KeyDecision],
             NEW inferenceKey \in KeyRequest,
             BeginUpdate(url, apiKey, inferenceKey)
      PROVE  ResolveShape'
  <2>1. /\ up /\ at = "idle" /\ at' \in {"stage", "save"} /\ written' = {}
        /\ UNCHANGED <<cfg, disk, secrets>>
        /\ todo' = Staged(candidate')
        /\ at' = "save" => Staged(candidate') = {}
    BY <1>1 DEF BeginUpdate
  <2>2. disk' = cfg' /\ CredentialsResolve'
    BY <1>0, <2>1, StillResolves DEF ResolveShape
  <2>3. \A p \in Provider : candidate'.ref[p] = candidate'.revision =>
            at' = "stage" /\ <<p, candidate'.revision>> \in todo'
    BY <2>1 DEF Staged
  <2> QED
    BY <2>1, <2>2, <2>3 DEF ResolveShape
<1>2. CASE StoreStaged
  <2>1. PICK r \in todo, ok \in BOOLEAN :
           /\ r \in Slot /\ r \in Staged(candidate)
           /\ \A t \in Slot \ {r} : Get(secrets', t) = Get(secrets, t)
           /\ ok /\ SteadyShape => Get(secrets', r) = candidate.url[r[1]]
           /\ IF ok
              THEN /\ written' = written \cup {r}
                   /\ todo' = todo \ {r}
                   /\ at' = IF todo = {r} THEN "save" ELSE "stage"
                   /\ UNCHANGED candidate
              ELSE BeginUndo(written)
    BY <1>2, StoreStagedEffect
  <2>2. at = "stage" /\ UNCHANGED <<cfg, disk>>
    BY <1>2 DEF StoreStaged
  <2>3. /\ candidate.revision = cfg.revision + 1 /\ disk = cfg
        /\ \A t \in written : t[2] = cfg.revision + 1
    BY <1>b, <2>2 DEF IInv, RevisionShape, ResolveShape
  <2>4. PICK q \in Provider : r = <<q, candidate.revision>>
    BY <2>1 DEF Staged
  <2>5. CredentialsResolve'
    <3>1. \A config \in {cfg, disk}, p \in Provider :
             config.ref[p] # 0 => <<p, config.ref[p]>> # r
      <4>1. \A config \in {cfg, disk}, p \in Provider :
               config.ref[p] < candidate.revision
        BY <1>0, <2>3 DEF SlotShape
      <4> QED
        BY <1>0, <2>4, <4>1
    <3> QED
      BY <1>0, <1>a, <2>1, <2>2, <3>1, StillResolves
  <2>6. CASE ok
    <3>1. ASSUME NEW p \in Provider, candidate.ref[p] = candidate.revision
          PROVE  \/ at' = "stage" /\ <<p, candidate.revision>> \in todo'
                 \/ Get(secrets', <<p, candidate.revision>>) = candidate.url[p]
      <4> DEFINE t == <<p, candidate.revision>>
      <4>1. t \in Slot
        <5>1. candidate.ref[p] # 0
          BY <1>0, <2>3, <3>1
        <5> QED
          BY <1>0, <3>1, <5>1, CredentialSlots
      <4>2. CASE t = r
        BY <2>1, <2>6, <4>2
      <4>3. CASE t # r /\ t \in todo
        BY <2>1, <2>6, <4>3
      <4>4. CASE t # r /\ t \notin todo
        <5>1. Get(secrets, t) = candidate.url[p]
          BY <2>2, <3>1, <4>4 DEF ResolveShape
        <5> QED
          BY <2>1, <4>1, <4>4, <5>1
      <4> QED
        BY <4>2, <4>3, <4>4
    <3>2. /\ at' \in {"save", "stage"} /\ UNCHANGED candidate
          /\ \A t \in written' : t[2] = cfg'.revision + 1
      BY <2>1, <2>2, <2>3, <2>4, <2>6
    <3> QED
      BY <2>2, <2>3, <2>5, <3>1, <3>2 DEF ResolveShape
  <2>7. CASE ~ok
    BY <2>1, <2>2, <2>3, <2>5, <2>7 DEF ResolveShape, BeginUndo, Forget
  <2> QED
    BY <2>6, <2>7
<1>3. CASE SaveCandidate
  <2>1. /\ at = "save" /\ UNCHANGED <<cfg, secrets>>
        /\ \/ disk' = candidate /\ at' = "inference" /\ UNCHANGED <<candidate, written>>
           \/ disk' = disk /\ BeginUndo(written)
    BY <1>3 DEF SaveCandidate, SaveSucceeds, SaveFails, OneFault
  <2>2. /\ disk = cfg /\ \A t \in written : t[2] = cfg.revision + 1
    BY <1>b, <2>1 DEF ResolveShape
  <2>3. CASE disk' = candidate /\ at' = "inference" /\ UNCHANGED <<candidate, written>>
    <3>1. ASSUME NEW p \in Provider, candidate.ref[p] # 0
          PROVE  Get(secrets, <<p, candidate.ref[p]>>) = candidate.url[p]
      BY <1>0, <2>1, <3>1 DEF SlotShape, ResolveShape, CredentialsResolve
    <3>2. CredentialsResolve'
      BY <1>0, <2>1, <2>3, <3>1 DEF CredentialsResolve, Get
    <3> QED
      BY <2>1, <2>2, <2>3, <3>2 DEF ResolveShape, Get
  <2>4. CASE disk' = disk /\ BeginUndo(written)
    <3>1. CredentialsResolve'
      BY <1>0, <2>1, <2>4, StillResolves
    <3> QED
      BY <2>1, <2>2, <2>4, <3>1 DEF ResolveShape, BeginUndo, Forget
  <2> QED
    BY <2>1, <2>3, <2>4
<1>4. CASE KeepKey \/ ChangeKey
  <2>1. /\ at = "inference" /\ disk = candidate /\ UNCHANGED <<up, disk>>
        /\ \A t \in Slot \ {InferenceTokenKey} : Get(secrets', t) = Get(secrets, t)
        /\ \/ Commit
           \/ at' = "rollback" /\ faults' > 0 /\ UNCHANGED <<cfg, written>>
    BY <1>4, ChangeKeyEffect DEF KeepKey, ChangeKey, IInv, RevisionShape
  <2>2. CASE Commit
    <3>1. cfg' = disk /\ disk' = disk
      BY <2>1, <2>2 DEF Commit
    <3>2. CredentialsResolve'
      BY <1>0, <1>a, <2>1, <3>1, StillResolves
    <3>3. at' = "clean" => \A r \in todo' : candidate.ref[r[1]] # r[2]
      BY <2>2 DEF Commit, Forget, Stale
    <3>4. at' \in {"idle", "clean"}
      BY <2>2 DEF Commit, Forget
    <3> QED
      BY <2>1, <3>1, <3>2, <3>3, <3>4 DEF ResolveShape
  <2>3. CASE at' = "rollback" /\ faults' > 0 /\ UNCHANGED <<cfg, written>>
    <3>1. CredentialsResolve'
      BY <1>0, <1>a, <2>1, <2>3, StillResolves
    <3> QED
      BY <2>1, <2>3, <3>1 DEF ResolveShape
  <2> QED
    BY <2>1, <2>2, <2>3
<1>5. CASE Rollback
  <2>1. at = "rollback" /\ BeginUndo(written) /\ UNCHANGED <<cfg, secrets>>
    BY <1>5 DEF Rollback
  <2>2. disk' = cfg
    <3>1. faults > 0 /\ faults \in 0..MaxFaults
      BY <2>1 DEF ResolveShape, IInv, TypeOK
    <3>2. ~(faults < MaxFaults)
      BY <3>1 DEF OneFault
    <3> QED
      BY <1>5, <3>2 DEF Rollback, SaveSucceeds, SaveFails
  <2>3. CredentialsResolve'
    BY <1>0, <2>1, <2>2, StillResolves
  <2> QED
    BY <2>1, <2>2, <2>3 DEF ResolveShape, BeginUndo, Forget
<1>6. CASE DeleteNext
  <2>1. PICK r \in todo :
           /\ \A t \in Slot \ {r} : Get(secrets', t) = Get(secrets, t)
           /\ \/ Forget
              \/ todo' = todo \ {r} /\ UNCHANGED <<at, candidate, written>>
    BY <1>6, DeleteNextEffect
  <2>2. at \in {"undo", "clean"} /\ UNCHANGED <<cfg, disk>> /\ disk = cfg
    BY <1>b, <1>6 DEF DeleteNext
  <2>3. \A p \in Provider : cfg.ref[p] # 0 => <<p, cfg.ref[p]>> # r
    <3>1. CASE at = "undo"
      <4>1. r[2] = cfg.revision + 1
        BY <3>1 DEF ResolveShape
      <4>2. \A p \in Provider : cfg.ref[p] < cfg.revision + 1
        BY <1>0 DEF SlotShape
      <4>3. \A p \in Provider : <<p, cfg.ref[p]>>[2] = cfg.ref[p]
        OBVIOUS
      <4> QED
        BY <1>0, <4>1, <4>2, <4>3
    <3>2. CASE at = "clean"
      BY <3>2 DEF ResolveShape
    <3> QED
      BY <2>2, <3>1, <3>2
  <2>4. CredentialsResolve'
    BY <1>0, <1>a, <2>1, <2>2, <2>3, StillResolves
  <2>5. CASE Forget
    BY <2>2, <2>4, <2>5 DEF ResolveShape, Forget
  <2>6. CASE todo' = todo \ {r} /\ UNCHANGED <<at, candidate, written>>
    BY <2>2, <2>4, <2>6 DEF ResolveShape
  <2> QED
    BY <2>1, <2>5, <2>6
<1>7. CASE PersistControlState
  <2>1. /\ up /\ at = "idle" /\ disk' \in {disk, cfg}
        /\ UNCHANGED <<up, cfg, secrets, updateVars>>
    BY <1>7 DEF PersistControlState, SaveSucceeds, SaveFails
  <2>2. CredentialsResolve'
    BY <1>0, <2>1, StillResolves
  <2> QED
    BY <2>1, <2>2 DEF ResolveShape, updateVars
<1>8. CASE Stop
  <2>1. up' = FALSE /\ at' = "idle" /\ UNCHANGED <<cfg, disk, secrets>>
    BY <1>8 DEF Stop, Forget
  <2>2. CredentialsResolve'
    BY <1>0, <2>1, StillResolves
  <2> QED
    BY <2>1, <2>2 DEF ResolveShape
<1>9. CASE \E answers \in NextBackends : Start(answers)
  <2>1. /\ cfg' = disk /\ disk' = disk /\ at = "idle" /\ UNCHANGED updateVars
        /\ \A t \in Slot \ {InferenceTokenKey} : Get(secrets', t) = Get(secrets, t)
    BY <1>9, StartEffect DEF Start, IInv, RevisionShape
  <2>2. CredentialsResolve'
    BY <1>0, <1>a, <2>1, StillResolves
  <2> QED
    BY <2>1, <2>2 DEF ResolveShape, updateVars
<1>10. CASE UNCHANGED vars
  <2>1. CredentialsResolve'
    BY <1>0, <1>10, StillResolves DEF vars
  <2> QED
    BY <1>10, <2>1 DEF vars, updateVars, ResolveShape, Get
<1> QED
  BY <1>1, <1>2, <1>3, <1>4, <1>5, <1>6, <1>7, <1>8, <1>9, <1>10 DEF Next

----------------------------------------------------------------------------
\* The first start has empty stores and a configuration without credentials.
LEMMA InitStores ==
    Init => SlotShape /\ KeptShape /\ SteadyShape /\ GivenKeyIsRead /\ ResolveShape
<1> SUFFICES ASSUME Init
             PROVE  SlotShape /\ KeptShape /\ SteadyShape /\ GivenKeyIsRead /\ ResolveShape
  OBVIOUS
<1>1. /\ disk = cfg /\ cfg.revision = 0 /\ \A p \in Provider : cfg.ref[p] = 0
      /\ at = "idle" /\ todo = {} /\ written = {} /\ given = Unsaid
      /\ ~up
  BY DEF Init, NoConfig
<1>2. \A s \in Slot : secrets.os[s] = NoSecret /\ secrets.file[s] = NoSecret
  BY DEF Init, Empty
<1>3. SlotShape
  BY <1>1 DEF SlotShape
<1>4. KeptShape
  BY <1>1, <1>2 DEF KeptShape, Get
<1>5. SteadyShape /\ GivenKeyIsRead
  BY <1>1, <1>2 DEF SteadyShape, GivenKeyIsRead
<1>6. ResolveShape
  BY <1>1 DEF ResolveShape, CredentialsResolve
<1> QED
  BY <1>3, <1>4, <1>5, <1>6

\* References name the revision that brought them, and updates work on them alone.
LEMMA SlotsAreOrdered == Spec => []SlotShape
BY InitStores, StepSlots, ConfigInvariant, PTL DEF Spec

\* Whatever fails, and however often: while no update was answered with an error
\* or a pending clean-up, no credential is stored that the configuration does
\* not name (NothingKeptSilently).
THEOREM NothingStaysBehind == Spec => []NothingKeptSilently
<1>1. KeptShape => NothingKeptSilently
  BY DEF KeptShape, NothingKeptSilently
<1> QED
  BY <1>1, InitStores, StepKeepsNothing, SlotsAreOrdered, ConfigInvariant, PTL DEF Spec

\* With an OS store that obeys, refuses or is absent throughout a run, and may
\* appear between two, the inference key that is read is the one that was given
\* last (GivenKeyIsRead).
THEOREM KeyIsTheGivenOne ==
    ASSUME SteadyStores
    PROVE  Spec => []GivenKeyIsRead
<1>1. /\ IInv /\ SlotShape /\ SteadyShape /\ GivenKeyIsRead /\ [Next]_vars
      => SteadyShape' /\ GivenKeyIsRead'
  BY StepGives
<1> QED
  BY <1>1, InitStores, SlotsAreOrdered, ConfigInvariant, PTL DEF Spec

\* With such an OS store, whichever one thing fails wherever an update is: every
\* credential that the memory or the file names can be read, and none is kept
\* silently (StoresMatchConfig).
THEOREM StoresAgree ==
    ASSUME SteadyStores, OneFault
    PROVE  Spec => []StoresMatchConfig
<1>1. /\ IInv /\ SlotShape /\ SteadyShape /\ GivenKeyIsRead /\ [Next]_vars
      => SteadyShape' /\ GivenKeyIsRead'
  BY StepGives
<1>2. IInv /\ SlotShape /\ SteadyShape /\ ResolveShape /\ [Next]_vars => ResolveShape'
  BY StepResolves
<1>3. ResolveShape /\ NothingKeptSilently => StoresMatchConfig
  BY DEF ResolveShape, StoresMatchConfig
<1> QED
  BY <1>1, <1>2, <1>3, InitStores, SlotsAreOrdered, NothingStaysBehind,
     ConfigInvariant, PTL DEF Spec
============================================================================
