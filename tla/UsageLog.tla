------------------------------ MODULE UsageLog ------------------------------
(***************************************************************************)
(* The usage log (usage.Store) and its live events (usage.Broadcaster).    *)
(*                                                                         *)
(* A request is announced when its handler starts and recorded when it     *)
(* ends.  Append rewrites the whole retained log under the store's lock,   *)
(* step by step as in FileReplacement, and announces the record when the   *)
(* file has it.  Subscribers have bounded queues that nobody waits for.    *)
(* The program may stop, or crash between any two steps; the next one      *)
(* loads the file, or keeps its usage in memory when it cannot.            *)
(***************************************************************************)
EXTENDS FileReplacement, Naturals, Sequences, SequencesExt

CONSTANTS
    Request,      \* requests, each of them handled once
    Size,         \* the sizes of their records, each with the end of its line
    MaxBytes,     \* of the retained records
    Subscriber,   \* connections to the event stream
    Buffer,       \* events queued for a subscriber
    MaxBoots      \* bound: runs of the program

ASSUME UsageAssumption ==
    /\ Size \subseteq Nat
    /\ {MaxBytes, Buffer, MaxBoots} \subseteq Nat
    /\ NoFile \notin Seq(Request)

VARIABLES
    up,          \* the program runs
    boots,       \* how often it was started
    durable,     \* the store has a file
    records,     \* Store.records
    previous,    \* the copy that Append restores when it fails
    op,          \* who holds the store's lock, and for what
    progress,    \* of each request
    size,        \* of its record
    old,         \* the requests that ended longer than MaxAge ago
    open,        \* the subscribers
    queue,       \* the channel of each
    follows,     \* history: who has been told of all that changed since it listed
    view,        \* history: the records it then knows of
    arrivals,    \* history: the records that were appended, in order
    acked,       \* history: those for which a durable Append returned no error
    unsure,      \* history: those whose Append failed, though the file may have them
    torn         \* history: a store was given up while its file was away

store == <<up, boots, durable, records, previous, op>>
requests == <<progress, size, old>>
readers == <<open, queue, view, follows>>
history == <<arrivals, acked, unsure, torn>>
vars == <<fileVars, store, requests, readers, history>>

Op == [kind : {"none", "load", "prune"}] \cup [kind : {"append"}, request : Request]
Free == [kind |-> "none"]

\* "started" is request_started and attempt_started: only their room counts.
Event == [kind : {"started", "completed"}, request : Request]

Init ==
    /\ target = NoFile /\ backup = NoFile /\ fresh = NoFile /\ stage = "none"
    /\ up = FALSE /\ boots = 0 /\ durable = FALSE
    /\ records = <<>> /\ previous = <<>> /\ op = Free
    /\ progress = [r \in Request |-> "new"]
    /\ size = [r \in Request |-> 0]
    /\ old = {}
    /\ open = {} /\ follows = {}
    /\ queue = [s \in Subscriber |-> <<>>]
    /\ view = [s \in Subscriber |-> {}]
    /\ arrivals = <<>> /\ acked = {} /\ unsure = {} /\ torn = FALSE

----------------------------------------------------------------------------
(* Retention. *)

\* What the newest n records of a log take up, for every n.
SizeOfNewest(weight, log) ==
    LET total[n \in 0..Len(log)] ==
            IF n = 0 THEN 0 ELSE total[n - 1] + weight[log[Len(log) - n + 1]]
    IN  total

TotalSize(log) == SizeOfNewest(size, log)[Len(log)]

\* The records that are not too old, in their order.
Unexpired(gone, log) ==
    LET kept[n \in 0..Len(log)] ==
            CASE n = 0 -> <<>>
              [] n > 0 /\ log[n] \in gone -> kept[n - 1]
              [] OTHER -> Append(kept[n - 1], log[n])
    IN  kept[Len(log)]

\* The longest end of the log that fits, oldest records first to go.
Fitting(weight, log) ==
    LET Drops == {n \in 0..Len(log) : SizeOfNewest(weight, log)[Len(log) - n] <= MaxBytes}
        least == CHOOSE n \in Drops : \A m \in Drops : n <= m
    IN  SubSeq(log, least + 1, Len(log))

\* Faulty variant: only the age counts.
PrunedByAge(log) == Unexpired(old, log)

Pruned(log) == Fitting(size, Unexpired(old, log))

----------------------------------------------------------------------------
(* Live events. *)

HasRoom(s) == Len(queue[s]) < Buffer

\* Who is left out has to read the log again to know all of it.
Delivered(event, reached) ==
    /\ queue' = [s \in Subscriber |->
                    IF s \in reached THEN Append(queue[s], event) ELSE queue[s]]
    /\ follows' = {s \in follows : HasRoom(s)}
    /\ view' = [s \in Subscriber |-> IF s \in follows' THEN view[s] ELSE {}]
    /\ UNCHANGED open

\* Faulty variant: the loop ends at a subscriber without room.
PublishUntilFull(event) ==
    Delivered(event, IF \A s \in open : HasRoom(s) THEN open ELSE {})

\* Faulty variant: a full channel is waited for.
PublishBlocking(event) ==
    /\ \A s \in open : HasRoom(s)
    /\ Delivered(event, open)

\* Broadcaster.Publish: who has no room is not waited for.
Publish(event) == Delivered(event, {s \in open : HasRoom(s)})

\* New has returned, so that others have the store.
IsOpen == up /\ op.kind # "load"

\* The store's lock is only taken to find the broadcaster, and given back before.
Subscribe(s) ==
    /\ IsOpen
    /\ s \notin open
    /\ open' = open \cup {s}
    /\ UNCHANGED <<fileVars, store, requests, queue, view, follows, history>>

\* Store.List, by the client of a subscriber.
List(s) ==
    /\ op = Free
    /\ s \in open
    /\ view' = [view EXCEPT ![s] = ToSet(records)]
    /\ follows' = follows \cup {s}
    /\ UNCHANGED <<fileVars, store, requests, open, queue, history>>

\* handleLogEvents writes one event ...
Receive(s) ==
    /\ s \in open
    /\ queue[s] # <<>>
    /\ LET event == Head(queue[s])
       IN  view' = IF s \in follows /\ event.kind = "completed"
                   THEN [view EXCEPT ![s] = @ \cup {event.request}] ELSE view
    /\ queue' = [queue EXCEPT ![s] = Tail(@)]
    /\ UNCHANGED <<fileVars, store, requests, open, follows, history>>

\* ... or unsubscribes when its connection is gone.
Unsubscribe(s) ==
    /\ s \in open
    /\ open' = open \ {s}
    /\ follows' = follows \ {s}
    /\ queue' = [queue EXCEPT ![s] = <<>>]
    /\ view' = [view EXCEPT ![s] = {}]
    /\ UNCHANGED <<fileVars, store, requests, history>>

----------------------------------------------------------------------------
(* Requests. *)

\* Like Subscribe, Store.Publish publishes when it has given the lock back.
StartRequest(r) ==
    /\ IsOpen
    /\ progress[r] = "new"
    /\ progress' = [progress EXCEPT ![r] = "running"]
    /\ Publish([kind |-> "started", request |-> r])
    /\ UNCHANGED <<fileVars, store, size, old, history>>

\* Each attempt of the request is announced, before it is made.
StartAttempt(r) ==
    /\ IsOpen
    /\ progress[r] = "running"
    /\ Publish([kind |-> "started", request |-> r])
    /\ UNCHANGED <<fileVars, store, requests, history>>

EndRequest(r) ==
    /\ up
    /\ progress[r] = "running"
    /\ progress' = [progress EXCEPT ![r] = "ended"]
    /\ \E n \in Size : size' = [size EXCEPT ![r] = n]
    /\ UNCHANGED <<fileVars, store, old, readers, history>>

\* The record is bigger than the whole log may be.  The end of its line is not
\* looked at here, but by pruning: a record that lacks just this room is
\* appended, announced and pruned at once, with every other.
RefuseRecord(r) ==
    /\ up
    /\ op = Free
    /\ progress[r] = "ended"
    /\ size[r] > MaxBytes + 1
    /\ progress' = [progress EXCEPT ![r] = "recorded"]
    /\ UNCHANGED <<fileVars, store, size, old, readers, history>>

AppendRecord(r) ==
    /\ up
    /\ op = Free
    /\ progress[r] = "ended"
    /\ size[r] <= MaxBytes + 1
    /\ op' = [kind |-> "append", request |-> r]
    /\ previous' = records
    /\ records' = Pruned(Append(records, r))
    /\ IF durable THEN Begin(records') ELSE UNCHANGED fileVars
    /\ progress' = [progress EXCEPT ![r] = "recorded"]
    /\ arrivals' = Append(arrivals, r)
    /\ UNCHANGED <<up, boots, durable, size, old, readers, acked, unsure, torn>>

\* The record is persisted, or kept in memory, and announced.
AppendReturns ==
    /\ op.kind = "append"
    /\ stage = "saved" \/ ~durable
    /\ Publish([kind |-> "completed", request |-> op.request])
    /\ acked' = IF durable THEN acked \cup {op.request} ELSE acked
    /\ op' = Free
    /\ previous' = <<>>
    /\ IF durable THEN Finished ELSE UNCHANGED fileVars
    /\ UNCHANGED <<up, boots, durable, records, requests, arrivals, unsure, torn>>

\* The record is forgotten, though the file may have it.
AppendFails ==
    /\ op.kind = "append"
    /\ stage = "failed"
    /\ records' = previous
    /\ unsure' = unsure \cup {op.request}
    /\ op' = Free
    /\ previous' = <<>>
    /\ Finished
    /\ UNCHANGED <<up, boots, durable, requests, readers, arrivals, acked, torn>>

\* Store.Prune, which persists only a change.
Prune ==
    /\ up
    /\ op = Free
    /\ Pruned(records) # records
    /\ records' = Pruned(records)
    /\ IF durable THEN Begin(records') /\ op' = [kind |-> "prune"]
                  ELSE UNCHANGED <<fileVars, op>>
    /\ UNCHANGED <<up, boots, durable, previous, requests, readers, history>>

\* Saved or not, the memory stays pruned.
PruneReturns ==
    /\ op.kind = "prune"
    /\ stage \in {"saved", "failed"}
    /\ op' = Free
    /\ Finished
    /\ UNCHANGED <<up, boots, durable, records, previous, requests, readers, history>>

Replace ==
    /\ op # Free
    /\ Replacing("failed")
    /\ UNCHANGED <<store, requests, readers, history>>

----------------------------------------------------------------------------
(* Runs of the program. *)

\* The records of the file's lines, in their order; no file has none.
Decoded(file) == IF file = NoFile THEN <<>> ELSE file

\* New: what the file has is loaded, pruned, and rewritten if that changed it.
Start ==
    /\ ~up
    /\ boots < MaxBoots
    /\ up' = TRUE
    /\ boots' = boots + 1
    /\ LET loaded == Decoded(target)
       IN  /\ records' = Pruned(loaded)
           /\ IF Pruned(loaded) = loaded
              THEN durable' = TRUE /\ UNCHANGED <<op, fileVars>>
              ELSE durable' = FALSE /\ op' = [kind |-> "load"] /\ Begin(records')
    /\ UNCHANGED <<previous, requests, readers, history>>

\* Faulty variant: a log that cannot be read is taken for an absent one.
StartUnreadableAsNew ==
    /\ ~up
    /\ boots < MaxBoots
    /\ target # NoFile
    /\ up' = TRUE
    /\ boots' = boots + 1
    /\ durable' = TRUE
    /\ records' = <<>>
    /\ UNCHANGED <<previous, op, fileVars, requests, readers, history>>

\* The log cannot be read: usage is kept in memory only.
StartUnreadable ==
    /\ ~up
    /\ boots < MaxBoots
    /\ target # NoFile
    /\ up' = TRUE
    /\ boots' = boots + 1
    /\ durable' = FALSE
    /\ records' = <<>>
    /\ UNCHANGED <<previous, op, fileVars, requests, readers, history>>

\* A replacement has left nothing but the backup, which is not looked at.
FileIsAway == target = NoFile /\ acked # {}

\* Likewise when what is retained cannot be rewritten.
LoadFails ==
    /\ op.kind = "load"
    /\ stage = "failed"
    /\ records' = <<>>
    /\ op' = Free
    /\ Finished
    /\ torn' = (torn \/ FileIsAway)
    /\ UNCHANGED <<up, boots, durable, previous, requests, readers, arrivals, acked, unsure>>

Loaded ==
    /\ op.kind = "load"
    /\ stage = "saved"
    /\ durable' = TRUE
    /\ op' = Free
    /\ Finished
    /\ UNCHANGED <<up, boots, records, previous, requests, readers, history>>

\* The program stops or crashes, wherever it is; requests under way are lost.
Stop ==
    /\ up
    /\ up' = FALSE
    /\ Abandon
    /\ records' = <<>>
    /\ previous' = <<>>
    /\ op' = Free
    /\ durable' = FALSE
    /\ progress' = [r \in Request |->
                       IF progress[r] = "new" THEN "new" ELSE "recorded"]
    /\ open' = {} /\ follows' = {}
    /\ queue' = [s \in Subscriber |-> <<>>]
    /\ view' = [s \in Subscriber |-> {}]
    /\ unsure' = IF op.kind = "append" THEN unsure \cup {op.request} ELSE unsure
    /\ torn' = (torn \/ FileIsAway)
    /\ UNCHANGED <<boots, size, old, arrivals, acked>>

\* Time passes: the oldest record has been kept longer than MaxAge.
Age(r) ==
    /\ \E log \in {records, target} \ {NoFile} :
          Unexpired(old, log) # <<>> /\ r = Head(Unexpired(old, log))
    /\ r \notin old
    /\ old' = old \cup {r}
    /\ UNCHANGED <<fileVars, store, progress, size, readers, history>>

Announce(r) == StartRequest(r) \/ StartAttempt(r)
TakeRecord(r) == AppendRecord(r) \/ RefuseRecord(r)
Return == AppendReturns \/ AppendFails \/ PruneReturns \/ Loaded \/ LoadFails

Next ==
    \/ Start \/ StartUnreadable \/ Stop \/ Prune \/ Replace \/ Return
    \/ \E r \in Request : Announce(r) \/ EndRequest(r) \/ TakeRecord(r) \/ Age(r)
    \/ \E s \in Subscriber : Subscribe(s) \/ List(s) \/ Receive(s) \/ Unsubscribe(s)

Spec == Init /\ [][Next]_vars

\* File operations end and a free lock is taken; nobody has to read the events.
Fairness == WF_vars(Replace \/ Return \/ \E r \in Request : TakeRecord(r))

FairSpec == Spec /\ Fairness

----------------------------------------------------------------------------
(* Properties *)

TypeOK ==
    /\ {target, backup, fresh} \subseteq Seq(Request) \cup {NoFile}
    /\ stage \in Stage
    /\ {up, durable, torn} \subseteq BOOLEAN
    /\ boots \in 0..MaxBoots
    /\ {records, previous, arrivals} \subseteq Seq(Request)
    /\ op \in Op
    /\ progress \in [Request -> {"new", "running", "ended", "recorded"}]
    /\ size \in [Request -> Size \cup {0}]
    /\ old \subseteq Request
    /\ acked \cup unsure \subseteq Request
    /\ open \subseteq Subscriber /\ follows \subseteq open
    /\ queue \in [Subscriber -> Seq(Event)] /\ \A s \in Subscriber : Len(queue[s]) <= Buffer
    /\ view \in [Subscriber -> SUBSET Request]
    /\ TotalSize(records) <= MaxBytes

\* What was appended from this record on has no room in the log.
Crowded(r) ==
    \E i \in DOMAIN arrivals :
        arrivals[i] = r /\ SizeOfNewest(size, arrivals)[Len(arrivals) - i + 1] > MaxBytes

\* A record whose Append succeeded stays in the file until it is too old or
\* has no room with what was appended since, whatever fails, is restored, pruned
\* or cut off, across restarts.  While a replacement has moved the file away the memory
\* has it; a store that is given up just then is the one that forgets (Append,
\* New, replaceUsageFile: no reader looks at the backup).
AckedIsKept ==
    ~torn => \A r \in acked :
        \/ r \in old
        \/ Crowded(r)
        \/ IF target # NoFile THEN r \in ToSet(target)
           ELSE up /\ r \in ToSet(records) \cup ToSet(previous)

\* What a subscriber knows of when it has read its queue.
Told(s) ==
    LET announced == {e \in ToSet(queue[s]) : e.kind = "completed"}
    IN  view[s] \cup {e.request : e \in announced}

\* Whoever subscribes and then reads the log knows every record of it when the
\* queue is read, unless its own queue overflowed since: no record falls
\* between the list and the events, and another subscriber that is slow costs
\* it nothing.  What it is told of was kept (Append announces a record under
\* the lock that List takes, once it is persisted; Broadcaster.Publish).
FollowersKnowTheLog ==
    \A s \in open :
        /\ durable => Told(s) \subseteq acked \cup unsure
        /\ op = Free /\ s \in follows => ToSet(records) \subseteq Told(s)

\* Nobody holds the store's lock for ever and no ended request waits for it
\* for ever, though replacements fail and nobody reads the events ("A slow
\* desktop must not block inference or the control listener").
SlowReadersHoldNobody ==
    []<>(~up \/ (op = Free /\ \A r \in Request : progress[r] # "ended"))

----------------------------------------------------------------------------
(* The inductive invariant. *)

\* A replacement writes what the memory has; only a lock's holder replaces.
FileShape ==
    /\ op = Free => stage = "none"
    /\ op # Free => up /\ (stage = "none" <=> ~durable /\ op.kind = "append")
    /\ op.kind = "load" => ~durable
    /\ op.kind = "prune" => durable
    /\ fresh = IF stage = "none" THEN NoFile ELSE records
    /\ stage \in {"protect", "saved"} => target = records
    /\ stage = "aside" => target = NoFile /\ backup # NoFile
    /\ op.kind # "append" => previous = <<>>
    /\ ~up => ~durable /\ records = <<>>
    /\ ~up \/ op.kind = "load" => open = {}

\* The records of a log arrived in its order, and perhaps others between them.
InOrder(log, arrived) ==
    \E at \in [DOMAIN log -> DOMAIN arrived] :
        /\ \A i \in DOMAIN log : log[i] = arrived[at[i]]
        /\ \A i, j \in DOMAIN log : i < j => at[i] < at[j]

\* Every log is a part of what arrived, and what arrived keeps its size.
OrderShape ==
    /\ \A log \in {target, backup, records, previous} \ {NoFile} : InOrder(log, arrivals)
    /\ \A r \in ToSet(arrivals) : progress[r] = "recorded"
    /\ TotalSize(previous) <= MaxBytes

Kept(some, log) == \A r \in some : r \in old \/ Crowded(r) \/ r \in ToSet(log)

\* The memory is what the file has or is about to have.
Trusted == durable \/ op.kind = "load"

KeptShape ==
    ~torn =>
        /\ target # NoFile => Kept(acked, target)
        /\ target = NoFile => acked = {} \/ Trusted
        /\ stage = "aside" => Kept(acked, backup)
        /\ Trusted => Kept(acked, records)
        /\ op.kind = "append" /\ durable => Kept(acked, previous) /\ Kept({op.request}, records)

Appending == IF op.kind = "append" THEN {op.request} ELSE {}

\* What a file or a durable memory has was acknowledged, or might have been.
KnownShape ==
    LET known == acked \cup unsure \cup (IF durable THEN Appending ELSE {})
    IN  /\ \A log \in {target, backup} \ {NoFile} : ToSet(log) \subseteq known
        /\ Trusted => ToSet(records) \subseteq known
        /\ durable => ToSet(previous) \subseteq acked \cup unsure

\* Whoever is not subscribed has nothing to read and nothing to go by.
FollowShape ==
    /\ \A s \in Subscriber \ open : queue[s] = <<>> /\ view[s] = {}
    /\ \A s \in open : durable => Told(s) \subseteq acked \cup unsure
    /\ \A s \in follows :
          /\ ToSet(records) \subseteq Told(s) \cup Appending
          /\ ToSet(previous) \subseteq Told(s)

IInv == TypeOK /\ FileShape /\ OrderShape /\ KeptShape /\ KnownShape /\ FollowShape

\* Where every rename replaces its file, the file is never away.
NeverAway ==
    /\ stage # "aside"
    /\ target = NoFile => acked = {}
    /\ ~torn

\* What was acknowledged is in the file itself, not only in the memory.
FileHasAcked ==
    \A r \in acked :
        \/ r \in old
        \/ Crowded(r)
        \/ target # NoFile /\ r \in ToSet(target)
============================================================================
