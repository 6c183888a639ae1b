---------------------------- MODULE DownloadManager ----------------------------
(* The download manager of internal/download: worker goroutines that claim    *)
(* rows of the store's downloads bucket and run them through the pipeline,    *)
(* the HTTP handlers that enqueue, move and cancel rows while they do, and    *)
(* the two bbolt buckets both work on.                                        *)
(*                                                                            *)
(* One step is one store transaction or one critical section, together with   *)
(* the thread-local code around it; the workers keep their own copy of the    *)
(* row they claimed, as the code does, and every PutDownload writes that copy *)
(* over whatever the bucket holds.                                            *)
EXTENDS RetryPolicy, QueueOrder

CONSTANTS
    Workers,    \* worker goroutines
    Callers,    \* HTTP handler goroutines
    Keys,       \* (pid, quality) pairs
    MaxIds,     \* bound: rows ever inserted
    Outcomes,   \* bound: the failure codes attempts may meet
    Requests,   \* bound: the requests callers and operators make
    Faults,     \* bound: which of "shutdown", "crash", "panic" happen, and whether
                \* a cancel's wait ("timeout") or the drain of requests ("drain")
                \* runs into its bound
    Ceiling,    \* max_workers, the throttle's ceiling
    Floor,
    NoRow,      \* an absent row
    Nobody      \* no worker, no caller

Ids == 1 .. MaxIds

ASSUME SizesAssumption ==
    /\ MaxIds \in Nat \ {0}
    /\ Rank \in [Ids -> Nat]
    /\ Outcomes \subseteq Codes
    /\ Nobody \notin Workers \cup Callers
    /\ Ceiling \in Nat \ {0} /\ Floor \in 1 .. Ceiling

Row == [id : Ids, key : Keys, priority : Int,
        status : Statuses, code : Codes \cup {Empty}, retryable : BOOLEAN,
        retryCount : Nat, cdnFailures : Nat, stallCount : Nat, stallCredits : Nat,
        metadataFailures : Nat, failedSuppliers : SUBSET Suppliers]

ASSUME NoRowAssumption == NoRow \notin Row

VARIABLES
    queue, history, nextId,         \* bbolt: downloads, history; ids handed out
    claimed, marks, enqueueLock,    \* Manager.claimed, .cancelled, .enqueueMu
    paused, stopping,               \* Manager.paused; the workers' context is done
    limit, cooling,                 \* the adaptive throttle, see module Throttle
    wpc, seen, dl, dead,            \* per worker: position, its ListDownloads
                                    \* result, its row, its job's context is done
    cpc, cid, ckey, cop, csnap      \* per caller: position and arguments

store   == <<queue, history, nextId>>
locks   == <<claimed, marks, enqueueLock>>
flags   == <<paused, stopping>>
worker  == <<wpc, seen, dl, dead>>
caller  == <<cpc, cid, ckey, cop, csnap>>
throttle == <<limit, cooling>>
vars == <<queue, history, nextId, claimed, marks, enqueueLock, paused, stopping,
          limit, cooling, wpc, seen, dl, dead, cpc, cid, ckey, cop, csnap>>

T == INSTANCE Throttle

InQueue(i) == queue[i] # NoRow
Claims == {i \in Ids : claimed[i] # Nobody}
Dead(w) == dead[w] \/ stopping

FreshRow(i, k) ==
    [id |-> i, key |-> k, priority |-> 0, status |-> "pending", code |-> Empty,
     retryable |-> FALSE, retryCount |-> 0, cdnFailures |-> 0, stallCount |-> 0,
     stallCredits |-> 0, metadataFailures |-> 0, failedSuppliers |-> {}]

(* The process starts: what is in memory, the buckets are not touched.        *)
Booted ==
    /\ claimed' = [i \in Ids |-> Nobody] /\ marks' = {} /\ enqueueLock' = Nobody
    /\ paused' = FALSE /\ stopping' = FALSE
    /\ limit' = Ceiling /\ cooling' = FALSE
    /\ wpc' = [w \in Workers |-> "idle"] /\ seen' = [w \in Workers |-> {}]
    /\ dl' = [w \in Workers |-> NoRow] /\ dead' = [w \in Workers |-> FALSE]
    /\ cpc' = [c \in Callers |-> "idle"] /\ cid' = [c \in Callers |-> 0]
    /\ ckey' = [c \in Callers |-> Nobody] /\ cop' = [c \in Callers |-> "none"]
    /\ csnap' = [c \in Callers |-> NoRow]

Init ==
    /\ queue = [i \in Ids |-> NoRow] /\ history = [i \in Ids |-> NoRow] /\ nextId = 1
    /\ claimed = [i \in Ids |-> Nobody] /\ marks = {} /\ enqueueLock = Nobody
    /\ paused = FALSE /\ stopping = FALSE
    /\ T!Init
    /\ wpc = [w \in Workers |-> "idle"] /\ seen = [w \in Workers |-> {}]
    /\ dl = [w \in Workers |-> NoRow] /\ dead = [w \in Workers |-> FALSE]
    /\ cpc = [c \in Callers |-> "idle"] /\ cid = [c \in Callers |-> 0]
    /\ ckey = [c \in Callers |-> Nobody] /\ cop = [c \in Callers |-> "none"]
    /\ csnap = [c \in Callers |-> NoRow]

-------------------------------------------------------------------------------
Put(row) == queue' = [queue EXCEPT ![row.id] = row]

(* Variants with a bug: rows a worker left in progress listed as due; the      *)
(* claim not looked at; the claim not given back.                             *)
RetriesAbandoned == {queue[i] : i \in {j \in Ids : InQueue(j)
                        /\ (queue[j].status = "failed" => queue[j].retryable)
                        /\ queue[j].status # "completed"}}
AlwaysFree(i) == TRUE
FreedWithoutRelease(w) ==
    /\ dl' = [dl EXCEPT ![w] = NoRow]
    /\ dead' = [dead EXCEPT ![w] = FALSE]
    /\ wpc' = [wpc EXCEPT ![w] = "idle"]
    /\ UNCHANGED <<store, locks, flags, throttle, seen, caller>>

(* MoveDownload: the pending rows are renumbered with row i shifted; a row    *)
(* that is gone or not pending is refused.                                    *)
Pending == {queue[i] : i \in {j \in Ids : InQueue(j) /\ queue[j].status = "pending"}}

MoveDownload(i, op) ==
    queue' = IF queue[i] \in Pending
             THEN [j \in Ids |-> IF queue[j] \in Pending
                                 THEN Renumbered(queue[j], queue[i], Pending, op)
                                 ELSE queue[j]]
             ELSE queue

-------------------------------------------------------------------------------
(* Workers.                                                                   *)

Goto(w, at) == wpc' = [wpc EXCEPT ![w] = at]

(* worker, processNext: the tick finds the manager running and the throttle   *)
(* admitting.  Nothing is reserved.                                           *)
Admit(w) ==
    /\ wpc[w] = "idle"
    /\ ~paused
    /\ T!Admits(Cardinality(Claims))
    /\ Goto(w, "list")
    /\ UNCHANGED <<store, locks, flags, throttle, seen, dl, dead, caller>>

(* ListDownloads, and of it the rows that are due: those pending, and those   *)
(* of the retryable ones whose RetryAfter has passed.                         *)
Retries == {queue[i] : i \in {j \in Ids : InQueue(j) /\ queue[j].status = "failed"
                                          /\ queue[j].retryable}}
ListDue(w, due) ==
    /\ wpc[w] = "list"
    /\ seen' = [seen EXCEPT ![w] = Pending \cup due]
    /\ Goto(w, IF seen'[w] = {} THEN "idle" ELSE "scan")
    /\ UNCHANGED <<store, locks, flags, throttle, dl, dead, caller>>

List(w) == \E due \in SUBSET Retries : ListDue(w, due)

Free(i) == claimed[i] = Nobody

(* The front row is claimed by another worker: go on to the next.             *)
Skip(w) ==
    /\ wpc[w] = "scan"
    /\ \E r \in seen[w] :
          /\ IsFront(r, seen[w]) /\ ~Free(r.id)
          /\ seen' = [seen EXCEPT ![w] = @ \ {r}]
    /\ Goto(w, IF seen'[w] = {} THEN "idle" ELSE "scan")
    /\ UNCHANGED <<store, locks, flags, throttle, dl, dead, caller>>

(* claim: the front row of the list is free and becomes the worker's row, as  *)
(* it was when it was listed.                                                 *)
Take(w) ==
    /\ wpc[w] = "scan"
    /\ \E r \in seen[w] :
          /\ IsFront(r, seen[w]) /\ Free(r.id)
          /\ dl' = [dl EXCEPT ![w] = r]
          /\ claimed' = [claimed EXCEPT ![r.id] = w]
    /\ seen' = [seen EXCEPT ![w] = {}]
    /\ Goto(w, "begin")
    /\ UNCHANGED <<store, marks, enqueueLock, flags, throttle, dead, caller>>

(* The worker stores its row, changed, and goes on.                           *)
Store(w, row, at) ==
    /\ dl' = [dl EXCEPT ![w] = row]
    /\ Put(row)
    /\ Goto(w, at)
    /\ UNCHANGED <<history, nextId, claimed, enqueueLock, flags, seen, dead, caller>>

(* Variants with a bug: a given-up row left behind; a shutdown that writes     *)
(* nothing; a completion that is archived before it is stored; an archive     *)
(* that copies, or takes two transactions.                                    *)
AfterFailRelease(row) == "release"
StopSilently(w) ==
    /\ wpc[w] \in {"playlist", "media", "fetch"}
    /\ Dead(w)
    /\ marks' = marks \ {dl[w].id}
    /\ Goto(w, "release")
    /\ UNCHANGED <<store, claimed, enqueueLock, flags, throttle, seen, dl, dead, caller>>
CompleteUnstored(w) ==
    /\ wpc[w] = "verify"
    /\ Goto(w, "archive")
    /\ UNCHANGED <<store, locks, flags, throttle, seen, dl, dead, caller>>
ArchiveCopy(w) ==
    /\ wpc[w] = "archive"
    /\ history' = [history EXCEPT ![dl[w].id] = queue[dl[w].id]]
    /\ Goto(w, "release")
    /\ UNCHANGED <<queue, nextId, locks, flags, throttle, seen, dl, dead, caller>>
ArchiveInTwo(w) ==
    /\ wpc[w] = "archive"
    /\ IF InQueue(dl[w].id)
       THEN queue' = [queue EXCEPT ![dl[w].id] = NoRow] /\ UNCHANGED <<history, wpc>>
       ELSE /\ history' = [history EXCEPT ![dl[w].id] = dl[w]]
            /\ Goto(w, "release") /\ UNCHANGED queue
    /\ UNCHANGED <<nextId, locks, flags, throttle, seen, dl, dead, caller>>

Begin(w) ==
    /\ wpc[w] = "begin"
    /\ Store(w, [dl[w] EXCEPT !.status = "resolving"], "playlist")
    /\ UNCHANGED <<marks, throttle>>

Resolved(w) ==
    /\ wpc[w] = "playlist"
    /\ Store(w, dl[w], "media")
    /\ UNCHANGED <<marks, throttle>>

Selected(w) ==
    /\ wpc[w] = "media"
    /\ Store(w, [dl[w] EXCEPT !.status = "downloading"], "fetch")
    /\ UNCHANGED <<marks, throttle>>

(* ffmpeg reports progress; also the write just before ffmpeg starts.         *)
Progress(w) ==
    /\ wpc[w] = "fetch"
    /\ Store(w, dl[w], "fetch")
    /\ UNCHANGED <<marks, throttle>>

Fetched(w) ==
    /\ wpc[w] = "fetch"
    /\ Goto(w, "verify")
    /\ UNCHANGED <<store, locks, flags, throttle, seen, dl, dead, caller>>

(* A watchdog stall: recordStall, which may complete a cluster and trip.      *)
Stalled(w) ==
    /\ wpc[w] = "fetch" /\ ~Dead(w)
    /\ "stalled" \in Outcomes
    /\ T!Trip \/ UNCHANGED throttle
    /\ Goto(w, "stalled")
    /\ UNCHANGED <<store, locks, flags, seen, dl, dead, caller>>

(* How an attempt can fail at each step.  The context is looked at before the *)
(* failed row is written and may be done by then; a failure noticed on a done *)
(* context is a stop, below.                                                  *)
CanFail(w, cause) ==
    CASE wpc[w] = "playlist" -> cause.code \in {"not_yet_available", "metadata_unavailable"}
      [] wpc[w] = "media" -> cause.code \in {"geo_blocked", "metadata_unavailable",
                                             "stream_unavailable"}
      [] wpc[w] = "fetch" -> cause.code = "ffmpeg_error"
      [] wpc[w] = "stalled" -> cause.code = "stalled"
      [] wpc[w] = "verify" -> cause.code \in CdnCodes /\ ~IsRefusal(cause)
      [] OTHER -> FALSE

AfterFail(row) == IF row.retryable THEN "release" ELSE "giveup"

(* failDownload: the failed row is stored; a permanent failure is stored once *)
(* more, with its time, and archived.                                         *)
Fail(w, cause) ==
    /\ CanFail(w, cause)
    /\ cause.code \in Outcomes
    /\ LET row == Failed(dl[w], cause, cooling)
       IN  Store(w, row, AfterFail(row))
    /\ UNCHANGED <<marks, throttle>>

GiveUp(w) ==
    /\ wpc[w] = "giveup"
    /\ Store(w, dl[w], "archive")
    /\ UNCHANGED <<marks, throttle>>

(* The pipeline finds its context done: a user's cancel leaves the row to     *)
(* CancelDownload, a shutdown puts it back to pending.                        *)
Stop(w) ==
    /\ wpc[w] \in {"playlist", "media", "fetch"}
    /\ Dead(w)
    /\ IF dl[w].id \in marks
       THEN /\ marks' = marks \ {dl[w].id}
            /\ Goto(w, "release")
            /\ UNCHANGED <<store, claimed, enqueueLock, flags, seen, dl, dead, caller>>
       ELSE /\ Store(w, [dl[w] EXCEPT !.status = "pending"], "release")
            /\ UNCHANGED marks
    /\ UNCHANGED throttle

Complete(w) ==
    /\ wpc[w] = "verify"
    /\ Store(w, Completed(dl[w]), "archive")
    /\ UNCHANGED <<marks, throttle>>

(* MoveToHistory copies the stored row, not the worker's; a row that is gone  *)
(* is an error that is only logged.                                           *)
Archive(w) ==
    /\ wpc[w] = "archive"
    /\ LET i == dl[w].id
       IN  IF InQueue(i)
           THEN /\ history' = [history EXCEPT ![i] = queue[i]]
                /\ queue' = [queue EXCEPT ![i] = NoRow]
           ELSE UNCHANGED <<history, queue>>
    /\ Goto(w, "release")
    /\ UNCHANGED <<nextId, locks, flags, throttle, seen, dl, dead, caller>>

Freed(w) ==
    /\ claimed' = [claimed EXCEPT ![dl[w].id] = Nobody]
    /\ dl' = [dl EXCEPT ![w] = NoRow]
    /\ dead' = [dead EXCEPT ![w] = FALSE]
    /\ Goto(w, "idle")
    /\ UNCHANGED <<store, marks, enqueueLock, flags, throttle, seen, caller>>

Release(w) == wpc[w] = "release" /\ Freed(w)

Working == {"begin", "playlist", "media", "fetch", "stalled", "verify", "giveup",
            "archive"}

(* A panic in the pipeline: recovered, the deferred release runs.             *)
Panic(w) == "panic" \in Faults /\ wpc[w] \in Working /\ Freed(w)

WorkerStep(w) ==
    \/ Admit(w) \/ List(w) \/ Skip(w) \/ Take(w)
    \/ Begin(w) \/ Resolved(w) \/ Selected(w) \/ Fetched(w) \/ Stalled(w)
    \/ \E cause \in Causes : Fail(w, cause)
    \/ GiveUp(w) \/ Stop(w) \/ Complete(w) \/ Archive(w) \/ Release(w)

-------------------------------------------------------------------------------
(* Callers: Enqueue.                                                          *)

CGoto(c, at) == cpc' = [cpc EXCEPT ![c] = at]

(* A step of caller c that ends it or goes on with id i.                      *)
CNext(c, at, i) ==
    /\ CGoto(c, at)
    /\ cid' = [cid EXCEPT ![c] = IF at = "idle" THEN 0 ELSE i]
    /\ ckey' = [ckey EXCEPT ![c] = IF at = "idle" THEN Nobody ELSE @]
    /\ cop' = [cop EXCEPT ![c] = IF at = "idle" THEN "none" ELSE @]
    /\ csnap' = [csnap EXCEPT ![c] = IF at = "idle" THEN NoRow ELSE @]

(* Variants with a bug: enqueueMu ignored; any row without a lasting failure   *)
(* code superseded; a cancel that keeps its mark; a delete that spares a row   *)
(* in progress.                                                                *)
LockIgnored == TRUE
SupersededUncoded(row) == row.code \in {Empty, "not_yet_available", "metadata_unavailable"}
ClearKeepsMark(c) ==
    /\ cpc[c] = "clear"
    /\ CGoto(c, "delete")
    /\ UNCHANGED <<store, locks, flags, throttle, worker, cid, ckey, cop, csnap>>
DeleteIfIdle(c) ==
    /\ cpc[c] = "delete"
    /\ queue' = IF InQueue(cid[c]) /\ InProgress(queue[cid[c]]) THEN queue
                ELSE [queue EXCEPT ![cid[c]] = NoRow]
    /\ CNext(c, IF csnap[c] = NoRow THEN "idle" ELSE "record", cid[c])
    /\ UNCHANGED <<history, nextId, locks, flags, throttle, worker>>

LockFree == enqueueLock = Nobody

(* handleAdd applies the priority parameter after StartDownload returned.     *)
AfterEnqueue(c) == IF cop[c] = "none" THEN "idle" ELSE "priority"

Matches(bucket, k) == {i \in Ids : bucket[i] # NoRow /\ bucket[i].key = k}

(* A grab arrives, from Sonarr with a priority or from the dashboard; once    *)
(* enqueueMu is taken, FindDownloadByPIDQuality.                              *)
FindDownload(c, k, op) ==
    /\ cpc[c] = "idle" /\ "enqueue" \in Requests /\ ~stopping
    /\ op # "none" => "priority" \in Requests
    /\ LockFree
    /\ nextId <= MaxIds
    /\ \/ /\ Matches(queue, k) = {}
          /\ enqueueLock' = c
          /\ CGoto(c, "history")
          /\ ckey' = [ckey EXCEPT ![c] = k]
          /\ cop' = [cop EXCEPT ![c] = op]
          /\ UNCHANGED <<cid, csnap>>
       \/ /\ op # "none"
          /\ CGoto(c, "priority")
          /\ cid' \in {[cid EXCEPT ![c] = i] : i \in Matches(queue, k)}
          /\ cop' = [cop EXCEPT ![c] = op]
          /\ UNCHANGED <<enqueueLock, ckey, csnap>>
    /\ UNCHANGED <<store, claimed, marks, flags, throttle, worker>>

(* What FindHistoryByPIDQuality may return: one that did not fail, if any.    *)
Found(k) == LET all == Matches(history, k)
                ok  == {i \in all : history[i].status # "failed"}
            IN  IF ok # {} THEN ok ELSE all

Superseded(row) == row.status = "failed"
                   /\ row.code \in {"not_yet_available", "metadata_unavailable"}

FindHistory(c) ==
    /\ cpc[c] = "history"
    /\ \/ /\ Found(ckey[c]) = {}
          /\ CGoto(c, "insert")
          /\ UNCHANGED <<enqueueLock, cid, ckey, cop, csnap>>
       \/ \E i \in Found(ckey[c]) :
             IF Superseded(history[i])
             THEN CNext(c, "supersede", i) /\ UNCHANGED enqueueLock
             ELSE CNext(c, AfterEnqueue(c), i) /\ enqueueLock' = Nobody
    /\ UNCHANGED <<store, claimed, marks, flags, throttle, worker>>

Supersede(c) ==
    /\ cpc[c] = "supersede"
    /\ history' = [history EXCEPT ![cid[c]] = NoRow]
    /\ CGoto(c, "insert")
    /\ UNCHANGED <<queue, nextId, locks, flags, throttle, worker, cid, ckey, cop, csnap>>

Insert(c) ==
    /\ cpc[c] = "insert"
    /\ Put(FreshRow(nextId, ckey[c]))
    /\ nextId' = nextId + 1
    /\ enqueueLock' = Nobody
    /\ CNext(c, AfterEnqueue(c), nextId)
    /\ UNCHANGED <<history, claimed, marks, flags, throttle, worker>>

ApplyPriority(c) ==
    /\ cpc[c] = "priority"
    /\ MoveDownload(cid[c], cop[c])
    /\ CNext(c, "idle", 0)
    /\ UNCHANGED <<history, nextId, locks, flags, throttle, worker>>

-------------------------------------------------------------------------------
(* Callers: CancelDownload, alone (DELETE /api/downloads/{id}) or inside      *)
(* SABnzbd's queue delete, which snapshots the row before and records it as   *)
(* failed afterwards.                                                         *)

SabSnapshot(c, i) ==
    /\ cpc[c] = "idle" /\ "sabdelete" \in Requests /\ ~stopping /\ i < nextId
    /\ CGoto(c, "mark")
    /\ cid' = [cid EXCEPT ![c] = i]
    /\ csnap' = [csnap EXCEPT ![c] = queue[i]]
    /\ UNCHANGED <<store, locks, flags, throttle, worker, ckey, cop>>

(* MarkCancelled.                                                             *)
Mark(c, i) ==
    /\ \/ cpc[c] = "idle" /\ "cancel" \in Requests /\ ~stopping /\ i < nextId
       \/ cpc[c] = "mark" /\ i = cid[c]
    /\ marks' = marks \cup {i}
    /\ CGoto(c, "signal")
    /\ cid' = [cid EXCEPT ![c] = i]
    /\ UNCHANGED <<store, claimed, enqueueLock, flags, throttle, worker, ckey, cop, csnap>>

(* The claim is looked up and its cancel function called.                     *)
Signal(c) ==
    /\ cpc[c] = "signal"
    /\ IF claimed[cid[c]] # Nobody
       THEN dead' = [dead EXCEPT ![claimed[cid[c]]] = TRUE] /\ CGoto(c, "wait")
       ELSE UNCHANGED dead /\ CGoto(c, "clear")
    /\ UNCHANGED <<store, locks, flags, throttle, wpc, seen, dl, cid, ckey, cop, csnap>>

(* The poll sees the claim gone, or cancelWaitTimeout has passed.             *)
WaitOver(c) ==
    /\ cpc[c] = "wait"
    /\ claimed[cid[c]] = Nobody \/ "timeout" \in Faults
    /\ CGoto(c, "clear")
    /\ UNCHANGED <<store, locks, flags, throttle, worker, cid, ckey, cop, csnap>>

Clear(c) ==
    /\ cpc[c] = "clear"
    /\ marks' = marks \ {cid[c]}
    /\ CGoto(c, "delete")
    /\ UNCHANGED <<store, claimed, enqueueLock, flags, throttle, worker, cid, ckey, cop, csnap>>

Delete(c) ==
    /\ cpc[c] = "delete"
    /\ queue' = [queue EXCEPT ![cid[c]] = NoRow]
    /\ CNext(c, IF csnap[c] = NoRow THEN "idle" ELSE "record", cid[c])
    /\ UNCHANGED <<history, nextId, locks, flags, throttle, worker>>

Record(c) ==
    /\ cpc[c] = "record"
    /\ history' = [history EXCEPT ![cid[c]] = [csnap[c] EXCEPT !.status = "failed"]]
    /\ CNext(c, "idle", 0)
    /\ UNCHANGED <<queue, nextId, locks, flags, throttle, worker>>

CallerStep(c) ==
    \/ FindHistory(c) \/ Supersede(c) \/ Insert(c) \/ ApplyPriority(c)
    \/ cpc[c] = "mark" /\ Mark(c, cid[c])
    \/ Signal(c) \/ WaitOver(c) \/ Clear(c) \/ Delete(c) \/ Record(c)

-------------------------------------------------------------------------------
(* Requests that are a single step.                                           *)

Move(i, op) ==
    /\ "move" \in Requests /\ ~stopping /\ InQueue(i)
    /\ MoveDownload(i, op)
    /\ UNCHANGED <<history, nextId, locks, flags, throttle, worker, caller>>

DeleteHistory(i) ==
    /\ "deletehistory" \in Requests /\ ~stopping /\ history[i] # NoRow
    /\ history' = [history EXCEPT ![i] = NoRow]
    /\ UNCHANGED <<queue, nextId, locks, flags, throttle, worker, caller>>

ClearHistory ==
    /\ "clearhistory" \in Requests /\ ~stopping
    /\ history' = [i \in Ids |-> NoRow]
    /\ UNCHANGED <<queue, nextId, locks, flags, throttle, worker, caller>>

Pause ==
    /\ "pause" \in Requests /\ ~stopping /\ ~paused
    /\ paused' = TRUE
    /\ UNCHANGED <<store, locks, stopping, throttle, worker, caller>>

(* Resume also overrides a cooldown.                                          *)
Resume ==
    /\ "pause" \in Requests /\ ~stopping
    /\ paused' = FALSE
    /\ T!Clear
    /\ UNCHANGED <<store, locks, stopping, worker, caller>>

-------------------------------------------------------------------------------
(* The throttle's own steps: a cooldown runs out; an idle worker's tick finds *)
(* the clean window over.                                                     *)
CooldownOver == T!Expire /\ UNCHANGED <<store, locks, flags, worker, caller>>

StepUp == /\ \E w \in Workers : wpc[w] = "idle"
          /\ T!Recover
          /\ UNCHANGED <<store, locks, flags, worker, caller>>

(* SIGTERM: srv.Shutdown takes no new requests and waits for those in flight, *)
(* within a bound; then the workers' context is cancelled.  The process exits *)
(* once every worker returned, and starts again.  A crash, or the bound on    *)
(* Stop, ends it where it stands.                                             *)
Shutdown ==
    /\ "shutdown" \in Faults /\ ~stopping
    /\ (\A c \in Callers : cpc[c] = "idle") \/ "drain" \in Faults
    /\ stopping' = TRUE
    /\ UNCHANGED <<store, locks, paused, throttle, worker, caller>>

Restart ==
    /\ \/ stopping /\ \A w \in Workers : wpc[w] = "idle"
       \/ "crash" \in Faults
    /\ Booted
    /\ UNCHANGED store

Next ==
    \/ \E w \in Workers : WorkerStep(w) \/ Progress(w) \/ Panic(w)
    \/ \E c \in Callers :
          \/ CallerStep(c)
          \/ \E k \in Keys, op \in {"none", "top", "bottom"} : FindDownload(c, k, op)
          \/ \E i \in Ids : SabSnapshot(c, i) \/ Mark(c, i)
    \/ \E i \in Ids : \/ DeleteHistory(i)
                      \/ \E op \in Moves : Move(i, op)
    \/ ClearHistory \/ Pause \/ Resume
    \/ CooldownOver \/ StepUp \/ Shutdown \/ Restart

Spec == Init /\ [][Next]_vars

(* The Go scheduler runs every goroutine, and the worker ticker fires again   *)
(* and again; handlers run to the end of their request.  A RetryAfter is a    *)
(* moment that passes, so the list of a worker that keeps listing holds every *)
(* due row some day.  Nothing obliges anyone to make a request.               *)
Fairness ==
    /\ \A w \in Workers :
          /\ WF_vars(WorkerStep(w))
          /\ SF_vars(Admit(w))
          /\ SF_vars(ListDue(w, Retries))
    /\ \A c \in Callers : WF_vars(CallerStep(c))
    /\ WF_vars(CooldownOver)
    /\ WF_vars(Restart /\ stopping)

FairSpec == Spec /\ Fairness

-------------------------------------------------------------------------------
WorkerPositions == {"idle", "list", "scan", "release"} \cup Working
CallerPositions == {"idle", "history", "supersede", "insert", "priority", "mark",
                    "signal", "wait", "clear", "delete", "record"}

TypeOK ==
    /\ queue \in [Ids -> Row \cup {NoRow}]
    /\ history \in [Ids -> Row \cup {NoRow}]
    /\ nextId \in 1 .. MaxIds + 1
    /\ claimed \in [Ids -> Workers \cup {Nobody}]
    /\ marks \subseteq Ids
    /\ enqueueLock \in Callers \cup {Nobody}
    /\ paused \in BOOLEAN /\ stopping \in BOOLEAN
    /\ limit \in Floor .. Ceiling /\ cooling \in BOOLEAN
    /\ wpc \in [Workers -> WorkerPositions]
    /\ seen \in [Workers -> SUBSET Row]
    /\ dl \in [Workers -> Row \cup {NoRow}]
    /\ dead \in [Workers -> BOOLEAN]
    /\ cpc \in [Callers -> CallerPositions]
    /\ cid \in [Callers -> Ids \cup {0}]
    /\ ckey \in [Callers -> Keys \cup {Nobody}]
    /\ cop \in [Callers -> {"none", "top", "bottom"}]
    /\ csnap \in [Callers -> Row \cup {NoRow}]

(* Worker w is inside the claimed window of row i.                            *)
Holds(w, i) == wpc[w] \in Working \cup {"release"} /\ dl[w].id = i

(* Caller c is cancelling row i and has marked it.                            *)
Cancelling(c, i) == cpc[c] \in {"signal", "wait", "clear", "delete"} /\ cid[c] = i

(* The claimed map tells the truth: it names exactly the worker that is       *)
(* processing a row, so two workers never process the same row at once and    *)
(* no claim outlives its job, whatever stops the job (worker.go, claim and    *)
(* the deferred release).                                                     *)
ClaimExclusive ==
    \A i \in Ids, w \in Workers : claimed[i] = w <=> Holds(w, i)

(* The cancelled set does not leak: an entry belongs to a CancelDownload that *)
(* has not cleared it yet (audit item 10).                                    *)
NoMarkLeak ==
    \A i \in marks : \E c \in Callers :
        cpc[c] \in {"signal", "wait", "clear"} /\ cid[c] = i

(* Without a crash or a panic no row is orphaned: a row that says it is being *)
(* resolved or downloaded has a worker, or a cancel under way that deletes it *)
(* (a worker that sees the user's mark leaves the row as it is).              *)
NoOrphans ==
    \A i \in Ids : InQueue(i) /\ InProgress(queue[i]) =>
        \/ \E w \in Workers : Holds(w, i)
        \/ \E c \in Callers : Cancelling(c, i)

(* From a worker's first write to its archive the bucket holds under its row   *)
(* what the worker wrote there last, or nothing once a cancel deleted it: the  *)
(* stale copies other workers listed before, moves, and what a cancel or an    *)
(* Enqueue read, never reach a row that is being worked on, so each write the  *)
(* worker makes over the bucket's row loses nothing (store.PutDownload is a    *)
(* blind overwrite).                                                           *)
Written == {"playlist", "media", "fetch", "stalled", "verify", "giveup", "archive"}
BucketFollowsWorker ==
    \A w \in Workers : wpc[w] \in Written => queue[dl[w].id] \in {NoRow, dl[w]}

(* A finished row is in the downloads bucket only between its last PutDownload *)
(* and MoveToHistory; SABnzbd's queue view hides a given-up row, so one that   *)
(* stayed would be lost to Sonarr (handler.go, handleQueue).                   *)
TerminalInTransit ==
    \A i \in Ids : InQueue(i) /\ Terminal(queue[i]) =>
        \E w \in Workers : wpc[w] \in {"giveup", "archive"} /\ dl[w].id = i

(* What reaches history is finished, although MoveToHistory copies whatever    *)
(* the bucket holds by then.                                                   *)
HistoryIsFinal == \A i \in Ids : history[i] # NoRow =>
                      history[i].status \in {"completed", "failed"}

(* A row whose failure a fresh grab supersedes (#52, #57).                     *)
ComeBackLater(row) == row.status = "failed"
                      /\ row.code \in {"not_yet_available", "metadata_unavailable"}

(* One row per (pid, quality): queue and history together hold at most one     *)
(* row of a key that a new grab would not supersede, so no episode is fetched  *)
(* twice (manager.go, enqueueMu; audit item 21).                               *)
Holding(i, k) == \/ InQueue(i) /\ queue[i].key = k
                 \/ history[i] # NoRow /\ history[i].key = k /\ ~ComeBackLater(history[i])
OneRowPerKey ==
    \A k \in Keys, i, j \in Ids : Holding(i, k) /\ Holding(j, k) => i = j

(* A row is in one bucket: MoveToHistory is one transaction.                   *)
OneBucket == \A i \in Ids : ~(InQueue(i) /\ history[i] # NoRow)

(* An accepted grab is never dropped: until someone deletes it the row is in   *)
(* the queue or in history, across crashes; only a not-yet-available or        *)
(* metadata failure gives way, to a new row of its key.                        *)
NoGrabLost ==
    [][\A i \in Ids : (InQueue(i) \/ history[i] # NoRow)
                           /\ ~(queue[i]' # NoRow \/ history[i]' # NoRow) =>
          ~InQueue(i) /\ ComeBackLater(history[i])]_<<queue, history>>

(* A completed download stays completed: Sonarr finds it in history and        *)
(* imports it; a later grab, retry or cancel does not take it away again       *)
(* (worker.go, step 11).                                                       *)
CompletedStays ==
    [][\A i \in Ids : history[i] # NoRow /\ history[i].status = "completed" =>
          history'[i] = history[i]]_history

Takes(w) == wpc[w] = "scan" /\ wpc'[w] = "begin"

(* A claim prevents duplicate processing: no worker starts on a row that has   *)
(* completed.                                                                  *)
NoDuplicateProcessing ==
    [][\A w \in Workers : Takes(w) =>
          LET done == history[dl'[w].id]
          IN  done = NoRow \/ done.status # "completed"]_wpc

(* A row nobody works on any more after a crash or a panic, still marked as in *)
(* progress, is never listed nor claimed again, across restarts too, and       *)
(* blocks its key: it leaves the queue only when someone cancels it.           *)
Abandoned(i) == /\ InQueue(i) /\ InProgress(queue[i])
                /\ \A w \in Workers : ~Holds(w, i)
                /\ \A w \in Workers : \A r \in seen[w] : r.id # i
AbandonedUntilCancelled ==
    [][\A i \in Ids : Abandoned(i) =>
          \/ Abandoned(i)' /\ queue'[i] = queue[i]
          \/ \E c \in Callers : cpc[c] = "delete" /\ cid[c] = i]_<<queue, wpc, seen, dl>>

(* Every grab gets its turn and ends in history, and every cancel returns.     *)
GrabsEnd == \A i \in Ids : InQueue(i) ~> ~InQueue(i)
CancelsReturn == \A c \in Callers : cpc[c] = "signal" ~> cpc[c] = "idle"
===============================================================================
