------------------------- MODULE DownloadManager_proofs -------------------------
(* The download manager for any number of workers, callers, rows and requests. *)
(* Under every combination of faults its state keeps its types, a claim names  *)
(* the one worker that processes the row, no cancellation mark leaks, only     *)
(* finished rows reach history and an abandoned row stays where it is.  While  *)
(* jobs run to their end no row is orphaned or stranded.  What a second worker *)
(* with a stale list can break (counts, one bucket per row, one row per key,   *)
(* completed rows) is proved for one worker.                                   *)
EXTENDS DownloadManager, RetryPolicy_proofs, FiniteSetTheorems, TLAPS

-------------------------------------------------------------------------------
(* What the operators on rows do to a row: it stays a row, and keeps its id.   *)

LEMMA StatusRow ==
    ASSUME NEW r \in Row, NEW st \in Statuses
    PROVE  [r EXCEPT !.status = st] \in Row /\ [r EXCEPT !.status = st].id = r.id
BY DEF Row

LEMMA CompletedRow ==
    ASSUME NEW r \in Row
    PROVE  Completed(r) \in Row /\ Completed(r).id = r.id
<1> DEFINE e == [r EXCEPT !.status = "completed"]
           f == [e EXCEPT !.code = Empty]
<1>1. e \in Row /\ e.id = r.id
  BY StatusRow DEF Statuses
<1>2. Completed(r) = [f EXCEPT !.retryable = FALSE]
  BY DEF Completed
<1> HIDE DEF e
<1>3. f \in Row /\ f.id = r.id
  BY <1>1 DEF Row
<1> HIDE DEF f
<1>4. QED
  BY <1>2, <1>3 DEF Row

LEMMA FreshRowType ==
    ASSUME NEW i \in Ids, NEW k \in Keys
    PROVE  FreshRow(i, k) \in Row /\ FreshRow(i, k).id = i
BY DEF FreshRow, Row, Statuses

LEMMA PriorityRow ==
    ASSUME NEW r \in Row, NEW p \in Int
    PROVE  [r EXCEPT !.priority = p] \in Row /\ [r EXCEPT !.priority = p].id = r.id
BY DEF Row

LEMMA ChargeRow ==
    ASSUME NEW r \in Row, NEW cause \in Causes, NEW cool \in BOOLEAN
    PROVE  Charge(r, cause, cool) \in Row /\ Charge(r, cause, cool).id = r.id
<1> DEFINE c == Charge(r, cause, cool)
           e == [r EXCEPT !.retryCount = @ + 1]
<1>1. e \in Row /\ e.id = r.id /\ e.failedSuppliers = r.failedSuppliers
      /\ e.cdnFailures = r.cdnFailures
  BY DEF Row
<1> HIDE DEF c
<1>2. CASE c = Freeze(r)
  BY <1>2 DEF Freeze, Row, c
<1>3. CASE c = Stall(r)
  BY <1>3 DEF Stall, Row, c
<1>4. CASE c = [r EXCEPT !.metadataFailures = @ + 1]
  BY <1>4 DEF Row, c
<1>5. CASE /\ {cause.refusedBy} \ {Empty} \in SUBSET Suppliers
           /\ c = [r EXCEPT !.retryCount = @ + 1,
                !.failedSuppliers = @ \cup ({cause.refusedBy} \ {Empty})]
  <2>1. c = [e EXCEPT !.failedSuppliers = r.failedSuppliers \cup ({cause.refusedBy} \ {Empty})]
    BY <1>5
  <2>2. r.failedSuppliers \cup ({cause.refusedBy} \ {Empty}) \in SUBSET Suppliers
    BY <1>5 DEF Row
  <2> HIDE DEF e
  <2>3. QED
    BY <1>1, <2>1, <2>2 DEF Row, c
<1>6. CASE c = [r EXCEPT !.retryCount = @ + 1, !.cdnFailures = @ + 1]
  <2>1. c = [e EXCEPT !.cdnFailures = e.cdnFailures + 1]
    BY <1>1, <1>6
  <2> HIDE DEF e
  <2>2. QED
    BY <1>1, <2>1 DEF Row, c
<1>7. CASE c = e
  BY <1>1, <1>7 DEF c
<1>8. QED
  BY <1>2, <1>3, <1>4, <1>5, <1>6, <1>7, ChargeCases DEF c

LEMMA FailedRow ==
    ASSUME NEW r \in Row, NEW cause \in Causes, NEW cool \in BOOLEAN
    PROVE  Failed(r, cause, cool) \in Row /\ Failed(r, cause, cool).id = r.id
<1> DEFINE c == Charge(r, cause, cool)
           e == [c EXCEPT !.status = "failed"]
           f == [e EXCEPT !.code = cause.code]
<1>1. c \in Row /\ c.id = r.id /\ cause.code \in Codes
  BY ChargeRow, CauseType
<1>2. MayRetry(c, cause.code) \in BOOLEAN
  BY <1>1, MayRetryType
<1>3. Failed(r, cause, cool) = [f EXCEPT !.retryable = MayRetry(c, cause.code)]
  BY DEF Failed
<1> HIDE DEF c
<1>4. e \in Row /\ e.id = r.id
  BY <1>1, StatusRow DEF Statuses
<1> HIDE DEF e
<1>5. f \in Row /\ f.id = r.id
  BY <1>1, <1>4 DEF Row
<1> HIDE DEF f
<1>6. QED
  BY <1>2, <1>3, <1>5 DEF Row

(* The rows of the queue are finitely many, so their ranks are numbers.       *)
LEMMA PendingFinite ==
    ASSUME TypeOK
    PROVE  /\ Pending \subseteq Row /\ IsFiniteSet(Pending)
           /\ Retries \subseteq Row
<1>1. Pending \subseteq Row /\ Retries \subseteq Row
  BY DEF TypeOK, Pending, Retries, InQueue
<1>2. IsFiniteSet(Ids)
  <2>1. MaxIds \in Int
    BY SizesAssumption
  <2>2. QED
    BY <2>1, FS_Interval DEF Ids
<1>3. IsFiniteSet({queue[i] : i \in Ids})
  <2>1. queue \in Surjection(Ids, {queue[i] : i \in Ids})
    BY DEF TypeOK, Surjection
  <2>2. QED
    BY <1>2, <2>1, FS_Surjection
<1>4. Pending \subseteq {queue[i] : i \in Ids}
  BY DEF Pending
<1>5. QED
  BY <1>1, <1>3, <1>4, FS_Subset

LEMMA PositionType ==
    ASSUME NEW rows, IsFiniteSet(rows), NEW r
    PROVE  Position(r, rows) \in Nat /\ Cardinality(rows) \in Nat
BY FS_Subset, FS_CardinalityType DEF Position

LEMMA NumberType ==
    ASSUME NEW r, NEW q, NEW op \in Moves, NEW rows, IsFiniteSet(rows)
    PROVE  Numbered(Cardinality(rows), Place(q, r, rows, op)) \in Int
<1>1. Position(r, rows) \in Nat /\ Position(q, rows) \in Nat /\ Cardinality(rows) \in Nat
  BY PositionType
<1>2. NewIndex(op, Position(r, rows), Cardinality(rows)) \in Int
  BY <1>1 DEF NewIndex, Moves
<1>3. Place(q, r, rows, op) \in Int
  BY <1>1, <1>2 DEF Place
<1>4. QED
  BY <1>1, <1>3 DEF Numbered

LEMMA RenumberedRow ==
    ASSUME NEW r \in Row, NEW q \in Row, NEW op \in Moves, NEW rows, IsFiniteSet(rows)
    PROVE  Renumbered(q, r, rows, op) \in Row /\ Renumbered(q, r, rows, op).id = q.id
BY NumberType, PriorityRow DEF Renumbered

(* A move renumbers rows, it neither adds nor removes any.                    *)
LEMMA MoveKeepsRows ==
    ASSUME TypeOK, NEW i \in Ids, NEW op \in Moves, MoveDownload(i, op)
    PROVE  /\ queue' \in [Ids -> Row \cup {NoRow}]
           /\ \A j \in Ids : (queue'[j] = NoRow <=> queue[j] = NoRow)
                              /\ queue'[j].id = queue[j].id
<1>1. CASE queue[i] \notin Pending
  BY <1>1 DEF MoveDownload, TypeOK
<1>2. CASE queue[i] \in Pending
  <2>1. queue' = [j \in Ids |-> IF queue[j] \in Pending
                               THEN Renumbered(queue[j], queue[i], Pending, op)
                               ELSE queue[j]]
    BY <1>2 DEF MoveDownload
  <2>2. \A j \in Ids : queue[j] \in Pending =>
           /\ Renumbered(queue[j], queue[i], Pending, op) \in Row
           /\ Renumbered(queue[j], queue[i], Pending, op).id = queue[j].id
    <3>1. SUFFICES ASSUME NEW j \in Ids, queue[j] \in Pending
                   PROVE  /\ Renumbered(queue[j], queue[i], Pending, op) \in Row
                          /\ Renumbered(queue[j], queue[i], Pending, op).id = queue[j].id
      OBVIOUS
    <3>2. queue[j] \in Row /\ queue[i] \in Row /\ IsFiniteSet(Pending)
      BY <1>2, <3>1, PendingFinite
    <3>3. QED
      BY <3>2, RenumberedRow
  <2>3. \A j \in Ids : queue[j] \in Pending => queue[j] \in Row
    BY PendingFinite
  <2>4. QED
    BY <2>1, <2>2, <2>3, NoRowAssumption DEF TypeOK
<1>3. QED
  BY <1>1, <1>2

-------------------------------------------------------------------------------
(* Type correctness.  What TypeOK needs besides itself: a worker inside the    *)
(* pipeline has a row; a caller inside Enqueue holds the lock, which is what   *)
(* keeps the next id free for it; a caller about to move or record has what    *)
(* it moves or records.                                                        *)
Held == Working \cup {"release"}
Enqueuing == {"history", "supersede", "insert"}

Shape ==
    /\ \A w \in Workers : wpc[w] \in Held => dl[w] \in Row
    /\ \A c \in Callers : cpc[c] \in Enqueuing => enqueueLock = c /\ ckey[c] \in Keys
    /\ enqueueLock # Nobody => nextId <= MaxIds
    /\ \A c \in Callers : cpc[c] = "priority" => cid[c] \in Ids /\ cop[c] # "none"
    /\ \A c \in Callers : cpc[c] = "mark" => cid[c] \in Ids
    /\ \A c \in Callers : cpc[c] = "record" => csnap[c] \in Row

Typed == TypeOK /\ Shape

(* What the actions leave alone.                                               *)
LEMMA Sizes ==
    /\ MaxIds \in Nat /\ MaxIds > 0 /\ Nobody \notin Workers /\ Nobody \notin Callers
    /\ Ceiling \in Nat /\ Floor \in Nat /\ Floor > 0 /\ Floor <= Ceiling
    /\ Ids = 1 .. MaxIds
BY SizesAssumption DEF Ids

LEMMA InitTyped == Init => Typed
<1> SUFFICES ASSUME Init PROVE Typed
  OBVIOUS
<1>0. nextId \in 1 .. MaxIds + 1 /\ limit \in Floor .. Ceiling /\ cooling \in BOOLEAN
  <2>1. nextId = 1 /\ T!Init
    BY DEF Init
  <2>2. limit = Ceiling /\ cooling \in BOOLEAN
    BY <2>1, Zenon DEF T!Init
  <2>3. QED
    BY <2>1, <2>2, Sizes
<1>1. /\ queue \in [Ids -> Row \cup {NoRow}] /\ history \in [Ids -> Row \cup {NoRow}]
      /\ claimed \in [Ids -> Workers \cup {Nobody}]
      /\ marks \subseteq Ids /\ enqueueLock \in Callers \cup {Nobody}
      /\ paused \in BOOLEAN /\ stopping \in BOOLEAN
  BY DEF Init
<1>2. /\ wpc \in [Workers -> WorkerPositions] /\ seen \in [Workers -> SUBSET Row]
      /\ dl \in [Workers -> Row \cup {NoRow}] /\ dead \in [Workers -> BOOLEAN]
      /\ cpc \in [Callers -> CallerPositions] /\ cid \in [Callers -> Ids \cup {0}]
      /\ ckey \in [Callers -> Keys \cup {Nobody}]
      /\ cop \in [Callers -> {"none", "top", "bottom"}]
      /\ csnap \in [Callers -> Row \cup {NoRow}]
  BY DEF Init, WorkerPositions, CallerPositions
<1>3. Shape
  BY DEF Init, Shape, Working, Held, Enqueuing
<1>4. QED
  BY <1>0, <1>1, <1>2, <1>3 DEF Typed, TypeOK

(* A worker stores its row, changed but with its id, and stays in the pipeline. *)
LEMMA StoreTyped ==
    ASSUME Typed, NEW w \in Workers, NEW row \in Row, NEW at \in Held,
           Store(w, row, at), marks' \subseteq marks, UNCHANGED throttle
    PROVE  Typed'
<1>1. /\ queue' \in [Ids -> Row \cup {NoRow}] /\ dl' \in [Workers -> Row \cup {NoRow}]
      /\ wpc' \in [Workers -> WorkerPositions] /\ marks' \subseteq Ids
  BY DEF Typed, TypeOK, Store, Put, Goto, Held, WorkerPositions
<1>2. \A v \in Workers : wpc'[v] \in Held => dl'[v] \in Row
  BY DEF Typed, TypeOK, Shape, Store, Goto
<1>3. QED
  BY <1>1, <1>2 DEF Typed, TypeOK, Shape, Store, throttle, flags, caller

(* A worker moves on with its row untouched, or takes one from its list.        *)
LEMMA WorkerMoveTyped ==
    ASSUME Typed, NEW w \in Workers, UNCHANGED <<nextId, enqueueLock, flags, caller>>,
           queue' \in [Ids -> Row \cup {NoRow}], history' \in [Ids -> Row \cup {NoRow}],
           claimed' \in [Ids -> Workers \cup {Nobody}], marks' \subseteq marks,
           limit' \in Floor .. Ceiling, cooling' \in BOOLEAN,
           wpc' \in [Workers -> WorkerPositions],
           seen' \in [Workers -> SUBSET Row], dl' \in [Workers -> Row \cup {NoRow}],
           dead' \in [Workers -> BOOLEAN],
           \A v \in Workers : wpc'[v] \in Held => dl'[v] \in Row
    PROVE  Typed'
BY DEF Typed, TypeOK, Shape, flags, caller

LEMMA CanFailWorking ==
    ASSUME NEW w, NEW cause, CanFail(w, cause)
    PROVE  wpc[w] \in Working
BY DEF CanFail, Working

(* The throttle's own steps keep its cap in range.                             *)
LEMMA TripTyped ==
    ASSUME TypeOK, T!Trip
    PROVE  limit' \in Floor .. Ceiling /\ cooling' \in BOOLEAN
<1>1. limit \in Floor .. Ceiling /\ limit' = T!AtLeastFloor(limit \div 2)
  BY DEF TypeOK, T!Trip
<1>2. limit' \in Floor .. Ceiling
  BY <1>1, Sizes DEF T!AtLeastFloor
<1>3. cooling' = TRUE
  BY DEF T!Trip
<1>4. QED
  BY <1>2, <1>3

(* The actions of one worker.                                                  *)
LEMMA WorkerTyped ==
    ASSUME Typed, NEW w \in Workers, WorkerStep(w) \/ Progress(w) \/ Panic(w)
    PROVE  Typed'
<1> USE DEF Held
<1>0. /\ TypeOK /\ (wpc[w] \in Held => dl[w] \in Row)
      /\ \A v \in Workers : wpc[v] \in Held => dl[v] \in Row
  BY DEF Typed, Shape
<1>1. CASE Admit(w)
  BY <1>0, <1>1, WorkerMoveTyped
     DEF Admit, Goto, TypeOK, WorkerPositions, Working, store, locks, flags, throttle, caller
<1>2. ASSUME NEW due \in SUBSET Retries, ListDue(w, due) PROVE Typed'
  <2>1. Pending \cup due \in SUBSET Row
    BY <1>0, PendingFinite
  <2>2. seen' \in [Workers -> SUBSET Row]
    BY <1>0, <1>2, <2>1 DEF ListDue, TypeOK
  <2>3. QED
    BY <1>0, <1>2, <2>2, WorkerMoveTyped
       DEF ListDue, Goto, TypeOK, WorkerPositions, Working, store, locks, flags, throttle, caller
<1>3. CASE Skip(w)
  <2>1. seen' \in [Workers -> SUBSET Row]
    BY <1>0, <1>3 DEF Skip, TypeOK
  <2>2. QED
    BY <1>0, <1>3, <2>1, WorkerMoveTyped
       DEF Skip, Goto, TypeOK, WorkerPositions, Working, store, locks, flags, throttle, caller
<1>4. CASE Take(w)
  <2>1. PICK r \in seen[w] : /\ dl' = [dl EXCEPT ![w] = r]
                            /\ claimed' = [claimed EXCEPT ![r.id] = w]
    BY <1>4 DEF Take
  <2>2. r \in Row
    BY <1>0, <2>1 DEF TypeOK
  <2>3. /\ dl' \in [Workers -> Row \cup {NoRow}]
        /\ claimed' \in [Ids -> Workers \cup {Nobody}]
        /\ seen' \in [Workers -> SUBSET Row]
        /\ \A v \in Workers : wpc'[v] \in Held => dl'[v] \in Row
    BY <1>0, <1>4, <2>1, <2>2 DEF Take, Goto, TypeOK
  <2>4. QED
    BY <1>0, <1>4, <2>3, WorkerMoveTyped
       DEF Take, Goto, TypeOK, WorkerPositions, Working, store, locks, flags, throttle, caller
<1>5. CASE Begin(w)
  BY <1>0, <1>5, StatusRow, StoreTyped DEF Begin, Statuses, Working
<1>6. CASE Resolved(w)
  BY <1>0, <1>6, StoreTyped DEF Resolved, Working
<1>7. CASE Selected(w)
  BY <1>0, <1>7, StatusRow, StoreTyped DEF Selected, Statuses, Working
<1>8. CASE Progress(w)
  BY <1>0, <1>8, StoreTyped DEF Progress, Working
<1>9. CASE Fetched(w)
  BY <1>0, <1>9, WorkerMoveTyped
     DEF Fetched, Goto, TypeOK, WorkerPositions, Working, store, locks, flags, throttle, caller
<1>10. CASE Stalled(w)
  <2>1. limit' \in Floor .. Ceiling /\ cooling' \in BOOLEAN
    BY <1>0, <1>10, TripTyped DEF Stalled, TypeOK, throttle
  <2>2. QED
    BY <1>0, <1>10, <2>1, WorkerMoveTyped
       DEF Stalled, Goto, TypeOK, WorkerPositions, Working, store, locks, flags, caller
<1>11. ASSUME NEW cause \in Causes, Fail(w, cause) PROVE Typed'
  <2> DEFINE row == Failed(dl[w], cause, cooling)
  <2>1. row \in Row
    BY <1>0, <1>11, CanFailWorking, FailedRow DEF Fail, TypeOK
  <2>2. Store(w, row, AfterFail(row)) /\ UNCHANGED <<marks, throttle>>
    BY <1>11 DEF Fail, throttle
  <2>3. AfterFail(row) \in Held
    BY DEF AfterFail, Working
  <2> HIDE DEF row
  <2>4. QED
    BY <2>1, <2>2, <2>3, StoreTyped
<1>12. CASE GiveUp(w)
  BY <1>0, <1>12, StoreTyped DEF GiveUp, Working
<1>13. CASE Stop(w)
  <2>1. CASE dl[w].id \in marks
    <3>1. /\ marks' = marks \ {dl[w].id} /\ Goto(w, "release")
          /\ UNCHANGED <<store, claimed, enqueueLock, flags, seen, dl, dead, caller>>
          /\ UNCHANGED throttle /\ wpc[w] \in Held
      BY <1>13, <2>1 DEF Stop, Working
    <3>2. /\ wpc' \in [Workers -> WorkerPositions] /\ marks' \subseteq marks
          /\ \A v \in Workers : wpc'[v] \in Held => dl'[v] \in Row
      BY <1>0, <3>1 DEF Goto, TypeOK, WorkerPositions
    <3>3. UNCHANGED <<queue, history, nextId, claimed, enqueueLock, flags, limit, cooling,
                      seen, dl, dead, caller>>
      BY <3>1 DEF store, throttle
    <3>4. QED
      BY <1>0, <3>2, <3>3, WorkerMoveTyped DEF TypeOK
  <2>2. CASE dl[w].id \notin marks
    BY <1>0, <1>13, <2>2, StatusRow, StoreTyped DEF Stop, Statuses, Working
  <2>3. QED
    BY <2>1, <2>2
<1>14. CASE Complete(w)
  BY <1>0, <1>14, CompletedRow, StoreTyped DEF Complete, Working
<1>15. CASE Archive(w)
  <2>1. /\ queue' \in [Ids -> Row \cup {NoRow}]
        /\ history' \in [Ids -> Row \cup {NoRow}]
    BY <1>0, <1>15 DEF Archive, TypeOK, Row, Working
  <2>2. QED
    BY <1>0, <1>15, <2>1, WorkerMoveTyped
       DEF Archive, Goto, TypeOK, WorkerPositions, Working, locks, flags, throttle, caller
<1>16. CASE Freed(w)
  <2>1. claimed' \in [Ids -> Workers \cup {Nobody}]
    BY <1>0, <1>16 DEF Freed, TypeOK
  <2>2. QED
    BY <1>0, <1>16, <2>1, WorkerMoveTyped
       DEF Freed, Goto, TypeOK, WorkerPositions, Working, store, flags, throttle, caller
<1>17. QED
  BY <1>1, <1>2, <1>3, <1>4, <1>5, <1>6, <1>7, <1>8, <1>9, <1>10, <1>11, <1>12, <1>13,
     <1>14, <1>15, <1>16 DEF WorkerStep, List, Release, Panic

(* The caller's program counter and arguments after a step.                    *)
CallerTypes ==
    /\ cpc \in [Callers -> CallerPositions]
    /\ cid \in [Callers -> Ids \cup {0}]
    /\ ckey \in [Callers -> Keys \cup {Nobody}]
    /\ cop \in [Callers -> {"none", "top", "bottom"}]
    /\ csnap \in [Callers -> Row \cup {NoRow}]

LEMMA CNextTyped ==
    ASSUME CallerTypes, NEW c \in Callers, NEW at \in CallerPositions,
           NEW i \in Ids \cup {0}, CNext(c, at, i)
    PROVE  /\ CallerTypes'
           /\ cpc'[c] = at
           /\ at # "idle" => /\ cid'[c] = i /\ cop'[c] = cop[c]
                             /\ ckey'[c] = ckey[c] /\ csnap'[c] = csnap[c]
           /\ \A b \in Callers \ {c} :
                 /\ cpc'[b] = cpc[b] /\ cid'[b] = cid[b] /\ cop'[b] = cop[b]
                 /\ ckey'[b] = ckey[b] /\ csnap'[b] = csnap[b]
BY DEF CallerTypes, CNext, CGoto

LEMMA CallerStepTyped ==
    ASSUME Typed, NEW c \in Callers,
           UNCHANGED <<claimed, flags, throttle, wpc, seen, dl>>,
           queue' \in [Ids -> Row \cup {NoRow}], history' \in [Ids -> Row \cup {NoRow}],
           nextId' \in 1 .. MaxIds + 1, marks' \subseteq Ids,
           enqueueLock' \in Callers \cup {Nobody}, dead' \in [Workers -> BOOLEAN],
           CallerTypes',
           enqueueLock' # Nobody => nextId' <= MaxIds,
           \A b \in Callers :
               /\ cpc'[b] \in Enqueuing => enqueueLock' = b /\ ckey'[b] \in Keys
               /\ cpc'[b] = "priority" => cid'[b] \in Ids /\ cop'[b] # "none"
               /\ cpc'[b] = "mark" => cid'[b] \in Ids
               /\ cpc'[b] = "record" => csnap'[b] \in Row
    PROVE  Typed'
BY DEF Typed, TypeOK, Shape, CallerTypes, flags, throttle

LEMMA CNextStepTyped ==
    ASSUME Typed, NEW c \in Callers, NEW at \in CallerPositions \ {"insert", "mark", "history"},
           NEW i \in Ids \cup {0}, CNext(c, at, i),
           UNCHANGED <<claimed, marks, flags, throttle, worker>>,
           queue' \in [Ids -> Row \cup {NoRow}], history' \in [Ids -> Row \cup {NoRow}],
           nextId' \in 1 .. MaxIds + 1,
           \/ enqueueLock' = enqueueLock /\ nextId' = nextId
           \/ cpc[c] \in Enqueuing /\ enqueueLock' = Nobody,
           at = "supersede" => cpc[c] \in Enqueuing /\ enqueueLock' = enqueueLock,
           at = "priority" => i \in Ids /\ cop[c] # "none",
           at = "record" => csnap[c] \in Row
    PROVE  Typed'
<1> DEFINE Fits(b) == /\ cpc'[b] \in Enqueuing => enqueueLock' = b /\ ckey'[b] \in Keys
                      /\ cpc'[b] = "priority" => cid'[b] \in Ids /\ cop'[b] # "none"
                      /\ cpc'[b] = "mark" => cid'[b] \in Ids
                      /\ cpc'[b] = "record" => csnap'[b] \in Row
<1>0. TypeOK /\ Shape /\ CallerTypes
  BY DEF Typed, TypeOK, CallerTypes
<1>1. CallerTypes'
  BY <1>0, CNextTyped
<1>2. Fits(c)
  <2>1. /\ cpc'[c] = at
        /\ at # "idle" => /\ cid'[c] = i /\ cop'[c] = cop[c]
                          /\ ckey'[c] = ckey[c] /\ csnap'[c] = csnap[c]
    BY <1>0, CNextTyped
  <2>2. cpc[c] \in Enqueuing => enqueueLock = c /\ ckey[c] \in Keys
    BY <1>0 DEF Shape
  <2>3. QED
    BY <2>1, <2>2 DEF Enqueuing
<1>3. ASSUME NEW b \in Callers \ {c} PROVE Fits(b)
  <2>1. /\ cpc'[b] = cpc[b] /\ cid'[b] = cid[b] /\ cop'[b] = cop[b]
        /\ ckey'[b] = ckey[b] /\ csnap'[b] = csnap[b]
    BY <1>0, CNextTyped
  <2>2. /\ cpc[b] \in Enqueuing => enqueueLock = b /\ ckey[b] \in Keys
        /\ cpc[c] \in Enqueuing => enqueueLock = c
        /\ cpc[b] = "priority" => cid[b] \in Ids /\ cop[b] # "none"
        /\ cpc[b] = "mark" => cid[b] \in Ids
        /\ cpc[b] = "record" => csnap[b] \in Row
    BY <1>0 DEF Shape
  <2>3. QED
    BY <2>1, <2>2
<1>4. /\ enqueueLock' \in Callers \cup {Nobody} /\ dead' \in [Workers -> BOOLEAN]
      /\ enqueueLock' # Nobody => nextId' <= MaxIds
      /\ UNCHANGED <<claimed, flags, throttle, wpc, seen, dl>> /\ marks' \subseteq Ids
  BY <1>0 DEF Shape, TypeOK, worker
<1>5. \A b \in Callers : Fits(b)
  BY <1>2, <1>3
<1> HIDE DEF Fits
<1>6. QED
  BY <1>1, <1>4, <1>5, CallerStepTyped DEF Fits

LEMMA CallerTyped ==
    ASSUME Typed, NEW c \in Callers,
           \/ CallerStep(c)
           \/ \E k \in Keys, op \in {"none", "top", "bottom"} : FindDownload(c, k, op)
           \/ \E i \in Ids : SabSnapshot(c, i) \/ Mark(c, i)
    PROVE  Typed'
<1> USE DEF Enqueuing
<1>0. TypeOK /\ Shape /\ CallerTypes
  BY DEF Typed, TypeOK, CallerTypes
<1>1. ASSUME NEW k \in Keys, NEW op \in {"none", "top", "bottom"}, FindDownload(c, k, op)
      PROVE  Typed'
  <2>1. CallerTypes'
    BY <1>0, <1>1 DEF FindDownload, CallerTypes, CGoto, CallerPositions, Matches
  <2>2. ASSUME NEW b \in Callers
        PROVE  /\ cpc'[b] \in Enqueuing => enqueueLock' = b /\ ckey'[b] \in Keys
               /\ cpc'[b] = "priority" => cid'[b] \in Ids /\ cop'[b] # "none"
               /\ cpc'[b] = "mark" => cid'[b] \in Ids
               /\ cpc'[b] = "record" => csnap'[b] \in Row
    <3>1. CASE b = c
      BY <1>0, <1>1, <3>1 DEF FindDownload, CallerTypes, CGoto, Matches
    <3>2. CASE b # c
      BY <1>0, <1>1, <3>2, Sizes DEF FindDownload, CallerTypes, CGoto, LockFree, Matches, Shape
    <3>3. QED
      BY <3>1, <3>2
  <2>3. /\ enqueueLock' \in Callers \cup {Nobody}
        /\ enqueueLock' # Nobody => nextId' <= MaxIds
    BY <1>0, <1>1 DEF FindDownload, Shape, TypeOK, store
  <2>4. QED
    BY <1>0, <1>1, <2>1, <2>2, <2>3, CallerStepTyped
       DEF FindDownload, TypeOK, store, worker
<1>2. CASE FindHistory(c)
  <2>1. CASE /\ CGoto(c, "insert") /\ UNCHANGED <<enqueueLock, cid, ckey, cop, csnap>>
             /\ cpc[c] = "history"
             /\ UNCHANGED <<store, claimed, marks, flags, throttle, worker>>
    <3>1. CallerTypes'
      BY <1>0, <2>1 DEF CallerTypes, CGoto, CallerPositions
    <3>2. QED
      BY <1>0, <2>1, <3>1, CallerStepTyped DEF CGoto, CallerTypes, Shape, TypeOK, store, worker
  <2>2. ASSUME NEW i \in Ids, CNext(c, "supersede", i), UNCHANGED enqueueLock,
               cpc[c] = "history",
               UNCHANGED <<store, claimed, marks, flags, throttle, worker>>
        PROVE  Typed'
    <3>1. "supersede" \in CallerPositions
      BY DEF CallerPositions
    <3>2. QED
      BY <1>0, <2>2, <3>1, CNextStepTyped DEF TypeOK, store
  <2>3. ASSUME NEW i \in Ids, CNext(c, AfterEnqueue(c), i), enqueueLock' = Nobody,
               cpc[c] = "history",
               UNCHANGED <<store, claimed, marks, flags, throttle, worker>>
        PROVE  Typed'
    <3>1. /\ AfterEnqueue(c) \in {"idle", "priority"}
          /\ AfterEnqueue(c) = "priority" => cop[c] # "none"
          /\ AfterEnqueue(c) \in CallerPositions
      BY DEF CallerPositions, AfterEnqueue
    <3>2. QED
      BY <1>0, <2>3, <3>1, CNextStepTyped DEF TypeOK, store
  <2>4. QED
    BY <1>2, <2>1, <2>2, <2>3 DEF FindHistory, Found, Matches
<1>3. CASE Supersede(c)
  <2>1. CallerTypes' /\ history' \in [Ids -> Row \cup {NoRow}]
    BY <1>0, <1>3 DEF Supersede, CallerTypes, CGoto, CallerPositions, TypeOK
  <2>2. QED
    BY <1>0, <1>3, <2>1, CallerStepTyped
       DEF Supersede, CGoto, CallerTypes, Shape, TypeOK, locks, worker
<1>4. CASE Insert(c)
  <2>1. /\ nextId \in Ids /\ ckey[c] \in Keys /\ enqueueLock = c
        /\ nextId + 1 \in 1 .. MaxIds + 1
    BY <1>0, <1>4, Sizes DEF Insert, Shape, TypeOK
  <2>2. /\ AfterEnqueue(c) \in {"idle", "priority"}
        /\ AfterEnqueue(c) = "priority" => cop[c] # "none"
        /\ AfterEnqueue(c) \in CallerPositions
    BY DEF CallerPositions, AfterEnqueue
  <2>3. queue' \in [Ids -> Row \cup {NoRow}]
    BY <1>0, <1>4, <2>1, FreshRowType DEF Insert, Put, TypeOK
  <2>4. QED
    BY <1>0, <1>4, <2>1, <2>2, <2>3, CNextStepTyped DEF Insert, TypeOK
<1>5. CASE ApplyPriority(c)
  <2>1. queue' \in [Ids -> Row \cup {NoRow}]
    BY <1>0, <1>5, MoveKeepsRows DEF ApplyPriority, Shape, TypeOK, Moves
  <2>2. "idle" \in CallerPositions
    BY DEF CallerPositions
  <2>3. QED
    BY <1>0, <1>5, <2>1, <2>2, CNextStepTyped DEF ApplyPriority, TypeOK, locks
<1>6. ASSUME NEW i \in Ids, SabSnapshot(c, i) PROVE Typed'
  <2>1. CallerTypes'
    BY <1>0, <1>6 DEF SabSnapshot, CallerTypes, CGoto, CallerPositions, TypeOK
  <2>2. QED
    BY <1>0, <1>6, <2>1, CallerStepTyped
       DEF SabSnapshot, CGoto, CallerTypes, Shape, TypeOK, store, locks, worker
<1>7. ASSUME NEW i \in Ids, Mark(c, i) PROVE Typed'
  <2>1. CallerTypes' /\ marks' \subseteq Ids
    BY <1>0, <1>7 DEF Mark, CallerTypes, CGoto, CallerPositions, TypeOK
  <2>2. QED
    BY <1>0, <1>7, <2>1, CallerStepTyped
       DEF Mark, CGoto, CallerTypes, Shape, TypeOK, store, worker
<1>8. CASE Signal(c)
  <2>1. dead' \in [Workers -> BOOLEAN] /\ CallerTypes'
    BY <1>0, <1>8 DEF Signal, CallerTypes, CGoto, CallerPositions, TypeOK
  <2>2. QED
    BY <1>0, <1>8, <2>1, CallerStepTyped
       DEF Signal, CGoto, CallerTypes, Shape, TypeOK, store, locks
<1>9. CASE WaitOver(c)
  <2>1. CallerTypes'
    BY <1>0, <1>9 DEF WaitOver, CallerTypes, CGoto, CallerPositions
  <2>2. QED
    BY <1>0, <1>9, <2>1, CallerStepTyped
       DEF WaitOver, CGoto, CallerTypes, Shape, TypeOK, store, locks, worker
<1>10. CASE Clear(c)
  <2>1. CallerTypes'
    BY <1>0, <1>10 DEF Clear, CallerTypes, CGoto, CallerPositions
  <2>2. QED
    BY <1>0, <1>10, <2>1, CallerStepTyped
       DEF Clear, CGoto, CallerTypes, Shape, TypeOK, store, worker
<1>11. CASE Delete(c)
  <2> DEFINE at == IF csnap[c] = NoRow THEN "idle" ELSE "record"
  <2>1. at \in CallerPositions /\ at \in {"idle", "record"} /\ (at = "record" => csnap[c] \in Row)
    BY <1>0 DEF CallerPositions, CallerTypes
  <2>2. queue' \in [Ids -> Row \cup {NoRow}] /\ cid[c] \in Ids \cup {0} /\ CNext(c, at, cid[c])
    BY <1>0, <1>11 DEF Delete, TypeOK
  <2> HIDE DEF at
  <2>3. QED
    BY <1>0, <1>11, <2>1, <2>2, CNextStepTyped DEF Delete, TypeOK, locks
<1>12. CASE Record(c)
  <2>1. history' \in [Ids -> Row \cup {NoRow}]
    BY <1>0, <1>12, StatusRow DEF Record, Shape, TypeOK, Statuses
  <2>2. "idle" \in CallerPositions
    BY DEF CallerPositions
  <2>3. QED
    BY <1>0, <1>12, <2>1, <2>2, CNextStepTyped DEF Record, TypeOK, locks
<1>13. QED
  BY <1>0, <1>1, <1>2, <1>3, <1>4, <1>5, <1>6, <1>7, <1>8, <1>9, <1>10, <1>11, <1>12
     DEF CallerStep, Shape

(* Requests of one step, the throttle, shutdown and restart.                   *)
LEMMA OtherTyped ==
    ASSUME Typed,
           \/ \E i \in Ids : DeleteHistory(i) \/ \E op \in Moves : Move(i, op)
           \/ ClearHistory \/ Pause \/ Resume \/ CooldownOver \/ StepUp
           \/ Shutdown \/ Restart \/ UNCHANGED vars
    PROVE  Typed'
<1> USE DEF store, locks, flags, throttle, worker, caller
<1>1. ASSUME NEW i \in Ids, DeleteHistory(i) PROVE Typed'
  BY <1>1 DEF DeleteHistory, Typed, TypeOK, Shape
<1>2. ASSUME NEW i \in Ids, NEW op \in Moves, Move(i, op) PROVE Typed'
  <2>1. queue' \in [Ids -> Row \cup {NoRow}]
    BY <1>2, MoveKeepsRows DEF Move, Typed
  <2>2. QED
    BY <1>2, <2>1 DEF Move, Typed, TypeOK, Shape
<1>3. CASE ClearHistory
  BY <1>3 DEF ClearHistory, Typed, TypeOK, Shape
<1>4. CASE Pause
  BY <1>4 DEF Pause, Typed, TypeOK, Shape
<1>5. CASE Resume
  <2>1. limit' \in Floor .. Ceiling /\ cooling' \in BOOLEAN /\ paused' \in BOOLEAN
    <3>1. limit' = Ceiling /\ cooling' \in BOOLEAN /\ paused' \in BOOLEAN
      BY <1>5, Zenon DEF Resume, T!Clear
    <3>2. QED
      BY <3>1, Sizes
  <2>2. QED
    BY <1>5, <2>1 DEF Resume, Typed, TypeOK, Shape
<1>6. CASE CooldownOver
  <2>1. limit' \in Floor .. Ceiling /\ cooling' \in BOOLEAN
    <3>1. limit' = limit /\ cooling' = FALSE
      BY <1>6, Zenon DEF CooldownOver, T!Expire
    <3>2. QED
      BY <3>1 DEF Typed, TypeOK
  <2>2. QED
    BY <1>6, <2>1 DEF CooldownOver, Typed, TypeOK, Shape
<1>7. CASE StepUp
  <2>1. limit' \in Floor .. Ceiling /\ cooling' \in BOOLEAN
    <3>1. limit' = limit + 1 /\ limit < Ceiling /\ cooling' = cooling
      BY <1>7 DEF StepUp, T!Recover
    <3>2. QED
      BY <3>1, Sizes DEF Typed, TypeOK
  <2>2. QED
    BY <1>7, <2>1 DEF StepUp, Typed, TypeOK, Shape
<1>8. CASE Shutdown
  BY <1>8 DEF Shutdown, Typed, TypeOK, Shape
<1>9. CASE Restart
  <2>0. Booted /\ UNCHANGED store
    BY <1>9 DEF Restart
  <2>1. limit' \in Floor .. Ceiling /\ cooling' \in BOOLEAN
    <3>1. limit' = Ceiling /\ cooling' \in BOOLEAN
      BY <2>0, Zenon DEF Booted
    <3>2. QED
      BY <3>1, Sizes
  <2>2. /\ claimed' \in [Ids -> Workers \cup {Nobody}] /\ marks' \subseteq Ids
        /\ enqueueLock' \in Callers \cup {Nobody} /\ enqueueLock' = Nobody
        /\ paused' \in BOOLEAN /\ stopping' \in BOOLEAN
    BY <2>0 DEF Booted
  <2>3. /\ wpc' \in [Workers -> WorkerPositions] /\ seen' \in [Workers -> SUBSET Row]
        /\ dl' \in [Workers -> Row \cup {NoRow}] /\ dead' \in [Workers -> BOOLEAN]
        /\ \A w \in Workers : wpc'[w] = "idle"
    BY <2>0 DEF Booted, WorkerPositions
  <2>4. CallerTypes' /\ \A c \in Callers : cpc'[c] = "idle"
    BY <2>0 DEF Booted, CallerTypes, CallerPositions
  <2>5. QED
    BY <2>0, <2>1, <2>2, <2>3, <2>4
       DEF Typed, TypeOK, Shape, CallerTypes, Held, Working, Enqueuing
<1>10. CASE UNCHANGED vars
  BY <1>10 DEF vars, Typed, TypeOK, Shape
<1>11. QED
  BY <1>1, <1>2, <1>3, <1>4, <1>5, <1>6, <1>7, <1>8, <1>9, <1>10

LEMMA NextTyped == Typed /\ [Next]_vars => Typed'
BY WorkerTyped, CallerTyped, OtherTyped DEF Next

THEOREM TypedAlways == Spec => []Typed
BY InitTyped, NextTyped, PTL DEF Spec

(* Whatever the workers, callers and faults do, every row in a bucket and in  *)
(* a worker's or a caller's hand is a whole row: what Enqueue, failDownload   *)
(* and MoveDownload write is never out of its type.                           *)
THEOREM TypeCorrect == Spec => []TypeOK
<1>1. Typed => TypeOK
  BY DEF Typed
<1>2. QED
  BY <1>1, TypedAlways, PTL

-------------------------------------------------------------------------------
(* Exclusion.  Only Take enters the claimed window of a row and only Freed     *)
(* leaves it; everything else keeps who holds which row.                       *)
SameHolders ==
    \A v \in Workers : /\ wpc'[v] \in Held <=> wpc[v] \in Held
                       /\ wpc[v] \in Held => dl'[v].id = dl[v].id

LEMMA SameHoldersExclusive ==
    ASSUME ClaimExclusive, SameHolders, claimed' = claimed
    PROVE  ClaimExclusive'
BY DEF ClaimExclusive, Holds, SameHolders, Held

LEMMA StoreSameHolders ==
    ASSUME Typed, NEW w \in Workers, wpc[w] \in Held, NEW row, row.id = dl[w].id,
           NEW at \in Held, Store(w, row, at)
    PROVE  SameHolders /\ claimed' = claimed
BY DEF Typed, TypeOK, Store, Goto, SameHolders

LEMMA GotoSameHolders ==
    ASSUME Typed, NEW w \in Workers, NEW at, Goto(w, at), at \in Held <=> wpc[w] \in Held,
           dl' = dl
    PROVE  SameHolders
BY DEF Typed, TypeOK, Goto, SameHolders

LEMMA TakeExclusive ==
    ASSUME Typed, ClaimExclusive, NEW w \in Workers, Take(w)
    PROVE  ClaimExclusive'
<1>1. PICK r \in seen[w] : /\ Free(r.id) /\ dl' = [dl EXCEPT ![w] = r]
                          /\ claimed' = [claimed EXCEPT ![r.id] = w]
  BY DEF Take
<1>2. wpc[w] = "scan" /\ wpc' = [wpc EXCEPT ![w] = "begin"] /\ claimed[r.id] = Nobody
  BY <1>1 DEF Take, Goto, Free
<1>3. SUFFICES ASSUME NEW i \in Ids, NEW v \in Workers
               PROVE  claimed'[i] = v <=> wpc'[v] \in Held /\ dl'[v].id = i
  BY DEF ClaimExclusive, Holds, Held
<1>4. claimed[i] = v <=> wpc[v] \in Held /\ dl[v].id = i
  BY DEF ClaimExclusive, Holds, Held
<1>5. CASE v = w
  <2>1. wpc[w] \notin Held /\ wpc'[w] \in Held /\ dl'[w] = r
    BY <1>1, <1>2 DEF Held, Working, Typed, TypeOK
  <2>2. claimed'[i] = w <=> i = r.id
    BY <1>1, <1>4, <1>5, <2>1 DEF Typed, TypeOK
  <2>3. QED
    BY <1>5, <2>1, <2>2
<1>6. CASE v # w
  <2>1. wpc'[v] = wpc[v] /\ dl'[v] = dl[v]
    BY <1>1, <1>2, <1>6 DEF Typed, TypeOK
  <2>2. claimed'[i] = v <=> claimed[i] = v
    BY <1>1, <1>2, <1>6, Sizes DEF Typed, TypeOK
  <2>3. QED
    BY <1>4, <2>1, <2>2
<1>7. QED
  BY <1>5, <1>6

LEMMA FreedExclusive ==
    ASSUME Typed, ClaimExclusive, NEW w \in Workers, wpc[w] \in Held, Freed(w)
    PROVE  ClaimExclusive'
<1>1. /\ claimed' = [claimed EXCEPT ![dl[w].id] = Nobody]
      /\ wpc' = [wpc EXCEPT ![w] = "idle"] /\ dl' = [dl EXCEPT ![w] = NoRow]
  BY DEF Freed, Goto
<1>2. SUFFICES ASSUME NEW i \in Ids, NEW v \in Workers
               PROVE  claimed'[i] = v <=> wpc'[v] \in Held /\ dl'[v].id = i
  BY DEF ClaimExclusive, Holds, Held
<1>3. /\ claimed[i] = v <=> wpc[v] \in Held /\ dl[v].id = i
      /\ claimed[i] = w <=> dl[w].id = i
  BY DEF ClaimExclusive, Holds, Held
<1>4. CASE v = w
  <2>1. wpc'[w] \notin Held
    BY <1>1 DEF Held, Working, Typed, TypeOK
  <2>2. claimed'[i] # w
    BY <1>1, <1>3, Sizes DEF Typed, TypeOK
  <2>3. QED
    BY <1>4, <2>1, <2>2
<1>5. CASE v # w
  <2>1. wpc'[v] = wpc[v] /\ dl'[v] = dl[v]
    BY <1>1, <1>5 DEF Typed, TypeOK
  <2>2. claimed'[i] = v <=> claimed[i] = v
    BY <1>1, <1>3, <1>5, Sizes DEF Typed, TypeOK
  <2>3. QED
    BY <1>3, <2>1, <2>2
<1>6. QED
  BY <1>4, <1>5

LEMMA WorkerExclusive ==
    ASSUME Typed, ClaimExclusive, NEW w \in Workers,
           WorkerStep(w) \/ Progress(w) \/ Panic(w)
    PROVE  ClaimExclusive'
<1> USE DEF Held
<1>0. TypeOK /\ (wpc[w] \in Held => dl[w] \in Row)
  BY DEF Typed, Shape
<1>1. CASE Admit(w) \/ List(w) \/ Skip(w) \/ Fetched(w) \/ Stalled(w) \/ Archive(w)
  <2>1. /\ claimed' = claimed /\ dl' = dl
        /\ \E at \in WorkerPositions : Goto(w, at) /\ (at \in Held <=> wpc[w] \in Held)
    BY <1>1 DEF Admit, List, ListDue, Skip, Fetched, Stalled, Archive, Working,
       WorkerPositions, locks
  <2>2. QED
    BY <2>1, GotoSameHolders, SameHoldersExclusive
<1>2. CASE Take(w)
  BY <1>2, TakeExclusive
<1>3. ASSUME NEW row, NEW at \in Held, wpc[w] \in Held, row.id = dl[w].id, Store(w, row, at)
      PROVE  ClaimExclusive'
  BY <1>3, StoreSameHolders, SameHoldersExclusive
<1>4. CASE Begin(w)
  BY <1>0, <1>3, <1>4, StatusRow DEF Begin, Statuses, Working
<1>5. CASE Resolved(w) \/ Progress(w) \/ GiveUp(w)
  BY <1>3, <1>5 DEF Resolved, Progress, GiveUp, Working
<1>6. CASE Selected(w)
  BY <1>0, <1>3, <1>6, StatusRow DEF Selected, Statuses, Working
<1>7. ASSUME NEW cause \in Causes, Fail(w, cause) PROVE ClaimExclusive'
  <2> DEFINE row == Failed(dl[w], cause, cooling)
  <2>1. row.id = dl[w].id /\ wpc[w] \in Held
    BY <1>0, <1>7, CanFailWorking, FailedRow DEF Fail, TypeOK
  <2>2. Store(w, row, AfterFail(row))
    BY <1>7 DEF Fail
  <2>3. AfterFail(row) \in Held
    BY DEF AfterFail, Working
  <2> HIDE DEF row
  <2>4. QED
    BY <1>3, <2>1, <2>2, <2>3
<1>8. CASE Stop(w)
  <2>1. CASE dl[w].id \in marks
    <3>1. Goto(w, "release") /\ dl' = dl /\ claimed' = claimed /\ wpc[w] \in Held
      BY <1>8, <2>1 DEF Stop, Working
    <3>2. QED
      BY <3>1, GotoSameHolders, SameHoldersExclusive
  <2>2. CASE dl[w].id \notin marks
    BY <1>0, <1>3, <1>8, <2>2, StatusRow DEF Stop, Statuses, Working
  <2>3. QED
    BY <2>1, <2>2
<1>9. CASE Complete(w)
  BY <1>0, <1>3, <1>9, CompletedRow DEF Complete, Working
<1>10. CASE Release(w) \/ Panic(w)
  BY <1>10, FreedExclusive DEF Release, Panic
<1>11. QED
  BY <1>1, <1>2, <1>4, <1>5, <1>6, <1>7, <1>8, <1>9, <1>10 DEF WorkerStep

LEMMA RestartExclusive ==
    ASSUME Booted
    PROVE  ClaimExclusive'
BY Sizes DEF Booted, ClaimExclusive, Holds, Working

LEMMA OthersExclusive ==
    ASSUME Typed, ClaimExclusive, UNCHANGED <<claimed, wpc, dl>>
    PROVE  ClaimExclusive'
BY DEF ClaimExclusive, Holds

LEMMA CallersKeepClaims ==
    ASSUME NEW c \in Callers,
           \/ CallerStep(c)
           \/ \E k \in Keys, op \in {"none", "top", "bottom"} : FindDownload(c, k, op)
           \/ \E i \in Ids : SabSnapshot(c, i) \/ Mark(c, i)
    PROVE  UNCHANGED <<claimed, wpc, dl>>
BY DEF CallerStep, FindHistory, Supersede, Insert, ApplyPriority, Mark, Signal, WaitOver,
   Clear, Delete, Record, FindDownload, SabSnapshot, locks, worker

LEMMA NextExclusive == Typed /\ ClaimExclusive /\ [Next]_vars => ClaimExclusive'
<1> SUFFICES ASSUME Typed, ClaimExclusive, [Next]_vars PROVE ClaimExclusive'
  OBVIOUS
<1>1. ASSUME NEW w \in Workers, WorkerStep(w) \/ Progress(w) \/ Panic(w)
      PROVE  ClaimExclusive'
  BY <1>1, WorkerExclusive
<1>2. ASSUME NEW c \in Callers,
             \/ CallerStep(c)
             \/ \E k \in Keys, op \in {"none", "top", "bottom"} : FindDownload(c, k, op)
             \/ \E i \in Ids : SabSnapshot(c, i) \/ Mark(c, i)
      PROVE  ClaimExclusive'
  BY <1>2, CallersKeepClaims, OthersExclusive
<1>3. CASE \/ \E i \in Ids : DeleteHistory(i) \/ \E op \in Moves : Move(i, op)
           \/ ClearHistory \/ Pause \/ Resume \/ CooldownOver \/ StepUp \/ Shutdown
           \/ UNCHANGED vars
  <2>1. UNCHANGED <<claimed, wpc, dl>>
    BY <1>3 DEF DeleteHistory, Move, ClearHistory, Pause, Resume, CooldownOver, StepUp,
       Shutdown, vars, locks, worker
  <2>2. QED
    BY <2>1, OthersExclusive
<1>4. CASE Restart
  BY <1>4, RestartExclusive DEF Restart
<1>5. QED
  BY <1>1, <1>2, <1>3, <1>4 DEF Next

(* For any number of workers: the claimed map names exactly the worker that    *)
(* processes a row, through cancels, panics, shutdowns and crashes, so no two  *)
(* workers process one row at the same time.                                   *)
THEOREM Exclusion == Spec => []ClaimExclusive
<1>1. Init => ClaimExclusive
  BY Sizes DEF Init, ClaimExclusive, Holds, Working
<1>2. QED
  BY <1>1, NextExclusive, TypedAlways, PTL DEF Spec

-------------------------------------------------------------------------------
(* The cancelled set.  A mark is made as its caller leaves for "signal", and   *)
(* that caller takes it away before it goes on to delete the row.              *)
MarkPhases == {"signal", "wait", "clear"}

LEMMA MarksKept ==
    ASSUME NoMarkLeak, marks' \subseteq marks,
           \A c \in Callers : cpc[c] \in MarkPhases /\ cid[c] \in marks' =>
               cpc'[c] \in MarkPhases /\ cid'[c] = cid[c]
    PROVE  NoMarkLeak'
BY DEF NoMarkLeak, MarkPhases

LEMMA MarkKept ==
    ASSUME Typed, NoMarkLeak, NEW c \in Callers, NEW i \in Ids, Mark(c, i)
    PROVE  NoMarkLeak'
<1>1. /\ cpc'[c] = "signal" /\ cid'[c] = i /\ marks' = marks \cup {i}
      /\ cpc[c] \in {"idle", "mark"}
      /\ \A d \in Callers \ {c} : cpc'[d] = cpc[d] /\ cid'[d] = cid[d]
  BY DEF Mark, CGoto, Typed, TypeOK
<1>2. ASSUME NEW j \in marks' PROVE \E d \in Callers : cpc'[d] \in MarkPhases /\ cid'[d] = j
  <2>1. CASE j = i
    BY <1>1, <2>1 DEF MarkPhases
  <2>2. CASE j # i
    <3>1. PICK d \in Callers : cpc[d] \in MarkPhases /\ cid[d] = j
      BY <1>1, <2>2 DEF NoMarkLeak, MarkPhases
    <3>2. d # c
      BY <1>1, <3>1 DEF MarkPhases
    <3>3. QED
      BY <1>1, <3>1, <3>2
  <2>3. QED
    BY <2>1, <2>2
<1>3. QED
  BY <1>2 DEF NoMarkLeak, MarkPhases

LEMMA CallerMarks ==
    ASSUME Typed, NoMarkLeak, NEW c \in Callers,
           \/ CallerStep(c)
           \/ \E k \in Keys, op \in {"none", "top", "bottom"} : FindDownload(c, k, op)
           \/ \E i \in Ids : SabSnapshot(c, i) \/ Mark(c, i)
    PROVE  NoMarkLeak'
<1> USE DEF MarkPhases
<1>0. cpc \in [Callers -> CallerPositions] /\ cid \in [Callers -> Ids \cup {0}]
  BY DEF Typed, TypeOK
<1>1. CASE \/ FindHistory(c) \/ Supersede(c) \/ Insert(c) \/ ApplyPriority(c)
           \/ Delete(c) \/ Record(c)
           \/ \E k \in Keys, op \in {"none", "top", "bottom"} : FindDownload(c, k, op)
           \/ \E i \in Ids : SabSnapshot(c, i)
  <2>1. /\ marks' = marks /\ cpc[c] \notin MarkPhases
        /\ \A d \in Callers \ {c} : cpc'[d] = cpc[d] /\ cid'[d] = cid[d]
    BY <1>0, <1>1 DEF FindHistory, Supersede, Insert, ApplyPriority, Delete, Record,
       FindDownload, SabSnapshot, CNext, CGoto, locks
  <2>2. QED
    BY <2>1, MarksKept
<1>2. ASSUME NEW i \in Ids, Mark(c, i) PROVE NoMarkLeak'
  BY <1>2, MarkKept
<1>3. CASE Signal(c) \/ WaitOver(c)
  <2>1. marks' = marks /\ cid' = cid /\ cpc[c] \in MarkPhases /\ cpc'[c] \in MarkPhases
        /\ \A d \in Callers \ {c} : cpc'[d] = cpc[d]
    BY <1>0, <1>3 DEF Signal, WaitOver, CGoto, locks
  <2>2. QED
    BY <2>1, MarksKept
<1>4. CASE Clear(c)
  <2>1. /\ marks' = marks \ {cid[c]} /\ cid' = cid
        /\ \A d \in Callers \ {c} : cpc'[d] = cpc[d]
    BY <1>0, <1>4 DEF Clear, CGoto
  <2>2. QED
    BY <2>1, MarksKept
<1>5. QED
  BY <1>1, <1>2, <1>3, <1>4 DEF CallerStep, Typed, Shape

LEMMA NextMarks == Typed /\ NoMarkLeak /\ [Next]_vars => NoMarkLeak'
<1> SUFFICES ASSUME Typed, NoMarkLeak, [Next]_vars PROVE NoMarkLeak'
  OBVIOUS
<1>1. ASSUME NEW w \in Workers, WorkerStep(w) \/ Progress(w) \/ Panic(w)
      PROVE  NoMarkLeak'
  <2>1. marks' \subseteq marks /\ cpc' = cpc /\ cid' = cid
    BY <1>1 DEF WorkerStep, Admit, List, ListDue, Skip, Take, Begin, Resolved, Selected,
       Progress, Fetched, Stalled, Fail, GiveUp, Stop, Complete, Archive, Release, Panic,
       Freed, Store, locks, caller
  <2>2. QED
    BY <2>1, MarksKept
<1>2. ASSUME NEW c \in Callers,
             \/ CallerStep(c)
             \/ \E k \in Keys, op \in {"none", "top", "bottom"} : FindDownload(c, k, op)
             \/ \E i \in Ids : SabSnapshot(c, i) \/ Mark(c, i)
      PROVE  NoMarkLeak'
  BY <1>2, CallerMarks
<1>3. CASE \/ \E i \in Ids : DeleteHistory(i) \/ \E op \in Moves : Move(i, op)
           \/ ClearHistory \/ Pause \/ Resume \/ CooldownOver \/ StepUp \/ Shutdown
           \/ UNCHANGED vars
  <2>1. marks' = marks /\ cpc' = cpc /\ cid' = cid
    BY <1>3 DEF DeleteHistory, Move, ClearHistory, Pause, Resume, CooldownOver, StepUp,
       Shutdown, vars, locks, caller
  <2>2. QED
    BY <2>1, MarksKept
<1>4. CASE Restart
  BY <1>4 DEF Restart, Booted, NoMarkLeak
<1>5. QED
  BY <1>1, <1>2, <1>3, <1>4 DEF Next

(* Whatever ends a cancel's wait, no entry of the cancelled set outlives the   *)
(* cancel that made it (audit item 10).                                        *)
THEOREM MarksDoNotLeak == Spec => []NoMarkLeak
<1>1. Init => NoMarkLeak
  BY DEF Init, NoMarkLeak
<1>2. QED
  BY <1>1, NextMarks, TypedAlways, PTL DEF Spec

-------------------------------------------------------------------------------
(* Where the rows are.  An id is used once, and the bucket holds a row under   *)
(* its own id; whoever has a row in hand has one that was inserted.            *)
Rowed ==
    /\ \A i \in Ids : InQueue(i) => queue[i].id = i /\ i < nextId
    /\ \A i \in Ids : history[i] # NoRow => i < nextId
    /\ \A w \in Workers : \A r \in seen[w] : r.id < nextId
    /\ \A w \in Workers : wpc[w] \in Held => dl[w].id < nextId
    /\ \A c \in Callers : cid[c] < nextId

(* From its first write on, what the bucket holds under a worker's row is what *)
(* the worker wrote there last, or nothing after a delete.                     *)
Mirror(w) ==
    /\ wpc[w] \in Written => queue[dl[w].id] \in {NoRow, dl[w]}
    /\ wpc[w] \in {"playlist", "media"} => dl[w].status = "resolving"
    /\ wpc[w] \in {"fetch", "stalled", "verify"} => dl[w].status = "downloading"
    /\ wpc[w] \in {"giveup", "archive"} => Terminal(dl[w])

Base == /\ Typed /\ ClaimExclusive /\ Rowed
        /\ \A w \in Workers : Mirror(w)
        /\ HistoryIsFinal

-------------------------------------------------------------------------------
(* What one step can do to the rows, whoever takes it.                         *)

(* Steps of callers, operators and the clock: a worker's variables stay, and   *)
(* each row of the buckets is moved, deleted, inserted or recorded by a caller *)
(* that is at that point.                                                      *)
Reordered(i) ==
    /\ InQueue(i) /\ queue[i].status = "pending"
    /\ \E p \in Int : queue'[i] = [queue[i] EXCEPT !.priority = p]
OutsideQueue(i) ==
    \/ queue'[i] = queue[i]
    \/ Reordered(i)
    \/ queue'[i] = NoRow /\ \E c \in Callers : cpc[c] = "delete" /\ cid[c] = i
    \/ /\ i = nextId /\ nextId' = nextId + 1
       /\ \E c \in Callers : cpc[c] = "insert" /\ queue'[i] = FreshRow(i, ckey[c])
OutsideHistory(i) ==
    \/ history'[i] = history[i]
    \/ /\ history'[i] = NoRow
       /\ \/ Requests \cap {"deletehistory", "clearhistory"} # {}
          \/ \E c \in Callers : cpc[c] = "supersede" /\ cid[c] = i
    \/ \E c \in Callers : /\ cpc[c] = "record" /\ cid[c] = i
                          /\ history'[i] # NoRow /\ history'[i].status = "failed"
Outside ==
    /\ UNCHANGED <<wpc, seen, dl>>
    /\ nextId' \in {nextId, nextId + 1}
    /\ \A i \in Ids : OutsideQueue(i) /\ OutsideHistory(i)

LEMMA MoveReorders ==
    ASSUME TypeOK, NEW i \in Ids, NEW op \in Moves, MoveDownload(i, op), NEW j \in Ids
    PROVE  queue'[j] = queue[j] \/ Reordered(j)
<1>1. CASE queue[i] \notin Pending
  BY <1>1 DEF MoveDownload
<1>2. CASE queue[i] \in Pending
  <2>1. queue'[j] = IF queue[j] \in Pending
                    THEN Renumbered(queue[j], queue[i], Pending, op) ELSE queue[j]
    BY <1>2 DEF MoveDownload
  <2>2. CASE queue[j] \in Pending
    <3>1. queue[j] \in Row /\ queue[i] \in Row /\ IsFiniteSet(Pending)
      BY <1>2, <2>2, PendingFinite
    <3>2. queue[j].status = "pending" /\ InQueue(j)
      <4>1. PICK m \in Ids : InQueue(m) /\ queue[m].status = "pending" /\ queue[j] = queue[m]
        BY <2>2 DEF Pending
      <4>2. QED
        BY <4>1 DEF InQueue
    <3>3. \E p \in Int : queue'[j] = [queue[j] EXCEPT !.priority = p]
      <4>1. Numbered(Cardinality(Pending), Place(queue[j], queue[i], Pending, op)) \in Int
        BY <3>1, NumberType
      <4>2. QED
        BY <2>1, <2>2, <4>1 DEF Renumbered
    <3>4. QED
      BY <3>2, <3>3 DEF Reordered
  <2>3. QED
    BY <2>1, <2>2
<1>3. QED
  BY <1>1, <1>2

LEMMA CallerOutside ==
    ASSUME Typed, Rowed, NEW c \in Callers,
           \/ CallerStep(c)
           \/ \E k \in Keys, op \in {"none", "top", "bottom"} : FindDownload(c, k, op)
           \/ \E i \in Ids : SabSnapshot(c, i) \/ Mark(c, i)
    PROVE  Outside
<1> USE DEF Outside, OutsideQueue, OutsideHistory
<1>0. TypeOK /\ Shape
  BY DEF Typed
<1>1. CASE \/ FindHistory(c) \/ Signal(c) \/ WaitOver(c) \/ Clear(c)
           \/ \E k \in Keys, op \in {"none", "top", "bottom"} : FindDownload(c, k, op)
           \/ \E i \in Ids : SabSnapshot(c, i) \/ Mark(c, i)
  BY <1>1 DEF FindHistory, Signal, WaitOver, Clear, FindDownload, SabSnapshot, Mark,
     store, worker
<1>2. CASE Supersede(c)
  <2>1. /\ UNCHANGED <<queue, nextId, wpc, seen, dl>> /\ cpc[c] = "supersede"
        /\ history' = [history EXCEPT ![cid[c]] = NoRow]
    BY <1>2 DEF Supersede, worker
  <2>2. \A i \in Ids : history'[i] = history[i] \/ (history'[i] = NoRow /\ cid[c] = i)
    BY <1>0, <2>1 DEF TypeOK
  <2>3. QED
    BY <2>1, <2>2
<1>3. CASE Insert(c)
  <2>1. /\ UNCHANGED <<history, wpc, seen, dl>> /\ cpc[c] = "insert" /\ nextId' = nextId + 1
        /\ queue' = [queue EXCEPT ![FreshRow(nextId, ckey[c]).id] = FreshRow(nextId, ckey[c])]
    BY <1>3 DEF Insert, Put, worker
  <2>2. FreshRow(nextId, ckey[c]).id = nextId
    BY DEF FreshRow
  <2>3. \A i \in Ids : queue'[i] = queue[i]
                       \/ (i = nextId /\ queue'[i] = FreshRow(i, ckey[c]))
    BY <1>0, <2>1, <2>2 DEF TypeOK
  <2>4. QED
    BY <2>1, <2>3
<1>4. CASE ApplyPriority(c)
  <2>1. /\ cid[c] \in Ids /\ cop[c] \in Moves /\ MoveDownload(cid[c], cop[c])
        /\ UNCHANGED <<history, nextId, wpc, seen, dl>>
    BY <1>0, <1>4 DEF ApplyPriority, Shape, TypeOK, Moves, worker
  <2>2. QED
    BY <1>0, <2>1, MoveReorders
<1>5. CASE Delete(c)
  <2>1. /\ UNCHANGED <<history, nextId, wpc, seen, dl>> /\ cpc[c] = "delete"
        /\ queue' = [queue EXCEPT ![cid[c]] = NoRow]
    BY <1>5 DEF Delete, worker
  <2>2. \A i \in Ids : queue'[i] = queue[i] \/ (queue'[i] = NoRow /\ cid[c] = i)
    BY <1>0, <2>1 DEF TypeOK
  <2>3. QED
    BY <2>1, <2>2
<1>6. CASE Record(c)
  <2> DEFINE row == [csnap[c] EXCEPT !.status = "failed"]
  <2>1. /\ UNCHANGED <<queue, nextId, wpc, seen, dl>> /\ cpc[c] = "record"
        /\ history' = [history EXCEPT ![cid[c]] = row]
    BY <1>6 DEF Record, worker
  <2>2. row # NoRow /\ row.status = "failed"
    <3>1. csnap[c] \in Row
      BY <1>0, <2>1 DEF Shape
    <3>2. row \in Row
      BY <3>1, StatusRow DEF Statuses
    <3>3. QED
      BY <3>1, <3>2, NoRowAssumption DEF Row
  <2> HIDE DEF row
  <2>3. \A i \in Ids : history'[i] = history[i] \/ (history'[i] = row /\ cid[c] = i)
    BY <1>0, <2>1 DEF TypeOK
  <2>4. QED
    BY <2>1, <2>2, <2>3
<1>7. QED
  BY <1>0, <1>1, <1>2, <1>3, <1>4, <1>5, <1>6 DEF CallerStep, Shape

LEMMA OthersOutside ==
    ASSUME Typed,
           \/ \E i \in Ids : DeleteHistory(i) \/ \E op \in Moves : Move(i, op)
           \/ ClearHistory \/ Pause \/ Resume \/ CooldownOver \/ StepUp
           \/ Shutdown \/ UNCHANGED vars
    PROVE  Outside /\ UNCHANGED <<nextId, cpc, cid, ckey, csnap>>
<1> USE DEF Outside, OutsideQueue, OutsideHistory
<1>0. TypeOK
  BY DEF Typed
<1>1. ASSUME NEW i \in Ids, DeleteHistory(i)
      PROVE  Outside /\ UNCHANGED <<nextId, cpc, cid, ckey, csnap>>
  <2>1. \A j \in Ids : history'[j] \in {NoRow, history[j]}
    BY <1>0, <1>1 DEF DeleteHistory, TypeOK
  <2>2. "deletehistory" \in Requests
    BY <1>1 DEF DeleteHistory
  <2>3. QED
    BY <1>1, <2>1, <2>2 DEF DeleteHistory, worker, caller
<1>2. ASSUME NEW i \in Ids, NEW op \in Moves, Move(i, op)
      PROVE  Outside /\ UNCHANGED <<nextId, cpc, cid, ckey, csnap>>
  BY <1>0, <1>2, MoveReorders DEF Move, worker, caller
<1>3. CASE ClearHistory
  <2>1. \A j \in Ids : history'[j] = NoRow
    BY <1>3 DEF ClearHistory
  <2>2. "clearhistory" \in Requests
    BY <1>3 DEF ClearHistory
  <2>3. QED
    BY <1>3, <2>1, <2>2 DEF ClearHistory, worker, caller
<1>4. CASE Pause \/ Resume \/ CooldownOver \/ StepUp \/ Shutdown \/ UNCHANGED vars
  BY <1>4 DEF Pause, Resume, CooldownOver, StepUp, Shutdown, vars, store, worker, caller
<1>5. QED
  BY <1>1, <1>2, <1>3, <1>4

(* Steps of a worker: it moves on, takes a row, writes its row, archives it or *)
(* lets go of it; the other workers and the callers stay where they are.       *)
WorkerFrame(w) ==
    /\ \A v \in Workers \ {w} : wpc'[v] = wpc[v] /\ dl'[v] = dl[v] /\ seen'[v] = seen[v]
    /\ UNCHANGED <<nextId, stopping, cpc, cid, ckey, csnap>>

Due(r) == r.status = "pending" \/ (r.status = "failed" /\ r.retryable)

(* It ticks, lists, skips, ends its fetch, or leaves its row for a cancel.     *)
Ticks(w) == wpc[w] = "idle" /\ wpc'[w] = "list" /\ seen'[w] = seen[w]
Lists(w) ==
    /\ wpc[w] = "list"
    /\ wpc'[w] = IF seen'[w] = {} THEN "idle" ELSE "scan"
    /\ \A r \in seen'[w] : \E i \in Ids : InQueue(i) /\ queue[i] = r /\ Due(r)
Skips(w) ==
    /\ wpc[w] = "scan" /\ seen'[w] \subseteq seen[w]
    /\ wpc'[w] = IF seen'[w] = {} THEN "idle" ELSE "scan"
Works(w) ==
    /\ wpc[w] = "fetch" /\ wpc'[w] \in {"verify", "stalled"} /\ seen'[w] = seen[w]
Leaves(w) ==
    /\ wpc[w] \in {"playlist", "media", "fetch"} /\ wpc'[w] = "release"
    /\ dl[w].id \in marks /\ seen'[w] = seen[w]
Quiet(w) ==
    /\ UNCHANGED <<queue, history, dl>>
    /\ Ticks(w) \/ Lists(w) \/ Skips(w) \/ Works(w) \/ Leaves(w)

Picks(w) ==
    /\ UNCHANGED <<queue, history>>
    /\ wpc[w] = "scan" /\ wpc'[w] = "begin" /\ seen'[w] = {}
    /\ \E r \in seen[w] : dl'[w] = r

(* The counters of a row a worker writes never go down.                        *)
Grown(row, r) ==
    /\ row.key = r.key
    /\ row.cdnFailures >= r.cdnFailures /\ row.retryCount >= r.retryCount
    /\ row.stallCount >= r.stallCount /\ row.stallCredits >= r.stallCredits
    /\ row.metadataFailures >= r.metadataFailures
Placed(row, at) ==
    \/ at \in {"playlist", "media"} /\ row.status = "resolving"
    \/ at = "fetch" /\ row.status = "downloading"
    \/ at \in {"giveup", "archive"} /\ Terminal(row)
    \/ at = "release" /\ ~InProgress(row) /\ ~Terminal(row)
Writes(w, row, at) ==
    /\ wpc[w] \in Working /\ row \in Row /\ row.id = dl[w].id
    /\ queue' = [queue EXCEPT ![dl[w].id] = row] /\ history' = history
    /\ dl'[w] = row /\ wpc'[w] = at /\ seen'[w] = seen[w]
    /\ Grown(row, dl[w]) /\ Placed(row, at)
Archives(w) ==
    /\ wpc[w] = "archive" /\ wpc'[w] = "release" /\ UNCHANGED <<dl, seen>>
    /\ \/ /\ InQueue(dl[w].id)
          /\ history' = [history EXCEPT ![dl[w].id] = queue[dl[w].id]]
          /\ queue' = [queue EXCEPT ![dl[w].id] = NoRow]
       \/ ~InQueue(dl[w].id) /\ UNCHANGED <<queue, history>>
LetsGo(w) ==
    /\ wpc[w] \in Held /\ wpc'[w] = "idle" /\ seen'[w] = seen[w]
    /\ UNCHANGED <<queue, history>>
    /\ wpc[w] # "release" => "panic" \in Faults

WorkerEffect(w) ==
    /\ WorkerFrame(w)
    /\ \/ Quiet(w) \/ Picks(w) \/ Archives(w) \/ LetsGo(w)
       \/ \E row \in Row, at \in Written \cup {"release"} : Writes(w, row, at)

LEMMA StatusGrown ==
    ASSUME NEW r \in Row, NEW st \in Statuses
    PROVE  /\ Grown([r EXCEPT !.status = st], r)
           /\ [r EXCEPT !.status = st].status = st
BY DEF Row, Grown

LEMMA SameGrown ==
    ASSUME NEW r \in Row
    PROVE  Grown(r, r)
BY DEF Row, Grown

LEMMA CompletedGrown ==
    ASSUME NEW r \in Row
    PROVE  Grown(Completed(r), r) /\ Completed(r).status = "completed"
<1> DEFINE e == [r EXCEPT !.status = "completed"]
           f == [e EXCEPT !.code = Empty]
<1>1. Grown(e, r) /\ e.status = "completed" /\ e \in Row
  BY StatusGrown, StatusRow DEF Statuses
<1>2. Completed(r) = [f EXCEPT !.retryable = FALSE]
  BY DEF Completed
<1> HIDE DEF e
<1>3. Grown(f, r) /\ f.status = "completed"
  BY <1>1 DEF Row, Grown
<1>4. Grown([f EXCEPT !.retryable = FALSE], r) /\ [f EXCEPT !.retryable = FALSE].status = "completed"
  <2> HIDE DEF f
  <2>1. QED
    BY <1>3 DEF Grown
<1>5. QED
  BY <1>2, <1>4

LEMMA ChargeGrown ==
    ASSUME NEW r \in Row, NEW cause \in Causes, NEW cool \in BOOLEAN
    PROVE  Grown(Charge(r, cause, cool), r)
<1> DEFINE c == Charge(r, cause, cool)
<1> HIDE DEF c
<1>1. SUFFICES Grown(c, r)
  BY DEF c
<1>2. CASE c = Freeze(r)
  BY <1>2 DEF Freeze, Row, Grown
<1>3. CASE c = Stall(r)
  BY <1>3 DEF Stall, Row, Grown
<1>4. CASE c = [r EXCEPT !.metadataFailures = @ + 1]
  BY <1>4 DEF Row, Grown
<1>5. CASE c = [r EXCEPT !.retryCount = @ + 1,
                 !.failedSuppliers = @ \cup ({cause.refusedBy} \ {Empty})]
  BY <1>5 DEF Row, Grown
<1>6. CASE c = [r EXCEPT !.retryCount = @ + 1, !.cdnFailures = @ + 1]
  BY <1>6 DEF Row, Grown
<1>7. CASE c = [r EXCEPT !.retryCount = @ + 1]
  BY <1>7 DEF Row, Grown
<1>8. QED
  BY <1>2, <1>3, <1>4, <1>5, <1>6, <1>7, ChargeCases DEF c

LEMMA FailedGrown ==
    ASSUME NEW r \in Row, NEW cause \in Causes, NEW cool \in BOOLEAN
    PROVE  /\ Grown(Failed(r, cause, cool), r)
           /\ Failed(r, cause, cool).status = "failed"
<1> DEFINE c == Charge(r, cause, cool)
           e == [c EXCEPT !.status = "failed"]
           f == [e EXCEPT !.code = cause.code]
           g == [f EXCEPT !.retryable = MayRetry(c, cause.code)]
<1>1. c \in Row /\ Grown(c, r)
  BY ChargeRow, ChargeGrown
<1>2. Failed(r, cause, cool) = g
  BY DEF Failed
<1> HIDE DEF c
<1>3. /\ g.status = "failed" /\ g.key = c.key
      /\ g.cdnFailures = c.cdnFailures /\ g.retryCount = c.retryCount
      /\ g.stallCount = c.stallCount /\ g.stallCredits = c.stallCredits
      /\ g.metadataFailures = c.metadataFailures
  BY <1>1 DEF Row
<1> HIDE DEF g
<1>4. QED
  BY <1>1, <1>2, <1>3 DEF Grown

(* Every step of a worker is one of these.                                     *)
LEMMA StoreEffect ==
    ASSUME Typed, NEW w \in Workers, wpc[w] \in Working, NEW row \in Row,
           NEW at \in Written \cup {"release"}, row.id = dl[w].id, Store(w, row, at),
           Grown(row, dl[w]), Placed(row, at)
    PROVE  WorkerEffect(w)
<1>1. Writes(w, row, at)
  BY DEF Store, Put, Goto, Writes, Typed, TypeOK
<1>2. WorkerFrame(w)
  BY DEF Store, Goto, WorkerFrame, Typed, TypeOK, flags, caller
<1>3. QED
  BY <1>1, <1>2 DEF WorkerEffect

LEMMA ListsDue ==
    ASSUME NEW due \in SUBSET Retries, NEW r \in Pending \cup due
    PROVE  \E i \in Ids : InQueue(i) /\ queue[i] = r /\ Due(r)
<1>1. CASE r \in Pending
  BY <1>1 DEF Pending, Due
<1>2. CASE r \in Retries
  BY <1>2 DEF Retries, Due
<1>3. QED
  BY <1>1, <1>2

LEMMA WorkerEffects ==
    ASSUME Base, NEW w \in Workers, WorkerStep(w) \/ Progress(w) \/ Panic(w)
    PROVE  WorkerEffect(w)
<1> USE DEF Working
<1>0. /\ Typed /\ Mirror(w) /\ (wpc[w] \in Working => dl[w] \in Row)
      /\ wpc \in [Workers -> WorkerPositions] /\ seen \in [Workers -> SUBSET Row]
      /\ dl \in [Workers -> Row \cup {NoRow}] /\ cooling \in BOOLEAN
  BY DEF Base, Typed, TypeOK, Shape, Held
<1>1. CASE Admit(w)
  <2>1. Quiet(w)
    BY <1>0, <1>1 DEF Admit, Goto, store, Quiet, Ticks
  <2>2. WorkerFrame(w)
    BY <1>0, <1>1 DEF Admit, Goto, store, flags, caller, WorkerFrame
  <2>3. QED
    BY <2>1, <2>2 DEF WorkerEffect
<1>2. ASSUME NEW due \in SUBSET Retries, ListDue(w, due) PROVE WorkerEffect(w)
  <2>1. /\ wpc[w] = "list" /\ seen' = [seen EXCEPT ![w] = Pending \cup due]
        /\ wpc' = [wpc EXCEPT ![w] = IF seen'[w] = {} THEN "idle" ELSE "scan"]
        /\ UNCHANGED <<queue, history, nextId, stopping, dl, cpc, cid, ckey, csnap>>
    BY <1>2 DEF ListDue, Goto, store, flags, caller
  <2>2. seen'[w] = Pending \cup due
    BY <1>0, <2>1
  <2>3. Lists(w)
    BY <1>0, <2>1, <2>2, ListsDue DEF Lists
  <2>4. WorkerFrame(w)
    BY <1>0, <2>1 DEF WorkerFrame
  <2>5. QED
    BY <2>1, <2>3, <2>4 DEF WorkerEffect, Quiet
<1>3. CASE Skip(w)
  <2>1. /\ wpc[w] = "scan" /\ \E r \in seen[w] : seen' = [seen EXCEPT ![w] = @ \ {r}]
        /\ wpc' = [wpc EXCEPT ![w] = IF seen'[w] = {} THEN "idle" ELSE "scan"]
        /\ UNCHANGED <<queue, history, nextId, stopping, dl, cpc, cid, ckey, csnap>>
    BY <1>3 DEF Skip, Goto, store, flags, caller
  <2>2. seen'[w] \subseteq seen[w]
    BY <1>0, <2>1
  <2>3. Skips(w)
    BY <1>0, <2>1, <2>2 DEF Skips
  <2>4. WorkerFrame(w)
    BY <1>0, <2>1 DEF WorkerFrame
  <2>5. QED
    BY <2>1, <2>3, <2>4 DEF WorkerEffect, Quiet
<1>4. CASE Take(w)
  <2>1. /\ wpc[w] = "scan" /\ \E r \in seen[w] : dl' = [dl EXCEPT ![w] = r]
        /\ seen' = [seen EXCEPT ![w] = {}] /\ wpc' = [wpc EXCEPT ![w] = "begin"]
        /\ UNCHANGED <<queue, history, nextId, stopping, cpc, cid, ckey, csnap>>
    BY <1>4 DEF Take, Goto, store, flags, caller
  <2>2. Picks(w)
    BY <1>0, <2>1 DEF Picks
  <2>3. WorkerFrame(w)
    BY <1>0, <2>1 DEF WorkerFrame
  <2>4. QED
    BY <2>2, <2>3 DEF WorkerEffect
<1>5. CASE Begin(w)
  <2> DEFINE row == [dl[w] EXCEPT !.status = "resolving"]
  <2>1. row \in Row /\ row.id = dl[w].id /\ Grown(row, dl[w]) /\ row.status = "resolving"
    BY <1>0, <1>5, StatusRow, StatusGrown DEF Begin, Statuses
  <2>2. Store(w, row, "playlist") /\ wpc[w] \in Working
    BY <1>5 DEF Begin
  <2> HIDE DEF row
  <2>3. Placed(row, "playlist") /\ "playlist" \in Written
    BY <2>1 DEF Placed, Written
  <2>4. QED
    BY <1>0, <2>1, <2>2, <2>3, StoreEffect
<1>6. CASE Resolved(w)
  <2>1. Placed(dl[w], "media") /\ "media" \in Written
    BY <1>0, <1>6 DEF Resolved, Placed, Mirror, Written
  <2>2. QED
    BY <1>0, <1>6, <2>1, StoreEffect, SameGrown DEF Resolved
<1>7. CASE Selected(w)
  <2> DEFINE row == [dl[w] EXCEPT !.status = "downloading"]
  <2>1. row \in Row /\ row.id = dl[w].id /\ Grown(row, dl[w]) /\ row.status = "downloading"
    BY <1>0, <1>7, StatusRow, StatusGrown DEF Selected, Statuses
  <2>2. Store(w, row, "fetch") /\ wpc[w] \in Working
    BY <1>7 DEF Selected
  <2> HIDE DEF row
  <2>3. Placed(row, "fetch") /\ "fetch" \in Written
    BY <2>1 DEF Placed, Written
  <2>4. QED
    BY <1>0, <2>1, <2>2, <2>3, StoreEffect
<1>8. CASE Progress(w)
  <2>1. Placed(dl[w], "fetch") /\ "fetch" \in Written
    BY <1>0, <1>8 DEF Progress, Placed, Mirror, Written
  <2>2. QED
    BY <1>0, <1>8, <2>1, StoreEffect, SameGrown DEF Progress
<1>9. CASE Fetched(w) \/ Stalled(w)
  <2>1. /\ wpc[w] = "fetch" /\ wpc' \in {[wpc EXCEPT ![w] = "verify"], [wpc EXCEPT ![w] = "stalled"]}
        /\ UNCHANGED <<queue, history, nextId, stopping, dl, seen, cpc, cid, ckey, csnap>>
    BY <1>9 DEF Fetched, Stalled, Goto, store, flags, caller
  <2>2. Quiet(w)
    BY <1>0, <2>1 DEF Quiet, Works
  <2>3. WorkerFrame(w)
    BY <1>0, <2>1 DEF WorkerFrame
  <2>4. QED
    BY <2>2, <2>3 DEF WorkerEffect
<1>10. ASSUME NEW cause \in Causes, Fail(w, cause) PROVE WorkerEffect(w)
  <2> DEFINE row == Failed(dl[w], cause, cooling)
  <2>1. wpc[w] \in Working /\ Store(w, row, AfterFail(row))
    BY <1>10, CanFailWorking DEF Fail
  <2>2. row \in Row /\ row.id = dl[w].id /\ Grown(row, dl[w]) /\ row.status = "failed"
    BY <1>0, <2>1, FailedRow, FailedGrown
  <2> HIDE DEF row
  <2>3. AfterFail(row) \in Written \cup {"release"} /\ Placed(row, AfterFail(row))
    BY <2>2 DEF AfterFail, Written, Placed, Terminal, GivenUp, InProgress
  <2>4. QED
    BY <1>0, <2>1, <2>2, <2>3, StoreEffect
<1>11. CASE GiveUp(w)
  <2>1. Placed(dl[w], "archive") /\ "archive" \in Written
    BY <1>0, <1>11 DEF GiveUp, Placed, Mirror, Written
  <2>2. QED
    BY <1>0, <1>11, <2>1, StoreEffect, SameGrown DEF GiveUp
<1>12. CASE Stop(w)
  <2>1. CASE dl[w].id \in marks
    <3>1. /\ wpc[w] \in {"playlist", "media", "fetch"} /\ wpc' = [wpc EXCEPT ![w] = "release"]
          /\ UNCHANGED <<queue, history, nextId, stopping, dl, seen, cpc, cid, ckey, csnap>>
      BY <1>12, <2>1 DEF Stop, Goto, store, flags, caller
    <3>2. Quiet(w)
      BY <1>0, <2>1, <3>1 DEF Quiet, Leaves
    <3>3. WorkerFrame(w)
      BY <1>0, <3>1 DEF WorkerFrame
    <3>4. QED
      BY <3>2, <3>3 DEF WorkerEffect
  <2>2. CASE dl[w].id \notin marks
    <3> DEFINE row == [dl[w] EXCEPT !.status = "pending"]
    <3>1. row \in Row /\ row.id = dl[w].id /\ Grown(row, dl[w]) /\ row.status = "pending"
      BY <1>0, <1>12, StatusRow, StatusGrown DEF Stop, Statuses
    <3>2. Store(w, row, "release") /\ wpc[w] \in Working
      BY <1>12, <2>2 DEF Stop
    <3> HIDE DEF row
    <3>3. Placed(row, "release")
      BY <3>1 DEF Placed, Terminal, GivenUp, InProgress
    <3>4. QED
      BY <1>0, <3>1, <3>2, <3>3, StoreEffect
  <2>3. QED
    BY <2>1, <2>2
<1>13. CASE Complete(w)
  <2> DEFINE row == Completed(dl[w])
  <2>1. row \in Row /\ row.id = dl[w].id /\ Grown(row, dl[w]) /\ row.status = "completed"
    BY <1>0, <1>13, CompletedRow, CompletedGrown DEF Complete
  <2>2. Store(w, row, "archive") /\ wpc[w] \in Working
    BY <1>13 DEF Complete
  <2> HIDE DEF row
  <2>3. Placed(row, "archive") /\ "archive" \in Written
    BY <2>1 DEF Placed, Written, Terminal
  <2>4. QED
    BY <1>0, <2>1, <2>2, <2>3, StoreEffect
<1>14. CASE Archive(w)
  <2>1. /\ wpc[w] = "archive" /\ wpc' = [wpc EXCEPT ![w] = "release"]
        /\ UNCHANGED <<nextId, stopping, dl, seen, cpc, cid, ckey, csnap>>
    BY <1>14 DEF Archive, Goto, flags, caller
  <2>2. Archives(w)
    BY <1>0, <1>14, <2>1 DEF Archive, Archives
  <2>3. WorkerFrame(w)
    BY <1>0, <2>1 DEF WorkerFrame
  <2>4. QED
    BY <2>2, <2>3 DEF WorkerEffect
<1>15. CASE Release(w) \/ Panic(w)
  <2>1. /\ wpc[w] \in Held /\ (wpc[w] # "release" => "panic" \in Faults)
        /\ wpc' = [wpc EXCEPT ![w] = "idle"] /\ dl' = [dl EXCEPT ![w] = NoRow]
        /\ UNCHANGED <<queue, history, nextId, stopping, seen, cpc, cid, ckey, csnap>>
    BY <1>15 DEF Release, Panic, Freed, Goto, store, flags, caller, Held
  <2>2. LetsGo(w)
    BY <1>0, <2>1 DEF LetsGo
  <2>3. WorkerFrame(w)
    BY <1>0, <2>1 DEF WorkerFrame
  <2>4. QED
    BY <2>2, <2>3 DEF WorkerEffect
<1>16. QED
  BY <1>1, <1>2, <1>3, <1>4, <1>5, <1>6, <1>7, <1>8, <1>9, <1>10, <1>11, <1>12, <1>13,
     <1>14, <1>15 DEF WorkerStep, List

-------------------------------------------------------------------------------
(* The base invariant.                                                         *)

LEMMA BaseParts ==
    ASSUME Base
    PROVE  /\ Typed /\ TypeOK /\ Shape /\ ClaimExclusive /\ Rowed /\ HistoryIsFinal
           /\ \A w \in Workers : Mirror(w)
           /\ nextId \in Nat /\ Ids \subseteq Nat
           /\ \A i \in Ids : queue[i] \in Row \cup {NoRow} /\ history[i] \in Row \cup {NoRow}
           /\ \A w \in Workers : wpc[w] \in Held => dl[w] \in Row /\ dl[w].id \in Ids
           /\ \A w \in Workers : \A r \in seen[w] : r \in Row /\ r.id \in Ids
<1>1. Typed /\ TypeOK /\ Shape
  BY DEF Base, Typed
<1>2. \A w \in Workers : wpc[w] \in Held => dl[w] \in Row /\ dl[w].id \in Ids
  BY <1>1 DEF Shape, Row
<1>3. \A w \in Workers : \A r \in seen[w] : r \in Row /\ r.id \in Ids
  BY <1>1 DEF TypeOK, Row
<1>4. nextId \in Nat /\ Ids \subseteq Nat
  BY <1>1, Sizes DEF TypeOK
<1>5. \A i \in Ids : queue[i] \in Row \cup {NoRow} /\ history[i] \in Row \cup {NoRow}
  BY <1>1 DEF TypeOK
<1>6. QED
  BY <1>1, <1>2, <1>3, <1>4, <1>5 DEF Base

LEMMA ReorderedRow ==
    ASSUME NEW i \in Ids, Reordered(i), queue[i] \in Row \cup {NoRow}
    PROVE  /\ InQueue(i) /\ queue'[i] \in Row /\ queue'[i].id = queue[i].id
           /\ queue[i].status = "pending" /\ queue'[i].status = "pending"
           /\ queue'[i].key = queue[i].key
           /\ queue'[i].cdnFailures = queue[i].cdnFailures
           /\ queue'[i].retryCount = queue[i].retryCount
           /\ queue'[i].stallCount = queue[i].stallCount
           /\ queue'[i].stallCredits = queue[i].stallCredits
           /\ queue'[i].metadataFailures = queue[i].metadataFailures
<1>1. queue[i] \in Row /\ InQueue(i) /\ queue[i].status = "pending"
  BY DEF Reordered, InQueue
<1>2. PICK p \in Int : queue'[i] = [queue[i] EXCEPT !.priority = p]
  BY DEF Reordered
<1>3. QED
  BY <1>1, <1>2 DEF Row

LEMMA FreshFields ==
    ASSUME NEW i, NEW k
    PROVE  /\ FreshRow(i, k).id = i /\ FreshRow(i, k).key = k
           /\ FreshRow(i, k).status = "pending"
BY DEF FreshRow

LEMMA HeldStatus ==
    ASSUME NEW w, Mirror(w), wpc[w] \in Written
    PROVE  dl[w].status # "pending"
BY DEF Mirror, Written, Terminal, GivenUp

LEMMA OutsideMirror ==
    ASSUME Base, Outside, NEW w \in Workers
    PROVE  Mirror(w)'
<1>1. wpc'[w] = wpc[w] /\ dl'[w] = dl[w] /\ Mirror(w)
  BY BaseParts DEF Outside
<1>2. ASSUME wpc[w] \in Written PROVE queue'[dl[w].id] \in {NoRow, dl[w]}
  <2> DEFINE i == dl[w].id
  <2>1. i \in Ids /\ i < nextId /\ queue[i] \in {NoRow, dl[w]} /\ dl[w] \in Row
        /\ nextId \in Nat /\ i \in Nat
    BY <1>1, <1>2, BaseParts DEF Rowed, Held, Working, Written, Mirror
  <2>2. dl[w].status # "pending"
    BY <1>1, <1>2, HeldStatus
  <2>3. ~Reordered(i)
    BY <2>1, <2>2 DEF Reordered, InQueue
  <2>4. i # nextId
    BY <2>1
  <2>5. QED
    BY <2>1, <2>3, <2>4 DEF Outside, OutsideQueue
<1>3. QED
  BY <1>1, <1>2 DEF Mirror

LEMMA OutsideRowed ==
    ASSUME Base, Outside, \A c \in Callers : cid'[c] < nextId'
    PROVE  Rowed' /\ HistoryIsFinal'
<1>1. nextId \in Nat /\ nextId' \in {nextId, nextId + 1} /\ Ids \subseteq Nat
  BY BaseParts DEF Outside
<1>2. ASSUME NEW i \in Ids, queue'[i] # NoRow PROVE queue'[i].id = i /\ i < nextId'
  <2>1. CASE queue'[i] = queue[i]
    BY <1>1, <1>2, <2>1, BaseParts DEF Rowed, InQueue
  <2>2. CASE Reordered(i)
    <3>1. queue'[i].id = queue[i].id /\ InQueue(i)
      BY <2>2, ReorderedRow, BaseParts
    <3>2. QED
      BY <1>1, <3>1, BaseParts DEF Rowed
  <2>3. CASE i = nextId /\ nextId' = nextId + 1 /\ \E c \in Callers : queue'[i] = FreshRow(i, ckey[c])
    BY <1>1, <2>3, FreshFields
  <2>4. QED
    BY <1>2, <2>1, <2>2, <2>3 DEF Outside, OutsideQueue
<1>3. ASSUME NEW i \in Ids, history'[i] # NoRow
      PROVE  i < nextId' /\ history'[i].status \in {"completed", "failed"}
  <2>1. CASE history'[i] = history[i]
    BY <1>1, <1>3, <2>1, BaseParts DEF Rowed, HistoryIsFinal
  <2>2. CASE \E c \in Callers : cid[c] = i /\ history'[i].status = "failed"
    BY <1>1, <2>2, BaseParts DEF Rowed
  <2>3. QED
    BY <1>3, <2>1, <2>2 DEF Outside, OutsideHistory
<1>4. ASSUME NEW w \in Workers
      PROVE  /\ \A r \in seen'[w] : r.id < nextId'
             /\ wpc'[w] \in Held => dl'[w].id < nextId'
  <2>1. wpc'[w] = wpc[w] /\ dl'[w] = dl[w] /\ seen'[w] = seen[w]
    BY DEF Outside
  <2>2. ASSUME NEW r \in seen[w] PROVE r.id < nextId'
    <3>1. r.id \in Nat /\ r.id < nextId
      BY <1>1, BaseParts DEF Rowed
    <3>2. QED
      BY <1>1, <3>1
  <2>3. ASSUME wpc[w] \in Held PROVE dl[w].id < nextId'
    <3>1. dl[w].id \in Nat /\ dl[w].id < nextId
      BY <1>1, <2>3, BaseParts DEF Rowed
    <3>2. QED
      BY <1>1, <3>1
  <2>4. QED
    BY <2>1, <2>2, <2>3
<1>5. QED
  BY <1>2, <1>3, <1>4 DEF Rowed, HistoryIsFinal, InQueue

LEMMA CallerIds ==
    ASSUME Typed, Rowed, NEW c \in Callers,
           \/ CallerStep(c)
           \/ \E k \in Keys, op \in {"none", "top", "bottom"} : FindDownload(c, k, op)
           \/ \E i \in Ids : SabSnapshot(c, i) \/ Mark(c, i)
    PROVE  \A b \in Callers : cid'[b] < nextId'
<1>0. /\ cid \in [Callers -> Ids \cup {0}] /\ nextId \in Nat /\ nextId > 0
      /\ \A b \in Callers : cid[b] < nextId
      /\ \A i \in Ids : (InQueue(i) \/ history[i] # NoRow) => i < nextId
      /\ (cpc[c] = "mark" => cid[c] \in Ids)
  <2>1. nextId \in 1 .. MaxIds + 1
    BY DEF Typed, TypeOK
  <2>2. QED
    BY <2>1, Sizes DEF Typed, TypeOK, Shape, Rowed
<1>1. ASSUME nextId' = nextId,
             \E i \in Ids \cup {0} : cid' = [cid EXCEPT ![c] = i] /\ i < nextId
      PROVE  \A b \in Callers : cid'[b] < nextId'
  BY <1>0, <1>1
<1>2. ASSUME NEW at, NEW i \in Ids \cup {0}, i < nextId, CNext(c, at, i)
      PROVE  \E j \in Ids \cup {0} : cid' = [cid EXCEPT ![c] = j] /\ j < nextId
  BY <1>0, <1>2 DEF CNext
<1>3. CASE Supersede(c) \/ Signal(c) \/ WaitOver(c) \/ Clear(c)
  BY <1>0, <1>3 DEF Supersede, Signal, WaitOver, Clear, store
<1>4. ASSUME NEW k \in Keys, NEW op, FindDownload(c, k, op)
      PROVE  \A b \in Callers : cid'[b] < nextId'
  <2>1. nextId' = nextId /\ (cid' = cid \/ \E i \in Matches(queue, k) : cid' = [cid EXCEPT ![c] = i])
    BY <1>4 DEF FindDownload, store
  <2>2. QED
    BY <1>0, <1>1, <2>1 DEF Matches, InQueue
<1>5. CASE FindHistory(c)
  <2>1. nextId' = nextId
    BY <1>5 DEF FindHistory, store
  <2>2. CASE cid' = cid
    BY <1>0, <2>1, <2>2
  <2>3. CASE \E i \in Found(ckey[c]) : \E at : CNext(c, at, i)
    BY <1>0, <1>1, <1>2, <2>1, <2>3 DEF Found, Matches
  <2>4. QED
    BY <1>5, <2>2, <2>3 DEF FindHistory
<1>6. CASE Insert(c)
  <2>1. /\ nextId' = nextId + 1
        /\ cid' = [cid EXCEPT ![c] = IF AfterEnqueue(c) = "idle" THEN 0 ELSE nextId]
    BY <1>6 DEF Insert, CNext
  <2>2. cid \in [Callers -> Nat]
    BY <1>0, Sizes
  <2>3. QED
    BY <1>0, <2>1, <2>2
<1>7. CASE ApplyPriority(c) \/ Record(c)
  <2>1. nextId' = nextId /\ CNext(c, "idle", 0)
    BY <1>7 DEF ApplyPriority, Record
  <2>2. QED
    BY <1>0, <1>1, <1>2, <2>1
<1>8. CASE Delete(c)
  <2>1. nextId' = nextId /\ CNext(c, IF csnap[c] = NoRow THEN "idle" ELSE "record", cid[c])
    BY <1>8 DEF Delete
  <2>2. QED
    BY <1>0, <1>1, <1>2, <2>1
<1>9. ASSUME NEW i \in Ids, SabSnapshot(c, i) \/ Mark(c, i)
      PROVE  \A b \in Callers : cid'[b] < nextId'
  <2>1. nextId' = nextId /\ cid' = [cid EXCEPT ![c] = i] /\ i < nextId
    BY <1>0, <1>9 DEF SabSnapshot, Mark, store
  <2>2. QED
    BY <1>1, <2>1
<1>10. QED
  BY <1>0, <1>3, <1>4, <1>5, <1>6, <1>7, <1>8, <1>9 DEF CallerStep

LEMMA OutsideBase ==
    ASSUME Base, Typed', ClaimExclusive', Outside, \A c \in Callers : cid'[c] < nextId'
    PROVE  Base'
BY OutsideMirror, OutsideRowed DEF Base

(* Two workers in the claimed window hold different rows.                      *)
LEMMA Apart ==
    ASSUME Base, NEW v \in Workers, NEW w \in Workers, v # w,
           wpc[v] \in Held, wpc[w] \in Held
    PROVE  dl[v].id # dl[w].id
<1> DEFINE i == dl[v].id
<1>1. i \in Ids /\ ClaimExclusive
  BY BaseParts
<1>2. claimed[i] = v /\ (dl[w].id = i => claimed[i] = w)
  BY <1>1 DEF ClaimExclusive, Holds, Held
<1>3. QED
  BY <1>2

(* What a write leaves of the buckets.                                         *)
LEMMA WriteRows ==
    ASSUME Base, NEW w \in Workers, NEW row \in Row, NEW at, Writes(w, row, at)
    PROVE  /\ dl[w].id \in Ids /\ dl[w].id < nextId /\ queue'[dl[w].id] = row
           /\ \A i \in Ids : i # dl[w].id => queue'[i] = queue[i]
           /\ wpc[w] \in Held /\ row # NoRow
<1>1. wpc[w] \in Held /\ queue' = [queue EXCEPT ![dl[w].id] = row] /\ row # NoRow
  BY NoRowAssumption DEF Writes, Held
<1>2. dl[w].id \in Ids /\ dl[w].id < nextId /\ queue \in [Ids -> Row \cup {NoRow}]
  BY <1>1, BaseParts DEF Rowed, TypeOK
<1>3. QED
  BY <1>1, <1>2

LEMMA ArchiveRows ==
    ASSUME Base, NEW w \in Workers, Archives(w)
    PROVE  /\ wpc[w] \in Held /\ dl[w].id \in Ids /\ queue'[dl[w].id] = NoRow
           /\ \A i \in Ids : i # dl[w].id => queue'[i] = queue[i] /\ history'[i] = history[i]
           /\ InQueue(dl[w].id) => history'[dl[w].id] = dl[w] /\ queue[dl[w].id] = dl[w]
           /\ ~InQueue(dl[w].id) => history'[dl[w].id] = history[dl[w].id]
           /\ Terminal(dl[w])
<1>1. wpc[w] \in Held /\ dl[w].id \in Ids /\ wpc[w] \in Written /\ Mirror(w)
      /\ queue \in [Ids -> Row \cup {NoRow}] /\ history \in [Ids -> Row \cup {NoRow}]
  BY BaseParts DEF Archives, Held, Working, Written, TypeOK
<1>2. Terminal(dl[w]) /\ queue[dl[w].id] \in {NoRow, dl[w]}
  BY <1>1 DEF Mirror, Archives
<1>3. QED
  BY <1>1, <1>2 DEF Archives, InQueue

LEMMA TerminalStatus ==
    ASSUME NEW r, Terminal(r)
    PROVE  r.status \in {"completed", "failed"}
BY DEF Terminal, GivenUp

LEMMA WorkerRowed ==
    ASSUME Base, NEW w \in Workers, WorkerEffect(w)
    PROVE  Rowed'
<1>0. WorkerFrame(w) /\ nextId' = nextId /\ Rowed /\ cid' = cid
  BY BaseParts DEF WorkerEffect, WorkerFrame
<1>1. ASSUME NEW i \in Ids
      PROVE  /\ queue'[i] # NoRow => queue'[i].id = i /\ i < nextId
             /\ history'[i] # NoRow => i < nextId
  <2>1. CASE UNCHANGED <<queue, history>>
    BY <1>0, <2>1 DEF Rowed, InQueue
  <2>2. CASE Archives(w)
    BY <1>0, <2>2, ArchiveRows DEF Rowed, InQueue
  <2>3. ASSUME NEW row \in Row, NEW at, Writes(w, row, at)
        PROVE  /\ queue'[i] # NoRow => queue'[i].id = i /\ i < nextId
               /\ history'[i] # NoRow => i < nextId
    <3>1. history' = history /\ row.id = dl[w].id
      BY <2>3 DEF Writes
    <3>2. QED
      BY <1>0, <2>3, <3>1, WriteRows DEF Rowed, InQueue
  <2>4. QED
    BY <2>1, <2>2, <2>3 DEF WorkerEffect, Quiet, Picks, LetsGo
<1>2. ASSUME NEW v \in Workers
      PROVE  /\ \A r \in seen'[v] : r.id < nextId
             /\ wpc'[v] \in Held => dl'[v].id < nextId
  <2>1. CASE v # w
    BY <1>0, <2>1 DEF WorkerFrame, Rowed
  <2>2. CASE v = w /\ Quiet(w)
    <3>1. \A r \in seen'[w] : r.id < nextId
      BY <1>0, <2>2 DEF Quiet, Ticks, Lists, Skips, Works, Leaves, Rowed
    <3>2. wpc'[w] \in Held => wpc[w] \in Held /\ dl'[w] = dl[w]
      BY <2>2 DEF Quiet, Ticks, Lists, Skips, Works, Leaves, Held, Working
    <3>3. QED
      BY <1>0, <2>2, <3>1, <3>2 DEF Rowed
  <2>3. CASE v = w /\ Picks(w)
    BY <1>0, <2>3 DEF Picks, Rowed
  <2>4. CASE v = w /\ (Archives(w) \/ LetsGo(w))
    BY <1>0, <2>4 DEF Archives, LetsGo, Held, Working, Rowed
  <2>5. ASSUME v = w, NEW row \in Row, NEW at, Writes(w, row, at)
        PROVE  /\ \A r \in seen'[v] : r.id < nextId
               /\ wpc'[v] \in Held => dl'[v].id < nextId
    BY <1>0, <2>5, WriteRows DEF Writes, Rowed
  <2>6. QED
    BY <2>1, <2>2, <2>3, <2>4, <2>5 DEF WorkerEffect
<1>3. QED
  BY <1>0, <1>1, <1>2 DEF Rowed, InQueue

LEMMA WorkerMirror ==
    ASSUME Base, NEW w \in Workers, WorkerEffect(w), NEW v \in Workers
    PROVE  Mirror(v)'
<1> USE DEF Written
<1>0. WorkerFrame(w) /\ Mirror(v) /\ Mirror(w)
  BY BaseParts DEF WorkerEffect
<1>1. CASE v # w
  <2>1. wpc'[v] = wpc[v] /\ dl'[v] = dl[v]
    BY <1>0, <1>1 DEF WorkerFrame
  <2>2. ASSUME wpc[v] \in Written PROVE queue'[dl[v].id] \in {NoRow, dl[v]}
    <3>1. wpc[v] \in Held /\ dl[v].id \in Ids /\ queue[dl[v].id] \in {NoRow, dl[v]}
      BY <1>0, <2>2, BaseParts DEF Held, Working, Mirror
    <3>2. CASE queue' = queue
      BY <3>1, <3>2
    <3>3. CASE Archives(w)
      BY <1>1, <3>1, <3>3, Apart, ArchiveRows
    <3>4. ASSUME NEW row \in Row, NEW at, Writes(w, row, at)
          PROVE  queue'[dl[v].id] \in {NoRow, dl[v]}
      BY <1>1, <3>1, <3>4, Apart, WriteRows
    <3>5. QED
      BY <3>2, <3>3, <3>4 DEF WorkerEffect, Quiet, Picks, LetsGo
  <2>3. QED
    BY <1>0, <2>1, <2>2 DEF Mirror
<1>2. CASE v = w
  <2>1. CASE Quiet(w)
    BY <1>0, <1>2, <2>1 DEF Quiet, Ticks, Lists, Skips, Works, Leaves, Mirror
  <2>2. CASE Picks(w) \/ Archives(w) \/ LetsGo(w)
    BY <1>0, <1>2, <2>2 DEF Picks, Archives, LetsGo, Mirror
  <2>3. ASSUME NEW row \in Row, NEW at, Writes(w, row, at) PROVE Mirror(v)'
    <3>1. /\ queue'[dl[w].id] = row /\ dl'[w] = row /\ wpc'[w] = at /\ row.id = dl[w].id
          /\ Placed(row, at)
      BY <2>3, WriteRows DEF Writes
    <3>2. queue'[dl'[w].id] = dl'[w]
      BY <3>1
    <3>3. QED
      BY <1>2, <3>1, <3>2 DEF Mirror, Placed
  <2>4. QED
    BY <2>1, <2>2, <2>3 DEF WorkerEffect
<1>3. QED
  BY <1>1, <1>2

LEMMA WorkerHistory ==
    ASSUME Base, NEW w \in Workers, WorkerEffect(w)
    PROVE  HistoryIsFinal'
<1>0. HistoryIsFinal
  BY BaseParts
<1>1. CASE history' = history
  BY <1>0, <1>1 DEF HistoryIsFinal
<1>2. CASE Archives(w)
  BY <1>0, <1>2, ArchiveRows, TerminalStatus DEF HistoryIsFinal
<1>3. QED
  BY <1>1, <1>2 DEF WorkerEffect, Quiet, Picks, LetsGo, Writes

LEMMA RestartBase ==
    ASSUME Base, Typed', ClaimExclusive', Restart
    PROVE  Base'
<1>1. /\ UNCHANGED <<queue, history, nextId>> /\ Rowed /\ HistoryIsFinal
      /\ \A w \in Workers : wpc'[w] = "idle" /\ seen'[w] = {}
      /\ \A c \in Callers : cid'[c] = 0
  BY BaseParts DEF Restart, Booted, store
<1>2. 0 < nextId
  <2>1. nextId \in 1 .. MaxIds + 1
    BY BaseParts DEF TypeOK
  <2>2. QED
    BY <2>1, Sizes
<1>3. Rowed'
  BY <1>1, <1>2 DEF Rowed, InQueue, Held, Working
<1>4. HistoryIsFinal' /\ \A w \in Workers : Mirror(w)'
  BY <1>1 DEF HistoryIsFinal, Mirror, Written
<1>5. QED
  BY <1>3, <1>4 DEF Base

LEMMA NextCases ==
    ASSUME [Next]_vars
    PROVE  \/ \E w \in Workers : WorkerStep(w) \/ Progress(w) \/ Panic(w)
           \/ \E c \in Callers :
                 \/ CallerStep(c)
                 \/ \E k \in Keys, op \in {"none", "top", "bottom"} : FindDownload(c, k, op)
                 \/ \E i \in Ids : SabSnapshot(c, i) \/ Mark(c, i)
           \/ \/ \E i \in Ids : DeleteHistory(i) \/ \E op \in Moves : Move(i, op)
              \/ ClearHistory \/ Pause \/ Resume \/ CooldownOver \/ StepUp
              \/ Shutdown \/ UNCHANGED vars
           \/ Restart
BY DEF Next

LEMMA NextBase == Base /\ [Next]_vars => Base'
<1> SUFFICES ASSUME Base, [Next]_vars PROVE Base'
  OBVIOUS
<1>0. Typed' /\ ClaimExclusive' /\ Typed /\ Rowed
  BY BaseParts, NextTyped, NextExclusive
<1>1. ASSUME NEW w \in Workers, WorkerStep(w) \/ Progress(w) \/ Panic(w)
      PROVE  Base'
  <2>1. WorkerEffect(w)
    BY <1>1, WorkerEffects
  <2>2. QED
    BY <1>0, <2>1, WorkerRowed, WorkerMirror, WorkerHistory DEF Base
<1>2. ASSUME NEW c \in Callers,
             \/ CallerStep(c)
             \/ \E k \in Keys, op \in {"none", "top", "bottom"} : FindDownload(c, k, op)
             \/ \E i \in Ids : SabSnapshot(c, i) \/ Mark(c, i)
      PROVE  Base'
  <2>1. Outside
    BY <1>0, <1>2, CallerOutside
  <2>2. \A b \in Callers : cid'[b] < nextId'
    BY <1>0, <1>2, CallerIds
  <2>3. QED
    BY <1>0, <2>1, <2>2, OutsideBase
<1>3. CASE \/ \E i \in Ids : DeleteHistory(i) \/ \E op \in Moves : Move(i, op)
           \/ ClearHistory \/ Pause \/ Resume \/ CooldownOver \/ StepUp
           \/ Shutdown \/ UNCHANGED vars
  <2>1. Outside /\ UNCHANGED <<nextId, cid>>
    BY <1>0, <1>3, OthersOutside
  <2>2. \A b \in Callers : cid'[b] < nextId'
    BY <1>0, <2>1 DEF Rowed
  <2>3. QED
    BY <1>0, <2>1, <2>2, OutsideBase
<1>4. CASE Restart
  BY <1>0, <1>4, RestartBase
<1>5. QED
  BY <1>1, <1>2, <1>3, <1>4, NextCases

LEMMA InitBase == Init => Base
<1> SUFFICES ASSUME Init PROVE Base
  OBVIOUS
<1>1. Typed
  BY InitTyped
<1>2. ClaimExclusive
  BY Sizes DEF Init, ClaimExclusive, Holds, Working
<1>3. Rowed /\ HistoryIsFinal /\ \A w \in Workers : Mirror(w)
  BY DEF Init, Rowed, HistoryIsFinal, Mirror, InQueue, Held, Working, Written
<1>4. QED
  BY <1>1, <1>2, <1>3 DEF Base

LEMMA BaseAlways == Spec => []Base
BY InitBase, NextBase, PTL DEF Spec

(* MoveToHistory copies what the bucket holds, which is what the worker wrote  *)
(* last: through stale lists, moves, cancels and crashes, nothing that is not  *)
(* completed or failed reaches history.                                        *)
THEOREM HistoryFinal == Spec => []HistoryIsFinal
<1>1. Base => HistoryIsFinal
  BY BaseParts
<1>2. QED
  BY <1>1, BaseAlways, PTL

(* The bucket follows the worker that holds the row, for any number of workers *)
(* with stale lists and any moves, cancels, grabs and faults.                  *)
THEOREM BucketFollows == Spec => []BucketFollowsWorker
<1>1. Base => BucketFollowsWorker
  BY BaseParts DEF Mirror, BucketFollowsWorker
<1>2. QED
  BY <1>1, BaseAlways, PTL

-------------------------------------------------------------------------------
(* Abandoned rows.                                                             *)

LEMMA OutsideAbandoned ==
    ASSUME Base, Outside, NEW i \in Ids, Abandoned(i)
    PROVE  \/ Abandoned(i)' /\ queue'[i] = queue[i]
           \/ \E c \in Callers : cpc[c] = "delete" /\ cid[c] = i
<1>1. /\ InQueue(i) /\ InProgress(queue[i]) /\ OutsideQueue(i)
      /\ UNCHANGED <<wpc, seen, dl>>
  BY DEF Abandoned, Outside
<1>2. ~Reordered(i)
  BY <1>1 DEF Reordered, InProgress
<1>3. i # nextId
  BY <1>1, BaseParts DEF Rowed
<1>4. CASE queue'[i] = queue[i]
  BY <1>1, <1>4 DEF Abandoned, Holds, InQueue
<1>5. QED
  BY <1>1, <1>2, <1>3, <1>4 DEF OutsideQueue

LEMMA WorkerAbandoned ==
    ASSUME Base, NEW w \in Workers, WorkerEffect(w), NEW i \in Ids, Abandoned(i)
    PROVE  Abandoned(i)' /\ queue'[i] = queue[i]
<1>0. /\ WorkerFrame(w) /\ InQueue(i) /\ InProgress(queue[i])
      /\ wpc[w] \in Held => dl[w].id # i
      /\ \A r \in seen[w] : r.id # i
  BY DEF WorkerEffect, Abandoned, Holds, Held
<1>1. queue'[i] = queue[i]
  <2>1. CASE queue' = queue
    BY <2>1
  <2>2. CASE Archives(w)
    BY <1>0, <2>2, ArchiveRows
  <2>3. ASSUME NEW row \in Row, NEW at, Writes(w, row, at)
        PROVE  queue'[i] = queue[i]
    BY <1>0, <2>3, WriteRows
  <2>4. QED
    BY <2>1, <2>2, <2>3 DEF WorkerEffect, Quiet, Picks, LetsGo
<1>2. /\ wpc'[w] \in Held => dl'[w].id # i
      /\ \A r \in seen'[w] : r.id # i
  <2>1. CASE Quiet(w)
    <3>1. dl' = dl /\ (wpc'[w] \in Held => wpc[w] \in Held)
      BY <2>1 DEF Quiet, Ticks, Lists, Skips, Works, Leaves, Held, Working
    <3>2. CASE Lists(w)
      <4>1. ASSUME NEW r \in seen'[w], r.id = i PROVE FALSE
        <5>1. PICK j \in Ids : InQueue(j) /\ queue[j] = r /\ Due(r)
          BY <3>2, <4>1 DEF Lists
        <5>2. j = i
          BY <4>1, <5>1, BaseParts DEF Rowed
        <5>3. QED
          BY <1>0, <5>1, <5>2 DEF InProgress, Due
      <4>2. QED
        BY <1>0, <3>1, <4>1
    <3>3. CASE Ticks(w) \/ Skips(w) \/ Works(w) \/ Leaves(w)
      BY <1>0, <3>1, <3>3 DEF Ticks, Skips, Works, Leaves
    <3>4. QED
      BY <2>1, <3>2, <3>3 DEF Quiet
  <2>2. CASE Picks(w)
    BY <1>0, <2>2 DEF Picks
  <2>3. CASE Archives(w) \/ LetsGo(w)
    BY <1>0, <2>3 DEF Archives, LetsGo, Held, Working
  <2>4. ASSUME NEW row \in Row, NEW at, Writes(w, row, at)
        PROVE  /\ wpc'[w] \in Held => dl'[w].id # i
               /\ \A r \in seen'[w] : r.id # i
    BY <1>0, <2>4 DEF Writes, Held
  <2>5. QED
    BY <2>1, <2>2, <2>3, <2>4 DEF WorkerEffect
<1>3. ASSUME NEW v \in Workers
      PROVE  ~Holds(v, i)' /\ \A r \in seen'[v] : r.id # i
  <2>1. CASE v = w
    BY <1>2, <2>1 DEF Holds, Held
  <2>2. CASE v # w
    BY <1>0, <2>2 DEF WorkerFrame, Abandoned, Holds
  <2>3. QED
    BY <2>1, <2>2
<1>4. QED
  BY <1>0, <1>1, <1>3 DEF Abandoned, InQueue

LEMMA NextAbandoned ==
    ASSUME Base, [Next]_vars, NEW i \in Ids, Abandoned(i)
    PROVE  \/ Abandoned(i)' /\ queue'[i] = queue[i]
           \/ \E c \in Callers : cpc[c] = "delete" /\ cid[c] = i
<1>0. Typed /\ Rowed
  BY BaseParts
<1>1. ASSUME NEW w \in Workers, WorkerStep(w) \/ Progress(w) \/ Panic(w)
      PROVE  Abandoned(i)' /\ queue'[i] = queue[i]
  BY <1>1, WorkerEffects, WorkerAbandoned
<1>2. ASSUME NEW c \in Callers,
             \/ CallerStep(c)
             \/ \E k \in Keys, op \in {"none", "top", "bottom"} : FindDownload(c, k, op)
             \/ \E j \in Ids : SabSnapshot(c, j) \/ Mark(c, j)
      PROVE  Outside
  BY <1>0, <1>2, CallerOutside
<1>3. CASE \/ \E j \in Ids : DeleteHistory(j) \/ \E op \in Moves : Move(j, op)
           \/ ClearHistory \/ Pause \/ Resume \/ CooldownOver \/ StepUp
           \/ Shutdown \/ UNCHANGED vars
  BY <1>0, <1>3, OthersOutside, OutsideAbandoned
<1>4. CASE Restart
  BY <1>4 DEF Restart, Booted, store, Abandoned, Holds, InQueue, Working
<1>5. QED
  BY <1>1, <1>2, <1>3, <1>4, NextCases, OutsideAbandoned

(* A row that a crash or a panic left in progress is dead: through any number  *)
(* of lists, grabs, moves and restarts it stays as it is and is never taken    *)
(* again, until someone's cancel deletes it.                                   *)
THEOREM AbandonedStays == Spec => AbandonedUntilCancelled
<1>1. Base /\ [Next]_vars =>
        [\A i \in Ids : Abandoned(i) =>
          \/ Abandoned(i)' /\ queue'[i] = queue[i]
          \/ \E c \in Callers : cpc[c] = "delete" /\ cid[c] = i]_<<queue, wpc, seen, dl>>
  BY NextAbandoned
<1>2. QED
  BY <1>1, BaseAlways, PTL DEF Spec, AbandonedUntilCancelled

-------------------------------------------------------------------------------
(* Finished rows in transit to history.                                        *)

LEMMA OutsideTransit ==
    ASSUME Base, TerminalInTransit, Outside
    PROVE  TerminalInTransit'
<1> SUFFICES ASSUME NEW i \in Ids, queue'[i] # NoRow, Terminal(queue'[i])
             PROVE  \E w \in Workers : wpc'[w] \in {"giveup", "archive"} /\ dl'[w].id = i
  BY DEF TerminalInTransit, InQueue
<1>1. OutsideQueue(i) /\ UNCHANGED <<wpc, dl>>
  BY DEF Outside
<1>2. queue'[i].status # "pending"
  BY DEF Terminal, GivenUp
<1>3. ~Reordered(i)
  BY <1>2, ReorderedRow, BaseParts
<1>4. queue'[i] = queue[i]
  BY <1>1, <1>2, <1>3, FreshFields DEF OutsideQueue
<1>5. QED
  BY <1>1, <1>4 DEF TerminalInTransit, InQueue

LEMMA WorkerTransit ==
    ASSUME Base, TerminalInTransit, NEW w \in Workers, WorkerEffect(w), "panic" \notin Faults
    PROVE  TerminalInTransit'
<1> SUFFICES ASSUME NEW i \in Ids, queue'[i] # NoRow, Terminal(queue'[i])
             PROVE  \E v \in Workers : wpc'[v] \in {"giveup", "archive"} /\ dl'[v].id = i
  BY DEF TerminalInTransit, InQueue
<1> DEFINE Carries(v) == wpc[v] \in {"giveup", "archive"} /\ dl[v].id = i
<1>0. WorkerFrame(w)
  BY DEF WorkerEffect
<1>1. ASSUME queue'[i] = queue[i]
      PROVE  \E v \in Workers : Carries(v)
  BY <1>1 DEF TerminalInTransit, InQueue
<1>2. ASSUME NEW v \in Workers, Carries(v), v # w
      PROVE  wpc'[v] \in {"giveup", "archive"} /\ dl'[v].id = i
  BY <1>0, <1>2 DEF WorkerFrame
<1>3. CASE Quiet(w) \/ Picks(w) \/ LetsGo(w)
  <2>1. queue'[i] = queue[i] /\ wpc[w] \notin {"giveup", "archive"}
    BY <1>3 DEF Quiet, Ticks, Lists, Skips, Works, Leaves, Picks, LetsGo
  <2>2. QED
    BY <1>1, <1>2, <2>1
<1>4. CASE Archives(w)
  <2>1. i # dl[w].id /\ queue'[i] = queue[i]
    BY <1>4, ArchiveRows
  <2>2. QED
    BY <1>1, <1>2, <2>1
<1>5. ASSUME NEW row \in Row, NEW at, Writes(w, row, at)
      PROVE  \E v \in Workers : wpc'[v] \in {"giveup", "archive"} /\ dl'[v].id = i
  <2>1. CASE i = dl[w].id
    <3>1. queue'[i] = row /\ wpc'[w] = at /\ dl'[w].id = i /\ Placed(row, at)
      BY <1>5, <2>1, WriteRows DEF Writes
    <3>2. at \in {"giveup", "archive"}
      BY <3>1 DEF Placed, Terminal, GivenUp
    <3>3. QED
      BY <3>1, <3>2
  <2>2. CASE i # dl[w].id
    <3>1. queue'[i] = queue[i]
      BY <1>5, <2>2, WriteRows
    <3>2. QED
      BY <1>1, <1>2, <2>2, <3>1
  <2>3. QED
    BY <2>1, <2>2
<1>6. QED
  BY <1>3, <1>4, <1>5 DEF WorkerEffect

LEMMA NextTransit ==
    ASSUME Base, TerminalInTransit, [Next]_vars, Faults \cap {"crash", "panic"} = {}
    PROVE  TerminalInTransit'
<1>0. Typed /\ Rowed
  BY BaseParts
<1>1. ASSUME NEW w \in Workers, WorkerStep(w) \/ Progress(w) \/ Panic(w)
      PROVE  TerminalInTransit'
  BY <1>1, WorkerEffects, WorkerTransit
<1>2. ASSUME NEW c \in Callers,
             \/ CallerStep(c)
             \/ \E k \in Keys, op \in {"none", "top", "bottom"} : FindDownload(c, k, op)
             \/ \E j \in Ids : SabSnapshot(c, j) \/ Mark(c, j)
      PROVE  TerminalInTransit'
  BY <1>0, <1>2, CallerOutside, OutsideTransit
<1>3. CASE \/ \E j \in Ids : DeleteHistory(j) \/ \E op \in Moves : Move(j, op)
           \/ ClearHistory \/ Pause \/ Resume \/ CooldownOver \/ StepUp
           \/ Shutdown \/ UNCHANGED vars
  BY <1>0, <1>3, OthersOutside, OutsideTransit
<1>4. CASE Restart
  <2>1. UNCHANGED queue /\ \A w \in Workers : wpc[w] = "idle"
    BY <1>4 DEF Restart, store
  <2>2. QED
    BY <2>1 DEF TerminalInTransit, InQueue
<1>5. QED
  BY <1>1, <1>2, <1>3, <1>4, NextCases

(* No finished row is stranded in the queue, where SABnzbd's view hides it and *)
(* its key stays blocked, as long as every job runs to its end: cancels and    *)
(* shutdowns do not strand one, a crash or a panic can.                        *)
THEOREM NoneStranded ==
    ASSUME Faults \cap {"crash", "panic"} = {}
    PROVE  Spec => []TerminalInTransit
<1>1. Init => TerminalInTransit
  BY DEF Init, TerminalInTransit, InQueue
<1>2. Base /\ TerminalInTransit /\ [Next]_vars => TerminalInTransit'
  BY NextTransit
<1>3. QED
  BY <1>1, <1>2, BaseAlways, PTL DEF Spec

-------------------------------------------------------------------------------
(* Rows in progress.  A worker that has left its row in progress did so for a  *)
(* cancel that is still under way, and a shutdown waits for the cancels.       *)
Left(w) == wpc[w] = "release" /\ InQueue(dl[w].id) /\ InProgress(queue[dl[w].id])
OrphanInv ==
    /\ NoOrphans
    /\ \A w \in Workers : Left(w) => \E c \in Callers : Cancelling(c, dl[w].id)
    /\ stopping => \A c \in Callers : cpc[c] = "idle"

LEMMA CancelGoesOn ==
    ASSUME Typed, NEW c \in Callers,
           \/ CallerStep(c)
           \/ \E k \in Keys, op \in {"none", "top", "bottom"} : FindDownload(c, k, op)
           \/ \E i \in Ids : SabSnapshot(c, i) \/ Mark(c, i)
    PROVE  \A b \in Callers, i \in Ids :
              Cancelling(b, i) => Cancelling(b, i)' \/ queue'[i] = NoRow
<1> SUFFICES ASSUME NEW b \in Callers, NEW i \in Ids, Cancelling(b, i)
             PROVE  Cancelling(b, i)' \/ queue'[i] = NoRow
  OBVIOUS
<1>0. /\ cpc \in [Callers -> CallerPositions] /\ cid \in [Callers -> Ids \cup {0}]
      /\ queue \in [Ids -> Row \cup {NoRow}]
      /\ cpc[b] \in {"signal", "wait", "clear", "delete"} /\ cid[b] = i
  BY DEF Typed, TypeOK, Cancelling
<1>1. CASE Supersede(c) \/ Signal(c) \/ WaitOver(c) \/ Clear(c)
  <2>1. /\ cid' = cid
        /\ \/ cpc[c] = "supersede"
           \/ cpc' = [cpc EXCEPT ![c] = "wait"] \/ cpc' = [cpc EXCEPT ![c] = "clear"]
           \/ cpc' = [cpc EXCEPT ![c] = "delete"]
        /\ \A d \in Callers \ {c} : cpc'[d] = cpc[d]
    BY <1>0, <1>1 DEF Supersede, Signal, WaitOver, Clear, CGoto
  <2>2. QED
    BY <1>0, <2>1 DEF Cancelling
<1>2. CASE \/ FindHistory(c) \/ Insert(c) \/ ApplyPriority(c) \/ Record(c)
           \/ \E k \in Keys, op \in {"none", "top", "bottom"} : FindDownload(c, k, op)
           \/ \E j \in Ids : SabSnapshot(c, j) \/ Mark(c, j)
  <2>1. /\ cpc[c] \notin {"signal", "wait", "clear", "delete"}
        /\ \A d \in Callers \ {c} : cpc'[d] = cpc[d] /\ cid'[d] = cid[d]
    BY <1>0, <1>2 DEF FindHistory, Insert, ApplyPriority, Record, FindDownload,
       SabSnapshot, Mark, CNext, CGoto
  <2>2. QED
    BY <1>0, <2>1 DEF Cancelling
<1>3. CASE Delete(c)
  <2>1. /\ queue' = [queue EXCEPT ![cid[c]] = NoRow]
        /\ \A d \in Callers \ {c} : cpc'[d] = cpc[d] /\ cid'[d] = cid[d]
    BY <1>0, <1>3 DEF Delete, CNext, CGoto
  <2>2. QED
    BY <1>0, <2>1 DEF Cancelling
<1>4. cpc[c] = "mark" => cid[c] \in Ids
  BY DEF Typed, Shape
<1>5. QED
  BY <1>1, <1>2, <1>3, <1>4 DEF CallerStep

LEMMA NoCallsWhileStopping ==
    ASSUME NEW c \in Callers, cpc[c] = "idle",
           \/ CallerStep(c)
           \/ \E k \in Keys, op \in {"none", "top", "bottom"} : FindDownload(c, k, op)
           \/ \E i \in Ids : SabSnapshot(c, i) \/ Mark(c, i)
    PROVE  ~stopping
BY DEF CallerStep, FindHistory, Supersede, Insert, ApplyPriority, Mark, Signal, WaitOver,
   Clear, Delete, Record, FindDownload, SabSnapshot

LEMMA CallersKeepStopping ==
    ASSUME NEW c \in Callers,
           \/ CallerStep(c)
           \/ \E k \in Keys, op \in {"none", "top", "bottom"} : FindDownload(c, k, op)
           \/ \E i \in Ids : SabSnapshot(c, i) \/ Mark(c, i)
    PROVE  stopping' = stopping
BY DEF CallerStep, FindHistory, Supersede, Insert, ApplyPriority, Mark, Signal, WaitOver,
   Clear, Delete, Record, FindDownload, SabSnapshot, flags

LEMMA OutsideOrphans ==
    ASSUME Base, OrphanInv, Outside,
           \A b \in Callers, i \in Ids :
              Cancelling(b, i) => Cancelling(b, i)' \/ queue'[i] = NoRow
    PROVE  /\ NoOrphans'
           /\ \A w \in Workers : Left(w)' => \E c \in Callers : Cancelling(c, dl[w].id)'
<1>0. UNCHANGED <<wpc, dl>>
  BY DEF Outside
<1>1. ASSUME NEW i \in Ids, queue'[i] # NoRow, InProgress(queue'[i])
      PROVE  queue'[i] = queue[i]
  <2>1. queue'[i].status # "pending" /\ OutsideQueue(i)
    BY <1>1 DEF InProgress, Outside
  <2>2. ~Reordered(i)
    BY <2>1, ReorderedRow, BaseParts
  <2>3. QED
    BY <1>1, <2>1, <2>2, FreshFields DEF OutsideQueue
<1>2. NoOrphans'
  BY <1>0, <1>1 DEF OrphanInv, NoOrphans, InQueue, Holds
<1>3. ASSUME NEW w \in Workers, Left(w)'
      PROVE  \E c \in Callers : Cancelling(c, dl[w].id)'
  <2>1. /\ wpc[w] = "release" /\ queue'[dl[w].id] # NoRow
        /\ InProgress(queue'[dl[w].id]) /\ dl'[w] = dl[w]
    BY <1>0, <1>3 DEF Left, InQueue
  <2>2. dl[w].id \in Ids
    BY <2>1, BaseParts DEF Held
  <2>3. Left(w)
    BY <1>1, <2>1, <2>2 DEF Left, InQueue
  <2>4. QED
    BY <2>1, <2>2, <2>3 DEF OrphanInv
<1>4. QED
  BY <1>2, <1>3

LEMMA WorkerOrphans ==
    ASSUME Base, OrphanInv, NoMarkLeak, NEW w \in Workers, WorkerEffect(w),
           "panic" \notin Faults
    PROVE  OrphanInv'
<1>0. /\ WorkerFrame(w) /\ UNCHANGED <<stopping, cpc, cid>>
      /\ \A b \in Callers, i \in Ids : Cancelling(b, i)' <=> Cancelling(b, i)
  BY DEF WorkerEffect, WorkerFrame, Cancelling
<1>1. ASSUME NEW i \in Ids, queue'[i] # NoRow, InProgress(queue'[i])
      PROVE  \/ \E v \in Workers : Holds(v, i)'
             \/ \E c \in Callers : Cancelling(c, i)
  <2>1. ASSUME queue'[i] = queue[i]
        PROVE  \/ \E v \in Workers : Holds(v, i)
               \/ \E c \in Callers : Cancelling(c, i)
    BY <1>1, <2>1 DEF OrphanInv, NoOrphans, InQueue
  <2>2. ASSUME NEW v \in Workers, v # w, Holds(v, i) PROVE Holds(v, i)'
    BY <1>0, <2>2 DEF WorkerFrame, Holds
  <2>3. CASE Quiet(w) \/ Picks(w)
    <3>1. queue'[i] = queue[i] /\ (Holds(w, i) => Holds(w, i)')
      BY <2>3 DEF Quiet, Ticks, Lists, Skips, Works, Leaves, Picks, Holds, Working
    <3>2. QED
      BY <2>1, <2>2, <3>1
  <2>4. CASE LetsGo(w)
    <3>1. queue'[i] = queue[i] /\ wpc[w] = "release"
      BY <2>4 DEF LetsGo
    <3>2. Holds(w, i) => \E c \in Callers : Cancelling(c, i)
      <4>1. Holds(w, i) => Left(w) /\ dl[w].id = i
        BY <1>1, <3>1 DEF Holds, Left, InQueue
      <4>2. QED
        BY <4>1 DEF OrphanInv
    <3>3. QED
      BY <2>1, <2>2, <3>1, <3>2
  <2>5. CASE Archives(w)
    <3>1. i # dl[w].id /\ queue'[i] = queue[i]
      BY <1>1, <2>5, ArchiveRows
    <3>2. QED
      BY <2>1, <2>2, <3>1 DEF Holds
  <2>6. ASSUME NEW row \in Row, NEW at, Writes(w, row, at)
        PROVE  \/ \E v \in Workers : Holds(v, i)'
               \/ \E c \in Callers : Cancelling(c, i)
    <3>1. CASE i = dl[w].id
      <4>1. queue'[i] = row /\ wpc'[w] = at /\ dl'[w].id = i /\ Placed(row, at)
        BY <2>6, <3>1, WriteRows DEF Writes
      <4>2. at \in Working
        BY <1>1, <4>1 DEF Placed, InProgress, Terminal, GivenUp, Working
      <4>3. QED
        BY <4>1, <4>2 DEF Holds
    <3>2. CASE i # dl[w].id
      <4>1. queue'[i] = queue[i]
        BY <2>6, <3>2, WriteRows
      <4>2. QED
        BY <2>1, <2>2, <3>2, <4>1 DEF Holds
    <3>3. QED
      BY <3>1, <3>2
  <2>7. QED
    BY <2>3, <2>4, <2>5, <2>6 DEF WorkerEffect
<1>2. ASSUME NEW v \in Workers, Left(v)'
      PROVE  \E c \in Callers : Cancelling(c, dl'[v].id)
  <2> DEFINE i == dl'[v].id
  <2>0. wpc'[v] = "release" /\ queue'[i] # NoRow /\ InProgress(queue'[i])
    BY <1>2 DEF Left, InQueue
  <2>1. CASE v # w
    <3>1. wpc[v] = "release" /\ dl'[v] = dl[v] /\ wpc[v] \in Held /\ i \in Ids
      BY <1>0, <2>0, <2>1, BaseParts DEF WorkerFrame, Held
    <3>2. queue'[i] = queue[i]
      <4>1. CASE queue' = queue
        BY <4>1
      <4>2. CASE Archives(w)
        BY <2>1, <3>1, <4>2, Apart, ArchiveRows
      <4>3. ASSUME NEW row \in Row, NEW at, Writes(w, row, at)
            PROVE  queue'[i] = queue[i]
        BY <2>1, <3>1, <4>3, Apart, WriteRows
      <4>4. QED
        BY <4>1, <4>2, <4>3 DEF WorkerEffect, Quiet, Picks, LetsGo
    <3>3. Left(v)
      BY <2>0, <3>1, <3>2 DEF Left, InQueue
    <3>4. QED
      BY <3>1, <3>3 DEF OrphanInv
  <2>2. CASE v = w
    <3>1. CASE Leaves(w) /\ dl' = dl
      <4>1. i \in marks
        BY <2>2, <3>1 DEF Leaves
      <4>2. QED
        BY <4>1 DEF NoMarkLeak, Cancelling
    <3>2. CASE Ticks(w) \/ Lists(w) \/ Skips(w) \/ Works(w) \/ Picks(w) \/ LetsGo(w)
      BY <2>0, <2>2, <3>2 DEF Ticks, Lists, Skips, Works, Picks, LetsGo
    <3>3. CASE Archives(w)
      BY <2>0, <2>2, <3>3, ArchiveRows DEF Archives
    <3>4. ASSUME NEW row \in Row, NEW at, Writes(w, row, at) PROVE FALSE
      <4>1. queue'[i] = row /\ at = "release" /\ Placed(row, at)
        BY <2>0, <2>2, <3>4, WriteRows DEF Writes
      <4>2. QED
        BY <2>0, <4>1 DEF Placed
    <3>5. QED
      BY <3>1, <3>2, <3>3, <3>4 DEF WorkerEffect, Quiet
  <2>3. QED
    BY <2>1, <2>2
<1>3. NoOrphans'
  BY <1>0, <1>1 DEF NoOrphans, InQueue
<1>4. ASSUME NEW v \in Workers, Left(v)'
      PROVE  \E c \in Callers : Cancelling(c, dl[v].id)'
  BY <1>0, <1>2, <1>4 DEF Cancelling
<1>5. QED
  BY <1>0, <1>3, <1>4 DEF OrphanInv

LEMMA NextOrphans ==
    ASSUME Base, OrphanInv, NoMarkLeak, [Next]_vars,
           Faults \cap {"crash", "panic", "drain"} = {}
    PROVE  OrphanInv'
<1>0. Typed /\ Rowed
  BY BaseParts
<1>1. ASSUME NEW w \in Workers, WorkerStep(w) \/ Progress(w) \/ Panic(w)
      PROVE  OrphanInv'
  BY <1>1, WorkerEffects, WorkerOrphans
<1>2. ASSUME NEW c \in Callers,
             \/ CallerStep(c)
             \/ \E k \in Keys, op \in {"none", "top", "bottom"} : FindDownload(c, k, op)
             \/ \E j \in Ids : SabSnapshot(c, j) \/ Mark(c, j)
      PROVE  OrphanInv'
  <2>1. /\ NoOrphans'
        /\ \A w \in Workers : Left(w)' => \E b \in Callers : Cancelling(b, dl[w].id)'
    BY <1>0, <1>2, CallerOutside, CancelGoesOn, OutsideOrphans
  <2>2. ~stopping'
    BY <1>2, NoCallsWhileStopping, CallersKeepStopping DEF OrphanInv
  <2>3. QED
    BY <2>1, <2>2 DEF OrphanInv
<1>3. CASE \/ \E j \in Ids : DeleteHistory(j) \/ \E op \in Moves : Move(j, op)
           \/ ClearHistory \/ Pause \/ Resume \/ CooldownOver \/ StepUp
           \/ Shutdown \/ UNCHANGED vars
  <2>1. Outside /\ UNCHANGED <<cpc, cid>>
    BY <1>0, <1>3, OthersOutside
  <2>2. /\ NoOrphans'
        /\ \A w \in Workers : Left(w)' => \E b \in Callers : Cancelling(b, dl[w].id)'
    BY <2>1, OutsideOrphans DEF Cancelling
  <2>3. stopping' => stopping \/ \A c \in Callers : cpc[c] = "idle"
    BY <1>3 DEF DeleteHistory, Move, ClearHistory, Pause, Resume, CooldownOver, StepUp,
       Shutdown, flags, vars
  <2>4. QED
    BY <2>1, <2>2, <2>3 DEF OrphanInv
<1>4. CASE Restart
  <2>1. /\ UNCHANGED queue /\ stopping /\ \A w \in Workers : wpc[w] = "idle"
        /\ \A w \in Workers : wpc'[w] = "idle"
        /\ \A c \in Callers : cpc'[c] = "idle"
    BY <1>4 DEF Restart, Booted, store
  <2>2. \A i \in Ids : ~(InQueue(i) /\ InProgress(queue[i]))
    BY <2>1 DEF OrphanInv, NoOrphans, Holds, Working, Cancelling
  <2>3. QED
    BY <2>1, <2>2 DEF OrphanInv, NoOrphans, Left, InQueue
<1>5. QED
  BY <1>1, <1>2, <1>3, <1>4, NextCases

(* However workers, cancels, moves and shutdowns interleave, a row that says   *)
(* it is being resolved or downloaded has a worker or a cancel that deletes    *)
(* it, provided no crash or panic ends a job half-way and the shutdown really  *)
(* waits for the requests in flight.                                           *)
THEOREM NoneOrphaned ==
    ASSUME Faults \cap {"crash", "panic", "drain"} = {}
    PROVE  Spec => []NoOrphans
<1>1. Init => OrphanInv
  BY DEF Init, OrphanInv, NoOrphans, Left, InQueue
<1>2. Base /\ OrphanInv /\ NoMarkLeak /\ [Next]_vars => OrphanInv'
  BY NextOrphans
<1>3. OrphanInv => NoOrphans
  BY DEF OrphanInv
<1>4. QED
  BY <1>1, <1>2, <1>3, BaseAlways, MarksDoNotLeak, PTL DEF Spec

-------------------------------------------------------------------------------
(* A single worker.  Nothing but a move or a delete happens to the rows it has *)
(* listed before it writes its own, so its copies are as good as the bucket.   *)
SoleWorker == \A v, w \in Workers : v = w

Alike(q, r) ==
    /\ q.key = r.key
    /\ q.cdnFailures = r.cdnFailures /\ q.retryCount = r.retryCount
    /\ q.stallCount = r.stallCount /\ q.stallCredits = r.stallCredits
    /\ q.metadataFailures = r.metadataFailures
Current(r) == queue[r.id] = NoRow \/ Alike(queue[r.id], r)
ListInv ==
    /\ \A w \in Workers : seen[w] # {} => wpc[w] = "scan"
    /\ \A w \in Workers : \A r \in seen[w] : Current(r)
    /\ \A w \in Workers : wpc[w] = "begin" => Current(dl[w])

LEMMA AlikeGrown ==
    ASSUME NEW p, NEW q \in Row, NEW r \in Row, Grown(p, r), Alike(q, r)
    PROVE  Grown(p, q)
BY DEF Row, Grown, Alike

LEMMA OutsideCurrent ==
    ASSUME Base, Outside, NEW r \in Row, r.id \in Ids, r.id < nextId, Current(r)
    PROVE  Current(r)'
<1>1. OutsideQueue(r.id) /\ r.id # nextId
  BY BaseParts DEF Outside
<1>2. CASE Reordered(r.id)
  <2>1. queue[r.id] # NoRow
    BY <1>2 DEF Reordered, InQueue
  <2>2. QED
    BY <1>2, <2>1, ReorderedRow, BaseParts DEF Current, Alike
<1>3. CASE queue'[r.id] = queue[r.id] \/ queue'[r.id] = NoRow
  BY <1>3 DEF Current
<1>4. QED
  BY <1>1, <1>2, <1>3 DEF OutsideQueue

LEMMA OutsideList ==
    ASSUME Base, ListInv, Outside
    PROVE  ListInv'
<1>1. UNCHANGED <<wpc, seen, dl>>
  BY DEF Outside
<1>2. ASSUME NEW w \in Workers, NEW r \in seen[w] PROVE Current(r)'
  BY OutsideCurrent, BaseParts DEF ListInv, Rowed
<1>3. ASSUME NEW w \in Workers, wpc[w] = "begin" PROVE Current(dl[w])'
  <2>1. wpc[w] \in Held /\ dl'[w] = dl[w]
    BY <1>1, <1>3 DEF Held, Working
  <2>2. dl[w] \in Row /\ dl[w].id \in Ids /\ dl[w].id < nextId /\ Current(dl[w])
    BY <1>3, <2>1, BaseParts DEF ListInv, Rowed
  <2>3. QED
    <3> DEFINE r == dl[w]
    <3>1. r \in Row /\ r.id \in Ids /\ r.id < nextId /\ Current(r) /\ r' = r
      BY <2>1, <2>2
    <3>2. queue'[r.id] = NoRow \/ Alike(queue'[r.id], r)
      <4> HIDE DEF r
      <4>1. QED
        BY <3>1, OutsideCurrent DEF Current
    <3>3. QED
      BY <3>1, <3>2 DEF Current
<1>4. QED
  BY <1>1, <1>2, <1>3 DEF ListInv

LEMMA WorkerList ==
    ASSUME Base, ListInv, SoleWorker, NEW w \in Workers, WorkerEffect(w)
    PROVE  ListInv'
<1>0. /\ \A v \in Workers : v = w
      /\ wpc[w] # "scan" => seen[w] = {}
      /\ \A r \in seen[w] : Current(r)
  BY DEF SoleWorker, ListInv
<1>1. SUFFICES /\ seen'[w] # {} => wpc'[w] = "scan"
               /\ \A r \in seen'[w] : queue'[r.id] = NoRow \/ Alike(queue'[r.id], r)
               /\ wpc'[w] = "begin" =>
                     queue'[dl'[w].id] = NoRow \/ Alike(queue'[dl'[w].id], dl'[w])
  BY <1>0 DEF ListInv, Current
<1>2. CASE Lists(w) /\ UNCHANGED queue
  <2>1. ASSUME NEW r \in seen'[w] PROVE Alike(queue'[r.id], r)
    <3>1. PICK i \in Ids : InQueue(i) /\ queue[i] = r
      BY <1>2, <2>1 DEF Lists
    <3>2. queue[r.id] = r
      BY <3>1, BaseParts DEF Rowed
    <3>3. QED
      BY <1>2, <3>2 DEF Alike
  <2>2. QED
    BY <1>2, <2>1 DEF Lists
<1>3. CASE Skips(w) /\ UNCHANGED queue
  BY <1>0, <1>3 DEF Skips, Current
<1>4. CASE Picks(w)
  BY <1>0, <1>4 DEF Picks, Current
<1>5. CASE Ticks(w) \/ Works(w) \/ Leaves(w) \/ Archives(w) \/ LetsGo(w)
  <2>1. seen'[w] = seen[w] /\ wpc[w] # "scan" /\ wpc'[w] # "begin"
    BY <1>5 DEF Ticks, Works, Leaves, Archives, LetsGo, Held, Working
  <2>2. QED
    BY <1>0, <2>1
<1>6. ASSUME NEW row \in Row, NEW at \in Written \cup {"release"}, Writes(w, row, at)
      PROVE  seen'[w] = {} /\ wpc'[w] # "begin"
  BY <1>0, <1>6 DEF Writes, Working, Written
<1>7. QED
  BY <1>2, <1>3, <1>4, <1>5, <1>6 DEF WorkerEffect, Quiet

(* What a worker's step leaves in the queue has the key it had.                *)
LEMMA WorkerGrown ==
    ASSUME Base, ListInv, NEW w \in Workers, WorkerEffect(w),
           NEW i \in Ids, InQueue(i), queue'[i] # NoRow
    PROVE  Grown(queue'[i], queue[i])
<1>0. queue[i] \in Row
  BY BaseParts DEF InQueue
<1>1. CASE queue'[i] = queue[i]
  BY <1>0, <1>1, SameGrown
<1>2. CASE Archives(w)
  BY <1>1, <1>2, ArchiveRows
<1>3. ASSUME NEW row \in Row, NEW at, Writes(w, row, at)
      PROVE  Grown(queue'[i], queue[i])
  <2>1. CASE i = dl[w].id
    <3>1. queue'[i] = row /\ Grown(row, dl[w]) /\ wpc[w] \in Held /\ dl[w] \in Row
      BY <1>3, <2>1, WriteRows, BaseParts DEF Writes
    <3>2. Alike(queue[i], dl[w])
      <4>1. CASE wpc[w] = "begin"
        BY <2>1, <4>1 DEF ListInv, Current, InQueue
      <4>2. CASE wpc[w] \in Written
        <5>1. queue[i] = dl[w]
          BY <2>1, <4>2, BaseParts DEF Mirror, InQueue
        <5>2. QED
          BY <5>1 DEF Alike
      <4>3. QED
        BY <1>3, <4>1, <4>2 DEF Writes, Working, Written
    <3>3. QED
      BY <1>0, <3>1, <3>2, AlikeGrown
  <2>2. CASE i # dl[w].id
    BY <1>1, <1>3, <2>2, WriteRows
  <2>3. QED
    BY <2>1, <2>2
<1>4. QED
  BY <1>1, <1>2, <1>3 DEF WorkerEffect, Quiet, Picks, LetsGo

LEMMA NextList ==
    ASSUME Base, ListInv, SoleWorker, [Next]_vars
    PROVE  ListInv'
<1>0. Typed /\ Rowed
  BY BaseParts
<1>1. ASSUME NEW w \in Workers, WorkerStep(w) \/ Progress(w) \/ Panic(w)
      PROVE  ListInv'
  BY <1>1, WorkerEffects, WorkerList
<1>2. ASSUME NEW c \in Callers,
             \/ CallerStep(c)
             \/ \E k \in Keys, op \in {"none", "top", "bottom"} : FindDownload(c, k, op)
             \/ \E j \in Ids : SabSnapshot(c, j) \/ Mark(c, j)
      PROVE  ListInv'
  BY <1>0, <1>2, CallerOutside, OutsideList
<1>3. CASE \/ \E j \in Ids : DeleteHistory(j) \/ \E op \in Moves : Move(j, op)
           \/ ClearHistory \/ Pause \/ Resume \/ CooldownOver \/ StepUp
           \/ Shutdown \/ UNCHANGED vars
  BY <1>0, <1>3, OthersOutside, OutsideList
<1>4. CASE Restart
  BY <1>4 DEF Restart, Booted, ListInv
<1>5. QED
  BY <1>1, <1>2, <1>3, <1>4, NextCases

LEMMA ListAlways ==
    ASSUME SoleWorker
    PROVE  Spec => []ListInv
<1>1. Init => ListInv
  BY DEF Init, ListInv
<1>2. Base /\ ListInv /\ [Next]_vars => ListInv'
  BY NextList
<1>3. QED
  BY <1>1, <1>2, BaseAlways, PTL DEF Spec

-------------------------------------------------------------------------------
(* Where a caller inside Enqueue is, and with what it has found there.         *)
EnqueueEffect(b) ==
    \/ cpc'[b] = cpc[b] /\ cid'[b] = cid[b] /\ ckey'[b] = ckey[b]
    \/ cpc'[b] = "history" /\ Matches(queue, ckey'[b]) = {} /\ history' = history
    \/ /\ cpc[b] = "history" /\ ckey'[b] = ckey[b] /\ history' = history
       /\ \/ cpc'[b] = "insert" /\ Found(ckey[b]) = {}
          \/ /\ cpc'[b] = "supersede" /\ cid'[b] \in Found(ckey[b])
             /\ Superseded(history[cid'[b]])
    \/ /\ cpc[b] = "supersede" /\ cpc'[b] = "insert" /\ ckey'[b] = ckey[b]
       /\ cid[b] \in Ids => history'[cid[b]] = NoRow

LEMMA EnqueueSteps ==
    ASSUME Typed, NEW c \in Callers,
           \/ CallerStep(c)
           \/ \E k \in Keys, op \in {"none", "top", "bottom"} : FindDownload(c, k, op)
           \/ \E i \in Ids : SabSnapshot(c, i) \/ Mark(c, i),
           NEW b \in Callers, cpc'[b] \in Enqueuing
    PROVE  nextId' = nextId /\ EnqueueEffect(b)
<1> USE DEF Enqueuing
<1>0. /\ cpc \in [Callers -> CallerPositions] /\ cid \in [Callers -> Ids \cup {0}]
      /\ ckey \in [Callers -> Keys \cup {Nobody}]
      /\ csnap \in [Callers -> Row \cup {NoRow}]
      /\ history \in [Ids -> Row \cup {NoRow}]
      /\ cpc[c] = "mark" => cid[c] \in Ids
      /\ \A a \in Callers : cpc[a] \in Enqueuing => enqueueLock = a
  BY DEF Typed, TypeOK, Shape
<1>1. CASE b # c
  <2>1. cpc'[b] = cpc[b] /\ cid'[b] = cid[b] /\ ckey'[b] = ckey[b]
    BY <1>0, <1>1 DEF CallerStep, FindHistory, Supersede, Insert, ApplyPriority, Mark,
       Signal, WaitOver, Clear, Delete, Record, FindDownload, SabSnapshot, CGoto, CNext
  <2>2. cpc[c] # "insert"
    BY <1>0, <1>1, <2>1
  <2>3. nextId' = nextId
    BY <2>2 DEF CallerStep, FindHistory, Supersede, Insert, ApplyPriority, Mark, Signal,
       WaitOver, Clear, Delete, Record, FindDownload, SabSnapshot, store
  <2>4. QED
    BY <2>1, <2>3 DEF EnqueueEffect
<1>2. CASE b = c
  <2>1. ASSUME NEW k \in Keys, NEW op, FindDownload(c, k, op)
        PROVE  nextId' = nextId /\ EnqueueEffect(b)
    <3>1. /\ UNCHANGED <<history, nextId>>
          /\ \/ Matches(queue, k) = {} /\ cpc' = [cpc EXCEPT ![c] = "history"]
                /\ ckey' = [ckey EXCEPT ![c] = k]
             \/ cpc' = [cpc EXCEPT ![c] = "priority"]
      BY <2>1 DEF FindDownload, CGoto, store
    <3>2. cpc'[c] = "history" /\ ckey'[c] = k /\ Matches(queue, k) = {}
      BY <1>0, <1>2, <3>1
    <3>3. QED
      BY <1>2, <3>1, <3>2 DEF EnqueueEffect
  <2>2. CASE FindHistory(c)
    <3>1. cpc[c] = "history" /\ UNCHANGED <<history, nextId>>
      BY <2>2 DEF FindHistory, store
    <3>2. CASE Found(ckey[c]) = {} /\ CGoto(c, "insert") /\ ckey' = ckey
      BY <1>0, <1>2, <3>1, <3>2 DEF CGoto, EnqueueEffect
    <3>3. ASSUME NEW i \in Found(ckey[c]), Superseded(history[i]), CNext(c, "supersede", i)
          PROVE  EnqueueEffect(c)
      <4>1. cpc'[c] = "supersede" /\ cid'[c] = i /\ ckey'[c] = ckey[c]
        BY <1>0, <3>3 DEF CNext, CGoto
      <4>2. QED
        BY <3>1, <3>3, <4>1 DEF EnqueueEffect
    <3>4. ASSUME NEW i \in Found(ckey[c]), CNext(c, AfterEnqueue(c), i)
          PROVE  FALSE
      BY <1>0, <1>2, <3>4 DEF CNext, CGoto, AfterEnqueue
    <3>5. QED
      BY <1>2, <2>2, <3>1, <3>2, <3>3, <3>4 DEF FindHistory
  <2>3. CASE Supersede(c)
    <3>1. /\ cpc[c] = "supersede" /\ cpc'[c] = "insert" /\ ckey' = ckey
          /\ nextId' = nextId /\ history' = [history EXCEPT ![cid[c]] = NoRow]
      BY <1>0, <2>3 DEF Supersede, CGoto
    <3>2. cid[c] \in Ids => history'[cid[c]] = NoRow
      BY <1>0, <3>1
    <3>3. QED
      BY <1>2, <3>1, <3>2 DEF EnqueueEffect
  <2>4. CASE \/ Insert(c) \/ ApplyPriority(c) \/ Signal(c) \/ WaitOver(c) \/ Clear(c)
             \/ Delete(c) \/ Record(c)
             \/ \E i \in Ids : SabSnapshot(c, i) \/ Mark(c, i)
    <3>1. cpc'[c] \in {"idle", "priority", "wait", "clear", "delete", "record", "mark", "signal"}
      BY <1>0, <2>4 DEF Insert, ApplyPriority, Signal, WaitOver, Clear, Delete, Record,
         SabSnapshot, Mark, CNext, CGoto, AfterEnqueue
    <3>2. QED
      BY <1>2, <3>1
  <2>5. QED
    BY <1>0, <2>1, <2>2, <2>3, <2>4 DEF CallerStep
<1>3. QED
  BY <1>1, <1>2

(* Without SABnzbd's delete no caller carries a copy of a row.                 *)
Plain == \A c \in Callers : csnap[c] = NoRow /\ cpc[c] \notin {"mark", "record"}

LEMMA CallersPlain ==
    ASSUME Typed, Plain, "sabdelete" \notin Requests, NEW c \in Callers,
           \/ CallerStep(c)
           \/ \E k \in Keys, op \in {"none", "top", "bottom"} : FindDownload(c, k, op)
           \/ \E i \in Ids : SabSnapshot(c, i) \/ Mark(c, i)
    PROVE  Plain'
<1>0. /\ cpc \in [Callers -> CallerPositions] /\ csnap \in [Callers -> Row \cup {NoRow}]
      /\ csnap[c] = NoRow /\ cpc[c] \notin {"mark", "record"}
      /\ \A b \in Callers : csnap[b] = NoRow /\ cpc[b] \notin {"mark", "record"}
  BY DEF Typed, TypeOK, Plain
<1>1. SUFFICES /\ csnap' = csnap /\ cpc'[c] \notin {"mark", "record"}
               /\ \A b \in Callers \ {c} : cpc'[b] = cpc[b]
  BY <1>0, <1>1 DEF Plain
<1>2. ASSUME NEW at, NEW i, CNext(c, at, i)
      PROVE  csnap' = csnap /\ cpc'[c] = at /\ \A b \in Callers \ {c} : cpc'[b] = cpc[b]
  <2>1. csnap' = [csnap EXCEPT ![c] = csnap[c]]
    BY <1>0, <1>2 DEF CNext
  <2>2. QED
    BY <1>0, <1>2, <2>1 DEF CNext, CGoto
<1>3. CASE Supersede(c) \/ Signal(c) \/ WaitOver(c) \/ Clear(c)
  BY <1>0, <1>3 DEF Supersede, Signal, WaitOver, Clear, CGoto
<1>4. CASE \E k \in Keys, op \in {"none", "top", "bottom"} : FindDownload(c, k, op)
  BY <1>0, <1>4 DEF FindDownload, CGoto
<1>5. CASE \E i \in Ids : SabSnapshot(c, i) \/ Mark(c, i)
  BY <1>0, <1>5 DEF SabSnapshot, Mark, CGoto
<1>6. CASE FindHistory(c)
  <2>1. CASE CGoto(c, "insert") /\ csnap' = csnap
    BY <1>0, <2>1 DEF CGoto
  <2>2. ASSUME NEW i, CNext(c, "supersede", i) \/ CNext(c, AfterEnqueue(c), i)
        PROVE  /\ csnap' = csnap /\ cpc'[c] \notin {"mark", "record"}
               /\ \A b \in Callers \ {c} : cpc'[b] = cpc[b]
    BY <1>2, <2>2 DEF AfterEnqueue
  <2>3. QED
    BY <1>6, <2>1, <2>2 DEF FindHistory
<1>7. CASE Insert(c)
  BY <1>2, <1>7 DEF Insert, AfterEnqueue
<1>8. CASE ApplyPriority(c)
  BY <1>2, <1>8 DEF ApplyPriority
<1>9. CASE Delete(c)
  <2>1. CNext(c, "idle", cid[c])
    BY <1>0, <1>9 DEF Delete
  <2>2. QED
    BY <1>2, <2>1
<1>10. QED
  BY <1>0, <1>3, <1>4, <1>5, <1>6, <1>7, <1>8, <1>9 DEF CallerStep, Record

-------------------------------------------------------------------------------
(* The two buckets.  A row a worker has in hand has not been archived; a       *)
(* caller that is about to supersede a history row found one that may go.      *)
InHand(i) == \E w \in Workers : \/ \E r \in seen[w] : r.id = i
                                \/ wpc[w] \in Working /\ dl[w].id = i
Supersedable(i) == /\ i \in Ids /\ ~InQueue(i) /\ ~InHand(i)
                   /\ history[i] # NoRow => ComeBackLater(history[i])
BucketInv ==
    /\ OneBucket
    /\ \A i \in Ids : InHand(i) => history[i] = NoRow
    /\ Plain
    /\ \A c \in Callers : cpc[c] = "supersede" => Supersedable(cid[c])

(* How a caller comes to be about to supersede row i.                          *)
Superseding(c) ==
    \/ cpc[c] = "supersede" /\ cid'[c] = cid[c]
    \/ /\ cid'[c] \in Ids /\ history[cid'[c]] # NoRow
       /\ ComeBackLater(history[cid'[c]])

LEMMA OutsideBuckets ==
    ASSUME Base, BucketInv, Outside, Plain',
           \A c \in Callers : cpc'[c] = "supersede" => Superseding(c)
    PROVE  BucketInv'
<1>1. \A i \in Ids : history'[i] \in {history[i], NoRow}
  BY DEF Outside, OutsideHistory, BucketInv, Plain
<1>2. \A i \in Ids : queue'[i] # NoRow => InQueue(i) \/ i = nextId
  BY DEF Outside, OutsideQueue, Reordered, InQueue
<1>3. \A i \in Ids : history[i] # NoRow => i # nextId
  BY BaseParts DEF Rowed
<1>4. \A i : InHand(i)' <=> InHand(i)
  BY DEF Outside, InHand
<1>5. OneBucket'
  BY <1>1, <1>2, <1>3 DEF BucketInv, OneBucket, InQueue
<1>6. \A i \in Ids : InHand(i)' => history'[i] = NoRow
  BY <1>1, <1>4 DEF BucketInv
<1>7. ASSUME NEW c \in Callers, cpc'[c] = "supersede" PROVE Supersedable(cid[c])'
  <2>0. PICK i \in Ids : i = cid'[c]
    BY <1>7 DEF BucketInv, Supersedable, Superseding
  <2>1. i \in Ids /\ i # nextId /\ ~InQueue(i) /\ ~InHand(i)
        /\ (history[i] # NoRow => ComeBackLater(history[i]))
    <3>1. CASE cpc[c] = "supersede" /\ cid'[c] = cid[c]
      BY <2>0, <3>1, BaseParts DEF BucketInv, Supersedable, Rowed
    <3>2. CASE i \in Ids /\ history[i] # NoRow /\ ComeBackLater(history[i])
      BY <1>3, <3>2 DEF BucketInv, OneBucket
    <3>3. QED
      BY <1>7, <2>0, <3>1, <3>2 DEF Superseding
  <2>2. queue'[i] = NoRow /\ ~InHand(i)' /\ history'[i] \in {history[i], NoRow}
    BY <1>1, <1>2, <1>4, <2>1 DEF InQueue
  <2>3. Supersedable(i)'
    BY <2>1, <2>2 DEF Supersedable, InQueue
  <2>4. QED
    BY <2>0, <2>3 DEF Supersedable, InHand, InQueue
<1>8. QED
  BY <1>5, <1>6, <1>7 DEF BucketInv

LEMMA WorkerHands ==
    ASSUME Base, ListInv, SoleWorker, NEW w \in Workers, WorkerEffect(w), NEW i \in Ids
    PROVE  InHand(i)' => InHand(i) \/ InQueue(i)
<1> SUFFICES ASSUME InHand(i)' PROVE InHand(i) \/ InQueue(i)
  OBVIOUS
<1>0. (wpc'[w] \in Working /\ dl'[w].id = i) \/ \E r \in seen'[w] : r.id = i
  BY DEF InHand, SoleWorker
<1>1. CASE Lists(w) /\ dl' = dl
  <2>1. PICK r \in seen'[w] : r.id = i
    BY <1>0, <1>1 DEF Lists, Working
  <2>2. PICK j \in Ids : InQueue(j) /\ queue[j] = r
    BY <1>1, <2>1 DEF Lists
  <2>3. QED
    BY <2>1, <2>2, BaseParts DEF Rowed
<1>2. CASE (Ticks(w) \/ Skips(w) \/ Works(w) \/ Leaves(w)) /\ dl' = dl
  BY <1>0, <1>2 DEF Ticks, Skips, Works, Leaves, InHand, Working
<1>3. CASE Picks(w)
  BY <1>0, <1>3 DEF Picks, InHand
<1>4. CASE Archives(w) \/ LetsGo(w)
  BY <1>0, <1>4 DEF Archives, LetsGo, InHand, Working
<1>5. ASSUME NEW row \in Row, NEW at, Writes(w, row, at) PROVE InHand(i)
  BY <1>0, <1>5 DEF Writes, InHand
<1>6. QED
  BY <1>1, <1>2, <1>3, <1>4, <1>5 DEF WorkerEffect, Quiet

LEMMA WorkerBuckets ==
    ASSUME Base, ListInv, BucketInv, SoleWorker, NEW w \in Workers, WorkerEffect(w)
    PROVE  BucketInv'
<1>0. /\ UNCHANGED <<cpc, cid, csnap>> /\ \A v \in Workers : v = w
      /\ wpc[w] # "scan" => seen[w] = {}
  BY DEF WorkerEffect, WorkerFrame, SoleWorker, ListInv
<1>1. \A i \in Ids : InHand(i)' => history[i] = NoRow
  BY WorkerHands DEF BucketInv, OneBucket
<1>2. ASSUME NEW i \in Ids, ~InQueue(i), ~InHand(i)
      PROVE  queue'[i] = NoRow /\ ~InHand(i)' /\ history'[i] = history[i]
  <2>1. ~InHand(i)'
    BY <1>2, WorkerHands
  <2>2. CASE UNCHANGED <<queue, history>>
    BY <1>2, <2>1, <2>2 DEF InQueue
  <2>3. CASE Archives(w)
    <3>1. i # dl[w].id
      BY <1>2, <2>3 DEF Archives, InHand, Working
    <3>2. QED
      BY <1>2, <2>1, <2>3, <3>1, ArchiveRows DEF InQueue
  <2>4. ASSUME NEW row \in Row, NEW at, Writes(w, row, at)
        PROVE  queue'[i] = NoRow /\ history' = history
    <3>1. i # dl[w].id /\ history' = history
      BY <1>2, <2>4 DEF Writes, InHand
    <3>2. QED
      BY <1>2, <2>4, <3>1, WriteRows DEF InQueue
  <2>5. QED
    BY <2>1, <2>2, <2>3, <2>4 DEF WorkerEffect, Quiet, Picks, LetsGo
<1>3. OneBucket' /\ \A i \in Ids : InHand(i)' => history'[i] = NoRow
  <2>1. CASE UNCHANGED <<queue, history>>
    BY <1>1, <2>1 DEF BucketInv, OneBucket, InQueue
  <2>2. CASE Archives(w)
    <3>1. \A i : ~InHand(i)'
      BY <1>0, <2>2 DEF Archives, InHand, Working
    <3>2. OneBucket'
      BY <2>2, ArchiveRows DEF BucketInv, OneBucket, InQueue
    <3>3. QED
      BY <3>1, <3>2
  <2>3. ASSUME NEW row \in Row, NEW at, Writes(w, row, at)
        PROVE  OneBucket' /\ \A i \in Ids : InHand(i)' => history'[i] = NoRow
    <3>1. history' = history /\ InHand(dl[w].id)
      BY <2>3 DEF Writes, InHand
    <3>2. OneBucket'
      BY <2>3, <3>1, WriteRows DEF BucketInv, OneBucket, InQueue
    <3>3. QED
      BY <1>1, <3>1, <3>2
  <2>4. QED
    BY <2>1, <2>2, <2>3 DEF WorkerEffect, Quiet, Picks, LetsGo
<1>4. Plain'
  BY <1>0 DEF BucketInv, Plain
<1>5. ASSUME NEW c \in Callers, cpc'[c] = "supersede" PROVE Supersedable(cid[c])'
  <2>0. PICK i \in Ids : i = cid'[c]
    BY <1>0, <1>5 DEF BucketInv, Supersedable
  <2>1. Supersedable(i)
    BY <1>0, <1>5, <2>0 DEF BucketInv
  <2>2. queue'[i] = NoRow /\ ~InHand(i)' /\ history'[i] = history[i]
    BY <1>2, <2>1 DEF Supersedable
  <2>3. Supersedable(i)'
    BY <2>1, <2>2 DEF Supersedable, InQueue
  <2>4. QED
    BY <2>0, <2>3 DEF Supersedable, InHand, InQueue
<1>6. QED
  BY <1>3, <1>4, <1>5 DEF BucketInv

LEMMA NextBuckets ==
    ASSUME Base, ListInv, BucketInv, SoleWorker, "sabdelete" \notin Requests, [Next]_vars
    PROVE  BucketInv'
<1>0. Typed /\ Rowed /\ Plain
  BY BaseParts DEF BucketInv
<1>1. ASSUME NEW w \in Workers, WorkerStep(w) \/ Progress(w) \/ Panic(w)
      PROVE  BucketInv'
  BY <1>1, WorkerEffects, WorkerBuckets
<1>2. ASSUME NEW c \in Callers,
             \/ CallerStep(c)
             \/ \E k \in Keys, op \in {"none", "top", "bottom"} : FindDownload(c, k, op)
             \/ \E j \in Ids : SabSnapshot(c, j) \/ Mark(c, j)
      PROVE  BucketInv'
  <2>1. Outside /\ Plain'
    BY <1>0, <1>2, CallerOutside, CallersPlain
  <2>2. ASSUME NEW b \in Callers, cpc'[b] = "supersede" PROVE Superseding(b)
    <3>1. EnqueueEffect(b)
      BY <1>0, <1>2, <2>2, EnqueueSteps DEF Enqueuing
    <3>2. QED
      BY <2>2, <3>1 DEF EnqueueEffect, Superseding, Found, Matches, Superseded, ComeBackLater
  <2>3. QED
    BY <2>1, <2>2, OutsideBuckets
<1>3. CASE \/ \E j \in Ids : DeleteHistory(j) \/ \E op \in Moves : Move(j, op)
           \/ ClearHistory \/ Pause \/ Resume \/ CooldownOver \/ StepUp
           \/ Shutdown \/ UNCHANGED vars
  <2>1. Outside /\ UNCHANGED <<cpc, cid, csnap>>
    BY <1>0, <1>3, OthersOutside
  <2>2. Plain' /\ \A c \in Callers : cpc'[c] = "supersede" => Superseding(c)
    BY <1>0, <2>1 DEF Plain, Superseding
  <2>3. QED
    BY <2>1, <2>2, OutsideBuckets
<1>4. CASE Restart
  BY <1>0, <1>4 DEF Restart, Booted, store, BucketInv, OneBucket, InHand, InQueue, Plain,
     Working
<1>5. QED
  BY <1>1, <1>2, <1>3, <1>4, NextCases

LEMMA BucketsAlways ==
    ASSUME SoleWorker, "sabdelete" \notin Requests
    PROVE  Spec => []BucketInv
<1>1. Init => BucketInv
  BY DEF Init, BucketInv, OneBucket, InHand, InQueue, Plain, Working
<1>2. Base /\ ListInv /\ BucketInv /\ [Next]_vars => BucketInv'
  BY NextBuckets
<1>3. QED
  BY <1>1, <1>2, BaseAlways, ListAlways, PTL DEF Spec

-------------------------------------------------------------------------------
(* Any number of workers.  A list goes stale between ListDownloads and claim;  *)
(* supposing only that no worker claims a row which has reached history since  *)
(* it was listed, the buckets stay as they should be.                          *)
FreshClaims ==
    [][\A w \in Workers : Takes(w) => history[dl'[w].id] = NoRow]_vars

(* What a worker has claimed is not in history.                                *)
ClaimedInv ==
    /\ OneBucket
    /\ \A w \in Workers : wpc[w] \in Working => history[dl[w].id] = NoRow
    /\ Plain

LEMMA OutsideClaimed ==
    ASSUME Base, ClaimedInv, Outside, Plain'
    PROVE  ClaimedInv'
<1>1. \A i \in Ids : history'[i] \in {history[i], NoRow}
  BY DEF Outside, OutsideHistory, ClaimedInv, Plain
<1>2. \A i \in Ids : queue'[i] # NoRow => InQueue(i) \/ i = nextId
  BY DEF Outside, OutsideQueue, Reordered, InQueue
<1>3. \A i \in Ids : history[i] # NoRow => i # nextId
  BY BaseParts DEF Rowed
<1>4. OneBucket'
  BY <1>1, <1>2, <1>3 DEF ClaimedInv, OneBucket, InQueue
<1>5. ASSUME NEW w \in Workers, wpc'[w] \in Working PROVE history'[dl'[w].id] = NoRow
  <2>1. wpc[w] \in Working /\ dl'[w] = dl[w] /\ dl[w].id \in Ids
    BY <1>5, BaseParts DEF Outside, Held
  <2>2. QED
    BY <1>1, <2>1 DEF ClaimedInv
<1>6. QED
  BY <1>4, <1>5 DEF ClaimedInv

(* Two workers hold different rows.                                            *)
LEMMA WorkerClaimed ==
    ASSUME Base, ClaimedInv, NEW w \in Workers, WorkerEffect(w),
           Takes(w) => history[dl'[w].id] = NoRow
    PROVE  ClaimedInv'
<1>0. /\ UNCHANGED <<cpc, csnap>>
      /\ \A v \in Workers \ {w} : wpc'[v] = wpc[v] /\ dl'[v] = dl[v]
  BY DEF WorkerEffect, WorkerFrame
<1>1. Plain'
  BY <1>0 DEF ClaimedInv, Plain
<1>2. \A v \in Workers : wpc[v] \in Working => dl[v].id \in Ids /\ wpc[v] \in Held
  BY BaseParts DEF Held
<1>3. CASE UNCHANGED <<queue, history>>
  <2>1. wpc'[w] \in Working => history[dl'[w].id] = NoRow
    BY <1>3 DEF WorkerEffect, Quiet, Picks, Takes, Archives, LetsGo, Writes, Ticks, Lists,
       Skips, Works, Leaves, Working, ClaimedInv
  <2>2. QED
    BY <1>0, <1>1, <1>3, <2>1 DEF ClaimedInv, OneBucket, InQueue
<1>4. CASE Archives(w)
  <2>1. wpc'[w] \notin Working
    BY <1>4 DEF Archives, Working
  <2>2. ASSUME NEW v \in Workers, wpc'[v] \in Working PROVE history'[dl'[v].id] = NoRow
    <3>1. v # w /\ wpc[v] \in Working /\ dl'[v] = dl[v]
      BY <1>0, <2>1, <2>2
    <3>2. dl[v].id # dl[w].id /\ dl[v].id \in Ids
      BY <1>2, <1>4, <3>1, Apart, ArchiveRows
    <3>3. QED
      BY <1>4, <3>1, <3>2, ArchiveRows DEF ClaimedInv
  <2>3. OneBucket'
    BY <1>4, ArchiveRows DEF ClaimedInv, OneBucket, InQueue
  <2>4. QED
    BY <1>1, <2>2, <2>3 DEF ClaimedInv
<1>5. ASSUME NEW row \in Row, NEW at, Writes(w, row, at) PROVE ClaimedInv'
  <2>1. /\ history' = history /\ dl'[w].id = dl[w].id /\ wpc[w] \in Working
        /\ history[dl[w].id] = NoRow
    BY <1>5 DEF Writes, ClaimedInv
  <2>2. OneBucket'
    BY <1>5, <2>1, WriteRows DEF ClaimedInv, OneBucket, InQueue
  <2>3. QED
    BY <1>0, <1>1, <2>1, <2>2 DEF ClaimedInv
<1>6. QED
  BY <1>3, <1>4, <1>5 DEF WorkerEffect, Quiet, Picks, LetsGo

LEMMA NextClaimed ==
    ASSUME Base, ClaimedInv, "sabdelete" \notin Requests, [Next]_vars,
           \A w \in Workers : Takes(w) => history[dl'[w].id] = NoRow
    PROVE  ClaimedInv'
<1>0. Typed /\ Rowed /\ Plain
  BY BaseParts DEF ClaimedInv
<1>1. ASSUME NEW w \in Workers, WorkerStep(w) \/ Progress(w) \/ Panic(w)
      PROVE  ClaimedInv'
  BY <1>1, WorkerEffects, WorkerClaimed
<1>2. ASSUME NEW c \in Callers,
             \/ CallerStep(c)
             \/ \E k \in Keys, op \in {"none", "top", "bottom"} : FindDownload(c, k, op)
             \/ \E j \in Ids : SabSnapshot(c, j) \/ Mark(c, j)
      PROVE  ClaimedInv'
  BY <1>0, <1>2, CallerOutside, CallersPlain, OutsideClaimed
<1>3. CASE \/ \E j \in Ids : DeleteHistory(j) \/ \E op \in Moves : Move(j, op)
           \/ ClearHistory \/ Pause \/ Resume \/ CooldownOver \/ StepUp
           \/ Shutdown \/ UNCHANGED vars
  <2>1. Outside /\ UNCHANGED <<cpc, csnap>>
    BY <1>0, <1>3, OthersOutside
  <2>2. QED
    BY <1>0, <2>1, OutsideClaimed DEF Plain
<1>4. CASE Restart
  BY <1>4 DEF Restart, Booted, store, ClaimedInv, OneBucket, InQueue, Plain, Working
<1>5. QED
  BY <1>1, <1>2, <1>3, <1>4, NextCases

LEMMA ClaimedAlways ==
    ASSUME "sabdelete" \notin Requests
    PROVE  Spec /\ FreshClaims => []ClaimedInv
<1>1. Init => ClaimedInv
  BY DEF Init, ClaimedInv, OneBucket, InQueue, Plain, Working
<1>2. /\ Base /\ ClaimedInv /\ [Next]_vars
      /\ [\A w \in Workers : Takes(w) => history[dl'[w].id] = NoRow]_vars
      => ClaimedInv'
  <2> SUFFICES ASSUME Base, ClaimedInv, [Next]_vars,
                      [\A w \in Workers : Takes(w) => history[dl'[w].id] = NoRow]_vars
               PROVE  ClaimedInv'
    OBVIOUS
  <2>1. CASE UNCHANGED vars
    BY <2>1 DEF vars, store, worker, caller, ClaimedInv, OneBucket, InQueue, Plain
  <2>2. CASE \A w \in Workers : Takes(w) => history[dl'[w].id] = NoRow
    BY <2>2, NextClaimed
  <2>3. QED
    BY <2>1, <2>2
<1>3. QED
  BY <1>1, <1>2, BaseAlways, PTL DEF Spec, FreshClaims

(* A row is in one bucket at most, for any number of workers and callers and   *)
(* whatever order grabs, supersessions, archives, cancels, panics, crashes and *)
(* restarts come in, unless a worker claims from a list a row that has been    *)
(* archived since, or SABnzbd's delete records the copy it took earlier.       *)
THEOREM OneBucketOnly ==
    ASSUME "sabdelete" \notin Requests
    PROVE  Spec /\ FreshClaims => []OneBucket
<1>1. ClaimedInv => OneBucket
  BY DEF ClaimedInv
<1>2. QED
  BY <1>1, ClaimedAlways, PTL

(* What an Enqueue is about to supersede is in history, and may go.            *)
AboutToSupersede ==
    \A c \in Callers : cpc[c] = "supersede" =>
        /\ cid[c] \in Ids /\ history[cid[c]] # NoRow
        /\ ComeBackLater(history[cid[c]])

(* Only a supersession takes a row from history, and only one is under way.    *)
LEMMA HistoryKept ==
    ASSUME Base, ClaimedInv, Outside, AboutToSupersede,
           Requests \cap {"deletehistory", "clearhistory"} = {},
           NEW i \in Ids, history[i] # NoRow,
           \A c \in Callers : ~ (cpc[c] = "supersede" /\ cid[c] = i)
    PROVE  history'[i] = history[i]
BY DEF Outside, OutsideHistory, ClaimedInv, Plain

LEMMA WorkerKeeps ==
    ASSUME Base, ClaimedInv, NEW w \in Workers, WorkerEffect(w),
           NEW i \in Ids, history[i] # NoRow
    PROVE  history'[i] = history[i]
<1>1. CASE Archives(w)
  <2>1. i # dl[w].id
    BY <1>1 DEF Archives, ClaimedInv, Working
  <2>2. QED
    BY <1>1, <2>1, ArchiveRows
<1>2. QED
  BY <1>1 DEF WorkerEffect, Quiet, Picks, LetsGo, Writes

(* A caller that is still about to supersede did not supersede; one that is    *)
(* not about to leaves history alone, SABnzbd's record aside.                  *)
LEMMA OthersKeepHistory ==
    ASSUME NEW c \in Callers, cpc[c] \notin {"supersede", "record"},
           \/ CallerStep(c)
           \/ \E k \in Keys, op \in {"none", "top", "bottom"} : FindDownload(c, k, op)
           \/ \E j \in Ids : SabSnapshot(c, j) \/ Mark(c, j)
    PROVE  history' = history
BY DEF CallerStep, FindHistory, Supersede, Insert, ApplyPriority, Mark, Signal, WaitOver,
   Clear, Delete, Record, FindDownload, SabSnapshot, store

LEMMA SupersedeEnds ==
    ASSUME TypeOK, NEW c \in Callers, cpc[c] = "supersede", cpc'[c] = "supersede",
           \/ CallerStep(c)
           \/ \E k \in Keys, op \in {"none", "top", "bottom"} : FindDownload(c, k, op)
           \/ \E j \in Ids : SabSnapshot(c, j) \/ Mark(c, j)
    PROVE  FALSE
<1>1. Supersede(c)
  BY DEF CallerStep, FindHistory, Insert, ApplyPriority, Mark, Signal, WaitOver,
     Clear, Delete, Record, FindDownload, SabSnapshot
<1>2. QED
  BY <1>1 DEF Supersede, CGoto, TypeOK

(* While one caller supersedes, enqueueMu keeps the others from it.             *)
LEMMA NextSupersede ==
    ASSUME Base, ClaimedInv, AboutToSupersede, [Next]_vars,
           Requests \cap {"deletehistory", "clearhistory"} = {}
    PROVE  /\ AboutToSupersede'
           /\ \A i \in Ids : history[i] # NoRow /\ history[i].status = "completed" =>
                  history'[i] = history[i]
<1>0. Typed /\ Rowed
  BY BaseParts
<1>1. ASSUME Outside
      PROVE  \A i \in Ids : history[i] # NoRow /\ history[i].status = "completed" =>
                 history'[i] = history[i]
  BY <1>1, HistoryKept DEF AboutToSupersede, ComeBackLater
<1>2. ASSUME NEW w \in Workers, WorkerStep(w) \/ Progress(w) \/ Panic(w)
      PROVE  /\ AboutToSupersede'
             /\ \A i \in Ids : history[i] # NoRow => history'[i] = history[i]
  <2>1. WorkerEffect(w) /\ UNCHANGED <<cpc, cid>>
    BY <1>2, WorkerEffects DEF WorkerEffect, WorkerFrame
  <2>2. \A i \in Ids : history[i] # NoRow => history'[i] = history[i]
    BY <2>1, WorkerKeeps
  <2>3. QED
    BY <2>1, <2>2 DEF AboutToSupersede, ComeBackLater
<1>3. ASSUME NEW c \in Callers,
             \/ CallerStep(c)
             \/ \E k \in Keys, op \in {"none", "top", "bottom"} : FindDownload(c, k, op)
             \/ \E j \in Ids : SabSnapshot(c, j) \/ Mark(c, j)
      PROVE  AboutToSupersede'
  <2>1. Outside
    BY <1>0, <1>3, CallerOutside
  <2>2. ASSUME NEW b \in Callers, cpc'[b] = "supersede"
        PROVE  /\ cid'[b] \in Ids /\ history'[cid'[b]] # NoRow
               /\ ComeBackLater(history'[cid'[b]])
    <3>1. EnqueueEffect(b)
      BY <1>0, <1>3, <2>2, EnqueueSteps DEF Enqueuing
    <3>2. CASE cpc[b] = "history"
      <4>1. history' = history /\ cid'[b] \in Found(ckey[b]) /\ Superseded(history[cid'[b]])
        BY <2>2, <3>1, <3>2 DEF EnqueueEffect
      <4>2. QED
        BY <4>1 DEF Found, Matches, Superseded, ComeBackLater
    <3>3. CASE cpc[b] # "history"
      <4>1. cpc[b] = "supersede" /\ cid'[b] = cid[b]
        BY <2>2, <3>1, <3>3 DEF EnqueueEffect
      <4>2. PICK i \in Ids : i = cid[b] /\ history[i] # NoRow /\ ComeBackLater(history[i])
        BY <4>1 DEF AboutToSupersede
      <4>3. ASSUME NEW a \in Callers, cpc[a] = "supersede" PROVE a = b
        BY <1>0, <4>1, <4>3 DEF Typed, Shape, Enqueuing
      <4>4. history'[i] = history[i]
        <5>1. CASE b = c
          <6>1. cpc[c] = "supersede" /\ cpc'[c] = "supersede" /\ TypeOK
            BY <1>0, <2>2, <4>1, <5>1 DEF Typed
          <6>2. QED
            BY <1>3, <6>1, SupersedeEnds
        <5>2. CASE b # c
          <6>1. cpc[c] \notin {"supersede", "record"}
            BY <4>3, <5>2 DEF ClaimedInv, Plain
          <6>2. QED
            BY <1>3, <6>1, OthersKeepHistory
        <5>3. QED
          BY <5>1, <5>2
      <4>5. QED
        BY <4>1, <4>2, <4>4 DEF ComeBackLater
    <3>4. QED
      BY <3>2, <3>3
  <2>3. QED
    BY <2>2 DEF AboutToSupersede
<1>4. CASE \/ \E j \in Ids : DeleteHistory(j) \/ \E op \in Moves : Move(j, op)
           \/ ClearHistory \/ Pause \/ Resume \/ CooldownOver \/ StepUp
           \/ Shutdown \/ UNCHANGED vars
  <2>1. Outside /\ UNCHANGED <<cpc, cid>>
    BY <1>0, <1>4, OthersOutside
  <2>2. history' = history
    BY <1>4 DEF DeleteHistory, Move, ClearHistory, Pause, Resume, CooldownOver, StepUp,
       Shutdown, vars, store
  <2>3. QED
    BY <1>1, <2>1, <2>2 DEF AboutToSupersede, ComeBackLater
<1>5. CASE Restart
  BY <1>5 DEF Restart, Booted, store, AboutToSupersede
<1>6. QED
  BY <1>0, <1>1, <1>2, <1>3, <1>4, <1>5, NextCases, CallerOutside, OthersOutside

(* A completed download stays in history as it is for good, for any number of  *)
(* workers: with no request that deletes from history, a stale claim is the    *)
(* only thing that can take it away or change it; no later grab of its key,    *)
(* supersession, retry, cancel, panic, crash or restart can.                   *)
THEOREM CompletedForGood ==
    ASSUME Requests \cap {"sabdelete", "deletehistory", "clearhistory"} = {}
    PROVE  Spec /\ FreshClaims => CompletedStays
<1>1. Init => AboutToSupersede
  BY DEF Init, AboutToSupersede
<1>2. Base /\ ClaimedInv /\ AboutToSupersede /\ [Next]_vars => AboutToSupersede'
  BY NextSupersede
<1>3. Base /\ ClaimedInv /\ AboutToSupersede /\ [Next]_vars =>
        [\A i \in Ids : history[i] # NoRow /\ history[i].status = "completed" =>
          history'[i] = history[i]]_history
  BY NextSupersede
<1>4. "sabdelete" \notin Requests
  OBVIOUS
<1>5. QED
  BY <1>1, <1>2, <1>3, <1>4, BaseAlways, ClaimedAlways, PTL DEF Spec, CompletedStays

-------------------------------------------------------------------------------
(* One row per key.  Without cancels a row in hand is in the queue, and what a *)
(* caller inside Enqueue did not find is still not there.                      *)
Keyed(i, k) == \/ InQueue(i) /\ queue[i].key = k
               \/ history[i] # NoRow /\ history[i].key = k
Uncancelled == \A c \in Callers : cpc[c] \in {"idle", "priority"} \cup Enqueuing
KeyInv ==
    /\ \A i \in Ids : InHand(i) => InQueue(i)
    /\ \A i, j \in Ids : \A k : Keyed(i, k) /\ Keyed(j, k) => i = j
    /\ Uncancelled
    /\ \A c \in Callers : cpc[c] \in Enqueuing => Matches(queue, ckey[c]) = {}
    /\ \A c \in Callers : cpc[c] = "supersede" => Matches(history, ckey[c]) \subseteq {cid[c]}
    /\ \A c \in Callers : cpc[c] = "insert" => Matches(history, ckey[c]) = {}

LEMMA CallersUncancelled ==
    ASSUME Typed, Uncancelled, Requests \cap {"cancel", "sabdelete"} = {}, NEW c \in Callers,
           \/ CallerStep(c)
           \/ \E k \in Keys, op \in {"none", "top", "bottom"} : FindDownload(c, k, op)
           \/ \E i \in Ids : SabSnapshot(c, i) \/ Mark(c, i)
    PROVE  Uncancelled'
<1>0. cpc \in [Callers -> CallerPositions] /\ cpc[c] \in {"idle", "priority"} \cup Enqueuing
  BY DEF Typed, TypeOK, Uncancelled
<1>1. /\ cpc'[c] \in {"idle", "priority"} \cup Enqueuing
      /\ \A b \in Callers \ {c} : cpc'[b] = cpc[b]
  <2>1. CASE FindHistory(c) \/ Supersede(c)
    BY <1>0, <2>1 DEF FindHistory, Supersede, CNext, CGoto, AfterEnqueue, Enqueuing
  <2>2. CASE Insert(c) \/ ApplyPriority(c)
    BY <1>0, <2>2 DEF Insert, ApplyPriority, CNext, CGoto, AfterEnqueue
  <2>3. CASE \E k \in Keys, op \in {"none", "top", "bottom"} : FindDownload(c, k, op)
    BY <1>0, <2>3 DEF FindDownload, CGoto, Enqueuing
  <2>4. CASE \/ Signal(c) \/ WaitOver(c) \/ Clear(c) \/ Delete(c) \/ Record(c)
             \/ \E i \in Ids : SabSnapshot(c, i) \/ Mark(c, i)
             \/ cpc[c] = "mark" /\ Mark(c, cid[c])
    BY <1>0, <2>4 DEF Signal, WaitOver, Clear, Delete, Record, SabSnapshot, Mark, Enqueuing
  <2>5. QED
    BY <2>1, <2>2, <2>3, <2>4 DEF CallerStep
<1>2. QED
  BY <1>1 DEF Uncancelled

LEMMA FoundOnly ==
    ASSUME BucketInv, KeyInv, NEW k
    PROVE  /\ Found(k) = {} => Matches(history, k) = {}
           /\ \A i \in Found(k) : Matches(history, k) \subseteq {i}
<1>1. Found(k) = {} => Matches(history, k) = {}
  BY DEF Found
<1>2. Found(k) \subseteq Matches(history, k)
  BY DEF Found
<1>3. \A i, j \in Matches(history, k) : i = j
  BY DEF KeyInv, Matches, Keyed
<1>4. QED
  BY <1>1, <1>2, <1>3

LEMMA OutsideKeys ==
    ASSUME Base, BucketInv, KeyInv, Outside, Uncancelled',
           \A c \in Callers : cpc'[c] \in Enqueuing => nextId' = nextId /\ EnqueueEffect(c)
    PROVE  KeyInv'
<1> DEFINE Inserted(i) == /\ i = nextId /\ nextId' = nextId + 1
                          /\ \E c \in Callers : cpc[c] = "insert" /\ queue'[i] = FreshRow(i, ckey[c])
<1>1. ASSUME NEW i \in Ids
      PROVE  \/ Inserted(i)
             \/ (queue'[i] = NoRow /\ queue[i] = NoRow)
             \/ queue'[i] # NoRow /\ queue[i] # NoRow /\ queue'[i].key = queue[i].key
  <2>1. CASE Reordered(i)
    <3>1. InQueue(i) /\ queue'[i] \in Row /\ queue'[i].key = queue[i].key
      BY <2>1, ReorderedRow, BaseParts
    <3>2. QED
      BY <3>1, NoRowAssumption DEF InQueue
  <2>2. \A c \in Callers : cpc[c] # "delete"
    BY DEF KeyInv, Uncancelled, Enqueuing
  <2>3. QED
    BY <2>1, <2>2 DEF Outside, OutsideQueue
<1>2. \A i \in Ids : history'[i] \in {history[i], NoRow}
  BY DEF Outside, OutsideHistory, BucketInv, Plain
<1>3. \A i \in Ids : (InQueue(i) \/ history[i] # NoRow) => i # nextId
  BY BaseParts DEF Rowed
<1>4. nextId \in Nat
  BY BaseParts
<1>5. \A i \in Ids : InHand(i)' => queue'[i] # NoRow
  <2>1. \A i \in Ids : InHand(i)' => InQueue(i)
    BY DEF Outside, InHand, KeyInv
  <2>2. QED
    BY <1>1, <1>3, <2>1 DEF InQueue
<1>6. ASSUME NEW i \in Ids, NEW k, Keyed(i, k)'
      PROVE  Keyed(i, k) \/ (Inserted(i) /\ \A j \in Ids : ~Keyed(j, k))
  <2>1. CASE history'[i] # NoRow /\ history'[i].key = k
    BY <1>2, <2>1 DEF Keyed
  <2>2. CASE queue'[i] # NoRow /\ queue'[i].key = k
    <3>1. CASE Inserted(i)
      <4>1. PICK c \in Callers : cpc[c] = "insert" /\ queue'[i] = FreshRow(i, ckey[c])
        BY <3>1
      <4>2. ckey[c] = k /\ Matches(queue, k) = {} /\ Matches(history, k) = {}
        BY <2>2, <4>1, FreshFields DEF KeyInv, Enqueuing
      <4>3. QED
        BY <3>1, <4>2 DEF Keyed, Matches, InQueue
    <3>2. QED
      BY <1>1, <2>2, <3>1 DEF Keyed, InQueue
  <2>3. QED
    BY <1>6, <2>1, <2>2 DEF Keyed, InQueue
<1>7. \A i, j \in Ids : \A k : Keyed(i, k)' /\ Keyed(j, k)' => i = j
  BY <1>6 DEF KeyInv
<1>8. \A k : Matches(history', k) \subseteq Matches(history, k)
  BY <1>2 DEF Matches
<1>9. ASSUME NEW c \in Callers, cpc'[c] \in Enqueuing
      PROVE  /\ Matches(queue', ckey'[c]) = {}
             /\ cpc'[c] = "supersede" => Matches(history', ckey'[c]) \subseteq {cid'[c]}
             /\ cpc'[c] = "insert" => Matches(history', ckey'[c]) = {}
  <2>0. EnqueueEffect(c) /\ nextId' = nextId
    BY <1>9
  <2>1. \A k : Matches(queue', k) \subseteq Matches(queue, k)
    BY <1>1, <1>4, <2>0 DEF Matches
  <2>2. Matches(queue, ckey'[c]) = {}
    BY <1>9, <2>0 DEF EnqueueEffect, KeyInv, Enqueuing
  <2>3. CASE cpc'[c] = cpc[c] /\ cid'[c] = cid[c] /\ ckey'[c] = ckey[c]
    BY <1>8, <2>1, <2>2, <2>3 DEF KeyInv
  <2>4. CASE cpc'[c] = "history"
    BY <2>1, <2>2, <2>4
  <2>5. CASE /\ cpc[c] = "history" /\ ckey'[c] = ckey[c] /\ history' = history
             /\ cpc'[c] = "insert" /\ Found(ckey[c]) = {}
    BY <2>1, <2>2, <2>5, FoundOnly
  <2>6. CASE /\ cpc[c] = "history" /\ ckey'[c] = ckey[c] /\ history' = history
             /\ cpc'[c] = "supersede" /\ cid'[c] \in Found(ckey[c])
    BY <2>1, <2>2, <2>6, FoundOnly
  <2>7. CASE /\ cpc[c] = "supersede" /\ cpc'[c] = "insert" /\ ckey'[c] = ckey[c]
             /\ (cid[c] \in Ids => history'[cid[c]] = NoRow)
    <3>1. Matches(history', ckey[c]) \subseteq {cid[c]} /\ cid[c] \in Ids
      BY <1>8, <2>7 DEF KeyInv, BucketInv, Supersedable
    <3>2. cid[c] \notin Matches(history', ckey[c])
      BY <2>7, <3>1 DEF Matches
    <3>3. QED
      BY <2>1, <2>2, <2>7, <3>1, <3>2
  <2>8. QED
    BY <2>0, <2>3, <2>4, <2>5, <2>6, <2>7 DEF EnqueueEffect
<1>10. QED
  BY <1>5, <1>7, <1>9 DEF KeyInv, InQueue, Matches, Enqueuing

LEMMA WorkerKeys ==
    ASSUME Base, ListInv, BucketInv, KeyInv, SoleWorker, NEW w \in Workers, WorkerEffect(w)
    PROVE  KeyInv'
<1>0. /\ UNCHANGED <<cpc, cid, ckey>> /\ \A v \in Workers : v = w
      /\ wpc[w] # "scan" => seen[w] = {}
  BY DEF WorkerEffect, WorkerFrame, SoleWorker, ListInv
<1>1. ASSUME NEW i \in Ids, queue'[i] # NoRow
      PROVE  InQueue(i) /\ queue'[i].key = queue[i].key
  <2>1. InQueue(i)
    <3>1. CASE queue'[i] = queue[i]
      BY <1>1, <3>1 DEF InQueue
    <3>2. CASE Archives(w)
      BY <1>1, <3>1, <3>2, ArchiveRows
    <3>3. ASSUME NEW row \in Row, NEW at, Writes(w, row, at) PROVE InQueue(i)
      <4>1. CASE i = dl[w].id
        BY <3>3, <4>1 DEF Writes, InHand, KeyInv
      <4>2. QED
        BY <3>1, <3>3, <4>1, WriteRows
    <3>4. QED
      BY <3>1, <3>2, <3>3 DEF WorkerEffect, Quiet, Picks, LetsGo
  <2>2. QED
    BY <1>1, <2>1, WorkerGrown DEF Grown
<1>2. ASSUME NEW i \in Ids, history'[i] # NoRow
      PROVE  history'[i] = history[i] \/ (InQueue(i) /\ history'[i] = queue[i])
  <2>1. CASE Archives(w)
    BY <2>1, ArchiveRows
  <2>2. QED
    BY <2>1 DEF WorkerEffect, Quiet, Picks, LetsGo, Writes
<1>3. \A i \in Ids : InHand(i)' => queue'[i] # NoRow
  <2>1. \A i \in Ids : InHand(i)' => InQueue(i)
    BY WorkerHands DEF KeyInv
  <2>2. CASE Archives(w)
    BY <1>0, <2>2 DEF Archives, InHand, Working
  <2>3. ASSUME NEW row \in Row, NEW at, Writes(w, row, at)
        PROVE  \A i \in Ids : InQueue(i) => queue'[i] # NoRow
    BY <2>3, WriteRows DEF InQueue
  <2>4. QED
    BY <2>1, <2>2, <2>3 DEF WorkerEffect, Quiet, Picks, LetsGo, InQueue
<1>4. \A i \in Ids : \A k : Keyed(i, k)' => Keyed(i, k)
  BY <1>1, <1>2 DEF Keyed, InQueue
<1>5. \A k : /\ Matches(queue', k) \subseteq Matches(queue, k)
             /\ Matches(history', k) \subseteq Matches(history, k) \cup Matches(queue, k)
  BY <1>1, <1>2 DEF Matches, InQueue
<1>6. ASSUME NEW c \in Callers, cpc[c] \in Enqueuing
      PROVE  /\ Matches(queue', ckey[c]) = {}
             /\ cpc[c] = "supersede" => Matches(history', ckey[c]) \subseteq {cid[c]}
             /\ cpc[c] = "insert" => Matches(history', ckey[c]) = {}
  <2>1. Matches(queue, ckey[c]) = {}
    BY <1>6 DEF KeyInv
  <2>2. Matches(queue', ckey[c]) = {} /\ Matches(history', ckey[c]) \subseteq Matches(history, ckey[c])
    BY <1>5, <2>1
  <2>3. QED
    BY <2>2 DEF KeyInv
<1>7. Uncancelled'
  BY <1>0 DEF KeyInv, Uncancelled
<1>8. \A i, j \in Ids : \A k : Keyed(i, k)' /\ Keyed(j, k)' => i = j
  BY <1>4 DEF KeyInv
<1>9. QED
  BY <1>0, <1>3, <1>6, <1>7, <1>8 DEF KeyInv, InQueue, Matches, Enqueuing

LEMMA NextKeys ==
    ASSUME Base, ListInv, BucketInv, KeyInv, SoleWorker,
           Requests \cap {"cancel", "sabdelete"} = {}, [Next]_vars
    PROVE  KeyInv'
<1>0. Typed /\ Rowed /\ Uncancelled
  BY BaseParts DEF KeyInv
<1>1. ASSUME NEW w \in Workers, WorkerStep(w) \/ Progress(w) \/ Panic(w)
      PROVE  KeyInv'
  BY <1>1, WorkerEffects, WorkerKeys
<1>2. ASSUME NEW c \in Callers,
             \/ CallerStep(c)
             \/ \E k \in Keys, op \in {"none", "top", "bottom"} : FindDownload(c, k, op)
             \/ \E j \in Ids : SabSnapshot(c, j) \/ Mark(c, j)
      PROVE  KeyInv'
  <2>1. Outside /\ Uncancelled'
    BY <1>0, <1>2, CallerOutside, CallersUncancelled
  <2>2. \A b \in Callers : cpc'[b] \in Enqueuing => nextId' = nextId /\ EnqueueEffect(b)
    BY <1>0, <1>2, EnqueueSteps
  <2>3. QED
    BY <2>1, <2>2, OutsideKeys
<1>3. CASE \/ \E j \in Ids : DeleteHistory(j) \/ \E op \in Moves : Move(j, op)
           \/ ClearHistory \/ Pause \/ Resume \/ CooldownOver \/ StepUp
           \/ Shutdown \/ UNCHANGED vars
  <2>1. Outside /\ UNCHANGED <<nextId, cpc, cid, ckey>>
    BY <1>0, <1>3, OthersOutside
  <2>2. Uncancelled' /\ \A c \in Callers : EnqueueEffect(c)
    BY <1>0, <2>1 DEF Uncancelled, EnqueueEffect
  <2>3. QED
    BY <2>1, <2>2, OutsideKeys
<1>4. CASE Restart
  <2>1. /\ UNCHANGED <<queue, history>>
        /\ \A w \in Workers : wpc'[w] = "idle" /\ seen'[w] = {}
        /\ \A c \in Callers : cpc'[c] = "idle"
    BY <1>4 DEF Restart, Booted, store
  <2>2. QED
    BY <2>1 DEF KeyInv, Keyed, InHand, InQueue, Uncancelled, Enqueuing, Working
<1>5. QED
  BY <1>1, <1>2, <1>3, <1>4, NextCases

LEMMA KeysAlways ==
    ASSUME SoleWorker, Requests \cap {"cancel", "sabdelete"} = {}
    PROVE  Spec => []KeyInv
<1>1. Init => KeyInv
  BY DEF Init, KeyInv, Keyed, InHand, InQueue, Uncancelled, Enqueuing, Working
<1>2. Base /\ ListInv /\ BucketInv /\ KeyInv /\ [Next]_vars => KeyInv'
  BY NextKeys
<1>3. "sabdelete" \notin Requests
  OBVIOUS
<1>4. QED
  BY <1>1, <1>2, <1>3, BaseAlways, ListAlways, BucketsAlways, PTL DEF Spec

(* enqueueMu makes the look-ups and the insert one: with one worker and no     *)
(* cancel a key has one row in the queue and history together, also across     *)
(* archives between a caller's two look-ups, supersessions, crashes, restarts. *)
THEOREM OneRowOnly ==
    ASSUME SoleWorker, Requests \cap {"cancel", "sabdelete"} = {}
    PROVE  Spec => []OneRowPerKey
<1>1. KeyInv => OneRowPerKey
  BY DEF KeyInv, Keyed, OneRowPerKey, Holding
<1>2. QED
  BY <1>1, KeysAlways, PTL

LEMMA NextGrabs ==
    ASSUME Base, BucketInv, KeyInv, [Next]_vars,
           Requests \cap {"deletehistory", "clearhistory"} = {},
           NEW i \in Ids, InQueue(i) \/ history[i] # NoRow,
           ~(queue'[i] # NoRow \/ history'[i] # NoRow)
    PROVE  ~InQueue(i) /\ ComeBackLater(history[i])
<1>0. Typed /\ Rowed
  BY BaseParts
<1>1. ASSUME Outside PROVE ~InQueue(i) /\ ComeBackLater(history[i])
  <2>1. ~InQueue(i)
    <3>1. ~Reordered(i)
      <4>1. Reordered(i) => queue'[i] \in Row
        BY ReorderedRow, BaseParts
      <4>2. QED
        BY <4>1, NoRowAssumption
    <3>2. \A c \in Callers : cpc[c] # "delete"
      BY DEF KeyInv, Uncancelled, Enqueuing
    <3>3. InQueue(i) => i # nextId
      BY BaseParts DEF Rowed
    <3>4. QED
      BY <1>1, <3>1, <3>2, <3>3 DEF Outside, OutsideQueue, InQueue
  <2>2. history[i] # NoRow /\ history'[i] = NoRow
    BY <2>1
  <2>3. \E c \in Callers : cpc[c] = "supersede" /\ cid[c] = i
    BY <1>1, <2>2 DEF Outside, OutsideHistory
  <2>4. QED
    BY <2>1, <2>2, <2>3 DEF BucketInv, Supersedable
<1>2. ASSUME NEW w \in Workers, WorkerEffect(w) PROVE FALSE
  <2>1. CASE Archives(w)
    <3>1. CASE i = dl[w].id
      <4>1. InQueue(i)
        BY <2>1, <3>1 DEF Archives, InHand, KeyInv, Working
      <4>2. QED
        BY <2>1, <3>1, <4>1, ArchiveRows DEF InQueue
    <3>2. QED
      BY <2>1, <3>1, ArchiveRows DEF InQueue
  <2>2. ASSUME NEW row \in Row, NEW at, Writes(w, row, at) PROVE FALSE
    BY <2>2, WriteRows DEF Writes, InQueue
  <2>3. QED
    BY <1>2, <2>1, <2>2 DEF WorkerEffect, Quiet, Picks, LetsGo, InQueue
<1>3. CASE Restart
  BY <1>3 DEF Restart, store, InQueue
<1>4. QED
  BY <1>0, <1>1, <1>2, <1>3, NextCases, WorkerEffects, CallerOutside, OthersOutside

(* A grab Sonarr was told is accepted is in the queue or in history from then  *)
(* on, in every order of archives, retries, panics, crashes and restarts; only *)
(* a failure to come back for gives way, to a new row of its key.              *)
THEOREM GrabsStay ==
    ASSUME SoleWorker,
           Requests \cap {"cancel", "sabdelete", "deletehistory", "clearhistory"} = {}
    PROVE  Spec => NoGrabLost
<1>1. Base /\ BucketInv /\ KeyInv /\ [Next]_vars =>
        [\A i \in Ids : (InQueue(i) \/ history[i] # NoRow)
                           /\ ~(queue[i]' # NoRow \/ history[i]' # NoRow) =>
          ~InQueue(i) /\ ComeBackLater(history[i])]_<<queue, history>>
  BY NextGrabs
<1>2. "sabdelete" \notin Requests /\ Requests \cap {"cancel", "sabdelete"} = {}
  OBVIOUS
<1>3. QED
  BY <1>1, <1>2, BaseAlways, BucketsAlways, KeysAlways, PTL DEF Spec, NoGrabLost
===============================================================================
