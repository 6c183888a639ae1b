------------------------ MODULE QualityProber_proofs ------------------------
(* No phantom 1080p, only settled answers in the cache, and the dashboard's  *)
(* availability its own, for any show, any programmes of its episodes, any  *)
(* rows earlier releases left, any suppliers and any concurrency.           *)
EXTENDS QualityProber, TLAPS

(* The state with its functions' domains, which TypeOK leaves open.        *)
CacheRow == {None} \cup [row : {TRUE}, heights : SUBSET Heights, propagated : BOOLEAN,
                         by : PID \cup {Old}]
JobState == [pc : PCs, at : Nat, from : Nat, version : Resolutions, heights : SUBSET Heights,
             keep : BOOLEAN, answer : SUBSET Heights, nya : BOOLEAN, by : PID \cup {Old}]

Shape ==
  /\ programme \in [PID -> Programme]
  /\ stage \in [PID -> {Stages[i] : i \in DOMAIN Stages}]
  /\ cache \in [PID -> CacheRow]
  /\ job \in [Jobs -> JobState]
  /\ \A j \in Jobs :
       /\ job[j].at \in j[2]..Last(j) /\ job[j].from \in j[2]..Last(j)
       /\ job[j].pc \in {"scan", "check", "spread"} => j[1] = Feed

Typed == TypeOK /\ Shape

Own(j) == Show[job[j].at]

(* The heights an episode keeps, the stages in which a probe finds them,   *)
(* and those in which it finds anything.                                   *)
Settled(q) == Held(programme[q], programme[q].claims)
Done == {"vod", "expired"}
Out == {"signed", "live"} \cup Done

(* What a cache row, or a job about to spread one, may hold.               *)
Sound(heights, by) ==
  /\ by # Old => stage[by] \in Done /\ heights = Settled(by)
  /\ by = Old /\ swept /\ FullHD \in heights => \E q \in PID : ServesFullHD(programme[q])

(* What a search has in hand at each of its steps.                         *)
InHand(j) ==
  /\ job[j].pc \notin {"idle", "done"} => up
  /\ job[j].pc = "streams" =>
       /\ job[j].version \in {"original", "accessible"} /\ stage[Own(j)] \in Out
       /\ job[j].version = "original" => stage[Own(j)] # "signed"
  /\ job[j].pc = "store" =>
       /\ stage[Own(j)] \in Out
       /\ job[j].keep => stage[Own(j)] \in Done /\ job[j].heights = Settled(Own(j))
  /\ job[j].pc \in {"check", "spread"} => Sound(job[j].heights, job[j].by)
  /\ j[1] = Dashboard /\ job[j].answer # {} /\ job[j].by # Old
       => job[j].by = Show[j[2]] /\ stage[Show[j[2]]] \in Out

(* What the cache says of an episode.                                      *)
Kept(p) ==
  /\ IsRow(cache[p]) => Sound(cache[p].heights, cache[p].by)
  /\ OwnRow(cache[p]) /\ cache[p].by # Old => cache[p].by = p

IInv ==
  /\ Typed
  /\ \A j \in Jobs : InHand(j)
  /\ \A p \in PID : Kept(p)

----------------------------------------------------------------------------
(* The episodes and the goroutines.                                        *)

LEMMA Episodes ==
  /\ Len(Show) \in Nat \ {0} /\ DOMAIN Show = 1..Len(Show)
  /\ \A i \in DOMAIN Show : Show[i] \in PID
  BY ShowAssumption DEF PID

LEMMA JobTypes ==
  ASSUME NEW j \in Jobs
  PROVE  /\ j[1] \in {Feed, Dashboard} /\ j[2] \in Nat \ {0} /\ Last(j) \in Nat
         /\ j[2] \in DOMAIN Show /\ Last(j) \in DOMAIN Show /\ j[2] <= Last(j)
         /\ \A i \in j[2]..Last(j) : i \in DOMAIN Show /\ Show[i] \in PID
         /\ j[1] = Dashboard => Last(j) = j[2]
  <1>1. CASE j = <<Feed, 1>>
    BY <1>1, Episodes, ShowAssumption DEF Last
  <1>2. ASSUME NEW k \in DOMAIN Show, j = <<Dashboard, k>>
        PROVE  /\ j[1] = Dashboard /\ j[2] = k /\ Last(j) = k
    BY <1>2, ShowAssumption DEF Last
  <1>3. CASE j # <<Feed, 1>>
    <2>1. PICK k \in DOMAIN Show : j = <<Dashboard, k>>
      BY <1>3 DEF Jobs
    <2>2. QED
      BY <1>2, <2>1, Episodes
  <1>4. QED
    BY <1>1, <1>3

LEMMA OwnTyped ==
  ASSUME Typed, NEW j \in Jobs
  PROVE  /\ job[j] \in JobState /\ Show[job[j].at] \in PID
         /\ job[j].at \in j[2]..Last(j) /\ job[j].at \in Nat
  BY JobTypes DEF Typed, Shape

(* What the BBC says of an episode is typed whatever its stage.            *)
LEMMA ProgrammeTyped ==
  ASSUME NEW pr \in Programme
  PROVE  /\ pr.claims \subseteq Heights \ {0} /\ pr.hls \in BOOLEAN
         /\ pr.master.listed \in Heights /\ pr.master.rewritable \in BOOLEAN
         /\ pr.master.rewrite \in {"video", "audio"}
  BY DEF Programme

LEMMA ClaimedTyped ==
  ASSUME NEW pr \in Programme, NEW version, NEW st
  PROVE  Claimed(pr, version, st) \subseteq Heights
  BY ProgrammeTyped DEF Claimed, Heights, SignedClaims, LiveClaims

LEMMA HeldTyped ==
  ASSUME NEW pr \in Programme, NEW claims \in SUBSET Heights
  PROVE  Held(pr, claims) \subseteq Heights
  <1>1. Checked(claims, pr.master) \subseteq Heights
    BY ProgrammeTyped DEF Checked, Verified, Heights, FullHD
  <1>2. QED
    BY <1>1 DEF Held

----------------------------------------------------------------------------
(* The outcome of a probe.                                                 *)

LEMMA Outcome ==
  ASSUME Typed, NEW j \in Jobs, NEW heights \in SUBSET Heights,
         NEW by \in PID \cup {Old}, NEW nya \in BOOLEAN, NEW cached \in BOOLEAN
  PROVE  LET me == job[j]
             out == AfterProbe(j, heights, by, nya, cached)
         IN /\ out \in JobState
            /\ out.at \in j[2]..Last(j) /\ out.from \in j[2]..Last(j)
            /\ out.pc \in {"check", "done", "look"}
            /\ out.pc = "check" => cached /\ j[1] = Feed
            /\ out.heights = heights
            /\ out.answer = IF me.answer = {} THEN heights ELSE me.answer
            /\ out.by = IF heights = {} THEN me.by ELSE by
            /\ out.pc = "check" => heights # {}
  <1> DEFINE me == job[j]
             first == IF me.answer = {} THEN heights ELSE me.answer
             next == CASE me.at = j[2] /\ heights # {} ->
                            IF cached /\ j[1] = Feed THEN "check" ELSE "done"
                       [] me.at # j[2] \/ heights = {} ->
                            IF me.at = Last(j) THEN "done" ELSE "look"
             at == IF me.at = Last(j) \/ next = "done" THEN me.at ELSE me.at + 1
             nyaOut == (me.nya \/ nya) /\ (next # "done" \/ first = {})
             byOut == IF heights = {} THEN me.by ELSE by
  <1>1. AfterProbe(j, heights, by, nya, cached) =
          [me EXCEPT !.pc = next, !.from = me.at, !.heights = heights, !.at = at,
                     !.answer = first, !.by = byOut, !.nya = nyaOut]
    BY DEF AfterProbe
  <1>2. /\ me \in JobState /\ me.at \in Nat /\ me.at \in j[2]..Last(j)
        /\ j[2] \in Nat /\ Last(j) \in Nat
    BY OwnTyped, JobTypes
  <1>3. /\ next \in {"check", "done", "look"}
        /\ next = "check" => cached /\ j[1] = Feed /\ heights # {}
    OBVIOUS
  <1>4. at \in j[2]..Last(j) /\ at \in Nat
    BY <1>2
  <1>5. first \in SUBSET Heights
    BY <1>2 DEF JobState
  <1>6. nyaOut \in BOOLEAN /\ byOut \in PID \cup {Old}
    BY <1>2 DEF JobState
  <1> HIDE DEF next, at, first, nyaOut, byOut, me
  <1>7. ASSUME NEW b \in BOOLEAN
        PROVE  [me EXCEPT !.pc = next, !.from = me.at, !.heights = heights, !.at = at,
                          !.answer = first, !.by = byOut, !.nya = b] \in JobState
    BY <1>2, <1>3, <1>4, <1>5, <1>6 DEF JobState, PCs
  <1>8. /\ AfterProbe(j, heights, by, nya, cached) \in JobState
    BY <1>1, <1>6, <1>7
  <1>9. /\ AfterProbe(j, heights, by, nya, cached).at = at
        /\ AfterProbe(j, heights, by, nya, cached).from = me.at
        /\ AfterProbe(j, heights, by, nya, cached).pc = next
        /\ AfterProbe(j, heights, by, nya, cached).heights = heights
        /\ AfterProbe(j, heights, by, nya, cached).answer = first
        /\ AfterProbe(j, heights, by, nya, cached).by = byOut
    BY <1>1, <1>2 DEF JobState
  <1>10. QED
    BY <1>2, <1>3, <1>4, <1>8, <1>9 DEF first, byOut, me

----------------------------------------------------------------------------
(* Types.                                                                  *)

LEMMA ShapeTypes ==
  ASSUME Shape, programme \in [PID -> Programmes], purged \in BOOLEAN, swept \in BOOLEAN,
         up \in BOOLEAN
  PROVE  Typed
  BY DEF Shape, Typed, TypeOK, CacheRow, JobState

LEMMA NewRow ==
  ASSUME NEW heights \in SUBSET Heights, NEW b \in BOOLEAN, NEW by \in PID \cup {Old}
  PROVE  /\ Row(heights, b, by) \in CacheRow /\ Row(heights, b, by).heights = heights
         /\ Row(heights, b, by).by = by
         /\ IsRow(Row(heights, b, by)) /\ (OwnRow(Row(heights, b, by)) <=> ~b)
  BY DEF CacheRow, Row, IsRow, OwnRow

LEMMA NoRow == None \in CacheRow /\ ~IsRow(None) /\ ~OwnRow(None)
  BY DEF CacheRow, None, IsRow, OwnRow

LEMMA ARow ==
  ASSUME NEW r \in CacheRow, IsRow(r)
  PROVE  r.heights \in SUBSET Heights /\ r.by \in PID \cup {Old}
  <1>1. r # None
    BY NoRow
  <1>2. QED
    BY <1>1 DEF CacheRow

LEMMA IdleTyped ==
  ASSUME NEW j \in Jobs
  PROVE  /\ IdleJob(j[2]) \in JobState /\ [IdleJob(j[2]) EXCEPT !.pc = "queued"] \in JobState
         /\ IdleJob(j[2]).at = j[2] /\ IdleJob(j[2]).from = j[2]
         /\ IdleJob(j[2]).pc = "idle"
         /\ [IdleJob(j[2]) EXCEPT !.pc = "queued"].pc = "queued"
         /\ [IdleJob(j[2]) EXCEPT !.pc = "queued"].at = j[2]
         /\ [IdleJob(j[2]) EXCEPT !.pc = "queued"].from = j[2]
  BY JobTypes DEF IdleJob, JobState, PCs, Resolutions

LEMMA InitTyped == Init => Typed
  <1> SUFFICES ASSUME Init PROVE Typed
    OBVIOUS
  <1>1. programme \in [PID -> Programme]
    BY ProgrammesAssumption DEF Init
  <1>2. cache \in [PID -> CacheRow]
    <2>1. ASSUME NEW q \in PID PROVE Left(programme[q]) \subseteq SUBSET Heights
      <3>1. programme[q] \in Programme
        BY <1>1
      <3>2. \A claims \in {programme[q].claims, LiveClaims, SignedClaims} :
              claims \in SUBSET Heights
        BY <3>1, ProgrammeTyped DEF LiveClaims, SignedClaims, Heights
      <3>3. \A claims \in {programme[q].claims, LiveClaims, SignedClaims} :
              Held(programme[q], claims) \in SUBSET Heights
        BY <3>1, <3>2, HeldTyped
      <3>4. QED
        BY <3>2, <3>3 DEF Left
    <2>2. ASSUME NEW h \in UNION {Left(programme[q]) : q \in PID}
          PROVE  Row(h, FALSE, Old) \in CacheRow
      <3>1. h \in SUBSET Heights
        BY <2>1
      <3>2. QED
        BY <3>1, NewRow
    <2>3. LeftRows \subseteq CacheRow
      BY <2>2 DEF LeftRows
    <2>4. QED
      BY <2>3, NoRow DEF Init
  <1>3. job \in [Jobs -> JobState] /\ \A j \in Jobs : job[j] = IdleJob(j[2])
    BY IdleTyped DEF Init
  <1>4. \A j \in Jobs :
          /\ job[j].at \in j[2]..Last(j) /\ job[j].from \in j[2]..Last(j)
          /\ job[j].pc \in {"scan", "check", "spread"} => j[1] = Feed
    <2> TAKE j \in Jobs
    <2>1. j[2] \in j[2]..Last(j)
      BY JobTypes
    <2>2. QED
      BY <1>3, <2>1, IdleTyped
  <1>5. stage \in [PID -> {Stages[i] : i \in DOMAIN Stages}]
    BY DEF Init
  <1>6. QED
    BY <1>1, <1>2, <1>3, <1>4, <1>5, ShapeTypes DEF Init, Shape

(* A step that gives a goroutine, and perhaps a row, a new value.          *)
LEMMA MoveTyped ==
  ASSUME Typed, NEW j \in Jobs, NEW out \in JobState,
         out.at \in j[2]..Last(j), out.from \in j[2]..Last(j),
         out.pc \in {"scan", "check", "spread"} => j[1] = Feed,
         job' = [job EXCEPT ![j] = out], cache' \in [PID -> CacheRow],
         UNCHANGED <<programme, stage, purged, swept, up>>
  PROVE  Typed'
  <1>1. job' \in [Jobs -> JobState]
        /\ \A i \in Jobs :
             /\ job'[i].at \in i[2]..Last(i) /\ job'[i].from \in i[2]..Last(i)
             /\ job'[i].pc \in {"scan", "check", "spread"} => i[1] = Feed
    BY DEF Typed, Shape
  <1>2. Shape'
    BY <1>1 DEF Typed, Shape, Last
  <1>3. QED
    BY <1>2 DEF Typed, TypeOK, Shape, CacheRow, JobState, Last

(* What mediaselector and the 1080p check leave: the heights the master    *)
(* confirms, to keep only when it answered for an on-demand version.       *)
LEMMA StreamsOutcome ==
  ASSUME Typed, NEW j \in Jobs, Streams(j)
  PROVE  LET me == job[j]
             p == Show[me.at]
             claims == Claimed(programme[p], me.version, stage[p])
         IN \/ job' = [job EXCEPT ![j] = AfterProbe(j, {}, p, FALSE, FALSE)]
            \/ \E heights \in SUBSET Heights, keep \in BOOLEAN :
                 /\ job' = [job EXCEPT ![j] = [me EXCEPT !.pc = "store", !.heights = heights,
                                                         !.keep = keep]]
                 /\ keep => /\ heights = Held(programme[p], claims)
                            /\ me.version # "accessible"
                            /\ ~(me.version = "original" /\ stage[p] = "live")
  <1> DEFINE me == job[j]
             p == Show[me.at]
             claims == Claimed(programme[p], me.version, stage[p])
             asked == NeedsCheck(claims, programme[p].hls)
             liveOnly == me.version = "original" /\ stage[p] = "live"
  <1>1. claims \in SUBSET Heights /\ Held(programme[p], claims) \in SUBSET Heights
    BY OwnTyped, ClaimedTyped, HeldTyped DEF Typed, Shape
  <1>2. PICK reply \in Selected :
          IF reply # "video"
          THEN job' = [job EXCEPT ![j] = AfterProbe(j, {}, p, FALSE, FALSE)]
          ELSE \E refusing \in SUBSET (1..Suppliers), late \in BOOLEAN :
                 LET check == IF asked THEN Failover(Suppliers, refusing, late) ELSE "answered"
                     heights == IF check = "answered" THEN Held(programme[p], claims) ELSE claims
                 IN job' = [job EXCEPT ![j].pc = "store",
                                       ![j].heights = heights,
                                       ![j].keep = Cacheable(me.version, liveOnly, check)]
    BY DEF Streams
  <1>3. CASE reply # "video"
    BY <1>2, <1>3
  <1>4. CASE reply = "video"
    <2>1. PICK refusing \in SUBSET (1..Suppliers), late \in BOOLEAN :
            LET check == IF asked THEN Failover(Suppliers, refusing, late) ELSE "answered"
                heights == IF check = "answered" THEN Held(programme[p], claims) ELSE claims
            IN job' = [job EXCEPT ![j].pc = "store",
                                  ![j].heights = heights,
                                  ![j].keep = Cacheable(me.version, liveOnly, check)]
      BY <1>2, <1>4
    <2> DEFINE check == IF asked THEN Failover(Suppliers, refusing, late) ELSE "answered"
               heights == IF check = "answered" THEN Held(programme[p], claims) ELSE claims
               keep == Cacheable(me.version, liveOnly, check)
    <2>2. heights \in SUBSET Heights
      BY <1>1
    <2>3. keep \in BOOLEAN
      BY DEF Cacheable
    <2>4. keep => /\ heights = Held(programme[p], claims) /\ me.version # "accessible"
                  /\ ~liveOnly
      BY DEF Cacheable, Failover
    <2>5. job' = [job EXCEPT ![j].pc = "store", ![j].heights = heights, ![j].keep = keep]
      BY <2>1
    <2> HIDE DEF check, heights, keep, me
    <2>6. job' = [job EXCEPT ![j] = [job[j] EXCEPT !.pc = "store", !.heights = heights,
                                                   !.keep = keep]]
      BY <2>5
    <2>7. QED
      BY <2>2, <2>3, <2>4, <2>6 DEF me
  <1>5. QED
    BY <1>3, <1>4

LEMMA ProbedTyped ==
  ASSUME Typed, NEW j \in Jobs, NEW heights \in SUBSET Heights,
         NEW by \in PID \cup {Old}, NEW nya \in BOOLEAN, NEW cached \in BOOLEAN,
         job' = [job EXCEPT ![j] = AfterProbe(j, heights, by, nya, cached)],
         cache' \in [PID -> CacheRow], UNCHANGED <<programme, stage, purged, swept, up>>
  PROVE  Typed'
  <1> DEFINE out == AfterProbe(j, heights, by, nya, cached)
  <1>1. /\ out \in JobState /\ out.at \in j[2]..Last(j) /\ out.from \in j[2]..Last(j)
        /\ out.pc \in {"scan", "check", "spread"} => j[1] = Feed
    BY Outcome
  <1> HIDE DEF out
  <1>2. job' = [job EXCEPT ![j] = out]
    BY DEF out
  <1>3. QED
    BY <1>1, <1>2, MoveTyped

LEMMA SiblingTyped ==
  ASSUME Typed, NEW j \in Jobs
  PROVE  /\ NextSibling(job[j], j) \in JobState
         /\ NextSibling(job[j], j).at \in j[2]..Last(j)
         /\ NextSibling(job[j], j).from \in j[2]..Last(j)
         /\ NextSibling(job[j], j).pc \in {"check", "done"}
         /\ NextSibling(job[j], j).heights = job[j].heights
         /\ NextSibling(job[j], j).answer = job[j].answer
         /\ NextSibling(job[j], j).by = job[j].by
  <1>1. /\ job[j] \in JobState /\ job[j].at \in j[2]..Last(j) /\ job[j].from \in j[2]..Last(j)
        /\ job[j].at \in Nat /\ j[2] \in Nat /\ Last(j) \in Nat
    BY OwnTyped, JobTypes DEF Typed, Shape
  <1>2. CASE job[j].at = Last(j)
    BY <1>1, <1>2 DEF NextSibling, JobState, PCs
  <1>3. CASE job[j].at # Last(j)
    <2>1. job[j].at + 1 \in Nat /\ job[j].at + 1 \in j[2]..Last(j)
      BY <1>1, <1>3
    <2>2. QED
      BY <1>1, <1>3, <2>1 DEF NextSibling, JobState, PCs
  <1>4. QED
    BY <1>2, <1>3

LEMMA FeedFirst ==
  ASSUME NEW j \in Jobs, j[1] = Feed
  PROVE  j[2] = 1
  BY ShowAssumption DEF Jobs

LEMMA StepTyped ==
  ASSUME Typed, NEW j \in Jobs, Step(j)
  PROVE  Typed'
  <1> DEFINE me == job[j]
             p == Show[me.at]
  <1>1. /\ me \in JobState /\ me.at \in Nat /\ me.at \in j[2]..Last(j)
        /\ me.from \in j[2]..Last(j) /\ p \in PID /\ cache \in [PID -> CacheRow]
        /\ cache[p] \in CacheRow /\ j[2] \in Nat /\ Last(j) \in Nat /\ job \in [Jobs -> JobState]
    BY OwnTyped, JobTypes DEF Typed, Shape
  <1>2. CASE Spawn(j)
    <2>1. \A pc \in PCs :
            /\ [me EXCEPT !.pc = pc] \in JobState /\ [me EXCEPT !.pc = pc].pc = pc
            /\ [me EXCEPT !.pc = pc].at = me.at /\ [me EXCEPT !.pc = pc].from = me.from
      BY <1>1 DEF JobState
    <2>2. PICK pc \in PCs : /\ job' = [job EXCEPT ![j] = [me EXCEPT !.pc = pc]]
                            /\ pc = IF j[1] = Feed THEN "scan" ELSE "look"
      BY <1>1, <1>2 DEF Spawn, PCs
    <2>3. QED
      BY <1>1, <1>2, <2>1, <2>2, MoveTyped DEF Spawn
  <1>3. CASE Look(j)
    <2>1. CASE Hit(p)
      <3>1. IsRow(cache[p])
        BY <2>1 DEF Hit, OwnRow, IsRow
      <3>2. cache[p].heights \in SUBSET Heights /\ cache[p].by \in PID \cup {Old}
        BY <1>1, <3>1, ARow
      <3>3. QED
        BY <1>1, <1>3, <2>1, <3>2, ProbedTyped DEF Look
    <2>2. CASE ~Hit(p)
      <3>1. job' = [job EXCEPT ![j] = [me EXCEPT !.pc = "resolve"]]
        BY <1>1, <1>3, <2>2 DEF Look
      <3>2. /\ [me EXCEPT !.pc = "resolve"] \in JobState
            /\ [me EXCEPT !.pc = "resolve"].at = me.at
            /\ [me EXCEPT !.pc = "resolve"].pc = "resolve"
            /\ [me EXCEPT !.pc = "resolve"].from = me.from
        BY <1>1 DEF JobState, PCs
      <3>3. QED
        BY <1>1, <1>3, <3>1, <3>2, MoveTyped DEF Look
    <2>3. QED
      BY <2>1, <2>2
  <1>4. CASE ResolveEpisode(j)
    <2>1. PICK fetched \in Fetched :
            LET version == Resolve(fetched, EpisodeAt(stage[p])) IN
            job' = [job EXCEPT ![j] = IF version \in {"nya", "error"}
                                      THEN AfterProbe(j, {}, p, version = "nya", FALSE)
                                      ELSE [me EXCEPT !.pc = "streams", !.version = version]]
      BY <1>1, <1>4 DEF ResolveEpisode
    <2> DEFINE version == Resolve(fetched, EpisodeAt(stage[p]))
    <2>2. version \in Resolutions
      BY DEF Resolve, PickVersion, Resolutions
    <2> HIDE DEF version
    <2>3. CASE version \in {"nya", "error"}
      <3>1. job' = [job EXCEPT ![j] = AfterProbe(j, {}, p, version = "nya", FALSE)]
        BY <2>1, <2>3 DEF version
      <3>2. (version = "nya") \in BOOLEAN
        OBVIOUS
      <3>3. QED
        BY <1>1, <1>4, <3>1, <3>2, ProbedTyped DEF ResolveEpisode
    <2>4. CASE version \notin {"nya", "error"}
      <3>1. job' = [job EXCEPT ![j] = [me EXCEPT !.pc = "streams", !.version = version]]
        BY <2>1, <2>4 DEF version
      <3>2. /\ [me EXCEPT !.pc = "streams", !.version = version] \in JobState
            /\ [me EXCEPT !.pc = "streams", !.version = version].at = me.at
            /\ [me EXCEPT !.pc = "streams", !.version = version].pc = "streams"
            /\ [me EXCEPT !.pc = "streams", !.version = version].from = me.from
        BY <1>1, <2>2 DEF JobState, PCs
      <3>3. QED
        BY <1>1, <1>4, <3>1, <3>2, MoveTyped DEF ResolveEpisode
    <2>5. QED
      BY <2>3, <2>4
  <1>5. CASE Streams(j)
    <2>1. \/ job' = [job EXCEPT ![j] = AfterProbe(j, {}, p, FALSE, FALSE)]
          \/ \E heights \in SUBSET Heights, keep \in BOOLEAN :
               job' = [job EXCEPT ![j] = [me EXCEPT !.pc = "store", !.heights = heights,
                                                    !.keep = keep]]
      BY <1>1, <1>5, StreamsOutcome
    <2>2. CASE job' = [job EXCEPT ![j] = AfterProbe(j, {}, p, FALSE, FALSE)]
      BY <1>1, <1>5, <2>2, ProbedTyped DEF Streams
    <2>3. ASSUME NEW heights \in SUBSET Heights, NEW keep \in BOOLEAN,
                 job' = [job EXCEPT ![j] = [me EXCEPT !.pc = "store", !.heights = heights,
                                                      !.keep = keep]]
          PROVE  Typed'
      <3>1. /\ [me EXCEPT !.pc = "store", !.heights = heights, !.keep = keep] \in JobState
            /\ [me EXCEPT !.pc = "store", !.heights = heights, !.keep = keep].at = me.at
            /\ [me EXCEPT !.pc = "store", !.heights = heights, !.keep = keep].pc = "store"
            /\ [me EXCEPT !.pc = "store", !.heights = heights, !.keep = keep].from = me.from
        BY <1>1 DEF JobState, PCs
      <3>2. QED
        BY <1>1, <1>5, <2>3, <3>1, MoveTyped DEF Streams
    <2>4. QED
      BY <2>1, <2>2, <2>3
  <1>6. CASE StoreProbe(j)
    <2>1. PICK written \in BOOLEAN :
            /\ cache' = IF written THEN [cache EXCEPT ![p] = Row(me.heights, FALSE, p)] ELSE cache
            /\ job' = [job EXCEPT ![j] = AfterProbe(j, me.heights, p, FALSE, written)]
      BY <1>6 DEF StoreProbe
    <2>2. me.heights \in SUBSET Heights
      BY <1>1 DEF JobState
    <2>3. cache' \in [PID -> CacheRow]
      BY <1>1, <2>1, <2>2, NewRow
    <2>4. UNCHANGED <<programme, stage, purged, swept, up>> /\ p \in PID \cup {Old}
      BY <1>1, <1>6 DEF StoreProbe
    <2>5. QED
      BY <2>1, <2>2, <2>3, <2>4, ProbedTyped
  <1>7. CASE Scan(j)
    <2>0. /\ j[1] = Feed /\ 1 \in j[2]..Last(j)
          /\ cache' \in [PID -> CacheRow] /\ UNCHANGED <<programme, stage, purged, swept, up>>
      BY <1>1, <1>7, FeedFirst DEF Scan, Typed, Shape
    <2>1. CASE IsRow(cache[p])
      <3>1. cache[p].heights \in SUBSET Heights /\ cache[p].by \in PID \cup {Old}
        BY <1>1, <2>1, ARow
      <3> DEFINE h == cache[p].heights
                 by == cache[p].by
                 out == [me EXCEPT !.pc = "check", !.from = me.at, !.at = 1,
                                   !.heights = h, !.answer = h, !.by = by]
      <3>2. job' = [job EXCEPT ![j] = out]
        BY <1>1, <1>7, <2>1 DEF Scan
      <3> HIDE DEF h, by
      <3>3. out \in JobState /\ out.at = 1 /\ out.from = me.at
        BY <1>1, <3>1 DEF JobState, PCs, h, by
      <3>4. QED
        BY <1>1, <2>0, <3>2, <3>3, MoveTyped
    <2>2. CASE ~IsRow(cache[p]) /\ me.at < Last(j)
      <3>1. job' = [job EXCEPT ![j] = [me EXCEPT !.at = me.at + 1]]
        BY <1>1, <1>7, <2>2 DEF Scan
      <3>2. /\ [me EXCEPT !.at = me.at + 1] \in JobState
            /\ [me EXCEPT !.at = me.at + 1].at = me.at + 1
            /\ [me EXCEPT !.at = me.at + 1].from = me.from
            /\ me.at + 1 \in j[2]..Last(j)
        BY <1>1, <2>2 DEF JobState
      <3>3. QED
        BY <1>1, <2>0, <3>1, <3>2, MoveTyped
    <2>3. CASE ~IsRow(cache[p]) /\ ~(me.at < Last(j))
      <3>1. job' = [job EXCEPT ![j] = [me EXCEPT !.pc = "look", !.at = 1]]
        BY <1>1, <1>7, <2>3 DEF Scan
      <3>2. /\ [me EXCEPT !.pc = "look", !.at = 1] \in JobState
            /\ [me EXCEPT !.pc = "look", !.at = 1].at = 1
            /\ [me EXCEPT !.pc = "look", !.at = 1].from = me.from
        BY <1>1 DEF JobState, PCs
      <3>3. QED
        BY <1>1, <2>0, <3>1, <3>2, MoveTyped
    <2>4. QED
      BY <2>1, <2>2, <2>3
  <1>8. CASE CheckSibling(j)
    <2>0. j[1] = Feed
      BY <1>8 DEF CheckSibling, Typed, Shape
    <2>1. CASE job' = [job EXCEPT ![j] = NextSibling(me, j)]
      BY <1>1, <1>8, <2>0, <2>1, SiblingTyped, MoveTyped DEF CheckSibling
    <2>2. CASE job' = [job EXCEPT ![j] = [me EXCEPT !.pc = "spread"]]
      <3>1. /\ [me EXCEPT !.pc = "spread"] \in JobState
            /\ [me EXCEPT !.pc = "spread"].at = me.at
            /\ [me EXCEPT !.pc = "spread"].pc = "spread"
            /\ [me EXCEPT !.pc = "spread"].from = me.from
        BY <1>1 DEF JobState, PCs
      <3>2. QED
        BY <1>1, <1>8, <2>0, <2>2, <3>1, MoveTyped DEF CheckSibling
    <2>3. QED
      BY <1>8, <2>1, <2>2 DEF CheckSibling
  <1>9. CASE Spread(j)
    <2>0. j[1] = Feed
      BY <1>9 DEF Spread, Typed, Shape
    <2>1. me.heights \in SUBSET Heights /\ me.by \in PID \cup {Old}
      BY <1>1 DEF JobState
    <2>2. cache' \in [PID -> CacheRow]
      BY <1>1, <1>9, <2>1, NewRow DEF Spread
    <2>3. QED
      BY <1>1, <1>9, <2>0, <2>2, SiblingTyped, MoveTyped DEF Spread
  <1>10. QED
    BY <1>2, <1>3, <1>4, <1>5, <1>6, <1>7, <1>8, <1>9 DEF Step

LEMMA NextTyped == Typed /\ [Next]_vars => Typed'
  <1> SUFFICES ASSUME Typed, [Next]_vars PROVE Typed'
    OBVIOUS
  <1>0. \A j \in Jobs : j[2] \in j[2]..Last(j)
    BY JobTypes
  <1>1. CASE Boot
    <2>1. cache' \in [PID -> CacheRow]
      BY <1>1, NoRow DEF Boot, PurgePhantoms, Typed, Shape
    <2>2. Shape'
      BY <1>1, <2>1 DEF Boot, Typed, Shape, Last
    <2>3. /\ purged' \in BOOLEAN /\ swept' \in BOOLEAN /\ up' \in BOOLEAN
          /\ programme' \in [PID -> Programmes]
      BY <1>1 DEF Boot, Typed, TypeOK
    <2>4. QED
      BY <2>1, <2>2, <2>3 DEF Shape, Typed, TypeOK, CacheRow, JobState, Last
  <1>2. CASE Restart
    <2>1. job' \in [Jobs -> JobState]
      BY <1>2, IdleTyped DEF Restart
    <2>2. Shape'
      BY <1>0, <1>2, <2>1, IdleTyped DEF Restart, Typed, Shape, Last
    <2>3. /\ purged' \in BOOLEAN /\ swept' \in BOOLEAN /\ up' \in BOOLEAN
          /\ programme' \in [PID -> Programmes]
      BY <1>2 DEF Restart, Typed, TypeOK
    <2>4. QED
      BY <2>2, <2>3 DEF Shape, Typed, TypeOK, CacheRow, JobState, Last
  <1>3. ASSUME NEW search, Search(search) PROVE Typed'
    <2>1. /\ job' \in [Jobs -> JobState]
          /\ \A j \in Jobs : \/ job'[j] = job[j]
                             \/ job'[j] = [IdleJob(j[2]) EXCEPT !.pc = "queued"]
      BY <1>3, IdleTyped DEF Search, Typed, Shape
    <2>2. Shape'
      BY <1>0, <1>3, <2>1, IdleTyped DEF Search, Typed, Shape, Last
    <2>3. /\ purged' \in BOOLEAN /\ swept' \in BOOLEAN /\ up' \in BOOLEAN
          /\ programme' \in [PID -> Programmes]
      BY <1>3 DEF Search, Typed, TypeOK
    <2>4. QED
      BY <2>2, <2>3 DEF Shape, Typed, TypeOK, CacheRow, JobState, Last
  <1>4. ASSUME NEW p \in PID, Publish(p) PROVE Typed'
    <2>1. stage' \in [PID -> {Stages[i] : i \in DOMAIN Stages}]
      BY <1>4 DEF Publish, Typed, Shape
    <2>2. QED
      BY <1>4, <2>1 DEF Publish, Typed, Shape, TypeOK, Last
  <1>5. CASE UNCHANGED vars
    BY <1>5 DEF vars, Typed, Shape, TypeOK, Last
  <1>6. QED
    BY <1>1, <1>2, <1>3, <1>4, <1>5, StepTyped DEF Next

(* Every variable has its type, and no index leaves its show.              *)
THEOREM TypeCorrect == Spec => []TypeOK
  <1>1. Typed => TypeOK
    BY DEF Typed
  <1>2. QED
    BY <1>1, InitTyped, NextTyped, PTL DEF Spec

----------------------------------------------------------------------------
(* What the BBC's answers mean.                                            *)

LEMMA StageNames ==
  {Stages[i] : i \in DOMAIN Stages}
    = {"unlisted", "airing", "announced", "signed", "live", "vod", "expired"}
  <1>1. /\ DOMAIN Stages = 1..7
        /\ Stages[1] = "unlisted" /\ Stages[2] = "airing" /\ Stages[3] = "announced"
        /\ Stages[4] = "signed" /\ Stages[5] = "live" /\ Stages[6] = "vod"
        /\ Stages[7] = "expired"
    BY DEF Stages
  <1>2. QED
    BY <1>1

(* A version is found only once the episode is out, and an original one    *)
(* only once it is more than signed.                                       *)
LEMMA VersionMeansOut ==
  ASSUME NEW fetched, NEW st \in {Stages[i] : i \in DOMAIN Stages},
         Resolve(fetched, EpisodeAt(st)) \notin {"nya", "error"}
  PROVE  /\ st \in Out
         /\ Resolve(fetched, EpisodeAt(st)) \in {"original", "accessible"}
         /\ Resolve(fetched, EpisodeAt(st)) = "original" => st # "signed"
  <1> DEFINE e == EpisodeAt(st)
  <1>1. /\ fetched = "body" /\ e.listed /\ ~e.live
        /\ Resolve(fetched, EpisodeAt(st)) = PickVersion(e.versions)
    BY DEF Resolve
  <1>2. st \notin {"unlisted", "airing"}
    BY <1>1 DEF EpisodeAt
  <1>3. st # "announced"
    <2> SUFFICES ASSUME st = "announced" PROVE FALSE
      OBVIOUS
    <2>1. /\ e.versions = <<[kind |-> "original", started |-> FALSE],
                            [kind |-> "signed", started |-> TRUE]>>
      BY DEF EpisodeAt
    <2>2. /\ DOMAIN e.versions = {1, 2}
          /\ e.versions[1].kind = "original" /\ ~e.versions[1].started
          /\ e.versions[2].kind = "signed"
      BY <2>1
    <2>3. PickVersion(e.versions) = "nya"
      BY <2>2 DEF PickVersion, LiveKinds, AccessibleKinds
    <2>4. QED
      BY <1>1, <2>3
  <1>4. st = "signed" => PickVersion(e.versions) # "original"
    <2> SUFFICES ASSUME st = "signed" PROVE PickVersion(e.versions) # "original"
      OBVIOUS
    <2>1. e.versions = <<[kind |-> "signed", started |-> TRUE]>>
      BY DEF EpisodeAt
    <2>2. DOMAIN e.versions = {1} /\ e.versions[1].kind = "signed"
      BY <2>1
    <2>3. QED
      BY <2>2 DEF PickVersion, LiveKinds, AccessibleKinds
  <1>5. PickVersion(e.versions) \in {"original", "nya", "accessible"}
    BY DEF PickVersion
  <1>6. QED
    BY <1>1, <1>2, <1>3, <1>4, <1>5, StageNames DEF Out, Done

(* The BBC only moves forward.                                             *)
LEMMA Forward ==
  ASSUME Typed, NEW p \in PID, Publish(p), NEW q \in PID
  PROVE  /\ stage[q] \in Done => stage'[q] \in Done
         /\ stage[q] \in Out => stage'[q] \in Out
         /\ stage[q] \in Out /\ stage[q] # "signed" => stage'[q] # "signed"
  <1>1. PICK i \in DOMAIN Stages, k \in DOMAIN Stages :
          i < k /\ stage[p] = Stages[i] /\ stage' = [stage EXCEPT ![p] = Stages[k]]
    BY DEF Publish
  <1>2. /\ DOMAIN Stages = 1..7
        /\ Stages[1] = "unlisted" /\ Stages[2] = "airing" /\ Stages[3] = "announced"
        /\ Stages[4] = "signed" /\ Stages[5] = "live" /\ Stages[6] = "vod"
        /\ Stages[7] = "expired"
    BY DEF Stages
  <1>3. /\ Stages[i] \in Done => i \in {6, 7}
        /\ Stages[i] \in Out => i \in {4, 5, 6, 7}
    BY <1>2 DEF Out, Done
  <1>4. /\ i \in 1..7 /\ k \in 1..7 /\ i < k
        /\ Stages[i] \in Done => Stages[k] = "expired"
        /\ Stages[i] \in Out => Stages[k] \in {"live", "vod", "expired"}
    BY <1>1, <1>2, <1>3
  <1>5. QED
    BY <1>1, <1>4 DEF Typed, Shape, Out, Done

(* What the check leaves of a claim is served, or there was nothing to     *)
(* hold it against.                                                        *)
LEMMA HeldIsServed ==
  ASSUME NEW pr \in Programme, NEW claims, FullHD \in Held(pr, claims)
  PROVE  ServesFullHD(pr)
  <1> DEFINE m == pr.master
  <1> SUFFICES ASSUME ~ServesFullHD(pr) PROVE FALSE
    OBVIOUS
  <1>1. /\ m.listed \in {396, 540, 720} /\ pr.hls
        /\ ~(m.rewritable /\ m.rewrite = "video")
    BY ProgrammeTyped DEF ServesFullHD, Heights, FullHD
  <1>2. HiddenFHD(m) = "none"
    BY <1>1 DEF HiddenFHD, MinHD
  <1>3. ~VerifyFHD(m)
    BY <1>1, <1>2 DEF VerifyFHD, FullHD
  <1>4. FullHD \notin Checked(claims, m)
    BY <1>1, <1>2, <1>3 DEF Checked, Verified, FullHD
  <1>5. FullHD \in claims => NeedsCheck(claims, pr.hls)
    BY <1>1 DEF NeedsCheck, FullHD, MinHD
  <1>6. QED
    BY <1>4, <1>5 DEF Held

----------------------------------------------------------------------------
(* The invariant.                                                          *)

LEMMA Unpack ==
  ASSUME IInv
  PROVE  /\ Typed
         /\ \A j \in Jobs : InHand(j)
         /\ \A p \in PID : Kept(p)
  BY DEF IInv

LEMMA InitInv == Init => IInv
  <1> SUFFICES ASSUME Init PROVE IInv
    OBVIOUS
  <1>1. ASSUME NEW j \in Jobs PROVE InHand(j)
    BY DEF Init, InHand, IdleJob
  <1>2. ASSUME NEW p \in PID PROVE Kept(p)
    <2>1. IsRow(cache[p]) => cache[p].by = Old
      BY NoRow DEF Init, LeftRows, Row, IsRow
    <2>2. IsRow(cache[p]) /\ swept /\ FullHD \in cache[p].heights
            => \E q \in PID : ServesFullHD(programme[q])
      BY DEF Init
    <2>3. OwnRow(cache[p]) => IsRow(cache[p])
      BY DEF OwnRow, IsRow
    <2>4. QED
      BY <2>1, <2>2, <2>3 DEF Kept, Sound
  <1>3. QED
    BY <1>1, <1>2, InitTyped DEF IInv

(* A step of one goroutine that writes no row, or one row.                 *)
LEMMA MoveInv ==
  ASSUME IInv, Typed', NEW j \in Jobs, NEW out, job' = [job EXCEPT ![j] = out],
         UNCHANGED <<programme, stage, purged, swept, up>>, InHand(j)',
         \A p \in PID : cache'[p] = cache[p] \/ Kept(p)'
  PROVE  IInv'
  <1>1. ASSUME NEW i \in Jobs PROVE InHand(i)'
    <2>1. CASE i = j
      BY <2>1
    <2>2. CASE i # j
      <3>1. job'[i] = job[i]
        BY <2>2 DEF IInv, Typed, Shape
      <3>2. QED
        BY <3>1, Unpack DEF InHand, Own, Sound, Settled
    <2>3. QED
      BY <2>1, <2>2
  <1>2. ASSUME NEW p \in PID PROVE Kept(p)'
    <2>1. CASE cache'[p] = cache[p]
      BY <2>1, Unpack DEF Kept, Sound, Settled, IsRow, OwnRow
    <2>2. QED
      BY <2>1
  <1>3. QED
    BY <1>1, <1>2 DEF IInv

(* A goroutine ends a probe: what it found is the episode's own or, for an *)
(* unmarked row, an earlier release's, and what it hands on to siblings is *)
(* what a row may hold.                                                    *)
LEMMA ProbedInv ==
  ASSUME IInv, Typed', NEW j \in Jobs, NEW heights \in SUBSET Heights,
         NEW by \in PID \cup {Old}, NEW nya \in BOOLEAN, NEW cached \in BOOLEAN,
         job' = [job EXCEPT ![j] = AfterProbe(j, heights, by, nya, cached)],
         UNCHANGED <<programme, stage, purged, swept, up>>, up,
         heights # {} /\ by # Old => by = Own(j) /\ stage[Own(j)] \in Out,
         cached => Sound(heights, by),
         \A p \in PID : cache'[p] = cache[p] \/ Kept(p)'
  PROVE  IInv'
  <1> DEFINE out == AfterProbe(j, heights, by, nya, cached)
  <1>1. /\ out.pc \in {"check", "done", "look"}
        /\ out.pc = "check" => cached /\ heights # {}
        /\ out.heights = heights
        /\ out.answer = IF job[j].answer = {} THEN heights ELSE job[j].answer
        /\ out.by = IF heights = {} THEN job[j].by ELSE by
    BY Unpack, Outcome
  <1>2. job'[j] = out
    BY Unpack DEF Typed, Shape
  <1>3. j[1] = Dashboard => Own(j) = Show[j[2]]
    BY Unpack, OwnTyped, JobTypes DEF Own
  <1>4. Sound(heights, by) => Sound(heights, by)'
    BY DEF Sound, Settled
  <1> HIDE DEF out
  <1>5. InHand(j)'
    <2>1. up' /\ job'[j].pc \notin {"streams", "store", "spread"}
      BY <1>1, <1>2
    <2>2. job'[j].pc = "check" => Sound(job[j].heights, job[j].by)'
      BY <1>1, <1>2, <1>4 DEF Sound, Settled
    <2>3. j[1] = Dashboard /\ job'[j].answer # {} /\ job'[j].by # Old
            => job'[j].by = Show[j[2]] /\ stage'[Show[j[2]]] \in Out
      <3>1. CASE heights = {}
        BY <1>1, <1>2, <3>1, Unpack DEF InHand
      <3>2. CASE heights # {}
        BY <1>1, <1>2, <1>3, <3>2
      <3>3. QED
        BY <3>1, <3>2
    <2>4. QED
      BY <2>1, <2>2, <2>3 DEF InHand
  <1>6. QED
    BY <1>5, MoveInv

LEMMA SpawnInv ==
  ASSUME IInv, Typed', NEW j \in Jobs, Spawn(j)
  PROVE  IInv'
  <1>1. /\ job \in [Jobs -> JobState] /\ job[j] \in JobState
        /\ UNCHANGED <<programme, stage, cache, purged, swept, up>> /\ job[j].pc = "queued"
    BY Unpack DEF Spawn, Typed, Shape
  <1>2. PICK pc \in {"scan", "look"} : job' = [job EXCEPT ![j].pc = pc]
    BY DEF Spawn
  <1>3. job' = [job EXCEPT ![j] = [job[j] EXCEPT !.pc = pc]]
    BY <1>1, <1>2
  <1>4. job'[j].pc = pc /\ job'[j].answer = job[j].answer /\ job'[j].by = job[j].by
    BY <1>1, <1>3 DEF JobState
  <1>5. InHand(j)'
    BY <1>1, <1>4, Unpack DEF InHand
  <1>6. QED
    BY <1>1, <1>3, <1>5, MoveInv

LEMMA LookInv ==
  ASSUME IInv, Typed', NEW j \in Jobs, Look(j)
  PROVE  IInv'
  <1> DEFINE p == Own(j)
  <1>1. /\ p \in PID /\ cache[p] \in CacheRow /\ job \in [Jobs -> JobState] /\ job[j] \in JobState
        /\ UNCHANGED <<programme, stage, cache, purged, swept, up>> /\ job[j].pc = "look"
        /\ up /\ Kept(p) /\ InHand(j)
    BY Unpack, OwnTyped DEF Look, Typed, Shape, Own, InHand
  <1>2. CASE Hit(p)
    <2>1. IsRow(cache[p]) /\ OwnRow(cache[p])
      BY <1>2 DEF Hit, OwnRow, IsRow
    <2>2. cache[p].heights \in SUBSET Heights /\ cache[p].by \in PID \cup {Old}
      BY <1>1, <2>1, ARow
    <2>3. /\ Sound(cache[p].heights, cache[p].by)
          /\ cache[p].by # Old => cache[p].by = p /\ stage[p] \in Out
      BY <1>1, <2>1 DEF Kept, Sound, Out
    <2>4. job' = [job EXCEPT ![j] = AfterProbe(j, cache[p].heights, cache[p].by, FALSE, TRUE)]
      BY <1>2 DEF Look, Own
    <2>5. QED
      BY <1>1, <2>2, <2>3, <2>4, ProbedInv
  <1>3. CASE ~Hit(p)
    <2>1. job' = [job EXCEPT ![j] = [job[j] EXCEPT !.pc = "resolve"]]
      BY <1>1, <1>3 DEF Look, Own
    <2>2. job'[j].pc = "resolve" /\ job'[j].answer = job[j].answer /\ job'[j].by = job[j].by
      BY <1>1, <2>1 DEF JobState
    <2>3. InHand(j)'
      BY <1>1, <2>2 DEF InHand
    <2>4. QED
      BY <1>1, <2>1, <2>3, MoveInv
  <1>4. QED
    BY <1>2, <1>3

LEMMA ResolveInv ==
  ASSUME IInv, Typed', NEW j \in Jobs, ResolveEpisode(j)
  PROVE  IInv'
  <1> DEFINE p == Own(j)
  <1>1. /\ p \in PID /\ stage[p] \in {Stages[i] : i \in DOMAIN Stages}
        /\ job \in [Jobs -> JobState] /\ job[j] \in JobState
        /\ UNCHANGED <<programme, stage, cache, purged, swept, up>> /\ job[j].pc = "resolve"
        /\ up /\ InHand(j)
    BY Unpack, OwnTyped DEF ResolveEpisode, Typed, Shape, Own, InHand
  <1>2. PICK fetched \in Fetched :
          LET version == Resolve(fetched, EpisodeAt(stage[p])) IN
          job' = [job EXCEPT ![j] = IF version \in {"nya", "error"}
                                    THEN AfterProbe(j, {}, p, version = "nya", FALSE)
                                    ELSE [job[j] EXCEPT !.pc = "streams", !.version = version]]
    BY <1>1 DEF ResolveEpisode, Own
  <1> DEFINE version == Resolve(fetched, EpisodeAt(stage[p]))
  <1>3. version \notin {"nya", "error"} =>
          /\ stage[p] \in Out /\ version \in {"original", "accessible"}
          /\ version = "original" => stage[p] # "signed"
    BY <1>1, VersionMeansOut
  <1> HIDE DEF version
  <1>4. CASE version \in {"nya", "error"}
    <2>1. job' = [job EXCEPT ![j] = AfterProbe(j, {}, p, version = "nya", FALSE)]
      BY <1>2, <1>4 DEF version
    <2>2. (version = "nya") \in BOOLEAN
      OBVIOUS
    <2>3. QED
      BY <1>1, <2>1, <2>2, ProbedInv
  <1>5. CASE version \notin {"nya", "error"}
    <2>1. job' = [job EXCEPT ![j] = [job[j] EXCEPT !.pc = "streams", !.version = version]]
      BY <1>2, <1>5 DEF version
    <2>2. /\ job'[j].pc = "streams" /\ job'[j].version = version
          /\ job'[j].at = job[j].at /\ job'[j].answer = job[j].answer /\ job'[j].by = job[j].by
      BY <1>1, <2>1 DEF JobState
    <2>3. InHand(j)'
      BY <1>1, <1>3, <1>5, <2>2 DEF InHand, Own
    <2>4. QED
      BY <1>1, <2>1, <2>3, MoveInv
  <1>6. QED
    BY <1>4, <1>5

(* An on-demand version's claim is the programme's own.                    *)
LEMMA StreamsInv ==
  ASSUME IInv, Typed', NEW j \in Jobs, Streams(j)
  PROVE  IInv'
  <1> DEFINE p == Own(j)
             claims == Claimed(programme[p], job[j].version, stage[p])
  <1>1. /\ p \in PID /\ job \in [Jobs -> JobState] /\ job[j] \in JobState
        /\ UNCHANGED <<programme, stage, cache, purged, swept, up>> /\ job[j].pc = "streams"
        /\ up /\ InHand(j)
    BY Unpack, OwnTyped DEF Streams, Typed, Shape, Own, InHand
  <1>2. CASE job' = [job EXCEPT ![j] = AfterProbe(j, {}, p, FALSE, FALSE)]
    BY <1>1, <1>2, ProbedInv
  <1>3. ASSUME NEW heights \in SUBSET Heights, NEW keep \in BOOLEAN,
               job' = [job EXCEPT ![j] = [job[j] EXCEPT !.pc = "store", !.heights = heights,
                                                        !.keep = keep]],
               keep => /\ heights = Held(programme[p], claims) /\ job[j].version # "accessible"
                       /\ ~(job[j].version = "original" /\ stage[p] = "live")
        PROVE  IInv'
    <2>1. /\ job'[j].pc = "store" /\ job'[j].heights = heights /\ (job'[j].keep <=> keep)
          /\ job'[j].at = job[j].at /\ job'[j].answer = job[j].answer /\ job'[j].by = job[j].by
      BY <1>1, <1>3 DEF JobState
    <2>2. /\ stage[p] \in Out
          /\ keep => stage[p] \in Done /\ job[j].version = "original"
      BY <1>1, <1>3 DEF InHand, Out
    <2>3. keep => claims = programme[p].claims
      BY <2>2, <1>3 DEF Claimed
    <2>4. keep => heights = Settled(p)
      BY <1>3, <2>3 DEF Settled
    <2>5. InHand(j)'
      BY <1>1, <2>1, <2>2, <2>4 DEF InHand, Own, Settled
    <2>6. QED
      BY <1>1, <1>3, <2>5, MoveInv
  <1>4. QED
    BY <1>2, <1>3, StreamsOutcome, Unpack DEF Own

(* A row written with what it may hold.                                    *)
LEMMA RowKept ==
  ASSUME NEW q \in PID, NEW h \in SUBSET Heights, NEW b \in BOOLEAN, NEW by \in PID \cup {Old},
         cache'[q] = Row(h, b, by), UNCHANGED <<programme, stage, swept>>,
         Sound(h, by), ~b => by = q
  PROVE  Kept(q)'
  <1>1. /\ Row(h, b, by).heights = h /\ Row(h, b, by).by = by
        /\ OwnRow(Row(h, b, by)) <=> ~b
    BY NewRow
  <1>2. QED
    BY <1>1 DEF Kept, Sound, Settled

(* Rows nobody touches, while start-up clears others or the BBC moves on.  *)
LEMMA StillKept ==
  ASSUME NEW p \in PID, Typed, Kept(p), cache'[p] = cache[p], programme' = programme,
         IsRow(cache[p]) /\ swept' => swept \/ FullHD \notin cache[p].heights,
         \A q \in PID : stage[q] \in Done => stage'[q] \in Done
  PROVE  Kept(p)'
  <1>1. IsRow(cache[p]) => cache[p].by \in PID \cup {Old}
    BY ARow DEF Typed, Shape
  <1>2. IsRow(cache[p]) => Sound(cache[p].heights, cache[p].by)
    BY DEF Kept
  <1>3. IsRow(cache[p]) => Sound(cache[p].heights, cache[p].by)'
    BY <1>1, <1>2 DEF Sound, Settled
  <1>4. QED
    BY <1>3 DEF Kept, Sound

LEMMA NoRowKept ==
  ASSUME NEW p \in PID, cache'[p] = None
  PROVE  Kept(p)'
  BY NoRow DEF Kept

LEMMA StoreInv ==
  ASSUME IInv, Typed', NEW j \in Jobs, StoreProbe(j)
  PROVE  IInv'
  <1> DEFINE p == Own(j)
             h == job[j].heights
  <1>1. /\ p \in PID /\ job[j] \in JobState /\ cache \in [PID -> CacheRow]
        /\ UNCHANGED <<programme, stage, purged, swept, up>> /\ job[j].pc = "store"
        /\ up /\ InHand(j) /\ h \in SUBSET Heights
    BY Unpack, OwnTyped DEF StoreProbe, Typed, Shape, Own, InHand, JobState
  <1>2. PICK written \in BOOLEAN :
          /\ written => job[j].keep
          /\ cache' = IF written THEN [cache EXCEPT ![p] = Row(h, FALSE, p)] ELSE cache
          /\ job' = [job EXCEPT ![j] = AfterProbe(j, h, p, FALSE, written)]
    BY <1>1 DEF StoreProbe, Own
  <1>3. p # Old
    BY <1>1, ShowAssumption
  <1>4. stage[p] \in Out /\ (written => Sound(h, p))
    BY <1>1, <1>2, <1>3 DEF InHand, Sound
  <1>5. ASSUME NEW q \in PID PROVE cache'[q] = cache[q] \/ Kept(q)'
    <2>1. CASE written /\ q = p
      <3>1. cache'[q] = Row(h, FALSE, p)
        BY <1>1, <1>2, <2>1
      <3>2. QED
        BY <1>1, <1>4, <2>1, <3>1, RowKept
    <2>2. CASE ~(written /\ q = p)
      BY <1>1, <1>2, <2>2
    <2>3. QED
      BY <2>1, <2>2
  <1>6. QED
    BY <1>1, <1>2, <1>4, <1>5, ProbedInv

LEMMA ScanInv ==
  ASSUME IInv, Typed', NEW j \in Jobs, Scan(j)
  PROVE  IInv'
  <1> DEFINE p == Own(j)
             row == cache[p]
  <1>1. /\ p \in PID /\ row \in CacheRow /\ job \in [Jobs -> JobState] /\ job[j] \in JobState
        /\ UNCHANGED <<programme, stage, cache, purged, swept, up>> /\ job[j].pc = "scan"
        /\ up /\ InHand(j) /\ Kept(p) /\ j[1] # Dashboard
    BY Unpack, OwnTyped, ShowAssumption DEF Scan, Typed, Shape, Own, InHand
  <1>2. CASE IsRow(row)
    <2> DEFINE h == row.heights
               by == row.by
    <2>1. h \in SUBSET Heights /\ by \in PID \cup {Old} /\ Sound(h, by)
      BY <1>1, <1>2, ARow DEF Kept
    <2>2. job' = [job EXCEPT ![j] = [job[j] EXCEPT !.pc = "check", !.from = job[j].at, !.at = 1,
                                                   !.heights = h, !.answer = h, !.by = by]]
      BY <1>2 DEF Scan, Own
    <2> HIDE DEF h, by
    <2>3. job'[j].pc = "check" /\ job'[j].heights = h /\ job'[j].by = by
      BY <1>1, <2>2 DEF JobState
    <2>4. InHand(j)'
      BY <1>1, <2>1, <2>3 DEF InHand, Sound, Settled
    <2>5. QED
      BY <1>1, <2>2, <2>4, MoveInv
  <1>3. CASE ~IsRow(row)
    <2>1. PICK out : /\ job' = [job EXCEPT ![j] = out]
                     /\ \/ out = [job[j] EXCEPT !.at = job[j].at + 1]
                        \/ out = [job[j] EXCEPT !.pc = "look", !.at = 1]
      BY <1>3 DEF Scan, Own
    <2>2. job'[j].pc \in {"scan", "look"}
      BY <1>1, <2>1 DEF JobState
    <2>3. InHand(j)'
      BY <1>1, <2>2 DEF InHand
    <2>4. QED
      BY <1>1, <2>1, <2>3, MoveInv
  <1>4. QED
    BY <1>2, <1>3

LEMMA SpreadInv ==
  ASSUME IInv, Typed', NEW j \in Jobs, CheckSibling(j) \/ Spread(j)
  PROVE  IInv'
  <1> DEFINE h == job[j].heights
             by == job[j].by
             p == Own(j)
  <1>1. /\ job \in [Jobs -> JobState] /\ job[j] \in JobState /\ cache \in [PID -> CacheRow]
        /\ UNCHANGED <<programme, stage, purged, swept, up>> /\ job[j].pc \in {"check", "spread"}
        /\ up /\ InHand(j) /\ j[1] # Dashboard /\ p \in PID /\ h \in SUBSET Heights
        /\ by \in PID \cup {Old}
    <2>1. /\ UNCHANGED <<programme, stage, purged, swept, up>>
          /\ job[j].pc \in {"check", "spread"}
      BY DEF CheckSibling, Spread
    <2>2. j[1] = Feed /\ j[1] # Dashboard
      BY <2>1, Unpack, ShowAssumption DEF Typed, Shape
    <2>3. up /\ InHand(j)
      BY <2>1, Unpack DEF InHand
    <2>4. QED
      BY <2>1, <2>2, <2>3, Unpack, OwnTyped DEF Own, Typed, Shape, JobState
  <1>2. Sound(h, by)
    BY <1>1 DEF InHand
  <1>3. PICK out : /\ job' = [job EXCEPT ![j] = out]
                   /\ out.pc \in {"check", "spread", "done"} /\ out.heights = h /\ out.by = by
    <2>1. CASE job' = [job EXCEPT ![j] = NextSibling(job[j], j)]
      BY <2>1, Unpack, SiblingTyped
    <2>2. CASE job' = [job EXCEPT ![j] = [job[j] EXCEPT !.pc = "spread"]]
      <3> DEFINE out == [job[j] EXCEPT !.pc = "spread"]
      <3>1. out.pc = "spread" /\ out.heights = h /\ out.by = by
        BY <1>1 DEF JobState
      <3> HIDE DEF out
      <3>2. QED
        BY <2>2, <3>1 DEF out
    <2>3. QED
      BY <2>1, <2>2 DEF CheckSibling, Spread
  <1>4. InHand(j)'
    <2>1. job'[j].pc \in {"check", "spread", "done"} /\ job'[j].heights = h /\ job'[j].by = by
      BY <1>1, <1>3
    <2>2. QED
      BY <1>1, <1>2, <2>1 DEF InHand, Sound, Settled
  <1>5. ASSUME NEW q \in PID PROVE cache'[q] = cache[q] \/ Kept(q)'
    <2>1. CASE cache' = cache
      BY <2>1
    <2>2. CASE cache' = [cache EXCEPT ![p] = Row(h, TRUE, by)]
      <3>1. cache'[q] = cache[q] \/ cache'[q] = Row(h, TRUE, by)
        BY <1>1, <2>2
      <3>2. QED
        BY <1>1, <1>2, <3>1, RowKept
    <2>3. QED
      BY <2>1, <2>2 DEF CheckSibling, Spread, Own
  <1>6. QED
    BY <1>1, <1>3, <1>4, <1>5, MoveInv

LEMMA StepInv ==
  ASSUME IInv, NEW j \in Jobs, Step(j)
  PROVE  IInv'
  BY Unpack, StepTyped, SpawnInv, LookInv, ResolveInv, StreamsInv, StoreInv, ScanInv, SpreadInv
  DEF Step

(* Start-up clears the rows with a 1080p, if it clears any, before anybody *)
(* asks.                                                                   *)
LEMMA BootInv ==
  ASSUME IInv, Typed', Boot
  PROVE  IInv'
  <1>1. /\ UNCHANGED <<programme, stage, job>> /\ ~up /\ cache \in [PID -> CacheRow]
    BY Unpack DEF Boot, Typed, Shape
  <1>2. ASSUME NEW p \in PID PROVE Kept(p)'
    <2>1. Typed /\ Kept(p)
      BY Unpack
    <2>2. CASE UNCHANGED <<cache, purged, swept>>
      BY <1>1, <2>1, <2>2, StillKept
    <2>3. CASE PurgePhantoms
      <3>1. \/ cache'[p] = None
            \/ cache'[p] = cache[p] /\ (IsRow(cache[p]) => FullHD \notin cache[p].heights)
        BY <2>3 DEF PurgePhantoms
      <3>2. CASE cache'[p] = None
        BY <3>2, NoRowKept
      <3>3. CASE cache'[p] = cache[p] /\ (IsRow(cache[p]) => FullHD \notin cache[p].heights)
        BY <1>1, <2>1, <3>3, StillKept
      <3>4. QED
        BY <3>1, <3>2, <3>3
    <2>4. QED
      BY <2>2, <2>3 DEF Boot
  <1>3. ASSUME NEW j \in Jobs PROVE InHand(j)'
    <2>1. InHand(j) /\ job[j].pc \in {"idle", "done"}
      BY <1>1, Unpack DEF InHand
    <2>2. QED
      BY <1>1, <2>1 DEF InHand
  <1>4. QED
    BY <1>2, <1>3 DEF IInv

LEMMA RestartInv ==
  ASSUME IInv, Typed', Restart
  PROVE  IInv'
  <1>1. ASSUME NEW j \in Jobs PROVE InHand(j)'
    BY DEF Restart, InHand, IdleJob
  <1>2. ASSUME NEW p \in PID PROVE Kept(p)'
    BY Unpack, StillKept DEF Restart
  <1>3. QED
    BY <1>1, <1>2 DEF IInv

LEMMA SearchInv ==
  ASSUME IInv, Typed', NEW search, Search(search)
  PROVE  IInv'
  <1>1. UNCHANGED <<programme, stage, cache, purged, swept, up>> /\ up
    BY DEF Search
  <1>2. ASSUME NEW j \in Jobs PROVE InHand(j)'
    <2>1. CASE job'[j] = job[j]
      BY <1>1, <2>1, Unpack DEF InHand, Own, Sound, Settled
    <2>2. CASE job'[j] = [IdleJob(j[2]) EXCEPT !.pc = "queued"]
      <3>1. job'[j].pc = "queued" /\ job'[j].answer = {}
        BY <2>2 DEF IdleJob
      <3>2. QED
        BY <1>1, <3>1 DEF InHand
    <2>3. QED
      BY <2>1, <2>2 DEF Search
  <1>3. ASSUME NEW p \in PID PROVE Kept(p)'
    BY <1>1, Unpack, StillKept
  <1>4. QED
    BY <1>2, <1>3 DEF IInv

LEMMA PublishInv ==
  ASSUME IInv, Typed', NEW p \in PID, Publish(p)
  PROVE  IInv'
  <1>1. UNCHANGED <<programme, cache, purged, swept, up, job>>
    BY DEF Publish
  <1>2. ASSUME NEW j \in Jobs PROVE InHand(j)'
    <2>1. Own(j) \in PID /\ Show[j[2]] \in PID /\ job[j].by \in PID \cup {Old}
      BY Unpack, OwnTyped, JobTypes, Episodes DEF Own, JobState
    <2>2. job[j].pc \in {"check", "spread"} => Sound(job[j].heights, job[j].by)'
      BY <1>1, <2>1, Unpack, Forward DEF InHand, Sound, Settled
    <2>3. job[j].pc = "store" /\ job[j].keep =>
            stage'[Own(j)] \in Done /\ job[j].heights = Settled(Own(j))'
      BY <1>1, <2>1, Unpack, Forward DEF InHand, Own, Settled
    <2>4. QED
      BY <1>1, <2>1, <2>2, <2>3, Unpack, Forward DEF InHand, Own
  <1>3. ASSUME NEW q \in PID PROVE Kept(q)'
    BY <1>1, Unpack, Forward, StillKept
  <1>4. QED
    BY <1>2, <1>3 DEF IInv

LEMMA NextInv == IInv /\ [Next]_vars => IInv'
  <1> SUFFICES ASSUME IInv, [Next]_vars PROVE IInv'
    OBVIOUS
  <1>1. Typed'
    BY Unpack, NextTyped
  <1>2. CASE UNCHANGED vars
    BY <1>1, <1>2 DEF vars, IInv, InHand, Kept, Own, Sound, Settled, IsRow, OwnRow
  <1>3. QED
    BY <1>1, <1>2, StepInv, BootInv, RestartInv, SearchInv, PublishInv DEF Next

LEMMA IInvAlways == Spec => []IInv
  BY InitInv, NextInv, PTL DEF Spec

----------------------------------------------------------------------------
(* What the cache and the answers promise.                                 *)

(* Once the start-up purge has gone through, a row promises a 1080p only   *)
(* if the episode whose probe found it has one or, for a row an earlier    *)
(* release left, some episode of the show.                                 *)
THEOREM NoPhantoms == Spec => []NoPhantomQuality
  <1>1. IInv => NoPhantomQuality
    <2> SUFFICES ASSUME IInv, NEW p \in PID, swept, IsRow(cache[p]), FullHD \in cache[p].heights
                 PROVE  \E q \in PID : cache[p].by \in {q, Old} /\ ServesFullHD(programme[q])
      BY DEF NoPhantomQuality
    <2>1. Sound(cache[p].heights, cache[p].by) /\ cache[p].by \in PID \cup {Old}
      BY Unpack, ARow DEF Kept, Typed, Shape
    <2>2. CASE cache[p].by = Old
      BY <2>1, <2>2 DEF Sound
    <2>3. CASE cache[p].by # Old
      <3> DEFINE q == cache[p].by
      <3>1. q \in PID /\ FullHD \in Settled(q)
        BY <2>1, <2>3 DEF Sound
      <3>2. programme[q] \in Programme
        BY <3>1, Unpack DEF Typed, Shape
      <3>3. ServesFullHD(programme[q])
        BY <3>1, <3>2, HeldIsServed DEF Settled
      <3>4. QED
        BY <3>1, <3>3
    <2>4. QED
      BY <2>2, <2>3
  <1>2. QED
    BY <1>1, IInvAlways, PTL

(* What a probe caches is the confirmed heights of an episode found on     *)
(* demand.                                                                 *)
THEOREM SettledOnly == Spec => []OnlySettledCached
  <1>1. IInv => OnlySettledCached
    BY DEF IInv, Kept, Sound, Settled, Done, OnlySettledCached
  <1>2. QED
    BY <1>1, IInvAlways, PTL

(* The dashboard calls an episode available on the strength of a probe of  *)
(* that episode, once out, or of a row an earlier release left unmarked.   *)
THEOREM OwnAvailability == Spec => []AvailabilityIsOwn
  <1>1. IInv => AvailabilityIsOwn
    <2> SUFFICES ASSUME IInv, NEW k \in DOMAIN Show,
                        Availability(<<Dashboard, k>>) = "available",
                        job[<<Dashboard, k>>].by # Old
                 PROVE  job[<<Dashboard, k>>].by = Show[k] /\ stage[Show[k]] \in Out
      BY DEF AvailabilityIsOwn, Out, Done
    <2> DEFINE j == <<Dashboard, k>>
    <2>1. j \in Jobs /\ j[1] = Dashboard /\ j[2] = k
      BY DEF Jobs
    <2>2. job[j].answer # {}
      BY DEF Availability
    <2>3. QED
      BY <2>1, <2>2, Unpack DEF InHand
  <1>2. QED
    BY <1>1, IInvAlways, PTL
============================================================================
