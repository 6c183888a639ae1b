--------------------------- MODULE QualityProber ---------------------------
(* bbc.QualityProber and its cache: two searches probe the same episodes   *)
(* at once, the newznab feed by show (PrefetchPIDs, one leader answers for *)
(* its siblings) and the dashboard by episode (PrefetchPIDsIndividually),  *)
(* while the BBC publishes the episodes.  A cache row is one bbolt         *)
(* transaction; everything between two of them can interleave.            *)
EXTENDS BBCAnswers, FiniteSets

CONSTANTS
  Feed, Dashboard,   \* the two kinds of search
  Show,              \* the episodes of a show, a sequence of PIDs in feed order
  Programmes,        \* what the BBC may hold for an episode: see Programme
  Concurrency,       \* probes of one search that may run at once
  Suppliers,         \* how many suppliers carry the best HLS rendition
  Old                \* where the rows come from that earlier releases left

PID == {Show[i] : i \in DOMAIN Show}

ASSUME ShowAssumption ==
  /\ Feed # Dashboard /\ Old \notin PID
  /\ Show \in Seq(PID) /\ Show # <<>>
  /\ \A i, k \in DOMAIN Show : Show[i] = Show[k] => i = k
ASSUME ConcurrencyAssumption == Concurrency \in Nat \ {0} /\ Suppliers \in Nat \ {0}

Heights == {0, 396, 540, 720, 1080}

(* An episode's programme: the heights mediaselector claims, whether they  *)
(* include an HLS stream, and the truth of its HLS master.                 *)
Programme == [claims : SUBSET (Heights \ {0}), hls : BOOLEAN,
              master : [listed : Heights, rewritable : BOOLEAN,
                        rewrite : {"video", "audio"}]]

ASSUME ProgrammesAssumption == Programmes \subseteq Programme

(* How far the BBC is with an episode, in the order it gets there: not     *)
(* listed, on air, announced, only a signed version, served by the live    *)
(* channel's suppliers, on demand, expired (for which iBL has the answer   *)
(* of an unlisted one).                                                    *)
Stages == <<"unlisted", "airing", "announced", "signed", "live", "vod", "expired">>

EpisodeAt(stage) ==
  [listed   |-> stage \notin {"unlisted", "expired"},
   live     |-> stage = "airing",
   versions |-> CASE stage \in {"unlisted", "airing"} -> <<[kind |-> "simulcast", started |-> TRUE]>>
                  [] stage = "announced" -> <<[kind |-> "original", started |-> FALSE],
                                              [kind |-> "signed", started |-> TRUE]>>
                  [] stage = "signed"    -> <<[kind |-> "signed", started |-> TRUE]>>
                  [] OTHER               -> <<[kind |-> "audiodescribed", started |-> TRUE],
                                              [kind |-> "original", started |-> TRUE]>>]

(* What mediaselector claims for the version resolved at that stage.       *)
SignedClaims == {396}
LiveClaims == {720, 540}

Claimed(pr, version, st) ==
  CASE version = "accessible" -> SignedClaims
    [] version = "original" /\ st = "live" -> LiveClaims
    [] OTHER -> pr.claims

(* What a claim comes to once it was held against the HLS master.          *)
Held(pr, claims) == IF NeedsCheck(claims, pr.hls) THEN Checked(claims, pr.master) ELSE claims

VARIABLES
  programme,  \* what the BBC holds for each episode
  stage,      \* how far it is with each episode
  cache,      \* the quality_cache bucket
  purged,     \* the marker quality_cache_fhd_verify_purged
  swept,      \* history: a purge has gone through, now or before
  up,         \* the server answers requests
  job         \* the goroutines of the two searches

vars == <<programme, stage, cache, purged, swept, up, job>>

(* A cache row.  by is not in the code: the episode whose probe found the  *)
(* heights, or Old.                                                        *)
None == [row |-> FALSE]
Row(heights, propagated, by) ==
  [row |-> TRUE, heights |-> heights, propagated |-> propagated, by |-> by]
IsRow(r) == r.row
OwnRow(r) == r.row /\ ~r.propagated

(* A goroutine: the search it belongs to and the index of its first        *)
(* episode.  The feed's has the whole show, the dashboard's one episode.   *)
Jobs == {<<Feed, 1>>} \cup {<<Dashboard, k>> : k \in DOMAIN Show}
Last(j) == IF j[1] = Feed THEN Len(Show) ELSE j[2]

PCs == {"idle", "queued", "scan", "look", "resolve", "streams", "store",
        "check", "spread", "done"}

(* at: the episode being probed or given a row; from: the one whose        *)
(* heights are spread; version, heights, keep: the probe in hand; answer,  *)
(* nya: the group's verdict, and by, again not in the code, whose the last *)
(* heights found are; {} stands for Go's nil heights.                      *)
IdleJob(k) == [pc |-> "idle", at |-> k, from |-> k, version |-> "nya", heights |-> {},
               keep |-> FALSE, answer |-> {}, nya |-> FALSE, by |-> Old]

(* The BBC can serve 1080p, or there was nothing to hold the claim against. *)
ServesFullHD(pr) ==
  \/ pr.master.listed = FullHD
  \/ pr.master.rewritable /\ pr.master.rewrite = "video"
  \/ pr.master.listed = 0 \/ ~pr.hls

(* What earlier releases saved: an episode's heights, held against its     *)
(* master or believed, on demand or in a passing state, its own or, with   *)
(* nothing to mark them, a sibling's.                                      *)
Left(pr) ==
  UNION {{claims, Held(pr, claims)} : claims \in {pr.claims, LiveClaims, SignedClaims}}
LeftRows ==
  {Row(h, FALSE, Old) : h \in UNION {Left(programme[q]) : q \in PID}}

Init ==
  /\ programme \in [PID -> Programmes]
  /\ stage \in [PID -> {Stages[i] : i \in DOMAIN Stages}]
  /\ cache \in [PID -> {None} \cup LeftRows]
  /\ purged \in BOOLEAN /\ swept = purged
  /\ \A p \in PID :   \* the releases that purged also held claims against the master
       purged /\ IsRow(cache[p]) /\ FullHD \in cache[p].heights
         => \E q \in PID : ServesFullHD(programme[q])
  /\ up = FALSE
  /\ job = [j \in Jobs |-> IdleJob(j[2])]

----------------------------------------------------------------------------
(* Start-up, and the two searches.                                         *)

(* PurgeQualityCacheWithHeight(1080), before the server listens.           *)
PurgePhantoms ==
  cache' = [p \in PID |-> IF IsRow(cache[p]) /\ FullHD \in cache[p].heights
                          THEN None ELSE cache[p]]

(* Unless the marker is there.  The purge may fail, and so may the write   *)
(* of the marker after it: either is logged, and the server starts.        *)
Boot ==
  /\ ~up
  /\ \/ UNCHANGED <<cache, purged, swept>>
     \/ ~purged /\ PurgePhantoms /\ purged' \in BOOLEAN /\ swept' = TRUE
  /\ up' = TRUE
  /\ UNCHANGED <<programme, stage, job>>

Restart ==
  /\ up
  /\ up' = FALSE
  /\ job' = [j \in Jobs |-> IdleJob(j[2])]
  /\ UNCHANGED <<programme, stage, cache, purged, swept>>

JobsOf(search) == {j \in Jobs : j[1] = search}

Search(search) ==
  /\ up
  /\ \A j \in JobsOf(search) : job[j].pc \in {"idle", "done"}
  /\ job' = [j \in Jobs |-> IF j[1] = search THEN [IdleJob(j[2]) EXCEPT !.pc = "queued"]
                                            ELSE job[j]]
  /\ UNCHANGED <<programme, stage, cache, purged, swept, up>>

(* The semaphore is taken by the search itself before it starts the next   *)
(* goroutine, so they start in order and at most Concurrency run.          *)
Running(search) == {j \in JobsOf(search) : job[j].pc \notin {"idle", "queued", "done"}}

Spawn(j) ==
  /\ job[j].pc = "queued"
  /\ \A i \in JobsOf(j[1]) : i[2] < j[2] => job[i].pc # "queued"
  /\ Cardinality(Running(j[1])) < Concurrency
  /\ job' = [job EXCEPT ![j].pc = IF j[1] = Feed THEN "scan" ELSE "look"]
  /\ UNCHANGED <<programme, stage, cache, purged, swept, up>>

----------------------------------------------------------------------------
(* probeOne.                                                               *)

(* What a job does with the outcome of a probe: the dashboard's ends, the  *)
(* feed's hands a leader's cacheable heights to its siblings or, without   *)
(* any, goes on to the next sibling and keeps the first success.           *)
AfterProbe(j, heights, by, nya, cached) ==
  LET me == job[j]
      first == IF me.answer = {} THEN heights ELSE me.answer
      any == me.nya \/ nya
      next == CASE me.at = j[2] /\ heights # {} -> IF cached /\ j[1] = Feed THEN "check" ELSE "done"
                [] me.at # j[2] \/ heights = {} -> IF me.at = Last(j) THEN "done" ELSE "look"
  IN [me EXCEPT !.pc = next,
                !.from = me.at,
                !.heights = heights,
                !.at = IF me.at = Last(j) \/ next = "done" THEN me.at ELSE me.at + 1,
                !.answer = first,
                !.by = IF heights = {} THEN @ ELSE by,
                !.nya = any /\ (next # "done" \/ first = {})]

(* Mutation of Hit: a row spread by the feed answers for its sibling.      *)
AnyHit(p) == IsRow(cache[p])

(* The cache rows probeOne takes for an answer about this episode.         *)
Hit(p) == OwnRow(cache[p])

Look(j) ==
  LET p == Show[job[j].at] IN
  /\ job[j].pc = "look"
  /\ job' = [job EXCEPT ![j] = IF Hit(p) THEN AfterProbe(j, cache[p].heights, cache[p].by, FALSE, TRUE)
                                         ELSE [@ EXCEPT !.pc = "resolve"]]
  /\ UNCHANGED <<programme, stage, cache, purged, swept, up>>

ResolveEpisode(j) ==
  LET p == Show[job[j].at] IN
  /\ job[j].pc = "resolve"
  /\ \E fetched \in Fetched :
       LET version == Resolve(fetched, EpisodeAt(stage[p])) IN
       job' = [job EXCEPT ![j] = IF version \in {"nya", "error"}
                                 THEN AfterProbe(j, {}, p, version = "nya", FALSE)
                                 ELSE [@ EXCEPT !.pc = "streams", !.version = version]]
  /\ UNCHANGED <<programme, stage, cache, purged, swept, up>>

(* Mutation of Cacheable: a passing state is cached too.                   *)
CacheableAlways(version, liveOnly, check) == check # "transient"

(* The answers probeOne writes to the cache: neither an unanswered check,  *)
(* nor an accessibility version, nor the live channel's suppliers.         *)
Cacheable(version, liveOnly, check) ==
  check # "transient" /\ version # "accessible" /\ ~liveOnly

(* mediaselector, then the 1080p check over the suppliers.                 *)
Streams(j) ==
  LET p == Show[job[j].at]
      version == job[j].version
      claims == Claimed(programme[p], version, stage[p])
      liveOnly == version = "original" /\ stage[p] = "live"
  IN
  /\ job[j].pc = "streams"
  /\ \E reply \in Selected :
       IF reply # "video"
       THEN job' = [job EXCEPT ![j] = AfterProbe(j, {}, p, FALSE, FALSE)]
       ELSE \E refusing \in SUBSET (1..Suppliers), late \in BOOLEAN :
              LET asked == NeedsCheck(claims, programme[p].hls)
                  check == IF asked THEN Failover(Suppliers, refusing, late) ELSE "answered"
                  heights == IF check = "answered" THEN Held(programme[p], claims) ELSE claims
              IN job' = [job EXCEPT ![j].pc = "store",
                                    ![j].heights = heights,
                                    ![j].keep = Cacheable(version, liveOnly, check)]
  /\ UNCHANGED <<programme, stage, cache, purged, swept, up>>

(* The write may fail; the heights are used for this answer all the same.  *)
StoreProbe(j) ==
  LET p == Show[job[j].at] IN
  /\ job[j].pc = "store"
  /\ \E written \in BOOLEAN :
       /\ written => job[j].keep
       /\ cache' = IF written THEN [cache EXCEPT ![p] = Row(job[j].heights, FALSE, p)] ELSE cache
       /\ job' = [job EXCEPT ![j] = AfterProbe(j, job[j].heights, p, FALSE, written)]
  /\ UNCHANGED <<programme, stage, purged, swept, up>>

----------------------------------------------------------------------------
(* probeShowGroup around it.                                               *)

(* Any cached member, spread row or not, answers for the show.             *)
Scan(j) ==
  LET me == job[j]
      row == cache[Show[me.at]] IN
  /\ me.pc = "scan"
  /\ job' = [job EXCEPT ![j] =
       CASE IsRow(row) -> [me EXCEPT !.pc = "check", !.from = me.at, !.at = 1,
                                     !.heights = row.heights, !.answer = row.heights,
                                     !.by = row.by]
         [] ~IsRow(row) /\ me.at < Last(j) -> [me EXCEPT !.at = me.at + 1]
         [] OTHER -> [me EXCEPT !.pc = "look", !.at = 1]]
  /\ UNCHANGED <<programme, stage, cache, purged, swept, up>>

NextSibling(me, j) ==
  IF me.at = Last(j) THEN [me EXCEPT !.pc = "done"]
                     ELSE [me EXCEPT !.pc = "check", !.at = me.at + 1]

(* propagateToSiblings reads a sibling's row ...                           *)
CheckSibling(j) ==
  LET me == job[j] IN
  /\ me.pc = "check"
  /\ job' = [job EXCEPT ![j] =
       IF me.at = me.from \/ OwnRow(cache[Show[me.at]])
       THEN NextSibling(me, j) ELSE [me EXCEPT !.pc = "spread"]]
  /\ UNCHANGED <<programme, stage, cache, purged, swept, up>>

(* ... and then writes it, in a transaction of its own.                    *)
Spread(j) ==
  LET me == job[j] IN
  /\ me.pc = "spread"
  /\ cache' = [cache EXCEPT ![Show[me.at]] = Row(me.heights, TRUE, me.by)]
  /\ job' = [job EXCEPT ![j] = NextSibling(me, j)]
  /\ UNCHANGED <<programme, stage, purged, swept, up>>

----------------------------------------------------------------------------
(* The BBC moves on with an episode, until it has expired.                 *)
Publish(p) ==
  /\ \E i, k \in DOMAIN Stages :
       i < k /\ stage[p] = Stages[i] /\ stage' = [stage EXCEPT ![p] = Stages[k]]
  /\ UNCHANGED <<programme, cache, purged, swept, up, job>>

Step(j) ==
  \/ Spawn(j) \/ Look(j) \/ ResolveEpisode(j) \/ Streams(j) \/ StoreProbe(j)
  \/ Scan(j) \/ CheckSibling(j) \/ Spread(j)

Next ==
  \/ Boot \/ Restart
  \/ \E search \in {Feed, Dashboard} : Search(search)
  \/ \E j \in Jobs : Step(j)
  \/ \E p \in PID : Publish(p)

Spec == Init /\ [][Next]_vars

----------------------------------------------------------------------------
TypeOK ==
  /\ programme \in [PID -> Programmes]
  /\ stage \in [PID -> {Stages[i] : i \in DOMAIN Stages}]
  /\ \A p \in PID : cache[p] \in {None} \cup [row : {TRUE}, heights : SUBSET Heights,
                                             propagated : BOOLEAN, by : PID \cup {Old}]
  /\ purged \in BOOLEAN /\ swept \in BOOLEAN /\ up \in BOOLEAN
  /\ \A j \in Jobs : /\ job[j].pc \in PCs
                     /\ job[j].at \in j[2]..Last(j) /\ job[j].from \in j[2]..Last(j)
                     /\ job[j].heights \subseteq Heights /\ job[j].answer \subseteq Heights
                     /\ job[j].version \in Resolutions /\ job[j].by \in PID \cup {Old}
                     /\ job[j].keep \in BOOLEAN /\ job[j].nya \in BOOLEAN

(* Once the start-up purge has gone through, no cache row promises a 1080p *)
(* that the episode whose probe found it cannot be served in, or, for a    *)
(* row an earlier release left, no episode of the show can; and a purge    *)
(* that fails, or whose marker is lost, is made up for by the next start   *)
(* that succeeds: GitHub #54, prober.go:344-360.  A spread row still       *)
(* promises its episode another's 1080p.                                   *)
NoPhantomQuality ==
  \A p \in PID :
    swept /\ IsRow(cache[p]) /\ FullHD \in cache[p].heights
      => \E q \in PID : cache[p].by \in {q, Old} /\ ServesFullHD(programme[q])

(* A probe caches only what the BBC publishes on demand for good: a row    *)
(* that this release's probe of an episode found, spread to a sibling or   *)
(* not, was found when that episode was on demand and holds its confirmed  *)
(* heights, never a passing state (the live suppliers' 720p, an audio-     *)
(* described version's 396p), since the cache has no expiry; and it is an  *)
(* own row of no other episode: GitHub #57, prober.go:382-396.             *)
OnlySettledCached ==
  \A p \in PID :
    LET q == cache[p].by IN
    IsRow(cache[p]) /\ q # Old
      => /\ stage[q] \in {"vod", "expired"}
         /\ cache[p].heights = Held(programme[q], programme[q].claims)
         /\ OwnRow(cache[p]) => q = p

(* availabilityFor: what the dashboard shows for an episode it has probed. *)
Availability(j) ==
  CASE job[j].nya -> "not yet available"
    [] ~job[j].nya /\ job[j].answer # {} -> "available"
    [] OTHER -> "unknown"

(* The dashboard's answer for an episode is that episode's own, whatever   *)
(* the feed has spread meanwhile: it is called available on the strength   *)
(* of a probe of it, made once it was out, or of an unmarked row that an   *)
(* earlier release left: Gitea #75, prober.go:290-297.                     *)
AvailabilityIsOwn ==
  \A k \in DOMAIN Show :
    LET j == <<Dashboard, k>> IN
    job[j].pc = "done" /\ Availability(j) = "available" /\ job[j].by # Old
      => /\ job[j].by = Show[k]
         /\ stage[Show[k]] \in {"signed", "live", "vod", "expired"}
============================================================================
