----------------------------- MODULE SearchFeed -----------------------------
(***************************************************************************)
(* The Newznab indexer: Sonarr's TV searches and its RSS poll              *)
(* (newznab/search.go), the show and episode-list lookups they share       *)
(* (tvdb.go), what iBL answers (bbc/ibl.go), and the stored series         *)
(* mappings and first-seen stamps (store/series.go, first_seen.go).        *)
(*                                                                         *)
(* A request is a process: it stops at each call to iBL and to Skyhook,    *)
(* and other requests run meanwhile.                                       *)
(***************************************************************************)
EXTENDS Integers, FiniteSets, FiniteSetsExt

CONSTANTS
    Clients,            \* requests served at one time
    Series, ShowOf,     \* TheTVDB's series: id -> [name, year]
    Worlds,             \* [shelf, override, mapping]: what iPlayer lists, the
                        \* Show Overrides (name -> override) and the series
                        \* mappings an earlier run left
    TVDB,               \* what TheTVDB lists: id -> a set of episodes
    Requests,           \* what Sonarr may ask
    Heights,            \* what the quality probe may find
    Ceiling,            \* the "quality" setting, 0 for none
    MaxPolls,           \* bound on the feeds answered
    Failures,           \* what may go wrong: "ibl", "skyhook", "cancel", "lost", "restart"
    NoKey, GenericKeys, MatchWindow, OneOffWindow, BeforeRun, AfterRun,
    NoName, NoSeries,
    Unknown, NotYet     \* probes that found nothing, and no stream yet

INSTANCE ProgrammeNames
INSTANCE EpisodeNumbering

\* A listed element already has the fields its programme will have.
ProgrammeFields == {"pid", "brand", "name", "title", "series", "ep", "position",
                    "day", "seriesAssumed", "epAssumed", "pools",
                    "numbered", "contradicted", "unchecked", "by"}
TitleFields     == {"text", "base", "whole", "bare", "weak", "holds", "label",
                    "special", "part", "date"}

\* What iPlayer lists has not been numbered from TheTVDB.
IsElement(r) ==
    /\ ProgrammeFields = DOMAIN r /\ TitleFields = DOMAIN r.title
    /\ {r.series, r.ep, r.position} \subseteq Nat /\ r.day \in Int
    /\ ~r.numbered /\ r.by = NoSeries

IsOverride(o) ==
    /\ DOMAIN o = {"dated", "series", "position", "seriesBy", "epBy", "name"}
    /\ o.series \in Nat /\ {o.seriesBy, o.epBy} \subseteq Int

\* The names overrides are looked up by.
NamesOf(w) == {r.name : r \in w.shelf} \cup {ShowOf[id].name : id \in Series}
                \cup ({r.q : r \in Requests} \ {NoName})

ASSUME WorldsAssumption ==
    \A w \in Worlds : /\ IsFiniteSet(w.shelf) /\ \A r \in w.shelf : IsElement(r)
                      /\ \A n \in NamesOf(w) : IsOverride(w.override[n])

ASSUME SeriesAssumption ==
    /\ NoSeries \notin Series
    /\ \A id \in Series : ShowOf[id].name # NoName /\ IsFiniteSet(TVDB[id])
    /\ \A r \in Requests : r.id \in Series \cup {NoSeries}

VARIABLES
    shelf, override,    \* the world: fixed in a behaviour
    mapping,    \* id -> "none", "yearless" (stored by an old version) or "full"
    cache,      \* id -> the cached answer to Episodes: "none", "failed", "list"
    refused,    \* ids whose show lookup failed lately
    stamps,     \* pid -> when the feed first carried it, 0 for never
    now,        \* the time, as the number of the next feed answered
    job,        \* client -> its request
    answer,     \* the latest answer
    sonarr      \* the RSS poll: the pids it was given and those that were in an
                \* answer it never got, and when it last got one

world == <<shelf, override>>
vars  == <<world, mapping, cache, refused, stamps, now, job, answer, sonarr>>

NoSeason == -1
ThisYear == 2026        \* the year of every day of the model

PID(S) == {r.pid : r \in S}
AllPIDs == UNION {PID(w.shelf) : w \in Worlds}

-----------------------------------------------------------------------------
(* What iBL answers.                                                       *)

\* A listing numbers the series whose episodes have no number at all, by date;
\* order is how the sort leaves episodes of one date.
AssignMissing(S, order) ==
    LET series(s) == {r \in S : r.series = s}
        missing(s) == s > 0 /\ \A r \in series(s) : r.ep = 0 /\ r.position = 0
        earlier(q, r) == q.day < r.day \/ (q.day = r.day /\ order[q] < order[r])
        rank(r) == 1 + Cardinality({q \in series(r.series) : earlier(q, r)})
    IN  {IF missing(r.series) THEN [r EXCEPT !.ep = rank(r), !.epAssumed = TRUE]
                              ELSE r : r \in S}

Brands(S) == {r.brand : r \in S}

Orders(S) == {f \in [S -> 1 .. Cardinality(S)] : \A q, r \in S : f[q] = f[r] => q = r}

\* A search expands its brand hits; a listing that fails leaves its title.
SearchResults(S, failed, order) ==
    UNION {AssignMissing({r \in S : r.brand = b}, order) : b \in Brands(S) \ failed}
HitTitles(S) == {r.name : r \in S}

\* The browse merges two editorial pools, which number nothing, with a search.
BrowseFresh(S, failed, order) ==
    LET rails == {r \in S : r.pools \ failed # {}}
        search == IF "search" \in failed THEN {} ELSE SearchResults(S, failed, order)
    IN  rails \cup {r \in search : r.pid \notin PID(rails)}

\* Series 1 is assumed for an episode number with no series.
ToProgramme(r) ==
    [r EXCEPT !.series = IF r.series = 0 /\ r.ep > 0 THEN 1 ELSE r.series,
              !.seriesAssumed = r.series = 0 /\ r.ep > 0]

-----------------------------------------------------------------------------
(* The programmes of an answer: filtered by name, era, number.  x is the   *)
(* request: [want, theTVDB, series, year, id, season, ep, day, browse,     *)
(* limit], want and series being names.                                    *)

Asked(x) == x.want # NoName
Exact(x, p) == ExactName(p.name, x.want, x.theTVDB)

\* A programme titled exactly as the show turns "Show: Subtitle" off.
ExactOnly(x, progs, hits) ==
    Asked(x) /\ \E n \in hits \cup {p.name : p \in progs} :
                    ExactName(n, x.want, x.theTVDB)

InName(x, p, exactOnly) ==
    NameMatches(p.name, x.want, x.theTVDB) /\ (exactOnly => Exact(x, p))

\* Mutant: only the programmes listed say which eras iPlayer has.
OutOfEraOfListed(x, progs, hits, exactOnly) ==
    LET names == {p.name : p \in {q \in progs : InName(x, q, exactOnly)}}
    IN  IF Asked(x) THEN names \ DisambiguateByYear(names, x.year) ELSE {}

OutOfEra(x, progs, hits, exactOnly) ==
    LET foreign == IF Asked(x) THEN Foreign(x.want) ELSE NoKey
        names == {p.name : p \in {q \in progs : InName(x, q, exactOnly)}}
        kept == DisambiguateByYear(names, x.year)
        inEraHit == \E n \in hits : /\ Covers(n, x.year)
                                    /\ ExactName(n, x.want, x.theTVDB)
    IN  IF ~Asked(x) \/ (x.year = 0 /\ foreign = NoKey) THEN {}
        ELSE {n \in names : \/ n \notin kept
                            \/ inEraHit /\ n.from = 0
                            \/ foreign # NoKey /\ n.tag # foreign}

OneOffTitle(x, p) ==
    IF /\ p.brand = p.pid /\ p.title.text = NoKey /\ Asked(x)
       /\ Extends(p.name, x.want, x.theTVDB)
    THEN p.name.sub ELSE NoKey

\* A search that asks for an episode by number is numbered from the list.
WantsList(x) == x.id # NoSeries /\ Asked(x) /\ x.day = NoDay /\ x.season < 1900

NumberSearch(x, progs, hits, lists) ==
    LET exactOnly == ExactOnly(x, progs, hits)
        eligible == {p \in progs : InName(x, p, exactOnly)}
        datable == {p \in progs : Exact(x, p)}
        idx == Index(TVDB[x.id])
    IN  IF ~WantsList(x) THEN progs
        ELSE IF lists[x.id] = "list" /\ TVDB[x.id] # {}
             THEN LET numbered == NumberFromTVDB(progs, idx, eligible, datable)
                  IN  NumberOneOffs(numbered, idx,
                                    [p \in numbered |-> OneOffTitle(x, p)])
        ELSE MarkUnchecked(progs, eligible)

\* An override changes an item's name too, except where it stands for a series.
Override(x, p) ==
    override[IF Asked(x) THEN EmitName(p.name, x.want, x.theTVDB) ELSE p.name]
AsSeries(x, p) == x.series # NoName /\ OfSeries(p, x.series, x.year)

NumberedEpisode(p, o) ==
    (p.numbered \/ (p.series # 0 /\ p.ep # 0)) /\ EmittedNumber(p, o) # NoNumber

Hatch(p) == p.series = 0 /\ p.ep = 0 /\ p.day # NoDay
UnnumberedHatch(p, o) == Hatch(p) /\ EmittedNumber(p, o) = NoNumber

Answers(x, number) == /\ x.season \in {NoSeason, number[1]}
                      /\ x.ep > 0 => number[2] = x.ep

\* Mutant: an unnumbered programme answers whatever number its title will get.
HatchAlwaysAnswers(x, p, o) ==
    IF Hatch(p) THEN x.season < 1900 \/ x.season = ThisYear
    ELSE Answers(x, EmittedNumber(p, o))

MatchesSearchFilter(x, p, o) ==
    LET n == EmittedNumber(p, o)
        moved == Hatch(p) \/ OverridesNumbering(p, o)
    IN  IF x.day # NoDay THEN p.day = x.day
        ELSE IF moved /\ n[2] > 0 THEN Answers(x, n)
        ELSE IF ~Hatch(p) THEN Answers(x, <<p.series, p.ep>>)
        ELSE IF n # NoNumber THEN x.season = NoSeason /\ x.ep <= 0
        ELSE x.season < 1900 \/ x.season = ThisYear

\* The name, exact-title and era gates; TheTVDB's own numbers pass the last.
Admitted(x, p, exactOnly, out) ==
    /\ Asked(x) => NameMatches(p.name, x.want, x.theTVDB)
    /\ exactOnly => Exact(x, p) \/ p.numbered
    /\ p.name \in out => p.numbered

\* When the show goes out numbered, a date title is none of its episodes.
ShowNumbered(x, admitted) ==
    /\ Asked(x) /\ x.day = NoDay /\ x.season < 1900
    /\ x.season # NoSeason \/ x.ep > 0
    /\ \E p \in admitted : NumberedEpisode(p, Override(x, p))

Filtered(x, progs, hits) ==
    LET exactOnly == ExactOnly(x, progs, hits)
        out == OutOfEra(x, progs, hits, exactOnly)
        admitted == {p \in progs : Admitted(x, p, exactOnly, out)}
    IN  {p \in admitted :
            LET o == Override(x, p)
            IN  /\ MatchesSearchFilter(x, p, o)
                /\ ShowNumbered(x, admitted) => ~UnnumberedHatch(p, o)
                /\ p.contradicted \/ p.unchecked => OverridesNumbering(p, o)}

-----------------------------------------------------------------------------
(* The RSS feed is numbered from the series Sonarr has searched before.    *)

CandidatesFor(p, known) == {id \in known : ExactName(p.name, ShowOf[id].name, TRUE)}

\* known are the series stored when the feed was asked for.
ListAtHand(id, lists) == id \in DOMAIN lists /\ lists[id] = "list" /\ TVDB[id] # {}
AllAtHand(p, known, lists) ==
    \A id \in CandidatesFor(p, known) : ListAtHand(id, lists)

ResolveBrowse(progs, known, lists) ==
    [id \in {i \in known : ListAtHand(i, lists)} |->
        LET eligible == {p \in progs : /\ id \in CandidatesFor(p, known)
                                       /\ AllAtHand(p, known, lists)}
        IN  Resolve(progs, Index(TVDB[id]), eligible, eligible)]

\* A programme takes the one strongest claim the lists of its candidates give it.
Strongest(progs, known, lists, resolved) ==
    LET rivals(p) == CandidatesFor(p, known)
        goesOutAs(p) == IF override[p.name].name # NoKey
                        THEN override[p.name].name ELSE p.name
        picks(p) == {k \in UNION {{id} \X resolved[id].won : id \in DOMAIN resolved} :
                        k[2].prog = p}
        best(p) == Max({k[2].strength : k \in picks(p)})
        chosen(p) == {k \in picks(p) : k[2].strength = best(p)}
        borneOut(p, id) ==
            /\ GivenNumber(p) # NoNumber
            /\ \E d \in rivals(p) \ {id} :
                  BearsOut(GivenNumber(p), p, Index(TVDB[d]))
        taken(p) ==
            IF picks(p) = {} \/ Cardinality(chosen(p)) # 1 THEN {}
            ELSE {k \in chosen(p) : best(p) > OnAirDate \/ ~borneOut(p, k[1])}
        contradicted(p) ==
            \E id \in DOMAIN resolved : /\ p \in resolved[id].contradicted
                                        /\ goesOutAs(p) = ShowOf[id].name
    IN  {IF taken(p) # {}
         THEN LET k == CHOOSE k \in taken(p) : TRUE
              IN  [Apply(k[2]) EXCEPT !.by = k[1]]
         ELSE [p EXCEPT !.contradicted = contradicted(p),
                        !.unchecked = ~AllAtHand(p, known, lists) /\ Guessed(p)]
         : p \in progs}

NumberBrowse(progs, known, lists) ==
    Strongest(progs, known, lists, ResolveBrowse(progs, known, lists))

-----------------------------------------------------------------------------
(* The items of an answer.                                                 *)

\* Tags for the heights a probe found, or the safe pair when it found none.
Tags(found, browse) ==
    LET heights == IF found = Unknown THEN {720, 540} ELSE found
        capped == {h \in heights : Ceiling = 0 \/ h <= Ceiling}
        n == Cardinality({h \in capped : h >= 396})
    IN  IF browse /\ n > 2 THEN 2 ELSE n

\* How many tags each programme is given: all that fit the limit, in the order
\* iBL listed the programmes, which is not modelled.
Fitting(x, want) ==
    LET total == MapThenSumSet(LAMBDA p : want[p], DOMAIN want)
    IN  {f \in [DOMAIN want -> 0 .. 5] :
            /\ \A p \in DOMAIN want : f[p] <= want[p]
            /\ Cardinality({p \in DOMAIN want : f[p] \in 1 .. want[p] - 1}) <= 1
            /\ MapThenSumSet(LAMBDA p : f[p], DOMAIN want)
                 = (IF x.limit > 0 /\ total > x.limit THEN x.limit ELSE total)}

Item(x, p, stamp) ==
    LET byFeed == p.by # NoSeries
        asSeries == AsSeries(x, p)
        o == IF asSeries \/ byFeed
             THEN [Override(x, p) EXCEPT !.name = NoKey] ELSE Override(x, p)
        name == IF byFeed THEN ShowOf[p.by].name
                ELSE IF asSeries THEN x.series
                ELSE IF Asked(x) THEN EmitName(p.name, x.want, x.theTVDB)
                ELSE p.name
    IN  [prog |-> p,
         name |-> IF o.name # NoKey THEN o.name ELSE name,
         id |-> IF byFeed THEN p.by ELSE x.id,
         number |-> EmittedNumber(p, o),
         overridden |-> OverridesNumbering(p, o),
         pub |-> stamp]

-----------------------------------------------------------------------------
(* The requests.                                                           *)

Nothing == [items |-> {}]
Idle    == [at |-> "idle"]

Init ==
    /\ \E w \in Worlds : /\ shelf = w.shelf /\ override = w.override
                        /\ mapping = w.mapping
    /\ cache = [id \in Series |-> "none"]
    /\ refused = {}
    /\ stamps = [pid \in AllPIDs |-> 0]
    /\ now = 1
    /\ job = [c \in Clients |-> Idle]
    /\ answer = Nothing
    /\ sonarr = [seen |-> {}, lost |-> {}, polled |-> 0]

\* What a request asks iBL and filters by, once its series is known.
ForSeries(r, id, year) ==
    [want |-> ShowOf[id].name, theTVDB |-> TRUE, series |-> ShowOf[id].name,
     year |-> IF year > 0 THEN year ELSE ShowOf[id].name.from,
     id |-> id, season |-> r.season, ep |-> r.ep, day |-> r.day,
     browse |-> FALSE, limit |-> r.limit]

ForName(r) ==
    [want |-> r.q, theTVDB |-> FALSE, series |-> NoName, year |-> 0,
     id |-> NoSeries, season |-> r.season, ep |-> r.ep, day |-> r.day,
     browse |-> r.q = NoName, limit |-> r.limit]

KnownYear(id) == IF mapping[id] = "full" THEN ShowOf[id].year ELSE 0

Search(c, x) == job' = [job EXCEPT ![c] = [at |-> "ibl", x |-> x]]
Empty(c)     == job' = [job EXCEPT ![c] = Idle]

\* Sonarr asks, by TheTVDB id, by name, or for the feed.
Ask(c, r) ==
    LET meant == {id \in Series : mapping[id] # "none" /\ r.q # NoName
                                    /\ SeriesNameIs(ShowOf[id].name, r.q)}
        stored == mapping[r.id]
    IN  /\ job[c] = Idle
        /\ r.id = NoSeries /\ r.q = NoName => now <= MaxPolls
        /\ \/ /\ r.id = NoSeries /\ Cardinality(meant) > 1
              /\ Empty(c)
           \/ /\ r.id = NoSeries /\ Cardinality(meant) = 1
              /\ \E id \in meant : Search(c, ForSeries(r, id, KnownYear(id)))
           \/ /\ r.id = NoSeries /\ meant = {}
              /\ Search(c, ForName(r))
           \/ /\ r.id # NoSeries /\ stored = "full"
              /\ Search(c, ForSeries(r, r.id, KnownYear(r.id)))
           \/ /\ r.id # NoSeries /\ stored # "full" /\ r.id \notin refused
              /\ job' = [job EXCEPT ![c] = [at |-> "lookup", r |-> r]]
           \/ /\ r.id # NoSeries /\ stored = "yearless" /\ r.id \in refused
              /\ Search(c, ForSeries(r, r.id, 0))
           \/ /\ r.id # NoSeries /\ stored = "none" /\ r.id \in refused
              /\ Empty(c)
        /\ answer' = Nothing
        /\ UNCHANGED <<world, mapping, cache, refused, stamps, now, sonarr>>

\* Skyhook names the show; a failure is remembered, a cancelled search is not.
LookUp(c) ==
    /\ job[c].at = "lookup"
    /\ LET r == job[c].r
           id == r.id
           kept == IF mapping[id] = "none" THEN Empty(c)
                   ELSE Search(c, ForSeries(r, id, 0))
       IN  \/ /\ mapping' = [mapping EXCEPT ![id] =
                               IF ShowOf[id].year > 0 THEN "full" ELSE "yearless"]
              /\ refused' = refused \ {id}
              /\ Search(c, ForSeries(r, id, ShowOf[id].year))
           \/ /\ "skyhook" \in Failures
              /\ refused' = refused \cup {id}
              /\ kept
              /\ UNCHANGED mapping
           \/ /\ "cancel" \in Failures
              /\ kept
              /\ UNCHANGED <<mapping, refused>>
    /\ answer' = Nothing
    /\ UNCHANGED <<world, cache, stamps, now, sonarr>>

Programmes(x, failed, order) ==
    {ToProgramme(r) : r \in IF x.browse THEN BrowseFresh(shelf, failed, order)
                                        ELSE SearchResults(shelf, failed, order)}

\* The lists a request is numbered from.
Needed(x, progs, known) ==
    IF x.browse THEN UNION {CandidatesFor(p, known) : p \in progs}
    ELSE IF WantsList(x) THEN {x.id} ELSE {}

Sources(x) == IF x.browse THEN {"trending", "popular", "search"}
              ELSE Brands(shelf) \ {r.brand : r \in {s \in shelf : s.brand = s.pid}}

AtLists(lists) == IF \E id \in DOMAIN lists : lists[id] = "none" THEN "lists" ELSE "emit"

\* iBL answers, some listings or pools missing; cached lists are at hand.
SearchIBL(c) ==
    /\ job[c].at = "ibl"
    /\ \/ \E failed \in SUBSET Sources(job[c].x), order \in Orders(shelf) :
            LET x == job[c].x
                known == {id \in Series : mapping[id] # "none"}
                progs == Programmes(x, failed, order)
                lists == [id \in Needed(x, progs, known) |-> cache[id]]
            IN  /\ failed # {} => "ibl" \in Failures
                /\ IF x.browse /\ failed = Sources(x) THEN Empty(c)
                   ELSE job' = [job EXCEPT ![c] =
                          [at |-> AtLists(lists), x |-> x, known |-> known,
                           progs |-> progs, lists |-> lists]]
       \/ "ibl" \in Failures /\ Empty(c)
    /\ answer' = Nothing
    /\ UNCHANGED <<world, mapping, cache, refused, stamps, now, sonarr>>

\* Skyhook answers for one list a request waits for; the answer is cached,
\* whatever another request has cached meanwhile.
FetchList(c, id) ==
    /\ job[c].at = "lists"
    /\ id \in DOMAIN job[c].lists /\ job[c].lists[id] = "none"
    /\ \E reply \in {"list", "failed", "cancelled"} :
          LET lists == [job[c].lists EXCEPT ![id] = reply]
          IN  /\ reply = "failed" => "skyhook" \in Failures
              /\ reply = "cancelled" => "cancel" \in Failures
              /\ job' = [job EXCEPT ![c].lists = lists,
                           ![c].at = AtLists(lists)]
              /\ cache' = IF reply = "cancelled" THEN cache
                          ELSE [cache EXCEPT ![id] = reply]
    /\ answer' = Nothing
    /\ UNCHANGED <<world, mapping, refused, stamps, now, sonarr>>

\* The programmes of an answer, numbered.
Numbered(j) ==
    IF j.x.browse THEN NumberBrowse(j.progs, j.known, j.lists)
    ELSE NumberSearch(j.x, j.progs, HitTitles(shelf), j.lists)

\* Mutant: a search stamps what it returns too.
StampedByAny(x, pids) ==
    [pid \in AllPIDs |-> IF pid \in pids /\ stamps[pid] = 0 THEN now ELSE stamps[pid]]

\* Only the feed stamps, and only what it carries.
Stamped(x, pids) ==
    [pid \in AllPIDs |-> IF x.browse /\ pid \in pids /\ stamps[pid] = 0
                         THEN now ELSE stamps[pid]]

\* The qualities are probed and the answer is written; it may not arrive.
Reply(j, progs) ==
    \E probe \in [PID(progs) -> Heights \cup {Unknown, NotYet}], arrives \in BOOLEAN :
       LET live == {p \in progs : probe[p.pid] # NotYet}
           want == [p \in live |-> Tags(probe[p.pid], j.x.browse)]
       IN  \E fit \in Fitting(j.x, want) :
             LET out == {p \in live : fit[p] > 0}
             IN  /\ ~arrives => j.x.browse /\ "lost" \in Failures
                 /\ stamps' = Stamped(j.x, PID(out))
                 /\ now' = IF j.x.browse THEN now + 1 ELSE now
                 /\ answer' = [x |-> j.x, lists |-> j.lists, known |-> j.known,
                               items |-> {Item(j.x, p, stamps'[p.pid]) : p \in out}]
                 /\ sonarr' =
                      IF ~j.x.browse THEN sonarr
                      ELSE IF arrives THEN [sonarr EXCEPT !.seen = @ \cup PID(out),
                                                          !.polled = now]
                      ELSE [sonarr EXCEPT !.lost = @ \cup PID(out)]

Emit(c) ==
    /\ job[c].at = "emit"
    /\ job[c].x.browse => now <= MaxPolls
    /\ Reply(job[c], Filtered(job[c].x, Numbered(job[c]), HitTitles(shelf)))
    /\ Empty(c)
    /\ UNCHANGED <<world, mapping, cache, refused>>

\* A list is kept twelve hours, a failure five minutes.
Expire(id) ==
    /\ \/ /\ cache[id] # "none"
          /\ cache' = [cache EXCEPT ![id] = "none"]
          /\ UNCHANGED refused
       \/ /\ id \in refused
          /\ refused' = refused \ {id}
          /\ UNCHANGED cache
    /\ answer' = Nothing
    /\ UNCHANGED <<world, mapping, stamps, now, job, sonarr>>

Restart ==
    /\ "restart" \in Failures
    /\ cache' = [id \in Series |-> "none"]
    /\ refused' = {}
    /\ job' = [c \in Clients |-> Idle]
    /\ answer' = Nothing
    /\ UNCHANGED <<world, mapping, stamps, now, sonarr>>

Next ==
    \/ \E c \in Clients, r \in Requests : Ask(c, r)
    \/ \E c \in Clients : LookUp(c) \/ SearchIBL(c) \/ Emit(c)
    \/ \E c \in Clients, id \in Series : FetchList(c, id)
    \/ \E id \in Series : Expire(id)
    \/ Restart

Spec == Init /\ [][Next]_vars

-----------------------------------------------------------------------------

\* The index the items of an answer were checked against.
ListOf(a) == Index(TVDB[a.x.id])
SearchesEpisode(a) ==
    a # Nothing /\ a.x.ep > 0 /\ a.x.season \in 0 .. 1899 /\ a.x.day = NoDay

\* A search for an episode by number returns that number, or, for a show that
\* goes out without numbers, date titles: never another episode's number,
\* though the filter runs on the BBC's, TheTVDB's or the override's number and
\* the title is generated later (writeResultsRSS, matchesSearchFilterFor).  A
\* request that names no show has no show whose numbers hold date titles back.
AskedIsAnswered ==
    SearchesEpisode(answer) =>
        /\ \A it \in answer.items :
              it.number \in {<<answer.x.season, answer.x.ep>>, NoNumber, <<0, 0>>}
        /\ Asked(answer.x) /\ (\E it \in answer.items :
               NumberedEpisode(it.prog, Override(answer.x, it.prog)))
             => \A it \in answer.items :
                   ~UnnumberedHatch(it.prog, Override(answer.x, it.prog))

\* Two programmes go out under one number of TheTVDB's only when both carry
\* that episode's title (for a one-off, its whole iPlayer title counts too), or
\* are one programme listed twice (resolve, numberOneOffs).  Titles an override
\* dates, and numbers too large to be read back, are no number.
OneAtANumber ==
    answer # Nothing =>
        \A a, b \in answer.items :
            LET titled(it) == \E e \in Index(TVDB[it.id]) :
                    NumberOf(e) = it.number
                      /\ \/ e.key \in {it.prog.title.whole, it.prog.title.bare}
                         \/ it.prog.brand = it.prog.pid /\ e.key = it.prog.name.full
            IN  a.prog.numbered /\ b.prog.numbered /\ a.number = b.number
                  /\ a.id = b.id /\ a.prog.pid # b.prog.pid
                  /\ a.number \notin {NoNumber, <<0, 0>>}
                  => \/ a.prog.title.text = b.prog.title.text
                     \/ titled(a) /\ titled(b)

\* No guessed number of a known series goes out unless the list of every series
\* it may be of was there to check it, and a search returns no special under a
\* guess that is another episode's number.  Nor does the feed when the
\* programme can be of one series only and goes out under that series' name;
\* of several candidates it heeds only the one so named, and not that one where
\* the special has a claim which another candidate keeps it from taking
\* (tvdb.go:885-909).  Two specials are not held to the list at all: one whose
\* subtitle holds a date, which resolve leaves unread (tvdb.go:487), and one
\* whose label's assumed Series 1 the list bears out (labelBorneOut).
GuessesAreChecked ==
    answer # Nothing =>
        \A it \in answer.items :
            LET p == it.prog
                lists == IF answer.x.browse THEN CandidatesFor(p, answer.known)
                         ELSE IF WantsList(answer.x) THEN {answer.x.id} ELSE {}
                asked(id) == answer.x.browse =>
                                lists = {id} /\ it.name = ShowOf[id].name
            IN  ~p.numbered /\ Guessed(p) /\ it.number = PositionGuess(p)
                  /\ ~it.overridden
                => \A id \in lists :
                     /\ answer.lists[id] = "list" /\ TVDB[id] # {}
                     /\ p.title.special /\ p.title.date = "none" /\ asked(id) =>
                          CheckGuess(it.number, p, Index(TVDB[id])) # "contradicted"
                            \/ (p.seriesAssumed /\ p.title.label # NoKey)

\* An item of a dated series' search is of its era unless TheTVDB numbers it,
\* and the bare brand does not answer for a dated series whose own brand
\* iPlayer lists, even when that brand's listing failed.
RightEra ==
    answer # Nothing =>
        \A it \in answer.items :
            it.id # NoSeries /\ ~answer.x.browse /\ ~it.prog.numbered
              /\ answer.x.year # 0 =>
                 /\ it.prog.name.from # 0 => Covers(it.prog.name, answer.x.year)
                 /\ it.prog.name.from = 0 =>
                      ~\E n \in HitTitles(shelf) :
                          /\ Covers(n, answer.x.year)
                          /\ ExactName(n, answer.x.want, TRUE)

\* An item the RSS poll has not been given before is dated later than the last
\* poll Sonarr received, so it is above Sonarr's watermark, whatever
\* searches and trims came between; the exception is an item of an answer that
\* was lost, which is stamped and may miss the next poll (writeResultsRSS).
DebutsAboveWatermark ==
    [][answer' # Nothing /\ answer'.x.browse =>
         \A it \in answer'.items :
             it.prog.pid \notin sonarr.seen \cup sonarr.lost => it.pub > sonarr.polled]_vars
=============================================================================
