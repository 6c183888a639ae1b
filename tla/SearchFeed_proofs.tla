------------------------- MODULE SearchFeed_proofs -------------------------
(***************************************************************************)
(* What SearchFeed keeps for every world, every list of TheTVDB's, every   *)
(* request and any number of requests at once.                             *)
(*                                                                         *)
(* Only Emit writes an answer, so that four of the properties are facts    *)
(* about what the filter lets out of one request's programmes; the         *)
(* invariant IInv carries from step to step what they need: the request is *)
(* one Sonarr may make, and its programmes are as iPlayer lists them, not  *)
(* yet numbered.  The lemmas go from the number of a title, through the    *)
(* claims of one list, the programmes of a search and of the feed, and the *)
(* filter, to the answer.                                                  *)
(***************************************************************************)
EXTENDS SearchFeed, FiniteSetTheorems, TLAPS

(***************************************************************************)
(* Sets and maxima.                                                        *)
(***************************************************************************)

\* Two members that differ make a finite set larger than one.
LEMMA TwoMembers ==
    ASSUME NEW S, IsFiniteSet(S), NEW a \in S, NEW b \in S, a # b
    PROVE  Cardinality(S) > 1
<1>1. IsFiniteSet({a}) /\ Cardinality({a}) = 1
  BY FS_Singleton
<1>2. IsFiniteSet({a} \cup {b}) /\ Cardinality({a} \cup {b}) = Cardinality({a}) + 1
  BY <1>1, FS_AddElement, b \notin {a}
<1>3. {a} \cup {b} \subseteq S
  OBVIOUS
<1>4. Cardinality({a} \cup {b}) <= Cardinality(S)
  BY <1>3, FS_Subset
<1>5. Cardinality(S) \in Nat
  BY FS_CardinalityType
<1>. QED  BY <1>1, <1>2, <1>4, <1>5

\* A set of one member is not empty.
LEMMA OneMember ==
    ASSUME NEW S, Cardinality(S) = 1
    PROVE  S # {}
BY FS_EmptySet

\* A set of strengths that is not empty has a largest.
LEMMA MaxStrength ==
    ASSUME NEW S, S \subseteq 0 .. 3, S # {}
    PROVE  Max(S) \in S /\ \A s \in S : s <= Max(S)
<1>1. \E m \in S : \A s \in S : m >= s
  <2>1. CASE 3 \in S
    BY <2>1
  <2>2. CASE 3 \notin S /\ 2 \in S
    BY <2>2
  <2>3. CASE 3 \notin S /\ 2 \notin S /\ 1 \in S
    BY <2>3
  <2>4. CASE 3 \notin S /\ 2 \notin S /\ 1 \notin S
    <3>1. \A s \in S : s = 0
      BY <2>4
    <3>2. PICK m \in S : TRUE
      OBVIOUS
    <3>3. m = 0
      BY <3>1
    <3>4. \A s \in S : m >= s
      BY <3>1, <3>3
    <3>. QED  BY <3>4
  <2>. QED  BY <2>1, <2>2, <2>3, <2>4
<1>. QED  BY <1>1 DEF Max

(***************************************************************************)
(* The number of a title.                                                  *)
(***************************************************************************)

\* The name an override gives has no part in the number.
LEMMA NameNotNumber ==
    ASSUME NEW p, NEW o, IsOverride(o)
    PROVE  LET named == [o EXCEPT !.name = NoKey]
           IN  /\ EmittedNumber(p, named) = EmittedNumber(p, o)
               /\ OverridesNumbering(p, named) = OverridesNumbering(p, o)
<1>. DEFINE named == [o EXCEPT !.name = NoKey]
<1>1. /\ named.dated = o.dated /\ named.series = o.series
      /\ named.position = o.position /\ named.seriesBy = o.seriesBy
      /\ named.epBy = o.epBy
  BY DEF IsOverride
<1>2. Renumbered(p, named) = Renumbered(p, o)
  BY <1>1 DEF Renumbered
<1>. HIDE DEF named
<1>3. GenerateTitle(p, named) = GenerateTitle(p, o)
  BY <1>1, <1>2 DEF GenerateTitle
<1>. QED  BY <1>3 DEF EmittedNumber, OverridesNumbering, named

\* A programme TheTVDB numbered goes out under its number, or under none.
LEMMA NumberedNumber ==
    ASSUME NEW p, NEW o, p.numbered
    PROVE  EmittedNumber(p, o) \in {<<p.series, p.ep>>, NoNumber, <<0, 0>>}
BY DEF EmittedNumber, GenerateTitle, NoNumber

\* A title's number is none, too large to be read back, or that of an episode.
LEMMA NumberShape ==
    ASSUME NEW p, NEW o, ~p.numbered, IsOverride(o),
           p.series \in Nat, p.ep \in Nat, p.position \in Nat, p.day \in Int
    PROVE  LET n == EmittedNumber(p, o)
           IN  n \in {NoNumber, <<0, 0>>} \/ (n[2] \in Int /\ n[2] > 0)
<1>1. SpecialNumber(p) \in Int
  BY DEF SpecialNumber, MMDD
<1>2. Renumbered(p, o) \in Int \X Int
  BY DEF Renumbered, IsOverride
<1>3. LET g == GenerateTitle(p, o).number
      IN  g = NoNumber \/ (g[2] \in Int /\ g[2] > 0)
  BY <1>1, <1>2 DEF GenerateTitle, IsLooseSpecial
<1>. QED  BY <1>3 DEF EmittedNumber

\* A programme with both of the BBC's numbers that no override renumbers goes
\* out under them.
LEMMA OwnNumber ==
    ASSUME NEW p, NEW o, ~OverridesNumbering(p, o),
           p.series \in Nat \ {0}, p.ep \in Nat \ {0}
    PROVE  EmittedNumber(p, o) \in {<<p.series, p.ep>>, <<0, 0>>}
<1>1. Renumbered(p, NoOverride) = <<p.series, p.ep>>
  BY DEF Renumbered, NoOverride
<1>2. ~IsLooseSpecial(p, p.series, p.ep) /\ ~NoOverride.dated
  BY DEF IsLooseSpecial, NoOverride
<1>3. GenerateTitle(p, NoOverride).number = <<p.series, p.ep>>
  BY <1>1, <1>2 DEF GenerateTitle
<1>. QED  BY <1>3 DEF EmittedNumber, OverridesNumbering

(***************************************************************************)
(* The programmes of a request.                                            *)
(***************************************************************************)

\* What iPlayer lists and what is overridden are of one of the worlds.
OfAWorld == \E w \in Worlds : shelf = w.shelf /\ override = w.override

\* A programme as it is before TheTVDB's lists are looked at.
Fresh(p) ==
    /\ ProgrammeFields \subseteq DOMAIN p
    /\ TitleFields \subseteq DOMAIN p.title
    /\ p.series \in Nat /\ p.ep \in Nat /\ p.position \in Nat
    /\ p.day \in Int
    /\ ~p.numbered
    /\ p.by = NoSeries
    /\ p.series = 0 => p.ep = 0
    /\ p.pid \in PID(shelf)
    /\ p.name \in HitTitles(shelf)

LEMMA Shelf ==
    ASSUME OfAWorld
    PROVE  /\ IsFiniteSet(shelf)
           /\ \A r \in shelf : IsElement(r) /\ IsOverride(override[r.name])
           /\ \A id \in Series : IsOverride(override[ShowOf[id].name])
           /\ \A r \in Requests : r.q # NoName => IsOverride(override[r.q])
           /\ PID(shelf) \subseteq AllPIDs
<1>1. PICK w \in Worlds : shelf = w.shelf /\ override = w.override
  BY DEF OfAWorld
<1>2. IsFiniteSet(w.shelf) /\ \A r \in w.shelf : IsElement(r)
  BY WorldsAssumption
<1>3. \A n \in NamesOf(w) : IsOverride(w.override[n])
  BY WorldsAssumption
<1>4. PID(shelf) \subseteq AllPIDs
  BY <1>1 DEF AllPIDs
<1>5. \A r \in w.shelf : r.name \in NamesOf(w)
  BY DEF NamesOf
<1>6. \A id \in Series : ShowOf[id].name \in NamesOf(w)
  BY DEF NamesOf
<1>7. \A r \in Requests : r.q # NoName => r.q \in NamesOf(w)
  BY DEF NamesOf
<1>. QED  BY <1>1, <1>2, <1>3, <1>4, <1>5, <1>6, <1>7

\* Numbering a listing by date leaves its elements elements.
LEMMA ListingElements ==
    ASSUME OfAWorld, NEW S, S \subseteq shelf, NEW order,
           NEW r \in AssignMissing(S, order)
    PROVE  IsElement(r) /\ r.pid \in PID(shelf) /\ r.name \in HitTitles(shelf)
<1>. DEFINE series(s) == {q \in S : q.series = s}
            missing(s) == s > 0 /\ \A q \in series(s) : q.ep = 0 /\ q.position = 0
            earlier(z, q) == z.day < q.day \/ (z.day = q.day /\ order[z] < order[q])
            rank(q) == 1 + Cardinality({z \in series(q.series) : earlier(z, q)})
<1>1. PICK q \in S : r = IF missing(q.series)
                         THEN [q EXCEPT !.ep = rank(q), !.epAssumed = TRUE] ELSE q
  BY DEF AssignMissing
<1>2. IsElement(q) /\ q \in shelf
  BY Shelf
<1>3. rank(q) \in Nat
  <2>1. IsFiniteSet({z \in series(q.series) : earlier(z, q)})
    BY Shelf, FS_Subset
  <2>. QED  BY <2>1, FS_CardinalityType
<1>. HIDE DEF rank, missing
<1>4. CASE r = q
  BY <1>2, <1>4 DEF PID, HitTitles
<1>5. CASE r = [q EXCEPT !.ep = rank(q), !.epAssumed = TRUE]
  <2>1. DOMAIN r = DOMAIN q
    BY <1>5
  <2>2. /\ r.series = q.series /\ r.ep = rank(q) /\ r.position = q.position
        /\ r.day = q.day /\ r.numbered = q.numbered /\ r.by = q.by
        /\ r.title = q.title /\ r.pid = q.pid /\ r.name = q.name
    BY <1>2, <1>5 DEF IsElement, ProgrammeFields
  <2>3. IsElement(r)
    BY <1>2, <1>3, <2>1, <2>2 DEF IsElement
  <2>. QED  BY <1>2, <2>2, <2>3 DEF PID, HitTitles
<1>. QED  BY <1>1, <1>4, <1>5

LEMMA SearchElements ==
    ASSUME OfAWorld, NEW failed, NEW order,
           NEW r \in SearchResults(shelf, failed, order)
    PROVE  IsElement(r) /\ r.pid \in PID(shelf) /\ r.name \in HitTitles(shelf)
<1>1. PICK b : r \in AssignMissing({q \in shelf : q.brand = b}, order)
  BY DEF SearchResults
<1>. DEFINE S == {q \in shelf : q.brand = b}
<1>2. S \subseteq shelf
  OBVIOUS
<1>. HIDE DEF S
<1>. QED  BY <1>1, <1>2, ListingElements DEF S

LEMMA BrowseElements ==
    ASSUME OfAWorld, NEW failed, NEW order,
           NEW r \in BrowseFresh(shelf, failed, order)
    PROVE  IsElement(r) /\ r.pid \in PID(shelf) /\ r.name \in HitTitles(shelf)
<1>1. r \in shelf \/ r \in SearchResults(shelf, failed, order)
  BY DEF BrowseFresh
<1>2. CASE r \in shelf
  BY <1>2, Shelf DEF PID, HitTitles
<1>3. CASE r \in SearchResults(shelf, failed, order)
  BY <1>3, SearchElements
<1>. QED  BY <1>1, <1>2, <1>3

\* Every programme of a request is fresh.
LEMMA ProgrammesFresh ==
    ASSUME OfAWorld, NEW x, NEW failed, NEW order,
           NEW p \in Programmes(x, failed, order)
    PROVE  Fresh(p)
<1>1. PICK r : /\ \/ r \in BrowseFresh(shelf, failed, order)
                  \/ r \in SearchResults(shelf, failed, order)
               /\ p = ToProgramme(r)
  BY DEF Programmes
<1>2. IsElement(r) /\ r.pid \in PID(shelf) /\ r.name \in HitTitles(shelf)
  BY <1>1, BrowseElements, SearchElements
<1>3. /\ DOMAIN p = DOMAIN r
      /\ p.series = IF r.series = 0 /\ r.ep > 0 THEN 1 ELSE r.series
      /\ p.ep = r.ep /\ p.position = r.position
      /\ p.day = r.day /\ p.numbered = r.numbered /\ p.by = r.by
      /\ p.title = r.title /\ p.pid = r.pid /\ p.name = r.name
  BY <1>1, <1>2 DEF ToProgramme, IsElement, ProgrammeFields
<1>. QED  BY <1>2, <1>3 DEF Fresh, IsElement

(***************************************************************************)
(* Claims, and those that keep their numbers.                              *)
(***************************************************************************)

\* e is the episode of claim c's number, and c's programme carries its title.
TitleOf(e, c) == NumberOf(e) = c.number /\ e.key \in {c.prog.title.whole, c.prog.title.bare}

\* A claim is by the programme that makes it, and one by title is for an
\* episode the programme's title names.
LEMMA ClaimsSound ==
    ASSUME NEW p, NEW idx, NEW datable, NEW c \in ClaimsOf(p, idx, datable)
    PROVE  /\ c.prog = p /\ c.strength \in 0 .. 3
           /\ c.number = <<c.number[1], c.number[2]>>
           /\ c.strength = OnTitle => \E e \in idx : TitleOf(e, c)
<1>. DEFINE matches == TitleMatches(p, idx)
            numbers == {NumberOf(m[1]) : m \in matches}
            best == Max({m[2] : m \in matches})
            byTitle == Claim(p, (CHOOSE m \in matches : m[2] = best)[1], best)
            byDate == IF Guessed(p) THEN SpecialOn(p, idx) ELSE {}
<1>1. \/ Cardinality(numbers) = 1 /\ c = byTitle
      \/ c \in {Claim(p, e, OnAirDate) : e \in byDate}
      \/ c \in {Claim(p, e, OffWindow) : e \in TitleAnyDate(p, idx)}
  BY DEF ClaimsOf
<1>2. CASE Cardinality(numbers) = 1 /\ c = byTitle
  <2>1. PICK m0 \in matches : TRUE
    BY <1>2, OneMember
  <2>2. \A m \in matches :
           /\ m[1] \in idx /\ m[2] \in {OnLabel, OnTitle}
           /\ <<m[1].key, m[2]>> \in Candidates(p.title)
    BY DEF TitleMatches
  <2>. HIDE DEF matches
  <2>3. \A m \in matches : m[2] \in 0 .. 3
    <3>1. OnLabel \in 0 .. 3 /\ OnTitle \in 0 .. 3
      BY DEF OnLabel, OnTitle
    <3>. QED  BY <2>2, <3>1
  <2>4. best \in {m[2] : m \in matches}
    BY <2>1, <2>3, MaxStrength
  <2>. HIDE DEF best
  <2>5. PICK m \in matches : m = (CHOOSE k \in matches : k[2] = best) /\ m[2] = best
    BY <2>4
  <2>6. c = Claim(p, m[1], m[2])
    BY <1>2, <2>5
  <2>7. c.prog = p /\ c.strength = m[2] /\ c.number = NumberOf(m[1])
    BY <2>6 DEF Claim
  <2>8. c.strength \in 0 .. 3
    BY <2>3, <2>7
  <2>9. ASSUME c.strength = OnTitle
        PROVE  TitleOf(m[1], c)
    <3>1. <<m[1].key, OnTitle>> \in Candidates(p.title)
      BY <2>2, <2>7, <2>9
    <3>2. m[1].key \in {p.title.whole, p.title.bare}
      BY <3>1 DEF Candidates, OnLabel, OnTitle
    <3>. QED  BY <2>7, <3>2 DEF TitleOf
  <2>10. c.number = <<c.number[1], c.number[2]>>
    BY <2>7 DEF NumberOf
  <2>. QED  BY <2>2, <2>7, <2>8, <2>9, <2>10
<1>3. CASE c \in {Claim(p, e, OnAirDate) : e \in byDate}
  <2>. HIDE DEF byDate
  <2>. QED  BY <1>3 DEF Claim, NumberOf, OnAirDate, OnTitle
<1>4. CASE c \in {Claim(p, e, OffWindow) : e \in TitleAnyDate(p, idx)}
  BY <1>4 DEF Claim, NumberOf, OffWindow, OnTitle
<1>. QED  BY <1>1, <1>2, <1>3, <1>4

\* A programme makes one claim at most on a list.
LEMMA OneClaim ==
    ASSUME NEW p, NEW idx, IsFiniteSet(idx), NEW datable,
           NEW c \in ClaimsOf(p, idx, datable), NEW d \in ClaimsOf(p, idx, datable)
    PROVE  c = d
<1>. DEFINE matches == TitleMatches(p, idx)
            numbers == {NumberOf(m[1]) : m \in matches}
            best == Max({m[2] : m \in matches})
            byTitle == Claim(p, (CHOOSE m \in matches : m[2] = best)[1], best)
            byDate == IF Guessed(p) THEN SpecialOn(p, idx) ELSE {}
            anyDate == TitleAnyDate(p, idx)
<1>1. \A S : S \subseteq idx /\ Cardinality(S) = 1 => \A a, b \in S : a = b
  <2>. SUFFICES ASSUME NEW S, S \subseteq idx, Cardinality(S) = 1,
                       NEW a \in S, NEW b \in S, a # b
                PROVE  FALSE
    OBVIOUS
  <2>1. IsFiniteSet(S)
    BY FS_Subset
  <2>. QED  BY <2>1, TwoMembers
<1>2. \A a, b \in byDate : a = b
  <2>. DEFINE sameDay == {e \in idx : e.season = 0 /\ Dated(p.day) /\ e.day = p.day}
              named   == {e \in sameDay : Specific(e.key) /\ e.key \in p.title.holds}
              found   == IF Cardinality(sameDay) > 1 THEN named ELSE sameDay
  <2>1. SpecialOn(p, idx) = IF Cardinality(found) = 1 THEN found ELSE {}
    BY DEF SpecialOn
  <2>2. found \subseteq idx
    OBVIOUS
  <2>. HIDE DEF found
  <2>. QED  BY <1>1, <2>1, <2>2
<1>3. \A a, b \in anyDate : a = b
  <2>. DEFINE found == {e \in idx : \E k \in Candidates(p.title) :
                                        Specific(k[1]) /\ k[1] = e.key}
  <2>1. anyDate # {} => anyDate = found /\ Cardinality(found) = 1
    BY DEF TitleAnyDate
  <2>2. found \subseteq idx
    OBVIOUS
  <2>. HIDE DEF found, anyDate
  <2>. QED  BY <1>1, <2>1, <2>2
<1>4. \/ c = byTitle /\ d = byTitle
      \/ /\ c \in {Claim(p, e, OnAirDate) : e \in byDate}
         /\ d \in {Claim(p, e, OnAirDate) : e \in byDate}
      \/ /\ c \in {Claim(p, e, OffWindow) : e \in anyDate}
         /\ d \in {Claim(p, e, OffWindow) : e \in anyDate}
  BY DEF ClaimsOf
<1>. QED  BY <1>2, <1>3, <1>4

LEMMA SettleClaims ==
    ASSUME NEW claims
    PROVE  Settle(claims) \subseteq claims
BY DEF Settle

\* Of the claims on one number, those that keep it are of one programme, say the
\* same title, or are made by title.
LEMMA SettleSound ==
    ASSUME NEW claims, IsFiniteSet(PIDs(claims)),
           \A c \in claims : c.strength \in 0 .. 3,
           NEW c \in Settle(claims), NEW d \in Settle(claims),
           c.prog.pid # d.prog.pid
    PROVE  \/ c.prog.title.text = d.prog.title.text
           \/ c.strength = OnTitle /\ d.strength = OnTitle
<1>. DEFINE texts == {k.prog.title.text : k \in claims}
            kept  == {k \in claims : \/ k.prog.title.base = k.prog.title.text
                                     \/ k.prog.title.base \notin texts}
            own   == {k \in kept : GivenNumber(k.prog) = k.number}
            field == IF /\ Cardinality(kept) > 1
                        /\ \A k \in kept : k.strength = OffWindow
                        /\ Cardinality(PIDs(own)) = 1
                     THEN own ELSE kept
            best == Max({k.strength : k \in field})
            loses(k) ==
                /\ k.strength < OnTitle
                /\ Cardinality(PIDs(field)) > 1
                /\ \/ k.strength < best
                   \/ \E z \in field : /\ z.strength = k.strength
                                       /\ z.prog.title.text # k.prog.title.text
<1>1. Settle(claims) = {k \in field : ~loses(k)}
  BY DEF Settle
<1>2. field \subseteq claims
  OBVIOUS
<1>. HIDE DEF field
<1>3. c \in field /\ d \in field /\ ~loses(c) /\ ~loses(d)
  BY <1>1
<1>4. Cardinality(PIDs(field)) > 1
  <2>1. PIDs(field) \subseteq PIDs(claims)
    BY <1>2 DEF PIDs
  <2>2. IsFiniteSet(PIDs(field))
    BY <2>1, FS_Subset
  <2>3. c.prog.pid \in PIDs(field) /\ d.prog.pid \in PIDs(field)
    BY <1>3 DEF PIDs
  <2>. QED  BY <2>2, <2>3, TwoMembers
<1>5. {k.strength : k \in field} \subseteq 0 .. 3 /\ {k.strength : k \in field} # {}
  BY <1>2, <1>3
<1>6. \A k \in field : k.strength <= best /\ k.strength \in 0 .. 3
  BY <1>2, <1>5, MaxStrength
<1>7. best \in 0 .. 3
  BY <1>5, MaxStrength
<1>. HIDE DEF best
<1>8. c.strength = OnTitle \/ (c.strength = best /\ best < OnTitle)
  BY <1>3, <1>4, <1>6, <1>7 DEF OnTitle
<1>9. d.strength = OnTitle \/ (d.strength = best /\ best < OnTitle)
  BY <1>3, <1>4, <1>6, <1>7 DEF OnTitle
<1>10. CASE c.strength = OnTitle
  BY <1>3, <1>6, <1>7, <1>9, <1>10 DEF OnTitle
<1>11. CASE c.strength # OnTitle
  <2>1. c.strength = best /\ d.strength = best /\ best < OnTitle
    BY <1>3, <1>6, <1>7, <1>8, <1>9, <1>11 DEF OnTitle
  <2>. QED  BY <1>3, <1>4, <2>1
<1>. QED  BY <1>10, <1>11

\* The claims a list's index lets the programmes of a request keep.
LEMMA WonSound ==
    ASSUME NEW progs, IsFiniteSet(PID(progs)), NEW idx, NEW eligible, NEW datable,
           NEW c \in Resolve(progs, idx, eligible, datable).won,
           NEW d \in Resolve(progs, idx, eligible, datable).won
    PROVE  /\ c.prog \in progs /\ c.number = <<c.number[1], c.number[2]>>
           /\ c.strength = OnTitle => \E e \in idx : TitleOf(e, c)
           /\ c.number = d.number /\ c.prog.pid # d.prog.pid =>
                \/ c.prog.title.text = d.prog.title.text
                \/ c.strength = OnTitle /\ d.strength = OnTitle
<1>. DEFINE considered == {p \in progs \cap eligible : p.title.date = "none"}
            all == UNION {ClaimsOf(p, idx, p \in datable) : p \in considered}
            on(n) == {k \in all : k.number = n}
<1>1. c \in SettleAll(all) /\ d \in SettleAll(all)
  BY DEF Resolve, Verdicts
<1>2. \A k \in all : /\ k.prog \in progs /\ k.strength \in 0 .. 3
                     /\ k.number = <<k.number[1], k.number[2]>>
                     /\ k.strength = OnTitle => \E e \in idx : TitleOf(e, k)
  BY ClaimsSound
<1>. HIDE DEF all
<1>3. \A k \in SettleAll(all) : k \in all /\ k \in Settle(on(k.number))
  <2>. SUFFICES ASSUME NEW k \in SettleAll(all)
                PROVE  k \in all /\ k \in Settle(on(k.number))
    OBVIOUS
  <2>1. PICK n \in {z.number : z \in all} : k \in Settle(on(n))
    BY DEF SettleAll
  <2>2. k \in on(n)
    BY <2>1, SettleClaims
  <2>. QED  BY <2>1, <2>2
<1>4. ASSUME c.number = d.number, c.prog.pid # d.prog.pid
      PROVE  \/ c.prog.title.text = d.prog.title.text
             \/ c.strength = OnTitle /\ d.strength = OnTitle
  <2>1. c \in Settle(on(c.number)) /\ d \in Settle(on(c.number))
    BY <1>1, <1>3, <1>4
  <2>2. PIDs(on(c.number)) \subseteq PID(progs)
    BY <1>2 DEF PIDs, PID
  <2>3. IsFiniteSet(PIDs(on(c.number)))
    BY <2>2, FS_Subset
  <2>4. \A k \in on(c.number) : k.strength \in 0 .. 3
    BY <1>2
  <2>. HIDE DEF on
  <2>. QED  BY <1>4, <2>1, <2>3, <2>4, SettleSound
<1>. QED  BY <1>1, <1>2, <1>3, <1>4

\* What a programme keeps of a list is its one claim, and it is of the show.
LEMMA WonOne ==
    ASSUME NEW progs, NEW idx, IsFiniteSet(idx), NEW eligible, NEW datable,
           NEW c \in Resolve(progs, idx, eligible, datable).won,
           NEW d \in Resolve(progs, idx, eligible, datable).won,
           c.prog = d.prog
    PROVE  c = d /\ c.prog \in progs \cap eligible /\ c.strength \in 0 .. 3
<1>. DEFINE considered == {p \in progs \cap eligible : p.title.date = "none"}
            all == UNION {ClaimsOf(p, idx, p \in datable) : p \in considered}
            on(n) == {k \in all : k.number = n}
<1>1. c \in SettleAll(all) /\ d \in SettleAll(all)
  BY DEF Resolve, Verdicts
<1>2. \A k \in all : \E p \in considered : k \in ClaimsOf(p, idx, p \in datable)
  OBVIOUS
<1>. HIDE DEF all
<1>3. SettleAll(all) \subseteq all
  <2>. SUFFICES ASSUME NEW k \in SettleAll(all) PROVE k \in all
    OBVIOUS
  <2>1. PICK n \in {z.number : z \in all} : k \in Settle(on(n))
    BY DEF SettleAll
  <2>2. k \in on(n)
    BY <2>1, SettleClaims
  <2>. QED  BY <2>2
<1>4. PICK p \in considered : c \in ClaimsOf(p, idx, p \in datable)
  BY <1>1, <1>2, <1>3
<1>5. PICK q \in considered : d \in ClaimsOf(q, idx, q \in datable)
  BY <1>1, <1>2, <1>3
<1>6. c.prog = p /\ d.prog = q /\ c.strength \in 0 .. 3
  BY <1>4, <1>5, ClaimsSound
<1>. QED  BY <1>4, <1>5, <1>6, OneClaim

\* A special left at its own guess is not at another episode's number, unless
\* its list bears out the other episodes of its label.
LEMMA GuessStands ==
    ASSUME NEW progs, NEW idx, NEW eligible, NEW datable,
           NEW p \in progs, p \in eligible, p.title.date = "none",
           p.title.special, Guessed(p),
           \A c \in Resolve(progs, idx, eligible, datable).won : c.prog # p,
           p \notin Resolve(progs, idx, eligible, datable).contradicted
    PROVE  \/ CheckGuess(PositionGuess(p), p, idx) # "contradicted"
           \/ p.seriesAssumed /\ p.title.label # NoKey
<1>. DEFINE considered == {q \in progs \cap eligible : q.title.date = "none"}
            settled == SettleAll(UNION {ClaimsOf(q, idx, q \in datable) : q \in considered})
            atOwn == {q \in considered : AtOwn(q, idx, settled)}
            showMatched == atOwn # {} \/ \E c \in settled : c.strength > OffWindow
            won == IF showMatched THEN settled ELSE {}
<1>. HIDE DEF settled
<1>1. Resolve(progs, idx, eligible, datable) =
        [won |-> won,
         contradicted |->
            {q \in considered :
                /\ \A c \in won : c.prog # q
                /\ ~LabelBorneOut(q, considered, idx, atOwn)
                /\ Contradicts(q, idx, showMatched)}]
  BY DEF Resolve, Verdicts, settled
<1>2. p \in considered
  OBVIOUS
<1>. HIDE DEF won, considered, atOwn, showMatched
<1>3. LabelBorneOut(p, considered, idx, atOwn) \/ ~Contradicts(p, idx, showMatched)
  BY <1>1, <1>2
<1>4. GivenNumber(p) = PositionGuess(p) /\ GivenNumber(p) # NoNumber
  BY DEF GivenNumber, Guessed
<1>5. Contradicts(p, idx, showMatched) <=>
        CheckGuess(PositionGuess(p), p, idx) = "contradicted"
  BY <1>4 DEF Contradicts
<1>6. LabelBorneOut(p, considered, idx, atOwn) =>
        p.seriesAssumed /\ p.title.label # NoKey
  BY DEF LabelBorneOut
<1>. QED  BY <1>3, <1>5, <1>6

(***************************************************************************)
(* Programmes numbered from the lists, and those left as they were.        *)
(***************************************************************************)

\* q is fresh programme p, but for what the lists say against its number.
Marked(q, p) ==
    /\ ProgrammeFields \subseteq DOMAIN q
    /\ q.pid = p.pid /\ q.name = p.name /\ q.title = p.title
    /\ q.series = p.series /\ q.ep = p.ep /\ q.position = p.position /\ q.day = p.day
    /\ q.seriesAssumed = p.seriesAssumed /\ q.epAssumed = p.epAssumed
    /\ q.numbered = p.numbered /\ q.by = p.by

\* q is the programme of claim c, numbered by it.
Took(q, c) ==
    /\ ProgrammeFields \subseteq DOMAIN q
    /\ q.pid = c.prog.pid /\ q.name = c.prog.name /\ q.title = c.prog.title
    /\ q.numbered
    /\ q.series = c.number[1] /\ q.ep = c.number[2]

LEMMA MarkedFresh ==
    ASSUME NEW q, NEW p, Fresh(p), Marked(q, p)
    PROVE  Fresh(q)
BY DEF Fresh, Marked

\* What is guessed of a programme is not changed by marking it.
LEMMA MarkedGuess ==
    ASSUME NEW q, NEW p, Marked(q, p)
    PROVE  /\ PositionGuess(q) = PositionGuess(p)
           /\ Guessed(q) <=> Guessed(p)
           /\ \A n, idx : CheckGuess(n, q, idx) = CheckGuess(n, p, idx)
<1>1. SpecialNumber(q) = SpecialNumber(p)
  BY DEF Marked, SpecialNumber
<1>2. IsLooseSpecial(q, q.series, q.ep) <=> IsLooseSpecial(p, p.series, p.ep)
  BY <1>1 DEF Marked, IsLooseSpecial
<1>3. PositionGuess(q) = PositionGuess(p)
  BY <1>1, <1>2 DEF Marked, PositionGuess
<1>4. \A n, idx : CheckGuess(n, q, idx) = CheckGuess(n, p, idx)
  BY DEF Marked, CheckGuess
<1>. QED  BY <1>3, <1>4 DEF Guessed

\* Marking keeps everything else of a fresh programme.
LEMMA Marking ==
    ASSUME NEW p, Fresh(p), NEW a, NEW b
    PROVE  /\ Marked(p, p)
           /\ Marked([p EXCEPT !.contradicted = a], p)
           /\ Marked([p EXCEPT !.unchecked = b], p)
           /\ [p EXCEPT !.contradicted = a].contradicted = a
           /\ [p EXCEPT !.unchecked = b].unchecked = b
BY DEF Fresh, Marked, ProgrammeFields

\* The numbering of a claim's programme.
LEMMA Applying ==
    ASSUME NEW c, Fresh(c.prog), NEW id
    PROVE  /\ Took(Apply(c), c)
           /\ Apply(c).by = NoSeries
           /\ Took([Apply(c) EXCEPT !.by = id], c)
           /\ [Apply(c) EXCEPT !.by = id].by = id
<1>. DEFINE q == Apply(c)
<1>1. /\ DOMAIN q = DOMAIN c.prog
      /\ q.pid = c.prog.pid /\ q.name = c.prog.name /\ q.title = c.prog.title
      /\ q.numbered = TRUE /\ q.series = c.number[1] /\ q.ep = c.number[2]
      /\ q.by = NoSeries
  BY DEF Fresh, Apply, ProgrammeFields
<1>2. ProgrammeFields \subseteq DOMAIN q
  BY <1>1 DEF Fresh
<1>. HIDE DEF q
<1>3. Took([q EXCEPT !.by = id], c) /\ [q EXCEPT !.by = id].by = id
  BY <1>1, <1>2 DEF Took, ProgrammeFields
<1>. QED  BY <1>1, <1>2, <1>3 DEF q, Took

LEMMA TVDBNumbering ==
    ASSUME NEW progs, \A p \in progs : Fresh(p), IsFiniteSet(PID(progs)),
           NEW idx, NEW eligible, NEW datable,
           NEW q \in NumberFromTVDB(progs, idx, eligible, datable)
    PROVE  LET r == Resolve(progs, idx, eligible, datable)
           IN  \/ (\E c \in r.won : Took(q, c) /\ q.by = NoSeries)
               \/ (\E p \in progs : /\ Marked(q, p)
                                    /\ \A c \in r.won : c.prog # p
                                    /\ ~q.contradicted => p \notin r.contradicted)
<1>. DEFINE r == Resolve(progs, idx, eligible, datable)
<1>1. PICK p \in progs :
        q = IF \E c \in r.won : c.prog = p
            THEN Apply(CHOOSE c \in r.won : c.prog = p)
            ELSE [p EXCEPT !.contradicted = p \in r.contradicted]
  BY DEF NumberFromTVDB
<1>. HIDE DEF r
<1>2. CASE \E c \in r.won : c.prog = p
  <2>1. PICK c \in r.won : c.prog = p /\ q = Apply(c)
    BY <1>1, <1>2
  <2>. QED  BY <2>1, Applying DEF r
<1>3. CASE ~(\E c \in r.won : c.prog = p)
  <2>1. q = [p EXCEPT !.contradicted = p \in r.contradicted]
    BY <1>1, <1>3
  <2>2. Marked(q, p) /\ q.contradicted = (p \in r.contradicted)
    BY <2>1, Marking
  <2>. QED  BY <1>3, <2>2 DEF r
<1>. QED  BY <1>2, <1>3

\* A one-off numbered by its title takes a number no other programme has.
LEMMA OneOffs ==
    ASSUME NEW progs, \A p \in progs : /\ ProgrammeFields \subseteq DOMAIN p
                                       /\ TitleFields \subseteq DOMAIN p.title,
           NEW idx, NEW oneOffTitle,
           NEW q \in NumberOneOffs(progs, idx, oneOffTitle)
    PROVE  \/ q \in progs
           \/ /\ q.numbered
              /\ \E p \in progs : /\ q.pid = p.pid /\ q.name = p.name /\ q.by = p.by
                                 /\ q.brand = p.brand /\ oneOffTitle[p] # NoKey
              /\ \E e \in idx : /\ NumberOf(e) = <<q.series, q.ep>>
                               /\ e.key \in {q.title.whole, q.name.full}
              /\ \A p \in progs : p.numbered => <<p.series, p.ep>> # <<q.series, q.ep>>
<1>. DEFINE taken == {<<p.series, p.ep>> : p \in {z \in progs : z.numbered}}
            found(p) == {e \in idx : /\ e.key \in {oneOffTitle[p], p.name.full}
                                     /\ Within(e.day, p.day, OneOffWindow)}
            numbers(p) == {NumberOf(e) : e \in found(p)}
            numberable(p) == /\ Specific(oneOffTitle[p])
                             /\ Cardinality(numbers(p)) = 1
                             /\ numbers(p) \cap taken = {}
            with(p, n) == [p EXCEPT !.series = n[1], !.ep = n[2], !.numbered = TRUE,
                                    !.title.text = oneOffTitle[p],
                                    !.title.whole = oneOffTitle[p]]
<1>1. PICK p \in progs :
        q = IF numberable(p) THEN with(p, CHOOSE n \in numbers(p) : TRUE) ELSE p
  BY DEF NumberOneOffs
<1>2. CASE numberable(p)
  <2>1. numbers(p) # {} /\ numbers(p) \cap taken = {}
    BY <1>2, OneMember
  <2>2. PICK n \in numbers(p) : q = with(p, n)
    BY <1>1, <1>2, <2>1
  <2>3. PICK e \in idx : e.key \in {oneOffTitle[p], p.name.full} /\ n = NumberOf(e)
    BY <2>2
  <2>4. /\ q.series = n[1] /\ q.ep = n[2] /\ q.numbered
        /\ q.title.whole = oneOffTitle[p]
        /\ q.pid = p.pid /\ q.name = p.name /\ q.by = p.by /\ q.brand = p.brand
    BY <2>2 DEF ProgrammeFields, TitleFields
  <2>5. NumberOf(e) = <<q.series, q.ep>> /\ <<q.series, q.ep>> = n
    BY <2>3, <2>4 DEF NumberOf
  <2>6. n \notin taken
    BY <2>1, <2>2
  <2>7. oneOffTitle[p] # NoKey
    BY <1>2 DEF Specific
  <2>. QED  BY <2>3, <2>4, <2>5, <2>6, <2>7
<1>3. CASE ~numberable(p)
  BY <1>1, <1>3
<1>. QED  BY <1>2, <1>3

\* q goes out under an episode of the index whose title it has.
Titled(q, idx) == \E e \in idx : /\ NumberOf(e) = <<q.series, q.ep>>
                                 /\ \/ e.key \in {q.title.whole, q.title.bare}
                                    \/ q.brand = q.pid /\ e.key = q.name.full

\* Programmes that took one number said the same title or were matched by it.
LEMMA ClaimedPair ==
    ASSUME NEW progs, IsFiniteSet(PID(progs)), NEW idx, NEW eligible, NEW datable,
           NEW c \in Resolve(progs, idx, eligible, datable).won,
           NEW d \in Resolve(progs, idx, eligible, datable).won,
           NEW q, NEW z, Took(q, c), Took(z, d),
           q.pid # z.pid, <<q.series, q.ep>> = <<z.series, z.ep>>
    PROVE  q.title.text = z.title.text \/ (Titled(q, idx) /\ Titled(z, idx))
<1>1. c.number = <<q.series, q.ep>> /\ d.number = <<z.series, z.ep>>
  <2>1. c.number = <<c.number[1], c.number[2]>> /\ d.number = <<d.number[1], d.number[2]>>
    BY WonSound
  <2>. QED  BY <2>1 DEF Took
<1>2. q.title = c.prog.title /\ z.title = d.prog.title /\ c.prog.pid # d.prog.pid
  BY DEF Took
<1>3. c.number = d.number
  BY <1>1
<1>4. \/ c.prog.title.text = d.prog.title.text
      \/ c.strength = OnTitle /\ d.strength = OnTitle
  BY <1>2, <1>3, WonSound
<1>5. c.strength = OnTitle => Titled(q, idx)
  <2>1. c.strength = OnTitle => \E e \in idx : TitleOf(e, c)
    BY WonSound
  <2>. QED  BY <1>1, <1>2, <2>1 DEF TitleOf, Titled
<1>6. d.strength = OnTitle => Titled(z, idx)
  <2>1. d.strength = OnTitle => \E e \in idx : TitleOf(e, d)
    BY WonSound
  <2>. QED  BY <1>1, <1>2, <2>1 DEF TitleOf, Titled
<1>. QED  BY <1>2, <1>4, <1>5, <1>6

\* The programmes a search numbers from its list: those that took a number keep
\* their PIDs and names, the rest all but their marks.
LEMMA TVDBFields ==
    ASSUME NEW progs, \A p \in progs : Fresh(p), IsFiniteSet(PID(progs)),
           NEW idx, NEW eligible, NEW datable,
           NEW q \in NumberFromTVDB(progs, idx, eligible, datable)
    PROVE  /\ ProgrammeFields \subseteq DOMAIN q
           /\ TitleFields \subseteq DOMAIN q.title
           /\ q.pid \in PID(shelf) /\ q.name \in HitTitles(shelf)
           /\ q.by = NoSeries
<1>. DEFINE r == Resolve(progs, idx, eligible, datable)
<1>1. CASE \E c \in r.won : Took(q, c) /\ q.by = NoSeries
  <2>1. PICK c \in r.won : Took(q, c) /\ q.by = NoSeries
    BY <1>1
  <2>2. Fresh(c.prog)
    BY <2>1, WonSound
  <2>. QED  BY <2>1, <2>2 DEF Took, Fresh
<1>2. CASE \E p \in progs : Marked(q, p)
  BY <1>2, MarkedFresh DEF Fresh
<1>. QED  BY <1>1, <1>2, TVDBNumbering

\* No programme's name is lost when it is numbered.
LEMMA TVDBNames ==
    ASSUME NEW progs, \A p \in progs : Fresh(p), IsFiniteSet(PID(progs)),
           NEW idx, NEW eligible, NEW datable, NEW p \in progs
    PROVE  \E q \in NumberFromTVDB(progs, idx, eligible, datable) : q.name = p.name
<1>. DEFINE r == Resolve(progs, idx, eligible, datable)
            f(z) == IF \E c \in r.won : c.prog = z
                    THEN Apply(CHOOSE c \in r.won : c.prog = z)
                    ELSE [z EXCEPT !.contradicted = z \in r.contradicted]
<1>1. f(p) \in NumberFromTVDB(progs, idx, eligible, datable)
  BY DEF NumberFromTVDB
<1>2. f(p).name = p.name
  <2>. HIDE DEF r
  <2>1. CASE \E c \in r.won : c.prog = p
    <3>1. PICK c \in r.won : c.prog = p /\ f(p) = Apply(c)
      BY <2>1
    <3>. QED  BY <3>1, Applying DEF Took
  <2>2. CASE ~(\E c \in r.won : c.prog = p)
    <3>1. f(p) = [p EXCEPT !.contradicted = p \in r.contradicted]
      BY <2>2
    <3>2. Marked([p EXCEPT !.contradicted = p \in r.contradicted], p)
      BY Marking
    <3>. QED  BY <3>1, <3>2 DEF Marked
  <2>. QED  BY <2>1, <2>2
<1>. QED  BY <1>1, <1>2

LEMMA OneOffNames ==
    ASSUME NEW progs, NEW idx, NEW oneOffTitle, NEW p \in progs,
           ProgrammeFields \subseteq DOMAIN p
    PROVE  \E q \in NumberOneOffs(progs, idx, oneOffTitle) : q.name = p.name
<1>. DEFINE taken == {<<z.series, z.ep>> : z \in {y \in progs : y.numbered}}
            found(z) == {e \in idx : /\ e.key \in {oneOffTitle[z], z.name.full}
                                     /\ Within(e.day, z.day, OneOffWindow)}
            numbers(z) == {NumberOf(e) : e \in found(z)}
            numberable(z) == /\ Specific(oneOffTitle[z])
                             /\ Cardinality(numbers(z)) = 1
                             /\ numbers(z) \cap taken = {}
            with(z, n) == [z EXCEPT !.series = n[1], !.ep = n[2], !.numbered = TRUE,
                                    !.title.text = oneOffTitle[z],
                                    !.title.whole = oneOffTitle[z]]
            f(z) == IF numberable(z) THEN with(z, CHOOSE n \in numbers(z) : TRUE) ELSE z
<1>1. f(p) \in NumberOneOffs(progs, idx, oneOffTitle)
  BY DEF NumberOneOffs
<1>2. \A n : with(p, n).name = p.name
  BY DEF ProgrammeFields
<1>3. f(p).name = p.name
  <2>. HIDE DEF numberable, with, numbers
  <2>. QED  BY <1>2
<1>. QED  BY <1>1, <1>3

(***************************************************************************)
(* The programmes of a search.                                             *)
(***************************************************************************)

Eligible(x, progs, hits) == {p \in progs : InName(x, p, ExactOnly(x, progs, hits))}
FromList(x, progs, hits) ==
    NumberFromTVDB(progs, Index(TVDB[x.id]), Eligible(x, progs, hits),
                   {p \in progs : Exact(x, p)})
OneOffTitles(x, progs) == [p \in progs |-> OneOffTitle(x, p)]
HasList(x, lists) == lists[x.id] = "list" /\ TVDB[x.id] # {}

\* A search is numbered from its list, marked for want of it, or left alone.
LEMMA SearchCases ==
    ASSUME NEW x, NEW progs, NEW hits, NEW lists
    PROVE  /\ ~WantsList(x) => NumberSearch(x, progs, hits, lists) = progs
           /\ WantsList(x) /\ HasList(x, lists) =>
                NumberSearch(x, progs, hits, lists) =
                  NumberOneOffs(FromList(x, progs, hits), Index(TVDB[x.id]),
                                OneOffTitles(x, FromList(x, progs, hits)))
           /\ WantsList(x) /\ ~HasList(x, lists) =>
                NumberSearch(x, progs, hits, lists) =
                  MarkUnchecked(progs, Eligible(x, progs, hits))
BY DEF NumberSearch, HasList, FromList, Eligible, OneOffTitles

\* What every programme of a search keeps.
LEMMA SearchFields ==
    ASSUME NEW x, NEW hits, NEW lists,
           NEW progs, \A p \in progs : Fresh(p), IsFiniteSet(PID(progs)),
           NEW q \in NumberSearch(x, progs, hits, lists)
    PROVE  /\ q.pid \in PID(shelf) /\ q.name \in HitTitles(shelf)
           /\ q.by = NoSeries
           /\ ~q.numbered => \E p \in progs : Marked(q, p)
<1>. DEFINE idx == Index(TVDB[x.id])
            F == FromList(x, progs, hits)
<1>1. CASE ~WantsList(x)
  <2>1. q \in progs
    BY <1>1, SearchCases
  <2>. QED  BY <2>1, Marking DEF Fresh
<1>2. CASE WantsList(x) /\ HasList(x, lists)
  <2>1. q \in NumberOneOffs(F, idx, OneOffTitles(x, F))
    BY <1>2, SearchCases
  <2>2. \A p \in F : /\ ProgrammeFields \subseteq DOMAIN p
                     /\ TitleFields \subseteq DOMAIN p.title
                     /\ p.pid \in PID(shelf) /\ p.name \in HitTitles(shelf)
                     /\ p.by = NoSeries
    BY TVDBFields DEF FromList
  <2>3. \A p \in F : ~p.numbered => \E z \in progs : Marked(p, z)
    BY TVDBNumbering DEF FromList, Took
  <2>. HIDE DEF F, idx
  <2>4. CASE q \in F
    BY <2>2, <2>3, <2>4
  <2>5. CASE q \notin F
    <3>1. q.numbered /\ \E p \in F : q.pid = p.pid /\ q.name = p.name /\ q.by = p.by
      BY <2>1, <2>2, <2>5, OneOffs
    <3>. QED  BY <2>2, <3>1
  <2>. QED  BY <2>4, <2>5
<1>3. CASE WantsList(x) /\ ~HasList(x, lists)
  <2>1. q \in MarkUnchecked(progs, Eligible(x, progs, hits))
    BY <1>3, SearchCases
  <2>2. PICK p \in progs :
          q = [p EXCEPT !.unchecked = Guessed(p) /\ p \in Eligible(x, progs, hits)]
    BY <2>1 DEF MarkUnchecked
  <2>3. Marked(q, p)
    BY <2>2, Marking
  <2>. QED  BY <2>3 DEF Marked, Fresh
<1>. QED  BY <1>1, <1>2, <1>3

\* A search loses no programme's name.
LEMMA SearchNames ==
    ASSUME NEW x, NEW hits, NEW lists,
           NEW progs, \A p \in progs : Fresh(p), IsFiniteSet(PID(progs)),
           NEW p \in progs
    PROVE  \E q \in NumberSearch(x, progs, hits, lists) : q.name = p.name
<1>. DEFINE idx == Index(TVDB[x.id])
            F == FromList(x, progs, hits)
<1>1. CASE ~WantsList(x)
  BY <1>1, SearchCases
<1>2. CASE WantsList(x) /\ HasList(x, lists)
  <2>1. PICK z \in F : z.name = p.name
    <3>. DEFINE eligible == Eligible(x, progs, hits)
                datable == {y \in progs : Exact(x, y)}
    <3>1. F = NumberFromTVDB(progs, idx, eligible, datable)
      BY DEF FromList
    <3>. HIDE DEF F, idx, eligible, datable
    <3>2. \E z \in NumberFromTVDB(progs, idx, eligible, datable) : z.name = p.name
      BY TVDBNames
    <3>. QED  BY <3>1, <3>2
  <2>2. ProgrammeFields \subseteq DOMAIN z
    BY TVDBFields DEF FromList
  <2>. HIDE DEF F, idx
  <2>3. \E q \in NumberOneOffs(F, idx, OneOffTitles(x, F)) : q.name = z.name
    BY <2>2, OneOffNames
  <2>. QED  BY <1>2, <2>1, <2>3, SearchCases DEF F, idx
<1>3. CASE WantsList(x) /\ ~HasList(x, lists)
  <2>. DEFINE q == [p EXCEPT !.unchecked = Guessed(p) /\ p \in Eligible(x, progs, hits)]
  <2>1. q \in MarkUnchecked(progs, Eligible(x, progs, hits))
    BY DEF MarkUnchecked
  <2>2. q.name = p.name
    BY Marking DEF Marked
  <2>. HIDE DEF q
  <2>. QED  BY <1>3, <2>1, <2>2, SearchCases
<1>. QED  BY <1>1, <1>2, <1>3

\* A guess that a search lets stand was held to the show's list.
LEMMA SearchGuess ==
    ASSUME NEW x, NEW hits, NEW lists,
           NEW progs, \A p \in progs : Fresh(p), IsFiniteSet(PID(progs)),
           NEW q \in NumberSearch(x, progs, hits, lists),
           ~q.numbered, ~q.contradicted, ~q.unchecked,
           WantsList(x), Guessed(q), InName(x, q, ExactOnly(x, progs, hits))
    PROVE  /\ HasList(x, lists)
           /\ q.title.special /\ q.title.date = "none" =>
                \/ CheckGuess(PositionGuess(q), q, Index(TVDB[x.id])) # "contradicted"
                \/ q.seriesAssumed /\ q.title.label # NoKey
<1>. DEFINE idx == Index(TVDB[x.id])
            F == FromList(x, progs, hits)
            eligible == Eligible(x, progs, hits)
<1>0. \A p : Marked(q, p) /\ p \in progs => p \in eligible /\ Guessed(p)
  <2>1. \A p : Marked(q, p) => q.name = p.name /\ (Guessed(q) <=> Guessed(p))
    BY MarkedGuess DEF Marked
  <2>. QED  BY <2>1 DEF Eligible, InName, Exact
<1>1. HasList(x, lists)
  <2>. SUFFICES ASSUME ~HasList(x, lists) PROVE FALSE
    OBVIOUS
  <2>1. PICK p \in progs : q = [p EXCEPT !.unchecked = Guessed(p) /\ p \in eligible]
    BY SearchCases DEF MarkUnchecked
  <2>2. Marked(q, p) /\ q.unchecked = (Guessed(p) /\ p \in eligible)
    BY <2>1, Marking
  <2>3. p \in eligible /\ Guessed(p)
    BY <1>0, <2>2
  <2>. QED  BY <2>2, <2>3
<1>2. ASSUME q.title.special, q.title.date = "none"
      PROVE  \/ CheckGuess(PositionGuess(q), q, idx) # "contradicted"
             \/ q.seriesAssumed /\ q.title.label # NoKey
  <2>. DEFINE datable == {p \in progs : Exact(x, p)}
              r == Resolve(progs, idx, eligible, datable)
  <2>1. q \in F
    <3>1. q \in NumberOneOffs(F, idx, OneOffTitles(x, F))
      BY <1>1, SearchCases
    <3>2. \A p \in F : /\ ProgrammeFields \subseteq DOMAIN p
                       /\ TitleFields \subseteq DOMAIN p.title
      BY TVDBFields DEF FromList
    <3>. HIDE DEF F, idx
    <3>. QED  BY <3>1, <3>2, OneOffs
  <2>2. q \in NumberFromTVDB(progs, idx, eligible, datable)
    BY <2>1 DEF FromList
  <2>. HIDE DEF idx, eligible, datable
  <2>3. \A c : Took(q, c) => q.numbered
    BY DEF Took
  <2>4. PICK p \in progs : /\ Marked(q, p)
                           /\ \A c \in r.won : c.prog # p
                           /\ p \notin r.contradicted
    <3>1. \/ (\E c \in r.won : Took(q, c) /\ q.by = NoSeries)
          \/ (\E p \in progs : /\ Marked(q, p)
                               /\ \A c \in r.won : c.prog # p
                               /\ ~q.contradicted => p \notin r.contradicted)
      BY <2>2, TVDBNumbering
    <3>. QED  BY <2>3, <3>1
  <2>5. p \in eligible /\ Guessed(p)
    BY <1>0, <2>4
  <2>6. q.title = p.title /\ q.seriesAssumed = p.seriesAssumed
    BY <2>4 DEF Marked
  <2>7. \/ CheckGuess(PositionGuess(p), p, idx) # "contradicted"
        \/ p.seriesAssumed /\ p.title.label # NoKey
    BY <1>2, <2>4, <2>5, <2>6, GuessStands
  <2>8. PositionGuess(q) = PositionGuess(p)
    BY <2>4, MarkedGuess
  <2>9. CheckGuess(PositionGuess(p), q, idx) = CheckGuess(PositionGuess(p), p, idx)
    BY <2>4, MarkedGuess
  <2>. QED  BY <2>6, <2>7, <2>8, <2>9
<1>. QED  BY <1>1, <1>2

\* Two programmes of a search go out under one number when they say the same
\* title, or both carry that of an episode of that number.
LEMMA SearchPair ==
    ASSUME NEW x, NEW hits, NEW lists,
           NEW progs, \A p \in progs : Fresh(p), IsFiniteSet(PID(progs)),
           NEW q \in NumberSearch(x, progs, hits, lists), q.numbered,
           NEW z \in NumberSearch(x, progs, hits, lists), z.numbered,
           q.pid # z.pid, <<q.series, q.ep>> = <<z.series, z.ep>>
    PROVE  /\ WantsList(x)
           /\ \/ q.title.text = z.title.text
              \/ Titled(q, Index(TVDB[x.id])) /\ Titled(z, Index(TVDB[x.id]))
<1>. DEFINE idx == Index(TVDB[x.id])
            F == FromList(x, progs, hits)
            titles == OneOffTitles(x, F)
            eligible == Eligible(x, progs, hits)
            datable == {p \in progs : Exact(x, p)}
            won == Resolve(progs, idx, eligible, datable).won
<1>1. WantsList(x) /\ HasList(x, lists)
  <2>1. CASE ~WantsList(x)
    BY <2>1, SearchCases DEF Fresh
  <2>2. CASE WantsList(x) /\ ~HasList(x, lists)
    <3>1. PICK p \in progs : q = [p EXCEPT !.unchecked = Guessed(p) /\ p \in eligible]
      BY <2>2, SearchCases DEF MarkUnchecked
    <3>2. Marked(q, p)
      BY <3>1, Marking
    <3>. QED  BY <3>2 DEF Marked, Fresh
  <2>. QED  BY <2>1, <2>2
<1>2. q \in NumberOneOffs(F, idx, titles) /\ z \in NumberOneOffs(F, idx, titles)
  BY <1>1, SearchCases
<1>3. \A p \in F : /\ ProgrammeFields \subseteq DOMAIN p
                   /\ TitleFields \subseteq DOMAIN p.title
  BY TVDBFields DEF FromList
<1>4. \A p \in F : p.numbered => \E c \in won : Took(p, c)
  <2>. SUFFICES ASSUME NEW p \in F, p.numbered PROVE \E c \in won : Took(p, c)
    OBVIOUS
  <2>1. p \in NumberFromTVDB(progs, idx, eligible, datable)
    BY DEF FromList
  <2>. HIDE DEF idx, eligible, datable, F
  <2>2. (\E c \in won : Took(p, c)) \/ \E y \in progs : Marked(p, y)
    BY <2>1, TVDBNumbering
  <2>3. \A y \in progs : Marked(p, y) => ~p.numbered
    BY DEF Marked, Fresh
  <2>. QED  BY <2>2, <2>3
<1>. HIDE DEF F, idx, titles, eligible, datable
<1>. DEFINE oneOff(y) == /\ Titled(y, idx)
                         /\ \A p \in F : p.numbered => <<p.series, p.ep>> # <<y.series, y.ep>>
<1>5. ASSUME NEW y \in NumberOneOffs(F, idx, titles)
      PROVE  y \in F \/ oneOff(y)
  <2>. SUFFICES ASSUME y \notin F PROVE oneOff(y)
    OBVIOUS
  <2>1. PICK p \in F : y.pid = p.pid /\ y.brand = p.brand /\ titles[p] # NoKey
    BY <1>3, OneOffs
  <2>2. y.brand = y.pid
    BY <2>1 DEF titles, OneOffTitles, OneOffTitle
  <2>. QED  BY <1>3, <2>2, OneOffs DEF Titled
<1>6. (q \in F \/ oneOff(q)) /\ (z \in F \/ oneOff(z))
  BY <1>2, <1>5
<1>7. CASE q \in F /\ z \in F
  <2>1. PICK c \in won : Took(q, c)
    BY <1>4, <1>7
  <2>2. PICK d \in won : Took(z, d)
    BY <1>4, <1>7
  <2>3. q.title.text = z.title.text \/ (Titled(q, idx) /\ Titled(z, idx))
    BY <2>1, <2>2, ClaimedPair
  <2>. QED  BY <1>1, <2>3 DEF idx
<1>8. CASE q \notin F \/ z \notin F
  <2>1. Titled(q, idx) /\ Titled(z, idx)
    BY <1>6, <1>8
  <2>. QED  BY <1>1, <2>1 DEF idx
<1>. QED  BY <1>7, <1>8

(***************************************************************************)
(* The programmes of the feed.                                             *)
(***************************************************************************)

\* The programmes the list of id may number.
FeedEligible(id, progs, known, lists) ==
    {p \in progs : id \in CandidatesFor(p, known) /\ AllAtHand(p, known, lists)}
FeedResolve(id, progs, known, lists) ==
    Resolve(progs, Index(TVDB[id]), FeedEligible(id, progs, known, lists),
            FeedEligible(id, progs, known, lists))

LEMMA FeedWonOne ==
    ASSUME NEW id \in Series, NEW progs, NEW known, NEW lists,
           NEW c \in FeedResolve(id, progs, known, lists).won,
           NEW d \in FeedResolve(id, progs, known, lists).won,
           c.prog = d.prog
    PROVE  c = d /\ c.prog \in FeedEligible(id, progs, known, lists) /\ c.strength \in 0 .. 3
<1>. DEFINE idx == Index(TVDB[id])
            eligible == FeedEligible(id, progs, known, lists)
<1>1. IsFiniteSet(idx)
  BY SeriesAssumption, FS_Subset DEF Index
<1>2. /\ c \in Resolve(progs, idx, eligible, eligible).won
      /\ d \in Resolve(progs, idx, eligible, eligible).won
  BY DEF FeedResolve
<1>. HIDE DEF idx, eligible
<1>. DEFINE won == Resolve(progs, idx, eligible, eligible).won
<1>3. \A k, m \in won : k.prog = m.prog =>
         k = m /\ k.prog \in progs \cap eligible /\ k.strength \in 0 .. 3
  BY <1>1, WonOne
<1>4. c \in won /\ d \in won
  BY <1>2
<1>. HIDE DEF won
<1>5. c = d /\ c.prog \in progs \cap eligible /\ c.strength \in 0 .. 3
  BY <1>3, <1>4
<1>. QED  BY <1>5 DEF eligible

\* A list neither numbers p nor contradicts it.
Silent(p, r) == (\A c \in r.won : c.prog # p) /\ p \notin r.contradicted

\* The name a programme TheTVDB does not number goes out under in the feed.
GoesOutAs(p) == IF override[p.name].name # NoKey THEN override[p.name].name ELSE p.name

\* A programme of the feed took a claim of one series' list, or is marked
\* unchecked when it goes out guessed with a list of its candidates' missing, and
\* contradicted when the list of the one series it can be of contradicts it.
LEMMA FeedNumbering ==
    ASSUME NEW progs, \A p \in progs : Fresh(p), NEW known, known \subseteq Series,
           NEW lists,
           NEW q \in NumberBrowse(progs, known, lists)
    PROVE  \/ \E id \in known : \E c \in FeedResolve(id, progs, known, lists).won :
                 c.prog \in progs /\ Took(q, c) /\ q.by = id
           \/ \E p \in progs : /\ Marked(q, p)
                               /\ ~q.unchecked => AllAtHand(p, known, lists) \/ ~Guessed(p)
                               /\ ~q.contradicted /\ AllAtHand(p, known, lists) =>
                                    \A id : /\ CandidatesFor(p, known) = {id}
                                            /\ GoesOutAs(p) = ShowOf[id].name
                                            => Silent(p, FeedResolve(id, progs, known, lists))
<1>. DEFINE resolved == ResolveBrowse(progs, known, lists)
            rivals(p) == CandidatesFor(p, known)
            goesOutAs(p) == GoesOutAs(p)
            picks(p) == {k \in UNION {{id} \X resolved[id].won : id \in DOMAIN resolved} :
                            k[2].prog = p}
            best(p) == Max({k[2].strength : k \in picks(p)})
            chosen(p) == {k \in picks(p) : k[2].strength = best(p)}
            borneOut(p, id) ==
                /\ GivenNumber(p) # NoNumber
                /\ \E d \in rivals(p) \ {id} :
                      BearsOut(GivenNumber(p), p, Index(TVDB[d]))
            taken(p) ==
                IF picks(p) = {} \/ Cardinality(chosen(p)) # 1 THEN {}
                ELSE {k \in chosen(p) : best(p) > OnAirDate \/ ~borneOut(p, k[1])}
            contradicted(p) ==
                \E id \in DOMAIN resolved : /\ p \in resolved[id].contradicted
                                            /\ goesOutAs(p) = ShowOf[id].name
            unchecked(p) == ~AllAtHand(p, known, lists) /\ Guessed(p)
<1>1. PICK p \in progs :
        q = IF taken(p) # {}
            THEN LET k == CHOOSE k \in taken(p) : TRUE
                 IN  [Apply(k[2]) EXCEPT !.by = k[1]]
            ELSE [p EXCEPT !.contradicted = contradicted(p), !.unchecked = unchecked(p)]
  BY DEF NumberBrowse, Strongest, GoesOutAs
<1>2. taken(p) \subseteq picks(p)
  OBVIOUS
<1>3. \A k \in picks(p) : /\ k[2].prog = p /\ k[1] \in DOMAIN resolved
                          /\ k[2] \in resolved[k[1]].won
  OBVIOUS
<1>4. \A id \in DOMAIN resolved :
         id \in known /\ resolved[id] = FeedResolve(id, progs, known, lists)
  BY DEF ResolveBrowse, FeedResolve, FeedEligible
\* A programme of one series takes whatever claim on its list it keeps.
<1>7. ASSUME NEW id, CandidatesFor(p, known) = {id}, picks(p) # {}
      PROVE  taken(p) # {}
  <2>2. \A i \in known : \A c, d \in FeedResolve(i, progs, known, lists).won :
           c.prog = p /\ d.prog = p =>
             c = d /\ p \in FeedEligible(i, progs, known, lists) /\ c.strength \in 0 .. 3
    BY FeedWonOne
  <2>3. \A k \in picks(p) : k[1] = id
    BY <1>3, <1>4, <1>7, <2>2 DEF FeedEligible
  <2>4. PICK k \in picks(p) : TRUE
    BY <1>7
  <2>5. \A m \in picks(p) : m = <<m[1], m[2]>>
    OBVIOUS
  <2>6. picks(p) = {k}
    BY <1>3, <1>4, <2>2, <2>3, <2>4, <2>5
  <2>7. k[2].strength \in 0 .. 3
    BY <1>3, <1>4, <2>2, <2>4
  <2>8. best(p) = k[2].strength
    <3>1. {m[2].strength : m \in picks(p)} = {k[2].strength}
      BY <2>6
    <3>. HIDE DEF picks
    <3>. QED  BY <2>7, <3>1, MaxStrength
  <2>9. chosen(p) = {k}
    BY <2>6, <2>8
  <2>10. Cardinality(chosen(p)) = 1
    BY <2>9, FS_Singleton
  <2>11. ~borneOut(p, k[1])
    BY <1>7, <2>3, <2>4
  <2>. QED  BY <2>4, <2>9, <2>10, <2>11
<1>8. ASSUME NEW id, CandidatesFor(p, known) = {id}, GoesOutAs(p) = ShowOf[id].name,
             AllAtHand(p, known, lists), taken(p) = {}, ~contradicted(p)
      PROVE  Silent(p, FeedResolve(id, progs, known, lists))
  <2>1. id \in known /\ ListAtHand(id, lists)
    BY <1>8 DEF CandidatesFor, AllAtHand
  <2>2. id \in DOMAIN resolved
    BY <2>1 DEF ResolveBrowse
  <2>3. p \notin resolved[id].contradicted
    BY <1>8, <2>2
  <2>4. ASSUME NEW c \in resolved[id].won, c.prog = p PROVE FALSE
    <3>1. <<id, c>> \in picks(p)
      BY <2>2, <2>4
    <3>. QED  BY <1>7, <1>8, <3>1
  <2>. QED  BY <1>4, <2>2, <2>3, <2>4 DEF Silent
<1>. HIDE DEF resolved, taken, picks, contradicted, unchecked
<1>5. CASE taken(p) # {}
  <2>1. PICK k \in taken(p) : q = [Apply(k[2]) EXCEPT !.by = k[1]]
    BY <1>1, <1>5
  <2>2. k[2].prog = p /\ k[1] \in known /\ k[2] \in FeedResolve(k[1], progs, known, lists).won
    BY <1>2, <1>3, <1>4
  <2>3. Took(q, k[2]) /\ q.by = k[1]
    BY <2>1, <2>2, Applying
  <2>. QED  BY <2>2, <2>3
<1>6. CASE taken(p) = {}
  <2>. DEFINE a == contradicted(p)
              b == unchecked(p)
  <2>1. q = [p EXCEPT !.contradicted = a, !.unchecked = b]
    BY <1>1, <1>6
  <2>. HIDE DEF a, b
  <2>2. Marked(q, p) /\ q.unchecked = b /\ q.contradicted = a
    <3>1. Fresh(p)
      OBVIOUS
    <3>2. q = [p EXCEPT !.contradicted = a, !.unchecked = b] /\ Fresh(p)
      BY <2>1, <3>1
    <3>. QED  BY <3>2 DEF Fresh, Marked, ProgrammeFields
  <2>3. ~q.unchecked => AllAtHand(p, known, lists) \/ ~Guessed(p)
    BY <2>2 DEF b, unchecked
  <2>4. ~q.contradicted => ~contradicted(p)
    BY <2>2 DEF a
  <2>. QED  BY <1>6, <1>8, <2>2, <2>3, <2>4
<1>. QED  BY <1>5, <1>6

(***************************************************************************)
(* A request whose answer is being written.                                *)
(***************************************************************************)

\* A request for a series TheTVDB names, or for a name or the feed.
Request(x) ==
    \/ /\ x.id \in Series /\ x.want = ShowOf[x.id].name
       /\ x.theTVDB = TRUE /\ x.browse = FALSE
    \/ /\ x.id = NoSeries /\ x.series = NoName
       /\ x.browse <=> x.want = NoName
       /\ x.want = NoName \/ \E r \in Requests : x.want = r.q

Job(j) == /\ Request(j.x)
          /\ j.known \subseteq Series
          /\ \A p \in j.progs : Fresh(p)

LEMMA JobPIDs ==
    ASSUME OfAWorld, NEW j, Job(j)
    PROVE  IsFiniteSet(PID(j.progs))
<1>1. PID(j.progs) \subseteq PID(shelf)
  BY DEF Job, Fresh, PID
<1>2. IsFiniteSet(PID(shelf))
  <2>. DEFINE f == [r \in shelf |-> r.pid]
  <2>1. f \in Surjection(shelf, PID(shelf))
    BY DEF Surjection, PID
  <2>. HIDE DEF f
  <2>. QED  BY <2>1, Shelf, FS_Surjection
<1>. QED  BY <1>1, <1>2, FS_Subset

\* Every programme that may go out is one that iPlayer lists.
LEMMA NumberedFields ==
    ASSUME OfAWorld, NEW j, Job(j), NEW q \in Numbered(j)
    PROVE  /\ q.pid \in PID(shelf) /\ q.name \in HitTitles(shelf)
           /\ ~q.numbered => Fresh(q) /\ q.by = NoSeries
           /\ ~j.x.browse => q.by = NoSeries
<1>1. \A p \in j.progs : Fresh(p) /\ p.pid \in PID(shelf) /\ p.name \in HitTitles(shelf)
  BY DEF Job, Fresh
<1>2. CASE j.x.browse
  <2>1. q \in NumberBrowse(j.progs, j.known, j.lists)
    BY <1>2 DEF Numbered
  <2>2. \/ \E c : c.prog \in j.progs /\ Took(q, c)
        \/ \E p \in j.progs : Marked(q, p)
    BY <1>1, <2>1, FeedNumbering DEF Job
  <2>3. CASE \E c : c.prog \in j.progs /\ Took(q, c)
    BY <1>1, <1>2, <2>3 DEF Took
  <2>4. CASE \E p \in j.progs : Marked(q, p)
    <3>1. PICK p \in j.progs : Marked(q, p)
      BY <2>4
    <3>2. Fresh(q)
      BY <1>1, <3>1, MarkedFresh
    <3>. QED  BY <1>2, <3>2 DEF Fresh
  <2>. QED  BY <2>2, <2>3, <2>4
<1>3. CASE ~j.x.browse
  <2>1. q \in NumberSearch(j.x, j.progs, HitTitles(shelf), j.lists)
    BY <1>3 DEF Numbered
  <2>2. /\ q.pid \in PID(shelf) /\ q.name \in HitTitles(shelf)
        /\ q.by = NoSeries
        /\ ~q.numbered => \E p \in j.progs : Marked(q, p)
    <3>. DEFINE x == j.x progs == j.progs lists == j.lists hits == HitTitles(shelf)
    <3>1. \A p \in progs : Fresh(p)
      BY <1>1
    <3>2. IsFiniteSet(PID(progs))
      BY JobPIDs
    <3>3. q \in NumberSearch(x, progs, hits, lists)
      BY <2>1
    <3>. HIDE DEF x, progs, lists, hits
    <3>4. /\ q.pid \in PID(shelf) /\ q.name \in HitTitles(shelf)
          /\ q.by = NoSeries
          /\ ~q.numbered => \E p \in progs : Marked(q, p)
      BY <3>1, <3>2, <3>3, SearchFields
    <3>. QED  BY <3>4 DEF progs
  <2>3. ~q.numbered => Fresh(q)
    BY <1>1, <2>2, MarkedFresh
  <2>. QED  BY <2>2, <2>3
<1>. QED  BY <1>2, <1>3

\* The override of any programme that may go out has an override's fields.
LEMMA OverrideFields ==
    ASSUME OfAWorld, NEW x, Request(x), NEW q, q.name \in HitTitles(shelf)
    PROVE  IsOverride(Override(x, q))
<1>1. IsOverride(override[q.name])
  BY Shelf DEF HitTitles
<1>2. CASE ~Asked(x)
  BY <1>1, <1>2 DEF Override
<1>3. CASE Asked(x)
  <2>1. IsOverride(override[x.want])
    <3>1. CASE x.id \in Series /\ x.want = ShowOf[x.id].name
      BY <3>1, Shelf
    <3>2. CASE \E r \in Requests : x.want = r.q
      BY <1>3, <3>2, Shelf DEF Asked
    <3>. QED  BY <1>3, <3>1, <3>2 DEF Request, Asked
  <2>. QED  BY <1>1, <1>3, <2>1 DEF Override, EmitName
<1>. QED  BY <1>2, <1>3

\* An item carries the number its programme's title has under its override, and
\* in the feed the programme's own name or the override's.
LEMMA ItemFields ==
    ASSUME OfAWorld, NEW x, Request(x), NEW q, q.name \in HitTitles(shelf), NEW s
    PROVE  LET it == Item(x, q, s)
           IN  /\ it.prog = q
               /\ x.browse /\ q.by = NoSeries => it.name = GoesOutAs(q)
               /\ it.id = IF q.by # NoSeries THEN q.by ELSE x.id
               /\ it.number = EmittedNumber(q, Override(x, q))
               /\ it.overridden = OverridesNumbering(q, Override(x, q))
               /\ it.pub = s
<1>. DEFINE o == Override(x, q)
            byName == IF AsSeries(x, q) \/ q.by # NoSeries
                      THEN [o EXCEPT !.name = NoKey] ELSE o
<1>1. IsOverride(o)
  BY OverrideFields
<1>. HIDE DEF o
<1>2. /\ EmittedNumber(q, byName) = EmittedNumber(q, o)
      /\ OverridesNumbering(q, byName) = OverridesNumbering(q, o)
  <2>1. /\ EmittedNumber(q, [o EXCEPT !.name = NoKey]) = EmittedNumber(q, o)
        /\ OverridesNumbering(q, [o EXCEPT !.name = NoKey]) = OverridesNumbering(q, o)
    BY <1>1, NameNotNumber
  <2>. QED  BY <2>1
<1>3. /\ Item(x, q, s).prog = q
      /\ Item(x, q, s).id = IF q.by # NoSeries THEN q.by ELSE x.id
      /\ Item(x, q, s).number = EmittedNumber(q, byName)
      /\ Item(x, q, s).overridden = OverridesNumbering(q, byName)
      /\ Item(x, q, s).pub = s
  BY DEF Item, o
<1>4. ASSUME x.browse, q.by = NoSeries
      PROVE  Item(x, q, s).name = GoesOutAs(q)
  <2>1. ~Asked(x) /\ ~AsSeries(x, q)
    BY <1>4 DEF Request, Asked, AsSeries
  <2>2. Override(x, q) = override[q.name]
    BY <2>1 DEF Override
  <2>. QED  BY <1>4, <2>1, <2>2 DEF Item, GoesOutAs
<1>. QED  BY <1>2, <1>3, <1>4 DEF o

(***************************************************************************)
(* What the filter lets out.                                               *)
(***************************************************************************)

Answering(j) == Filtered(j.x, Numbered(j), HitTitles(shelf))

LEMMA Letting ==
    ASSUME NEW j, NEW p \in Answering(j)
    PROVE  LET exactOnly == ExactOnly(j.x, Numbered(j), HitTitles(shelf))
               out == OutOfEra(j.x, Numbered(j), HitTitles(shelf), exactOnly)
               o == Override(j.x, p)
           IN  /\ p \in Numbered(j)
               /\ Admitted(j.x, p, exactOnly, out)
               /\ MatchesSearchFilter(j.x, p, o)
               /\ p.contradicted \/ p.unchecked => OverridesNumbering(p, o)
BY DEF Answering, Filtered

\* A search for an episode by its number.
AsksNumber(x) == x.ep > 0 /\ x.season \in 0 .. 1899 /\ x.day = NoDay

\* An episode asked for by number is answered with that number or none.
LEMMA AskedNumber ==
    ASSUME OfAWorld, NEW j, Job(j), NEW p \in Answering(j), AsksNumber(j.x)
    PROVE  EmittedNumber(p, Override(j.x, p))
              \in {<<j.x.season, j.x.ep>>, NoNumber, <<0, 0>>}
<1>. DEFINE x == j.x
            season == j.x.season
            ep == j.x.ep
            o == Override(x, p)
            n == EmittedNumber(p, o)
<1>1. p \in Numbered(j) /\ MatchesSearchFilter(x, p, o)
  BY Letting
<1>2. IsOverride(o) /\ (~p.numbered => Fresh(p))
  BY <1>1, NumberedFields, OverrideFields DEF Job
<1>0. x.season = season /\ x.ep = ep /\ x.day = NoDay /\ ep > 0 /\ season \in 0 .. 1899
  BY DEF AsksNumber
<1>. SUFFICES n \in {<<season, ep>>, NoNumber, <<0, 0>>}
  OBVIOUS
<1>. HIDE DEF x, o, n, season, ep
<1>3. x.season = season /\ season # NoSeason /\ x.ep = ep /\ x.day = NoDay /\ ep > 0
  BY <1>0 DEF NoSeason
<1>4. \A s, e : Answers(x, <<s, e>>) => s = season /\ e = ep
  BY <1>3 DEF Answers
<1>5. CASE p.numbered
  <2>1. n \in {<<p.series, p.ep>>, NoNumber, <<0, 0>>}
    BY <1>5, NumberedNumber DEF n
  <2>2. CASE n = <<p.series, p.ep>>
    <3>1. \/ Answers(x, n)
          \/ Answers(x, <<p.series, p.ep>>)
          \/ Hatch(p) /\ ~(n[2] > 0) /\ n # NoNumber /\ x.season = NoSeason
          \/ Hatch(p) /\ n = NoNumber
      BY <1>1, <1>3 DEF MatchesSearchFilter, n
    <3>. QED  BY <1>3, <1>4, <2>2, <3>1
  <2>. QED  BY <2>1, <2>2
<1>6. CASE ~p.numbered
  <2>1. n \in {NoNumber, <<0, 0>>} \/ (n[2] \in Int /\ n[2] > 0)
    BY <1>2, <1>6, NumberShape DEF Fresh, n
  <2>2. CASE n[2] \in Int /\ n[2] > 0 /\ n \notin {NoNumber, <<0, 0>>}
    <3>1. CASE Hatch(p) \/ OverridesNumbering(p, o)
      <4>1. Answers(x, n)
        BY <1>1, <1>3, <2>2, <3>1 DEF MatchesSearchFilter, n
      <4>2. n = <<n[1], n[2]>>
        <5>1. Renumbered(p, o) = <<Renumbered(p, o)[1], Renumbered(p, o)[2]>>
          BY DEF Renumbered
        <5>. QED  BY <5>1 DEF EmittedNumber, GenerateTitle, NoNumber, n
      <4>. QED  BY <1>4, <4>1, <4>2
    <3>2. CASE ~Hatch(p) /\ ~OverridesNumbering(p, o)
      <4>1. Answers(x, <<p.series, p.ep>>)
        BY <1>1, <1>3, <3>2 DEF MatchesSearchFilter
      <4>2. p.series = season /\ p.ep = ep /\ p.ep \in Nat \ {0} /\ p.series \in Nat
        BY <1>2, <1>3, <1>4, <1>6, <4>1 DEF Fresh
      <4>3. p.series \in Nat \ {0}
        BY <1>2, <1>6, <4>2 DEF Fresh
      <4>4. n \in {<<p.series, p.ep>>, <<0, 0>>}
        BY <3>2, <4>2, <4>3, OwnNumber DEF n
      <4>. QED  BY <4>2, <4>4
    <3>. QED  BY <3>1, <3>2
  <2>. QED  BY <2>1, <2>2
<1>. QED  BY <1>5, <1>6

\* When the show asked for goes out numbered, no date title does.
LEMMA DatesHeldBack ==
    ASSUME NEW j, Asked(j.x), AsksNumber(j.x),
           NEW y \in Answering(j), NumberedEpisode(y, Override(j.x, y)),
           NEW p \in Answering(j)
    PROVE  ~UnnumberedHatch(p, Override(j.x, p))
<1>. DEFINE x == j.x
            progs == Numbered(j)
            hits == HitTitles(shelf)
            exactOnly == ExactOnly(x, progs, hits)
            out == OutOfEra(x, progs, hits, exactOnly)
            admitted == {z \in progs : Admitted(x, z, exactOnly, out)}
<1>1. y \in admitted
  BY DEF Answering, Filtered
<1>2. ShowNumbered(x, admitted) => ~UnnumberedHatch(p, Override(x, p))
  BY DEF Answering, Filtered
<1>. DEFINE season == x.season
            ep == x.ep
<1>3. season \in 0 .. 1899 /\ ep > 0 /\ x.day = NoDay /\ Asked(x)
  BY DEF AsksNumber
<1>4. NumberedEpisode(y, Override(x, y))
  OBVIOUS
<1>. HIDE DEF admitted, x, season
<1>5. season < 1900
  BY <1>3
<1>6. ShowNumbered(x, admitted)
  BY <1>1, <1>3, <1>4, <1>5 DEF ShowNumbered, season
<1>. QED  BY <1>2, <1>6 DEF x

\* A programme TheTVDB does not number is let out by its name alone.
LEMMA LetByName ==
    ASSUME NEW j, NEW p \in Answering(j), ~p.numbered, Asked(j.x)
    PROVE  LET exactOnly == ExactOnly(j.x, Numbered(j), HitTitles(shelf))
           IN  /\ InName(j.x, p, exactOnly)
               /\ p.name \notin OutOfEra(j.x, Numbered(j), HitTitles(shelf), exactOnly)
BY Letting DEF Admitted, InName

\* What a dated series' search lets out unnumbered is of its era.
LEMMA OfItsEra ==
    ASSUME NEW j, Job(j), j.x.id # NoSeries, j.x.year # 0,
           NEW p \in Answering(j), ~p.numbered
    PROVE  /\ p.name.from # 0 => Covers(p.name, j.x.year)
           /\ p.name.from = 0 =>
                ~\E n \in HitTitles(shelf) : /\ Covers(n, j.x.year)
                                             /\ ExactName(n, j.x.want, TRUE)
<1>. DEFINE x == j.x
            progs == Numbered(j)
            hits == HitTitles(shelf)
            exactOnly == ExactOnly(x, progs, hits)
            names == {q.name : q \in {z \in progs : InName(x, z, exactOnly)}}
            foreign == IF Asked(x) THEN Foreign(x.want) ELSE NoKey
            kept == DisambiguateByYear(names, x.year)
            inEraHit == \E n \in hits : /\ Covers(n, x.year)
                                        /\ ExactName(n, x.want, x.theTVDB)
<1>1. Asked(x) /\ x.theTVDB = TRUE
  BY SeriesAssumption DEF Job, Request, Asked
<1>2. InName(x, p, exactOnly) /\ p.name \notin OutOfEra(x, progs, hits, exactOnly)
  BY <1>1, LetByName
<1>3. p \in progs
  BY Letting
<1>4. OutOfEra(x, progs, hits, exactOnly) =
        {n \in names : \/ n \notin kept
                       \/ inEraHit /\ n.from = 0
                       \/ foreign # NoKey /\ n.tag # foreign}
  BY <1>1 DEF OutOfEra
<1>5. p.name \in names
  BY <1>2, <1>3
<1>. HIDE DEF names, exactOnly
<1>6. p.name \in kept /\ ~(inEraHit /\ p.name.from = 0)
  BY <1>2, <1>4, <1>5
<1>7. p.name.from # 0 => Covers(p.name, x.year)
  BY <1>6 DEF DisambiguateByYear
<1>. QED  BY <1>1, <1>6, <1>7

\* A search lets out no guess that its list was not there to check.
LEMMA SearchChecked ==
    ASSUME OfAWorld, NEW j, Job(j), ~j.x.browse, WantsList(j.x),
           NEW p \in Answering(j), ~p.numbered, Guessed(p),
           ~OverridesNumbering(p, Override(j.x, p))
    PROVE  /\ HasList(j.x, j.lists)
           /\ p.title.special /\ p.title.date = "none" =>
                \/ CheckGuess(PositionGuess(p), p, Index(TVDB[j.x.id])) # "contradicted"
                \/ p.seriesAssumed /\ p.title.label # NoKey
<1>. DEFINE x == j.x
            progs == j.progs
            lists == j.lists
            hits == HitTitles(shelf)
            numbered == NumberSearch(x, progs, hits, lists)
<1>1. Numbered(j) = numbered
  BY DEF Numbered
<1>2. p \in numbered /\ ~p.contradicted /\ ~p.unchecked
  BY <1>1, Letting
<1>3. InName(x, p, ExactOnly(x, numbered, hits))
  BY <1>1, LetByName DEF WantsList
<1>4. (\A q \in progs : Fresh(q)) /\ IsFiniteSet(PID(progs))
  BY JobPIDs DEF Job
<1>5. WantsList(x)
  OBVIOUS
<1>. HIDE DEF x, progs, lists, hits
<1>6. ExactOnly(x, progs, hits) => ExactOnly(x, numbered, hits)
  <2>1. \A q \in progs : \E z \in numbered : z.name = q.name
    BY <1>4, SearchNames
  <2>2. {q.name : q \in progs} \subseteq {z.name : z \in numbered}
    BY <2>1
  <2>. HIDE DEF numbered
  <2>. QED  BY <2>2 DEF ExactOnly
<1>7. InName(x, p, ExactOnly(x, progs, hits))
  BY <1>3, <1>6 DEF InName
<1>8. /\ HasList(x, lists)
      /\ p.title.special /\ p.title.date = "none" =>
           \/ CheckGuess(PositionGuess(p), p, Index(TVDB[x.id])) # "contradicted"
           \/ p.seriesAssumed /\ p.title.label # NoKey
  BY <1>2, <1>4, <1>5, <1>7, SearchGuess
<1>. QED  BY <1>8 DEF x, lists

\* The feed lets out no guess while a list of a series it may be of is missing, nor
\* a special's that the list of its one series, which it goes out as, contradicts.
LEMMA FeedChecked ==
    ASSUME OfAWorld, NEW j, Job(j), j.x.browse,
           NEW p \in Answering(j), ~p.numbered, Guessed(p),
           ~OverridesNumbering(p, Override(j.x, p)),
           NEW id \in CandidatesFor(p, j.known)
    PROVE  /\ j.lists[id] = "list" /\ TVDB[id] # {}
           /\ /\ p.title.special /\ p.title.date = "none"
              /\ CandidatesFor(p, j.known) = {id} /\ GoesOutAs(p) = ShowOf[id].name
              => \/ CheckGuess(PositionGuess(p), p, Index(TVDB[id])) # "contradicted"
                 \/ p.seriesAssumed /\ p.title.label # NoKey
<1>. DEFINE r(i) == FeedResolve(i, j.progs, j.known, j.lists)
<1>1. p \in NumberBrowse(j.progs, j.known, j.lists) /\ ~p.unchecked /\ ~p.contradicted
  BY Letting DEF Numbered
<1>2. PICK q \in j.progs :
        /\ Marked(p, q) /\ (AllAtHand(q, j.known, j.lists) \/ ~Guessed(q))
        /\ AllAtHand(q, j.known, j.lists) =>
             \A i : CandidatesFor(q, j.known) = {i} /\ GoesOutAs(q) = ShowOf[i].name
                      => Silent(q, r(i))
  <2>. HIDE DEF r
  <2>1. ~\E i \in j.known : \E c \in FeedResolve(i, j.progs, j.known, j.lists).won :
            c.prog \in j.progs /\ Took(p, c) /\ p.by = i
    BY DEF Took
  <2>. QED  BY <1>1, <2>1, FeedNumbering DEF Job, r
<1>3. Guessed(q) /\ q.name = p.name
  BY <1>2, MarkedGuess DEF Marked
<1>4. CandidatesFor(q, j.known) = CandidatesFor(p, j.known)
  BY <1>3 DEF CandidatesFor
<1>5. AllAtHand(q, j.known, j.lists)
  BY <1>2, <1>3
<1>6. ASSUME p.title.special, p.title.date = "none",
             CandidatesFor(p, j.known) = {id}, GoesOutAs(p) = ShowOf[id].name
      PROVE  \/ CheckGuess(PositionGuess(p), p, Index(TVDB[id])) # "contradicted"
             \/ p.seriesAssumed /\ p.title.label # NoKey
  <2>1. Silent(q, r(id))
    BY <1>2, <1>3, <1>4, <1>5, <1>6 DEF GoesOutAs
  <2>2. q \in FeedEligible(id, j.progs, j.known, j.lists)
    BY <1>4, <1>5 DEF FeedEligible
  <2>3. q.title = p.title /\ q.seriesAssumed = p.seriesAssumed
    BY <1>2 DEF Marked
  <2>4. \/ CheckGuess(PositionGuess(q), q, Index(TVDB[id])) # "contradicted"
        \/ q.seriesAssumed /\ q.title.label # NoKey
    BY <1>3, <1>6, <2>1, <2>2, <2>3, GuessStands DEF Silent, FeedResolve
  <2>5. /\ PositionGuess(p) = PositionGuess(q)
        /\ CheckGuess(PositionGuess(q), p, Index(TVDB[id]))
             = CheckGuess(PositionGuess(q), q, Index(TVDB[id]))
    BY <1>2, MarkedGuess
  <2>. QED  BY <2>3, <2>4, <2>5
<1>. QED  BY <1>4, <1>5, <1>6 DEF AllAtHand, ListAtHand

\* Two programmes numbered alike under one series say the same title, or both
\* carry that of an episode of the number.
LEMMA NumberedPair ==
    ASSUME OfAWorld, NEW j, Job(j),
           NEW q \in Numbered(j), q.numbered, NEW z \in Numbered(j), z.numbered,
           q.pid # z.pid, <<q.series, q.ep>> = <<z.series, z.ep>>,
           NEW id, id = IF q.by # NoSeries THEN q.by ELSE j.x.id,
                   id = IF z.by # NoSeries THEN z.by ELSE j.x.id
    PROVE  \/ q.title.text = z.title.text
           \/ Titled(q, Index(TVDB[id])) /\ Titled(z, Index(TVDB[id]))
<1>1. (\A p \in j.progs : Fresh(p)) /\ IsFiniteSet(PID(j.progs))
  BY JobPIDs DEF Job
<1>2. CASE ~j.x.browse
  <2>. DEFINE x == j.x
              progs == j.progs
              lists == j.lists
              hits == HitTitles(shelf)
  <2>1. q \in NumberSearch(x, progs, hits, lists) /\ z \in NumberSearch(x, progs, hits, lists)
    BY <1>2 DEF Numbered
  <2>2. id = x.id
    BY <1>2, NumberedFields
  <2>3. (\A p \in progs : Fresh(p)) /\ IsFiniteSet(PID(progs))
    BY <1>1
  <2>. HIDE DEF x, progs, lists, hits
  <2>4. \/ q.title.text = z.title.text
        \/ Titled(q, Index(TVDB[x.id])) /\ Titled(z, Index(TVDB[x.id]))
    BY <2>1, <2>3, SearchPair
  <2>. QED  BY <2>2, <2>4
<1>3. CASE j.x.browse
  <2>. DEFINE progs == j.progs
              known == j.known
              lists == j.lists
              won(i) == FeedResolve(i, progs, known, lists).won
  <2>1. q \in NumberBrowse(progs, known, lists) /\ z \in NumberBrowse(progs, known, lists)
    BY <1>3 DEF Numbered
  <2>2. \A p \in progs : Fresh(p)
    BY <1>1
  <2>3. IsFiniteSet(PID(progs))
    BY <1>1
  <2>4. known \subseteq Series
    BY DEF Job
  <2>. HIDE DEF progs, known, lists
  <2>5. \E i \in known : \E c \in won(i) : Took(q, c) /\ q.by = i
    <3>1. \A p \in progs : Marked(q, p) => ~q.numbered
      BY <2>2 DEF Marked, Fresh
    <3>. QED  BY <2>1, <2>2, <2>4, <3>1, FeedNumbering
  <2>6. \E i \in known : \E d \in won(i) : Took(z, d) /\ z.by = i
    <3>1. \A p \in progs : Marked(z, p) => ~z.numbered
      BY <2>2 DEF Marked, Fresh
    <3>. QED  BY <2>1, <2>2, <2>4, <3>1, FeedNumbering
  <2>. HIDE DEF won
  <2>7. PICK c \in won(id) : Took(q, c)
    BY <2>4, <2>5, SeriesAssumption
  <2>8. PICK d \in won(id) : Took(z, d)
    BY <2>4, <2>6, SeriesAssumption
  <2>. DEFINE idx == Index(TVDB[id])
              eligible == FeedEligible(id, progs, known, lists)
  <2>9. /\ c \in Resolve(progs, idx, eligible, eligible).won
        /\ d \in Resolve(progs, idx, eligible, eligible).won
    BY <2>7, <2>8 DEF won, FeedResolve
  <2>. HIDE DEF idx, eligible
  <2>10. q.title.text = z.title.text \/ (Titled(q, idx) /\ Titled(z, idx))
    BY <2>3, <2>7, <2>8, <2>9, ClaimedPair
  <2>. QED  BY <2>10 DEF idx
<1>. QED  BY <1>2, <1>3

(***************************************************************************)
(* The inductive invariant: every request is for what Sonarr may ask, and  *)
(* its programmes are fresh ones of the world's shelf.                     *)
(***************************************************************************)

JobFields == {"at", "x", "known", "progs", "lists"}

JobInv(c) ==
    /\ job[c].at = "lookup" => job[c].r \in Requests /\ job[c].r.id \in Series
    /\ job[c].at = "ibl" => Request(job[c].x)
    /\ job[c].at \in {"lists", "emit"} => JobFields \subseteq DOMAIN job[c] /\ Job(job[c])

IInv == /\ OfAWorld
        /\ DOMAIN job = Clients
        /\ \A c \in Clients : JobInv(c)

LEMMA RequestFor ==
    ASSUME NEW r, NEW id \in Series, NEW year
    PROVE  Request(ForSeries(r, id, year))
BY DEF Request, ForSeries

LEMMA RequestByName ==
    ASSUME NEW r \in Requests
    PROVE  Request(ForName(r))
BY DEF Request, ForName

\* Nothing changes the world.
LEMMA WorldStays ==
    ASSUME [Next]_vars
    PROVE  UNCHANGED world
<1>1. CASE UNCHANGED vars
  BY <1>1 DEF vars, world
<1>2. ASSUME NEW c \in Clients, NEW r \in Requests, Ask(c, r) PROVE UNCHANGED world
  BY <1>2 DEF Ask
<1>3. ASSUME NEW c \in Clients, LookUp(c) PROVE UNCHANGED world
  BY <1>3 DEF LookUp
<1>4. ASSUME NEW c \in Clients, SearchIBL(c) PROVE UNCHANGED world
  BY <1>4 DEF SearchIBL
<1>5. ASSUME NEW c \in Clients, Emit(c) PROVE UNCHANGED world
  BY <1>5 DEF Emit
<1>6. ASSUME NEW c \in Clients, NEW id \in Series, FetchList(c, id) PROVE UNCHANGED world
  BY <1>6 DEF FetchList
<1>7. ASSUME NEW id \in Series, Expire(id) PROVE UNCHANGED world
  BY <1>7 DEF Expire
<1>8. CASE Restart
  BY <1>8 DEF Restart
<1>. QED  BY <1>1, <1>2, <1>3, <1>4, <1>5, <1>6, <1>7, <1>8 DEF Next

\* A job that a step leaves alone stays as it should be.
LEMMA JobStays ==
    ASSUME NEW c, JobInv(c), job'[c] = job[c], UNCHANGED world
    PROVE  JobInv(c)'
BY DEF JobInv, Job, Fresh, PID, HitTitles, world

\* A job that is idle, or asks iBL for a request of Sonarr's, is as it should be.
LEMMA JobAsks ==
    ASSUME NEW c, \/ job'[c] = Idle
                  \/ \E x : Request(x) /\ job'[c] = [at |-> "ibl", x |-> x]
                  \/ \E r \in Requests : r.id \in Series /\ job'[c] = [at |-> "lookup", r |-> r]
    PROVE  JobInv(c)'
<1>1. CASE job'[c] = Idle
  BY <1>1 DEF JobInv, Idle
<1>2. CASE \E x : Request(x) /\ job'[c] = [at |-> "ibl", x |-> x]
  BY <1>2 DEF JobInv
<1>3. CASE \E r \in Requests : r.id \in Series /\ job'[c] = [at |-> "lookup", r |-> r]
  BY <1>3 DEF JobInv
<1>. QED  BY <1>1, <1>2, <1>3

LEMMA InitInv == Init => IInv
<1>. SUFFICES ASSUME Init PROVE IInv
  OBVIOUS
<1>1. OfAWorld
  BY DEF Init, OfAWorld
<1>2. DOMAIN job = Clients /\ \A c \in Clients : job[c].at = "idle"
  BY DEF Init, Idle
<1>. QED  BY <1>1, <1>2 DEF IInv, JobInv

LEMMA AskInv ==
    ASSUME IInv, NEW c \in Clients, NEW r \in Requests, Ask(c, r)
    PROVE  JobInv(c)' /\ \A d \in Clients \ {c} : job'[d] = job[d]
<1>. DEFINE asks(v) == \/ v = Idle
                       \/ \E x : Request(x) /\ v = [at |-> "ibl", x |-> x]
                       \/ \E y \in Requests : y.id \in Series /\ v = [at |-> "lookup", r |-> y]
<1>1. PICK v : job' = [job EXCEPT ![c] = v] /\ asks(v)
  <2>1. CASE Empty(c)
    BY <2>1 DEF Empty
  <2>2. \A x : Search(c, x) /\ Request(x) => \E v : job' = [job EXCEPT ![c] = v] /\ asks(v)
    BY DEF Search
  <2>3. CASE \E id \in Series : Search(c, ForSeries(r, id, KnownYear(id)))
    BY <2>2, <2>3, RequestFor
  <2>4. CASE Search(c, ForName(r))
    BY <2>2, <2>4, RequestByName
  <2>5. CASE r.id \in Series /\ \E y : Search(c, ForSeries(r, r.id, y))
    BY <2>2, <2>5, RequestFor
  <2>6. CASE r.id \in Series /\ job' = [job EXCEPT ![c] = [at |-> "lookup", r |-> r]]
    BY <2>6
  <2>. HIDE DEF asks
  <2>. QED  BY <2>1, <2>3, <2>4, <2>5, <2>6, SeriesAssumption DEF Ask
<1>2. job'[c] = v /\ \A d \in Clients \ {c} : job'[d] = job[d]
  BY <1>1 DEF IInv
<1>. QED  BY <1>1, <1>2, JobAsks

LEMMA LookUpInv ==
    ASSUME IInv, NEW c \in Clients, LookUp(c)
    PROVE  JobInv(c)' /\ \A d \in Clients \ {c} : job'[d] = job[d]
<1>1. job[c].r.id \in Series
  BY DEF IInv, JobInv, LookUp
<1>2. \/ job' = [job EXCEPT ![c] = Idle]
      \/ \E y : job' = [job EXCEPT ![c] =
                           [at |-> "ibl", x |-> ForSeries(job[c].r, job[c].r.id, y)]]
  BY DEF LookUp, Search, Empty
<1>3. \A y : Request(ForSeries(job[c].r, job[c].r.id, y))
  BY <1>1, RequestFor
<1>4. PICK v : /\ job' = [job EXCEPT ![c] = v]
               /\ v = Idle \/ \E x : Request(x) /\ v = [at |-> "ibl", x |-> x]
  BY <1>2, <1>3
<1>5. job'[c] = v /\ \A d \in Clients \ {c} : job'[d] = job[d]
  BY <1>4 DEF IInv
<1>. QED  BY <1>4, <1>5, JobAsks

LEMMA SearchIBLInv ==
    ASSUME IInv, NEW c \in Clients, SearchIBL(c)
    PROVE  JobInv(c)' /\ \A d \in Clients \ {c} : job'[d] = job[d]
<1>1. Request(job[c].x)
  BY DEF IInv, JobInv, SearchIBL
<1>2. CASE Empty(c)
  <2>1. job'[c] = Idle /\ \A d \in Clients \ {c} : job'[d] = job[d]
    BY <1>2 DEF IInv, Empty
  <2>. QED  BY <2>1, JobAsks
<1>3. CASE ~Empty(c)
  <2>1. PICK failed \in SUBSET Sources(job[c].x), order \in Orders(shelf) :
          LET x == job[c].x
              known == {id \in Series : mapping[id] # "none"}
              progs == Programmes(x, failed, order)
              lists == [id \in Needed(x, progs, known) |-> cache[id]]
          IN  job' = [job EXCEPT ![c] =
                        [at |-> AtLists(lists), x |-> x, known |-> known,
                         progs |-> progs, lists |-> lists]]
    BY <1>3 DEF SearchIBL
  <2>. DEFINE x == job[c].x
              known == {id \in Series : mapping[id] # "none"}
              progs == Programmes(x, failed, order)
              lists == [id \in Needed(x, progs, known) |-> cache[id]]
              j == [at |-> AtLists(lists), x |-> x, known |-> known,
                    progs |-> progs, lists |-> lists]
  <2>2. Request(x) /\ known \subseteq Series
    BY <1>1
  <2>3. \A p \in progs : Fresh(p)
    BY ProgrammesFresh DEF IInv
  <2>4. job' = [job EXCEPT ![c] = j]
    BY <2>1
  <2>. HIDE DEF x, known, progs
  <2>5. JobFields \subseteq DOMAIN j /\ j.at \in {"lists", "emit"} /\ Job(j)
    <3>1. j.at \in {"lists", "emit"}
      BY DEF AtLists
    <3>2. JobFields \subseteq DOMAIN j
      BY DEF JobFields
    <3>. QED  BY <2>2, <2>3, <3>1, <3>2 DEF Job
  <2>. HIDE DEF j
  <2>6. job'[c] = j /\ \A d \in Clients \ {c} : job'[d] = job[d]
    BY <2>4 DEF IInv
  <2>7. shelf' = shelf
    BY DEF SearchIBL, world
  <2>8. JobInv(c)'
    BY <2>5, <2>6, <2>7 DEF JobInv, Job, Fresh, PID, HitTitles
  <2>. QED  BY <2>6, <2>8
<1>. QED  BY <1>2, <1>3

LEMMA FetchListInv ==
    ASSUME IInv, NEW c \in Clients, NEW id \in Series, FetchList(c, id)
    PROVE  JobInv(c)' /\ \A d \in Clients \ {c} : job'[d] = job[d]
<1>. DEFINE j == job[c]
<1>1. JobFields \subseteq DOMAIN j /\ Job(j)
  BY DEF IInv, JobInv, FetchList
<1>2. PICK lists : job' = [job EXCEPT ![c].lists = lists, ![c].at = AtLists(lists)]
  BY DEF FetchList
<1>. DEFINE k == [j EXCEPT !.lists = lists, !.at = AtLists(lists)]
<1>3. job'[c] = k /\ \A d \in Clients \ {c} : job'[d] = job[d]
  BY <1>2 DEF IInv
<1>. HIDE DEF j
<1>4. /\ DOMAIN k = DOMAIN j /\ k.x = j.x /\ k.known = j.known /\ k.progs = j.progs
      /\ k.at = AtLists(lists)
  BY <1>1 DEF JobFields
<1>5. k.at \in {"lists", "emit"}
  BY <1>4 DEF AtLists
<1>. HIDE DEF k
<1>6. JobFields \subseteq DOMAIN k /\ Job(k)
  BY <1>1, <1>4 DEF Job
<1>7. shelf' = shelf
  BY DEF FetchList, world
<1>8. JobInv(c)'
  BY <1>3, <1>5, <1>6, <1>7 DEF JobInv, Job, Fresh, PID, HitTitles
<1>. QED  BY <1>3, <1>8

\* Every step keeps the invariant.
LEMMA StepInv == IInv /\ [Next]_vars => IInv'
<1>. SUFFICES ASSUME IInv, [Next]_vars PROVE IInv'
  OBVIOUS
<1>1. UNCHANGED world
  BY WorldStays
<1>2. OfAWorld'
  BY <1>1 DEF IInv, OfAWorld, world
<1>3. ASSUME NEW c \in Clients, JobInv(c)', \A d \in Clients \ {c} : job'[d] = job[d]
      PROVE  \A d \in Clients : JobInv(d)'
  BY <1>1, <1>3, JobStays DEF IInv
<1>4. ASSUME job' = job PROVE \A d \in Clients : JobInv(d)'
  BY <1>1, <1>4, JobStays DEF IInv
<1>5. CASE UNCHANGED vars
  <2>1. job' = job
    BY <1>5 DEF vars
  <2>. QED  BY <1>2, <1>4, <2>1 DEF IInv
<1>6. ASSUME NEW c \in Clients, NEW r \in Requests, Ask(c, r) PROVE IInv'
  <2>1. DOMAIN job' = Clients
    BY <1>6 DEF Ask, Search, Empty, IInv
  <2>. QED  BY <1>2, <1>3, <1>6, <2>1, AskInv DEF IInv
<1>7. ASSUME NEW c \in Clients, LookUp(c) PROVE IInv'
  <2>1. DOMAIN job' = Clients
    BY <1>7 DEF LookUp, Search, Empty, IInv
  <2>. QED  BY <1>2, <1>3, <1>7, <2>1, LookUpInv DEF IInv
<1>8. ASSUME NEW c \in Clients, SearchIBL(c) PROVE IInv'
  <2>1. DOMAIN job' = Clients
    BY <1>8 DEF SearchIBL, Empty, IInv
  <2>. QED  BY <1>2, <1>3, <1>8, <2>1, SearchIBLInv DEF IInv
<1>9. ASSUME NEW c \in Clients, Emit(c) PROVE IInv'
  <2>1. job' = [job EXCEPT ![c] = Idle]
    BY <1>9 DEF Emit, Empty
  <2>2. DOMAIN job' = Clients /\ job'[c] = Idle /\ \A d \in Clients \ {c} : job'[d] = job[d]
    BY <2>1 DEF IInv
  <2>. QED  BY <1>2, <1>3, <2>2, JobAsks DEF IInv
<1>10. ASSUME NEW c \in Clients, NEW id \in Series, FetchList(c, id) PROVE IInv'
  <2>1. DOMAIN job' = Clients
    BY <1>10 DEF FetchList, IInv
  <2>. QED  BY <1>2, <1>3, <1>10, <2>1, FetchListInv DEF IInv
<1>11. ASSUME NEW id \in Series, Expire(id) PROVE IInv'
  <2>1. job' = job
    BY <1>11 DEF Expire
  <2>. QED  BY <1>2, <1>4, <2>1 DEF IInv
<1>12. CASE Restart
  <2>1. DOMAIN job' = Clients /\ \A c \in Clients : job'[c] = Idle
    BY <1>12 DEF Restart
  <2>. QED  BY <1>2, <2>1, JobAsks DEF IInv
<1>. QED  BY <1>5, <1>6, <1>7, <1>8, <1>9, <1>10, <1>11, <1>12 DEF Next

LEMMA Inductive == Spec => []IInv
BY InitInv, StepInv, PTL DEF Spec

(***************************************************************************)
(* Answers.                                                                *)
(***************************************************************************)

\* The items of an answer are let out by the filter, and the step that writes
\* it changes no override.
LEMMA Emitted ==
    ASSUME IInv, NEW c \in Clients, Emit(c), NEW j, j = job[c]
    PROVE  /\ Job(j)
           /\ answer'.x = j.x /\ answer'.lists = j.lists /\ answer'.known = j.known
           /\ \A it \in answer'.items :
                 /\ it.prog \in Answering(j)
                 /\ it.number = EmittedNumber(it.prog, Override(j.x, it.prog))
                 /\ it.overridden = OverridesNumbering(it.prog, Override(j.x, it.prog))
                 /\ it.id = IF it.prog.by # NoSeries THEN it.prog.by ELSE j.x.id
                 /\ j.x.browse /\ it.prog.by = NoSeries => it.name = GoesOutAs(it.prog)
           /\ override' = override /\ shelf' = shelf
<1>1. Job(j) /\ OfAWorld
  BY DEF Emit, IInv, JobInv
<1>2. Reply(j, Answering(j)) /\ UNCHANGED world
  BY DEF Emit, Answering
<1>3. PICK out \in SUBSET Answering(j) :
        answer' = [x |-> j.x, lists |-> j.lists, known |-> j.known,
                   items |-> {Item(j.x, p, stamps'[p.pid]) : p \in out}]
  BY <1>2 DEF Reply
<1>4. \A p \in Answering(j) : p.name \in HitTitles(shelf)
  BY <1>1, Letting, NumberedFields
<1>5. \A p \in Answering(j) : \A s :
        LET it == Item(j.x, p, s)
        IN  /\ it.prog = p
            /\ it.number = EmittedNumber(p, Override(j.x, p))
            /\ it.overridden = OverridesNumbering(p, Override(j.x, p))
            /\ it.id = IF p.by # NoSeries THEN p.by ELSE j.x.id
            /\ j.x.browse /\ p.by = NoSeries => it.name = GoesOutAs(p)
  BY <1>1, <1>4, ItemFields DEF Job
<1>6. ASSUME NEW it \in answer'.items
      PROVE  /\ it.prog \in Answering(j)
             /\ it.number = EmittedNumber(it.prog, Override(j.x, it.prog))
             /\ it.overridden = OverridesNumbering(it.prog, Override(j.x, it.prog))
             /\ it.id = IF it.prog.by # NoSeries THEN it.prog.by ELSE j.x.id
             /\ j.x.browse /\ it.prog.by = NoSeries => it.name = GoesOutAs(it.prog)
  <2>1. PICK p \in out : it = Item(j.x, p, stamps'[p.pid])
    BY <1>3
  <2>. QED  BY <1>5, <2>1
<1>. QED  BY <1>1, <1>2, <1>3, <1>6 DEF world

\* Every other step leaves no answer.
LEMMA NoAnswer ==
    ASSUME [Next]_vars, ~UNCHANGED vars, \A c \in Clients : ~Emit(c)
    PROVE  answer' = Nothing
BY DEF Next, Ask, LookUp, SearchIBL, FetchList, Expire, Restart

LEMMA AskedStep ==
    ASSUME IInv, NEW c \in Clients, Emit(c)
    PROVE  AskedIsAnswered'
<1>. DEFINE j == job[c]
            items == answer'.items
<1>1. /\ Job(j)
      /\ answer'.x = j.x
      /\ \A it \in items :
            /\ it.prog \in Answering(j)
            /\ it.number = EmittedNumber(it.prog, Override(j.x, it.prog))
      /\ override' = override
  BY Emitted
<1>2. OfAWorld
  BY DEF IInv
<1>. HIDE DEF j, items
<1>3. \A p : Override(answer.x, p)' = Override(j.x, p)
  BY <1>1 DEF Override
<1>. SUFFICES ASSUME SearchesEpisode(answer)'
              PROVE  /\ \A it \in items : it.number \in
                           {<<j.x.season, j.x.ep>>, NoNumber, <<0, 0>>}
                     /\ Asked(j.x) /\ (\E it \in items :
                            NumberedEpisode(it.prog, Override(j.x, it.prog)))
                          => \A it \in items :
                                ~UnnumberedHatch(it.prog, Override(j.x, it.prog))
  BY <1>1, <1>3 DEF AskedIsAnswered, items
<1>4. AsksNumber(j.x)
  BY <1>1 DEF SearchesEpisode, AsksNumber
<1>5. \A it \in items : it.number \in {<<j.x.season, j.x.ep>>, NoNumber, <<0, 0>>}
  BY <1>1, <1>2, <1>4, AskedNumber
<1>6. ASSUME Asked(j.x), NEW y \in items, NEW it \in items,
             NumberedEpisode(y.prog, Override(j.x, y.prog))
      PROVE  ~UnnumberedHatch(it.prog, Override(j.x, it.prog))
  BY <1>1, <1>4, <1>6, DatesHeldBack
<1>. QED  BY <1>5, <1>6

\* An episode asked for by number is answered with that number or with no
\* number, whatever the BBC, TheTVDB and the overrides say of the programmes,
\* and date titles are held back while the show goes out numbered
\* (matchesSearchFilterFor, writeResultsRSS).
THEOREM AskedAnswered == Spec => []AskedIsAnswered
<1>1. Init => AskedIsAnswered
  BY DEF Init, Nothing, AskedIsAnswered, SearchesEpisode
<1>2. IInv /\ AskedIsAnswered /\ [Next]_vars => AskedIsAnswered'
  <2>. SUFFICES ASSUME IInv, AskedIsAnswered, [Next]_vars PROVE AskedIsAnswered'
    OBVIOUS
  <2>1. CASE UNCHANGED vars
    BY <2>1 DEF vars, world, AskedIsAnswered, SearchesEpisode, Override
  <2>2. CASE \E c \in Clients : Emit(c)
    BY <2>2, AskedStep
  <2>3. CASE ~UNCHANGED vars /\ \A c \in Clients : ~Emit(c)
    <3>1. answer' = Nothing
      BY <2>3, NoAnswer
    <3>. QED  BY <3>1 DEF AskedIsAnswered, SearchesEpisode, Nothing
  <2>. QED  BY <2>1, <2>2, <2>3
<1>. QED  BY <1>1, <1>2, Inductive, PTL DEF Spec

LEMMA EraStep ==
    ASSUME IInv, NEW c \in Clients, Emit(c)
    PROVE  RightEra'
<1>. DEFINE j == job[c]
            items == answer'.items
<1>1. /\ Job(j) /\ OfAWorld
      /\ answer'.x = j.x
      /\ \A it \in items :
            /\ it.prog \in Answering(j)
            /\ it.id = IF it.prog.by # NoSeries THEN it.prog.by ELSE j.x.id
      /\ shelf' = shelf
  BY Emitted DEF IInv
<1>2. \A p \in Answering(j) : ~p.numbered => p.by = NoSeries
  BY <1>1, Letting, NumberedFields
<1>. HIDE DEF j, items
<1>3. ASSUME NEW it \in items, it.id # NoSeries, ~it.prog.numbered, j.x.year # 0
      PROVE  /\ it.prog.name.from # 0 => Covers(it.prog.name, j.x.year)
             /\ it.prog.name.from = 0 =>
                  ~\E n \in HitTitles(shelf) : /\ Covers(n, j.x.year)
                                               /\ ExactName(n, j.x.want, TRUE)
  <2>1. it.prog \in Answering(j) /\ it.id = j.x.id
    BY <1>1, <1>2, <1>3
  <2>. QED  BY <1>1, <1>3, <2>1, OfItsEra
<1>4. HitTitles(shelf)' = HitTitles(shelf)
  BY <1>1 DEF HitTitles
<1>. QED  BY <1>1, <1>3, <1>4 DEF RightEra, items

\* What the search of a dated series returns unnumbered is of its era, and is
\* not the bare brand where a brand of that era is listed (disambiguate.go).
THEOREM EraRight == Spec => []RightEra
<1>1. Init => RightEra
  BY DEF Init, RightEra
<1>2. IInv /\ RightEra /\ [Next]_vars => RightEra'
  <2>. SUFFICES ASSUME IInv, RightEra, [Next]_vars PROVE RightEra'
    OBVIOUS
  <2>1. CASE UNCHANGED vars
    BY <2>1 DEF vars, world, RightEra, HitTitles
  <2>2. CASE \E c \in Clients : Emit(c)
    BY <2>2, EraStep
  <2>3. CASE ~UNCHANGED vars /\ \A c \in Clients : ~Emit(c)
    <3>1. answer' = Nothing
      BY <2>3, NoAnswer
    <3>. QED  BY <3>1 DEF RightEra
  <2>. QED  BY <2>1, <2>2, <2>3
<1>. QED  BY <1>1, <1>2, Inductive, PTL DEF Spec

LEMMA GuessStep ==
    ASSUME IInv, NEW c \in Clients, Emit(c)
    PROVE  GuessesAreChecked'
<1>. DEFINE j == job[c]
            items == answer'.items
<1>1. /\ Job(j) /\ OfAWorld
      /\ answer'.x = j.x /\ answer'.lists = j.lists /\ answer'.known = j.known
      /\ \A it \in items :
            /\ it.prog \in Answering(j)
            /\ it.number = EmittedNumber(it.prog, Override(j.x, it.prog))
            /\ it.overridden = OverridesNumbering(it.prog, Override(j.x, it.prog))
            /\ j.x.browse /\ it.prog.by = NoSeries => it.name = GoesOutAs(it.prog)
  BY Emitted DEF IInv
<1>. HIDE DEF j, items
<1>. DEFINE lists(p) == IF j.x.browse THEN CandidatesFor(p, j.known)
                        ELSE IF WantsList(j.x) THEN {j.x.id} ELSE {}
<1>2. ASSUME NEW it \in items, ~it.prog.numbered, Guessed(it.prog),
             it.number = PositionGuess(it.prog), ~it.overridden,
             NEW id \in lists(it.prog)
      PROVE  /\ j.lists[id] = "list" /\ TVDB[id] # {}
             /\ /\ it.prog.title.special /\ it.prog.title.date = "none"
                /\ j.x.browse => lists(it.prog) = {id} /\ it.name = ShowOf[id].name
                => \/ CheckGuess(it.number, it.prog, Index(TVDB[id])) # "contradicted"
                   \/ it.prog.seriesAssumed /\ it.prog.title.label # NoKey
  <2>. DEFINE p == it.prog
  <2>1. p \in Answering(j) /\ ~OverridesNumbering(p, Override(j.x, p))
    BY <1>1, <1>2
  <2>2. CASE j.x.browse
    <3>1. id \in CandidatesFor(p, j.known) /\ lists(p) = CandidatesFor(p, j.known)
      BY <1>2, <2>2
    <3>2. it.name = GoesOutAs(p)
      <4>1. p \in Numbered(j)
        BY <2>1, Letting
      <4>2. p.by = NoSeries
        BY <1>1, <1>2, <4>1, NumberedFields
      <4>. QED  BY <1>1, <2>2, <4>2
    <3>3. /\ j.lists[id] = "list" /\ TVDB[id] # {}
          /\ /\ p.title.special /\ p.title.date = "none"
             /\ CandidatesFor(p, j.known) = {id} /\ GoesOutAs(p) = ShowOf[id].name
             => \/ CheckGuess(PositionGuess(p), p, Index(TVDB[id])) # "contradicted"
                \/ p.seriesAssumed /\ p.title.label # NoKey
      BY <1>1, <1>2, <2>1, <2>2, <3>1, FeedChecked
    <3>. QED  BY <1>2, <2>2, <3>1, <3>2, <3>3
  <2>3. CASE ~j.x.browse
    <3>1. WantsList(j.x) /\ id = j.x.id
      BY <2>3
    <3>2. /\ HasList(j.x, j.lists)
          /\ p.title.special /\ p.title.date = "none" =>
               \/ CheckGuess(PositionGuess(p), p, Index(TVDB[j.x.id])) # "contradicted"
               \/ p.seriesAssumed /\ p.title.label # NoKey
      BY <1>1, <1>2, <2>1, <2>3, <3>1, SearchChecked
    <3>. QED  BY <1>2, <3>1, <3>2 DEF HasList
  <2>. QED  BY <2>2, <2>3
<1>. QED  BY <1>1, <1>2 DEF GuessesAreChecked, items

\* No number guessed for a known series goes out unless the list of every series
\* it may be of was at hand to check it (MarkUnchecked's callers in search.go);
\* and unless its subtitle holds a date or the list bears out the series that its
\* label stands for, no special's guess goes out in a search over the list's word
\* against it, nor in the feed over that of the only series it may be of, when it
\* goes out under that series' name (resolve, numberBrowseFromTVDB).
THEOREM GuessesChecked == Spec => []GuessesAreChecked
<1>1. Init => GuessesAreChecked
  BY DEF Init, GuessesAreChecked
<1>2. IInv /\ GuessesAreChecked /\ [Next]_vars => GuessesAreChecked'
  <2>. SUFFICES ASSUME IInv, GuessesAreChecked, [Next]_vars PROVE GuessesAreChecked'
    OBVIOUS
  <2>1. CASE UNCHANGED vars
    BY <2>1 DEF vars, GuessesAreChecked
  <2>2. CASE \E c \in Clients : Emit(c)
    BY <2>2, GuessStep
  <2>3. CASE ~UNCHANGED vars /\ \A c \in Clients : ~Emit(c)
    <3>1. answer' = Nothing
      BY <2>3, NoAnswer
    <3>. QED  BY <3>1 DEF GuessesAreChecked
  <2>. QED  BY <2>1, <2>2, <2>3
<1>. QED  BY <1>1, <1>2, Inductive, PTL DEF Spec

LEMMA NumberStep ==
    ASSUME IInv, NEW c \in Clients, Emit(c)
    PROVE  OneAtANumber'
<1>. DEFINE j == job[c]
            items == answer'.items
<1>1. /\ Job(j) /\ OfAWorld
      /\ \A it \in items :
            /\ it.prog \in Answering(j)
            /\ it.number = EmittedNumber(it.prog, Override(j.x, it.prog))
            /\ it.id = IF it.prog.by # NoSeries THEN it.prog.by ELSE j.x.id
  BY Emitted DEF IInv
<1>. HIDE DEF j, items
<1>2. ASSUME NEW it \in items, it.prog.numbered, it.number \notin {NoNumber, <<0, 0>>}
      PROVE  it.prog \in Numbered(j) /\ it.number = <<it.prog.series, it.prog.ep>>
  BY <1>1, <1>2, Letting, NumberedNumber
<1>. DEFINE titled(it) == \E e \in Index(TVDB[it.id]) :
                             /\ NumberOf(e) = it.number
                             /\ \/ e.key \in {it.prog.title.whole, it.prog.title.bare}
                                \/ /\ it.prog.brand = it.prog.pid
                                   /\ e.key = it.prog.name.full
<1>3. ASSUME NEW a \in items, NEW b \in items,
             a.prog.numbered, b.prog.numbered, a.number = b.number,
             a.id = b.id, a.prog.pid # b.prog.pid, a.number \notin {NoNumber, <<0, 0>>}
      PROVE  a.prog.title.text = b.prog.title.text \/ (titled(a) /\ titled(b))
  <2>. DEFINE q == a.prog
              z == b.prog
              id == a.id
  <2>1. /\ q \in Numbered(j) /\ a.number = <<q.series, q.ep>>
        /\ z \in Numbered(j) /\ b.number = <<z.series, z.ep>>
    BY <1>2, <1>3
  <2>2. /\ id = IF q.by # NoSeries THEN q.by ELSE j.x.id
        /\ id = IF z.by # NoSeries THEN z.by ELSE j.x.id
    BY <1>1, <1>3
  <2>3. q.numbered /\ z.numbered /\ q.pid # z.pid /\ <<q.series, q.ep>> = <<z.series, z.ep>>
    BY <1>3, <2>1
  <2>4. b.id = id
    BY <1>3
  <2>. HIDE DEF id, q, z
  <2>5. \/ q.title.text = z.title.text
        \/ Titled(q, Index(TVDB[id])) /\ Titled(z, Index(TVDB[id]))
    BY <1>1, <2>1, <2>2, <2>3, NumberedPair
  <2>6. Titled(q, Index(TVDB[id])) => titled(a)
    BY <2>1 DEF Titled, id, q
  <2>7. Titled(z, Index(TVDB[id])) => titled(b)
    BY <2>1, <2>4 DEF Titled, z
  <2>. QED  BY <2>5, <2>6, <2>7 DEF q, z
<1>. QED  BY <1>3 DEF OneAtANumber, items

\* One number of TheTVDB's goes to two programmes only when both carry its
\* episode's title, or say the same title (resolve, numberOneOffs).
THEOREM OneNumberEach == Spec => []OneAtANumber
<1>1. Init => OneAtANumber
  BY DEF Init, OneAtANumber
<1>2. IInv /\ OneAtANumber /\ [Next]_vars => OneAtANumber'
  <2>. SUFFICES ASSUME IInv, OneAtANumber, [Next]_vars PROVE OneAtANumber'
    OBVIOUS
  <2>1. CASE UNCHANGED vars
    BY <2>1 DEF vars, OneAtANumber
  <2>2. CASE \E c \in Clients : Emit(c)
    BY <2>2, NumberStep
  <2>3. CASE ~UNCHANGED vars /\ \A c \in Clients : ~Emit(c)
    <3>1. answer' = Nothing
      BY <2>3, NoAnswer
    <3>. QED  BY <3>1 DEF OneAtANumber
  <2>. QED  BY <2>1, <2>2, <2>3
<1>. QED  BY <1>1, <1>2, Inductive, PTL DEF Spec

(***************************************************************************)
(* The RSS poll.  No stamp is of a programme the poll was never given, and *)
(* every poll Sonarr received is in the past.                              *)
(***************************************************************************)

PollInv ==
    /\ sonarr.polled \in Nat /\ now \in Nat /\ sonarr.polled < now
    /\ {"seen", "lost", "polled"} \subseteq DOMAIN sonarr
    /\ \A pid \in AllPIDs : stamps[pid] # 0 => pid \in sonarr.seen \cup sonarr.lost

\* What an answer does to the stamps and to what Sonarr was given.
LEMMA Polled ==
    ASSUME IInv, PollInv, NEW c \in Clients, Emit(c)
    PROVE  /\ PollInv'
           /\ answer'.x.browse =>
                \A it \in answer'.items :
                   it.prog.pid \notin sonarr.seen \cup sonarr.lost => it.pub > sonarr.polled
<1>. DEFINE j == job[c]
<1>1. Job(j) /\ OfAWorld
  BY DEF Emit, IInv, JobInv
<1>2. Reply(j, Answering(j))
  BY DEF Emit, Answering
<1>. HIDE DEF j
<1>3. PICK out \in SUBSET Answering(j), arrives \in BOOLEAN :
        /\ stamps' = Stamped(j.x, PID(out))
        /\ now' = IF j.x.browse THEN now + 1 ELSE now
        /\ answer' = [x |-> j.x, lists |-> j.lists, known |-> j.known,
                      items |-> {Item(j.x, p, stamps'[p.pid]) : p \in out}]
        /\ sonarr' = IF ~j.x.browse THEN sonarr
                     ELSE IF arrives THEN [sonarr EXCEPT !.seen = @ \cup PID(out),
                                                         !.polled = now]
                     ELSE [sonarr EXCEPT !.lost = @ \cup PID(out)]
  BY <1>2 DEF Reply
<1>4. \A p \in out : p.name \in HitTitles(shelf) /\ p.pid \in AllPIDs
  BY <1>1, Letting, NumberedFields, Shelf
<1>5. CASE ~j.x.browse
  <2>1. sonarr' = sonarr /\ now' = now
    BY <1>3, <1>5
  <2>2. \A pid \in AllPIDs : stamps'[pid] = stamps[pid]
    BY <1>3, <1>5 DEF Stamped
  <2>3. PollInv'
    BY <2>1, <2>2 DEF PollInv, AllPIDs
  <2>. QED  BY <1>3, <1>5, <2>3
<1>6. CASE j.x.browse
  <2>1. \A pid \in AllPIDs : stamps'[pid] = IF pid \in PID(out) /\ stamps[pid] = 0
                                            THEN now ELSE stamps[pid]
    BY <1>3, <1>6 DEF Stamped
  <2>2. now' = now + 1
    BY <1>3, <1>6
  <2>3. /\ {"seen", "lost", "polled"} \subseteq DOMAIN sonarr'
        /\ sonarr'.polled \in {sonarr.polled, now}
        /\ sonarr'.seen \cup sonarr'.lost = sonarr.seen \cup sonarr.lost \cup PID(out)
    <3>1. CASE arrives
      <4>1. sonarr' = [sonarr EXCEPT !.seen = @ \cup PID(out), !.polled = now]
        BY <1>3, <1>6, <3>1
      <4>2. /\ DOMAIN sonarr' = DOMAIN sonarr /\ sonarr'.polled = now
            /\ sonarr'.seen = sonarr.seen \cup PID(out) /\ sonarr'.lost = sonarr.lost
        BY <4>1 DEF PollInv
      <4>. QED  BY <4>2 DEF PollInv
    <3>2. CASE ~arrives
      <4>1. sonarr' = [sonarr EXCEPT !.lost = @ \cup PID(out)]
        BY <1>3, <1>6, <3>2
      <4>2. /\ DOMAIN sonarr' = DOMAIN sonarr /\ sonarr'.polled = sonarr.polled
            /\ sonarr'.lost = sonarr.lost \cup PID(out) /\ sonarr'.seen = sonarr.seen
        BY <4>1 DEF PollInv
      <4>. QED  BY <4>2 DEF PollInv
    <3>. QED  BY <3>1, <3>2
  <2>4. \A pid \in AllPIDs : stamps'[pid] # 0 => pid \in sonarr'.seen \cup sonarr'.lost
    BY <2>1, <2>3 DEF PollInv
  <2>5. PollInv'
    BY <2>2, <2>3, <2>4 DEF PollInv, AllPIDs
  <2>6. ASSUME NEW it \in answer'.items, it.prog.pid \notin sonarr.seen \cup sonarr.lost
        PROVE  it.pub > sonarr.polled
    <3>1. PICK p \in out : it = Item(j.x, p, stamps'[p.pid])
      BY <1>3
    <3>2. it.prog = p /\ it.pub = stamps'[p.pid]
      BY <3>1 DEF Item
    <3>3. p.pid \in PID(out) /\ p.pid \in AllPIDs
      BY <1>4 DEF PID
    <3>4. stamps[p.pid] = 0
      BY <2>6, <3>2, <3>3 DEF PollInv
    <3>5. it.pub = now
      BY <2>1, <3>2, <3>3, <3>4
    <3>. QED  BY <3>5 DEF PollInv
  <2>. QED  BY <2>5, <2>6
<1>. QED  BY <1>5, <1>6

LEMMA InitPoll == Init => PollInv
BY DEF Init, PollInv

\* Only an answer touches the poll's state.
LEMMA PollStays ==
    ASSUME PollInv, [Next]_vars, \A c \in Clients : ~Emit(c)
    PROVE  PollInv'
<1>1. UNCHANGED <<stamps, now, sonarr>>
  BY DEF Next, Ask, LookUp, SearchIBL, FetchList, Expire, Restart, vars
<1>. QED  BY <1>1 DEF PollInv, AllPIDs

\* What the RSS poll has not been given before is dated after the last poll
\* Sonarr received, unless it was in an answer that was lost (search.go,
\* first_seen.go).
THEOREM DebutsSeen == Spec => DebutsAboveWatermark
<1>1. IInv /\ PollInv /\ [Next]_vars => PollInv'
  BY Polled, PollStays
<1>2. IInv /\ PollInv /\ [Next]_vars =>
        [answer' # Nothing /\ answer'.x.browse =>
            \A it \in answer'.items :
                it.prog.pid \notin sonarr.seen \cup sonarr.lost => it.pub > sonarr.polled]_vars
  <2>. SUFFICES ASSUME IInv, PollInv, [Next]_vars, ~UNCHANGED vars,
                       answer' # Nothing, answer'.x.browse
                PROVE  \A it \in answer'.items :
                         it.prog.pid \notin sonarr.seen \cup sonarr.lost
                           => it.pub > sonarr.polled
    OBVIOUS
  <2>1. PICK c \in Clients : Emit(c)
    BY NoAnswer
  <2>. QED  BY <2>1, Polled
<1>. QED  BY <1>1, <1>2, InitPoll, Inductive, PTL DEF Spec, DebutsAboveWatermark
=============================================================================
