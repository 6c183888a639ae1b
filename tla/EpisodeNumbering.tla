-------------------------- MODULE EpisodeNumbering --------------------------
(***************************************************************************)
(* How the Newznab indexer numbers iPlayer programmes: the number a        *)
(* release title carries (titles.go), and the numbers a series' TheTVDB    *)
(* list gives its programmes (tvdb.go).                                    *)
(*                                                                         *)
(* A programme is a record                                                 *)
(*   pid, name   its PID and brand name (see ProgrammeNames)               *)
(*   title       its subtitle, as what the code reads out of it:           *)
(*     text, base   the subtitle, and the one it is a version of ("X" for  *)
(*                  "X - Signed"); base = text for no version              *)
(*     whole, bare, weak   its title keys: of all of it, of what follows   *)
(*                  "Series N: M. ", and of what follows a weaker label    *)
(*     holds        the specific title keys it contains                    *)
(*     label        the label it numbers an episode under                  *)
(*     special, part, date   a special's keyword, a story's part number,   *)
(*                  and "bare", "composite" or "none" for a subtitle that  *)
(*                  is a date                                              *)
(*   series, ep, position, day   the BBC's numbers and date, 0 for none    *)
(*   seriesAssumed, epAssumed    numbers iplayer-arr filled in             *)
(*   numbered, contradicted, unchecked   what TheTVDB's list said          *)
(* and an episode of a TheTVDB list is [season, ep, key, day].             *)
(***************************************************************************)
EXTENDS Integers, FiniteSets, FiniteSetsExt

CONSTANTS NoKey, GenericKeys,
          MatchWindow, OneOffWindow, BeforeRun, AfterRun

NoDay    == -1          \* no release date
YearOnly == -2          \* a release date that does not parse, such as "2012"
NoNumber == <<-1, -1>>

Dated(day)     == day >= 0
Specific(key)  == key # NoKey /\ key \notin GenericKeys
Within(a, b, window) == Dated(a) /\ Dated(b) /\ a - b \in -window .. window

\* The compact month and day of a date, as an episode number.
MMDD(day) == IF Dated(day) THEN 1000 + day ELSE 0

-----------------------------------------------------------------------------
(* titles.go: the number a title carries. An override renumbers a brand.   *)

NoOverride == [dated |-> FALSE, series |-> 0, position |-> FALSE,
               seriesBy |-> 0, epBy |-> 0, name |-> NoKey]

\* A special with no full numbering takes its position or its date.
SpecialNumber(p) == IF p.position > 0 THEN p.position ELSE MMDD(p.day)
IsLooseSpecial(p, series, ep) ==
    p.title.special /\ (series = 0 \/ ep = 0) /\ SpecialNumber(p) > 0

Renumbered(p, o) ==
    << (IF o.series > 0 THEN o.series ELSE IF o.position THEN 0 ELSE p.series)
         + o.seriesBy,
       (IF o.position THEN 0 ELSE p.ep) + o.epBy >>

\* The identity a title is generated with: its tier and number.
GenerateTitle(p, o) ==
    LET n == Renumbered(p, o)
        titled(tier, number) == [tier |-> tier, number |-> number]
    IN  IF o.dated /\ p.day # NoDay THEN titled("date", NoNumber)
        ELSE IF p.numbered THEN titled("full", <<p.series, p.ep>>)
        ELSE IF IsLooseSpecial(p, n[1], n[2]) THEN titled("full", <<0, SpecialNumber(p)>>)
        ELSE IF n[1] > 0 /\ n[2] > 0 THEN titled("full", n)
        ELSE IF p.day # NoDay /\ p.title.date = "bare" THEN titled("date", NoNumber)
        ELSE IF p.position > 0
             THEN titled("position", <<IF o.series > 0 THEN o.series ELSE 1, p.position>>)
        ELSE IF p.day # NoDay THEN titled("date", NoNumber)
        ELSE titled("manual", NoNumber)

\* ParseTitle reads two digits of season and four of episode back.
EmittedNumber(p, o) ==
    LET n == GenerateTitle(p, o).number
    IN  IF n[1] > 99 \/ n[2] > 9999 THEN <<0, 0>> ELSE n

OverridesNumbering(p, o) == GenerateTitle(p, o) # GenerateTitle(p, NoOverride)

\* The number GenerateTitle gives p when BBC data does not say it.
PositionGuess(p) ==
    IF IsLooseSpecial(p, p.series, p.ep) THEN <<0, SpecialNumber(p)>>
    ELSE IF p.series > 0 /\ p.ep > 0
         THEN IF p.seriesAssumed /\ p.title.special THEN <<p.series, p.ep>>
                                                    ELSE NoNumber
    ELSE IF p.position > 0 /\ ~(p.day # NoDay /\ p.title.date = "bare")
         THEN <<1, p.position>>
    ELSE NoNumber

Guessed(p) == PositionGuess(p) # NoNumber

\* The number p goes out with when TheTVDB does not number it.
GivenNumber(p) == IF Guessed(p) THEN PositionGuess(p)
                  ELSE IF p.series > 0 /\ p.ep > 0 THEN <<p.series, p.ep>>
                  ELSE NoNumber

-----------------------------------------------------------------------------
(* tvdb.go: a list's index holds the dated episodes only.                  *)

Index(list) == {e \in list : e.ep >= 1 /\ Dated(e.day)}
NumberOf(e) == <<e.season, e.ep>>

\* How a programme matched an episode, weakest first.
OffWindow == 0
OnAirDate == 1
OnLabel   == 2
OnTitle   == 3

Candidates(t) == {<<k, OnTitle>> : k \in {t.whole, t.bare} \ {NoKey}}
                   \cup {<<k, OnLabel>> : k \in {t.weak} \ {NoKey}}

TitleMatches(p, idx) ==
    {m \in idx \X {OnLabel, OnTitle} :
        <<m[1].key, m[2]>> \in Candidates(p.title)
          /\ Within(m[1].day, p.day, MatchWindow)}

\* The one special that aired on p's date; of several, the one it names.
SpecialOn(p, idx) ==
    LET sameDay == {e \in idx : e.season = 0 /\ Dated(p.day) /\ e.day = p.day}
        named   == {e \in sameDay : Specific(e.key) /\ e.key \in p.title.holds}
        found   == IF Cardinality(sameDay) > 1 THEN named ELSE sameDay
    IN  IF Cardinality(found) = 1 THEN found ELSE {}

\* What the list says of a number p goes out with.
CheckGuess(number, p, idx) ==
    LET there == {e \in idx : NumberOf(e) = number}
        agrees(e) == \/ e.key # NoKey /\ e.key = p.title.whole
                     \/ Dated(p.day) /\ e.day = p.day
    IN  IF \E e \in there : agrees(e) THEN "confirmed"
        ELSE IF there = {} \/ ~Dated(p.day) THEN "unchecked"
        ELSE IF \E e \in there : Within(e.day, p.day, MatchWindow) THEN "near"
        ELSE "contradicted"

BearsOut(number, p, idx) == CheckGuess(number, p, idx) \in {"confirmed", "near"}

\* The one episode, of any date, that a specific title of p's matches.
TitleAnyDate(p, idx) ==
    LET found == {e \in idx : \E c \in Candidates(p.title) :
                                  Specific(c[1]) /\ c[1] = e.key}
        early(e) == Dated(p.day) /\ p.day < e.day - BeforeRun
    IN  IF GivenNumber(p) # NoNumber /\ ~BearsOut(GivenNumber(p), p, idx)
             /\ Cardinality(found) = 1 /\ \A e \in found : ~early(e)
        THEN found ELSE {}

\* Shown well outside the run of dates the list has.
BeyondRun(p, idx) ==
    Dated(p.day) /\ idx # {}
      /\ LET days == {e.day : e \in idx}
         IN  p.day < Min(days) - BeforeRun \/ p.day > Max(days) + AfterRun

AssumedNumber(p) == p.seriesAssumed \/ p.epAssumed \/ p.title.part

\* Mutant: a special's own guess is never withdrawn.
ContradictsAssumed(p, idx, showMatched) ==
    /\ GivenNumber(p) # NoNumber
    /\ ~Guessed(p) /\ AssumedNumber(p)
    /\ CheckGuess(GivenNumber(p), p, idx) = "contradicted"

Contradicts(p, idx, showMatched) ==
    /\ GivenNumber(p) # NoNumber
    /\ IF Guessed(p) THEN p.title.special
       ELSE AssumedNumber(p) \/ (~showMatched /\ BeyondRun(p, idx))
    /\ CheckGuess(GivenNumber(p), p, idx) = "contradicted"

-----------------------------------------------------------------------------
(* resolve: programmes claim episodes, and a claim may give way.           *)

Claim(p, e, strength) == [prog |-> p, number |-> NumberOf(e), strength |-> strength]

\* The claim of one programme: at most one.
ClaimsOf(p, idx, datable) ==
    LET matches == TitleMatches(p, idx)
        numbers == {NumberOf(m[1]) : m \in matches}
        verdict == CheckGuess(PositionGuess(p), p, idx)
        standing == Guessed(p) /\ (\/ verdict = "confirmed"
                                   \/ verdict = "near" /\ PositionGuess(p)[1] # 0)
        byDate == IF Guessed(p) THEN SpecialOn(p, idx) ELSE {}
    IN  IF Cardinality(numbers) = 1
        THEN {LET best == Max({m[2] : m \in matches})
              IN  Claim(p, (CHOOSE m \in matches : m[2] = best)[1], best)}
        ELSE IF numbers # {} \/ ~datable \/ standing THEN {}
        ELSE IF byDate # {} THEN {Claim(p, e, OnAirDate) : e \in byDate}
        ELSE {Claim(p, e, OffWindow) : e \in TitleAnyDate(p, idx)}

PIDs(claims) == {c.prog.pid : c \in claims}

\* Mutant: every claim keeps its number.
Unsettled(claims) == claims

\* Which of the claims on one number keep it.
Settle(claims) ==
    LET texts == {c.prog.title.text : c \in claims}
        kept  == {c \in claims : \/ c.prog.title.base = c.prog.title.text
                                 \/ c.prog.title.base \notin texts}
        own   == {c \in kept : GivenNumber(c.prog) = c.number}
        field == IF /\ Cardinality(kept) > 1
                    /\ \A c \in kept : c.strength = OffWindow
                    /\ Cardinality(PIDs(own)) = 1
                 THEN own ELSE kept
        best == Max({c.strength : c \in field})
        loses(c) ==
            /\ c.strength < OnTitle
            /\ Cardinality(PIDs(field)) > 1
            /\ \/ c.strength < best
               \/ \E d \in field : /\ d.strength = c.strength
                                   /\ d.prog.title.text # c.prog.title.text
    IN  {c \in field : ~loses(c)}

\* A label's assumed Series 1 stands when the list bears most of it out.
LabelBorneOut(p, considered, idx, atOwn) ==
    LET peers == {q \in considered : /\ q.seriesAssumed
                                     /\ q.title.label = p.title.label
                                     /\ GivenNumber(q) \in {NumberOf(e) : e \in idx}}
        pids(S) == Cardinality({q.pid : q \in S})
        borne == pids(peers \cap atOwn)
    IN  /\ p.seriesAssumed /\ ~p.epAssumed /\ ~p.title.part
        /\ p.title.label # NoKey
        /\ borne >= 3 /\ 2 * borne >= pids(peers)

SettleAll(claims) == UNION {Settle({c \in claims : c.number = n}) :
                               n \in {c.number : c \in claims}}

\* A programme that goes out, or already went, at a number the list bears out.
AtOwn(p, idx, settled) ==
    LET mine == {c \in settled : c.prog = p}
    IN  /\ GivenNumber(p) # NoNumber
        /\ IF mine # {} THEN \E c \in mine : c.number = GivenNumber(p)
                        ELSE BearsOut(GivenNumber(p), p, idx)

\* The claims that keep their numbers, when any of them or the BBC's own numbers
\* show that the list is the show's, and the programmes left with a number the
\* list has for another episode.
Verdicts(considered, idx, settled) ==
    LET atOwn == {p \in considered : AtOwn(p, idx, settled)}
        showMatched == atOwn # {} \/ \E c \in settled : c.strength > OffWindow
        won == IF showMatched THEN settled ELSE {}
    IN  [won |-> won,
         contradicted |->
            {p \in considered :
                /\ \A c \in won : c.prog # p
                /\ ~LabelBorneOut(p, considered, idx, atOwn)
                /\ Contradicts(p, idx, showMatched)}]

\* eligible are the programmes of the show, datable those of them whose date may
\* say which episode they are.
Resolve(progs, idx, eligible, datable) ==
    LET considered == {p \in progs \cap eligible : p.title.date = "none"}
    IN  Verdicts(considered, idx,
                 SettleAll(UNION {ClaimsOf(p, idx, p \in datable) :
                                     p \in considered}))

Apply(c) == [c.prog EXCEPT !.series = c.number[1], !.ep = c.number[2],
                           !.numbered = TRUE]

NumberFromTVDB(progs, idx, eligible, datable) ==
    LET r == Resolve(progs, idx, eligible, datable)
    IN  {IF \E c \in r.won : c.prog = p
         THEN Apply(CHOOSE c \in r.won : c.prog = p)
         ELSE [p EXCEPT !.contradicted = p \in r.contradicted] : p \in progs}

MarkUnchecked(progs, eligible) ==
    {[p EXCEPT !.unchecked = Guessed(p) /\ p \in eligible] : p \in progs}

\* A one-off of the show, numbered by its own title or its whole iPlayer title
\* when they find one episode, unless the number is taken.
NumberOneOffs(progs, idx, oneOffTitle) ==
    LET taken == {<<p.series, p.ep>> : p \in {q \in progs : q.numbered}}
        found(p) == {e \in idx : /\ e.key \in {oneOffTitle[p], p.name.full}
                                 /\ Within(e.day, p.day, OneOffWindow)}
        numbers(p) == {NumberOf(e) : e \in found(p)}
        numberable(p) == /\ Specific(oneOffTitle[p])
                         /\ Cardinality(numbers(p)) = 1
                         /\ numbers(p) \cap taken = {}
    IN  {IF numberable(p)
         THEN LET n == CHOOSE n \in numbers(p) : TRUE
              IN  [p EXCEPT !.series = n[1], !.ep = n[2], !.numbered = TRUE,
                            !.title.text = oneOffTitle[p],
                            !.title.whole = oneOffTitle[p]]
         ELSE p : p \in progs}
=============================================================================
