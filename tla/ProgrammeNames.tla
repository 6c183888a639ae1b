--------------------------- MODULE ProgrammeNames ---------------------------
(***************************************************************************)
(* Show names as the Newznab indexer compares them (disambiguate.go,       *)
(* search.go, store/series.go).  A name is a record                        *)
(*   show     what is left of it once punctuation, case and the rest fold  *)
(*   article  whether it begins with "The"                                 *)
(*   sub      the subtitle of "Show: Subtitle", NoKey for none             *)
(*   from, to the years of "(2005-2022)", 0 for none                       *)
(*   tag      the country of "(US)", NoKey for none                        *)
(*   full     the title key of the whole name                              *)
(***************************************************************************)
EXTENDS Integers, FiniteSets

CONSTANT NoKey

\* Bare names are compared; TheTVDB's own name keeps its article.
SameShow(a, b, theTVDB) == a.show = b.show /\ (theTVDB => a.article = b.article)

ExactName(a, b, theTVDB) == SameShow(a, b, theTVDB) /\ a.sub = b.sub

\* "Show: Subtitle" extends "Show".
Extends(a, b, theTVDB) == SameShow(a, b, theTVDB) /\ b.sub = NoKey /\ a.sub # NoKey

NameMatches(a, b, theTVDB) == ExactName(a, b, theTVDB) \/ Extends(a, b, theTVDB)

Covers(name, year) == name.from # 0 /\ year \in name.from .. name.to

\* The names of a set left for a series that began in year.
DisambiguateByYear(names, year) ==
    LET covering == {n \in names : Covers(n, year)}
    IN  IF year = 0 THEN names
        ELSE IF covering # {} THEN covering
        ELSE {n \in names : n.from = 0}

\* The tag of a series that is not the BBC's own.
Foreign(name) == IF name.tag \in {"UK", "GB"} THEN NoKey ELSE name.tag

\* The name an item goes out under, and that overrides are keyed by.
EmitName(name, want, theTVDB) == IF ExactName(name, want, theTVDB) THEN name ELSE want

\* Nothing in a programme's name says it is another series'.
OfSeries(p, series, year) ==
    \/ p.numbered
    \/ /\ p.name.tag \in {NoKey, series.tag}
       /\ p.name.from = 0 \/ Covers(p.name, year)

\* A stored series a text query may mean: its name, with or without its year.
SeriesNameIs(stored, q) ==
    IF stored.tag # NoKey THEN stored = q
    ELSE /\ ExactName(stored, q, FALSE)
         /\ q.tag = NoKey
         /\ q.from \in {0, stored.from}
=============================================================================
