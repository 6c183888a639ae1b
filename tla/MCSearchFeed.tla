---------------------------- MODULE MCSearchFeed ----------------------------
(***************************************************************************)
(* Doctor Who (2005) and Doctor Who (2023), and what iPlayer may list of   *)
(* them.                                                                   *)
(***************************************************************************)
EXTENDS SearchFeed, TLC

Name(sub, from, to) == [show |-> "Doctor Who", article |-> FALSE, sub |-> sub,
                        from |-> from, to |-> to, tag |-> NoKey,
                        full |-> IF sub = NoKey THEN "doctor who"
                                                ELSE "doctor who dreamland"]
Bare      == Name(NoKey, 0, 0)
Modern    == Name(NoKey, 2005, 2022)
Dreamland == Name("dreamland", 0, 0)
Shows     == "who05" :> [name |-> Name(NoKey, 2005, 2005), year |-> 2005]
               @@ "who23" :> [name |-> Name(NoKey, 2023, 2023), year |-> 2023]

Title(text, key, special) ==
    [text |-> text, base |-> text, whole |-> key, bare |-> key, weak |-> NoKey,
     holds |-> {}, label |-> NoKey, special |-> special, part |-> FALSE,
     date |-> "none"]
Signed(t) == [t EXCEPT !.text = "signed", !.whole = "signed", !.bare = "signed",
                       !.base = t.text]

Element(pid, brand, name, title, series, ep, position, day, pools) ==
    [pid |-> pid, brand |-> brand,
     name |-> name,
     title |-> title, series |-> series, ep |-> ep, position |-> position,
     day |-> day, seriesAssumed |-> FALSE, epAssumed |-> FALSE,
     pools |-> pools,
     numbered |-> FALSE, contradicted |-> FALSE, unchecked |-> FALSE, by |-> NoSeries]

Rose     == Element("rose", "who05", Modern, Title("1. Rose", "rose", FALSE),
                    1, 1, 1, 1, {"popular"})
Aliens   == Element("aliens", "who05", Modern, Title("Aliens", "aliens", FALSE),
                    1, 0, 0, 5, {})
Bride    == Element("bride", "who05", Modern, Title("Bride", "bride", FALSE),
                    0, 0, 2, 9, {"trending", "popular"})
Xmas     == Element("xmas", "who05", Modern, Title("Christmas Special", "christmas", TRUE),
                    0, 0, 2, 20, {"trending"})
XmasCopy == Element("signed", "who05", Modern,
                    Signed(Title("Christmas Special", "christmas", TRUE)),
                    0, 0, 3, 20, {})
Joy      == Element("joy", "who", Bare, Title("Joy", "joy", FALSE), 0, 0, 1, 40, {"trending"})
Diary    == Element("diary", "diaries", Modern, Title("Diary", "diary", FALSE),
                    0, 0, 0, 41, {"trending"})
Dream    == Element("dream", "dream", Dreamland, Title(NoKey, NoKey, FALSE),
                    0, 0, 1, 9, {})

Episode(season, ep, key, day) == [season |-> season, ep |-> ep, key |-> key, day |-> day]
List05 == {Episode(1, 1, "rose", 1), Episode(1, 2, "aliens", 5),
           Episode(0, 1, "snowmen", 20), Episode(0, 2, "bride", 9),
           Episode(0, 3, "doctor who dreamland", 10)}
List23 == {Episode(1, 1, "joy", 40), Episode(1, 2, "boom", 44),
           Episode(0, 1, "snowmen", 20)}
ListsOf == "who05" :> List05 @@ "who23" :> List23

Names == {Bare, Modern, Dreamland} \cup {Shows[id].name : id \in DOMAIN Shows}
NoOverrides == [n \in Names |-> NoOverride]
Second      == [NoOverrides EXCEPT ![Bare].series = 2]
Renamed     == [NoOverrides EXCEPT ![Modern].name = Shows["who05"].name]
Stored(who05, who23) == "who05" :> who05 @@ "who23" :> who23

World(shelf_, override_, mapping_) ==
    [shelf |-> shelf_, override |-> override_, mapping |-> mapping_]
WorldsOf == {World({Rose, Joy}, NoOverrides, Stored("none", "full")),
             World({Rose, Joy}, Second, Stored("full", "yearless")),
             World({Aliens, Diary}, NoOverrides, Stored("full", "full")),
             World({Xmas, XmasCopy}, NoOverrides, Stored("full", "full")),
             World({Xmas, XmasCopy}, Renamed, Stored("full", "none")),
             World({Bride, Dream}, NoOverrides, Stored("full", "full"))}

ByNumber(id, season, ep) == [id |-> id, q |-> NoName, season |-> season,
                             ep |-> ep, day |-> NoDay, limit |-> 0]
RequestsOf == {ByNumber("who05", 0, 0), ByNumber("who05", 1, 1), ByNumber("who05", 1, 2),
               ByNumber("who23", 1, 1),
               [id |-> NoSeries, q |-> Bare, season |-> 1, ep |-> 1, day |-> NoDay, limit |-> 0],
               [id |-> NoSeries, q |-> NoName, season |-> NoSeason, ep |-> 0, day |-> NoDay, limit |-> 2]}
HeightsOf == {{1080, 720}}
=============================================================================
