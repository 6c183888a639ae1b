----------------------------- MODULE Attempt_proofs -----------------------------
(* Every step of an attempt is a step of its retry budget or leaves it alone,  *)
(* for any streams, playlists and timing, so what RetryBudget_proofs shows of  *)
(* a row holds of the row whose attempts are modelled in full.                 *)
EXTENDS Attempt, RetryBudget_proofs, WellFoundedInduction

(* The picked supplier is one the media selector named, or unnamed.            *)
PickOK == pick.supplier \in Suppliers \cup {Empty}

LEMMA PickedIsListed ==
    ASSUME NEW streams, NEW target, NEW excluded
    PROVE  PickStream(streams, target, excluded) \subseteq DOMAIN streams
  BY DEF PickStream, Nearest

(* It stays so: Pick takes a listed stream, and the end of an attempt drops it. *)
LEMMA PickStays ==
    ASSUME PickOK, [AttemptNext]_avars
    PROVE  PickOK'
<1> USE DEF PickOK
<1>0. ASSUME pick' = NoStream PROVE PickOK'
  BY <1>0 DEF NoStream
<1>1. CASE Start \/ Open \/ Progress \/ Tick \/ Cooldown \/ UNCHANGED avars
  BY <1>1 DEF Start, Open, Progress, Tick, Cooldown, avars
<1>2. CASE LookupFails \/ Stopped \/ Finish
  BY <1>0, <1>2 DEF LookupFails, Stopped, Finish, Ended
<1>3. CASE Pick
  <2>1. PICK streams \in Offers :
            \E i \in PickStream(streams, run.target, dl.failedSuppliers) :
                pick' = streams[i]
    BY <1>3 DEF Pick
  <2>2. QED
    BY <2>1, PickedIsListed, OffersAssumption
<1>4. QED
  BY <1>1, <1>2, <1>3 DEF AttemptNext

(* What an ending is charged as is a cause failDownload knows.                 *)
LEMMA VerdictIsCause ==
    ASSUME PickOK, NEW ending
    PROVE  Verdict(ending) \in Causes
  BY SuppliersAssumption DEF PickOK, Verdict, Causes, Codes, CdnCodes

(* Every step maps to a step of the budget, or to a stutter.                   *)
LEMMA StepImplements ==
    ASSUME PickOK, [AttemptNext]_avars
    PROVE  [Next]_vars
<1>1. CASE Start \/ Pick \/ Stopped \/ Cooldown
  BY <1>1 DEF Start, Pick, Stopped, Cooldown, Next
<1>2. CASE LookupFails
  BY <1>2 DEF LookupFails, Next, End
<1>3. CASE Finish
  BY <1>3, VerdictIsCause DEF Finish, Next, End
<1>4. CASE Open \/ Progress \/ Tick \/ UNCHANGED avars
  BY <1>4 DEF Open, Progress, Tick, avars
<1>5. QED
  BY <1>1, <1>2, <1>3, <1>4 DEF AttemptNext

(* The attempts of a row implement its retry budget: nothing processDownload   *)
(* does to the counters is outside what RetryBudget allows.                    *)
THEOREM AttemptsImplement == AttemptSpec => Spec
<1>1. AttemptInit => Init /\ PickOK
  BY DEF AttemptInit, PickOK, NoStream
<1>2. PickOK /\ [AttemptNext]_avars => PickOK'
  BY PickStays
<1>3. PickOK /\ [AttemptNext]_avars => [Next]_vars
  BY StepImplements
<1>4. QED
  BY <1>1, <1>2, <1>3, PTL DEF AttemptSpec, Spec

(* So the attempts as they are really made are charged, each to one budget.    *)
THEOREM AttemptsCharged == AttemptSpec => []EveryFailureCharged
  BY AttemptsImplement, Charged, PTL

(* And a row fails no more often than its budgets together allow, whatever     *)
(* streams, suppliers, ffmpeg and the watchdog do.                             *)
THEOREM AttemptsEnd == AttemptSpec => []AttemptsBounded
  BY AttemptsImplement, Bounded, PTL

(* And quality is stepped down once for each stream the CDN did not deliver,   *)
(* refusals and stalls not counted.                                            *)
THEOREM AttemptsDegradeEarned == AttemptSpec => []DegradeIsEarned
  BY AttemptsImplement, DegradeEarned, PTL

(* The suppliers are remembered as they refused, and the pick was made from    *)
(* what is remembered.                                                         *)
RunFields == {"at", "ending", "target", "streams", "listed", "height", "silent", "muxed"}
AlternateInv ==
    /\ PickOK
    /\ DOMAIN run = RunFields
    /\ refusers = dl.failedSuppliers
    /\ run.at = "resolving" => dl.status = "resolving"
    /\ run.at = "opening" =>
          \E i \in PickStream(run.streams, run.target, dl.failedSuppliers) :
              pick = run.streams[i]

LEMMA RunFieldsStay ==
    ASSUME DOMAIN run = RunFields, [AttemptNext]_avars
    PROVE  DOMAIN run' = RunFields
<1>1. CASE Start \/ LookupFails \/ Stopped \/ Finish
  BY <1>1 DEF Start, LookupFails, Stopped, Finish, Ended, Idle, RunFields
<1>2. CASE Pick \/ Open \/ Progress \/ Tick
  BY <1>2 DEF Pick, Open, Runs, Progress, Tick
<1>3. CASE Cooldown \/ UNCHANGED avars
  BY <1>3 DEF Cooldown, avars
<1>4. QED
  BY <1>1, <1>2, <1>3 DEF AttemptNext

(* failDownload records the supplier of a refusal, and nothing else does.      *)
LEMMA Recorded ==
    ASSUME NEW d \in Bookkeeping, NEW cause \in Causes, NEW cool
    PROVE  Failed(d, cause, cool).failedSuppliers =
               IF IsRefusal(cause) THEN d.failedSuppliers \cup ({cause.refusedBy} \ {Empty})
                                   ELSE d.failedSuppliers
<1> DEFINE c == Charge(d, cause, cool)
<1>1. CASE IsRefusal(cause)
  <2>1. c = [d EXCEPT !.retryCount = @ + 1,
                      !.failedSuppliers = @ \cup ({cause.refusedBy} \ {Empty})]
    BY <1>1, CauseType DEF Charge, Refused
  <2>2. c.failedSuppliers = d.failedSuppliers \cup ({cause.refusedBy} \ {Empty})
    BY <2>1 DEF Bookkeeping
  <2>3. "failedSuppliers" \in DOMAIN c
    BY <2>1 DEF Bookkeeping
  <2>4. QED
    BY <1>1, <2>2 DEF Failed
<1>2. CASE ~IsRefusal(cause)
  <2>1. c.failedSuppliers = d.failedSuppliers
    BY <1>2 DEF Charge, Stall, Freeze, Bookkeeping
  <2>2. QED
    BY <1>2, <2>1 DEF Failed
<1>3. QED
  BY <1>1, <1>2

LEMMA AlternateStays ==
    ASSUME AlternateInv, TypeOK, [AttemptNext]_avars
    PROVE  AlternateInv'
<1>1. PickOK' /\ DOMAIN run' = RunFields
  BY PickStays, RunFieldsStay DEF AlternateInv
<1>2. refusers' = dl'.failedSuppliers
  <2>1. CASE Start \/ Pick \/ Stopped
    BY <2>1 DEF Start, Pick, Stopped, Begin, Fetch, Stop, AlternateInv, TypeOK, Bookkeeping
  <2>2. CASE Open \/ Progress \/ Tick \/ Cooldown \/ UNCHANGED avars
    BY <2>2 DEF Open, Progress, Tick, Cooldown, CooldownChanges, avars, vars, AlternateInv
  <2>3. CASE LookupFails
    <3>1. PICK cause \in Causes : Fail(cause)
      BY <2>3 DEF LookupFails
    <3>2. ~IsRefusal(cause)
      BY <2>3, <3>1, CauseType DEF LookupFails, Fail, Reachable, AlternateInv
    <3>3. QED
      BY <2>3, <3>1, <3>2, Recorded DEF LookupFails, Fail, TypeOK, AlternateInv
  <2>4. CASE Finish
    <3>1. PICK ending \in Endings :
              /\ IF ending = "ok" THEN Complete ELSE Fail(Verdict(ending))
              /\ refusers' = IF ending = "refused"
                             THEN refusers \cup ({pick.supplier} \ {Empty})
                             ELSE refusers
      BY <2>4 DEF Finish
    <3>2. CASE ending = "ok"
      BY <3>1, <3>2 DEF Complete, Completed, TypeOK, Bookkeeping, AlternateInv
    <3>3. CASE ending = "refused"
      <4>1. IsRefusal(Verdict(ending)) /\ Verdict(ending).refusedBy = pick.supplier
        BY <3>3, SuppliersAssumption DEF IsRefusal, Verdict, AlternateInv, PickOK, Empty
      <4>2. Verdict(ending) \in Causes
        BY VerdictIsCause DEF AlternateInv
      <4>3. dl' = Failed(dl, Verdict(ending), cooling)
        BY <3>1, <3>3 DEF Fail
      <4>4. dl'.failedSuppliers = dl.failedSuppliers \cup ({pick.supplier} \ {Empty})
        BY <4>1, <4>2, <4>3, Recorded DEF TypeOK
      <4>5. QED
        BY <3>1, <3>3, <4>4 DEF AlternateInv
    <3>4. CASE ending \notin {"ok", "refused"}
      <4>1. ~IsRefusal(Verdict(ending))
        BY <3>4 DEF IsRefusal, Verdict
      <4>2. Verdict(ending) \in Causes
        BY VerdictIsCause DEF AlternateInv
      <4>3. refusers' = refusers /\ dl' = Failed(dl, Verdict(ending), cooling)
        BY <3>1, <3>4 DEF Fail
      <4>4. Failed(dl, Verdict(ending), cooling).failedSuppliers = dl.failedSuppliers
        BY <4>1, <4>2, Recorded DEF TypeOK
      <4>5. QED
        BY <4>3, <4>4 DEF AlternateInv
    <3>5. QED
      BY <3>2, <3>3, <3>4
  <2>5. QED
    BY <2>1, <2>2, <2>3, <2>4 DEF AttemptNext
<1>3. CASE Start \/ LookupFails \/ Finish \/ Stopped
  <2>1. run'.at = IF Start THEN "resolving" ELSE "ended"
    BY <1>3 DEF Start, LookupFails, Finish, Stopped, Ended, Idle
  <2>2. Start => dl'.status = "resolving"
    BY DEF Start, Begin, TypeOK, Bookkeeping
  <2>3. QED
    BY <1>1, <1>2, <2>1, <2>2 DEF AlternateInv
<1>4. CASE Open \/ Progress \/ Tick
  <2>1. run'.at \in {"running", "killed"}
    <3>1. CASE Open \/ Tick
      BY <3>1 DEF Open, Runs, Tick, AlternateInv, RunFields
    <3>2. CASE Progress
      BY <3>2 DEF Progress, AlternateInv, RunFields
    <3>3. QED
      BY <1>4, <3>1, <3>2
  <2>2. QED
    BY <1>1, <1>2, <2>1 DEF AlternateInv
<1>5. CASE Pick
  <2>1. dl'.failedSuppliers = dl.failedSuppliers
    BY <1>5 DEF Pick, Fetch, TypeOK, Bookkeeping
  <2>2. PICK streams \in Offers :
            \E i \in PickStream(streams, run.target, dl.failedSuppliers) :
               /\ run' = [run EXCEPT !.at = "opening", !.streams = streams]
               /\ pick' = streams[i]
    BY <1>5 DEF Pick
  <2>3. run'.at = "opening" /\ run'.streams = streams /\ run'.target = run.target
    BY <2>2 DEF AlternateInv, RunFields
  <2>4. \E i \in PickStream(streams, run.target, dl.failedSuppliers) :
            pick' = streams[i]
    BY <2>2
  <2>5. QED
    BY <1>1, <1>2, <2>1, <2>3, <2>4 DEF AlternateInv
<1>6. CASE Cooldown \/ UNCHANGED avars
  BY <1>1, <1>2, <1>6 DEF Cooldown, CooldownChanges, avars, vars, AlternateInv
<1>7. QED
  BY <1>3, <1>4, <1>5, <1>6 DEF AttemptNext

(* A supplier that refused is picked only when no other is left.               *)
LEMMA PickPrefersWilling ==
    ASSUME NEW streams, NEW target, NEW excluded,
           NEW i \in PickStream(streams, target, excluded),
           streams[i].supplier \in excluded
    PROVE  \A j \in Nearest(streams, target) : streams[j].supplier \in excluded
<1> DEFINE willing == {j \in Nearest(streams, target) :
                          streams[j].supplier \notin excluded}
<1>1. CASE willing = {}
  BY <1>1
<1>2. CASE willing # {}
  BY <1>2 DEF PickStream
<1>3. QED
  BY <1>1, <1>2

(* Whatever the media selector offers, in whatever order suppliers refuse, the *)
(* retries go round them.                                                      *)
THEOREM Alternates == AttemptSpec => []SuppliersAlternate
<1>1. AttemptInit => AlternateInv
  BY DEF AttemptInit, AlternateInv, PickOK, NoStream, Idle, RunFields, Init, FreshBookkeeping
<1>2. AlternateInv /\ TypeOK /\ [AttemptNext]_avars => AlternateInv'
  BY AlternateStays
<1>3. AlternateInv => SuppliersAlternate
  BY PickPrefersWilling DEF AlternateInv, SuppliersAlternate
<1>4. AttemptSpec => []TypeOK
  BY AttemptsImplement, TypeCorrect, PTL
<1>5. QED
  BY <1>1, <1>2, <1>3, <1>4, PTL DEF AttemptSpec
-------------------------------------------------------------------------------
(* Sets of naturals have a least element, and those with a bound a greatest.   *)
LEMMA LeastNat ==
    ASSUME NEW S, S \subseteq Nat, S # {}
    PROVE  \E x \in S : \A y \in S : x <= y
<1> DEFINE R == OpToRel(<, Nat)
<1>1. IsWellFoundedOn(R, Nat)
  BY NatLessThanWellFounded
<1>2. \A x, y \in Nat : x < y => <<x, y>> \in R
  BY DEF OpToRel
<1> HIDE DEF R
<1>3. \E x \in S : \A y \in S : ~ (<<y, x>> \in R)
  BY <1>1, WFMin
<1>4. PICK x \in S : \A y \in S : ~ (<<y, x>> \in R)
  BY <1>3
<1>5. ASSUME NEW y \in S PROVE x <= y
  <2>1. x \in Nat /\ y \in Nat /\ ~ (y < x)
    BY <1>2, <1>4
  <2>2. QED
    BY <2>1
<1>6. QED
  BY <1>5

LEMMA MinNat ==
    ASSUME NEW S, S \subseteq Nat, S # {}
    PROVE  Min(S) \in S /\ \A y \in S : Min(S) <= y
BY LeastNat DEF Min

LEMMA MaxNat ==
    ASSUME NEW S, NEW n \in Int, S \subseteq Nat, \A y \in S : y <= n, S # {}
    PROVE  Max(S) \in S
<1> DEFINE T == {n - y : y \in S}
<1>1. T \subseteq Nat /\ T # {}
  <2>1. ASSUME NEW y \in S PROVE n - y \in Nat
    <3>1. y \in Nat /\ y <= n
      OBVIOUS
    <3>2. QED
      BY <3>1
  <2>2. QED
    BY <2>1
<1>2. PICK z \in T : \A y \in T : z <= y
  BY <1>1, LeastNat
<1>3. PICK x \in S : z = n - x
  OBVIOUS
<1>4. ASSUME NEW y \in S PROVE x >= y
  <2>1. n - x <= n - y /\ x \in Nat /\ y \in Nat
    BY <1>2, <1>3
  <2>2. QED
    BY <2>1
<1>5. QED
  BY <1>4 DEF Max

(* A rendition above the target is taken only if nothing else is listed.       *)
LEMMA RenditionFits ==
    ASSUME NEW listed, listed \subseteq Nat, NEW target \in Int, NEW hidden,
           Rendition(listed, target, hidden) > target
    PROVE  \A h \in listed : h = 0 \/ h > target
<1> DEFINE known == listed \ {0}
           below == {h \in known : h <= target}
           selected == SelectVariant(listed, target)
<1>1. CASE known = {}
  BY <1>1
<1>2. CASE known # {} /\ below = {}
  <2>1. ASSUME NEW h \in listed, h # 0 PROVE h > target
    <3>1. h \in Nat /\ h \notin below
      BY <1>2, <2>1
    <3>2. QED
      BY <2>1, <3>1
  <2>2. QED
    BY <2>1
<1>3. CASE below # {}
  <2>1. selected = Max(below)
    BY <1>3 DEF SelectVariant
  <2>2. Max(below) \in below
    BY <1>3, MaxNat
  <2>3. selected \in Nat /\ selected <= target
    BY <2>1, <2>2
  <2>4. Rendition(listed, target, hidden) \in {1080, selected}
    BY DEF Rendition
  <2>5. Rendition(listed, target, hidden) = 1080 => target >= 1080 \/ selected = 1080
    BY DEF Rendition
  <2> HIDE DEF selected, below
  <2>6. ~ (Rendition(listed, target, hidden) > target)
    BY <2>3, <2>4, <2>5
  <2>7. QED
    BY <2>6
<1>4. QED
  BY <1>1, <1>2, <1>3

-------------------------------------------------------------------------------
(* The quality ladder.                                                         *)

(* The rung of a requested height: the first at or below it, else the lowest.  *)
Rung == Min({Lowest} \cup {i \in 1 .. Lowest : Requested >= qualityLadder[i]})

LEMMA Ladder ==
    /\ Lowest = 5
    /\ \A i \in 1 .. 5 : qualityLadder[i] \in Int
    /\ \A i \in 1 .. 4 : qualityLadder[i + 1] < qualityLadder[i]
<1>1. Lowest = 5
  BY DEF Lowest, qualityLadder
<1>2. /\ qualityLadder[1] = 2160 /\ qualityLadder[2] = 1080 /\ qualityLadder[3] = 720
      /\ qualityLadder[4] = 540 /\ qualityLadder[5] = 396
  BY DEF qualityLadder
<1>3. \A i \in 1 .. 5 : i = 1 \/ i = 2 \/ i = 3 \/ i = 4 \/ i = 5
  OBVIOUS
<1>4. QED
  BY <1>1, <1>2, <1>3

LEMMA RungType ==
    Rung \in 1 .. 5 /\ (Rung < 5 => qualityLadder[Rung] <= Requested)
<1> DEFINE S == {Lowest} \cup {i \in 1 .. Lowest : Requested >= qualityLadder[i]}
<1>1. S \subseteq Nat /\ S # {} /\ S \subseteq 1 .. 5
  BY Ladder
<1>2. Rung \in S
  BY <1>1, MinNat DEF Rung
<1>3. Rung \in 1 .. 5 /\ (Rung < 5 => Requested >= qualityLadder[Rung])
  BY <1>1, <1>2, Ladder
<1>4. QED
  BY <1>3, Ladder, HeightsAssumption

LEMMA MinOfTwo ==
    ASSUME NEW a \in Nat, NEW b \in Nat
    PROVE  Min({a, b}) = IF a <= b THEN a ELSE b
<1>1. Min({a, b}) \in {a, b} /\ Min({a, b}) <= a /\ Min({a, b}) <= b
  BY MinNat
<1>2. QED
  BY <1>1

LEMMA DegradedHeight ==
    ASSUME NEW n \in Nat, n > 0
    PROVE  DegradeHeight(Requested, n) = qualityLadder[IF n + Rung >= 5 THEN 5 ELSE n + Rung]
<1>1. DegradeHeight(Requested, n) = qualityLadder[Min({Lowest, n + Rung})]
  BY DEF DegradeHeight, Rung
<1>2. Min({Lowest, n + Rung}) = IF n + Rung >= 5 THEN 5 ELSE n + Rung
  BY MinOfTwo, RungType, Ladder
<1>3. QED
  BY <1>1, <1>2

LEMMA HeightType ==
    ASSUME NEW n \in Nat
    PROVE  DegradeHeight(Requested, n) \in Int
<1>1. CASE n = 0
  BY <1>1, HeightsAssumption DEF DegradeHeight
<1>2. CASE n > 0
  BY <1>2, DegradedHeight, RungType, Ladder
<1>3. QED
  BY <1>1, <1>2

(* One rung down from a height asked for is lower, or the lowest there is.     *)
LEMMA OneDown ==
    ASSUME NEW n \in Nat, n > 0,
           NEW target \in {Requested, DegradeHeight(Requested, n - 1)}
    PROVE  \/ DegradeHeight(Requested, n) < target
           \/ DegradeHeight(Requested, n) = qualityLadder[Lowest]
<1> DEFINE k == n + Rung
<1>1. k \in Nat /\ Rung \in 1 .. 5
  BY RungType
<1>2. CASE k >= 5
  BY <1>2, DegradedHeight, Ladder
<1>3. CASE k < 5
  <2>1. DegradeHeight(Requested, n) = qualityLadder[k] /\ k \in 2 .. 4 /\ Rung \in 1 .. 3
    BY <1>1, <1>3, DegradedHeight
  <2>2. \A i, j \in 1 .. 5 : i < j => qualityLadder[j] < qualityLadder[i]
    <3>1. /\ qualityLadder[1] = 2160 /\ qualityLadder[2] = 1080 /\ qualityLadder[3] = 720
          /\ qualityLadder[4] = 540 /\ qualityLadder[5] = 396
      BY DEF qualityLadder
    <3>2. \A i \in 1 .. 5 : i = 1 \/ i = 2 \/ i = 3 \/ i = 4 \/ i = 5
      OBVIOUS
    <3>3. QED
      BY <3>1, <3>2
  <2>3. qualityLadder[k] < Requested
    <3>1. qualityLadder[k] < qualityLadder[Rung] /\ qualityLadder[Rung] <= Requested
      BY <2>1, <2>2, RungType
    <3>2. QED
      BY <2>1, <3>1, Ladder, HeightsAssumption
  <2>4. CASE target = Requested
    BY <2>1, <2>3, <2>4
  <2>5. CASE target = DegradeHeight(Requested, n - 1)
    <3>1. CASE n = 1
      BY <2>1, <2>3, <2>5, <3>1 DEF DegradeHeight
    <3>2. CASE n > 1
      <4>1. n - 1 \in Nat /\ n - 1 > 0 /\ n - 1 + Rung < 5 /\ n - 1 + Rung \in 1 .. 4
        BY <1>1, <1>3, <3>2
      <4>2. target = qualityLadder[n - 1 + Rung]
        BY <2>5, <4>1, DegradedHeight
      <4>3. QED
        BY <2>1, <2>2, <4>1, <4>2
    <3>3. QED
      BY <3>1, <3>2
  <2>6. QED
    BY <2>4, <2>5
<1>4. QED
  BY <1>1, <1>2, <1>3

-------------------------------------------------------------------------------
(* The height of an attempt: the requested one, or stepped down once for each  *)
(* CDN failure on record; after one more such failure, once more.              *)
AskedFor(n) == {Requested, DegradeHeight(Requested, n)}

HeightInv ==
    /\ DOMAIN run = RunFields
    /\ run.at # "ended" => run.target \in AskedFor(dl.cdnFailures)
    /\ run.at = "ended" /\ run.ending \in {"error", "short"} =>
          /\ dl.code \in CdnCodes /\ dl.cdnFailures > 0
          /\ run.target \in AskedFor(dl.cdnFailures - 1)
    /\ NoSilentUpgrade

LEMMA AskedForType ==
    ASSUME NEW n \in Nat
    PROVE  AskedFor(n) \subseteq Int
BY HeightType, HeightsAssumption DEF AskedFor

LEMMA AskedAtStart ==
    ASSUME TypeOK
    PROVE  AttemptHeight(dl) \in AskedFor(dl.cdnFailures)
BY DEF AttemptHeight, AskedFor

(* A CDN failure is charged to the ladder, and leaves its code on the row.     *)
LEMMA CdnCharged ==
    ASSUME NEW d \in Bookkeeping, NEW cause \in Causes, NEW cool,
           cause.code \in CdnCodes, ~IsRefusal(cause)
    PROVE  /\ Failed(d, cause, cool).cdnFailures = d.cdnFailures + 1
           /\ Failed(d, cause, cool).code = cause.code
<1> DEFINE c == Charge(d, cause, cool)
<1>1. c = [d EXCEPT !.retryCount = @ + 1, !.cdnFailures = @ + 1]
  BY DEF Charge, CdnCodes
<1>2. c.cdnFailures = d.cdnFailures + 1 /\ "code" \in DOMAIN c
  BY <1>1 DEF Bookkeeping
<1>3. QED
  BY <1>2 DEF Failed

LEMMA OpenFits ==
    ASSUME HeightInv, TypeOK, Open
    PROVE  NoSilentUpgrade'
<1>1. run.target \in Int
  BY AskedForType DEF HeightInv, Open, TypeOK, Bookkeeping
<1>2. PICK listed, height :
        /\ Runs(listed, height)
        /\ \/ listed = {}
           \/ \E hidden \in BOOLEAN : /\ listed \in Playlists
                                      /\ height = Rendition(listed, run.target, hidden)
  BY DEF Open
<1>3. run'.height = height /\ run'.listed = listed /\ run'.target = run.target
  BY <1>2 DEF Runs, HeightInv, RunFields
<1>4. height > run.target => \A h \in listed : h = 0 \/ h > run.target
  BY <1>1, <1>2, RenditionFits, HeightsAssumption
<1>5. QED
  BY <1>3, <1>4 DEF NoSilentUpgrade

LEMMA HeightStays ==
    ASSUME HeightInv, TypeOK, PickOK, [AttemptNext]_avars
    PROVE  HeightInv'
<1>1. DOMAIN run' = RunFields
  BY RunFieldsStay DEF HeightInv
<1>2. CASE Start
  <2>1. run'.at = "resolving" /\ run'.target = AttemptHeight(dl)
    BY <1>2 DEF Start, Idle
  <2>2. dl'.cdnFailures = dl.cdnFailures
    BY <1>2 DEF Start, Begin, TypeOK, Bookkeeping
  <2>3. AskedFor(dl'.cdnFailures) = AskedFor(dl.cdnFailures)
    BY <2>2
  <2>4. run'.target \in AskedFor(dl'.cdnFailures)
    BY <2>1, <2>3, AskedAtStart
  <2>5. QED
    BY <1>1, <2>1, <2>4 DEF HeightInv, NoSilentUpgrade
<1>3. CASE LookupFails \/ Stopped
  <2>1. run'.at = "ended" /\ run'.ending \in {"lookup", "stopped"}
    BY <1>3 DEF LookupFails, Stopped, Ended, Idle
  <2>2. QED
    BY <1>1, <2>1 DEF HeightInv, NoSilentUpgrade
<1>4. CASE Finish
  <2>1. PICK ending \in Endings :
            /\ IF ending = "ok" THEN Complete ELSE Fail(Verdict(ending))
            /\ Ended(ending)
    BY <1>4 DEF Finish
  <2>2. run'.at = "ended" /\ run'.ending = ending /\ run'.target = run.target
    BY <2>1 DEF Ended, Idle
  <2>3. CASE ending \in {"error", "short"}
    <3>1. run.at # "ended"
      BY <2>1 DEF Endings
    <3>2. Verdict(ending).code \in CdnCodes /\ ~IsRefusal(Verdict(ending))
      BY <2>3 DEF Verdict, IsRefusal, CdnCodes
    <3>3. dl' = Failed(dl, Verdict(ending), cooling)
      BY <2>1, <2>3 DEF Fail
    <3>4. dl'.cdnFailures = dl.cdnFailures + 1 /\ dl'.code \in CdnCodes
      BY <3>2, <3>3, CdnCharged, VerdictIsCause DEF TypeOK
    <3>5. dl.cdnFailures \in Nat
      BY DEF TypeOK, Bookkeeping
    <3>6. dl'.cdnFailures - 1 = dl.cdnFailures /\ dl'.cdnFailures > 0
      BY <3>4, <3>5
    <3>7. run'.target \in AskedFor(dl'.cdnFailures - 1)
      BY <2>2, <3>1, <3>6 DEF HeightInv
    <3>8. QED
      BY <1>1, <2>2, <3>4, <3>6, <3>7 DEF HeightInv, NoSilentUpgrade
  <2>4. CASE ending \notin {"error", "short"}
    BY <1>1, <2>2, <2>4 DEF HeightInv, NoSilentUpgrade
  <2>5. QED
    BY <2>3, <2>4
<1>5. CASE Pick \/ Open \/ Progress \/ Tick
  <2>1. /\ run.at # "ended" /\ run'.at # "ended" /\ run'.target = run.target
        /\ dl'.cdnFailures = dl.cdnFailures
    <3>1. CASE Pick
      BY <3>1 DEF Pick, Fetch, TypeOK, Bookkeeping, HeightInv, RunFields
    <3>2. CASE Open
      BY <3>2 DEF Open, Runs, vars, HeightInv, RunFields
    <3>3. CASE Progress \/ Tick
      BY <3>3 DEF Progress, Tick, vars, HeightInv, RunFields
    <3>4. QED
      BY <1>5, <3>1, <3>2, <3>3
  <2>2. NoSilentUpgrade'
    <3>1. CASE Pick
      BY <3>1 DEF Pick, NoSilentUpgrade, HeightInv, RunFields
    <3>2. CASE Progress \/ Tick
      BY <3>2 DEF Progress, Tick, NoSilentUpgrade, HeightInv, RunFields
    <3>3. QED
      BY <1>5, <3>1, <3>2, OpenFits
  <2>3. run'.target \in AskedFor(dl'.cdnFailures)
    BY <2>1 DEF HeightInv
  <2>4. QED
    BY <1>1, <2>1, <2>2, <2>3 DEF HeightInv
<1>6. CASE Cooldown \/ UNCHANGED avars
  BY <1>6 DEF Cooldown, CooldownChanges, avars, vars, HeightInv, NoSilentUpgrade
<1>7. QED
  BY <1>2, <1>3, <1>4, <1>5, <1>6 DEF AttemptNext

LEMMA HeightAlways == AttemptSpec => [](HeightInv /\ TypeOK)
<1>1. AttemptInit => HeightInv /\ PickOK
  BY DEF AttemptInit, HeightInv, NoSilentUpgrade, Idle, RunFields, PickOK, NoStream
<1>2. HeightInv /\ TypeOK /\ PickOK /\ [AttemptNext]_avars => HeightInv'
  BY HeightStays
<1>3. PickOK /\ [AttemptNext]_avars => PickOK'
  BY PickStays
<1>4. AttemptSpec => []TypeOK
  BY AttemptsImplement, TypeCorrect, PTL
<1>5. QED
  BY <1>1, <1>2, <1>3, <1>4, PTL DEF AttemptSpec

(* Whatever an HLS master lists, and whatever hidden 1080p stream there is,    *)
(* ffmpeg is given more than was asked for only when the master lists no less. *)
THEOREM Upgrades == AttemptSpec => []NoSilentUpgrade
<1>1. HeightInv => NoSilentUpgrade
  BY DEF HeightInv
<1>2. QED
  BY <1>1, HeightAlways, PTL

(* For any requested height and any way there, the attempt after a CDN failure *)
(* asks for less than the failed one, or for the lowest rung.                  *)
THEOREM Lowers == AttemptSpec => CdnFailureLowers
<1> DEFINE A == run.at = "ended" /\ run.ending \in {"error", "short"} /\ run'.at = "resolving"
                   => \/ run'.target < run.target
                      \/ run'.target = qualityLadder[Lowest]
<1>1. HeightInv /\ TypeOK /\ [AttemptNext]_avars => [A]_avars
  <2> SUFFICES ASSUME HeightInv, TypeOK, AttemptNext, run.at = "ended",
                      run.ending \in {"error", "short"}, run'.at = "resolving"
               PROVE  \/ run'.target < run.target
                      \/ run'.target = qualityLadder[Lowest]
    OBVIOUS
  <2>1. Start
    <3>1. CASE LookupFails \/ Stopped \/ Finish
      BY <3>1 DEF LookupFails, Stopped, Finish, Ended, Idle
    <3>2. CASE Cooldown
      BY <3>2 DEF Cooldown
    <3>3. CASE Pick \/ Open \/ Progress \/ Tick
      BY <3>3 DEF Pick, Open, Progress, Tick
    <3>4. QED
      BY <3>1, <3>2, <3>3 DEF AttemptNext
  <2>2. run'.target = AttemptHeight(dl)
    BY <2>1 DEF Start, Idle
  <2>3. /\ dl.cdnFailures \in Nat /\ dl.cdnFailures > 0
        /\ run.target \in AskedFor(dl.cdnFailures - 1) /\ ShouldDegrade(dl)
    BY DEF HeightInv, TypeOK, Bookkeeping, ShouldDegrade
  <2>4. run'.target = DegradeHeight(Requested, dl.cdnFailures)
    BY <2>2, <2>3 DEF AttemptHeight
  <2>5. QED
    BY <2>3, <2>4, OneDown DEF AskedFor
<1>2. QED
  BY <1>1, HeightAlways, PTL DEF AttemptSpec, CdnFailureLowers
====
