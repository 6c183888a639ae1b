------------------------------ MODULE RetryBudget ------------------------------
(* The life of one download row under every sequence of outcomes its         *)
(* attempts can have: the retry budgets of failDownload run to the end.      *)
(* The tally is a history variable: how many attempts failed, by kind.       *)
EXTENDS RetryPolicy

VARIABLES dl,       \* the row
          cooling,  \* throttle.inCooldown(), driven by other downloads
          tally     \* failed attempts so far, by the kind of their failure
vars == <<dl, cooling, tally>>

Kinds == {"stalled", "metadata", "waiting", "cdn", "other"}

(* "cdn" is what ffmpeg made of the CDN's stream; a supplier refusing to     *)
(* serve it at all is among the others.                                      *)
Kind(cause) == CASE cause.code = "stalled"              -> "stalled"
                 [] cause.code = "metadata_unavailable" -> "metadata"
                 [] cause.code = "not_yet_available"    -> "waiting"
                 [] cause.code \in CdnCodes /\ ~IsRefusal(cause) -> "cdn"
                 [] OTHER                               -> "other"

Init == /\ dl = FreshBookkeeping
        /\ cooling = FALSE
        /\ tally = [k \in Kinds |-> 0]

(* A worker claims the row and starts an attempt.                            *)
Begin == /\ Claimable(dl)
         /\ dl' = [dl EXCEPT !.status = "resolving"]
         /\ UNCHANGED <<cooling, tally>>

(* The BBC lookups answered and ffmpeg is running.                           *)
Fetch == /\ dl.status = "resolving"
         /\ dl' = [dl EXCEPT !.status = "downloading"]
         /\ UNCHANGED <<cooling, tally>>

(* The codes an attempt can end with before and after ffmpeg starts.         *)
Reachable(cause) ==
    CASE dl.status = "resolving"   -> cause.code \in {"not_yet_available",
             "metadata_unavailable", "geo_blocked", "stream_unavailable"}
      [] dl.status = "downloading" -> cause.code \in CdnCodes \cup {"stalled"}
      [] OTHER -> FALSE

Fail(cause) == /\ Reachable(cause)
               /\ dl' = Failed(dl, cause, cooling)
               /\ tally' = [tally EXCEPT ![Kind(cause)] = @ + 1]
               /\ UNCHANGED cooling

Complete == /\ dl.status = "downloading"
            /\ dl' = Completed(dl)
            /\ UNCHANGED <<cooling, tally>>

(* A shutdown puts the row back to pending, its last failure kept.           *)
Stop == /\ InProgress(dl)
        /\ dl' = [dl EXCEPT !.status = "pending"]
        /\ UNCHANGED <<cooling, tally>>

(* Other downloads open a cooldown, time ends it.                            *)
CooldownChanges == /\ cooling' = ~cooling
                   /\ UNCHANGED <<dl, tally>>

End == (\E cause \in Causes : Fail(cause)) \/ Complete

Next == Begin \/ Fetch \/ End \/ Stop \/ CooldownChanges

Spec == Init /\ [][Next]_vars

-------------------------------------------------------------------------------
Hard  == tally["cdn"] + tally["other"]
Total == tally["stalled"] + tally["metadata"] + tally["waiting"] + Hard

TypeOK == /\ dl \in Bookkeeping
          /\ cooling \in BOOLEAN
          /\ tally \in [Kinds -> Nat]

(* Every failed attempt is charged to exactly one budget, so that nothing a  *)
(* download goes through is free: the counters of the row add up to the      *)
(* attempts that failed (failDownload's StallCount--, StallCredits++ swap    *)
(* moves a stall between budgets, it never loses one).                       *)
EveryFailureCharged ==
    /\ tally["stalled"]  = dl.stallCount + dl.stallCredits
    /\ tally["metadata"] = dl.metadataFailures
    /\ tally["waiting"] + Hard = dl.retryCount

(* The dedicated budgets are dedicated: a row given up on a stall stalled    *)
(* MaxStalls times outside a cooldown, one given up on metadata had          *)
(* MaxMetadataFailures of those, whatever else happened to it in between     *)
(* (#50, #57), and a publication window is given up no later than it says.   *)
DedicatedBudgets ==
    GivenUp(dl) =>
        CASE dl.code = "stalled" ->
                 tally["stalled"] - dl.stallCredits = MaxStalls
          [] dl.code = "metadata_unavailable" ->
                 tally["metadata"] = MaxMetadataFailures
          [] dl.code = "not_yet_available" ->
                 /\ tally["waiting"] + Hard = MaxNotYetAvailableRetries
                 /\ Hard < MaxRetries
          [] OTHER -> TRUE

(* A stream that never works reaches permanence in bounded cycles: frozen    *)
(* stalls included, no download is attempted more often than its budgets     *)
(* together allow (throttle.go, maxStallCredits).                            *)
MaxAttempts == (MaxNotYetAvailableRetries - 1) + (MaxMetadataFailures - 1)
               + (MaxStalls - 1) + MaxStallCredits + 1
AttemptsBounded == Total <= MaxAttempts

(* Quality is stepped down once for every stream the CDN failed to deliver,  *)
(* and for nothing else: stalls, refusals, geo-blocks, waits and metadata    *)
(* failures between them leave CDNFailures alone, and a row that can still   *)
(* be tried has lost fewer rungs than the retry budget (#46, #55, #56).      *)
DegradeIsEarned ==
    /\ dl.cdnFailures = tally["cdn"]
    /\ Claimable(dl) \/ InProgress(dl) => dl.cdnFailures < MaxRetries

(* CDNFailures and FailedSuppliers are never reset (types.go), and neither   *)
(* is any other budget: no counter goes down while the row is tried again.   *)
CountersNeverReset ==
    [][/\ dl'.cdnFailures >= dl.cdnFailures
       /\ dl.failedSuppliers \subseteq dl'.failedSuppliers
       /\ dl'.retryCount >= dl.retryCount
       /\ dl'.stallCount >= dl.stallCount
       /\ dl'.stallCredits >= dl.stallCredits
       /\ dl'.metadataFailures >= dl.metadataFailures]_dl

(* Whatever the outcomes, the row ends completed or given up: no attempt     *)
(* hangs on an ffmpeg that has fallen silent, and no row is tried for ever.  *)
EventuallySettled == <>[]Terminal(dl)
===============================================================================
