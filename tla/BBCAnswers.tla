---------------------------- MODULE BBCAnswers ----------------------------
(* What the BBC clients make of the BBC's answers, as pure operators: the  *)
(* retry loop of bbc.Client, the choice of a version in iBL's episode      *)
(* answer (playlist.go), mediaselector's failover over mediasets and       *)
(* versions, and the check of a 1080p claim against the HLS master         *)
(* (fhdprobe.go).  An HTTP body is a record of the facts the code reads    *)
(* from it; a set of heights stands for the descending list without        *)
(* repeats that prober.go keeps.                                           *)
EXTENDS Naturals, Sequences, FiniteSetsExt

FullHD == 1080
MinHD == 720

MaxRetry == 3

Replies == {"body", "refused", "broken"}   \* 2xx, 4xx, 5xx or transport error

(* The first reply that is a body or a 4xx ends the retries; "broken" is   *)
(* the error left after the last attempt.                                  *)
Fetch(replies) ==
  LET decisive == {i \in DOMAIN replies : replies[i] # "broken"}
  IN IF decisive = {} THEN "broken" ELSE replies[Min(decisive)]

(* Every way a fetch can end, whatever the network does.                   *)
Fetched == {Fetch(replies) : replies \in [1..MaxRetry -> Replies]}

LiveKinds == {"simulcast", "webcast"}
AccessibleKinds == {"audiodescribed", "signed", "combined"}

(* pickVersion: a started on-demand version; failing that "nya" when one   *)
(* starts later, and only then an audio-described or signed version.       *)
PickVersion(versions) ==
  LET ofKind(K) == {i \in DOMAIN versions : versions[i].kind \in K}
      onDemand == DOMAIN versions \ ofKind(LiveKinds \cup AccessibleKinds)
      started(I) == {i \in I : versions[i].started}
  IN CASE started(onDemand) # {} -> "original"
       [] started(onDemand) = {} /\ onDemand # {} -> "nya"
       [] onDemand = {} /\ started(ofKind(AccessibleKinds)) # {} -> "accessible"
       [] OTHER -> "nya"

Resolutions == {"original", "accessible", "nya", "error"}

(* PlaylistResolver.ResolveCtx on the episode a fetch brought back.        *)
Resolve(fetched, episode) ==
  CASE fetched # "body" -> "error"
    [] fetched = "body" /\ (~episode.listed \/ episode.live) -> "nya"
    [] OTHER -> PickVersion(episode.versions)

(* MediaSelector.ResolveCtx: four attempts, two mediasets of two versions  *)
(* each.  The first with video wins, a geo block ends it, and without      *)
(* either the BBC has answered when one attempt got a document or a 404.   *)
Attempts == 1..4
SelectorReplies == {"video", "geo", "answer", "broken"}

Select(replies) ==
  LET final == {i \in DOMAIN replies : replies[i] \in {"video", "geo"}}
  IN CASE final # {} -> replies[Min(final)]
       [] final = {} /\ "answer" \in {replies[i] : i \in DOMAIN replies} -> "no streams"
       [] OTHER -> "unavailable"

Selected == {Select(replies) : replies \in [Attempts -> SelectorReplies]}

(* probeHiddenFHDIn on one HLS master: "none" is the answer that may be    *)
(* cached for ever, "transient" the one that may not.  rewrite is what the *)
(* video=12000000 rewrite of the best variant serves.                      *)
HiddenFHD(master) ==
  CASE ~master.rewritable -> "none"
    [] master.rewritable /\ master.listed \in 1..(MinHD - 1) -> "none"
    [] OTHER -> IF master.rewrite = "video" THEN "found" ELSE "none"

(* VerifyFHD: a master that lists 1080 needs no rewrite.                   *)
VerifyFHD(master) == master.listed >= FullHD \/ HiddenFHD(master) = "found"

(* Mutation of Verified: mediaselector's claim is believed.                *)
Believed(heights, master) == heights \cup {master.listed}

(* The heights of probeOne once a claim of 1080 is held against what the   *)
(* master lists (0 when it carries no RESOLUTION tag).                     *)
Verified(heights, master) ==
  CASE ~VerifyFHD(master) /\ master.listed > 0 -> (heights \ {FullHD}) \cup {master.listed}
    [] VerifyFHD(master) /\ master.listed \in 1..(FullHD - 1) -> heights \cup {master.listed}
    [] OTHER -> heights

(* The check is made when there is an HLS master and the best height is    *)
(* 720 or more.                                                            *)
NeedsCheck(heights, hls) == hls /\ \E h \in heights : h >= MinHD

Checked(heights, master) ==
  CASE FullHD \in heights -> Verified(heights, master)
    [] FullHD \notin heights /\ HiddenFHD(master) = "found" -> heights \cup {FullHD}
    [] OTHER -> heights

(* verifyFHDWithFailover, probeHiddenFHDWithFailover: suppliers 1..n are   *)
(* asked in turn until one answers; late is the probe's deadline passing   *)
(* while the first of them refuses.                                        *)
Failover(n, refusing, late) ==
  IF 1..n \subseteq refusing \/ (late /\ 1 \in refusing)
  THEN "transient" ELSE "answered"
============================================================================
