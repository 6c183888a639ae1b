-------------------------------- MODULE Attempt --------------------------------
(* The attempts of one download row in full: the height an attempt asks for   *)
(* (attemptQuality), the stream and supplier it picks (pickStream), the HLS   *)
(* rendition (resolveHLSVariant), the ffmpeg run with its progress watchdog   *)
(* (RunFFmpeg), and how the way the run ended becomes the failure that        *)
(* RetryBudget charges (supplierRefusal, processDownload).                    *)
(*                                                                            *)
(* Time is the watchdog's tick, muxed time a number of steps; variants of a   *)
(* master playlist are their heights, 0 for one without a RESOLUTION tag.     *)
EXTENDS RetryBudget, FiniteSetsExt, Sequences

CONSTANTS
    Requested,      \* dl.Quality, as a height
    Offers,         \* mediaselector answers: sequences of [height, supplier, hls]
    Playlists,      \* sets of variants a master playlist may list
    Base,           \* the watchdog's window, in ticks
    MaxTimeout,     \* watchdogEscalationMaxTimeout
    Grace,          \* faststartFinalizeGrace
    Duration        \* the programme's length, in steps of muxed time

ASSUME OffersAssumption ==
    \A streams \in Offers : \A i \in DOMAIN streams :
        streams[i].supplier \in Suppliers \cup {Empty}

ASSUME HeightsAssumption ==
    Requested \in Int /\ \A listed \in Playlists : listed \subseteq Nat

VARIABLES run,      \* the attempt under way, or how the last one ended
          pick,     \* its stream
          refusers  \* history: the named suppliers that have refused
avars == <<vars, run, pick, refusers>>

-------------------------------------------------------------------------------
(* The height of an attempt.                                                 *)

qualityLadder == <<2160, 1080, 720, 540, 396>>
Lowest == Len(qualityLadder)

(* A variant with a bug: one rung down, however many failures there were.    *)
DegradeOneRung(requested, steps) ==
    IF steps < 1 THEN requested
    ELSE qualityLadder[Min({Lowest, 1 + Min({Lowest} \cup
             {i \in 1 .. Lowest : requested >= qualityLadder[i]})})]

DegradeHeight(requested, steps) ==
    IF steps < 1 THEN requested
    ELSE qualityLadder[Min({Lowest, steps + Min({Lowest} \cup
             {i \in 1 .. Lowest : requested >= qualityLadder[i]})})]

ShouldDegrade(row) == row.cdnFailures > 0 /\ row.code \in CdnCodes

AttemptHeight(row) == IF ShouldDegrade(row)
                      THEN DegradeHeight(Requested, row.cdnFailures)
                      ELSE Requested

-------------------------------------------------------------------------------
(* The stream and the rendition.                                             *)

(* A variant with a bug: the first stream, whoever refused.                  *)
PickFirst(streams, target, excluded) == {1}

(* The index of the first HLS stream, else of the first, nearest to the      *)
(* target; suppliers that refused are left out unless that leaves nothing.   *)
Distance(s, target) == IF s.height > target THEN s.height - target
                                            ELSE target - s.height
Nearest(streams, target) ==
    {i \in DOMAIN streams : \A j \in DOMAIN streams :
        Distance(streams[i], target) <= Distance(streams[j], target)}

PickStream(streams, target, excluded) ==
    LET nearest == Nearest(streams, target)
        willing == {i \in nearest : streams[i].supplier \notin excluded}
        allowed == IF willing = {} THEN nearest ELSE willing
        hls     == {i \in allowed : streams[i].hls}
        best    == IF hls = {} THEN allowed ELSE hls
    IN  {i \in best : \A j \in best : i <= j}

(* The listed height at or below the target, else the lowest; 0 if unknown.  *)
SelectVariant(listed, target) ==
    LET known == listed \ {0}
        below == {h \in known : h <= target}
    IN  CASE known = {} -> 0
          [] below # {} -> Max(below)
          [] OTHER      -> Min(known)

(* A variant with a bug: an unlisted 1080p stream is taken whenever there is *)
(* one.                                                                      *)
RenditionUpgraded(listed, target, hidden) ==
    IF hidden THEN 1080 ELSE SelectVariant(listed, target)

(* An unlisted 1080p stream serves only those who asked for 1080p.           *)
Rendition(listed, target, hidden) ==
    LET selected == SelectVariant(listed, target)
    IN  IF hidden /\ target >= 1080 /\ selected < 1080 THEN 1080 ELSE selected

-------------------------------------------------------------------------------
(* The ffmpeg run.                                                           *)

NoStream == [height |-> 0, supplier |-> Empty, hls |-> FALSE]

Idle == [at |-> "ended", ending |-> "none", target |-> Requested,
         streams |-> << >>, listed |-> {}, height |-> 0, silent |-> 0, muxed |-> 0]

(* The window doubles with each stall charged, twice at most.                *)
EscalateWatchdog(stalls) ==
    Max({Base, Min({Base * 2 ^ Min({stalls, 2}), MaxTimeout})})

(* While ffmpeg relocates the moov atom it is silent.                        *)
Threshold == LET window == EscalateWatchdog(dl.stallCount)
             IN  IF run.muxed = Duration THEN Max({window, Grace}) ELSE window

(* The ticks are not aligned with the progress lines: the tick at which the  *)
(* silence reaches the window may still find it a little shorter.            *)
Fires(silent) == silent > Threshold
MayFire(silent) == silent >= Threshold

(* How an attempt's ending is charged: a run the watchdog killed is a stall  *)
(* whatever ffmpeg said; a refusal is one by the picked supplier.            *)
Verdict(ending) ==
    [code |-> CASE ending = "stalled" -> "stalled"
                [] ending = "short"   -> "truncated"
                [] OTHER              -> "ffmpeg_error",
     refusedBy |-> IF ending = "refused" THEN pick.supplier ELSE "none"]

Ended(ending) == /\ run' = [Idle EXCEPT !.ending = ending, !.target = run.target]
                 /\ pick' = NoStream

AttemptInit == Init /\ run = Idle /\ pick = NoStream /\ refusers = {}

Start == /\ Begin
         /\ run' = [Idle EXCEPT !.at = "resolving", !.target = AttemptHeight(dl)]
         /\ UNCHANGED <<pick, refusers>>

(* The playlist or the media selector fails.                                 *)
LookupFails == /\ run.at = "resolving"
               /\ \E cause \in Causes : Fail(cause)
               /\ Ended("lookup")
               /\ UNCHANGED refusers

Pick == /\ run.at = "resolving"
        /\ Fetch
        /\ \E streams \in Offers :
              \E i \in PickStream(streams, run.target, dl.failedSuppliers) :
                 /\ run' = [run EXCEPT !.at = "opening", !.streams = streams]
                 /\ pick' = streams[i]
        /\ UNCHANGED refusers

(* The rendition is known and ffmpeg starts; a DASH stream lists no others.  *)
Runs(listed, height) ==
    run' = [run EXCEPT !.at = "running", !.streams = << >>,
                       !.listed = listed, !.height = height]
Open == /\ run.at = "opening"
        /\ \/ ~pick.hls /\ Runs({}, pick.height)
           \/ /\ pick.hls
              /\ \E listed \in Playlists, hidden \in BOOLEAN :
                    Runs(listed, Rendition(listed, run.target, hidden))
        /\ UNCHANGED <<vars, pick, refusers>>

(* ffmpeg prints a progress line: the silence is over, whether or not its    *)
(* time= says that more has been muxed.                                      *)
Progress == /\ run.at = "running"
            /\ \E muxed \in {run.muxed, Min({run.muxed + 1, Duration})} :
                  run' = [run EXCEPT !.muxed = muxed, !.silent = 0]
            /\ UNCHANGED <<vars, pick, refusers>>

(* A variant with a bug: nothing watches the run.                            *)
TickUnwatched == run.at = "running" /\ UNCHANGED avars

(* Time passes, and the watchdog looks.                                      *)
Tick == /\ run.at = "running"
        /\ LET silent == run.silent + 1
           IN  \/ /\ ~Fires(silent)
                  /\ run' = [run EXCEPT !.silent = silent]
               \/ /\ MayFire(silent)
                  /\ run' = [run EXCEPT !.at = "killed"]
        /\ UNCHANGED <<vars, pick, refusers>>

(* The endings there are: a killed run that had already succeeded counts,    *)
(* if its file can be looked at.                                             *)
Endings == CASE run.at = "opening" -> {"error"} \cup
                                      (IF pick.hls THEN {"refused"} ELSE {})
             [] run.at = "running" -> {"ok", "short", "error", "refused"}
             [] run.at = "killed"  -> {"stalled", "ok", "short", "error"}
             [] OTHER              -> {}

Finish == \E ending \in Endings :
            /\ IF ending = "ok" THEN Complete ELSE Fail(Verdict(ending))
            /\ Ended(ending)
            /\ refusers' = IF ending = "refused"
                           THEN refusers \cup ({pick.supplier} \ {Empty})
                           ELSE refusers

Stopped == Stop /\ Ended("stopped") /\ UNCHANGED refusers

Cooldown == CooldownChanges /\ UNCHANGED <<run, pick, refusers>>

AttemptNext == \/ Start \/ LookupFails \/ Pick \/ Open \/ Progress \/ Tick
               \/ Finish \/ Stopped \/ Cooldown

(* The worker claims what is claimable and its calls return; time passes; a  *)
(* killed ffmpeg ends; the process is not stopped for ever.  A running       *)
(* ffmpeg may fall silent at any point and never end; one that goes on       *)
(* printing for ever nothing would end, and it is assumed to end by itself.  *)
AttemptFairness ==
    /\ WF_avars(Start) /\ WF_avars(LookupFails \/ Pick) /\ WF_avars(Open)
    /\ WF_avars(Tick) /\ WF_avars(run.at = "killed" /\ Finish)
    /\ <>[][~Stopped]_avars
    /\ (<>[][~Progress]_avars) \/ []<>(run.at # "running")

AttemptSpec == AttemptInit /\ [][AttemptNext]_avars /\ AttemptFairness

-------------------------------------------------------------------------------
(* A supplier that refused any earlier attempt is asked again only when      *)
(* every supplier listing the nearest height has refused: so the retries go  *)
(* round the suppliers, through failDownload's record and pickStream's use   *)
(* of it (#55).                                                              *)
SuppliersAlternate ==
    run.at = "opening" /\ pick.supplier \in refusers =>
        \A i \in Nearest(run.streams, run.target) :
            run.streams[i].supplier \in refusers

(* A request is never silently upgraded: of an HLS master, ffmpeg is given a *)
(* rendition above the target only when nothing at or below it is listed     *)
(* (#45).  The choice between streams is by nearest height, either way.      *)
NoSilentUpgrade ==
    run.at = "running" /\ pick.hls /\ run.height > run.target =>
        \A h \in run.listed : h = 0 \/ h > run.target

(* After a CDN failure the next attempt asks for less, down to the lowest    *)
(* rung, whatever stalls, refusals and waits came between its failures: the  *)
(* identical stream is not pulled again (degradeHeight, #46).                *)
CdnFailureLowers ==
    [][run.at = "ended" /\ run.ending \in {"error", "short"} /\ run'.at = "resolving"
         => \/ run'.target < run.target
            \/ run'.target = qualityLadder[Lowest]]_avars
===============================================================================
