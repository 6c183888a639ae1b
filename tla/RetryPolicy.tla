------------------------------ MODULE RetryPolicy ------------------------------
(* What internal/download/worker.go does to a download row when an attempt   *)
(* fails: which budget the failure is charged to, whether the row may be     *)
(* tried again, and after how long.  Pure operators; RetryBudget runs them   *)
(* as a state machine and DownloadManager uses them inside its workers.      *)
EXTENDS Integers

CONSTANTS
    MaxRetries,                 \* maxRetries
    MaxNotYetAvailableRetries,  \* maxNotYetAvailableRetries
    MaxMetadataFailures,        \* maxMetadataFailures
    MaxStalls,                  \* maxStalls
    MaxStallCredits,            \* maxStallCredits
    Suppliers                   \* the named CDN suppliers, strings

ASSUME BudgetsAssumption ==
    /\ {MaxRetries, MaxNotYetAvailableRetries, MaxMetadataFailures, MaxStalls}
           \subseteq Nat \ {0}
    /\ MaxStallCredits \in Nat
    /\ MaxRetries <= MaxNotYetAvailableRetries

Empty == ""     \* the empty error code, the empty supplier name

ASSUME SuppliersAssumption == Suppliers \cap {Empty, "none"} = {}

CdnCodes       == {"ffmpeg_error", "truncated"}
PermanentCodes == {"geo_blocked", "expired"}
Codes == CdnCodes \cup PermanentCodes \cup
         {"stream_unavailable", "not_yet_available", "metadata_unavailable", "stalled"}

Statuses == {"pending", "resolving", "downloading", "completed", "failed"}

(* Why an attempt failed.  refusedBy is "none" unless the error is a         *)
(* supplierRefusedError, and "" when the refusing supplier has no name.      *)
Causes == {c \in [code : Codes, refusedBy : Suppliers \cup {Empty, "none"}] :
               c.refusedBy # "none" => c.code = "ffmpeg_error"}

IsRefusal(cause) == cause.refusedBy # "none"

(* The fields of store.Download that failDownload reads or writes.           *)
Bookkeeping ==
    [status : Statuses, code : Codes \cup {Empty}, retryable : BOOLEAN,
     retryCount : Nat, cdnFailures : Nat, stallCount : Nat, stallCredits : Nat,
     metadataFailures : Nat, failedSuppliers : SUBSET Suppliers]

FreshBookkeeping ==
    [status |-> "pending", code |-> Empty, retryable |-> FALSE,
     retryCount |-> 0, cdnFailures |-> 0, stallCount |-> 0, stallCredits |-> 0,
     metadataFailures |-> 0, failedSuppliers |-> {}]

-------------------------------------------------------------------------------
(* Variants with a bug, for checking that the properties notice: a frozen    *)
(* stall charged to nothing; the freeze without its bound; a refusal counted *)
(* against the quality as well as the supplier.                              *)
FreezeForFree(dl) == dl
FrozenUnbounded(dl, cooling) == cooling
RefusalDegrades(dl, supplier) ==
    [dl EXCEPT !.retryCount = @ + 1, !.cdnFailures = @ + 1,
               !.failedSuppliers = @ \cup ({supplier} \ {Empty})]

(* A stall costs one of MaxStalls; while a cooldown is active it is frozen,  *)
(* paid with one of MaxStallCredits instead (StallCount++, --, Credits++).   *)
Stall(dl)  == [dl EXCEPT !.stallCount = @ + 1]
Freeze(dl) == [dl EXCEPT !.stallCredits = @ + 1]
Frozen(dl, cooling) == cooling /\ dl.stallCredits < MaxStallCredits

(* A refusal is charged to the supplier, if it has a name, and not to the    *)
(* quality (#55).                                                            *)
Refused(dl, supplier) == [dl EXCEPT !.retryCount = @ + 1,
                                    !.failedSuppliers = @ \cup ({supplier} \ {Empty})]

(* The charge: which counter one failed attempt moves.                       *)
Charge(dl, cause, cooling) ==
    CASE cause.code = "stalled" ->
             IF Frozen(dl, cooling) THEN Freeze(dl) ELSE Stall(dl)
      [] cause.code = "metadata_unavailable" ->
             [dl EXCEPT !.metadataFailures = @ + 1]
      [] IsRefusal(cause) -> Refused(dl, cause.refusedBy)
      [] cause.code \in CdnCodes /\ ~IsRefusal(cause) ->
             [dl EXCEPT !.retryCount = @ + 1, !.cdnFailures = @ + 1]
      [] OTHER -> [dl EXCEPT !.retryCount = @ + 1]

(* Variants with a bug: the metadata budget shared with the others; success  *)
(* wiping the record.                                                        *)
MetadataLeftShared(dl) == dl.metadataFailures + dl.retryCount < MaxMetadataFailures
CompletedAfresh(dl)    == [dl EXCEPT !.status = "completed", !.code = Empty,
                                     !.retryable = FALSE, !.cdnFailures = 0]

(* Whether budget is left after the charge.                                  *)
TriesLeft(dl)    == dl.retryCount < MaxRetries
MetadataLeft(dl) == dl.metadataFailures < MaxMetadataFailures

MayRetry(dl, code) ==
    CASE code = "stalled"              -> dl.stallCount < MaxStalls
      [] code = "metadata_unavailable" -> MetadataLeft(dl)
      [] code = "not_yet_available"    -> dl.retryCount < MaxNotYetAvailableRetries
      [] code \in PermanentCodes       -> FALSE
      [] OTHER                         -> TriesLeft(dl)

(* The row failDownload stores.                                              *)
Failed(dl, cause, cooling) ==
    LET charged == Charge(dl, cause, cooling)
    IN  [charged EXCEPT !.status = "failed",
                        !.code = cause.code,
                        !.retryable = MayRetry(charged, cause.code)]

(* The row processDownload stores on success: the counters and the refused   *)
(* suppliers stay as a record, the failure itself is dropped.                *)
Completed(dl) == [dl EXCEPT !.status = "completed", !.code = Empty, !.retryable = FALSE]

(* A row the worker loop may pick up, the RetryAfter clock aside.            *)
Claimable(dl) == dl.status = "pending" \/ (dl.status = "failed" /\ dl.retryable)

InProgress(dl) == dl.status \in {"resolving", "downloading"}
GivenUp(dl)    == dl.status = "failed" /\ ~dl.retryable
Terminal(dl)   == dl.status = "completed" \/ GivenUp(dl)
===============================================================================
