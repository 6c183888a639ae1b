--------------------------- MODULE RetryPolicy_proofs ---------------------------
(* Facts about the retry policy that hold for any row, whatever other fields  *)
(* the row has: used for RetryBudget's rows and for DownloadManager's.        *)
EXTENDS RetryPolicy, TLAPS

LEMMA BudgetTypes ==
    /\ MaxRetries \in Nat /\ MaxRetries > 0
    /\ MaxNotYetAvailableRetries \in Nat /\ MaxNotYetAvailableRetries >= MaxRetries
    /\ MaxMetadataFailures \in Nat /\ MaxMetadataFailures > 0
    /\ MaxStalls \in Nat /\ MaxStalls > 0
    /\ MaxStallCredits \in Nat
BY BudgetsAssumption

LEMMA CauseType ==
    ASSUME NEW cause \in Causes
    PROVE  /\ cause.code \in Codes
           /\ cause.refusedBy \in Suppliers \cup {Empty, "none"}
           /\ IsRefusal(cause) => cause.code = "ffmpeg_error"
BY DEF Causes, IsRefusal

LEMMA MayRetryType ==
    ASSUME NEW d, NEW code \in Codes
    PROVE  MayRetry(d, code) \in BOOLEAN
<1>1. CASE code = "stalled"
  BY <1>1 DEF MayRetry, PermanentCodes
<1>2. CASE code = "metadata_unavailable"
  BY <1>2 DEF MayRetry, MetadataLeft, PermanentCodes
<1>3. CASE code = "not_yet_available"
  BY <1>3 DEF MayRetry, PermanentCodes
<1>4. CASE code \in PermanentCodes
  BY <1>4 DEF MayRetry, PermanentCodes
<1>5. CASE code \notin PermanentCodes \cup {"stalled", "metadata_unavailable",
                                            "not_yet_available"}
  <2>1. MayRetry(d, code) = TriesLeft(d)
    BY <1>5 DEF MayRetry
  <2>2. QED
    BY <2>1 DEF TriesLeft
<1>6. QED
  BY <1>1, <1>2, <1>3, <1>4, <1>5

(* The five ways an attempt can be charged.                                   *)
LEMMA ChargeCases ==
    ASSUME NEW d, NEW cause \in Causes, NEW cool
    PROVE  LET c == Charge(d, cause, cool)
           IN  \/ cause.code = "stalled" /\ Frozen(d, cool) /\ c = Freeze(d)
               \/ cause.code = "stalled" /\ c = Stall(d)
               \/ /\ cause.code = "metadata_unavailable"
                  /\ c = [d EXCEPT !.metadataFailures = @ + 1]
               \/ /\ cause.code = "ffmpeg_error" /\ IsRefusal(cause)
                  /\ {cause.refusedBy} \ {Empty} \in SUBSET Suppliers
                  /\ c = [d EXCEPT !.retryCount = @ + 1,
                       !.failedSuppliers = @ \cup ({cause.refusedBy} \ {Empty})]
               \/ /\ cause.code \in CdnCodes /\ ~IsRefusal(cause)
                  /\ c = [d EXCEPT !.retryCount = @ + 1, !.cdnFailures = @ + 1]
               \/ /\ cause.code \notin {"stalled", "metadata_unavailable"}
                  /\ cause.code \notin CdnCodes /\ ~IsRefusal(cause)
                  /\ c = [d EXCEPT !.retryCount = @ + 1]
<1> DEFINE c == Charge(d, cause, cool)
<1>1. CASE cause.code = "stalled" /\ Frozen(d, cool)
  <2>1. c = Freeze(d)
    BY <1>1 DEF Charge, Causes, IsRefusal, CdnCodes
  <2>2. QED
    BY <1>1, <2>1
<1>2. CASE cause.code = "stalled" /\ ~Frozen(d, cool)
  <2>1. c = Stall(d)
    BY <1>2 DEF Charge, Causes, IsRefusal, CdnCodes
  <2>2. QED
    BY <1>2, <2>1
<1>3. CASE cause.code = "metadata_unavailable"
  <2>1. c = [d EXCEPT !.metadataFailures = @ + 1]
    BY <1>3 DEF Charge, Causes, IsRefusal, CdnCodes
  <2>2. QED
    BY <1>3, <2>1
<1>4. CASE IsRefusal(cause)
  <2>1. c = [d EXCEPT !.retryCount = @ + 1,
                      !.failedSuppliers = @ \cup ({cause.refusedBy} \ {Empty})]
    BY <1>4, CauseType DEF Charge, Refused
  <2>2. {cause.refusedBy} \ {Empty} \in SUBSET Suppliers
    BY <1>4, CauseType DEF IsRefusal
  <2>3. QED
    BY <1>4, <2>1, <2>2, CauseType
<1>5. CASE cause.code \in CdnCodes /\ ~IsRefusal(cause)
  <2>1. c = [d EXCEPT !.retryCount = @ + 1, !.cdnFailures = @ + 1]
    BY <1>5 DEF Charge, CdnCodes
  <2>2. QED
    BY <1>5, <2>1
<1>6. CASE /\ cause.code \notin {"stalled", "metadata_unavailable"}
           /\ cause.code \notin CdnCodes /\ ~IsRefusal(cause)
  <2>1. c = [d EXCEPT !.retryCount = @ + 1]
    BY <1>6 DEF Charge
  <2>2. QED
    BY <1>6, <2>1
<1>7. QED
  BY <1>1, <1>2, <1>3, <1>4, <1>5, <1>6
===============================================================================
