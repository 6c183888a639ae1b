--------------------------- MODULE RetryBudget_proofs ---------------------------
(* What RetryBudget's runs show for the shipped budgets, proved for all of    *)
(* them.                                                                      *)
EXTENDS RetryBudget, RetryPolicy_proofs, TLAPS

(* The counters of a row before and after one failed attempt: exactly one of  *)
(* the budgets pays, and a stall is frozen only while credits last.           *)
OnePays(old, new, cause) ==
    \/ /\ cause.code = "stalled"
       /\ \/ new.stallCount = old.stallCount + 1 /\ new.stallCredits = old.stallCredits
          \/ /\ new.stallCount = old.stallCount
             /\ new.stallCredits = old.stallCredits + 1
             /\ old.stallCredits < MaxStallCredits
       /\ new.metadataFailures = old.metadataFailures
       /\ new.retryCount = old.retryCount /\ new.cdnFailures = old.cdnFailures
       /\ new.failedSuppliers = old.failedSuppliers
    \/ /\ cause.code = "metadata_unavailable"
       /\ new.metadataFailures = old.metadataFailures + 1
       /\ new.stallCount = old.stallCount /\ new.stallCredits = old.stallCredits
       /\ new.retryCount = old.retryCount /\ new.cdnFailures = old.cdnFailures
       /\ new.failedSuppliers = old.failedSuppliers
    \/ /\ cause.code \notin {"stalled", "metadata_unavailable"}
       /\ new.retryCount = old.retryCount + 1
       /\ new.cdnFailures = old.cdnFailures
              + (IF cause.code \in CdnCodes /\ ~IsRefusal(cause) THEN 1 ELSE 0)
       /\ old.failedSuppliers \subseteq new.failedSuppliers
       /\ new.stallCount = old.stallCount /\ new.stallCredits = old.stallCredits
       /\ new.metadataFailures = old.metadataFailures

(* Each way a row can be charged makes one budget pay.                        *)
LEMMA StallStep ==
    ASSUME NEW d \in Bookkeeping, NEW cause, cause.code = "stalled"
    PROVE  Stall(d) \in Bookkeeping /\ OnePays(d, Stall(d), cause)
BY DEF Stall, Bookkeeping, OnePays

LEMMA FreezeStep ==
    ASSUME NEW d \in Bookkeeping, NEW cause, cause.code = "stalled",
           d.stallCredits < MaxStallCredits
    PROVE  Freeze(d) \in Bookkeeping /\ OnePays(d, Freeze(d), cause)
BY DEF Freeze, Bookkeeping, OnePays

LEMMA MetadataStep ==
    ASSUME NEW d \in Bookkeeping, NEW cause, cause.code = "metadata_unavailable",
           NEW c, c = [d EXCEPT !.metadataFailures = @ + 1]
    PROVE  c \in Bookkeeping /\ OnePays(d, c, cause)
BY DEF Bookkeeping, OnePays

LEMMA RetryStep ==
    ASSUME NEW d \in Bookkeeping, NEW cause, NEW c,
           cause.code \notin {"stalled", "metadata_unavailable"},
           cause.code \notin CdnCodes \/ IsRefusal(cause),
           c = [d EXCEPT !.retryCount = @ + 1]
    PROVE  c \in Bookkeeping /\ OnePays(d, c, cause)
BY DEF Bookkeeping, OnePays

LEMMA RefusalStep ==
    ASSUME NEW d \in Bookkeeping, NEW cause, NEW S \in SUBSET Suppliers, NEW c,
           cause.code = "ffmpeg_error", IsRefusal(cause),
           c = [d EXCEPT !.retryCount = @ + 1, !.failedSuppliers = @ \cup S]
    PROVE  c \in Bookkeeping /\ OnePays(d, c, cause)
<1> DEFINE e == [d EXCEPT !.retryCount = @ + 1]
<1>1. e \in Bookkeeping /\ OnePays(d, e, cause)
  BY RetryStep
<1>2. e.failedSuppliers = d.failedSuppliers /\ c = [e EXCEPT !.failedSuppliers = @ \cup S]
  BY DEF Bookkeeping
<1> HIDE DEF e
<1>3. c \in Bookkeeping /\ e.failedSuppliers \subseteq c.failedSuppliers
  BY <1>1, <1>2 DEF Bookkeeping
<1>4. /\ c.retryCount = e.retryCount /\ c.cdnFailures = e.cdnFailures
      /\ c.stallCount = e.stallCount /\ c.stallCredits = e.stallCredits
      /\ c.metadataFailures = e.metadataFailures
  BY <1>1, <1>2 DEF Bookkeeping
<1>5. QED
  BY <1>1, <1>2, <1>3, <1>4 DEF OnePays

LEMMA CdnStep ==
    ASSUME NEW d \in Bookkeeping, NEW cause, NEW c,
           cause.code \in CdnCodes, ~IsRefusal(cause),
           c = [d EXCEPT !.retryCount = @ + 1, !.cdnFailures = @ + 1]
    PROVE  c \in Bookkeeping /\ OnePays(d, c, cause)
<1> DEFINE e == [d EXCEPT !.retryCount = @ + 1]
<1>1. /\ e \in Bookkeeping /\ e.retryCount = d.retryCount + 1
      /\ e.cdnFailures = d.cdnFailures /\ e.failedSuppliers = d.failedSuppliers
      /\ e.stallCount = d.stallCount /\ e.stallCredits = d.stallCredits
      /\ e.metadataFailures = d.metadataFailures
      /\ c = [e EXCEPT !.cdnFailures = @ + 1]
  BY DEF Bookkeeping
<1> HIDE DEF e
<1>2. c \in Bookkeeping /\ c.cdnFailures = e.cdnFailures + 1
  BY <1>1 DEF Bookkeeping
<1>3. /\ c.retryCount = e.retryCount /\ c.failedSuppliers = e.failedSuppliers
      /\ c.stallCount = e.stallCount /\ c.stallCredits = e.stallCredits
      /\ c.metadataFailures = e.metadataFailures
  BY <1>1 DEF Bookkeeping
<1>4. cause.code \notin {"stalled", "metadata_unavailable"}
  BY DEF CdnCodes
<1>5. QED
  BY <1>1, <1>2, <1>3, <1>4 DEF OnePays

LEMMA ChargePays ==
    ASSUME NEW d \in Bookkeeping, NEW cause \in Causes, NEW cool \in BOOLEAN
    PROVE  LET c == Charge(d, cause, cool)
           IN  c \in Bookkeeping /\ OnePays(d, c, cause)
<1> DEFINE c == Charge(d, cause, cool)
<1> SUFFICES c \in Bookkeeping /\ OnePays(d, c, cause)
  OBVIOUS
<1>0. \/ cause.code = "stalled" /\ Frozen(d, cool) /\ c = Freeze(d)
      \/ cause.code = "stalled" /\ c = Stall(d)
      \/ /\ cause.code = "metadata_unavailable"
         /\ c = [d EXCEPT !.metadataFailures = @ + 1]
      \/ /\ cause.code = "ffmpeg_error" /\ IsRefusal(cause)
         /\ {cause.refusedBy} \ {Empty} \in SUBSET Suppliers
         /\ c = [d EXCEPT !.retryCount = @ + 1,
              !.failedSuppliers = @ \cup ({cause.refusedBy} \ {Empty})]
      \/ /\ cause.code \in CdnCodes /\ ~IsRefusal(cause)
         /\ c = [d EXCEPT !.retryCount = @ + 1, !.cdnFailures = @ + 1]
      \/ /\ cause.code \notin {"stalled", "metadata_unavailable"}
         /\ cause.code \notin CdnCodes /\ ~IsRefusal(cause)
         /\ c = [d EXCEPT !.retryCount = @ + 1]
  BY ChargeCases
<1> HIDE DEF c
<1>1. CASE cause.code = "stalled" /\ Frozen(d, cool) /\ c = Freeze(d)
  BY <1>1, FreezeStep DEF Frozen
<1>2. CASE cause.code = "stalled" /\ c = Stall(d)
  BY <1>2, StallStep
<1>3. CASE /\ cause.code = "metadata_unavailable"
           /\ c = [d EXCEPT !.metadataFailures = @ + 1]
  BY <1>3, MetadataStep
<1>4. CASE /\ cause.code = "ffmpeg_error" /\ IsRefusal(cause)
           /\ {cause.refusedBy} \ {Empty} \in SUBSET Suppliers
           /\ c = [d EXCEPT !.retryCount = @ + 1,
                !.failedSuppliers = @ \cup ({cause.refusedBy} \ {Empty})]
  BY <1>4, RefusalStep
<1>5. CASE /\ cause.code \in CdnCodes /\ ~IsRefusal(cause)
           /\ c = [d EXCEPT !.retryCount = @ + 1, !.cdnFailures = @ + 1]
  BY <1>5, CdnStep
<1>6. CASE /\ cause.code \notin {"stalled", "metadata_unavailable"}
           /\ cause.code \notin CdnCodes /\ ~IsRefusal(cause)
           /\ c = [d EXCEPT !.retryCount = @ + 1]
  BY <1>6, RetryStep
<1>7. QED
  BY <1>1, <1>2, <1>3, <1>4, <1>5, <1>6, <1>0

(* The row failDownload stores is failed with the code of its cause, one      *)
(* budget paid, and it is retryable only within its own budget.               *)
LEMMA FailedPays ==
    ASSUME NEW d \in Bookkeeping, NEW cause \in Causes, NEW cool \in BOOLEAN
    PROVE  LET f == Failed(d, cause, cool)
           IN  /\ f \in Bookkeeping
               /\ f.status = "failed" /\ f.code = cause.code
               /\ f.retryable = MayRetry(f, cause.code)
               /\ OnePays(d, f, cause)
<1> DEFINE c == Charge(d, cause, cool)
           f == Failed(d, cause, cool)
<1>1. c \in Bookkeeping /\ cause.code \in Codes /\ OnePays(d, c, cause)
  BY ChargePays, CauseType
<1>2. MayRetry(c, cause.code) \in BOOLEAN
  BY <1>1, MayRetryType
<1>3. f = [c EXCEPT !.status = "failed", !.code = cause.code,
                    !.retryable = MayRetry(c, cause.code)]
  BY DEF Failed
<1>4. /\ f \in Bookkeeping
      /\ f.status = "failed" /\ f.code = cause.code
      /\ f.retryable = MayRetry(c, cause.code)
      /\ f.stallCount = c.stallCount /\ f.stallCredits = c.stallCredits
      /\ f.metadataFailures = c.metadataFailures /\ f.retryCount = c.retryCount
      /\ f.cdnFailures = c.cdnFailures /\ f.failedSuppliers = c.failedSuppliers
  BY <1>1, <1>2, <1>3 DEF Bookkeeping, Statuses
<1>5. MayRetry(f, cause.code) = MayRetry(c, cause.code)
  BY <1>4 DEF MayRetry, TriesLeft, MetadataLeft
<1> HIDE DEF c, f
<1>6. OnePays(d, f, cause)
  BY <1>1, <1>4 DEF OnePays
<1>7. QED
  BY <1>4, <1>5, <1>6 DEF f

-------------------------------------------------------------------------------
(* A row that may still be tried is below every one of its budgets; fewer     *)
(* hard failures lie behind it than MaxRetries.                               *)
InBudget ==
    /\ dl.retryCount < MaxNotYetAvailableRetries
    /\ dl.metadataFailures < MaxMetadataFailures
    /\ dl.stallCount < MaxStalls
    /\ Hard < MaxRetries

(* The inductive invariant.  The last failure may take one counter to its     *)
(* budget, which is why the bound on all attempts is part of it.              *)
IInv ==
    /\ TypeOK
    /\ EveryFailureCharged
    /\ dl.stallCredits <= MaxStallCredits
    /\ dl.cdnFailures = tally["cdn"]
    /\ ~GivenUp(dl) => InBudget
    /\ AttemptsBounded
    /\ DedicatedBudgets

LEMMA InitIInv == Init => IInv
<1> SUFFICES ASSUME Init PROVE IInv
  OBVIOUS
<1>1. TypeOK
  BY DEF Init, TypeOK, FreshBookkeeping, Bookkeeping, Statuses
<1>2. /\ dl.status = "pending" /\ dl.retryCount = 0 /\ dl.cdnFailures = 0
      /\ dl.stallCount = 0 /\ dl.stallCredits = 0 /\ dl.metadataFailures = 0
  BY DEF Init, FreshBookkeeping
<1>3. \A k \in Kinds : tally[k] = 0
  BY DEF Init
<1>4. QED
  BY <1>1, <1>2, <1>3, BudgetTypes
     DEF IInv, EveryFailureCharged, InBudget, GivenUp, AttemptsBounded, Total,
         MaxAttempts, DedicatedBudgets, Kinds, Hard

(* What the tally counts.                                                     *)
IsCdn(cause) == cause.code \in CdnCodes /\ ~IsRefusal(cause)
IsHard(cause) ==
    cause.code \notin {"stalled", "metadata_unavailable", "not_yet_available"}

LEMMA TallyStep ==
    ASSUME TypeOK, NEW cause \in Causes,
           tally' = [tally EXCEPT ![Kind(cause)] = @ + 1]
    PROVE  /\ tally' \in [Kinds -> Nat]
           /\ \A k \in Kinds : tally[k] \in Nat
           /\ tally'["stalled"] = tally["stalled"] + (IF cause.code = "stalled" THEN 1 ELSE 0)
           /\ tally'["metadata"] = tally["metadata"]
                                   + (IF cause.code = "metadata_unavailable" THEN 1 ELSE 0)
           /\ tally'["waiting"] = tally["waiting"]
                                  + (IF cause.code = "not_yet_available" THEN 1 ELSE 0)
           /\ tally'["cdn"] = tally["cdn"] + (IF IsCdn(cause) THEN 1 ELSE 0)
           /\ Hard \in Nat /\ Hard' = Hard + (IF IsHard(cause) THEN 1 ELSE 0)
<1>1. \A k \in Kinds : tally[k] \in Nat
  BY DEF TypeOK
<1>2. /\ Kind(cause) \in Kinds
      /\ Kind(cause) = "stalled" <=> cause.code = "stalled"
      /\ Kind(cause) = "metadata" <=> cause.code = "metadata_unavailable"
      /\ Kind(cause) = "waiting" <=> cause.code = "not_yet_available"
      /\ Kind(cause) = "cdn" <=> IsCdn(cause)
      /\ Kind(cause) \in {"cdn", "other"} <=> IsHard(cause)
  BY DEF Kind, Kinds, IsCdn, IsHard, CdnCodes
<1>3. \A k \in Kinds : tally'[k] = tally[k] + (IF k = Kind(cause) THEN 1 ELSE 0)
  BY <1>1, <1>2 DEF TypeOK
<1>4. tally' \in [Kinds -> Nat]
  BY <1>1, <1>2 DEF TypeOK
<1>5. /\ tally["cdn"] \in Nat /\ tally["other"] \in Nat
      /\ tally'["cdn"] = tally["cdn"] + (IF Kind(cause) = "cdn" THEN 1 ELSE 0)
      /\ tally'["other"] = tally["other"] + (IF Kind(cause) = "other" THEN 1 ELSE 0)
  BY <1>1, <1>3 DEF Kinds
<1>6. Hard \in Nat /\ Hard' = Hard + (IF IsHard(cause) THEN 1 ELSE 0)
  BY <1>2, <1>5 DEF Hard
<1>7. QED
  BY <1>1, <1>2, <1>3, <1>4, <1>6 DEF Kinds

(* A step that leaves the counters and the tally alone, and does not turn a   *)
(* given-up row into another, keeps the invariant.                            *)
LEMMA Unchanged ==
    ASSUME IInv, TypeOK', tally' = tally, ~GivenUp(dl), ~GivenUp(dl)',
           dl'.retryCount = dl.retryCount, dl'.cdnFailures = dl.cdnFailures,
           dl'.stallCount = dl.stallCount, dl'.stallCredits = dl.stallCredits,
           dl'.metadataFailures = dl.metadataFailures
    PROVE  IInv'
BY DEF IInv, EveryFailureCharged, InBudget, AttemptsBounded, Total, MaxAttempts,
       DedicatedBudgets, Hard

LEMMA FailStep ==
    ASSUME IInv, NEW cause \in Causes, Fail(cause)
    PROVE  IInv'
<1> DEFINE code == cause.code
<1>1. /\ dl' \in Bookkeeping /\ dl'.status = "failed" /\ dl'.code = code
      /\ dl'.retryable = MayRetry(dl', code) /\ OnePays(dl, dl', cause)
  BY FailedPays DEF Fail, IInv, TypeOK
<1>2. InBudget
  BY DEF IInv, Fail, Reachable, GivenUp
<1>3. code \in Codes /\ tally' = [tally EXCEPT ![Kind(cause)] = @ + 1]
  BY CauseType DEF Fail
<1>4. TypeOK'
  BY <1>1, <1>3, TallyStep DEF IInv, TypeOK, Fail
<1>5. /\ GivenUp(dl)' <=> ~MayRetry(dl', code)
      /\ dl'.retryCount \in Nat /\ dl'.cdnFailures \in Nat /\ dl'.stallCount \in Nat
      /\ dl'.stallCredits \in Nat /\ dl'.metadataFailures \in Nat
      /\ dl.retryCount \in Nat /\ dl.cdnFailures \in Nat /\ dl.stallCount \in Nat
      /\ dl.stallCredits \in Nat /\ dl.metadataFailures \in Nat
  BY <1>1, <1>4 DEF GivenUp, IInv, TypeOK, Bookkeeping
<1>6. /\ tally["stalled"] \in Nat /\ tally["metadata"] \in Nat
      /\ tally["waiting"] \in Nat /\ tally["cdn"] \in Nat /\ Hard \in Nat
  BY <1>3, TallyStep DEF IInv, Kinds
<1>7. /\ tally["stalled"] = dl.stallCount + dl.stallCredits
      /\ tally["metadata"] = dl.metadataFailures
      /\ tally["waiting"] + Hard = dl.retryCount
      /\ dl.stallCredits <= MaxStallCredits /\ dl.cdnFailures = tally["cdn"]
  BY DEF IInv, EveryFailureCharged
<1>8. /\ tally'["stalled"] = tally["stalled"] + (IF code = "stalled" THEN 1 ELSE 0)
      /\ tally'["metadata"] = tally["metadata"]
                              + (IF code = "metadata_unavailable" THEN 1 ELSE 0)
      /\ tally'["waiting"] = tally["waiting"]
                             + (IF code = "not_yet_available" THEN 1 ELSE 0)
      /\ tally'["cdn"] = tally["cdn"] + (IF IsCdn(cause) THEN 1 ELSE 0)
      /\ Hard' = Hard + (IF IsHard(cause) THEN 1 ELSE 0)
  BY <1>3, TallyStep DEF IInv
<1>9. dl'.cdnFailures = tally'["cdn"]
  <2>1. dl'.cdnFailures = dl.cdnFailures + (IF IsCdn(cause) THEN 1 ELSE 0)
    BY <1>1, <1>5 DEF OnePays, IsCdn, CdnCodes
  <2>2. QED
    BY <1>7, <1>8, <2>1
<1>10. CASE code = "stalled"
  <2>1. MayRetry(dl', code) <=> dl'.stallCount < MaxStalls
    BY <1>10 DEF MayRetry, PermanentCodes
  <2>2. /\ tally'["stalled"] = tally["stalled"] + 1 /\ tally'["metadata"] = tally["metadata"]
        /\ tally'["waiting"] = tally["waiting"] /\ Hard' = Hard
    BY <1>3, <1>6, <1>10, <1>8 DEF IsHard
  <2>3. /\ EveryFailureCharged' /\ dl'.stallCredits <= MaxStallCredits
        /\ dl'.cdnFailures = tally'["cdn"]
    BY <1>1, <1>5, <1>6, <1>7, <1>9, <1>10, <2>2, BudgetTypes
       DEF EveryFailureCharged, OnePays
  <2>4. AttemptsBounded' /\ (~GivenUp(dl)' => InBudget')
    BY <1>1, <1>2, <1>5, <1>6, <1>7, <1>10, <2>1, <2>2, BudgetTypes
       DEF AttemptsBounded, Total, MaxAttempts, InBudget, OnePays
  <2>5. DedicatedBudgets'
    BY <1>1, <1>2, <1>5, <1>6, <1>7, <1>10, <2>1, <2>2, BudgetTypes
       DEF DedicatedBudgets, InBudget, OnePays
  <2>6. QED
    BY <1>4, <2>3, <2>4, <2>5 DEF IInv
<1>11. CASE code = "metadata_unavailable"
  <2>1. MayRetry(dl', code) <=> dl'.metadataFailures < MaxMetadataFailures
    BY <1>11 DEF MayRetry, MetadataLeft, PermanentCodes
  <2>2. /\ tally'["stalled"] = tally["stalled"] /\ tally'["metadata"] = tally["metadata"] + 1
        /\ tally'["waiting"] = tally["waiting"] /\ Hard' = Hard
    BY <1>3, <1>6, <1>11, <1>8 DEF IsHard
  <2>3. /\ EveryFailureCharged' /\ dl'.stallCredits <= MaxStallCredits
        /\ dl'.cdnFailures = tally'["cdn"]
    BY <1>1, <1>5, <1>6, <1>7, <1>9, <1>11, <2>2, BudgetTypes
       DEF EveryFailureCharged, OnePays
  <2>4. AttemptsBounded' /\ (~GivenUp(dl)' => InBudget')
    BY <1>1, <1>2, <1>5, <1>6, <1>7, <1>11, <2>1, <2>2, BudgetTypes
       DEF AttemptsBounded, Total, MaxAttempts, InBudget, OnePays
  <2>5. DedicatedBudgets'
    <3>1. GivenUp(dl)' => tally'["metadata"] = MaxMetadataFailures
      BY <1>1, <1>2, <1>5, <1>7, <1>11, <2>1, <2>2, BudgetTypes DEF InBudget, OnePays
    <3>2. QED
      BY <1>1, <1>11, <3>1 DEF DedicatedBudgets
  <2>6. QED
    BY <1>4, <2>3, <2>4, <2>5 DEF IInv
<1>12. CASE code = "not_yet_available"
  <2>1. MayRetry(dl', code) <=> dl'.retryCount < MaxNotYetAvailableRetries
    BY <1>12 DEF MayRetry, PermanentCodes
  <2>2. /\ tally'["stalled"] = tally["stalled"] /\ tally'["metadata"] = tally["metadata"]
        /\ tally'["waiting"] = tally["waiting"] + 1 /\ Hard' = Hard
    BY <1>3, <1>6, <1>12, <1>8 DEF IsHard
  <2>3. /\ EveryFailureCharged' /\ dl'.stallCredits <= MaxStallCredits
        /\ dl'.cdnFailures = tally'["cdn"]
    BY <1>1, <1>5, <1>6, <1>7, <1>9, <1>12, <2>2, BudgetTypes
       DEF EveryFailureCharged, OnePays
  <2>4. AttemptsBounded' /\ (~GivenUp(dl)' => InBudget')
    BY <1>1, <1>2, <1>5, <1>6, <1>7, <1>12, <2>1, <2>2, BudgetTypes
       DEF AttemptsBounded, Total, MaxAttempts, InBudget, OnePays
  <2>5. DedicatedBudgets'
    <3>1. dl'.retryCount = dl.retryCount + 1
      BY <1>1, <1>12 DEF OnePays
    <3>2. GivenUp(dl)' => dl'.retryCount = MaxNotYetAvailableRetries
      BY <1>2, <1>5, <2>1, <3>1, BudgetTypes DEF InBudget
    <3>3. tally'["waiting"] + Hard' = dl'.retryCount /\ Hard' < MaxRetries
      BY <1>2, <2>2, <2>3 DEF EveryFailureCharged, InBudget
    <3>4. QED
      BY <1>1, <1>12, <3>2, <3>3 DEF DedicatedBudgets
  <2>6. QED
    BY <1>4, <2>3, <2>4, <2>5 DEF IInv
<1>13. CASE code \notin {"stalled", "metadata_unavailable", "not_yet_available"}
  <2>1. MayRetry(dl', code) => dl'.retryCount < MaxRetries
    <3>1. CASE code \in PermanentCodes
      BY <1>13, <3>1 DEF MayRetry, PermanentCodes
    <3>2. CASE code \notin PermanentCodes
      BY <1>13, <3>2 DEF MayRetry, TriesLeft
    <3>3. QED
      BY <3>1, <3>2
  <2>2. /\ tally'["stalled"] = tally["stalled"] /\ tally'["metadata"] = tally["metadata"]
        /\ tally'["waiting"] = tally["waiting"] /\ Hard' = Hard + 1
    BY <1>3, <1>6, <1>13, <1>8 DEF IsHard
  <2>3. /\ EveryFailureCharged' /\ dl'.stallCredits <= MaxStallCredits
        /\ dl'.cdnFailures = tally'["cdn"]
    BY <1>1, <1>5, <1>6, <1>7, <1>9, <1>13, <2>2, BudgetTypes
       DEF EveryFailureCharged, OnePays
  <2>4. AttemptsBounded' /\ (~GivenUp(dl)' => InBudget')
    BY <1>1, <1>2, <1>5, <1>6, <1>7, <1>13, <2>1, <2>2, BudgetTypes
       DEF AttemptsBounded, Total, MaxAttempts, InBudget, OnePays
  <2>5. DedicatedBudgets'
    BY <1>1, <1>13 DEF DedicatedBudgets
  <2>6. QED
    BY <1>4, <2>3, <2>4, <2>5 DEF IInv
<1>14. QED
  BY <1>10, <1>11, <1>12, <1>13

(* The status moves, the counters stay.                                       *)
LEMMA StatusStep ==
    ASSUME TypeOK, NEW st \in Statuses, dl' = [dl EXCEPT !.status = st]
    PROVE  /\ dl' \in Bookkeeping /\ dl'.status = st
           /\ dl'.retryCount = dl.retryCount /\ dl'.cdnFailures = dl.cdnFailures
           /\ dl'.stallCount = dl.stallCount /\ dl'.stallCredits = dl.stallCredits
           /\ dl'.metadataFailures = dl.metadataFailures
           /\ dl'.failedSuppliers = dl.failedSuppliers
BY DEF TypeOK, Bookkeeping

LEMMA CompleteStep ==
    ASSUME TypeOK, dl' = Completed(dl)
    PROVE  /\ dl' \in Bookkeeping /\ dl'.status = "completed"
           /\ dl'.retryCount = dl.retryCount /\ dl'.cdnFailures = dl.cdnFailures
           /\ dl'.stallCount = dl.stallCount /\ dl'.stallCredits = dl.stallCredits
           /\ dl'.metadataFailures = dl.metadataFailures
           /\ dl'.failedSuppliers = dl.failedSuppliers
BY DEF TypeOK, Bookkeeping, Completed, Statuses

LEMMA NextIInv == IInv /\ [Next]_vars => IInv'
<1> SUFFICES ASSUME IInv, [Next]_vars PROVE IInv'
  OBVIOUS
<1>0. TypeOK
  BY DEF IInv
<1>1. CASE Begin
  <2>1. ~GivenUp(dl) /\ dl' = [dl EXCEPT !.status = "resolving"] /\ UNCHANGED <<cooling, tally>>
    BY <1>1 DEF Begin, Claimable, GivenUp
  <2>2. TypeOK' /\ ~GivenUp(dl)'
    BY <1>0, <2>1, StatusStep DEF TypeOK, GivenUp, Statuses
  <2>3. QED
    BY <1>0, <2>1, <2>2, StatusStep, Unchanged DEF Statuses
<1>2. CASE Fetch
  <2>1. ~GivenUp(dl) /\ dl' = [dl EXCEPT !.status = "downloading"] /\ UNCHANGED <<cooling, tally>>
    BY <1>2 DEF Fetch, GivenUp
  <2>2. TypeOK' /\ ~GivenUp(dl)'
    BY <1>0, <2>1, StatusStep DEF TypeOK, GivenUp, Statuses
  <2>3. QED
    BY <1>0, <2>1, <2>2, StatusStep, Unchanged DEF Statuses
<1>3. ASSUME NEW cause \in Causes, Fail(cause) PROVE IInv'
  BY <1>3, FailStep
<1>4. CASE Complete
  <2>1. ~GivenUp(dl) /\ dl' = Completed(dl) /\ UNCHANGED <<cooling, tally>>
    BY <1>4 DEF Complete, GivenUp
  <2>2. TypeOK' /\ ~GivenUp(dl)'
    BY <1>0, <2>1, CompleteStep DEF TypeOK, GivenUp
  <2>3. QED
    BY <1>0, <2>1, <2>2, CompleteStep, Unchanged
<1>5. CASE Stop
  <2>1. ~GivenUp(dl) /\ dl' = [dl EXCEPT !.status = "pending"] /\ UNCHANGED <<cooling, tally>>
    BY <1>5 DEF Stop, InProgress, GivenUp
  <2>2. TypeOK' /\ ~GivenUp(dl)'
    BY <1>0, <2>1, StatusStep DEF TypeOK, GivenUp, Statuses
  <2>3. QED
    BY <1>0, <2>1, <2>2, StatusStep, Unchanged DEF Statuses
<1>6. CASE CooldownChanges \/ UNCHANGED vars
  <2>1. dl' = dl /\ tally' = tally /\ cooling' \in BOOLEAN
    BY <1>0, <1>6 DEF CooldownChanges, vars, TypeOK
  <2>2. QED
    BY <1>0, <2>1 DEF IInv, TypeOK, EveryFailureCharged, InBudget, GivenUp,
       AttemptsBounded, Total, MaxAttempts, DedicatedBudgets, Hard
<1>7. QED
  BY <1>1, <1>2, <1>3, <1>4, <1>5, <1>6 DEF Next, End

THEOREM Invariance == Spec => []IInv
BY InitIInv, NextIInv, PTL DEF Spec

(* The row stays a row of store.Download, whatever happens to it.             *)
THEOREM TypeCorrect == Spec => []TypeOK
<1>1. IInv => TypeOK
  BY DEF IInv
<1>2. QED
  BY <1>1, Invariance, PTL

(* Each failed attempt is paid from exactly one budget: no attempt is free,   *)
(* and the StallCount--, StallCredits++ swap of failDownload loses nothing.   *)
THEOREM Charged == Spec => []EveryFailureCharged
<1>1. IInv => EveryFailureCharged
  BY DEF IInv
<1>2. QED
  BY <1>1, Invariance, PTL

(* However the budgets are set, no row is attempted more often than they add  *)
(* up to: a stream that never works becomes permanent in bounded cycles.      *)
THEOREM Bounded == Spec => []AttemptsBounded
<1>1. IInv => AttemptsBounded
  BY DEF IInv
<1>2. QED
  BY <1>1, Invariance, PTL

(* The stall, metadata and publication budgets are spent by failures of their *)
(* own kind.                                                                  *)
THEOREM Dedicated == Spec => []DedicatedBudgets
<1>1. IInv => DedicatedBudgets
  BY DEF IInv
<1>2. QED
  BY <1>1, Invariance, PTL

(* Each rung of the quality ladder is paid with a stream the CDN failed to    *)
(* deliver; refusals, geo-blocks and every other failure leave it alone.      *)
THEOREM DegradeEarned == Spec => []DegradeIsEarned
<1>1. IInv => DegradeIsEarned
  BY BudgetTypes DEF IInv, DegradeIsEarned, InBudget, GivenUp, Claimable, InProgress,
     TypeOK, Bookkeeping, Kinds, Hard
<1>2. QED
  BY <1>1, Invariance, PTL

(* No budget is ever refilled, and a supplier that refused is remembered.     *)
THEOREM NeverReset == Spec => CountersNeverReset
<1> DEFINE A == /\ dl'.cdnFailures >= dl.cdnFailures
                /\ dl.failedSuppliers \subseteq dl'.failedSuppliers
                /\ dl'.retryCount >= dl.retryCount
                /\ dl'.stallCount >= dl.stallCount
                /\ dl'.stallCredits >= dl.stallCredits
                /\ dl'.metadataFailures >= dl.metadataFailures
<1>1. TypeOK /\ [Next]_vars => [A]_dl
  <2> SUFFICES ASSUME TypeOK, [Next]_vars, dl' # dl PROVE A
    OBVIOUS
  <2>1. /\ dl.retryCount \in Nat /\ dl.cdnFailures \in Nat /\ dl.stallCount \in Nat
        /\ dl.stallCredits \in Nat /\ dl.metadataFailures \in Nat
    BY DEF TypeOK, Bookkeeping
  <2>2. ASSUME NEW cause \in Causes, Fail(cause) PROVE A
    <3>1. OnePays(dl, dl', cause)
      BY <2>2, FailedPays DEF Fail, TypeOK
    <3>2. QED
      BY <2>1, <3>1 DEF OnePays
  <2>3. CASE Complete
    BY <2>1, <2>3, CompleteStep DEF Complete
  <2>4. ASSUME NEW st \in Statuses, dl' = [dl EXCEPT !.status = st] PROVE A
    BY <2>1, <2>4, StatusStep
  <2>5. CASE Begin \/ Fetch \/ Stop
    BY <2>4, <2>5 DEF Begin, Fetch, Stop, Statuses
  <2>6. CASE CooldownChanges \/ UNCHANGED vars
    BY <2>6 DEF CooldownChanges, vars
  <2>7. QED
    BY <2>2, <2>3, <2>5, <2>6 DEF Next, End
<1>2. QED
  BY <1>1, TypeCorrect, PTL DEF Spec, CountersNeverReset
===============================================================================
