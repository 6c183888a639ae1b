----------------------------- MODULE AdaptiveThrottle -----------------------------
(* internal/download/throttle.go.  Time is discrete and every deadline is kept *)
(* as the time left until it, so that no clock grows; of the stall events only *)
(* the newest of each download matters (a cluster counts distinct downloads),  *)
(* and it is kept as its age.  Each method runs under t.mu and is one action.  *)
EXTENDS Integers, FiniteSets

CONSTANTS
    Downloads,      \* ids whose stalls are recorded
    Threshold,      \* distinct stalls within Window that trip a cooldown
    Window,         \* length of the sliding window
    BaseCooldown,   \* first cooldown
    MaxCooldown,    \* ceiling of the exponential backoff
    CooldownUp,     \* clean interval before the cap steps up
    Floor, Ceiling

ASSUME ConfigAssumption ==
    /\ {Threshold, Window, BaseCooldown, MaxCooldown, CooldownUp, Ceiling}
           \subseteq Nat \ {0}
    /\ Floor \in 1 .. Ceiling

VARIABLES
    activeLimit,
    coolingLeft,    \* coolingUntilNanos - now, 0 when not cooling
    age,            \* age[d]: of d's newest stall event; Window = none kept
    nextCooldown,   \* length the next cooldown will have: BaseCooldown doubled
                    \* once for each of the `consecutive' cooldowns behind it
    recoverLeft     \* nextRecoverAt - now, 0 once reached
vars == <<activeLimit, coolingLeft, age, nextCooldown, recoverLeft>>

InCooldown == coolingLeft > 0

(* Variants with a bug, for checking that the properties notice: an event that *)
(* never ages out; the clean interval counted from the trip, or not restarted; *)
(* a second trip inside a cooldown; one download's stall taken for a cluster.  *)
InWindowForever == {d \in Downloads : age[d] <= Window}
RecoverFromTrip(d) == CooldownUp
NotRestarted == 0
TripsAgain(stalled) == Cardinality(stalled) >= Threshold
TripsOnOne(stalled) == ~InCooldown /\ Cardinality(stalled) + 1 >= Threshold

(* The stall events pruneLocked keeps.                                         *)
InWindow == {d \in Downloads : age[d] < Window}

Longest == IF BaseCooldown > MaxCooldown THEN BaseCooldown ELSE MaxCooldown

(* One more doubling of a cooldown; the maximum applies from the first doubling *)
(* that reaches it, so a base above it is used once as it is.                  *)
Doubled(d) == IF 2 * d >= MaxCooldown THEN MaxCooldown ELSE 2 * d

Init == /\ activeLimit = Ceiling
        /\ coolingLeft = 0
        /\ age = [d \in Downloads |-> Window]
        /\ nextCooldown = BaseCooldown
        /\ recoverLeft = CooldownUp

Halved(n) == IF n \div 2 < Floor THEN Floor ELSE n \div 2
RecoverAfter(d) == d + CooldownUp
CleanInterval == CooldownUp

(* A cluster of distinct downloads trips, unless a cooldown is already open.   *)
Trips(stalled) == ~InCooldown /\ Cardinality(stalled) >= Threshold

Trip == /\ coolingLeft' = nextCooldown
        /\ nextCooldown' = Doubled(nextCooldown)
        /\ activeLimit' = Halved(activeLimit)
        /\ recoverLeft' = RecoverAfter(nextCooldown)

recordStall(d) ==
    /\ age' = [age EXCEPT ![d] = 0]
    /\ IF Trips(InWindow \cup {d})
       THEN Trip
       ELSE UNCHANGED <<activeLimit, coolingLeft, nextCooldown, recoverLeft>>

recordClean ==
    /\ ~InCooldown
    /\ nextCooldown' = BaseCooldown
    /\ UNCHANGED <<activeLimit, coolingLeft, age, recoverLeft>>

maybeRecover ==
    /\ ~InCooldown
    /\ InWindow = {}
    /\ recoverLeft = 0
    /\ activeLimit' = IF activeLimit < Ceiling THEN activeLimit + 1 ELSE activeLimit
    /\ nextCooldown' = IF activeLimit' >= Ceiling THEN BaseCooldown ELSE nextCooldown
    /\ recoverLeft' = CleanInterval
    /\ UNCHANGED <<coolingLeft, age>>

clearCooldown ==
    /\ coolingLeft' = 0
    /\ activeLimit' = Ceiling
    /\ nextCooldown' = BaseCooldown
    /\ age' = [d \in Downloads |-> Window]
    /\ recoverLeft' = CooldownUp

Sooner(t) == IF t > 0 THEN t - 1 ELSE 0

(* Time passes.                                                                *)
Tick == /\ coolingLeft' = Sooner(coolingLeft)
        /\ recoverLeft' = Sooner(recoverLeft)
        /\ age' = [d \in Downloads |-> IF age[d] < Window THEN age[d] + 1 ELSE Window]
        /\ UNCHANGED <<activeLimit, nextCooldown>>

Next == \/ \E d \in Downloads : recordStall(d)
        \/ recordClean \/ maybeRecover \/ clearCooldown \/ Tick

(* Time passes, and every worker calls maybeRecover on each of its ticks.      *)
Fairness == WF_vars(Tick) /\ WF_vars(maybeRecover)

Spec == Init /\ [][Next]_vars
FairSpec == Spec /\ Fairness

-------------------------------------------------------------------------------
TypeOK == /\ activeLimit \in Floor .. Ceiling
          /\ coolingLeft \in 0 .. Longest
          /\ age \in [Downloads -> 0 .. Window]
          /\ nextCooldown \in 1 .. Longest
          /\ recoverLeft \in 0 .. Longest + CooldownUp

(* While a cooldown lasts the next step up is a whole clean interval past its  *)
(* end, so the cap never climbs in, or right after, a cooldown.                *)
RecoveryAfterCooldown == InCooldown => recoverLeft = coolingLeft + CooldownUp

(* Single flight: however many workers call maybeRecover, the cap goes up by   *)
(* at most one per call that finds the window due, no stall in the window and  *)
(* no cooldown open, and the call pushes the next one a whole interval out;    *)
(* only a manual resume jumps to the ceiling.                                  *)
OneStepPerWindow ==
    [][activeLimit' > activeLimit =>
          \/ /\ activeLimit' = activeLimit + 1
             /\ ~InCooldown /\ InWindow = {} /\ recoverLeft = 0
             /\ recoverLeft' = CooldownUp
          \/ clearCooldown]_vars

(* No double halving: one cluster costs one halving, because the cap only goes *)
(* down as a cooldown opens, and a cooldown is never extended by more stalls.  *)
OneHalvingPerCooldown ==
    [][/\ activeLimit' < activeLimit => coolingLeft = 0 /\ coolingLeft' > 0
       /\ InCooldown => coolingLeft' <= coolingLeft]_vars

(* A lone stalled download, however often it stalls, is no cluster.            *)
ClusterOpensCooldown ==
    [][coolingLeft = 0 /\ coolingLeft' > 0 =>
          Cardinality({d \in Downloads : age'[d] < Window}) >= Threshold]_vars

(* Nobody waits for ever: once stalls stop for good the cap is back at the     *)
(* ceiling and stays there.                                                    *)
StallsStop == <>[][~\E d \in Downloads : recordStall(d)]_vars
FullRecovery == StallsStop => <>[](activeLimit = Ceiling)

Contract == INSTANCE Throttle WITH limit <- activeLimit, cooling <- InCooldown
(* The detailed throttle implements the contract the manager is modelled with. *)
ImplementsThrottle == Contract!FairSpec
===============================================================================
