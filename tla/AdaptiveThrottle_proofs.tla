------------------------- MODULE AdaptiveThrottle_proofs -------------------------
(* The adaptive throttle for every configuration: its clocks and its cap keep  *)
(* their ranges, a cluster of stalls costs one halving, a clean window gives   *)
(* one step back, and it implements the contract DownloadManager relies on.    *)
EXTENDS AdaptiveThrottle, TLAPS

LEMMA ConfigTypes ==
    /\ Threshold \in Nat /\ Threshold > 0 /\ Window \in Nat /\ Window > 0
    /\ BaseCooldown \in Nat /\ BaseCooldown > 0 /\ MaxCooldown \in Nat /\ MaxCooldown > 0
    /\ CooldownUp \in Nat /\ CooldownUp > 0
    /\ Ceiling \in Nat /\ Floor \in Nat /\ Floor > 0 /\ Floor <= Ceiling
    /\ Longest \in Nat /\ Longest >= BaseCooldown /\ Longest >= MaxCooldown
BY ConfigAssumption DEF Longest

(* The inductive invariant: RecoveryAfterCooldown is inductive once the ranges *)
(* are known.                                                                  *)
IInv == TypeOK /\ RecoveryAfterCooldown

(* A cap halved, or clamped to the floor, stays between floor and ceiling.     *)
LEMMA HalvedInRange ==
    ASSUME NEW n \in Floor .. Ceiling
    PROVE  Halved(n) \in Floor .. Ceiling /\ Halved(n) <= n
BY ConfigTypes DEF Halved

LEMMA DoubledInRange ==
    ASSUME NEW d \in 1 .. Longest
    PROVE  Doubled(d) \in 1 .. Longest
BY ConfigTypes DEF Doubled

LEMMA InitIInv == Init => IInv
BY ConfigTypes DEF Init, IInv, TypeOK, RecoveryAfterCooldown, InCooldown

LEMMA TripStep ==
    ASSUME IInv, ~InCooldown, Trip
    PROVE  /\ activeLimit' \in Floor .. Ceiling /\ activeLimit' <= activeLimit
           /\ coolingLeft' \in 1 .. Longest /\ nextCooldown' \in 1 .. Longest
           /\ recoverLeft' = coolingLeft' + CooldownUp
           /\ recoverLeft' \in 0 .. Longest + CooldownUp
BY HalvedInRange, DoubledInRange, ConfigTypes DEF Trip, IInv, TypeOK, RecoverAfter

LEMMA NextIInv == IInv /\ [Next]_vars => IInv'
<1> SUFFICES ASSUME IInv, [Next]_vars PROVE IInv'
  OBVIOUS
<1>1. ASSUME NEW d \in Downloads, recordStall(d) PROVE IInv'
  <2>1. age' \in [Downloads -> 0 .. Window]
    BY <1>1, ConfigTypes DEF recordStall, IInv, TypeOK
  <2>2. CASE Trips(InWindow \cup {d})
    <3>1. ~InCooldown /\ Trip
      BY <1>1, <2>2 DEF recordStall, Trips
    <3>2. QED
      BY <2>1, <3>1, TripStep, ConfigTypes DEF IInv, TypeOK, RecoveryAfterCooldown, InCooldown
  <2>3. CASE ~Trips(InWindow \cup {d})
    BY <1>1, <2>1, <2>3 DEF recordStall, IInv, TypeOK, RecoveryAfterCooldown, InCooldown
  <2>4. QED
    BY <2>2, <2>3
<1>2. CASE recordClean
  BY <1>2, ConfigTypes DEF recordClean, IInv, TypeOK, RecoveryAfterCooldown, InCooldown
<1>3. CASE maybeRecover
  <2>1. activeLimit' \in Floor .. Ceiling
    BY <1>3, ConfigTypes DEF maybeRecover, IInv, TypeOK
  <2>2. nextCooldown' \in 1 .. Longest
    BY <1>3, ConfigTypes DEF maybeRecover, IInv, TypeOK
  <2>3. QED
    BY <1>3, <2>1, <2>2, ConfigTypes
       DEF maybeRecover, IInv, TypeOK, RecoveryAfterCooldown, InCooldown, CleanInterval
<1>4. CASE clearCooldown
  BY <1>4, ConfigTypes DEF clearCooldown, IInv, TypeOK, RecoveryAfterCooldown, InCooldown
<1>5. CASE Tick
  BY <1>5, ConfigTypes DEF Tick, Sooner, IInv, TypeOK, RecoveryAfterCooldown, InCooldown
<1>6. CASE UNCHANGED vars
  BY <1>6 DEF vars, IInv, TypeOK, RecoveryAfterCooldown, InCooldown
<1>7. QED
  BY <1>1, <1>2, <1>3, <1>4, <1>5, <1>6 DEF Next

THEOREM Invariance == Spec => []IInv
BY InitIInv, NextIInv, PTL DEF Spec

(* The cap stays between the floor and max_workers, and no cooldown is longer *)
(* than the configuration allows.                                             *)
THEOREM TypeCorrect == Spec => []TypeOK
<1>1. IInv => TypeOK
  BY DEF IInv
<1>2. QED
  BY <1>1, Invariance, PTL

(* The next step up is a whole clean interval past the end of a cooldown.     *)
THEOREM RecoversAfterCooldown == Spec => []RecoveryAfterCooldown
<1>1. IInv => RecoveryAfterCooldown
  BY DEF IInv
<1>2. QED
  BY <1>1, Invariance, PTL

(* One cluster of stalls costs one halving, and no stall extends a cooldown.  *)
THEOREM NoDoubleHalving == Spec => OneHalvingPerCooldown
<1> DEFINE A == /\ activeLimit' < activeLimit => coolingLeft = 0 /\ coolingLeft' > 0
                /\ InCooldown => coolingLeft' <= coolingLeft
<1>1. IInv /\ [Next]_vars => [A]_vars
  <2> SUFFICES ASSUME IInv, Next PROVE A
    BY DEF vars
  <2>0. /\ activeLimit \in Floor .. Ceiling /\ coolingLeft \in 0 .. Longest
        /\ Floor \in Nat /\ Ceiling \in Nat /\ Longest \in Nat
    BY ConfigTypes DEF IInv, TypeOK
  <2>1. ASSUME NEW d \in Downloads, recordStall(d) PROVE A
    <3>1. CASE Trips(InWindow \cup {d})
      <4>1. ~InCooldown /\ Trip
        BY <2>1, <3>1 DEF recordStall, Trips
      <4>2. QED
        BY <2>0, <4>1, TripStep DEF InCooldown
    <3>2. CASE ~Trips(InWindow \cup {d})
      BY <2>0, <2>1, <3>2 DEF recordStall
    <3>3. QED
      BY <3>1, <3>2
  <2>2. CASE recordClean
    BY <2>0, <2>2 DEF recordClean
  <2>3. CASE maybeRecover
    BY <2>0, <2>3 DEF maybeRecover, InCooldown
  <2>4. CASE clearCooldown
    BY <2>0, <2>4 DEF clearCooldown, InCooldown
  <2>5. CASE Tick
    BY <2>0, <2>5 DEF Tick, Sooner, InCooldown
  <2>6. QED
    BY <2>1, <2>2, <2>3, <2>4, <2>5 DEF Next
<1>2. QED
  BY <1>1, Invariance, PTL DEF Spec, OneHalvingPerCooldown

(* However many workers ask for a step up, a clean window gives one.          *)
THEOREM OneStep == Spec => OneStepPerWindow
<1> DEFINE A == activeLimit' > activeLimit =>
                  \/ /\ activeLimit' = activeLimit + 1
                     /\ ~InCooldown /\ InWindow = {} /\ recoverLeft = 0
                     /\ recoverLeft' = CooldownUp
                  \/ clearCooldown
<1>1. IInv /\ [Next]_vars => [A]_vars
  <2> SUFFICES ASSUME IInv, Next PROVE A
    BY DEF vars
  <2>0. activeLimit \in Floor .. Ceiling /\ Floor \in Nat /\ Ceiling \in Nat
    BY ConfigTypes DEF IInv, TypeOK
  <2>1. ASSUME NEW d \in Downloads, recordStall(d) PROVE A
    <3>1. CASE Trips(InWindow \cup {d})
      <4>1. ~InCooldown /\ Trip
        BY <2>1, <3>1 DEF recordStall, Trips
      <4>2. QED
        BY <2>0, <4>1, TripStep
    <3>2. CASE ~Trips(InWindow \cup {d})
      BY <2>0, <2>1, <3>2 DEF recordStall
    <3>3. QED
      BY <3>1, <3>2
  <2>2. CASE recordClean
    BY <2>0, <2>2 DEF recordClean
  <2>3. CASE maybeRecover
    BY <2>0, <2>3 DEF maybeRecover, CleanInterval
  <2>4. CASE clearCooldown
    BY <2>4
  <2>5. CASE Tick
    BY <2>0, <2>5 DEF Tick
  <2>6. QED
    BY <2>1, <2>2, <2>3, <2>4, <2>5 DEF Next
<1>2. QED
  BY <1>1, Invariance, PTL DEF Spec, OneStepPerWindow

(* A cooldown opens only on a cluster: Threshold distinct downloads stalled    *)
(* within the window.                                                          *)
THEOREM OnlyClusters == Spec => ClusterOpensCooldown
<1> DEFINE A == coolingLeft = 0 /\ coolingLeft' > 0 =>
                  Cardinality({d \in Downloads : age'[d] < Window}) >= Threshold
<1>1. IInv /\ [Next]_vars => [A]_vars
  <2> SUFFICES ASSUME IInv, Next, coolingLeft = 0, coolingLeft' > 0
               PROVE Cardinality({d \in Downloads : age'[d] < Window}) >= Threshold
    BY DEF vars
  <2>1. ASSUME NEW d \in Downloads, recordStall(d)
        PROVE Cardinality({e \in Downloads : age'[e] < Window}) >= Threshold
    <3>1. Cardinality(InWindow \cup {d}) >= Threshold
      BY <2>1 DEF recordStall, Trips
    <3>2. {e \in Downloads : age'[e] < Window} = InWindow \cup {d}
      BY <2>1, ConfigTypes DEF recordStall, InWindow, IInv, TypeOK
    <3>3. QED
      BY <3>1, <3>2
  <2>2. ~(recordClean \/ maybeRecover \/ clearCooldown \/ Tick)
    BY DEF recordClean, maybeRecover, clearCooldown, Tick, Sooner
  <2>3. QED
    BY <2>1, <2>2 DEF Next
<1>2. QED
  BY <1>1, Invariance, PTL DEF Spec, ClusterOpensCooldown

(* Every behaviour of the throttle is, clocks and events forgotten, one of the *)
(* contract's: it halves as a cooldown opens, climbs one step outside of them, *)
(* and is cleared; the safety part of ImplementsThrottle.                      *)
THEOREM Implements == Spec => Contract!Spec
<1>1. Init => Contract!Init
  BY DEF Init, Contract!Init, InCooldown
<1>2. IInv /\ [Next]_vars => [Contract!Next]_Contract!throttleVars
  <2> SUFFICES ASSUME IInv, [Next]_vars
               PROVE  [Contract!Next]_Contract!throttleVars
    OBVIOUS
  <2> USE DEF Contract!Next, Contract!throttleVars
  <2>0. /\ activeLimit \in Floor .. Ceiling /\ coolingLeft \in 0 .. Longest
        /\ Floor \in Nat /\ Ceiling \in Nat /\ Longest \in Nat
    BY ConfigTypes DEF IInv, TypeOK
  <2>1. ASSUME NEW d \in Downloads, recordStall(d)
        PROVE [Contract!Next]_Contract!throttleVars
    <3>1. CASE Trips(InWindow \cup {d})
      <4>1. ~InCooldown /\ Trip
        BY <2>1, <3>1 DEF recordStall, Trips
      <4>2. InCooldown' = TRUE
        BY <4>1, TripStep, ConfigTypes DEF InCooldown
      <4>3. Contract!Trip
        BY <4>1, <4>2 DEF Contract!Trip, Contract!AtLeastFloor, Trip, Halved, InCooldown
      <4>4. QED
        BY <4>3
    <3>2. CASE ~Trips(InWindow \cup {d})
      BY <2>1, <3>2 DEF recordStall, InCooldown
    <3>3. QED
      BY <3>1, <3>2
  <2>2. CASE recordClean
    BY <2>2 DEF recordClean, InCooldown
  <2>3. CASE maybeRecover
    <3>1. CASE activeLimit < Ceiling
      BY <2>0, <2>3, <3>1 DEF maybeRecover, InCooldown, Contract!Recover
    <3>2. CASE ~(activeLimit < Ceiling)
      BY <2>0, <2>3, <3>2 DEF maybeRecover, InCooldown
    <3>3. QED
      BY <3>1, <3>2
  <2>4. CASE clearCooldown
    BY <2>4 DEF clearCooldown, InCooldown, Contract!Clear
  <2>5. CASE Tick
    <3>1. CASE coolingLeft = 1
      BY <2>0, <2>5, <3>1 DEF Tick, Sooner, InCooldown, Contract!Expire
    <3>2. CASE coolingLeft # 1
      BY <2>0, <2>5, <3>2 DEF Tick, Sooner, InCooldown
    <3>3. QED
      BY <3>1, <3>2
  <2>6. CASE UNCHANGED vars
    BY <2>6 DEF vars, InCooldown
  <2>7. QED
    BY <2>1, <2>2, <2>3, <2>4, <2>5, <2>6 DEF Next
<1>3. QED
  BY <1>1, <1>2, Invariance, PTL DEF Spec, Contract!Spec
===============================================================================
