-------------------------------- MODULE Throttle --------------------------------
(* What the adaptive throttle promises the download manager, with clocks and  *)
(* stall events abstracted away: a concurrency cap and a cooldown.  The cap   *)
(* is halved when a cooldown opens, never while one is open, and climbs back  *)
(* one step at a time outside cooldowns.                                      *)
EXTENDS Integers

CONSTANTS Ceiling,  \* max_workers
          Floor     \* AdaptiveThrottleConfig.Floor, clamped by the constructor

VARIABLES limit,    \* activeLimit
          cooling   \* inCooldown()
throttleVars == <<limit, cooling>>

Init == limit = Ceiling /\ cooling = FALSE

AtLeastFloor(n) == IF n < Floor THEN Floor ELSE n

(* A cluster of stalls opens a cooldown and halves the cap.                   *)
Trip == /\ ~cooling
        /\ cooling' = TRUE
        /\ limit' = AtLeastFloor(limit \div 2)

(* The deadline passes.                                                       *)
Expire == /\ cooling
          /\ cooling' = FALSE
          /\ UNCHANGED limit

(* A clean window passed: one step up.                                        *)
Recover == /\ ~cooling
           /\ limit < Ceiling
           /\ limit' = limit + 1
           /\ UNCHANGED cooling

(* Manager.Resume overrides everything.                                       *)
Clear == cooling' = FALSE /\ limit' = Ceiling

Next == Trip \/ Expire \/ Recover \/ Clear

Spec == Init /\ [][Next]_throttleVars
FairSpec == Spec /\ WF_throttleVars(Expire)

(* The admission gate of processNext.                                         *)
Admits(claims) == ~cooling /\ claims < limit
===============================================================================
