---------------------------- MODULE MCPatternTick ----------------------------
(***************************************************************************)
(* A small instance of PatternTick: three keys, the second of them         *)
(* CRITICAL, cooldowns shorter and longer than an hour, two hours a day.   *)
(***************************************************************************)
EXTENDS PatternTick

ThreeKeyCritical == {2}
ThreeKeyCooldown == <<1, 0, 2>>
==============================================================================
