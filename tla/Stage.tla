------------------------------- MODULE Stage --------------------------------
(* A run that checks several components plays one of them in each behaviour: *)
(* the scene of the behaviour.  The variables of the component are x1, x2, ..*)
(* in the order it declares them; those it does not need keep their value.   *)
EXTENDS Naturals

VARIABLES scene, x1, x2, x3, x4, x5, x6, x7, x8, x9, x10, x11, x12, x13, x14, x15, x16, x17

stage == <<scene, x1, x2, x3, x4, x5, x6, x7, x8, x9, x10, x11, x12, x13, x14, x15, x16, x17>>

\* The scene s is chosen, of a component with n variables.
Opens(s, n) ==
  /\ scene = s
  /\ IF n < 5 THEN x1 = 0 /\ x2 = 0 /\ x3 = 0 /\ x4 = 0 /\ x5 = 0 ELSE TRUE
  /\ IF n < 6 THEN x6 = 0 ELSE TRUE
  /\ IF n < 7 THEN x7 = 0 ELSE TRUE
  /\ IF n < 8 THEN x8 = 0 ELSE TRUE
  /\ IF n < 9 THEN x9 = 0 ELSE TRUE
  /\ IF n < 10 THEN x10 = 0 ELSE TRUE
  /\ IF n < 11 THEN x11 = 0 ELSE TRUE
  /\ IF n < 12 THEN x12 = 0 ELSE TRUE
  /\ IF n < 13 THEN x13 = 0 ELSE TRUE
  /\ IF n < 14 THEN x14 = 0 ELSE TRUE
  /\ IF n < 16 THEN x15 = 0 /\ x16 = 0 ELSE TRUE
  /\ IF n < 17 THEN x17 = 0 ELSE TRUE

\* It is played, in a step that leaves alone what its component does not have.
Plays(s, n) ==
  /\ scene = s /\ scene' = scene
  /\ IF n < 6 THEN x6' = x6 ELSE TRUE
  /\ IF n < 7 THEN x7' = x7 ELSE TRUE
  /\ IF n < 8 THEN x8' = x8 ELSE TRUE
  /\ IF n < 9 THEN x9' = x9 ELSE TRUE
  /\ IF n < 10 THEN x10' = x10 ELSE TRUE
  /\ IF n < 11 THEN x11' = x11 ELSE TRUE
  /\ IF n < 12 THEN x12' = x12 ELSE TRUE
  /\ IF n < 13 THEN x13' = x13 ELSE TRUE
  /\ IF n < 14 THEN x14' = x14 ELSE TRUE
  /\ IF n < 16 THEN x15' = x15 /\ x16' = x16 ELSE TRUE
  /\ IF n < 17 THEN x17' = x17 ELSE TRUE
=============================================================================
