--------------------------- MODULE MCColourControl ---------------------------
(* Two lights; ranges are short, so that moves reach and cross their ends. *)
EXTENDS ColourControl

CONSTANTS s1, s2

MCColours ==
  {[hue |-> 1, saturation |-> 1, X |-> 1, Y |-> 5, temperature |-> 6]}

Hue(cmd, direction, hue, time) == [cmd |-> cmd, direction |-> direction, hue |-> hue, time |-> time]
By(cmd, direction, n, time) ==
  [cmd |-> cmd, direction |-> direction, step_size |-> n, rate |-> n, time |-> time]

MCMessages == {
  Hue("MOVE_TO_HUE", "SHORTEST", 4, 3), Hue("MOVE_TO_HUE", "LONGEST", 3, 4), Hue("MOVE_TO_HUE", "UP", 2, 0),
  By("MOVE_HUE", "UP", 1, 0), By("STEP_HUE", "DOWN", 2, 2),
  [cmd |-> "MOVE_TO_SATURATION", direction |-> "UP", saturation |-> 2, time |-> 3],
  By("MOVE_SATURATION", "DOWN", 1, 0), By("STEP_SATURATION", "UP", 1, 1),
  [cmd |-> "MOVE_TO_HUE_AND_SATURATION", direction |-> "DOWN", hue |-> 4, saturation |-> 2, time |-> 2],
  [cmd |-> "MOVE_TO_XY", direction |-> "UP", X |-> 7, Y |-> 1, time |-> 4],
  [cmd |-> "MOVE_XY", direction |-> "UP", X_rate |-> -2, Y_rate |-> 1, time |-> 0],
  [cmd |-> "STEP_XY", direction |-> "UP", X_step |-> 2, Y_step |-> -1, time |-> 3],
  [cmd |-> "MOVE_TO_COLOUR_TEMPERATURE", direction |-> "UP", colour |-> 0, time |-> 4],
  [cmd |-> "STOP", direction |-> "UP", time |-> 0]}
=============================================================================
