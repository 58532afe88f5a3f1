----------------------------- MODULE SimpleButton -----------------------------
(***************************************************************************)
(* The simple button (SimpleButton::Server).  The application says when    *)
(* the button is pressed and released, by a clock in milliseconds that     *)
(* wraps; the server tells short, long, extra long and double presses      *)
(* apart and sends a message for each, while clients change the durations  *)
(* that it goes by.                                                        *)
(***************************************************************************)
EXTENDS Integers, Sequences

CONSTANTS
  Word,                                \* the clock wraps at this, 2^16
  DOUBLE_CLICK_GAP_DURATION_MIN_VALUE, \* the shortest gap, 100
  Durations                            \* what the durations are set to

ASSUME WordAssumption == Word \in Nat \ {0}
ASSUME DurationAssumption ==
  Durations \cup {DOUBLE_CLICK_GAP_DURATION_MIN_VALUE} \subseteq 0..(Word - 1)

Commands == {"SHORT_PRESS", "LONG_PRESS", "EXTRA_LONG_PRESS", "DOUBLE_CLICK_PRESS"}

VARIABLES
  short_press_max_duration, extra_long_press_min_duration, double_click_gap_duration,
  timestamp,        \* of a press that waits to be classified, or of a short one's release
  short_click_cmd,  \* the last press was found to be short at its release
  sent,             \* messages about the present press, or the last one
  clock,            \* of the application
  held,             \* the button is down
  mark,             \* history: the clock when the button last went down or up
  wrapped           \* history: the clock has wrapped since

durations == <<short_press_max_duration, extra_long_press_min_duration, double_click_gap_duration>>
vars == <<durations, timestamp, short_click_cmd, sent, clock, held, mark, wrapped>>

Init ==
  /\ short_press_max_duration = 0
  /\ extra_long_press_min_duration = 0
  /\ double_click_gap_duration = DOUBLE_CLICK_GAP_DURATION_MIN_VALUE
  /\ timestamp = 0
  /\ short_click_cmd = FALSE
  /\ sent = <<>>
  /\ clock \in 0..(Word - 1)
  /\ held = FALSE
  /\ mark = clock
  /\ wrapped = FALSE

-----------------------------------------------------------------------------
(* The button.  It goes down and up in turn: to report a release without   *)
(* a press has undefined behaviour.                                        *)

Time ==
  \E n \in 1..(Word - 1) :
    /\ clock' = (clock + n) % Word
    /\ wrapped' = (wrapped \/ clock + n >= Word)
    /\ UNCHANGED <<durations, timestamp, short_click_cmd, sent, held, mark>>

\* std::abs of the difference of two timestamps.
diff == IF clock >= timestamp THEN clock - timestamp ELSE timestamp - clock

\* Mutant: the time stamp of the press is only taken with the first one.
PressedUnstamped ==
  /\ ~held
  /\ held' = TRUE
  /\ IF short_click_cmd
     THEN /\ sent' = <<IF diff < double_click_gap_duration THEN "DOUBLE_CLICK_PRESS"
                                                           ELSE "SHORT_PRESS">>
          /\ UNCHANGED timestamp
     ELSE /\ sent' = <<>>
          /\ timestamp' = IF timestamp = 0 THEN clock ELSE timestamp
  /\ mark' = clock /\ wrapped' = FALSE
  /\ UNCHANGED <<durations, short_click_cmd, clock>>

\* After a short press, this one is reported at once.
pressed ==
  /\ ~held
  /\ held' = TRUE
  /\ IF short_click_cmd
     THEN /\ sent' = <<IF diff < double_click_gap_duration THEN "DOUBLE_CLICK_PRESS"
                                                           ELSE "SHORT_PRESS">>
          /\ UNCHANGED timestamp
     ELSE sent' = <<>> /\ timestamp' = clock
  /\ mark' = clock /\ wrapped' = FALSE
  /\ UNCHANGED <<durations, short_click_cmd, clock>>

Classified ==
  CASE diff <= short_press_max_duration -> "SHORT_PRESS"
    [] diff > short_press_max_duration /\ extra_long_press_min_duration # 0
         /\ diff >= extra_long_press_min_duration -> "EXTRA_LONG_PRESS"
    [] OTHER -> "LONG_PRESS"

\* Mutant: a press that was reported when it began is reported again.
ReleasedTwice ==
  /\ held
  /\ held' = FALSE
  /\ short_click_cmd' = (~short_click_cmd /\ Classified = "SHORT_PRESS")
  /\ sent' = Append(sent, Classified)
  /\ timestamp' = IF ~short_click_cmd /\ Classified = "SHORT_PRESS" THEN clock ELSE timestamp
  /\ mark' = clock /\ wrapped' = FALSE
  /\ UNCHANGED <<durations, clock>>

\* Mutant: the gap is measured from the press before instead of its release.
ReleasedUnstamped ==
  /\ held
  /\ held' = FALSE
  /\ short_click_cmd' = (~short_click_cmd /\ Classified = "SHORT_PRESS")
  /\ sent' = IF short_click_cmd THEN sent ELSE Append(sent, Classified)
  /\ mark' = clock /\ wrapped' = FALSE
  /\ UNCHANGED <<durations, clock, timestamp>>

released ==
  /\ held
  /\ held' = FALSE
  /\ short_click_cmd' = (~short_click_cmd /\ Classified = "SHORT_PRESS")
  /\ sent' = IF short_click_cmd THEN sent ELSE Append(sent, Classified)
  /\ timestamp' = IF ~short_click_cmd /\ Classified = "SHORT_PRESS" THEN clock ELSE timestamp
  /\ mark' = clock /\ wrapped' = FALSE
  /\ UNCHANGED <<durations, clock>>

-----------------------------------------------------------------------------
(* The durations.                                                          *)

\* Mutant: the other duration is left behind.
SetShortAlone(value) ==
  /\ short_press_max_duration' = value
  /\ UNCHANGED <<extra_long_press_min_duration, double_click_gap_duration,
                 timestamp, short_click_cmd, sent, clock, held, mark, wrapped>>

\* Takes the duration of an extra long press with it.
set_short_press_max_duration(value) ==
  /\ short_press_max_duration' = value
  /\ extra_long_press_min_duration' =
       IF extra_long_press_min_duration \in 1..(value - 1) THEN value
                                                           ELSE extra_long_press_min_duration
  /\ UNCHANGED <<double_click_gap_duration,
                 timestamp, short_click_cmd, sent, clock, held, mark, wrapped>>

\* 0 switches extra long presses off.
set_extra_long_press_min_duration(value) ==
  /\ value = 0 \/ value >= short_press_max_duration
  /\ extra_long_press_min_duration' = value
  /\ UNCHANGED <<short_press_max_duration, double_click_gap_duration,
                 timestamp, short_click_cmd, sent, clock, held, mark, wrapped>>

set_double_click_gap_duration(value) ==
  /\ value >= DOUBLE_CLICK_GAP_DURATION_MIN_VALUE
  /\ double_click_gap_duration' = value
  /\ UNCHANGED <<short_press_max_duration, extra_long_press_min_duration,
                 timestamp, short_click_cmd, sent, clock, held, mark, wrapped>>

Next ==
  \/ Time
  \/ pressed
  \/ released
  \/ \E value \in Durations :
       \/ set_short_press_max_duration(value)
       \/ set_extra_long_press_min_duration(value)
       \/ set_double_click_gap_duration(value)

Spec == Init /\ [][Next]_vars

-----------------------------------------------------------------------------
(* Properties.                                                             *)

\* The types of the variables.
TypeOK ==
  /\ {short_press_max_duration, extra_long_press_min_duration, double_click_gap_duration,
      timestamp, clock, mark} \subseteq 0..(Word - 1)
  /\ short_click_cmd \in BOOLEAN /\ held \in BOOLEAN /\ wrapped \in BOOLEAN
  /\ sent \in Seq(Commands)

\* However the durations are changed, an extra long press is not shorter than a
\* short one, or is switched off: the setters keep the two durations in order.
ThresholdsOrdered ==
  extra_long_press_min_duration # 0 => extra_long_press_min_duration >= short_press_max_duration

\* A press has been reported by one message when the button is up again: either when
\* it went down, after a short press, or when it went up.
EachPressAnswered == [][held /\ ~held' => Len(sent') = 1]_vars

\* What a press of this length is.
Meant(length) ==
  CASE length <= short_press_max_duration -> {"SHORT_PRESS"}
    [] length > short_press_max_duration /\ extra_long_press_min_duration = 0 -> {"LONG_PRESS"}
    [] OTHER -> IF length < extra_long_press_min_duration THEN {"LONG_PRESS"}
                                                          ELSE {"EXTRA_LONG_PRESS"}

\* A message sent at a release says how long the button was held, whatever presses
\* there were before, unless the clock wrapped meanwhile: no older time stamp is used.
PressesTimed ==
  [][held /\ ~held' /\ sent # sent' /\ ~wrapped => sent'[Len(sent')] \in Meant(clock - mark)]_vars

\* A double click begins within the gap after the release of a short press, and in no
\* other case, unless the clock wrapped meanwhile.
DoubleClickIsQuick ==
  [][~held /\ held' /\ sent' = <<"DOUBLE_CLICK_PRESS">> =>
       /\ sent = <<"SHORT_PRESS">>
       /\ ~wrapped => clock - mark < double_click_gap_duration]_vars
=============================================================================
