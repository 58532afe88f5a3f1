-------------------------- MODULE SimpleButtonProofs --------------------------
(***************************************************************************)
(* The simple button tells presses apart for any durations, times and      *)
(* width of the clock.  The invariant says what the time stamp is of, as   *)
(* the code uses one for two purposes: it is the start of a press that is  *)
(* yet to be classified, and the end of one that was short; at other times *)
(* it is old, and nothing may be read off it.                              *)
(***************************************************************************)
EXTENDS SimpleButton, TLAPS

\* What has been sent, and what the time stamp is of.
Stamped ==
  /\ held /\ short_click_cmd => Len(sent) = 1
  /\ held /\ ~short_click_cmd => sent = <<>> /\ timestamp = mark
  /\ ~held /\ short_click_cmd => sent = <<"SHORT_PRESS">> /\ timestamp = mark

\* Until the clock wraps, it does not go back.
Forward == ~wrapped => mark <= clock

IInv == TypeOK /\ ThresholdsOrdered /\ Stamped /\ Forward

\* The flags are apart from the numbers, as the provers treat them apart.
Numbers ==
  /\ short_press_max_duration \in 0..(Word - 1)
  /\ extra_long_press_min_duration \in 0..(Word - 1)
  /\ double_click_gap_duration \in 0..(Word - 1)
  /\ timestamp \in 0..(Word - 1) /\ clock \in 0..(Word - 1) /\ mark \in 0..(Word - 1)
Flags == short_click_cmd \in BOOLEAN /\ held \in BOOLEAN /\ wrapped \in BOOLEAN

LEMMA Types == TypeOK <=> Numbers /\ Flags /\ sent \in Seq(Commands)
  BY DEF TypeOK, Numbers, Flags

LEMMA Initially == Init => IInv
  <1> SUFFICES ASSUME Init PROVE IInv
    OBVIOUS
  <1>1. Numbers
    BY WordAssumption, DurationAssumption DEF Init, Numbers
  <1>2. Flags
    BY DEF Init, Flags
  <1>3. sent \in Seq(Commands)
    BY DEF Init
  <1>4. ThresholdsOrdered
    BY DEF Init, ThresholdsOrdered
  <1>5. Stamped
    BY DEF Init, Stamped
  <1>6. Forward
    BY WordAssumption DEF Init, Forward
  <1> QED BY <1>1, <1>2, <1>3, <1>4, <1>5, <1>6, Types DEF IInv

-----------------------------------------------------------------------------
(* The steps that do not report anything.                                  *)

LEMMA TimeStep == ASSUME IInv, Time PROVE IInv'
  <1>1. PICK n \in 1..(Word - 1) :
          clock' = (clock + n) % Word /\ wrapped' = (wrapped \/ clock + n >= Word)
    BY DEF Time
  <1>2. UNCHANGED <<durations, timestamp, short_click_cmd, sent, held, mark>>
    BY DEF Time
  <1>3. Numbers /\ Flags /\ sent \in Seq(Commands) /\ Stamped /\ Forward /\ ThresholdsOrdered
    BY Types DEF IInv
  <1>4. Numbers'
    BY <1>1, <1>2, <1>3, WordAssumption DEF Numbers, durations
  <1>5. Flags'
    <2>1. wrapped' \in BOOLEAN
      BY <1>1
    <2> QED BY <1>2, <1>3, <2>1 DEF Flags
  <1>6. Forward'
    <2>1. ASSUME ~wrapped' PROVE ~wrapped /\ ~(clock + n >= Word)
      BY <1>1, <2>1
    <2>2. ASSUME ~(clock + n >= Word) PROVE clock <= clock'
      BY <1>1, <1>3, <2>2, WordAssumption DEF Numbers
    <2>3. ASSUME clock <= clock', mark <= clock PROVE mark' <= clock'
      BY <1>2, <1>3, <1>4, <2>3 DEF Numbers
    <2> QED BY <1>3, <2>1, <2>2, <2>3 DEF Forward
  <1>7. Stamped' /\ ThresholdsOrdered' /\ sent' \in Seq(Commands)
    BY <1>2, <1>3 DEF Stamped, ThresholdsOrdered, durations
  <1> QED BY <1>4, <1>5, <1>6, <1>7, Types DEF IInv, TypeOK, Numbers, Flags

LEMMA DurationsStep ==
  ASSUME IInv, NEW value \in Durations,
         \/ set_short_press_max_duration(value)
         \/ set_extra_long_press_min_duration(value)
         \/ set_double_click_gap_duration(value)
  PROVE  IInv'
  <1>1. value \in 0..(Word - 1)
    BY DurationAssumption
  <1>2. Numbers /\ Flags /\ sent \in Seq(Commands) /\ Stamped /\ Forward /\ ThresholdsOrdered
    BY Types DEF IInv
  <1>3. UNCHANGED <<timestamp, short_click_cmd, sent, clock, held, mark, wrapped>>
    BY DEF set_short_press_max_duration, set_extra_long_press_min_duration,
       set_double_click_gap_duration
  <1>4. Numbers' /\ ThresholdsOrdered'
    <2>1. CASE set_short_press_max_duration(value)
      BY <1>1, <1>2, <2>1, WordAssumption
      DEF set_short_press_max_duration, Numbers, ThresholdsOrdered
    <2>2. CASE set_extra_long_press_min_duration(value)
      BY <1>1, <1>2, <2>2, WordAssumption
      DEF set_extra_long_press_min_duration, Numbers, ThresholdsOrdered
    <2>3. CASE set_double_click_gap_duration(value)
      BY <1>1, <1>2, <2>3, WordAssumption
      DEF set_double_click_gap_duration, Numbers, ThresholdsOrdered
    <2> QED BY <2>1, <2>2, <2>3
  <1>5. Flags' /\ sent' \in Seq(Commands)
    BY <1>2, <1>3 DEF Flags
  <1>6. Stamped' /\ Forward'
    BY <1>2, <1>3 DEF Stamped, Forward
  <1> QED BY <1>4, <1>5, <1>6, Types DEF IInv, TypeOK, Numbers, Flags

-----------------------------------------------------------------------------
(* The button goes down and up.                                            *)

\* Both events leave the durations and the clock alone.
LEMMA EventStep ==
  ASSUME IInv, UNCHANGED <<durations, clock>>, timestamp' \in {timestamp, clock},
         mark' = clock, wrapped' = FALSE,
         short_click_cmd' \in BOOLEAN, held' \in BOOLEAN, sent' \in Seq(Commands), Stamped'
  PROVE  IInv'
  <1>1. Numbers /\ ThresholdsOrdered
    BY Types DEF IInv
  <1>2. Numbers' /\ ThresholdsOrdered'
    BY <1>1 DEF Numbers, ThresholdsOrdered, durations
  <1>3. Flags'
    BY DEF Flags
  <1>4. clock <= clock
    BY <1>1 DEF Numbers
  <1>5. Forward'
    BY <1>4 DEF Forward
  <1> QED BY <1>2, <1>3, <1>5, Types DEF IInv, TypeOK, Numbers, Flags

LEMMA PressedStep == ASSUME IInv, pressed PROVE IInv'
  <1>1. /\ held' = TRUE /\ mark' = clock /\ wrapped' = FALSE /\ short_click_cmd' = short_click_cmd
        /\ UNCHANGED <<durations, clock>>
    BY DEF pressed
  <1>2. short_click_cmd \in BOOLEAN
    BY Types DEF IInv, Flags
  <1>3. CASE short_click_cmd
    <2>1. PICK cmd \in Commands : sent' = <<cmd>>
      BY <1>3 DEF pressed, Commands
    <2>2. sent' \in Seq(Commands) /\ Len(sent') = 1
      BY <2>1
    <2>3. timestamp' = timestamp
      BY <1>3 DEF pressed
    <2>4. Stamped'
      BY <1>1, <1>3, <2>2 DEF Stamped
    <2> QED BY <1>1, <1>2, <2>2, <2>3, <2>4, EventStep
  <1>4. CASE ~short_click_cmd
    <2>1. sent' = <<>> /\ timestamp' = clock
      BY <1>4 DEF pressed
    <2>2. sent' \in Seq(Commands)
      BY <2>1
    <2>3. Stamped'
      BY <1>1, <1>4, <2>1 DEF Stamped
    <2> QED BY <1>1, <1>2, <2>1, <2>2, <2>3, EventStep
  <1> QED BY <1>3, <1>4

\* A press has a kind.
LEMMA ClassifiedIsCommand == Classified \in Commands
  BY DEF Classified, Commands

LEMMA ReleasedStep == ASSUME IInv, released PROVE IInv'
  <1>1. held' = FALSE /\ mark' = clock /\ wrapped' = FALSE /\ UNCHANGED <<durations, clock>>
    BY DEF released
  <1>2. /\ short_click_cmd' \in BOOLEAN
        /\ timestamp' \in {timestamp, clock}
    BY DEF released
  <1>3. CASE short_click_cmd
    <2>1. short_click_cmd' = FALSE /\ sent' = sent
      BY <1>3 DEF released
    <2>2. sent' \in Seq(Commands)
      BY <2>1, Types DEF IInv
    <2>3. Stamped'
      BY <1>1, <2>1 DEF Stamped
    <2> QED BY <1>1, <1>2, <2>2, <2>3, EventStep
  <1>4. CASE ~short_click_cmd
    <2>1. sent = <<>>
      BY <1>4 DEF IInv, Stamped, released
    <2>2. sent' = <<Classified>>
      BY <1>4, <2>1 DEF released
    <2>3. sent' \in Seq(Commands)
      BY <2>2, ClassifiedIsCommand
    <2>4. /\ short_click_cmd' = (Classified = "SHORT_PRESS")
          /\ Classified = "SHORT_PRESS" => timestamp' = clock
      BY <1>4 DEF released
    <2>5. Stamped'
      BY <1>1, <2>2, <2>4 DEF Stamped
    <2> QED BY <1>1, <1>2, <2>3, <2>5, EventStep
  <1> QED BY <1>3, <1>4

LEMMA NextStep == ASSUME IInv, [Next]_vars PROVE IInv'
  <1>1. CASE UNCHANGED vars
    BY <1>1 DEF IInv, TypeOK, ThresholdsOrdered, Stamped, Forward, vars, durations
  <1>2. CASE Next
    BY <1>2, TimeStep, PressedStep, ReleasedStep, DurationsStep DEF Next
  <1> QED BY <1>1, <1>2

LEMMA Invariance == Spec => []IInv
  BY Initially, NextStep, PTL DEF Spec

-----------------------------------------------------------------------------
(* A step in which the button goes down is pressed; one in which it goes   *)
(* up is released.                                                         *)

LEMMA ButtonSteps ==
  ASSUME [Next]_vars
  PROVE  (~held /\ held' => pressed) /\ (held /\ ~held' => released)
  BY DEF Next, Time, pressed, released, set_short_press_max_duration,
     set_extra_long_press_min_duration, set_double_click_gap_duration, vars

\* What the states of the model are, and the durations of an extra long press and
\* of a short one are in order (SimpleButton::Server's setters).
THEOREM DurationsInOrder == Spec => [](TypeOK /\ ThresholdsOrdered)
  <1>1. IInv => TypeOK /\ ThresholdsOrdered
    BY DEF IInv
  <1> QED BY <1>1, Invariance, PTL

\* Each press is reported by one message, at its beginning or at its end
\* (Server::pressed, Server::released).
THEOREM PressesAnswered == Spec => EachPressAnswered
  <1>1. IInv /\ [Next]_vars => [held /\ ~held' => Len(sent') = 1]_vars
    <2> SUFFICES ASSUME IInv, [Next]_vars, held, ~held' PROVE Len(sent') = 1
      OBVIOUS
    <2>1. released
      BY ButtonSteps
    <2>2. CASE short_click_cmd
      BY <2>1, <2>2 DEF released, IInv, Stamped
    <2>3. CASE ~short_click_cmd
      <3>1. sent = <<>>
        BY <2>3 DEF IInv, Stamped
      <3>2. sent' = <<Classified>>
        BY <2>1, <2>3, <3>1 DEF released
      <3> QED BY <3>2
    <2> QED BY <2>2, <2>3
  <1> QED BY <1>1, Invariance, PTL DEF Spec, EachPressAnswered

\* A press that is classified at its release is classified by the time it was held
\* (Server::released).
THEOREM PressesMeasured == Spec => PressesTimed
  <1>1. IInv /\ [Next]_vars =>
          [held /\ ~held' /\ sent # sent' /\ ~wrapped =>
             sent'[Len(sent')] \in Meant(clock - mark)]_vars
    <2> SUFFICES ASSUME IInv, [Next]_vars, held, ~held', sent # sent', ~wrapped
                 PROVE  sent'[Len(sent')] \in Meant(clock - mark)
      OBVIOUS
    <2>1. released
      BY ButtonSteps
    <2>2. ~short_click_cmd
      BY <2>1 DEF released
    <2>3. sent = <<>> /\ timestamp = mark /\ mark <= clock
      BY <2>2 DEF IInv, Stamped, Forward
    <2>4. sent' = <<Classified>>
      BY <2>1, <2>2, <2>3 DEF released
    <2>5. /\ {short_press_max_duration, extra_long_press_min_duration, clock, mark} \subseteq Int
          /\ diff = clock - mark
      BY <2>3, WordAssumption, Types DEF IInv, Numbers, diff
    <2>6. Classified \in Meant(clock - mark)
      BY <2>5 DEF Classified, Meant
    <2> QED BY <2>4, <2>6
  <1> QED BY <1>1, Invariance, PTL DEF Spec, PressesTimed

\* A double click begins within the gap after a short press (Server::pressed).
THEOREM DoubleClicksAreQuick == Spec => DoubleClickIsQuick
  <1>1. IInv /\ [Next]_vars =>
          [~held /\ held' /\ sent' = <<"DOUBLE_CLICK_PRESS">> =>
             /\ sent = <<"SHORT_PRESS">>
             /\ ~wrapped => clock - mark < double_click_gap_duration]_vars
    <2> SUFFICES ASSUME IInv, [Next]_vars, ~held, held', sent' = <<"DOUBLE_CLICK_PRESS">>
                 PROVE  /\ sent = <<"SHORT_PRESS">>
                        /\ ~wrapped => clock - mark < double_click_gap_duration
      OBVIOUS
    <2>1. pressed
      BY ButtonSteps
    <2>2. short_click_cmd
      BY <2>1 DEF pressed
    <2>3. sent = <<"SHORT_PRESS">> /\ timestamp = mark
      BY <2>2 DEF IInv, Stamped
    <2>4. diff < double_click_gap_duration
      BY <2>1, <2>2 DEF pressed
    <2>5. ~wrapped => diff = clock - mark
      BY <2>3, WordAssumption, Types DEF IInv, Forward, Numbers, diff
    <2> QED BY <2>3, <2>4, <2>5
  <1> QED BY <1>1, Invariance, PTL DEF Spec, DoubleClickIsQuick
=============================================================================
