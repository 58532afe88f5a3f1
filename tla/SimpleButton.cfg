SPECIFICATION Spec
CONSTANTS
  Word = 8
  DOUBLE_CLICK_GAP_DURATION_MIN_VALUE = 2
  Durations = {0, 1, 3, 4}
INVARIANT ThresholdsOrdered
PROPERTIES EachPressAnswered PressesTimed DoubleClickIsQuick
