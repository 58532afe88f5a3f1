SPECIFICATION Spec
CONSTANTS
  s1 = s1
  s2 = s2
  Servers = {s1, s2}
  Hues = 6
  Byte = 4
  Word = 16
  Second = 3
  Colours <- MCColours
  Messages <- MCMessages
  MaxTransitions = 3
  MaxCommands = 3
INVARIANTS TypeOK KeepsTime Arrives StaysStopped OnCourse
CHECK_DEADLOCK FALSE
