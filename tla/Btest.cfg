SPECIFICATION Spec
CONSTANTS
  CommandLines <- MCCommandLines
  TEST_RANGE = 4
  Draws <- MCDraws
  MaxAlarms = 1
INVARIANTS ArraysFit ScoreIsFair HangsAreEnded
CHECK_DEADLOCK FALSE
