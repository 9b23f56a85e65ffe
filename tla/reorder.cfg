CONSTANTS
  SeqSpace = 16
  HalfSpace = 8
  WinSize = 4
  BitmapBits = 4
  FirstFrame = 14
  MaxFrame = 17
  MaxSetups = 1
  Kinds = {"data", "amsdu", "bar", "drop"}
  Sleeps = TRUE
SPECIFICATION Spec
INVARIANTS SlotsPlaced RefusesExactly HeldIsTimed
PROPERTIES InOrderUnlessEarly BarStopsAtItsNumber ImplementsBuffer
CHECK_DEADLOCK FALSE
