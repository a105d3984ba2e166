SPECIFICATION MeasureSpec
CONSTANTS
  Adds = {x1, x2}
  LastSlot = 3
  Minute = 2
  MaxClock = 5
SYMMETRY AddsSymmetry
INVARIANT CountsWindow
CHECK_DEADLOCK FALSE
