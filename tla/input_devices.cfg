CONSTANTS
  MaxFaults = 1
  Exts = {"classic", "classicHighRes", "drawsome"}
  MaxPlugs = 3
  MaxFaultyPlugs = 0
  Pads = {"dualshock", "digital", "mouse", "flightstick", "negcon", "jogcon"}
  MaxTries = 3
  MaxLosses = 3
  MaxMoves = 2
  NumPins = 2
  PIN_A0 = 1
  Skipped = {}
  Axes <- MCAxes
SPECIFICATION Spec
INVARIANTS TypeOK NotMisread NotLeftInConfig AxisFromItsPin
PROPERTIES WiiFound CallReturns Ps2Shown FreshAnswer AxisShows
