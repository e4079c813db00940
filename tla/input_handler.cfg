CONSTANTS
  Valid = {0, 1, 4, 5, 10}
  ButtonDebounce = 1
  StrumDebounce = 2
  mergedStrum = TRUE
  mapJoyLeftDpad = TRUE
  mapStartSelectHome = TRUE
  MaxChanges = 4
SPECIFICATION Spec
PROPERTIES StrumSpacing NoStale AllReleased HomeReached
