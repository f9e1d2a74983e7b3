CONSTANTS
  Keys = {k}
  Values = {v}
  MaxTyped = 3
  MaxOpens = 1
SPECIFICATION EditsSpec
PROPERTY ResetStaysAvailable
CHECK_DEADLOCK FALSE
