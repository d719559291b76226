SPECIFICATION ItSpec
CONSTANTS
  ItPlayers = {i, j}
  ItRoom = room
  ItNone = none
  ItIds = 3
  ItSlots = 1
  ItStack = 2
  ItCapacity = 1
  ItCeiling = 1
  ItInputs <- ItRecipe
  ItMade = 4
PROPERTY BoundStays
CHECK_DEADLOCK FALSE
