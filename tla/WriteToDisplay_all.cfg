SPECIFICATION MCSpec
CONSTANTS
  w = 4
  h = 3
  MaxSteps = 3
  Addresses = {0, 5, 10}
  Bytes = {"a", "nul"}
  Texts <- SomeTexts
  Definitions <- SomeDefinitions
  OutputLengths = {8}
  Headers <- SomeHeaders
  AttributeLists <- SomeLists
  Cc1s = {"nothing", "reset_null"}
  ReadOps = {"mdt"}
  Rolls <- SomeRolls
INVARIANTS TypeOK FieldsOnScreen
PROPERTIES UnlockedFormatStays RestoreGivesBack
CHECK_DEADLOCK FALSE
