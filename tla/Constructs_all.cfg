SPECIFICATION MCSpec
CONSTANTS
  w = 10
  h = 4
  MaxSteps = 5
  Windows <- SomeWindows
  Menus <- SomeMenus
  Corners = {0, 2, 10}
  FirstText <- Text
INVARIANTS CountsKeepLists ChoicesReached
PROPERTIES WindowsComeBack
CHECK_DEADLOCK FALSE
