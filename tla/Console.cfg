SPECIFICATION FairConsoleSpec
CONSTANTS
  MAX_ROWS = 3
  rows = 2
  cols = 2
  MaxRow = 4
  ConsoleMessages <- SomeMessages
  Keys <- SomeKeys
INVARIANTS
  ScreenShowsText
  FollowsOutput
  DecoderInStep
PROPERTIES
  KeyboardDrains
