SPECIFICATION FairSpec
CONSTANTS
  CHAR_BITS = 2
  SHORT_BITS = 3
  INT_BITS = 5
  LONG_BITS = 7
  PRINTF_NTOA_BUFFER_SIZE = 6
  Strings <- SomeStrings
  Characters <- SomeCharacters
  PRINTK_BUF_SIZE = 16
  TEMP_SIZE = 6
  CHUNK_SIZE = 3
  Formatted <- Vsnprintf
  Starts <- SomeStarts
  Programs <- SomePrograms
  Messages <- SomeMessages
  TickMessage <- ATick
  MaxPrints = 2
  MaxTicks = 1
INVARIANTS
  DigitsSurvive
  FieldsStandard
  BufferHoldsText
  LogConserved
PROPERTIES
  PrintkReturns
CHECK_DEADLOCK FALSE
