SPECIFICATION ApicSpec
CONSTANTS
  NONE = NONE
  MAX_CPU = 2
  MAX_IOAPIC = 1
  MAX_ISO = 2
  Tables <- SomeTables
  RELOAD = 6
  SleepTicks = 5
  Rates = {20}
  Gaps <- SomeGaps
  MaxElapsed = 20
INVARIANTS
  MadtRecorded
  TimerPeriod
  PercpuReady
CHECK_DEADLOCK FALSE
