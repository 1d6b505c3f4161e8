SPECIFICATION PartitionsSpec
CONSTANTS
  BaseYear = 2026
  Seeded = {0, 1, 2, 3, 4, 5, 6, 7, 8, 9, 10, 11, 12}
  StartMonths = {9, 10, 11, 12, 13}
  LastMonth = 26
  LookaheadMonths = 3
  MaxGap = 28
  Warmup = 31
INVARIANTS MonthReady NeverRefused
