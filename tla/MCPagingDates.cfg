\* Three rows, two of them created within one millisecond, in pages of one or two.
SPECIFICATION PagingSpec
CONSTANTS
  RowCount = 3
  Ticks = 3
  TicksPerMilli = 2
  Ranks = {0, 1}
  MaxLimit = 2
  MaxTableChanges = 1
INVARIANT DatedWalkSeesEachRowOnce
CHECK_DEADLOCK FALSE
