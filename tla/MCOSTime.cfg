SPECIFICATION Spec
CONSTANTS
  Dates <- MCDates
  Starts <- MCStarts
  MaxUpdates = 2
INVARIANT CalendarCounts
INVARIANT ReadsNeverAhead
INVARIANT ClockCounts
