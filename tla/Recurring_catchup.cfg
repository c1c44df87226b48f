SPECIFICATION RecurringSpec
CONSTANTS
    Runs = {j1, j2}
    MonthLengths <- ShortMonths
    YearLength = 2
    WeekLength = 2
    Rules <- EachKind
    Starts = {0, 1}
    Horizon = 2
    MaxCatchup = 2
    MaxChanges = 3
    MaxMishaps = 1
INVARIANTS
    DatesInOrder
    NothingSkipped
    DeletedStaysDeleted
PROPERTIES
    CatchesUp
\* A bounded number of days and changes: the rest is silence.
CHECK_DEADLOCK FALSE
