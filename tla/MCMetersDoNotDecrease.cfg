SPECIFICATION ReadingSpec
CONSTANTS
    Rooms = {r1}
    Months = {1, 2}
    MaxMeter = 2
INVARIANT MetersDoNotDecrease
CHECK_DEADLOCK FALSE
