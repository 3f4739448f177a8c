CONSTANTS
    MinutesPerDay = 3
    Sunrise = 2  Sunset = 4
    SunriseOffset = 0
    SunsetOffset <- Earlier
    MaxTime = 14  MaxInbox = 2  MaxFaults = 1
    Weekdays = 2
    Items <- ThreeItems
SPECIFICATION Spec
CHECK_DEADLOCK FALSE
INVARIANTS TypeOK SunConsistent
PROPERTIES NeverTwice ImplementsAgenda
