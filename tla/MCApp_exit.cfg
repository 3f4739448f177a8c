CONSTANTS
    periodic = periodic  sunrise = sunrise
    Timers = {periodic, sunrise}
    MaxSignals = 4
SPECIFICATION FairSpec
CHECK_DEADLOCK FALSE
INVARIANTS TypeOK ConnectionAlive ExitUnhindered
PROPERTY ExitEnds
