\* The freeze frame tests, with a car that records frames meanwhile.
CONSTANTS
    MaxStamp = 4
    Invalid <- InvalidTimestamps
    NoValue = NoValue
SPECIFICATION Spec
CHECK_DEADLOCK FALSE
INVARIANTS
    TypeOK
    NoFalseAlarm
    ClearedIsGone
