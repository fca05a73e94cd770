\* The property response test against a HAL of any behaviour.
CONSTANTS
    p1 = p1
    p2 = p2
    p3 = p3
    p4 = p4
    a1 = a1
    a2 = a2
    None = None
    Prop = {p1, p2, p3, p4}
    Eligible = {p1, p2, p3}
    Area = {a1, a2}
    AreaConfigs <- Configs
    CheckTimes = 5
SPECIFICATION FairSpec
CHECK_DEADLOCK FALSE
INVARIANTS
    TypeOK
    LeakOnlyUnanswered
PROPERTIES
    NoFalseAlarm
    TestEnds
