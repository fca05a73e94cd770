\* Safety of the sweep, that it implements the audit, and that it ends.
CONSTANTS
    Instance = {i1, i2}
    NoInstance = NoInstance
    Entries <- AllEntries
    Services <- SomeServices
    ApiLevels <- LegacyAndNew
    ManifestType = "device"
SPECIFICATION FairSpec
CHECK_DEADLOCK FALSE
INVARIANTS
    TypeOK
    CapturesAlive
    TimeoutsAccounted
    PassJustified
    FailureJustified
PROPERTIES
    VerdictsFrozen
    AuditSpec
    SweepEnds
