\* What a served-HAL test that ends has established.
CONSTANTS
    foo = foo
    bar = bar
    Package = {foo, bar}
    MaxMinor = 1
    IBaseName = IBaseName
    Manifests <- SomeManifests
    Partitions <- AllPartitions
SPECIFICATION Spec
CHECK_DEADLOCK FALSE
INVARIANTS
    TypeOK
    NothingOverlooked
    AccusedRightly
    CutAccounted
