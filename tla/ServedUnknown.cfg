\* A passing test has covered its partition: not behind a HAL of unknown partition.
CONSTANTS
    foo = foo
    bar = bar
    Package = {foo, bar}
    MaxMinor = 1
    IBaseName = IBaseName
    Manifests <- SomeManifests
    Partitions <- AllPartitions
SPECIFICATION Spec
CHECK_DEADLOCK FALSE
INVARIANTS
    ServedIsDeclared
