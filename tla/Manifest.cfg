\* The other tests that go through a manifest.
CONSTANTS
    mapper = mapper
    gnss = gnss
    ext = ext
    base = base
    Package = {mapper, gnss, ext, base}
    Platform = {mapper, gnss, base}
    PassthroughHals = {mapper}
    BasePackage = base
    MaxMinor = 1
    BadName = BadName
    NoService = NoService
    Manifests <- SomeManifests
    Devices <- SomeDevices
    ApiLevels <- SomeLevels
SPECIFICATION Spec
CHECK_DEADLOCK FALSE
INVARIANTS
    TypeOK
    ReportExact
    FaultsContained
    PassthroughVouched
