# Specifications of the VTS HAL test suite

TLA+ models of the tests and scripts in `src/` (platform/test/vts-testcase/hal),
the TLC configurations that check them and the proofs TLAPS checks. The suite is
mostly test configurations; what it has of logic is in a few places where a test
runs against something that moves on its own: services that start and die, a
vehicle that changes its properties, callbacks in other threads, files that are
overwritten in place. A test has two ways of going wrong there, failing a device
that is right and passing one that is wrong, and those are what the properties
below are about.

## The system's parts

| Part | Where | State | Operations | What makes it correct |
|---|---|---|---|---|
| VINTF instance sweep | `treble/vintf/VtsTrebleVintfTestBase.cpp`, `SingleManifestTest.cpp` | the loop over manifest entries, a `std::async` verifier and a detached lookup thread per entry, the future between them, the failed expectations | `ForEachHalInstance`, `GetHalService`, `GetPartition`, `HalsAreServed` | an entry passes only if it was seen served as declared; a timeout is accounted for; late answers count for nothing; no thread outlives what it refers to; the sweep ends |
| Other tests of one manifest | `SingleManifestTest.cpp`, `VtsTrebleVintfTestBase.cpp` | the entry, the service and its two chains in hand, the set of what may be passthrough | `HalsAreBinderized`, `ServedPassthroughHalsAreInManifest`, `InterfacesAreReleased`, `GetPassthroughService`, `GetInterfaceChain` | what is reported of an entry is what is wrong with it, whatever the order of the entries and whatever answers too late or dies; a pass vouches for every passthrough entry |
| Served HALs against the manifests | `SingleManifestTest.cpp`, `SystemVendorTest.cpp` | the names `hwservicemanager` listed, the loop over them | `ServedHwbinderHalsAreInManifest` (both), `GetHwbinderHals` | nothing undeclared is overlooked, nothing declared is accused |
| VINTF rules | `DeviceManifestTest.cpp`, `DeviceMatrixTest.cpp`, `SystemVendorTest.cpp`, `utils.h` | none | FCM version by API level, GNSS exception, released hashes, compatibility (one libvintf call) | the rules agree with the tables they come from |
| O-MR1 test | `vts_treble_vintf_test_o_mr1.cpp` | as for the tests of one manifest | `HalsAreBinderized`, `VintfHalsAreServed`, `InterfacesAreReleased` | the same |
| Platform version test | `platform_version/` | none | comparisons of properties | - |
| Boolean response test | `automotive/vehicle/V2_0/host` lines 310-388 | the flag `_arrived`, subscriptions, two nested loops, a polling loop | `testSetBoolPropResponseTime` and its callbacks | a HAL that answers is not failed, an area passes on its own callback, nothing stays subscribed |
| OBD2 freeze frames | same file, lines 743-1044 | the timestamps read once, the loop over them | four tests: read or clear, valid or invalid timestamps | frames the car overwrites or adds meanwhile are not failures; what was cleared is gone |
| Oil temperature | same file, lines 681-741 | two callback counters, the subscription | `testEngineOilTemp` | a callback within the five seconds is noticed; it is unsubscribed when the test passes |
| Vehicle properties | same file, lines 45-164, 390-672 | the configurations by property, the loops over properties and areas, the zones found | `testListProperties`, `testVehicleStaticProps`, `testPropertyRanges`, four tests of global properties | what a pass vouches for was really asked and answered, and nothing by half; a failure has a cause in this property and not in one before |
| Thermal stress test | `thermal/V1_0/target_stress` | callback counter, mutex, condition variable | a call and `wait`, 100 times | - (the callbacks run before the call returns, so `wait` never blocks) |
| Test configuration update | `script/update_hal_tests.py`, `script/configure/test_case_creator.py`, `script/build/vts_spec_parser.py` | the files on disk, the only place the settings of a test are kept | `main`, `GetTimeOut`, `GetDisableRunTime`, `LaunchTestCase`, `CreateAndroidBp`, `CreateAndroidTestXml` | settings survive an update, whatever its order and interruptions |
| Launching a test, adapter tests | `script/launch_hal_test.py`, `script/update_hal_adapter_tests.py` | the new directory | arguments, one `LaunchTestCase` | - |
| Build rule generator | `script/build/build_rule_gen*.py` | - | called by no script | - |
| OMX store test | `media/omx/V1_0/host_omxstore` | two maps gathered from the roles, node to roles and owner to nodes; sets of names seen | `testListServiceAttributes`, `testQueryCodecInformation` | the maps say what the listing says; a pass means every node is supported by its owner; a failure is for what the test is at, never for a hidden node |
| OMX and Codec2 tests | `media/omx`, `media/c2` host tests | none | a call, its status compared | - |
| USB gadget, neural networks, one-call host tests | `usb/gadget`, `neuralnetworks`, the other `host` directories | none between steps | a call, its result compared at once | - |
| Configurations and build files | `AndroidTest.xml`, `Android.bp`, `Android.mk` everywhere | data | - | - |

How they interact: the verifiers call `GetHalService` in the verifier's thread,
which starts the lookup thread; `hwservicemanager` and the HAL processes answer
both. The vehicle test and the HAL share only calls and callbacks, and the
callbacks write the flag the test polls. `update_hal_tests.py` reads its settings
from the files that `TestCaseCreator` then overwrites, and a second category of
the same HAL may read what the first has written.

`PROJECT.json` lists the hazards at their lines and the properties that cover
them.

## Modules

`ManifestAudit` is the abstract specification of a sweep: entries are judged one
after the other, each once, and "served" only when a service was seen while the
entry was the current one.

`HalSweep` is `HalsAreServed` with its threads; `HalSweepProofs` its theorems,
`MCHalSweep` its instance. `main`, `cur` and `todo` are the thread in
`ForEachHalInstance`; `fn[i]` is the verifier of an entry, from `"entry"` through
the wait for the lookup, the `getDebugInfo` call and the look at the pid; `lookup[i]`
is the detached `getRawServiceInternal` thread and `base[i]` the value of its
future; `report[i]` are the `EXPECT_`s that failed. `Launch`, `Wait`, `Join`, `Finish` are
the loop (`Join` is the destructor of the future of `std::async`), `Skip` to
`ComparePartition` the lambda of `HalsAreServed`, `Answer` and `LateAnswer` the
lookup, `Register` and `Die` the device. The refinement mapping into
`ManifestAudit` takes the current entry from `main` and `cur`, and the verdict from
`report` and `base`.

`ManifestTests` is the other tests that go through a manifest entry by entry, three of
`SingleManifestTest` and three of the O-MR1 binary (`test` says which); `ManifestTestsProofs`,
`MCManifestTests`. `HalSweep` shows that the verifiers run one after the other (`CapturesAlive`) and
that a lookup given up has no effect afterwards (`TimeoutsAccounted`), so a verifier is a sequence of
steps of one thread here and a lookup is one step. A package stands for itself with its major version,
its interface and its instance; the minor versions, which the tests compare, are kept. `Collect` is
what is done before the loop, `LeaveOut`, `Find`, `Miss` an entry and its lookup, `CheckTransport` and
`TakeDeclared` the entries judged without one, `CompareChain` the comparison with the passthrough HALs
declared, `ReadChain` to `EndOfLinks` an entry of `InterfacesAreReleased`, `Retrieve`, `TryLower`,
`Allow` the loop of `GetPassthroughService` and the reading of its chain, `Finish` the subtraction at
the end. `ServiceDies` is the device. `late` and `silent` are history: the entries whose service was there and too
late, and those whose service died before it was asked. `Deserved` says what a manifest and a device
deserve without any order or loop.

`ServedAudit` is the other direction, for one manifest (`test` is `"device"` or
`"framework"`) or for both together (`SystemVendorTest`); `ServedAuditProofs`,
`MCServedAudit`. The manifest becomes names by `HwbinderHals`, whose loop over minor
versions is the recursive function `DownRevs`. `List` is the callback's argument;
`GetService`, `ServiceMissing`, `ComparePartition`, `UnknownPartition` are the body of
the loop, with the two ways it leaves the whole callback.

`VehicleBoolResponse` is the Boolean response test; `VehicleBoolProofs`,
`MCVehicleBoolResponse`. Test actions follow the two loops and the polling loop
(`Sleep`, `CheckPassed`, `CheckFailed`); `Deliver` is a callback, `CarChanges` the
vehicle acting on its own, and `CallHangs` a call of the test (subscribe, read, set or
unsubscribe) that the HAL never answers: it leaves the test in `"hung"` for good. `heard` and `mute` are history variables: whether a
callback of the property came since the area was taken up, and whether the HAL
accepted a set and kept silent.

`FreezeFrames` is the four OBD2 freeze frame tests (`test` says which); `FreezeFramesProofs`,
`MCFreezeFrames`. `frames` are the frames the car has stored, `Record` stores one more,
over any of the others. `ReadInfo` takes the list, `Clear` and `Read` are
`CheckWrite` and `CheckRead` with the `validateSet` and `validateGet` of the test. The HAL may
answer anything; the history variable `lied` keeps in which operation it broke a
promise.

`VehicleProperties` is the tests of the vehicle's properties and of the oil temperature (`test`
says which); `VehiclePropertiesProofs`, `MCVehicleProperties`. `PropToConfig` is the dictionary
`setUpClass` makes of the list, `todo` and `cur` are the loop over it, `at` the area the loop
inside is at, `areasFound` the zones found. `TakeStatic`, `ReadStatic`, `SetStatic` are the body of
`testVehicleStaticProps`; `TakeRange`, `RejectArea`, `ReadArea`, `EndOfAreas` that of
`testPropertyRanges`; `TakeGlobal` one property of a global test, with the outcome of
`extractValue` and the comparison behind it. An assertion that fails ends the test in `"failed"`, an
exception in `"error"`. `ReadOil` to `Sleep` are `testEngineOilTemp`, between whose steps
`OnPropertyEvent` and `OnPropertySetError` come in the callback's thread. `seen`, `sets` and
`heard` are history: the reads with their answers, the writes with their status, the
callbacks with the number of looks before them.

`OmxStore` is the test of the OMX store; `OmxStoreProofs`, `MCOmxStore`. `CheckService` is an
iteration of `testListServiceAttributes`. In `testQueryCodecInformation`, `TakeRole`, `SkipRole`,
`RejectRole` are a role of `listRoles`, `CheckNode` and `RejectNode` one of its nodes with all
attributes, `GetOmx` to `EndOfInfos` the loop over the owners with the answer of each, and
`GetNodePrefix` the end. `node2roles` and `owner2nodes` are the dictionaries, `key_set`, `role_set`
and `node_set` the sets of the code. `given`, `tried`, `refused` and `prefix` are history. The
properties are stated over the listing itself (`Mention`, `Owns`, `RolesOf`), not over the maps.

`TestConfigUpdate` is `update_hal_tests.py`; `TestConfigProofs`,
`MCTestConfigUpdate`. `conf` and `exists` are the `AndroidTest.xml` files, `torn` the
files opened for writing and not written, `timeOut`, `stop`, `cur` the variables of
`main`. `Settings` and `NoConfigure` are an iteration of `main`, `NoSource` to `WriteXml`
one `LaunchTestCase`, with the opening of a file and its writing as two steps
since opening truncates it. `Crash`, `HidlGenFails` and `Rerun` stand for
interruptions, for the exception of a package without specifications, and for the
next run. `lost` is history: the files an interruption left empty.

## Runs

| Run | Expected | What it shows |
|---|---|---|
| `sweep_safety` | pass | Types; verifiers run only inside their iteration; timeouts are accounted for; passes and failures have causes; verdicts do not change; the sweep implements `ManifestAudit`; and it ends although lookups never answer, unless a verifier is inside a `getDebugInfo` that gets no answer. |
| `manifest` | pass | Of an entry whose service answered, each of six tests reports exactly what is wrong with it, in any order of the entries; a service that is too late or dies is accused of nothing else; what `HalsAreBinderized` lets pass is allowed by the chain of a service. |
| `served` | pass | A test that ends with its list has overlooked nothing and accuses nobody wrongly; the list is left early only for the name the loop is at. |
| `served_unknown` | violation | A HAL of unknown partition ends the loop over all names, and undeclared names behind it pass. |
| `bool` | pass | The test ends unless one of its own calls is never answered, gives up only on an area no callback has come for, the last second included, and then on a HAL that kept silent or is still to answer, and leaves subscribed only a property none of whose areas passed. |
| `bool_stale` | violation | The second area of a property passes on the first area's callback. |
| `config_update` | pass | A complete run repairs what an interrupted one tore; timeouts can be traced to the files of the start; the outcome does not depend on order or number of runs. |
| `frames` | pass | A HAL that keeps its promises is not failed by a list that has grown old; after the test for clearing none of the frames it was given is stored, even with a HAL whose clearing does nothing. |
| `properties` | pass | A test of properties that passes has asked and checked whole whatever it looked at; one that fails or ends with an exception has a cause in the configuration or an answer; an event before the last look at the oil temperature is never missed, and it stays subscribed only when the test waited in vain. |
| `oil_late` | violation | The test of the oil temperature fails for want of a callback although one came in the fifth second. |
| `store` | pass | What the test gathers by node and owner is what the listing says; when it passes, every node is supported by its first owner with the roles of all mentions, created and prefixed; when it fails, a call was refused, or the role, the node, the owner's answer or the prefix it is at is wrong. |
| `store_documented` | violation | One listing with all the docs forbid and the test does not notice passes: a role twice and of no recognized mime type, a node twice for a role, a known attribute whose value only starts right. |

### Bounds

- `sweep_*`: two entries, so that a lookup of the first is late while the second is
  judged; more entries add nothing, since an iteration shares only `main`, `cur` and
  `todo` with the others. All transports inside and outside the platform packages;
  a service of each kind the expectations tell apart; API levels 27 and 28, on both
  sides of the exemption. The manifest under test is the device's; the proofs hold for both.
- `manifest`: five manifests of two or three entries, so that one entry allows another, comes before or
  after it, or stands for a lower version of it, and entries have every transport; fifty-six devices, with
  libraries that implement, extend, or do not implement what they are looked up as, and processes whose hashes are
  unreleased, empty or too few; API levels 27, 28, and none defined.
- `served*`: two packages with two minor versions, so that a lower revision of a
  declared version and a higher one both occur, and a second name is behind the
  one that ends the loop. Five manifests, for each of the two; every partition.
- `bool*`: a property with two areas, one with one, one with none, one that is not
  eligible; `CheckTimes` is the code's 5.
- `config_update`: one HAL with four categories (HALs do not share files), all subsets of
  files, sources and directories, the three kinds of configuration in the
  repository. `MaxRuns` is 3: an interrupted run, one interrupted while repairing,
  and one that completes.
- `properties`, `oil_late`: seven properties, each type of value and each branch of a test among them;
  two configurations or fewer at a time, so that what one leaves behind meets another, and
  the same property twice. For each assertion a configuration that is wrong, areas that
  overlap and areas with nothing in common, values inside and outside the bounds. Five looks,
  as in the code.
- `store`: listings of up to three right roles, or two with any of six that are wrong;
  two owners, two nodes, each owned by one or named with both; answers of up to two
  nodes, with more or fewer roles, foreign, missing or twice. Attributes stand for the two
  kinds the code knows, those with an expression for the value and others. `store_documented`
  has one listing, so that its one trace shows everything its findings name.
- `frames`: four timestamps, so that a list of two or three frames, an overwriting and
  a new frame fit in one test; two invalid timestamps as in the code.

No run checks for deadlock: every one of these programs ends, and a run of `Next`
that ends has no successor.

### Fairness and other assumptions

- `FairSpec` of `HalSweep`: weak fairness of the test's own thread and of every verifier
  thread; both are scheduled by the operating system and their timed waits end. None
  for services and lookups, which may never answer.
- `FairSpec` of `VehicleBoolResponse`: weak fairness of the test's own steps. None for the
  HAL: callbacks may never come, and any call of the test may stay without an answer
  (`CallHangs`), as none has a timeout. A call that is answered is one step with its answer;
  one that is not takes the test to `"hung"`, which `TestEnds` names as the only way not to end.
- `std::async` without a policy starts a thread, as the library the tests are
  built with does; a deferred function would run inside `Join` only, one of the
  orders the model has.
- Time is not counted: a timed wait may end whenever what it waits for has not
  happened. This includes the real timings and slower and faster ones.
- `hwservicemanager`, `procpartition`, HIDL and `hidl-gen` are external and modelled
  by the outcomes the code handles. In `ServedAudit` a package is one process, the
  list call itself succeeds, and `getDebugInfo` answers or fails (`HalSweep` has the
  service that hangs in it).
- `ManifestTests`: a lookup's answer does not depend on when it is made, apart from being too late, and a
  service in the test's own process does not die. Where the code looks at the value of a HIDL call
  without looking at its status (`GetInterfaceChain` and its like), libhidl would end the process; the
  model has the callback that did not run. The O-MR1 binary asks for a service by the entry's name
  alone; the transport it gets is taken to be the entry's own.
- In `FreezeFrames` a `get` that fails has no value, as the comment at line 908 takes for
  granted, timestamps of frames only grow, and no frame has one of the timestamps
  the tests take for invalid.
- `VehicleProperties`: a property's identifier has one type, whose bits are those of `types.hal`
  (`TypeBits`, which explains why the range test leaves out FLOAT, FLOAT_VEC, BYTES and
  MIXED along with BOOLEAN); numbers are integers of any size, as Python's are; the callback
  comes only while the property is subscribed and the test waits.
- `OmxStore`: what an expression says of a string is that it matches the whole, a start, or
  nothing; `match`, which the code uses, accepts the first two. Keys of service attributes
  and of node attributes share one set. The store keeps to its lists for the length of a
  test, as the code asks for each once.
- The order of manifest entries, of listed names and of a dictionary's keys is any.
  So is that of (HAL, category) pairs in `TestConfigUpdate`, where the code finishes
  one HAL before the next; HALs share nothing.
- `TestConfigUpdate`: a file is written as a whole or left empty (both are smaller than
  the buffer they are written through), and nobody edits files between runs.

## Proofs

Every theorem holds for any constants that satisfy the named assumption of the
module (`SweepAssumption`, `ManifestAssumption`, `ServedAssumption`, `BoolAssumption`, `UpdateAssumption`,
`FrameAssumption`, `PropertyAssumption`, `StoreAssumption`).

- `HalSweepProofs`. `Inv` adds to the properties where the loop is (`LoopInv`: the entries
  not delivered are those whose verifier is idle), how a lookup, its future and its
  verifier go together (`LookupInv`) and what is known before a verifier ends
  (`ReportInv`). Without `LookupInv` a step of a late lookup could not be told from one
  that is waited for. From it: `CapturesAlive`, `TimeoutsAccounted`, `PassJustified`,
  `FailureJustified`, the action property `VerdictsFrozen`, and `SweepAudits`: initial
  states map to initial states and every step to a step of `ManifestAudit` or a
  stutter.
  What `SweepEnds` rests on is proved as well. `StepsDescend`: each step of the loop or of a verifier
  takes up one more entry or lowers `Rank`, a natural number, and no step of a service or of a
  detached lookup touches either; so finitely many entries give the sweep finitely many steps.
  `NeverStuckInLookup`: the verifier the sweep waits for can go on, unless it hangs in `getDebugInfo`.
- `ManifestTestsProofs`. `ReportInv` says of each entry what the failures contain of it: the
  transport found at the start (`Blank`) until it is reached, the links looked at so far in
  the middle of its chain (`Partial`), all it deserves once it is left behind (`Complete`). That needs
  to know what the chains in hand are (`ChainInv`: those of the service, or
  nothing if it died), that nothing is late or silent before it is reached (`FaultInv`), and that
  the versions above the one `GetPassthroughService` tries are not there (`MinorInv`). `AllowedInv` compares
  the set gathered with what the services of the entries left behind allow: never more than
  some service allows, and exactly that if none was too late, which makes the result independent of
  the order. `NotAllowedInv` is what is left at the end. From these: `ReportIsExact`,
  `FaultsAreContained`, `PassthroughIsVouched`.
- `ServedAuditProofs`. `DownRevsAll` shows that the recursive function is `0 .. n`; the
  invariant then says that every name passed by so far was declared, or reported,
  or of another partition.
- `VehicleBoolProofs`. The invariant ties `subs` to the loops, `heard` to the flag (a
  callback of the current property has set it since it was cleared), and a set that
  was accepted to a callback on its way, one heard, or `mute`. `StepsDescend` is what `TestEnds` rests on:
  a step of the test takes up one more property or area or lowers `Rank`, a call that is never answered
  does too, and no callback and no change by the car does anything to these.
- `FreezeFramesProofs`. A list that is true names only frames older than any to come
  (`ListedInv`), so a frame that is gone stays gone, and of the frames the loop has
  passed only the current one can be stored (`ClearInv`).
- `VehiclePropertiesProofs`. What a test vouches for at its end is said of each property the
  loop has left behind (`StaticDone`, `RangeDone`) and of each area before `at`
  (`StaticInv`, `RangeInv`, `GlobalInv`). `RangeInv` also has to say that `areasFound` is the union of
  the areas before and that these are disjoint: from that it follows that an assertion on
  zones fails only for areas that overlap. `ScopeInv`: what was read is what is not skipped, so a property
  of which one area was read was not left before its last. `OilInv`: while the test waits, every event came after its
  last look. `ConfigOfListing` shows that the last configuration of a property exists, by
  well-foundedness.
- `OmxStoreProofs`. `MapInv`: the two dictionaries say what the mentions read so far say
  (`Maps`), and a node that is not in the map is one that no mention read before names
  (`FirstReading`), so the owner of a node is that of its first mention. At the end of the roles
  the mentions read are all (`ReadOn`), and the maps can be replaced by what the listing says
  (`MapsMean`). `FailuresAreJustified` needs to know where a test can be when it fails: `owner` is `None`
  until the roles are done, `prefix` until the end. `InfoInv` follows one owner's answer, `OwnerInv` keeps what was found for the owners
  the loop has left behind, whatever their order.
- `TestConfigProofs`. `TornPending`: a torn file is one the script will come by, in this
  run or, if it was aborted, in the next, because an emptied `AndroidTest.xml` still
  exists; at the end nothing is left to come by, hence `CompleteRunHeals`. `Traced`
  follows a timeout from file to variable to file. `Settled` says when the settings of
  a directory are decided in a run: when its deciding category (the profiling one
  where it exists) has been read. Whatever the plain category wrote before that is
  overwritten, and what it reads after that is right already, so the order does not
  matter.

Only model-checked: `SweepEnds` and `TestEnds`, which are liveness under fairness, out of
the prover's reach (their measures are proved, see `StepsDescend`); and the violations. No module declares a recursive operator.

## What the code does that its comments do not say

The violations above are runs of their own; `store_documented` has three disagreements in one trace, and
`oil_late` two causes: the counters are not looked at after the last sleep, and `onPropertySetError`
logs names it does not have and ends before it counts. Reading the code for the models also showed
these, which no run states:

- `ForEachHalInstance` prints "Timed out on" and goes on "to next instance", but leaving the lambda
  destroys the future of `std::async`, which waits for the verifier. A service that hangs in
  `getDebugInfo` therefore stops the sweep; `SweepEnds` excludes just this case (`Hung`).
- In `InterfacesAreReleased` a service that dies between its lookup and `interfaceChain` leaves both
  chains empty. They have the same length, nothing is compared and nothing is reported. One that dies between
  the two calls is reported for the lengths; `FaultsContained` has both.
- `GetPassthroughService` compares the chain with the version it looked up and not with the one
  the manifest declares, so an older library answers for a newer entry.
- `testPropertyRanges` is to check "the values for all these areas" and leaves out, says a comment,
  what is Boolean. It tests one bit (line 469), which FLOAT, FLOAT_VEC, BYTES and MIXED have too, so the areas and
  values of properties of these types are never looked at. The model has the bit test (`HasBooleanBit`);
  `RangesVouched` says of every type that nothing is checked by half, and not which are checked.
- `GetDisableRunTime` of `update_hal_tests.py` is to get "the stop runtime settings" and looks only for the name of
  the option: a test with `value="false"` (`biometrics/face` and `automotive/evs` have it) has `"true"` after an
  update. `OutcomeFixed` states the outcome with this rule (`DisableRunTime`).

## Not modelled, and why

Components without state between calls (the OMX, Codec2 and other one-call host tests,
platform version, the thermal stress test) have no behaviour to explore.
The USB gadget test sets a function, sleeps three seconds and looks at the host's bus; the bus is
outside the repository, and what could go wrong (MTP and PTP have the same class, subclass
and protocol; any device on the bus satisfies the search) is plain to see. Of the vehicle test,
`testDebugDump` is one call, the tests of the live frame and of the list of frames are one read each,
and `disableTestHvacPowerOn` is not run. The compatibility
checks are single calls into libvintf. The text of the generated files, replay and
adapter variants, push lists and the parsing of specifications are wording. The
build rule generator is called by no script. The neural networks benchmark runs an
application outside the repository.

## Plan

In order; each with its instance, runs and, where listed, proofs.

1. `ManifestAudit`, `HalSweep`, `HalSweepProofs` - done.
2. `ServedAudit`, `ServedAuditProofs` - done.
3. `VehicleBoolResponse`, `VehicleBoolProofs` - done.
4. `TestConfigUpdate`, `TestConfigProofs` - done.
5. `FreezeFrames`, `FreezeFramesProofs` - done.
6. `VehicleProperties`, `VehiclePropertiesProofs` - done.
7. `OmxStore`, `OmxStoreProofs` - done.
8. `ManifestTests`, `ManifestTestsProofs` - done.
9. Left: `VintfRules`, the FCM rules and the GNSS exception as operators against reference
   definitions.
