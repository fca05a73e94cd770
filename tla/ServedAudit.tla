---------------------------- MODULE ServedAudit ----------------------------
(***************************************************************************)
(* The tests of the other direction, "HAL is served => HAL in manifest":   *)
(* ServedHwbinderHalsAreInManifest of SingleManifestTest, for one of the   *)
(* two manifests, and of SystemVendorTest, for both together.  The test    *)
(* walks over the names hwservicemanager listed when it was asked, while   *)
(* the processes that serve them come and go.                              *)
(*                                                                         *)
(* A HAL name is a package with a minor version; a process that serves a   *)
(* package at version 1.n is registered under 1.0 to 1.n and as an IBase.  *)
(***************************************************************************)
EXTENDS Integers, FiniteSets

CONSTANTS
    Package,    \* the HAL packages of the device, one process each
    MaxMinor,   \* the highest minor version in use
    IBaseName,  \* the name every service has as an IBase
    Manifests,  \* what a manifest may be: sets of entries
    Partitions  \* the partitions a process may be found in

Minor == 0 .. MaxMinor
Entry == [package : Package, minor : Minor,
          transport : {"hwbinder", "passthrough", "empty"}]

ASSUME ServedAssumption ==
    /\ MaxMinor \in Nat
    /\ IBaseName \notin Package \X Minor
    /\ Manifests \subseteq SUBSET Entry
    /\ Partitions \subseteq {"system", "vendor", "odm", "unknown"}

VARIABLES
    test,       \* "device" or "framework": SingleManifestTest with that manifest;
                \* "both": SystemVendorTest
    manifests,  \* the two manifests, fixed
    provides,   \* the version each package's process serves, fixed
    partition,  \* where procpartition finds the process, fixed
    alive,      \* the packages whose process runs
    pc,         \* where the test is
    listed,     \* the names hwservicemanager gave
    rest,       \* those the loop has not reached yet
    name,       \* the name the loop is at
    proxy,      \* the service of that name: "none", "live" or "dead"
    failures,   \* the failed expectations, <<kind, name>>
    cut         \* why the loop was left before its end, if it was

fixed == <<test, manifests, provides, partition>>
vars == <<test, manifests, provides, partition, alive, pc, listed, rest, name,
          proxy, failures, cut>>

Name == (Package \X Minor) \cup {IBaseName}

-----------------------------------------------------------------------------
\* "1.n in manifest => 1.0, 1.1, ... 1.n are all served": the loop over downRev.
DownRevs[m \in Minor] == {m} \cup (IF m <= 0 THEN {} ELSE DownRevs[m - 1])

\* Mutant: only the declared version is taken.
HwbinderHalsMutant(t) ==
    UNION {{e.package} \X {e.minor} :
              e \in {e \in manifests[t] : e.transport = "hwbinder"}}

HwbinderHals(t) ==
    UNION {{e.package} \X DownRevs[e.minor] :
              e \in {e \in manifests[t] : e.transport = "hwbinder"}}

\* ADD_FAILURE for an entry with neither transport.
ManifestFailures(t) ==
    IF \E e \in manifests[t] : e.transport = "empty"
    THEN {<<"transport", IBaseName>>} ELSE {}

Tested == IF test = "both" THEN {"device", "framework"} ELSE {test}
Declared == UNION {HwbinderHals(t) : t \in Tested}

PartitionOfProcess(p) == IF p = "odm" THEN "vendor" ELSE p
PartitionOfType(t) == IF t = "device" THEN "vendor" ELSE "system"

\* The names hwservicemanager knows.
ServedNames ==
    {n \in Package \X Minor : n[1] \in alive /\ n[2] <= provides[n[1]]}
        \cup (IF alive = {} THEN {} ELSE {IBaseName})

-----------------------------------------------------------------------------
Init ==
    /\ test \in {"device", "framework", "both"}
    /\ manifests \in [{"device", "framework"} -> Manifests]
    /\ provides \in [Package -> Minor]
    /\ partition \in [Package -> Partitions]
    /\ alive \in SUBSET Package
    /\ pc = "list"
    /\ listed = {}
    /\ rest = {}
    /\ name = IBaseName
    /\ proxy = "none"
    /\ failures = {}
    /\ cut = "no"

\* A HAL process starts, or dies and takes the proxies to it along.
Start(p) ==
    /\ p \notin alive
    /\ alive' = alive \cup {p}
    /\ UNCHANGED <<fixed, pc, listed, rest, name, proxy, failures, cut>>

Stop(p) ==
    /\ p \in alive
    /\ alive' = alive \ {p}
    /\ proxy' = IF name # IBaseName /\ name[1] = p /\ proxy = "live" THEN "dead" ELSE proxy
    /\ UNCHANGED <<fixed, pc, listed, rest, name, failures, cut>>

\* Mutant: the loop goes over names the list no longer holds.
ListMutant ==
    /\ pc = "list"
    /\ failures' = UNION {ManifestFailures(t) : t \in Tested}
    /\ listed' = ServedNames \ {IBaseName}
    /\ rest' = ServedNames
    /\ pc' = "names"
    /\ UNCHANGED <<fixed, alive, name, proxy, cut>>

\* GetHwbinderHals, and list: the callback gets the names of this moment.
List ==
    /\ pc = "list"
    /\ failures' = UNION {ManifestFailures(t) : t \in Tested}
    /\ listed' = ServedNames
    /\ rest' = ServedNames
    /\ pc' = "names"
    /\ UNCHANGED <<fixed, alive, name, proxy, cut>>

\* Names of IBase are left out.
SkipIBase ==
    /\ pc = "names"
    /\ IBaseName \in rest
    /\ rest' = rest \ {IBaseName}
    /\ UNCHANGED <<fixed, alive, pc, listed, name, proxy, failures, cut>>

\* SystemVendorTest looks the name up in both manifests at once, and needs no
\* service for it.
CompareName(n) ==
    /\ pc = "names"
    /\ test = "both"
    /\ n \in rest \ {IBaseName}
    /\ rest' = rest \ {n}
    /\ failures' = failures \cup (IF n \in Declared THEN {} ELSE {<<"undeclared", n>>})
    /\ UNCHANGED <<fixed, alive, pc, listed, name, proxy, cut>>

\* GetHalService finds the service of the name, ...
GetService(n) ==
    /\ pc = "names"
    /\ test # "both"
    /\ n \in rest \ {IBaseName}
    /\ n \in ServedNames
    /\ rest' = rest \ {n}
    /\ name' = n
    /\ proxy' = "live"
    /\ pc' = "partition"
    /\ UNCHANGED <<fixed, alive, listed, failures, cut>>

\* Mutant: a missing service ends the loop without a failure.
ServiceMissingMutant(n) ==
    /\ pc = "names"
    /\ test # "both"
    /\ n \in rest \ {IBaseName}
    /\ name' = n
    /\ cut' = "missing"
    /\ pc' = "done"
    /\ UNCHANGED <<fixed, alive, listed, rest, proxy, failures>>

\* ... or gives nullptr, after half a second or because it is gone; ASSERT_NE
\* fails and leaves the callback.
ServiceMissing(n) ==
    /\ pc = "names"
    /\ test # "both"
    /\ n \in rest \ {IBaseName}
    /\ name' = n
    /\ failures' = failures \cup {<<"missing", n>>}
    /\ cut' = "missing"
    /\ pc' = "done"
    /\ UNCHANGED <<fixed, alive, listed, rest, proxy>>

\* What GetPartition gives: UNKNOWN if the process is gone, or procpartition
\* cannot tell.
Located == IF proxy = "live" THEN PartitionOfProcess(partition[name[1]]) ELSE "unknown"

\* Mutant: ODM is not taken for vendor.
ComparePartitionMutant ==
    /\ pc = "partition"
    /\ Located # "unknown"
    /\ failures' = failures \cup
          (IF partition[name[1]] = PartitionOfType(test) /\ name \notin Declared
           THEN {<<"undeclared", name>>} ELSE {})
    /\ pc' = "names"
    /\ UNCHANGED <<fixed, alive, listed, rest, name, proxy, cut>>

\* A service from the manifest's partition has to be declared in it.
ComparePartition ==
    /\ pc = "partition"
    /\ Located # "unknown"
    /\ failures' = failures \cup
          (IF Located = PartitionOfType(test) /\ name \notin Declared
           THEN {<<"undeclared", name>>} ELSE {})
    /\ pc' = "names"
    /\ UNCHANGED <<fixed, alive, listed, rest, name, proxy, cut>>

\* UNKNOWN: "return", which leaves the callback and with it every name still to
\* come.  A process that died before getDebugInfo is a failed expectation; one
\* that died before procpartition looked at it is not.
UnknownPartition ==
    /\ pc = "partition"
    /\ Located = "unknown"
    /\ \/ failures' = failures \cup {<<"call", name>>} /\ proxy = "dead"
       \/ UNCHANGED failures
    /\ cut' = "unknown"
    /\ pc' = "done"
    /\ UNCHANGED <<fixed, alive, listed, rest, name, proxy>>

EndOfList ==
    /\ pc = "names"
    /\ rest = {}
    /\ pc' = "done"
    /\ UNCHANGED <<fixed, alive, listed, rest, name, proxy, failures, cut>>

-----------------------------------------------------------------------------
Device == \E p \in Package : Start(p) \/ Stop(p)

Test ==
    \/ List \/ SkipIBase \/ ComparePartition \/ UnknownPartition \/ EndOfList
    \/ \E n \in Package \X Minor : CompareName(n) \/ GetService(n) \/ ServiceMissing(n)

Next == Device \/ Test

Spec == Init /\ [][Next]_vars

-----------------------------------------------------------------------------
(* Properties.                                                             *)

TypeOK ==
    /\ test \in {"device", "framework", "both"}
    /\ manifests \in [{"device", "framework"} -> Manifests]
    /\ provides \in [Package -> Minor]
    /\ partition \in [Package -> Partitions]
    /\ alive \subseteq Package
    /\ pc \in {"list", "names", "partition", "done"}
    /\ listed \subseteq Name
    /\ rest \subseteq listed
    /\ name \in Name
    /\ proxy \in {"none", "live", "dead"}
    /\ failures \subseteq {"transport", "missing", "undeclared", "call"} \X Name
    /\ cut \in {"no", "missing", "unknown"}

\* The manifests declare the name: an entry of its package with the hwbinder
\* transport names this minor version or a later one.
DeclaredIn(t, n) ==
    \E e \in manifests[t] :
        e.package = n[1] /\ e.transport = "hwbinder" /\ n[2] <= e.minor

\* The names this test is about.
Concerned ==
    {n \in listed \ {IBaseName} :
        test = "both" \/ PartitionOfProcess(partition[n[1]]) = PartitionOfType(test)}

\* A test that reaches the end of the list without a failure has seen every
\* served name of its partition declared in its manifest
\* (SingleManifestTest.cpp:318-351, SystemVendorTest.cpp:115-136).
NothingOverlooked ==
    pc = "done" /\ failures = {} /\ cut = "no" =>
        \A n \in Concerned : \E t \in Tested : DeclaredIn(t, n)

\* A name is called undeclared only if it was listed, belongs to the tested
\* partition and no tested manifest declares it or a later minor version.
AccusedRightly ==
    \A n \in Package \X Minor : <<"undeclared", n>> \in failures =>
        n \in Concerned /\ \A t \in Tested : ~DeclaredIn(t, n)

\* The list is left early only because of the name the loop is at, and a name
\* that was not looked at before the end of the test is never one for which a
\* failure was reported, except the one that ended it.
CutAccounted ==
    /\ pc = "done" /\ cut = "no" => rest = {}
    /\ cut = "missing" => <<"missing", name>> \in failures
    /\ cut = "unknown" => proxy = "dead" \/ partition[name[1]] = "unknown"
    /\ \A n \in rest \ {name} : \A k \in {"missing", "undeclared", "call"} :
           <<k, n>> \notin failures

\* SingleManifestTest.cpp:316-317 says of the test: "all HALs which are served
\* are specified in the VINTF", "(HAL is served) => (HAL in manifest)"; a HAL
\* of unknown partition is excepted by lines 338-342.
ServedIsDeclared ==
    pc = "done" /\ failures = {} =>
        \A n \in Concerned : \E t \in Tested : DeclaredIn(t, n)
=============================================================================
