------------------------------ MODULE HalSweep ------------------------------
(***************************************************************************)
(* SingleManifestTest.HalsAreServed with the two helpers it runs on:       *)
(* ForEachHalInstance, which runs the verifier of each manifest entry in a *)
(* std::async thread it waits one second for, and GetHalService, which     *)
(* looks a service up in a detached thread it waits half a second for.     *)
(*                                                                         *)
(* Three kinds of threads act: the test's own thread (main), the verifier  *)
(* of an entry (fn[i]) and the detached lookup of an entry (lookup[i]).    *)
(* Services register and die at any moment.  Time is not counted: a        *)
(* timeout may fire whenever what it waits for has not happened yet.       *)
(***************************************************************************)
EXTENDS Naturals, FiniteSets

CONSTANTS
    Instance,     \* the entries the manifest enumerates
    NoInstance,   \* no entry
    Entries,      \* what an entry may declare
    Services,     \* what the service behind an entry may be like
    ApiLevels,    \* what GetShippingApiLevel may return
    ManifestType  \* the manifest under test: "device" or "framework"

Transport == {"hwbinder", "passthrough", "empty"}
Partition == {"system", "vendor", "odm", "unknown"}

\* "platform": PackageRoot knows the package (IsAndroidPlatformInterface).
Entry == [transport : Transport, platform : BOOLEAN]

\* "remote": isRemote; "castable": canCastInterface to the declared interface;
\* "partition": where procpartition places its process; "hangs": a live
\* service that never answers getDebugInfo.
Service == [remote : BOOLEAN, castable : BOOLEAN,
            partition : Partition, hangs : BOOLEAN]

ASSUME SweepAssumption ==
    /\ NoInstance \notin Instance
    /\ Entries \subseteq Entry
    /\ Services \subseteq Service
    /\ ApiLevels \subseteq Nat
    /\ ManifestType \in {"device", "framework"}

VARIABLES
    manifest,  \* [Instance -> Entries], fixed when the test starts
    device,    \* [Instance -> Services], the service an entry would find
    apiLevel,  \* the shipping API level, fixed
    up,        \* entries whose service can be found now
    main,      \* where the thread in ForEachHalInstance is
    cur,       \* the entry it is at
    todo,      \* the entries forEachInstance has not delivered yet
    fn,        \* where the verifier of each entry is
    lookup,    \* the detached getRawServiceInternal thread of each entry
    base,      \* the future's value: what the lookup of each entry gave
    report     \* the expectations that failed for each entry

fixed == <<manifest, device, apiLevel>>
vars == <<manifest, device, apiLevel, up, main, cur, todo, fn, lookup, base, report>>

-----------------------------------------------------------------------------
(* What the verifier computes.                                             *)

\* The ODM manifest is not told apart from the vendor one.
PartitionOfProcess(p) == IF p = "odm" THEN "vendor" ELSE p

PartitionOfType(t) == IF t = "device" THEN "vendor" ELSE "system"

LegacyAndExempt(i) == apiLevel <= 27 /\ ~manifest[i].platform

\* The service GetHalService hands out: found, and remote exactly when the
\* manifest says hwbinder.
Found(i) == base[i] \in {"live", "dead"}
Usable(i) == Found(i) /\ (device[i].remote <=> manifest[i].transport = "hwbinder")

\* Mutant: the exemption reaches one API level too far.
FailureHalMissingMutant(i) ==
    IF apiLevel <= 28 /\ ~manifest[i].platform THEN {} ELSE {"missing"}

\* FailureHalMissing: a failure, or a warning for exempt packages.
FailureHalMissing(i) == IF LegacyAndExempt(i) THEN {} ELSE {"missing"}

\* Passthrough entries outside the platform packages are not verified.
Skipped(i) == manifest[i].transport = "passthrough" /\ ~manifest[i].platform

\* Mutant: every transport is checked, not only passthrough.
CastFailureMutant(i, found) ==
    IF ~(found /\ device[i].castable) THEN {"uncastable"} ELSE {}

\* EXPECT_TRUE(canCastInterface(hal_service, fq_name)): false for a nullptr.
CastFailure(i, found) ==
    IF manifest[i].transport = "passthrough" /\ ~(found /\ device[i].castable)
    THEN {"uncastable"} ELSE {}

\* Mutant: the second EXPECT_EQ is dropped.
TransportFailureMutant(i) ==
    IF (manifest[i].transport = "hwbinder") <=> device[i].remote
    THEN {} ELSE {"transport"}

\* The two EXPECT_EQs on transport and isRemote.
TransportFailure(i) ==
    LET transport == manifest[i].transport
        remote    == device[i].remote
    IN  IF /\ (transport = "hwbinder") <=> remote
           /\ (transport = "passthrough") <=> ~remote
        THEN {} ELSE {"transport"}

\* Mutant: the partition found is recorded in place of the failure.
PartitionFailureMutant(partition) ==
    IF partition \in {"unknown", PartitionOfType(ManifestType)}
    THEN {} ELSE {partition}

\* The EXPECT_EQ on the partition; an unknown partition is accepted.
PartitionFailure(partition) ==
    IF partition \in {"unknown", PartitionOfType(ManifestType)}
    THEN {} ELSE {"partition"}

-----------------------------------------------------------------------------
Init ==
    /\ manifest \in [Instance -> Entries]
    /\ device \in [Instance -> Services]
    /\ apiLevel \in ApiLevels
    /\ up \in SUBSET Instance
    /\ main = "loop"
    /\ cur = NoInstance
    /\ todo = Instance
    /\ fn = [i \in Instance |-> "idle"]
    /\ lookup = [i \in Instance |-> "none"]
    /\ base = [i \in Instance |-> "none"]
    /\ report = [i \in Instance |-> {}]

-----------------------------------------------------------------------------
(* The device.  Only a service in a process of its own comes and goes.     *)

Register(i) ==
    /\ device[i].remote
    /\ i \notin up
    /\ up' = up \cup {i}
    /\ UNCHANGED <<fixed, main, cur, todo, fn, lookup, base, report>>

\* A proxy to a process that died stays dead, even if the service restarts.
Die(i) ==
    /\ device[i].remote
    /\ i \in up
    /\ up' = up \ {i}
    /\ base' = [base EXCEPT ![i] = IF @ = "live" THEN "dead" ELSE @]
    /\ UNCHANGED <<fixed, main, cur, todo, fn, lookup, report>>

-----------------------------------------------------------------------------
(* The detached thread: getRawServiceInternal, whose result goes to the    *)
(* future if GetHalService still waits for it, and nowhere otherwise.      *)

\* Mutant: getStub is set, so a lookup always finds something.
AnswerMutant(i) ==
    /\ lookup[i] = "running"
    /\ lookup' = [lookup EXCEPT ![i] = "answered"]
    /\ base' = [base EXCEPT ![i] = "live"]
    /\ UNCHANGED <<fixed, up, main, cur, todo, fn, report>>

Answer(i) ==
    /\ lookup[i] = "running"
    /\ lookup' = [lookup EXCEPT ![i] = "answered"]
    /\ base' = [base EXCEPT ![i] = IF i \in up THEN "live" ELSE "null"]
    /\ UNCHANGED <<fixed, up, main, cur, todo, fn, report>>

\* Mutant: the thread writes its result into the test's variable.
LateAnswerMutant(i) ==
    /\ lookup[i] = "abandoned"
    /\ lookup' = [lookup EXCEPT ![i] = "late"]
    /\ base' = [base EXCEPT ![i] = IF i \in up THEN "live" ELSE "null"]
    /\ UNCHANGED <<fixed, up, main, cur, todo, fn, report>>

LateAnswer(i) ==
    /\ lookup[i] = "abandoned"
    /\ lookup' = [lookup EXCEPT ![i] = "late"]
    /\ UNCHANGED <<fixed, up, main, cur, todo, fn, base, report>>

-----------------------------------------------------------------------------
(* ForEachHalInstance, in the test's own thread.                           *)

\* std::async starts the verifier; it holds references to the entry's name,
\* instance and transport, which live until this iteration ends.
Launch(i) ==
    /\ main = "loop"
    /\ i \in todo
    /\ main' = "waitFor"
    /\ cur' = i
    /\ todo' = todo \ {i}
    /\ fn' = [fn EXCEPT ![i] = "entry"]
    /\ UNCHANGED <<fixed, up, lookup, base, report>>

\* wait_for returns: the verifier is done, or one second is over (which is
\* only printed).
Wait ==
    /\ main = "waitFor"
    /\ main' = "join"
    /\ UNCHANGED <<fixed, up, cur, todo, fn, lookup, base, report>>

\* Mutant: the verifier's thread is detached, nobody waits for it.
JoinDetachedMutant ==
    /\ main = "join"
    /\ main' = "loop"
    /\ cur' = NoInstance
    /\ UNCHANGED <<fixed, up, todo, fn, lookup, base, report>>

\* Mutant: the lookup's thread is joined instead of detached.
JoinLookupMutant ==
    /\ main = "join"
    /\ fn[cur] = "done"
    /\ lookup[cur] # "abandoned"
    /\ main' = "loop"
    /\ cur' = NoInstance
    /\ UNCHANGED <<fixed, up, todo, fn, lookup, base, report>>

\* "return true; // continue to next instance": leaving the lambda destroys
\* the future of std::async, which waits for the verifier.
Join ==
    /\ main = "join"
    /\ fn[cur] = "done"
    /\ main' = "loop"
    /\ cur' = NoInstance
    /\ UNCHANGED <<fixed, up, todo, fn, lookup, base, report>>

Finish ==
    /\ main = "loop"
    /\ todo = {}
    /\ main' = "done"
    /\ UNCHANGED <<fixed, up, cur, todo, fn, lookup, base, report>>

-----------------------------------------------------------------------------
(* The verifier of entry i, the lambda is_available_from returns.          *)

\* The checks made once GetHalService returned a service or nullptr.
Conclude(i, found) ==
    IF ~found
    THEN /\ fn' = [fn EXCEPT ![i] = "done"]
         /\ report' = [report EXCEPT
                ![i] = @ \cup CastFailure(i, FALSE) \cup FailureHalMissing(i)]
    ELSE /\ fn' = [fn EXCEPT ![i] = IF device[i].remote THEN "call" ELSE "done"]
         /\ report' = [report EXCEPT
                ![i] = @ \cup CastFailure(i, TRUE) \cup TransportFailure(i)]

Skip(i) ==
    /\ fn[i] = "entry"
    /\ Skipped(i)
    /\ fn' = [fn EXCEPT ![i] = "done"]
    /\ UNCHANGED <<fixed, up, main, cur, todo, lookup, base, report>>

\* GetHalService starts the lookup in a thread of its own and detaches it.
StartLookup(i) ==
    /\ fn[i] = "entry"
    /\ ~Skipped(i)
    /\ fn' = [fn EXCEPT ![i] = "wait"]
    /\ lookup' = [lookup EXCEPT ![i] = "running"]
    /\ UNCHANGED <<fixed, up, main, cur, todo, base, report>>

\* The future is ready in time; nullptr and a service on the wrong side of
\* the process boundary both count as no service.
LookupReady(i) ==
    /\ fn[i] = "wait"
    /\ lookup[i] = "answered"
    /\ Conclude(i, Usable(i))
    /\ UNCHANGED <<fixed, up, main, cur, todo, lookup, base>>

\* Half a second is over: no service, and the lookup is left to itself.
LookupTimeout(i) ==
    /\ fn[i] = "wait"
    /\ lookup[i] = "running"
    /\ lookup' = [lookup EXCEPT ![i] = "abandoned"]
    /\ Conclude(i, FALSE)
    /\ UNCHANGED <<fixed, up, main, cur, todo, base>>

\* GetPartition: getDebugInfo gives the service's pid, ...
DebugInfo(i) ==
    /\ fn[i] = "call"
    /\ base[i] = "live"
    /\ ~device[i].hangs
    /\ fn' = [fn EXCEPT ![i] = "pid"]
    /\ UNCHANGED <<fixed, up, main, cur, todo, lookup, base, report>>

\* ... or fails because the process is gone (EXPECT_TRUE(ret.isOk())), which
\* leaves the partition UNKNOWN, ...
DebugInfoFails(i) ==
    /\ fn[i] = "call"
    /\ base[i] = "dead"
    /\ fn' = [fn EXCEPT ![i] = "done"]
    /\ report' = [report EXCEPT ![i] = @ \cup {"call"}]
    /\ UNCHANGED <<fixed, up, main, cur, todo, lookup, base>>

\* ... and procpartition looks at the process of that pid, if it still runs.
ComparePartition(i) ==
    /\ fn[i] = "pid"
    /\ LET partition == IF base[i] = "live" THEN device[i].partition ELSE "unknown"
       IN  report' = [report EXCEPT
               ![i] = @ \cup PartitionFailure(PartitionOfProcess(partition))]
    /\ fn' = [fn EXCEPT ![i] = "done"]
    /\ UNCHANGED <<fixed, up, main, cur, todo, lookup, base>>

-----------------------------------------------------------------------------
Loop == (\E i \in Instance : Launch(i)) \/ Wait \/ Join \/ Finish

Verifier(i) ==
    \/ Skip(i) \/ StartLookup(i) \/ LookupReady(i) \/ LookupTimeout(i)
    \/ DebugInfo(i) \/ DebugInfoFails(i) \/ ComparePartition(i)

Device(i) == Register(i) \/ Die(i) \/ Answer(i) \/ LateAnswer(i)

Next == Loop \/ \E i \in Instance : Verifier(i) \/ Device(i)

Spec == Init /\ [][Next]_vars

\* The test's threads are scheduled; a service owes nobody an answer.
FairSpec ==
    /\ Spec
    /\ WF_vars(Loop)
    /\ \A i \in Instance : WF_vars(Verifier(i))

-----------------------------------------------------------------------------
(* Properties.                                                             *)

TypeOK ==
    /\ manifest \in [Instance -> Entries]
    /\ device \in [Instance -> Services]
    /\ apiLevel \in ApiLevels
    /\ up \in SUBSET Instance
    /\ main \in {"loop", "waitFor", "join", "done"}
    /\ cur \in Instance \cup {NoInstance}
    /\ todo \in SUBSET Instance
    /\ fn \in [Instance -> {"idle", "entry", "wait", "call", "pid", "done"}]
    /\ lookup \in [Instance -> {"none", "running", "answered", "abandoned", "late"}]
    /\ base \in [Instance -> {"none", "null", "live", "dead"}]
    /\ report \in [Instance ->
          SUBSET {"missing", "uncastable", "transport", "call", "partition"}]

\* The verifier reads the entry's name, instance and transport through
\* references into the iteration that launched it: while it runs, that
\* iteration has not ended (VtsTrebleVintfTestBase.cpp:97).
CapturesAlive ==
    \A i \in Instance :
        fn[i] \notin {"idle", "done"} => cur = i /\ main \in {"waitFor", "join"}

\* A lookup nobody waits for any more belongs to an entry whose verifier ended
\* with a missing service, failed or exempted; its answer is never used
\* (VtsTrebleVintfTestBase.cpp:142-145).
TimeoutsAccounted ==
    \A i \in Instance :
        lookup[i] \in {"abandoned", "late"} =>
            /\ fn[i] = "done"
            /\ base[i] = "none"
            /\ "missing" \in report[i] \/ LegacyAndExempt(i)

\* An entry that ends without a failed expectation is one the test leaves out,
\* one a legacy device may miss, or one for which a service with the declared
\* transport and interface answered, from the manifest's partition as far as
\* that could be told (SingleManifestTest.cpp:245-309).
PassJustified ==
    \A i \in Instance :
        fn[i] = "done" /\ report[i] = {} =>
            \/ Skipped(i)
            \/ LegacyAndExempt(i) /\ ~Usable(i)
            \/ /\ Usable(i)
               /\ lookup[i] = "answered"
               /\ manifest[i].transport # "empty"
               /\ device[i].remote \/ device[i].castable
               /\ device[i].remote /\ base[i] = "live" =>
                     PartitionOfProcess(device[i].partition)
                         \in {"unknown", PartitionOfType(ManifestType)}

\* Every failure has its cause in the device: a service reported missing was
\* not there, was on the wrong side of the process boundary or was too late;
\* the expectations on the transport can only fail for an entry that declares
\* none, because GetHalService has filtered the others
\* (VtsTrebleVintfTestBase.cpp:145-151, SingleManifestTest.cpp:282-307).
FailureJustified ==
    \A i \in Instance :
        /\ "missing" \in report[i] =>
              ~Usable(i) /\ (base[i] = "none" => lookup[i] \in {"abandoned", "late"})
        /\ "uncastable" \in report[i] =>
              /\ manifest[i].transport = "passthrough"
              /\ "missing" \in report[i] \/ ~device[i].castable
        /\ "transport" \in report[i] => manifest[i].transport = "empty"
        /\ "call" \in report[i] => base[i] = "dead"
        /\ "partition" \in report[i] =>
              PartitionOfProcess(device[i].partition)
                  \notin {"unknown", PartitionOfType(ManifestType)}

\* What the test said of an entry, for the abstract specification.
Outcome(i) ==
    IF fn[i] # "done" THEN "none"
    ELSE IF report[i] # {} THEN "failed"
    ELSE IF Usable(i) THEN "served"
    ELSE "excused"

\* Nothing that happens later, a lookup that answers late, a service that dies
\* or one that starts at last, changes what was said of an entry whose verifier
\* has ended.
VerdictsFrozen ==
    [][\A i \in Instance : fn[i] = "done" =>
           fn'[i] = "done" /\ report'[i] = report[i] /\ Outcome(i)' = Outcome(i)]_vars

\* The sweep is the audit of the manifest, entry by entry.
Audit == INSTANCE ManifestAudit WITH
    pending  <- todo,
    current  <- IF main \in {"waitFor", "join"} THEN {cur} ELSE {},
    observed <- {i \in Instance : Found(i)},
    verdict  <- [i \in Instance |-> Outcome(i)]

AuditSpec == Audit!Spec

\* The verifier of i is inside a getDebugInfo that gets no answer.
Hung(i) == fn[i] = "call" /\ base[i] = "live" /\ device[i].hangs

\* A lookup that never answers does not stop the sweep: it ends, unless it is
\* stuck for good in a call to a service that hangs.
SweepEnds == <>[](main = "done" \/ \E i \in Instance : Hung(i))
=============================================================================
