--------------------------- MODULE HalSweepProofs ---------------------------
(***************************************************************************)
(* Proofs about HalSweep for every manifest, device and API level: its     *)
(* types, its safety invariants, that verdicts are final, and that it      *)
(* implements ManifestAudit.  All of them rest on one inductive invariant, *)
(* Inv: what the state of the three kinds of threads of an entry says      *)
(* about the lookup's result and about what has been reported.             *)
(***************************************************************************)
EXTENDS HalSweep, TLAPS

-----------------------------------------------------------------------------
(* The inductive invariant.                                                *)

\* The loop is at an entry exactly between launching and joining it, and the
\* entries not launched yet are those whose verifier is idle.
LoopInv ==
    /\ main \in {"waitFor", "join"} => cur \in Instance \ todo
    /\ \A i \in Instance : i \in todo <=> fn[i] = "idle"

\* How far the lookup of an entry and its future are.
LookupInv ==
    \A i \in Instance :
        /\ fn[i] \in {"idle", "entry"} => lookup[i] = "none"
        /\ fn[i] = "wait" => lookup[i] \in {"running", "answered"}
        /\ lookup[i] = "running" => fn[i] = "wait"
        /\ lookup[i] = "answered" <=> base[i] # "none"

\* What is known of an entry before its verifier ends.
ReportInv ==
    \A i \in Instance :
        /\ fn[i] # "done" => report[i] = {}
        /\ fn[i] = "wait" => ~Skipped(i)
        /\ fn[i] \in {"call", "pid"} => Usable(i) /\ device[i].remote

Inv ==
    /\ TypeOK
    /\ LoopInv
    /\ LookupInv
    /\ ReportInv
    /\ CapturesAlive
    /\ TimeoutsAccounted
    /\ PassJustified
    /\ FailureJustified

-----------------------------------------------------------------------------
(* Types.                                                                  *)

\* What the verifier adds to a report when its lookup is over keeps the types.
LEMMA ConcludeType ==
    ASSUME TypeOK, NEW i \in Instance, NEW found \in BOOLEAN, Conclude(i, found)
    PROVE  /\ fn' \in [Instance -> {"idle", "entry", "wait", "call", "pid", "done"}]
           /\ report' \in [Instance ->
                 SUBSET {"missing", "uncastable", "transport", "call", "partition"}]
BY DEF TypeOK, Conclude, CastFailure, FailureHalMissing, TransportFailure

\* The types hold initially and every step keeps them.
LEMMA TypeInit == Init => TypeOK
BY DEF Init, TypeOK

LEMMA TypeStep == TypeOK /\ [Next]_vars => TypeOK'
<1> SUFFICES ASSUME TypeOK, [Next]_vars
             PROVE  TypeOK'
    OBVIOUS
<1>1. CASE Loop
    BY <1>1 DEF TypeOK, Loop, Launch, Wait, Join, Finish, fixed
<1>2. ASSUME NEW i \in Instance, Verifier(i)
      PROVE  TypeOK'
    <2>1. CASE Skip(i) \/ StartLookup(i) \/ DebugInfo(i)
        BY <2>1 DEF TypeOK, Skip, StartLookup, DebugInfo, fixed
    <2>2. CASE LookupReady(i)
        <3>1. Usable(i) \in BOOLEAN
            BY DEF Usable
        <3> QED
            BY <2>2, <3>1, ConcludeType DEF TypeOK, LookupReady, fixed
    <2>3. CASE LookupTimeout(i)
        BY <2>3, ConcludeType DEF TypeOK, LookupTimeout, fixed
    <2>4. CASE DebugInfoFails(i)
        BY <2>4 DEF TypeOK, DebugInfoFails, fixed
    <2>5. CASE ComparePartition(i)
        BY <2>5 DEF TypeOK, ComparePartition, PartitionFailure, fixed
    <2> QED
        BY <1>2, <2>1, <2>2, <2>3, <2>4, <2>5 DEF Verifier
<1>3. ASSUME NEW i \in Instance, Device(i)
      PROVE  TypeOK'
    BY <1>3 DEF TypeOK, Device, Register, Die, Answer, LateAnswer, fixed
<1>4. CASE UNCHANGED vars
    BY <1>4 DEF TypeOK, vars
<1> QED
    BY <1>1, <1>2, <1>3, <1>4 DEF Next

\* Every variable keeps the values its declaration names, whatever the
\* manifest and the device are.
THEOREM TypeCorrect == Spec => []TypeOK
BY TypeInit, TypeStep, PTL DEF Spec

-----------------------------------------------------------------------------
(* Every step keeps the inductive invariant.                               *)

LEMMA InvInit == Init => Inv
BY TypeInit DEF Init, Inv, LoopInv, LookupInv, ReportInv, CapturesAlive,
    TimeoutsAccounted, PassJustified, FailureJustified

\* The loop's own steps touch no lookup and no report.
LEMMA LoopKeepsInv == Inv /\ Loop => Inv'
<1> SUFFICES ASSUME Inv, Loop
             PROVE  Inv'
    OBVIOUS
<1> USE DEF Inv
<1>1. TypeOK'
    BY TypeStep DEF Next
<1>2. LoopInv' /\ CapturesAlive'
    BY SweepAssumption
       DEF TypeOK, LoopInv, CapturesAlive, Loop, Launch, Wait, Join, Finish
<1>3. LookupInv' /\ ReportInv'
    BY DEF TypeOK, LoopInv, LookupInv, ReportInv, Skipped, Usable, Found,
           Loop, Launch, Wait, Join, Finish, fixed
<1>4. TimeoutsAccounted' /\ FailureJustified'
    BY DEF TypeOK, LoopInv, LookupInv, TimeoutsAccounted, FailureJustified, Usable,
           Found, LegacyAndExempt, Loop, Launch, Wait, Join, Finish, fixed
<1>5. PassJustified'
    BY DEF TypeOK, PassJustified, Skipped, Usable, Found, LegacyAndExempt,
           Loop, Launch, Wait, Join, Finish, fixed
<1> QED
    BY <1>1, <1>2, <1>3, <1>4, <1>5

\* The device and the detached threads touch no verifier and no report; a
\* lookup's result is written once, while its verifier waits for it.
LEMMA DeviceKeepsInv ==
    ASSUME Inv, NEW i \in Instance, Device(i)
    PROVE  Inv'
<1> USE DEF Inv
<1>1. TypeOK'
    BY TypeStep DEF Next
<1>2. UNCHANGED <<manifest, device, apiLevel, main, cur, todo, fn, report>>
    BY DEF Device, Register, Die, Answer, LateAnswer, fixed
<1>3. LoopInv' /\ CapturesAlive'
    BY <1>2 DEF LoopInv, CapturesAlive
<1>4. LookupInv' /\ ReportInv'
    BY <1>2 DEF TypeOK, LookupInv, ReportInv, Skipped, Usable, Found,
           Device, Register, Die, Answer, LateAnswer, fixed
<1>5. TimeoutsAccounted' /\ FailureJustified'
    BY <1>2 DEF TypeOK, LookupInv, ReportInv, TimeoutsAccounted, FailureJustified,
           Usable, Found, LegacyAndExempt, Device, Register, Die, Answer, LateAnswer, fixed
<1>6. PassJustified'
    BY <1>2 DEF TypeOK, LookupInv, PassJustified, Skipped, Usable, Found,
           LegacyAndExempt, Device, Register, Die, Answer, LateAnswer, fixed
<1> QED
    BY <1>1, <1>3, <1>4, <1>5, <1>6

\* What Conclude reports of a lookup that gave no usable service: something is
\* missing, unless the entry is exempt, and a passthrough entry that is
\* verified at all is never exempt.
LEMMA ConcludeMissing ==
    ASSUME Inv, NEW i \in Instance, fn[i] = "wait", Conclude(i, FALSE)
    PROVE  /\ fn' = [fn EXCEPT ![i] = "done"]
           /\ \E cast \in SUBSET {"uncastable"} :
                 /\ report' = [report EXCEPT ![i] = cast \cup FailureHalMissing(i)]
                 /\ cast # {} => /\ manifest[i].transport = "passthrough"
                                 /\ ~LegacyAndExempt(i)
<1> DEFINE cast == CastFailure(i, FALSE)
<1>1. cast \in SUBSET {"uncastable"}
    BY DEF CastFailure
<1>2. report[i] = {} /\ ~Skipped(i)
    BY DEF Inv, ReportInv
<1>3. cast # {} => manifest[i].transport = "passthrough" /\ ~LegacyAndExempt(i)
    BY <1>2 DEF CastFailure, Skipped, LegacyAndExempt
<1>4. fn' = [fn EXCEPT ![i] = "done"]
    BY DEF Conclude
<1>5. report' = [report EXCEPT ![i] = cast \cup FailureHalMissing(i)]
    BY <1>2 DEF Conclude, Inv, TypeOK
<1> QED
    BY <1>1, <1>3, <1>4, <1>5

\* What it reports of a usable service: a passthrough service that lacks the
\* interface, an entry without transport; a remote service goes on to the
\* check of its partition with nothing reported.
LEMMA ConcludeFound ==
    ASSUME Inv, NEW i \in Instance, fn[i] = "wait", Usable(i), Conclude(i, TRUE)
    PROVE  \E r \in SUBSET {"uncastable", "transport"} :
             /\ report' = [report EXCEPT ![i] = r]
             /\ fn' = [fn EXCEPT ![i] = IF device[i].remote THEN "call" ELSE "done"]
             /\ device[i].remote => r = {}
             /\ "transport" \in r <=> manifest[i].transport = "empty"
             /\ "uncastable" \in r <=> /\ manifest[i].transport = "passthrough"
                                       /\ ~device[i].castable
<1> DEFINE r == CastFailure(i, TRUE) \cup TransportFailure(i)
<1>1. /\ manifest[i] \in Entry
      /\ device[i] \in Service
    BY SweepAssumption DEF Inv, TypeOK
<1>2. manifest[i].transport \in Transport /\ device[i].remote \in BOOLEAN
    BY <1>1 DEF Entry, Service
<1>3. device[i].remote <=> manifest[i].transport = "hwbinder"
    BY DEF Usable
<1>4. r \in SUBSET {"uncastable", "transport"}
    BY DEF CastFailure, TransportFailure
<1>5. device[i].remote => r = {}
    BY <1>3 DEF CastFailure, TransportFailure
<1>6. "transport" \in r <=> manifest[i].transport = "empty"
    BY <1>2, <1>3 DEF CastFailure, TransportFailure, Transport
<1>7. "uncastable" \in r <=> /\ manifest[i].transport = "passthrough"
                             /\ ~device[i].castable
    BY DEF CastFailure, TransportFailure
<1>8. report' = [report EXCEPT ![i] = r]
    BY DEF Conclude, Inv, ReportInv, TypeOK
<1>9. fn' = [fn EXCEPT ![i] = IF device[i].remote THEN "call" ELSE "done"]
    BY DEF Conclude
<1> QED
    BY <1>4, <1>5, <1>6, <1>7, <1>8, <1>9

\* The verifier's steps: the state of one entry changes, and only while the
\* loop is at that entry.
LEMMA VerifierKeepsInv ==
    ASSUME Inv, NEW i \in Instance, Verifier(i)
    PROVE  Inv'
<1>0. /\ TypeOK /\ LoopInv /\ LookupInv /\ ReportInv /\ CapturesAlive
      /\ TimeoutsAccounted /\ PassJustified /\ FailureJustified
    BY DEF Inv
<1>1. TypeOK'
    BY <1>0, TypeStep DEF Next
<1>2. fn[i] \notin {"idle", "done"}
    BY DEF Verifier, Skip, StartLookup, LookupReady, LookupTimeout, DebugInfo,
           DebugInfoFails, ComparePartition
<1>3. UNCHANGED <<fixed, up, main, cur, todo, base>>
    BY DEF Verifier, Skip, StartLookup, LookupReady, LookupTimeout, DebugInfo,
           DebugInfoFails, ComparePartition
<1>4. UNCHANGED <<manifest, device, apiLevel, main, cur, todo, base>>
    BY <1>3 DEF fixed
<1>5. \A j \in Instance \ {i} :
        fn'[j] = fn[j] /\ lookup'[j] = lookup[j] /\ report'[j] = report[j]
    BY <1>0 DEF TypeOK, Verifier, Skip, StartLookup, LookupReady, LookupTimeout, Conclude,
           DebugInfo, DebugInfoFails, ComparePartition
<1>6. fn'[i] \notin {"idle", "entry"}
    BY <1>0 DEF TypeOK, Verifier, Skip, StartLookup, LookupReady, LookupTimeout, Conclude,
           DebugInfo, DebugInfoFails, ComparePartition
<1>7. LoopInv' /\ CapturesAlive'
    BY <1>0, <1>2, <1>4, <1>5, <1>6 DEF LoopInv, CapturesAlive
<1> DEFINE
      Lookup(j) ==
        /\ fn[j] \in {"idle", "entry"} => lookup[j] = "none"
        /\ fn[j] = "wait" => lookup[j] \in {"running", "answered"}
        /\ lookup[j] = "running" => fn[j] = "wait"
        /\ lookup[j] = "answered" <=> base[j] # "none"
      Report(j) ==
        /\ fn[j] # "done" => report[j] = {}
        /\ fn[j] = "wait" => ~Skipped(j)
        /\ fn[j] \in {"call", "pid"} => Usable(j) /\ device[j].remote
      Timeout(j) ==
        lookup[j] \in {"abandoned", "late"} =>
            /\ fn[j] = "done"
            /\ base[j] = "none"
            /\ "missing" \in report[j] \/ LegacyAndExempt(j)
      Pass(j) ==
        fn[j] = "done" /\ report[j] = {} =>
            \/ Skipped(j)
            \/ LegacyAndExempt(j) /\ ~Usable(j)
            \/ /\ Usable(j)
               /\ lookup[j] = "answered"
               /\ manifest[j].transport # "empty"
               /\ device[j].remote \/ device[j].castable
               /\ device[j].remote /\ base[j] = "live" =>
                     PartitionOfProcess(device[j].partition)
                         \in {"unknown", PartitionOfType(ManifestType)}
      Failure(j) ==
        /\ "missing" \in report[j] =>
              ~Usable(j) /\ (base[j] = "none" => lookup[j] \in {"abandoned", "late"})
        /\ "uncastable" \in report[j] =>
              /\ manifest[j].transport = "passthrough"
              /\ "missing" \in report[j] \/ ~device[j].castable
        /\ "transport" \in report[j] => manifest[j].transport = "empty"
        /\ "call" \in report[j] => base[j] = "dead"
        /\ "partition" \in report[j] =>
              PartitionOfProcess(device[j].partition)
                  \notin {"unknown", PartitionOfType(ManifestType)}
      Good(j) == Lookup(j) /\ Report(j) /\ Timeout(j) /\ Pass(j) /\ Failure(j)
<1>8. \A j \in Instance : Good(j)
    BY <1>0 DEF LookupInv, ReportInv, TimeoutsAccounted, PassJustified, FailureJustified
\* The entries the verifier is not about.
<1>9. \A j \in Instance \ {i} : Good(j)'
    BY <1>4, <1>5, <1>8 DEF Skipped, Usable, Found, LegacyAndExempt
\* The entry it is about.
<1>10. Good(i)'
  <2>1. CASE Skip(i)
      BY <2>1, <1>0, <1>4, <1>8 DEF Skip, TypeOK, Skipped, Usable, Found
  <2>2. CASE StartLookup(i)
      BY <2>2, <1>0, <1>4, <1>8 DEF StartLookup, TypeOK, Skipped
  <2>3. CASE LookupReady(i) /\ ~Usable(i)
    <3>1. /\ Conclude(i, FALSE) /\ fn[i] = "wait" /\ lookup[i] = "answered"
          /\ UNCHANGED lookup
        BY <2>3, Zenon DEF LookupReady, Conclude
    <3>2. PICK cast \in SUBSET {"uncastable"} :
            /\ fn' = [fn EXCEPT ![i] = "done"]
            /\ report' = [report EXCEPT ![i] = cast \cup FailureHalMissing(i)]
            /\ cast # {} => /\ manifest[i].transport = "passthrough"
                            /\ ~LegacyAndExempt(i)
        BY <3>1, ConcludeMissing
    <3>3. fn'[i] = "done"
        BY <1>0, <3>2 DEF TypeOK
    <3>4. report'[i] = cast \cup FailureHalMissing(i)
        BY <1>0, <3>2 DEF TypeOK
    <3>5. /\ lookup'[i] = "answered" /\ base'[i] = base[i] /\ base[i] # "none"
        BY <3>1, <1>4, <1>8
    <3>6. ~Usable(i)' /\ LegacyAndExempt(i)' = LegacyAndExempt(i)
        BY <2>3, <1>4 DEF Usable, Found, LegacyAndExempt
    <3> QED
        BY <3>2, <3>3, <3>4, <3>5, <3>6, <1>4 DEF FailureHalMissing
  <2>4. CASE LookupReady(i) /\ Usable(i)
    <3>1. /\ Conclude(i, TRUE) /\ fn[i] = "wait" /\ lookup[i] = "answered"
          /\ UNCHANGED lookup
        BY <2>4, Zenon DEF LookupReady, Conclude
    <3>2. PICK r \in SUBSET {"uncastable", "transport"} :
            /\ report' = [report EXCEPT ![i] = r]
            /\ fn' = [fn EXCEPT ![i] = IF device[i].remote THEN "call" ELSE "done"]
            /\ device[i].remote => r = {}
            /\ "transport" \in r <=> manifest[i].transport = "empty"
            /\ "uncastable" \in r <=> /\ manifest[i].transport = "passthrough"
                                      /\ ~device[i].castable
        BY <2>4, <3>1, ConcludeFound
    <3>3. fn'[i] = IF device[i].remote THEN "call" ELSE "done"
        BY <1>0, <3>2 DEF TypeOK
    <3>4. report'[i] = r
        BY <1>0, <3>2 DEF TypeOK
    <3>5. /\ lookup'[i] = "answered" /\ base'[i] = base[i] /\ base[i] # "none"
        BY <3>1, <1>4, <1>8
    <3>6. Usable(i)' /\ (device[i].remote <=> manifest[i].transport = "hwbinder")
        BY <2>4, <1>4 DEF Usable, Found
    <3>7. \/ manifest[i].transport \in {"hwbinder", "empty"}
          \/ manifest[i].transport = "passthrough"
        BY <1>0, SweepAssumption DEF TypeOK, Entry, Transport
    <3>8. CASE device[i].remote
      <4>1. fn'[i] = "call" /\ report'[i] = {}
          BY <3>2, <3>3, <3>4, <3>8
      <4> QED
          BY <4>1, <3>5, <3>6, <3>8, <1>4
    <3>9. CASE ~device[i].remote
      <4>1. fn'[i] = "done"
          BY <3>3, <3>9
      <4>2. report'[i] = {} => manifest[i].transport = "passthrough" /\ device[i].castable
          BY <3>2, <3>4, <3>6, <3>7, <3>9
      <4> QED
          BY <4>1, <4>2, <3>2, <3>4, <3>5, <3>6, <3>9, <1>4
    <3> QED
        BY <3>8, <3>9
  <2>5. CASE LookupTimeout(i)
    <3>1. /\ Conclude(i, FALSE) /\ fn[i] = "wait" /\ lookup[i] = "running"
          /\ lookup' = [lookup EXCEPT ![i] = "abandoned"]
        BY <2>5 DEF LookupTimeout
    <3>2. PICK cast \in SUBSET {"uncastable"} :
            /\ fn' = [fn EXCEPT ![i] = "done"]
            /\ report' = [report EXCEPT ![i] = cast \cup FailureHalMissing(i)]
            /\ cast # {} => /\ manifest[i].transport = "passthrough"
                            /\ ~LegacyAndExempt(i)
        BY <3>1, ConcludeMissing
    <3>3. fn'[i] = "done"
        BY <1>0, <3>2 DEF TypeOK
    <3>4. report'[i] = cast \cup FailureHalMissing(i)
        BY <1>0, <3>2 DEF TypeOK
    <3>5. /\ lookup'[i] = "abandoned"
        BY <1>0, <3>1 DEF TypeOK
    <3>6. base'[i] = "none"
        BY <3>1, <1>4, <1>8
    <3>7. ~Usable(i)' /\ LegacyAndExempt(i)' = LegacyAndExempt(i)
        BY <3>6, <1>4 DEF Usable, Found, LegacyAndExempt
    <3> QED
        BY <3>2, <3>3, <3>4, <3>5, <3>6, <3>7, <1>4 DEF FailureHalMissing
  <2>6. CASE DebugInfo(i)
      BY <2>6, <1>0, <1>4, <1>8 DEF DebugInfo, TypeOK, Usable, Found, Skipped
  <2>7. CASE DebugInfoFails(i)
      BY <2>7, <1>0, <1>4, <1>8 DEF DebugInfoFails, TypeOK, Usable, Found, Skipped
  <2>8. CASE ComparePartition(i)
      BY <2>8, <1>0, <1>4, <1>8
         DEF ComparePartition, PartitionFailure, PartitionOfProcess, TypeOK, Usable,
             Found, Skipped
  <2> QED
      BY <2>1, <2>2, <2>3, <2>4, <2>5, <2>6, <2>7, <2>8 DEF Verifier
<1>11. /\ LookupInv' /\ ReportInv' /\ TimeoutsAccounted'
       /\ PassJustified' /\ FailureJustified'
    BY <1>9, <1>10
       DEF LookupInv, ReportInv, TimeoutsAccounted, PassJustified, FailureJustified
<1> QED
    BY <1>1, <1>7, <1>11 DEF Inv

LEMMA StutterKeepsInv == Inv /\ UNCHANGED vars => Inv'
BY DEF vars, Inv, TypeOK, LoopInv, LookupInv, ReportInv, CapturesAlive,
       TimeoutsAccounted, PassJustified, FailureJustified, Skipped, Usable, Found,
       LegacyAndExempt

LEMMA InvStep == Inv /\ [Next]_vars => Inv'
BY LoopKeepsInv, VerifierKeepsInv, DeviceKeepsInv, StutterKeepsInv DEF Next

\* The inductive invariant holds of every state of the sweep.
THEOREM InvHolds == Spec => []Inv
BY InvInit, InvStep, PTL DEF Spec

-----------------------------------------------------------------------------
(* What the invariant gives.                                               *)

\* A running verifier never outlives the iteration whose variables it refers to.
THEOREM CapturesStayAlive == Spec => []CapturesAlive
BY InvHolds, PTL DEF Inv

\* An abandoned lookup always belongs to an entry that was reported missing, or
\* is exempt.
THEOREM TimeoutsAreAccounted == Spec => []TimeoutsAccounted
BY InvHolds, PTL DEF Inv

\* An entry that passes is left out, exempt, or was answered by a service as
\* declared.
THEOREM PassIsJustified == Spec => []PassJustified
BY InvHolds, PTL DEF Inv

\* No failure is reported without its cause in the device.
THEOREM FailureIsJustified == Spec => []FailureJustified
BY InvHolds, PTL DEF Inv

-----------------------------------------------------------------------------
(* Verdicts are final, and the sweep implements the audit.                 *)

\* Outside the verifier of i, the outcome of entry i stays what it is.
LEMMA OutcomeKept ==
    ASSUME Inv, NEW i \in Instance,
           \/ Loop
           \/ \E j \in Instance : Device(j)
           \/ \E j \in Instance \ {i} : Verifier(j)
           \/ UNCHANGED vars
    PROVE  /\ fn[i] = "done" => fn'[i] = "done" /\ report'[i] = report[i]
           /\ Outcome(i)' = Outcome(i)
<1>1. TypeOK /\ LoopInv /\ LookupInv
    BY DEF Inv
<1>2. CASE Loop
  <2>1. /\ UNCHANGED <<manifest, device, base, report>>
        /\ fn'[i] = fn[i] \/ (fn[i] = "idle" /\ fn'[i] = "entry")
      BY <1>1, <1>2 DEF Loop, Launch, Wait, Join, Finish, fixed, TypeOK, LoopInv
  <2> QED
      BY <2>1 DEF Outcome, Usable, Found
<1>3. ASSUME NEW j \in Instance, Device(j)
      PROVE  /\ UNCHANGED <<fn, report>>
             /\ Outcome(i)' = Outcome(i)
  <2>1. /\ UNCHANGED <<manifest, device, fn, report>>
        /\ fn[i] = "done" => (Found(i)' <=> Found(i))
      BY <1>1, <1>3 DEF Device, Register, Die, Answer, LateAnswer, fixed, TypeOK,
          LookupInv, Found
  <2> QED
      BY <2>1 DEF Outcome, Usable
<1>4. ASSUME NEW j \in Instance \ {i}, Verifier(j)
      PROVE  /\ fn'[i] = fn[i] /\ report'[i] = report[i]
             /\ Outcome(i)' = Outcome(i)
  <2>1. /\ UNCHANGED <<manifest, device, base>>
        /\ fn'[i] = fn[i] /\ report'[i] = report[i]
      BY <1>1, <1>4 DEF Verifier, Skip, StartLookup, LookupReady, LookupTimeout,
          Conclude, DebugInfo, DebugInfoFails, ComparePartition, fixed, TypeOK
  <2> QED
      BY <2>1 DEF Outcome, Usable, Found
<1>5. CASE UNCHANGED vars
    BY <1>5 DEF vars, Outcome, Usable, Found
<1> QED
    BY <1>1, <1>2, <1>3, <1>4, <1>5

\* A verifier that takes a step has not ended.
LEMMA VerifierRuns ==
    ASSUME NEW i \in Instance, Verifier(i)
    PROVE  fn[i] \notin {"idle", "done"}
BY DEF Verifier, Skip, StartLookup, LookupReady, LookupTimeout, DebugInfo,
       DebugInfoFails, ComparePartition

\* What was said of an entry whose verifier has ended is never taken back.
THEOREM VerdictsAreFrozen == Spec => VerdictsFrozen
<1> DEFINE Kept(i) == fn[i] = "done" =>
               fn'[i] = "done" /\ report'[i] = report[i] /\ Outcome(i)' = Outcome(i)
<1>1. ASSUME Inv, [Next]_vars, NEW i \in Instance
      PROVE  Kept(i)
  <2> SUFFICES ASSUME fn[i] = "done"
               PROVE  Kept(i)
      OBVIOUS
  <2>1. ~Verifier(i)
      BY VerifierRuns
  <2>2. \/ Loop
        \/ \E j \in Instance : Device(j)
        \/ \E j \in Instance \ {i} : Verifier(j)
        \/ UNCHANGED vars
      BY <1>1, <2>1 DEF Next
  <2> QED
      BY <1>1, <2>2, OutcomeKept
<1>2. Inv /\ [Next]_vars => [\A i \in Instance : Kept(i)]_vars
    BY <1>1
<1>3. Spec => [][\A i \in Instance : Kept(i)]_vars
  <2> HIDE DEF Kept
  <2> QED
      BY <1>2, InvHolds, PTL DEF Spec
<1> QED
    BY <1>3 DEF VerdictsFrozen

\* The abstract state before anything is launched.
LEMMA AuditInit == Init => Audit!Init
<1> SUFFICES ASSUME Init
             PROVE  Audit!Init
    OBVIOUS
<1>1. {i \in Instance : Found(i)} = {}
    BY DEF Init, Found
<1>2. [i \in Instance |-> Outcome(i)] = [i \in Instance |-> "none"]
    BY DEF Init, Outcome
<1> QED
    BY <1>1, <1>2 DEF Init, Audit!Init

\* The mapped state, under short names.
Current == IF main \in {"waitFor", "join"} THEN {cur} ELSE {}
Observed == {j \in Instance : Found(j)}
Outcomes == [j \in Instance |-> Outcome(j)]

LEMMA LoopAudits ==
    ASSUME Inv, Loop
    PROVE  Audit!Next \/ UNCHANGED Audit!vars
<1>1. /\ UNCHANGED <<up, manifest, device, base, report>>
    BY DEF Loop, Launch, Wait, Join, Finish, fixed
<1>2. \A j \in Instance : Outcome(j)' = Outcome(j)
    BY OutcomeKept
<1>3. Observed' = Observed /\ Outcomes' = Outcomes
    BY <1>1, <1>2 DEF Observed, Outcomes, Found
<1>4. ASSUME NEW i \in Instance, Launch(i)
      PROVE  Audit!Open(i)
  <2>1. Current = {} /\ Current' = {i} /\ i \in todo /\ todo' = todo \ {i}
      BY <1>4 DEF Launch, Current
  <2> QED
      BY <2>1, <1>1, <1>3 DEF Audit!Open, Current, Observed, Outcomes
<1>5. CASE Wait \/ Finish
  <2>1. Current' = Current /\ todo' = todo
      BY <1>5 DEF Wait, Finish, Current
  <2> QED
      BY <2>1, <1>1, <1>3 DEF Audit!vars, Current, Observed, Outcomes
<1>6. ASSUME Join
      PROVE  cur \in Instance /\ Audit!Close(cur)
  <2>1. cur \in Instance /\ Current = {cur} /\ Current' = {} /\ todo' = todo
      BY <1>6 DEF Join, Current, Inv, LoopInv
  <2>2. Outcomes[cur] # "none"
      BY <1>6, <2>1 DEF Join, Outcome, Outcomes
  <2> QED
      BY <2>1, <2>2, <1>1, <1>3 DEF Audit!Close, Current, Observed, Outcomes
<1> QED
    BY <1>4, <1>5, <1>6 DEF Loop, Audit!Next

LEMMA VerifierAudits ==
    ASSUME Inv, NEW i \in Instance, Verifier(i)
    PROVE  Audit!Next \/ UNCHANGED Audit!vars
<1>1. UNCHANGED <<up, manifest, device, base, main, cur, todo>>
    BY DEF Verifier, Skip, StartLookup, LookupReady, LookupTimeout, DebugInfo,
           DebugInfoFails, ComparePartition, fixed
<1>2. Observed' = Observed /\ Current' = Current
    BY <1>1 DEF Observed, Current, Found
<1>3. \A j \in Instance \ {i} : Outcome(j)' = Outcome(j)
    BY OutcomeKept
<1>4. i \in Current /\ Outcome(i) = "none"
    BY VerifierRuns DEF Inv, CapturesAlive, Current, Outcome
<1>5. CASE fn'[i] = "done"
  <2>1. Outcome(i)' \in Audit!Verdict \ {"none"}
      BY <1>5 DEF Outcome, Audit!Verdict
  <2>2. Outcome(i)' = "served" => i \in Observed
      BY <1>1 DEF Outcome, Usable, Found, Observed
  <2>3. Outcomes' = [Outcomes EXCEPT ![i] = Outcome(i)']
      BY <1>3 DEF Outcomes
  <2>4. Audit!Judge(i, Outcome(i)')
      BY <1>1, <1>2, <1>4, <2>1, <2>2, <2>3
         DEF Audit!Judge, Current, Observed, Outcomes
  <2> QED
      BY <2>1, <2>4 DEF Audit!Next
<1>6. CASE fn'[i] # "done"
  <2>1. Outcomes' = Outcomes
      BY <1>3, <1>4, <1>6 DEF Outcomes, Outcome
  <2> QED
      BY <1>1, <1>2, <2>1 DEF Audit!vars, Current, Observed, Outcomes
<1> QED
    BY <1>5, <1>6

LEMMA DeviceAudits ==
    ASSUME Inv, NEW i \in Instance, Device(i)
    PROVE  Audit!Next \/ UNCHANGED Audit!vars
<1>1. /\ UNCHANGED <<main, cur, todo>>
      /\ Current' = Current
    BY DEF Device, Register, Die, Answer, LateAnswer, fixed, Current
<1>2. Outcomes' = Outcomes
    BY OutcomeKept DEF Outcomes
<1>3. TypeOK /\ LookupInv /\ CapturesAlive
    BY DEF Inv
<1>4. CASE Register(i) \/ Die(i)
  <2>1. up' \in SUBSET Instance
      BY <1>3, <1>4 DEF Register, Die, TypeOK
  <2>2. Observed' = Observed
      BY <1>3, <1>4 DEF Register, Die, TypeOK, Observed, Found
  <2> QED
      BY <1>1, <1>2, <2>1, <2>2
         DEF Audit!Next, Audit!Environment, Current, Observed, Outcomes
<1>5. CASE Answer(i) /\ i \in up
  <2>1. /\ fn[i] = "wait" /\ up' = up
        /\ base' = [base EXCEPT ![i] = "live"]
      BY <1>3, <1>5 DEF Answer, LookupInv
  <2>2. i \in Current
      BY <1>3, <2>1 DEF CapturesAlive, Current
  <2>3. Outcomes[i] = "none"
      BY <2>1 DEF Outcomes, Outcome
  <2>4. Observed' = Observed \cup {i}
      BY <1>3, <2>1 DEF TypeOK, Observed, Found
  <2> QED
      BY <1>1, <1>2, <1>5, <2>1, <2>2, <2>3, <2>4
         DEF Audit!Next, Audit!Observe, Current, Observed, Outcomes
<1>6. CASE (Answer(i) /\ i \notin up) \/ LateAnswer(i)
  <2>1. Observed' = Observed /\ up' = up
      BY <1>3, <1>6 DEF Answer, LateAnswer, TypeOK, LookupInv, Observed, Found
  <2> QED
      BY <1>1, <1>2, <2>1 DEF Audit!vars, Current, Observed, Outcomes
<1> QED
    BY <1>4, <1>5, <1>6 DEF Device

\* Every step of the sweep is a step of the audit or leaves it alone.
LEMMA AuditStep == Inv /\ [Next]_vars => [Audit!Next]_(Audit!vars)
<1> SUFFICES ASSUME Inv, [Next]_vars
             PROVE  Audit!Next \/ UNCHANGED Audit!vars
    OBVIOUS
<1>1. CASE UNCHANGED vars
    BY <1>1 DEF vars, Audit!vars, Outcome, Usable, Found
<1> QED
    BY <1>1, LoopAudits, VerifierAudits, DeviceAudits DEF Next

\* The threads, timeouts and transports of the sweep implement the audit of a
\* manifest, entry by entry: a served entry was seen while it was the current
\* one.
THEOREM SweepAudits == Spec => AuditSpec
BY AuditInit, AuditStep, InvHolds, PTL DEF Spec, AuditSpec, Audit!Spec

-----------------------------------------------------------------------------
(* What SweepEnds rests on: the steps of the sweep go down in a            *)
(* well-founded order, and a sweep that waits for a verifier waits for one *)
(* that can go on, unless it hangs.                                        *)

FnRank(s) ==
    CASE s = "entry" -> 4
      [] s = "wait"  -> 3
      [] s = "call"  -> 2
      [] s = "pid"   -> 1
      [] OTHER       -> 0

\* How many steps the loop and the verifier of its entry can still make before
\* the next entry is launched.
Rank ==
    CASE main = "waitFor" -> 3 + FnRank(fn[cur])
      [] main = "join"    -> 2 + FnRank(fn[cur])
      [] main = "loop"    -> 1
      [] OTHER            -> 0

\* The entries left and the rank, in this order.
Descends ==
    \/ todo' \subseteq todo /\ todo' # todo
    \/ UNCHANGED todo /\ Rank' < Rank

LEMMA RankNat == Rank \in Nat
BY DEF Rank, FnRank

LEMMA LoopDescends ==
    ASSUME TypeOK, Loop
    PROVE  Descends
<1>1. CASE \E i \in Instance : Launch(i)
    BY <1>1 DEF Launch, Descends
<1>2. CASE Wait
    BY <1>2 DEF Wait, Descends, Rank, FnRank
<1>3. CASE Join
    BY <1>3 DEF Join, Descends, Rank, FnRank
<1>4. CASE Finish
    BY <1>4 DEF Finish, Descends, Rank
<1> QED
    BY <1>1, <1>2, <1>3, <1>4 DEF Loop

LEMMA VerifierDescends ==
    ASSUME TypeOK, CapturesAlive, NEW i \in Instance, Verifier(i)
    PROVE  Descends
<1>1. i = cur /\ main \in {"waitFor", "join"}
    BY DEF Verifier, Skip, StartLookup, LookupReady, LookupTimeout, DebugInfo,
           DebugInfoFails, ComparePartition, CapturesAlive
<1>2. UNCHANGED <<main, cur, todo>>
    BY DEF Verifier, Skip, StartLookup, LookupReady, LookupTimeout, DebugInfo,
           DebugInfoFails, ComparePartition
<1>3. FnRank(fn'[i]) < FnRank(fn[i])
  <2>1. CASE Skip(i) \/ StartLookup(i)
      BY <2>1 DEF Skip, StartLookup, TypeOK, FnRank
  <2>2. CASE LookupReady(i) \/ LookupTimeout(i)
    <3>1. fn[i] = "wait" /\ \E found \in BOOLEAN : Conclude(i, found)
        BY <2>2 DEF LookupReady, LookupTimeout, Usable, Found
    <3>2. PICK found \in BOOLEAN : Conclude(i, found)
        BY <3>1
    <3>3. \E s \in {"call", "done"} : fn' = [fn EXCEPT ![i] = s]
        BY <3>2 DEF Conclude
    <3>4. fn'[i] \in {"call", "done"}
        BY <3>3 DEF TypeOK
    <3> QED
        BY <3>1, <3>4 DEF FnRank
  <2>3. CASE DebugInfo(i) \/ DebugInfoFails(i) \/ ComparePartition(i)
      BY <2>3 DEF DebugInfo, DebugInfoFails, ComparePartition, TypeOK, FnRank
  <2> QED
      BY <2>1, <2>2, <2>3 DEF Verifier
<1>4. FnRank(fn[i]) \in Nat /\ FnRank(fn'[i]) \in Nat
    BY DEF FnRank
<1> QED
    BY <1>1, <1>2, <1>3, <1>4 DEF Descends, Rank

LEMMA DeviceKeepsRank ==
    ASSUME NEW i \in Instance, Device(i)
    PROVE  UNCHANGED <<todo, Rank>>
BY DEF Device, Register, Die, Answer, LateAnswer, Rank

\* A step of the loop or of a verifier takes up one more entry or lowers the
\* rank, which is never below 0 (VtsTrebleVintfTestBase.cpp:86-107); what
\* services and detached lookups do leaves both as they are.  So a manifest of
\* finitely many entries leaves the sweep finitely many steps.
THEOREM StepsDescend ==
    Spec => [][/\ Rank \in Nat /\ Rank' \in Nat
               /\ Loop => Descends
               /\ \A i \in Instance : Verifier(i) => Descends
               /\ \A i \in Instance : Device(i) => UNCHANGED <<todo, Rank>>]_vars
<1>1. Inv => [/\ Rank \in Nat /\ Rank' \in Nat
              /\ Loop => Descends
              /\ \A i \in Instance : Verifier(i) => Descends
              /\ \A i \in Instance : Device(i) => UNCHANGED <<todo, Rank>>]_vars
  <2> SUFFICES ASSUME Inv
               PROVE  /\ Rank \in Nat /\ Rank' \in Nat
                      /\ Loop => Descends
                      /\ \A i \in Instance : Verifier(i) => Descends
                      /\ \A i \in Instance : Device(i) => UNCHANGED <<todo, Rank>>
      OBVIOUS
  <2>1. Rank' \in Nat
      BY DEF Rank, FnRank
  <2>2. Loop => Descends
      BY LoopDescends DEF Inv
  <2>3. \A i \in Instance : Verifier(i) => Descends
      BY VerifierDescends DEF Inv
  <2>4. \A i \in Instance : Device(i) => UNCHANGED <<todo, Rank>>
      BY DeviceKeepsRank
  <2> QED
      BY <2>1, <2>2, <2>3, <2>4, RankNat
<1> QED
    BY <1>1, InvHolds, PTL DEF Spec

\* The verifier the sweep waits for can always go on: its lookup has answered
\* or may be given up, the process it calls answers or is dead.  The only
\* exception is a live service that hangs in getDebugInfo
\* (VtsTrebleVintfTestBase.cpp:145, 181).
WaitsForProgress ==
    main = "join" =>
        /\ cur \in Instance
        /\ \/ fn[cur] \in {"entry", "pid", "done"}
           \/ fn[cur] = "wait" /\ lookup[cur] \in {"running", "answered"}
           \/ fn[cur] = "call" /\ (base[cur] = "dead" \/ ~device[cur].hangs)
           \/ Hung(cur)

\* A lookup cannot keep the sweep waiting.
THEOREM NeverStuckInLookup == Spec => []WaitsForProgress
<1>1. Inv => WaitsForProgress
  <2> SUFFICES ASSUME Inv, main = "join"
               PROVE  WaitsForProgress
      BY DEF WaitsForProgress
  <2>1. cur \in Instance /\ fn[cur] # "idle"
      BY DEF Inv, LoopInv
  <2>2. fn[cur] \in {"entry", "wait", "call", "pid", "done"}
      BY <2>1 DEF Inv, TypeOK
  <2>3. fn[cur] = "wait" => lookup[cur] \in {"running", "answered"}
      BY <2>1 DEF Inv, LookupInv
  <2>4. fn[cur] = "call" => base[cur] \in {"live", "dead"}
      BY <2>1 DEF Inv, ReportInv, Usable, Found
  <2> QED
      BY <2>1, <2>2, <2>3, <2>4 DEF WaitsForProgress, Hung
<1> QED
    BY <1>1, InvHolds, PTL
=============================================================================
