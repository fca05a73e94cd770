------------------------- MODULE ServedAuditProofs -------------------------
(***************************************************************************)
(* Proofs about ServedAudit for any packages, versions and manifests: what *)
(* the loop over downRev computes, by induction on the minor version, and  *)
(* what a test that ends has established about the names it was given.     *)
(***************************************************************************)
EXTENDS ServedAudit, WellFoundedInduction, TLAPS

-----------------------------------------------------------------------------
(* The loop over the older minor versions.                                 *)

\* The recursive definition has a solution, so it is one.
LEMMA DownRevsEquation ==
    \A m \in Minor : DownRevs[m] = {m} \cup (IF m <= 0 THEN {} ELSE DownRevs[m - 1])
<1> DEFINE Step(f) == [m \in Minor |-> {m} \cup (IF m <= 0 THEN {} ELSE f[m - 1])]
           all == [m \in Minor |-> 0 .. m]
<1>1. all = Step(all)
  <2>1. ASSUME NEW m \in Minor
        PROVE  0 .. m = {m} \cup (IF m <= 0 THEN {} ELSE all[m - 1])
      BY ServedAssumption DEF Minor
  <2> QED
      BY <2>1
<1>2. DownRevs = Step(DownRevs)
  <2> HIDE DEF all
  <2> QED
    BY <1>1 DEF DownRevs
<1> QED
    BY <1>2

\* "1.n in manifest" stands for 1.0 to 1.n, for every n: there is no least
\* version for which the loop computes anything else.
LEMMA DownRevsAll == \A m \in Minor : DownRevs[m] = 0 .. m
<1> DEFINE Wrong == {m \in Minor : DownRevs[m] # 0 .. m}
           Less == OpToRel(<, Nat)
<1>1. SUFFICES ASSUME Wrong # {}
               PROVE  FALSE
    OBVIOUS
<1>2. Wrong \subseteq Nat
    BY ServedAssumption DEF Minor
<1>3. IsWellFoundedOn(Less, Nat)
    BY NatLessThanWellFounded
<1>4. PICK m \in Wrong : \A k \in Wrong : <<k, m>> \notin Less
    <2> HIDE DEF Wrong, Less
    <2> QED
        BY <1>1, <1>2, <1>3, WFMin
<1>5. \A k \in Wrong : ~(k < m)
    BY <1>2, <1>4 DEF OpToRel
<1>6. DownRevs[m] = {m} \cup (IF m <= 0 THEN {} ELSE DownRevs[m - 1])
    BY DownRevsEquation
<1>7. CASE m = 0
    BY <1>6, <1>7
<1>8. CASE m # 0
  <2>1. m - 1 \in Minor /\ m - 1 < m /\ m \in Nat
      BY <1>8, ServedAssumption DEF Minor
  <2>2. DownRevs[m - 1] = 0 .. (m - 1)
      BY <1>5, <2>1
  <2>3. 0 .. m = {m} \cup (0 .. (m - 1))
      BY <2>1
  <2>4. DownRevs[m] = {m} \cup (0 .. (m - 1))
    <3>1. ~(m <= 0)
        BY <1>8, <2>1
    <3> QED
        BY <1>6, <2>2, <3>1
  <2> QED
      BY <2>3, <2>4
<1> QED
    BY <1>7, <1>8

\* What GetHwbinderHals collects is what the manifest declares.
LEMMA HwbinderHalsDeclared ==
    ASSUME TypeOK, NEW t \in {"device", "framework"}, NEW n \in Package \X Minor
    PROVE  n \in HwbinderHals(t) <=> DeclaredIn(t, n)
<1> DEFINE Hwbinder == {e \in manifests[t] : e.transport = "hwbinder"}
<1>1. manifests[t] \subseteq Entry
    BY ServedAssumption DEF TypeOK
<1>2. ASSUME NEW e \in Hwbinder
      PROVE  n \in {e.package} \X DownRevs[e.minor] <=>
                e.package = n[1] /\ n[2] <= e.minor
  <2>1. e.minor \in Minor
      BY <1>1 DEF Entry
  <2>2. DownRevs[e.minor] = 0 .. e.minor
      BY <2>1, DownRevsAll
  <2>3. n[2] \in DownRevs[e.minor] <=> n[2] <= e.minor
      BY <2>1, <2>2, ServedAssumption DEF Minor
  <2> QED
      BY <2>3
<1>3. n \in HwbinderHals(t) <=> \E e \in Hwbinder : n \in {e.package} \X DownRevs[e.minor]
    BY DEF HwbinderHals
<1>4. n \in HwbinderHals(t) <=> \E e \in Hwbinder : e.package = n[1] /\ n[2] <= e.minor
    BY <1>2, <1>3
<1> QED
    BY <1>4 DEF DeclaredIn

LEMMA DeclaredSomewhere ==
    ASSUME TypeOK, NEW n \in Package \X Minor
    PROVE  n \in Declared <=> \E t \in Tested : DeclaredIn(t, n)
<1>1. Tested \subseteq {"device", "framework"}
    BY DEF TypeOK, Tested
<1>2. \A t \in Tested : n \in HwbinderHals(t) <=> DeclaredIn(t, n)
    BY <1>1, HwbinderHalsDeclared
<1> QED
    BY <1>2 DEF Declared

-----------------------------------------------------------------------------
(* The inductive invariant.                                                *)

\* Where the loop is, and at which name.
LoopInv ==
    /\ pc = "list" => listed = {} /\ rest = {} /\ failures = {}
    /\ pc = "partition" =>
          /\ test # "both"
          /\ name \in (listed \ rest) \cap (Package \X Minor)
          /\ proxy \in {"live", "dead"}
    /\ pc # "done" => cut = "no"

\* A name behind the loop was found declared or has been reported.
CheckedInv ==
    cut = "no" =>
        \A n \in Concerned \ rest :
            \/ pc = "partition" /\ n = name
            \/ n \in Declared
            \/ <<"undeclared", n>> \in failures

\* What is reported is behind the loop, or is the name that ended it.
ReportedInv ==
    \A n \in Name, k \in {"missing", "undeclared", "call"} :
        <<k, n>> \in failures => n \notin rest \/ (cut # "no" /\ n = name)

\* What is called undeclared is.
AccusedInv ==
    \A n \in Package \X Minor :
        <<"undeclared", n>> \in failures => n \in Concerned /\ n \notin Declared

Inv ==
    /\ TypeOK
    /\ LoopInv
    /\ CheckedInv
    /\ ReportedInv
    /\ AccusedInv
    /\ CutAccounted

LEMMA InvInit == Init => Inv
<1> SUFFICES ASSUME Init
             PROVE  Inv
    OBVIOUS
<1>1. TypeOK
    BY DEF Init, TypeOK, Name
<1>2. Concerned = {}
    BY DEF Init, Concerned
<1> QED
    BY <1>1, <1>2 DEF Init, Inv, LoopInv, CheckedInv, ReportedInv, AccusedInv, CutAccounted

\* What is looked for is fixed once the names are listed.
LEMMA ConcernFixed ==
    ASSUME UNCHANGED fixed
    PROVE  /\ Declared' = Declared /\ Tested' = Tested
           /\ listed' = listed => Concerned' = Concerned
BY DEF fixed, Declared, Tested, HwbinderHals, Concerned

\* Processes that come and go do not change what was found.
LEMMA DeviceKeepsInv == Inv /\ Device => Inv'
<1> SUFFICES ASSUME Inv, NEW p \in Package, Start(p) \/ Stop(p)
             PROVE  Inv'
    BY DEF Device
<1>1. /\ TypeOK /\ LoopInv /\ CheckedInv /\ ReportedInv /\ AccusedInv /\ CutAccounted
    BY DEF Inv
<1>2. UNCHANGED <<test, manifests, provides, partition, pc, listed, rest, name,
                  failures, cut>>
    BY DEF Start, Stop, fixed
<1>3. /\ proxy' \in {"none", "live", "dead"}
      /\ proxy \in {"live", "dead"} => proxy' \in {"live", "dead"}
      /\ proxy = "dead" => proxy' = "dead"
    BY <1>1 DEF Start, Stop, TypeOK
<1>4. alive' \subseteq Package
    BY <1>1 DEF Start, Stop, TypeOK
<1>5. Declared' = Declared /\ Concerned' = Concerned
    BY <1>2, ConcernFixed DEF fixed
<1>6. TypeOK' /\ LoopInv'
    BY <1>1, <1>2, <1>3, <1>4 DEF TypeOK, LoopInv
<1>7. CheckedInv' /\ ReportedInv' /\ AccusedInv'
    BY <1>1, <1>2, <1>5 DEF CheckedInv, ReportedInv, AccusedInv
<1>8. CutAccounted'
    BY <1>1, <1>2, <1>3 DEF CutAccounted
<1> QED
    BY <1>6, <1>7, <1>8 DEF Inv

\* The parts of the invariant a step of the loop can disturb, for each of them.
LEMMA TestKeepsInv == Inv /\ Test => Inv'
<1> SUFFICES ASSUME Inv, Test
             PROVE  Inv'
    OBVIOUS
<1>0. /\ TypeOK /\ LoopInv /\ CheckedInv /\ ReportedInv /\ AccusedInv /\ CutAccounted
    BY DEF Inv
<1>1. UNCHANGED fixed
    BY DEF Test, List, SkipIBase, CompareName, GetService, ServiceMissing,
           ComparePartition, UnknownPartition, EndOfList
<1>2. Declared' = Declared /\ Tested' = Tested /\ (listed' = listed => Concerned' = Concerned)
    BY <1>1, ConcernFixed
<1>3. CASE List
  <2>1. /\ pc = "list" /\ pc' = "names" /\ listed' = ServedNames /\ rest' = ServedNames
        /\ UNCHANGED <<name, cut, proxy, alive>>
        /\ cut = "no"
      BY <1>3, <1>0 DEF List, LoopInv
  <2>2. failures' \subseteq {<<"transport", IBaseName>>}
      BY <1>3 DEF List, ManifestFailures
  <2>3. ServedNames \subseteq Name
      BY DEF ServedNames, Name
  <2>4. Concerned' \subseteq rest'
      BY <2>1 DEF Concerned
  <2>5. TypeOK'
      BY <1>0, <1>1, <2>1, <2>2, <2>3 DEF TypeOK, Name, fixed
  <2>6. LoopInv' /\ CheckedInv'
      BY <2>1, <2>4 DEF LoopInv, CheckedInv
  <2>7. ReportedInv' /\ AccusedInv' /\ CutAccounted'
      BY <2>1, <2>2 DEF ReportedInv, AccusedInv, CutAccounted
  <2> QED
      BY <2>5, <2>6, <2>7 DEF Inv
<1>4. CASE SkipIBase
  <2>1. /\ pc = "names" /\ rest' = rest \ {IBaseName}
        /\ UNCHANGED <<alive, pc, listed, name, proxy, failures, cut>>
        /\ cut = "no"
      BY <1>4, <1>0 DEF SkipIBase, LoopInv
  <2>2. IBaseName \notin Concerned
      BY DEF Concerned
  <2>3. TypeOK' /\ LoopInv'
      BY <1>0, <1>1, <2>1 DEF TypeOK, LoopInv, fixed
  <2>4. CheckedInv' /\ ReportedInv' /\ AccusedInv'
      BY <1>0, <1>2, <2>1, <2>2 DEF CheckedInv, ReportedInv, AccusedInv
  <2>5. CutAccounted'
      BY <1>0, <2>1 DEF CutAccounted
  <2> QED
      BY <2>3, <2>4, <2>5 DEF Inv
<1>5. ASSUME NEW n \in Package \X Minor, CompareName(n)
      PROVE  Inv'
  <2>1. /\ pc = "names" /\ test = "both" /\ n \in rest \ {IBaseName} /\ rest' = rest \ {n}
        /\ failures' = failures \cup (IF n \in Declared THEN {} ELSE {<<"undeclared", n>>})
        /\ UNCHANGED <<alive, pc, listed, name, proxy, cut>>
        /\ cut = "no"
      BY <1>5, <1>0 DEF CompareName, LoopInv
  <2>2. n \in Concerned /\ n \in Name
      BY <1>0, <2>1 DEF Concerned, TypeOK, Name
  <2>3. TypeOK' /\ LoopInv'
      BY <1>0, <1>1, <2>1, <2>2 DEF TypeOK, LoopInv, fixed
  <2>4. CheckedInv'
      BY <1>0, <1>2, <2>1 DEF CheckedInv
  <2>5. ReportedInv' /\ AccusedInv'
      BY <1>0, <1>2, <2>1, <2>2 DEF ReportedInv, AccusedInv
  <2>6. CutAccounted'
      BY <1>0, <2>1 DEF CutAccounted
  <2> QED
      BY <2>3, <2>4, <2>5, <2>6 DEF Inv
<1>6. ASSUME NEW n \in Package \X Minor, GetService(n)
      PROVE  Inv'
  <2>1. /\ pc = "names" /\ test # "both" /\ n \in rest \ {IBaseName} /\ rest' = rest \ {n}
        /\ name' = n /\ proxy' = "live" /\ pc' = "partition"
        /\ UNCHANGED <<alive, listed, failures, cut>>
        /\ cut = "no"
      BY <1>6, <1>0 DEF GetService, LoopInv
  <2>2. n \in listed /\ n \in Name
      BY <1>0, <2>1 DEF TypeOK, Name
  <2>3. TypeOK' /\ LoopInv'
      BY <1>0, <1>1, <2>1, <2>2 DEF TypeOK, LoopInv, fixed
  <2>4. CheckedInv' /\ ReportedInv' /\ AccusedInv'
      BY <1>0, <1>2, <2>1 DEF CheckedInv, ReportedInv, AccusedInv
  <2>5. CutAccounted'
      BY <1>0, <2>1 DEF CutAccounted, ReportedInv, TypeOK
  <2> QED
      BY <2>3, <2>4, <2>5 DEF Inv
<1>7. ASSUME NEW n \in Package \X Minor, ServiceMissing(n)
      PROVE  Inv'
  <2>1. /\ pc = "names" /\ n \in rest \ {IBaseName}
        /\ name' = n /\ failures' = failures \cup {<<"missing", n>>}
        /\ cut' = "missing" /\ pc' = "done"
        /\ UNCHANGED <<alive, listed, rest, proxy>>
        /\ cut = "no"
      BY <1>7, <1>0 DEF ServiceMissing, LoopInv
  <2>2. n \in Name
      BY <1>0, <2>1 DEF TypeOK, Name
  <2>3. TypeOK' /\ LoopInv' /\ CheckedInv'
      BY <1>0, <1>1, <2>1, <2>2 DEF TypeOK, LoopInv, CheckedInv, fixed
  <2>4. ReportedInv'
      BY <1>0, <2>1, <2>2 DEF ReportedInv
  <2>5. AccusedInv'
      BY <1>0, <1>2, <2>1 DEF AccusedInv
  <2>6. CutAccounted'
    <3>1. \A m \in rest \ {n} : \A k \in {"missing", "undeclared", "call"} :
             <<k, m>> \notin failures'
        BY <1>0, <2>1 DEF ReportedInv, TypeOK
    <3> QED
        BY <2>1, <3>1 DEF CutAccounted
  <2> QED
      BY <2>3, <2>4, <2>5, <2>6 DEF Inv
<1>8. CASE ComparePartition
  <2>1. /\ pc = "partition" /\ Located # "unknown" /\ pc' = "names"
        /\ failures' = failures \cup
              (IF Located = PartitionOfType(test) /\ name \notin Declared
               THEN {<<"undeclared", name>>} ELSE {})
        /\ UNCHANGED <<alive, listed, rest, name, proxy, cut>>
        /\ cut = "no" /\ test # "both"
        /\ name \in (listed \ rest) \cap (Package \X Minor)
      BY <1>8, <1>0 DEF ComparePartition, LoopInv
  <2>2. name \in Name /\ name # IBaseName
      BY <2>1, ServedAssumption DEF Name
  <2>3. Located = PartitionOfProcess(partition[name[1]])
      BY <2>1 DEF Located
  <2>4. name \in Concerned <=> Located = PartitionOfType(test)
      BY <2>1, <2>2, <2>3 DEF Concerned
  <2>5. TypeOK' /\ LoopInv'
      BY <1>0, <1>1, <2>1, <2>2 DEF TypeOK, LoopInv, fixed
  <2>6. CheckedInv'
      BY <1>0, <1>2, <2>1, <2>4 DEF CheckedInv
  <2>7. ReportedInv' /\ AccusedInv'
      BY <1>0, <1>2, <2>1, <2>4 DEF ReportedInv, AccusedInv
  <2>8. CutAccounted'
      BY <1>0, <2>1 DEF CutAccounted
  <2> QED
      BY <2>5, <2>6, <2>7, <2>8 DEF Inv
<1>9. CASE UnknownPartition
  <2>1. /\ pc = "partition" /\ Located = "unknown"
        /\ failures \subseteq failures'
        /\ failures' \subseteq failures \cup {<<"call", name>>}
        /\ cut' = "unknown" /\ pc' = "done"
        /\ UNCHANGED <<alive, listed, rest, name, proxy>>
        /\ cut = "no" /\ proxy \in {"live", "dead"}
        /\ name \in (listed \ rest) \cap (Package \X Minor)
      BY <1>9, <1>0 DEF UnknownPartition, LoopInv
  <2>2. name \in Name
      BY <2>1 DEF Name
  <2>3. proxy = "dead" \/ partition[name[1]] = "unknown"
      BY <2>1 DEF Located, PartitionOfProcess
  <2>4. TypeOK' /\ LoopInv' /\ CheckedInv'
      BY <1>0, <1>1, <2>1, <2>2 DEF TypeOK, LoopInv, CheckedInv, fixed
  <2>5. ReportedInv' /\ AccusedInv'
      BY <1>0, <1>2, <2>1 DEF ReportedInv, AccusedInv
  <2>6. CutAccounted'
      BY <1>0, <1>1, <2>1, <2>3 DEF CutAccounted, fixed
  <2> QED
      BY <2>4, <2>5, <2>6 DEF Inv
<1>10. CASE EndOfList
  <2>1. /\ pc = "names" /\ rest = {} /\ pc' = "done"
        /\ UNCHANGED <<alive, listed, rest, name, proxy, failures, cut>>
        /\ cut = "no"
      BY <1>10, <1>0 DEF EndOfList, LoopInv
  <2>2. TypeOK' /\ LoopInv'
      BY <1>0, <1>1, <2>1 DEF TypeOK, LoopInv, fixed
  <2>3. CheckedInv' /\ ReportedInv' /\ AccusedInv'
      BY <1>0, <1>2, <2>1 DEF CheckedInv, ReportedInv, AccusedInv
  <2>4. CutAccounted'
      BY <1>0, <2>1 DEF CutAccounted
  <2> QED
      BY <2>2, <2>3, <2>4 DEF Inv
<1> QED
    BY <1>3, <1>4, <1>5, <1>6, <1>7, <1>8, <1>9, <1>10 DEF Test

LEMMA InvStep == Inv /\ [Next]_vars => Inv'
<1>1. Inv /\ UNCHANGED vars => Inv'
  <2> SUFFICES ASSUME Inv, UNCHANGED vars
               PROVE  Inv'
      OBVIOUS
  <2>1. /\ TypeOK /\ LoopInv /\ CheckedInv /\ ReportedInv /\ AccusedInv /\ CutAccounted
      BY DEF Inv
  <2>2. UNCHANGED fixed /\ UNCHANGED <<alive, pc, listed, rest, name, proxy, failures, cut>>
      BY DEF vars, fixed
  <2>3. Declared' = Declared /\ Concerned' = Concerned
      BY <2>2, ConcernFixed
  <2>4. TypeOK' /\ LoopInv'
      BY <2>1, <2>2 DEF TypeOK, LoopInv, fixed
  <2>5. CheckedInv' /\ ReportedInv' /\ AccusedInv'
      BY <2>1, <2>2, <2>3 DEF CheckedInv, ReportedInv, AccusedInv
  <2>6. CutAccounted'
      BY <2>1, <2>2 DEF CutAccounted, fixed
  <2> QED
      BY <2>4, <2>5, <2>6 DEF Inv
<1> QED
    BY <1>1, DeviceKeepsInv, TestKeepsInv DEF Next

-----------------------------------------------------------------------------
\* Every state a served-HAL test can be in satisfies the invariant.
THEOREM InvHolds == Spec => []Inv
BY InvInit, InvStep, PTL DEF Spec

\* The variables keep their types, for any packages and manifests.
THEOREM TypeCorrect == Spec => []TypeOK
<1>1. Inv => TypeOK
    BY DEF Inv
<1> QED
    BY <1>1, InvHolds, PTL

\* A test that reaches the end of its list without a failure has found every
\* name of its partition declared, the older minor versions counted in.
THEOREM NothingIsOverlooked == Spec => []NothingOverlooked
<1>1. ASSUME Inv
      PROVE  NothingOverlooked
  <2> SUFFICES ASSUME pc = "done", failures = {}, cut = "no", NEW n \in Concerned
               PROVE  \E t \in Tested : DeclaredIn(t, n)
      BY DEF NothingOverlooked
  <2>1. TypeOK /\ CheckedInv /\ rest = {}
      BY <1>1 DEF Inv, CutAccounted
  <2>2. n \in Declared
      BY <2>1 DEF CheckedInv
  <2>3. n \in Package \X Minor
      BY <2>1 DEF Concerned, TypeOK, Name
  <2> QED
      BY <2>1, <2>2, <2>3, DeclaredSomewhere
<1> QED
    BY <1>1, InvHolds, PTL

\* No name that a tested manifest declares is ever called undeclared, nor one
\* of the other partition.
THEOREM AccusationsAreRight == Spec => []AccusedRightly
<1>1. ASSUME Inv
      PROVE  AccusedRightly
  <2> SUFFICES ASSUME NEW n \in Package \X Minor, <<"undeclared", n>> \in failures
               PROVE  n \in Concerned /\ \A t \in Tested : ~DeclaredIn(t, n)
      BY DEF AccusedRightly
  <2>1. TypeOK /\ n \in Concerned /\ n \notin Declared
      BY <1>1 DEF Inv, AccusedInv
  <2> QED
      BY <2>1, DeclaredSomewhere
<1> QED
    BY <1>1, InvHolds, PTL

\* A list that is left early is left because of the name the loop is at, and
\* nothing is reported of the names behind it.
THEOREM CutsAreAccounted == Spec => []CutAccounted
<1>1. Inv => CutAccounted
    BY DEF Inv
<1> QED
    BY <1>1, InvHolds, PTL
=============================================================================
