------------------------- MODULE FreezeFramesProofs -------------------------
(***************************************************************************)
(* Proofs about FreezeFrames, for any number of frames and any timestamps  *)
(* the tests take for invalid.                                             *)
(***************************************************************************)
EXTENDS FreezeFrames, TLAPS

\* What the loop goes over: invalid timestamps, or, unless the HAL made some up,
\* those of frames recorded before.
ListedInv ==
    /\ pc \in {"set", "get"} => stamp \in listed \ todo
    /\ pc \in {"loop", "set", "get"} /\ test \in {"readInvalid", "clearInvalid"} =>
          listed \subseteq Invalid
    /\ pc \in {"loop", "set", "get", "passed"} /\ test \in {"readValid", "clearValid"}
          /\ "info" \notin lied =>
              \A s \in listed : s < now
    /\ pc = "set" => test \in {"clearValid", "clearInvalid"}
    /\ pc = "get" => test # "clearInvalid"
    /\ pc = "start" => listed = {} /\ todo = {}
    /\ pc = "passed" => todo = {}

\* A frame that a true clear removed does not come back: the car gives later
\* frames later timestamps.
ClearInv ==
    test = "clearValid" =>
        /\ pc = "get" /\ lied \cap {"info", "set"} = {} => stamp \notin frames
        /\ lied \cap {"info", "get"} = {} =>
              \A s \in listed \ todo :
                  s \in frames => pc \in {"set", "get", "failed"} /\ (pc # "failed" => s = stamp)

Inv ==
    /\ TypeOK
    /\ frames \subseteq 1 .. now - 1
    /\ ListedInv
    /\ ClearInv
    /\ NoFalseAlarm

-----------------------------------------------------------------------------
LEMMA InitInv == Init => Inv
<1> SUFFICES ASSUME Init PROVE Inv
  OBVIOUS
<1>1. now \in Nat /\ now >= 1 /\ now <= MaxStamp
  BY FrameAssumption DEF Init
<1>2. frames \subseteq FrameStamp
  BY <1>1, FrameAssumption DEF Init, FrameStamp
<1>3. TypeOK
  BY <1>1, <1>2, FrameAssumption DEF Init, TypeOK
<1> QED
  BY <1>3 DEF Init, Inv, ListedInv, ClearInv, NoFalseAlarm, Test

LEMMA TypeStep == TypeOK /\ [Next]_vars => TypeOK'
<1> SUFFICES ASSUME TypeOK, [Next]_vars PROVE TypeOK'
  OBVIOUS
<1> USE FrameAssumption DEF TypeOK, fixed, Honest
<1>1. CASE Record
  BY <1>1 DEF Record, FrameStamp
<1>2. CASE NotSupported \/ TakeInvalid \/ EndOfStamps
  BY <1>2 DEF NotSupported, TakeInvalid, EndOfStamps, Stamp
<1>3. CASE ReadInfo \/ ReadInfoFails
  BY <1>3 DEF ReadInfo, ReadInfoFails, Stamp
<1>4. ASSUME NEW s \in Stamp, NextStamp(s) PROVE TypeOK'
  BY <1>4 DEF NextStamp
<1>5. CASE Clear
  BY <1>5 DEF Clear
<1>6. CASE Read
  BY <1>6 DEF Read
<1>7. CASE UNCHANGED vars
  BY <1>7 DEF vars
<1> QED
  BY <1>1, <1>2, <1>3, <1>4, <1>5, <1>6, <1>7 DEF Next

\* The variables keep their types.
THEOREM TypeCorrect == Spec => []TypeOK
<1>1. Init => TypeOK
  BY InitInv DEF Inv
<1> QED
  BY <1>1, TypeStep, PTL DEF Spec

LEMMA InvStep == Inv /\ [Next]_vars => Inv'
<1> SUFFICES ASSUME Inv, [Next]_vars PROVE Inv'
  OBVIOUS
<1>0. TypeOK /\ frames \subseteq 1 .. now - 1 /\ ListedInv /\ ClearInv /\ NoFalseAlarm
  BY DEF Inv
<1>1. TypeOK'
  BY <1>0, TypeStep
<1>2. now \in Nat /\ frames \subseteq Nat /\ frames \cap Invalid = {} /\ listed \subseteq Nat
  BY <1>0, FrameAssumption DEF TypeOK, FrameStamp, Stamp
<1> USE DEF fixed, Honest
<1>3. CASE Record
  <2>1. PICK kept \in SUBSET frames : frames' = kept \cup {now}
    BY <1>3 DEF Record
  <2>2. now' = now + 1 /\ UNCHANGED <<test, pc, listed, todo, stamp, lied>>
    BY <1>3 DEF Record
  <2>3. (frames \subseteq 1 .. now - 1)'
    BY <1>0, <1>2, <2>1, <2>2, <1>1 DEF TypeOK
  <2>4. ListedInv'
    BY <1>0, <1>2, <2>2 DEF ListedInv
  <2>5. ClearInv'
    <3> SUFFICES ASSUME test = "clearValid"
                 PROVE  ClearInv'
      BY <2>2 DEF ClearInv
    <3>1. "info" \notin lied /\ pc \notin {"start", "failed"} => now \notin listed
      BY <1>0, <1>2 DEF ListedInv, TypeOK
    <3>2. pc = "start" => listed = {}
      BY <1>0 DEF ListedInv
    <3>3. pc = "get" => stamp \in listed
      BY <1>0 DEF ListedInv
    <3> QED
      BY <1>0, <2>1, <2>2, <3>1, <3>2, <3>3 DEF ClearInv
  <2> QED
    BY <1>0, <1>1, <2>2, <2>3, <2>4, <2>5 DEF Inv, NoFalseAlarm
<1>4. CASE NotSupported \/ TakeInvalid \/ ReadInfoFails \/ EndOfStamps
  BY <1>0, <1>1, <1>4 DEF NotSupported, TakeInvalid, ReadInfoFails, EndOfStamps, Inv,
     ListedInv, ClearInv, NoFalseAlarm
<1>5. CASE ReadInfo
  <2>1. \A s \in frames : s < now
    BY <1>0, <1>2
  <2> QED
    BY <1>0, <1>1, <1>5, <2>1 DEF ReadInfo, Inv, ListedInv, ClearInv, NoFalseAlarm
<1>6. ASSUME NEW s \in Stamp, NextStamp(s) PROVE Inv'
  BY <1>0, <1>1, <1>6 DEF NextStamp, Inv, ListedInv, ClearInv, NoFalseAlarm, Test, TypeOK
<1>7. CASE Clear
  <2>1. PICK status \in StatusCode :
           /\ frames' \in {frames, frames \ {stamp}}
           /\ Honest("set", SetKept(status))
           /\ pc' = IF ~SetAccepted(status) THEN "failed"
                    ELSE IF test = "clearValid" THEN "get"
                    ELSE "loop"
    BY <1>7 DEF Clear
  <2>2. pc = "set" /\ UNCHANGED <<test, now, listed, todo, stamp>>
    BY <1>7 DEF Clear
  <2>3. SetKept(status) => SetAccepted(status)
    BY <1>0, <1>2, <2>2 DEF SetKept, SetAccepted, ListedInv
  <2>4. NoFalseAlarm'
    BY <2>1, <2>3 DEF NoFalseAlarm
  <2>5. ListedInv'
    BY <1>0, <2>1, <2>2 DEF ListedInv
  <2>6. "set" \notin lied' => stamp \notin frames'
    BY <2>1 DEF SetKept
  <2>7. ClearInv'
    BY <1>0, <2>1, <2>2, <2>6 DEF ClearInv
  <2> QED
    BY <1>0, <1>1, <2>1, <2>2, <2>4, <2>5, <2>7 DEF Inv
<1>8. CASE Read
  <2>1. PICK status \in StatusCode, value \in Stamp \cup {NoValue} :
           /\ Honest("get", GetKept(status, value))
           /\ pc' = IF GetAccepted(status, value) THEN "loop" ELSE "failed"
    BY <1>8 DEF Read
  <2>2. pc = "get" /\ UNCHANGED <<test, frames, now, listed, todo, stamp>>
    BY <1>8 DEF Read
  <2>3. ASSUME GetKept(status, value), lied = {} PROVE GetAccepted(status, value)
    BY <1>0, <1>2, <2>2, <2>3 DEF GetKept, GetAccepted, ListedInv, ClearInv, TypeOK, Test
  <2>4. NoFalseAlarm'
    BY <2>1, <2>3 DEF NoFalseAlarm
  <2>5. ListedInv'
    BY <1>0, <2>1, <2>2 DEF ListedInv
  <2>6. test = "clearValid" /\ "get" \notin lied' /\ pc' = "loop" => stamp \notin frames
    BY <2>1 DEF GetKept, GetAccepted
  <2>7. ClearInv'
    BY <1>0, <2>1, <2>2, <2>6 DEF ClearInv
  <2> QED
    BY <1>0, <1>1, <2>2, <2>4, <2>5, <2>7 DEF Inv
<1>9. CASE UNCHANGED vars
  BY <1>0, <1>1, <1>9 DEF vars, Inv, ListedInv, ClearInv, NoFalseAlarm
<1> QED
  BY <1>3, <1>4, <1>5, <1>6, <1>7, <1>8, <1>9 DEF Next

\* The invariant holds in every state.
THEOREM InvHolds == Spec => []Inv
BY InitInv, InvStep, PTL DEF Spec

\* A HAL that keeps its promises is never failed, whatever the car records
\* meanwhile (lines 892-1044).
THEOREM NeverFalseAlarm == Spec => []NoFalseAlarm
<1>1. Inv => NoFalseAlarm
  BY DEF Inv
<1> QED
  BY InvHolds, <1>1, PTL

\* After the test for clearing has passed, no frame it was given is stored, also
\* with a HAL whose clearing does nothing (lines 958-1013).
THEOREM ClearedStaysGone == Spec => []ClearedIsGone
<1>1. Inv => ClearedIsGone
  BY DEF Inv, ListedInv, ClearInv, ClearedIsGone
<1> QED
  BY InvHolds, <1>1, PTL
=============================================================================
