-------------------------- MODULE VehicleBoolProofs --------------------------
(***************************************************************************)
(* Proofs about VehicleBoolResponse for any set of properties, any areas   *)
(* and any number of checks: the types, who stays subscribed, and that the *)
(* test accuses no HAL wrongly although it reads a value, sets another and *)
(* polls a flag while the value changes behind its back.                   *)
(***************************************************************************)
EXTENDS VehicleBoolResponse, TLAPS

\* Where the test is at a property, and at an area.
AtProp == {"subscribe", "areas", "set", "poll"}
AtArea == {"set", "poll"}

\* The loops are at what they have taken from the lists still to visit.
PlaceInv ==
    /\ pc \in AtProp => prop \in Prop /\ todoAreas \subseteq AreaConfigs[prop]
    /\ pc \in AtArea => area \in AreaConfigs[prop]
    /\ prop # None => prop \notin todoProps

\* A flag that is still clear belongs to a property that is still subscribed,
\* whose callbacks have not come.
ClearInv ==
    /\ heard => arrived
    /\ ~arrived /\ pc \in {"areas", "set", "poll"} => prop \in subs

\* As long as the flag is clear the HAL has yet to report a change, or the test
\* has yet to make one.
OwedInv ==
    ~arrived =>
        /\ pc = "set" => \/ mute \/ prop \in inflight
                         \/ value[<<prop, area>>] # newVal
        /\ pc = "poll" => mute \/ prop \in inflight

\* The areas that passed belong to properties taken up already; a property about
\* to be subscribed has none.
PassedInv ==
    \A p \in Prop, a \in Area : <<p, a>> \in passed =>
        p \notin todoProps /\ ~(pc = "subscribe" /\ p = prop)

Inv ==
    /\ TypeOK
    /\ PlaceInv
    /\ ClearInv
    /\ OwedInv
    /\ PassedInv
    /\ LeakOnlyUnanswered

-----------------------------------------------------------------------------
LEMMA InvInit == Init => Inv
<1> SUFFICES ASSUME Init
             PROVE  Inv
    OBVIOUS
<1>1. TypeOK
  <2>1. checks \in 0 .. CheckTimes
      BY BoolAssumption DEF Init
  <2>2. todoAreas \subseteq Area /\ passed \subseteq Prop \X Area
      BY DEF Init
  <2> QED
      BY <2>1, <2>2 DEF Init, TypeOK
<1>2. PlaceInv /\ ClearInv /\ OwedInv
    BY DEF Init, PlaceInv, ClearInv, OwedInv, AtProp, AtArea
<1>3. PassedInv /\ LeakOnlyUnanswered
    BY DEF Init, PassedInv, LeakOnlyUnanswered
<1> QED
    BY <1>1, <1>2, <1>3 DEF Inv

\* A zone of a property and one of its areas has a value.
LEMMA ZoneOf ==
    ASSUME NEW p \in Prop, NEW a \in AreaConfigs[p]
    PROVE  <<p, a>> \in Zone /\ a \in Area
BY BoolAssumption DEF Zone

\* The steps of the HAL.
LEMMA HalKeepsInv == Inv /\ Hal => Inv'
<1> SUFFICES ASSUME Inv, Hal
             PROVE  Inv'
    OBVIOUS
<1> USE DEF Inv
<1>1. ASSUME NEW p \in Prop, Deliver(p)
      PROVE  Inv'
    BY <1>1 DEF Deliver, testVars, TypeOK, PlaceInv, ClearInv, OwedInv, PassedInv,
           LeakOnlyUnanswered
<1>2. ASSUME NEW p \in Prop, NEW a \in AreaConfigs[p], CarChanges(p, a)
      PROVE  Inv'
  <2>1. <<p, a>> \in Zone
      BY ZoneOf
  <2>2. UNCHANGED <<pc, prop, area, todoProps, todoAreas, newVal, checks, passed,
                    arrived, subs, heard, mute>>
      BY <1>2 DEF CarChanges, testVars
  <2>3. /\ value' = [value EXCEPT ![<<p, a>>] = 1 - @]
        /\ inflight' = IF p \in subs THEN inflight \cup {p} ELSE inflight
      BY <1>2 DEF CarChanges, Notify
  <2>4. TypeOK'
    <3>1. value' \in [Zone -> {0, 1}]
        BY <2>1, <2>3 DEF TypeOK
    <3> QED
        BY <2>2, <2>3, <3>1 DEF TypeOK
  <2>5. PlaceInv' /\ ClearInv' /\ PassedInv' /\ LeakOnlyUnanswered'
      BY <2>2 DEF PlaceInv, ClearInv, PassedInv, LeakOnlyUnanswered
  <2>6. OwedInv'
    <3> SUFFICES ASSUME ~arrived, pc \in AtArea
                 PROVE  /\ pc = "set" => \/ mute \/ prop \in inflight'
                                         \/ value'[<<prop, area>>] # newVal
                        /\ pc = "poll" => mute \/ prop \in inflight'
        BY <2>2 DEF OwedInv, AtArea
    <3>1. prop \in subs
        BY DEF ClearInv, AtArea
    <3>2. CASE p = prop
        BY <3>1, <3>2, <2>3
    <3>3. CASE p # prop
      <4>1. prop \in Prop /\ area \in AreaConfigs[prop]
          BY DEF PlaceInv, AtProp, AtArea
      <4>2. <<prop, area>> \in Zone /\ <<prop, area>> # <<p, a>>
          BY <4>1, <3>3, ZoneOf
      <4>3. value'[<<prop, area>>] = value[<<prop, area>>]
          BY <4>2, <2>3 DEF TypeOK
      <4> QED
          BY <4>3, <2>3 DEF OwedInv
    <3> QED
        BY <3>2, <3>3
  <2> QED
      BY <2>4, <2>5, <2>6
<1> QED
    BY <1>1, <1>2 DEF Hal

-----------------------------------------------------------------------------
(* The steps of the test.                                                  *)

LEMMA TestKeepsType == Inv /\ Test => TypeOK'
<1> SUFFICES ASSUME Inv, Test
             PROVE  TypeOK'
    OBVIOUS
<1>1. TypeOK /\ PlaceInv
    BY DEF Inv
<1>2. ASSUME NEW p \in Prop, SkipProp(p) \/ NextProp(p)
      PROVE  TypeOK'
    BY <1>1, <1>2, BoolAssumption DEF SkipProp, NextProp, TypeOK
<1>3. ASSUME NEW a \in Area, Read(a)
      PROVE  TypeOK'
  <2>1. newVal' \in {0, 1}
    <3>1. prop \in Prop /\ a \in AreaConfigs[prop]
        BY <1>1, <1>3 DEF PlaceInv, AtProp, Read
    <3>2. value[<<prop, a>>] \in {0, 1}
        BY <1>1, <3>1, ZoneOf DEF TypeOK
    <3> QED
        BY <1>1, <1>3, <3>2 DEF Read, TypeOK
  <2> QED
      BY <1>1, <1>3, <2>1 DEF Read, TypeOK, Ended
<1>4. CASE SetAccepted
  <2>1. prop \in Prop
      BY <1>1, <1>4 DEF PlaceInv, AtProp, SetAccepted
  <2>2. value' \in [Zone -> {0, 1}]
      BY <1>1, <1>4 DEF SetAccepted, TypeOK
  <2>3. inflight' \subseteq Prop /\ mute' \in BOOLEAN
      BY <1>1, <1>4, <2>1 DEF SetAccepted, Notify, TypeOK
  <2> QED
      BY <1>1, <1>4, <2>2, <2>3, BoolAssumption DEF SetAccepted, TypeOK
<1>5. CASE CheckPassed
  <2>1. <<prop, area>> \in Prop \X Area
      BY <1>1, <1>5, ZoneOf DEF PlaceInv, AtProp, AtArea, CheckPassed
  <2> QED
      BY <1>1, <1>5, <2>1 DEF CheckPassed, TypeOK
<1>6. CASE Subscribe
  <2>1. prop \in Prop
      BY <1>1, <1>6 DEF PlaceInv, AtProp, Subscribe
  <2> QED
      BY <1>1, <1>6, <2>1 DEF Subscribe, TypeOK, Ended
<1>7. CASE Sleep
    BY <1>1, <1>7, BoolAssumption DEF Sleep, TypeOK
<1>8. CASE SetRefused \/ CheckFailed \/ EndAreas \/ EndProps
    BY <1>1, <1>8 DEF SetRefused, CheckFailed, EndAreas, EndProps, TypeOK, Ended
<1> QED
    BY <1>2, <1>3, <1>4, <1>5, <1>6, <1>7, <1>8 DEF Test

LEMMA TestKeepsPlace == Inv /\ Test => PlaceInv'
<1> SUFFICES ASSUME Inv, Test
             PROVE  PlaceInv'
    OBVIOUS
<1>1. TypeOK /\ PlaceInv
    BY DEF Inv
<1>2. ASSUME NEW p \in Prop, SkipProp(p) \/ NextProp(p)
      PROVE  PlaceInv'
    BY <1>1, <1>2 DEF SkipProp, NextProp, TypeOK, PlaceInv, AtProp, AtArea
<1>3. ASSUME NEW a \in Area, Read(a)
      PROVE  PlaceInv'
    BY <1>1, <1>3 DEF Read, PlaceInv, AtProp, AtArea
<1>4. CASE \/ Subscribe \/ SetAccepted \/ SetRefused \/ Sleep
           \/ CheckPassed \/ CheckFailed \/ EndAreas \/ EndProps
    BY <1>1, <1>4 DEF Subscribe, SetAccepted, SetRefused, Sleep, CheckPassed,
        CheckFailed, EndAreas, EndProps, PlaceInv, AtProp, AtArea
<1> QED
    BY <1>2, <1>3, <1>4 DEF Test

LEMMA TestKeepsClear == Inv /\ Test => ClearInv'
<1> SUFFICES ASSUME Inv, Test
             PROVE  ClearInv'
    OBVIOUS
<1>1. ClearInv
    BY DEF Inv
<1>2. ASSUME NEW p \in Prop, SkipProp(p) \/ NextProp(p)
      PROVE  ClearInv'
    BY <1>1, <1>2 DEF ClearInv, SkipProp, NextProp
<1>3. CASE Subscribe
    BY <1>1, <1>3, Zenon DEF ClearInv, Subscribe
<1>4. ASSUME NEW a \in Area, Read(a)
      PROVE  ClearInv'
    BY <1>1, <1>4 DEF ClearInv, Read
<1>5. CASE SetAccepted \/ SetRefused
    BY <1>1, <1>5 DEF ClearInv, SetAccepted, SetRefused
<1>6. CASE Sleep
    BY <1>1, <1>6 DEF ClearInv, Sleep
<1>7. CASE CheckPassed
    BY <1>1, <1>7, Zenon DEF ClearInv, CheckPassed
<1>8. CASE CheckFailed \/ EndAreas \/ EndProps
    BY <1>1, <1>8 DEF ClearInv, CheckFailed, EndAreas, EndProps
<1> QED
    BY <1>2, <1>3, <1>4, <1>5, <1>6, <1>7, <1>8 DEF Test

\* Reading fixes the value to be set to the other one; setting it changes the
\* value, and the change is reported, unless the value has changed meanwhile,
\* which was reported then.
LEMMA TestKeepsOwed == Inv /\ Test => OwedInv'
<1> SUFFICES ASSUME Inv, Test, ~arrived', pc' \in {"set", "poll"}
             PROVE  /\ pc' = "set" => \/ mute' \/ prop' \in inflight'
                                      \/ value'[<<prop', area'>>] # newVal'
                    /\ pc' = "poll" => mute' \/ prop' \in inflight'
    BY DEF OwedInv
<1>1. TypeOK /\ PlaceInv /\ ClearInv /\ OwedInv
    BY DEF Inv
<1>2. ASSUME NEW a \in Area, Read(a)
      PROVE  value'[<<prop', area'>>] # newVal' /\ pc' = "set"
  <2>1. prop \in Prop /\ a \in AreaConfigs[prop]
      BY <1>1, <1>2 DEF PlaceInv, AtProp, Read
  <2>2. value[<<prop, a>>] \in {0, 1}
      BY <1>1, <2>1, ZoneOf DEF TypeOK
  <2> QED
      BY <1>2, <2>2 DEF Read
<1>3. CASE SetAccepted
  <2>1. ~arrived /\ prop \in subs /\ prop' = prop /\ pc' = "poll"
      BY <1>1, <1>3 DEF SetAccepted, ClearInv
  <2>2. mute \/ prop \in inflight \/ value[<<prop, area>>] # newVal
      BY <1>1, <1>3, <2>1 DEF SetAccepted, OwedInv
  <2>3. mute' \/ prop \in inflight'
      BY <1>3, <2>1, <2>2 DEF SetAccepted, Notify
  <2> QED
      BY <2>1, <2>3
<1>4. CASE Sleep
    BY <1>1, <1>4 DEF Sleep, OwedInv
<1>5. CASE \/ \E p \in Prop : SkipProp(p) \/ NextProp(p)
           \/ Subscribe \/ SetRefused \/ CheckPassed \/ CheckFailed
           \/ EndAreas \/ EndProps
    BY <1>5 DEF SkipProp, NextProp, Subscribe, SetRefused, CheckPassed, CheckFailed,
        EndAreas, EndProps
<1> QED
    BY <1>2, <1>3, <1>4, <1>5 DEF Test

LEMMA TestKeepsPassed == Inv /\ Test => PassedInv' /\ LeakOnlyUnanswered'
<1> SUFFICES ASSUME Inv, Test
             PROVE  PassedInv' /\ LeakOnlyUnanswered'
    OBVIOUS
<1>1. TypeOK /\ PlaceInv /\ PassedInv /\ LeakOnlyUnanswered
    BY DEF Inv
<1>2. ASSUME NEW p \in Prop, SkipProp(p) \/ NextProp(p)
      PROVE  PassedInv' /\ LeakOnlyUnanswered'
    BY <1>1, <1>2 DEF SkipProp, NextProp, PassedInv, LeakOnlyUnanswered
<1>3. CASE Subscribe
  <2>1. prop \in Prop /\ \A a \in Area : <<prop, a>> \notin passed
      BY <1>1, <1>3 DEF Subscribe, PlaceInv, AtProp, PassedInv
  <2> QED
      BY <1>1, <1>3, <2>1 DEF Subscribe, PassedInv, LeakOnlyUnanswered
<1>4. CASE CheckPassed
  <2>1. prop \notin todoProps /\ prop \in Prop
      BY <1>1, <1>4, BoolAssumption DEF CheckPassed, PlaceInv, AtProp, TypeOK
  <2> QED
      BY <1>1, <1>4, <2>1 DEF CheckPassed, PassedInv, LeakOnlyUnanswered
<1>5. CASE \/ \E a \in Area : Read(a)
           \/ SetAccepted \/ SetRefused \/ Sleep \/ CheckFailed \/ EndAreas \/ EndProps
    BY <1>1, <1>5 DEF Read, SetAccepted, SetRefused, Sleep, CheckFailed, EndAreas,
        EndProps, PassedInv, LeakOnlyUnanswered
<1> QED
    BY <1>2, <1>3, <1>4, <1>5 DEF Test

\* A call that is never answered changes nothing but where the test is.
LEMMA HangKeepsInv == Inv /\ CallHangs => Inv'
<1> SUFFICES ASSUME Inv, CallHangs
             PROVE  Inv'
    OBVIOUS
<1>1. /\ pc' = "hung"
      /\ UNCHANGED <<prop, area, todoProps, todoAreas, newVal, checks, passed,
                     arrived, value, subs, inflight, heard, mute>>
    BY DEF CallHangs
<1>2. TypeOK'
    BY <1>1 DEF Inv, TypeOK
<1>3. PlaceInv' /\ ClearInv' /\ OwedInv'
    BY <1>1 DEF Inv, PlaceInv, ClearInv, OwedInv, AtProp, AtArea
<1>4. PassedInv' /\ LeakOnlyUnanswered'
    BY <1>1 DEF Inv, PassedInv, LeakOnlyUnanswered
<1> QED
    BY <1>2, <1>3, <1>4 DEF Inv

LEMMA InvStep == Inv /\ [Next]_vars => Inv'
<1> SUFFICES ASSUME Inv, [Next]_vars
             PROVE  Inv'
    OBVIOUS
<1>1. CASE Test
    BY <1>1, TestKeepsType, TestKeepsPlace, TestKeepsClear, TestKeepsOwed,
       TestKeepsPassed DEF Inv
<1>2. CASE Hal
    BY <1>2, HalKeepsInv
<1>3. CASE CallHangs
    BY <1>3, HangKeepsInv
<1>4. CASE UNCHANGED vars
    BY <1>4 DEF vars, Inv, TypeOK, PlaceInv, ClearInv, OwedInv, PassedInv,
        LeakOnlyUnanswered
<1> QED
    BY <1>1, <1>2, <1>3, <1>4 DEF Next

\* The inductive invariant holds of every state of the test.
THEOREM InvHolds == Spec => []Inv
BY InvInit, InvStep, PTL DEF Spec

-----------------------------------------------------------------------------
\* Every variable keeps the values its declaration names.
THEOREM TypeCorrect == Spec => []TypeOK
BY InvHolds, PTL DEF Inv

\* What stays subscribed is a property none of whose areas passed.
THEOREM LeaksAreUnanswered == Spec => []LeakOnlyUnanswered
BY InvHolds, PTL DEF Inv

\* Only CheckFailed gives up, with the flag clear.
LEMMA GivesUpClear ==
    ASSUME [Next]_vars, GivesUp
    PROVE  pc = "poll" /\ ~arrived
BY DEF GivesUp, Next, Test, SkipProp, NextProp, Subscribe, Read, SetAccepted,
       SetRefused, Sleep, CheckPassed, CheckFailed, EndAreas, EndProps,
       Hal, Deliver, CarChanges, CallHangs, testVars, vars

\* A HAL that reports every change in time is never failed, and a callback of
\* the last second counts.
THEOREM NeverFalseAlarm == Spec => NoFalseAlarm
<1>1. Inv /\ [Next]_vars
          => [GivesUp => ~heard /\ (mute \/ prop \in inflight)]_vars
    BY GivesUpClear DEF Inv, OwedInv, ClearInv
<1> QED
    BY <1>1, InvHolds, PTL DEF Spec, NoFalseAlarm

-----------------------------------------------------------------------------
(* What TestEnds rests on: the test's own steps go down in a well-founded  *)
(* order, a call that hangs does too, and no other step of the HAL goes up *)
(* in it.                                                                  *)

\* How many steps the test can still make without taking up an area or a
\* property.
Rank ==
    CASE pc = "subscribe" -> CheckTimes + 5
      [] pc = "set"       -> CheckTimes + 4
      [] pc = "poll"      -> 3 + (CheckTimes - checks)
      [] pc = "areas"     -> 2
      [] pc = "props"     -> 1
      [] OTHER            -> 0

\* The properties left, the areas left and the rank, in this order.
Descends ==
    \/ todoProps' \subseteq todoProps /\ todoProps' # todoProps
    \/ /\ UNCHANGED todoProps
       /\ todoAreas' \subseteq todoAreas /\ todoAreas' # todoAreas
    \/ /\ UNCHANGED <<todoProps, todoAreas>>
       /\ Rank' < Rank

LEMMA RankNat == TypeOK => Rank \in Nat
BY BoolAssumption DEF TypeOK, Rank, Ended

LEMMA TestDescends ==
    ASSUME TypeOK, TypeOK', Test
    PROVE  Descends
<1>1. CASE \E p \in Prop : SkipProp(p) \/ NextProp(p)
    BY <1>1 DEF SkipProp, NextProp, Descends
<1>2. CASE \E a \in Area : Read(a)
    BY <1>2 DEF Read, Descends
<1>3. CASE Subscribe
    BY <1>3, BoolAssumption DEF Subscribe, Descends, Rank
<1>4. CASE SetAccepted
    BY <1>4, BoolAssumption DEF SetAccepted, Descends, Rank
<1>5. CASE SetRefused
    BY <1>5, BoolAssumption DEF SetRefused, Descends, Rank
<1>6. CASE Sleep
    BY <1>6, BoolAssumption DEF Sleep, Descends, Rank, TypeOK
<1>7. CASE CheckPassed \/ CheckFailed
    BY <1>7, BoolAssumption DEF CheckPassed, CheckFailed, Descends, Rank, TypeOK
<1>8. CASE EndAreas \/ EndProps
    BY <1>8 DEF EndAreas, EndProps, Descends, Rank
<1> QED
    BY <1>1, <1>2, <1>3, <1>4, <1>5, <1>6, <1>7, <1>8 DEF Test

\* From a call that is never answered no step is left.
LEMMA HangDescends ==
    ASSUME TypeOK, CallHangs
    PROVE  Descends
<1>1. /\ pc \in {"subscribe", "set", "areas", "poll"}
      /\ pc' = "hung"
      /\ UNCHANGED <<todoProps, todoAreas>>
    BY DEF CallHangs, Calls
<1>2. checks \in 0 .. CheckTimes /\ CheckTimes \in Nat
    BY BoolAssumption DEF TypeOK
<1>3. Rank' = 0
    BY <1>1 DEF Rank
<1>4. Rank > 0
    BY <1>1, <1>2 DEF Rank
<1> QED
    BY <1>1, <1>3, <1>4 DEF Descends

LEMMA HalKeepsRank ==
    ASSUME Hal
    PROVE  UNCHANGED <<todoProps, todoAreas, Rank>>
BY DEF Hal, Deliver, CarChanges, testVars, Rank

\* A step of the test visits one more property, or one more area of it, or
\* lowers the rank, which is never below 0 (the two loops and the polling loop,
\* lines 329-388), and so does a call that is never answered; a callback or a
\* change by the car leaves all three as they are.  So there are only finitely
\* many steps of the test in any behaviour.
THEOREM StepsDescend ==
    Spec => [][/\ Rank \in Nat /\ Rank' \in Nat
               /\ Test \/ CallHangs => Descends
               /\ Hal => UNCHANGED <<todoProps, todoAreas, Rank>>]_vars
<1>1. TypeOK /\ TypeOK' /\ [Next]_vars
          => [/\ Rank \in Nat /\ Rank' \in Nat
              /\ Test \/ CallHangs => Descends
              /\ Hal => UNCHANGED <<todoProps, todoAreas, Rank>>]_vars
  <2> SUFFICES ASSUME TypeOK, TypeOK', [Next]_vars
               PROVE  [/\ Rank \in Nat /\ Rank' \in Nat
                       /\ Test \/ CallHangs => Descends
                       /\ Hal => UNCHANGED <<todoProps, todoAreas, Rank>>]_vars
      OBVIOUS
  <2>1. Rank \in Nat
      BY RankNat
  <2>2. Rank' \in Nat
      BY BoolAssumption DEF TypeOK, Rank, Ended
  <2> QED
      BY <2>1, <2>2, TestDescends, HangDescends, HalKeepsRank
<1> QED
    BY <1>1, TypeCorrect, PTL DEF Spec
=============================================================================
