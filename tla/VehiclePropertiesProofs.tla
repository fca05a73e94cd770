---------------------- MODULE VehiclePropertiesProofs ----------------------
(***************************************************************************)
(* Proofs about VehicleProperties, for any properties, configurations,     *)
(* answers and tables.  The loops are followed by invariants: what is      *)
(* vouched for at the end holds of each property the loop has left behind, *)
(* and of each area before the next one of the property it is at.          *)
(***************************************************************************)
EXTENDS VehicleProperties, WellFoundedInduction, TLAPS

\* Where each test can be.
ShapeInv ==
    /\ test \in {"testVehicleStaticProps", "testPropertyRanges"} => todo \subseteq DOMAIN config
    /\ pc \in {"areas", "set"} =>
          /\ test \in {"testVehicleStaticProps", "testPropertyRanges"}
          /\ cur \in DOMAIN config \ todo
    /\ pc = "set" => test = "testVehicleStaticProps" /\ at \in DOMAIN Areas
    /\ pc \in {"areas", "set"} /\ test = "testVehicleStaticProps" => cur \in StaticProps
    /\ pc \in {"subscribe", "look", "sleep"} => test = "testEngineOilTemp"
    /\ pc \in {"loop", "areas", "set", "subscribe"} => looks = 0
    /\ pc = "look" => looks < Looks
    /\ pc = "passed" /\ test \notin {"testListProperties", "testEngineOilTemp"} => todo = {}

StaticSeen(p, k) ==
    \E answer \in Answers :
        /\ answer.prop = p
        /\ <<p, config[p].areaConfigs[k].areaId, answer>> \in seen

StaticDone(p) ==
    /\ StaticConfigured(p)
    /\ p \in StaticProps =>
          \A k \in DOMAIN config[p].areaConfigs :
              StaticSeen(p, k) /\ <<p, "ACCESS_DENIED">> \in sets

\* The property the loop is at is not left behind.
Behind(p) == p \in DOMAIN config \ todo /\ (p # cur \/ pc \in {"loop", "passed"})

StaticInv ==
    test = "testVehicleStaticProps" =>
        /\ pc # "failed" => \A s \in sets : s[2] = "ACCESS_DENIED"
        /\ pc \notin {"failed", "error"} => \A p \in Prop : Behind(p) => StaticDone(p)
        /\ pc \in {"areas", "set"} =>
              /\ StaticConfigured(cur)
              /\ \A k \in 1 .. at - 1 : StaticSeen(cur, k)
              /\ at > 1 => <<cur, "ACCESS_DENIED">> \in sets
        /\ pc = "set" => StaticSeen(cur, at)

AreaDone(p, k) ==
    LET area == config[p].areaConfigs[k]
    IN  /\ Ordered(area)
        /\ \E answer \in Answers \cup {NoValue} :
              /\ <<p, area.areaId, answer>> \in seen
              /\ answer # NoValue => InBounds(area, answer.value)

RangeDone(p) ==
    /\ RatesOk(config[p])
    /\ ~RangeSkipped(config[p]) =>
          /\ ~Overlap(config[p].areaConfigs)
          /\ \A k \in DOMAIN config[p].areaConfigs : AreaDone(p, k)

\* Only what is not skipped is read.
ScopeInv ==
    /\ \A r \in seen : r[1] \in DOMAIN config /\ ~RangeSkipped(config[r[1]])
    /\ pc = "areas" => ~RangeSkipped(config[cur])

RangeInv ==
    test = "testPropertyRanges" =>
        /\ ScopeInv
        /\ pc \notin {"failed", "error"} => \A p \in Prop : Behind(p) => RangeDone(p)
        /\ pc = "areas" =>
              /\ RatesOk(config[cur])
              /\ at - 1 <= Len(Areas)
              /\ \A k \in 1 .. at - 1 : AreaDone(cur, k)
              /\ areasFound = {z \in Zone : \E k \in 1 .. at - 1 : z \in Areas[k].areaId}
              /\ \A k, l \in 1 .. at - 1 : k < l => Areas[k].areaId \cap Areas[l].areaId = {}

GlobalInv ==
    pc \in {"loop", "passed"} /\ test \in GlobalTest =>
        \A p \in DOMAIN Expected[test] \cap DOMAIN config :
            p \notin todo =>
                \E answer \in Answers : <<p, {}, answer>> \in seen /\ Accepted(p, answer)

\* While the test waits, every event came after its last look.
OilInv ==
    /\ called = {} <=> \A n \in 0 .. Looks : <<"onPropertyEvent", n>> \notin heard
    /\ pc \in {"look", "sleep"} =>
          \A n \in 0 .. Looks : <<"onPropertyEvent", n>> \in heard => n = looks
    /\ pc \notin {"look", "sleep", "passed"} /\ looks < Looks =>
          called = {} /\ heard = {} /\ looks = 0 /\ ~subscribed
    /\ pc = "passed" => ~subscribed /\ (looks > 0 => called # {})
    /\ pc = "failed" => \A n \in 0 .. Looks - 1 : <<"onPropertyEvent", n>> \notin heard
    /\ looks = Looks => pc \in {"sleep", "passed", "failed"}

Inv ==
    /\ TypeOK
    /\ ShapeInv
    /\ StaticInv
    /\ RangeInv
    /\ GlobalInv
    /\ OilInv
    /\ FailuresJustified

-----------------------------------------------------------------------------
\* The last of two configurations of a property is the one that is kept.
LEMMA ConfigOfListing ==
    ASSUME NEW list \in Listings
    PROVE  LET c == PropToConfig(list)
           IN  /\ DOMAIN c \subseteq Prop
               /\ \A p \in DOMAIN c : c[p] \in Config /\ c[p].prop = p
<1>1. list \in Seq(Config)
  BY PropertyAssumption
<1>2. \A k \in DOMAIN list : list[k] \in Config /\ list[k].prop \in Prop
  <2>1. \A k \in DOMAIN list : list[k] \in Config
    BY <1>1
  <2>2. \A c \in Config : c.prop \in Prop
    BY DEF Config
  <2> QED
    BY <2>1, <2>2
<1> DEFINE Last(p) == CHOOSE k \in DOMAIN list :
                /\ list[k].prop = p
                /\ \A l \in DOMAIN list : list[l].prop = p => l <= k
<1>3. ASSUME NEW p \in {list[k].prop : k \in DOMAIN list}
      PROVE  Last(p) \in DOMAIN list /\ list[Last(p)].prop = p
  <2> DEFINE Back == {n \in Nat : \E k \in DOMAIN list : n = Len(list) - k /\ list[k].prop = p}
             Less == OpToRel(<, Nat)
  <2>1. Back \subseteq Nat
    OBVIOUS
  <2>2. Back # {}
    <3>1. PICK k \in DOMAIN list : list[k].prop = p
      BY <1>3
    <3>2. Len(list) - k \in Nat
      BY <1>1
    <3> QED
      BY <3>1, <3>2
  <2>3. PICK n \in Back : \A m \in Back : <<m, n>> \notin Less
    <3>1. IsWellFoundedOn(Less, Nat)
      BY NatLessThanWellFounded
    <3> HIDE DEF Back, Less
    <3> QED
      BY <2>1, <2>2, <3>1, WFMin
  <2>4. \A m \in Back : ~(m < n)
    BY <2>1, <2>3 DEF OpToRel
  <2>5. PICK k \in DOMAIN list : n = Len(list) - k /\ list[k].prop = p
    BY <2>3
  <2>6. ASSUME NEW l \in DOMAIN list, list[l].prop = p
        PROVE  l <= k
    <3>1. Len(list) - l \in Back
      BY <1>1, <2>6
    <3>2. l \in Int /\ k \in Int /\ Len(list) \in Int
      BY <1>1
    <3> QED
      BY <2>4, <2>5, <3>1, <3>2
  <2> QED
    BY <2>5, <2>6
<1> HIDE DEF Last
<1>4. PropToConfig(list) = [p \in {list[k].prop : k \in DOMAIN list} |-> list[Last(p)]]
  BY DEF PropToConfig, Last
<1> QED
  BY <1>2, <1>3, <1>4

LEMMA InitInv == Init => Inv
<1> SUFFICES ASSUME Init PROVE Inv
  OBVIOUS
<1>1. DOMAIN config \subseteq Prop /\ \A p \in DOMAIN config : config[p] \in Config /\ config[p].prop = p
  BY ConfigOfListing DEF Init
<1>2. todo \subseteq Prop
  BY <1>1, PropertyAssumption DEF Init
<1>3. TypeOK
  <2>1. /\ test \in Test /\ pc = "loop" /\ cur = NoValue /\ at = 1 /\ areasFound = {}
        /\ subscribed = FALSE /\ called = {} /\ looks = 0
        /\ seen = {} /\ sets = {} /\ heard = {}
    BY DEF Init
  <2>2. /\ seen \subseteq Prop \X (SUBSET Zone) \X (Answers \cup {NoValue})
        /\ sets \subseteq Prop \X StatusCode
        /\ heard \subseteq {"onPropertyEvent", "onPropertySetError"} \X (0 .. Looks)
    BY <2>1, Zenon
  <2>3. at \in Nat \ {0} /\ looks \in 0 .. Looks
    BY <2>1 DEF Looks
  <2> QED
    BY <1>1, <1>2, <2>1, <2>2, <2>3 DEF TypeOK
<1>4. ShapeInv
  BY DEF Init, ShapeInv, GlobalTest
<1>5. StaticInv /\ RangeInv
  BY DEF Init, StaticInv, RangeInv, ScopeInv, Behind, GlobalTest
<1>6. GlobalInv
  BY DEF Init, GlobalInv
<1>7. OilInv /\ FailuresJustified
  BY DEF Init, OilInv, Looks, FailuresJustified
<1> QED
  BY <1>3, <1>4, <1>5, <1>6, <1>7 DEF Inv

\* What a test that is at an area of a property knows of it.
LEMMA AreaAt ==
    ASSUME TypeOK, ShapeInv, pc \in {"areas", "set"}
    PROVE  /\ cur \in Prop
           /\ Areas \in Seq(Area)
           /\ \A k \in DOMAIN Areas : Areas[k].areaId \in SUBSET Zone
<1>1. cur \in DOMAIN config
  BY DEF ShapeInv
<1>2. cur \in Prop /\ config[cur] \in Config
  BY <1>1 DEF TypeOK
<1>3. Areas \in Seq(Area)
  BY <1>2 DEF Config, Areas
<1>4. \A area \in Area : area.areaId \in SUBSET Zone
  BY DEF Area
<1> QED
  BY <1>2, <1>3, <1>4

LEMMA TypeStep == TypeOK /\ ShapeInv /\ [Next]_vars => TypeOK'
<1> SUFFICES ASSUME TypeOK, ShapeInv, [Next]_vars PROVE TypeOK'
  OBVIOUS
<1>1. \A p \in Prop : StaticConfigured(p) \in BOOLEAN
  BY DEF StaticConfigured
<1> USE DEF TypeOK, fixed, oil
<1>2. CASE ListProperties
  BY <1>2 DEF ListProperties
<1>3. ASSUME NEW p \in Prop, TakeStatic(p) \/ TakeRange(p) PROVE TypeOK'
  <2>1. pc' \in {"failed", "areas", "loop"} /\ at' = 1
    BY <1>3 DEF TakeStatic, TakeRange
  <2>2. todo' \subseteq todo /\ cur' = p
    BY <1>3 DEF TakeStatic, TakeRange, Take
  <2>3. areasFound' \subseteq Zone
    BY <1>3 DEF TakeStatic, TakeRange
  <2>4. UNCHANGED <<test, config, subscribed, called, looks, heard, seen, sets>>
    BY <1>3 DEF TakeStatic, TakeRange
  <2> QED
    BY <2>1, <2>2, <2>3, <2>4
<1>4. ASSUME NEW answer \in Answers \cup {NoValue}, ReadStatic(answer) \/ ReadArea(answer)
      PROVE TypeOK'
  <2>1. cur \in Prop /\ Areas[at].areaId \in SUBSET Zone
    BY <1>4, AreaAt DEF ReadStatic, ReadArea
  <2>2. <<cur, Areas[at].areaId, answer>> \in Prop \X (SUBSET Zone) \X (Answers \cup {NoValue})
    BY <2>1
  <2>3. seen' = seen \cup {<<cur, Areas[at].areaId, answer>>}
    BY <1>4 DEF ReadStatic, ReadArea
  <2>4. areasFound' \subseteq Zone /\ at' \in Nat \ {0}
    BY <1>4, <2>1 DEF ReadStatic, ReadArea
  <2>5. UNCHANGED <<test, config, todo, cur, subscribed, called, looks, heard, sets>>
    BY <1>4 DEF ReadStatic, ReadArea
  <2>6. pc' \in {"error", "failed", "set", "areas"}
    BY <1>4 DEF ReadStatic, ReadArea
  <2> QED
    BY <2>2, <2>3, <2>4, <2>5, <2>6
<1>5. ASSUME NEW answer \in Answers \cup {NoValue}, NEW p \in Prop, TakeGlobal(p, answer)
      PROVE TypeOK'
  <2>1. GlobalOutcome(p, answer) \in {"loop", "failed", "error"}
    BY DEF GlobalOutcome
  <2>2. <<p, {}, answer>> \in Prop \X (SUBSET Zone) \X (Answers \cup {NoValue})
    OBVIOUS
  <2>3. pc' \in {"loop", "failed", "error"} /\ seen' \subseteq seen \cup {<<p, {}, answer>>}
    BY <1>5, <2>1 DEF TakeGlobal, Take
  <2>4. todo' \subseteq todo /\ cur' = p
    BY <1>5 DEF TakeGlobal, Take
  <2>5. UNCHANGED <<test, config, at, areasFound, subscribed, called, looks, heard, sets>>
    BY <1>5 DEF TakeGlobal
  <2> QED
    BY <2>2, <2>3, <2>4, <2>5
<1>6. ASSUME NEW status \in StatusCode, SetStatic(status) PROVE TypeOK'
  <2>1. <<cur, status>> \in Prop \X StatusCode
    BY <1>6, AreaAt DEF SetStatic
  <2> QED
    BY <1>6, <2>1 DEF SetStatic
<1>7. CASE RejectArea \/ EndOfAreas \/ EndOfProperties
  BY <1>7 DEF RejectArea, EndOfAreas, EndOfProperties
<1>8. CASE OilNotSupported
  BY <1>8 DEF OilNotSupported, OilRest
<1>9. ASSUME NEW answer \in Answers \cup {NoValue}, ReadOil(answer) PROVE TypeOK'
  <2>1. OilTemp \in Prop
    BY <1>9 DEF ReadOil
  <2>2. <<OilTemp, {}, answer>> \in Prop \X (SUBSET Zone) \X (Answers \cup {NoValue})
    BY <2>1
  <2>3. pc' \in {"error", "failed", "subscribe", "passed"}
        /\ seen' = seen \cup {<<OilTemp, {}, answer>>}
    BY <1>9 DEF ReadOil
  <2> QED
    BY <1>9, <2>2, <2>3 DEF ReadOil, OilRest
<1>10. ASSUME NEW status \in StatusCode, Subscribe(status) PROVE TypeOK'
  BY <1>10 DEF Subscribe, OilRest
<1>11. CASE OnPropertyEvent \/ OnPropertySetError
  <2>1. \A e \in {"onPropertyEvent", "onPropertySetError"} :
            <<e, looks>> \in {"onPropertyEvent", "onPropertySetError"} \X (0 .. Looks)
    OBVIOUS
  <2>2. heard' \subseteq {"onPropertyEvent", "onPropertySetError"} \X (0 .. Looks)
    BY <1>11, <2>1 DEF OnPropertyEvent, OnPropertySetError
  <2> QED
    BY <1>11, <2>2 DEF OnPropertyEvent, OnPropertySetError, OilRest
<1>12. CASE Look \/ Sleep
  <2>1. CASE Look
    <3>1. looks' \in 0 .. Looks
      BY <2>1 DEF Look, Looks, ShapeInv
    <3>2. pc' \in {"passed", "sleep"} /\ subscribed' \in BOOLEAN
      BY <2>1 DEF Look
    <3>3. UNCHANGED <<test, config, todo, cur, at, areasFound, sets, called, heard, seen>>
      BY <2>1 DEF Look, OilRest
    <3> QED
      BY <3>1, <3>2, <3>3
  <2>2. CASE Sleep
    BY <2>2 DEF Sleep, OilRest
  <2> QED
    BY <1>12, <2>1, <2>2
<1>13. CASE UNCHANGED vars
  BY <1>13 DEF vars
<1> QED
  BY <1>2, <1>3, <1>4, <1>5, <1>6, <1>7, <1>8, <1>9, <1>10, <1>11, <1>12, <1>13
     DEF Next, Properties, Oil, Hal

LEMMA ShapeStep == TypeOK /\ ShapeInv /\ [Next]_vars => ShapeInv'
<1> SUFFICES ASSUME TypeOK, ShapeInv, [Next]_vars PROVE ShapeInv'
  OBVIOUS
<1> USE DEF ShapeInv, fixed, oil
<1>2. CASE ListProperties
  BY <1>2 DEF ListProperties
<1>3. ASSUME NEW p \in Prop, TakeStatic(p) \/ TakeRange(p) PROVE ShapeInv'
  <2>1. /\ p \in todo /\ todo' = todo \ {p} /\ cur' = p /\ pc = "loop"
        /\ pc' \in {"failed", "areas", "loop"}
        /\ UNCHANGED <<test, config, looks>>
    BY <1>3 DEF TakeStatic, TakeRange, Take
  <2>2. test \in {"testVehicleStaticProps", "testPropertyRanges"}
    BY <1>3 DEF TakeStatic, TakeRange
  <2>3. test = "testVehicleStaticProps" /\ pc' = "areas" => p \in StaticProps
    BY <1>3 DEF TakeStatic, TakeRange
  <2> QED
    BY <2>1, <2>2, <2>3
<1>4. ASSUME NEW answer \in Answers \cup {NoValue}, ReadStatic(answer) PROVE ShapeInv'
  <2>1. /\ pc' \in {"error", "failed", "set"} /\ pc = "areas" /\ test = "testVehicleStaticProps"
        /\ at \in DOMAIN Areas /\ UNCHANGED <<test, config, todo, cur, at, looks>>
    BY <1>4 DEF ReadStatic
  <2> QED
    BY <2>1 DEF Areas
<1>5. ASSUME NEW answer \in Answers \cup {NoValue}, ReadArea(answer) PROVE ShapeInv'
  <2>1. /\ pc' \in {"failed", "areas"} /\ pc = "areas" /\ test = "testPropertyRanges"
        /\ UNCHANGED <<test, config, todo, cur, looks>>
    BY <1>5 DEF ReadArea
  <2> QED
    BY <2>1
<1>6. ASSUME NEW answer \in Answers \cup {NoValue}, NEW p \in Prop, TakeGlobal(p, answer)
      PROVE ShapeInv'
  <2>1. GlobalOutcome(p, answer) \in {"loop", "failed", "error"}
    BY DEF GlobalOutcome
  <2>2. /\ pc = "loop" /\ test \in GlobalTest /\ UNCHANGED <<test, config, looks>>
        /\ pc' \in {"loop", "failed", "error"}
    BY <1>6, <2>1 DEF TakeGlobal, Take
  <2> QED
    BY <2>2 DEF GlobalTest
<1>7. ASSUME NEW status \in StatusCode, SetStatic(status) PROVE ShapeInv'
  <2>1. /\ pc' \in {"failed", "areas"} /\ pc = "set" /\ UNCHANGED <<test, config, todo, cur, looks>>
    BY <1>7 DEF SetStatic
  <2> QED
    BY <2>1
<1>8. CASE RejectArea \/ EndOfAreas \/ EndOfProperties
  <2>1. /\ pc' \in {"failed", "loop", "passed"} /\ pc \in {"areas", "loop"}
        /\ UNCHANGED <<test, config, todo, cur, at, looks>>
        /\ pc' = "passed" => todo = {}
    BY <1>8 DEF RejectArea, EndOfAreas, EndOfProperties
  <2> QED
    BY <2>1
<1>9. CASE OilNotSupported
  BY <1>9 DEF OilNotSupported, OilRest
<1>10. ASSUME NEW answer \in Answers \cup {NoValue}, ReadOil(answer) PROVE ShapeInv'
  <2>1. /\ pc' \in {"error", "failed", "subscribe", "passed"} /\ pc = "loop"
        /\ test = "testEngineOilTemp" /\ UNCHANGED <<test, config, todo, cur, at, looks>>
    BY <1>10 DEF ReadOil, OilRest
  <2> QED
    BY <2>1
<1>11. ASSUME NEW status \in StatusCode, Subscribe(status) PROVE ShapeInv'
  <2>1. /\ pc' \in {"failed", "look"} /\ pc = "subscribe"
        /\ UNCHANGED <<test, config, todo, cur, at, looks>>
    BY <1>11 DEF Subscribe, OilRest
  <2> QED
    BY <2>1 DEF Looks
<1>12. CASE OnPropertyEvent \/ OnPropertySetError
  <2>1. pc \in {"look", "sleep"} /\ UNCHANGED <<test, config, pc, todo, cur, at, looks>>
    BY <1>12 DEF OnPropertyEvent, OnPropertySetError, OilRest
  <2> QED
    BY <2>1 DEF Areas
<1>13. CASE Look
  <2>1. pc = "look" /\ pc' \in {"passed", "sleep"} /\ UNCHANGED <<test, config, todo, cur, at>>
    BY <1>13 DEF Look, OilRest
  <2> QED
    BY <2>1
<1>14. CASE Sleep
  <2>1. /\ pc = "sleep" /\ pc' \in {"look", "failed"}
        /\ pc' = "look" => looks < Looks
        /\ UNCHANGED <<test, config, todo, cur, at, looks>>
    BY <1>14 DEF Sleep, OilRest
  <2> QED
    BY <2>1
<1>15. CASE UNCHANGED vars
  <2>1. UNCHANGED <<test, config, pc, todo, cur, at, looks>>
    BY <1>15 DEF vars
  <2> QED
    BY <2>1 DEF Areas
<1> QED
  BY <1>2, <1>3, <1>4, <1>5, <1>6, <1>7, <1>8, <1>9, <1>10, <1>11, <1>12, <1>13, <1>14, <1>15
     DEF Next, Properties, Oil, Hal

\* The variables keep their types.
THEOREM TypeCorrect == Spec => []TypeOK
<1>1. Init => TypeOK /\ ShapeInv
  BY InitInv DEF Inv
<1> QED
  BY <1>1, TypeStep, ShapeStep, PTL DEF Spec

-----------------------------------------------------------------------------
(* Each test takes steps of its own.                                       *)
LEMMA StaticSteps ==
    ASSUME ShapeInv, Next, test = "testVehicleStaticProps"
    PROVE  \/ \E p \in Prop : TakeStatic(p)
           \/ \E answer \in Answers \cup {NoValue} : ReadStatic(answer)
           \/ \E status \in StatusCode : SetStatic(status)
           \/ EndOfAreas \/ EndOfProperties
<1>1. ~ListProperties /\ ~RejectArea /\ ~Oil /\ ~Hal
  BY DEF ListProperties, RejectArea, Oil, Hal, OilNotSupported, ReadOil, Subscribe, Look, Sleep,
         OnPropertyEvent, OnPropertySetError, ShapeInv
<1>2. /\ \A p \in Prop : ~TakeRange(p)
      /\ \A answer \in Answers \cup {NoValue} :
            ~ReadArea(answer) /\ \A p \in Prop : ~TakeGlobal(p, answer)
  BY DEF TakeRange, ReadArea, TakeGlobal, GlobalTest
<1>3. Properties
  BY <1>1 DEF Next
<1> QED
  BY <1>1, <1>2, <1>3, Zenon DEF Properties

LEMMA RangeSteps ==
    ASSUME ShapeInv, Next, test = "testPropertyRanges"
    PROVE  \/ \E p \in Prop : TakeRange(p)
           \/ \E answer \in Answers \cup {NoValue} : ReadArea(answer)
           \/ RejectArea \/ EndOfAreas \/ EndOfProperties
<1>1. ~ListProperties /\ ~Oil /\ ~Hal
  BY DEF ListProperties, Oil, Hal, OilNotSupported, ReadOil, Subscribe, Look, Sleep,
         OnPropertyEvent, OnPropertySetError, ShapeInv
<1>2. /\ \A p \in Prop : ~TakeStatic(p)
      /\ \A answer \in Answers \cup {NoValue} :
            ~ReadStatic(answer) /\ \A p \in Prop : ~TakeGlobal(p, answer)
      /\ \A status \in StatusCode : ~SetStatic(status)
  BY DEF TakeStatic, ReadStatic, TakeGlobal, GlobalTest, SetStatic, ShapeInv
<1>3. Properties
  BY <1>1 DEF Next
<1> QED
  BY <1>1, <1>2, <1>3, Zenon DEF Properties

LEMMA GlobalSteps ==
    ASSUME ShapeInv, Next, test \in GlobalTest
    PROVE  \/ \E answer \in Answers \cup {NoValue}, p \in Prop : TakeGlobal(p, answer)
           \/ EndOfProperties
<1>1. /\ ~ListProperties /\ ~Oil /\ ~Hal /\ ~RejectArea /\ ~EndOfAreas
  BY DEF ListProperties, RejectArea, EndOfAreas, Oil, Hal, OilNotSupported, ReadOil, Subscribe,
         Look, Sleep, OnPropertyEvent, OnPropertySetError, ShapeInv, GlobalTest
<1>2. /\ \A p \in Prop : ~TakeStatic(p) /\ ~TakeRange(p)
      /\ \A answer \in Answers \cup {NoValue} : ~ReadStatic(answer) /\ ~ReadArea(answer)
      /\ \A status \in StatusCode : ~SetStatic(status)
  BY DEF TakeStatic, ReadStatic, TakeRange, ReadArea, GlobalTest, SetStatic, ShapeInv
<1>3. Properties
  BY <1>1 DEF Next
<1> QED
  BY <1>1, <1>2, <1>3, Zenon DEF Properties

-----------------------------------------------------------------------------
(* The static properties.                                                  *)

\* What was seen, set and configured stays so.
LEMMA Remembered ==
    ASSUME [Next]_vars
    PROVE  UNCHANGED <<test, config>> /\ seen \subseteq seen' /\ sets \subseteq sets'
<1>1. CASE Properties
  BY <1>1 DEF Properties, ListProperties, TakeStatic, TakeRange, ReadStatic, ReadArea, TakeGlobal,
     SetStatic, RejectArea, EndOfAreas, EndOfProperties, fixed
<1>2. CASE Oil
  BY <1>2 DEF Oil, OilNotSupported, ReadOil, Subscribe, Look, Sleep, OilRest, fixed
<1>3. CASE Hal
  BY <1>3 DEF Hal, OnPropertyEvent, OnPropertySetError, OilRest, fixed
<1>4. CASE UNCHANGED vars
  BY <1>4 DEF vars
<1> QED
  BY <1>1, <1>2, <1>3, <1>4 DEF Next

LEMMA StaticRemembered ==
    ASSUME [Next]_vars, NEW p
    PROVE  /\ StaticConfigured(p)' = StaticConfigured(p)
           /\ \A k : StaticSeen(p, k) => StaticSeen(p, k)'
           /\ StaticDone(p) => StaticDone(p)'
<1>1. UNCHANGED <<test, config>> /\ seen \subseteq seen' /\ sets \subseteq sets'
  BY Remembered
<1>2. StaticConfigured(p)' = StaticConfigured(p)
  BY <1>1 DEF StaticConfigured
<1>3. \A k : StaticSeen(p, k) => StaticSeen(p, k)'
  BY <1>1 DEF StaticSeen
<1> QED
  BY <1>1, <1>2, <1>3 DEF StaticDone

LEMMA StaticStep == TypeOK /\ ShapeInv /\ StaticInv /\ [Next]_vars => StaticInv'
<1> SUFFICES ASSUME TypeOK, ShapeInv, StaticInv, [Next]_vars, test = "testVehicleStaticProps"
             PROVE  StaticInv'
  BY Remembered DEF StaticInv
<1>1. UNCHANGED <<test, config>> /\ seen \subseteq seen' /\ sets \subseteq sets'
  BY Remembered
<1>2. \A p \in Prop : StaticDone(p) => StaticDone(p)'
  BY StaticRemembered
<1>4. ASSUME NEW p \in Prop, TakeStatic(p) PROVE StaticInv'
  <2>1. /\ pc = "loop" /\ p \in todo /\ todo' = todo \ {p} /\ cur' = p /\ at' = 1
        /\ pc' \in {"failed", "areas", "loop"} /\ sets' = sets
    BY <1>4 DEF TakeStatic, Take
  <2>2. pc' # "failed" => StaticConfigured(p)
    BY <1>4 DEF TakeStatic, StaticConfigured
  <2>3. pc' = "loop" => p \notin StaticProps
    BY <1>4 DEF TakeStatic
  <2>4. pc' = "loop" => StaticDone(p)
    BY <2>2, <2>3 DEF StaticDone
  <2>5. \A q \in Prop : Behind(q)' => Behind(q) \/ (q = p /\ pc' = "loop")
    BY <1>1, <2>1 DEF Behind
  <2>6. \A q \in Prop : Behind(q)' => StaticDone(q)'
    BY <1>2, <2>1, <2>4, <2>5 DEF StaticInv
  <2>7. pc' = "areas" => StaticConfigured(cur)'
    BY <1>1, <2>1, <2>2 DEF StaticConfigured
  <2>8. at' = 1 /\ \A k \in 1 .. at' - 1 : FALSE
    BY <2>1
  <2> QED
    BY <2>1, <2>6, <2>7, <2>8 DEF StaticInv
<1>5. ASSUME NEW answer \in Answers \cup {NoValue}, ReadStatic(answer) PROVE StaticInv'
  <2>1. /\ pc = "areas" /\ pc' \in {"error", "failed", "set"}
        /\ UNCHANGED <<todo, cur, at, sets>>
        /\ seen' = seen \cup {<<cur, Areas[at].areaId, answer>>}
    BY <1>5 DEF ReadStatic
  <2>2. pc' = "set" => answer \in Answers /\ answer.prop = cur
    BY <1>5 DEF ReadStatic
  <2>3. pc' = "set" => StaticSeen(cur, at)'
    BY <1>1, <2>1, <2>2 DEF StaticSeen, Areas
  <2>4. \A q \in Prop : Behind(q)' => Behind(q)
    BY <1>1, <2>1 DEF Behind
  <2>5. \A q \in Prop : Behind(q) => StaticDone(q)
    BY <2>1 DEF StaticInv
  <2>6. \A k \in 1 .. at' - 1 : StaticSeen(cur, k)'
    BY <1>1, <2>1 DEF StaticInv, StaticSeen
  <2>7. StaticConfigured(cur)'
    BY <1>1, <2>1 DEF StaticInv, StaticConfigured
  <2>8. at' > 1 => <<cur, "ACCESS_DENIED">>' \in sets'
    BY <2>1 DEF StaticInv
  <2> QED
    BY <1>2, <2>1, <2>3, <2>4, <2>5, <2>6, <2>7, <2>8 DEF StaticInv
<1>6. ASSUME NEW status \in StatusCode, SetStatic(status) PROVE StaticInv'
  <2>1. /\ pc = "set" /\ pc' \in {"areas", "failed"} /\ at' = at + 1
        /\ UNCHANGED <<todo, cur, seen>>
        /\ sets' = sets \cup {<<cur, status>>}
        /\ pc' # "failed" => status = "ACCESS_DENIED"
    BY <1>6 DEF SetStatic
  <2>2. pc' # "failed" => \A s \in sets' : s[2] = "ACCESS_DENIED"
    BY <2>1 DEF StaticInv
  <2>3. \A q \in Prop : Behind(q)' => Behind(q)
    BY <1>1, <2>1 DEF Behind
  <2>4. \A q \in Prop : Behind(q) => StaticDone(q)
    BY <2>1 DEF StaticInv
  <2>5. \A k \in 1 .. at : StaticSeen(cur, k)
    BY <2>1 DEF StaticInv, TypeOK
  <2>6. \A k \in 1 .. at' - 1 : StaticSeen(cur, k)'
    <3>1. at' - 1 = at
      BY <2>1 DEF TypeOK
    <3>2. \A k \in 1 .. at : StaticSeen(cur, k)'
      BY <1>1, <2>1, <2>5 DEF StaticSeen
    <3> QED
      BY <3>1, <3>2
  <2>7. StaticConfigured(cur)'
    BY <1>1, <2>1 DEF StaticInv, StaticConfigured
  <2>8. pc' = "areas" => <<cur, "ACCESS_DENIED">>' \in sets'
    BY <2>1
  <2> QED
    BY <1>2, <2>1, <2>2, <2>3, <2>4, <2>6, <2>7, <2>8 DEF StaticInv
<1>7. CASE EndOfAreas
  <2>1. /\ pc = "areas" /\ pc' = "loop" /\ at \notin DOMAIN Areas
        /\ UNCHANGED <<todo, cur, at, sets, seen>>
    BY <1>7 DEF EndOfAreas
  <2>2. cur \in Prop /\ cur \in DOMAIN config /\ Areas \in Seq(Area)
    BY <2>1, AreaAt DEF ShapeInv
  <2>3. \A k \in DOMAIN Areas : k \in 1 .. at - 1 /\ at > 1
    <3>1. DOMAIN Areas = 1 .. Len(Areas) /\ Len(Areas) \in Nat
      BY <2>2
    <3>2. at \in Nat /\ at > Len(Areas)
      BY <2>1, <3>1 DEF TypeOK
    <3> QED
      BY <3>1, <3>2
  <2>4. StaticDone(cur)
    BY <2>1, <2>3 DEF StaticDone, StaticInv, Areas
  <2>5. \A q \in Prop : Behind(q)' => Behind(q) \/ q = cur
    BY <1>1, <2>1 DEF Behind
  <2>6. \A q \in Prop : Behind(q)' => StaticDone(q)'
    BY <1>2, <2>1, <2>2, <2>4, <2>5 DEF StaticInv
  <2> QED
    BY <2>1, <2>6 DEF StaticInv
<1>8. CASE EndOfProperties
  <2>1. pc = "loop" /\ pc' = "passed" /\ UNCHANGED <<todo, cur, at, sets, seen>>
    BY <1>8 DEF EndOfProperties
  <2>2. \A q \in Prop : Behind(q)' => Behind(q)
    BY <1>1, <2>1 DEF Behind
  <2> QED
    BY <1>2, <2>1, <2>2 DEF StaticInv
<1>9. CASE UNCHANGED vars
  BY <1>9 DEF vars, StaticInv, Behind, StaticDone, StaticSeen, StaticConfigured, Areas
<1> QED
  BY <1>4, <1>5, <1>6, <1>7, <1>8, <1>9, StaticSteps

-----------------------------------------------------------------------------
(* The ranges.                                                             *)
LEMMA RangeRemembered ==
    ASSUME [Next]_vars, NEW p
    PROVE  /\ \A k : AreaDone(p, k) => AreaDone(p, k)'
           /\ RangeDone(p) => RangeDone(p)'
<1>1. UNCHANGED <<test, config>> /\ seen \subseteq seen'
  BY Remembered
<1>2. \A k : AreaDone(p, k) => AreaDone(p, k)'
  BY <1>1 DEF AreaDone
<1>3. RangeSkipped(config[p])' = RangeSkipped(config[p])
  BY <1>1
<1> QED
  BY <1>1, <1>2, <1>3 DEF RangeDone

LEMMA RangeStep == TypeOK /\ ShapeInv /\ RangeInv /\ [Next]_vars => RangeInv'
<1> SUFFICES ASSUME TypeOK, ShapeInv, RangeInv, [Next]_vars, test = "testPropertyRanges"
             PROVE  RangeInv'
  BY Remembered DEF RangeInv
<1>1. UNCHANGED <<test, config>> /\ seen \subseteq seen'
  BY Remembered
<1>2. \A p \in Prop : RangeDone(p) => RangeDone(p)'
  BY RangeRemembered
<1>3. ASSUME NEW p \in Prop, TakeRange(p) PROVE RangeInv'
  <2>1. /\ pc = "loop" /\ p \in todo /\ todo' = todo \ {p} /\ cur' = p /\ at' = 1
        /\ areasFound' = {} /\ pc' \in {"failed", "areas", "loop"}
    BY <1>3 DEF TakeRange, Take
  <2>2. pc' # "failed" => RatesOk(config[p])
    BY <1>3 DEF TakeRange
  <2>3. p \in DOMAIN config /\ config[p].prop = p /\ config[p] \in Config
    BY <1>3, <2>1 DEF ShapeInv, TypeOK
  <2>4. /\ pc' = "loop" => RangeSkipped(config[p])
        /\ pc' = "areas" => ~RangeSkipped(config[p])
        /\ seen' = seen
    BY <1>3 DEF TakeRange
  <2>5. pc' = "loop" => RangeDone(p)
    BY <2>2, <2>4 DEF RangeDone
  <2>6. \A q \in Prop : Behind(q)' => Behind(q) \/ (q = p /\ pc' = "loop")
    BY <1>1, <2>1 DEF Behind
  <2>7. pc' # "failed" => \A q \in Prop : Behind(q)' => RangeDone(q)'
    BY <1>2, <2>1, <2>5, <2>6 DEF RangeInv
  <2>8. at' - 1 = 0 /\ \A k \in 1 .. at' - 1 : FALSE
    BY <2>1
  <2>9. pc' = "areas" => RatesOk(config'[cur'])
    BY <1>1, <2>1, <2>2
  <2>10. Len(config[p].areaConfigs) \in Nat
    BY <2>3 DEF Config
  <2>11. at' - 1 <= Len(Areas')
    BY <1>1, <2>1, <2>10 DEF Areas
  <2>12. areasFound' = {z \in Zone : \E k \in 1 .. at' - 1 : z \in Areas'[k].areaId}
    BY <2>1, <2>8
  <2>13. ScopeInv'
    BY <1>1, <2>1, <2>4 DEF RangeInv, ScopeInv
  <2> QED
    BY <2>1, <2>7, <2>8, <2>9, <2>11, <2>12, <2>13 DEF RangeInv
<1>4. ASSUME NEW answer \in Answers \cup {NoValue}, ReadArea(answer) PROVE RangeInv'
  <2> DEFINE area == Areas[at]
  <2>1. /\ pc = "areas" /\ pc' \in {"areas", "failed"} /\ at \in DOMAIN Areas
        /\ at' = at + 1 /\ UNCHANGED <<todo, cur>>
        /\ areasFound' = areasFound \cup area.areaId
        /\ seen' = seen \cup {<<cur, area.areaId, answer>>}
    BY <1>4 DEF ReadArea
  <2>2. Ordered(area) /\ areasFound \cap area.areaId = {}
    BY <1>4 DEF ReadArea, AreaWrong
  <2>3. pc' = "areas" => (answer # NoValue => InBounds(area, answer.value))
    BY <1>4 DEF ReadArea
  <2>4. Areas \in Seq(Area) /\ area.areaId \in SUBSET Zone
    BY <2>1, AreaAt
  <2>5. at \in Nat /\ at <= Len(Areas) /\ Areas' = Areas
    BY <1>1, <2>1, <2>4 DEF TypeOK, Areas
  <2>6. \A k \in 1 .. at - 1 : AreaDone(cur, k)'
    BY <1>1, <2>1 DEF RangeInv, AreaDone
  <2>7. pc' = "areas" => \A k : k = at => AreaDone(cur, k)'
    BY <1>1, <2>1, <2>2, <2>3 DEF AreaDone, Areas
  <2>8. areasFound' = {z \in Zone : \E k \in 1 .. at : z \in Areas[k].areaId}
    <3>1. areasFound = {z \in Zone : \E k \in 1 .. at - 1 : z \in Areas[k].areaId}
      BY <2>1 DEF RangeInv
    <3>2. 1 .. at = (1 .. at - 1) \cup {at}
      BY <2>5, <2>1 DEF TypeOK
    <3> QED
      BY <2>1, <2>4, <3>1, <3>2
  <2>9. \A k, l \in 1 .. at : k < l => Areas[k].areaId \cap Areas[l].areaId = {}
    <3>1. ASSUME NEW k \in 1 .. at - 1 PROVE Areas[k].areaId \cap area.areaId = {}
      <4>1. k \in DOMAIN Areas
        BY <2>4, <2>5
      <4>2. Areas[k].areaId \subseteq areasFound
        BY <2>1, <4>1, AreaAt DEF RangeInv
      <4> QED
        BY <2>2, <4>2
    <3>2. \A k, l \in 1 .. at - 1 : k < l => Areas[k].areaId \cap Areas[l].areaId = {}
      BY <2>1 DEF RangeInv
    <3> QED
      BY <2>5, <3>1, <3>2
  <2>10. \A q \in Prop : Behind(q)' => Behind(q)
    BY <1>1, <2>1 DEF Behind
  <2>11. \A q \in Prop : Behind(q) => RangeDone(q)
    BY <2>1 DEF RangeInv
  <2>12. RatesOk(config'[cur'])
    BY <1>1, <2>1 DEF RangeInv
  <2>13. at' - 1 = at
    BY <2>1, <2>5
  <2>14. pc' = "areas" => \A k \in 1 .. at : AreaDone(cur, k)'
    BY <2>5, <2>6, <2>7
  <2>15. ScopeInv'
    <3>1. cur \in DOMAIN config /\ ~RangeSkipped(config[cur])
      BY <2>1 DEF RangeInv, ScopeInv, ShapeInv
    <3>2. \A r \in seen' : r \in seen \/ r[1] = cur
      BY <2>1
    <3> QED
      BY <1>1, <2>1, <3>1, <3>2 DEF RangeInv, ScopeInv
  <2> HIDE DEF area
  <2> QED
    BY <1>2, <2>1, <2>5, <2>8, <2>9, <2>10, <2>11, <2>12, <2>13, <2>14, <2>15 DEF RangeInv
<1>5. CASE RejectArea
  <2>1. /\ pc = "areas" /\ pc' = "failed"
        /\ UNCHANGED <<todo, cur, seen>>
    BY <1>5 DEF RejectArea
  <2> QED
    BY <1>1, <2>1 DEF RangeInv, ScopeInv
<1>6. CASE EndOfAreas
  <2>1. /\ pc = "areas" /\ pc' = "loop" /\ at \notin DOMAIN Areas
        /\ UNCHANGED <<todo, cur, at, seen>>
    BY <1>6 DEF EndOfAreas
  <2>2. cur \in Prop /\ cur \in DOMAIN config /\ Areas \in Seq(Area)
    BY <2>1, AreaAt DEF ShapeInv
  <2>3. DOMAIN Areas = 1 .. at - 1
    <3>1. DOMAIN Areas = 1 .. Len(Areas) /\ Len(Areas) \in Nat
      BY <2>2
    <3>2. at \in Nat /\ at > Len(Areas)
      BY <2>1, <3>1 DEF TypeOK
    <3> QED
      BY <2>1, <3>1, <3>2 DEF RangeInv
  <2>4. ~Overlap(config[cur].areaConfigs)
    BY <2>1, <2>3 DEF RangeInv, Overlap, Areas
  <2>5. RangeDone(cur)
    BY <2>1, <2>3, <2>4 DEF RangeInv, RangeDone, Areas
  <2>6. \A q \in Prop : Behind(q)' => Behind(q) \/ q = cur
    BY <1>1, <2>1 DEF Behind
  <2>7. \A q \in Prop : Behind(q)' => RangeDone(q)'
    BY <1>2, <2>1, <2>2, <2>5, <2>6 DEF RangeInv
  <2>8. ScopeInv'
    BY <1>1, <2>1 DEF RangeInv, ScopeInv
  <2> QED
    BY <2>1, <2>7, <2>8 DEF RangeInv
<1>7. CASE EndOfProperties
  <2>1. pc = "loop" /\ pc' = "passed" /\ UNCHANGED <<todo, cur, at, seen>>
    BY <1>7 DEF EndOfProperties
  <2>2. \A q \in Prop : Behind(q)' => Behind(q)
    BY <1>1, <2>1 DEF Behind
  <2>3. ScopeInv'
    BY <1>1, <2>1 DEF RangeInv, ScopeInv
  <2> QED
    BY <1>2, <2>1, <2>2, <2>3 DEF RangeInv
<1>8. CASE UNCHANGED vars
  <2>1. UNCHANGED <<test, config, pc, todo, cur, at, areasFound, seen>>
    BY <1>8 DEF vars
  <2>2. \A q \in Prop : Behind(q)' => Behind(q)
    BY <2>1 DEF Behind
  <2>3. \A k \in 1 .. at - 1 : AreaDone(cur, k) => AreaDone(cur, k)'
    BY <2>1 DEF AreaDone
  <2>4. UNCHANGED Areas
    BY <2>1 DEF Areas
  <2>5. ScopeInv'
    BY <2>1 DEF RangeInv, ScopeInv
  <2> QED
    BY <1>2, <2>1, <2>2, <2>3, <2>4, <2>5 DEF RangeInv
<1> QED
  BY <1>3, <1>4, <1>5, <1>6, <1>7, <1>8, RangeSteps

-----------------------------------------------------------------------------
(* The global properties.                                                  *)

\* A global test goes on exactly with the values it accepts.
LEMMA GoesOnWithAccepted ==
    ASSUME NEW p, NEW answer
    PROVE  GlobalOutcome(p, answer) = "loop" <=> Accepted(p, answer)
  BY DEF GlobalOutcome, Accepted

LEMMA GlobalStep == TypeOK /\ ShapeInv /\ GlobalInv /\ [Next]_vars => GlobalInv'
<1> SUFFICES ASSUME TypeOK, ShapeInv, GlobalInv, [Next]_vars, test \in GlobalTest
             PROVE  GlobalInv'
  BY Remembered DEF GlobalInv
<1>1. UNCHANGED <<test, config>> /\ seen \subseteq seen'
  BY Remembered
<1>2. \A q, a : Accepted(q, a)' = Accepted(q, a)
  BY <1>1 DEF Accepted
<1>3. ASSUME NEW answer \in Answers \cup {NoValue}, NEW p \in Prop, TakeGlobal(p, answer)
      PROVE GlobalInv'
  <2>1. pc = "loop" /\ todo' = todo \ {p}
    BY <1>3 DEF TakeGlobal, Take
  <2>2. ASSUME p \in DOMAIN config, pc' = "loop"
        PROVE  \E a \in Answers : <<p, {}, a>> \in seen' /\ Accepted(p, a)
    <3>1. Accepted(p, answer) /\ <<p, {}, answer>> \in seen'
      BY <1>3, <2>2, GoesOnWithAccepted DEF TakeGlobal
    <3>2. answer # NoValue
      BY <3>1 DEF Accepted
    <3> QED
      BY <3>1, <3>2
  <2>3. pc' \notin {"passed"}
    BY <1>3, <2>1 DEF TakeGlobal, GlobalOutcome
  <2> QED
    BY <1>1, <1>2, <2>1, <2>2, <2>3 DEF GlobalInv
<1>4. CASE EndOfProperties
  BY <1>1, <1>2, <1>4 DEF EndOfProperties, GlobalInv
<1>5. CASE UNCHANGED vars
  BY <1>2, <1>5 DEF vars, GlobalInv
<1> QED
  BY <1>3, <1>4, <1>5, GlobalSteps

-----------------------------------------------------------------------------
(* The oil temperature.                                                    *)
LEMMA OilStep == TypeOK /\ ShapeInv /\ OilInv /\ [Next]_vars => OilInv'
<1> SUFFICES ASSUME TypeOK, ShapeInv, OilInv, [Next]_vars
             PROVE  OilInv'
  OBVIOUS
<1>1. looks \in 0 .. Looks /\ Looks = 5
  BY DEF TypeOK, Looks
<1>2. CASE Properties \/ OilNotSupported
             \/ \E answer \in Answers \cup {NoValue} : ReadOil(answer)
  <2>1. pc \in {"loop", "areas", "set"} /\ UNCHANGED oil
    BY <1>2 DEF Properties, ListProperties, TakeStatic, TakeRange, ReadStatic, ReadArea, TakeGlobal,
       Take, SetStatic, RejectArea, EndOfAreas, EndOfProperties, OilNotSupported, ReadOil
  <2>2. pc' \in {"loop", "areas", "set", "subscribe", "passed", "failed", "error"}
    BY <1>2 DEF Properties, ListProperties, TakeStatic, TakeRange, ReadStatic, ReadArea, TakeGlobal,
       Take, SetStatic, RejectArea, EndOfAreas, EndOfProperties, OilNotSupported, ReadOil,
       GlobalOutcome
  <2>3. looks = 0 /\ UNCHANGED <<subscribed, called, looks, heard>>
    BY <2>1 DEF ShapeInv, oil
  <2> QED
    BY <1>1, <2>1, <2>2, <2>3 DEF OilInv
<1>3. ASSUME NEW status \in StatusCode, Subscribe(status) PROVE OilInv'
  <2>1. /\ pc = "subscribe" /\ UNCHANGED <<called, looks, heard>>
        /\ \/ pc' = "look"
           \/ pc' = "failed" /\ subscribed' = FALSE
    BY <1>3 DEF Subscribe
  <2>2. looks = 0
    BY <2>1 DEF ShapeInv
  <2> QED
    BY <1>1, <2>1, <2>2 DEF OilInv
<1>4. CASE OnPropertyEvent
  <2>1. /\ pc \in {"look", "sleep"} /\ UNCHANGED <<pc, subscribed, looks>>
        /\ called' # {} /\ heard' = heard \cup {<<"onPropertyEvent", looks>>}
    BY <1>4 DEF OnPropertyEvent
  <2> QED
    BY <1>1, <2>1 DEF OilInv
<1>5. CASE OnPropertySetError
  <2>1. /\ pc \in {"look", "sleep"} /\ UNCHANGED <<pc, subscribed, looks, called>>
        /\ heard' = heard \cup {<<"onPropertySetError", looks>>}
    BY <1>5 DEF OnPropertySetError
  <2>2. \A n : <<"onPropertyEvent", n>> \in heard' <=> <<"onPropertyEvent", n>> \in heard
    BY <2>1
  <2> QED
    BY <1>1, <2>1, <2>2 DEF OilInv
<1>6. CASE Look
  <2>1. /\ pc = "look" /\ looks' = looks + 1 /\ UNCHANGED <<called, heard>>
        /\ \/ called # {} /\ pc' = "passed" /\ subscribed' = FALSE
           \/ called = {} /\ pc' = "sleep"
    BY <1>6 DEF Look
  <2> QED
    BY <1>1, <2>1 DEF OilInv
<1>7. CASE Sleep
  <2>1. /\ pc = "sleep" /\ UNCHANGED <<called, looks, heard, subscribed>>
        /\ \/ looks < Looks /\ pc' = "look"
           \/ ~(looks < Looks) /\ pc' = "failed"
    BY <1>7 DEF Sleep, oil
  <2> QED
    BY <1>1, <2>1 DEF OilInv
<1>8. CASE UNCHANGED vars
  BY <1>8 DEF vars, oil, OilInv
<1> QED
  BY <1>2, <1>3, <1>4, <1>5, <1>6, <1>7, <1>8 DEF Next, Oil, Hal

-----------------------------------------------------------------------------
(* Failures.                                                               *)
LEMMA FailuresStep ==
    /\ TypeOK /\ ShapeInv /\ RangeInv /\ FailuresJustified
    /\ [Next]_vars
    => FailuresJustified'
<1> SUFFICES ASSUME TypeOK, ShapeInv, RangeInv, FailuresJustified, [Next]_vars
             PROVE  FailuresJustified'
  OBVIOUS
<1>1. UNCHANGED <<test, config>> /\ seen \subseteq seen' /\ sets \subseteq sets'
  BY Remembered
<1>2. CASE pc \in {"failed", "error"}
  <2>1. test \in GlobalTest /\ (\E r \in seen : ~Accepted(r[1], r[3]))
        => (\E r \in seen : ~Accepted(r[1], r[3]))'
    BY <1>1 DEF Accepted
  <2>2. \A p : StaticConfigured(p)' = StaticConfigured(p)
    BY <1>1 DEF StaticConfigured
  <2> QED
    BY <1>1, <1>2, <2>1, <2>2 DEF FailuresJustified
<1>3. CASE test = "testListProperties" /\ pc \notin {"failed", "error"}
  <2>1. CASE ListProperties
    BY <1>3, <2>1 DEF ListProperties, fixed, FailuresJustified, GlobalTest
  <2>2. pc' \in {"failed", "error"} => ListProperties
    BY <1>3 DEF Next, Properties, Oil, Hal, TakeStatic, TakeRange, ReadStatic, ReadArea, TakeGlobal,
       SetStatic, RejectArea, EndOfAreas, EndOfProperties, OilNotSupported, ReadOil, Subscribe,
       Look, Sleep, OnPropertyEvent, OnPropertySetError, ShapeInv, GlobalTest, vars
  <2> QED
    BY <2>1, <2>2 DEF FailuresJustified
<1>4. CASE test = "testVehicleStaticProps" /\ pc \notin {"failed", "error"}
  <2>1. ASSUME NEW p \in Prop, TakeStatic(p), pc' = "failed"
        PROVE  p \in DOMAIN config /\ ~StaticConfigured(p)'
    BY <1>1, <2>1 DEF TakeStatic, Take, ShapeInv, StaticConfigured
  <2>2. ASSUME NEW answer \in Answers \cup {NoValue}, ReadStatic(answer),
               pc' \in {"failed", "error"}
        PROVE  \E r \in seen' : r[3] = NoValue \/ r[3].prop # r[1]
    <3>1. <<cur, Areas[at].areaId, answer>> \in seen'
      BY <2>2 DEF ReadStatic
    <3>2. answer = NoValue \/ answer.prop # cur
      BY <2>2 DEF ReadStatic
    <3> QED
      BY <3>1, <3>2
  <2>3. ASSUME NEW status \in StatusCode, SetStatic(status), pc' = "failed"
        PROVE  \E s \in sets' : s[2] # "ACCESS_DENIED"
    <3>1. <<cur, status>> \in sets' /\ status # "ACCESS_DENIED"
      BY <2>3 DEF SetStatic
    <3> QED
      BY <3>1
  <2>4. pc' \in {"failed", "error"} =>
            \/ \E p \in Prop : TakeStatic(p) /\ pc' = "failed"
            \/ \E answer \in Answers \cup {NoValue} : ReadStatic(answer)
            \/ \E status \in StatusCode : SetStatic(status) /\ pc' = "failed"
    BY <1>4, StaticSteps
       DEF EndOfAreas, EndOfProperties, TakeStatic, SetStatic, vars
  <2>5. pc' \in {"failed", "error"} =>
            \/ \E p \in DOMAIN config : ~StaticConfigured(p)'
            \/ \E r \in seen' : r[3] = NoValue \/ r[3].prop # r[1]
            \/ \E s \in sets' : s[2] # "ACCESS_DENIED"
    BY <2>1, <2>2, <2>3, <2>4
  <2> QED
    BY <1>1, <1>4, <2>5 DEF FailuresJustified, GlobalTest
<1>5. CASE test = "testPropertyRanges" /\ pc \notin {"failed", "error"}
  <2> DEFINE Wrong(p) ==
          LET list == config[p].areaConfigs
          IN  \/ ~RatesOk(config[p])
              \/ Overlap(list)
              \/ \E k \in DOMAIN list :
                    \/ ~Ordered(list[k])
                    \/ \E answer \in Answers :
                          /\ <<p, list[k].areaId, answer>> \in seen'
                          /\ ~InBounds(list[k], answer.value)
  <2>1. ASSUME NEW p \in Prop, TakeRange(p), pc' \in {"failed", "error"}
        PROVE  p \in DOMAIN config /\ Wrong(p)
    BY <2>1 DEF TakeRange, Take, ShapeInv
  <2>2. ASSUME RejectArea
        PROVE  cur \in DOMAIN config /\ Wrong(cur)
    <3>1. cur \in DOMAIN config /\ at \in DOMAIN Areas /\ Areas \in Seq(Area)
      BY <2>2, AreaAt DEF RejectArea, ShapeInv
    <3>2. CASE ~Ordered(Areas[at])
      BY <3>1, <3>2 DEF Areas
    <3>3. CASE areasFound \cap Areas[at].areaId # {}
      <4>1. PICK k \in 1 .. at - 1 : Areas[k].areaId \cap Areas[at].areaId # {}
        BY <1>5, <2>2, <3>3 DEF RangeInv, RejectArea
      <4>2. k \in DOMAIN Areas /\ k < at
        BY <3>1
      <4> QED
        BY <3>1, <4>1, <4>2 DEF Overlap, Areas
    <3> QED
      BY <2>2, <3>2, <3>3 DEF RejectArea, AreaWrong
  <2>3. ASSUME NEW answer \in Answers \cup {NoValue}, ReadArea(answer),
               pc' \in {"failed", "error"}
        PROVE  cur \in DOMAIN config /\ Wrong(cur)
    <3>1. cur \in DOMAIN config /\ at \in DOMAIN Areas
      BY <2>3 DEF ReadArea, ShapeInv
    <3>2. answer \in Answers /\ ~InBounds(Areas[at], answer.value)
      BY <2>3 DEF ReadArea
    <3>3. <<cur, Areas[at].areaId, answer>> \in seen'
      BY <2>3 DEF ReadArea
    <3> QED
      BY <3>1, <3>2, <3>3 DEF Areas
  <2> HIDE DEF Wrong
  <2>4. pc' \in {"failed", "error"} => \E p \in DOMAIN config : Wrong(p)
    BY <1>5, <2>1, <2>2, <2>3, RangeSteps DEF EndOfAreas, EndOfProperties, vars
  <2> QED
    BY <1>1, <1>5, <2>4 DEF FailuresJustified, GlobalTest, Wrong
<1>6. CASE test \in GlobalTest /\ pc \notin {"failed", "error"}
  <2>1. ASSUME NEW answer \in Answers \cup {NoValue}, NEW p \in Prop, TakeGlobal(p, answer),
               pc' \in {"failed", "error"}
        PROVE  \E r \in seen' : ~Accepted(r[1], r[3])'
    <3>1. p \in DOMAIN config
      BY <2>1 DEF TakeGlobal, Take
    <3>2. <<p, {}, answer>> \in seen' /\ pc' = GlobalOutcome(p, answer)
      BY <2>1, <3>1 DEF TakeGlobal
    <3>3. ~Accepted(p, answer)
      BY <2>1, <3>2, GoesOnWithAccepted
    <3>4. ~Accepted(p, answer)'
      BY <1>1, <3>3 DEF Accepted
    <3> QED
      BY <3>2, <3>4
  <2>2. pc' \in {"failed", "error"} =>
            \E answer \in Answers \cup {NoValue}, p \in Prop : TakeGlobal(p, answer)
    BY <1>6, GlobalSteps DEF EndOfProperties, vars
  <2> QED
    BY <1>1, <1>6, <2>1, <2>2 DEF FailuresJustified, GlobalTest
<1>7. CASE test = "testEngineOilTemp"
  BY <1>1, <1>7 DEF FailuresJustified, GlobalTest
<1> QED
  BY <1>2, <1>3, <1>4, <1>5, <1>6, <1>7 DEF TypeOK, Test

-----------------------------------------------------------------------------
LEMMA InvStep == Inv /\ [Next]_vars => Inv'
  BY TypeStep, ShapeStep, StaticStep, RangeStep, GlobalStep, OilStep, FailuresStep DEF Inv

LEMMA AlwaysInv == Spec => []Inv
  BY InitInv, InvStep, PTL DEF Spec

\* What the test of static properties vouches for when it passes (lines 390-426).
THEOREM StaticIsVouched == Spec => []StaticVouched
<1>1. Inv => StaticVouched
  <2> SUFFICES ASSUME Inv, pc = "passed", test = "testVehicleStaticProps" PROVE StaticVouched
    BY DEF StaticVouched
  <2>1. \A p \in DOMAIN config : StaticDone(p)
    BY DEF Inv, TypeOK, ShapeInv, StaticInv, Behind
  <2> QED
    BY <2>1 DEF Inv, StaticInv, StaticVouched, StaticDone, StaticSeen
<1> QED
  BY <1>1, AlwaysInv, PTL

\* What the test of ranges vouches for when it passes (lines 428-529): no property
\* is checked by half.
THEOREM RangesAreVouched == Spec => []RangesVouched
<1>1. Inv => RangesVouched
  <2> SUFFICES ASSUME Inv, pc = "passed", test = "testPropertyRanges" PROVE RangesVouched
    BY DEF RangesVouched
  <2>1. \A p \in DOMAIN config : RangeDone(p)
    BY DEF Inv, TypeOK, ShapeInv, RangeInv, Behind
  <2>2. \A p \in DOMAIN config : LookedAt(p) => ~RangeSkipped(config[p])
    BY DEF Inv, RangeInv, ScopeInv, LookedAt
  <2> QED
    BY <2>1, <2>2 DEF RangesVouched, RangeDone, AreaDone
<1> QED
  BY <1>1, AlwaysInv, PTL

\* What a global test vouches for when it passes (lines 531-605).
THEOREM GlobalsAreVouched == Spec => []GlobalsVouched
<1>1. Inv => GlobalsVouched
  BY DEF Inv, ShapeInv, GlobalInv, GlobalsVouched, GlobalTest
<1> QED
  BY <1>1, AlwaysInv, PTL

\* A test of properties fails only for a cause in the configuration or in an
\* answer (lines 407-426, 456-529).
THEOREM FailuresAreJustified == Spec => []FailuresJustified
<1>1. Inv => FailuresJustified
  BY DEF Inv
<1> QED
  BY <1>1, AlwaysInv, PTL

\* The verdict on the oil temperature (lines 689-697, 734-741).
THEOREM OilVerdictStands == Spec => []OilVerdict
<1>1. Inv => OilVerdict
  BY DEF Inv, OilInv, OilVerdict
<1> QED
  BY <1>1, AlwaysInv, PTL

\* The oil temperature stays subscribed only after the test has waited in vain
\* (lines 730-741).
THEOREM LeftSubscribedOnlyInVain == Spec => []LeftSubscribed
<1>1. Inv => LeftSubscribed
  <2> SUFFICES ASSUME Inv, Ended, subscribed PROVE pc = "failed" /\ looks = Looks
    BY DEF LeftSubscribed
  <2>1. looks \in 0 .. Looks /\ Looks = 5
    BY DEF Inv, TypeOK, Looks
  <2> QED
    BY <2>1 DEF Inv, OilInv, Ended
<1> QED
  BY <1>1, AlwaysInv, PTL
=============================================================================
