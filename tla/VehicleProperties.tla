------------------------- MODULE VehicleProperties -------------------------
(***************************************************************************)
(* The tests of the vehicle HAL's host test that judge its properties:     *)
(* what is static, what is in range, what the global properties hold, and  *)
(* whether the oil temperature is reported.  setUpClass has asked for the  *)
(* configurations once; a test goes over them and asks the HAL as it goes. *)
(*                                                                         *)
(* The HAL may answer anything.  A test ends "passed", "failed" (an        *)
(* assertion) or "error" (another exception).                              *)
(***************************************************************************)
EXTENDS Integers, Sequences

CONSTANTS
    Prop,          \* properties
    TypeOf,        \* the type of a property, a part of its identifier
    Listings,      \* the sequences getAllPropConfigs may return
    Answers,       \* the values get may return
    StaticProps,   \* staticProperties
    EnumProps,     \* enumProperties of testPropertyRanges
    UnitProps,     \* HVAC_TEMPERATURE_DISPLAY_UNITS
    OilTemp,       \* ENGINE_OIL_TEMP
    Expected,      \* the tables of the global tests: for each test, what its
                   \* properties are to hold
    NoValue        \* None, for a get whose status is not OK

Type == {"STRING", "BOOLEAN", "INT32", "INT32_VEC", "INT64", "FLOAT",
         "FLOAT_VEC", "BYTES", "MIXED"}

\* VehiclePropertyType of types.hal, each constant as the set of its bits.
TypeBits ==
    [STRING  |-> {20},     BOOLEAN   |-> {21},         INT32 |-> {22},
     INT64   |-> {20, 22}, INT32_VEC |-> {16, 22},     FLOAT |-> {21, 22},
     BYTES   |-> {20, 21, 22}, FLOAT_VEC |-> {16, 21, 22}, MIXED |-> {21, 22, 23}]

\* The numeric parts of a value, each with bounds of its own in an area.
ValueType == {"int32Values", "int64Values", "floatValues"}
Value == [ValueType \cup {"bytes", "stringValue"} -> Seq(Int)]
Answer == [prop : Prop, value : Value]

\* An area is a set of zones, empty for the area of a global property.
Zone == 0 .. 31
Area == [areaId : SUBSET Zone, min : [ValueType -> Int], max : [ValueType -> Int]]

Config == [prop : Prop, changeMode : {"STATIC", "ON_CHANGE", "CONTINUOUS"},
           access : {"NONE", "READ", "WRITE", "READ_WRITE"},
           minSampleRate : Int, maxSampleRate : Int, areaConfigs : Seq(Area)]

GlobalTest == {"testInfoVinMakeModel", "testGlobalFloatProperties",
               "testGlobalBoolProperties", "testGlobalEnumProperties"}
Test == GlobalTest \cup
    {"testListProperties", "testVehicleStaticProps", "testPropertyRanges", "testEngineOilTemp"}

StatusCode == {"OK", "ACCESS_DENIED", "INVALID_ARG"}

Looks == 5   \* range(5)

ASSUME PropertyAssumption ==
    /\ TypeOf \in [Prop -> Type]
    /\ Listings \subseteq Seq(Config)
    /\ Answers \subseteq Answer
    /\ NoValue \notin Answer \cup Prop
    /\ \A t \in GlobalTest : DOMAIN Expected[t] \subseteq Prop

VARIABLES
    test,        \* the test that runs, fixed
    config,      \* propToConfig, fixed
    pc,          \* where the test is, or how it ended
    todo,        \* the properties its loop has still to come to
    cur,         \* the property it is at
    at,          \* the area of it that is next, a position in areaConfigs
    areasFound,  \* the zones of the areas before
    subscribed,  \* ENGINE_OIL_TEMP is subscribed
    called,      \* the callback counters that are not zero
    looks,       \* how often the counters were looked at
    seen,        \* history: what was read, <<property, area, answer>>
    sets,        \* history: the status of sets, <<property, status>>
    heard        \* history: callbacks, each with the looks before it

fixed == <<test, config>>
oil == <<subscribed, called, looks, heard>>
vars == <<test, config, pc, todo, cur, at, areasFound, oil, seen, sets>>

Ended == pc \in {"passed", "failed", "error"}

\* self.propToConfig[config['prop']] = config: the last one counts.
PropToConfig(list) ==
    LET last(p) == CHOOSE k \in DOMAIN list :
            /\ list[k].prop = p
            /\ \A l \in DOMAIN list : list[l].prop = p => l <= k
    IN  [p \in {list[k].prop : k \in DOMAIN list} |-> list[last(p)]]

Init ==
    /\ test \in Test
    /\ \E list \in Listings : config = PropToConfig(list)
    /\ pc = "loop"
    /\ todo = IF test \in GlobalTest THEN DOMAIN Expected[test] ELSE DOMAIN config
    /\ cur = NoValue
    /\ at = 1
    /\ areasFound = {}
    /\ subscribed = FALSE
    /\ called = {}
    /\ looks = 0
    /\ seen = {}
    /\ sets = {}
    /\ heard = {}

-----------------------------------------------------------------------------
(* What the tests compute.                                                 *)

\* c["prop"] & VehiclePropertyType.BOOLEAN != 0: any type that has the bit.
HasBooleanBit(p) == TypeBits[TypeOf[p]] \cap TypeBits["BOOLEAN"] # {}

Readable(c) == c.access \in {"READ", "READ_WRITE"}

RatesOk(c) ==
    c.changeMode = "CONTINUOUS" =>
        c.minSampleRate >= 0 /\ 0 < c.maxSampleRate /\ c.minSampleRate <= c.maxSampleRate

\* The `continue`s of testPropertyRanges.
RangeSkipped(c) ==
    \/ HasBooleanBit(c.prop)
    \/ ~Readable(c)
    \/ c.prop \in EnumProps \cup UnitProps

Ordered(area) == \A t \in ValueType : area.min[t] <= area.max[t]

InBounds(area, value) ==
    \A t \in ValueType : \A k \in DOMAIN value[t] :
        area.min[t] <= value[t][k] /\ value[t][k] <= area.max[t]

\* extractValue: which part of a value holds what, ...
Field(type) ==
    CASE type = "STRING"                            -> "stringValue"
      [] type \in {"BOOLEAN", "INT32", "INT32_VEC"} -> "int32Values"
      [] type = "INT64"                             -> "int64Values"
      [] type \in {"FLOAT", "FLOAT_VEC"}            -> "floatValues"
      [] OTHER                                      -> "bytes"

\* ... how many numbers there must be in it, ...
Extractable(type, value) ==
    LET length == Len(value[Field(type)])
    IN  CASE type \in {"BOOLEAN", "INT32", "INT64", "FLOAT"} -> length = 1
          [] type \in {"INT32_VEC", "FLOAT_VEC", "BYTES"}    -> length > 0
          [] OTHER                                           -> TRUE

\* ... and what Python makes of it: a long, a list and a whole value are none
\* of the three types the tests ask for.
PyType(type) ==
    CASE type = "STRING"               -> "str"
      [] type \in {"BOOLEAN", "INT32"} -> "int"
      [] type = "FLOAT"                -> "float"
      [] OTHER                         -> "other"

\* assertValueInRangeForProp and assertIntValueInRangeForProp.
InRange(expected, x) == x \in expected.valid

\* Mutant: the property of the answer is not compared.
GlobalOutcomeMutant(p, answer) ==
    LET expected == Expected[test][p]
        type     == TypeOf[p]
    IN  IF \/ answer = NoValue
           \/ ~Extractable(type, answer.value)
           \/ PyType(type) # expected.py
        THEN "failed"
        ELSE IF expected.py = "str" \/ InRange(expected, answer.value[Field(type)][1])
        THEN "loop"
        ELSE IF expected.py = "float" THEN "error" ELSE "failed"

\* How a global test goes on with an answer.  Out of range, assertLessOrEqual
\* calls `fail`, which is defined nowhere.
GlobalOutcome(p, answer) ==
    LET expected == Expected[test][p]
        type     == TypeOf[p]
    IN  IF \/ answer = NoValue
           \/ answer.prop # p
           \/ ~Extractable(type, answer.value)
           \/ PyType(type) # expected.py
        THEN "failed"
        ELSE IF expected.py = "str" \/ InRange(expected, answer.value[Field(type)][1])
        THEN "loop"
        ELSE IF expected.py = "float" THEN "error" ELSE "failed"

-----------------------------------------------------------------------------
(* The loops over properties.                                              *)

ListProperties ==
    /\ pc = "loop"
    /\ test = "testListProperties"
    /\ pc' = IF DOMAIN config # {} THEN "passed" ELSE "failed"
    /\ UNCHANGED <<fixed, todo, cur, at, areasFound, oil, seen, sets>>

\* The areas of the property the test is at.
Areas == config[cur].areaConfigs

Take(p) ==
    /\ pc = "loop"
    /\ p \in todo
    /\ todo' = todo \ {p}
    /\ cur' = p

\* Mutant: the access of a static property is not asserted.
TakeStaticMutant(p) ==
    /\ test = "testVehicleStaticProps"
    /\ Take(p)
    /\ pc' = IF (config[p].changeMode = "STATIC") # (p \in StaticProps) THEN "failed"
             ELSE IF p \in StaticProps THEN "areas" ELSE "loop"
    /\ at' = 1
    /\ UNCHANGED <<fixed, areasFound, oil, seen, sets>>

\* testVehicleStaticProps: static in the list and in the configuration, or in
\* neither.
TakeStatic(p) ==
    /\ test = "testVehicleStaticProps"
    /\ Take(p)
    /\ pc' = IF \/ (config[p].changeMode = "STATIC") # (p \in StaticProps)
                \/ p \in StaticProps /\ config[p].access # "READ"
             THEN "failed"
             ELSE IF p \in StaticProps THEN "areas" ELSE "loop"
    /\ at' = 1
    /\ UNCHANGED <<fixed, areasFound, oil, seen, sets>>

\* Without a value the next line subscripts None.
ReadStatic(answer) ==
    /\ test = "testVehicleStaticProps"
    /\ pc = "areas"
    /\ at \in DOMAIN Areas
    /\ seen' = seen \cup {<<cur, Areas[at].areaId, answer>>}
    /\ pc' = IF answer = NoValue THEN "error"
             ELSE IF answer.prop # cur THEN "failed" ELSE "set"
    /\ UNCHANGED <<fixed, todo, cur, at, areasFound, oil, sets>>

\* setVhalProperty with expectedStatus ACCESS_DENIED and no area: what was read
\* of any area is written to the global one.
SetStatic(status) ==
    /\ pc = "set"
    /\ sets' = sets \cup {<<cur, status>>}
    /\ pc' = IF status = "ACCESS_DENIED" THEN "areas" ELSE "failed"
    /\ at' = at + 1
    /\ UNCHANGED <<fixed, todo, cur, areasFound, oil, seen>>

\* Mutant: the zones found are not forgotten between two properties.
TakeRangeMutant(p) ==
    /\ test = "testPropertyRanges"
    /\ Take(p)
    /\ pc' = IF ~RatesOk(config[p]) THEN "failed"
             ELSE IF RangeSkipped(config[p]) THEN "loop" ELSE "areas"
    /\ at' = 1
    /\ UNCHANGED <<fixed, areasFound, oil, seen, sets>>

\* testPropertyRanges, down to the loop over areas.
TakeRange(p) ==
    /\ test = "testPropertyRanges"
    /\ Take(p)
    /\ pc' = IF ~RatesOk(config[p]) THEN "failed"
             ELSE IF RangeSkipped(config[p]) THEN "loop" ELSE "areas"
    /\ at' = 1
    /\ areasFound' = {}
    /\ UNCHANGED <<fixed, oil, seen, sets>>

\* An area is told to be wrong by its configuration.
AreaWrong(area) == areasFound \cap area.areaId # {} \/ ~Ordered(area)

RejectArea ==
    /\ test = "testPropertyRanges"
    /\ pc = "areas"
    /\ at \in DOMAIN Areas
    /\ AreaWrong(Areas[at])
    /\ pc' = "failed"
    /\ UNCHANGED <<fixed, todo, cur, at, areasFound, oil, seen, sets>>

\* Mutant: the zones of the area are not noted.
ReadAreaMutant(answer) ==
    /\ test = "testPropertyRanges"
    /\ pc = "areas"
    /\ at \in DOMAIN Areas
    /\ ~AreaWrong(Areas[at])
    /\ seen' = seen \cup {<<cur, Areas[at].areaId, answer>>}
    /\ pc' = IF answer # NoValue => InBounds(Areas[at], answer.value)
             THEN "areas" ELSE "failed"
    /\ at' = at + 1
    /\ UNCHANGED <<fixed, todo, cur, areasFound, oil, sets>>

\* "Some values may not be available, which is not an error."
ReadArea(answer) ==
    /\ test = "testPropertyRanges"
    /\ pc = "areas"
    /\ at \in DOMAIN Areas
    /\ ~AreaWrong(Areas[at])
    /\ seen' = seen \cup {<<cur, Areas[at].areaId, answer>>}
    /\ pc' = IF answer # NoValue => InBounds(Areas[at], answer.value)
             THEN "areas" ELSE "failed"
    /\ at' = at + 1
    /\ areasFound' = areasFound \cup Areas[at].areaId
    /\ UNCHANGED <<fixed, todo, cur, oil, sets>>

EndOfAreas ==
    /\ pc = "areas"
    /\ at \notin DOMAIN Areas
    /\ pc' = "loop"
    /\ UNCHANGED <<fixed, todo, cur, at, areasFound, oil, seen, sets>>

\* getValueIfPropSupported: a property that is not configured is left out.
TakeGlobal(p, answer) ==
    /\ test \in GlobalTest
    /\ Take(p)
    /\ IF p \in DOMAIN config
       THEN /\ seen' = seen \cup {<<p, {}, answer>>}
            /\ pc' = GlobalOutcome(p, answer)
       ELSE UNCHANGED <<seen, pc>>
    /\ UNCHANGED <<fixed, at, areasFound, oil, sets>>

EndOfProperties ==
    /\ test \notin {"testListProperties", "testEngineOilTemp"}
    /\ pc = "loop"
    /\ todo = {}
    /\ pc' = "passed"
    /\ UNCHANGED <<fixed, todo, cur, at, areasFound, oil, seen, sets>>

-----------------------------------------------------------------------------
(* testEngineOilTemp.                                                      *)

OilRest == <<fixed, todo, cur, at, areasFound, sets>>

OilNotSupported ==
    /\ test = "testEngineOilTemp"
    /\ pc = "loop"
    /\ OilTemp \notin DOMAIN config
    /\ pc' = "passed"
    /\ UNCHANGED <<OilRest, oil, seen>>

ReadOil(answer) ==
    /\ test = "testEngineOilTemp"
    /\ pc = "loop"
    /\ OilTemp \in DOMAIN config
    /\ seen' = seen \cup {<<OilTemp, {}, answer>>}
    /\ pc' = IF answer = NoValue THEN "error"
             ELSE IF \/ Len(answer.value["floatValues"]) # 1
                     \/ answer.value["floatValues"][1] \notin -49 .. 199
             THEN "failed"
             ELSE IF config[OilTemp].changeMode = "CONTINUOUS"
             THEN "subscribe" ELSE "passed"
    /\ UNCHANGED <<OilRest, oil>>

Subscribe(status) ==
    /\ pc = "subscribe"
    /\ subscribed' = (status = "OK")
    /\ pc' = IF status = "OK" THEN "look" ELSE "failed"
    /\ UNCHANGED <<OilRest, called, looks, heard, seen>>

OnPropertyEvent ==
    /\ subscribed
    /\ pc \in {"look", "sleep"}
    /\ called' = called \cup {"onPropertyEvent"}
    /\ heard' = heard \cup {<<"onPropertyEvent", looks>>}
    /\ UNCHANGED <<OilRest, pc, subscribed, looks, seen>>

\* Mutant: the error is counted.
OnPropertySetErrorMutant ==
    /\ subscribed
    /\ pc \in {"look", "sleep"}
    /\ called' = called \cup {"onPropertySetError"}
    /\ heard' = heard \cup {<<"onPropertySetError", looks>>}
    /\ UNCHANGED <<OilRest, pc, subscribed, looks, seen>>

\* onPropertySetError logs `prop` and `area`, which it does not have, and is
\* over before it counts.
OnPropertySetError ==
    /\ subscribed
    /\ pc \in {"look", "sleep"}
    /\ heard' = heard \cup {<<"onPropertySetError", looks>>}
    /\ UNCHANGED <<OilRest, pc, subscribed, called, looks, seen>>

\* Mutant: the test returns without unsubscribing.
LookMutant ==
    /\ pc = "look"
    /\ looks' = looks + 1
    /\ pc' = IF called # {} THEN "passed" ELSE "sleep"
    /\ UNCHANGED <<OilRest, subscribed, called, heard, seen>>

Look ==
    /\ pc = "look"
    /\ looks' = looks + 1
    /\ IF called # {}
       THEN pc' = "passed" /\ subscribed' = FALSE
       ELSE pc' = "sleep" /\ UNCHANGED subscribed
    /\ UNCHANGED <<OilRest, called, heard, seen>>

\* Mutant: one look less.
SleepMutant ==
    /\ pc = "sleep"
    /\ pc' = IF looks < Looks - 1 THEN "look" ELSE "failed"
    /\ UNCHANGED <<OilRest, oil, seen>>

\* After the last second nobody looks any more.
Sleep ==
    /\ pc = "sleep"
    /\ pc' = IF looks < Looks THEN "look" ELSE "failed"
    /\ UNCHANGED <<OilRest, oil, seen>>

-----------------------------------------------------------------------------
Hal == OnPropertyEvent \/ OnPropertySetError

Properties ==
    \/ ListProperties
    \/ \E p \in Prop : TakeStatic(p) \/ TakeRange(p)
    \/ \E answer \in Answers \cup {NoValue} :
          \/ ReadStatic(answer)
          \/ ReadArea(answer)
          \/ \E p \in Prop : TakeGlobal(p, answer)
    \/ \E status \in StatusCode : SetStatic(status)
    \/ RejectArea
    \/ EndOfAreas
    \/ EndOfProperties

Oil ==
    \/ OilNotSupported
    \/ \E answer \in Answers \cup {NoValue} : ReadOil(answer)
    \/ \E status \in StatusCode : Subscribe(status)
    \/ Look
    \/ Sleep

Next == Properties \/ Oil \/ Hal

Spec == Init /\ [][Next]_vars

-----------------------------------------------------------------------------
(* Properties.                                                             *)

TypeOK ==
    /\ test \in Test
    /\ DOMAIN config \subseteq Prop
    /\ \A p \in DOMAIN config : config[p] \in Config /\ config[p].prop = p
    /\ pc \in {"loop", "areas", "set", "subscribe", "look", "sleep",
               "passed", "failed", "error"}
    /\ todo \subseteq Prop
    /\ cur \in Prop \cup {NoValue}
    /\ at \in Nat \ {0}
    /\ areasFound \subseteq Zone
    /\ subscribed \in BOOLEAN
    /\ called \subseteq {"onPropertyEvent"}
    /\ looks \in 0 .. Looks
    /\ seen \subseteq Prop \X (SUBSET Zone) \X (Answers \cup {NoValue})
    /\ sets \subseteq Prop \X StatusCode
    /\ heard \subseteq {"onPropertyEvent", "onPropertySetError"} \X (0 .. Looks)

\* What is meant to hold of the configuration of a static property, and of one
\* that is not.
StaticConfigured(p) ==
    IF p \in StaticProps
    THEN config[p].changeMode = "STATIC" /\ config[p].access = "READ"
    ELSE config[p].changeMode # "STATIC"

\* When the test of static properties has passed, each of them was configured
\* and answered in all its areas as one, was not written to, and none of them
\* with an area has been spared the attempt (lines 390-426).
StaticVouched ==
    pc = "passed" /\ test = "testVehicleStaticProps" =>
        /\ \A p \in DOMAIN config :
              /\ StaticConfigured(p)
              /\ p \in StaticProps =>
                    \A k \in DOMAIN config[p].areaConfigs :
                        /\ \E answer \in Answers :
                              /\ answer.prop = p
                              /\ <<p, config[p].areaConfigs[k].areaId, answer>> \in seen
                        /\ <<p, "ACCESS_DENIED">> \in sets
        /\ \A s \in sets : s[2] = "ACCESS_DENIED"

\* The test has asked for a value of the property.
LookedAt(p) == \E r \in seen : r[1] = p

Overlap(list) ==
    \E k, l \in DOMAIN list : k < l /\ list[k].areaId \cap list[l].areaId # {}

\* When the range test has passed, every property had sensible rates, and of no
\* property, whatever its type, only a part was checked: once an area of it was
\* read all were, they have no zone in common and no bounds mixed up, and no
\* number outside of its area's bounds was tolerated (lines 428-529).  A value
\* that is not available is no reason to leave the areas behind it out (lines
\* 507-509).  Which properties are read at all is not said here: the bit test of
\* line 469 leaves out more than the Boolean ones its comment speaks of.
RangesVouched ==
    pc = "passed" /\ test = "testPropertyRanges" =>
        \A p \in DOMAIN config :
            LET list == config[p].areaConfigs
            IN  /\ RatesOk(config[p])
                /\ LookedAt(p) =>
                      /\ ~Overlap(list)
                      /\ \A k \in DOMAIN list :
                            /\ Ordered(list[k])
                            /\ \E answer \in Answers \cup {NoValue} :
                                  /\ <<p, list[k].areaId, answer>> \in seen
                                  /\ answer # NoValue => InBounds(list[k], answer.value)

\* A value a global test accepts.
Accepted(p, answer) ==
    /\ answer # NoValue
    /\ answer.prop = p
    /\ Extractable(TypeOf[p], answer.value)
    /\ PyType(TypeOf[p]) = Expected[test][p].py
    /\ Expected[test][p].py # "str" =>
          InRange(Expected[test][p], answer.value[Field(TypeOf[p])][1])

\* When a global test has passed, every property of its table that the car has
\* was read, and its value was its own, of its type and in its range
\* (lines 531-605).
GlobalsVouched ==
    pc = "passed" /\ test \in GlobalTest =>
        \A p \in DOMAIN Expected[test] \cap DOMAIN config :
            \E answer \in Answers : <<p, {}, answer>> \in seen /\ Accepted(p, answer)

\* A test of properties fails only for a cause in the configuration or in an
\* answer: what is left over from one property is not held against another
\* (lines 407-426, 456-529).
FailuresJustified ==
    pc \in {"failed", "error"} =>
        /\ test = "testListProperties" => DOMAIN config = {}
        /\ test = "testVehicleStaticProps" =>
              \/ \E p \in DOMAIN config : ~StaticConfigured(p)
              \/ \E r \in seen : r[3] = NoValue \/ r[3].prop # r[1]
              \/ \E s \in sets : s[2] # "ACCESS_DENIED"
        /\ test = "testPropertyRanges" =>
              \E p \in DOMAIN config :
                  LET list == config[p].areaConfigs
                  IN  \/ ~RatesOk(config[p])
                      \/ Overlap(list)
                      \/ \E k \in DOMAIN list :
                            \/ ~Ordered(list[k])
                            \/ \E answer \in Answers :
                                  /\ <<p, list[k].areaId, answer>> \in seen
                                  /\ ~InBounds(list[k], answer.value)
        /\ test \in GlobalTest =>
              \E r \in seen : ~Accepted(r[1], r[3])

\* A test of the oil temperature that has waited passes only when a callback has
\* come, and never fails when an event has come before its last look
\* (lines 689-697, 734-741).  What comes later, and errors, are for OilInTime.
OilVerdict ==
    /\ pc = "passed" /\ looks > 0 => heard # {}
    /\ pc = "failed" => \A n \in 0 .. Looks - 1 : <<"onPropertyEvent", n>> \notin heard

\* "Callback not called in 5 seconds." (line 741), where either callback is to
\* count (lines 735-736): a test that fails after its five seconds has heard
\* neither of them.
OilInTime == pc = "failed" /\ looks = Looks => heard = {}

\* The oil temperature stays subscribed only after the test has waited in vain
\* (lines 730-741).
LeftSubscribed ==
    Ended /\ subscribed => pc = "failed" /\ looks = Looks
=============================================================================
