------------------------ MODULE MCVehicleProperties ------------------------
(* VehicleProperties for TLC: a static property, one with areas, one of a  *)
(* bare number, a global float, an enumeration, a truth value and the oil  *)
(* temperature, two or fewer of them configured at a time.                 *)
EXTENDS VehicleProperties, TLC

CONSTANTS vin, seat, odometer, speed, gear, door, oilTemp

Types == vin :> "STRING" @@ seat :> "INT32" @@ odometer :> "INT64" @@ speed :> "FLOAT"
         @@ gear :> "INT32" @@ door :> "BOOLEAN" @@ oilTemp :> "FLOAT"

\* An area whose values go from lo to hi, whatever their type.
A(zones, lo, hi) ==
    [areaId |-> zones, min |-> [t \in ValueType |-> lo], max |-> [t \in ValueType |-> hi]]

C(p, mode, access, rates, list) ==
    [prop |-> p, changeMode |-> mode, access |-> access,
     minSampleRate |-> rates[1], maxSampleRate |-> rates[2], areaConfigs |-> list]

Still == <<0, 0>>

\* Right ones, and for each assertion one that is wrong.
Configs == {
    C(vin,      "STATIC",     "READ",       Still,   <<A({}, 0, 0)>>),
    C(vin,      "STATIC",     "READ_WRITE", Still,   <<>>),
    C(seat,     "ON_CHANGE",  "READ_WRITE", Still,   <<A({0}, 0, 2), A({2}, 1, 2)>>),
    C(seat,     "ON_CHANGE",  "READ",       Still,   <<A({0, 1}, 0, 2), A({1, 2}, 0, 2)>>),
    C(seat,     "STATIC",     "READ",       Still,   <<A({0}, 2, 0)>>),
    C(odometer, "CONTINUOUS", "READ",       <<0, 1>>, <<A({}, 0, 1), A({}, 0, 2)>>),
    C(odometer, "CONTINUOUS", "READ",       <<2, 1>>, <<>>),
    C(odometer, "ON_CHANGE",  "READ",       Still,   <<A({0}, 0, 2)>>),
    C(odometer, "ON_CHANGE",  "WRITE",      Still,   <<A({1}, 2, 1)>>),
    C(speed,    "CONTINUOUS", "READ",       <<1, 2>>, <<A({}, 0, 1)>>),
    C(gear,     "ON_CHANGE",  "READ",       Still,   <<A({}, 0, 0)>>),
    C(door,     "ON_CHANGE",  "READ",       Still,   <<A({}, 0, 0)>>),
    C(oilTemp,  "CONTINUOUS", "READ",       <<1, 1>>, <<A({}, 0, 1)>>),
    C(oilTemp,  "ON_CHANGE",  "READ",       Still,   <<A({}, 0, 1)>>)}

\* Two, the same one twice among them, one, or none.
SomeListings == {<<>>} \cup {<<c>> : c \in Configs} \cup {<<c, d>> : c, d \in Configs}

V(int32, int64, float) ==
    [f \in ValueType \cup {"bytes", "stringValue"} |->
        CASE f = "int32Values" -> int32 [] f = "int64Values" -> int64
          [] f = "floatValues" -> float [] OTHER -> <<>>]

\* Nothing, one number, two of which one is high, one that is too high anywhere.
SomeValues == {
    V(<<>>, <<>>, <<>>), V(<<1>>, <<>>, <<>>), V(<<1, 3>>, <<>>, <<>>),
    V(<<>>, <<2>>, <<>>), V(<<>>, <<>>, <<1>>), V(<<>>, <<>>, <<200>>)}

SomeAnswers == [prop : {vin, seat, speed, gear}, value : SomeValues]
    \cup [prop : {odometer, door, oilTemp}, value : {V(<<1>>, <<2>>, <<1>>)}]

Table == [t \in GlobalTest |->
    CASE t = "testInfoVinMakeModel" ->
            vin :> [py |-> "str", valid |-> {}]
      [] t = "testGlobalFloatProperties" ->
            speed :> [py |-> "float", valid |-> 0 .. 150]
            @@ oilTemp :> [py |-> "float", valid |-> -50 .. 150]
      [] t = "testGlobalBoolProperties" ->
            door :> [py |-> "int", valid |-> {0, 1}]
      [] OTHER ->
            gear :> [py |-> "int", valid |-> {1, 4}]]
=============================================================================
