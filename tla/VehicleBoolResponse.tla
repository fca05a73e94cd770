------------------------- MODULE VehicleBoolResponse -------------------------
(***************************************************************************)
(* testSetBoolPropResponseTime of the vehicle HAL's host test: for every   *)
(* writable on-change Boolean property it subscribes, toggles the property *)
(* in each of its areas, and polls a flag the callbacks set.               *)
(*                                                                         *)
(* The test's thread runs against the vehicle HAL, which changes           *)
(* properties on its own too and whose callbacks come in another thread,   *)
(* at any moment and also after an unsubscribe.  One flag, _arrived, is    *)
(* shared by all the properties and areas.                                 *)
(* The calls of the test to the HAL are synchronous and have no timeout.    *)
(***************************************************************************)
EXTENDS Naturals, FiniteSets

CONSTANTS
    Prop,         \* the properties of configList
    Eligible,     \* those that are READ_WRITE, ON_CHANGE and of Boolean type
    Area,         \* area ids
    AreaConfigs,  \* the areas each property is configured for
    CheckTimes,   \* how often the flag is looked at, once a second
    None          \* no property, no area

\* What the HAL keeps a value for.
Zone == {z \in Prop \X Area : z[2] \in AreaConfigs[z[1]]}

ASSUME BoolAssumption ==
    /\ Eligible \subseteq Prop
    /\ AreaConfigs \in [Prop -> SUBSET Area]
    /\ CheckTimes \in Nat \ {0}
    /\ None \notin Prop \cup Area

VARIABLES
    pc,         \* where the test is
    prop,       \* the property of the outer loop
    area,       \* the area of the inner loop
    todoProps,  \* configurations the outer loop has still to visit
    todoAreas,  \* areas the inner loop has still to visit
    newVal,     \* the value the test is about to set
    arrived,    \* self._arrived
    checks,     \* how often the flag has been looked at for this area
    passed,     \* the <<property, area>> that got past the check
    value,      \* the HAL: the property values
    subs,       \* the HAL: the subscribed properties
    inflight,   \* properties with a callback on its way to the test
    heard,      \* history: a callback of the property came since it was taken up,
                \* or since its previous area passed
    mute        \* history: the HAL accepted a set of this property, changed
                \* nothing and told nobody

testVars == <<pc, prop, area, todoProps, todoAreas, newVal, checks, passed>>
vars == <<pc, prop, area, todoProps, todoAreas, newVal, checks, passed,
          arrived, value, subs, inflight, heard, mute>>

Ended == {"passed", "failed", "rejected", "error"}

Init ==
    /\ pc = "props"
    /\ prop = None
    /\ area = None
    /\ todoProps = Prop
    /\ todoAreas = {}
    /\ newVal = 0
    /\ arrived = FALSE
    /\ checks = 0
    /\ passed = {}
    /\ value \in [Zone -> {0, 1}]
    /\ subs = {}
    /\ inflight = {}
    /\ heard = FALSE
    /\ mute = FALSE

-----------------------------------------------------------------------------
(* The HAL and its callback thread.                                        *)

\* A change of a property is reported to its subscriber.
Notify(p) == inflight' = IF p \in subs THEN inflight \cup {p} ELSE inflight

\* The car changes a property on its own.
CarChanges(p, a) ==
    /\ value' = [value EXCEPT ![<<p, a>>] = 1 - @]
    /\ Notify(p)
    /\ UNCHANGED <<testVars, arrived, subs, heard, mute>>

\* onPropertyEvent or onPropertySetError: either sets the flag, whatever
\* Boolean property and area it is for.
Deliver(p) ==
    /\ p \in inflight
    /\ inflight' = inflight \ {p}
    /\ arrived' = TRUE
    /\ heard' = (heard \/ p = prop)
    /\ UNCHANGED <<testVars, value, subs, mute>>

\* The test is about to call the HAL: subscribe, readVhalProperty, set or
\* unsubscribe.
Calls ==
    \/ pc \in {"subscribe", "set"}
    \/ pc = "areas" /\ todoAreas # {}
    \/ pc = "poll" /\ arrived

\* The HAL never answers the call.  None of the calls has a timeout, so the
\* test stays in it for good.
CallHangs ==
    /\ Calls
    /\ pc' = "hung"
    /\ UNCHANGED <<prop, area, todoProps, todoAreas, newVal, checks, passed,
                   arrived, value, subs, inflight, heard, mute>>

-----------------------------------------------------------------------------
(* The test.                                                               *)

\* The loop over configList leaves out what is not a writable on-change
\* Boolean property.
SkipProp(p) ==
    /\ pc = "props"
    /\ p \in todoProps \ Eligible
    /\ todoProps' = todoProps \ {p}
    /\ UNCHANGED <<pc, prop, area, todoAreas, newVal, checks, passed,
                   arrived, value, subs, inflight, heard, mute>>

\* The flag is cleared for the property, before it is subscribed.
NextProp(p) ==
    /\ pc = "props"
    /\ p \in todoProps \cap Eligible
    /\ todoProps' = todoProps \ {p}
    /\ prop' = p
    /\ todoAreas' = AreaConfigs[p]
    /\ arrived' = FALSE
    /\ heard' = FALSE
    /\ mute' = FALSE
    /\ pc' = "subscribe"
    /\ UNCHANGED <<area, newVal, checks, passed, value, subs, inflight>>

\* subscribe, and the assertion on its status.
Subscribe ==
    /\ pc = "subscribe"
    /\ \/ /\ subs' = subs \cup {prop}
          /\ pc' = "areas"
       \/ /\ UNCHANGED subs
          /\ pc' = "rejected"
    /\ UNCHANGED <<prop, area, todoProps, todoAreas, newVal, checks, passed,
                   arrived, value, inflight, heard, mute>>

\* readVhalProperty of the next area: the new value is the other one, and a
\* failed read gives None, on which the next line raises a TypeError.
Read(a) ==
    /\ pc = "areas"
    /\ a \in todoAreas
    /\ todoAreas' = todoAreas \ {a}
    /\ area' = a
    /\ \/ /\ newVal' = 1 - value[<<prop, a>>]
          /\ pc' = "set"
       \/ /\ UNCHANGED newVal
          /\ pc' = "error"
    /\ UNCHANGED <<prop, todoProps, checks, passed, arrived, value, subs,
                   inflight, heard, mute>>

\* Mutant: the flag is cleared right before the polling, as a hasty repair of
\* the shared flag would.
SetAcceptedMutant ==
    /\ pc = "set"
    /\ pc' = "poll"
    /\ checks' = 0
    /\ arrived' = FALSE
    /\ \/ /\ value' = [value EXCEPT ![<<prop, area>>] = newVal]
          /\ IF value[<<prop, area>>] # newVal THEN Notify(prop) ELSE UNCHANGED inflight
          /\ UNCHANGED mute
       \/ Notify(prop) /\ UNCHANGED <<value, mute>>
       \/ mute' = TRUE /\ UNCHANGED <<value, inflight>>
    /\ UNCHANGED <<prop, area, todoProps, todoAreas, newVal, passed, subs, heard>>

\* vehicle.set is accepted; the HAL reports the change if there is one, or
\* reports an error, or does neither.
SetAccepted ==
    /\ pc = "set"
    /\ pc' = "poll"
    /\ checks' = 0
    /\ \/ /\ value' = [value EXCEPT ![<<prop, area>>] = newVal]
          /\ IF value[<<prop, area>>] # newVal THEN Notify(prop) ELSE UNCHANGED inflight
          /\ UNCHANGED mute
       \/ Notify(prop) /\ UNCHANGED <<value, mute>>
       \/ mute' = TRUE /\ UNCHANGED <<value, inflight>>
    /\ UNCHANGED <<prop, area, todoProps, todoAreas, newVal, passed, arrived, subs,
                   heard>>

\* vehicle.set is refused: a warning, and "continue" with the next area.
SetRefused ==
    /\ pc = "set"
    /\ pc' = "areas"
    /\ UNCHANGED <<prop, area, todoProps, todoAreas, newVal, checks, passed,
                   arrived, value, subs, inflight, heard, mute>>

\* Mutant: one round too many.
SleepOnceMoreMutant ==
    /\ pc = "poll"
    /\ checks <= CheckTimes
    /\ ~arrived
    /\ checks' = checks + 1
    /\ UNCHANGED <<pc, prop, area, todoProps, todoAreas, newVal, passed,
                   arrived, value, subs, inflight, heard, mute>>

\* Mutant: the rounds are not counted.
SleepForeverMutant ==
    /\ pc = "poll"
    /\ ~arrived
    /\ UNCHANGED vars

\* One round of the polling loop finds the flag clear and sleeps a second.
Sleep ==
    /\ pc = "poll"
    /\ checks < CheckTimes
    /\ ~arrived
    /\ checks' = checks + 1
    /\ UNCHANGED <<pc, prop, area, todoProps, todoAreas, newVal, passed,
                   arrived, value, subs, inflight, heard, mute>>

\* Mutant: the property stays subscribed.
CheckPassedMutant ==
    /\ pc = "poll"
    /\ arrived
    /\ passed' = passed \cup {<<prop, area>>}
    /\ heard' = FALSE
    /\ pc' = "areas"
    /\ UNCHANGED <<prop, area, todoProps, todoAreas, newVal, checks,
                   arrived, value, subs, inflight, mute>>

\* The flag is set, in the loop or when looked at once more after it; the
\* property is unsubscribed, once for each area that gets here.
CheckPassed ==
    /\ pc = "poll"
    /\ arrived
    /\ passed' = passed \cup {<<prop, area>>}
    /\ subs' = subs \ {prop}
    /\ heard' = FALSE
    /\ pc' = "areas"
    /\ UNCHANGED <<prop, area, todoProps, todoAreas, newVal, checks,
                   arrived, value, inflight, mute>>

\* Mutant: the flag as the last round saw it decides.
CheckFailedMutant ==
    /\ pc = "poll"
    /\ checks = CheckTimes
    /\ pc' = "failed"
    /\ UNCHANGED <<prop, area, todoProps, todoAreas, newVal, checks, passed,
                   arrived, value, subs, inflight, heard, mute>>

CheckFailed ==
    /\ pc = "poll"
    /\ checks = CheckTimes
    /\ ~arrived
    /\ pc' = "failed"
    /\ UNCHANGED <<prop, area, todoProps, todoAreas, newVal, checks, passed,
                   arrived, value, subs, inflight, heard, mute>>

\* The areas of the property are done.
EndAreas ==
    /\ pc = "areas"
    /\ todoAreas = {}
    /\ pc' = "props"
    /\ UNCHANGED <<prop, area, todoProps, todoAreas, newVal, checks, passed,
                   arrived, value, subs, inflight, heard, mute>>

EndProps ==
    /\ pc = "props"
    /\ todoProps = {}
    /\ pc' = "passed"
    /\ UNCHANGED <<prop, area, todoProps, todoAreas, newVal, checks, passed,
                   arrived, value, subs, inflight, heard, mute>>

-----------------------------------------------------------------------------
Test ==
    \/ \E p \in Prop : SkipProp(p) \/ NextProp(p)
    \/ Subscribe
    \/ \E a \in Area : Read(a)
    \/ SetAccepted \/ SetRefused
    \/ Sleep \/ CheckPassed \/ CheckFailed
    \/ EndAreas \/ EndProps

Hal == \E p \in Prop : Deliver(p) \/ \E a \in AreaConfigs[p] : CarChanges(p, a)

Next == Test \/ Hal \/ CallHangs

Spec == Init /\ [][Next]_vars

\* The test's thread goes on from where it is, unless the HAL leaves it in a
\* call.  Nothing is asked of the HAL: it need neither deliver a callback nor
\* answer a call (CallHangs may be taken at any call).
FairSpec == Spec /\ WF_vars(Test)

-----------------------------------------------------------------------------
(* Properties.                                                             *)

TypeOK ==
    /\ pc \in {"props", "subscribe", "areas", "set", "poll", "hung"} \cup Ended
    /\ prop \in Prop \cup {None}
    /\ area \in Area \cup {None}
    /\ todoProps \subseteq Prop
    /\ todoAreas \subseteq Area
    /\ newVal \in {0, 1}
    /\ arrived \in BOOLEAN
    /\ checks \in 0 .. CheckTimes
    /\ passed \subseteq Prop \X Area
    /\ value \in [Zone -> {0, 1}]
    /\ subs \subseteq Prop
    /\ inflight \subseteq Prop
    /\ heard \in BOOLEAN
    /\ mute \in BOOLEAN

GivesUp == pc # "failed" /\ pc' = "failed"

\* A HAL that tells of every change within the time given is never failed: when
\* the test gives up, no callback has come for the area, not even during the
\* last second (lines 376-387), and the reason is that one is still on its way
\* or that the HAL kept silent about a set.  That the value may have changed
\* between read and set does not matter, because that change is reported as
\* well (lines 336-362).
NoFalseAlarm == [][GivesUp => ~heard /\ (mute \/ prop \in inflight)]_vars

\* A property is still subscribed after the test has left it only if none of
\* its areas passed: all sets were refused, or it has no areas
\* (lines 352, 357, 371, 388).
LeakOnlyUnanswered == \A p \in subs : \A a \in Area : <<p, a>> \notin passed

\* The test ends whatever callbacks come or stay away, and however many areas
\* are refused (lines 329-388), unless the HAL never answers one of its calls
\* (lines 352, 358, 368, 388), which have no timeout.
TestEnds == <>(pc \in Ended \cup {"hung"})

\* Line 373 says of each area: "Check callback is received in 5 second".
CallbackReceived == [][passed' # passed => heard]_vars
=============================================================================
