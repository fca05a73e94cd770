---------------------------- MODULE FreezeFrames ----------------------------
(***************************************************************************)
(* The OBD2 freeze frame tests of the vehicle HAL's host test: they ask    *)
(* for the timestamps of the stored frames once and then read, or clear    *)
(* and read, one frame after the other, while the car may record new       *)
(* frames that overwrite old ones at any moment.                           *)
(*                                                                         *)
(* The HAL may answer anything.  "lied" keeps in which of its operations   *)
(* it has said or done what a HAL that keeps its promises would not.       *)
(***************************************************************************)
EXTENDS Naturals

CONSTANTS
    MaxStamp,  \* bound: the latest timestamp of a frame
    Invalid,   \* the timestamps the tests take for invalid: 0 and 482005800
    NoValue    \* None, in place of a value

FrameStamp == 1 .. MaxStamp
Stamp == FrameStamp \cup Invalid

\* The tests, each with the properties it needs.
Test == {"readValid", "readInvalid", "clearValid", "clearInvalid"}
Property == {"info", "frame", "clear"}
Needed(t) ==
    CASE t = "readValid"    -> {"info", "frame"}
      [] t = "readInvalid"  -> {"frame"}
      [] t = "clearValid"   -> {"info", "frame", "clear"}
      [] t = "clearInvalid" -> {"clear"}

StatusCode == {"OK", "INVALID_ARG", "INTERNAL_ERROR"}

\* No frame has a timestamp the tests take for invalid.
ASSUME FrameAssumption ==
    /\ MaxStamp \in Nat
    /\ Invalid \subseteq Nat
    /\ Invalid \cap FrameStamp = {}
    /\ NoValue \notin Nat

VARIABLES
    test,       \* the test that runs, fixed
    supported,  \* the properties the HAL has, fixed
    frames,     \* the timestamps of the frames the car has stored
    now,        \* the timestamp of the next frame
    pc,         \* where the test is
    listed,     \* timestamps, as they were given
    todo,       \* those the loop has not taken yet
    stamp,      \* the one it is at
    lied        \* history: the operations in which the HAL broke a promise

vars == <<test, supported, frames, now, pc, listed, todo, stamp, lied>>
fixed == <<test, supported>>

-----------------------------------------------------------------------------
Init ==
    /\ test \in Test
    /\ supported \in SUBSET Property
    /\ now \in 1 .. MaxStamp
    /\ frames \in SUBSET (1 .. now - 1)
    /\ pc = "start"
    /\ listed = {}
    /\ todo = {}
    /\ stamp = 0
    /\ lied = {}

\* The car records a frame, over any of the others.
Record ==
    /\ now \in FrameStamp
    /\ \E kept \in SUBSET frames : frames' = kept \cup {now}
    /\ now' = now + 1
    /\ UNCHANGED <<fixed, pc, listed, todo, stamp, lied>>

-----------------------------------------------------------------------------
(* What a HAL that keeps its promises does.                                *)

Honest(operation, kept) == lied' = IF kept THEN lied ELSE lied \cup {operation}

\* IVehicle.get of a frame: the frame, or nothing and INVALID_ARG.
GetKept(status, value) ==
    IF stamp \in frames THEN status = "OK" /\ value = stamp
    ELSE status = "INVALID_ARG" /\ value = NoValue

\* IVehicle.set of the clear property: the frame is removed, or there is none.
SetKept(status) ==
    /\ frames' = frames \ {stamp}
    /\ status = IF stamp \in frames THEN "OK" ELSE "INVALID_ARG"

-----------------------------------------------------------------------------
(* The tests.                                                              *)

\* A property is missing: there is nothing to test.
NotSupported ==
    /\ pc = "start"
    /\ ~(Needed(test) \subseteq supported)
    /\ pc' = "passed"
    /\ UNCHANGED <<fixed, frames, now, listed, todo, stamp, lied>>

\* invalidTimestamps.
TakeInvalid ==
    /\ pc = "start"
    /\ test \in {"readInvalid", "clearInvalid"}
    /\ Needed(test) \subseteq supported
    /\ listed' = Invalid
    /\ todo' = Invalid
    /\ pc' = "loop"
    /\ UNCHANGED <<fixed, frames, now, stamp, lied>>

\* Mutant: the invalid timestamps are taken along.
ReadInfoMutant ==
    /\ pc = "start"
    /\ test \in {"readValid", "clearValid"}
    /\ Needed(test) \subseteq supported
    /\ \E stamps \in SUBSET FrameStamp :
          /\ listed' = stamps
          /\ todo' = stamps \cup Invalid
          /\ Honest("info", stamps = frames)
    /\ pc' = "loop"
    /\ UNCHANGED <<fixed, frames, now, stamp>>

\* infoCheckRead(): the timestamps of this moment, ...
ReadInfo ==
    /\ pc = "start"
    /\ test \in {"readValid", "clearValid"}
    /\ Needed(test) \subseteq supported
    /\ \E stamps \in SUBSET FrameStamp :
          /\ listed' = stamps
          /\ todo' = stamps
          /\ Honest("info", stamps = frames)
    /\ pc' = "loop"
    /\ UNCHANGED <<fixed, frames, now, stamp>>

\* ... or a failed assertion on status, value or property.
ReadInfoFails ==
    /\ pc = "start"
    /\ test \in {"readValid", "clearValid"}
    /\ Needed(test) \subseteq supported
    /\ Honest("info", FALSE)
    /\ pc' = "failed"
    /\ UNCHANGED <<fixed, frames, now, listed, todo, stamp>>

NextStamp(s) ==
    /\ pc = "loop"
    /\ s \in todo
    /\ todo' = todo \ {s}
    /\ stamp' = s
    /\ pc' = IF test \in {"clearValid", "clearInvalid"} THEN "set" ELSE "get"
    /\ UNCHANGED <<fixed, frames, now, listed, lied>>

EndOfStamps ==
    /\ pc = "loop"
    /\ todo = {}
    /\ pc' = "passed"
    /\ UNCHANGED <<fixed, frames, now, listed, todo, stamp, lied>>

\* Mutant: a frame that was listed must still be there to be cleared.
SetAcceptedMutant(status) == status = IF test = "clearInvalid" THEN "INVALID_ARG" ELSE "OK"

\* validateSet: a frame the car has overwritten in the meantime is no failure.
SetAccepted(status) ==
    IF test = "clearInvalid" THEN status = "INVALID_ARG"
    ELSE status \in {"OK", "INVALID_ARG"}

\* FreezeFrameClearCheckWrite: the HAL may clear the frame or not, and say what
\* it likes; a test that clears valid frames reads next.
Clear ==
    /\ pc = "set"
    /\ \E status \in StatusCode :
          /\ frames' \in {frames, frames \ {stamp}}
          /\ Honest("set", SetKept(status))
          /\ pc' = IF ~SetAccepted(status) THEN "failed"
                   ELSE IF test = "clearValid" THEN "get"
                   ELSE "loop"
    /\ UNCHANGED <<fixed, now, listed, todo, stamp>>

\* Mutant: any answer without a value is good for a cleared frame, and for an
\* invalid one.
GetAcceptedMutant(status, value) ==
    IF test = "readValid"
    THEN value = NoValue \/ (status = "OK" /\ value = stamp)
    ELSE status \in {"OK", "INVALID_ARG"}

\* validateGet.
GetAccepted(status, value) ==
    IF test = "readValid"
    THEN value = NoValue \/ (status = "OK" /\ value = stamp)
    ELSE status = "INVALID_ARG"

\* FreezeFrameCheckRead; a value of another property counts as another stamp.
Read ==
    /\ pc = "get"
    /\ \E status \in StatusCode, value \in Stamp \cup {NoValue} :
          /\ Honest("get", GetKept(status, value))
          /\ pc' = IF GetAccepted(status, value) THEN "loop" ELSE "failed"
    /\ UNCHANGED <<fixed, frames, now, listed, todo, stamp>>

-----------------------------------------------------------------------------
Next ==
    \/ Record
    \/ NotSupported \/ TakeInvalid \/ ReadInfo \/ ReadInfoFails
    \/ \E s \in Stamp : NextStamp(s)
    \/ EndOfStamps \/ Clear \/ Read

Spec == Init /\ [][Next]_vars

-----------------------------------------------------------------------------
(* Properties.                                                             *)

TypeOK ==
    /\ test \in Test
    /\ supported \subseteq Property
    /\ frames \subseteq FrameStamp
    /\ now \in 1 .. MaxStamp + 1
    /\ pc \in {"start", "loop", "set", "get", "passed", "failed"}
    /\ listed \subseteq Stamp
    /\ todo \subseteq listed
    /\ stamp \in Stamp \cup {0}
    /\ lied \subseteq {"info", "set", "get"}

\* A HAL that keeps its promises is not failed, however many frames the car
\* records between the list and the last access (lines 907-913, 944-946,
\* 975-980, 994-996, 1030-1034).
NoFalseAlarm == pc = "failed" => lied # {}

\* The test for clearing says of itself that "after deleting a frame, trying to
\* read at its timestamp, will not be successful" (lines 960-962).  When it has
\* passed, none of the frames it was given is stored any more, even if the HAL
\* is one that does not clear them, or reports success for nothing: only
\* answers to get, or to the list, have to be true for that.
ClearedIsGone ==
    pc = "passed" /\ test = "clearValid" /\ lied \cap {"info", "get"} = {} =>
        listed \cap frames = {}
=============================================================================
