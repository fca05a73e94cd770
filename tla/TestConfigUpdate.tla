-------------------------- MODULE TestConfigUpdate --------------------------
(***************************************************************************)
(* update_hal_tests.py with TestCaseCreator.LaunchTestCase: the test       *)
(* configurations of every HAL are generated anew, in place.  The timeout  *)
(* and the framework setting of a test are kept nowhere but in the file    *)
(* that is overwritten, so they are read from it first.                    *)
(*                                                                         *)
(* The script may be interrupted at any point, or end with an exception,   *)
(* and is run again.  The categories of a HAL come in the order of a       *)
(* dictionary, so any order is allowed, across the HALs as well.           *)
(***************************************************************************)
EXTENDS Naturals

CONSTANTS
    Hal,             \* the HALs, each a name and a version
    Timeouts,        \* what test-timeout may be
    DefaultTimeout,  \* "1m"
    NoOption,        \* no test-timeout in a configuration
    Configures,      \* what a configuration may hold at the start
    MaxRuns          \* bound: how often the script is started

Category == {"target", "target_profiling", "host", "host_profiling"}
TestType == {"target", "host"}

\* A configuration as the script reads it.  "disable": the value of
\* binary-test-disable-framework, or "absent".
Configure == [timeout : Timeouts \cup {NoOption}, disable : {"true", "false", "absent"}]

ASSUME UpdateAssumption ==
    /\ DefaultTimeout \in Timeouts
    /\ NoOption \notin Timeouts
    /\ Configures \subseteq Configure
    /\ MaxRuns \in Nat \ {0}

VARIABLES
    original,  \* [Hal \X Category -> Configure]: the files at the start, fixed
    present,   \* the files there were at the start, fixed
    source,    \* the <<hal, type>> whose test source exists, fixed
    dirs,      \* the <<hal, type>> whose test directory exists, fixed
    pc,        \* where the script is
    todo,      \* the <<hal, category>> this run has still to visit
    cur,       \* the one it is at
    timeOut,   \* time_out
    stop,      \* stop_runtime
    exists,    \* the AndroidTest.xml that exist
    conf,      \* what they hold
    torn,      \* the <<directory, file>> opened for writing and not written
    lost,      \* history: the AndroidTest.xml a run left torn
    runs       \* how often the script has been started

fixed == <<original, present, source, dirs>>
files == <<exists, conf, torn, lost>>
vars == <<original, present, source, dirs, pc, todo, cur, timeOut, stop, exists, conf,
          torn, lost, runs>>

-----------------------------------------------------------------------------
\* Mutant: no default.
TimeOutOfMutant(c) == c.timeout

\* GetTimeOut: "1m" unless the file has a test-timeout.
TimeOutOf(c) == IF c.timeout = NoOption THEN DefaultTimeout ELSE c.timeout

\* GetDisableRunTime: the option occurs in the file, whatever its value.
DisableRunTime(c) == c.disable # "absent"

\* test_categories: the profiling categories are of the plain test types, ...
TypeOf(c) == IF c \in {"target", "target_profiling"} THEN "target" ELSE "host"

\* ... and the directory is made from the type: is_profiling plays no part.
TestDir(hc) == <<hc[1], TypeOf(hc[2])>>

\* What an opened and not yet written file holds.
NoOptions == [timeout |-> NoOption, disable |-> "absent"]

\* What CreateAndroidTestXml writes: only a target test says anything of the
\* framework.
Generated ==
    [timeout |-> timeOut,
     disable |-> IF stop /\ TypeOf(cur[2]) = "target" THEN "true" ELSE "absent"]

-----------------------------------------------------------------------------
Init ==
    /\ present \in SUBSET (Hal \X Category)
    /\ original \in {o \in [Hal \X Category -> Configures \cup {NoOptions}] :
                        \A x \in (Hal \X Category) \ present : o[x] = NoOptions}
    /\ dirs \in {d \in SUBSET (Hal \X TestType) : present \cap (Hal \X TestType) \subseteq d}
    /\ source \in {s \in SUBSET (Hal \X TestType) :
                      \A h \in Hal : <<h, "host">> \in s => <<h, "host">> \in dirs}
    /\ pc = "loop"
    /\ todo = Hal \X Category
    /\ cur \in Hal \X {"target"}
    /\ timeOut = DefaultTimeout
    /\ stop = FALSE
    /\ exists = present
    /\ conf = original
    /\ torn = {}
    /\ lost = {}
    /\ runs = 1

-----------------------------------------------------------------------------
(* main.                                                                   *)

\* Mutant: an empty configuration is taken for a missing one.
NoConfigureMutant(x) ==
    /\ pc = "loop"
    /\ x \in todo
    /\ x \notin exists \/ conf[x] = NoOptions
    /\ todo' = todo \ {x}
    /\ UNCHANGED <<fixed, files, pc, cur, timeOut, stop, runs>>

\* The category has no configuration.
NoConfigure(x) ==
    /\ pc = "loop"
    /\ x \in todo \ exists
    /\ todo' = todo \ {x}
    /\ UNCHANGED <<fixed, files, pc, cur, timeOut, stop, runs>>

\* Mutant: the variables keep the previous test's settings.
SettingsMutant(x) ==
    /\ pc = "loop"
    /\ x \in todo \cap exists
    /\ todo' = todo \ {x}
    /\ cur' = x
    /\ timeOut' = IF conf[x].timeout = NoOption THEN timeOut ELSE conf[x].timeout
    /\ stop' = (stop \/ DisableRunTime(conf[x]))
    /\ pc' = "launch"
    /\ UNCHANGED <<fixed, files, runs>>

\* Its settings are read, and LaunchTestCase is called with them.
Settings(x) ==
    /\ pc = "loop"
    /\ x \in todo \cap exists
    /\ todo' = todo \ {x}
    /\ cur' = x
    /\ timeOut' = TimeOutOf(conf[x])
    /\ stop' = DisableRunTime(conf[x])
    /\ pc' = "launch"
    /\ UNCHANGED <<fixed, files, runs>>

EndUpdate ==
    /\ pc = "loop"
    /\ todo = {}
    /\ pc' = "done"
    /\ UNCHANGED <<fixed, files, todo, cur, timeOut, stop, runs>>

-----------------------------------------------------------------------------
(* LaunchTestCase with update_only.                                        *)

\* The source of the test is missing: False, which nobody looks at.
NoSource ==
    /\ pc = "launch"
    /\ TestDir(cur) \notin source
    /\ pc' = "loop"
    /\ UNCHANGED <<fixed, files, todo, cur, timeOut, stop, runs>>

\* There is no directory to update.
NoDirectory ==
    /\ pc = "launch"
    /\ TestDir(cur) \in source \ dirs
    /\ pc' = "loop"
    /\ UNCHANGED <<fixed, files, todo, cur, timeOut, stop, runs>>

Bp == <<TestDir(cur), "bp">>
Xml == <<TestDir(cur), "xml">>

\* CreateAndroidBp: opening for writing empties the file, ...
OpenBp ==
    /\ pc = "launch"
    /\ TestDir(cur) \in source \cap dirs
    /\ torn' = torn \cup {Bp}
    /\ pc' = "bp"
    /\ UNCHANGED <<fixed, exists, conf, lost, todo, cur, timeOut, stop, runs>>

\* ... and its text depends on nothing but the name of the test.
WriteBp ==
    /\ pc = "bp"
    /\ torn' = torn \ {Bp}
    /\ pc' = "specs"
    /\ UNCHANGED <<fixed, exists, conf, lost, todo, cur, timeOut, stop, runs>>

\* Mutant: the file is opened before the imports are known.
HidlGenFailsMutant ==
    /\ pc = "specs"
    /\ pc' = "aborted"
    /\ exists' = exists \cup {TestDir(cur)}
    /\ conf' = [conf EXCEPT ![TestDir(cur)] = NoOptions]
    /\ torn' = torn \cup {Xml}
    /\ UNCHANGED <<fixed, lost, todo, cur, timeOut, stop, runs>>

\* CreateAndroidTestXml needs the imported packages, also where it does not use
\* them; if hidl-gen gives nothing the script ends with an exception.
HidlGenFails ==
    /\ pc = "specs"
    /\ pc' = "aborted"
    /\ UNCHANGED <<fixed, files, todo, cur, timeOut, stop, runs>>

OpenXml ==
    /\ pc = "specs"
    /\ exists' = exists \cup {TestDir(cur)}
    /\ conf' = [conf EXCEPT ![TestDir(cur)] = NoOptions]
    /\ torn' = torn \cup {Xml}
    /\ pc' = "xml"
    /\ UNCHANGED <<fixed, lost, todo, cur, timeOut, stop, runs>>

WriteXml ==
    /\ pc = "xml"
    /\ conf' = [conf EXCEPT ![TestDir(cur)] = Generated]
    /\ torn' = torn \ {Xml}
    /\ pc' = "loop"
    /\ UNCHANGED <<fixed, exists, lost, todo, cur, timeOut, stop, runs>>

-----------------------------------------------------------------------------
\* The script is interrupted, ...
Crash ==
    /\ pc \notin {"done", "aborted"}
    /\ pc' = "aborted"
    /\ lost' = IF pc = "xml" THEN lost \cup {TestDir(cur)} ELSE lost
    /\ UNCHANGED <<fixed, exists, conf, torn, todo, cur, timeOut, stop, runs>>

\* ... and run again, as it also is after it has ended.
Rerun ==
    /\ pc \in {"done", "aborted"}
    /\ runs < MaxRuns
    /\ runs' = runs + 1
    /\ todo' = Hal \X Category
    /\ pc' = "loop"
    /\ UNCHANGED <<fixed, files, cur, timeOut, stop>>

-----------------------------------------------------------------------------
Launch ==
    \/ NoSource \/ NoDirectory \/ OpenBp \/ WriteBp \/ HidlGenFails
    \/ OpenXml \/ WriteXml

Next ==
    \/ \E x \in Hal \X Category : NoConfigure(x) \/ Settings(x)
    \/ Launch \/ EndUpdate \/ Crash \/ Rerun

Spec == Init /\ [][Next]_vars

-----------------------------------------------------------------------------
(* Properties.                                                             *)

TypeOK ==
    /\ original \in [Hal \X Category -> Configure]
    /\ present \subseteq Hal \X Category
    /\ source \subseteq Hal \X TestType
    /\ dirs \subseteq Hal \X TestType
    /\ pc \in {"loop", "launch", "bp", "specs", "xml", "done", "aborted"}
    /\ todo \subseteq Hal \X Category
    /\ cur \in Hal \X Category
    /\ timeOut \in Timeouts
    /\ stop \in BOOLEAN
    /\ exists \subseteq Hal \X Category
    /\ conf \in [Hal \X Category -> Configure]
    /\ torn \subseteq (Hal \X TestType) \X {"bp", "xml"}
    /\ lost \subseteq Hal \X TestType
    /\ runs \in 1 .. MaxRuns

\* The profiling category that is written into the same directory.
Profiling(d) == <<d[1], IF d[2] = "target" THEN "target_profiling" ELSE "host_profiling">>

\* Whatever interruptions there were, a run that reaches its end leaves no file
\* empty (update_hal_tests.py:95-107, test_case_creator.py:214-255).
CompleteRunHeals == pc = "done" => torn = {}

\* A configuration that is not being written has the timeout it had at the
\* start, or that of the profiling configuration beside it, unless a run was
\* interrupted while writing it (update_hal_tests.py:41-48, 95-107).
TimeoutsTraceable ==
    \A d \in exists \cap (Hal \X TestType) :
        \/ d \in lost
        \/ pc = "xml" /\ d = TestDir(cur)
        \/ d \in present /\ TimeOutOf(conf[d]) = TimeOutOf(original[d])
        \/ /\ Profiling(d) \in present
           /\ TimeOutOf(conf[d]) = TimeOutOf(original[Profiling(d)])

\* The settings a test is to have: those of the profiling configuration, where
\* there is one, else its own, or none if they were lost.
Origin(d) ==
    IF Profiling(d) \in present THEN original[Profiling(d)]
    ELSE IF d \in lost THEN NoOptions
    ELSE original[d]

\* What a complete run leaves of a test does not depend on the order of the
\* categories, on how many runs came before it or on where they stopped, but
\* for the settings of a file that was lost
\* (update_hal_tests.py:69-74, test_case_creator.py:200-207).
OutcomeFixed ==
    pc = "done" =>
        \A d \in source \cap dirs \cap exists :
            /\ conf[d].timeout = TimeOutOf(Origin(d))
            /\ conf[d].disable = "true"
                 <=> d[2] = "target" /\ DisableRunTime(Origin(d))
=============================================================================
