-------------------------- MODULE TestConfigProofs --------------------------
(***************************************************************************)
(* Proofs about TestConfigUpdate, for any HALs, any files at the start and *)
(* any number of runs.                                                     *)
(***************************************************************************)
EXTENDS TestConfigUpdate, TLAPS

Dirs == Hal \X TestType
Launching == pc \in {"launch", "bp", "specs", "xml"}

\* LaunchTestCase works on a category that has a configuration and is no longer
\* to be visited; it writes only in a directory with a test.
InLaunch ==
    /\ Launching => cur \in exists /\ cur \notin todo
    /\ pc \in {"bp", "specs", "xml"} => TestDir(cur) \in source \cap dirs
    /\ pc \in {"specs", "xml"} => Bp \notin torn
    /\ pc = "xml" => conf[TestDir(cur)] = NoOptions

\* A category that will still lead the script to directory d.
WillVisit(x, d) ==
    /\ TestDir(x) = d
    /\ x \in todo \/ (Launching /\ x = cur) \/ pc = "aborted"

\* A torn file is one the script is still to come by, in this run or the next.
TornPending ==
    \A d \in Dirs, f \in {"bp", "xml"} :
        <<d, f>> \in torn =>
            /\ d \in source \cap dirs
            /\ \E x \in exists : WillVisit(x, d)

\* Profiling configurations are only read.
ProfilingKept ==
    \A x \in exists \ Dirs : x \in present /\ conf[x] = original[x]

\* Where a timeout of directory d may come from.
TraceableTo(t, d) ==
    \/ d \in lost
    \/ d \in present /\ t = TimeOutOf(original[d])
    \/ Profiling(d) \in present /\ t = TimeOutOf(original[Profiling(d)])

Traced ==
    /\ \A d \in exists \cap Dirs :
          (pc = "xml" /\ d = TestDir(cur)) \/ TraceableTo(TimeOutOf(conf[d]), d)
    /\ Launching => TraceableTo(timeOut, TestDir(cur))

\* A configuration says what the test is to have, ...
Kept(c, d) ==
    /\ TimeOutOf(c) = TimeOutOf(Origin(d))
    /\ d[2] = "target" => (DisableRunTime(c) <=> DisableRunTime(Origin(d)))

\* ... and says it as an update writes it.
Updated(c, d) ==
    /\ c.timeout = TimeOutOf(Origin(d))
    /\ c.disable = IF d[2] = "target" /\ DisableRunTime(Origin(d)) THEN "true" ELSE "absent"

\* The category that decides what directory d is to have.
Deciding(d) == IF Profiling(d) \in present THEN Profiling(d) ELSE d

\* The script has read the settings directory d is to have.
HasSettings(d) ==
    /\ timeOut = TimeOutOf(Origin(d))
    /\ d[2] = "target" => (stop <=> DisableRunTime(Origin(d)))

\* Without a profiling configuration the file keeps its settings from run to run.
KeepsSettings(d) ==
    Profiling(d) \notin present /\ d \in exists =>
        (pc = "xml" /\ d = TestDir(cur)) \/ Kept(conf[d], d)

\* Once the deciding category has been read in a run, settings read for the
\* directory are the right ones, and its file is right when LaunchTestCase is
\* not at it.
SettlesInRun(d) ==
    Deciding(d) \in exists \ todo /\ pc # "aborted" =>
        IF Launching /\ d = TestDir(cur) THEN HasSettings(d) ELSE Updated(conf[d], d)

Settled == \A d \in source \cap dirs : KeepsSettings(d) /\ SettlesInRun(d)

Inv ==
    /\ TypeOK
    /\ exists \subseteq present \cup (source \cap dirs)
    /\ present \subseteq exists
    /\ pc = "done" => todo = {}
    /\ InLaunch
    /\ TornPending
    /\ ProfilingKept
    /\ Traced
    /\ Settled

-----------------------------------------------------------------------------
(* Categories and the directories they write to.                           *)

\* The test directories are the plain categories, and the one other category
\* of a directory is its profiling category.
LEMMA Directories ==
    /\ Dirs \subseteq Hal \X Category
    /\ \A x \in Hal \X Category :
          TestDir(x) \in Dirs /\ (x = TestDir(x) \/ x = Profiling(TestDir(x)))
    /\ \A d \in Dirs :
          /\ TestDir(d) = d
          /\ Profiling(d) \in (Hal \X Category) \ Dirs
          /\ TestDir(Profiling(d)) = d
BY DEF Dirs, TestDir, TypeOf, Profiling, Category, TestType

\* What the script reads and writes is a configuration.
LEMMA Configurations ==
    /\ NoOptions \in Configure
    /\ \A c \in Configure : TimeOutOf(c) \in Timeouts /\ DisableRunTime(c) \in BOOLEAN
    /\ timeOut \in Timeouts => Generated \in Configure
BY UpdateAssumption DEF NoOptions, Configure, TimeOutOf, DisableRunTime, Generated

-----------------------------------------------------------------------------
(* Types.                                                                  *)

LEMMA InitType == Init => TypeOK
<1> SUFFICES ASSUME Init PROVE TypeOK
  OBVIOUS
<1>1. original \in [Hal \X Category -> Configure]
  BY Configurations, UpdateAssumption DEF Init
<1>2. cur \in Hal \X Category
  BY DEF Init, Category
<1>3. 1 \in 1 .. MaxRuns
  BY UpdateAssumption
<1> QED
  BY <1>1, <1>2, <1>3, UpdateAssumption DEF Init, TypeOK

LEMMA TypeStep == TypeOK /\ [Next]_vars => TypeOK'
<1> SUFFICES ASSUME TypeOK, [Next]_vars PROVE TypeOK'
  OBVIOUS
<1> USE DEF TypeOK, fixed, files
<1>1. ASSUME NEW x \in Hal \X Category, NoConfigure(x) PROVE TypeOK'
  BY <1>1 DEF NoConfigure
<1>2. ASSUME NEW x \in Hal \X Category, Settings(x) PROVE TypeOK'
  BY <1>2, Configurations DEF Settings
<1>3. CASE NoSource
  BY <1>3 DEF NoSource
<1>4. CASE NoDirectory
  BY <1>4 DEF NoDirectory
<1>5. CASE OpenBp
  BY <1>5, Directories DEF OpenBp, Bp, Dirs
<1>6. CASE WriteBp
  BY <1>6 DEF WriteBp
<1>7. CASE HidlGenFails
  BY <1>7 DEF HidlGenFails
<1>8. CASE OpenXml
  BY <1>8, Directories, Configurations DEF OpenXml, Xml, Dirs
<1>9. CASE WriteXml
  BY <1>9, Configurations DEF WriteXml
<1>10. CASE EndUpdate
  BY <1>10 DEF EndUpdate
<1>11. CASE Crash
  BY <1>11, Directories DEF Crash, Dirs
<1>12. CASE Rerun
  BY <1>12, UpdateAssumption DEF Rerun
<1>13. CASE UNCHANGED vars
  BY <1>13 DEF vars
<1> QED
  BY <1>1, <1>2, <1>3, <1>4, <1>5, <1>6, <1>7, <1>8, <1>9, <1>10, <1>11, <1>12, <1>13
     DEF Next, Launch

\* The variables keep their types.
THEOREM TypeCorrect == Spec => []TypeOK
BY InitType, TypeStep, PTL DEF Spec

-----------------------------------------------------------------------------
(* The invariant.                                                          *)

LEMMA InitInv == Init => Inv
<1> SUFFICES ASSUME Init PROVE Inv
  OBVIOUS
<1>1. TypeOK
  BY InitType
<1>2. pc = "loop" /\ torn = {} /\ lost = {} /\ exists = present /\ conf = original
      /\ todo = Hal \X Category
  BY DEF Init
<1>3. ~Launching
  BY <1>2 DEF Launching
<1>4. InLaunch /\ TornPending /\ ProfilingKept
  BY <1>2, <1>3 DEF InLaunch, TornPending, ProfilingKept
<1>5. Traced
  BY <1>2, <1>3 DEF Traced, TraceableTo
<1>6. Settled
  <2> SUFFICES ASSUME NEW d \in source \cap dirs
               PROVE  /\ Profiling(d) \notin present /\ d \in exists => Kept(conf[d], d)
                      /\ Deciding(d) \in todo
    BY <1>2 DEF Settled, KeepsSettings, SettlesInRun
  <2>1. d \in Dirs
    BY <1>1 DEF TypeOK, Dirs
  <2>2. Deciding(d) \in Hal \X Category
    BY <2>1, Directories DEF Deciding
  <2> QED
    BY <1>2, <2>2 DEF Kept, Origin
<1> QED
  BY <1>1, <1>2, <1>4, <1>5, <1>6 DEF Inv

LEMMA InLaunchStep == Inv /\ [Next]_vars => InLaunch'
<1> SUFFICES ASSUME Inv, [Next]_vars PROVE InLaunch'
  OBVIOUS
<1>0. TypeOK /\ InLaunch
  BY DEF Inv
<1>1. TestDir(cur) \in Dirs
  BY <1>0, Directories DEF TypeOK
<1> USE DEF InLaunch, Launching, fixed, files, Bp, Xml
<1>2. ASSUME NEW x \in Hal \X Category, NoConfigure(x) PROVE InLaunch'
  BY <1>0, <1>2 DEF NoConfigure
<1>3. ASSUME NEW x \in Hal \X Category, Settings(x) PROVE InLaunch'
  BY <1>0, <1>3 DEF Settings
<1>4. CASE NoSource \/ NoDirectory \/ HidlGenFails \/ EndUpdate \/ Crash \/ Rerun
  BY <1>0, <1>4 DEF NoSource, NoDirectory, HidlGenFails, EndUpdate, Crash, Rerun
<1>5. CASE OpenBp
  BY <1>0, <1>5 DEF OpenBp, TestDir
<1>6. CASE WriteBp
  BY <1>0, <1>6 DEF WriteBp, TestDir
<1>7. CASE OpenXml
  <2>1. pc' = "xml" /\ cur' = cur /\ todo' = todo /\ exists' = exists \cup {TestDir(cur)}
        /\ conf' = [conf EXCEPT ![TestDir(cur)] = NoOptions]
        /\ torn' = torn \cup {Xml} /\ source' = source /\ dirs' = dirs
    BY <1>7 DEF OpenXml
  <2>2. TestDir(cur)' = TestDir(cur)
    BY <2>1 DEF TestDir
  <2>3. conf'[TestDir(cur)] = NoOptions
    BY <1>0, <1>1, <2>1, Directories DEF TypeOK
  <2>4. Bp # Xml
    OBVIOUS
  <2> QED
    BY <1>0, <1>7, <2>1, <2>2, <2>3, <2>4 DEF OpenXml
<1>8. CASE WriteXml
  BY <1>0, <1>8 DEF WriteXml
<1>9. CASE UNCHANGED vars
  BY <1>0, <1>9 DEF vars, TestDir
<1> QED
  BY <1>2, <1>3, <1>4, <1>5, <1>6, <1>7, <1>8, <1>9 DEF Next, Launch

\* The files there are: those of the start, and those written for a test.
FilesThere ==
    /\ exists \subseteq present \cup (source \cap dirs)
    /\ present \subseteq exists
    /\ pc = "done" => todo = {}

LEMMA FilesThereStep == Inv /\ [Next]_vars => FilesThere'
<1> SUFFICES ASSUME Inv, [Next]_vars PROVE FilesThere'
  OBVIOUS
<1>0. TypeOK /\ InLaunch /\ FilesThere
  BY DEF Inv, FilesThere
<1> USE DEF FilesThere, fixed, files
<1>1. ASSUME NEW x \in Hal \X Category, NoConfigure(x) \/ Settings(x) PROVE FilesThere'
  BY <1>0, <1>1 DEF NoConfigure, Settings
<1>2. CASE Launch \/ EndUpdate \/ Crash \/ Rerun
  BY <1>0, <1>2 DEF Launch, NoSource, NoDirectory, OpenBp, WriteBp, HidlGenFails, OpenXml,
     WriteXml, EndUpdate, Crash, Rerun, InLaunch
<1>3. CASE UNCHANGED vars
  BY <1>0, <1>3 DEF vars
<1> QED
  BY <1>1, <1>2, <1>3 DEF Next

LEMMA ProfilingKeptStep == Inv /\ [Next]_vars => ProfilingKept'
<1> SUFFICES ASSUME Inv, [Next]_vars PROVE ProfilingKept'
  OBVIOUS
<1>0. TypeOK /\ ProfilingKept
  BY DEF Inv
<1>1. TestDir(cur) \in Dirs
  BY <1>0, Directories DEF TypeOK
<1> USE DEF ProfilingKept, fixed, files
<1>2. ASSUME NEW x \in Hal \X Category, NoConfigure(x) \/ Settings(x) PROVE ProfilingKept'
  BY <1>0, <1>2 DEF NoConfigure, Settings, Dirs
<1>3. CASE OpenXml \/ WriteXml
  BY <1>0, <1>1, <1>3 DEF OpenXml, WriteXml, TypeOK, Dirs
<1>4. CASE NoSource \/ NoDirectory \/ OpenBp \/ WriteBp \/ HidlGenFails \/ EndUpdate
           \/ Crash \/ Rerun
  BY <1>0, <1>4 DEF NoSource, NoDirectory, OpenBp, WriteBp, HidlGenFails, EndUpdate, Crash,
     Rerun, Dirs
<1>5. CASE UNCHANGED vars
  BY <1>0, <1>5 DEF vars, Dirs
<1> QED
  BY <1>2, <1>3, <1>4, <1>5 DEF Next, Launch

\* A torn file stays one the script will come by, and is written when it does.
LEMMA TornPendingStep == Inv /\ [Next]_vars => TornPending'
<1> SUFFICES ASSUME Inv, [Next]_vars PROVE TornPending'
  OBVIOUS
<1>0. TypeOK /\ InLaunch /\ TornPending /\ (pc = "done" => todo = {})
  BY DEF Inv
<1>1. TestDir(cur) \in Dirs
  BY <1>0, Directories DEF TypeOK
<1> SUFFICES ASSUME NEW d \in Dirs, NEW f \in {"bp", "xml"}, <<d, f>> \in torn'
             PROVE  d \in (source \cap dirs)' /\ \E x \in exists' : WillVisit(x, d)'
  BY DEF TornPending, Dirs
<1>2. \A x : TestDir(x)' = TestDir(x)
  BY DEF TestDir
<1>3. source' = source /\ dirs' = dirs /\ exists \subseteq exists'
  BY DEF Next, Launch, vars, fixed, files, NoConfigure, Settings, EndUpdate, NoSource,
     NoDirectory, OpenBp, WriteBp, HidlGenFails, OpenXml, WriteXml, Crash, Rerun
<1>4. CASE <<d, f>> \notin torn
  <2>1. /\ OpenBp \/ OpenXml
        /\ TestDir(cur) = d
    BY <1>0, <1>4 DEF Next, Launch, vars, fixed, files, NoConfigure, Settings, EndUpdate,
       NoSource, NoDirectory, OpenBp, WriteBp, HidlGenFails, OpenXml, WriteXml, Crash, Rerun,
       Bp, Xml
  <2>2. d \in source \cap dirs /\ cur \in exists /\ cur' = cur /\ pc' \in {"bp", "xml"}
    BY <1>0, <2>1 DEF OpenBp, OpenXml, InLaunch, Launching
  <2>3. WillVisit(cur, d)'
    BY <2>1, <2>2, <1>2 DEF WillVisit, Launching
  <2> QED
    BY <1>3, <2>2, <2>3
<1>5. CASE <<d, f>> \in torn
  <2>1. d \in source \cap dirs
    BY <1>0, <1>5 DEF TornPending
  <2>2. PICK x \in exists : WillVisit(x, d)
    BY <1>0, <1>5 DEF TornPending
  <2>3. x \in Hal \X Category /\ TestDir(x) = d
    BY <1>0, <2>2 DEF TypeOK, WillVisit
  <2> SUFFICES WillVisit(x, d)'
    BY <1>3, <2>1, <2>2
  <2> USE DEF WillVisit, Launching
  <2>4. ASSUME NEW y \in Hal \X Category, NoConfigure(y) PROVE WillVisit(x, d)'
    BY <1>2, <2>2, <2>4 DEF NoConfigure
  <2>5. ASSUME NEW y \in Hal \X Category, Settings(y) PROVE WillVisit(x, d)'
    BY <1>2, <2>2, <2>5 DEF Settings
  <2>6. CASE NoSource \/ NoDirectory
    <3>1. TestDir(cur) # d
      BY <2>1, <2>6 DEF NoSource, NoDirectory
    <3>2. x # cur
      BY <2>3, <3>1
    <3> QED
      BY <1>2, <2>2, <2>6, <3>2 DEF NoSource, NoDirectory
  <2>7. CASE OpenBp \/ WriteBp \/ OpenXml
    BY <1>2, <2>2, <2>7 DEF OpenBp, WriteBp, OpenXml
  <2>8. CASE HidlGenFails \/ Crash
    BY <1>2, <2>3, <2>8 DEF HidlGenFails, Crash
  <2>9. CASE WriteXml
    <3>1. torn' = torn \ {Xml} /\ Bp \notin torn /\ pc = "xml" /\ pc' = "loop" /\ todo' = todo
      BY <1>0, <2>9 DEF WriteXml, InLaunch
    <3>2. TestDir(cur) # d
      BY <3>1, <1>5 DEF Bp, Xml
    <3>3. x # cur
      BY <2>3, <3>2
    <3> QED
      BY <1>2, <2>2, <3>1, <3>3
  <2>10. CASE EndUpdate
    BY <2>2, <2>10 DEF EndUpdate
  <2>11. CASE Rerun
    BY <1>2, <2>3, <2>11 DEF Rerun
  <2>12. CASE UNCHANGED vars
    BY <1>2, <2>2, <2>12 DEF vars
  <2> QED
    BY <2>4, <2>5, <2>6, <2>7, <2>8, <2>9, <2>10, <2>11, <2>12 DEF Next, Launch
<1> QED
  BY <1>4, <1>5

\* A timeout goes from a file to the variable and from there to a file of the
\* same directory.
LEMMA TracedStep == Inv /\ [Next]_vars => Traced'
<1> SUFFICES ASSUME Inv, [Next]_vars PROVE Traced'
  OBVIOUS
<1>0. TypeOK /\ InLaunch /\ ProfilingKept /\ Traced
  BY DEF Inv
<1>1. TestDir(cur) \in Dirs
  BY <1>0, Directories DEF TypeOK
<1>2. \A y : TestDir(y)' = TestDir(y) /\ TimeOutOf(y)' = TimeOutOf(y)
            /\ Profiling(y)' = Profiling(y)
  BY DEF TestDir, TimeOutOf, Profiling
<1>3. original' = original /\ present' = present /\ lost \subseteq lost'
  BY DEF Next, Launch, vars, fixed, files, NoConfigure, Settings, EndUpdate, NoSource,
     NoDirectory, OpenBp, WriteBp, HidlGenFails, OpenXml, WriteXml, Crash, Rerun
<1>4. \A t, d : TraceableTo(t, d) => TraceableTo(t, d)'
  BY <1>3 DEF TraceableTo, TimeOutOf, Profiling
<1> USE DEF Traced, Launching, fixed, files
<1>5. ASSUME NEW x \in Hal \X Category, NoConfigure(x) PROVE Traced'
  BY <1>0, <1>2, <1>4, <1>5 DEF NoConfigure, Dirs
<1>6. ASSUME NEW x \in Hal \X Category, Settings(x) PROVE Traced'
  <2>1. /\ pc = "loop" /\ pc' = "launch" /\ cur' = x /\ timeOut' = TimeOutOf(conf[x])
        /\ exists' = exists /\ conf' = conf /\ x \in exists
    BY <1>6 DEF Settings
  <2>2. \A d \in exists \cap Dirs : TraceableTo(TimeOutOf(conf[d]), d)
    BY <1>0, <2>1
  <2>3. TraceableTo(timeOut', TestDir(x))
    <3>1. CASE x \in Dirs
      BY <1>0, <2>1, <3>1, Directories
    <3>2. CASE x \notin Dirs
      <4>1. x \in present /\ conf[x] = original[x]
        BY <1>0, <2>1, <3>2 DEF ProfilingKept
      <4>2. x = Profiling(TestDir(x))
        BY <3>2, Directories
      <4> QED
        BY <2>1, <4>1, <4>2 DEF TraceableTo
    <3> QED
      BY <3>1, <3>2
  <2> QED
    BY <1>3, <2>1, <2>2, <2>3 DEF Dirs, TraceableTo, TestDir, TimeOutOf, Profiling
<1>7. CASE NoSource \/ NoDirectory \/ OpenBp \/ WriteBp \/ HidlGenFails
  BY <1>0, <1>2, <1>4, <1>7 DEF NoSource, NoDirectory, OpenBp, WriteBp, HidlGenFails, Dirs
<1>8. CASE OpenXml
  <2>1. /\ pc = "specs" /\ pc' = "xml" /\ cur' = cur /\ timeOut' = timeOut
        /\ exists' = exists \cup {TestDir(cur)}
        /\ conf' = [conf EXCEPT ![TestDir(cur)] = NoOptions]
    BY <1>8 DEF OpenXml
  <2>2. ASSUME NEW d \in exists' \cap Dirs, d # TestDir(cur)
        PROVE  TraceableTo(TimeOutOf(conf'[d]), d)
    <3>1. conf'[d] = conf[d] /\ d \in exists
      BY <1>0, <2>1, <2>2, Directories DEF TypeOK
    <3> QED
      BY <1>0, <2>1, <3>1
  <2>3. TraceableTo(timeOut, TestDir(cur))
    BY <1>0, <2>1
  <2> QED
    BY <1>3, <2>1, <2>2, <2>3 DEF Dirs, TraceableTo, TestDir, TimeOutOf, Profiling
<1>9. CASE WriteXml
  <2>1. /\ pc = "xml" /\ pc' = "loop" /\ exists' = exists
        /\ conf' = [conf EXCEPT ![TestDir(cur)] = Generated]
    BY <1>9 DEF WriteXml
  <2>2. ASSUME NEW d \in exists \cap Dirs
        PROVE  TraceableTo(TimeOutOf(conf'[d]), d)
    <3>1. CASE d # TestDir(cur)
      <4>1. conf'[d] = conf[d]
        BY <1>0, <2>1, <3>1, Directories DEF TypeOK
      <4> QED
        BY <1>0, <2>1, <3>1, <4>1
    <3>2. CASE d = TestDir(cur)
      <4>1. conf'[d] = Generated
        BY <1>0, <2>1, <3>2, Directories DEF TypeOK
      <4>2. TimeOutOf(Generated) = timeOut
        BY <1>0, UpdateAssumption DEF Generated, TimeOutOf, TypeOK
      <4> QED
        BY <1>0, <2>1, <3>2, <4>1, <4>2
    <3> QED
      BY <3>1, <3>2
  <2> QED
    BY <1>2, <1>4, <2>1, <2>2 DEF Dirs
<1>10. CASE Crash
  <2>1. exists' = exists /\ conf' = conf /\ pc' = "aborted"
        /\ (pc = "xml" => TestDir(cur) \in lost')
    BY <1>10 DEF Crash
  <2> QED
    BY <1>0, <1>2, <1>4, <2>1 DEF Dirs, TraceableTo
<1>11. CASE EndUpdate \/ Rerun
  BY <1>0, <1>2, <1>4, <1>11 DEF EndUpdate, Rerun, Dirs
<1>12. CASE UNCHANGED vars
  BY <1>0, <1>2, <1>4, <1>12 DEF vars, Dirs
<1> QED
  BY <1>5, <1>6, <1>7, <1>8, <1>9, <1>10, <1>11, <1>12 DEF Next, Launch

-----------------------------------------------------------------------------
(* The settings of a directory.                                            *)

LEMMA OriginTyped == ASSUME TypeOK, NEW d \in Dirs PROVE Origin(d) \in Configure
BY Directories, Configurations DEF Origin, TypeOK

\* A file as an update writes it has the right settings.
LEMMA UpdatedIsKept ==
    ASSUME TypeOK, NEW d \in Dirs, NEW c \in Configure, Updated(c, d) PROVE Kept(c, d)
<1>1. TimeOutOf(Origin(d)) \in Timeouts
  BY OriginTyped, Configurations
<1>2. TimeOutOf(c) = TimeOutOf(Origin(d))
  BY <1>1, UpdateAssumption DEF Updated, TimeOutOf
<1>3. d[2] = "target" => (DisableRunTime(c) <=> DisableRunTime(Origin(d)))
  BY DEF Updated, DisableRunTime
<1> QED
  BY <1>2, <1>3 DEF Kept

\* The deciding category is one of the two of the directory, and it has a
\* configuration if the plain one has.
LEMMA DecidingCategory ==
    ASSUME Inv, NEW d \in Dirs
    PROVE  /\ Deciding(d) \in Hal \X Category
           /\ TestDir(Deciding(d)) = d
           /\ \A x \in exists : TestDir(x) = d =>
                 Deciding(d) \in exists /\ (x = Deciding(d) \/ x = d)
<1>0. TypeOK /\ ProfilingKept /\ present \subseteq exists
  BY DEF Inv
<1>1. ASSUME NEW x \in exists, TestDir(x) = d
      PROVE  Deciding(d) \in exists /\ (x = Deciding(d) \/ x = d)
  <2>1. x = d \/ x = Profiling(d)
    BY <1>0, <1>1, Directories DEF TypeOK
  <2>2. x = Profiling(d) => Profiling(d) \in present
    BY <1>0, Directories DEF ProfilingKept
  <2> QED
    BY <1>0, <2>1, <2>2 DEF Deciding
<1>2. Deciding(d) \in Hal \X Category /\ TestDir(Deciding(d)) = d
  BY Directories DEF Deciding
<1> QED
  BY <1>1, <1>2

\* What the main loop reads once the deciding category is no longer to be
\* visited.
LEMMA ReadRight ==
    ASSUME Inv, pc = "loop", NEW d \in source \cap dirs, NEW x \in todo \cap exists,
           TestDir(x) = d, Deciding(d) \notin todo \ {x}
    PROVE  Kept(conf[x], d)
<1>0. TypeOK /\ ProfilingKept /\ Settled /\ ~Launching
  BY DEF Inv, Launching
<1>1. d \in Dirs /\ conf[x] \in Configure
  BY <1>0 DEF TypeOK, Dirs
<1>2. Deciding(d) \in exists /\ (x = Deciding(d) \/ x = d)
  BY <1>1, DecidingCategory
<1>3. CASE x = Deciding(d) /\ Profiling(d) \in present
  <2>1. x \in exists \ Dirs /\ x = Profiling(d)
    BY <1>1, <1>3, Directories DEF Deciding
  <2> QED
    BY <1>0, <1>3, <2>1 DEF ProfilingKept, Kept, Origin
<1>4. CASE x = Deciding(d) /\ Profiling(d) \notin present
  BY <1>0, <1>4 DEF Deciding, Settled, KeepsSettings
<1>5. CASE x # Deciding(d)
  <2>1. Deciding(d) \in exists \ todo /\ x = d
    BY <1>2, <1>5
  <2>2. Updated(conf[d], d)
    BY <1>0, <2>1 DEF Settled, SettlesInRun
  <2> QED
    BY <1>0, <1>1, <2>1, <2>2, UpdatedIsKept
<1> QED
  BY <1>3, <1>4, <1>5

\* What LaunchTestCase writes with the right settings.
LEMMA WrittenRight ==
    ASSUME TypeOK, HasSettings(TestDir(cur)) PROVE Updated(Generated, TestDir(cur))
<1>1. TestDir(cur)[2] = TypeOf(cur[2])
  BY DEF TestDir
<1> QED
  BY <1>1 DEF HasSettings, Updated, Generated

\* The settings of a directory change only with its own update.
LEMMA SettledStep == Inv /\ [Next]_vars => Settled'
<1> SUFFICES ASSUME Inv, [Next]_vars PROVE Settled'
  OBVIOUS
<1>0. /\ TypeOK /\ InLaunch /\ ProfilingKept /\ Settled
      /\ present \subseteq exists
      /\ pc = "done" => todo = {}
  BY DEF Inv
<1>1. source' = source /\ dirs' = dirs /\ present' = present /\ original' = original
  BY DEF Next, Launch, vars, fixed, files, NoConfigure, Settings, EndUpdate, NoSource,
     NoDirectory, OpenBp, WriteBp, HidlGenFails, OpenXml, WriteXml, Crash, Rerun
<1> SUFFICES ASSUME NEW d \in source \cap dirs PROVE KeepsSettings(d)' /\ SettlesInRun(d)'
  BY <1>1 DEF Settled
<1>2. d \in Dirs /\ TestDir(d) = d
  BY <1>0, Directories DEF TypeOK, Dirs
<1>3. KeepsSettings(d) /\ SettlesInRun(d)
  BY <1>0 DEF Settled
<1>4. Deciding(d)' = Deciding(d)
  BY <1>1 DEF Deciding, Profiling
<1>5. TestDir(cur) \in Dirs
  BY <1>0, Directories DEF TypeOK
<1>6. lost' = lost => Origin(d)' = Origin(d)
  BY <1>1 DEF Origin, Profiling, NoOptions
<1>7. cur' = cur => TestDir(cur)' = TestDir(cur)
  BY DEF TestDir
<1> USE DEF KeepsSettings, SettlesInRun, Launching, Kept, Updated, HasSettings
<1>8. ASSUME NEW x \in Hal \X Category, NoConfigure(x)
      PROVE  KeepsSettings(d)' /\ SettlesInRun(d)'
  <2>1. /\ pc = "loop" /\ pc' = pc /\ exists' = exists /\ conf' = conf /\ lost' = lost
        /\ todo' = todo \ {x} /\ x \notin exists
    BY <1>8 DEF NoConfigure, files
  <2> QED
    BY <1>1, <1>3, <1>4, <1>6, <2>1 DEF Profiling
<1>9. ASSUME NEW x \in Hal \X Category, Settings(x)
      PROVE  KeepsSettings(d)' /\ SettlesInRun(d)'
  <2>1. /\ pc = "loop" /\ pc' = "launch" /\ exists' = exists /\ conf' = conf /\ lost' = lost
        /\ todo' = todo \ {x} /\ x \in todo \cap exists /\ cur' = x
        /\ timeOut' = TimeOutOf(conf[x]) /\ stop' = DisableRunTime(conf[x])
    BY <1>9 DEF Settings, files
  <2>2. KeepsSettings(d)'
    BY <1>1, <1>3, <1>6, <2>1 DEF Profiling
  <2>3. TestDir(cur)' = TestDir(x)
    BY <2>1 DEF TestDir
  <2>4. CASE TestDir(x) = d
    <3>1. ASSUME Deciding(d) \notin todo \ {x} PROVE Kept(conf[x], d)
      BY <1>0, <2>1, <2>4, <3>1, ReadRight
    <3>2. Deciding(d) \notin todo' => HasSettings(d)'
      BY <1>6, <2>1, <3>1
    <3> QED
      BY <1>4, <2>1, <2>2, <2>3, <2>4, <3>2
  <2>5. CASE TestDir(x) # d
    <3>1. Deciding(d) # x
      BY <1>2, <2>5, DecidingCategory
    <3> QED
      BY <1>3, <1>4, <1>6, <2>1, <2>2, <2>3, <2>5, <3>1
  <2> QED
    BY <2>4, <2>5
<1>10. CASE NoSource \/ NoDirectory
  <2>1. TestDir(cur) # d /\ pc = "launch" /\ pc' = "loop" /\ UNCHANGED <<todo, cur, files>>
    BY <1>10 DEF NoSource, NoDirectory
  <2> QED
    BY <1>1, <1>3, <1>4, <1>6, <2>1 DEF files, Profiling
<1>11. CASE OpenBp \/ WriteBp
  <2>1. /\ pc \in {"launch", "bp"} /\ pc' \in {"bp", "specs"}
        /\ UNCHANGED <<todo, cur, timeOut, stop, exists, conf, lost>>
    BY <1>11 DEF OpenBp, WriteBp
  <2> QED
    BY <1>1, <1>3, <1>4, <1>6, <1>7, <2>1 DEF Profiling
<1>12. CASE HidlGenFails
  <2>1. pc = "specs" /\ pc' = "aborted" /\ UNCHANGED <<exists, conf, lost>>
    BY <1>12 DEF HidlGenFails, files
  <2> QED
    BY <1>1, <1>3, <1>6, <2>1 DEF Profiling
<1>13. CASE OpenXml
  <2>1. /\ pc = "specs" /\ pc' = "xml" /\ UNCHANGED <<todo, cur, timeOut, stop, lost>>
        /\ exists' = exists \cup {TestDir(cur)}
        /\ conf' = [conf EXCEPT ![TestDir(cur)] = NoOptions]
    BY <1>13 DEF OpenXml
  <2>2. CASE d = TestDir(cur)
    <3>1. Deciding(d) \in exists
      BY <1>0, <1>2, <2>1, <2>2, DecidingCategory DEF InLaunch
    <3> QED
      BY <1>3, <1>4, <1>6, <1>7, <2>1, <2>2, <3>1
  <2>3. CASE d # TestDir(cur)
    <3>1. conf'[d] = conf[d] /\ (d \in exists' <=> d \in exists)
      BY <1>0, <1>2, <2>1, <2>3, Directories DEF TypeOK
    <3>2. Deciding(d) # TestDir(cur)
      BY <1>2, <1>5, <2>3, DecidingCategory, Directories
    <3> QED
      BY <1>1, <1>3, <1>4, <1>6, <1>7, <2>1, <2>3, <3>1, <3>2 DEF Profiling
  <2> QED
    BY <2>2, <2>3
<1>14. CASE WriteXml
  <2>1. /\ pc = "xml" /\ pc' = "loop" /\ UNCHANGED <<todo, cur, timeOut, stop, exists, lost>>
        /\ conf' = [conf EXCEPT ![TestDir(cur)] = Generated]
    BY <1>14 DEF WriteXml
  <2>2. CASE d = TestDir(cur)
    <3>1. conf'[d] = Generated
      BY <1>0, <1>2, <2>1, <2>2, Directories DEF TypeOK
    <3>2. ASSUME Deciding(d) \in exists \ todo
          PROVE  Updated(Generated, d) /\ Kept(Generated, d)
      <4>1. HasSettings(d)
        BY <1>3, <2>1, <2>2, <3>2
      <4>2. Updated(Generated, d)
        BY <1>0, <2>2, <4>1, WrittenRight
      <4>3. Generated \in Configure
        BY <1>0, Configurations DEF TypeOK
      <4>4. Kept(Generated, d)
        BY <1>0, <1>2, <4>2, <4>3, UpdatedIsKept
      <4> QED
        BY <4>2, <4>4
    <3>3. Profiling(d) \notin present => Deciding(d) \in exists \ todo
      BY <1>0, <1>2, <2>1, <2>2, DecidingCategory DEF InLaunch, Deciding
    <3> QED
      BY <1>1, <1>4, <1>6, <1>7, <2>1, <2>2, <3>1, <3>2, <3>3 DEF Profiling
  <2>3. CASE d # TestDir(cur)
    <3>1. conf'[d] = conf[d]
      BY <1>0, <1>2, <2>1, <2>3, Directories DEF TypeOK
    <3> QED
      BY <1>1, <1>3, <1>4, <1>6, <1>7, <2>1, <2>3, <3>1 DEF Profiling
  <2> QED
    BY <2>2, <2>3
<1>15. CASE Crash
  <2>1. /\ pc' = "aborted" /\ UNCHANGED <<exists, conf>>
        /\ lost' = IF pc = "xml" THEN lost \cup {TestDir(cur)} ELSE lost
    BY <1>15 DEF Crash
  <2>2. CASE pc = "xml" /\ d = TestDir(cur)
    <3>1. Profiling(d) \notin present => Origin(d)' = NoOptions
      BY <1>1, <2>1, <2>2 DEF Origin, Profiling, NoOptions
    <3>2. conf[d] = NoOptions
      BY <1>0, <2>2 DEF InLaunch
    <3> QED
      BY <1>1, <2>1, <3>1, <3>2 DEF Profiling
  <2>3. CASE ~(pc = "xml" /\ d = TestDir(cur))
    <3>1. Origin(d)' = Origin(d)
      BY <1>1, <2>1, <2>3 DEF Origin, Profiling, NoOptions
    <3> QED
      BY <1>1, <1>3, <2>1, <2>3, <3>1 DEF Profiling
  <2> QED
    BY <2>2, <2>3
<1>16. CASE EndUpdate
  <2>1. pc = "loop" /\ pc' = "done" /\ UNCHANGED <<todo, exists, conf, lost>>
    BY <1>16 DEF EndUpdate, files
  <2> QED
    BY <1>1, <1>3, <1>4, <1>6, <2>1 DEF Profiling
<1>17. CASE Rerun
  <2>1. /\ pc \in {"done", "aborted"} /\ pc' = "loop" /\ UNCHANGED <<exists, conf, lost>>
        /\ todo' = Hal \X Category
    BY <1>17 DEF Rerun, files
  <2>2. Deciding(d) \in Hal \X Category
    BY <1>2, DecidingCategory
  <2> QED
    BY <1>1, <1>3, <1>4, <1>6, <2>1, <2>2 DEF Profiling
<1>18. CASE UNCHANGED vars
  BY <1>1, <1>3, <1>4, <1>6, <1>7, <1>18 DEF vars, Profiling
<1> QED
  BY <1>8, <1>9, <1>10, <1>11, <1>12, <1>13, <1>14, <1>15, <1>16, <1>17, <1>18
     DEF Next, Launch

-----------------------------------------------------------------------------
(* The theorems.                                                           *)

\* The invariant holds in every state.
THEOREM InvHolds == Spec => []Inv
<1>1. Inv /\ [Next]_vars => Inv'
  BY TypeStep, InLaunchStep, FilesThereStep, TornPendingStep, ProfilingKeptStep,
     TracedStep, SettledStep DEF Inv, FilesThere
<1> QED
  BY InitInv, <1>1, PTL DEF Spec

\* A run that reaches its end leaves no file empty, whatever came before it
\* (update_hal_tests.py:95-107): a torn file is one the script is still to come
\* by, and at the end there are none.
THEOREM CompleteRunsHeal == Spec => []CompleteRunHeals
<1>1. ASSUME Inv, pc = "done" PROVE torn = {}
  <2>0. TypeOK /\ TornPending /\ todo = {}
    BY <1>1 DEF Inv
  <2>1. ASSUME NEW e \in torn PROVE FALSE
    <3>1. PICK d \in Dirs, f \in {"bp", "xml"} : e = <<d, f>>
      BY <2>0, <2>1 DEF TypeOK, Dirs
    <3>2. PICK x \in exists : WillVisit(x, d)
      BY <2>0, <2>1, <3>1 DEF TornPending
    <3> QED
      BY <1>1, <2>0, <3>2 DEF WillVisit, Launching
  <2> QED
    BY <2>1
<1>2. Inv => CompleteRunHeals
  BY <1>1 DEF CompleteRunHeals
<1> QED
  BY InvHolds, <1>2, PTL

\* Every timeout can be traced to a file of the start, unless a run was
\* interrupted while writing it (update_hal_tests.py:41-48, 95-107).
THEOREM TimeoutsAreTraceable == Spec => []TimeoutsTraceable
<1>1. Inv => TimeoutsTraceable
  BY DEF Inv, Traced, TraceableTo, TimeoutsTraceable, Dirs
<1> QED
  BY InvHolds, <1>1, PTL

\* What a complete run leaves is decided by the files there were at the start
\* and those lost (update_hal_tests.py:69-74, test_case_creator.py:200-207).
THEOREM OutcomeIsFixed == Spec => []OutcomeFixed
<1>1. ASSUME Inv, pc = "done", NEW d \in source \cap dirs \cap exists
      PROVE  Updated(conf[d], d)
  <2>0. TypeOK /\ Settled /\ todo = {}
    BY <1>1 DEF Inv
  <2>1. d \in Dirs /\ TestDir(d) = d
    BY <2>0, Directories DEF TypeOK, Dirs
  <2>2. Deciding(d) \in exists \ todo
    BY <1>1, <2>0, <2>1, DecidingCategory
  <2> QED
    BY <1>1, <2>0, <2>2 DEF Settled, SettlesInRun, Launching
<1>2. Inv => OutcomeFixed
  BY <1>1 DEF OutcomeFixed, Updated
<1> QED
  BY InvHolds, <1>2, PTL
=============================================================================
