------------------------ MODULE ManifestTestsProofs ------------------------
(***************************************************************************)
(* Proofs about ManifestTests for every manifest, device and API level:    *)
(* what the tests report is what the manifest and the device deserve, and  *)
(* what a service that is late or dies can and cannot change about it.     *)
(***************************************************************************)
EXTENDS ManifestTests, TLAPS

-----------------------------------------------------------------------------
(* The inductive invariant.                                                *)

Working == {"chain", "hashes", "links", "minor", "allow"}
Released == {"released", "omr1_released"}

\* The entries the test has left behind.
Behind(e) == e \notin todo /\ ~(pc \in Working /\ e = cur)

\* Where the test is, and with which entry.
LoopInv ==
    /\ pc = "collect" =>
          /\ test \in {"binderized", "passthrough"}
          /\ todo = manifest
          /\ failures = {}
    /\ pc \in Working => cur \in manifest /\ cur \notin todo
    /\ pc \in {"chain", "hashes", "links"} => Served(cur) /\ cur \notin late
    /\ pc = "chain" => test \in {"passthrough"} \cup Released
    /\ pc \in {"hashes", "links"} => test \in Released
    /\ pc \in {"minor", "allow"} => test = "binderized"
    /\ pc = "done" => todo = {}

\* Of an entry that is not reached nothing was late, and nothing has died.
FaultInv ==
    /\ \A e \in todo : e \notin late /\ e \notin silent
    /\ silent # {} => test \in Released
    /\ \A e \in silent : e \notin late
    /\ pc = "collect" => late = {}
    /\ pc = "chain" => cur \notin silent

\* The two chains in hand: those of the service, or nothing.
ChainInv ==
    /\ pc = "hashes" =>
          chain = IF cur \in silent THEN <<>> ELSE service[cur.name].chain
    /\ pc = "hashes" /\ cur \in silent => dead
    /\ pc = "links" =>
          /\ Len(chain) = Len(hashes)
          /\ link <= Len(chain) + 1
          /\ \A j \in 1 .. (link - 1) : chain[j] # BadName
          /\ cur \in silent => chain = <<>>
          /\ cur \notin silent => /\ chain = service[cur.name].chain
                                  /\ hashes = service[cur.name].hashes

\* GetPassthroughService has passed by the versions that are not there.
MinorInv ==
    /\ test = "binderized" /\ pc # "collect" => todo \subseteq Passthrough
    /\ test = "binderized" => late \subseteq Passthrough
    /\ pc \in {"minor", "allow"} =>
          /\ cur \in Passthrough
          /\ minor \in 0 .. cur.name.minor
          /\ cur \notin late =>
                \A k \in (minor + 1) .. cur.name.minor : ~Fits(Version(cur, k), "passthrough")
    /\ pc = "allow" => Fits(Tried, "passthrough") /\ HasTried(service[Tried].chain)

\* What is said of an entry before it is reached, and after it has been left.
Blank(e) ==
    \A kind \in Kind \ {"notAllowed"}, l \in Link :
        <<kind, e, l>> \in failures <=>
            test # "omr1_binderized" /\ kind = "transport" /\ Deserved(kind, e, l)

Complete(e) ==
    \A kind \in Kind \ {"notAllowed"}, l \in Link :
        <<kind, e, l>> \in failures <=> Deserved(kind, e, l)

\* ... and in the middle of its chain.
Partial(e) ==
    \A kind \in Kind \ {"notAllowed"}, l \in Link :
        <<kind, e, l>> \in failures <=>
            \E i \in 1 .. (link - 1) :
                <<kind, e, l>> \in LinkFailures(e, chain[i], hashes[i])

ReportOf(e) ==
    /\ e \in todo \/ (pc \in Working \ {"links"} /\ e = cur) => Blank(e)
    /\ pc = "links" /\ e = cur => Partial(e)
    /\ Behind(e) /\ e \notin late /\ e \notin silent => Complete(e)

ReportInv == pc # "collect" => \A e \in manifest : ReportOf(e)

\* What may be passthrough: what a service the test has retrieved allows, and,
\* if none was too late, what those of the entries left behind allow.
AllowedInv ==
    test = "binderized" =>
        /\ \A l \in allowed : \E n \in Name : Fits(n, "passthrough") /\ Allows(n, l)
        /\ late = {} =>
              \A l \in Name :
                  l \in allowed <=>
                      \E d \in Passthrough : /\ Behind(d)
                                             /\ \E m \in Highest(d) : Allows(Version(d, m), l)

NotAllowedInv ==
    \A e \in manifest, l \in Link :
        <<"notAllowed", e, l>> \in failures <=>
            /\ l = e.name
            /\ e \in Passthrough
            /\ \/ test = "omr1_binderized" /\ e \notin todo /\ l.package \notin PassthroughHals
               \/ test = "binderized" /\ pc = "done" /\ l \notin allowed

Inv ==
    /\ TypeOK
    /\ LoopInv
    /\ FaultInv
    /\ ChainInv
    /\ MinorInv
    /\ ReportInv
    /\ AllowedInv
    /\ NotAllowedInv
    /\ FaultsContained

-----------------------------------------------------------------------------
(* Names, services and rules.                                              *)

\* The type invariant of the part Init fixes.
LEMMA FixedTypes ==
    ASSUME TypeOK
    PROVE  /\ manifest \subseteq Entry
           /\ service \in [Name -> Service \cup {NoService}]
           /\ \A e \in Entry : e.name \in Name /\ e.name.minor \in 0 .. MaxMinor
BY ManifestAssumption DEF TypeOK, Entry, Name

\* A name with another minor version in use is a name.
LEMMA VersionName ==
    ASSUME TypeOK, NEW e \in Entry, NEW m \in 0 .. MaxMinor
    PROVE  /\ Version(e, m) \in Name
           /\ Version(e, m).minor = m
           /\ Version(e, m).package = e.name.package
BY ManifestAssumption DEF Entry, Name, Version

LEMMA LookedUpName == ASSUME TypeOK, NEW e \in Entry PROVE LookedUp(e) \in Name
BY ManifestAssumption DEF Entry, Name, LookedUp, Lowest

\* A service a lookup gives has a chain of interfaces and one of hashes.
LEMMA FitsService ==
    ASSUME TypeOK, NEW n \in Name, NEW t, Fits(n, t)
    PROVE  /\ service[n] \in Service
           /\ service[n].chain \in Seq(Link)
           /\ service[n].hashes \in Seq(Hash)
           /\ DOMAIN service[n].chain = 1 .. Len(service[n].chain)
           /\ Len(service[n].chain) \in Nat
<1>1. service[n] \in Service
    BY FixedTypes DEF Fits
<1> QED
    BY <1>1 DEF Service

LEMMA AllowedLinksType ==
    ASSUME NEW c \in Seq(Link)
    PROVE  AllowedLinks(c) \subseteq Name
BY DEF AllowedLinks, Link

\* Reading the chain from its end finds what extends an allowed interface.
LEMMA AllowedLinksMeaning ==
    ASSUME NEW c \in Seq(Link), NEW l
    PROVE  l \in AllowedLinks(c) <=>
               /\ l # BadName
               /\ \E i, j \in DOMAIN c : i <= j /\ c[i] = l /\ MayBePassthrough(c[j])
<1>1. DOMAIN c = 1 .. Len(c) /\ Len(c) \in Nat
    OBVIOUS
<1>2. ASSUME NEW i \in DOMAIN c
      PROVE  (\E j \in i .. Len(c) : MayBePassthrough(c[j]))
                 <=> \E j \in DOMAIN c : i <= j /\ MayBePassthrough(c[j])
    BY <1>1
<1> QED
    BY <1>2 DEF AllowedLinks

LEMMA GetPassthroughHalsType ==
    ASSUME TypeOK
    PROVE  \A l \in Link : l \in GetPassthroughHals <=> DeclaredPassthrough(l)
<1>1. ASSUME NEW l \in Name, NEW e \in Passthrough
      PROVE  l \in DownRevs(e.name) <=> e.name.package = l.package /\ l.minor <= e.name.minor
  <2>1. e.name \in Name /\ e \in Entry
      BY FixedTypes DEF Passthrough
  <2>2. e.name.minor \in Nat /\ e.name.minor <= MaxMinor /\ l.minor \in Nat
      BY <2>1, ManifestAssumption DEF Name
  <2>3. ASSUME NEW m \in 0 .. e.name.minor
        PROVE  [e.name EXCEPT !.minor = m] = [package |-> e.name.package, minor |-> m]
      BY <2>1 DEF Name
  <2>4. l = [package |-> l.package, minor |-> l.minor]
      BY DEF Name
  <2>5. ASSUME l \in DownRevs(e.name)
        PROVE  e.name.package = l.package /\ l.minor <= e.name.minor
    <3>1. PICK m \in 0 .. e.name.minor : l = [e.name EXCEPT !.minor = m]
        BY <2>5 DEF DownRevs
    <3>2. l = [package |-> e.name.package, minor |-> m]
        BY <2>3, <3>1
    <3> QED
        BY <2>2, <3>2
  <2>6. ASSUME e.name.package = l.package, l.minor <= e.name.minor
        PROVE  l \in DownRevs(e.name)
    <3>1. l.minor \in 0 .. e.name.minor
        BY <2>2, <2>6
    <3>2. l = [e.name EXCEPT !.minor = l.minor]
        BY <2>3, <2>4, <2>6, <3>1
    <3> QED
        BY <3>1, <3>2 DEF DownRevs
  <2> QED
      BY <2>5, <2>6
<1>2. ASSUME NEW e \in Passthrough
      PROVE  BadName \notin DownRevs(e.name)
  <2>1. ASSUME NEW m \in 0 .. e.name.minor
        PROVE  [e.name EXCEPT !.minor = m] \in Name
      BY FixedTypes, ManifestAssumption DEF Passthrough, Name, Entry
  <2> QED
      BY <2>1, ManifestAssumption DEF DownRevs
<1>3. \A l \in Name : l \in GetPassthroughHals <=> DeclaredPassthrough(l)
    BY <1>1, ManifestAssumption DEF GetPassthroughHals, DeclaredPassthrough
<1>4. BadName \notin GetPassthroughHals /\ ~DeclaredPassthrough(BadName)
    BY <1>2 DEF GetPassthroughHals, DeclaredPassthrough
<1> QED
    BY <1>3, <1>4 DEF Link

\* The rules depend on what Init fixes only.
LEMMA RulesFixed ==
    ASSUME UNCHANGED fixed
    PROVE  /\ Passthrough' = Passthrough
           /\ \A n, t : Fits(n, t)' <=> Fits(n, t)
           /\ \A e : Served(e)' <=> Served(e)
           /\ \A e : LeftOut(e)' <=> LeftOut(e)
           /\ \A n, l : Allows(n, l)' <=> Allows(n, l)
           /\ \A kind, e, l : Deserved(kind, e, l)' <=> Deserved(kind, e, l)
           /\ \A e, m : Version(e, m)' = Version(e, m)
           /\ \A d : Highest(d)' = Highest(d)
<1> USE DEF fixed
<1>1. Passthrough' = Passthrough
    BY DEF Passthrough
<1>2. \A n, t : Fits(n, t)' <=> Fits(n, t)
    BY DEF Fits
<1>3. \A l : Exempt(l)' <=> Exempt(l)
    BY DEF Exempt, LegacyAndExempt
<1>4. \A e : LeftOut(e)' <=> LeftOut(e)
    BY <1>3 DEF LeftOut
<1>5. \A e : LookedUp(e)' = LookedUp(e)
    BY DEF LookedUp, Lowest
<1>6. \A e : (Asked(e)' <=> Asked(e)) /\ (Served(e)' <=> Served(e))
    BY <1>2, <1>4, <1>5 DEF Asked, Served
<1>7. \A n, l : (InChain(l, n)' <=> InChain(l, n)) /\ (Allows(n, l)' <=> Allows(n, l))
    BY DEF InChain, Allows, MayBePassthrough
<1>8. \A e, m : Version(e, m)' = Version(e, m)
    BY DEF Version
<1>9. \A d : Highest(d)' = Highest(d)
    BY <1>2 DEF Highest, Version
<1>10. \A e : (Hashed(e)' <=> Hashed(e)) /\ Parsed(e)' = Parsed(e)
    BY <1>6 DEF Hashed, Parsed
<1>11. \A l : (DeclaredPassthrough(l)' <=> DeclaredPassthrough(l))
    BY <1>1 DEF DeclaredPassthrough
<1>12. \A l : (LegacyAndExempt(l)' <=> LegacyAndExempt(l))
    BY DEF LegacyAndExempt
<1>13. \A kind, e, l : Deserved(kind, e, l)' <=> Deserved(kind, e, l)
    BY <1>1, <1>3, <1>5, <1>6, <1>7, <1>8, <1>9, <1>10, <1>11, <1>12 DEF Deserved
<1> QED
    BY <1>1, <1>2, <1>4, <1>6, <1>7, <1>8, <1>9, <1>13

-----------------------------------------------------------------------------
(* Types.                                                                  *)

\* What a step adds to the failures is of their type.
LEMMA FailureTypes ==
    ASSUME TypeOK, NEW e \in manifest
    PROVE  /\ TransportFailures \subseteq Kind \X manifest \X Link
           /\ MissingFailure(e) \subseteq Kind \X manifest \X Link
           /\ NotAllowed \subseteq Kind \X manifest \X Link
           /\ \A n \in Name : Fits(n, "passthrough") =>
                 /\ ChainFailures(e, service[n].chain) \subseteq Kind \X manifest \X Link
                 /\ ParseFailures(e, service[n].chain) \subseteq Kind \X manifest \X Link
           /\ \A l \in Link, h \in Hash : LinkFailures(e, l, h) \subseteq Kind \X manifest \X Link
<1>1. \A x \in manifest : x.name \in Link
    BY FixedTypes DEF Link
<1>2. TransportFailures \subseteq Kind \X manifest \X Link
    BY <1>1 DEF TransportFailures, Kind
<1>3. MissingFailure(e) \subseteq Kind \X manifest \X Link
    BY <1>1 DEF MissingFailure, Kind
<1>4. NotAllowed \subseteq Kind \X manifest \X Link
    BY <1>1 DEF NotAllowed, Passthrough, Kind
<1>5. ASSUME NEW n \in Name, Fits(n, "passthrough")
      PROVE  /\ ChainFailures(e, service[n].chain) \subseteq Kind \X manifest \X Link
             /\ ParseFailures(e, service[n].chain) \subseteq Kind \X manifest \X Link
  <2>1. service[n].chain \in Seq(Link) /\ BadName \in Link
      BY <1>5, FitsService DEF Link
  <2> QED
      BY <2>1 DEF ChainFailures, ParseFailures, Kind
<1>6. \A l \in Link, h \in Hash : LinkFailures(e, l, h) \subseteq Kind \X manifest \X Link
    BY DEF LinkFailures, Kind
<1> QED
    BY <1>2, <1>3, <1>4, <1>5, <1>6

LEMMA TypeInit == Init => TypeOK
<1> SUFFICES ASSUME Init PROVE TypeOK
    OBVIOUS
<1>1. apiLevel \in Nat
    BY ManifestAssumption DEF Init, ShippingApiLevel
<1>2. cur \in Entry /\ minor \in 0 .. MaxMinor
    BY ManifestAssumption DEF Init, Entry, Name, IBase
<1>3. chain \in Seq(Link) /\ hashes \in Seq(Hash)
    BY DEF Init
<1>4. pc \in {"collect", "loop"} /\ link \in Nat \ {0}
    BY DEF Init
<1>5. /\ test \in Tests /\ manifest \in Manifests /\ service \in Devices
      /\ todo = manifest /\ dead = FALSE
      /\ allowed = {} /\ failures = {} /\ late = {} /\ silent = {}
    BY DEF Init
<1> HIDE DEF Init
<1> QED
    BY <1>1, <1>2, <1>3, <1>4, <1>5 DEF TypeOK

\* The types, with where the test is and what it holds.
LEMMA TypeStep ==
    ASSUME TypeOK, LoopInv, ChainInv, MinorInv, [Next]_vars
    PROVE  TypeOK'
<1> USE DEF TypeOK
<1>1. CASE Collect
  <2>1. TransportFailures \subseteq Kind \X manifest \X Link
      BY FixedTypes DEF TransportFailures, Kind, Link
  <2> QED
      BY <1>1, <2>1 DEF Collect, Passthrough, fixed
<1>2. ASSUME NEW e \in manifest, LeaveOut(e) \/ Find(e) \/ Miss(e)
      PROVE  TypeOK'
  <2>1. e \in Entry
      BY FixedTypes
  <2> QED
      BY <1>2, <2>1, FailureTypes DEF LeaveOut, Find, Miss, fixed
<1>3. ASSUME NEW e \in manifest, CheckTransport(e)
      PROVE  TypeOK'
  <2>1. e.name \in Link
      BY FixedTypes DEF Link
  <2> QED
      BY <1>3, <2>1 DEF CheckTransport, Kind, fixed
<1>4. ASSUME NEW e \in manifest, TakeDeclared(e)
      PROVE  TypeOK'
  <2>1. e \in Entry /\ e.name.minor \in 0 .. MaxMinor
      BY FixedTypes
  <2> QED
      BY <1>4, <2>1 DEF TakeDeclared, fixed
<1>5. CASE CompareChain
  <2>1. cur \in manifest /\ Fits(LookedUp(cur), cur.transport) /\ cur \in Entry
      BY <1>5 DEF LoopInv, CompareChain, Working, Served
  <2>2. LookedUp(cur) \in Name /\ Fits(LookedUp(cur), "passthrough")
      BY <1>5, <2>1, LookedUpName DEF CompareChain, LoopInv, Served, Asked, LeftOut
  <2> QED
      BY <1>5, <2>1, <2>2, FailureTypes DEF CompareChain, fixed
<1>6. CASE ServiceDies
    BY <1>6 DEF ServiceDies, fixed
<1>7. CASE ReadChain \/ ReadHashes
  <2>1. cur \in manifest /\ cur.name \in Name /\ cur.name \in Link
      BY <1>7, FixedTypes DEF LoopInv, ReadChain, ReadHashes, Working, Link
  <2>2. Fits(cur.name, cur.transport)
      BY <1>7 DEF LoopInv, ReadChain, ReadHashes, Served, LookedUp, Released
  <2>3. service[cur.name].chain \in Seq(Link) /\ service[cur.name].hashes \in Seq(Hash)
      BY <2>1, <2>2, FitsService
  <2>4. CASE ReadChain
      BY <2>1, <2>3, <2>4 DEF ReadChain, fixed
  <2>5. CASE ReadHashes
      BY <2>1, <2>3, <2>5 DEF ReadHashes, Kind, fixed
  <2> QED
      BY <1>7, <2>4, <2>5
<1>8. CASE CheckLink
  <2>1. cur \in manifest /\ link \in 1 .. Len(chain) /\ Len(chain) = Len(hashes)
      BY <1>8 DEF LoopInv, ChainInv, CheckLink, Working
  <2>2. chain[link] \in Link /\ hashes[link] \in Hash
      BY <2>1
  <2> QED
      BY <1>8, <2>1, <2>2, FailureTypes DEF CheckLink, fixed
<1>9. CASE RejectLink \/ EndOfLinks
    BY <1>9 DEF LoopInv, RejectLink, EndOfLinks, Working, Kind, Link, fixed
<1>10. CASE Retrieve
  <2>1. cur \in manifest /\ Tried \in Link
      BY <1>10, VersionName DEF LoopInv, Retrieve, Working, Tried, Version, Link
  <2> QED
      BY <1>10, <2>1 DEF Retrieve, Kind, fixed
<1>11. CASE TryLower
  <2>1. cur \in manifest /\ (minor # 0 => minor - 1 \in 0 .. MaxMinor)
      BY <1>11, ManifestAssumption DEF LoopInv, TryLower, Working
  <2> QED
      BY <1>11, <2>1 DEF TryLower, fixed
<1>12. CASE Allow
  <2>1. cur \in manifest /\ Tried \in Name /\ Fits(Tried, "passthrough")
      BY <1>12, VersionName DEF LoopInv, MinorInv, Allow, Working, Tried, Version
  <2>2. service[Tried].chain \in Seq(Link)
      BY <2>1, FitsService
  <2>3. AllowedLinks(service[Tried].chain) \subseteq Name
      BY <2>2, AllowedLinksType
  <2>4. ParseFailures(cur, service[Tried].chain) \subseteq Kind \X manifest \X Link
      BY <2>1, FailureTypes
  <2> QED
      BY <1>12, <2>3, <2>4 DEF Allow, fixed
<1>13. CASE Finish
  <2>1. NotAllowed \subseteq Kind \X manifest \X Link
      BY FixedTypes DEF NotAllowed, Passthrough, Kind, Link
  <2> QED
      BY <1>13, <2>1 DEF Finish, fixed
<1>14. CASE UNCHANGED vars
    BY <1>14 DEF vars
<1> QED
    BY <1>1, <1>2, <1>3, <1>4, <1>5, <1>6, <1>7, <1>8, <1>9, <1>10, <1>11, <1>12, <1>13,
       <1>14 DEF Next

-----------------------------------------------------------------------------
(* Where the test is.                                                      *)

StateInv == LoopInv /\ FaultInv /\ ChainInv /\ MinorInv

LEMMA StateInit == Init => StateInv
BY DEF Init, StateInv, LoopInv, FaultInv, ChainInv, MinorInv, Working

\* The steps of the loops over entries.
LEMMA LoopKeepsState ==
    ASSUME TypeOK, StateInv,
           Collect \/ Finish \/ \E e \in manifest :
               LeaveOut(e) \/ Find(e) \/ Miss(e) \/ CheckTransport(e) \/ TakeDeclared(e)
    PROVE  StateInv'
<1> USE DEF StateInv, Lookups, Released
<1>1. UNCHANGED fixed
    BY DEF Collect, Finish, LeaveOut, Find, Miss, CheckTransport, TakeDeclared
<1>2. CASE Collect \/ Finish
  <2>1. LoopInv'
      BY <1>2 DEF LoopInv, Working, Collect, Finish
  <2>2. FaultInv'
      BY <1>1, <1>2 DEF LoopInv, FaultInv, Working, Passthrough, Collect, Finish, fixed
  <2>3. ChainInv'
      BY <1>2 DEF ChainInv, Collect, Finish
  <2>4. MinorInv'
      BY <1>1, <1>2, RulesFixed DEF MinorInv, Collect, Finish, fixed
  <2> QED
      BY <2>1, <2>2, <2>3, <2>4
<1>3. ASSUME NEW e \in manifest, LeaveOut(e) \/ Miss(e) \/ CheckTransport(e)
      PROVE  StateInv'
  <2> USE <1>3 DEF LeaveOut, Miss, CheckTransport
  <2>1. LoopInv'
      BY DEF LoopInv, Working
  <2>2. FaultInv'
      BY <1>1 DEF LoopInv, FaultInv, Working, fixed
  <2>3. ChainInv'
      BY DEF ChainInv
  <2>4. MinorInv'
      BY <1>1, RulesFixed DEF MinorInv, fixed
  <2> QED
      BY <2>1, <2>2, <2>3, <2>4
<1>4. ASSUME NEW e \in manifest, Find(e)
      PROVE  StateInv'
  <2> USE <1>4 DEF Find
  <2>1. Served(e) /\ Served(e)' /\ e \notin late
      BY <1>1, RulesFixed DEF Served, Asked, FaultInv
  <2>2. LoopInv'
      BY <1>1, <2>1 DEF LoopInv, Working, fixed
  <2>3. FaultInv'
      BY <1>1 DEF LoopInv, FaultInv, Working, fixed
  <2>4. ChainInv'
      BY DEF ChainInv
  <2>5. MinorInv'
      BY <1>1, RulesFixed DEF MinorInv, fixed
  <2> QED
      BY <2>2, <2>3, <2>4, <2>5
<1>5. ASSUME NEW e \in manifest, TakeDeclared(e)
      PROVE  StateInv'
  <2> USE <1>5 DEF TakeDeclared
  <2>1. LoopInv'
      BY <1>1 DEF LoopInv, Working, fixed
  <2>2. FaultInv'
      BY <1>1 DEF LoopInv, FaultInv, Working, fixed
  <2>3. ChainInv'
      BY DEF ChainInv
  <2>4. MinorInv'
    <3>1. e \in Passthrough /\ e.name.minor \in Nat
        BY FixedTypes DEF MinorInv
    <3>2. (e.name.minor + 1) .. e.name.minor = {}
        BY <3>1
    <3> QED
        BY <1>1, <3>1, <3>2, RulesFixed DEF MinorInv, fixed
  <2> QED
      BY <2>1, <2>2, <2>3, <2>4
<1> QED
    BY <1>2, <1>3, <1>4, <1>5

\* The steps with a service in hand.
LEMMA ChainKeepsState ==
    ASSUME TypeOK, StateInv,
           CompareChain \/ ServiceDies \/ ReadChain \/ ReadHashes
           \/ CheckLink \/ RejectLink \/ EndOfLinks
    PROVE  StateInv'
<1> USE DEF StateInv, Released
<1>1. UNCHANGED fixed
    BY DEF CompareChain, ServiceDies, ReadChain, ReadHashes, CheckLink, RejectLink, EndOfLinks
<1>2. LoopInv'
    BY <1>1, RulesFixed DEF LoopInv, Working, CompareChain, ServiceDies, ReadChain,
       ReadHashes, CheckLink, RejectLink, EndOfLinks, fixed
<1>3. FaultInv'
    BY <1>1 DEF LoopInv, FaultInv, Working, CompareChain, ServiceDies, ReadChain,
       ReadHashes, CheckLink, RejectLink, EndOfLinks, fixed
<1>4. MinorInv'
    BY <1>1, RulesFixed DEF LoopInv, MinorInv, Working, CompareChain, ServiceDies, ReadChain,
       ReadHashes, CheckLink, RejectLink, EndOfLinks, fixed
<1>5. ChainInv'
  <2>1. CASE CompareChain \/ RejectLink \/ EndOfLinks
      BY <2>1 DEF ChainInv, CompareChain, RejectLink, EndOfLinks
  <2>2. CASE ServiceDies
      BY <2>2 DEF ChainInv, ServiceDies, fixed
  <2>3. CASE ReadChain
      BY <2>3 DEF ChainInv, FaultInv, ReadChain, fixed
  <2>4. CASE ReadHashes
    <3>1. pc' = "links" => Len(chain) = Len(hashes') /\ link' = 1
        BY <2>4 DEF ReadHashes
    <3>2. 1 .. (1 - 1) = {} /\ Len(chain) \in Nat
        BY DEF TypeOK
    <3>3. CASE dead
      <4>1. pc' = "links" => chain = <<>>
          BY <2>4, <3>1, <3>3 DEF ReadHashes, TypeOK
      <4> QED
          BY <2>4, <3>1, <3>2, <3>3, <4>1 DEF ChainInv, ReadHashes, fixed
    <3>4. CASE ~dead
        BY <2>4, <3>1, <3>2, <3>4 DEF ChainInv, ReadHashes, fixed
    <3> QED
        BY <3>3, <3>4
  <2>5. CASE CheckLink
    <3>1. link \in 1 .. Len(chain) /\ Len(chain) \in Nat
        BY <2>5 DEF TypeOK, CheckLink
    <3>2. link' <= Len(chain) + 1 /\ 1 .. (link' - 1) = (1 .. (link - 1)) \cup {link}
        BY <2>5, <3>1 DEF CheckLink
    <3> QED
        BY <2>5, <3>1, <3>2 DEF ChainInv, CheckLink, fixed
  <2> QED
      BY <2>1, <2>2, <2>3, <2>4, <2>5
<1> QED
    BY <1>2, <1>3, <1>4, <1>5

\* The steps of GetPassthroughService and what is made of its result.
LEMMA MinorKeepsState ==
    ASSUME TypeOK, StateInv, Retrieve \/ TryLower \/ Allow
    PROVE  StateInv'
<1> USE DEF StateInv
<1>1. UNCHANGED fixed /\ cur' = cur
    BY DEF Retrieve, TryLower, Allow
<1>2. LoopInv'
    BY <1>1 DEF LoopInv, Working, Retrieve, TryLower, Allow, fixed
<1>3. FaultInv'
    BY <1>1 DEF LoopInv, FaultInv, Working, Released, Retrieve, TryLower, Allow, fixed
<1>4. ChainInv'
    BY DEF ChainInv, Retrieve, TryLower, Allow
<1>5. MinorInv'
  <2>1. CASE Retrieve
    <3>1. Tried' = Tried
        BY <1>1, <2>1 DEF Tried, Retrieve
    <3>2. HasTried(service[Tried].chain)' <=> HasTried(service[Tried].chain)
        BY <1>1, <3>1 DEF HasTried, fixed
    <3> QED
        BY <1>1, <2>1, <3>1, <3>2, RulesFixed DEF MinorInv, Retrieve, fixed
  <2>2. CASE TryLower
    <3>1. Tried = Version(cur, minor) /\ cur.name.minor \in Nat /\ minor \in Nat
        BY FixedTypes DEF Tried, Version, TypeOK
    <3>2. CASE minor = 0
        BY <1>1, <2>2, <3>2, RulesFixed DEF MinorInv, TryLower, fixed
    <3>3. CASE minor # 0
      <4>1. pc' = pc /\ minor' = minor - 1 /\ pc = "minor" /\ minor <= cur.name.minor
          BY <2>2, <3>3 DEF TryLower, MinorInv
      <4>2. (minor' + 1) .. cur.name.minor = {minor} \cup ((minor + 1) .. cur.name.minor)
          BY <3>1, <4>1
      <4>3. cur \notin late' => cur \notin late /\ ~Fits(Version(cur, minor), "passthrough")
          BY <2>2, <3>1 DEF TryLower
      <4>4. minor' \in 0 .. cur.name.minor
          BY <3>1, <3>3, <4>1
      <4>5. cur \in Passthrough /\ (cur \notin late =>
                \A k \in (minor + 1) .. cur.name.minor : ~Fits(Version(cur, k), "passthrough"))
          BY <4>1 DEF MinorInv
      <4>6. cur \notin late' =>
                \A k \in (minor' + 1) .. cur.name.minor : ~Fits(Version(cur, k), "passthrough")
          BY <4>2, <4>3, <4>5
      <4>7. pc' # "allow" /\ pc' # "collect" /\ todo' = todo
          BY <2>2, <4>1 DEF TryLower
      <4>8. test = "binderized" => late' \subseteq Passthrough
          BY <2>2, <4>5 DEF TryLower, MinorInv
      <4> QED
          BY <1>1, <4>1, <4>4, <4>5, <4>6, <4>7, <4>8, RulesFixed DEF MinorInv, fixed
    <3> QED
        BY <3>2, <3>3
  <2>3. CASE Allow
      BY <1>1, <2>3, RulesFixed DEF MinorInv, Allow, fixed
  <2> QED
      BY <2>1, <2>2, <2>3
<1> QED
    BY <1>2, <1>3, <1>4, <1>5

LEMMA StateStep ==
    ASSUME TypeOK, StateInv, [Next]_vars
    PROVE  StateInv'
<1>1. CASE UNCHANGED vars
  <2>1. UNCHANGED fixed
      BY <1>1 DEF vars, fixed
  <2>2. LoopInv' /\ FaultInv' /\ ChainInv'
      BY <1>1, <2>1, RulesFixed DEF StateInv, LoopInv, FaultInv, ChainInv, vars
  <2>3. MinorInv'
      BY <1>1, <2>1, RulesFixed DEF StateInv, MinorInv, Tried, HasTried, vars
  <2> QED
      BY <2>2, <2>3 DEF StateInv
<1> QED
    BY <1>1, LoopKeepsState, ChainKeepsState, MinorKeepsState DEF Next

-----------------------------------------------------------------------------
(* What is reported of one entry.                                          *)

\* A step at another entry, which says nothing of this one.
LEMMA OtherEntry ==
    ASSUME TypeOK, ReportInv, pc # "collect", UNCHANGED fixed, NEW e \in manifest,
           \A kind \in Kind \ {"notAllowed"}, l \in Link :
               <<kind, e, l>> \in failures' <=> <<kind, e, l>> \in failures,
           e \in todo' <=> e \in todo,
           ~(pc \in Working /\ e = cur), ~(pc' \in Working /\ e = cur'),
           late \subseteq late', silent \subseteq silent'
    PROVE  ReportOf(e)'
<1>1. ReportOf(e)
    BY DEF ReportInv
<1>2. /\ Blank(e) => Blank(e)'
      /\ Complete(e) => Complete(e)'
    BY RulesFixed DEF Blank, Complete, fixed
<1> QED
    BY <1>1, <1>2 DEF ReportOf, Behind, Working

\* A step at an entry that says nothing of it and does not leave it.
LEMMA SameEntry ==
    ASSUME TypeOK, ReportInv, pc # "collect", UNCHANGED fixed, NEW e \in manifest,
           e \in todo \/ (pc \in Working \ {"links"} /\ e = cur),
           UNCHANGED failures, pc' \in Working \ {"links"}, e = cur'
    PROVE  ReportOf(e)'
<1>1. Blank(e)
    BY DEF ReportInv, ReportOf
<1>2. Blank(e)'
    BY <1>1, RulesFixed DEF Blank, fixed
<1> QED
    BY <1>2 DEF ReportOf, Behind, Working

\* A step that leaves an entry: it has been given what it deserves.
LEMMA LeftEntry ==
    ASSUME TypeOK, UNCHANGED fixed, NEW e \in manifest,
           e \notin todo', pc' = "loop",
           e \notin late' /\ e \notin silent' =>
               \A kind \in Kind \ {"notAllowed"}, l \in Link :
                   <<kind, e, l>> \in failures' <=> Deserved(kind, e, l)
    PROVE  ReportOf(e)'
<1>1. e \notin late' /\ e \notin silent' => Complete(e)'
    BY RulesFixed DEF Complete, fixed
<1> QED
    BY <1>1 DEF ReportOf, Behind, Working

\* The rounds over the manifest.
LEMMA LoopKeepsReport ==
    ASSUME TypeOK, StateInv, ReportInv,
           Collect \/ Finish \/ \E e \in manifest :
               LeaveOut(e) \/ Find(e) \/ Miss(e) \/ CheckTransport(e) \/ TakeDeclared(e)
    PROVE  ReportInv'
<1>1. UNCHANGED fixed
    BY DEF Collect, Finish, LeaveOut, Find, Miss, CheckTransport, TakeDeclared
<1>2. CASE Collect
  <2>1. test \in {"binderized", "passthrough"} /\ failures' = TransportFailures
        /\ pc' = "loop"
      BY <1>2 DEF StateInv, LoopInv, Collect
  <2>2. ASSUME NEW e \in manifest, NEW kind \in Kind, NEW l \in Link
        PROVE  <<kind, e, l>> \in TransportFailures
                  <=> kind = "transport" /\ Deserved("transport", e, l)
      BY <2>1 DEF TransportFailures, Deserved, Lookups
  <2>3. ASSUME NEW e \in manifest, e \in todo'
        PROVE  Blank(e)'
      BY <1>1, <2>1, <2>2, RulesFixed DEF Blank, fixed
  <2>4. ASSUME NEW e \in manifest, e \notin todo'
        PROVE  Complete(e)'
    <3>1. test = "binderized" /\ e \notin Passthrough
        BY <1>2, <2>1, <2>4 DEF Collect
    <3>2. \A kind \in Kind \ {"notAllowed"}, l \in Link :
              Deserved(kind, e, l) => kind = "transport"
        BY <3>1 DEF Deserved, Asked, Hashed, Lookups
    <3> QED
        BY <1>1, <2>1, <2>2, <3>2, RulesFixed DEF Complete, fixed
  <2> QED
      BY <1>1, <2>1, <2>3, <2>4 DEF ReportInv, ReportOf, Behind, Working, fixed
<1>3. CASE Finish
  <2>1. ASSUME NEW e \in manifest
        PROVE  ReportOf(e)'
    <3>1. \A kind \in Kind \ {"notAllowed"}, l \in Link :
              <<kind, e, l>> \in failures' <=> <<kind, e, l>> \in failures
        BY <1>3 DEF Finish, NotAllowed
    <3> QED
        BY <1>1, <1>3, <3>1, OtherEntry DEF Finish, Working
  <2> QED
      BY <1>1, <2>1 DEF ReportInv, fixed
<1>4. ASSUME NEW e \in manifest, LeaveOut(e)
      PROVE  ReportInv'
  <2> USE <1>4 DEF LeaveOut
  <2>1. ASSUME NEW x \in manifest, x # e
        PROVE  ReportOf(x)'
      BY <1>1, <2>1, OtherEntry DEF Working
  <2>2. ReportOf(e)'
    <3>1. Blank(e)
        BY DEF ReportInv, ReportOf
    <3>2. \A kind \in Kind \ {"notAllowed"}, l \in Link :
              Deserved(kind, e, l) => kind = "transport"
        BY DEF Deserved, Asked, Served, Hashed, LeftOut
    <3>3. test # "omr1_binderized"
        BY DEF Lookups
    <3> QED
        BY <1>1, <3>1, <3>2, <3>3, LeftEntry DEF Blank
  <2> QED
      BY <1>1, <2>1, <2>2 DEF ReportInv, fixed
<1>5. ASSUME NEW e \in manifest, Find(e)
      PROVE  ReportInv'
  <2> USE <1>5 DEF Find
  <2>1. ASSUME NEW x \in manifest, x # e
        PROVE  ReportOf(x)'
      BY <1>1, <2>1, OtherEntry DEF Working
  <2>2. ReportOf(e)'
    <3>1. CASE test = "omr1_served"
      <4>1. Blank(e) /\ Served(e)
          BY DEF ReportInv, ReportOf, Served, Asked
      <4>2. \A kind \in Kind \ {"notAllowed"}, l \in Link : ~Deserved(kind, e, l)
          BY <3>1, <4>1 DEF Deserved, Hashed
      <4> QED
          BY <1>1, <3>1, <4>1, <4>2, LeftEntry DEF Blank
    <3>2. CASE test # "omr1_served"
        BY <1>1, <3>2, SameEntry DEF Working
    <3> QED
        BY <3>1, <3>2
  <2> QED
      BY <1>1, <2>1, <2>2 DEF ReportInv, fixed
<1>6. ASSUME NEW e \in manifest, Miss(e)
      PROVE  ReportInv'
  <2> USE <1>6 DEF Miss
  <2>1. ASSUME NEW x \in manifest, x # e
        PROVE  ReportOf(x)'
    <3>1. \A kind, l : <<kind, x, l>> \in failures' <=> <<kind, x, l>> \in failures
        BY <2>1 DEF MissingFailure
    <3> QED
        BY <1>1, <2>1, <3>1, OtherEntry DEF Working
  <2>2. ReportOf(e)'
    <3>1. Blank(e) /\ Asked(e) /\ test # "omr1_binderized" /\ test # "binderized"
        BY DEF ReportInv, ReportOf, Asked, Lookups
    <3>2. ASSUME e \notin late'
          PROVE  ~Served(e)
        BY <3>2 DEF Served
    <3>3. ASSUME ~Served(e), NEW kind \in Kind \ {"notAllowed"}, NEW l \in Link
          PROVE  Deserved(kind, e, l)
                    <=> \/ kind = "transport" /\ Deserved(kind, e, l)
                        \/ <<kind, e, l>> \in MissingFailure(e)
        BY <3>1, <3>3 DEF Deserved, Hashed, MissingFailure
    <3>4. \A kind, l : <<kind, e, l>> \in failures'
              <=> <<kind, e, l>> \in failures \/ <<kind, e, l>> \in MissingFailure(e)
        OBVIOUS
    <3> HIDE DEF Miss
    <3>5. e \notin todo' /\ pc' = "loop"
        BY DEF Miss
    <3> QED
        BY <1>1, <3>1, <3>2, <3>3, <3>4, <3>5, LeftEntry DEF Blank
  <2> QED
      BY <1>1, <2>1, <2>2 DEF ReportInv, fixed
<1>7. ASSUME NEW e \in manifest, CheckTransport(e)
      PROVE  ReportInv'
  <2> USE <1>7 DEF CheckTransport
  <2>1. ASSUME NEW x \in manifest, x # e
        PROVE  ReportOf(x)'
      BY <1>1, <2>1, OtherEntry DEF Working
  <2>2. ReportOf(e)'
    <3>1. Blank(e)
        BY DEF ReportInv, ReportOf
    <3>2. ASSUME NEW kind \in Kind \ {"notAllowed"}, NEW l \in Link
          PROVE  <<kind, e, l>> \in failures' <=> Deserved(kind, e, l)
        BY <3>1 DEF Blank, Deserved, Asked, Hashed, Lookups
    <3> QED
        BY <1>1, <3>2, LeftEntry
  <2> QED
      BY <1>1, <2>1, <2>2 DEF ReportInv, fixed
<1>8. ASSUME NEW e \in manifest, TakeDeclared(e)
      PROVE  ReportInv'
  <2> USE <1>8 DEF TakeDeclared
  <2>1. ASSUME NEW x \in manifest, x # e
        PROVE  ReportOf(x)'
      BY <1>1, <2>1, OtherEntry DEF Working
  <2>2. ReportOf(e)'
      BY <1>1, SameEntry DEF Working
  <2> QED
      BY <1>1, <2>1, <2>2 DEF ReportInv, fixed
<1> QED
    BY <1>2, <1>3, <1>4, <1>5, <1>6, <1>7, <1>8

\* What the interfaces of a chain deserve up to the first that cannot be parsed.
LEMMA LinksDeserved ==
    ASSUME TypeOK, test \in Released, NEW e \in manifest, Hashed(e), NEW k \in Nat,
           Parsed(e) = 1 .. k, NEW kind \in Kind \ {"notAllowed", "parse"}, NEW l \in Link
    PROVE  Deserved(kind, e, l)
              <=> \E i \in 1 .. k :
                     <<kind, e, l>> \in
                         LinkFailures(e, service[e.name].chain[i], service[e.name].hashes[i])
<1>1. test \in {"released", "omr1_released"} /\ Served(e)
    BY DEF Released, Hashed
<1>2. Deserved(kind, e, l)
         <=> \/ kind = "emptyHash" /\ test = "released" /\ \E i \in 1 .. k :
                   /\ service[e.name].chain[i] = l /\ service[e.name].hashes[i] = "empty"
                   /\ ~LegacyAndExempt(l)
             \/ kind = "unreleased" /\ \E i \in 1 .. k :
                   /\ service[e.name].chain[i] = l /\ service[e.name].hashes[i] # "released"
                   /\ IsPlatform(l)
    BY <1>1 DEF Deserved
<1>3. ASSUME NEW i \in 1 .. k
      PROVE  <<kind, e, l>> \in
                 LinkFailures(e, service[e.name].chain[i], service[e.name].hashes[i])
                <=> /\ service[e.name].chain[i] = l
                    /\ \/ /\ kind = "emptyHash" /\ test = "released"
                          /\ service[e.name].hashes[i] = "empty"
                          /\ ~LegacyAndExempt(l)
                       \/ /\ kind = "unreleased"
                          /\ service[e.name].hashes[i] # "released" /\ IsPlatform(l)
    BY DEF LinkFailures
<1> QED
    BY <1>2, <1>3

\* The end of a chain, or of the part of it that can be parsed.
LEMMA LinksDone ==
    ASSUME TypeOK, StateInv, ReportInv, pc = "links", UNCHANGED fixed,
           pc' = "loop", UNCHANGED <<todo, cur, late, silent>>,
           Parsed(cur) = 1 .. (link - 1) \/ cur \in silent,
           \A kind \in Kind \ {"notAllowed", "parse"}, l \in Link :
               <<kind, cur, l>> \in failures' <=> <<kind, cur, l>> \in failures,
           cur \notin silent => \A l \in Link :
               <<"parse", cur, l>> \in failures' <=> l = BadName /\ InChain(BadName, cur.name)
    PROVE  ReportOf(cur)'
<1>1. cur \in manifest /\ cur \notin todo /\ Partial(cur) /\ test \in Released /\ Served(cur)
    BY DEF StateInv, LoopInv, Working, ReportInv, ReportOf
<1>2. ASSUME cur \notin silent
      PROVE  \A kind \in Kind \ {"notAllowed"}, l \in Link :
                 <<kind, cur, l>> \in failures' <=> Deserved(kind, cur, l)
  <2>1. /\ Len(chain) = Len(hashes)
        /\ chain = service[cur.name].chain
        /\ hashes = service[cur.name].hashes
      BY <1>2 DEF StateInv, ChainInv
  <2>2. Hashed(cur)
      BY <1>1, <2>1 DEF Hashed, Released
  <2>3. link - 1 \in Nat
      BY DEF TypeOK
  <2>4. ASSUME NEW kind \in Kind \ {"notAllowed", "parse"}, NEW l \in Link
        PROVE  <<kind, cur, l>> \in failures' <=> Deserved(kind, cur, l)
    <3>1. <<kind, cur, l>> \in failures
              <=> \E i \in 1 .. (link - 1) :
                     <<kind, cur, l>> \in LinkFailures(cur, chain[i], hashes[i])
        BY <1>1 DEF Partial
    <3>2. Deserved(kind, cur, l)
              <=> \E i \in 1 .. (link - 1) :
                     <<kind, cur, l>> \in LinkFailures(cur, chain[i], hashes[i])
        BY <1>1, <1>2, <2>1, <2>2, <2>3, LinksDeserved
    <3> QED
        BY <3>1, <3>2
  <2>5. ASSUME NEW l \in Link
        PROVE  <<"parse", cur, l>> \in failures' <=> Deserved("parse", cur, l)
      BY <1>1, <1>2, <2>2 DEF Deserved, Released
  <2> QED
      BY <2>4, <2>5
<1>3. cur \notin todo' /\ silent' = silent
    BY <1>1
<1>4. cur \notin silent' => \A kind \in Kind \ {"notAllowed"}, l \in Link :
          <<kind, cur, l>> \in failures' <=> Deserved(kind, cur, l)
    BY <1>2, <1>3
<1> QED
    BY <1>1, <1>3, <1>4, LeftEntry

\* The steps with a service in hand.
LEMMA ChainKeepsReport ==
    ASSUME TypeOK, StateInv, ReportInv,
           CompareChain \/ ServiceDies \/ ReadChain \/ ReadHashes
           \/ CheckLink \/ RejectLink \/ EndOfLinks
    PROVE  ReportInv'
<1>1. /\ UNCHANGED <<fixed, todo, cur, late>>
      /\ pc \in {"chain", "hashes", "links"}
      /\ cur \in manifest /\ cur \notin todo /\ cur \notin late /\ Served(cur)
    BY DEF StateInv, LoopInv, Working, CompareChain, ServiceDies, ReadChain, ReadHashes,
       CheckLink, RejectLink, EndOfLinks
<1>2. ASSUME NEW x \in manifest, x # cur
      PROVE  ReportOf(x)'
  <2>1. \A kind, l : <<kind, x, l>> \in failures' <=> <<kind, x, l>> \in failures
      BY <1>2 DEF CompareChain, ServiceDies, ReadChain, ReadHashes, CheckLink, RejectLink,
         EndOfLinks, ChainFailures, LinkFailures
  <2>2. silent \subseteq silent'
      BY DEF CompareChain, ServiceDies, ReadChain, ReadHashes, CheckLink, RejectLink,
         EndOfLinks
  <2> QED
      BY <1>1, <1>2, <2>1, <2>2, OtherEntry
<1>3. ReportOf(cur)'
  <2>1. CASE CompareChain
    <3>1. Blank(cur) /\ test = "passthrough"
        BY <2>1, <1>1 DEF CompareChain, ReportInv, ReportOf, Working
    <3>2. LookedUp(cur) \in Name /\ Fits(LookedUp(cur), cur.transport)
        BY <1>1, FixedTypes, LookedUpName DEF Served
    <3>3. service[LookedUp(cur)].chain \in Seq(Link)
        BY <3>2, FitsService
    <3>4. ASSUME NEW kind, NEW l \in Link
          PROVE  <<kind, cur, l>> \in ChainFailures(cur, service[LookedUp(cur)].chain)
                    <=> /\ kind = "undeclared"
                        /\ l # IBase /\ InChain(l, LookedUp(cur)) /\ ~DeclaredPassthrough(l)
        BY <3>3, GetPassthroughHalsType DEF ChainFailures, InChain
    <3>5. ASSUME NEW kind \in Kind \ {"notAllowed"}, NEW l \in Link
          PROVE  Deserved(kind, cur, l)
                    <=> \/ kind = "transport" /\ Deserved(kind, cur, l)
                        \/ <<kind, cur, l>> \in ChainFailures(cur, service[LookedUp(cur)].chain)
        BY <1>1, <3>1, <3>4 DEF Deserved, Hashed
    <3>6. ASSUME NEW kind \in Kind \ {"notAllowed"}, NEW l \in Link
          PROVE  <<kind, cur, l>> \in failures' <=> Deserved(kind, cur, l)
        BY <2>1, <3>1, <3>5 DEF CompareChain, Blank
    <3> QED
        BY <1>1, <2>1, <3>6, LeftEntry DEF CompareChain
  <2>2. CASE ServiceDies \/ ReadChain
      BY <1>1, <2>2, SameEntry DEF ServiceDies, ReadChain, Working
  <2>3. CASE ReadHashes
    <3>1. Blank(cur) /\ test \in Released /\ pc = "hashes"
        BY <1>1, <2>3 DEF ReadHashes, ReportInv, ReportOf, Working, StateInv, LoopInv
    <3>2. \A kind \in Kind \ {"notAllowed"}, l \in Link : <<kind, cur, l>> \notin failures
        BY <3>1 DEF Blank, Deserved, Released
    <3>3. CASE pc' = "links"
      <4>1. Partial(cur)'
          BY <1>1, <2>3, <3>2, <3>3 DEF ReadHashes, Partial
      <4> QED
          BY <1>1, <3>3, <4>1 DEF ReportOf, Behind, Working
    <3>4. CASE pc' # "links"
      <4>1. /\ pc' = "loop" /\ Len(chain) # Len(hashes')
            /\ failures' = failures \cup {<<"lengths", cur, cur.name>>}
          BY <2>3, <3>4 DEF ReadHashes
      <4>2. ASSUME cur \notin silent'
            PROVE  Len(service[cur.name].chain) # Len(service[cur.name].hashes)
        <5>1. ~dead /\ cur \notin silent
            BY <2>3, <4>2 DEF ReadHashes
        <5> QED
            BY <2>3, <3>1, <4>1, <5>1 DEF ReadHashes, StateInv, ChainInv
      <4>3. ASSUME cur \notin silent', NEW kind \in Kind \ {"notAllowed"}, NEW l \in Link
            PROVE  Deserved(kind, cur, l) <=> kind = "lengths" /\ l = cur.name
          BY <1>1, <3>1, <4>2, <4>3 DEF Deserved, Hashed, Released
      <4> QED
          BY <1>1, <3>2, <4>1, <4>3, LeftEntry
    <3> QED
        BY <3>3, <3>4
  <2>4. CASE CheckLink
    <3>1. Partial(cur) /\ link \in Nat \ {0}
        BY <1>1, <2>4 DEF CheckLink, ReportInv, ReportOf, TypeOK
    <3>2. link' = link + 1 /\ 1 .. (link' - 1) = (1 .. (link - 1)) \cup {link}
        BY <2>4, <3>1 DEF CheckLink
    <3>3. \A e, l, h : LinkFailures(e, l, h)' = LinkFailures(e, l, h)
        BY <1>1 DEF LinkFailures, IsPlatform, LegacyAndExempt, fixed
    <3>4. failures' = failures \cup LinkFailures(cur, chain[link], hashes[link])
          /\ UNCHANGED <<chain, hashes>> /\ cur' = cur
        BY <2>4 DEF CheckLink
    <3>5. Partial(cur)'
        BY <3>1, <3>2, <3>3, <3>4 DEF Partial
    <3> QED
        BY <1>1, <2>4, <3>5 DEF CheckLink, ReportOf, Behind, Working
  <2>5. CASE RejectLink \/ EndOfLinks
    <3> DEFINE c == service[cur.name].chain
    <3>1. /\ pc = "links" /\ pc' = "loop" /\ UNCHANGED silent
          /\ link \in Nat \ {0} /\ link <= Len(chain) + 1
          /\ Len(chain) \in Nat /\ DOMAIN chain = 1 .. Len(chain)
          /\ \A j \in 1 .. (link - 1) : chain[j] # BadName
          /\ cur \notin silent => chain = c
          /\ Partial(cur)
        BY <1>1, <2>5 DEF RejectLink, EndOfLinks, TypeOK, StateInv, ChainInv, ReportInv,
           ReportOf
    <3>2. \A l \in Link : <<"parse", cur, l>> \notin failures
      <4>1. \A l, m, h : <<"parse", cur, l>> \notin LinkFailures(cur, m, h)
          BY DEF LinkFailures
      <4>2. "parse" \in Kind \ {"notAllowed"}
          BY DEF Kind
      <4> QED
          BY <3>1, <4>1, <4>2 DEF Partial
    <3>3. \A kind \in Kind \ {"notAllowed", "parse"}, l \in Link :
              <<kind, cur, l>> \in failures' <=> <<kind, cur, l>> \in failures
        BY <2>5 DEF RejectLink, EndOfLinks
    <3>4. ASSUME cur \notin silent
          PROVE  /\ Parsed(cur) = 1 .. (link - 1)
                 /\ \A l \in Link : <<"parse", cur, l>> \in failures'
                        <=> l = BadName /\ InChain(BadName, cur.name)
      <4>1. chain = c
          BY <3>1, <3>4
      <4>2. CASE RejectLink
        <5>1. link \in DOMAIN c /\ c[link] = BadName
            BY <4>1, <4>2 DEF RejectLink
        <5>2. ASSUME NEW i \in DOMAIN c
              PROVE  i \in Parsed(cur) <=> i \in 1 .. (link - 1)
            BY <3>1, <4>1, <5>1 DEF Parsed
        <5>3. Parsed(cur) = 1 .. (link - 1)
            BY <3>1, <4>1, <5>1, <5>2 DEF Parsed
        <5>4. InChain(BadName, cur.name)
            BY <5>1 DEF InChain
        <5> QED
            BY <3>2, <4>2, <5>3, <5>4 DEF RejectLink
      <4>3. CASE EndOfLinks
        <5>1. link - 1 = Len(c) /\ DOMAIN c = 1 .. (link - 1)
            BY <3>1, <4>1, <4>3 DEF EndOfLinks
        <5>2. \A i \in DOMAIN c : c[i] # BadName
            BY <3>1, <4>1, <5>1
        <5>3. Parsed(cur) = 1 .. (link - 1)
            BY <3>1, <5>1, <5>2 DEF Parsed
        <5>4. ~InChain(BadName, cur.name)
            BY <5>2 DEF InChain
        <5> QED
            BY <3>2, <4>3, <5>3, <5>4 DEF EndOfLinks
      <4> QED
          BY <2>5, <4>2, <4>3
    <3> QED
        BY <1>1, <3>1, <3>3, <3>4, LinksDone
  <2> QED
      BY <2>1, <2>2, <2>3, <2>4, <2>5
<1> QED
    BY <1>1, <1>2, <1>3 DEF ReportInv, fixed

\* The version found when none above it is.
LEMMA HighestFound ==
    ASSUME TypeOK, NEW d \in Entry, NEW m \in 0 .. d.name.minor,
           \A k \in (m + 1) .. d.name.minor : ~Fits(Version(d, k), "passthrough")
    PROVE  /\ Fits(Version(d, m), "passthrough") => Highest(d) = {m}
           /\ m = 0 /\ ~Fits(Version(d, m), "passthrough") => Highest(d) = {}
<1>1. d.name.minor \in Nat
    BY FixedTypes
<1>2. ASSUME NEW k \in Highest(d), m = 0 \/ Fits(Version(d, m), "passthrough")
      PROVE  k = m
  <2>1. /\ k \in 0 .. d.name.minor /\ Fits(Version(d, k), "passthrough")
        /\ \A j \in (k + 1) .. d.name.minor : ~Fits(Version(d, j), "passthrough")
      BY DEF Highest
  <2>2. ~(k > m)
      BY <1>1, <2>1
  <2>3. k < m => m \in (k + 1) .. d.name.minor
      BY <1>1, <2>1
  <2>4. ~(k < m)
      BY <1>1, <1>2, <2>1, <2>3
  <2> QED
      BY <1>1, <2>1, <2>2, <2>4
<1> QED
    BY <1>2 DEF Highest

\* The steps of GetPassthroughService and what is made of its result.
LEMMA MinorKeepsReport ==
    ASSUME TypeOK, StateInv, ReportInv, Retrieve \/ TryLower \/ Allow
    PROVE  ReportInv'
<1>1. /\ UNCHANGED <<fixed, todo, cur, silent>>
      /\ pc \in {"minor", "allow"} /\ test = "binderized"
      /\ cur \in manifest /\ cur \notin todo /\ cur \in Passthrough
      /\ Blank(cur) /\ late \subseteq late'
    BY DEF StateInv, LoopInv, MinorInv, Working, ReportInv, ReportOf, Retrieve, TryLower, Allow
<1>2. ASSUME NEW x \in manifest, x # cur
      PROVE  ReportOf(x)'
  <2>1. \A kind, l : <<kind, x, l>> \in failures' <=> <<kind, x, l>> \in failures
      BY <1>2 DEF Retrieve, TryLower, Allow, ParseFailures
  <2> QED
      BY <1>1, <1>2, <2>1, OtherEntry
<1>3. ReportOf(cur)'
  <2>1. /\ Tried = Version(cur, minor) /\ cur \in Entry /\ minor \in 0 .. cur.name.minor
        /\ cur \notin late =>
              \A k \in (minor + 1) .. cur.name.minor : ~Fits(Version(cur, k), "passthrough")
      BY <1>1, FixedTypes DEF StateInv, MinorInv, Tried, Version
  <2>2. ASSUME cur \notin late, Fits(Tried, "passthrough")
        PROVE  Highest(cur) = {minor}
      BY <2>1, <2>2, HighestFound
  <2>3. ASSUME NEW kind \in Kind \ {"notAllowed"}, NEW l \in Link
        PROVE  Deserved(kind, cur, l)
                  <=> \/ kind = "transport" /\ Deserved(kind, cur, l)
                      \/ \E m \in Highest(cur) :
                            \/ kind = "chain" /\ l = Version(cur, m) /\ ~InChain(l, l)
                            \/ /\ kind = "parse" /\ l = BadName
                               /\ InChain(Version(cur, m), Version(cur, m))
                               /\ InChain(l, Version(cur, m))
      BY <1>1 DEF Deserved, Asked, Hashed, Lookups
  <2>4. HasTried(service[Tried].chain) <=> InChain(Tried, Tried)
      BY DEF HasTried, InChain
  <2>5. CASE Retrieve /\ pc' = "loop"
    <3>1. /\ Fits(Tried, "passthrough") /\ ~InChain(Tried, Tried) /\ UNCHANGED late
          /\ failures' = failures \cup {<<"chain", cur, Tried>>}
        BY <2>4, <2>5 DEF Retrieve
    <3>2. ASSUME cur \notin late, NEW kind \in Kind \ {"notAllowed"}, NEW l \in Link
          PROVE  <<kind, cur, l>> \in failures' <=> Deserved(kind, cur, l)
        BY <1>1, <2>1, <2>2, <2>3, <3>1, <3>2 DEF Blank
    <3> QED
        BY <1>1, <2>5, <3>1, <3>2, LeftEntry
  <2>6. CASE Retrieve /\ pc' # "loop"
      BY <1>1, <2>6, SameEntry DEF Retrieve, Working
  <2>7. CASE TryLower /\ pc' = "loop"
    <3>1. minor = 0 /\ UNCHANGED failures
          /\ (cur \notin late' => cur \notin late /\ ~Fits(Tried, "passthrough"))
        BY <2>7 DEF TryLower
    <3>2. ASSUME cur \notin late'
          PROVE  Highest(cur) = {}
        BY <2>1, <3>1, <3>2, HighestFound
    <3>3. ASSUME cur \notin late', NEW kind \in Kind \ {"notAllowed"}, NEW l \in Link
          PROVE  <<kind, cur, l>> \in failures' <=> Deserved(kind, cur, l)
        BY <1>1, <2>3, <3>1, <3>2, <3>3 DEF Blank
    <3> QED
        BY <1>1, <2>7, <3>3, LeftEntry
  <2>8. CASE TryLower /\ pc' # "loop"
    <3>1. pc' = "minor" /\ pc = "minor" /\ UNCHANGED failures
        BY <2>8 DEF TryLower
    <3> QED
        BY <1>1, <3>1, SameEntry DEF Working
  <2>9. CASE Allow
    <3>1. /\ Fits(Tried, "passthrough") /\ InChain(Tried, Tried) /\ UNCHANGED late
          /\ failures' = failures \cup ParseFailures(cur, service[Tried].chain)
          /\ pc' = "loop"
        BY <2>4, <2>9 DEF Allow, StateInv, MinorInv
    <3>2. ASSUME NEW kind, NEW l
          PROVE  <<kind, cur, l>> \in ParseFailures(cur, service[Tried].chain)
                    <=> kind = "parse" /\ l = BadName /\ InChain(l, Tried)
        BY DEF ParseFailures, InChain
    <3>3. ASSUME cur \notin late, NEW kind \in Kind \ {"notAllowed"}, NEW l \in Link
          PROVE  <<kind, cur, l>> \in failures' <=> Deserved(kind, cur, l)
      <4>1. Deserved(kind, cur, l)
               <=> \/ kind = "transport" /\ Deserved(kind, cur, l)
                   \/ kind = "parse" /\ l = BadName /\ InChain(l, Tried)
          BY <2>1, <2>2, <2>3, <3>1, <3>3
      <4> QED
          BY <1>1, <3>1, <3>2, <4>1 DEF Blank
    <3> QED
        BY <1>1, <3>1, <3>3, LeftEntry
  <2> QED
      BY <2>5, <2>6, <2>7, <2>8, <2>9
<1> QED
    BY <1>1, <1>2, <1>3 DEF ReportInv, fixed

LEMMA ReportStep ==
    ASSUME TypeOK, StateInv, ReportInv, [Next]_vars
    PROVE  ReportInv'
<1>1. CASE UNCHANGED vars
  <2>1. UNCHANGED fixed
      BY <1>1 DEF vars, fixed
  <2>2. \A e, l, h : LinkFailures(e, l, h)' = LinkFailures(e, l, h)
      BY <2>1 DEF LinkFailures, IsPlatform, LegacyAndExempt, fixed
  <2> QED
      BY <1>1, <2>1, <2>2, RulesFixed DEF ReportInv, ReportOf, Blank, Partial, Complete,
         Behind, vars
<1> QED
    BY <1>1, LoopKeepsReport, ChainKeepsReport, MinorKeepsReport DEF Next

-----------------------------------------------------------------------------
(* What may be passthrough.                                                *)

LEMMA AllowedStep ==
    ASSUME TypeOK, StateInv, AllowedInv, [Next]_vars
    PROVE  AllowedInv'
<1> SUFFICES ASSUME test' = "binderized"
             PROVE  AllowedInv'
    BY DEF AllowedInv
<1>1. UNCHANGED fixed /\ test = "binderized" /\ late \subseteq late'
    BY DEF Next, Collect, Finish, LeaveOut, Find, Miss, CheckTransport, TakeDeclared,
       CompareChain, ServiceDies, ReadChain, ReadHashes, CheckLink, RejectLink, EndOfLinks,
       Retrieve, TryLower, Allow, fixed, vars
<1>2. /\ Passthrough' = Passthrough
      /\ \A n : Fits(n, "passthrough")' <=> Fits(n, "passthrough")
      /\ \A n, l : Allows(n, l)' <=> Allows(n, l)
      /\ \A d, m : Version(d, m)' = Version(d, m)
      /\ \A d : Highest(d)' = Highest(d)
    BY <1>1, RulesFixed
\* Steps that allow nothing, at an entry that allows nothing if it is left.
<1>3. ASSUME UNCHANGED allowed,
             \A d \in Passthrough : (Behind(d)' <=> Behind(d))
                 \/ (late' = {} => ~Behind(d)
                        /\ \A l \in Name : \A m \in Highest(d) : ~Allows(Version(d, m), l))
      PROVE  AllowedInv'
  <2>1. \A l \in allowed' : \E n \in Name : Fits(n, "passthrough")' /\ Allows(n, l)'
      BY <1>1, <1>2, <1>3 DEF AllowedInv
  <2>2. ASSUME late' = {}, NEW l \in Name
        PROVE  l \in allowed'
                  <=> \E d \in Passthrough : Behind(d)' /\ \E m \in Highest(d) :
                          Allows(Version(d, m), l)
    <3>1. l \in allowed
             <=> \E d \in Passthrough : Behind(d) /\ \E m \in Highest(d) :
                     Allows(Version(d, m), l)
        BY <1>1, <2>2 DEF AllowedInv
    <3> QED
        BY <1>3, <2>2, <3>1
  <2> QED
      BY <1>1, <1>2, <2>1, <2>2 DEF AllowedInv
<1>4. CASE Collect
    BY <1>3, <1>4 DEF StateInv, LoopInv, Collect, Behind, Passthrough, Working
<1>5. CASE Finish \/ \E e \in manifest : TakeDeclared(e)
    BY <1>3, <1>5 DEF Finish, TakeDeclared, Behind, Working
<1>6. CASE UNCHANGED vars
    BY <1>3, <1>6 DEF vars, Behind
<1>7. CASE Retrieve \/ TryLower \/ Allow
  <2>1. /\ UNCHANGED <<todo, cur>>
        /\ pc \in {"minor", "allow"} /\ cur \in Passthrough /\ cur \notin todo
        /\ Tried = Version(cur, minor) /\ cur \in Entry /\ minor \in 0 .. cur.name.minor
        /\ cur \notin late =>
              \A k \in (minor + 1) .. cur.name.minor : ~Fits(Version(cur, k), "passthrough")
      BY <1>7, FixedTypes DEF StateInv, LoopInv, MinorInv, Working, Tried, Version, Retrieve,
         TryLower, Allow
  <2>2. \A d \in Passthrough : d # cur => (Behind(d)' <=> Behind(d))
      BY <2>1 DEF Behind
  <2>3. ~Behind(cur)
      BY <2>1 DEF Behind, Working
  <2>4. ASSUME late = {}, Fits(Tried, "passthrough")
        PROVE  Highest(cur) = {minor}
      BY <2>1, <2>4, HighestFound
  <2>5. HasTried(service[Tried].chain) <=> InChain(Tried, Tried)
      BY DEF HasTried, InChain
  <2>6. CASE Retrieve
    <3>1. Fits(Tried, "passthrough") /\ UNCHANGED <<late, allowed>>
          /\ (pc' = "loop" => ~InChain(Tried, Tried))
          /\ (pc' # "loop" => pc' = "allow")
        BY <2>5, <2>6 DEF Retrieve
    <3>2. CASE pc' = "loop"
      <4>1. late' = {} => \A l : \A m \in Highest(cur) : ~Allows(Version(cur, m), l)
          BY <2>1, <2>4, <3>1, <3>2 DEF Allows
      <4> QED
          BY <1>3, <2>2, <2>3, <3>1, <4>1
    <3>3. CASE pc' # "loop"
      <4>1. ~Behind(cur)'
          BY <2>1, <3>1, <3>3 DEF Behind, Working
      <4> QED
          BY <1>3, <2>1, <2>2, <2>3, <3>1, <4>1
    <3> QED
        BY <3>2, <3>3
  <2>7. CASE TryLower
    <3>1. CASE minor = 0
      <4>1. late' = {} => late = {} /\ ~Fits(Tried, "passthrough")
          BY <2>7 DEF TryLower
      <4>2. late' = {} => Highest(cur) = {}
          BY <2>1, <3>1, <4>1, HighestFound
      <4> QED
          BY <1>3, <2>2, <2>3, <2>7, <4>2 DEF TryLower
    <3>2. CASE minor # 0
      <4>1. ~Behind(cur)'
          BY <2>1, <2>7, <3>2 DEF TryLower, Behind, Working
      <4> QED
          BY <1>3, <2>2, <2>3, <2>7, <4>1 DEF TryLower
    <3> QED
        BY <3>1, <3>2
  <2>8. CASE Allow
    <3>1. /\ Fits(Tried, "passthrough") /\ InChain(Tried, Tried) /\ UNCHANGED late
          /\ allowed' = allowed \cup AllowedLinks(service[Tried].chain)
          /\ pc' = "loop"
        BY <2>5, <2>8 DEF Allow, StateInv, MinorInv
    <3>2. Tried \in Name
        BY <2>1, VersionName DEF TypeOK, Version, Tried
    <3>3. \A l : l \in AllowedLinks(service[Tried].chain) <=> Allows(Tried, l)
      <4>1. service[Tried].chain \in Seq(Link)
          BY <3>1, <3>2, FitsService
      <4> QED
          BY <3>1, <4>1, AllowedLinksMeaning DEF Allows
    <3>4. \A l \in allowed' : \E n \in Name : Fits(n, "passthrough")' /\ Allows(n, l)'
        BY <1>1, <1>2, <3>1, <3>2, <3>3 DEF AllowedInv
    <3>5. Behind(cur)'
        BY <2>1, <3>1 DEF Behind, Working
    <3>6. ASSUME late' = {}, NEW l \in Name
          PROVE  l \in allowed'
                    <=> \E d \in Passthrough : Behind(d)' /\ \E m \in Highest(d) :
                            Allows(Version(d, m), l)
      <4>1. l \in allowed
               <=> \E d \in Passthrough : Behind(d) /\ \E m \in Highest(d) :
                       Allows(Version(d, m), l)
          BY <1>1, <3>6 DEF AllowedInv
      <4>2. (\E m \in Highest(cur) : Allows(Version(cur, m), l)) <=> Allows(Tried, l)
          BY <2>1, <2>4, <3>1, <3>6
      <4> QED
          BY <2>1, <2>2, <2>3, <3>1, <3>3, <3>5, <4>1, <4>2
    <3> QED
        BY <1>1, <1>2, <3>4, <3>6 DEF AllowedInv
  <2> QED
      BY <1>7, <2>6, <2>7, <2>8
<1>8. CASE \E e \in manifest : LeaveOut(e) \/ Find(e) \/ Miss(e) \/ CheckTransport(e)
    BY <1>1, <1>8 DEF LeaveOut, Find, Miss, CheckTransport, Lookups
<1>9. CASE CompareChain \/ ServiceDies \/ ReadChain \/ ReadHashes
           \/ CheckLink \/ RejectLink \/ EndOfLinks
    BY <1>1, <1>9 DEF CompareChain, ServiceDies, ReadChain, ReadHashes, CheckLink, RejectLink,
       EndOfLinks, StateInv, LoopInv, Released
<1> QED
    BY <1>4, <1>5, <1>6, <1>7, <1>8, <1>9 DEF Next

\* What is reported as not allowed.
LEMMA NotAllowedStep ==
    ASSUME TypeOK, StateInv, NotAllowedInv, [Next]_vars
    PROVE  NotAllowedInv'
<1>1. UNCHANGED fixed
    BY DEF Next, Collect, Finish, LeaveOut, Find, Miss, CheckTransport, TakeDeclared,
       CompareChain, ServiceDies, ReadChain, ReadHashes, CheckLink, RejectLink, EndOfLinks,
       Retrieve, TryLower, Allow, fixed, vars
<1>2. Passthrough' = Passthrough
    BY <1>1, RulesFixed
<1>3. ASSUME \A e \in manifest, l \in Link :
                 <<"notAllowed", e, l>> \in failures' <=> <<"notAllowed", e, l>> \in failures,
             test = "omr1_binderized" => UNCHANGED todo,
             test = "binderized" =>
                 UNCHANGED <<pc, allowed>> \/ (pc # "done" /\ pc' # "done")
      PROVE  NotAllowedInv'
    BY <1>1, <1>2, <1>3 DEF NotAllowedInv, fixed
<1>4. CASE Collect
  <2>1. \A e \in manifest, l \in Link : <<"notAllowed", e, l>> \notin failures
      BY <1>4 DEF Collect, StateInv, LoopInv
  <2>2. \A e \in manifest, l \in Link : <<"notAllowed", e, l>> \notin failures'
      BY <1>4 DEF Collect, TransportFailures
  <2> QED
      BY <1>3, <1>4, <2>1, <2>2 DEF Collect, StateInv, LoopInv
<1>5. ASSUME NEW e \in manifest, LeaveOut(e) \/ Find(e) \/ Miss(e) \/ TakeDeclared(e)
      PROVE  NotAllowedInv'
  <2>1. \A x, l : <<"notAllowed", x, l>> \in failures' <=> <<"notAllowed", x, l>> \in failures
      BY <1>5 DEF LeaveOut, Find, Miss, TakeDeclared, MissingFailure
  <2>2. test # "omr1_binderized" /\ pc # "done" /\ pc' # "done"
      BY <1>5 DEF LeaveOut, Find, Miss, TakeDeclared, Lookups
  <2> QED
      BY <1>3, <2>1, <2>2
<1>6. ASSUME NEW e \in manifest, CheckTransport(e)
      PROVE  NotAllowedInv'
  <2>1. /\ pc = "loop" /\ test = "omr1_binderized" /\ e \in todo /\ todo' = todo \ {e}
        /\ failures' = failures
              \cup (IF e.transport = "empty" THEN {<<"transport", e, e.name>>} ELSE {})
              \cup (IF e.transport = "passthrough" /\ ~MayBePassthrough(e.name)
                    THEN {<<"notAllowed", e, e.name>>} ELSE {})
      BY <1>6 DEF CheckTransport
  <2>2. MayBePassthrough(e.name) <=> e.name.package \in PassthroughHals
      BY FixedTypes, ManifestAssumption DEF MayBePassthrough
  <2>3. \A x \in manifest, l \in Link :
            <<"notAllowed", x, l>> \in failures' <=>
                \/ <<"notAllowed", x, l>> \in failures
                \/ /\ x = e /\ l = e.name
                   /\ e \in Passthrough /\ e.name.package \notin PassthroughHals
      BY <2>1, <2>2 DEF Passthrough
  <2>4. \A x \in manifest : x \notin todo' <=> x \notin todo \/ x = e
      BY <2>1
  <2> QED
      BY <1>1, <1>2, <2>1, <2>3, <2>4 DEF NotAllowedInv, fixed
<1>7. CASE CompareChain \/ ServiceDies \/ ReadChain \/ ReadHashes
           \/ CheckLink \/ RejectLink \/ EndOfLinks
  <2>1. \A x, l : <<"notAllowed", x, l>> \in failures' <=> <<"notAllowed", x, l>> \in failures
      BY <1>7 DEF CompareChain, ServiceDies, ReadChain, ReadHashes, CheckLink, RejectLink,
         EndOfLinks, ChainFailures, LinkFailures
  <2>2. UNCHANGED <<todo, allowed>> /\ pc # "done" /\ pc' # "done"
      BY <1>7 DEF CompareChain, ServiceDies, ReadChain, ReadHashes, CheckLink, RejectLink,
         EndOfLinks
  <2> QED
      BY <1>3, <2>1, <2>2
<1>8. CASE Retrieve \/ TryLower \/ Allow
  <2>1. \A x, l : <<"notAllowed", x, l>> \in failures' <=> <<"notAllowed", x, l>> \in failures
      BY <1>8 DEF Retrieve, TryLower, Allow, ParseFailures
  <2>2. UNCHANGED todo /\ pc # "done" /\ pc' # "done"
      BY <1>8 DEF Retrieve, TryLower, Allow
  <2> QED
      BY <1>3, <2>1, <2>2
<1>9. CASE Finish
  <2>1. /\ pc = "loop" /\ pc' = "done" /\ UNCHANGED <<todo, allowed>>
        /\ failures' = failures \cup NotAllowed
      BY <1>9 DEF Finish
  <2>2. \A e \in manifest, l \in Link :
            <<"notAllowed", e, l>> \in NotAllowed
                <=> test = "binderized" /\ l = e.name /\ e \in Passthrough /\ l \notin allowed
      BY DEF NotAllowed, Passthrough
  <2>3. \A e \in manifest, l \in Link :
            <<"notAllowed", e, l>> \in failures'
                <=> <<"notAllowed", e, l>> \in failures \/ <<"notAllowed", e, l>> \in NotAllowed
      BY <2>1
  <2> QED
      BY <1>1, <1>2, <2>1, <2>2, <2>3 DEF NotAllowedInv, fixed
<1>10. CASE UNCHANGED vars
    BY <1>3, <1>10 DEF vars
<1> QED
    BY <1>4, <1>5, <1>6, <1>7, <1>8, <1>9, <1>10 DEF Next

-----------------------------------------------------------------------------
(* Services that are late or die.                                          *)

\* Nothing is said of an entry that has just been looked up.
LEMMA NothingSaid ==
    ASSUME TypeOK, NotAllowedInv, test \in Lookups, NEW e \in manifest, Blank(e), ~LeftOut(e),
           NEW kind \in Kind, NEW l \in Link
    PROVE  <<kind, e, l>> \notin failures
<1>1. CASE kind = "notAllowed"
    BY <1>1 DEF NotAllowedInv, Lookups
<1>2. CASE kind # "notAllowed"
  <2>1. ~Deserved("transport", e, l)
      BY DEF Deserved, LeftOut, Lookups
  <2> QED
      BY <1>2, <2>1 DEF Blank
<1> QED
    BY <1>1, <1>2

\* A step that has no new entry late or silent, and says nothing of one that is.
LEMMA FaultsKept ==
    ASSUME FaultsContained, UNCHANGED <<test, manifest>>,
           test \in Lookups => UNCHANGED late, UNCHANGED silent,
           \A e \in manifest, kind \in Kind, l \in Link :
               <<kind, e, l>> \in failures' /\ <<kind, e, l>> \notin failures =>
                   (test \in Lookups => e \notin late) /\ e \notin silent
    PROVE  FaultsContained'
BY DEF FaultsContained

LEMMA FaultsStep ==
    ASSUME TypeOK, StateInv, ReportInv, NotAllowedInv, FaultsContained, [Next]_vars
    PROVE  FaultsContained'
<1> USE DEF fixed
<1>1. CASE Collect
  <2>1. late = {} /\ silent = {}
      BY <1>1 DEF Collect, StateInv, LoopInv, FaultInv, Released
  <2> QED
      BY <1>1, <2>1 DEF Collect, FaultsContained
<1>2. ASSUME NEW e \in manifest, LeaveOut(e) \/ Find(e) \/ TakeDeclared(e)
      PROVE  FaultsContained'
    BY <1>2, FaultsKept DEF LeaveOut, Find, TakeDeclared
<1>3. ASSUME NEW e \in manifest, Miss(e)
      PROVE  FaultsContained'
  <2>1. /\ UNCHANGED <<test, manifest, silent>> /\ late' \subseteq late \cup {e}
        /\ failures' = failures \cup MissingFailure(e)
        /\ e \in todo /\ ~LeftOut(e) /\ test \in Lookups /\ pc # "collect"
      BY <1>3 DEF Miss
  <2>2. e \notin silent /\ e \notin late /\ Blank(e)
      BY <2>1 DEF StateInv, FaultInv, ReportInv, ReportOf
  <2>3. \A kind \in Kind, l \in Link : <<kind, e, l>> \notin failures
      BY <2>1, <2>2, NothingSaid
  <2>4. \A kind, x, l : <<kind, x, l>> \in MissingFailure(e) => kind = "missing" /\ x = e
      BY DEF MissingFailure
  <2> QED
      BY <2>1, <2>2, <2>3, <2>4 DEF FaultsContained
<1>4. ASSUME NEW e \in manifest, CheckTransport(e)
      PROVE  FaultsContained'
  <2>1. test = "omr1_binderized" /\ UNCHANGED <<test, manifest, silent, late>>
        /\ silent = {}
      BY <1>4 DEF CheckTransport, StateInv, FaultInv, Released
  <2> QED
      BY <2>1 DEF FaultsContained, Lookups
<1>5. CASE CompareChain
  <2>1. cur \notin late /\ silent = {} /\ UNCHANGED <<test, manifest, silent, late>>
        /\ failures' = failures \cup ChainFailures(cur, service[LookedUp(cur)].chain)
      BY <1>5 DEF CompareChain, StateInv, LoopInv, FaultInv, Released
  <2>2. \A kind, x, l : <<kind, x, l>> \in ChainFailures(cur, service[LookedUp(cur)].chain)
            => x = cur
      BY DEF ChainFailures
  <2> QED
      BY <2>1, <2>2, FaultsKept
<1>6. CASE ServiceDies \/ EndOfLinks
    BY <1>6, FaultsKept DEF ServiceDies, EndOfLinks
<1>7. CASE ReadChain \/ ReadHashes
  <2>1. /\ UNCHANGED <<test, manifest, late>> /\ silent' \subseteq silent \cup {cur}
        /\ pc \in {"chain", "hashes"} /\ cur \in manifest /\ cur \notin late
        /\ Served(cur) /\ test \in Released
        /\ failures' \subseteq failures \cup {<<"lengths", cur, cur.name>>}
      BY <1>7 DEF ReadChain, ReadHashes, StateInv, LoopInv, Working
  <2>2. Blank(cur) /\ ~LeftOut(cur) /\ test \in Lookups
      BY <2>1 DEF ReportInv, ReportOf, Working, Served, Asked
  <2>3. \A kind \in Kind, l \in Link : <<kind, cur, l>> \notin failures
      BY <2>1, <2>2, NothingSaid
  <2> QED
      BY <2>1, <2>3 DEF FaultsContained
<1>8. CASE CheckLink \/ RejectLink
  <2>1. /\ pc = "links" /\ link \in DOMAIN chain
        /\ UNCHANGED <<test, manifest, silent, late>>
      BY <1>8 DEF CheckLink, RejectLink
  <2>2. cur \notin late /\ cur \notin silent
      BY <2>1 DEF StateInv, LoopInv, ChainInv
  <2>3. \A kind, x, l : <<kind, x, l>> \in failures' => <<kind, x, l>> \in failures \/ x = cur
      BY <1>8 DEF CheckLink, RejectLink, LinkFailures
  <2> QED
      BY <2>1, <2>2, <2>3, FaultsKept
<1>9. CASE Retrieve \/ TryLower \/ Allow
  <2>1. test = "binderized" /\ silent = {} /\ UNCHANGED <<test, manifest, silent>>
      BY <1>9 DEF Retrieve, TryLower, Allow, StateInv, LoopInv, FaultInv, Released
  <2> QED
      BY <2>1 DEF FaultsContained, Lookups
<1>10. CASE Finish
  <2>1. UNCHANGED <<test, manifest, silent, late>> /\ failures' = failures \cup NotAllowed
      BY <1>10 DEF Finish
  <2>2. CASE test = "binderized"
      BY <2>1, <2>2 DEF StateInv, FaultInv, Released, FaultsContained, Lookups
  <2>3. CASE test # "binderized"
      BY <2>1, <2>3, FaultsKept DEF NotAllowed
  <2> QED
      BY <2>2, <2>3
<1>11. CASE UNCHANGED vars
    BY <1>11 DEF vars, FaultsContained
<1> QED
    BY <1>1, <1>2, <1>3, <1>4, <1>5, <1>6, <1>7, <1>8, <1>9, <1>10, <1>11 DEF Next

-----------------------------------------------------------------------------
(* The theorems.                                                           *)

LEMMA InvInit == Init => Inv
<1> SUFFICES ASSUME Init PROVE Inv
    OBVIOUS
<1>1. /\ pc = "collect" => test \in {"binderized", "passthrough"}
      /\ pc \in {"collect", "loop"}
      /\ pc = "loop" => test \notin {"binderized", "passthrough"}
      /\ todo = manifest /\ allowed = {} /\ failures = {} /\ late = {} /\ silent = {}
    BY DEF Init, Tests
<1>2. ReportInv
    BY <1>1 DEF ReportInv, ReportOf, Blank, Behind, Working, Deserved
<1>3. AllowedInv /\ NotAllowedInv /\ FaultsContained
    BY <1>1 DEF AllowedInv, NotAllowedInv, FaultsContained, Behind, Passthrough
<1> QED
    BY <1>2, <1>3, TypeInit, StateInit DEF Inv, StateInv

LEMMA InvStep == Inv /\ [Next]_vars => Inv'
BY TypeStep, StateStep, ReportStep, AllowedStep, NotAllowedStep, FaultsStep
   DEF Inv, StateInv

LEMMA Invariance == Spec => []Inv
BY InvInit, InvStep, PTL DEF Spec

\* Every variable of the tests keeps its type; in particular the minor version
\* of GetPassthroughService, a size_t counted down, never passes 0
\* (SingleManifestTest.cpp:108-156).
THEOREM TypeCorrect == Spec => []TypeOK
<1>1. Inv => TypeOK
    BY DEF Inv
<1> QED
    BY <1>1, Invariance, PTL

\* What a test reports of an entry whose service answered is what is wrong with
\* it, in whatever order the entries came and whatever the others did
\* (SingleManifestTest.cpp:158-243, 353-456,
\* vts_treble_vintf_test_o_mr1.cpp:140-244).
THEOREM ReportIsExact == Spec => []ReportExact
<1>1. Inv => ReportExact
  <2> SUFFICES ASSUME Inv, pc = "done", NEW kind \in Kind,
                      NEW e \in manifest \ (late \cup silent), NEW l \in Link,
                      kind = "notAllowed" => late = {}
               PROVE  <<kind, e, l>> \in failures <=> Deserved(kind, e, l)
      BY DEF ReportExact
  <2>1. todo = {} /\ \A d \in manifest : Behind(d)
      BY DEF Inv, LoopInv, Behind, Working
  <2>2. CASE kind # "notAllowed"
      BY <2>1, <2>2 DEF Inv, ReportInv, ReportOf, Complete
  <2>3. CASE kind = "notAllowed"
    <3>1. e.name \in Name
        BY FixedTypes DEF Inv
    <3>2. Deserved(kind, e, l)
              <=> /\ l = e.name /\ e \in Passthrough
                  /\ \/ test = "omr1_binderized" /\ l.package \notin PassthroughHals
                     \/ /\ test = "binderized"
                        /\ \A d \in Passthrough : \A m \in Highest(d) : ~Allows(Version(d, m), l)
        BY <2>3 DEF Deserved
    <3>3. <<kind, e, l>> \in failures
              <=> /\ l = e.name /\ e \in Passthrough
                  /\ \/ test = "omr1_binderized" /\ l.package \notin PassthroughHals
                     \/ test = "binderized" /\ l \notin allowed
        BY <2>1, <2>3 DEF Inv, NotAllowedInv
    <3>4. ASSUME test = "binderized", l = e.name
          PROVE  l \in allowed
                    <=> \E d \in Passthrough : \E m \in Highest(d) : Allows(Version(d, m), l)
        BY <2>1, <2>3, <3>1, <3>4 DEF Inv, AllowedInv, Passthrough
    <3> QED
        BY <3>2, <3>3, <3>4
  <2> QED
      BY <2>2, <2>3
<1> QED
    BY <1>1, Invariance, PTL

\* A service that is too late costs its entry at most a "missing", one that dies
\* at most the lengths of its chains (SingleManifestTest.cpp:412-452).
THEOREM FaultsAreContained == Spec => []FaultsContained
<1>1. Inv => FaultsContained
    BY DEF Inv
<1> QED
    BY <1>1, Invariance, PTL

\* Whatever HalsAreBinderized lets pass as passthrough is vouched for by the
\* chain of a service that is there, late services or not
\* (SingleManifestTest.cpp:189-242).
THEOREM PassthroughIsVouched == Spec => []PassthroughVouched
<1>1. Inv => PassthroughVouched
  <2> SUFFICES ASSUME Inv, pc = "done", test = "binderized", failures = {}
               PROVE  /\ \A e \in manifest : e.transport \in {"hwbinder", "passthrough"}
                      /\ \A e \in Passthrough : \E n \in Name :
                            Fits(n, "passthrough") /\ Allows(n, e.name)
      BY DEF PassthroughVouched
  <2>1. \A e \in manifest : e \in Entry /\ e.name \in Link /\ e.name \in Name
      BY FixedTypes DEF Inv, Link
  <2>2. ASSUME NEW e \in manifest
        PROVE  e.transport \in {"hwbinder", "passthrough"}
    <3>1. SUFFICES ASSUME e.transport = "empty" PROVE FALSE
        BY <2>1 DEF Entry
    <3>2. todo = {} /\ silent = {} /\ e \notin late
        BY <3>1 DEF Inv, LoopInv, FaultInv, MinorInv, Released, Passthrough
    <3>3. Complete(e)
        BY <3>2 DEF Inv, ReportInv, ReportOf, Behind, Working
    <3>4. Deserved("transport", e, e.name)
        BY <3>1 DEF Deserved
    <3> QED
        BY <2>1, <3>3, <3>4 DEF Complete, Kind
  <2>3. ASSUME NEW e \in Passthrough
        PROVE  \E n \in Name : Fits(n, "passthrough") /\ Allows(n, e.name)
    <3>1. e \in manifest
        BY DEF Passthrough
    <3>2. e.name \in allowed
        BY <2>1, <2>3, <3>1 DEF Inv, NotAllowedInv
    <3> QED
        BY <3>2 DEF Inv, AllowedInv
  <2> QED
      BY <2>2, <2>3
<1> QED
    BY <1>1, Invariance, PTL

=============================================================================
