---------------------------- MODULE ManifestTests ----------------------------
(***************************************************************************)
(* The other tests that go through a manifest entry by entry:              *)
(* HalsAreBinderized, ServedPassthroughHalsAreInManifest and               *)
(* InterfacesAreReleased of SingleManifestTest, and the three tests of the *)
(* O-MR1 binary.  HalSweep shows that the verifiers of ForEachHalInstance  *)
(* run one after the other and that a lookup given up has no effect        *)
(* afterwards; here a verifier is therefore a sequence of steps of one     *)
(* thread, and a lookup is one step.                                       *)
(*                                                                         *)
(* The device may answer a lookup too late, and the process of a service   *)
(* may die while the test holds the service.                               *)
(***************************************************************************)
EXTENDS Integers, Sequences

CONSTANTS
    Package,          \* packages, each with one interface and instance
    Platform,         \* those PackageRoot knows
    PassthroughHals,  \* kPassthroughHals
    BasePackage,      \* the package of IBase
    MaxMinor,         \* the highest minor version in use
    BadName,          \* a name of an interface that cannot be parsed
    NoService,        \* nullptr
    Manifests,        \* what the manifest may be: sets of entries
    Devices,          \* what the device may serve
    ApiLevels         \* values of the two properties, 0 for undefined

Name == [package : Package, minor : 0 .. MaxMinor]
IBase == [package |-> BasePackage, minor |-> 0]
Link == Name \cup {BadName}
Entry == [name : Name, transport : {"hwbinder", "passthrough", "empty"}]

\* "released": current.txt lists the hash for the interface; "empty": kEmptyHash.
Hash == {"released", "other", "empty"}

\* isRemote, interfaceChain and getHashChain of a service.
Service == [remote : BOOLEAN, chain : Seq(Link), hashes : Seq(Hash)]

ASSUME ManifestAssumption ==
    /\ MaxMinor \in Nat
    /\ Platform \subseteq Package
    /\ PassthroughHals \subseteq Package
    /\ BasePackage \in Package
    /\ BadName \notin Name
    /\ NoService \notin Service
    /\ Manifests \subseteq SUBSET Entry
    /\ Devices \subseteq [Name -> Service \cup {NoService}]
    /\ ApiLevels \subseteq Nat

VARIABLES
    test,      \* which of the six tests
    manifest,  \* the manifest's entries, fixed
    service,   \* what is there under each name, fixed
    apiLevel,  \* the shipping API level, fixed
    pc,        \* where the test is
    todo,      \* the entries not taken up yet
    cur,       \* the entry the test is at
    minor,     \* GetPassthroughService: the minor version it tries
    dead,      \* the process of the service in hand has died
    chain,     \* iface_chain
    hashes,    \* hash_chain
    link,      \* the index of the loop over both
    allowed,   \* passthrough_allowed
    failures,  \* the failed expectations: kind, entry, interface
    late,      \* history: entries whose service was there and too late
    silent     \* history: entries whose service died before it was asked

fixed == <<test, manifest, service, apiLevel>>
vars == <<test, manifest, service, apiLevel, pc, todo, cur, minor, dead, chain,
          hashes, link, allowed, failures, late, silent>>

Omr1 == {"omr1_binderized", "omr1_served", "omr1_released"}
Lookups == {"passthrough", "released", "omr1_served", "omr1_released"}
Tests == {"binderized"} \cup Lookups \cup Omr1

-----------------------------------------------------------------------------
(* Rules.                                                                  *)

ShippingApiLevel(first, sdk) == IF first # 0 THEN first ELSE sdk

IsPlatform(l) == l.package \in Platform

LegacyAndExempt(l) == apiLevel <= 27 /\ ~IsPlatform(l)

\* IsExempt of the O-MR1 tests, LegacyAndExempt of the others.
Exempt(l) == IF test \in Omr1 THEN ~IsPlatform(l) ELSE LegacyAndExempt(l)

\* "1.n in manifest => 1.0, 1.1, ... 1.n are all served".
DownRevs(n) == {[n EXCEPT !.minor = m] : m \in 0 .. n.minor}

Passthrough == {e \in manifest : e.transport = "passthrough"}
GetPassthroughHals == UNION {DownRevs(e.name) : e \in Passthrough}

\* The failures of a manifest with entries that have neither transport.
TransportFailures ==
    {<<"transport", e, e.name>> : e \in {e \in manifest : e.transport = "empty"}}

\* The service GetHalService finds under a name if it is in time: one on the
\* wrong side of the process boundary is nullptr.
Fits(n, transport) ==
    /\ service[n] # NoService
    /\ service[n].remote <=> transport = "hwbinder"

Lowest(n) == [n EXCEPT !.minor = 0]
LookedUp(e) == IF test = "passthrough" THEN Lowest(e.name) ELSE e.name

\* The entries a verifier returns from at once.
LeftOut(e) ==
    \/ test = "passthrough" /\ (e.transport # "passthrough" \/ ~IsPlatform(e.name))
    \/ /\ test = "released"
       /\ e.transport = "passthrough"
       /\ ~IsPlatform(e.name) \/ e.name.minor # 0
    \/ test = "omr1_served" /\ Exempt(e.name)

\* FailureHalMissing, and its like in the other tests.
MissingFailure(e) ==
    IF test # "passthrough" /\ Exempt(e.name) THEN {} ELSE {<<"missing", e, e.name>>}

\* What is said of one interface of a chain and its hash.
LinkFailures(e, l, hash) ==
    (IF test = "released" /\ hash = "empty" /\ ~LegacyAndExempt(l)
     THEN {<<"emptyHash", e, l>>} ELSE {})
    \cup (IF IsPlatform(l) /\ hash # "released" THEN {<<"unreleased", e, l>>} ELSE {})

\* What ServedPassthroughHalsAreInManifest says of a chain.
ChainFailures(e, c) ==
    {<<"undeclared", e, l>> : l \in {c[i] : i \in DOMAIN c} \ (GetPassthroughHals \cup {IBase})}

MayBePassthrough(l) == l # BadName /\ l.package \in PassthroughHals

\* Mutant: the chain is gone through from its front.
AllowedLinksMutant(c) ==
    {c[i] : i \in {i \in DOMAIN c : \E j \in 1 .. i : MayBePassthrough(c[j])}} \ {BadName}

\* From the end of the chain: everything from an allowed package on.
AllowedLinks(c) ==
    {c[i] : i \in {i \in DOMAIN c : \E j \in i .. Len(c) : MayBePassthrough(c[j])}} \ {BadName}

\* ToFqInstance of every interface of a chain.
ParseFailures(e, c) == IF \E i \in DOMAIN c : c[i] = BadName
                       THEN {<<"parse", e, BadName>>} ELSE {}

-----------------------------------------------------------------------------
Init ==
    /\ test \in Tests
    /\ manifest \in Manifests
    /\ service \in Devices
    /\ apiLevel \in {ShippingApiLevel(f, s) : f \in ApiLevels, s \in ApiLevels}
    /\ pc = IF test \in {"binderized", "passthrough"} THEN "collect" ELSE "loop"
    /\ todo = manifest
    /\ cur = [name |-> IBase, transport |-> "empty"]
    /\ minor = 0
    /\ dead = FALSE
    /\ chain = <<>>
    /\ hashes = <<>>
    /\ link = 1
    /\ allowed = {}
    /\ failures = {}
    /\ late = {}
    /\ silent = {}

\* A first round over the manifest: the instances by transport, of which only
\* the passthrough ones are gone through afterwards, or GetPassthroughHals.
Collect ==
    /\ pc = "collect"
    /\ todo' = IF test = "binderized" THEN Passthrough ELSE manifest
    /\ failures' = TransportFailures
    /\ pc' = "loop"
    /\ UNCHANGED <<fixed, cur, minor, dead, chain, hashes, link, allowed, late, silent>>

-----------------------------------------------------------------------------
(* The verifiers that look an entry up.                                    *)

LeaveOut(e) ==
    /\ pc = "loop"
    /\ test \in Lookups
    /\ e \in todo
    /\ LeftOut(e)
    /\ todo' = todo \ {e}
    /\ UNCHANGED <<fixed, pc, cur, minor, dead, chain, hashes, link, allowed,
                   failures, late, silent>>

\* GetHalService gives a service.
Find(e) ==
    /\ pc = "loop"
    /\ test \in Lookups
    /\ e \in todo
    /\ ~LeftOut(e)
    /\ Fits(LookedUp(e), e.transport)
    /\ todo' = todo \ {e}
    /\ cur' = e
    /\ dead' = FALSE
    /\ pc' = IF test = "omr1_served" THEN "loop" ELSE "chain"
    /\ UNCHANGED <<fixed, minor, chain, hashes, link, allowed, failures, late, silent>>

\* Mutant: the "return" after the failure is dropped.
MissMutant(e) ==
    /\ pc = "loop"
    /\ test \in Lookups
    /\ e \in todo
    /\ ~LeftOut(e)
    /\ todo' = todo \ {e}
    /\ cur' = e
    /\ failures' = failures \cup MissingFailure(e)
    /\ late' = IF Fits(LookedUp(e), e.transport) THEN late \cup {e} ELSE late
    /\ pc' = IF test \in {"released", "omr1_released"} THEN "links" ELSE "loop"
    /\ link' = 1
    /\ UNCHANGED <<fixed, minor, dead, chain, hashes, allowed, silent>>

\* GetHalService gives nullptr, after half a second even if there is a service.
Miss(e) ==
    /\ pc = "loop"
    /\ test \in Lookups
    /\ e \in todo
    /\ ~LeftOut(e)
    /\ todo' = todo \ {e}
    /\ failures' = failures \cup MissingFailure(e)
    /\ late' = IF Fits(LookedUp(e), e.transport) THEN late \cup {e} ELSE late
    /\ UNCHANGED <<fixed, pc, cur, minor, dead, chain, hashes, link, allowed, silent>>

\* ServedPassthroughHalsAreInManifest: a service in the test's own process
\* always answers.
CompareChain ==
    /\ pc = "chain"
    /\ test = "passthrough"
    /\ failures' = failures \cup ChainFailures(cur, service[LookedUp(cur)].chain)
    /\ pc' = "loop"
    /\ UNCHANGED <<fixed, todo, cur, minor, dead, chain, hashes, link, allowed,
                   late, silent>>

\* The process of the service the test holds dies.
ServiceDies ==
    /\ pc \in {"chain", "hashes"}
    /\ service[cur.name] # NoService /\ service[cur.name].remote
    /\ ~dead
    /\ dead' = TRUE
    /\ UNCHANGED <<fixed, pc, todo, cur, minor, chain, hashes, link, allowed,
                   failures, late, silent>>

\* interfaceChain: nobody looks whether the call succeeded, and if it did not
\* the callback has not been called.  (A libhidl that ends the process over a
\* result nobody looked at ends the behaviour here.)
ReadChain ==
    /\ pc = "chain"
    /\ test # "passthrough"
    /\ chain' = IF dead THEN <<>> ELSE service[cur.name].chain
    /\ silent' = IF dead THEN silent \cup {cur} ELSE silent
    /\ pc' = "hashes"
    /\ UNCHANGED <<fixed, todo, cur, minor, dead, hashes, link, allowed, failures,
                   late>>

\* getHashChain, likewise, and the ASSERT_EQ on the lengths.
ReadHashes ==
    /\ pc = "hashes"
    /\ hashes' = IF dead THEN <<>> ELSE service[cur.name].hashes
    /\ silent' = IF dead THEN silent \cup {cur} ELSE silent
    /\ link' = 1
    /\ \/ /\ Len(chain) = Len(hashes')
          /\ pc' = "links"
          /\ UNCHANGED failures
       \/ /\ Len(chain) # Len(hashes')
          /\ pc' = "loop"
          /\ failures' = failures \cup {<<"lengths", cur, cur.name>>}
    /\ UNCHANGED <<fixed, todo, cur, minor, dead, chain, allowed, late>>

\* One interface and its hash.
CheckLink ==
    /\ pc = "links"
    /\ link \in DOMAIN chain
    /\ chain[link] # BadName
    /\ failures' = failures \cup LinkFailures(cur, chain[link], hashes[link])
    /\ link' = link + 1
    /\ UNCHANGED <<fixed, pc, todo, cur, minor, dead, chain, hashes, allowed, late, silent>>

\* A name that cannot be parsed ends the loop.
RejectLink ==
    /\ pc = "links"
    /\ link \in DOMAIN chain
    /\ chain[link] = BadName
    /\ failures' = failures \cup {<<"parse", cur, BadName>>}
    /\ pc' = "loop"
    /\ UNCHANGED <<fixed, todo, cur, minor, dead, chain, hashes, link, allowed,
                   late, silent>>

\* Mutant: the last interface is not looked at.
EndOfLinksMutant ==
    /\ pc = "links"
    /\ link >= Len(chain)
    /\ pc' = "loop"
    /\ UNCHANGED <<fixed, todo, cur, minor, dead, chain, hashes, link, allowed,
                   failures, late, silent>>

EndOfLinks ==
    /\ pc = "links"
    /\ link \notin DOMAIN chain
    /\ pc' = "loop"
    /\ UNCHANGED <<fixed, todo, cur, minor, dead, chain, hashes, link, allowed,
                   failures, late, silent>>

-----------------------------------------------------------------------------
(* HalsAreBinderized.                                                      *)

\* The O-MR1 test looks at the entry alone.
CheckTransport(e) ==
    /\ pc = "loop"
    /\ test = "omr1_binderized"
    /\ e \in todo
    /\ todo' = todo \ {e}
    /\ failures' = failures
          \cup (IF e.transport = "empty" THEN {<<"transport", e, e.name>>} ELSE {})
          \cup (IF e.transport = "passthrough" /\ ~MayBePassthrough(e.name)
                THEN {<<"notAllowed", e, e.name>>} ELSE {})
    /\ UNCHANGED <<fixed, pc, cur, minor, dead, chain, hashes, link, allowed, late, silent>>

\* GetPassthroughService starts with the declared minor version.
TakeDeclared(e) ==
    /\ pc = "loop"
    /\ test = "binderized"
    /\ e \in todo
    /\ todo' = todo \ {e}
    /\ cur' = e
    /\ minor' = e.name.minor
    /\ pc' = "minor"
    /\ UNCHANGED <<fixed, dead, chain, hashes, link, allowed, failures, late,
                   silent>>

\* The interface with the minor version it has come to.
Tried == [cur.name EXCEPT !.minor = minor]
HasTried(c) == \E i \in DOMAIN c : c[i] = Tried

\* A service is there: its chain has to name the interface it was asked for.
Retrieve ==
    /\ pc = "minor"
    /\ Fits(Tried, "passthrough")
    /\ \/ /\ HasTried(service[Tried].chain)
          /\ pc' = "allow"
          /\ UNCHANGED failures
       \/ /\ ~HasTried(service[Tried].chain)
          /\ pc' = "loop"
          /\ failures' = failures \cup {<<"chain", cur, Tried>>}
    /\ UNCHANGED <<fixed, todo, cur, minor, dead, chain, hashes, link, allowed,
                   late, silent>>

\* Mutant: the loop does not stop at 0.
TryLowerMutant ==
    /\ pc = "minor"
    /\ late' = IF minor >= 0 /\ Fits(Tried, "passthrough") THEN late \cup {cur} ELSE late
    /\ minor >= 0
    /\ minor' = minor - 1
    /\ UNCHANGED <<fixed, pc, todo, cur, dead, chain, hashes, link, allowed, failures,
                   silent>>

\* None, or too late: the next lower version, and none below 0.
TryLower ==
    /\ pc = "minor"
    /\ late' = IF Fits(Tried, "passthrough") THEN late \cup {cur} ELSE late
    /\ \/ minor = 0 /\ pc' = "loop" /\ UNCHANGED minor
       \/ minor # 0 /\ minor' = minor - 1 /\ UNCHANGED pc
    /\ UNCHANGED <<fixed, todo, cur, dead, chain, hashes, link, allowed, failures,
                   silent>>

Allow ==
    /\ pc = "allow"
    /\ allowed' = allowed \cup AllowedLinks(service[Tried].chain)
    /\ failures' = failures \cup ParseFailures(cur, service[Tried].chain)
    /\ pc' = "loop"
    /\ UNCHANGED <<fixed, todo, cur, minor, dead, chain, hashes, link, late,
                   silent>>

NotAllowed ==
    IF test = "binderized"
    THEN {<<"notAllowed", e, e.name>> : e \in {e \in Passthrough : e.name \notin allowed}}
    ELSE {}

\* The end of the loop, and the difference of the two sets.
Finish ==
    /\ pc = "loop"
    /\ todo = {}
    /\ failures' = failures \cup NotAllowed
    /\ pc' = "done"
    /\ UNCHANGED <<fixed, todo, cur, minor, dead, chain, hashes, link, allowed,
                   late, silent>>

-----------------------------------------------------------------------------
Next ==
    \/ Collect
    \/ \E e \in manifest :
          LeaveOut(e) \/ Find(e) \/ Miss(e) \/ CheckTransport(e) \/ TakeDeclared(e)
    \/ CompareChain \/ ServiceDies \/ ReadChain \/ ReadHashes
    \/ CheckLink \/ RejectLink \/ EndOfLinks
    \/ Retrieve \/ TryLower \/ Allow
    \/ Finish

Spec == Init /\ [][Next]_vars

-----------------------------------------------------------------------------
(* Properties.                                                             *)

Kind == {"transport", "missing", "lengths", "parse", "emptyHash", "unreleased",
         "undeclared", "chain", "notAllowed"}

TypeOK ==
    /\ test \in Tests
    /\ manifest \in Manifests
    /\ service \in Devices
    /\ apiLevel \in Nat
    /\ pc \in {"collect", "loop", "chain", "hashes", "links", "minor", "allow", "done"}
    /\ todo \subseteq manifest
    /\ cur \in Entry
    /\ minor \in 0 .. MaxMinor
    /\ dead \in BOOLEAN
    /\ chain \in Seq(Link)
    /\ hashes \in Seq(Hash)
    /\ link \in Nat \ {0}
    /\ allowed \subseteq Name
    /\ failures \subseteq Kind \X manifest \X Link
    /\ late \subseteq manifest
    /\ silent \subseteq manifest

(* What the manifest and the device deserve, whatever the order of the     *)
(* entries.                                                                *)

InChain(l, n) == \E i \in DOMAIN service[n].chain : service[n].chain[i] = l

\* A service is there for an entry that is not left out.
Asked(e) == test \in Lookups /\ ~LeftOut(e)
Served(e) == Asked(e) /\ Fits(LookedUp(e), e.transport)

\* An entry of the test for released interfaces whose two chains fit, and the
\* interfaces of the chain up to the first that cannot be parsed.
Hashed(e) ==
    /\ test \in {"released", "omr1_released"}
    /\ Served(e)
    /\ Len(service[e.name].chain) = Len(service[e.name].hashes)
Parsed(e) ==
    {i \in DOMAIN service[e.name].chain :
        \A j \in 1 .. i : service[e.name].chain[j] # BadName}

\* A passthrough entry declares the interface or a later minor version of it.
DeclaredPassthrough(l) ==
    l # BadName /\ \E d \in Passthrough :
        d.name.package = l.package /\ l.minor <= d.name.minor

\* The version GetPassthroughService finds: the highest there is.
Version(d, m) == [d.name EXCEPT !.minor = m]
Highest(d) ==
    {m \in 0 .. d.name.minor :
        /\ Fits(Version(d, m), "passthrough")
        /\ \A k \in (m + 1) .. d.name.minor : ~Fits(Version(d, k), "passthrough")}

\* The service under a name makes an interface one that may be passthrough: its
\* chain has the interface, as an extension of one of an allowed package.
Allows(n, l) ==
    /\ InChain(n, n)
    /\ l # BadName
    /\ LET c == service[n].chain
       IN  \E i, j \in DOMAIN c : i <= j /\ c[i] = l /\ MayBePassthrough(c[j])

Deserved(kind, e, l) ==
    \/ /\ kind = "transport" /\ l = e.name
       /\ test \in {"binderized", "passthrough", "omr1_binderized"}
       /\ e.transport = "empty"
    \/ /\ kind = "missing" /\ l = e.name
       /\ Asked(e) /\ ~Served(e)
       /\ test = "passthrough" \/ ~Exempt(e.name)
    \/ /\ kind = "undeclared" /\ test = "passthrough"
       /\ Served(e)
       /\ l # IBase /\ InChain(l, LookedUp(e)) /\ ~DeclaredPassthrough(l)
    \/ /\ kind = "lengths" /\ l = e.name
       /\ test \in {"released", "omr1_released"}
       /\ Served(e) /\ ~Hashed(e)
    \/ /\ kind = "parse" /\ l = BadName
       /\ Hashed(e) /\ InChain(BadName, e.name)
    \/ /\ kind = "emptyHash" /\ test = "released" /\ Hashed(e)
       /\ \E i \in Parsed(e) :
             /\ service[e.name].chain[i] = l /\ service[e.name].hashes[i] = "empty"
             /\ ~LegacyAndExempt(l)
    \/ /\ kind = "unreleased" /\ Hashed(e)
       /\ \E i \in Parsed(e) :
             /\ service[e.name].chain[i] = l /\ service[e.name].hashes[i] # "released"
             /\ IsPlatform(l)
    \/ /\ test = "binderized" /\ e \in Passthrough
       /\ \E m \in Highest(e) :
             \/ kind = "chain" /\ l = Version(e, m) /\ ~InChain(l, l)
             \/ /\ kind = "parse" /\ l = BadName
                /\ InChain(Version(e, m), Version(e, m)) /\ InChain(l, Version(e, m))
    \/ /\ kind = "notAllowed" /\ l = e.name
       /\ e \in Passthrough
       /\ \/ test = "omr1_binderized" /\ l.package \notin PassthroughHals
          \/ /\ test = "binderized"
             /\ \A d \in Passthrough : \A m \in Highest(d) : ~Allows(Version(d, m), l)

\* Of an entry whose service answered, the test reports what is wrong with it
\* and nothing else, whatever happened at the entries before it and in whatever
\* order they came; what is allowed to be passthrough depends on all the
\* entries (SingleManifestTest.cpp:158-243, 353-456,
\* vts_treble_vintf_test_o_mr1.cpp:140-244).
ReportExact ==
    pc = "done" =>
        \A kind \in Kind, e \in manifest \ (late \cup silent), l \in Link :
            (kind = "notAllowed" => late = {}) =>
                (<<kind, e, l>> \in failures <=> Deserved(kind, e, l))

\* A service that is too late is reported missing or not at all, and one that
\* died is at most reported for chains of different lengths: neither is accused
\* of what was not seen (SingleManifestTest.cpp:412-452).
FaultsContained ==
    \A e \in manifest, kind \in Kind, l \in Link :
        /\ e \in late /\ test \in Lookups /\ <<kind, e, l>> \in failures => kind = "missing"
        /\ e \in silent /\ <<kind, e, l>> \in failures => kind = "lengths"

\* What HalsAreBinderized lets pass as passthrough is an interface that the
\* chain of a service has at or before one of an allowed package, even when
\* services were too late (SingleManifestTest.cpp:189-242).
PassthroughVouched ==
    pc = "done" /\ test = "binderized" /\ failures = {} =>
        /\ \A e \in manifest : e.transport \in {"hwbinder", "passthrough"}
        /\ \A e \in Passthrough : \E n \in Name :
              Fits(n, "passthrough") /\ Allows(n, e.name)
=============================================================================
