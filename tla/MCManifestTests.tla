-------------------------- MODULE MCManifestTests --------------------------
(* ManifestTests for TLC: an allowed passthrough package, a platform       *)
(* package served by a process, an extension outside the platform, IBase.  *)
EXTENDS ManifestTests

CONSTANTS mapper, gnss, ext, base

N(p, m) == [package |-> p, minor |-> m]
E(p, m, t) == [name |-> N(p, m), transport |-> t]
Lib(c) == [remote |-> FALSE, chain |-> c, hashes |-> [i \in DOMAIN c |-> "released"]]
Proc(c, h) == [remote |-> TRUE, chain |-> c, hashes |-> h]

\* Allowed, allowed through another entry, not allowed, without transport,
\* extensions served both ways.
SomeManifests == {
    {E(mapper, 1, "passthrough"), E(ext, 0, "passthrough")},
    {E(mapper, 0, "passthrough"), E(mapper, 1, "passthrough")},
    {E(gnss, 0, "passthrough"), E(mapper, 0, "passthrough")},
    {E(gnss, 1, "hwbinder"), E(gnss, 0, "hwbinder"), E(ext, 0, "hwbinder")},
    {E(gnss, 0, "empty"), E(ext, 0, "hwbinder"), E(mapper, 1, "passthrough")}}

Absent == [n \in Name |-> NoService]
At(n, s, d) == [d EXCEPT ![n] = s]

\* Libraries: the allowed HAL, an old one, an extension of it, one that extends
\* a HAL that is not allowed, one with a name that cannot be parsed, one that is
\* not an implementation of its package.
Libraries == {
    Lib(<<N(mapper, 1), N(mapper, 0), IBase>>),
    Lib(<<N(mapper, 0), IBase>>),
    Lib(<<N(ext, 0), N(mapper, 0), IBase>>),
    Lib(<<N(mapper, 0), N(gnss, 0), IBase>>),
    Lib(<<BadName, N(mapper, 0), N(gnss, 0), IBase>>),
    Lib(<<IBase>>)}

PassthroughDevices ==
    {At(N(mapper, 0), a, At(N(mapper, 1), b, At(N(gnss, 0), c, Absent))) :
        a \in Libraries, b \in {NoService, Lib(<<N(mapper, 1), N(mapper, 0), IBase>>),
                                Lib(<<N(mapper, 0), IBase>>)},
        c \in {NoService, Lib(<<N(gnss, 0), IBase>>)}}

\* Processes: everything released, an unreleased interface in the chain and at
\* its end, a chain that is too short, a name that cannot be parsed.
GnssChain == <<N(gnss, 1), N(gnss, 0), IBase>>
Processes == {
    Proc(GnssChain, <<"released", "released", "released">>),
    Proc(GnssChain, <<"empty", "other", "released">>),
    Proc(GnssChain, <<"released", "released", "other">>),
    Proc(GnssChain, <<"released", "released">>),
    Proc(<<N(gnss, 1), BadName, IBase>>, <<"released", "other", "other">>)}

ProcessDevices ==
    {At(N(gnss, 1), a, At(N(gnss, 0), b, At(N(ext, 0), c, Absent))) :
        a \in Processes, b \in {NoService, Proc(GnssChain, <<"other", "other", "other">>)},
        c \in {Proc(<<N(ext, 0), IBase>>, <<"empty", "released">>), Lib(<<N(ext, 0), IBase>>)}}

SomeDevices == PassthroughDevices \cup ProcessDevices

\* Undefined, and on both sides of the exemption.
SomeLevels == {0, 27, 28}
=============================================================================
