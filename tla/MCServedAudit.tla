--------------------------- MODULE MCServedAudit ---------------------------
(* ServedAudit for TLC: two packages with two minor versions each.         *)
EXTENDS ServedAudit

CONSTANTS foo, bar

E(p, m, t) == [package |-> p, minor |-> m, transport |-> t]

\* Nothing, an old version, both packages, one of them in the same process,
\* one without transport.
SomeManifests == {
    {},
    {E(foo, 0, "hwbinder")},
    {E(foo, 1, "hwbinder"), E(bar, 0, "hwbinder")},
    {E(foo, 1, "passthrough"), E(bar, 1, "hwbinder")},
    {E(foo, 1, "hwbinder"), E(bar, 0, "empty")}}

AllPartitions == {"system", "vendor", "odm", "unknown"}
=============================================================================
