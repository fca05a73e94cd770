----------------------------- MODULE MCHalSweep -----------------------------
(* HalSweep on two manifest entries, for TLC.                              *)
EXTENDS HalSweep

E(t, p) == [transport |-> t, platform |-> p]
S(r, c, p, h) == [remote |-> r, castable |-> c, partition |-> p, hangs |-> h]

\* Every transport, inside and outside the platform packages.
AllEntries == Entry

\* A good service, one in each wrong place, one on the other side of the
\* process boundary, one that hangs.
SomeServices == {
    S(TRUE,  TRUE,  "odm",     FALSE),
    S(TRUE,  TRUE,  "system",  FALSE),
    S(FALSE, TRUE,  "unknown", FALSE),
    S(FALSE, FALSE, "unknown", FALSE),
    S(TRUE,  TRUE,  "vendor",  TRUE)}

LegacyAndNew == {27, 28}
=============================================================================
