----------------------------- MODULE MCOmxStore -----------------------------
(* OmxStore for TLC: two nodes and a prefix of both, two owners and one     *)
(* whose name does not match, three roles.                                  *)
EXTENDS OmxStore, TLC

CONSTANTS limit, other, n1, n2, pre, bad, o1, o2, avcType, rawType, newType, avc, raw

A(k, v) == [key |-> k, value |-> v]

\* Attributes of the service: fine, with a wrong value, twice the same.
SomeServices == {<<>>} \cup {<<a>> : a \in Attribute} \cup {<<a, b>> : a, b \in Attribute}

R(enc, c) == [isEncoder |-> enc, codec |-> c]
AvcDec == R(FALSE, avc)
AvcEnc == R(TRUE, avc)

I(r, t, nodes) == [role |-> r, type |-> t, isEncoder |-> r.isEncoder, nodes |-> nodes]
N(n, o) == [name |-> n, owner |-> o, attributes |-> <<A(limit, "start")>>]
NA(list) == [name |-> n1, owner |-> o1, attributes |-> list]

\* Nodes with one owner or with two, a role of a mime type that is not known, and
\* for each assertion an entry that is wrong.
RightInfos == {
    I(AvcDec, avcType, <<N(n1, o1), N(n2, o2)>>),
    I(AvcDec, avcType, <<N(n1, o1), N(n1, o2)>>),
    I(AvcEnc, avcType, <<N(n1, o2)>>),
    I(AvcEnc, avcType, <<N(n2, o1), N(n1, o1)>>),
    I(AvcDec, newType, <<N(n2, o2)>>),
    I(R(FALSE, raw), rawType, <<N(n2, o1)>>)}

WrongInfos == {
    I(AvcEnc, rawType, <<N(n1, o1)>>),
    I(R(FALSE, raw), rawType, <<N(bad, o1)>>),
    I(R(FALSE, raw), rawType, <<N(n1, bad)>>),
    I(R(FALSE, raw), rawType, <<NA(<<A(other, "none"), A(limit, "whole")>>)>>),
    I(R(FALSE, raw), rawType, <<NA(<<A(limit, "none")>>)>>),
    I(R(FALSE, raw), rawType, <<NA(<<A(other, "none"), A(other, "whole")>>)>>)}

Infos == RightInfos \cup WrongInfos

SomeListings == {<<>>} \cup {<<a>> : a \in Infos} \cup {<<a, b>> : a, b \in Infos}
                \cup {<<a, b, c>> : a, b, c \in RightInfos}

\* Wrong in every way the test lets pass: a role listed twice, of a mime type that
\* is not recognized, and a role with a node listed twice, its known attribute with
\* a value that only starts right.
LaxListings == {<<I(AvcEnc, newType, <<>>), I(AvcEnc, newType, <<>>),
                  I(AvcDec, avcType, <<N(n1, o1), N(n1, o1)>>)>>}

\* What an IOmx may list: both nodes or one, with more or fewer roles, or twice.
L(n, roles) == [mName |-> n, mRoles |-> roles]
NodeInfos == {L(n1, {AvcDec}), L(n1, {AvcDec, AvcEnc, R(FALSE, raw)}),
              L(n2, {AvcDec, R(FALSE, raw)}), L(n2, {AvcDec, AvcEnc})}
SomeNodeLists == {<<>>} \cup {<<a>> : a \in NodeInfos} \cup {<<a, b>> : a, b \in NodeInfos}

Matches == n1 :> "whole" @@ n2 :> "start" @@ pre :> "whole" @@ bad :> "none"
           @@ o1 :> "whole" @@ o2 :> "start"
Prefixes == n1 :> {n1} @@ n2 :> {n2} @@ pre :> {n1, n2, pre} @@ bad :> {n1, n2, pre, bad}
Codecs == avcType :> avc @@ rawType :> raw
=============================================================================
