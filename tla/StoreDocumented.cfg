\* A listing with everything wrong that the docs forbid and the test lets pass.
CONSTANTS
    limit = limit
    other = other
    n1 = n1
    n2 = n2
    pre = pre
    bad = bad
    o1 = o1
    o2 = o2
    avcType = avcType
    rawType = rawType
    newType = newType
    avc = avc
    raw = raw
    Key = {limit, other}
    KnownKey = {limit}
    Name = {n1, n2, pre, bad}
    Owner = {o1, o2, bad}
    Match <- Matches
    StartsWith <- Prefixes
    Mime = {avcType, rawType, newType}
    MimeToRole <- Codecs
    Codec = {avc, raw}
    Services <- SomeServices
    Listings <- LaxListings
    NodeLists <- SomeNodeLists
    None = None
SPECIFICATION Spec
CHECK_DEADLOCK FALSE
INVARIANTS
    ListingAsDocumented
