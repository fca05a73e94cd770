------------------------------ MODULE OmxStore ------------------------------
(***************************************************************************)
(* The host test of the OMX store: testListServiceAttributes, and          *)
(* testQueryCodecInformation, which goes over the roles the store lists,   *)
(* gathers the nodes and their roles by owner, asks each owner's IOmx for  *)
(* its nodes, tries to create them, and at last looks at the prefix.       *)
(*                                                                         *)
(* The store and its IOmx instances may answer anything.  What a regular   *)
(* expression says of a string is part of the string: it matches the whole *)
(* of it, only its start, or nothing.                                      *)
(***************************************************************************)
EXTENDS Integers, Sequences

CONSTANTS
    Key,             \* names of attributes
    KnownKey,        \* those that have, or match, an expression for the value
    Name,            \* names of nodes, and prefixes of them
    Owner,           \* names of IOmx instances
    Match,           \* what the expression of names says of each of these
    StartsWith,      \* the names that start with a prefix
    Mime,            \* mime types
    MimeToRole,      \* for the recognized ones, the last part of the role
    Codec,           \* these parts
    Services,        \* the attributes listServiceAttributes may list
    Listings,        \* what listRoles may list
    NodeLists,       \* what IOmx.listNodes may list
    None             \* no role, no owner, no prefix yet

Matched == {"whole", "start", "none"}

Attribute == [key : Key, value : Matched]

Role == [isEncoder : BOOLEAN, codec : Codec]

Node == [name : Name, owner : Owner, attributes : Seq(Attribute)]

RoleInfo == [role : Role, type : Mime, isEncoder : BOOLEAN, nodes : Seq(Node)]

NodeInfo == [mName : Name, mRoles : SUBSET Role]

Status == {"OK", "NO_MEMORY"}

Test == {"testListServiceAttributes", "testQueryCodecInformation"}

ASSUME StoreAssumption ==
    /\ KnownKey \subseteq Key
    /\ Match \in [Name \cup Owner -> Matched]
    /\ StartsWith \in [Name -> SUBSET Name]
    /\ DOMAIN MimeToRole \subseteq Mime
    /\ \A m \in DOMAIN MimeToRole : MimeToRole[m] \in Codec
    /\ Services \subseteq Seq(Attribute)
    /\ Listings \subseteq Seq(RoleInfo)
    /\ NodeLists \subseteq Seq(NodeInfo)
    /\ None \notin Role \cup Owner \cup Name

VARIABLES
    test,         \* the test that runs, fixed
    services,     \* what listServiceAttributes listed, fixed
    listing,      \* what listRoles listed, fixed
    pc,           \* where the test is, or how it ended
    i,            \* the role, or the service attribute, that is next
    j,            \* the node that is next, of the role or of the IOmx instance
    key_set,      \* names of service attributes seen
    role_set,     \* names of roles seen
    node_set,     \* names of nodes seen, of the role or of the IOmx instance
    node2roles,   \* the roles of a node, {} for one that is not in the map
    owner2nodes,  \* the nodes of an owner, {} for one that is not in the map
    ownersLeft,   \* owners the loop has still to come to
    owner,        \* the owner it is at
    given,        \* history: what the IOmx of an owner listed
    tried,        \* history: nodes created, <<owner, name>>
    refused,      \* history: calls that were not answered with OK
    prefix        \* history: what getNodePrefix returned

fixed == <<test, services, listing>>
lists == <<role_set, node2roles, owner2nodes>>
store == <<ownersLeft, owner, given, tried>>
vars == <<fixed, pc, i, j, key_set, node_set, lists, store, refused, prefix>>

Init ==
    /\ \/ test = "testListServiceAttributes" /\ services \in Services /\ listing = <<>>
       \/ test = "testQueryCodecInformation" /\ services = <<>> /\ listing \in Listings
    /\ pc = "start"
    /\ i = 1
    /\ j = 1
    /\ key_set = {}
    /\ role_set = {}
    /\ node_set = {}
    /\ node2roles = [n \in Name |-> {}]
    /\ owner2nodes = [o \in Owner |-> {}]
    /\ ownersLeft = {}
    /\ owner = None
    /\ given = [o \in Owner |-> <<>>]
    /\ tried = {}
    /\ refused = {}
    /\ prefix = None

-----------------------------------------------------------------------------
(* testListServiceAttributes.                                              *)

ListServiceAttributes(status) ==
    /\ test = "testListServiceAttributes"
    /\ pc = "start"
    /\ IF status = "OK"
       THEN pc' = "services" /\ UNCHANGED refused
       ELSE pc' = "failed" /\ refused' = refused \cup {"listServiceAttributes"}
    /\ UNCHANGED <<fixed, i, j, key_set, node_set, lists, store, prefix>>

\* match looks at the start of a value only.
ValueOk(attr) == attr.key \in KnownKey => attr.value # "none"

\* Mutant: the name is not noted.
CheckServiceMutant ==
    /\ pc = "services"
    /\ i \in DOMAIN services
    /\ pc' = IF services[i].key \in key_set \/ ~ValueOk(services[i]) THEN "failed" ELSE "services"
    /\ i' = i + 1
    /\ UNCHANGED <<fixed, j, key_set, node_set, lists, store, refused, prefix>>

CheckService ==
    /\ pc = "services"
    /\ i \in DOMAIN services
    /\ pc' = IF services[i].key \in key_set \/ ~ValueOk(services[i]) THEN "failed" ELSE "services"
    /\ i' = i + 1
    /\ key_set' = key_set \cup {services[i].key}
    /\ UNCHANGED <<fixed, j, node_set, lists, store, refused, prefix>>

EndOfServices ==
    /\ pc = "services"
    /\ i \notin DOMAIN services
    /\ pc' = "passed"
    /\ UNCHANGED <<fixed, i, j, key_set, node_set, lists, store, refused, prefix>>

-----------------------------------------------------------------------------
(* testQueryCodecInformation, over IOmxStore.listRoles.                    *)

get_role(isEncoder, type) ==
    IF type \in DOMAIN MimeToRole
    THEN [isEncoder |-> isEncoder, codec |-> MimeToRole[type]]
    ELSE None

Queried(r) == get_role(listing[r].isEncoder, listing[r].type)

\* "IOmxStore has an empty implementation. Skipping..."
ListRoles ==
    /\ test = "testQueryCodecInformation"
    /\ pc = "start"
    /\ pc' = IF listing = <<>> THEN "passed" ELSE "roles"
    /\ UNCHANGED <<fixed, i, j, key_set, node_set, lists, store, refused, prefix>>

\* Mutant: the queried role is noted before it is looked at.
SkipRoleMutant ==
    /\ pc = "roles"
    /\ i \in DOMAIN listing
    /\ listing[i].role \notin role_set
    /\ Queried(i) = None
    /\ i' = i + 1
    /\ role_set' = role_set \cup {Queried(i)}
    /\ UNCHANGED <<fixed, pc, j, key_set, node_set, node2roles, owner2nodes, store, refused, prefix>>

\* A role whose mime type is not recognized is skipped, and its name is not noted.
SkipRole ==
    /\ pc = "roles"
    /\ i \in DOMAIN listing
    /\ listing[i].role \notin role_set
    /\ Queried(i) = None
    /\ i' = i + 1
    /\ UNCHANGED <<fixed, pc, j, key_set, node_set, lists, store, refused, prefix>>

RejectRole ==
    /\ pc = "roles"
    /\ i \in DOMAIN listing
    /\ \/ listing[i].role \in role_set
       \/ Queried(i) \notin {None, listing[i].role}
    /\ pc' = "failed"
    /\ UNCHANGED <<fixed, i, j, key_set, node_set, lists, store, refused, prefix>>

TakeRole ==
    /\ pc = "roles"
    /\ i \in DOMAIN listing
    /\ listing[i].role \notin role_set
    /\ Queried(i) = listing[i].role
    /\ pc' = "nodes"
    /\ j' = 1
    /\ role_set' = role_set \cup {listing[i].role}
    /\ node_set' = {}
    /\ UNCHANGED <<fixed, i, key_set, node2roles, owner2nodes, store, refused, prefix>>

\* Mutant: the keys are not compared with one another.
AttributesOkMutant(attributes) == \A k \in DOMAIN attributes : ValueOk(attributes[k])

\* No attribute twice, none with a wrong value.
AttributesOk(attributes) ==
    /\ \A k, l \in DOMAIN attributes : k < l => attributes[k].key # attributes[l].key
    /\ \A k \in DOMAIN attributes : ValueOk(attributes[k])

\* node_set is emptied for each role and nothing is ever added to it here.
NodeOk(node) ==
    /\ node.name \notin node_set
    /\ Match[node.name] # "none"
    /\ Match[node.owner] # "none"
    /\ AttributesOk(node.attributes)

RejectNode ==
    /\ pc = "nodes"
    /\ j \in DOMAIN listing[i].nodes
    /\ ~NodeOk(listing[i].nodes[j])
    /\ pc' = "failed"
    /\ UNCHANGED <<fixed, i, j, key_set, node_set, lists, store, refused, prefix>>

\* Mutant: a node that is in the map keeps the roles it has.
Node2RolesMutant(node) ==
    IF node2roles[node.name] = {}
    THEN [node2roles EXCEPT ![node.name] = {Queried(i)}]
    ELSE node2roles

Node2Roles(node) == [node2roles EXCEPT ![node.name] = @ \cup {Queried(i)}]

\* Mutant: a node goes to each of its owners.
Owner2NodesMutant(node) == [owner2nodes EXCEPT ![node.owner] = @ \cup {node.name}]

\* A node goes to its owner when it is met for the first time; if another role
\* lists it with another owner, that one is not looked at.
Owner2Nodes(node) ==
    IF node2roles[node.name] = {}
    THEN [owner2nodes EXCEPT ![node.owner] = @ \cup {node.name}]
    ELSE owner2nodes

CheckNode ==
    /\ pc = "nodes"
    /\ j \in DOMAIN listing[i].nodes
    /\ LET node == listing[i].nodes[j]
       IN  /\ NodeOk(node)
           /\ node2roles' = Node2Roles(node)
           /\ owner2nodes' = Owner2Nodes(node)
    /\ j' = j + 1
    /\ UNCHANGED <<fixed, pc, i, key_set, node_set, role_set, store, refused, prefix>>

EndOfNodes ==
    /\ pc = "nodes"
    /\ j \notin DOMAIN listing[i].nodes
    /\ pc' = "roles"
    /\ i' = i + 1
    /\ UNCHANGED <<fixed, j, key_set, node_set, lists, store, refused, prefix>>

EndOfRoles ==
    /\ pc = "roles"
    /\ i \notin DOMAIN listing
    /\ pc' = "owners"
    /\ ownersLeft' = {o \in Owner : owner2nodes[o] # {}}
    /\ UNCHANGED <<fixed, i, j, key_set, node_set, lists, owner, given, tried, refused, prefix>>

-----------------------------------------------------------------------------
(* testQueryCodecInformation, with the IOmx of each owner.                 *)

\* The owners come out of a dictionary, in any order.
GetOmx(o, status) ==
    /\ pc = "owners"
    /\ o \in ownersLeft
    /\ ownersLeft' = ownersLeft \ {o}
    /\ owner' = o
    /\ IF status = "OK"
       THEN pc' = "listNodes" /\ UNCHANGED refused
       ELSE pc' = "failed" /\ refused' = refused \cup {"getOmx"}
    /\ UNCHANGED <<fixed, i, j, key_set, node_set, lists, given, tried, prefix>>

ListNodes(status, list) ==
    /\ pc = "listNodes"
    /\ IF status = "OK"
       THEN /\ pc' = "infos"
            /\ given' = [given EXCEPT ![owner] = list]
            /\ UNCHANGED refused
       ELSE /\ pc' = "failed"
            /\ refused' = refused \cup {"listNodes"}
            /\ UNCHANGED given
    /\ j' = 1
    /\ node_set' = {}
    /\ UNCHANGED <<fixed, i, key_set, lists, ownersLeft, owner, tried, prefix>>

Info == given[owner][j]

RejectInfo ==
    /\ pc = "infos"
    /\ j \in DOMAIN given[owner]
    /\ \/ Info.mName \in node_set
       \/ /\ Info.mName \in owner2nodes[owner]
          /\ ~(node2roles[Info.mName] \subseteq Info.mRoles)
    /\ pc' = "failed"
    /\ UNCHANGED <<fixed, i, j, key_set, node_set, lists, store, refused, prefix>>

\* A "hidden" node, one the store does not list for this owner.
SkipHidden ==
    /\ pc = "infos"
    /\ j \in DOMAIN given[owner]
    /\ Info.mName \notin node_set \cup owner2nodes[owner]
    /\ node_set' = node_set \cup {Info.mName}
    /\ j' = j + 1
    /\ UNCHANGED <<fixed, pc, i, key_set, lists, store, refused, prefix>>

CheckInfo ==
    /\ pc = "infos"
    /\ j \in DOMAIN given[owner]
    /\ Info.mName \in owner2nodes[owner] \ node_set
    /\ node2roles[Info.mName] \subseteq Info.mRoles
    /\ node_set' = node_set \cup {Info.mName}
    /\ pc' = "allocate"
    /\ UNCHANGED <<fixed, i, j, key_set, lists, store, refused, prefix>>

\* allocateNode, and freeNode, whose status is not looked at.
AllocateNode(status) ==
    /\ pc = "allocate"
    /\ IF status = "OK"
       THEN /\ pc' = "infos"
            /\ tried' = tried \cup {<<owner, Info.mName>>}
            /\ j' = j + 1
            /\ UNCHANGED refused
       ELSE /\ pc' = "failed"
            /\ refused' = refused \cup {"allocateNode"}
            /\ UNCHANGED <<tried, j>>
    /\ UNCHANGED <<fixed, i, key_set, node_set, lists, ownersLeft, owner, given, prefix>>

\* Mutant: all nodes are expected of each owner.
ExpectedMutant == {n \in Name : node2roles[n] # {}}

Expected == owner2nodes[owner]

EndOfInfos ==
    /\ pc = "infos"
    /\ j \notin DOMAIN given[owner]
    /\ pc' = IF Expected \subseteq node_set THEN "owners" ELSE "failed"
    /\ UNCHANGED <<fixed, i, j, key_set, node_set, lists, store, refused, prefix>>

EndOfOwners ==
    /\ pc = "owners"
    /\ ownersLeft = {}
    /\ pc' = IF \E n \in Name : node2roles[n] # {} THEN "prefix" ELSE "passed"
    /\ UNCHANGED <<fixed, i, j, key_set, node_set, lists, store, refused, prefix>>

GetNodePrefix(p) ==
    /\ pc = "prefix"
    /\ prefix' = p
    /\ pc' = IF /\ Match[p] # "none"
                /\ \A n \in Name : node2roles[n] # {} => n \in StartsWith[p]
             THEN "passed" ELSE "failed"
    /\ UNCHANGED <<fixed, i, j, key_set, node_set, lists, store, refused>>

-----------------------------------------------------------------------------
Attributes ==
    \/ \E status \in Status : ListServiceAttributes(status)
    \/ CheckService
    \/ EndOfServices

Roles ==
    \/ ListRoles
    \/ SkipRole
    \/ RejectRole
    \/ TakeRole
    \/ RejectNode
    \/ CheckNode
    \/ EndOfNodes
    \/ EndOfRoles

Nodes ==
    \/ \E o \in Owner, status \in Status : GetOmx(o, status)
    \/ \E status \in Status, list \in NodeLists : ListNodes(status, list)
    \/ RejectInfo
    \/ SkipHidden
    \/ CheckInfo
    \/ \E status \in Status : AllocateNode(status)
    \/ EndOfInfos
    \/ EndOfOwners
    \/ \E p \in Name : GetNodePrefix(p)

Next == Attributes \/ Roles \/ Nodes

Spec == Init /\ [][Next]_vars

-----------------------------------------------------------------------------
(* Properties.                                                             *)

TypeOK ==
    /\ test \in Test
    /\ services \in Seq(Attribute)
    /\ listing \in Seq(RoleInfo)
    /\ pc \in {"start", "services", "roles", "nodes", "owners", "listNodes", "infos",
               "allocate", "prefix", "passed", "failed"}
    /\ i \in Nat \ {0}
    /\ j \in Nat \ {0}
    /\ key_set \subseteq Key
    /\ role_set \subseteq Role
    /\ node_set \subseteq Name
    /\ node2roles \in [Name -> SUBSET Role]
    /\ owner2nodes \in [Owner -> SUBSET Name]
    /\ ownersLeft \subseteq Owner
    /\ owner \in Owner \cup {None}
    /\ given \in [Owner -> NodeLists \cup {<<>>}]
    /\ tried \subseteq Owner \X Name
    /\ refused \subseteq {"listServiceAttributes", "getOmx", "listNodes", "allocateNode"}
    /\ prefix \in Name \cup {None}

\* What the listing says, with no regard to how the test gathers it: the roles
\* with a mime type that is recognized, the places where they name a node, and
\* which of two places comes first.
Recognized == {r \in DOMAIN listing : listing[r].type \in DOMAIN MimeToRole}

Mention == UNION {{r} \X DOMAIN listing[r].nodes : r \in Recognized}

NodeAt(m) == listing[m[1]].nodes[m[2]]

Before(l, m) == l[1] < m[1] \/ (l[1] = m[1] /\ l[2] < m[2])

\* The first place to name a node decides on its owner.
FirstMention(m) == \A l \in Mention : Before(l, m) => NodeAt(l).name # NodeAt(m).name

Owns(o, n) ==
    \E m \in Mention : NodeAt(m).name = n /\ NodeAt(m).owner = o /\ FirstMention(m)

RolesOf(n) == {listing[m[1]].role : m \in {l \in Mention : NodeAt(l).name = n}}

\* A list of attributes as the test asks for it: every key once, every value of a
\* known key with a start the expression matches.
WellFormed(attributes) ==
    \A k \in DOMAIN attributes :
        /\ attributes[k].key \in KnownKey => attributes[k].value \in {"whole", "start"}
        /\ \A l \in DOMAIN attributes \ {k} : attributes[l].key # attributes[k].key

\* A role as the test asks for it: it is the one of its mime type, if that is
\* recognized, and no recognized one before has its name.
RoleRight(r) ==
    /\ listing[r].type \in DOMAIN MimeToRole =>
          listing[r].role =
              [isEncoder |-> listing[r].isEncoder, codec |-> MimeToRole[listing[r].type]]
    /\ \A q \in Recognized : q < r => listing[q].role # listing[r].role

MentionRight(m) ==
    /\ Match[NodeAt(m).name] # "none"
    /\ Match[NodeAt(m).owner] # "none"
    /\ WellFormed(NodeAt(m).attributes)

\* The service attributes pass only if none comes twice and each known one has a
\* value that starts as it should, and fail only for one of these causes or a
\* refused call (lines 99-127).  That the whole value is right cannot be said:
\* ListingAsDocumented.
ServiceVouched ==
    /\ pc = "passed" /\ test = "testListServiceAttributes" => WellFormed(services)
    /\ pc = "failed" /\ test = "testListServiceAttributes" =>
          ~WellFormed(services) \/ refused # {}

\* When the test goes on to ask IOmx, every role was seen to differ from those of
\* recognized mime types before it and to agree with its own, if that is recognized
\* too, and every mention of a node in such a role to have a name, an owner and
\* attributes the expressions accept (lines 297-398).  What the docs want beyond
\* that is in ListingAsDocumented.
ListingVouched ==
    pc \in {"owners", "listNodes", "infos", "allocate", "prefix", "passed"}
          /\ test = "testQueryCodecInformation" =>
        /\ \A r \in DOMAIN listing : RoleRight(r)
        /\ \A m \in Mention : MentionRight(m)

\* While the roles are gathered and after, a node in the map is a node of exactly
\* one owner, so that it is asked for and created once (lines 391-398, 404-453).
OneOwner ==
    /\ \A n \in Name : node2roles[n] # {} <=> \E o \in Owner : n \in owner2nodes[o]
    /\ \A o, p \in Owner : o # p => owner2nodes[o] \cap owner2nodes[p] = {}

\* What an owner's IOmx says of a node that is the owner's: it is listed once, with
\* all roles.
Supported(o, n) ==
    /\ \E k \in DOMAIN given[o] : given[o][k].mName = n
    /\ \A k \in DOMAIN given[o] : given[o][k].mName = n => RolesOf(n) \subseteq given[o][k].mRoles
    /\ \A k, l \in DOMAIN given[o] : k < l => given[o][k].mName # given[o][l].mName

\* When the test passes, every node was reported by its first owner with all the
\* roles of the listing, whoever listed them, and was created; and all names of
\* nodes start with the prefix (lines 404-480).
SupportVouched ==
    pc = "passed" /\ test = "testQueryCodecInformation" =>
        \A o \in Owner, n \in Name : Owns(o, n) =>
            /\ Supported(o, n)
            /\ <<o, n>> \in tried
            /\ prefix \in Name
            /\ Match[prefix] # "none" /\ n \in StartsWith[prefix]

\* What is wrong in the answer of an owner's IOmx that was asked.
AnswerWrong(o) ==
    \/ \E k, l \in DOMAIN given[o] : k < l /\ given[o][k].mName = given[o][l].mName
    \/ \E n \in Name : Owns(o, n) /\ ~Supported(o, n)

\* The test fails only for a call that was refused or for what it has come to: in
\* the loop over the roles the role or the node it is at, with an IOmx the answer
\* of this very owner about its own nodes, at the end the prefix.  So it does not
\* fail for a hidden node, nor for a node another owner lists too, nor for what an
\* owner has not been asked yet (lines 304-480).
FailuresJustified ==
    pc = "failed" /\ test = "testQueryCodecInformation" =>
        \/ refused # {}
        \/ /\ owner = None
           /\ i \in DOMAIN listing
           /\ ~RoleRight(i) \/ (<<i, j>> \in Mention /\ ~MentionRight(<<i, j>>))
        \/ /\ owner \in Owner /\ prefix = None
           /\ AnswerWrong(owner)
        \/ /\ prefix \in Name
           /\ \/ Match[prefix] = "none"
              \/ \E n \in Name : RolesOf(n) # {} /\ n \notin StartsWith[prefix]

\* What the docs and comments say of a listing that passes: "Role names and mime
\* types must be recognized" (lines 146-147), "The role name must not have
\* duplicates." (line 304), "For each role, the node name must not have
\* duplicates." (line 337), and the values of known attributes, here as with the
\* service attributes, are to be what the expressions say and not only to start
\* so ("should only have '0' or '1' as their value", lines 65-66, 144-145).
ListingAsDocumented ==
    pc = "passed" /\ test = "testQueryCodecInformation" =>
        /\ Recognized = DOMAIN listing
        /\ \A q, r \in DOMAIN listing : q < r => listing[q].role # listing[r].role
        /\ \A m, l \in Mention : m[1] = l[1] /\ m[2] < l[2] => NodeAt(m).name # NodeAt(l).name
        /\ \A m \in Mention : \A k \in DOMAIN NodeAt(m).attributes :
              NodeAt(m).attributes[k].key \in KnownKey =>
                  NodeAt(m).attributes[k].value = "whole"
=============================================================================
