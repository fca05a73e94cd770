--------------------------- MODULE OmxStoreProofs ---------------------------
(***************************************************************************)
(* Proofs about OmxStore, for any listing and any answers.  While the      *)
(* roles are gathered, the two maps are what the mentions read so far say; *)
(* at the end of the roles these are all mentions.  After that the loop    *)
(* over the owners vouches for one owner after the other.                  *)
(***************************************************************************)
EXTENDS OmxStore, TLAPS

Gathering == {"roles", "nodes"}

Asking == {"listNodes", "infos", "allocate"}

Gathered == {"owners", "prefix", "passed"} \cup Asking

\* Where each test can be.
ShapeInv ==
    /\ pc \in {"services"} => test = "testListServiceAttributes"
    /\ pc \in Gathering \cup {"owners", "prefix"} \cup Asking =>
          test = "testQueryCodecInformation"
    /\ pc = "start" => i = 1 /\ key_set = {} /\ role_set = {} /\ ownersLeft = {}
    /\ pc = "start" => \A n \in Name : node2roles[n] = {}
    /\ pc = "start" => \A o \in Owner : owner2nodes[o] = {}
    /\ pc = "nodes" => i \in Recognized /\ node_set = {}
    /\ pc \in Asking => owner \in Owner
    /\ pc \in {"start"} \cup Gathering => owner = None
    /\ pc \notin {"passed", "failed"} => prefix = None

ServiceInv ==
    pc = "services" =>
        /\ key_set = {services[k].key : k \in {l \in DOMAIN services : l < i}}
        /\ \A k \in DOMAIN services : k < i => ValueOk(services[k])
        /\ \A k, l \in DOMAIN services : k < l /\ l < i => services[k].key # services[l].key

RoleRead(r) == r < i \/ (r = i /\ pc = "nodes")

MentionRead(m) == m[1] < i \/ (m[1] = i /\ pc = "nodes" /\ m[2] < j)

\* What the test has read of the listing is right, and noted.
GatherInv ==
    pc \in Gathering =>
        /\ \A r \in DOMAIN listing : RoleRead(r) => RoleRight(r)
        /\ \A m \in Mention : MentionRead(m) => MentionRight(m)
        /\ \A r \in Recognized : RoleRead(r) => listing[r].role \in role_set
        /\ \A x \in role_set : \E r \in Recognized : RoleRead(r) /\ listing[r].role = x

\* The two maps say what the mentions in S say.
Maps(S) ==
    /\ \A m \in S : listing[m[1]].role \in node2roles[NodeAt(m).name]
    /\ \A n \in Name : \A x \in node2roles[n] :
          \E m \in S : NodeAt(m).name = n /\ listing[m[1]].role = x
    /\ \A m \in S : FirstMention(m) => NodeAt(m).name \in owner2nodes[NodeAt(m).owner]
    /\ \A o \in Owner : \A n \in owner2nodes[o] :
          \E m \in S : NodeAt(m).name = n /\ NodeAt(m).owner = o /\ FirstMention(m)

Reading == IF pc \in Gathering THEN {m \in Mention : MentionRead(m)} ELSE Mention

MapInv ==
    test = "testQueryCodecInformation" /\ pc \in Gathering \cup Gathered => Maps(Reading)

\* An owner the loop has left behind.
OwnerDone(o) == o \in Owner \ ownersLeft /\ (o # owner \/ pc \notin Asking)

InfoRead(k) == k < j \/ (k = j /\ pc = "allocate")

OwnerInv ==
    test = "testQueryCodecInformation" /\ pc \in Gathered =>
        \A o \in Owner : OwnerDone(o) =>
            \A n \in owner2nodes[o] : Supported(o, n) /\ <<o, n>> \in tried

\* What the owner's IOmx listed, as far as the test has come.
InfoInv ==
    /\ pc = "allocate" => j \in DOMAIN given[owner]
    /\ pc \in {"infos", "allocate"} =>
          /\ \A k \in DOMAIN given[owner] : InfoRead(k) => given[owner][k].mName \in node_set
          /\ \A n \in node_set : \E k \in DOMAIN given[owner] :
                InfoRead(k) /\ given[owner][k].mName = n
          /\ \A k, l \in DOMAIN given[owner] : k < l /\ InfoRead(l) =>
                given[owner][k].mName # given[owner][l].mName
          /\ \A k \in DOMAIN given[owner] :
                InfoRead(k) /\ given[owner][k].mName \in owner2nodes[owner] =>
                    node2roles[given[owner][k].mName] \subseteq given[owner][k].mRoles
          /\ \A k \in DOMAIN given[owner] :
                k < j /\ given[owner][k].mName \in owner2nodes[owner] =>
                    <<owner, given[owner][k].mName>> \in tried

EndInv ==
    /\ pc = "prefix" => ownersLeft = {}
    /\ test = "testQueryCodecInformation" /\ pc = "passed" =>
          /\ ownersLeft = {}
          /\ \A n \in Name : node2roles[n] # {} =>
                prefix \in Name /\ Match[prefix] # "none" /\ n \in StartsWith[prefix]

Inv ==
    /\ TypeOK
    /\ ShapeInv
    /\ ServiceInv
    /\ ServiceVouched
    /\ GatherInv
    /\ ListingVouched
    /\ MapInv
    /\ OneOwner
    /\ OwnerInv
    /\ InfoInv
    /\ EndInv
    /\ FailuresJustified
-----------------------------------------------------------------------------
\* The places where a node is named, and what stands there.
LEMMA MentionFacts ==
    ASSUME TypeOK
    PROVE  /\ \A m \in Mention : m[1] \in Recognized /\ m[2] \in DOMAIN listing[m[1]].nodes
           /\ \A r \in Recognized : \A k \in DOMAIN listing[r].nodes : <<r, k>> \in Mention
           /\ \A m \in Mention : m = <<m[1], m[2]>>
<1> QED
  BY DEF Mention

LEMMA ListingFacts ==
    ASSUME TypeOK
    PROVE  /\ \A r \in DOMAIN listing :
                  /\ r \in Nat \ {0}
                  /\ listing[r] \in RoleInfo
                  /\ listing[r].role \in Role
                  /\ listing[r].nodes \in Seq(Node)
                  /\ \A k \in DOMAIN listing[r].nodes :
                        /\ k \in Nat \ {0}
                        /\ listing[r].nodes[k] \in Node
                        /\ listing[r].nodes[k].name \in Name
                        /\ listing[r].nodes[k].owner \in Owner
           /\ Recognized \subseteq DOMAIN listing
<1>1. \A r \in DOMAIN listing : r \in Nat \ {0} /\ listing[r] \in RoleInfo
  BY DEF TypeOK
<1>2. \A info \in RoleInfo : info.role \in Role /\ info.nodes \in Seq(Node)
  BY DEF RoleInfo
<1>3. \A node \in Node : node.name \in Name /\ node.owner \in Owner
  BY DEF Node
<1>4. ASSUME NEW nodes \in Seq(Node), NEW k \in DOMAIN nodes
      PROVE  k \in Nat \ {0} /\ nodes[k] \in Node
  OBVIOUS
<1>5. Recognized \subseteq DOMAIN listing
  BY DEF Recognized
<1> QED
  BY <1>1, <1>2, <1>3, <1>4, <1>5

LEMMA GivenFacts ==
    ASSUME TypeOK, NEW o \in Owner
    PROVE  /\ given[o] \in Seq(NodeInfo)
           /\ \A k \in DOMAIN given[o] :
                  /\ k \in Nat \ {0}
                  /\ given[o][k].mName \in Name
                  /\ given[o][k].mRoles \subseteq Role
<1>1. given[o] \in Seq(NodeInfo)
  <2>1. given[o] \in NodeLists \cup {<<>>}
    BY DEF TypeOK
  <2>2. <<>> \in Seq(NodeInfo)
    OBVIOUS
  <2> QED
    BY <2>1, <2>2, StoreAssumption
<1>2. \A info \in NodeInfo : info.mName \in Name /\ info.mRoles \subseteq Role
  BY DEF NodeInfo
<1>3. \A k \in DOMAIN given[o] : k \in Nat \ {0} /\ given[o][k] \in NodeInfo
  BY <1>1
<1> QED
  BY <1>1, <1>2, <1>3

LEMMA QueriedRole ==
    ASSUME TypeOK, NEW r \in DOMAIN listing
    PROVE  /\ r \in Recognized => Queried(r) \in Role
           /\ r \notin Recognized => Queried(r) = None
           /\ None \notin Role
           /\ r \in Recognized <=> Queried(r) # None
<1>1. listing[r] \in RoleInfo
  BY ListingFacts
<1>2. listing[r].isEncoder \in BOOLEAN
  BY <1>1 DEF RoleInfo
<1>3. r \in Recognized <=> listing[r].type \in DOMAIN MimeToRole
  BY DEF Recognized
<1>4. CASE r \in Recognized
  <2>1. MimeToRole[listing[r].type] \in Codec
    BY <1>3, <1>4, StoreAssumption
  <2>2. Queried(r) = [isEncoder |-> listing[r].isEncoder, codec |-> MimeToRole[listing[r].type]]
    BY <1>3, <1>4 DEF Queried, get_role
  <2>3. Queried(r) \in Role
    BY <1>2, <2>1, <2>2 DEF Role
  <2> QED
    BY <1>4, <2>3, StoreAssumption
<1>5. CASE r \notin Recognized
  BY <1>3, <1>5, StoreAssumption DEF Queried, get_role
<1> QED
  BY <1>4, <1>5

LEMMA InitInv == Init => Inv
<1> SUFFICES ASSUME Init PROVE Inv
  OBVIOUS
<1>1. TypeOK
  <2>1. \/ /\ test = "testListServiceAttributes"
           /\ services \in Seq(Attribute)
           /\ listing = <<>>
        \/ /\ test = "testQueryCodecInformation"
           /\ services = <<>>
           /\ listing \in Seq(RoleInfo)
    BY StoreAssumption DEF Init
  <2>2. <<>> \in Seq(Attribute) /\ <<>> \in Seq(RoleInfo)
    OBVIOUS
  <2>3. test \in Test /\ services \in Seq(Attribute) /\ listing \in Seq(RoleInfo)
    BY <2>1, <2>2 DEF Test
  <2>4. given \in [Owner -> NodeLists \cup {<<>>}]
    BY DEF Init
  <2>5. node2roles \in [Name -> SUBSET Role] /\ owner2nodes \in [Owner -> SUBSET Name]
    BY DEF Init
  <2> QED
    BY <2>3, <2>4, <2>5 DEF Init, TypeOK
<1>2. ShapeInv /\ ServiceInv /\ ServiceVouched
  BY DEF Init, ShapeInv, ServiceInv, ServiceVouched, Gathering, Asking
<1>3. GatherInv /\ ListingVouched /\ MapInv /\ OwnerInv /\ InfoInv /\ EndInv /\ FailuresJustified
  BY DEF Init, GatherInv, ListingVouched, MapInv, OwnerInv, InfoInv, EndInv, FailuresJustified,
         Gathering, Gathered, Asking
<1>4. OneOwner
  BY DEF Init, OneOwner
<1> QED
  BY <1>1, <1>2, <1>3, <1>4 DEF Inv

-----------------------------------------------------------------------------
(* Steps.                                                                  *)

LEMMA TypeStep == TypeOK /\ ShapeInv /\ InfoInv /\ [Next]_vars => TypeOK'
<1> SUFFICES ASSUME TypeOK, ShapeInv, InfoInv, [Next]_vars PROVE TypeOK'
  OBVIOUS
<1> USE DEF TypeOK, fixed, lists, store
<1>1. ASSUME NEW status \in Status, ListServiceAttributes(status) PROVE TypeOK'
  BY <1>1 DEF ListServiceAttributes
<1>2. CASE CheckService
  <2>1. services[i].key \in Key
    <3>1. services[i] \in Attribute
      BY <1>2 DEF CheckService
    <3> QED
      BY <3>1 DEF Attribute
  <2> QED
    BY <1>2, <2>1 DEF CheckService
<1>3. CASE EndOfServices \/ ListRoles \/ SkipRole \/ RejectRole \/ RejectNode \/ EndOfNodes
  <2>1. pc' \in {"passed", "roles", "failed"} /\ i' \in {i, i + 1}
    BY <1>3 DEF EndOfServices, ListRoles, SkipRole, RejectRole, RejectNode, EndOfNodes
  <2>2. UNCHANGED <<test, services, listing, j, key_set, node_set, role_set, node2roles,
                    owner2nodes, ownersLeft, owner, given, tried, refused, prefix>>
    BY <1>3 DEF EndOfServices, ListRoles, SkipRole, RejectRole, RejectNode, EndOfNodes
  <2> QED
    BY <2>1, <2>2
<1>4. CASE TakeRole
  <2>1. listing[i].role \in Role
    BY <1>4, ListingFacts DEF TakeRole
  <2> QED
    BY <1>4, <2>1 DEF TakeRole
<1>5. CASE CheckNode
  <2> DEFINE node == listing[i].nodes[j]
  <2>1. i \in Recognized /\ i \in DOMAIN listing
    BY <1>5, ListingFacts DEF CheckNode, ShapeInv
  <2>2. node.name \in Name /\ node.owner \in Owner
    BY <1>5, <2>1, ListingFacts DEF CheckNode
  <2>3. Queried(i) \in Role
    BY <2>1, QueriedRole
  <2> HIDE DEF node
  <2>4. Node2Roles(node) \in [Name -> SUBSET Role]
    BY <2>2, <2>3 DEF Node2Roles
  <2>5. Owner2Nodes(node) \in [Owner -> SUBSET Name]
    BY <2>2 DEF Owner2Nodes
  <2>6. /\ node2roles' = Node2Roles(node) /\ owner2nodes' = Owner2Nodes(node)
        /\ j' = j + 1
        /\ UNCHANGED <<test, services, listing, pc, i, key_set, node_set, role_set, ownersLeft,
                       owner, given, tried, refused, prefix>>
    BY <1>5 DEF CheckNode, node
  <2> QED
    BY <2>4, <2>5, <2>6
<1>6. CASE EndOfRoles
  BY <1>6 DEF EndOfRoles
<1>7. ASSUME NEW o \in Owner, NEW status \in Status, GetOmx(o, status) PROVE TypeOK'
  BY <1>7 DEF GetOmx
<1>8. ASSUME NEW status \in Status, NEW list \in NodeLists, ListNodes(status, list)
      PROVE TypeOK'
  <2>1. pc' \in {"infos", "failed"} /\ j' = 1 /\ node_set' = {}
    BY <1>8 DEF ListNodes
  <2>2. given' \in [Owner -> NodeLists \cup {<<>>}]
    BY <1>8 DEF ListNodes
  <2>3. refused' \subseteq refused \cup {"listNodes"}
    BY <1>8 DEF ListNodes
  <2>4. UNCHANGED <<test, services, listing, i, key_set, role_set, node2roles, owner2nodes,
                    ownersLeft, owner, tried, prefix>>
    BY <1>8 DEF ListNodes
  <2> QED
    BY <2>1, <2>2, <2>3, <2>4
<1>9. CASE RejectInfo \/ EndOfInfos \/ EndOfOwners
  BY <1>9 DEF RejectInfo, EndOfInfos, EndOfOwners
<1>10. CASE SkipHidden \/ CheckInfo
  <2>1. owner \in Owner
    BY <1>10 DEF SkipHidden, CheckInfo, ShapeInv, Asking
  <2>2. Info.mName \in Name
    BY <1>10, <2>1, GivenFacts DEF SkipHidden, CheckInfo, Info
  <2>3. node_set' = node_set \cup {Info.mName} /\ pc' \in {"infos", "allocate"} /\ j' \in {j, j + 1}
    BY <1>10 DEF SkipHidden, CheckInfo
  <2>4. UNCHANGED <<test, services, listing, i, key_set, role_set, node2roles, owner2nodes,
                    ownersLeft, owner, given, tried, refused, prefix>>
    BY <1>10 DEF SkipHidden, CheckInfo
  <2> QED
    BY <2>2, <2>3, <2>4
<1>11. ASSUME NEW status \in Status, AllocateNode(status) PROVE TypeOK'
  <2>1. owner \in Owner
    BY <1>11 DEF AllocateNode, ShapeInv, Asking
  <2>2. Info.mName \in Name
    BY <1>11, <2>1, GivenFacts DEF AllocateNode, InfoInv, Info
  <2>3. <<owner, Info.mName>> \in Owner \X Name
    BY <2>1, <2>2
  <2>4. tried' \subseteq tried \cup {<<owner, Info.mName>>} /\ refused' \subseteq refused \cup {"allocateNode"}
    BY <1>11 DEF AllocateNode
  <2>5. pc' \in {"infos", "failed"} /\ j' \in {j, j + 1}
    BY <1>11 DEF AllocateNode
  <2>6. UNCHANGED <<test, services, listing, i, key_set, node_set, role_set, node2roles,
                    owner2nodes, ownersLeft, owner, given, prefix>>
    BY <1>11 DEF AllocateNode
  <2> QED
    BY <2>3, <2>4, <2>5, <2>6
<1>12. ASSUME NEW p \in Name, GetNodePrefix(p) PROVE TypeOK'
  BY <1>12 DEF GetNodePrefix
<1>13. CASE UNCHANGED vars
  BY <1>13 DEF vars
<1>14. CASE Attributes
  BY <1>1, <1>2, <1>3, <1>14, Zenon DEF Attributes
<1>15. CASE Roles
  BY <1>3, <1>4, <1>5, <1>6, <1>15, Zenon DEF Roles
<1>16. CASE Nodes
  BY <1>7, <1>8, <1>9, <1>10, <1>11, <1>12, <1>16, Zenon DEF Nodes
<1> QED
  BY <1>13, <1>14, <1>15, <1>16, Zenon DEF Next
LEMMA ShapeStep == TypeOK /\ ShapeInv /\ [Next]_vars => ShapeInv'
<1> SUFFICES ASSUME TypeOK, ShapeInv, [Next]_vars PROVE ShapeInv'
  OBVIOUS
<1> USE DEF ShapeInv, fixed, lists, store, Gathering, Asking
<1>1. ASSUME NEW status \in Status, ListServiceAttributes(status) PROVE ShapeInv'
  BY <1>1 DEF ListServiceAttributes
<1>2. CASE CheckService \/ EndOfServices
  BY <1>2 DEF CheckService, EndOfServices
<1>3. CASE ListRoles \/ SkipRole \/ RejectRole \/ RejectNode
  BY <1>3 DEF ListRoles, SkipRole, RejectRole, RejectNode
<1>4. CASE TakeRole
  <2>1. i \in Recognized
    BY <1>4, QueriedRole, ListingFacts DEF TakeRole
  <2>2. Recognized' = Recognized
    BY <1>4 DEF TakeRole, Recognized
  <2> QED
    BY <1>4, <2>1, <2>2 DEF TakeRole
<1>5. CASE CheckNode
  <2>1. Recognized' = Recognized
    BY <1>5 DEF CheckNode, Recognized
  <2> QED
    BY <1>5, <2>1 DEF CheckNode
<1>6. CASE EndOfNodes \/ EndOfRoles
  BY <1>6 DEF EndOfNodes, EndOfRoles
<1>7. ASSUME NEW o \in Owner, NEW status \in Status, GetOmx(o, status) PROVE ShapeInv'
  BY <1>7 DEF GetOmx
<1>8. ASSUME NEW status \in Status, NEW list \in NodeLists, ListNodes(status, list)
      PROVE ShapeInv'
  BY <1>8 DEF ListNodes
<1>9. CASE RejectInfo \/ EndOfInfos \/ EndOfOwners \/ SkipHidden \/ CheckInfo
  BY <1>9 DEF RejectInfo, EndOfInfos, EndOfOwners, SkipHidden, CheckInfo
<1>10. ASSUME NEW status \in Status, AllocateNode(status) PROVE ShapeInv'
  BY <1>10 DEF AllocateNode
<1>11. ASSUME NEW p \in Name, GetNodePrefix(p) PROVE ShapeInv'
  BY <1>11 DEF GetNodePrefix
<1>12. CASE UNCHANGED vars
  BY <1>12 DEF vars, Recognized
<1>13. CASE Attributes
  BY <1>1, <1>2, <1>13, Zenon DEF Attributes
<1>14. CASE Roles
  BY <1>3, <1>4, <1>5, <1>6, <1>14, Zenon DEF Roles
<1>15. CASE Nodes
  BY <1>7, <1>8, <1>9, <1>10, <1>11, <1>15, Zenon DEF Nodes
<1> QED
  BY <1>12, <1>13, <1>14, <1>15, Zenon DEF Next

\* What AttributesOk and ValueOk look at is what WellFormed says.
LEMMA WellFormedAttributes ==
    ASSUME NEW list \in Seq(Attribute)
    PROVE  /\ AttributesOk(list) <=> WellFormed(list)
           /\ \A k \in DOMAIN list :
                  ValueOk(list[k]) <=> (list[k].key \in KnownKey => list[k].value \in {"whole", "start"})
<1>1. \A k \in DOMAIN list : list[k] \in Attribute /\ k \in Int
  OBVIOUS
<1>2. \A k \in DOMAIN list : list[k].value \in Matched
  BY <1>1 DEF Attribute
<1>3. \A k \in DOMAIN list :
          ValueOk(list[k]) <=> (list[k].key \in KnownKey => list[k].value \in {"whole", "start"})
  BY <1>2 DEF Matched, ValueOk
<1>4. (\A k, l \in DOMAIN list : k < l => list[k].key # list[l].key)
      <=> (\A k \in DOMAIN list : \A l \in DOMAIN list \ {k} : list[l].key # list[k].key)
  <2>1. \A k, l \in DOMAIN list : k = l \/ k < l \/ l < k
    BY <1>1
  <2>2. \A k, l \in DOMAIN list : k < l => k # l
    BY <1>1
  <2> QED
    BY <2>1, <2>2
<1> QED
  BY <1>3, <1>4 DEF AttributesOk, WellFormed

LEMMA ServiceStep ==
    TypeOK /\ ShapeInv /\ ServiceInv /\ ServiceVouched /\ [Next]_vars
        => ServiceInv' /\ ServiceVouched'
<1> SUFFICES ASSUME TypeOK, ShapeInv, ServiceInv, ServiceVouched, [Next]_vars
             PROVE  ServiceInv' /\ ServiceVouched'
  OBVIOUS
<1> USE DEF ServiceInv, ServiceVouched, fixed, lists, store
<1>1. services \in Seq(Attribute) /\ (\A k \in DOMAIN services : k \in Int) /\ i \in Int
  BY DEF TypeOK
<1>2. ASSUME NEW status \in Status, ListServiceAttributes(status)
      PROVE  ServiceInv' /\ ServiceVouched'
  <2>1. key_set = {} /\ i = 1 /\ \A k \in DOMAIN services : ~(k < 1)
    BY <1>1, <1>2 DEF ListServiceAttributes, ShapeInv, TypeOK
  <2>2. pc' = "failed" => refused' # {}
    BY <1>2 DEF ListServiceAttributes
  <2> QED
    BY <1>1, <1>2, <2>1, <2>2 DEF ListServiceAttributes
<1>3. CASE CheckService
  <2>1. pc = "services" /\ i \in DOMAIN services
    BY <1>3 DEF CheckService
  <2>2. UNCHANGED <<test, services, refused>> /\ i' = i + 1 /\ pc' \in {"failed", "services"}
        /\ key_set' = key_set \cup {services[i].key}
    BY <1>3 DEF CheckService
  <2>3. \A k \in DOMAIN services : k < i + 1 <=> k < i \/ k = i
    BY <1>1
  <2>4. CASE services[i].key \in key_set \/ ~ValueOk(services[i])
    <3>1. ~WellFormed(services)
      <4>1. CASE services[i].key \in key_set
        <5>1. PICK k \in DOMAIN services : k < i /\ services[k].key = services[i].key
          BY <2>1, <4>1
        <5>2. k # i
          BY <1>1, <5>1
        <5> QED
          BY <2>1, <5>1, <5>2 DEF WellFormed
      <4>2. CASE ~ValueOk(services[i])
        BY <1>1, <2>1, <4>2, WellFormedAttributes DEF WellFormed
      <4> QED
        BY <2>4, <4>1, <4>2
    <3>2. pc' = "failed"
      BY <1>3, <2>4 DEF CheckService
    <3> QED
      BY <2>2, <3>1, <3>2 DEF WellFormed
  <2>5. CASE services[i].key \notin key_set /\ ValueOk(services[i])
    <3>1. pc' = "services"
      BY <1>3, <2>5 DEF CheckService
    <3>2. key_set' = {services[k].key : k \in {l \in DOMAIN services : l < i + 1}}
      BY <2>1, <2>2, <2>3
    <3>3. \A k \in DOMAIN services : k < i + 1 => ValueOk(services[k])
      BY <2>1, <2>3, <2>5
    <3>4. \A k, l \in DOMAIN services : k < l /\ l < i + 1 => services[k].key # services[l].key
      <4>1. \A k \in DOMAIN services : k < i => services[k].key # services[i].key
        BY <2>1, <2>5
      <4> QED
        BY <2>1, <2>3, <4>1
    <3> QED
      BY <2>2, <3>1, <3>2, <3>3, <3>4 DEF ValueOk
  <2> QED
    BY <2>4, <2>5
<1>4. CASE EndOfServices
  <2>1. \A k \in DOMAIN services : k < i
    <3>1. DOMAIN services = 1 .. Len(services) /\ Len(services) \in Nat /\ i \in Nat \ {0}
      BY DEF TypeOK
    <3>2. i \notin DOMAIN services
      BY <1>4 DEF EndOfServices
    <3> QED
      BY <3>1, <3>2
  <2>2. AttributesOk(services)
    BY <1>4, <2>1 DEF EndOfServices, AttributesOk
  <2>3. WellFormed(services)
    BY <1>1, <2>2, WellFormedAttributes
  <2> QED
    BY <1>4, <2>3 DEF EndOfServices, WellFormed
<1>5. CASE test = "testQueryCodecInformation" /\ UNCHANGED <<fixed>> /\ pc' # "services"
  BY <1>5
<1>6. CASE Roles \/ Nodes
  <2>1. test = "testQueryCodecInformation"
    BY <1>6 DEF Roles, Nodes, ListRoles, SkipRole, RejectRole, RejectNode, TakeRole, CheckNode,
           EndOfNodes, EndOfRoles, GetOmx, ListNodes, RejectInfo, SkipHidden, CheckInfo,
           AllocateNode, EndOfInfos, EndOfOwners, GetNodePrefix, ShapeInv, Gathering, Asking
  <2>2. UNCHANGED <<fixed>> /\ pc' # "services"
    BY <1>6 DEF Roles, Nodes, ListRoles, SkipRole, RejectRole, RejectNode, TakeRole, CheckNode,
           EndOfNodes, EndOfRoles, GetOmx, ListNodes, RejectInfo, SkipHidden, CheckInfo,
           AllocateNode, EndOfInfos, EndOfOwners, GetNodePrefix
  <2> QED
    BY <1>5, <2>1, <2>2
<1>7. CASE UNCHANGED vars
  BY <1>7 DEF vars, ValueOk, WellFormed
<1> QED
  BY <1>2, <1>3, <1>4, <1>6, <1>7, Zenon DEF Next, Attributes

LEMMA OneOwnerStep == TypeOK /\ ShapeInv /\ OneOwner /\ [Next]_vars => OneOwner'
<1> SUFFICES ASSUME TypeOK, ShapeInv, OneOwner, [Next]_vars PROVE OneOwner'
  OBVIOUS
<1>1. CASE UNCHANGED <<node2roles, owner2nodes>>
  BY <1>1 DEF OneOwner
<1>2. CASE CheckNode
  <2> DEFINE node == listing[i].nodes[j]
  <2>1. i \in Recognized /\ i \in DOMAIN listing
    BY <1>2, ListingFacts DEF CheckNode, ShapeInv
  <2>2. node.name \in Name /\ node.owner \in Owner
    BY <1>2, <2>1, ListingFacts DEF CheckNode
  <2>3. node2roles' = Node2Roles(node) /\ owner2nodes' = Owner2Nodes(node)
    BY <1>2 DEF CheckNode
  <2>4. node2roles \in [Name -> SUBSET Role] /\ owner2nodes \in [Owner -> SUBSET Name]
    BY DEF TypeOK
  <2> HIDE DEF node
  <2>5. \A n \in Name : node2roles'[n] # {} <=> node2roles[n] # {} \/ n = node.name
    BY <2>2, <2>3, <2>4 DEF Node2Roles
  <2>6. CASE node2roles[node.name] # {}
    <3>1. owner2nodes' = owner2nodes
      BY <2>3, <2>6 DEF Owner2Nodes
    <3>2. \A n \in Name : node2roles'[n] # {} <=> node2roles[n] # {}
      BY <2>5, <2>6
    <3> QED
      BY <3>1, <3>2 DEF OneOwner
  <2>7. CASE node2roles[node.name] = {}
    <3>1. \A o \in Owner : owner2nodes'[o] = IF o = node.owner THEN owner2nodes[o] \cup {node.name}
                                                              ELSE owner2nodes[o]
      BY <2>2, <2>3, <2>4, <2>7 DEF Owner2Nodes
    <3>2. \A o \in Owner : node.name \notin owner2nodes[o]
      BY <2>2, <2>7 DEF OneOwner
    <3>3. \A n \in Name : node2roles'[n] # {} <=> \E o \in Owner : n \in owner2nodes'[o]
      <4>1. ASSUME NEW n \in Name
            PROVE  (\E o \in Owner : n \in owner2nodes'[o])
                   <=> (\E o \in Owner : n \in owner2nodes[o]) \/ n = node.name
        BY <2>2, <3>1
      <4>2. \A n \in Name : node2roles[n] # {} <=> \E o \in Owner : n \in owner2nodes[o]
        BY DEF OneOwner
      <4> QED
        BY <2>5, <4>1, <4>2
    <3>4. ASSUME NEW o \in Owner, NEW p \in Owner, o # p, NEW n \in owner2nodes'[o],
                 n \in owner2nodes'[p]
          PROVE  FALSE
      <4>1. owner2nodes[o] \cap owner2nodes[p] = {}
        BY <3>4 DEF OneOwner
      <4> QED
        BY <3>1, <3>2, <3>4, <4>1
    <3> QED
      BY <3>3, <3>4 DEF OneOwner
  <2> QED
    BY <2>6, <2>7
<1>3. Next => CheckNode \/ UNCHANGED <<node2roles, owner2nodes>>
  BY DEF Next, Attributes, Roles, Nodes, ListServiceAttributes, CheckService, EndOfServices,
         ListRoles, SkipRole, RejectRole, RejectNode, TakeRole, EndOfNodes, EndOfRoles, GetOmx,
         ListNodes, RejectInfo, SkipHidden, CheckInfo, AllocateNode, EndOfInfos, EndOfOwners,
         GetNodePrefix, lists
<1> QED
  BY <1>1, <1>2, <1>3 DEF vars, lists

\* What is said of the listing stays: the listing does.
LEMMA ListingStays ==
    ASSUME UNCHANGED fixed
    PROVE  /\ Recognized' = Recognized /\ Mention' = Mention
           /\ \A m : NodeAt(m)' = NodeAt(m)
           /\ \A m : FirstMention(m)' = FirstMention(m)
           /\ \A r : RoleRight(r)' = RoleRight(r)
           /\ \A m : MentionRight(m)' = MentionRight(m)
           /\ \A n : RolesOf(n)' = RolesOf(n)
           /\ \A o, n : Owns(o, n)' = Owns(o, n)
<1>1. listing' = listing
  BY DEF fixed
<1> QED
  BY <1>1 DEF Recognized, Mention, NodeAt, FirstMention, Before, RoleRight, MentionRight, RolesOf,
         Owns, WellFormed

\* How far the test has read after each step of the loop over the roles.
LEMMA ReadOn ==
    ASSUME TypeOK, ShapeInv
    PROVE  /\ ListRoles /\ pc' = "roles" =>
                 /\ \A r \in DOMAIN listing : ~RoleRead(r)'
                 /\ \A m \in Mention : ~MentionRead(m)'
           /\ SkipRole =>
                 /\ \A r \in DOMAIN listing : RoleRead(r)' => RoleRead(r) \/ r = i
                 /\ \A r \in Recognized : RoleRead(r)' <=> RoleRead(r)
                 /\ \A m \in Mention : MentionRead(m)' <=> MentionRead(m)
           /\ TakeRole =>
                 /\ \A r \in DOMAIN listing : RoleRead(r)' <=> RoleRead(r) \/ r = i
                 /\ \A m \in Mention : MentionRead(m)' <=> MentionRead(m)
           /\ CheckNode =>
                 /\ \A r \in DOMAIN listing : RoleRead(r)' <=> RoleRead(r)
                 /\ \A m \in Mention : MentionRead(m)' <=> MentionRead(m) \/ m = <<i, j>>
           /\ EndOfNodes =>
                 /\ \A r \in DOMAIN listing : RoleRead(r)' <=> RoleRead(r)
                 /\ \A m \in Mention : MentionRead(m)' <=> MentionRead(m)
           /\ EndOfRoles =>
                 /\ \A r \in DOMAIN listing : RoleRead(r)
                 /\ \A m \in Mention : MentionRead(m)
<1>1. i \in Nat \ {0} /\ j \in Nat \ {0} /\ \A r \in DOMAIN listing : r \in Nat \ {0}
  BY ListingFacts DEF TypeOK
<1>2. \A m \in Mention : /\ m = <<m[1], m[2]>> /\ m[1] \in Recognized
                         /\ m[1] \in DOMAIN listing /\ m[1] \in Nat \ {0}
                         /\ m[2] \in DOMAIN listing[m[1]].nodes /\ m[2] \in Nat \ {0}
  BY MentionFacts, ListingFacts
<1> USE DEF RoleRead, MentionRead
<1>3. ASSUME ListRoles, pc' = "roles"
      PROVE  /\ \A r \in DOMAIN listing : ~RoleRead(r)'
             /\ \A m \in Mention : ~MentionRead(m)'
  <2>1. i' = 1
    BY <1>3 DEF ListRoles, ShapeInv
  <2> QED
    BY <1>1, <1>2, <1>3, <2>1
<1>4. ASSUME SkipRole
      PROVE  /\ \A r \in DOMAIN listing : RoleRead(r)' => RoleRead(r) \/ r = i
             /\ \A r \in Recognized : RoleRead(r)' <=> RoleRead(r)
             /\ \A m \in Mention : MentionRead(m)' <=> MentionRead(m)
  <2>1. i \notin Recognized /\ i' = i + 1 /\ pc' = "roles" /\ pc = "roles"
    BY <1>4, QueriedRole DEF SkipRole
  <2>2. \A r \in Recognized : r \in Nat \ {0} /\ r # i
    BY <1>1, <2>1, ListingFacts
  <2> QED
    BY <1>1, <1>2, <2>1, <2>2
<1>5. ASSUME TakeRole
      PROVE  /\ \A r \in DOMAIN listing : RoleRead(r)' <=> RoleRead(r) \/ r = i
             /\ \A m \in Mention : MentionRead(m)' <=> MentionRead(m)
  <2>1. i' = i /\ j' = 1 /\ pc' = "nodes" /\ pc = "roles"
    BY <1>5 DEF TakeRole
  <2> QED
    BY <1>1, <1>2, <2>1
<1>6. ASSUME CheckNode
      PROVE  /\ \A r \in DOMAIN listing : RoleRead(r)' <=> RoleRead(r)
             /\ \A m \in Mention : MentionRead(m)' <=> MentionRead(m) \/ m = <<i, j>>
  <2>1. i' = i /\ j' = j + 1 /\ pc' = "nodes" /\ pc = "nodes"
    BY <1>6 DEF CheckNode
  <2> QED
    BY <1>1, <1>2, <2>1
<1>7. ASSUME EndOfNodes
      PROVE  /\ \A r \in DOMAIN listing : RoleRead(r)' <=> RoleRead(r)
             /\ \A m \in Mention : MentionRead(m)' <=> MentionRead(m)
  <2>1. i' = i + 1 /\ pc' = "roles" /\ pc = "nodes" /\ j \notin DOMAIN listing[i].nodes
    BY <1>7 DEF EndOfNodes
  <2>2. i \in DOMAIN listing /\ listing[i].nodes \in Seq(Node)
    BY <2>1, ListingFacts DEF ShapeInv
  <2>3. \A k \in DOMAIN listing[i].nodes : k < j
    <3>1. DOMAIN listing[i].nodes = 1 .. Len(listing[i].nodes) /\ Len(listing[i].nodes) \in Nat
      BY <2>2
    <3> QED
      BY <1>1, <2>1, <3>1
  <2> QED
    BY <1>1, <1>2, <2>1, <2>3
<1>8. ASSUME EndOfRoles
      PROVE  /\ \A r \in DOMAIN listing : RoleRead(r)
             /\ \A m \in Mention : MentionRead(m)
  <2>1. DOMAIN listing = 1 .. Len(listing) /\ Len(listing) \in Nat
    BY DEF TypeOK
  <2>2. \A r \in DOMAIN listing : r < i
    BY <1>1, <1>8, <2>1 DEF EndOfRoles
  <2> QED
    BY <1>2, <2>2
<1> QED
  BY <1>3, <1>4, <1>5, <1>6, <1>7, <1>8, Zenon

\* The assertions on a role and on a node are what the listing has to satisfy.
LEMMA RoleChecked ==
    ASSUME TypeOK, GatherInv, pc = "roles", i \in DOMAIN listing
    PROVE  RoleRight(i) <=> listing[i].role \notin role_set /\ Queried(i) \in {None, listing[i].role}
<1>1. i \in Nat \ {0} /\ \A r \in Recognized : r \in Nat \ {0} /\ r \in DOMAIN listing
  BY ListingFacts DEF TypeOK
<1>2. \A r \in Recognized : RoleRead(r) <=> r < i
  BY <1>1 DEF RoleRead
<1>3. listing[i].role \in role_set <=> \E q \in Recognized : q < i /\ listing[q].role = listing[i].role
  BY <1>2 DEF GatherInv, Gathering
<1>4. i \in Recognized <=> listing[i].type \in DOMAIN MimeToRole
  BY DEF Recognized
<1>5. i \in Recognized =>
          Queried(i) = [isEncoder |-> listing[i].isEncoder, codec |-> MimeToRole[listing[i].type]]
  BY <1>4 DEF Queried, get_role
<1>6. i \in Recognized <=> Queried(i) # None
  BY QueriedRole
<1> QED
  BY <1>3, <1>4, <1>5, <1>6 DEF RoleRight

LEMMA NodeChecked ==
    ASSUME TypeOK, ShapeInv, pc = "nodes", j \in DOMAIN listing[i].nodes
    PROVE  /\ <<i, j>> \in Mention
           /\ NodeAt(<<i, j>>) = listing[i].nodes[j]
           /\ MentionRight(<<i, j>>) <=> NodeOk(listing[i].nodes[j])
<1>1. i \in Recognized /\ i \in DOMAIN listing /\ node_set = {}
  BY ListingFacts DEF ShapeInv
<1>2. listing[i].nodes[j] \in Node
  BY <1>1, ListingFacts
<1>3. listing[i].nodes[j].attributes \in Seq(Attribute)
  BY <1>2 DEF Node
<1>4. AttributesOk(listing[i].nodes[j].attributes) <=> WellFormed(listing[i].nodes[j].attributes)
  BY <1>3, WellFormedAttributes
<1>5. NodeAt(<<i, j>>) = listing[i].nodes[j]
  BY DEF NodeAt
<1> QED
  BY <1>1, <1>4, <1>5, MentionFacts DEF MentionRight, NodeOk

LEMMA GatherStep ==
    TypeOK /\ ShapeInv /\ GatherInv /\ [Next]_vars => GatherInv'
<1> SUFFICES ASSUME TypeOK, ShapeInv, GatherInv, [Next]_vars PROVE GatherInv'
  OBVIOUS
<1> USE DEF Gathering
<1>1. ASSUME UNCHANGED fixed, pc' # "roles", pc' # "nodes" PROVE GatherInv'
  BY <1>1 DEF GatherInv
<1>2. CASE ListRoles
  <2>1. UNCHANGED fixed /\ role_set = {} /\ role_set' = role_set
    BY <1>2 DEF ListRoles, lists, ShapeInv
  <2>2. CASE pc' = "roles"
    <3>1. \A r \in DOMAIN listing : ~RoleRead(r)'
      BY <1>2, <2>2, ReadOn
    <3>2. \A m \in Mention : ~MentionRead(m)'
      BY <1>2, <2>2, ReadOn
    <3>3. listing' = listing /\ Recognized' = Recognized /\ Mention' = Mention
      BY <2>1, ListingStays DEF fixed
    <3> QED
      BY <2>1, <3>1, <3>2, <3>3, ListingFacts DEF GatherInv
  <2> QED
    BY <1>1, <1>2, <2>1, <2>2 DEF ListRoles
<1>3. CASE SkipRole \/ TakeRole
  <2>1. pc = "roles" /\ i \in DOMAIN listing /\ UNCHANGED fixed
    BY <1>3 DEF SkipRole, TakeRole
  <2>2. listing[i].role \notin role_set /\ Queried(i) \in {None, listing[i].role}
    BY <1>3 DEF SkipRole, TakeRole
  <2>3. RoleRight(i)
    BY <2>1, <2>2, RoleChecked
  <2>4. /\ listing' = listing /\ Recognized' = Recognized /\ Mention' = Mention
        /\ \A r : RoleRight(r)' = RoleRight(r)
        /\ \A m : MentionRight(m)' = MentionRight(m)
    BY <2>1, ListingStays DEF fixed
  <2>5. \A r \in DOMAIN listing : RoleRead(r)' => RoleRead(r) \/ r = i
    BY <1>3, ReadOn
  <2>6. \A m \in Mention : MentionRead(m)' <=> MentionRead(m)
    BY <1>3, ReadOn
  <2>7. \A r \in DOMAIN listing : RoleRead(r)' => RoleRight(r)'
    BY <2>1, <2>3, <2>4, <2>5 DEF GatherInv
  <2>8. \A m \in Mention : MentionRead(m)' => MentionRight(m)'
    BY <2>1, <2>4, <2>6 DEF GatherInv
  <2>9. /\ \A r \in Recognized : RoleRead(r)' => listing[r].role \in role_set'
        /\ \A x \in role_set' : \E r \in Recognized : RoleRead(r)' /\ listing[r].role = x
    <3>1. /\ \A r \in Recognized : RoleRead(r) => listing[r].role \in role_set
          /\ \A x \in role_set : \E r \in Recognized : RoleRead(r) /\ listing[r].role = x
      BY <2>1 DEF GatherInv
    <3>2. CASE SkipRole
      <4>1. role_set' = role_set /\ \A r \in Recognized : RoleRead(r)' <=> RoleRead(r)
        BY <3>2, ReadOn DEF SkipRole, lists
      <4> QED
        BY <3>1, <4>1
    <3>3. CASE TakeRole
      <4>1. role_set' = role_set \cup {listing[i].role}
        BY <3>3 DEF TakeRole
      <4>2. i \in Recognized
        BY <2>1, <3>3, QueriedRole, ListingFacts DEF TakeRole
      <4>3. \A r \in Recognized : RoleRead(r)' <=> RoleRead(r) \/ r = i
        BY <3>3, ReadOn, ListingFacts
      <4> QED
        BY <3>1, <4>1, <4>2, <4>3
    <3> QED
      BY <1>3, <3>2, <3>3
  <2> QED
    BY <2>4, <2>7, <2>8, <2>9 DEF GatherInv
<1>4. CASE CheckNode
  <2>1. /\ pc = "nodes" /\ UNCHANGED <<fixed, role_set>>
        /\ j \in DOMAIN listing[i].nodes /\ NodeOk(listing[i].nodes[j])
    BY <1>4 DEF CheckNode
  <2>2. MentionRight(<<i, j>>)
    BY <2>1, NodeChecked
  <2>3. /\ listing' = listing /\ Recognized' = Recognized /\ Mention' = Mention
        /\ \A r : RoleRight(r)' = RoleRight(r)
        /\ \A m : MentionRight(m)' = MentionRight(m)
    BY <2>1, ListingStays DEF fixed
  <2>4. /\ \A r \in DOMAIN listing : RoleRead(r)' <=> RoleRead(r)
        /\ \A m \in Mention : MentionRead(m)' <=> MentionRead(m) \/ m = <<i, j>>
    BY <1>4, ReadOn
  <2> QED
    BY <2>1, <2>2, <2>3, <2>4, ListingFacts DEF GatherInv
<1>5. CASE EndOfNodes
  <2>1. pc = "nodes" /\ UNCHANGED <<fixed, role_set>>
    BY <1>5 DEF EndOfNodes, lists
  <2>2. /\ listing' = listing /\ Recognized' = Recognized /\ Mention' = Mention
        /\ \A r : RoleRight(r)' = RoleRight(r)
        /\ \A m : MentionRight(m)' = MentionRight(m)
    BY <2>1, ListingStays DEF fixed
  <2>3. /\ \A r \in DOMAIN listing : RoleRead(r)' <=> RoleRead(r)
        /\ \A m \in Mention : MentionRead(m)' <=> MentionRead(m)
    BY <1>5, ReadOn
  <2> QED
    BY <2>1, <2>2, <2>3, ListingFacts DEF GatherInv
<1>6. CASE Attributes \/ RejectRole \/ RejectNode \/ EndOfRoles \/ Nodes
  <2>1. UNCHANGED fixed /\ pc' # "roles" /\ pc' # "nodes"
    BY <1>6 DEF Attributes, Nodes, ListServiceAttributes, CheckService, EndOfServices, RejectRole,
           RejectNode, EndOfRoles, GetOmx, ListNodes, RejectInfo, SkipHidden, CheckInfo,
           AllocateNode, EndOfInfos, EndOfOwners, GetNodePrefix
  <2> QED
    BY <1>1, <2>1
<1>7. CASE UNCHANGED vars
  <2>1. UNCHANGED <<fixed, pc, i, j, role_set>>
    BY <1>7 DEF vars, lists
  <2>2. /\ listing' = listing /\ Recognized' = Recognized /\ Mention' = Mention
        /\ \A r : RoleRight(r)' = RoleRight(r)
        /\ \A m : MentionRight(m)' = MentionRight(m)
    BY <2>1, ListingStays DEF fixed
  <2>3. (\A r : RoleRead(r)' = RoleRead(r)) /\ \A m : MentionRead(m)' = MentionRead(m)
    BY <2>1 DEF RoleRead, MentionRead
  <2> QED
    BY <2>1, <2>2, <2>3 DEF GatherInv
<1> QED
  BY <1>2, <1>3, <1>4, <1>5, <1>6, <1>7, Zenon DEF Next, Roles

LEMMA FixedStays == [Next]_vars => UNCHANGED fixed
<1> QED
  BY DEF Next, Attributes, Roles, Nodes, ListServiceAttributes, CheckService, EndOfServices,
         ListRoles, SkipRole, RejectRole, RejectNode, TakeRole, CheckNode, EndOfNodes, EndOfRoles,
         GetOmx, ListNodes, RejectInfo, SkipHidden, CheckInfo, AllocateNode, EndOfInfos,
         EndOfOwners, GetNodePrefix, vars

LEMMA ListingStep ==
    TypeOK /\ ShapeInv /\ GatherInv /\ ListingVouched /\ [Next]_vars => ListingVouched'
<1> SUFFICES ASSUME TypeOK, ShapeInv, GatherInv, ListingVouched, [Next]_vars
             PROVE  ListingVouched'
  OBVIOUS
<1> DEFINE Right == /\ \A r \in DOMAIN listing : RoleRight(r)
                    /\ \A m \in Mention : MentionRight(m)
<1>1. UNCHANGED fixed
  BY FixedStays
<1>2. test' = test /\ Right' = Right
  <2>1. Mention' = Mention /\ listing' = listing /\ test' = test
    BY <1>1, ListingStays DEF fixed
  <2> QED
    BY <2>1 DEF RoleRight, MentionRight, Recognized, NodeAt, WellFormed
<1>3. ListingVouched <=>
          (pc \in Gathered /\ test = "testQueryCodecInformation" => Right)
  BY DEF ListingVouched, Gathered, Asking
<1>4. ListingVouched' <=>
          (pc' \in Gathered /\ test = "testQueryCodecInformation" => Right)
  BY <1>2 DEF ListingVouched, Gathered, Asking
<1> HIDE DEF Right
<1>5. CASE pc \in Gathered
  <2>1. CASE test = "testQueryCodecInformation"
    BY <1>3, <1>4, <1>5, <2>1
  <2>2. CASE test # "testQueryCodecInformation"
    BY <1>4, <2>2
  <2> QED
    BY <2>1, <2>2
<1>6. CASE EndOfRoles
  <2>1. Right
    BY <1>6, ReadOn DEF EndOfRoles, GatherInv, Gathering, Right
  <2> QED
    BY <1>4, <2>1
<1>7. CASE ListRoles /\ pc' = "passed"
  <2>1. listing = <<>>
    BY <1>7 DEF ListRoles
  <2>2. Right
    BY <2>1 DEF Right, Mention, Recognized
  <2> QED
    BY <1>4, <2>2
<1>8. CASE EndOfServices
  BY <1>4, <1>8 DEF EndOfServices, ShapeInv
<1>9. CASE pc' \notin Gathered
  BY <1>4, <1>9
<1>10. CASE Next
  <2>1. CASE Attributes
    <3>1. pc' \notin Gathered \/ EndOfServices
      BY <2>1 DEF Attributes, ListServiceAttributes, CheckService, Gathered, Asking
    <3> QED
      BY <1>8, <1>9, <3>1
  <2>2. CASE Roles
    <3>1. pc' \notin Gathered \/ EndOfRoles \/ (ListRoles /\ pc' = "passed")
      BY <2>2 DEF Roles, ListRoles, SkipRole, RejectRole, RejectNode, TakeRole, CheckNode,
             EndOfNodes, Gathered, Asking
    <3> QED
      BY <1>6, <1>7, <1>9, <3>1
  <2>3. CASE Nodes
    <3>1. pc \in Gathered
      BY <2>3 DEF Nodes, GetOmx, ListNodes, RejectInfo, SkipHidden, CheckInfo, AllocateNode,
             EndOfInfos, EndOfOwners, GetNodePrefix, Gathered, Asking
    <3> QED
      BY <1>5, <3>1
  <2> QED
    BY <1>10, <2>1, <2>2, <2>3 DEF Next
<1> QED
  BY <1>5, <1>9, <1>10 DEF vars

LEMMA MapsStay ==
    ASSUME UNCHANGED <<fixed, node2roles, owner2nodes>>, Reading' = Reading, Maps(Reading)
    PROVE  Maps(Reading)'
<1>1. /\ listing' = listing
      /\ \A m : NodeAt(m)' = NodeAt(m)
      /\ \A m : FirstMention(m)' = FirstMention(m)
  BY ListingStays DEF fixed
<1> QED
  BY <1>1 DEF Maps

\* A node that is read for the first time is one no mention read before names.
LEMMA FirstReading ==
    ASSUME TypeOK, ShapeInv, Maps(Reading), pc = "nodes", j \in DOMAIN listing[i].nodes
    PROVE  FirstMention(<<i, j>>) <=> node2roles[listing[i].nodes[j].name] = {}
<1> DEFINE n0 == listing[i].nodes[j].name
<1>1. \A m \in Mention : m = <<m[1], m[2]>>
  BY MentionFacts
<1>2. \A m \in Mention : m \in Reading <=> Before(m, <<i, j>>)
  BY DEF Reading, MentionRead, Before, Gathering
<1>3. Reading \subseteq Mention
  BY DEF Reading
<1>4. NodeAt(<<i, j>>).name = n0 /\ n0 \in Name
  BY NodeChecked, ListingFacts DEF NodeAt, ShapeInv
<1> HIDE DEF n0
<1>5. FirstMention(<<i, j>>) <=> \A m \in Reading : NodeAt(m).name # n0
  BY <1>2, <1>3, <1>4 DEF FirstMention
<1>6. node2roles[n0] # {} <=> \E m \in Reading : NodeAt(m).name = n0
  <2>1. \A m \in Reading : listing[m[1]].role \in node2roles[NodeAt(m).name]
    BY DEF Maps
  <2>2. \A x \in node2roles[n0] : \E m \in Reading : NodeAt(m).name = n0 /\ listing[m[1]].role = x
    BY <1>4 DEF Maps
  <2> QED
    BY <2>1, <2>2
<1> QED
  BY <1>5, <1>6 DEF n0

LEMMA MapStep ==
    TypeOK /\ ShapeInv /\ GatherInv /\ MapInv /\ [Next]_vars => MapInv'
<1> SUFFICES ASSUME TypeOK, ShapeInv, GatherInv, MapInv, [Next]_vars PROVE MapInv'
  OBVIOUS
<1> test' = test
  BY FixedStays DEF fixed
<1> SUFFICES ASSUME test = "testQueryCodecInformation", pc' \in Gathering \cup Gathered
             PROVE  Maps(Reading)'
  BY DEF MapInv
<1>1. UNCHANGED fixed /\ Mention' = Mention /\ listing' = listing
  BY FixedStays, ListingStays DEF fixed
<1>2. pc \in Gathering \cup Gathered => Maps(Reading)
  BY DEF MapInv
<1>3. Reading = (IF pc \in Gathering THEN {m \in Mention : MentionRead(m)} ELSE Mention)
  BY DEF Reading
<1>4. Reading' = (IF pc' \in Gathering THEN {m \in Mention : MentionRead(m)'} ELSE Mention)
  BY <1>1 DEF Reading
<1>5. CASE ListRoles
  <2>1. /\ \A n \in Name : node2roles'[n] = {}
        /\ \A o \in Owner : owner2nodes'[o] = {}
    BY <1>5 DEF ListRoles, lists, ShapeInv
  <2>2. Reading' = {}
    <3>1. CASE pc' = "roles"
      BY <1>4, <1>5, <3>1, ReadOn DEF Gathering
    <3>2. CASE pc' # "roles"
      <4>1. listing = <<>> /\ pc' = "passed"
        BY <1>5, <3>2 DEF ListRoles
      <4>2. Mention = {}
        BY <4>1 DEF Mention, Recognized
      <4> QED
        BY <1>4, <4>1, <4>2 DEF Gathering
    <3> QED
      BY <3>1, <3>2
  <2> QED
    BY <2>1, <2>2 DEF Maps
<1>6. CASE SkipRole \/ TakeRole \/ EndOfNodes
  <2>1. pc \in Gathering /\ pc' \in Gathering /\ UNCHANGED <<node2roles, owner2nodes>>
    BY <1>6 DEF SkipRole, TakeRole, EndOfNodes, Gathering, lists
  <2>2. \A m \in Mention : MentionRead(m)' <=> MentionRead(m)
    BY <1>6, ReadOn
  <2>3. Reading' = Reading
    BY <1>3, <1>4, <2>1, <2>2
  <2> QED
    BY <1>1, <1>2, <2>1, <2>3, MapsStay
<1>7. CASE EndOfRoles
  <2>1. /\ pc \in Gathering /\ pc' \notin Gathering
        /\ UNCHANGED <<node2roles, owner2nodes>>
    BY <1>7 DEF EndOfRoles, Gathering, lists
  <2>2. Reading' = Reading
    BY <1>3, <1>4, <1>7, <2>1, ReadOn
  <2> QED
    BY <1>1, <1>2, <2>1, <2>2, MapsStay
<1>8. CASE CheckNode
  <2> DEFINE node == listing[i].nodes[j]
             role == listing[i].role
             new == <<i, j>>
  <2>1. pc = "nodes" /\ pc' = "nodes" /\ j \in DOMAIN listing[i].nodes
    BY <1>8 DEF CheckNode
  <2>2. i \in Recognized /\ i \in DOMAIN listing /\ node.name \in Name /\ node.owner \in Owner
    BY <2>1, ListingFacts DEF ShapeInv
  <2>3. Queried(i) = role
    <3>1. RoleRight(i)
      BY <2>1, <2>2 DEF GatherInv, Gathering, RoleRead
    <3> QED
      BY <2>2, <3>1 DEF RoleRight, Recognized, Queried, get_role
  <2>4. /\ \A n \in Name : node2roles'[n] = IF n = node.name THEN node2roles[n] \cup {role}
                                                            ELSE node2roles[n]
    BY <1>8, <2>2, <2>3 DEF CheckNode, Node2Roles, TypeOK
  <2>5. Reading' = Reading \cup {new} /\ new \in Mention /\ Reading \subseteq Mention
    <3>1. \A m \in Mention : MentionRead(m)' <=> MentionRead(m) \/ m = new
      BY <1>8, ReadOn
    <3>2. new \in Mention
      BY <2>1, NodeChecked
    <3> QED
      BY <1>3, <1>4, <2>1, <3>1, <3>2 DEF Gathering
  <2>6. Maps(Reading)
    BY <1>2, <2>1 DEF Gathering
  <2>7. NodeAt(new) = node /\ listing[new[1]].role = role
    BY <2>1, NodeChecked
  <2>8. FirstMention(new) <=> node2roles[node.name] = {}
    BY <2>1, <2>6, FirstReading
  <2>9. /\ \A m : NodeAt(m)' = NodeAt(m)
        /\ \A m : FirstMention(m)' = FirstMention(m)
    BY <1>1, ListingStays
  <2>10. \A m \in Reading : NodeAt(m).name \in Name /\ NodeAt(m).owner \in Owner
    BY <2>5, MentionFacts, ListingFacts DEF NodeAt
  <2>11. \A o \in Owner : \A n \in Name :
            n \in owner2nodes'[o]
                <=> n \in owner2nodes[o] \/ (o = node.owner /\ n = node.name /\ FirstMention(new))
    <3>1. owner2nodes \in [Owner -> SUBSET Name]
      BY DEF TypeOK
    <3>2. owner2nodes' = Owner2Nodes(node)
      BY <1>8 DEF CheckNode
    <3> HIDE DEF node, new
    <3>3. CASE node2roles[node.name] = {}
      BY <2>2, <2>8, <3>1, <3>2, <3>3 DEF Owner2Nodes
    <3>4. CASE node2roles[node.name] # {}
      BY <2>8, <3>2, <3>4 DEF Owner2Nodes
    <3> QED
      BY <3>3, <3>4
  <2>12. \A o \in Owner : owner2nodes[o] \subseteq Name /\ owner2nodes'[o] \subseteq Name
    <3>1. owner2nodes \in [Owner -> SUBSET Name]
      BY DEF TypeOK
    <3>2. owner2nodes' \in [Owner -> SUBSET Name]
      BY <1>8, <2>2, <3>1 DEF CheckNode, Owner2Nodes
    <3> QED
      BY <3>1, <3>2
  <2> HIDE DEF node, role, new
  <2>13. \A m \in Reading' : listing[m[1]].role \in node2roles'[NodeAt(m).name]
    <3>1. \A m \in Reading : listing[m[1]].role \in node2roles[NodeAt(m).name]
      BY <2>6 DEF Maps
    <3>2. \A m \in Reading : listing[m[1]].role \in node2roles'[NodeAt(m).name]
      BY <2>4, <2>10, <3>1
    <3>3. listing[new[1]].role \in node2roles'[NodeAt(new).name]
      BY <2>2, <2>4, <2>7
    <3> QED
      BY <2>5, <3>2, <3>3
  <2>14. ASSUME NEW n \in Name, NEW x \in node2roles'[n]
         PROVE  \E m \in Reading' : NodeAt(m).name = n /\ listing[m[1]].role = x
    <3>1. CASE x \in node2roles[n]
      BY <2>5, <2>6, <3>1 DEF Maps
    <3>2. CASE x \notin node2roles[n]
      <4>1. n = node.name /\ x = role
        BY <2>4, <2>14, <3>2
      <4> QED
        BY <2>5, <2>7, <4>1
    <3> QED
      BY <3>1, <3>2
  <2>15. ASSUME NEW m \in Reading', FirstMention(m)
         PROVE  NodeAt(m).name \in owner2nodes'[NodeAt(m).owner]
    <3>1. CASE m \in Reading
      BY <2>6, <2>10, <2>11, <2>15, <3>1 DEF Maps
    <3>2. CASE m = new
      BY <2>2, <2>7, <2>11, <2>15, <3>2
    <3> QED
      BY <2>5, <3>1, <3>2
  <2>16. ASSUME NEW o \in Owner, NEW n \in owner2nodes'[o]
         PROVE  \E m \in Reading' : NodeAt(m).name = n /\ NodeAt(m).owner = o /\ FirstMention(m)
    <3>1. n \in Name
      BY <2>12, <2>16
    <3>2. CASE n \in owner2nodes[o]
      BY <2>5, <2>6, <3>2 DEF Maps
    <3>3. CASE n \notin owner2nodes[o]
      BY <2>5, <2>7, <2>11, <2>16, <3>1, <3>3
    <3> QED
      BY <3>2, <3>3
  <2> QED
    BY <1>1, <2>9, <2>13, <2>14, <2>15, <2>16 DEF Maps
<1>9. CASE Nodes
  <2>1. pc \in Gathered /\ UNCHANGED <<node2roles, owner2nodes>>
    BY <1>9 DEF Nodes, GetOmx, ListNodes, RejectInfo, SkipHidden, CheckInfo, AllocateNode,
           EndOfInfos, EndOfOwners, GetNodePrefix, Gathered, Asking, lists
  <2>2. pc \notin Gathering /\ pc' \notin Gathering
    BY <1>9 DEF Nodes, GetOmx, ListNodes, RejectInfo, SkipHidden, CheckInfo, AllocateNode,
           EndOfInfos, EndOfOwners, GetNodePrefix, Gathering
  <2>3. Reading' = Reading
    BY <1>3, <1>4, <2>2
  <2> QED
    BY <1>1, <1>2, <2>1, <2>3, MapsStay
<1>10. CASE RejectRole \/ RejectNode
  <2>1. pc' = "failed"
    BY <1>10 DEF RejectRole, RejectNode
  <2> QED
    BY <2>1 DEF Gathering, Gathered, Asking
<1>11. CASE Attributes
  <2>1. pc' \in {"services", "failed"} \/ pc = "services"
    BY <1>11 DEF Attributes, ListServiceAttributes, CheckService, EndOfServices
  <2> QED
    BY <2>1 DEF ShapeInv, Gathering, Gathered, Asking
<1>12. CASE UNCHANGED vars
  <2>1. UNCHANGED <<pc, i, j, node2roles, owner2nodes>>
    BY <1>12 DEF vars, lists
  <2>2. \A m : MentionRead(m)' = MentionRead(m)
    BY <2>1 DEF MentionRead
  <2>3. Reading' = Reading
    BY <1>3, <1>4, <2>1, <2>2
  <2> QED
    BY <1>1, <1>2, <2>1, <2>3, MapsStay
<1> QED
  BY <1>5, <1>6, <1>7, <1>8, <1>9, <1>10, <1>11, <1>12, Zenon DEF Next, Roles

-----------------------------------------------------------------------------
(* The owners.                                                             *)

\* What the maps say once all roles are read.
LEMMA MapsMean ==
    ASSUME TypeOK, MapInv, test = "testQueryCodecInformation", pc \in Gathered
    PROVE  /\ \A n \in Name : node2roles[n] = RolesOf(n)
           /\ \A o \in Owner, n \in Name : n \in owner2nodes[o] <=> Owns(o, n)
<1>1. Maps(Mention)
  BY DEF MapInv, Reading, Gathering, Gathered, Asking
<1>2. \A m \in Mention : NodeAt(m).name \in Name /\ NodeAt(m).owner \in Owner
  BY MentionFacts, ListingFacts DEF NodeAt
<1>3. ASSUME NEW n \in Name PROVE node2roles[n] = RolesOf(n)
  <2>1. \A x \in node2roles[n] : \E m \in Mention : NodeAt(m).name = n /\ listing[m[1]].role = x
    BY <1>1 DEF Maps
  <2>2. \A m \in Mention : NodeAt(m).name = n => listing[m[1]].role \in node2roles[n]
    BY <1>1 DEF Maps
  <2> QED
    BY <2>1, <2>2 DEF RolesOf
<1>4. ASSUME NEW o \in Owner, NEW n \in Name PROVE n \in owner2nodes[o] <=> Owns(o, n)
  <2>1. n \in owner2nodes[o] =>
            \E m \in Mention : NodeAt(m).name = n /\ NodeAt(m).owner = o /\ FirstMention(m)
    BY <1>1 DEF Maps
  <2>2. \A m \in Mention : NodeAt(m).name = n /\ NodeAt(m).owner = o /\ FirstMention(m)
            => n \in owner2nodes[o]
    BY <1>1 DEF Maps
  <2> QED
    BY <2>1, <2>2 DEF Owns
<1> QED
  BY <1>3, <1>4

\* A step that leaves the owners it has done with alone.
LEMMA OwnersStay ==
    ASSUME TypeOK, OwnerInv, [Next]_vars, pc \in Gathered, owner2nodes' = owner2nodes,
           tried \subseteq tried',
           \A o \in Owner : OwnerDone(o)' => OwnerDone(o) /\ given'[o] = given[o]
    PROVE  OwnerInv'
<1>1. test' = test
  BY FixedStays DEF fixed
<1>2. \A n : RolesOf(n)' = RolesOf(n)
  BY FixedStays, ListingStays
<1>3. SUFFICES ASSUME test = "testQueryCodecInformation", NEW o \in Owner, OwnerDone(o)',
                      NEW n \in owner2nodes[o]
               PROVE  Supported(o, n)' /\ <<o, n>> \in tried'
  BY <1>1 DEF OwnerInv
<1>4. Supported(o, n) /\ <<o, n>> \in tried /\ given'[o] = given[o]
  BY <1>3 DEF OwnerInv
<1> QED
  BY <1>2, <1>4 DEF Supported

LEMMA OwnerStep ==
    TypeOK /\ ShapeInv /\ MapInv /\ OwnerInv /\ InfoInv /\ [Next]_vars => OwnerInv'
<1> SUFFICES ASSUME TypeOK, ShapeInv, MapInv, OwnerInv, InfoInv, [Next]_vars PROVE OwnerInv'
  OBVIOUS
<1> test' = test
  BY FixedStays DEF fixed
<1> given \in [Owner -> NodeLists \cup {<<>>}]
  BY DEF TypeOK
<1>1. ASSUME pc' \notin Gathered \/ test # "testQueryCodecInformation" PROVE OwnerInv'
  BY <1>1 DEF OwnerInv
<1>2. CASE ListRoles /\ pc' = "passed"
  <2>1. \A o \in Owner : owner2nodes'[o] = {}
    BY <1>2 DEF ListRoles, ShapeInv, lists
  <2> QED
    BY <2>1 DEF OwnerInv
<1>3. CASE EndOfRoles
  <2>1. \A o \in Owner : OwnerDone(o)' => owner2nodes'[o] = {}
    BY <1>3 DEF EndOfRoles, OwnerDone, lists
  <2> QED
    BY <2>1 DEF OwnerInv
<1>4. ASSUME NEW o \in Owner, NEW status \in Status, GetOmx(o, status) PROVE OwnerInv'
  <2>1. /\ pc = "owners" /\ UNCHANGED <<owner2nodes, given, tried>>
        /\ ownersLeft' = ownersLeft \ {o} /\ owner' = o /\ pc' \in {"listNodes", "failed"}
    BY <1>4 DEF GetOmx, lists
  <2>2. CASE pc' = "failed"
    BY <1>1, <2>2 DEF Gathered, Asking
  <2>3. CASE pc' = "listNodes"
    <3>1. \A q \in Owner : OwnerDone(q)' => OwnerDone(q) /\ given'[q] = given[q]
      BY <2>1, <2>3 DEF OwnerDone, Asking
    <3> QED
      BY <2>1, <3>1, OwnersStay DEF Gathered
  <2> QED
    BY <2>1, <2>2, <2>3
<1>5. ASSUME NEW status \in Status, NEW list \in NodeLists, ListNodes(status, list)
      PROVE  OwnerInv'
  <2>1. /\ pc = "listNodes" /\ UNCHANGED <<owner2nodes, owner, ownersLeft, tried>>
        /\ pc' \in {"infos", "failed"}
        /\ given' \in {given, [given EXCEPT ![owner] = list]}
    BY <1>5 DEF ListNodes, lists
  <2>2. CASE pc' = "failed"
    BY <1>1, <2>2 DEF Gathered, Asking
  <2>3. CASE pc' = "infos"
    <3>1. \A q \in Owner : OwnerDone(q)' => OwnerDone(q) /\ given'[q] = given[q]
      BY <2>1, <2>3 DEF OwnerDone, Asking
    <3> QED
      BY <2>1, <3>1, OwnersStay DEF Gathered, Asking
  <2> QED
    BY <2>1, <2>2, <2>3
<1>6. CASE SkipHidden \/ CheckInfo \/ (\E status \in Status : AllocateNode(status) /\ pc' = "infos")
  <2>1. /\ pc \in Asking /\ pc' \in Asking /\ UNCHANGED <<owner2nodes, owner, ownersLeft, given>>
        /\ tried \subseteq tried'
    BY <1>6 DEF SkipHidden, CheckInfo, AllocateNode, Asking, lists, store
  <2>2. \A q \in Owner : OwnerDone(q)' => OwnerDone(q) /\ given'[q] = given[q]
    BY <2>1 DEF OwnerDone
  <2> QED
    BY <2>1, <2>2, OwnersStay DEF Gathered
<1>7. CASE EndOfInfos /\ pc' = "owners"
  <2>1. /\ pc = "infos" /\ j \notin DOMAIN given[owner] /\ owner2nodes[owner] \subseteq node_set
        /\ UNCHANGED <<fixed, owner2nodes, owner, ownersLeft, given, tried>>
    BY <1>7 DEF EndOfInfos, Expected, lists, store
  <2>2. owner \in Owner /\ test = "testQueryCodecInformation"
    BY <2>1 DEF ShapeInv, Asking
  <2>3. given[owner] \in Seq(NodeInfo) /\ \A k \in DOMAIN given[owner] : k \in Nat
    BY <2>2, GivenFacts
  <2>4. \A k \in DOMAIN given[owner] : InfoRead(k) /\ k < j
    <3>1. DOMAIN given[owner] = 1 .. Len(given[owner]) /\ Len(given[owner]) \in Nat /\ j \in Nat \ {0}
      BY <2>3 DEF TypeOK
    <3> QED
      BY <2>1, <3>1 DEF InfoRead
  <2>5. ASSUME NEW n \in owner2nodes[owner]
        PROVE  Supported(owner, n) /\ <<owner, n>> \in tried
    <3>1. n \in Name
      BY <2>2 DEF TypeOK
    <3>2. RolesOf(n) = node2roles[n]
      BY <2>1, <2>2, <3>1, MapsMean DEF Gathered, Asking
    <3>3. PICK k \in DOMAIN given[owner] : given[owner][k].mName = n
      BY <2>1 DEF InfoInv
    <3>4. \A l \in DOMAIN given[owner] : given[owner][l].mName = n =>
              RolesOf(n) \subseteq given[owner][l].mRoles
      BY <2>1, <2>4, <3>2 DEF InfoInv
    <3>5. \A l, q \in DOMAIN given[owner] : l < q => given[owner][l].mName # given[owner][q].mName
      BY <2>1, <2>4 DEF InfoInv
    <3>6. <<owner, n>> \in tried
      BY <2>1, <2>4, <3>3 DEF InfoInv
    <3> QED
      BY <3>3, <3>4, <3>5, <3>6 DEF Supported
  <2>6. \A n : RolesOf(n)' = RolesOf(n)
    BY <2>1, ListingStays
  <2>7. ASSUME NEW o \in Owner, OwnerDone(o)', NEW n \in owner2nodes[o]
        PROVE  Supported(o, n) /\ <<o, n>> \in tried
    <3>1. CASE o = owner
      BY <2>5, <2>7, <3>1
    <3>2. CASE o # owner
      <4>1. OwnerDone(o)
        BY <2>1, <2>7, <3>2 DEF OwnerDone
      <4> QED
        BY <2>1, <2>2, <2>7, <4>1 DEF OwnerInv, Gathered, Asking
    <3> QED
      BY <3>1, <3>2
  <2>8. \A o, n : Supported(o, n)' = Supported(o, n)
    BY <2>1, <2>6 DEF Supported
  <2> QED
    BY <2>1, <2>7, <2>8 DEF OwnerInv
<1>8. CASE EndOfOwners \/ (\E p \in Name : GetNodePrefix(p)) \/ UNCHANGED vars
  <2>1. CASE pc \in Gathered
    <3>1. /\ UNCHANGED <<owner2nodes, owner, ownersLeft, given, tried>>
          /\ pc' \notin Asking \/ pc' = pc
          /\ pc \notin Asking \/ pc' = pc
      BY <1>8 DEF EndOfOwners, GetNodePrefix, vars, lists, store, Asking
    <3>2. \A q \in Owner : OwnerDone(q)' => OwnerDone(q) /\ given'[q] = given[q]
      BY <3>1 DEF OwnerDone
    <3> QED
      BY <2>1, <3>1, <3>2, OwnersStay
  <2>2. CASE pc \notin Gathered
    <3>1. pc' \notin Gathered
      BY <1>8, <2>2 DEF EndOfOwners, GetNodePrefix, vars, Gathered
    <3> QED
      BY <1>1, <3>1
  <2> QED
    BY <2>1, <2>2
<1>9. CASE Attributes
  <2>1. pc' \in {"services", "failed"} \/ pc = "services"
    BY <1>9 DEF Attributes, ListServiceAttributes, CheckService, EndOfServices
  <2> QED
    BY <1>1, <2>1 DEF ShapeInv, Gathered, Asking
<1>10. CASE Roles
  <2>1. pc' \notin Gathered \/ EndOfRoles \/ (ListRoles /\ pc' = "passed")
    BY <1>10 DEF Roles, ListRoles, SkipRole, RejectRole, RejectNode, TakeRole, CheckNode,
           EndOfNodes, Gathered, Asking
  <2> QED
    BY <1>1, <1>2, <1>3, <2>1
<1>11. CASE RejectInfo \/ (EndOfInfos /\ pc' # "owners")
              \/ (\E status \in Status : AllocateNode(status) /\ pc' # "infos")
  <2>1. pc' \notin Gathered
    BY <1>11 DEF RejectInfo, EndOfInfos, AllocateNode, Gathered, Asking
  <2> QED
    BY <1>1, <2>1
<1>12. CASE Nodes
  BY <1>4, <1>5, <1>6, <1>7, <1>8, <1>11, <1>12, Zenon DEF Nodes
<1> QED
  BY <1>8, <1>9, <1>10, <1>12, Zenon DEF Next

LEMMA InfoStep ==
    TypeOK /\ ShapeInv /\ InfoInv /\ [Next]_vars => InfoInv'
<1> SUFFICES ASSUME TypeOK, ShapeInv, InfoInv, [Next]_vars PROVE InfoInv'
  OBVIOUS
<1>1. ASSUME pc' # "infos", pc' # "allocate" PROVE InfoInv'
  BY <1>1 DEF InfoInv
<1>2. ASSUME NEW status \in Status, NEW list \in NodeLists, ListNodes(status, list)
      PROVE  InfoInv'
  <2>1. CASE status # "OK"
    BY <1>1, <1>2, <2>1 DEF ListNodes
  <2>2. CASE status = "OK"
    <3>1. owner \in Owner /\ owner' = owner /\ given'[owner] = list
          /\ j' = 1 /\ node_set' = {} /\ pc' = "infos"
      BY <1>2, <2>2 DEF ListNodes, ShapeInv, Asking, TypeOK
    <3>2. \A k \in DOMAIN list : k \in Nat \ {0}
      BY StoreAssumption
    <3>3. \A k \in DOMAIN list : ~InfoRead(k)' /\ ~(k < j')
      BY <3>1, <3>2 DEF InfoRead
    <3> QED
      BY <3>1, <3>3 DEF InfoInv
  <2> QED
    BY <2>1, <2>2
<1>3. CASE SkipHidden \/ CheckInfo \/ (\E status \in Status : AllocateNode(status) /\ pc' = "infos")
  <2> PICK g : g = given[owner]
    OBVIOUS
  <2>1. /\ pc \in {"infos", "allocate"} /\ j \in DOMAIN g /\ owner' = owner
        /\ given'[owner'] = g /\ UNCHANGED <<owner2nodes, node2roles>>
    BY <1>3 DEF SkipHidden, CheckInfo, AllocateNode, InfoInv, store, lists
  <2>2. owner \in Owner
    BY <2>1 DEF ShapeInv, Asking
  <2>3. \A k \in DOMAIN g : k \in Nat /\ j \in Nat
    BY <2>1, <2>2, GivenFacts
  <2>4. /\ \A k \in DOMAIN g : InfoRead(k) => g[k].mName \in node_set
        /\ \A n \in node_set : \E k \in DOMAIN g : InfoRead(k) /\ g[k].mName = n
        /\ \A k, l \in DOMAIN g : k < l /\ InfoRead(l) => g[k].mName # g[l].mName
        /\ \A k \in DOMAIN g : InfoRead(k) /\ g[k].mName \in owner2nodes[owner] =>
                node2roles[g[k].mName] \subseteq g[k].mRoles
        /\ \A k \in DOMAIN g : k < j /\ g[k].mName \in owner2nodes[owner] =>
                <<owner, g[k].mName>> \in tried
    BY <2>1 DEF InfoInv
  <2> DEFINE Goal ==
        /\ \A k \in DOMAIN g : InfoRead(k)' => g[k].mName \in node_set'
        /\ \A n \in node_set' : \E k \in DOMAIN g : InfoRead(k)' /\ g[k].mName = n
        /\ \A k, l \in DOMAIN g : k < l /\ InfoRead(l)' => g[k].mName # g[l].mName
        /\ \A k \in DOMAIN g : InfoRead(k)' /\ g[k].mName \in owner2nodes[owner] =>
                node2roles[g[k].mName] \subseteq g[k].mRoles
        /\ \A k \in DOMAIN g : k < j' /\ g[k].mName \in owner2nodes[owner] =>
                <<owner, g[k].mName>> \in tried'
  <2>5. SUFFICES Goal /\ (pc' = "allocate" => j' \in DOMAIN g)
    BY <2>1 DEF InfoInv
  <2>6. CASE SkipHidden \/ CheckInfo
    <3>1. /\ pc = "infos" /\ node_set' = node_set \cup {g[j].mName} /\ tried' = tried
          /\ g[j].mName \notin node_set
          /\ \/ pc' = "infos" /\ j' = j + 1 /\ g[j].mName \notin owner2nodes[owner]
             \/ pc' = "allocate" /\ j' = j /\ node2roles[g[j].mName] \subseteq g[j].mRoles
      BY <2>6 DEF SkipHidden, CheckInfo, Info, store
    <3>2. /\ \A k \in DOMAIN g : InfoRead(k) <=> k < j
          /\ \A k \in DOMAIN g : InfoRead(k)' <=> k < j \/ k = j
      BY <2>1, <2>3, <3>1 DEF InfoRead
    <3>3. \A k \in DOMAIN g : k < j' => k < j \/ (k = j /\ g[j].mName \notin owner2nodes[owner])
      BY <2>1, <2>3, <3>1
    <3>4. \A k \in DOMAIN g : InfoRead(k)' => g[k].mName \in node_set'
      BY <2>4, <3>1, <3>2
    <3>5. \A n \in node_set' : \E k \in DOMAIN g : InfoRead(k)' /\ g[k].mName = n
      <4>1. \A n \in node_set : \E k \in DOMAIN g : InfoRead(k)' /\ g[k].mName = n
        BY <2>4, <3>2
      <4>2. \A k \in DOMAIN g : k = j => InfoRead(k)'
        BY <3>2
      <4> QED
        BY <2>1, <3>1, <4>1, <4>2
    <3>6. \A k, l \in DOMAIN g : k < l /\ InfoRead(l)' => g[k].mName # g[l].mName
      <4>1. \A k \in DOMAIN g : k < j => g[k].mName # g[j].mName
        BY <2>4, <3>1, <3>2
      <4> QED
        BY <2>4, <3>2, <4>1
    <3>7. \A k \in DOMAIN g : InfoRead(k)' /\ g[k].mName \in owner2nodes[owner] =>
              node2roles[g[k].mName] \subseteq g[k].mRoles
      BY <2>4, <3>1, <3>2
    <3>8. \A k \in DOMAIN g : k < j' /\ g[k].mName \in owner2nodes[owner] =>
              <<owner, g[k].mName>> \in tried'
      BY <2>4, <3>1, <3>3
    <3> QED
      BY <2>1, <3>1, <3>4, <3>5, <3>6, <3>7, <3>8
  <2>7. CASE \E status \in Status : AllocateNode(status) /\ pc' = "infos"
    <3>1. /\ pc = "allocate" /\ pc' = "infos" /\ j' = j + 1 /\ node_set' = node_set
          /\ tried' = tried \cup {<<owner, g[j].mName>>}
      BY <2>7 DEF AllocateNode, Info
    <3>2. /\ \A k \in DOMAIN g : InfoRead(k)' <=> InfoRead(k)
          /\ \A k \in DOMAIN g : k < j' <=> k < j \/ k = j
      BY <2>1, <2>3, <3>1 DEF InfoRead
    <3>3. \A k \in DOMAIN g : k < j' /\ g[k].mName \in owner2nodes[owner] =>
              <<owner, g[k].mName>> \in tried'
      BY <2>4, <3>1, <3>2
    <3>4. \A k \in DOMAIN g : InfoRead(k)' => g[k].mName \in node_set'
      BY <2>4, <3>1, <3>2
    <3>5. \A n \in node_set' : \E k \in DOMAIN g : InfoRead(k)' /\ g[k].mName = n
      BY <2>4, <3>1, <3>2
    <3>6. \A k, l \in DOMAIN g : k < l /\ InfoRead(l)' => g[k].mName # g[l].mName
      BY <2>4, <3>2
    <3>7. \A k \in DOMAIN g : InfoRead(k)' /\ g[k].mName \in owner2nodes[owner] =>
              node2roles[g[k].mName] \subseteq g[k].mRoles
      BY <2>4, <3>2
    <3> QED
      BY <3>1, <3>3, <3>4, <3>5, <3>6, <3>7
  <2> QED
    BY <1>3, <2>6, <2>7
<1>4. CASE Attributes \/ Roles
  <2>1. pc' # "infos" /\ pc' # "allocate"
    BY <1>4 DEF Attributes, Roles, ListServiceAttributes, CheckService, EndOfServices, ListRoles,
           SkipRole, RejectRole, RejectNode, TakeRole, CheckNode, EndOfNodes, EndOfRoles
  <2> QED
    BY <1>1, <2>1
<1>5. ASSUME NEW o \in Owner, NEW status \in Status, GetOmx(o, status) PROVE InfoInv'
  BY <1>1, <1>5 DEF GetOmx
<1>6. CASE RejectInfo \/ EndOfInfos \/ EndOfOwners \/ (\E p \in Name : GetNodePrefix(p))
             \/ (\E status \in Status : AllocateNode(status) /\ pc' # "infos")
  <2>1. pc' # "infos" /\ pc' # "allocate"
    BY <1>6 DEF RejectInfo, EndOfInfos, EndOfOwners, GetNodePrefix, AllocateNode
  <2> QED
    BY <1>1, <2>1
<1>7. CASE UNCHANGED vars
  BY <1>7 DEF vars, lists, store, InfoInv, InfoRead
<1>8. CASE Nodes
  BY <1>2, <1>3, <1>5, <1>6, <1>8, Zenon DEF Nodes
<1> QED
  BY <1>4, <1>7, <1>8 DEF Next

LEMMA EndStep == TypeOK /\ ShapeInv /\ EndInv /\ [Next]_vars => EndInv'
<1> SUFFICES ASSUME TypeOK, ShapeInv, EndInv, [Next]_vars PROVE EndInv'
  OBVIOUS
<1>1. ASSUME pc' # "prefix", pc' # "passed" PROVE EndInv'
  BY <1>1 DEF EndInv
<1>2. CASE ListRoles
  BY <1>2 DEF ListRoles, EndInv, ShapeInv, lists, store
<1>3. CASE EndOfServices
  BY <1>3 DEF EndOfServices, EndInv, ShapeInv, fixed
<1>4. CASE EndOfOwners
  <2>1. /\ ownersLeft' = {} /\ UNCHANGED <<test, node2roles, prefix>>
        /\ pc' = "passed" => \A n \in Name : node2roles[n] = {}
    BY <1>4 DEF EndOfOwners, lists, store, fixed
  <2> QED
    BY <2>1 DEF EndInv
<1>5. ASSUME NEW p \in Name, GetNodePrefix(p) PROVE EndInv'
  BY <1>5 DEF GetNodePrefix, EndInv, lists, store, fixed
<1>6. CASE UNCHANGED vars
  BY <1>6 DEF vars, lists, store, fixed, EndInv
<1>7. CASE Attributes
  BY <1>1, <1>3, <1>7 DEF Attributes, ListServiceAttributes, CheckService
<1>8. CASE Roles
  BY <1>1, <1>2, <1>8 DEF Roles, SkipRole, RejectRole, RejectNode, TakeRole, CheckNode, EndOfNodes,
                          EndOfRoles
<1>9. CASE Nodes
  BY <1>1, <1>4, <1>5, <1>9 DEF Nodes, GetOmx, ListNodes, RejectInfo, SkipHidden, CheckInfo,
                               AllocateNode, EndOfInfos
<1> QED
  BY <1>6, <1>7, <1>8, <1>9 DEF Next

LEMMA FailuresStep ==
    TypeOK /\ ShapeInv /\ GatherInv /\ MapInv /\ InfoInv /\ FailuresJustified /\ [Next]_vars
        => FailuresJustified'
<1> SUFFICES ASSUME TypeOK, ShapeInv, GatherInv, MapInv, InfoInv, FailuresJustified, [Next]_vars,
                    test' = "testQueryCodecInformation", pc' = "failed"
             PROVE  \/ refused' # {}
                    \/ /\ owner' = None
                       /\ i' \in DOMAIN listing'
                       /\ \/ ~RoleRight(i)'
                          \/ <<i', j'>> \in Mention' /\ ~MentionRight(<<i, j>>)'
                    \/ owner' \in Owner /\ prefix' = None /\ AnswerWrong(owner)'
                    \/ /\ prefix' \in Name
                       /\ \/ Match[prefix'] = "none"
                          \/ \E n \in Name : RolesOf(n)' # {} /\ n \notin StartsWith[prefix']
  BY Zenon DEF FailuresJustified
<1>1. /\ UNCHANGED fixed /\ test = "testQueryCodecInformation"
      /\ listing' = listing /\ Mention' = Mention
      /\ \A r : RoleRight(r)' = RoleRight(r)
      /\ \A m : MentionRight(m)' = MentionRight(m)
      /\ \A n : RolesOf(n)' = RolesOf(n)
      /\ \A o, n : Owns(o, n)' = Owns(o, n)
  BY FixedStays, ListingStays DEF fixed
<1>2. CASE RejectRole
  <2>1. i \in DOMAIN listing /\ ~RoleRight(i)
    BY <1>2, RoleChecked DEF RejectRole
  <2>2. pc = "roles" /\ UNCHANGED <<i, owner>>
    BY <1>2 DEF RejectRole, store
  <2>3. owner' = None
    BY <2>2 DEF ShapeInv, Gathering
  <2>4. ~RoleRight(i)'
    BY <1>1, <2>1, <2>2 DEF RoleRight, Recognized
  <2> QED
    BY <1>1, <2>1, <2>2, <2>3, <2>4
<1>3. CASE RejectNode
  <2>1. <<i, j>> \in Mention /\ ~MentionRight(<<i, j>>)
    BY <1>3, NodeChecked DEF RejectNode
  <2>2. pc = "nodes" /\ UNCHANGED <<i, j, owner>>
    BY <1>3 DEF RejectNode, store
  <2>3. owner' = None /\ i \in DOMAIN listing
    BY <2>2 DEF ShapeInv, Gathering, Recognized
  <2>4. ~MentionRight(<<i, j>>)'
    BY <1>1, <2>1, <2>2 DEF MentionRight, NodeAt
  <2> QED
    BY <1>1, <2>1, <2>2, <2>3, <2>4
<1>4. CASE RejectInfo
  <2>1. /\ pc = "infos" /\ j \in DOMAIN given[owner] /\ given' = given
        /\ \/ Info.mName \in node_set
           \/ /\ Info.mName \in owner2nodes[owner]
              /\ ~(node2roles[Info.mName] \subseteq Info.mRoles)
    BY <1>4 DEF RejectInfo, store
  <2>2. /\ owner \in Owner /\ owner' = owner
        /\ prefix' = None
    BY <1>4, <2>1 DEF RejectInfo, ShapeInv, Asking, store
  <2>3. CASE Info.mName \in node_set
    <3>1. PICK k \in DOMAIN given[owner] : InfoRead(k) /\ given[owner][k].mName = Info.mName
      BY <2>1, <2>3 DEF InfoInv
    <3>2. k < j
      BY <2>1, <3>1 DEF InfoRead
    <3>3. AnswerWrong(owner)'
      BY <2>1, <2>2, <3>1, <3>2 DEF Info, AnswerWrong
    <3> QED
      BY <2>2, <3>3
  <2>4. CASE /\ Info.mName \in owner2nodes[owner]
             /\ ~(node2roles[Info.mName] \subseteq Info.mRoles)
    <3>1. Info.mName \in Name
      BY <2>1, <2>2, GivenFacts DEF Info
    <3>2. Owns(owner, Info.mName) /\ node2roles[Info.mName] = RolesOf(Info.mName)
      BY <1>1, <2>1, <2>2, <2>4, <3>1, MapsMean DEF Gathered, Asking
    <3>3. PICK o \in Owner, n \in Name : o = owner /\ n = Info.mName
      BY <2>2, <3>1
    <3>4. Owns(o, n)'
      BY <1>1, <3>2, <3>3
    <3>5. ~Supported(o, n)'
      <4>1. RolesOf(n)' = node2roles[n] /\ given'[o] = given[owner]
        BY <1>1, <2>1, <3>2, <3>3
      <4>2. given'[o][j].mName = n /\ ~(RolesOf(n)' \subseteq given'[o][j].mRoles)
        BY <2>4, <3>3, <4>1 DEF Info
      <4> QED
        BY <2>1, <4>1, <4>2 DEF Supported
    <3>6. AnswerWrong(o)'
      BY <3>4, <3>5 DEF AnswerWrong
    <3>7. AnswerWrong(owner)'
      BY <2>2, <3>3, <3>6 DEF AnswerWrong, Owns, Supported
    <3> QED
      BY <2>2, <3>7
  <2> QED
    BY <2>1, <2>3, <2>4
<1>5. CASE EndOfInfos
  <2>1. pc = "infos" /\ j \notin DOMAIN given[owner] /\ given' = given
    BY <1>5 DEF EndOfInfos, store
  <2>2. /\ owner \in Owner /\ owner' = owner
        /\ prefix' = None
    BY <1>5, <2>1 DEF EndOfInfos, ShapeInv, Asking, store
  <2>3. PICK n \in owner2nodes[owner] : n \notin node_set
    BY <1>5 DEF EndOfInfos, Expected
  <2>4. n \in Name
    BY <2>2, <2>3 DEF TypeOK
  <2>5. Owns(owner, n)
    BY <1>1, <2>1, <2>2, <2>3, <2>4, MapsMean DEF Gathered, Asking
  <2>6. \A k \in DOMAIN given[owner] : k < j
    <3>1. /\ DOMAIN given[owner] = 1 .. Len(given[owner]) /\ Len(given[owner]) \in Nat
          /\ j \in Nat \ {0}
      BY <2>2, GivenFacts DEF TypeOK
    <3> QED
      BY <2>1, <3>1
  <2>7. \A k \in DOMAIN given[owner] : given[owner][k].mName # n
    BY <2>1, <2>3, <2>6 DEF InfoInv, InfoRead
  <2>8. PICK o \in Owner : o = owner
    BY <2>2
  <2>9. Owns(o, n)' /\ ~Supported(o, n)'
    BY <1>1, <2>1, <2>5, <2>7, <2>8 DEF Supported
  <2>10. AnswerWrong(o)'
    BY <2>4, <2>9 DEF AnswerWrong
  <2>11. AnswerWrong(owner)'
    BY <2>2, <2>8, <2>10 DEF AnswerWrong, Owns, Supported
  <2> QED
    BY <2>2, <2>11
<1>6. ASSUME NEW p \in Name, GetNodePrefix(p)
      PROVE  /\ prefix' \in Name
             /\ \/ Match[prefix'] = "none"
                \/ \E n \in Name : RolesOf(n)' # {} /\ n \notin StartsWith[prefix']
  <2>1. /\ pc = "prefix" /\ prefix' = p
        /\ \/ Match[p] = "none"
           \/ \E n \in Name : node2roles[n] # {} /\ n \notin StartsWith[p]
    BY <1>6 DEF GetNodePrefix
  <2>2. \A n \in Name : node2roles[n] = RolesOf(n)
    BY <1>1, <2>1, MapsMean DEF Gathered
  <2> QED
    BY <1>1, <2>1, <2>2
<1>7. CASE UNCHANGED vars
  <2>1. pc = "failed" /\ UNCHANGED <<refused, given, prefix, i, j, owner>>
    BY <1>7 DEF vars, store
  <2>2. RoleRight(i)' = RoleRight(i) /\ MentionRight(<<i, j>>)' = MentionRight(<<i, j>>)
    BY <1>1, <2>1 DEF RoleRight, Recognized, MentionRight, NodeAt
  <2>3. AnswerWrong(owner)' = AnswerWrong(owner)
    <3>1. \A o, n : Supported(o, n)' = Supported(o, n)
      BY <1>1, <2>1 DEF Supported
    <3>2. \A n : Owns(owner, n)' = Owns(owner, n) /\ Supported(owner, n)' = Supported(owner, n)
      BY <1>1, <2>1, <3>1 DEF Owns, Supported, FirstMention, NodeAt
    <3> QED
      BY <2>1, <3>2 DEF AnswerWrong
  <2> QED
    BY <1>1, <2>1, <2>2, <2>3 DEF FailuresJustified
<1>8. CASE Attributes
  <2>1. test = "testListServiceAttributes"
    BY <1>8 DEF Attributes, ListServiceAttributes, CheckService, EndOfServices, ShapeInv
  <2> QED
    BY <1>1, <2>1
<1>9. CASE Roles
  <2>1. RejectRole \/ RejectNode
    BY <1>9 DEF Roles, ListRoles, SkipRole, TakeRole, CheckNode, EndOfNodes, EndOfRoles
  <2> QED
    BY <1>2, <1>3, <2>1
<1>10. CASE Nodes
  <2>1. \/ RejectInfo \/ EndOfInfos \/ (\E p \in Name : GetNodePrefix(p))
        \/ (\E status \in Status, o \in Owner : GetOmx(o, status))
        \/ (\E status \in Status, list \in NodeLists : ListNodes(status, list))
        \/ (\E status \in Status : AllocateNode(status))
    BY <1>10 DEF Nodes, SkipHidden, CheckInfo, EndOfOwners
  <2>2. CASE \E status \in Status, o \in Owner : GetOmx(o, status)
    BY <2>2 DEF GetOmx
  <2>3. CASE \E status \in Status, list \in NodeLists : ListNodes(status, list)
    BY <2>3 DEF ListNodes
  <2>4. CASE \E status \in Status : AllocateNode(status)
    BY <2>4 DEF AllocateNode
  <2>5. CASE \E p \in Name : GetNodePrefix(p)
    BY <1>6, <2>5
  <2> QED
    BY <1>4, <1>5, <2>1, <2>2, <2>3, <2>4, <2>5, Zenon
<1> QED
  BY <1>7, <1>8, <1>9, <1>10, Zenon DEF Next

-----------------------------------------------------------------------------
LEMMA AlwaysInv == Spec => []Inv
<1>1. Init => Inv
  BY InitInv
<1>2. Inv /\ [Next]_vars => Inv'
  BY TypeStep, ShapeStep, ServiceStep, GatherStep, ListingStep, MapStep, OneOwnerStep, OwnerStep,
     InfoStep, EndStep, FailuresStep, Zenon DEF Inv
<1> QED
  BY <1>1, <1>2, PTL DEF Spec

\* The variables keep their types, whatever the store and the IOmx instances answer.
THEOREM TypeCorrect == Spec => []TypeOK
<1>1. Inv => TypeOK
  BY DEF Inv
<1> QED
  BY <1>1, AlwaysInv, PTL

\* testListServiceAttributes passes only if no name comes twice and each known one
\* has a value that starts as it should, and fails only for one of these causes or
\* for a refused call (lines 99-127).
THEOREM ServiceIsVouched == Spec => []ServiceVouched
<1>1. Inv => ServiceVouched
  BY DEF Inv
<1> QED
  BY <1>1, AlwaysInv, PTL

\* A role of a recognized mime type that does not agree with it, a role with the
\* name of a recognized one before, and a mention of a node, in a recognized role,
\* that the expressions do not accept: none gets past the loop over the roles
\* (lines 297-398).  Duplicates among the other roles do.
THEOREM ListingIsVouched == Spec => []ListingVouched
<1>1. Inv => ListingVouched
  BY DEF Inv
<1> QED
  BY <1>1, AlwaysInv, PTL

\* Every node in the map of roles is a node of exactly one owner (lines 391-398).
THEOREM OneOwnerEach == Spec => []OneOwner
<1>1. Inv => OneOwner
  BY DEF Inv
<1> QED
  BY <1>1, AlwaysInv, PTL

\* A test that passes has seen every node reported by its first owner, with all
\* roles of the listing, and created, and its name start with the prefix, however
\* many owners there are and in whatever order they come (lines 404-480).
THEOREM SupportIsVouched == Spec => []SupportVouched
<1>1. ASSUME Inv PROVE SupportVouched
  <2> SUFFICES ASSUME pc = "passed", test = "testQueryCodecInformation",
                      NEW o \in Owner, NEW n \in Name, Owns(o, n)
               PROVE  /\ Supported(o, n)
                      /\ <<o, n>> \in tried
                      /\ prefix \in Name
                      /\ Match[prefix] # "none" /\ n \in StartsWith[prefix]
    BY Zenon DEF SupportVouched
  <2>1. n \in owner2nodes[o]
    BY <1>1, MapsMean DEF Inv, Gathered
  <2>2. OwnerDone(o)
    BY <1>1 DEF Inv, EndInv, OwnerDone, Asking
  <2>3. Supported(o, n) /\ <<o, n>> \in tried
    BY <1>1, <2>1, <2>2 DEF Inv, OwnerInv, Gathered
  <2>4. node2roles[n] # {}
    BY <1>1, <2>1 DEF Inv, OneOwner
  <2> QED
    BY <1>1, <2>3, <2>4 DEF Inv, EndInv
<1> QED
  BY <1>1, AlwaysInv, PTL

\* A failure is for a refused call, for the role or the node the loop over the roles
\* is at, for the answer of the owner that was asked last about its own nodes, or
\* for the prefix: never for a hidden node, for a second owner, or for an owner not
\* asked yet (lines 304-480).
THEOREM FailuresAreJustified == Spec => []FailuresJustified
<1>1. Inv => FailuresJustified
  BY DEF Inv
<1> QED
  BY <1>1, AlwaysInv, PTL
=============================================================================
