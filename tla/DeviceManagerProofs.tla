------------------------ MODULE DeviceManagerProofs ------------------------
(***************************************************************************)
(* Theorems about DeviceManager, for every set of files, keys and tags,    *)
(* whichever registrations and removals fail.                              *)
(***************************************************************************)
EXTENDS DeviceManager, FiniteSetTheorems, TLAPS

(* Where the running load or reload is, and what its loops range over.     *)
Progress ==
  /\ phase = "boot" => applied = NoDevices
  /\ phase = "removing" => todo \subseteq Registered
  /\ phase \in {"registering", "creating"} => todo \subseteq KeysOf(applied)
  /\ phase = "creating" => /\ creating \in todo
                           /\ devices[creating] = NoDevice
                           /\ made \in 0..Len(applied[creating])

TypeInv == TypeOK /\ Progress

(* A device of a configuration is a sequence of tags.                      *)
LEMMA DeviceIsTags ==
  ASSUME NEW config \in Configuration, NEW k \in KeysOf(config)
  PROVE  /\ config[k] \in DeviceConfig
         /\ config[k] \in Seq(TagConfig)
         /\ Len(config[k]) \in Nat
         /\ DOMAIN config[k] = 1..Len(config[k])
  BY DEF Configuration, KeysOf, DeviceConfig

(* The tag createDevice is at.                                             *)
LEMMA NextTagType ==
  ASSUME TypeInv, phase = "creating", TagsLeft
  PROVE  /\ NextTag \in TagConfig
         /\ made + 1 \in 1..Len(applied[creating])
         /\ creating \in KeysOf(applied)
  <1>1. creating \in KeysOf(applied)
    BY DEF TypeInv, Progress
  <1>2. applied[creating] \in Seq(TagConfig) /\ Len(applied[creating]) \in Nat
    BY <1>1, DeviceIsTags DEF TypeInv, TypeOK
  <1>3. made + 1 \in 1..Len(applied[creating])
    BY <1>2 DEF TypeInv, TypeOK, TagsLeft
  <1>4. QED
    BY <1>1, <1>2, <1>3 DEF NextTag

(* What is counted down by a removal is a number.                          *)
LEMMA OfTypeCount ==
  ASSUME NEW tags \in Seq(TagConfig), NEW ty
  PROVE  IsFiniteSet(OfType(tags, ty)) /\ Cardinality(OfType(tags, ty)) \in Nat
  <1>1. IsFiniteSet(1..Len(tags))
    BY FS_Interval
  <1>2. OfType(tags, ty) \subseteq 1..Len(tags)
    BY DEF OfType
  <1>3. QED
    BY <1>1, <1>2, FS_Subset, FS_CardinalityType

-----------------------------------------------------------------------------
(* Type correctness.                                                       *)

LEMMA TypeInit == Init => TypeInv
  BY ConstantsAssumption
     DEF Init, TypeInv, TypeOK, Progress, NoDevices, Configuration, Categories

LEMMA RecordErrorType ==
  ASSUME TypeOK, NEW category \in Categories, RecordError(category)
  PROVE  errors' \in [Categories -> 0..MaxErrors]
  BY ConstantsAssumption DEF TypeOK, RecordError

LEMMA TypeStart ==
  ASSUME TypeInv, NEW config \in Configs, Load(config) \/ Reload(config)
  PROVE  TypeInv'
  <1>1. config \in Configuration
    BY ConstantsAssumption
  <1>2. QED
    BY <1>1 DEF TypeInv, TypeOK, Progress, Load, Reload, registry, creation,
                KeysOf, Registered

LEMMA TypeRefused ==
  ASSUME TypeInv, NEW category \in ReadErrors,
         LoadNothing(category) \/ ReloadAborted(category)
  PROVE  TypeInv'
  <1>1. category \in Categories
    BY DEF ReadErrors, Categories
  <1>2. errors' \in [Categories -> 0..MaxErrors]
    BY <1>1, RecordErrorType DEF TypeInv, LoadNothing, ReloadAborted
  <1>3. QED
    BY <1>2 DEF TypeInv, TypeOK, Progress, LoadNothing, ReloadAborted, registry,
                creation, KeysOf, Registered

LEMMA TypeRemove ==
  ASSUME TypeInv, NEW k \in Keys, RemoveDevice(k)
  PROVE  TypeInv'
  <1>1. devices[k] \in Seq(TagConfig)
    BY DeviceIsTags DEF TypeInv, TypeOK, Progress, RemoveDevice, Registered, KeysOf
  <1>2. tagCount' \in [Types -> Nat]
    <2>1. \A ty \in Types : Cardinality(OfType(devices[k], ty)) \in Nat
      BY <1>1, OfTypeCount
    <2>2. QED
      BY <2>1 DEF TypeInv, TypeOK, RemoveDevice, RecordTagsRemoved
  <1>3. devices' \in Configuration /\ Registered' = Registered \ {k}
    BY DEF TypeInv, TypeOK, RemoveDevice, Registered, Configuration
  <1>4. nodes' \in [NodeIds -> Node \cup {NoNode}]
    BY DEF TypeInv, TypeOK, RemoveDevice, DeleteNodesOf
  <1>5. runtime' \in [NodeIds -> Entry \cup {NoTag}]
    BY DEF TypeInv, TypeOK, RemoveDevice, UnregisterDevice
  <1>6. deviceStatus' \in [Keys -> {"absent", "connected", "error"}]
    BY DEF TypeInv, TypeOK, RemoveDevice, RecordDeviceRemoved
  <1>7. QED
    BY <1>2, <1>3, <1>4, <1>5, <1>6
       DEF TypeInv, TypeOK, Progress, RemoveDevice, creation

LEMMA TypeSkip ==
  ASSUME TypeInv, NEW k \in Keys, RemoveFails(k) \/ SkipRegistered(k)
  PROVE  TypeInv'
  BY DEF TypeInv, TypeOK, Progress, RemoveFails, SkipRegistered, registry,
         creation, KeysOf, Registered

LEMMA TypeLoopDone ==
  ASSUME TypeInv, RemovalDone \/ RegisterAllDone
  PROVE  TypeInv'
  BY DEF TypeInv, TypeOK, Progress, RemovalDone, RegisterAllDone, registry,
         creation, KeysOf, Registered

LEMMA TypeCreateObject ==
  ASSUME TypeInv, NEW k \in Keys, CreateObject(k)
  PROVE  TypeInv'
  <1>1. Len(applied[k]) \in Nat
    BY DeviceIsTags DEF TypeInv, TypeOK, Progress, CreateObject
  <1>2. QED
    BY <1>1 DEF TypeInv, TypeOK, Progress, CreateObject, registry, KeysOf

LEMMA TypeCreateTag ==
  ASSUME TypeInv, CreateTag
  PROVE  TypeInv'
  <1>1. /\ NextTag \in TagConfig /\ creating \in Keys
        /\ made + 1 \in 1..Len(applied[creating])
    BY NextTagType DEF CreateTag, KeysOf
  <1>2. runtime' \in [NodeIds -> Entry \cup {NoTag}]
    BY <1>1 DEF TypeInv, TypeOK, CreateTag, RegisterTag, TagConfig, Entry
  <1>3. nodes' \in [NodeIds -> Node \cup {NoNode}]
    BY <1>1 DEF TypeInv, TypeOK, CreateTag, TagConfig, Node
  <1>4. tagCount' \in [Types -> Nat]
    BY <1>1 DEF TypeInv, TypeOK, CreateTag, TagConfig
  <1>5. made' \in 0..Len(applied[creating])
    BY <1>1 DEF CreateTag, TypeInv, TypeOK
  <1>6. QED
    BY <1>2, <1>3, <1>4, <1>5 DEF TypeInv, TypeOK, Progress, CreateTag, KeysOf

LEMMA TypeRegistrationFails ==
  ASSUME TypeInv, RegistrationFails
  PROVE  TypeInv'
  <1>1. NextTag \in TagConfig /\ creating \in Keys
    BY NextTagType DEF RegistrationFails, KeysOf
  <1>2. runtime' \in [NodeIds -> Entry \cup {NoTag}]
    BY <1>1 DEF TypeInv, TypeOK, RegistrationFails, RegisterTag, TagConfig, Entry
  <1>3. nodes' \in [NodeIds -> Node \cup {NoNode}]
    BY DEF TypeInv, TypeOK, RegistrationFails, Abandon, Node
  <1>4. errors' \in [Categories -> 0..MaxErrors]
    BY RecordErrorType DEF TypeInv, RegistrationFails, RecordDeviceError, Categories
  <1>5. deviceStatus' \in [Keys -> {"absent", "connected", "error"}]
    BY DEF TypeInv, TypeOK, RegistrationFails, RecordDeviceError
  <1>6. QED
    BY <1>2, <1>3, <1>4, <1>5
       DEF TypeInv, TypeOK, Progress, RegistrationFails, KeysOf

LEMMA TypeRegistrationDone ==
  ASSUME TypeInv, RegistrationDone
  PROVE  TypeInv'
  <1>1. creating \in KeysOf(applied) /\ creating \in Keys
    BY DEF TypeInv, Progress, RegistrationDone, KeysOf
  <1>2. devices' \in Configuration
    BY <1>1 DEF TypeInv, TypeOK, RegistrationDone, Configuration
  <1>3. deviceStatus' \in [Keys -> {"absent", "connected", "error"}]
    BY DEF TypeInv, TypeOK, RegistrationDone
  <1>4. QED
    BY <1>2, <1>3 DEF TypeInv, TypeOK, Progress, RegistrationDone, KeysOf

LEMMA TypeWriteTag ==
  ASSUME TypeInv, NEW n \in NodeIds, NEW v \in Values, WriteTag(n, v)
  PROVE  TypeInv'
  <1>1. runtime' \in [NodeIds -> Entry \cup {NoTag}]
    BY DEF TypeInv, TypeOK, WriteTag, Entry
  <1>2. nodes' \in [NodeIds -> Node \cup {NoNode}]
    BY DEF TypeInv, TypeOK, WriteTag, Node
  <1>3. QED
    BY <1>1, <1>2 DEF TypeInv, TypeOK, Progress, WriteTag, creation, KeysOf, Registered

LEMMA TypeStep == TypeInv /\ [Next]_vars => TypeInv'
  <1> SUFFICES ASSUME TypeInv, [Next]_vars
               PROVE  TypeInv'
    OBVIOUS
  <1>1. CASE UNCHANGED vars
    BY <1>1 DEF vars, TypeInv, TypeOK, Progress, KeysOf, Registered
  <1>2. CASE Next
    BY <1>2, TypeStart, TypeRefused, TypeRemove, TypeSkip, TypeLoopDone,
       TypeCreateObject, TypeCreateTag, TypeRegistrationFails, TypeRegistrationDone, TypeWriteTag
       DEF Next, Continue
  <1>3. QED
    BY <1>1, <1>2

LEMMA TypeInvariant == Spec => []TypeInv
  BY TypeInit, TypeStep, PTL DEF Spec

(* Every variable keeps its type: in particular the counters of tags never *)
(* become negative and no loop runs over a key that is not there.          *)
THEOREM TypeCorrect == Spec => []TypeOK
  BY TypeInvariant, PTL DEF TypeInv

-----------------------------------------------------------------------------
(* The registry and the device metrics.                                    *)

(* The second part is ConfiguredOrReported in the middle of registerAll(): *)
(* a key is still to visit, registered, or in error.                       *)
RegistryInv ==
  /\ ConnectedIffRegistered
  /\ phase \in {"registering", "creating", "idle"} =>
       \A k \in KeysOf(applied) :
         \/ k \in todo /\ phase # "idle"
         \/ k \in Registered
         \/ deviceStatus[k] = "error"

LEMMA RegistryInit == Init => RegistryInv
  BY DEF Init, RegistryInv, ConnectedIffRegistered, NoDevices, Registered, KeysOf

LEMMA RegistryStep == TypeInv /\ RegistryInv /\ [Next]_vars => RegistryInv'
  <1> SUFFICES ASSUME TypeInv, RegistryInv, [Next]_vars
               PROVE  RegistryInv'
    OBVIOUS
  <1>1. ASSUME NEW config \in Configs, Load(config) \/ Reload(config)
        PROVE  RegistryInv'
    BY <1>1 DEF RegistryInv, ConnectedIffRegistered, Load, Reload, registry,
                Registered, KeysOf
  <1>2. ASSUME NEW c \in ReadErrors, LoadNothing(c) \/ ReloadAborted(c)
        PROVE  RegistryInv'
    BY <1>2 DEF TypeInv, Progress, RegistryInv, ConnectedIffRegistered, LoadNothing,
                ReloadAborted, registry, Registered, KeysOf, NoDevices
  <1>3. ASSUME NEW k \in Keys, RemoveDevice(k)
        PROVE  RegistryInv'
    BY <1>3 DEF TypeInv, TypeOK, Configuration, RegistryInv, ConnectedIffRegistered,
                RemoveDevice, RecordDeviceRemoved, Registered, KeysOf
  <1>4. ASSUME NEW k \in Keys, RemoveFails(k) \/ SkipRegistered(k)
        PROVE  RegistryInv'
    BY <1>4 DEF RegistryInv, ConnectedIffRegistered, RemoveFails, SkipRegistered,
                registry, Registered, KeysOf
  <1>5. ASSUME RemovalDone \/ RegisterAllDone
        PROVE  RegistryInv'
    BY <1>5 DEF RegistryInv, ConnectedIffRegistered, RemovalDone, RegisterAllDone,
                registry, Registered, KeysOf
  <1>6. ASSUME NEW k \in Keys, CreateObject(k)
        PROVE  RegistryInv'
    BY <1>6 DEF RegistryInv, ConnectedIffRegistered, CreateObject, registry,
                Registered, KeysOf
  <1>7. CASE CreateTag
    BY <1>7 DEF RegistryInv, ConnectedIffRegistered, CreateTag, Registered, KeysOf
  <1>8. CASE RegistrationFails
    <2>1. creating \in Keys /\ devices[creating] = NoDevice
      BY <1>8 DEF TypeInv, TypeOK, Progress, RegistrationFails
    <2>2. deviceStatus' = [deviceStatus EXCEPT ![creating] = "error"]
      BY <1>8 DEF RegistrationFails, RecordDeviceError
    <2>3. QED
      BY <1>8, <2>1, <2>2
         DEF TypeInv, TypeOK, RegistryInv, ConnectedIffRegistered, RegistrationFails,
             Registered, KeysOf
  <1>9. CASE RegistrationDone
    <2>1. creating \in Keys /\ applied[creating] # NoDevice
      BY <1>9 DEF TypeInv, TypeOK, Progress, RegistrationDone, KeysOf
    <2>2. Registered' = Registered \cup {creating}
      BY <1>9, <2>1 DEF TypeInv, TypeOK, Configuration, RegistrationDone, Registered
    <2>3. QED
      BY <1>9, <2>1, <2>2
         DEF TypeInv, TypeOK, RegistryInv, ConnectedIffRegistered, RegistrationDone,
             KeysOf
  <1>10. ASSUME NEW n \in NodeIds, NEW v \in Values, WriteTag(n, v)
         PROVE  RegistryInv'
    BY <1>10 DEF RegistryInv, ConnectedIffRegistered, WriteTag, Registered, KeysOf
  <1>11. CASE UNCHANGED vars
    BY <1>11 DEF vars, RegistryInv, ConnectedIffRegistered, Registered, KeysOf
  <1>12. QED
    BY <1>1, <1>2, <1>3, <1>4, <1>5, <1>6, <1>7, <1>8, <1>9, <1>10, <1>11
       DEF Next, Continue

LEMMA RegistryInvariant == Spec => []RegistryInv
  BY RegistryInit, RegistryStep, TypeInvariant, PTL DEF Spec

(* The metrics call a device connected exactly while the manager holds it, *)
(* whatever the files and whichever registrations and removals fail.       *)
THEOREM ConnectedIffRegisteredAlways == Spec => []ConnectedIffRegistered
  BY RegistryInvariant, PTL DEF RegistryInv

(* No configured device is lost in silence by load() or reload().          *)
THEOREM ConfiguredOrReportedAlways == Spec => []ConfiguredOrReported
  <1>1. RegistryInv => ConfiguredOrReported
    BY DEF RegistryInv, ConfiguredOrReported, Idle
  <1>2. QED
    BY <1>1, RegistryInvariant, PTL

-----------------------------------------------------------------------------
(* The variables of the address space.                                     *)

(* The variable of tag i of tags is there and belongs to k.                *)
Made(tags, i, k) ==
  LET node == nodes[tags[i].nodeId]
  IN node # NoNode /\ node.owner = k /\ node.type = tags[i].type

(* A registered device has all its variables, the one being created those  *)
(* made so far, and no other variable belongs to either or to any key.     *)
NodesInv ==
  /\ \A k \in Registered : \A i \in DOMAIN devices[k] : Made(devices[k], i, k)
  /\ phase = "creating" => \A i \in 1..made : Made(applied[creating], i, creating)
  /\ \A n \in NodeIds :
       nodes[n] # NoNode /\ nodes[n].owner # Orphan =>
         \/ nodes[n].owner \in Registered /\ n \in TagIds(devices[nodes[n].owner])
         \/ /\ phase = "creating" /\ nodes[n].owner = creating
            /\ n \in {applied[creating][i].nodeId : i \in 1..made}

LEMMA NodesInit == Init => NodesInv
  BY DEF Init, NodesInv, NoDevices, Registered

(* A registered device is a sequence of tags with nodeIds.                 *)
LEMMA RegisteredIsTags ==
  ASSUME TypeInv, NEW k \in Registered
  PROVE  /\ k \in Keys
         /\ devices[k] \in DeviceConfig
         /\ devices[k] \in Seq(TagConfig)
         /\ \A i \in DOMAIN devices[k] :
              devices[k][i].nodeId \in NodeIds /\ devices[k][i].type \in Types
  <1>1. k \in KeysOf(devices) /\ devices \in Configuration
    BY DEF TypeInv, TypeOK, Registered, KeysOf
  <1>2. devices[k] \in DeviceConfig /\ devices[k] \in Seq(TagConfig)
    BY <1>1, DeviceIsTags
  <1>3. \A i \in DOMAIN devices[k] : devices[k][i] \in TagConfig
    BY <1>2
  <1>4. QED
    BY <1>1, <1>2, <1>3 DEF KeysOf, TagConfig

LEMMA NodesRemove ==
  ASSUME TypeInv, NodesInv, NEW k \in Keys, RemoveDevice(k)
  PROVE  NodesInv'
  <1>1. Registered' = Registered \ {k} /\ \A l \in Keys \ {k} : devices'[l] = devices[l]
    BY DEF TypeInv, TypeOK, RemoveDevice, Registered, Configuration
  <1>2. phase' = "removing" /\ phase = "removing"
    BY DEF RemoveDevice
  <1>3. \A n \in NodeIds : nodes'[n] = IF nodes[n] # NoNode /\ nodes[n].owner = k
                                       THEN NoNode ELSE nodes[n]
    BY DEF RemoveDevice, DeleteNodesOf
  <1>4. ASSUME NEW l \in Registered', NEW i \in DOMAIN devices'[l]
        PROVE  Made(devices[l], i, l)' /\ devices'[l] = devices[l]
    <2>1. l \in Registered /\ l # k /\ l \in Keys /\ devices'[l] = devices[l]
      BY <1>1 DEF Registered
    <2>2. devices[l][i].nodeId \in NodeIds
      BY <1>4, <2>1, RegisteredIsTags
    <2>3. Made(devices[l], i, l)
      BY <1>4, <2>1 DEF NodesInv
    <2>4. QED
      BY <2>1, <2>2, <2>3, <1>3 DEF Made
  <1>5. ASSUME NEW n \in NodeIds, nodes'[n] # NoNode, nodes'[n].owner # Orphan
        PROVE  /\ nodes'[n].owner \in Registered'
               /\ n \in TagIds(devices'[nodes'[n].owner])
    <2>1. nodes[n] # NoNode /\ nodes[n].owner # k /\ nodes'[n] = nodes[n]
      BY <1>3, <1>5
    <2>2. nodes[n].owner \in Registered /\ n \in TagIds(devices[nodes[n].owner])
      BY <2>1, <1>2, <1>5 DEF NodesInv
    <2>3. QED
      BY <2>1, <2>2, <1>1 DEF Registered
  <1>6. QED
    BY <1>2, <1>4, <1>5 DEF NodesInv, Made

LEMMA NodesCreateTag ==
  ASSUME TypeInv, NodesInv, CreateTag
  PROVE  NodesInv'
  <1> DEFINE new == [owner |-> creating, key |-> creating, type |-> NextTag.type,
                     value |-> NextTag.value]
  <1>1. /\ NextTag.nodeId \in NodeIds /\ nodes[NextTag.nodeId] = NoNode
        /\ creating \in Keys /\ devices[creating] = NoDevice
        /\ made \in Nat
    BY NextTagType DEF CreateTag, CanAdd, TagConfig, KeysOf, TypeInv, TypeOK, Progress
  <1>2. nodes' = [nodes EXCEPT ![NextTag.nodeId] = new]
    BY DEF CreateTag
  <1>3. nodes'[NextTag.nodeId] = new
    BY <1>1, <1>2 DEF TypeInv, TypeOK
  <1>4. \A n \in NodeIds : n # NextTag.nodeId => nodes'[n] = nodes[n]
    BY <1>2 DEF TypeInv, TypeOK
  <1>5. /\ devices' = devices /\ applied' = applied /\ creating' = creating
        /\ phase = "creating" /\ phase' = "creating" /\ made' = made + 1
        /\ Registered' = Registered
    BY DEF CreateTag, Registered
  <1>6. new # NoNode
    BY <1>1, NextTagType, ConstantsAssumption DEF CreateTag, Node, TagConfig
  <1>7. ASSUME NEW k \in Registered, NEW i \in DOMAIN devices[k]
        PROVE  Made(devices[k], i, k)'
    <2>1. Made(devices[k], i, k) /\ devices[k][i].nodeId \in NodeIds
      BY RegisteredIsTags DEF NodesInv
    <2>2. QED
      BY <2>1, <1>1, <1>4, <1>5 DEF Made
  <1>8. ASSUME NEW i \in 1..made'
        PROVE  Made(applied[creating], i, creating)'
    <2>1. CASE i = made + 1
      <3>1. applied[creating][i] = NextTag
        BY <2>1 DEF NextTag
      <3>2. QED
        BY <3>1, <1>3, <1>5, <1>6 DEF Made
    <2>2. CASE i \in 1..made
      <3>1. Made(applied[creating], i, creating)
        BY <2>2, <1>5 DEF NodesInv
      <3>2. applied[creating][i].nodeId \in NodeIds
        <4>1. creating \in KeysOf(applied) /\ made \in 0..Len(applied[creating])
          BY <1>5 DEF TypeInv, Progress
        <4>2. applied[creating] \in Seq(TagConfig) /\ Len(applied[creating]) \in Nat
          BY <4>1, DeviceIsTags DEF TypeInv, TypeOK
        <4>3. applied[creating][i] \in TagConfig
          BY <4>1, <4>2, <2>2
        <4>4. QED
          BY <4>3 DEF TagConfig
      <3>3. QED
        BY <3>1, <3>2, <1>1, <1>4, <1>5 DEF Made
    <2>3. QED
      BY <2>1, <2>2, <1>1, <1>5
  <1>9. ASSUME NEW n \in NodeIds, nodes'[n] # NoNode, nodes'[n].owner # Orphan
        PROVE  \/ nodes'[n].owner \in Registered /\ n \in TagIds(devices[nodes'[n].owner])
               \/ /\ nodes'[n].owner = creating
                  /\ n \in {applied[creating][i].nodeId : i \in 1..(made + 1)}
    <2>1. CASE n = NextTag.nodeId
      BY <2>1, <1>1, <1>3 DEF NextTag
    <2>2. CASE n # NextTag.nodeId
      <3>1. nodes'[n] = nodes[n]
        BY <2>2, <1>4
      <3>2. \A i \in 1..made : i \in 1..(made + 1)
        BY <1>1
      <3>3. QED
        BY <3>1, <3>2, <1>9 DEF NodesInv
    <2>3. QED
      BY <2>1, <2>2
  <1>10. QED
    BY <1>5, <1>7, <1>8, <1>9 DEF NodesInv

LEMMA NodesRegistrationFails ==
  ASSUME TypeInv, NodesInv, RegistrationFails
  PROVE  NodesInv'
  <1>1. creating \in Keys /\ devices[creating] = NoDevice
    BY DEF RegistrationFails, TypeInv, TypeOK, Progress
  <1>2. \A n \in NodeIds : nodes'[n] = IF nodes[n] # NoNode /\ nodes[n].owner = creating
                                       THEN [nodes[n] EXCEPT !.owner = Orphan]
                                       ELSE nodes[n]
    BY DEF RegistrationFails, Abandon
  <1>3. devices' = devices /\ phase' = "registering" /\ Registered' = Registered
    BY DEF RegistrationFails, Registered
  <1>4. ASSUME NEW k \in Registered, NEW i \in DOMAIN devices[k]
        PROVE  Made(devices[k], i, k)'
    <2>1. Made(devices[k], i, k) /\ devices[k][i].nodeId \in NodeIds /\ k # creating
      BY <1>1, RegisteredIsTags DEF NodesInv, Registered
    <2>2. QED
      BY <2>1, <1>2, <1>3 DEF Made
  <1>5. ASSUME NEW n \in NodeIds, nodes'[n] # NoNode, nodes'[n].owner # Orphan
        PROVE  nodes'[n].owner \in Registered /\ n \in TagIds(devices[nodes'[n].owner])
    <2>1. nodes[n] # NoNode /\ nodes[n].owner # creating /\ nodes'[n] = nodes[n]
      <3>1. CASE nodes[n] # NoNode /\ nodes[n].owner = creating
        <4>1. nodes[n] \in Node /\ nodes'[n] = [nodes[n] EXCEPT !.owner = Orphan]
          BY <3>1, <1>2 DEF TypeInv, TypeOK
        <4>2. nodes'[n].owner = Orphan
          BY <4>1 DEF Node
        <4>3. QED
          BY <4>2, <1>5
      <3>2. CASE ~(nodes[n] # NoNode /\ nodes[n].owner = creating)
        BY <3>2, <1>2, <1>5
      <3>3. QED
        BY <3>1, <3>2
    <2>2. QED
      BY <2>1, <1>5 DEF NodesInv
  <1>6. QED
    BY <1>3, <1>4, <1>5 DEF NodesInv

LEMMA NodesRegistrationDone ==
  ASSUME TypeInv, NodesInv, RegistrationDone
  PROVE  NodesInv'
  <1>1. /\ creating \in Keys /\ creating \in KeysOf(applied)
        /\ made = Len(applied[creating])
        /\ DOMAIN applied[creating] = 1..made
    <2>1. creating \in KeysOf(applied) /\ made \in 0..Len(applied[creating])
      BY DEF RegistrationDone, TypeInv, Progress
    <2>2. /\ Len(applied[creating]) \in Nat
          /\ DOMAIN applied[creating] = 1..Len(applied[creating])
      BY <2>1, DeviceIsTags DEF TypeInv, TypeOK
    <2>3. QED
      BY <2>1, <2>2 DEF RegistrationDone, TagsLeft, KeysOf
  <1>2. devices' = [devices EXCEPT ![creating] = applied[creating]]
    BY DEF RegistrationDone
  <1>3. /\ devices'[creating] = applied[creating]
        /\ \A k \in Keys \ {creating} : devices'[k] = devices[k]
        /\ Registered' = Registered \cup {creating}
    BY <1>1, <1>2 DEF TypeInv, TypeOK, Configuration, Registered, KeysOf
  <1>4. nodes' = nodes /\ phase = "creating" /\ phase' = "registering"
    BY DEF RegistrationDone
  <1>5. ASSUME NEW k \in Registered', NEW i \in DOMAIN devices'[k]
        PROVE  Made(devices'[k], i, k)
    <2>1. CASE k = creating
      BY <2>1, <1>1, <1>3, <1>4, <1>5 DEF NodesInv
    <2>2. CASE k # creating
      BY <2>2, <1>3, <1>5 DEF NodesInv, Registered
    <2>3. QED
      BY <2>1, <2>2
  <1>6. ASSUME NEW n \in NodeIds, nodes[n] # NoNode, nodes[n].owner # Orphan
        PROVE  nodes[n].owner \in Registered' /\ n \in TagIds(devices'[nodes[n].owner])
    <2>1. CASE /\ nodes[n].owner = creating
               /\ n \in {applied[creating][i].nodeId : i \in 1..made}
      BY <2>1, <1>1, <1>3 DEF TagIds
    <2>2. CASE nodes[n].owner \in Registered /\ n \in TagIds(devices[nodes[n].owner])
      <3>1. nodes[n].owner # creating
        BY <2>2 DEF Registered, TypeInv, Progress, RegistrationDone
      <3>2. QED
        BY <2>2, <3>1, <1>3 DEF Registered
    <2>3. QED
      BY <2>1, <2>2, <1>6 DEF NodesInv
  <1>7. QED
    BY <1>4, <1>5, <1>6 DEF NodesInv, Made

LEMMA NodesWriteTag ==
  ASSUME TypeInv, NodesInv, NEW n \in NodeIds, NEW v \in Values, WriteTag(n, v)
  PROVE  NodesInv'
  <1>1. nodes[n] \in Node /\ nodes' = [nodes EXCEPT ![n] = [@ EXCEPT !.value = v]]
    BY DEF WriteTag, TypeInv, TypeOK
  <1>2. nodes'[n] \in Node
    BY <1>1 DEF Node, TypeInv, TypeOK
  <1>3. \A m \in NodeIds : /\ nodes'[m] # NoNode <=> nodes[m] # NoNode
                           /\ nodes[m] # NoNode =>
                                /\ nodes'[m].owner = nodes[m].owner
                                /\ nodes'[m].type = nodes[m].type
    BY <1>1, <1>2, ConstantsAssumption DEF Node, TypeInv, TypeOK
  <1>4. /\ devices' = devices /\ phase' = phase /\ phase = "idle"
        /\ Registered' = Registered
    BY DEF WriteTag, Registered
  <1>5. \A k \in Registered : \A i \in DOMAIN devices[k] : devices[k][i].nodeId \in NodeIds
    BY RegisteredIsTags
  <1>6. QED
    BY <1>3, <1>4, <1>5 DEF NodesInv, Made

LEMMA NodesStep == TypeInv /\ NodesInv /\ [Next]_vars => NodesInv'
  <1> SUFFICES ASSUME TypeInv, NodesInv, [Next]_vars
               PROVE  NodesInv'
    OBVIOUS
  <1>1. ASSUME NEW config \in Configs, Load(config) \/ Reload(config)
        PROVE  NodesInv'
    BY <1>1 DEF NodesInv, Made, Load, Reload, registry, Registered
  <1>2. ASSUME NEW c \in ReadErrors, LoadNothing(c) \/ ReloadAborted(c)
        PROVE  NodesInv'
    BY <1>2 DEF NodesInv, Made, LoadNothing, ReloadAborted, registry, creation,
                Registered
  <1>3. ASSUME NEW k \in Keys, RemoveFails(k) \/ SkipRegistered(k)
        PROVE  NodesInv'
    BY <1>3 DEF NodesInv, Made, RemoveFails, SkipRegistered, registry, creation,
                Registered
  <1>4. ASSUME RemovalDone \/ RegisterAllDone
        PROVE  NodesInv'
    BY <1>4 DEF NodesInv, Made, RemovalDone, RegisterAllDone, registry, Registered
  <1>5. ASSUME NEW k \in Keys, CreateObject(k)
        PROVE  NodesInv'
    BY <1>5 DEF NodesInv, Made, CreateObject, registry, Registered
  <1>6. CASE UNCHANGED vars
    BY <1>6 DEF vars, NodesInv, Made, Registered
  <1>7. QED
    BY <1>1, <1>2, <1>3, <1>4, <1>5, <1>6, NodesRemove, NodesCreateTag,
       NodesRegistrationFails, NodesRegistrationDone, NodesWriteTag
       DEF Next, Continue

LEMMA NodesInvariant == Spec => []NodesInv
  BY NodesInit, NodesStep, TypeInvariant, PTL DEF Spec

(* A device that is listed has all its variables, whatever the files and   *)
(* whichever registrations and removals fail.                              *)
THEOREM RegisteredDevicesAreCompleteAlways == Spec => []RegisteredDevicesAreComplete
  <1>1. NodesInv => RegisteredDevicesAreComplete
    BY DEF NodesInv, Made, RegisteredDevicesAreComplete
  <1>2. QED
    BY <1>1, NodesInvariant, PTL

-----------------------------------------------------------------------------
(* The tag counters.                                                       *)

LEMMA NodesOfTypeFinite ==
  ASSUME NEW ty
  PROVE  IsFiniteSet(NodesOfType(ty)) /\ Cardinality(NodesOfType(ty)) \in Nat
  <1>1. NodesOfType(ty) \subseteq NodeIds
    BY DEF NodesOfType
  <1>2. QED
    BY <1>1, ConstantsAssumption, FS_Subset, FS_CardinalityType

(* A registered device has as many variables of a type as its config has   *)
(* tags of the type: the nodeIds of its tags differ.                       *)
LEMMA OwnedCount ==
  ASSUME TypeInv, NodesInv, NEW k \in Registered, NEW ty, phase # "creating"
  PROVE  LET owned == {n \in NodesOfType(ty) : nodes[n].owner = k}
         IN Cardinality(OfType(devices[k], ty)) = Cardinality(owned)
  <1> DEFINE tags == devices[k]
             owned == {n \in NodesOfType(ty) : nodes[n].owner = k}
             id == [i \in OfType(tags, ty) |-> tags[i].nodeId]
  <1>1. /\ tags \in DeviceConfig /\ tags \in Seq(TagConfig)
        /\ \A i \in DOMAIN tags : tags[i].nodeId \in NodeIds
        /\ k \in Keys
    BY RegisteredIsTags
  <1>2. IsFiniteSet(OfType(tags, ty))
    BY <1>1, OfTypeCount
  <1>3. \A i \in DOMAIN tags : Made(tags, i, k)
    BY DEF NodesInv
  <1>4. id \in [OfType(tags, ty) -> owned]
    BY <1>1, <1>3 DEF OfType, Made, NodesOfType
  <1>5. \A i, j \in OfType(tags, ty) : id[i] = id[j] => i = j
    BY <1>1 DEF OfType, DeviceConfig
  <1>6. \A n \in owned : \E i \in OfType(tags, ty) : id[i] = n
    <2> SUFFICES ASSUME NEW n \in owned
                 PROVE  \E i \in OfType(tags, ty) : id[i] = n
      OBVIOUS
    <2>1. /\ n \in NodeIds /\ nodes[n] # NoNode /\ nodes[n].type = ty
          /\ nodes[n].owner = k /\ nodes[n].owner # Orphan
      BY <1>1, ConstantsAssumption DEF NodesOfType
    <2>2. n \in TagIds(tags)
      BY <2>1 DEF NodesInv
    <2>3. PICK i \in DOMAIN tags : tags[i].nodeId = n
      BY <2>2 DEF TagIds
    <2>4. tags[i].type = ty
      BY <1>3, <2>1, <2>3 DEF Made
    <2>5. QED
      BY <2>3, <2>4 DEF OfType
  <1>7. ExistsBijection(OfType(tags, ty), owned)
    <2>1. id \in Bijection(OfType(tags, ty), owned)
      BY <1>4, <1>5, <1>6 DEF Bijection, Injection, Surjection, IsInjective
    <2>2. QED
      BY <2>1 DEF ExistsBijection
  <1>8. QED
    BY <1>2, <1>7, FS_Bijection

LEMMA CountRemove ==
  ASSUME TypeInv, NodesInv, TagCountMatchesAddressSpace,
         NEW k \in Keys, RemoveDevice(k)
  PROVE  TagCountMatchesAddressSpace'
  <1>1. k \in Registered /\ phase # "creating"
    BY DEF RemoveDevice, TypeInv, Progress
  <1>2. ASSUME NEW ty \in Types
        PROVE  tagCount'[ty] = Cardinality(NodesOfType(ty)')
    <2> DEFINE owned == {n \in NodesOfType(ty) : nodes[n].owner = k}
               removed == Cardinality(OfType(devices[k], ty))
    <2>1. IsFiniteSet(NodesOfType(ty)) /\ Cardinality(NodesOfType(ty)) \in Nat
      BY NodesOfTypeFinite
    <2>2. Cardinality(owned) = removed
      BY <1>1, OwnedCount
    <2>3. NodesOfType(ty)' = NodesOfType(ty) \ owned
      BY DEF RemoveDevice, DeleteNodesOf, NodesOfType
    <2>4. owned \in SUBSET NodesOfType(ty) /\ NodesOfType(ty) \cap owned = owned
      OBVIOUS
    <2>5. Cardinality(NodesOfType(ty)') = Cardinality(NodesOfType(ty)) - removed
      <3>1. Cardinality(NodesOfType(ty) \ owned)
              = Cardinality(NodesOfType(ty)) - Cardinality(NodesOfType(ty) \cap owned)
        BY <2>1, FS_Difference
      <3>2. QED
        BY <3>1, <2>2, <2>3, <2>4
    <2>6. IsFiniteSet(owned) /\ removed \in Nat /\ removed <= Cardinality(NodesOfType(ty))
      BY <2>1, <2>2, <2>4, FS_Subset, FS_CardinalityType
    <2>7. tagCount[ty] = Cardinality(NodesOfType(ty))
      BY DEF TagCountMatchesAddressSpace
    <2>8. tagCount'[ty] = IF removed > tagCount[ty] THEN 0 ELSE tagCount[ty] - removed
      BY DEF RemoveDevice, RecordTagsRemoved
    <2>9. QED
      BY <2>1, <2>5, <2>6, <2>7, <2>8
  <1>3. QED
    BY <1>2 DEF TagCountMatchesAddressSpace

LEMMA CountCreateTag ==
  ASSUME TypeInv, TagCountMatchesAddressSpace, CreateTag
  PROVE  TagCountMatchesAddressSpace'
  <1>1. /\ NextTag \in TagConfig /\ creating \in Keys
        /\ nodes[NextTag.nodeId] = NoNode
    BY NextTagType DEF CreateTag, CanAdd, KeysOf
  <1>2. NextTag.nodeId \in NodeIds /\ NextTag.type \in Types
    BY <1>1 DEF TagConfig
  <1>3. ASSUME NEW ty \in Types
        PROVE  tagCount'[ty] = Cardinality(NodesOfType(ty)')
    <2>1. IsFiniteSet(NodesOfType(ty)) /\ tagCount[ty] = Cardinality(NodesOfType(ty))
      BY NodesOfTypeFinite DEF TagCountMatchesAddressSpace
    <2>2. /\ nodes'[NextTag.nodeId] # NoNode
          /\ nodes'[NextTag.nodeId].type = NextTag.type
          /\ \A n \in NodeIds \ {NextTag.nodeId} : nodes'[n] = nodes[n]
      BY <1>1, <1>2, ConstantsAssumption DEF CreateTag, TypeInv, TypeOK, Node, TagConfig
    <2>3. CASE ty = NextTag.type
      <3>1. /\ NodesOfType(ty)' = NodesOfType(ty) \cup {NextTag.nodeId}
            /\ NextTag.nodeId \notin NodesOfType(ty)
        BY <2>2, <2>3, <1>1, <1>2 DEF NodesOfType
      <3>2. tagCount'[ty] = tagCount[ty] + 1
        BY <2>3 DEF CreateTag, TypeInv, TypeOK
      <3>3. QED
        BY <2>1, <3>1, <3>2, FS_AddElement
    <2>4. CASE ty # NextTag.type
      <3>1. NodesOfType(ty)' = NodesOfType(ty)
        BY <2>2, <2>4, <1>1, <1>2 DEF NodesOfType
      <3>2. tagCount'[ty] = tagCount[ty]
        BY <2>4 DEF CreateTag, TypeInv, TypeOK
      <3>3. QED
        BY <2>1, <3>1, <3>2
    <2>5. QED
      BY <2>3, <2>4
  <1>4. QED
    BY <1>3 DEF TagCountMatchesAddressSpace

(* A step that changes no node's presence or type, and no counter.         *)
LEMMA CountKept ==
  ASSUME TagCountMatchesAddressSpace, tagCount' = tagCount,
         \A n \in NodeIds : /\ nodes'[n] # NoNode <=> nodes[n] # NoNode
                            /\ nodes[n] # NoNode => nodes'[n].type = nodes[n].type
  PROVE  TagCountMatchesAddressSpace'
  <1>1. \A ty : NodesOfType(ty)' = NodesOfType(ty)
    BY DEF NodesOfType
  <1>2. QED
    BY <1>1 DEF TagCountMatchesAddressSpace

LEMMA CountRegistrationFails ==
  ASSUME TypeInv, TagCountMatchesAddressSpace, RegistrationFails
  PROVE  TagCountMatchesAddressSpace'
  <1>1. ASSUME NEW n \in NodeIds
        PROVE  /\ nodes'[n] # NoNode <=> nodes[n] # NoNode
               /\ nodes[n] # NoNode => nodes'[n].type = nodes[n].type
    <2>1. CASE nodes[n] # NoNode /\ nodes[n].owner = creating
      <3>1. nodes[n] \in Node /\ nodes'[n] = [nodes[n] EXCEPT !.owner = Orphan]
        BY <2>1 DEF RegistrationFails, Abandon, TypeInv, TypeOK
      <3>2. nodes'[n] \in Node /\ nodes'[n].type = nodes[n].type
        BY <3>1 DEF Node
      <3>3. QED
        BY <2>1, <3>2, ConstantsAssumption
    <2>2. CASE ~(nodes[n] # NoNode /\ nodes[n].owner = creating)
      BY <2>2 DEF RegistrationFails, Abandon
    <2>3. QED
      BY <2>1, <2>2
  <1>2. tagCount' = tagCount
    BY DEF RegistrationFails
  <1>3. QED
    BY <1>1, <1>2, CountKept

LEMMA CountWriteTag ==
  ASSUME TypeInv, TagCountMatchesAddressSpace,
         NEW m \in NodeIds, NEW v \in Values, WriteTag(m, v)
  PROVE  TagCountMatchesAddressSpace'
  <1>1. nodes[m] \in Node /\ nodes' = [nodes EXCEPT ![m] = [@ EXCEPT !.value = v]]
    BY DEF WriteTag, TypeInv, TypeOK
  <1>2. nodes'[m] \in Node /\ nodes'[m].type = nodes[m].type
    <2>1. nodes'[m] = [nodes[m] EXCEPT !.value = v]
      BY <1>1 DEF TypeInv, TypeOK
    <2>2. QED
      BY <1>1, <2>1 DEF Node
  <1>3. \A n \in NodeIds : /\ nodes'[n] # NoNode <=> nodes[n] # NoNode
                           /\ nodes[n] # NoNode => nodes'[n].type = nodes[n].type
    BY <1>1, <1>2, ConstantsAssumption DEF WriteTag, TypeInv, TypeOK
  <1>4. tagCount' = tagCount
    BY DEF WriteTag
  <1>5. QED
    BY <1>3, <1>4, CountKept

LEMMA CountInit == Init => TagCountMatchesAddressSpace
  <1> SUFFICES ASSUME Init, NEW ty \in Types
               PROVE  tagCount[ty] = Cardinality(NodesOfType(ty))
    BY DEF TagCountMatchesAddressSpace
  <1>1. NodesOfType(ty) = {} /\ tagCount[ty] = 0
    BY DEF Init, NodesOfType
  <1>2. QED
    BY <1>1, FS_EmptySet

LEMMA CountStep ==
  TypeInv /\ NodesInv /\ TagCountMatchesAddressSpace /\ [Next]_vars
    => TagCountMatchesAddressSpace'
  <1> SUFFICES ASSUME TypeInv, NodesInv, TagCountMatchesAddressSpace, [Next]_vars
               PROVE  TagCountMatchesAddressSpace'
    OBVIOUS
  <1>1. CASE nodes' = nodes /\ tagCount' = tagCount
    BY <1>1, CountKept
  <1>2. CASE \E k \in Keys : RemoveDevice(k)
    BY <1>2, CountRemove
  <1>3. CASE CreateTag
    BY <1>3, CountCreateTag
  <1>4. CASE RegistrationFails
    BY <1>4, CountRegistrationFails
  <1>5. CASE \E n \in NodeIds, v \in Values : WriteTag(n, v)
    BY <1>5, CountWriteTag
  <1>6. QED
    BY <1>1, <1>2, <1>3, <1>4, <1>5
       DEF Next, Continue, Load, Reload, LoadNothing, ReloadAborted, RemoveFails,
           RemovalDone, SkipRegistered, CreateObject, RegistrationDone,
           RegisterAllDone, registry, vars

(* The tag metrics count the variables of the address space, the ones left *)
(* behind by failed registrations included.                                *)
THEOREM TagCountMatchesAlways == Spec => []TagCountMatchesAddressSpace
  BY CountInit, CountStep, TypeInvariant, NodesInvariant, PTL DEF Spec

-----------------------------------------------------------------------------
(* The errors.                                                             *)

InError == {k \in Keys : deviceStatus[k] = "error"}

LEMMA InErrorFinite ==
  /\ IsFiniteSet(InError) /\ Cardinality(InError) \in Nat
  /\ Cardinality(InError) <= Cardinality(Keys) /\ Cardinality(Keys) \in Nat
  <1>1. InError \subseteq Keys
    BY DEF InError
  <1>2. QED
    BY <1>1, ConstantsAssumption, FS_Subset, FS_CardinalityType

(* A step after which no more devices are in error.                        *)
LEMMA FailuresKept ==
  ASSUME TypeInv, FailuresAreCounted, InError' \subseteq InError,
         errors' \in [Categories -> 0..MaxErrors],
         errors["DeviceError"] <= errors'["DeviceError"]
  PROVE  FailuresAreCounted'
  <1>1. IsFiniteSet(InError) /\ Cardinality(InError) \in Nat
    BY InErrorFinite
  <1>2. Cardinality(InError') \in Nat /\ Cardinality(InError') <= Cardinality(InError)
    BY <1>1, FS_Subset, FS_CardinalityType
  <1>3. Cardinality(InError) <= errors["DeviceError"]
    BY DEF FailuresAreCounted, InError
  <1>4. errors["DeviceError"] \in Nat /\ errors'["DeviceError"] \in Nat
    BY ConstantsAssumption DEF TypeInv, TypeOK, Categories
  <1>5. Cardinality(InError') <= errors'["DeviceError"]
    BY <1>1, <1>2, <1>3, <1>4
  <1>6. QED
    BY <1>5 DEF FailuresAreCounted, InError

LEMMA FailuresCount ==
  ASSUME TypeInv, FailuresAreCounted, RegistrationFails
  PROVE  FailuresAreCounted'
  <1>1. creating \in Keys
    BY DEF TypeInv, TypeOK, Progress, RegistrationFails
  <1>2. InError' = InError \cup {creating}
    BY <1>1 DEF RegistrationFails, RecordDeviceError, InError, TypeInv, TypeOK
  <1>3. IsFiniteSet(InError) /\ Cardinality(InError) \in Nat
    BY InErrorFinite
  <1>4. Cardinality(InError') <= Cardinality(InError) + 1
    <2>1. CASE creating \in InError
      <3>1. InError' = InError
        BY <1>2, <2>1
      <3>2. QED
        BY <1>3, <3>1
    <2>2. CASE creating \notin InError
      <3>1. Cardinality(InError \cup {creating}) = Cardinality(InError) + 1
        BY <1>3, <2>2, FS_AddElement
      <3>2. QED
        BY <1>2, <1>3, <3>1
    <2>3. QED
      BY <2>1, <2>2
  <1>5. /\ Cardinality(InError') \in Nat /\ Cardinality(InError') <= Cardinality(Keys)
        /\ Cardinality(Keys) \in Nat
    <2>1. InError' \subseteq Keys
      BY DEF InError
    <2>2. QED
      BY <2>1, ConstantsAssumption, FS_Subset, FS_CardinalityType
  <1>6. errors'["DeviceError"]
          = IF errors["DeviceError"] < MaxErrors THEN errors["DeviceError"] + 1
            ELSE errors["DeviceError"]
    BY DEF RegistrationFails, RecordDeviceError, RecordError, TypeInv, TypeOK, Categories
  <1>7. errors["DeviceError"] \in 0..MaxErrors /\ MaxErrors >= Cardinality(Keys)
          /\ MaxErrors \in Nat
    BY ConstantsAssumption DEF TypeInv, TypeOK, Categories
  <1>8. Cardinality(InError) <= errors["DeviceError"]
    BY DEF FailuresAreCounted, InError
  <1>9. Cardinality(InError') <= errors'["DeviceError"]
    BY <1>3, <1>4, <1>5, <1>6, <1>7, <1>8
  <1>10. QED
    BY <1>9 DEF FailuresAreCounted, InError

LEMMA FailuresInit == Init => FailuresAreCounted
  <1> SUFFICES ASSUME Init PROVE FailuresAreCounted
    OBVIOUS
  <1>1. InError = {} /\ errors["DeviceError"] = 0
    BY DEF Init, InError, Categories
  <1>2. QED
    BY <1>1, FS_EmptySet DEF FailuresAreCounted, InError

LEMMA FailuresStep ==
  TypeInv /\ TypeInv' /\ FailuresAreCounted /\ [Next]_vars => FailuresAreCounted'
  <1> SUFFICES ASSUME TypeInv, TypeInv', FailuresAreCounted, [Next]_vars
               PROVE  FailuresAreCounted'
    OBVIOUS
  <1>1. errors \in [Categories -> 0..MaxErrors] /\ errors' \in [Categories -> 0..MaxErrors]
    BY DEF TypeInv, TypeOK
  <1>2. errors["DeviceError"] \in Int
    BY <1>1, ConstantsAssumption DEF Categories
  <1>3. ASSUME NEW k \in Keys, RemoveDevice(k)
        PROVE  InError' \subseteq InError /\ errors' = errors
    BY <1>3 DEF RemoveDevice, RecordDeviceRemoved, InError, TypeInv, TypeOK
  <1>4. ASSUME RegistrationDone
        PROVE  InError' \subseteq InError /\ errors' = errors
    BY <1>4 DEF RegistrationDone, InError, TypeInv, TypeOK
  <1>5. ASSUME NEW c \in ReadErrors, LoadNothing(c) \/ ReloadAborted(c)
        PROVE  InError' = InError /\ errors'["DeviceError"] = errors["DeviceError"]
    BY <1>1, <1>5 DEF LoadNothing, ReloadAborted, RecordError, ReadErrors, registry, InError,
                      Categories
  <1>6. CASE UNCHANGED <<deviceStatus, errors>>
    BY <1>1, <1>2, <1>6, FailuresKept DEF InError
  <1>7. QED
    BY <1>1, <1>2, <1>3, <1>4, <1>5, <1>6, FailuresKept, FailuresCount
       DEF Next, Continue, Load, Reload, RemoveFails, RemovalDone, SkipRegistered,
           CreateObject, CreateTag, RegisterAllDone, WriteTag, registry, vars

(* Every device the metrics show in error was counted as a DeviceError.    *)
THEOREM FailuresAreCountedAlways == Spec => []FailuresAreCounted
  BY FailuresInit, FailuresStep, TypeInvariant, PTL DEF Spec

-----------------------------------------------------------------------------
(* The tag runtime.                                                        *)

(* If the entry of n is k's, it answers what is read from n.               *)
AnswersWhatIsRead(n, k) ==
  runtime[n] # NoTag /\ runtime[n].device = k => runtime[n].value = nodes[n].value

(* An entry is of a device that is registered, in error or being created,  *)
(* and has a name.  A variable knows its device by the key of the device.  *)
KnownDevices ==
  /\ \A n \in NodeIds : runtime[n] # NoTag =>
       /\ runtime[n].device # Unnamed
       /\ \/ runtime[n].device \in Registered
          \/ deviceStatus[runtime[n].device] = "error"
          \/ phase = "creating" /\ runtime[n].device = creating
  /\ \A n \in NodeIds :
       nodes[n] # NoNode /\ nodes[n].owner # Orphan => nodes[n].key = nodes[n].owner

(* What is registered answers, and so far what is being created.           *)
OwnAnswers ==
  /\ \A k \in Registered : \A i \in DOMAIN devices[k] :
       AnswersWhatIsRead(devices[k][i].nodeId, k)
  /\ phase = "creating" =>
       \A i \in 1..made : AnswersWhatIsRead(applied[creating][i].nodeId, creating)

EntriesInv == KnownDevices /\ OwnAnswers

LEMMA EntriesInit == Init => EntriesInv
  BY DEF Init, EntriesInv, KnownDevices, OwnAnswers, NoDevices, Registered

LEMMA EntriesRemove ==
  ASSUME TypeInv, NodesInv, EntriesInv, NEW k \in Keys, RemoveDevice(k)
  PROVE  EntriesInv'
  <1>1. /\ Registered' = Registered \ {k} /\ \A l \in Keys \ {k} : devices'[l] = devices[l]
        /\ phase = "removing" /\ phase' = "removing"
    BY DEF TypeInv, TypeOK, RemoveDevice, Registered, Configuration
  <1>2. \A n \in NodeIds :
          /\ nodes'[n] = IF nodes[n] # NoNode /\ nodes[n].owner = k THEN NoNode ELSE nodes[n]
          /\ runtime'[n] = IF runtime[n] # NoTag /\ runtime[n].device = k THEN NoTag
                           ELSE runtime[n]
    BY DEF RemoveDevice, DeleteNodesOf, UnregisterDevice
  <1>3. \A l \in Keys \ {k} : deviceStatus'[l] = deviceStatus[l]
    BY DEF RemoveDevice, RecordDeviceRemoved, TypeInv, TypeOK
  <1>4. KnownDevices'
    <2>1. ASSUME NEW n \in NodeIds, runtime'[n] # NoTag
          PROVE  /\ runtime'[n].device # Unnamed
                 /\ \/ runtime'[n].device \in Registered'
                    \/ deviceStatus'[runtime'[n].device] = "error"
      <3>1. /\ runtime'[n] = runtime[n] /\ runtime[n] # NoTag /\ runtime[n].device # k
            /\ runtime[n].device \in Keys
        BY <1>2, <2>1 DEF TypeInv, TypeOK, Entry
      <3>2. QED
        BY <1>1, <1>3, <3>1 DEF EntriesInv, KnownDevices
    <2>2. QED
      BY <1>2, <2>1 DEF EntriesInv, KnownDevices
  <1>5. ASSUME NEW l \in Registered', NEW i \in DOMAIN devices'[l]
        PROVE  AnswersWhatIsRead(devices[l][i].nodeId, l)' /\ devices'[l] = devices[l]
    <2> DEFINE n == devices[l][i].nodeId
    <2>1. l \in Registered /\ l # k /\ l \in Keys /\ devices'[l] = devices[l]
      BY <1>1 DEF Registered
    <2>2. n \in NodeIds /\ nodes[n] # NoNode /\ nodes[n].owner = l
      BY <2>1, <1>5, RegisteredIsTags DEF NodesInv, Made
    <2>3. AnswersWhatIsRead(n, l)
      BY <2>1, <1>5 DEF EntriesInv, OwnAnswers
    <2>4. QED
      BY <1>2, <2>1, <2>2, <2>3 DEF AnswersWhatIsRead
  <1>6. OwnAnswers'
    BY <1>1, <1>5 DEF OwnAnswers, AnswersWhatIsRead
  <1>7. QED
    BY <1>4, <1>6 DEF EntriesInv

(* The entry that createDevice writes for a tag, if any.                   *)
LEMMA EntryWritten ==
  ASSUME TypeInv, phase = "creating", TagsLeft, RegisterTag(NextTag)
  PROVE  /\ NextTag.nodeId \in NodeIds /\ NextTag.value \in Values
         /\ creating \in Keys /\ creating \in KeysOf(applied)
         /\ \A n \in NodeIds \ {NextTag.nodeId} : runtime'[n] = runtime[n]
         /\ creating = Unnamed => runtime' = runtime
         /\ creating # Unnamed =>
              runtime'[NextTag.nodeId] = [device |-> creating, value |-> NextTag.value]
  <1>1. NextTag \in TagConfig /\ creating \in KeysOf(applied)
    BY NextTagType
  <1>2. QED
    BY <1>1 DEF TagConfig, KeysOf, RegisterTag, TypeInv, TypeOK

LEMMA EntriesCreateTag ==
  ASSUME TypeInv, NodesInv, EntriesInv, CreateTag
  PROVE  EntriesInv'
  <1> DEFINE m == NextTag.nodeId
             new == [owner |-> creating, key |-> creating, type |-> NextTag.type,
                     value |-> NextTag.value]
  <1>1. /\ m \in NodeIds /\ creating \in Keys /\ nodes[m] = NoNode /\ creating # Orphan
        /\ \A n \in NodeIds \ {m} : runtime'[n] = runtime[n]
        /\ creating = Unnamed => runtime' = runtime
        /\ creating # Unnamed => runtime'[m] = [device |-> creating, value |-> NextTag.value]
    BY EntryWritten, ConstantsAssumption DEF CreateTag, CanAdd
  <1>2. nodes'[m] = new /\ \A n \in NodeIds \ {m} : nodes'[n] = nodes[n]
    BY <1>1 DEF CreateTag, TypeInv, TypeOK
  <1>3. /\ phase = "creating" /\ phase' = "creating" /\ made' = made + 1 /\ made \in Nat
        /\ UNCHANGED <<devices, deviceStatus, applied, creating>> /\ Registered' = Registered
        /\ devices[creating] = NoDevice
    BY DEF CreateTag, Registered, TypeInv, TypeOK, Progress
  <1>4. KnownDevices'
    BY <1>1, <1>2, <1>3 DEF EntriesInv, KnownDevices
  <1>5. ASSUME NEW k \in Registered, NEW i \in DOMAIN devices[k]
        PROVE  AnswersWhatIsRead(devices[k][i].nodeId, k)'
    <2>1. devices[k][i].nodeId \in NodeIds /\ devices[k][i].nodeId # m
      BY <1>1, RegisteredIsTags DEF NodesInv, Made
    <2>2. AnswersWhatIsRead(devices[k][i].nodeId, k)
      BY DEF EntriesInv, OwnAnswers
    <2>3. QED
      BY <1>1, <1>2, <1>3, <2>1, <2>2 DEF AnswersWhatIsRead
  <1>6. ASSUME NEW i \in 1..made'
        PROVE  AnswersWhatIsRead(applied[creating][i].nodeId, creating)'
    <2>1. CASE i = made + 1
      <3>1. applied[creating][i].nodeId = m
        BY <2>1 DEF NextTag
      <3>2. creating = Unnamed => runtime[m] = NoTag \/ runtime[m].device # creating
        BY <1>1 DEF EntriesInv, KnownDevices
      <3>3. QED
        BY <1>1, <1>2, <1>3, <3>1, <3>2 DEF AnswersWhatIsRead
    <2>2. CASE i \in 1..made
      <3>1. /\ AnswersWhatIsRead(applied[creating][i].nodeId, creating)
            /\ Made(applied[creating], i, creating)
        BY <1>3, <2>2 DEF EntriesInv, OwnAnswers, NodesInv
      <3>2. applied[creating][i].nodeId \in NodeIds
        <4>1. creating \in KeysOf(applied) /\ made \in 0..Len(applied[creating])
          BY <1>3 DEF TypeInv, Progress
        <4>2. applied[creating] \in Seq(TagConfig) /\ Len(applied[creating]) \in Nat
          BY <4>1, DeviceIsTags DEF TypeInv, TypeOK
        <4>3. applied[creating][i] \in TagConfig
          BY <4>1, <4>2, <2>2
        <4>4. QED
          BY <4>3 DEF TagConfig
      <3>3. applied[creating][i].nodeId # m
        BY <1>1, <3>1 DEF Made
      <3>4. QED
        BY <1>1, <1>2, <1>3, <3>1, <3>2, <3>3 DEF AnswersWhatIsRead
    <2>3. QED
      BY <1>3, <2>1, <2>2
  <1>7. OwnAnswers'
    BY <1>3, <1>5, <1>6 DEF OwnAnswers, AnswersWhatIsRead
  <1>8. QED
    BY <1>4, <1>7 DEF EntriesInv

LEMMA EntriesRegistrationFails ==
  ASSUME TypeInv, NodesInv, EntriesInv, RegistrationFails
  PROVE  EntriesInv'
  <1> DEFINE m == NextTag.nodeId
  <1>1. /\ m \in NodeIds /\ creating \in Keys
        /\ \A n \in NodeIds \ {m} : runtime'[n] = runtime[n]
        /\ creating = Unnamed => runtime' = runtime
        /\ creating # Unnamed => runtime'[m] = [device |-> creating, value |-> NextTag.value]
    BY EntryWritten DEF RegistrationFails
  <1>2. /\ deviceStatus' = [deviceStatus EXCEPT ![creating] = "error"]
        /\ devices' = devices /\ phase' = "registering" /\ Registered' = Registered
        /\ devices[creating] = NoDevice
    BY DEF RegistrationFails, RecordDeviceError, Registered, TypeInv, Progress
  <1>3. ASSUME NEW n \in NodeIds
        PROVE  \/ nodes'[n] = nodes[n]
               \/ nodes[n] # NoNode /\ nodes[n].owner = creating /\ nodes'[n].owner = Orphan
    <2>1. CASE nodes[n] # NoNode /\ nodes[n].owner = creating
      <3>1. nodes[n] \in Node /\ nodes'[n] = [nodes[n] EXCEPT !.owner = Orphan]
        BY <2>1 DEF RegistrationFails, Abandon, TypeInv, TypeOK
      <3>2. QED
        BY <2>1, <3>1 DEF Node
    <2>2. CASE ~(nodes[n] # NoNode /\ nodes[n].owner = creating)
      BY <2>2 DEF RegistrationFails, Abandon
    <2>3. QED
      BY <2>1, <2>2
  <1>4. KnownDevices'
    <2>1. ASSUME NEW n \in NodeIds, runtime'[n] # NoTag
          PROVE  /\ runtime'[n].device # Unnamed
                 /\ \/ runtime'[n].device \in Registered'
                    \/ deviceStatus'[runtime'[n].device] = "error"
      <3>1. CASE n = m /\ creating # Unnamed
        BY <1>1, <1>2, <3>1 DEF TypeInv, TypeOK
      <3>2. CASE n # m \/ creating = Unnamed
        <4>1. runtime'[n] = runtime[n] /\ runtime[n].device \in Keys
          BY <1>1, <2>1, <3>2 DEF TypeInv, TypeOK, Entry
        <4>2. QED
          BY <1>1, <1>2, <2>1, <4>1 DEF EntriesInv, KnownDevices, TypeInv, TypeOK
      <3>3. QED
        BY <3>1, <3>2
    <2>2. QED
      BY <1>3, <2>1 DEF EntriesInv, KnownDevices
  <1>5. ASSUME NEW k \in Registered, NEW i \in DOMAIN devices[k]
        PROVE  AnswersWhatIsRead(devices[k][i].nodeId, k)'
    <2> DEFINE n == devices[k][i].nodeId
    <2>1. n \in NodeIds /\ nodes[n] # NoNode /\ nodes[n].owner = k /\ k # creating
      BY <1>2, RegisteredIsTags DEF NodesInv, Made, Registered
    <2>2. nodes'[n] = nodes[n]
      BY <1>3, <2>1
    <2>3. AnswersWhatIsRead(n, k)
      BY DEF EntriesInv, OwnAnswers
    <2>4. CASE n = m /\ creating # Unnamed
      BY <1>1, <1>2, <2>1, <2>4 DEF AnswersWhatIsRead
    <2>5. CASE n # m \/ creating = Unnamed
      BY <1>1, <1>2, <2>1, <2>2, <2>3, <2>5 DEF AnswersWhatIsRead
    <2>6. QED
      BY <2>4, <2>5
  <1>6. QED
    BY <1>2, <1>4, <1>5 DEF EntriesInv, OwnAnswers, AnswersWhatIsRead

LEMMA EntriesRegistrationDone ==
  ASSUME TypeInv, EntriesInv, RegistrationDone
  PROVE  EntriesInv'
  <1>1. /\ creating \in Keys /\ creating \in KeysOf(applied)
        /\ made = Len(applied[creating])
        /\ DOMAIN applied[creating] = 1..made
    <2>1. creating \in KeysOf(applied) /\ made \in 0..Len(applied[creating])
      BY DEF RegistrationDone, TypeInv, Progress
    <2>2. /\ Len(applied[creating]) \in Nat
          /\ DOMAIN applied[creating] = 1..Len(applied[creating])
      BY <2>1, DeviceIsTags DEF TypeInv, TypeOK
    <2>3. QED
      BY <2>1, <2>2 DEF RegistrationDone, TagsLeft, KeysOf
  <1>2. /\ devices'[creating] = applied[creating]
        /\ \A k \in Keys \ {creating} : devices'[k] = devices[k]
        /\ Registered' = Registered \cup {creating}
    BY <1>1 DEF RegistrationDone, TypeInv, TypeOK, Configuration, Registered, KeysOf
  <1>3. /\ UNCHANGED <<nodes, runtime>> /\ phase = "creating" /\ phase' = "registering"
        /\ \A k \in Keys \ {creating} : deviceStatus'[k] = deviceStatus[k]
    BY DEF RegistrationDone, TypeInv, TypeOK
  <1>4. KnownDevices'
    <2>1. \A n \in NodeIds : runtime[n] # NoTag => runtime[n].device \in Keys
      BY DEF TypeInv, TypeOK, Entry
    <2>2. QED
      BY <1>2, <1>3, <2>1 DEF EntriesInv, KnownDevices
  <1>5. ASSUME NEW k \in Registered', NEW i \in DOMAIN devices'[k]
        PROVE  AnswersWhatIsRead(devices'[k][i].nodeId, k)
    <2>1. CASE k = creating
      BY <1>1, <1>2, <1>3, <1>5, <2>1 DEF EntriesInv, OwnAnswers
    <2>2. CASE k # creating
      BY <1>2, <1>5, <2>2 DEF EntriesInv, OwnAnswers, Registered
    <2>3. QED
      BY <2>1, <2>2
  <1>6. QED
    BY <1>3, <1>4, <1>5 DEF EntriesInv, OwnAnswers, AnswersWhatIsRead

LEMMA EntriesWriteTag ==
  ASSUME TypeInv, NodesInv, EntriesInv, NEW m \in NodeIds, NEW v \in Values, WriteTag(m, v)
  PROVE  EntriesInv'
  <1>1. /\ nodes[m] \in Node /\ nodes'[m] = [nodes[m] EXCEPT !.value = v]
        /\ \A n \in NodeIds \ {m} : nodes'[n] = nodes[n] /\ runtime'[n] = runtime[n]
        /\ phase = "idle" /\ phase' = "idle" /\ Registered' = Registered
        /\ UNCHANGED <<devices, deviceStatus>>
    BY DEF WriteTag, TypeInv, TypeOK, Registered
  <1>2. /\ nodes'[m].owner = nodes[m].owner /\ nodes'[m].key = nodes[m].key
        /\ nodes'[m].value = v
    BY <1>1 DEF Node
  <1>3. CASE nodes[m].key # Unnamed /\ runtime[m] # NoTag
    <2>1. runtime[m] \in Entry /\ runtime'[m] = [runtime[m] EXCEPT !.value = v]
      BY <1>3 DEF WriteTag, TypeInv, TypeOK
    <2>2. runtime'[m].device = runtime[m].device /\ runtime'[m].value = v
      BY <2>1 DEF Entry
    <2>3. KnownDevices'
      BY <1>1, <1>2, <1>3, <2>2 DEF EntriesInv, KnownDevices, WriteTag
    <2>4. \A n \in NodeIds, k \in Keys : AnswersWhatIsRead(n, k) => AnswersWhatIsRead(n, k)'
      BY <1>1, <1>2, <2>2 DEF AnswersWhatIsRead
    <2>5. QED
      BY <1>1, <2>3, <2>4, RegisteredIsTags DEF EntriesInv, OwnAnswers, AnswersWhatIsRead
  <1>4. CASE nodes[m].key = Unnamed \/ runtime[m] = NoTag
    <2>1. runtime' = runtime
      BY <1>4 DEF WriteTag
    <2>2. KnownDevices'
      BY <1>1, <1>2, <2>1 DEF EntriesInv, KnownDevices, WriteTag
    <2>3. ASSUME NEW k \in Registered, NEW i \in DOMAIN devices[k]
          PROVE  AnswersWhatIsRead(devices[k][i].nodeId, k)'
      <3> DEFINE n == devices[k][i].nodeId
      <3>1. /\ n \in NodeIds /\ nodes[n] # NoNode /\ nodes[n].owner = k
            /\ k \in Keys /\ k # Orphan
        BY RegisteredIsTags, ConstantsAssumption DEF NodesInv, Made
      <3>2. nodes[n].key = k
        BY <3>1 DEF EntriesInv, KnownDevices
      <3>3. AnswersWhatIsRead(n, k)
        BY DEF EntriesInv, OwnAnswers
      <3>4. CASE n = m
        <4>1. runtime[m] = NoTag \/ runtime[m].device # k
          BY <1>4, <3>2, <3>4 DEF EntriesInv, KnownDevices
        <4>2. QED
          BY <1>1, <2>1, <3>4, <4>1 DEF AnswersWhatIsRead
      <3>5. CASE n # m
        BY <1>1, <2>1, <3>1, <3>3, <3>5 DEF AnswersWhatIsRead
      <3>6. QED
        BY <3>4, <3>5
    <2>4. QED
      BY <1>1, <2>2, <2>3 DEF EntriesInv, OwnAnswers, AnswersWhatIsRead
  <1>5. QED
    BY <1>3, <1>4

(* The other steps write neither nodes nor entries.                        *)
LEMMA EntriesKept ==
  ASSUME EntriesInv, UNCHANGED <<devices, nodes, runtime, deviceStatus>>,
         phase # "creating", phase' = "creating" => made' = 0
  PROVE  EntriesInv'
  BY DEF EntriesInv, KnownDevices, OwnAnswers, AnswersWhatIsRead, Registered

LEMMA EntriesStep == TypeInv /\ NodesInv /\ EntriesInv /\ [Next]_vars => EntriesInv'
  <1> SUFFICES ASSUME TypeInv, NodesInv, EntriesInv, [Next]_vars
               PROVE  EntriesInv'
    OBVIOUS
  <1>1. ASSUME NEW c \in Configs, Load(c) \/ Reload(c)
        PROVE  EntriesInv'
    BY <1>1, EntriesKept DEF Load, Reload, registry
  <1>2. ASSUME NEW e \in ReadErrors, LoadNothing(e) \/ ReloadAborted(e)
        PROVE  EntriesInv'
    BY <1>2, EntriesKept DEF LoadNothing, ReloadAborted, registry
  <1>3. ASSUME NEW k \in Keys, RemoveFails(k) \/ SkipRegistered(k) \/ CreateObject(k)
        PROVE  EntriesInv'
    BY <1>3, EntriesKept DEF RemoveFails, SkipRegistered, CreateObject, registry
  <1>4. CASE RemovalDone \/ RegisterAllDone
    BY <1>4, EntriesKept DEF RemovalDone, RegisterAllDone, registry
  <1>5. CASE UNCHANGED vars
    BY <1>5 DEF vars, EntriesInv, KnownDevices, OwnAnswers, AnswersWhatIsRead, Registered
  <1>6. QED
    BY <1>1, <1>2, <1>3, <1>4, <1>5, EntriesRemove, EntriesCreateTag,
       EntriesRegistrationFails, EntriesRegistrationDone, EntriesWriteTag
       DEF Next, Continue

LEMMA EntriesInvariant == Spec => []EntriesInv
  BY EntriesInit, EntriesStep, TypeInvariant, NodesInvariant, PTL DEF Spec

(* However registrations overwrite each other's entries and fail, what the *)
(* tag runtime holds is of devices that are registered or in error, and a  *)
(* registered device's own entries hold what its variables hold.           *)
THEOREM OnlyKnownDevicesAnswerAlways == Spec => []OnlyKnownDevicesAnswer
  <1>1. EntriesInv => OnlyKnownDevicesAnswer
    <2> SUFFICES ASSUME EntriesInv, Idle, NEW n \in NodeIds, runtime[n] # NoTag
                 PROVE  LET k == runtime[n].device IN
                        /\ k \in Registered \/ deviceStatus[k] = "error"
                        /\ k \in Registered /\ n \in TagIds(devices[k]) =>
                             runtime[n].value = nodes[n].value
      BY DEF OnlyKnownDevicesAnswer
    <2>1. runtime[n].device \in Registered \/ deviceStatus[runtime[n].device] = "error"
      BY DEF EntriesInv, KnownDevices, Idle
    <2>2. ASSUME runtime[n].device \in Registered, n \in TagIds(devices[runtime[n].device])
          PROVE  runtime[n].value = nodes[n].value
      <3>1. PICK i \in DOMAIN devices[runtime[n].device] :
                   devices[runtime[n].device][i].nodeId = n
        BY <2>2 DEF TagIds
      <3>2. QED
        BY <2>2, <3>1 DEF EntriesInv, OwnAnswers, AnswersWhatIsRead
    <2>3. QED
      BY <2>1, <2>2
  <1>2. QED
    BY <1>1, EntriesInvariant, PTL

=============================================================================
