--------------------------- MODULE DeviceManager ---------------------------
(***************************************************************************)
(* The device registry of src/devices/device-manager.ts with the code it   *)
(* calls on the way: createDevice (device-factory.ts), createTag and       *)
(* addPrimitiveTag (tags/), TagRuntime, the device and tag counters of     *)
(* MetricsService, and the address space of node-opcua as this code uses   *)
(* it (external).                                                          *)
(*                                                                         *)
(* load() and reload() run to completion on the event loop.  The model     *)
(* takes them one device and one tag at a time: phase says where the       *)
(* running call is, and the event loop is free exactly when phase = "idle", *)
(* so clients write tags and reloads begin only then.                      *)
(*                                                                         *)
(* The devices of a file are registered in any order: the code uses the    *)
(* order of the file's keys, and every order is some file's.               *)
(***************************************************************************)
EXTENDS DeviceConfigs

CONSTANTS
  Configs,        \* the contents devices.json may have when it is valid
  Unnamed,        \* the key "", which the schema does not exclude
  Rejected,       \* the nodeIds that addVariable refuses whatever it holds
  DeleteMayFail,  \* whether addressSpace.deleteNode may throw
  MaxErrors,      \* bound: an error counter stays at MaxErrors once there
  NoNode,         \* no node under a nodeId
  NoTag,          \* no entry of the tag runtime under a nodeId
  NoKey,          \* no device is being created
  Orphan          \* the owner of the nodes whose device failed to register

VARIABLES
  devices,        \* DeviceManager.devices: key -> the config registered
  nodes,          \* the variables of the address space, by nodeId
  runtime,        \* TagRuntime.tags, by nodeId
  deviceStatus,   \* MetricsService.devices: key -> status
  tagCount,       \* MetricsService.tagCountsByType
  errors,         \* MetricsService.errorCountsByCategory
  applied,        \* the last configuration load() or reload() went on with
  phase,          \* where the running load() or reload() is
  todo,           \* the keys its loop has still to visit
  creating,       \* the key createDevice is at work for
  made            \* how many of its tags createDevice has made

vars == <<devices, nodes, runtime, deviceStatus, tagCount, errors, applied,
          phase, todo, creating, made>>

-----------------------------------------------------------------------------
Categories == {"ConfigurationError", "ValidationError", "DeviceError"}

(* The categories of the errors a refused file is recorded under: missing  *)
(* or unreadable, and malformed or refused by the schema.                  *)
ReadErrors == {"ConfigurationError", "ValidationError"}

(* A variable, with the deviceKey that the closures of its value hold.     *)
Node == [owner : Keys \cup {Orphan}, key : Keys, type : Types, value : Values]

Entry == [device : Keys, value : Values]

ASSUME ConstantsAssumption ==
  /\ IsFiniteSet(Keys) /\ IsFiniteSet(NodeIds)
  /\ Configs \subseteq Configuration
  /\ Rejected \subseteq NodeIds
  /\ DeleteMayFail \in BOOLEAN
  /\ MaxErrors \in Nat /\ MaxErrors >= Cardinality(Keys)
  /\ NoNode \notin Node
  /\ NoTag \notin Entry \cup Values
  /\ NoKey \notin Keys
  /\ Orphan \notin Keys

-----------------------------------------------------------------------------
Registered == {k \in Keys : devices[k] # NoDevice}

OfType(tags, ty) == {i \in DOMAIN tags : tags[i].type = ty}

Init ==
  /\ devices = NoDevices
  /\ nodes = [n \in NodeIds |-> NoNode]
  /\ runtime = [n \in NodeIds |-> NoTag]
  /\ deviceStatus = [k \in Keys |-> "absent"]
  /\ tagCount = [ty \in Types |-> 0]
  /\ errors = [c \in Categories |-> 0]
  /\ applied = NoDevices
  /\ phase = "boot"
  /\ todo = {}
  /\ creating = NoKey
  /\ made = 0

registry == <<devices, nodes, runtime, deviceStatus, tagCount>>
creation == <<creating, made>>

RecordError(category) ==
  errors' = [errors EXCEPT ![category] = IF @ < MaxErrors THEN @ + 1 ELSE @]

-----------------------------------------------------------------------------
(* load(), called once by buildAddressSpace().                             *)
Load(config) ==
  /\ phase = "boot"
  /\ phase' = "registering"
  /\ applied' = config
  /\ todo' = KeysOf(config)
  /\ UNCHANGED <<registry, errors, creation>>

(* load() when readDevicesConfig() returned null: nothing to register.     *)
LoadNothing(category) ==
  /\ phase = "boot"
  /\ phase' = "idle"
  /\ RecordError(category)
  /\ UNCHANGED <<registry, applied, todo, creation>>

(* Mutation: only the devices the new file drops are removed.              *)
ReloadKeepingKnown(config) ==
  /\ phase = "idle"
  /\ phase' = "removing"
  /\ applied' = config
  /\ todo' = Registered \ KeysOf(config)
  /\ UNCHANGED <<registry, errors, creation>>

(* reload() up to its first loop, and its early return on a refused file.  *)
Reload(config) ==
  /\ phase = "idle"
  /\ phase' = "removing"
  /\ applied' = config
  /\ todo' = Registered
  /\ UNCHANGED <<registry, errors, creation>>

ReloadAborted(category) ==
  /\ phase = "idle"
  /\ RecordError(category)
  /\ UNCHANGED <<registry, applied, phase, todo, creation>>

-----------------------------------------------------------------------------
(* addressSpace.deleteNode: the object goes with its variables.            *)
DeleteNodesOf(k) ==
  nodes' = [n \in NodeIds |->
              IF nodes[n] # NoNode /\ nodes[n].owner = k
              THEN NoNode ELSE nodes[n]]

(* Mutation: remove() forgets the runtime.                                 *)
KeepTags(k) == UNCHANGED runtime

(* Mutation: only the tags of the configuration are unregistered.          *)
UnregisterConfigured(k) ==
  runtime' = [n \in NodeIds |->
                IF runtime[n] # NoTag /\ runtime[n].device = k /\ n \in TagIds(devices[k])
                THEN NoTag ELSE runtime[n]]

(* TagRuntime.unregisterDevice: by the entry's device, whatever its node.  *)
UnregisterDevice(k) ==
  runtime' = [n \in NodeIds |->
                IF runtime[n] # NoTag /\ runtime[n].device = k
                THEN NoTag ELSE runtime[n]]

(* Two mutations: one tag is counted down for the whole device, and every  *)
(* tag is counted down under every type, below zero.                       *)
RecordOneTagRemoved(tags) ==
  tagCount' = [tagCount EXCEPT ![tags[1].type] = @ - 1]

RecordRemovedAsEveryType(tags) ==
  tagCount' = [ty \in Types |-> tagCount[ty] - Len(tags)]

(* recordTagRemoved, once for every tag of the removed config.             *)
RecordTagsRemoved(tags) ==
  tagCount' = [ty \in Types |->
                 LET removed == Cardinality(OfType(tags, ty))
                 IN IF removed > tagCount[ty] THEN 0 ELSE tagCount[ty] - removed]

(* Mutation: MetricsService is not told of the removal.                    *)
KeepStatus(k) == UNCHANGED deviceStatus

RecordDeviceRemoved(k) ==
  deviceStatus' = [deviceStatus EXCEPT ![k] = "absent"]

(* remove(key), as reload() calls it.                                      *)
RemoveDevice(k) ==
  /\ phase = "removing"
  /\ k \in todo
  /\ todo' = todo \ {k}
  /\ DeleteNodesOf(k)
  /\ devices' = [devices EXCEPT ![k] = NoDevice]
  /\ RecordDeviceRemoved(k)
  /\ UnregisterDevice(k)
  /\ RecordTagsRemoved(devices[k])
  /\ UNCHANGED <<errors, applied, phase, creation>>

(* remove(key) when deleteNode throws: the device stays as it is, and      *)
(* reload() does not look at the FALSE it returns.                         *)
RemoveFails(k) ==
  /\ DeleteMayFail
  /\ phase = "removing"
  /\ k \in todo
  /\ todo' = todo \ {k}
  /\ UNCHANGED <<registry, errors, applied, phase, creation>>

RemovalDone ==
  /\ phase = "removing"
  /\ todo = {}
  /\ phase' = "registering"
  /\ todo' = KeysOf(applied)
  /\ UNCHANGED <<registry, errors, applied, creation>>

-----------------------------------------------------------------------------
(* register(key, config) of a key that is still registered.                *)
SkipRegistered(k) ==
  /\ phase = "registering"
  /\ k \in todo
  /\ devices[k] # NoDevice
  /\ todo' = todo \ {k}
  /\ UNCHANGED <<registry, errors, applied, phase, creation>>

(* register(key, config) up to the addObject of createDevice.              *)
CreateObject(k) ==
  /\ phase = "registering"
  /\ k \in todo
  /\ devices[k] = NoDevice
  /\ phase' = "creating"
  /\ creating' = k
  /\ made' = 0
  /\ UNCHANGED <<registry, errors, applied, todo>>

(* namespace.addVariable throws on a nodeId it refuses or already holds.   *)
CanAdd(n) == n \notin Rejected /\ nodes[n] = NoNode

(* The tag the loop of createDevice is at, if it is not through.           *)
TagsLeft == made < Len(applied[creating])
NextTag == applied[creating][made + 1]

(* addPrimitiveTag registers the tag with the runtime before it adds the   *)
(* variable, over any entry of the same nodeId, if its device has a name.  *)
RegisterTag(tag) ==
  runtime' = IF creating = Unnamed THEN runtime
             ELSE [runtime EXCEPT ![tag.nodeId] =
                     [device |-> creating, value |-> tag.value]]

CreateTag ==
  /\ phase = "creating"
  /\ TagsLeft
  /\ CanAdd(NextTag.nodeId)
  /\ RegisterTag(NextTag)
  /\ nodes' = [nodes EXCEPT ![NextTag.nodeId] =
                 [owner |-> creating, key |-> creating,
                  type |-> NextTag.type, value |-> NextTag.value]]
  /\ tagCount' = [tagCount EXCEPT ![NextTag.type] = @ + 1]
  /\ made' = made + 1
  /\ UNCHANGED <<devices, deviceStatus, errors, applied, phase, todo, creating>>

(* The nodes of a device whose registration failed: neither the object nor *)
(* the variables made so far are deleted, and nothing refers to them.      *)
Abandon(k) ==
  nodes' = [n \in NodeIds |->
              IF nodes[n] # NoNode /\ nodes[n].owner = k
              THEN [nodes[n] EXCEPT !.owner = Orphan] ELSE nodes[n]]

(* The metrics the catch of register() writes, and two mutations of it.    *)
StatusWithoutError(k) ==
  /\ deviceStatus' = [deviceStatus EXCEPT ![k] = "error"]
  /\ UNCHANGED errors

ErrorWithoutStatus(k) ==
  /\ RecordError("DeviceError")
  /\ UNCHANGED deviceStatus

RecordDeviceError(k) ==
  /\ RecordError("DeviceError")
  /\ deviceStatus' = [deviceStatus EXCEPT ![k] = "error"]

(* Mutation: the exception of addVariable is not caught.                   *)
RegistrationThrows == FALSE

(* register(key, config) when createDevice throws.                         *)
RegistrationFails ==
  /\ phase = "creating"
  /\ TagsLeft
  /\ ~CanAdd(NextTag.nodeId)
  /\ RegisterTag(NextTag)
  /\ Abandon(creating)
  /\ RecordDeviceError(creating)
  /\ phase' = "registering"
  /\ todo' = todo \ {creating}
  /\ creating' = NoKey
  /\ made' = 0
  /\ UNCHANGED <<devices, tagCount, applied>>

(* Mutation: the device is put in the map before all its tags are made.    *)
RegisteredTooEarly ==
  /\ phase = "creating"
  /\ devices' = [devices EXCEPT ![creating] = applied[creating]]
  /\ deviceStatus' = [deviceStatus EXCEPT ![creating] = "connected"]
  /\ phase' = "registering"
  /\ todo' = todo \ {creating}
  /\ creating' = NoKey
  /\ made' = 0
  /\ UNCHANGED <<nodes, runtime, tagCount, errors, applied>>

RegistrationDone ==
  /\ phase = "creating"
  /\ ~TagsLeft
  /\ devices' = [devices EXCEPT ![creating] = applied[creating]]
  /\ deviceStatus' = [deviceStatus EXCEPT ![creating] = "connected"]
  /\ phase' = "registering"
  /\ todo' = todo \ {creating}
  /\ creating' = NoKey
  /\ made' = 0
  /\ UNCHANGED <<nodes, runtime, tagCount, errors, applied>>

RegisterAllDone ==
  /\ phase = "registering"
  /\ todo = {}
  /\ phase' = "idle"
  /\ UNCHANGED <<registry, errors, applied, todo, creation>>

-----------------------------------------------------------------------------
(* Mutation: recordChange emits the change and does not keep the value.    *)
WriteNodeOnly(n, v) ==
  /\ phase = "idle"
  /\ nodes[n] # NoNode
  /\ nodes' = [nodes EXCEPT ![n].value = v]
  /\ UNCHANGED <<devices, runtime, deviceStatus, tagCount, errors, applied, phase,
                 todo, creation>>

(* The set() closure of a variable: an OPC UA client writes it.  What it   *)
(* records changes the entry of the nodeId, whosever that is by now.       *)
WriteTag(n, v) ==
  /\ phase = "idle"
  /\ nodes[n] # NoNode
  /\ runtime' = IF nodes[n].key = Unnamed \/ runtime[n] = NoTag THEN runtime
                ELSE [runtime EXCEPT ![n].value = v]
  /\ nodes' = [nodes EXCEPT ![n].value = v]
  /\ UNCHANGED <<devices, deviceStatus, tagCount, errors, applied, phase, todo,
                 creation>>

-----------------------------------------------------------------------------
(* The steps the running call takes by itself.                             *)
Continue ==
  \/ \E k \in Keys : \/ RemoveDevice(k) \/ RemoveFails(k)
                     \/ SkipRegistered(k) \/ CreateObject(k)
  \/ RemovalDone
  \/ CreateTag \/ RegistrationFails \/ RegistrationDone
  \/ RegisterAllDone

Next ==
  \/ \E config \in Configs : Load(config) \/ Reload(config)
  \/ \E category \in ReadErrors : LoadNothing(category) \/ ReloadAborted(category)
  \/ Continue
  \/ \E n \in NodeIds, v \in Values : WriteTag(n, v)

Spec == Init /\ [][Next]_vars

FairSpec == Spec /\ WF_vars(Continue)

-----------------------------------------------------------------------------
TypeOK ==
  /\ devices \in Configuration
  /\ nodes \in [NodeIds -> Node \cup {NoNode}]
  /\ runtime \in [NodeIds -> Entry \cup {NoTag}]
  /\ deviceStatus \in [Keys -> {"absent", "connected", "error"}]
  /\ tagCount \in [Types -> Nat]
  /\ errors \in [Categories -> 0..MaxErrors]
  /\ applied \in Configuration
  /\ phase \in {"boot", "idle", "removing", "registering", "creating"}
  /\ todo \subseteq Keys
  /\ creating \in Keys \cup {NoKey}
  /\ made \in Nat

-----------------------------------------------------------------------------
Idle == phase = "idle"

(* A device that list() reports has a variable of its own, of the          *)
(* configured type, for every tag of its config: register() puts the       *)
(* device in the map only after createDevice made all of them.             *)
RegisteredDevicesAreComplete ==
  \A k \in Registered : \A i \in DOMAIN devices[k] :
    LET node == nodes[devices[k][i].nodeId]
    IN node # NoNode /\ node.owner = k /\ node.type = devices[k][i].type

(* The metrics call a device connected exactly while the manager holds it: *)
(* register() and remove() keep the two maps of two classes in step, with  *)
(* a failed registration or a failed removal anywhere between.             *)
ConnectedIffRegistered ==
  \A k \in Keys : deviceStatus[k] = "connected" <=> k \in Registered

(* No device of the file is lost in silence: after load() or reload() each *)
(* is registered, or the metrics show it in error.                         *)
ConfiguredOrReported ==
  Idle => \A k \in KeysOf(applied) : k \in Registered \/ deviceStatus[k] = "error"

NodesOfType(ty) == {n \in NodeIds : nodes[n] # NoNode /\ nodes[n].type = ty}

(* The tag metrics count the variables there are, by type, whatever was    *)
(* registered, removed, or left behind by a failed registration: they are  *)
(* counted up tag by tag and down by the config that is removed.           *)
TagCountMatchesAddressSpace ==
  \A ty \in Types : tagCount[ty] = Cardinality(NodesOfType(ty))

(* Every device in error was counted as an error.                          *)
FailuresAreCounted ==
  Cardinality({k \in Keys : deviceStatus[k] = "error"}) <= errors["DeviceError"]

(* What tags.get answers for a tag of a registered device is what an OPC   *)
(* UA client reads from its variable, under the device that owns it: the   *)
(* closure of addPrimitiveTag and TagRuntime each keep a copy.             *)
RuntimeMirrorsNodes ==
  Idle => \A k \in Registered : \A n \in TagIds(devices[k]) :
            runtime[n] = [device |-> k, value |-> nodes[n].value]

(* The runtime holds no tag of a device that is gone (the comment of       *)
(* unregisterDevice: "so stale tags never satisfy tags.get").              *)
NoStaleTags ==
  Idle => \A n \in NodeIds : runtime[n] # NoTag =>
            /\ runtime[n].device \in Registered
            /\ n \in TagIds(devices[runtime[n].device])

(* A registration that fails overwrites entries of the runtime and leaves  *)
(* its own behind.  All the same every entry is that of a device that is   *)
(* registered or in error, and what a registered device's own entry        *)
(* answers to tags.get is what an OPC UA client reads.                     *)
OnlyKnownDevicesAnswer ==
  Idle => \A n \in NodeIds : runtime[n] # NoTag =>
            LET k == runtime[n].device IN
            /\ k \in Registered \/ deviceStatus[k] = "error"
            /\ k \in Registered /\ n \in TagIds(devices[k]) =>
                 runtime[n].value = nodes[n].value

(* Between reloads the server serves the configuration it last went on     *)
(* with, every device of it and no other.                                  *)
AppliedIsServed == Idle => devices = applied

(* A configuration no registration can refuse: its nodeIds are good and no *)
(* two devices share one.                                                  *)
Sound(config) ==
  /\ \A k \in KeysOf(config) : TagIds(config[k]) \cap Rejected = {}
  /\ Disjoint(config)

(* No device of a configuration has the empty key.                         *)
Named(config) == Unnamed \notin KeysOf(config)

(* A sound file is served whole, whatever files came before it: a bad edit *)
(* is skipped and the next good one makes up for it.                       *)
SoundFilesAreServed == Idle /\ Sound(applied) => devices = applied

(* A load or a reload comes to its end, over whatever fails on the way.    *)
RunsToCompletion == (phase \notin {"boot", "idle"}) ~> Idle

(* The values `get` reports.  Nobody can look while a load or a reload runs *)
(* (it keeps the event loop to itself), so from its start it stands for    *)
(* the configuration it is about to serve.                                 *)
Service == INSTANCE TagService WITH
  NoValue <- NoTag,
  config <- IF Idle THEN devices ELSE applied,
  value <- IF Idle
           THEN [n \in NodeIds |->
                   IF runtime[n] = NoTag THEN NoTag ELSE runtime[n].value]
           ELSE [n \in NodeIds |-> InitialValue(applied, n, NoTag)]

(* The registry, the nodes and the runtime together are a TagService.      *)
ImplementsTagService == Service!Spec

=============================================================================
