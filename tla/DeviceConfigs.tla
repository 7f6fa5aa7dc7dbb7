--------------------------- MODULE DeviceConfigs ---------------------------
(***************************************************************************)
(* The contents of devices.json, as the schemas of src/schemas/ let them   *)
(* through.  A configuration gives each key a device's tags, or NoDevice.  *)
(*                                                                         *)
(* A device's name and nodeId and the tags' browse names and thresholds    *)
(* are labels here: nothing below depends on them.                         *)
(***************************************************************************)
EXTENDS Integers, Sequences, FiniteSets

CONSTANTS
  Keys,      \* the keys of devices.json
  NodeIds,   \* the nodeIds of tags
  Types,     \* the tag types
  Values,    \* the values of tags
  NoDevice   \* no entry under a key

TagConfig == [nodeId : NodeIds, type : Types, value : Values]

(* A device has at least one tag and its tags' nodeIds differ.  The schema *)
(* does not compare the tags of two devices.                               *)
DeviceConfig ==
  {tags \in Seq(TagConfig) :
     /\ tags # <<>>
     /\ \A i, j \in DOMAIN tags : tags[i].nodeId = tags[j].nodeId => i = j}

Configuration == [Keys -> {NoDevice} \cup DeviceConfig]

NoDevices == [k \in Keys |-> NoDevice]

ASSUME NoDeviceAssumption == NoDevice \notin DeviceConfig

KeysOf(config) == {k \in Keys : config[k] # NoDevice}

TagIds(tags) == {tags[i].nodeId : i \in DOMAIN tags}

(* No two devices share a tag's nodeId.                                    *)
Disjoint(config) ==
  \A k, l \in KeysOf(config) :
    k # l => TagIds(config[k]) \cap TagIds(config[l]) = {}

(* The value a tag starts with, `none` if no device has the tag.           *)
InitialValue(config, n, none) ==
  IF \E k \in KeysOf(config) : n \in TagIds(config[k])
  THEN CHOOSE v \in Values :
         \E k \in KeysOf(config) : \E i \in DOMAIN config[k] :
           config[k][i].nodeId = n /\ config[k][i].value = v
  ELSE none

=============================================================================
