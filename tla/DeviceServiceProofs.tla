------------------------ MODULE DeviceServiceProofs ------------------------
(***************************************************************************)
(* What the device registry serves when no registration and no removal can *)
(* fail: exactly the configuration it went on with last, with the values   *)
(* of its variables in the tag runtime.  It then implements TagService.    *)
(***************************************************************************)
EXTENDS DeviceManagerProofs

(* The files' nodeIds are good and are not shared, no key is empty, and    *)
(* deleteNode works.                                                       *)
SoundOnly == ~DeleteMayFail /\ \A config \in Configs : Sound(config) /\ Named(config)

(* The runtime holds what the nodes hold, also while a reload runs.        *)
RuntimeIsNodes ==
  \A n \in NodeIds :
    runtime[n] = IF nodes[n] = NoNode THEN NoTag
                 ELSE [device |-> nodes[n].owner, value |-> nodes[n].value]

(* What is registered, at each point of a load or a reload.                *)
RegisteredSoFar ==
  /\ phase = "boot" => Registered = {}
  /\ phase = "removing" => Registered \subseteq todo
  /\ phase \in {"registering", "creating"} =>
       /\ Registered = KeysOf(applied) \ todo
       /\ \A k \in Registered : devices[k] = applied[k]
  /\ phase = "idle" => devices = applied

(* Nobody writes a tag before the load or reload that made it has ended.   *)
StillInitial ==
  phase \in {"registering", "creating"} =>
    \A n \in NodeIds : nodes[n] # NoNode => nodes[n].value = InitialValue(applied, n, NoTag)

ServiceInv ==
  /\ Sound(applied) /\ Named(applied)
  /\ \A n \in NodeIds :
       nodes[n] # NoNode => nodes[n].owner # Orphan /\ nodes[n].key # Unnamed
  /\ RuntimeIsNodes /\ RegisteredSoFar /\ StillInitial

-----------------------------------------------------------------------------
(* The value of a tag in a configuration where no two devices share it.    *)
LEMMA InitialIs ==
  ASSUME NEW c \in Configuration, Disjoint(c), NEW none,
         NEW k \in KeysOf(c), NEW i \in DOMAIN c[k]
  PROVE  /\ c[k][i].nodeId \in NodeIds /\ c[k][i].value \in Values
         /\ InitialValue(c, c[k][i].nodeId, none) = c[k][i].value
<1> DEFINE n == c[k][i].nodeId
           P(v) == \E l \in KeysOf(c) : \E j \in DOMAIN c[l] :
                     c[l][j].nodeId = n /\ c[l][j].value = v
<1>1. /\ c[k] \in Seq(TagConfig)
      /\ \A j, l \in DOMAIN c[k] : c[k][j].nodeId = c[k][l].nodeId => j = l
  BY DeviceIsTags DEF DeviceConfig
<1>2. c[k][i] \in TagConfig
  BY <1>1
<1>3. n \in NodeIds /\ c[k][i].value \in Values
  BY <1>2 DEF TagConfig
<1>4. n \in TagIds(c[k])
  BY DEF TagIds
<1>5. P(c[k][i].value)
  OBVIOUS
<1>6. ASSUME NEW v \in Values, P(v) PROVE v = c[k][i].value
  <2>1. PICK l \in KeysOf(c) : \E j \in DOMAIN c[l] : c[l][j].nodeId = n /\ c[l][j].value = v
    BY <1>6
  <2>2. n \in TagIds(c[l])
    BY <2>1 DEF TagIds
  <2>3. l = k
    BY <1>4, <2>2 DEF Disjoint
  <2> QED
    BY <1>1, <2>1, <2>3
<1>7. (CHOOSE v \in Values : P(v)) = c[k][i].value
  BY <1>3, <1>5, <1>6
<1>8. InitialValue(c, n, none) = CHOOSE v \in Values : P(v)
  BY <1>4 DEF InitialValue
<1> QED
  BY <1>3, <1>7, <1>8

(* A variable is one of a registered device or of the one being created.   *)
LEMMA OwnersOfNodes ==
  ASSUME TypeInv, NodesInv, ServiceInv, NEW n \in NodeIds, nodes[n] # NoNode
  PROVE  \/ nodes[n].owner \in Registered /\ n \in TagIds(devices[nodes[n].owner])
         \/ /\ phase = "creating" /\ nodes[n].owner = creating
            /\ n \in {applied[creating][i].nodeId : i \in 1..made}
BY DEF NodesInv, ServiceInv

(* A sound file is registered without an exception.                        *)
LEMMA NoRegistrationFails ==
  ASSUME TypeInv, NodesInv, ServiceInv, phase = "creating", TagsLeft
  PROVE  CanAdd(NextTag.nodeId)
<1> DEFINE c == applied
           n == NextTag.nodeId
<1>1. /\ creating \in KeysOf(c) /\ made + 1 \in 1..Len(c[creating])
      /\ NextTag \in TagConfig /\ creating \in todo
  BY NextTagType DEF TypeInv, Progress
<1>2. n \in NodeIds /\ made \in Nat /\ c \in Configuration
  BY <1>1 DEF TagConfig, TypeInv, TypeOK
<1>3. /\ DOMAIN c[creating] = 1..Len(c[creating]) /\ Len(c[creating]) \in Nat
      /\ \A i, j \in DOMAIN c[creating] : c[creating][i].nodeId = c[creating][j].nodeId => i = j
  BY <1>1, <1>2, DeviceIsTags DEF DeviceConfig
<1>4. n \in TagIds(c[creating])
  BY <1>1, <1>3 DEF NextTag, TagIds
<1>5. n \notin Rejected
  BY <1>1, <1>4 DEF ServiceInv, Sound
<1>6. ASSUME nodes[n] # NoNode PROVE FALSE
  <2> DEFINE k == nodes[n].owner
  <2>1. CASE k \in Registered /\ n \in TagIds(devices[k])
    <3>1. k \in KeysOf(c) \ todo /\ devices[k] = c[k]
      BY <2>1 DEF ServiceInv, RegisteredSoFar
    <3> QED
      BY <1>1, <1>4, <2>1, <3>1 DEF ServiceInv, Sound, Disjoint
  <2>2. CASE n \in {c[creating][i].nodeId : i \in 1..made}
    <3>1. PICK i \in 1..made : c[creating][i].nodeId = n
      BY <2>2
    <3>2. i \in DOMAIN c[creating] /\ made + 1 \in DOMAIN c[creating] /\ i # made + 1
      BY <1>1, <1>2, <1>3
    <3>3. c[creating][made + 1].nodeId = n
      BY DEF NextTag
    <3> QED
      BY <1>3, <3>1, <3>2, <3>3
  <2> QED
    BY <1>2, <1>6, <2>1, <2>2, OwnersOfNodes
<1> QED
  BY <1>5, <1>6 DEF CanAdd

(* With nothing registered there is no variable.                           *)
LEMMA NothingLeft ==
  ASSUME TypeInv, NodesInv, ServiceInv, Registered = {}, phase # "creating"
  PROVE  \A n \in NodeIds : nodes[n] = NoNode
BY OwnersOfNodes

LEMMA ServiceInit == Init => ServiceInv
BY DEF Init, ServiceInv, Sound, Named, Disjoint, KeysOf, NoDevices, RuntimeIsNodes, RegisteredSoFar,
       Registered, StillInitial

-----------------------------------------------------------------------------
LEMMA ServiceRemove ==
  ASSUME TypeInv, ServiceInv, NEW k \in Keys, RemoveDevice(k)
  PROVE  ServiceInv'
<1>1. RuntimeIsNodes'
  <2> SUFFICES ASSUME NEW n \in NodeIds
               PROVE  runtime'[n] = IF nodes'[n] = NoNode THEN NoTag
                                    ELSE [device |-> nodes'[n].owner, value |-> nodes'[n].value]
    BY DEF RuntimeIsNodes
  <2>1. /\ nodes'[n] = IF nodes[n] # NoNode /\ nodes[n].owner = k THEN NoNode ELSE nodes[n]
        /\ runtime'[n] = IF runtime[n] # NoTag /\ runtime[n].device = k THEN NoTag
                         ELSE runtime[n]
    BY DEF RemoveDevice, DeleteNodesOf, UnregisterDevice
  <2>2. CASE nodes[n] = NoNode
    BY <2>1, <2>2 DEF ServiceInv, RuntimeIsNodes
  <2>3. CASE nodes[n] # NoNode
    <3>1. /\ runtime[n] = [device |-> nodes[n].owner, value |-> nodes[n].value]
          /\ runtime[n].device = nodes[n].owner
      BY <2>3 DEF ServiceInv, RuntimeIsNodes
    <3>2. runtime[n] # NoTag
      <4>1. nodes[n] \in Node /\ nodes[n].owner # Orphan
        BY <2>3 DEF ServiceInv, TypeInv, TypeOK
      <4>2. runtime[n] \in Entry
        BY <3>1, <4>1 DEF Node, Entry
      <4> QED
        BY <4>2, ConstantsAssumption
    <3> QED
      BY <2>1, <2>3, <3>1, <3>2
  <2> QED
    BY <2>2, <2>3
<1>2. \A n \in NodeIds :
        nodes'[n] # NoNode => nodes'[n].owner # Orphan /\ nodes'[n].key # Unnamed
  BY DEF RemoveDevice, DeleteNodesOf, ServiceInv
<1>3. RegisteredSoFar'
  <2>1. phase = "removing" /\ phase' = "removing" /\ todo' = todo \ {k} /\ Registered \subseteq todo
    BY DEF RemoveDevice, ServiceInv, RegisteredSoFar
  <2>2. Registered' = Registered \ {k}
    BY DEF RemoveDevice, TypeInv, TypeOK, Configuration, Registered
  <2> QED
    BY <2>1, <2>2 DEF RegisteredSoFar
<1>4. Sound(applied)' /\ Named(applied)' /\ StillInitial'
  BY DEF RemoveDevice, ServiceInv, StillInitial, Sound, Named, Disjoint, KeysOf
<1> QED
  BY <1>1, <1>2, <1>3, <1>4 DEF ServiceInv

LEMMA ServiceCreateTag ==
  ASSUME TypeInv, ServiceInv, CreateTag
  PROVE  ServiceInv'
<1> DEFINE m == NextTag.nodeId
<1>1. /\ NextTag \in TagConfig /\ made + 1 \in 1..Len(applied[creating])
      /\ creating \in KeysOf(applied)
  BY NextTagType DEF CreateTag
<1>2. m \in NodeIds /\ creating \in Keys /\ phase = "creating" /\ creating # Unnamed
  BY <1>1 DEF TagConfig, KeysOf, CreateTag, ServiceInv, Named
<1>3. /\ nodes' = [nodes EXCEPT ![m] = [owner |-> creating, key |-> creating,
                                       type |-> NextTag.type, value |-> NextTag.value]]
      /\ runtime' = [runtime EXCEPT ![m] = [device |-> creating, value |-> NextTag.value]]
      /\ UNCHANGED <<devices, applied, phase, todo, creating>>
  BY <1>2 DEF CreateTag, RegisterTag
<1>4. /\ nodes'[m] = [owner |-> creating, key |-> creating, type |-> NextTag.type,
                      value |-> NextTag.value]
      /\ runtime'[m] = [device |-> creating, value |-> NextTag.value]
      /\ \A n \in NodeIds \ {m} : nodes'[n] = nodes[n] /\ runtime'[n] = runtime[n]
  BY <1>2, <1>3 DEF TypeInv, TypeOK
<1>5. nodes'[m] \in Node
  BY <1>1, <1>2, <1>4 DEF Node, TagConfig
<1>6. /\ nodes'[m] # NoNode /\ nodes'[m].owner = creating /\ nodes'[m].key = creating
      /\ nodes'[m].value = NextTag.value /\ creating # Orphan
  BY <1>2, <1>4, <1>5, ConstantsAssumption
<1>7. RuntimeIsNodes'
  BY <1>4, <1>6 DEF ServiceInv, RuntimeIsNodes
<1>8. \A n \in NodeIds :
        nodes'[n] # NoNode => nodes'[n].owner # Orphan /\ nodes'[n].key # Unnamed
  BY <1>2, <1>4, <1>6 DEF ServiceInv
<1>9. StillInitial'
  <2>1. DOMAIN applied[creating] = 1..Len(applied[creating]) /\ applied \in Configuration
    BY <1>1, DeviceIsTags DEF TypeInv, TypeOK
  <2>2. InitialValue(applied, m, NoTag) = NextTag.value
    <3>1. Disjoint(applied) /\ made + 1 \in DOMAIN applied[creating]
      BY <1>1, <2>1 DEF ServiceInv, Sound
    <3>2. InitialValue(applied, applied[creating][made + 1].nodeId, NoTag)
            = applied[creating][made + 1].value
      BY <1>1, <2>1, <3>1, InitialIs
    <3> QED
      BY <3>2 DEF NextTag
  <2>3. \A n \in NodeIds : nodes[n] # NoNode => nodes[n].value = InitialValue(applied, n, NoTag)
    BY <1>2 DEF ServiceInv, StillInitial
  <2>4. \A n \in NodeIds :
           nodes'[n] # NoNode => nodes'[n].value = InitialValue(applied, n, NoTag)
    BY <1>4, <1>6, <2>2, <2>3
  <2> QED
    BY <1>3, <2>4 DEF StillInitial
<1>10. RegisteredSoFar' /\ Sound(applied)' /\ Named(applied)'
  BY <1>3 DEF ServiceInv, RegisteredSoFar, Registered, KeysOf, Sound, Named, Disjoint
<1> QED
  BY <1>7, <1>8, <1>9, <1>10 DEF ServiceInv

LEMMA ServiceRegistrationDone ==
  ASSUME TypeInv, ServiceInv, RegistrationDone
  PROVE  ServiceInv'
<1>1. /\ phase = "creating" /\ phase' = "registering" /\ todo' = todo \ {creating}
      /\ devices' = [devices EXCEPT ![creating] = applied[creating]]
      /\ UNCHANGED <<nodes, runtime, applied>>
  BY DEF RegistrationDone
<1>2. creating \in KeysOf(applied) /\ creating \in todo
  BY <1>1 DEF TypeInv, Progress
<1>3. Registered' = Registered \cup {creating}
  BY <1>1, <1>2 DEF TypeInv, TypeOK, Configuration, Registered, KeysOf
<1>4. RegisteredSoFar'
  <2>1. Registered' = KeysOf(applied) \ todo'
    BY <1>1, <1>2, <1>3 DEF ServiceInv, RegisteredSoFar
  <2>2. \A k \in Registered' : devices'[k] = applied[k]
    BY <1>1, <1>2, <1>3 DEF ServiceInv, RegisteredSoFar, TypeInv, TypeOK, Configuration, KeysOf
  <2> QED
    BY <1>1, <2>1, <2>2 DEF RegisteredSoFar, KeysOf
<1>5. RuntimeIsNodes' /\ StillInitial'
  BY <1>1 DEF ServiceInv, RuntimeIsNodes, StillInitial
<1> QED
  BY <1>1, <1>4, <1>5 DEF ServiceInv, Sound, Named, Disjoint, KeysOf

LEMMA ServiceWriteTag ==
  ASSUME TypeInv, ServiceInv, NEW m \in NodeIds, NEW v \in Values, WriteTag(m, v)
  PROVE  /\ ServiceInv'
         /\ runtime' = [runtime EXCEPT ![m].value = v] /\ runtime[m] # NoTag
         /\ runtime'[m] # NoTag /\ runtime'[m].value = v
<1>1. nodes[m] \in Node /\ nodes[m] # NoNode /\ phase = "idle"
  BY DEF WriteTag, TypeInv, TypeOK
<1>2. runtime[m] = [device |-> nodes[m].owner, value |-> nodes[m].value]
  BY <1>1 DEF ServiceInv, RuntimeIsNodes
<1>3. nodes[m].owner # Orphan /\ nodes[m].key # Unnamed
  BY <1>1 DEF ServiceInv
<1>4. runtime[m] \in Entry
  BY <1>1, <1>2, <1>3 DEF Node, Entry
<1>5. runtime[m] # NoTag
  BY <1>4, ConstantsAssumption
<1>6. /\ nodes'[m] = [nodes[m] EXCEPT !.value = v]
      /\ \A n \in NodeIds \ {m} : nodes'[n] = nodes[n]
  BY DEF WriteTag, TypeInv, TypeOK
<1>7. /\ nodes'[m] \in Node /\ nodes'[m].owner = nodes[m].owner
      /\ nodes'[m].key = nodes[m].key /\ nodes'[m].value = v
  BY <1>1, <1>6 DEF Node
<1>8. runtime' = [runtime EXCEPT ![m].value = v]
  BY <1>3, <1>5 DEF WriteTag
<1>9. /\ runtime'[m] = [runtime[m] EXCEPT !.value = v]
      /\ \A n \in NodeIds \ {m} : runtime'[n] = runtime[n]
  BY <1>8 DEF TypeInv, TypeOK
<1>10. /\ runtime'[m] = [device |-> nodes[m].owner, value |-> v]
       /\ runtime'[m] \in Entry
  BY <1>2, <1>4, <1>9 DEF Entry
<1>11. runtime'[m] # NoTag /\ runtime'[m].value = v
  BY <1>10, ConstantsAssumption
<1>12. nodes'[m] # NoNode
  BY <1>7, ConstantsAssumption
<1>13. RuntimeIsNodes'
  <2>1. runtime'[m] = IF nodes'[m] = NoNode THEN NoTag
                      ELSE [device |-> nodes'[m].owner, value |-> nodes'[m].value]
    BY <1>7, <1>10, <1>12
  <2>2. \A n \in NodeIds \ {m} :
          runtime'[n] = IF nodes'[n] = NoNode THEN NoTag
                        ELSE [device |-> nodes'[n].owner, value |-> nodes'[n].value]
    BY <1>6, <1>9 DEF ServiceInv, RuntimeIsNodes
  <2> QED
    BY <2>1, <2>2 DEF RuntimeIsNodes
<1>14. \A n \in NodeIds :
         nodes'[n] # NoNode => nodes'[n].owner # Orphan /\ nodes'[n].key # Unnamed
  <2>1. nodes'[m].owner # Orphan /\ nodes'[m].key # Unnamed
    BY <1>3, <1>7
  <2>2. \A n \in NodeIds \ {m} :
          nodes'[n] # NoNode => nodes'[n].owner # Orphan /\ nodes'[n].key # Unnamed
    BY <1>6 DEF ServiceInv
  <2> QED
    BY <2>1, <2>2
<1>15. UNCHANGED <<devices, applied, phase, todo>>
  BY DEF WriteTag
<1>16. Sound(applied)' /\ Named(applied)'
  <2>1. applied' = applied /\ Sound(applied) /\ Named(applied)
    BY <1>15 DEF ServiceInv
  <2> QED
    BY <2>1 DEF Sound, Named, Disjoint, KeysOf
<1>17. Registered' = Registered
  BY <1>15 DEF Registered
<1>18. RegisteredSoFar'
  BY <1>1, <1>15, <1>17 DEF ServiceInv, RegisteredSoFar, KeysOf
<1>19. StillInitial'
  BY <1>1, <1>15 DEF StillInitial
<1> QED
  BY <1>5, <1>8, <1>11, <1>13, <1>14, <1>16, <1>18, <1>19 DEF ServiceInv

LEMMA ServiceStep ==
  SoundOnly /\ TypeInv /\ NodesInv /\ ServiceInv /\ [Next]_vars => ServiceInv'
<1> SUFFICES ASSUME SoundOnly, TypeInv, NodesInv, ServiceInv, [Next]_vars
             PROVE  ServiceInv'
  OBVIOUS
<1>1. ASSUME NEW c \in Configs, Load(c)
      PROVE  ServiceInv'
  <2>1. Registered = {} /\ phase = "boot"
    BY <1>1 DEF Load, ServiceInv, RegisteredSoFar
  <2>2. \A n \in NodeIds : nodes[n] = NoNode
    BY <2>1, NothingLeft
  <2>3. /\ phase' = "registering" /\ applied' = c /\ todo' = KeysOf(c)
        /\ UNCHANGED <<devices, nodes, runtime>> /\ Sound(c) /\ Named(c)
    BY <1>1 DEF Load, registry, SoundOnly
  <2>4. RegisteredSoFar' /\ StillInitial' /\ RuntimeIsNodes'
    BY <2>1, <2>2, <2>3
       DEF RegisteredSoFar, StillInitial, RuntimeIsNodes, Registered, KeysOf, ServiceInv
  <2> QED
    BY <2>2, <2>3, <2>4 DEF ServiceInv, Sound, Named, Disjoint, KeysOf
<1>2. ASSUME NEW c \in Configs, Reload(c)
      PROVE  ServiceInv'
  <2>1. /\ phase' = "removing" /\ applied' = c /\ todo' = Registered
        /\ UNCHANGED <<devices, nodes, runtime>> /\ Sound(c) /\ Named(c)
    BY <1>2 DEF Reload, registry, SoundOnly
  <2> QED
    BY <2>1
       DEF ServiceInv, RegisteredSoFar, StillInitial, RuntimeIsNodes, Registered, Sound, Named,
           Disjoint, KeysOf
<1>3. ASSUME NEW e \in ReadErrors, LoadNothing(e)
      PROVE  ServiceInv'
  <2>1. /\ Registered = {} /\ applied = NoDevices /\ phase' = "idle"
        /\ UNCHANGED <<devices, nodes, runtime, applied, todo>>
    BY <1>3 DEF LoadNothing, registry, ServiceInv, RegisteredSoFar, TypeInv, Progress
  <2>2. devices = NoDevices
    BY <2>1 DEF Registered, NoDevices, TypeInv, TypeOK, Configuration
  <2> QED
    BY <2>1, <2>2
       DEF ServiceInv, RegisteredSoFar, StillInitial, RuntimeIsNodes, Sound, Named, Disjoint, KeysOf
<1>4. CASE UNCHANGED <<devices, nodes, runtime, applied, phase, todo>>
  BY <1>4 DEF ServiceInv, RegisteredSoFar, StillInitial, RuntimeIsNodes, Registered, Sound, Named,
              Disjoint, KeysOf
<1>5. ASSUME NEW k \in Keys, RemoveFails(k) \/ SkipRegistered(k)
      PROVE  FALSE
  BY <1>5 DEF RemoveFails, SkipRegistered, SoundOnly, ServiceInv, RegisteredSoFar, Registered
<1>6. CASE RemovalDone
  <2>1. Registered = {} /\ phase = "removing"
    BY <1>6 DEF RemovalDone, ServiceInv, RegisteredSoFar
  <2>2. \A n \in NodeIds : nodes[n] = NoNode
    BY <2>1, NothingLeft
  <2> QED
    BY <1>6, <2>1, <2>2
       DEF RemovalDone, registry, ServiceInv, RegisteredSoFar, StillInitial, RuntimeIsNodes,
           Registered, Sound, Named, Disjoint, KeysOf
<1>7. ASSUME NEW k \in Keys, CreateObject(k)
      PROVE  ServiceInv'
  BY <1>7 DEF CreateObject, registry, ServiceInv, RegisteredSoFar, StillInitial,
              RuntimeIsNodes, Registered, Sound, Named, Disjoint, KeysOf
<1>8. CASE RegistrationFails
  BY <1>8, NoRegistrationFails DEF RegistrationFails
<1>9. CASE RegisterAllDone
  <2>1. /\ Registered = KeysOf(applied) /\ \A k \in Registered : devices[k] = applied[k]
        /\ phase' = "idle" /\ UNCHANGED <<devices, nodes, runtime, applied, todo>>
    BY <1>9 DEF RegisterAllDone, registry, ServiceInv, RegisteredSoFar
  <2>2. devices = applied
    <3>1. \A k \in Keys : devices[k] = applied[k]
      BY <2>1 DEF Registered, KeysOf
    <3> QED
      BY <3>1 DEF TypeInv, TypeOK, Configuration
  <2> QED
    BY <2>1, <2>2
       DEF ServiceInv, RegisteredSoFar, StillInitial, RuntimeIsNodes, Sound, Named, Disjoint, KeysOf
<1> QED
  BY <1>1, <1>2, <1>3, <1>4, <1>5, <1>6, <1>7, <1>8, <1>9, ServiceRemove, ServiceCreateTag,
     ServiceRegistrationDone, ServiceWriteTag
     DEF Next, Continue, ReloadAborted, registry, vars

LEMMA ServiceInvariant == ASSUME SoundOnly PROVE Spec => []ServiceInv
<1>1. TypeInv /\ NodesInv /\ ServiceInv /\ [Next]_vars => ServiceInv'
  BY ServiceStep
<1> QED
  BY <1>1, ServiceInit, TypeInvariant, NodesInvariant, PTL DEF Spec

-----------------------------------------------------------------------------
(* If every file the server may read is sound, load() and reload() leave   *)
(* it with the devices of the file, every one of them and no other.        *)
THEOREM AppliedIsServedAlways == ASSUME SoundOnly PROVE Spec => []AppliedIsServed
<1>1. ServiceInv => AppliedIsServed
  BY DEF ServiceInv, RegisteredSoFar, AppliedIsServed, Idle
<1> QED
  BY <1>1, ServiceInvariant, PTL

(* The value TagRuntime holds for a tag of a registered device is that of  *)
(* its variable, whoever wrote it and however often devices were reloaded. *)
THEOREM RuntimeMirrorsNodesAlways == ASSUME SoundOnly PROVE Spec => []RuntimeMirrorsNodes
<1>1. ASSUME TypeInv, NodesInv, ServiceInv PROVE RuntimeMirrorsNodes
  <2> SUFFICES ASSUME NEW k \in Registered, NEW n \in TagIds(devices[k])
               PROVE  runtime[n] = [device |-> k, value |-> nodes[n].value]
    BY DEF RuntimeMirrorsNodes
  <2>1. PICK i \in DOMAIN devices[k] : devices[k][i].nodeId = n
    BY DEF TagIds
  <2>2. nodes[n] # NoNode /\ nodes[n].owner = k
    BY <1>1, <2>1 DEF NodesInv, Made
  <2>3. n \in NodeIds
    BY <1>1, <2>1, RegisteredIsTags
  <2> QED
    BY <1>1, <2>2, <2>3 DEF ServiceInv, RuntimeIsNodes
<1> QED
  BY <1>1, ServiceInvariant, TypeInvariant, NodesInvariant, PTL

(* unregisterDevice leaves no tag behind that tags.get could find.         *)
THEOREM NoStaleTagsAlways == ASSUME SoundOnly PROVE Spec => []NoStaleTags
<1>1. ASSUME TypeInv, NodesInv, ServiceInv PROVE NoStaleTags
  <2> SUFFICES ASSUME Idle, NEW n \in NodeIds, runtime[n] # NoTag
               PROVE  /\ runtime[n].device \in Registered
                      /\ n \in TagIds(devices[runtime[n].device])
    BY DEF NoStaleTags
  <2>1. nodes[n] # NoNode /\ runtime[n].device = nodes[n].owner
    <3>1. nodes[n] # NoNode
      BY <1>1 DEF ServiceInv, RuntimeIsNodes
    <3>2. runtime[n] = [device |-> nodes[n].owner, value |-> nodes[n].value]
      BY <1>1, <3>1 DEF ServiceInv, RuntimeIsNodes
    <3> QED
      BY <3>1, <3>2
  <2>2. phase = "idle"
    BY DEF Idle
  <2> QED
    BY <1>1, <2>1, <2>2, OwnersOfNodes
<1> QED
  BY <1>1, ServiceInvariant, TypeInvariant, NodesInvariant, PTL

-----------------------------------------------------------------------------
(* The refinement.                                                         *)

LEMMA SameConfigs ==
  /\ Service!NoDevices = NoDevices
  /\ \A c : Service!KeysOf(c) = KeysOf(c)
  /\ \A c, n, none : Service!InitialValue(c, n, none) = InitialValue(c, n, none)
<1>2. \A c : Service!KeysOf(c) = KeysOf(c)
  BY DEF Service!KeysOf, KeysOf
<1>3. \A c, n, none : Service!InitialValue(c, n, none) = InitialValue(c, n, none)
  BY DEF Service!InitialValue, InitialValue, Service!KeysOf, KeysOf, Service!TagIds, TagIds
<1>4. Service!NoDevices = NoDevices
  BY DEF Service!NoDevices, NoDevices
<1> QED
  BY <1>2, <1>3, <1>4

(* What the registry shows of a tag: see Service.                          *)
Shown(n) == IF runtime[n] = NoTag THEN NoTag ELSE runtime[n].value

(* The value of a variable is shown, and nothing where there is none.      *)
LEMMA ShownIsNode ==
  ASSUME TypeInv, ServiceInv, NEW n \in NodeIds
  PROVE  Shown(n) = IF nodes[n] = NoNode THEN NoTag ELSE nodes[n].value
<1>1. CASE nodes[n] = NoNode
  BY <1>1 DEF Shown, ServiceInv, RuntimeIsNodes
<1>2. CASE nodes[n] # NoNode
  <2>1. nodes[n] \in Node /\ nodes[n].owner # Orphan
    BY <1>2 DEF ServiceInv, TypeInv, TypeOK
  <2>2. runtime[n] = [device |-> nodes[n].owner, value |-> nodes[n].value]
    BY <1>2 DEF ServiceInv, RuntimeIsNodes
  <2>3. runtime[n] \in Entry /\ runtime[n].value = nodes[n].value
    BY <2>1, <2>2 DEF Node, Entry
  <2> QED
    BY <1>2, <2>3, ConstantsAssumption DEF Shown
<1> QED
  BY <1>1, <1>2

(* When the last device is registered, what will be shown is what the      *)
(* running call has stood for since it began.                              *)
LEMMA ShownAtTheEnd ==
  ASSUME TypeInv, NodesInv, ServiceInv, RegisterAllDone, NEW n \in NodeIds
  PROVE  Shown(n) = InitialValue(applied, n, NoTag)
<1>1. /\ Registered = KeysOf(applied) /\ \A k \in Registered : devices[k] = applied[k]
      /\ phase = "registering"
  BY DEF RegisterAllDone, ServiceInv, RegisteredSoFar
<1>2. CASE nodes[n] # NoNode
  BY <1>1, <1>2, ShownIsNode DEF ServiceInv, StillInitial
<1>3. CASE nodes[n] = NoNode
  <2>1. ASSUME NEW k \in KeysOf(applied), n \in TagIds(applied[k]) PROVE FALSE
    <3>1. PICK i \in DOMAIN devices[k] : devices[k][i].nodeId = n
      BY <1>1, <2>1 DEF TagIds
    <3> QED
      BY <1>1, <1>3, <3>1 DEF NodesInv, Made
  <2> QED
    BY <1>3, <2>1, ShownIsNode DEF InitialValue
<1> QED
  BY <1>2, <1>3

(* Before anything is loaded nothing is shown.                             *)
LEMMA NothingShown ==
  ASSUME TypeInv, NodesInv, ServiceInv, phase = "boot", NEW n \in NodeIds
  PROVE  Shown(n) = NoTag /\ InitialValue(applied, n, NoTag) = NoTag
<1>1. Registered = {} /\ applied = NoDevices
  BY DEF ServiceInv, RegisteredSoFar, TypeInv, Progress
<1>2. KeysOf(applied) = {}
  BY <1>1 DEF KeysOf, NoDevices
<1> QED
  BY <1>1, <1>2, NothingLeft, ShownIsNode DEF InitialValue

(* The configuration and the values of the Service, before a step.         *)
ShownConfig == IF Idle THEN devices ELSE applied
ShownValue ==
  IF Idle THEN [n \in NodeIds |-> Shown(n)]
  ELSE [n \in NodeIds |-> InitialValue(applied, n, NoTag)]

LEMMA ServiceIsShown ==
  /\ Service!Init <=> /\ ShownConfig = NoDevices
                      /\ ShownValue = [n \in NodeIds |-> NoTag]
  /\ \A c : Service!Apply(c) <=>
       /\ ShownConfig' = c
       /\ ShownValue' = [n \in NodeIds |-> InitialValue(c, n, NoTag)]
  /\ \A n, v : Service!Write(n, v) <=>
       /\ ShownValue[n] # NoTag
       /\ ShownValue' = [ShownValue EXCEPT ![n] = v]
       /\ UNCHANGED ShownConfig
  /\ UNCHANGED Service!vars <=> UNCHANGED <<ShownConfig, ShownValue>>
BY SameConfigs DEF Service!Init, Service!Apply, Service!Write, Service!vars, ShownConfig,
                   ShownValue, Shown

LEMMA ServiceInitRefines == Init => Service!Init
<1> SUFFICES ASSUME Init PROVE Service!Init
  OBVIOUS
<1>1. ~Idle /\ applied = NoDevices /\ KeysOf(applied) = {}
  BY DEF Init, Idle, KeysOf, NoDevices
<1>2. \A n \in NodeIds : InitialValue(applied, n, NoTag) = NoTag
  BY <1>1 DEF InitialValue
<1> QED
  BY <1>1, <1>2, ServiceIsShown DEF ShownConfig, ShownValue

LEMMA ServiceStepRefines ==
  ASSUME SoundOnly, TypeInv, NodesInv, ServiceInv, ServiceInv', [Next]_vars
  PROVE  [Service!Next]_(Service!vars)
<1>1. ASSUME NEW c \in Configs, Load(c) \/ Reload(c) PROVE Service!Next
  <2>1. ~Idle' /\ applied' = c
    BY <1>1 DEF Load, Reload, Idle
  <2>2. Service!Apply(c)
    BY <2>1, ServiceIsShown DEF ShownConfig, ShownValue
  <2> QED
    BY <2>2 DEF Service!Next
<1>2. CASE UNCHANGED <<devices, runtime, applied, phase>>
  BY <1>2, ServiceIsShown DEF ShownConfig, ShownValue, Shown, Idle
<1>3. CASE UNCHANGED applied /\ ~Idle /\ ~Idle'
  BY <1>3, ServiceIsShown DEF ShownConfig, ShownValue
<1>4. ASSUME NEW e \in ReadErrors, LoadNothing(e) PROVE UNCHANGED Service!vars
  <2>1. /\ phase = "boot" /\ ~Idle /\ Idle' /\ UNCHANGED <<devices, runtime, applied>>
    BY <1>4 DEF LoadNothing, registry, Idle
  <2>2. devices' = applied
    BY <2>1 DEF ServiceInv, RegisteredSoFar, Idle
  <2>3. \A n \in NodeIds : Shown(n)' = InitialValue(applied, n, NoTag)
    BY <2>1, NothingShown DEF Shown
  <2> QED
    BY <2>1, <2>2, <2>3, ServiceIsShown DEF ShownConfig, ShownValue
<1>5. CASE RegisterAllDone
  <2>1. /\ ~Idle /\ Idle' /\ UNCHANGED <<devices, runtime, applied>>
    BY <1>5 DEF RegisterAllDone, registry, Idle
  <2>2. devices' = applied
    BY <2>1 DEF ServiceInv, RegisteredSoFar, Idle
  <2>3. \A n \in NodeIds : Shown(n)' = InitialValue(applied, n, NoTag)
    BY <1>5, <2>1, ShownAtTheEnd DEF Shown
  <2> QED
    BY <2>1, <2>2, <2>3, ServiceIsShown DEF ShownConfig, ShownValue
<1>6. ASSUME NEW m \in NodeIds, NEW v \in Values, WriteTag(m, v) PROVE Service!Next
  <2>1. /\ runtime' = [runtime EXCEPT ![m].value = v] /\ runtime[m] # NoTag
        /\ runtime'[m] # NoTag /\ runtime'[m].value = v
    BY <1>6, ServiceWriteTag
  <2>2. Idle /\ Idle' /\ UNCHANGED devices
    BY <1>6 DEF WriteTag, Idle
  <2>3. runtime[m].value # NoTag
    <3>1. runtime[m] \in Entry
      BY <2>1 DEF TypeInv, TypeOK
    <3> QED
      BY <3>1, ConstantsAssumption DEF Entry
  <2>4. \A n \in NodeIds : Shown(n)' = IF n = m THEN v ELSE Shown(n)
    BY <2>1 DEF Shown, TypeInv, TypeOK
  <2>5. Service!Write(m, v)
    <3>1. ShownValue[m] # NoTag /\ UNCHANGED ShownConfig
      BY <2>1, <2>2, <2>3 DEF ShownConfig, ShownValue, Shown
    <3>2. ShownValue = [n \in NodeIds |-> Shown(n)]
      BY <2>2 DEF ShownValue
    <3>3. ShownValue' = [n \in NodeIds |-> Shown(n)']
      BY <2>2 DEF ShownValue
    <3>4. ShownValue' = [ShownValue EXCEPT ![m] = v]
      BY <2>4, <3>2, <3>3
    <3> QED
      BY <3>1, <3>4, ServiceIsShown
  <2> QED
    BY <2>5 DEF Service!Next
<1>7. CASE Continue
  <2>1. ASSUME NEW k \in Keys,
               RemoveDevice(k) \/ RemoveFails(k) \/ SkipRegistered(k) \/ CreateObject(k)
        PROVE  UNCHANGED applied /\ ~Idle /\ ~Idle'
    BY <2>1 DEF RemoveDevice, RemoveFails, SkipRegistered, CreateObject, Idle
  <2>2. ASSUME RemovalDone \/ CreateTag \/ RegistrationFails \/ RegistrationDone
        PROVE  UNCHANGED applied /\ ~Idle /\ ~Idle'
    BY <2>2 DEF RemovalDone, CreateTag, RegistrationFails, RegistrationDone, Idle
  <2> QED
    BY <1>3, <1>5, <1>7, <2>1, <2>2 DEF Continue
<1> QED
  BY <1>1, <1>2, <1>4, <1>6, <1>7 DEF Next, ReloadAborted, registry, vars

(* The registry, the variables and the tag runtime together are the        *)
(* TagService of one configuration at a time: a reload takes effect at     *)
(* once and whole, however many devices, tags and steps it takes.          *)
THEOREM RegistryImplementsTagService ==
  ASSUME SoundOnly
  PROVE  Spec => ImplementsTagService
<1>1. Init => Service!Init
  BY ServiceInitRefines
<1>2. TypeInv /\ NodesInv /\ ServiceInv /\ ServiceInv' /\ [Next]_vars
        => [Service!Next]_(Service!vars)
  BY ServiceStepRefines
<1> QED
  BY <1>1, <1>2, TypeInvariant, NodesInvariant, ServiceInvariant, PTL
     DEF Spec, ImplementsTagService, Service!Spec

=============================================================================
