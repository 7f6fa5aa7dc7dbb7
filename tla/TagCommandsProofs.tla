------------------------- MODULE TagCommandsProofs -------------------------
(***************************************************************************)
(* What is proved of the commands `get` and `watch`, for any devices and   *)
(* imported objects whose keys (none of them empty) and nodeIds differ, as *)
(* SoundAssumption says, any options, any values and any number of         *)
(* changes: the runtime has the values of the address space, so that old   *)
(* values are those of `get`; the answer is what the documentation says    *)
(* the options select; and a watch prints every change from its            *)
(* subscription on.                                                        *)
(***************************************************************************)
EXTENDS TagCommands, TagSelectorsProofs

(* The runtime has the tags of the devices, with the values they have in   *)
(* the address space, and no others.                                       *)
RuntimeInv ==
  /\ registry \in Configs
  /\ node \in [NodeIds -> Values \cup {t.value : t \in AnyTag} \cup {NoValue}]
  /\ runtime = [n \in NodeIds |-> runtime[n]]
  /\ \A t \in TagSet(AllDeviceEntries) :
       runtime[t.nodeId] = [device |-> t.device, value |-> node[t.nodeId]]
  /\ \A n \in NodeIds : (\A t \in TagSet(AllDeviceEntries) : t.nodeId # n) => runtime[n] = NoTag

(* The types of what else there is.                                        *)
TypeInv ==
  /\ subscribed \in BOOLEAN /\ trace \in BOOLEAN
  /\ serverEnd \in {"none", "open", "closed"}
  /\ written \in 0..MaxChanges /\ IsSeq(due) /\ Len(due) <= written
  /\ IsSeq(toServer) /\ IsSeq(toClient)
  /\ phase \in {"idle", "connecting", "asking", "watching", "exited"}
  /\ watched \subseteq NodeIds
  /\ phase = "idle" => kind = None /\ options = None
  /\ phase # "idle" => kind \in {"get", "watch"} /\ options \in CommandLines

(* The request and its answer, from what the server had when it answered.  *)
Request ==
  [kind |-> IF kind = "get" THEN "tags.get" ELSE "tags.resolve",
   selector |-> BuildTagSelectorPayload(options)]

Selected == ResolveTagSelector(askedOf.devices, BuildTagSelectorPayload(options))

Data ==
  IF kind = "get"
  THEN [i \in DOMAIN Selected.tags |->
          [tag |-> Selected.tags[i],
           value |-> OnTheWire(askedOf.values[Selected.tags[i].nodeId])]]
  ELSE Selected.tags

Response == Answer(Selected.error, Data)

Fin == [kind |-> "fin"]

Event(change) == [kind |-> "event", change |-> AsRead(change)]

WasAsked == \E c \in Configs : askedOf.devices = c \o NodesetDevices

(* A command goes on past its first step exactly if its options may be     *)
(* given together.                                                         *)
VerdictInv ==
  /\ phase # "exited" => verdict = "none"
  /\ phase # "idle" => (verdict = "VALIDATION_ERROR" <=> ~AllowedTogether(options))

(* Before it is connected, nothing is under way to the server.             *)
BeforeInv ==
  /\ serverEnd = "none" => toClient = <<>> /\ ~subscribed
  /\ phase \in {"idle", "connecting"} => serverEnd # "open" /\ toServer = <<>>
  /\ phase \in {"idle", "connecting", "asking"} =>
       ~subscribed /\ due = <<>> /\ shown = <<>>

(* While it asks, its request or the answer to it is under way, or the     *)
(* connection ends.                                                        *)
AskingInv ==
  phase = "asking" =>
    \/ serverEnd = "open" /\ toServer = <<Request>> /\ toClient = <<>>
    \/ serverEnd = "open" /\ toServer = <<>> /\ toClient = <<Response>> /\ WasAsked
    \/ serverEnd = "closed" /\ toClient = <<Fin>>
    \/ serverEnd = "closed" /\ toClient = <<Response, Fin>> /\ WasAsked

(* What came of the answer; the server does not answer again.              *)
AnsweredInv ==
  phase = "watching" \/ verdict \in {"SUCCESS", "DEVICE_ERROR", "TAG_ERROR"} =>
    /\ WasAsked
    /\ serverEnd = "open" =>
         \A msg \in ToSet(toServer) : msg.kind \notin {"tags.get", "tags.resolve"}
    /\ phase = "watching" =>
         Selected.error = "none" /\ watched = {t.nodeId : t \in ToSet(Selected.tags)}
    /\ kind = "get" /\ verdict = "SUCCESS" => Selected.error = "none" /\ shown = Data
    /\ verdict \in {"DEVICE_ERROR", "TAG_ERROR"} => verdict = ExitCode(Selected.error)

(* A `watch` has its subscription, or it is under way and nothing is due.  *)
SubscriptionInv ==
  /\ serverEnd = "closed" => ~subscribed
  /\ phase = "watching" =>
       /\ kind = "watch"
       /\ serverEnd \in {"open", "closed"}
       /\ serverEnd = "open" =>
            \/ toServer = <<[kind |-> "subscribe"]>> /\ ~subscribed /\ due = <<>>
            \/ toServer = <<>> /\ subscribed

Read(changes) == [i \in DOMAIN changes |-> AsRead(changes[i])]

(* Those of some changes that a watch of some tags prints.                 *)
PrintedOf(ids, all, changes) ==
  Filter(changes, {c \in ToSet(changes) : c.nodeId \in ids /\ (all \/ c.significant)})

(* It has seen some of the changes that are due, and the next ones are on  *)
(* their way, all of them while the connection is open.                    *)
EventsInv ==
  /\ phase = "watching" =>
       \E k \in 0..Len(due) :
         /\ shown = PrintedOf(watched, trace, SubSeq(Read(due), 1, k))
         /\ \A i \in DOMAIN toClient :
              \/ toClient[i] = Fin /\ serverEnd = "closed"
              \/ k + i <= Len(due) /\ toClient[i] = Event(due[k + i])
         /\ serverEnd = "open" => Len(toClient) = Len(due) - k
  /\ phase = "exited" /\ kind = "watch" =>
       IsPrefix(shown, PrintedOf(watched, trace, Read(due)))

CommandInv ==
  /\ TypeInv /\ VerdictInv /\ BeforeInv
  /\ AskingInv /\ AnsweredInv /\ SubscriptionInv /\ EventsInv

-----------------------------------------------------------------------------
(* The devices: those of a configuration and the imported ones.            *)

LEMMA InTagsIn ==
  ASSUME NEW devices, NEW i \in DOMAIN devices, NEW j \in DOMAIN devices[i].tags
  PROVE  devices[i].tags[j] \in TagsIn(devices)
<1>1. devices[i].tags[j] \in {devices[i].tags[k] : k \in DOMAIN devices[i].tags}
  OBVIOUS
<1>2. TagsIn(devices)
        = UNION {{devices[h].tags[k] : k \in DOMAIN devices[h].tags} : h \in DOMAIN devices}
  BY DEF TagsIn
<1> QED
  BY <1>1, <1>2, Zenon

LEMMA ConcatDevices ==
  ASSUME NEW c, NEW d, IsSeq(c), IsSeq(d)
  PROVE  /\ TagSet(c \o d) = TagSet(c) \cup TagSet(d)
         /\ TagsIn(c \o d) = TagsIn(c) \cup TagsIn(d)
         /\ Keys(c \o d) = Keys(c) \cup Keys(d)
<1>1. PICK m \in Nat, n \in Nat :
        /\ DOMAIN c = 1..m /\ DOMAIN d = 1..n /\ DOMAIN (c \o d) = 1..(m + n)
        /\ \A i \in 1..(m + n) : (c \o d)[i] = IF i <= m THEN c[i] ELSE d[i - m]
  <2>1. c \in Seq(ToSet(c) \cup ToSet(d)) /\ d \in Seq(ToSet(c) \cup ToSet(d))
    BY SeqMonotonic DEF IsSeq
  <2> QED
    BY <2>1, ConcatProperties, LenProperties
<1>2. \A i \in 1..m : i \in 1..(m + n) /\ (c \o d)[i] = c[i]
  BY <1>1
<1>3. \A i \in 1..n : m + i \in 1..(m + n) /\ (c \o d)[m + i] = d[i]
  BY <1>1
<1>4. \A i \in 1..(m + n) : \/ i \in 1..m /\ (c \o d)[i] = c[i]
                            \/ i - m \in 1..n /\ (c \o d)[i] = d[i - m]
  BY <1>1
<1>5. TagSet(c \o d) = TagSet(c) \cup TagSet(d)
  <2>1. ASSUME NEW t \in TagSet(c \o d) PROVE t \in TagSet(c) \cup TagSet(d)
    BY <1>1, <1>4 DEF TagSet
  <2>2. ASSUME NEW t \in TagSet(c) PROVE t \in TagSet(c \o d)
    BY <1>1, <1>2 DEF TagSet
  <2>3. ASSUME NEW t \in TagSet(d) PROVE t \in TagSet(c \o d)
    <3>1. PICK i \in 1..n : \E j \in DOMAIN d[i].tags : t = Label(d[i], d[i].tags[j])
      BY <1>1 DEF TagSet
    <3>2. m + i \in DOMAIN (c \o d) /\ (c \o d)[m + i] = d[i]
      BY <1>1, <1>3
    <3>3. PICK j \in DOMAIN d[i].tags : t = Label(d[i], d[i].tags[j])
      BY <3>1
    <3>4. j \in DOMAIN (c \o d)[m + i].tags
          /\ t = Label((c \o d)[m + i], (c \o d)[m + i].tags[j])
      BY <3>2, <3>3
    <3> QED
      BY <3>2, <3>4 DEF TagSet
  <2> QED
    BY <2>1, <2>2, <2>3
<1>6. TagsIn(c \o d) = TagsIn(c) \cup TagsIn(d)
  <2>1. ASSUME NEW t \in TagsIn(c \o d) PROVE t \in TagsIn(c) \cup TagsIn(d)
    BY <1>1, <1>4 DEF TagsIn
  <2>2. ASSUME NEW t \in TagsIn(c) PROVE t \in TagsIn(c \o d)
    BY <1>1, <1>2 DEF TagsIn
  <2>3. ASSUME NEW t \in TagsIn(d) PROVE t \in TagsIn(c \o d)
    <3>1. PICK i \in 1..n : \E j \in DOMAIN d[i].tags : t = d[i].tags[j]
      BY <1>1 DEF TagsIn
    <3>2. m + i \in DOMAIN (c \o d) /\ (c \o d)[m + i] = d[i]
      BY <1>1, <1>3
    <3>3. PICK j \in DOMAIN d[i].tags : t = d[i].tags[j]
      BY <3>1
    <3>4. j \in DOMAIN (c \o d)[m + i].tags /\ t = (c \o d)[m + i].tags[j]
      BY <3>2, <3>3
    <3> QED
      BY <3>2, <3>4, InTagsIn
  <2> QED
    BY <2>1, <2>2, <2>3
<1>7. Keys(c \o d) = Keys(c) \cup Keys(d)
  <2>1. ASSUME NEW k \in Keys(c \o d) PROVE k \in Keys(c) \cup Keys(d)
    BY <1>1, <1>4 DEF Keys
  <2>2. ASSUME NEW k \in Keys(c) PROVE k \in Keys(c \o d)
    BY <1>1, <1>2 DEF Keys
  <2>3. ASSUME NEW k \in Keys(d) PROVE k \in Keys(c \o d)
    <3>1. PICK i \in 1..n : k = d[i].key
      BY <1>1 DEF Keys
    <3>2. m + i \in DOMAIN (c \o d) /\ (c \o d)[m + i] = d[i]
      BY <1>1, <1>3
    <3> QED
      BY <3>1, <3>2 DEF Keys
  <2> QED
    BY <2>1, <2>2, <2>3
<1> QED
  BY <1>5, <1>6, <1>7

(* Every imported object is one device, with some of its variables.        *)
LEMMA NodesetFacts ==
  /\ IsSeq(NodesetDevices)
  /\ DOMAIN NodesetDevices = DOMAIN Nodeset
  /\ \A i \in DOMAIN Nodeset : NodesetDevices[i].key = Nodeset[i].key
<1>1. PICK n \in Nat : DOMAIN Nodeset = 1..n
  BY SoundAssumption, LenProperties DEF IsSeq
<1>2. /\ DOMAIN NodesetDevices = 1..n
      /\ \A i \in 1..n : NodesetDevices[i].key = Nodeset[i].key
      /\ NodesetDevices = [i \in 1..n |-> NodesetDevices[i]]
  BY <1>1 DEF NodesetDevices
<1>3. NodesetDevices \in [1..n -> ToSet(NodesetDevices)]
  BY <1>2, Zenon DEF ToSet
<1> QED
  BY <1>1, <1>2, <1>3 DEF IsSeq

LEMMA NodesetTags ==
  ASSUME NEW i \in DOMAIN Nodeset, IsSeq(Nodeset[i].tags), Once(Nodeset[i].tags)
  PROVE  /\ IsSeq(NodesetDevices[i].tags)
         /\ Once(NodesetDevices[i].tags)
         /\ ToSet(NodesetDevices[i].tags) \subseteq ToSet(Nodeset[i].tags)
<1> DEFINE all == Nodeset[i].tags
           S == {tag \in ToSet(all) : tag.type # Unsupported}
<1>1. NodesetDevices[i].tags = Filter(all, S)
  BY DEF NodesetDevices
<1> HIDE DEF S
<1>2. all \in Seq(ToSet(all))
  BY DEF IsSeq
<1>3. /\ Filter(all, S) \in Seq(ToSet(all)) /\ Once(Filter(all, S))
      /\ ToSet(Filter(all, S)) = ToSet(all) \cap S
  BY <1>2, FilterType, FilterOnce, FilterToSet
<1> HIDE DEF all
<1>4. Filter(all, S) \in Seq(ToSet(Filter(all, S)))
  BY <1>3, LenProperties DEF ToSet
<1> QED
  BY <1>1, <1>3, <1>4 DEF IsSeq, all

(* What a configuration and the imported objects have in common: nothing.  *)
LEMMA DistinctDevices ==
  ASSUME NEW c \in Configs
  PROVE  Distinct(c \o NodesetDevices)
<1> DEFINE A == c \o Nodeset
           B == c \o NodesetDevices
<1>1. Distinct(A) /\ IsSeq(c) /\ IsSeq(Nodeset)
  BY SoundAssumption
<1>2. PICK m \in Nat, n \in Nat :
        /\ DOMAIN c = 1..m /\ DOMAIN Nodeset = 1..n
        /\ DOMAIN A = 1..(m + n) /\ DOMAIN B = 1..(m + n)
        /\ \A i \in 1..(m + n) : A[i] = IF i <= m THEN c[i] ELSE Nodeset[i - m]
        /\ \A i \in 1..(m + n) : B[i] = IF i <= m THEN c[i] ELSE NodesetDevices[i - m]
        /\ B \in Seq(ToSet(c) \cup ToSet(NodesetDevices))
  <2> DEFINE X == ToSet(c) \cup ToSet(Nodeset) \cup ToSet(NodesetDevices)
             Y == ToSet(c) \cup ToSet(NodesetDevices)
  <2>1. c \in Seq(X) /\ Nodeset \in Seq(X) /\ NodesetDevices \in Seq(X)
    BY <1>1, NodesetFacts, SeqMonotonic DEF IsSeq
  <2>2. c \in Seq(Y) /\ NodesetDevices \in Seq(Y)
    BY <1>1, NodesetFacts, SeqMonotonic DEF IsSeq
  <2>3. DOMAIN NodesetDevices = DOMAIN Nodeset
    BY NodesetFacts
  <2> HIDE DEF X, Y
  <2>4. Len(NodesetDevices) = Len(Nodeset)
    BY <2>1, <2>3, LenProperties
  <2>5. B \in Seq(Y)
    BY <2>2, ConcatProperties
  <2>6. /\ Len(c) \in Nat /\ DOMAIN c = 1..Len(c)
        /\ Len(Nodeset) \in Nat /\ DOMAIN Nodeset = 1..Len(Nodeset)
    BY <2>1, LenProperties
  <2>7. /\ DOMAIN A = 1..(Len(c) + Len(Nodeset))
        /\ \A i \in 1..(Len(c) + Len(Nodeset)) :
             A[i] = IF i <= Len(c) THEN c[i] ELSE Nodeset[i - Len(c)]
    BY <2>1, ConcatProperties, LenProperties
  <2>8. /\ DOMAIN B = 1..(Len(c) + Len(Nodeset))
        /\ \A i \in 1..(Len(c) + Len(Nodeset)) :
             B[i] = IF i <= Len(c) THEN c[i] ELSE NodesetDevices[i - Len(c)]
    <3>1. /\ DOMAIN B = 1..(Len(c) + Len(NodesetDevices))
          /\ \A i \in 1..(Len(c) + Len(NodesetDevices)) :
               B[i] = IF i <= Len(c) THEN c[i] ELSE NodesetDevices[i - Len(c)]
      BY <2>1, ConcatProperties, LenProperties
    <3> HIDE DEF B
    <3> QED
      BY <2>4, <3>1
  <2> QED
    BY <2>5, <2>6, <2>7, <2>8 DEF Y
<1> HIDE DEF A, B
<1>3. \A i \in 1..(m + n) : /\ IsSeq(A[i].tags)
                           /\ \A k, l \in DOMAIN A[i].tags :
                                A[i].tags[k].nodeId = A[i].tags[l].nodeId => k = l
  <2>1. \A i \in 1..(m + n) : IsSeq(A[i].tags)
    BY <1>1, <1>2 DEF Distinct
  <2>2. \A i, j \in 1..(m + n) : \A k \in DOMAIN A[i].tags, l \in DOMAIN A[j].tags :
          A[i].tags[k].nodeId = A[j].tags[l].nodeId => i = j /\ k = l
    BY <1>1, <1>2 DEF Distinct
  <2> QED
    BY <2>1, <2>2
<1>4. \A i \in 1..(m + n) : Once(A[i].tags)
  BY <1>3 DEF Once
<1>5. ASSUME NEW i \in 1..(m + n)
      PROVE  /\ B[i].key = A[i].key
             /\ IsSeq(B[i].tags) /\ Once(B[i].tags)
             /\ ToSet(B[i].tags) \subseteq ToSet(A[i].tags)
  <2>1. CASE i <= m
    BY <1>2, <1>3, <1>4, <2>1
  <2>2. CASE ~(i <= m)
    <3>1. i - m \in DOMAIN Nodeset
      BY <1>2, <2>2
    <3>2. A[i] = Nodeset[i - m] /\ B[i] = NodesetDevices[i - m]
      BY <1>2, <2>2
    <3>3. IsSeq(Nodeset[i - m].tags) /\ Once(Nodeset[i - m].tags)
      BY <1>3, <1>4, <3>2
    <3> QED
      BY <3>1, <3>2, <3>3, NodesetFacts, NodesetTags
  <2> QED
    BY <2>1, <2>2
<1>6. IsSeq(B)
  <2>1. B \in Seq(ToSet(B))
    BY <1>2, LenProperties DEF ToSet
  <2> QED
    BY <2>1 DEF IsSeq
<1>7. \A i \in 1..(m + n) : \A k \in DOMAIN B[i].tags :
        \E p \in DOMAIN A[i].tags : B[i].tags[k] = A[i].tags[p]
  BY <1>5 DEF ToSet
<1>8. ASSUME NEW i \in 1..(m + n), NEW j \in 1..(m + n),
             NEW k \in DOMAIN B[i].tags, NEW l \in DOMAIN B[j].tags
      PROVE  /\ B[i].tags[k].nodeId = B[j].tags[l].nodeId => i = j /\ k = l
             /\ i = j /\ B[i].tags[k].browseName = B[j].tags[l].browseName => k = l
  <2>1. PICK p \in DOMAIN A[i].tags : B[i].tags[k] = A[i].tags[p]
    BY <1>7
  <2>2. PICK q \in DOMAIN A[j].tags : B[j].tags[l] = A[j].tags[q]
    BY <1>7
  <2>3. B[i].tags[k].nodeId = B[j].tags[l].nodeId => i = j /\ p = q
    BY <1>1, <1>2, <2>1, <2>2 DEF Distinct
  <2>4. i = j /\ B[i].tags[k].browseName = B[j].tags[l].browseName => p = q
    BY <1>1, <1>2, <2>1, <2>2 DEF Distinct
  <2>5. i = j /\ p = q => k = l
    BY <1>5, <2>1, <2>2 DEF Once
  <2> QED
    BY <2>3, <2>4, <2>5
<1>9. \A i, j \in 1..(m + n) : B[i].key = B[j].key => i = j
  BY <1>1, <1>2, <1>5 DEF Distinct
<1>10. Distinct(B)
  BY <1>2, <1>5, <1>6, <1>8, <1>9 DEF Distinct
<1> QED
  BY <1>10 DEF B

(* The labels of tags, and the tags: of each nodeId one.                   *)
LEMMA LabelsAndTags ==
  ASSUME NEW devices
  PROVE  /\ \A n : (\E l \in TagSet(devices) : l.nodeId = n)
                     <=> (\E t \in TagsIn(devices) : t.nodeId = n)
         /\ \A l \in TagSet(devices) : l.device \in Keys(devices)
         /\ Distinct(devices) =>
              /\ \A s, t \in TagSet(devices) : s.nodeId = t.nodeId => s = t
              /\ \A s, t \in TagsIn(devices) : s.nodeId = t.nodeId => s = t
<1>1. \A i \in DOMAIN devices : \A j \in DOMAIN devices[i].tags :
        /\ Label(devices[i], devices[i].tags[j]) \in TagSet(devices)
        /\ Label(devices[i], devices[i].tags[j]).nodeId = devices[i].tags[j].nodeId
  <2>1. ASSUME NEW i \in DOMAIN devices, NEW j \in DOMAIN devices[i].tags
        PROVE  Label(devices[i], devices[i].tags[j]) \in TagSet(devices)
    <3>1. Label(devices[i], devices[i].tags[j])
            \in {Label(devices[i], devices[i].tags[k]) : k \in DOMAIN devices[i].tags}
      OBVIOUS
    <3> QED
      BY <3>1, Zenon DEF TagSet
  <2> QED
    BY <2>1 DEF Label
<1>2. ASSUME NEW l \in TagSet(devices)
      PROVE  \E i \in DOMAIN devices : \E j \in DOMAIN devices[i].tags :
               /\ l.nodeId = devices[i].tags[j].nodeId
               /\ l.device = devices[i].key
  <2>1. PICK i \in DOMAIN devices :
          \E j \in DOMAIN devices[i].tags : l = Label(devices[i], devices[i].tags[j])
    BY DEF TagSet
  <2> QED
    BY <2>1 DEF Label
<1>3. ASSUME NEW t \in TagsIn(devices)
      PROVE  \E i \in DOMAIN devices : \E j \in DOMAIN devices[i].tags :
               t = devices[i].tags[j]
  BY DEF TagsIn
<1>4. ASSUME NEW n, NEW l \in TagSet(devices), l.nodeId = n
      PROVE  \E t \in TagsIn(devices) : t.nodeId = n
  BY <1>2, <1>4, InTagsIn
<1>5. ASSUME NEW n, NEW t \in TagsIn(devices), t.nodeId = n
      PROVE  \E l \in TagSet(devices) : l.nodeId = n
  BY <1>1, <1>3, <1>5
<1>6. \A l \in TagSet(devices) : l.device \in Keys(devices)
  BY <1>2 DEF Keys
<1>7. ASSUME Distinct(devices), NEW s \in TagSet(devices), NEW t \in TagSet(devices),
             s.nodeId = t.nodeId
      PROVE  s = t
  BY <1>7, TagsOfAll
<1>8. ASSUME Distinct(devices), NEW s \in TagsIn(devices), NEW t \in TagsIn(devices),
             s.nodeId = t.nodeId
      PROVE  s = t
  <2>1. PICK i \in DOMAIN devices : \E k \in DOMAIN devices[i].tags : s = devices[i].tags[k]
    BY <1>3
  <2>2. PICK k \in DOMAIN devices[i].tags : s = devices[i].tags[k]
    BY <2>1
  <2>3. PICK j \in DOMAIN devices : \E l \in DOMAIN devices[j].tags : t = devices[j].tags[l]
    BY <1>3
  <2>4. PICK l \in DOMAIN devices[j].tags : t = devices[j].tags[l]
    BY <2>3
  <2>5. i = j /\ k = l
    BY <1>8, <2>2, <2>4 DEF Distinct
  <2> QED
    BY <2>2, <2>4, <2>5
<1> QED
  BY <1>4, <1>5, <1>6, <1>7, <1>8

(* The imported tags are variables of the objects, of the same keys.       *)
LEMMA ImportedTags ==
  ASSUME NEW c \in Configs
  PROVE  /\ Keys(NodesetDevices) = Keys(Nodeset)
         /\ TagsIn(NodesetDevices) \subseteq TagsIn(Nodeset)
<1>1. Keys(NodesetDevices) = Keys(Nodeset)
  BY NodesetFacts, Zenon DEF Keys
<1>2. ASSUME NEW t \in TagsIn(NodesetDevices) PROVE t \in TagsIn(Nodeset)
  <2>1. PICK i \in DOMAIN Nodeset : \E j \in DOMAIN NodesetDevices[i].tags :
               t = NodesetDevices[i].tags[j]
    BY NodesetFacts DEF TagsIn
  <2>2. IsSeq(Nodeset[i].tags) /\ Once(Nodeset[i].tags)
    <3> DEFINE A == c \o Nodeset
    <3>1. Distinct(A) /\ c \in Seq(ToSet(c) \cup ToSet(Nodeset))
          /\ Nodeset \in Seq(ToSet(c) \cup ToSet(Nodeset))
      BY SoundAssumption, SeqMonotonic DEF IsSeq
    <3>2. Len(c) + i \in DOMAIN A /\ A[Len(c) + i] = Nodeset[i]
      BY <3>1, ConcatProperties, LenProperties
    <3> HIDE DEF A
    <3>3. /\ IsSeq(A[Len(c) + i].tags)
          /\ \A k, l \in DOMAIN A[Len(c) + i].tags :
               A[Len(c) + i].tags[k].nodeId = A[Len(c) + i].tags[l].nodeId => k = l
      BY <3>1, <3>2 DEF Distinct
    <3> QED
      BY <3>2, <3>3 DEF Once
  <2>3. ToSet(NodesetDevices[i].tags) \subseteq ToSet(Nodeset[i].tags)
    BY <2>2, NodesetTags
  <2>4. PICK j \in DOMAIN Nodeset[i].tags : t = Nodeset[i].tags[j]
    BY <2>1, <2>3 DEF ToSet
  <2> QED
    BY <2>4, InTagsIn
<1> QED
  BY <1>1, <1>2

(* What a device and an imported object have in common: nothing.           *)
LEMMA Apart ==
  ASSUME NEW c \in Configs, NEW t \in TagSet(NodesetDevices)
  PROVE  (\A s \in TagSet(c) : s.nodeId # t.nodeId) /\ t.device \notin Keys(c)
<1> DEFINE B == c \o NodesetDevices
           X == ToSet(c) \cup ToSet(NodesetDevices)
<1>1. Distinct(B) /\ c \in Seq(X) /\ NodesetDevices \in Seq(X)
  BY DistinctDevices, SoundAssumption, NodesetFacts, SeqMonotonic DEF IsSeq
<1>2. /\ Len(c) \in Nat /\ DOMAIN c = 1..Len(c)
      /\ \A i \in DOMAIN c : i \in DOMAIN B /\ B[i] = c[i]
      /\ \A i \in DOMAIN NodesetDevices :
           /\ Len(c) + i \in DOMAIN B /\ Len(c) + i \notin DOMAIN c
           /\ B[Len(c) + i] = NodesetDevices[i]
  <2> HIDE DEF X
  <2> QED
    BY <1>1, ConcatProperties, LenProperties
<1> HIDE DEF B
<1>3. /\ \A x, y \in DOMAIN B : B[x].key = B[y].key => x = y
      /\ \A x, y \in DOMAIN B : \A v \in DOMAIN B[x].tags, w \in DOMAIN B[y].tags :
           B[x].tags[v].nodeId = B[y].tags[w].nodeId => x = y
  BY <1>1, Zenon DEF Distinct
<1>4. PICK j \in DOMAIN NodesetDevices : \E l \in DOMAIN NodesetDevices[j].tags :
             t = Label(NodesetDevices[j], NodesetDevices[j].tags[l])
  BY DEF TagSet
<1>5. PICK l \in DOMAIN NodesetDevices[j].tags :
        t = Label(NodesetDevices[j], NodesetDevices[j].tags[l])
  BY <1>4
<1> DEFINE q == Len(c) + j
<1>6. /\ t.nodeId = B[q].tags[l].nodeId /\ t.device = B[q].key
      /\ l \in DOMAIN B[q].tags /\ q \in DOMAIN B /\ q \notin DOMAIN c
  BY <1>2, <1>5 DEF Label
<1> HIDE DEF q
<1>7. ASSUME NEW s \in TagSet(c), s.nodeId = t.nodeId PROVE FALSE
  <2>1. PICK i \in DOMAIN c : \E k \in DOMAIN c[i].tags : s = Label(c[i], c[i].tags[k])
    BY DEF TagSet
  <2>2. PICK k \in DOMAIN c[i].tags : s = Label(c[i], c[i].tags[k])
    BY <2>1
  <2>3. s.nodeId = B[i].tags[k].nodeId /\ k \in DOMAIN B[i].tags /\ i \in DOMAIN B
    BY <1>2, <2>2 DEF Label
  <2>4. B[i].tags[k].nodeId = B[q].tags[l].nodeId
    BY <1>6, <1>7, <2>3
  <2>5. i = q
    BY <1>3, <1>6, <2>3, <2>4, Zenon
  <2> QED
    BY <1>6, <2>5
<1>8. ASSUME t.device \in Keys(c) PROVE FALSE
  <2>1. PICK h \in DOMAIN c : t.device = c[h].key
    BY <1>8 DEF Keys
  <2>2. B[h].key = B[q].key /\ h \in DOMAIN B
    BY <1>2, <1>6, <2>1
  <2>3. h = q
    BY <1>3, <1>6, <2>2
  <2> QED
    BY <1>6, <2>3
<1> QED
  BY <1>7, <1>8

(* What the server knows with a configuration.                             *)
LEMMA Known ==
  ASSUME NEW c \in Configs
  PROVE  LET all == c \o NodesetDevices IN
         /\ TagSet(all) = TagSet(c) \cup TagSet(NodesetDevices)
         /\ TagsIn(all) = TagsIn(c) \cup TagsIn(NodesetDevices)
         /\ TagsIn(all) \subseteq TagsIn(c \o Nodeset)
         /\ \A l \in TagSet(all) : l.nodeId \in NodeIds /\ l.device # None
         /\ \A s, t \in TagSet(all) : s.nodeId = t.nodeId => s = t
         /\ \A s, t \in TagsIn(c \o Nodeset) : s.nodeId = t.nodeId => s = t
         /\ \A t \in TagsIn(c \o Nodeset) : t.nodeId \in NodeIds /\ t \in AnyTag
<1> DEFINE all == c \o NodesetDevices
<1>1. /\ TagSet(all) = TagSet(c) \cup TagSet(NodesetDevices)
      /\ TagsIn(all) = TagsIn(c) \cup TagsIn(NodesetDevices)
      /\ Keys(all) = Keys(c) \cup Keys(NodesetDevices)
      /\ TagsIn(c \o Nodeset) = TagsIn(c) \cup TagsIn(Nodeset)
      /\ Keys(c \o Nodeset) = Keys(c) \cup Keys(Nodeset)
  BY ConcatDevices, NodesetFacts, SoundAssumption
<1>2. TagsIn(all) \subseteq TagsIn(c \o Nodeset) /\ Keys(all) = Keys(c \o Nodeset)
  BY <1>1, ImportedTags
<1>3. Distinct(all) /\ Distinct(c \o Nodeset)
  BY DistinctDevices, SoundAssumption
<1>4. \A t \in TagsIn(c \o Nodeset) : t.nodeId \in NodeIds /\ t \in AnyTag
  BY SoundAssumption DEF AnyTag
<1>5. ASSUME NEW l \in TagSet(all) PROVE l.nodeId \in NodeIds /\ l.device # None
  <2>1. l.device \in Keys(all) /\ \E t \in TagsIn(all) : t.nodeId = l.nodeId
    BY LabelsAndTags
  <2> QED
    BY <1>2, <1>4, <2>1, SoundAssumption
<1>6. \A s, t \in TagSet(all) : s.nodeId = t.nodeId => s = t
  BY <1>3, LabelsAndTags
<1>7. \A s, t \in TagsIn(c \o Nodeset) : s.nodeId = t.nodeId => s = t
  BY <1>3, LabelsAndTags
<1> QED
  BY <1>1, <1>2, <1>4, <1>5, <1>6, <1>7

-----------------------------------------------------------------------------
(* What is registered, and what variables are added.                       *)

LEMMA Registers ==
  ASSUME NEW devices, NEW tags,
         \A s, t \in TagSet(devices) : s.nodeId = t.nodeId => s = t,
         \A s, t \in TagsIn(devices) : s.nodeId = t.nodeId => s = t
  PROVE  /\ Register(devices, tags) = [n \in NodeIds |-> Register(devices, tags)[n]]
         /\ \A n \in NodeIds, l \in TagSet(devices), t \in TagsIn(devices) :
              l.nodeId = n /\ t.nodeId = n =>
                Register(devices, tags)[n] = [device |-> l.device, value |-> t.value]
         /\ \A n \in NodeIds : (\A l \in TagSet(devices) : l.nodeId # n)
              => Register(devices, tags)[n] = tags[n]
<1>1. Register(devices, tags) = [n \in NodeIds |-> Register(devices, tags)[n]]
  BY DEF Register
<1>2. ASSUME NEW n \in NodeIds, NEW l \in TagSet(devices), NEW t \in TagsIn(devices),
             l.nodeId = n, t.nodeId = n
      PROVE  Register(devices, tags)[n] = [device |-> l.device, value |-> t.value]
  <2>1. (CHOOSE u \in TagSet(devices) : u.nodeId = n) = l
    BY <1>2
  <2>2. (CHOOSE u \in TagsIn(devices) : u.nodeId = n) = t
    BY <1>2
  <2>3. Register(devices, tags)[n] =
          [device |-> (CHOOSE u \in TagSet(devices) : u.nodeId = n).device,
           value |-> (CHOOSE u \in TagsIn(devices) : u.nodeId = n).value]
    BY <1>2 DEF Register
  <2> QED
    BY <2>1, <2>2, <2>3
<1>3. ASSUME NEW n \in NodeIds, \A l \in TagSet(devices) : l.nodeId # n
      PROVE  Register(devices, tags)[n] = tags[n]
  <2>1. ~(\E t \in TagsIn(devices) : t.nodeId = n)
    BY <1>3, LabelsAndTags
  <2> QED
    BY <2>1 DEF Register
<1> QED
  BY <1>1, <1>2, <1>3

LEMMA Adds ==
  ASSUME NEW devices, NEW values,
         \A s, t \in TagsIn(devices) : s.nodeId = t.nodeId => s = t
  PROVE  /\ AddVariables(devices, values) = [n \in NodeIds |-> AddVariables(devices, values)[n]]
         /\ \A n \in NodeIds, t \in TagsIn(devices) :
              t.nodeId = n => AddVariables(devices, values)[n] = t.value
         /\ \A n \in NodeIds : (\A t \in TagsIn(devices) : t.nodeId # n)
              => AddVariables(devices, values)[n] = values[n]
<1>1. ASSUME NEW n \in NodeIds, NEW t \in TagsIn(devices), t.nodeId = n
      PROVE  AddVariables(devices, values)[n] = t.value
  <2>1. (CHOOSE u \in TagsIn(devices) : u.nodeId = n) = t
    BY <1>1
  <2>2. AddVariables(devices, values)[n] = (CHOOSE u \in TagsIn(devices) : u.nodeId = n).value
    BY <1>1 DEF AddVariables
  <2> QED
    BY <2>1, <2>2
<1>2. AddVariables(devices, values) = [n \in NodeIds |-> AddVariables(devices, values)[n]]
  BY DEF AddVariables
<1>3. \A n \in NodeIds : (\A t \in TagsIn(devices) : t.nodeId # n)
        => AddVariables(devices, values)[n] = values[n]
  BY DEF AddVariables
<1> QED
  BY <1>1, <1>2, <1>3

LEMMA RuntimeInit == Init => RuntimeInv
<1> SUFFICES ASSUME Init PROVE RuntimeInv
  OBVIOUS
<1> DEFINE empty == [n \in NodeIds |-> NoValue]
           none == [n \in NodeIds |-> NoTag]
           all == registry \o NodesetDevices
           every == registry \o Nodeset
<1>1. /\ registry \in Configs
      /\ node = AddVariables(every, empty)
      /\ runtime = Register(all, none)
  BY DEF Init
<1>2. /\ TagsIn(all) \subseteq TagsIn(every)
      /\ \A l \in TagSet(all) : l.nodeId \in NodeIds
      /\ \A s, t \in TagSet(all) : s.nodeId = t.nodeId => s = t
      /\ \A s, t \in TagsIn(every) : s.nodeId = t.nodeId => s = t
      /\ \A t \in TagsIn(every) : t \in AnyTag
  BY <1>1, Known
<1>3. /\ \A n \in NodeIds : empty[n] = NoValue
      /\ \A n \in NodeIds : none[n] = NoTag
  OBVIOUS
<1>4. \A n : (\E l \in TagSet(all) : l.nodeId = n) <=> (\E t \in TagsIn(all) : t.nodeId = n)
  BY LabelsAndTags
<1> HIDE DEF empty, none, all, every
<1>5. /\ runtime = [n \in NodeIds |-> runtime[n]]
      /\ \A n \in NodeIds, l \in TagSet(all), t \in TagsIn(all) :
           l.nodeId = n /\ t.nodeId = n => runtime[n] = [device |-> l.device, value |-> t.value]
      /\ \A n \in NodeIds : (\A l \in TagSet(all) : l.nodeId # n) => runtime[n] = NoTag
  <2>1. \A s, t \in TagsIn(all) : s.nodeId = t.nodeId => s = t
    BY <1>2
  <2> QED
    BY <1>1, <1>2, <1>3, <2>1, Registers
<1>6. /\ node = [n \in NodeIds |-> node[n]]
      /\ \A n \in NodeIds, t \in TagsIn(every) : t.nodeId = n => node[n] = t.value
      /\ \A n \in NodeIds : (\A t \in TagsIn(every) : t.nodeId # n) => node[n] = NoValue
  BY <1>1, <1>2, <1>3, Adds
<1>7. ASSUME NEW n \in NodeIds
      PROVE  node[n] \in Values \cup {t.value : t \in AnyTag} \cup {NoValue}
  BY <1>2, <1>6
<1>8. ASSUME NEW l \in TagSet(all)
      PROVE  runtime[l.nodeId] = [device |-> l.device, value |-> node[l.nodeId]]
  <2>1. PICK t \in TagsIn(all) : t.nodeId = l.nodeId
    BY <1>4
  <2> QED
    BY <1>2, <1>5, <1>6, <2>1
<1>9. node \in [NodeIds -> Values \cup {t.value : t \in AnyTag} \cup {NoValue}]
  <2> DEFINE V == Values \cup {t.value : t \in AnyTag} \cup {NoValue}
  <2>1. \A n \in NodeIds : node[n] \in V
    BY <1>7
  <2> HIDE DEF V
  <2>2. node \in [NodeIds -> V]
    BY <1>6, <2>1
  <2> QED
    BY <2>2 DEF V
<1> QED
  BY <1>1, <1>5, <1>8, <1>9 DEF RuntimeInv, AllDeviceEntries, all

LEMMA RuntimeReload ==
  ASSUME RuntimeInv, NEW config \in Configs, Reload(config)
  PROVE  RuntimeInv'
<1> DEFINE old == registry \o NodesetDevices
           all == config \o NodesetDevices
           left == UnregisterDevices(Keys(registry), runtime)
           rest == DeleteVariables(registry, node)
           V == Values \cup {t.value : t \in AnyTag} \cup {NoValue}
<1>1. /\ registry' = config
      /\ node' = AddVariables(config, rest)
      /\ runtime' = Register(config, left)
  BY DEF Reload
<1>2. /\ registry \in Configs /\ node \in [NodeIds -> V]
      /\ \A t \in TagSet(old) : runtime[t.nodeId] = [device |-> t.device, value |-> node[t.nodeId]]
      /\ \A n \in NodeIds : (\A t \in TagSet(old) : t.nodeId # n) => runtime[n] = NoTag
  BY DEF RuntimeInv, AllDeviceEntries
<1>3. /\ TagSet(all) = TagSet(config) \cup TagSet(NodesetDevices)
      /\ TagsIn(config) \subseteq TagsIn(config \o Nodeset)
      /\ \A l \in TagSet(all) : l.nodeId \in NodeIds
      /\ \A s, t \in TagSet(config) : s.nodeId = t.nodeId => s = t
      /\ \A s, t \in TagsIn(config) : s.nodeId = t.nodeId => s = t
      /\ \A t \in TagsIn(config) : t \in AnyTag
  BY Known
<1>4. /\ TagSet(old) = TagSet(registry) \cup TagSet(NodesetDevices)
      /\ \A l \in TagSet(old) : l.device # None
      /\ \A l \in TagSet(registry) : l.device \in Keys(registry)
  BY <1>2, Known, LabelsAndTags
<1>5. /\ \A n : (\E l \in TagSet(config) : l.nodeId = n) <=> (\E t \in TagsIn(config) : t.nodeId = n)
      /\ \A n : (\E l \in TagSet(registry) : l.nodeId = n)
                  <=> (\E t \in TagsIn(registry) : t.nodeId = n)
  BY LabelsAndTags
<1>6. \A n \in NodeIds : left[n] = IF runtime[n].device \in Keys(registry) THEN NoTag ELSE runtime[n]
  BY DEF UnregisterDevices
<1>7. \A n \in NodeIds : rest[n] = IF \E t \in TagsIn(registry) : t.nodeId = n THEN NoValue ELSE node[n]
  BY DEF DeleteVariables
<1> HIDE DEF old, all, left, rest, V
<1>8. /\ runtime' = [n \in NodeIds |-> runtime'[n]]
      /\ \A n \in NodeIds, l \in TagSet(config), t \in TagsIn(config) :
           l.nodeId = n /\ t.nodeId = n => runtime'[n] = [device |-> l.device, value |-> t.value]
      /\ \A n \in NodeIds : (\A l \in TagSet(config) : l.nodeId # n) => runtime'[n] = left[n]
  BY <1>1, <1>3, Registers
<1>9. /\ node' = [n \in NodeIds |-> node'[n]]
      /\ \A n \in NodeIds, t \in TagsIn(config) : t.nodeId = n => node'[n] = t.value
      /\ \A n \in NodeIds : (\A t \in TagsIn(config) : t.nodeId # n) => node'[n] = rest[n]
  BY <1>1, <1>3, Adds
<1>10. node' \in [NodeIds -> V]
  <2>1. ASSUME NEW n \in NodeIds PROVE node'[n] \in V
    <3>1. CASE \E t \in TagsIn(config) : t.nodeId = n
      <4>1. PICK t \in TagsIn(config) : t.nodeId = n
        BY <3>1
      <4> QED
        BY <1>3, <1>9, <4>1 DEF V
    <3>2. CASE \A t \in TagsIn(config) : t.nodeId # n
      <4>1. node'[n] = NoValue \/ node'[n] = node[n]
        BY <1>7, <1>9, <3>2
      <4>2. NoValue \in V
        BY DEF V
      <4> QED
        BY <1>2, <4>1, <4>2
    <3> QED
      BY <3>1, <3>2
  <2> QED
    BY <1>9, <2>1
(* The tags of the file, those imported, and what is no tag.               *)
<1>11. ASSUME NEW l \in TagSet(config)
       PROVE  runtime'[l.nodeId] = [device |-> l.device, value |-> node'[l.nodeId]]
  <2>1. PICK t \in TagsIn(config) : t.nodeId = l.nodeId
    BY <1>5
  <2>2. l.nodeId \in NodeIds
    BY <1>3
  <2> QED
    BY <1>8, <1>9, <2>1, <2>2
<1>12. ASSUME NEW l \in TagSet(NodesetDevices)
       PROVE  runtime'[l.nodeId] = [device |-> l.device, value |-> node'[l.nodeId]]
  <2> DEFINE n == l.nodeId
  <2>1. /\ \A s \in TagSet(config) : s.nodeId # n
        /\ \A s \in TagSet(registry) : s.nodeId # n
        /\ l.device \notin Keys(registry)
    BY <1>2, Apart
  <2>2. n \in NodeIds /\ runtime[n] = [device |-> l.device, value |-> node[n]]
    BY <1>2, <1>3, <1>4
  <2> HIDE DEF n
  <2>3. left[n] = runtime[n] /\ rest[n] = node[n]
    BY <1>5, <1>6, <1>7, <2>1, <2>2
  <2>4. runtime'[n] = left[n]
    BY <1>8, <2>1, <2>2
  <2>5. node'[n] = rest[n]
    BY <1>5, <1>9, <2>1, <2>2
  <2> QED
    BY <2>2, <2>3, <2>4, <2>5 DEF n
<1>13. ASSUME NEW n \in NodeIds, \A t \in TagSet(all) : t.nodeId # n
       PROVE  runtime'[n] = NoTag
  <2>1. /\ \A t \in TagSet(config) : t.nodeId # n
        /\ \A t \in TagSet(NodesetDevices) : t.nodeId # n
    BY <1>3, <1>13
  <2>2. runtime'[n] = left[n]
    BY <1>8, <2>1
  <2>3. CASE \E l \in TagSet(registry) : l.nodeId = n
    <3>1. PICK l \in TagSet(registry) : l.nodeId = n
      BY <2>3
    <3>2. l \in TagSet(old) /\ l.device \in Keys(registry)
      BY <1>4
    <3>3. runtime[n] = [device |-> l.device, value |-> node[n]]
      BY <1>2, <3>1, <3>2
    <3> QED
      BY <1>6, <2>2, <3>2, <3>3
  <2>4. CASE \A l \in TagSet(registry) : l.nodeId # n
    <3>1. runtime[n] = NoTag
      BY <1>2, <1>4, <2>1, <2>4
    <3> QED
      BY <1>6, <2>2, <3>1
  <2> QED
    BY <2>3, <2>4
<1>14. \A t \in TagSet(all) : runtime'[t.nodeId] = [device |-> t.device, value |-> node'[t.nodeId]]
  BY <1>3, <1>11, <1>12
<1>15. TagSet(AllDeviceEntries)' = TagSet(all)
  BY <1>1 DEF AllDeviceEntries, NodesetDevices, all
<1> QED
  BY <1>1, <1>8, <1>10, <1>13, <1>14, <1>15 DEF RuntimeInv, V, AnyTag

LEMMA RuntimeWrite ==
  ASSUME RuntimeInv, NEW n \in NodeIds, NEW value \in Values, Write(n, value)
  PROVE  /\ RuntimeInv'
         /\ GetValue(n) = node[n]
<1> DEFINE all == registry \o NodesetDevices
           V == Values \cup {t.value : t \in AnyTag} \cup {NoValue}
           change == Change(n, value)
<1>1. /\ \E t \in TagsIn(all) : t.nodeId = n
      /\ runtime' = [runtime EXCEPT ![change.nodeId].value =
                       IF runtime[change.nodeId] = NoTag THEN @ ELSE change.new]
      /\ node' = [node EXCEPT ![n] = value] /\ registry' = registry
  BY DEF Write, RecordChange
<1>2. change.nodeId = n /\ change.new = value
  BY DEF Change
<1>3. /\ registry \in Configs /\ node \in [NodeIds -> V]
      /\ runtime = [m \in NodeIds |-> runtime[m]]
      /\ \A t \in TagSet(all) : runtime[t.nodeId] = [device |-> t.device, value |-> node[t.nodeId]]
      /\ \A m \in NodeIds : (\A t \in TagSet(all) : t.nodeId # m) => runtime[m] = NoTag
  BY DEF RuntimeInv, AllDeviceEntries
<1>4. PICK l \in TagSet(all) : l.nodeId = n
  BY <1>1, LabelsAndTags
<1>5. /\ \A t \in TagSet(all) : t.nodeId \in NodeIds /\ t.device # None
      /\ \A s, t \in TagSet(all) : s.nodeId = t.nodeId => s = t
  BY <1>3, Known
<1>6. runtime[n] = [device |-> l.device, value |-> node[n]]
  BY <1>3, <1>4
<1>7. runtime[n] # NoTag
  BY <1>4, <1>5, <1>6 DEF NoTag
<1> HIDE DEF all, V, change
<1>8. /\ runtime' = [m \in NodeIds |-> runtime'[m]]
      /\ runtime'[n] = [device |-> l.device, value |-> value]
      /\ \A m \in NodeIds : m # n => runtime'[m] = runtime[m]
  BY <1>1, <1>2, <1>3, <1>6, <1>7
<1>9. /\ node' \in [NodeIds -> V] /\ node'[n] = value
      /\ \A m \in NodeIds : m # n => node'[m] = node[m]
  BY <1>1, <1>3 DEF V
<1>10. ASSUME NEW t \in TagSet(all)
       PROVE  runtime'[t.nodeId] = [device |-> t.device, value |-> node'[t.nodeId]]
  BY <1>3, <1>4, <1>5, <1>8, <1>9
<1>11. ASSUME NEW m \in NodeIds, \A t \in TagSet(all) : t.nodeId # m
       PROVE  runtime'[m] = NoTag
  BY <1>3, <1>4, <1>8, <1>11
<1>12. TagSet(AllDeviceEntries)' = TagSet(all)
  BY <1>1 DEF AllDeviceEntries, NodesetDevices, all
<1>13. RuntimeInv'
  BY <1>1, <1>3, <1>8, <1>9, <1>10, <1>11, <1>12 DEF RuntimeInv, V, AnyTag
<1> QED
  BY <1>6, <1>13 DEF GetValue

LEMMA RuntimeUnchanged ==
  ASSUME RuntimeInv, registry' = registry, node' = node, runtime' = runtime
  PROVE  RuntimeInv'
BY DEF RuntimeInv, AllDeviceEntries, NodesetDevices, AnyTag

(* The old value of a change is that of the runtime.                       *)
LEMMA OldIsRuntime ==
  ASSUME RuntimeInv, NEW n \in NodeIds, NEW value \in Values, Write(n, value)
  PROVE  Change(n, value).old = GetValue(n) /\ Change(n, value).nodeId = n
BY RuntimeWrite DEF Change, OldValue

-----------------------------------------------------------------------------
(* Sequences of whatever there is.                                         *)

LEMMA SeqIsSeq ==
  ASSUME NEW X, NEW s \in Seq(X)
  PROVE  IsSeq(s)
BY LenProperties DEF IsSeq, ToSet

LEMMA EmptyIsSeq == IsSeq(<<>>) /\ ToSet(<<>>) = {} /\ Len(<<>>) = 0
BY EmptySeq DEF IsSeq, ToSet

LEMMA OneIsSeq ==
  ASSUME NEW e
  PROVE  /\ IsSeq(<<e>>) /\ ToSet(<<e>>) = {e} /\ <<e>> # <<>>
         /\ Head(<<e>>) = e /\ Tail(<<e>>) = <<>> /\ Len(<<e>>) = 1
         /\ SubSeq(<<e>>, 1, 0) = <<>> /\ SubSeq(<<e>>, 1, 1) = <<e>>
<1>1. <<e>> \in Seq({e}) /\ Len(<<e>>) = 1 /\ Head(<<e>>) = e /\ Tail(<<e>>) = <<>>
  OBVIOUS
<1>2. ToSet(<<e>>) = {e}
  <2>1. DOMAIN <<e>> = {1} /\ <<e>>[1] = e
    OBVIOUS
  <2> QED
    BY <2>1, Zenon DEF ToSet
<1>3. <<e>> # <<>>
  OBVIOUS
<1>4. IsSeq(<<e>>)
  BY <1>1, SeqIsSeq
<1>5. SubSeq(<<e>>, 1, 0) = <<>> /\ SubSeq(<<e>>, 1, 1) = <<e>>
  <2> DEFINE s == <<e>>
  <2>1. s \in Seq({e}) /\ Len(s) = 1
    BY <1>1
  <2> HIDE DEF s
  <2>2. SubSeq(s, 1, Len(s)) = s
    BY <2>1, SubSeqFull
  <2>3. SubSeq(s, 1, 0) = <<>>
    BY SubSeqEmpty
  <2> QED
    BY <2>1, <2>2, <2>3 DEF s
<1> QED
  BY <1>1, <1>2, <1>3, <1>4, <1>5

LEMMA TwoIsSeq ==
  ASSUME NEW d, NEW e
  PROVE  /\ Append(<<d>>, e) = <<d, e>> /\ IsSeq(<<d, e>>) /\ <<d, e>> # <<>>
         /\ Head(<<d, e>>) = d /\ Tail(<<d, e>>) = <<e>>
<1>1. <<d>> \in Seq({d, e}) /\ <<d, e>> \in Seq({d, e})
  OBVIOUS
<1>2. Append(<<d>>, e) = <<d, e>>
  <2> DEFINE s == Append(<<d>>, e)
             t == <<d, e>>
  <2>1. s \in Seq({d, e}) /\ Len(s) = 2 /\ s[1] = d /\ s[2] = e
    BY <1>1
  <2>2. t \in Seq({d, e}) /\ Len(t) = 2 /\ t[1] = d /\ t[2] = e
    BY <1>1
  <2> HIDE DEF s, t
  <2>3. \A i \in 1..Len(s) : s[i] = t[i]
    BY <2>1, <2>2
  <2>4. s = t
    BY <2>1, <2>2, <2>3, SeqEqual
  <2> QED
    BY <2>4 DEF s, t
<1>3. Head(<<d, e>>) = d /\ Tail(<<d, e>>) = <<e>> /\ <<d, e>> # <<>>
  BY <1>1
<1> QED
  BY <1>1, <1>2, <1>3, SeqIsSeq

LEMMA AppendIsSeq ==
  ASSUME NEW s, IsSeq(s), NEW e
  PROVE  /\ IsSeq(Append(s, e)) /\ ToSet(Append(s, e)) = ToSet(s) \cup {e}
         /\ Append(s, e) # s /\ Append(s, e)[Len(Append(s, e))] = e
         /\ Len(Append(s, e)) = Len(s) + 1 /\ Len(s) \in Nat
         /\ DOMAIN Append(s, e) = 1..(Len(s) + 1) /\ DOMAIN s = 1..Len(s)
         /\ \A i \in 1..Len(s) : Append(s, e)[i] = s[i]
         /\ Append(s, e)[Len(s) + 1] = e
<1> DEFINE X == ToSet(s) \cup {e}
<1>1. s \in Seq(X) /\ e \in X
  BY SeqMonotonic DEF IsSeq
<1> HIDE DEF X
<1>2. /\ Append(s, e) \in Seq(X)
      /\ Len(Append(s, e)) = Len(s) + 1 /\ Len(s) \in Nat
      /\ DOMAIN Append(s, e) = 1..(Len(s) + 1) /\ DOMAIN s = 1..Len(s)
      /\ \A i \in 1..Len(s) : Append(s, e)[i] = s[i]
      /\ Append(s, e)[Len(s) + 1] = e
  BY <1>1, AppendProperties, LenProperties
<1>3. ToSet(Append(s, e)) = ToSet(s) \cup {e}
  BY <1>1, ToSetAppend
<1>4. Append(s, e) # s
  <2> DEFINE t == Append(s, e)
  <2>1. Len(t) = Len(s) + 1 /\ Len(s) \in Nat
    BY <1>2, Zenon
  <2> HIDE DEF t
  <2>2. t # s
    BY <2>1
  <2> QED
    BY <2>2 DEF t
<1> QED
  BY <1>2, <1>3, <1>4, SeqIsSeq

LEMMA ConcatIsSeq ==
  ASSUME NEW s, NEW t, IsSeq(s), IsSeq(t)
  PROVE  IsSeq(s \o t) /\ ToSet(s \o t) = ToSet(s) \cup ToSet(t)
<1> DEFINE X == ToSet(s) \cup ToSet(t)
<1>1. s \in Seq(X) /\ t \in Seq(X)
  BY SeqMonotonic DEF IsSeq
<1> HIDE DEF X
<1>2. s \o t \in Seq(X) /\ ToSet(s \o t) = ToSet(s) \cup ToSet(t)
  BY <1>1, ToSetConcat, ConcatProperties
<1> QED
  BY <1>2, SeqIsSeq

LEMMA TailIsSeq ==
  ASSUME NEW s, IsSeq(s), s # <<>>
  PROVE  /\ IsSeq(Tail(s)) /\ ToSet(Tail(s)) \subseteq ToSet(s) /\ Head(s) \in ToSet(s)
         /\ Head(s) = s[1] /\ 1 \in DOMAIN s
         /\ Len(Tail(s)) = Len(s) - 1 /\ Len(s) \in Nat
         /\ \A i \in DOMAIN Tail(s) : i \in Nat \ {0} /\ i + 1 \in DOMAIN s /\ Tail(s)[i] = s[i + 1]
<1> DEFINE X == ToSet(s)
<1>1. s \in Seq(X)
  BY DEF IsSeq
<1> HIDE DEF X
<1>2. /\ Head(s) \in X /\ Tail(s) \in Seq(X) /\ Len(Tail(s)) = Len(s) - 1
      /\ \A i \in 1..Len(Tail(s)) : Tail(s)[i] = s[i + 1]
      /\ Len(s) \in Nat /\ DOMAIN s = 1..Len(s) /\ Len(s) # 0
      /\ DOMAIN Tail(s) = 1..Len(Tail(s)) /\ Len(Tail(s)) \in Nat
  BY <1>1, HeadTailProperties, LenProperties, EmptySeq
<1>3. Head(s) = s[1] /\ 1 \in DOMAIN s
  BY <1>1, <1>2
<1>4. \A i \in DOMAIN Tail(s) : i \in Nat \ {0} /\ i + 1 \in DOMAIN s /\ Tail(s)[i] = s[i + 1]
  BY <1>2
<1>5. ToSet(Tail(s)) \subseteq ToSet(s)
  BY <1>4 DEF ToSet
<1> QED
  BY <1>2, <1>3, <1>4, <1>5, SeqIsSeq DEF X

(* The first of the elements of a sequence.                                *)
LEMMA FrontIsSeq ==
  ASSUME NEW s, IsSeq(s), NEW n \in 0..Len(s)
  PROVE  /\ IsSeq(SubSeq(s, 1, n)) /\ Len(SubSeq(s, 1, n)) = n
         /\ DOMAIN SubSeq(s, 1, n) = 1..n /\ Len(s) \in Nat /\ DOMAIN s = 1..Len(s)
         /\ \A i \in 1..n : i \in DOMAIN s /\ SubSeq(s, 1, n)[i] = s[i]
<1> DEFINE X == ToSet(s)
<1>1. s \in Seq(X)
  BY DEF IsSeq
<1> HIDE DEF X
<1>2. /\ Len(s) \in Nat /\ DOMAIN s = 1..Len(s)
      /\ \A i \in 1..n : s[i] \in X /\ i \in DOMAIN s
  BY <1>1, LenProperties, ElementOfSeq
<1>3. /\ SubSeq(s, 1, n) \in Seq(X) /\ Len(SubSeq(s, 1, n)) = n
      /\ \A i \in 1..n : SubSeq(s, 1, n)[i] = s[i]
  BY <1>1, <1>2, SubSeqProperties
<1>4. DOMAIN SubSeq(s, 1, n) = 1..n
  BY <1>3, LenProperties
<1> QED
  BY <1>2, <1>3, <1>4, SeqIsSeq

-----------------------------------------------------------------------------
(* What is printed of some changes.                                        *)

(* The changes as they are read.                                           *)
LEMMA ReadIsSeq ==
  ASSUME NEW s, IsSeq(s)
  PROVE  /\ IsSeq(Read(s)) /\ Len(Read(s)) = Len(s) /\ Len(s) \in Nat
         /\ DOMAIN Read(s) = 1..Len(s) /\ DOMAIN s = 1..Len(s)
         /\ \A i \in 1..Len(s) : Read(s)[i] = AsRead(s[i])
<1>1. Len(s) \in Nat /\ DOMAIN s = 1..Len(s)
  BY LenProperties DEF IsSeq
<1> DEFINE n == Len(s)
<1>2. DOMAIN Read(s) = 1..n /\ (\A i \in 1..n : Read(s)[i] = AsRead(s[i]))
      /\ Read(s) = [i \in 1..n |-> Read(s)[i]]
  BY <1>1 DEF Read
<1> HIDE DEF n
<1>3. Read(s) \in [1..n -> ToSet(Read(s))]
  BY <1>2, Zenon DEF ToSet
<1>4. Read(s) \in Seq(ToSet(Read(s)))
  BY <1>1, <1>3 DEF n
<1>5. Len(Read(s)) = n
  BY <1>1, <1>2, <1>4, LenProperties DEF n
<1> QED
  BY <1>1, <1>2, <1>4, <1>5 DEF IsSeq, n

LEMMA ReadAppend ==
  ASSUME NEW s, IsSeq(s), NEW e
  PROVE  Read(Append(s, e)) = Append(Read(s), AsRead(e))
<1> DEFINE t == Read(Append(s, e))
           u == Append(Read(s), AsRead(e))
           n == Len(s) + 1
<1>1. Len(s) \in Nat /\ IsSeq(Append(s, e)) /\ IsSeq(Read(s)) /\ Len(Read(s)) = Len(s)
  BY AppendIsSeq, ReadIsSeq
<1>2. IsSeq(t) /\ Len(t) = n /\ \A i \in 1..n : t[i] = AsRead(Append(s, e)[i])
  <2> DEFINE v == Append(s, e)
  <2>1. IsSeq(v) /\ Len(v) = n
    BY AppendIsSeq
  <2> HIDE DEF v
  <2>2. IsSeq(Read(v)) /\ Len(Read(v)) = n /\ \A i \in 1..n : Read(v)[i] = AsRead(v[i])
    BY <2>1, ReadIsSeq
  <2> QED
    BY <2>2 DEF v
<1>3. IsSeq(u) /\ Len(u) = n /\ u[n] = AsRead(e) /\ \A i \in 1..Len(s) : u[i] = AsRead(s[i])
  BY <1>1, AppendIsSeq, ReadIsSeq
<1>4. \A i \in 1..n : t[i] = u[i]
  BY <1>1, <1>2, <1>3, AppendIsSeq
<1> HIDE DEF t, u
<1>5. t = u
  <2> DEFINE X == ToSet(t) \cup ToSet(u)
  <2>1. t \in Seq(X) /\ u \in Seq(X)
    BY <1>2, <1>3, SeqMonotonic DEF IsSeq
  <2> HIDE DEF X
  <2> QED
    BY <1>2, <1>3, <1>4, <2>1, SeqEqual
<1> QED
  BY <1>5 DEF t, u

Passes(ids, all, c) == c.nodeId \in ids /\ (all \/ c.significant)

LEMMA PrintedAppend ==
  ASSUME NEW ids, NEW all, NEW s, IsSeq(s), NEW e
  PROVE  PrintedOf(ids, all, Append(s, e))
           = IF Passes(ids, all, e) THEN Append(PrintedOf(ids, all, s), e)
             ELSE PrintedOf(ids, all, s)
<1> DEFINE X == ToSet(s) \cup {e}
           S == {c \in X : Passes(ids, all, c)}
           T == {c \in ToSet(s) : Passes(ids, all, c)}
<1>1. s \in Seq(X) /\ e \in X /\ ToSet(Append(s, e)) = X
  BY AppendIsSeq, SeqMonotonic DEF IsSeq
<1>2. PrintedOf(ids, all, Append(s, e)) = Filter(Append(s, e), S)
  BY <1>1 DEF PrintedOf, Passes
<1>3. PrintedOf(ids, all, s) = Filter(s, T)
  BY DEF PrintedOf, Passes
<1>4. Filter(s, T) = Filter(s, S)
  <2>1. \A c \in ToSet(s) : c \in T <=> c \in S
    OBVIOUS
  <2> HIDE DEF X, S, T
  <2> QED
    BY <1>1, <2>1, FilterAgrees
<1>5. e \in S <=> Passes(ids, all, e)
  OBVIOUS
<1> HIDE DEF X, S, T
<1>6. Filter(Append(s, e), S) = IF e \in S THEN Append(Filter(s, S), e) ELSE Filter(s, S)
  BY <1>1, FilterAppend
<1>7. CASE e \in S
  BY <1>2, <1>3, <1>4, <1>5, <1>6, <1>7
<1>8. CASE e \notin S
  BY <1>2, <1>3, <1>4, <1>5, <1>6, <1>8
<1> QED
  BY <1>7, <1>8

LEMMA PrintedConcat ==
  ASSUME NEW ids, NEW all, NEW s, NEW t, IsSeq(s), IsSeq(t)
  PROVE  /\ PrintedOf(ids, all, s \o t) = PrintedOf(ids, all, s) \o PrintedOf(ids, all, t)
         /\ IsSeq(PrintedOf(ids, all, s))
<1> DEFINE X == ToSet(s) \cup ToSet(t)
           S == {c \in X : c.nodeId \in ids /\ (all \/ c.significant)}
           P(u) == {c \in ToSet(u) : c.nodeId \in ids /\ (all \/ c.significant)}
<1>1. s \in Seq(X) /\ t \in Seq(X) /\ ToSet(s \o t) = X
  BY ConcatIsSeq, SeqMonotonic DEF IsSeq
<1>2. PrintedOf(ids, all, s \o t) = Filter(s \o t, S)
  BY <1>1 DEF PrintedOf
<1>3. PrintedOf(ids, all, s) = Filter(s, P(s)) /\ PrintedOf(ids, all, t) = Filter(t, P(t))
  BY DEF PrintedOf
<1>4. /\ \A c \in ToSet(s) : c \in P(s) <=> c \in S
      /\ \A c \in ToSet(t) : c \in P(t) <=> c \in S
  OBVIOUS
<1> HIDE DEF X, S, P
<1>5. Filter(s, P(s)) = Filter(s, S) /\ Filter(t, P(t)) = Filter(t, S)
  BY <1>1, <1>4, FilterAgrees
<1>6. Filter(s \o t, S) = Filter(s, S) \o Filter(t, S)
  BY <1>1, FilterConcat
<1>7. Filter(s, S) \in Seq(X)
  BY <1>1, FilterType
<1> QED
  BY <1>2, <1>3, <1>5, <1>6, <1>7, SeqIsSeq

(* Of the first changes the first that are printed are printed.            *)
LEMMA PrefixOfConcat ==
  ASSUME NEW s, NEW t, IsSeq(s), IsSeq(t)
  PROVE  IsPrefix(s, s \o t)
<1> DEFINE X == ToSet(s) \cup ToSet(t)
<1>1. s \in Seq(X) /\ t \in Seq(X)
  BY SeqMonotonic DEF IsSeq
<1> HIDE DEF X
<1>2. Len(s \o t) = Len(s) + Len(t) /\ Len(s) \in Nat /\ Len(t) \in Nat
  BY <1>1, ConcatProperties
<1>3. SubSeq(s \o t, 1, Len(s)) = s
  BY <1>1, SubSeqOfConcat1
<1>4. SubSeq(s, 1, Len(s)) = s
  BY <1>1, SubSeqFull
<1> QED
  BY <1>2, <1>3, <1>4 DEF IsPrefix

LEMMA PrintedOfFirst ==
  ASSUME NEW ids, NEW all, NEW s, IsSeq(s), NEW k \in 0..Len(s)
  PROVE  IsPrefix(PrintedOf(ids, all, SubSeq(s, 1, k)), PrintedOf(ids, all, s))
<1> DEFINE X == ToSet(s)
           t == SubSeq(s, 1, k)
           u == SubSeq(s, k + 1, Len(s))
<1>1. s \in Seq(X) /\ Len(s) \in Nat /\ k \in Nat /\ k <= Len(s)
  BY LenProperties DEF IsSeq
<1> HIDE DEF X
<1>2. s = t \o u
  <2>1. SubSeq(s, 1, Len(s)) = s
    BY <1>1, SubSeqFull
  <2>2. SubSeq(s, 1, k) \o SubSeq(s, k + 1, Len(s)) = SubSeq(s, 1, Len(s))
    <3>1. 1 \in 1..(Len(s) + 1) /\ k \in (1 - 1)..Len(s) /\ Len(s) \in k..Len(s)
      BY <1>1
    <3> QED
      BY <1>1, <3>1, ConcatAdjacentSubSeq
  <2> QED
    BY <2>1, <2>2
<1>3. IsSeq(t) /\ IsSeq(u)
  <2>1. t \in Seq(X) /\ u \in Seq(X)
    BY <1>1, ElementOfSeq, SubSeqProperties
  <2> QED
    BY <2>1, SeqIsSeq
<1> HIDE DEF t, u
<1>4. PrintedOf(ids, all, s) = PrintedOf(ids, all, t) \o PrintedOf(ids, all, u)
      /\ IsSeq(PrintedOf(ids, all, t)) /\ IsSeq(PrintedOf(ids, all, u))
  <2>1. PrintedOf(ids, all, t \o u) = PrintedOf(ids, all, t) \o PrintedOf(ids, all, u)
    BY <1>3, PrintedConcat
  <2>2. IsSeq(PrintedOf(ids, all, t)) /\ IsSeq(PrintedOf(ids, all, u))
    BY <1>3, PrintedConcat
  <2> QED
    BY <1>2, <2>1, <2>2
<1>5. IsPrefix(PrintedOf(ids, all, t), PrintedOf(ids, all, s))
  BY <1>4, PrefixOfConcat
<1> QED
  BY <1>5 DEF t

-----------------------------------------------------------------------------
(* What the server answers, and how the command takes it.                  *)

LEMMA Answers ==
  ASSUME NEW c \in Configs, NEW o \in CommandLines, AllowedTogether(o)
  PROVE  LET all == c \o NodesetDevices
             answer == ResolveTagSelector(all, BuildTagSelectorPayload(o))
         IN /\ answer.error = Selection(all, o).error
            /\ answer.tags \in Seq(TagSet(all)) /\ ToSet(answer.tags) = Selection(all, o).tags
            /\ answer.error \in {"none", "DEVICE_NOT_FOUND",
                                 "TAG_BROWSE_NAME_AMBIGUOUS", "TAG_NOT_FOUND"}
<1> DEFINE all == c \o NodesetDevices
<1>1. Distinct(all)
  BY DistinctDevices
<1>2. WellFormed(o)
  BY OptionsAssumption
<1> HIDE DEF all
<1>3. Selection(all, o).error \in {"none", "DEVICE_NOT_FOUND",
                                   "TAG_BROWSE_NAME_AMBIGUOUS", "TAG_NOT_FOUND"}
  BY DEF Selection, Resolved
<1>4. LET answer == ResolveTagSelector(all, BuildTagSelectorPayload(o))
      IN /\ answer.error = Selection(all, o).error
         /\ answer.tags \in Seq(TagSet(all)) /\ ToSet(answer.tags) = Selection(all, o).tags
  BY <1>1, <1>2, ResolvesAsDocumented
<1> QED
  BY <1>3, <1>4 DEF all

LEMMA ExitCodes ==
  ASSUME NEW error \in {"none", "DEVICE_NOT_FOUND",
                        "TAG_BROWSE_NAME_AMBIGUOUS", "TAG_NOT_FOUND"}
  PROVE  /\ ExitCode(error) \in {"SUCCESS", "DEVICE_ERROR", "TAG_ERROR"}
         /\ ExitCode(error) = "SUCCESS" <=> error = "none"
BY DEF ExitCode

(* What the selection is while the answer is under way or taken.           *)
LEMMA SelectedFacts ==
  ASSUME WasAsked, options \in CommandLines, AllowedTogether(options)
  PROVE  /\ Selected.error = Selection(askedOf.devices, options).error
         /\ Selected.tags \in Seq(TagSet(askedOf.devices))
         /\ ToSet(Selected.tags) = Selection(askedOf.devices, options).tags
         /\ \A t \in ToSet(Selected.tags) : t.nodeId \in NodeIds
         /\ Selected.error \in {"none", "DEVICE_NOT_FOUND",
                                "TAG_BROWSE_NAME_AMBIGUOUS", "TAG_NOT_FOUND"}
<1>1. PICK c \in Configs : askedOf.devices = c \o NodesetDevices
  BY DEF WasAsked
<1> DEFINE all == askedOf.devices
<1>2. /\ Selected.error = Selection(all, options).error
      /\ Selected.tags \in Seq(TagSet(all))
      /\ ToSet(Selected.tags) = Selection(all, options).tags
      /\ Selected.error \in {"none", "DEVICE_NOT_FOUND",
                             "TAG_BROWSE_NAME_AMBIGUOUS", "TAG_NOT_FOUND"}
  BY <1>1, Answers DEF Selected
<1>3. \A t \in TagSet(all) : t.nodeId \in NodeIds
  BY <1>1, Known
<1>4. ASSUME NEW t \in ToSet(Selected.tags) PROVE t \in TagSet(all)
  <2>1. PICK i \in DOMAIN Selected.tags : t = Selected.tags[i]
    BY DEF ToSet
  <2> DEFINE tags == Selected.tags
             X == TagSet(all)
  <2>2. tags \in Seq(X)
    BY <1>2
  <2> HIDE DEF tags, X
  <2>3. \A j \in DOMAIN tags : tags[j] \in X
    BY <2>2
  <2> QED
    BY <2>1, <2>3 DEF tags, X
<1> QED
  BY <1>2, <1>3, <1>4

-----------------------------------------------------------------------------
(* Every step preserves what is said of the command: first those that do   *)
(* not change it.                                                          *)

LEMMA CommandUnchanged ==
  ASSUME CommandInv, UNCHANGED <<written, commandVars, socketVars>>
  PROVE  CommandInv'
<1> USE DEF commandVars, socketVars
<1>1. TypeInv' /\ VerdictInv' /\ BeforeInv'
  BY DEF CommandInv, TypeInv, VerdictInv, BeforeInv
<1>2. Request' = Request /\ Response' = Response /\ Selected' = Selected /\ Data' = Data
      /\ WasAsked' = WasAsked
  BY DEF Request, Response, Selected, Data, WasAsked
<1>3. AskingInv' /\ AnsweredInv'
  BY <1>2 DEF CommandInv, AskingInv, AnsweredInv, Fin
<1>4. SubscriptionInv' /\ EventsInv'
  BY DEF CommandInv, SubscriptionInv, EventsInv
<1> QED
  BY <1>1, <1>3, <1>4 DEF CommandInv

LEMMA CommandWrite ==
  ASSUME CommandInv, NEW n \in NodeIds, NEW value \in Values, Write(n, value)
  PROVE  CommandInv'
<1> DEFINE change == Change(n, value)
<1> USE DEF commandVars
<1>1. /\ UNCHANGED <<commandVars, subscribed, serverEnd, toServer, askedOf>>
      /\ written' = written + 1 /\ written < MaxChanges
      /\ due' = IF Following THEN Append(due, change) ELSE due
      /\ toClient' = IF subscribed /\ serverEnd = "open" /\ phase # "exited"
                     THEN Append(toClient, Event(change)) ELSE toClient
  BY DEF Write, RecordChange, Publish, Sent, Event
<1> HIDE DEF change
<1>2. TypeInv
  BY DEF CommandInv
<1>3. IsSeq(due) /\ IsSeq(toClient) /\ Len(due) <= written /\ written \in 0..MaxChanges
      /\ MaxChanges \in Nat
  BY <1>2, SoundAssumption DEF TypeInv
<1>4. IsSeq(due') /\ IsSeq(toClient') /\ Len(due') <= written' /\ written' \in 0..MaxChanges
  <2>1. IsSeq(due') /\ Len(due') <= written'
    BY <1>1, <1>3, AppendIsSeq
  <2>2. IsSeq(toClient')
    BY <1>1, <1>3, AppendIsSeq
  <2> QED
    BY <1>1, <1>3, <2>1, <2>2
<1>5. TypeInv'
  BY <1>1, <1>2, <1>4 DEF TypeInv
<1>6. VerdictInv'
  BY <1>1 DEF CommandInv, VerdictInv
<1>7. BeforeInv'
  BY <1>1 DEF CommandInv, BeforeInv, Following
<1>8. Request' = Request /\ Response' = Response /\ Selected' = Selected /\ Data' = Data
      /\ WasAsked' = WasAsked
  BY <1>1 DEF Request, Response, Selected, Data, WasAsked
<1>9. AskingInv'
  <2> SUFFICES ASSUME phase = "asking" PROVE AskingInv'
    BY <1>1 DEF AskingInv
  <2>1. ~subscribed
    BY DEF CommandInv, BeforeInv
  <2>2. toClient' = toClient
    BY <1>1, <2>1
  <2> QED
    BY <1>1, <1>8, <2>2 DEF CommandInv, AskingInv, Fin
<1>10. AnsweredInv'
  BY <1>1, <1>8 DEF CommandInv, AnsweredInv
<1>11. CASE phase = "watching" /\ serverEnd = "open" /\ toServer = <<>> /\ subscribed
  <2>1. due' = Append(due, change) /\ toClient' = Append(toClient, Event(change))
    BY <1>1, <1>11 DEF Following
  <2>2. SubscriptionInv'
    BY <1>1, <1>11 DEF CommandInv, SubscriptionInv
  <2>3. PICK k \in 0..Len(due) :
          /\ shown = PrintedOf(watched, trace, SubSeq(Read(due), 1, k))
          /\ \A i \in DOMAIN toClient :
               \/ toClient[i] = Fin /\ serverEnd = "closed"
               \/ k + i <= Len(due) /\ toClient[i] = Event(due[k + i])
          /\ serverEnd = "open" => Len(toClient) = Len(due) - k
    BY <1>11 DEF CommandInv, EventsInv
  <2>4. /\ Len(due') = Len(due) + 1 /\ Len(due) \in Nat /\ due'[Len(due) + 1] = change
        /\ \A i \in 1..Len(due) : due'[i] = due[i]
        /\ Len(toClient') = Len(toClient) + 1 /\ Len(toClient) \in Nat
        /\ DOMAIN toClient = 1..Len(toClient) /\ DOMAIN toClient' = 1..(Len(toClient) + 1)
        /\ \A i \in 1..Len(toClient) : toClient'[i] = toClient[i]
        /\ toClient'[Len(toClient) + 1] = Event(change)
    <3> DEFINE e == Event(change)
               d == Append(due, change)
               c == Append(toClient, e)
    <3> HIDE DEF e, change
    <3>1. /\ Len(d) = Len(due) + 1 /\ Len(due) \in Nat /\ d[Len(due) + 1] = change
          /\ \A i \in 1..Len(due) : d[i] = due[i]
      BY <1>3, AppendIsSeq
    <3>2. /\ Len(c) = Len(toClient) + 1 /\ Len(toClient) \in Nat
          /\ DOMAIN toClient = 1..Len(toClient) /\ DOMAIN c = 1..(Len(toClient) + 1)
          /\ \A i \in 1..Len(toClient) : c[i] = toClient[i]
          /\ c[Len(toClient) + 1] = e
      BY <1>3, AppendIsSeq
    <3>3. due' = d /\ toClient' = c
      BY <2>1 DEF e
    <3>4. Event(change) = e
      BY DEF e
    <3> HIDE DEF d, c
    <3> QED
      BY <3>1, <3>2, <3>3, <3>4
  <2>5. k \in 0..Len(due') /\ Len(toClient') = Len(due') - k
    <3> DEFINE m == Len(due)
    <3>1. m \in Nat /\ k \in 0..m /\ Len(toClient) = m - k
      BY <1>11, <2>3, <2>4
    <3>2. Len(due') = m + 1 /\ Len(toClient') = Len(toClient) + 1
      BY <2>4
    <3> HIDE DEF m
    <3> QED
      BY <3>1, <3>2
  <2>6. SubSeq(Read(due'), 1, k) = SubSeq(Read(due), 1, k)
    <3> DEFINE X == ToSet(Read(due)) \cup {AsRead(change)}
               r == Read(due)
               e == AsRead(change)
    <3>1. Read(due') = Append(r, e) /\ IsSeq(r) /\ Len(r) = Len(due)
      BY <1>3, <2>1, ReadAppend, ReadIsSeq
    <3>2. r \in Seq(X) /\ e \in X
      BY <3>1, SeqMonotonic DEF IsSeq
    <3> HIDE DEF X, r, e
    <3>3. k \in 0..Len(r) /\ Len(r) \in Nat
      BY <2>3, <2>4, <3>1
    <3>4. SubSeq(Append(r, e), 1, k) = SubSeq(r, 1, k)
      BY <3>2, <3>3
    <3> QED
      BY <3>1, <3>4 DEF r
  <2>7. ASSUME NEW i \in DOMAIN toClient'
        PROVE  k + i <= Len(due') /\ toClient'[i] = Event(due'[k + i])
    <3>1. CASE i = Len(toClient) + 1
      <4>1. k + i = Len(due) + 1
        BY <1>11, <2>3, <2>4, <3>1
      <4> QED
        BY <2>4, <3>1, <4>1
    <3>2. CASE i # Len(toClient) + 1
      <4>1. i \in DOMAIN toClient /\ i \in 1..Len(toClient)
        BY <2>4, <3>2
      <4>2. k + i <= Len(due) /\ toClient[i] = Event(due[k + i])
        BY <1>11, <2>3, <4>1
      <4>3. k + i \in 1..Len(due)
        BY <2>3, <2>4, <4>1, <4>2
      <4> QED
        BY <2>4, <4>1, <4>2, <4>3
    <3> QED
      BY <3>1, <3>2
  <2>8. shown' = PrintedOf(watched', trace', SubSeq(Read(due'), 1, k))
    BY <1>1, <2>3, <2>6
  <2>9. phase' = "watching"
    BY <1>1, <1>11
  <2>10. EventsInv'
    BY <2>5, <2>7, <2>8, <2>9, Zenon DEF EventsInv
  <2> QED
    BY <1>5, <1>6, <1>7, <1>9, <1>10, <2>2, <2>10 DEF CommandInv
<1>12. CASE ~(phase = "watching" /\ serverEnd = "open" /\ toServer = <<>> /\ subscribed)
  <2>1. due' = due
    <3>1. phase = "watching" /\ serverEnd = "open" =>
            \/ toServer = <<[kind |-> "subscribe"]>> /\ ~subscribed
            \/ toServer = <<>> /\ subscribed
      BY DEF CommandInv, SubscriptionInv
    <3>2. toServer = <<[kind |-> "subscribe"]>> => ~Following
      BY DEF Following
    <3> QED
      BY <1>1, <1>12, <3>1, <3>2 DEF Following
  <2>2. toClient' = toClient
    <3>1. /\ phase \in {"idle", "connecting", "asking"} => ~subscribed
          /\ phase = "watching" /\ serverEnd = "open" /\ subscribed => toServer = <<>>
          /\ phase \in {"idle", "connecting", "asking", "watching", "exited"}
      BY <1>2 DEF CommandInv, BeforeInv, SubscriptionInv, TypeInv
    <3> QED
      BY <1>1, <1>12, <3>1
  <2>3. SubscriptionInv' /\ EventsInv'
    BY <1>1, <2>1, <2>2 DEF CommandInv, SubscriptionInv, EventsInv
  <2> QED
    BY <1>5, <1>6, <1>7, <1>9, <1>10, <2>3 DEF CommandInv
<1> QED
  BY <1>11, <1>12

(* The server takes what is first in its queue.                            *)
LEMMA Taken ==
  ASSUME CommandInv, ServerReceive
  PROVE  /\ serverEnd = "open" /\ toServer # <<>> /\ toServer' = Tail(toServer)
         /\ UNCHANGED <<kind, options, trace, phase, watched, shown, verdict, due, written>>
         /\ ReceiveRequest \/ ReceiveSubscription \/ ReceiveUnsubscription \/ ReceiveEnd
         /\ IsSeq(toServer) /\ IsSeq(toClient) /\ IsSeq(toServer')
         /\ ToSet(toServer') \subseteq ToSet(toServer) /\ Head(toServer) \in ToSet(toServer)
         /\ phase \in {"asking", "watching", "exited"}
         /\ phase = "asking" =>
              /\ toServer = <<Request>> /\ Head(toServer) = Request
              /\ toServer' = <<>> /\ toClient = <<>>
         /\ phase = "watching" =>
              /\ toServer = <<[kind |-> "subscribe"]>> /\ Head(toServer).kind = "subscribe"
              /\ toServer' = <<>> /\ ~subscribed /\ due = <<>>
<1>1. /\ serverEnd = "open" /\ toServer # <<>> /\ toServer' = Tail(toServer)
      /\ UNCHANGED <<kind, options, trace, phase, watched, shown, verdict, due, written>>
      /\ ReceiveRequest \/ ReceiveSubscription \/ ReceiveUnsubscription \/ ReceiveEnd
  BY DEF ServerReceive, tagVars, commandVars
<1>2. IsSeq(toServer) /\ IsSeq(toClient)
      /\ phase \in {"idle", "connecting", "asking", "watching", "exited"}
  BY DEF CommandInv, TypeInv
<1>3. phase \in {"asking", "watching", "exited"}
  BY <1>1, <1>2 DEF CommandInv, BeforeInv
<1>4. ASSUME phase = "asking"
      PROVE  /\ toServer = <<Request>> /\ Head(toServer) = Request
             /\ toServer' = <<>> /\ toClient = <<>>
  <2>1. toServer = <<Request>> /\ toClient = <<>>
    BY <1>1, <1>4 DEF CommandInv, AskingInv
  <2> QED
    BY <1>1, <2>1, OneIsSeq
<1>5. ASSUME phase = "watching"
      PROVE  /\ toServer = <<[kind |-> "subscribe"]>> /\ Head(toServer).kind = "subscribe"
             /\ toServer' = <<>> /\ ~subscribed /\ due = <<>>
  <2>1. toServer = <<[kind |-> "subscribe"]>> /\ ~subscribed /\ due = <<>>
    BY <1>1, <1>5 DEF CommandInv, SubscriptionInv
  <2>2. Head(toServer) = [kind |-> "subscribe"] /\ Tail(toServer) = <<>>
    BY <2>1, OneIsSeq
  <2> QED
    BY <1>1, <2>1, <2>2
<1> QED
  BY <1>1, <1>2, <1>3, <1>4, <1>5, TailIsSeq

(* Its answer is what the options select of the devices it has.            *)
LEMMA AnswerIsResponse ==
  ASSUME RuntimeInv, CommandInv, ServerReceive, ReceiveRequest, phase = "asking"
  PROVE  toClient' = <<Response'>> /\ WasAsked'
<1> DEFINE all == registry \o NodesetDevices
           sel == BuildTagSelectorPayload(options)
           answer == ResolveTagSelector(all, sel)
<1>1. /\ Head(toServer) = Request /\ toClient = <<>> /\ serverEnd = "open"
      /\ kind' = kind /\ options' = options
  BY Taken
<1>2. Head(toServer).kind = (IF kind = "get" THEN "tags.get" ELSE "tags.resolve")
      /\ Head(toServer).selector = sel
  BY <1>1 DEF Request
<1>3. HandleTagsResolve(Head(toServer).selector) = answer
  BY <1>2 DEF HandleTagsResolve, AllDeviceEntries
<1>4. askedOf' = [devices |-> all, values |-> node]
  BY DEF ReceiveRequest, AllDeviceEntries
<1>5. /\ registry \in Configs /\ options \in CommandLines /\ AllowedTogether(options)
      /\ kind \in {"get", "watch"}
  BY DEF RuntimeInv, CommandInv, TypeInv, VerdictInv
<1>6. WasAsked'
  <2>1. askedOf'.devices = registry \o NodesetDevices
    BY <1>4
  <2>2. \E c \in Configs : askedOf'.devices = c \o NodesetDevices
    BY <1>5, <2>1
  <2> QED
    BY <2>2 DEF WasAsked, NodesetDevices
<1>7. Selected' = answer
  BY <1>1, <1>4 DEF Selected
<1>8. answer.tags \in Seq(TagSet(all))
  BY <1>5, Answers
<1>9. \A t \in TagSet(all) : GetValue(t.nodeId) = node[t.nodeId]
  <2>1. \A t \in TagSet(all) : runtime[t.nodeId] = [device |-> t.device, value |-> node[t.nodeId]]
    BY DEF RuntimeInv, AllDeviceEntries
  <2> HIDE DEF all
  <2>2. ASSUME NEW t \in TagSet(all) PROVE runtime[t.nodeId].value = node[t.nodeId]
    <3>1. runtime[t.nodeId] = [device |-> t.device, value |-> node[t.nodeId]]
      BY <2>1
    <3> QED
      BY <3>1
  <2> QED
    BY <2>2, Zenon DEF GetValue
<1>10. \A i \in DOMAIN answer.tags : GetValue(answer.tags[i].nodeId) = node[answer.tags[i].nodeId]
  <2> DEFINE tags == answer.tags
             X == TagSet(all)
  <2>1. tags \in Seq(X)
    BY <1>8
  <2> HIDE DEF tags, X
  <2>2. \A i \in DOMAIN tags : tags[i] \in X
    BY <2>1
  <2> QED
    BY <1>9, <2>2 DEF tags, X
<1> HIDE DEF answer, all, sel
<1>11. HandleTagsGet(Head(toServer).selector)
         = [i \in DOMAIN answer.tags |->
              [tag |-> answer.tags[i], value |-> OnTheWire(node[answer.tags[i].nodeId])]]
  BY <1>3, <1>10 DEF HandleTagsGet
<1>12. Data' = IF kind = "get" THEN HandleTagsGet(Head(toServer).selector) ELSE answer.tags
  <2>1. askedOf'.values = node
    BY <1>4
  <2> QED
    BY <1>1, <1>7, <1>11, <2>1 DEF Data
<1>13. Response' = Answer(answer.error, Data')
  BY <1>7 DEF Response
<1>14. toClient' = Append(<<>>, Answer(answer.error,
                     IF kind = "get" THEN HandleTagsGet(Head(toServer).selector) ELSE answer.tags))
  <2>1. toClient' = IF serverEnd = "open" /\ phase # "exited"
                    THEN Append(toClient, Answer(HandleTagsResolve(Head(toServer).selector).error,
                      IF Head(toServer).kind = "tags.get" THEN HandleTagsGet(Head(toServer).selector)
                      ELSE HandleTagsResolve(Head(toServer).selector).tags))
                    ELSE toClient
    BY DEF ReceiveRequest, Sent
  <2>2. Head(toServer).kind = "tags.get" <=> kind = "get"
    BY <1>2
  <2>3. CASE kind = "get"
    BY <1>1, <1>3, <2>1, <2>2, <2>3
  <2>4. CASE kind # "get"
    BY <1>1, <1>3, <2>1, <2>2, <2>4
  <2> QED
    BY <2>3, <2>4
<1>15. toClient' = Append(<<>>, Response')
  BY <1>12, <1>13, <1>14
<1>16. \A e : Append(<<>>, e) = <<e>>
  OBVIOUS
<1> QED
  BY <1>6, <1>15, <1>16

LEMMA CommandRequest ==
  ASSUME RuntimeInv, CommandInv, ServerReceive, ReceiveRequest
  PROVE  CommandInv'
<1>1. /\ serverEnd = "open" /\ toServer # <<>>
      /\ UNCHANGED <<kind, options, trace, phase, watched, shown, verdict, due, written>>
      /\ IsSeq(toServer') /\ IsSeq(toClient) /\ Head(toServer) \in ToSet(toServer)
      /\ phase \in {"asking", "watching", "exited"}
      /\ phase = "asking" => toServer' = <<>>
      /\ phase = "watching" => Head(toServer).kind = "subscribe"
  BY Taken
<1>2. UNCHANGED <<subscribed, serverEnd>> /\ Head(toServer).kind \in {"tags.get", "tags.resolve"}
  BY DEF ReceiveRequest
<1>3. phase \in {"asking", "exited"}
  BY <1>1, <1>2
<1>4. ~(phase = "watching" \/ verdict \in {"SUCCESS", "DEVICE_ERROR", "TAG_ERROR"})
  BY <1>1, <1>2 DEF CommandInv, AnsweredInv
<1>5. AnsweredInv'
  BY <1>1, <1>4 DEF AnsweredInv
<1>6. VerdictInv'
  BY <1>1 DEF CommandInv, VerdictInv
<1>7. BeforeInv'
  BY <1>1, <1>2, <1>3 DEF CommandInv, BeforeInv
<1>8. SubscriptionInv' /\ EventsInv'
  BY <1>1, <1>2, <1>3 DEF CommandInv, SubscriptionInv, EventsInv
<1>9. CASE phase = "asking"
  <2>1. toClient' = <<Response'>> /\ WasAsked'
    BY <1>9, AnswerIsResponse
  <2>2. IsSeq(toClient')
    BY <2>1, OneIsSeq
  <2>3. TypeInv'
    BY <1>1, <1>2, <2>2 DEF CommandInv, TypeInv
  <2>4. AskingInv'
    BY <1>1, <1>2, <1>9, <2>1 DEF AskingInv
  <2> QED
    BY <1>5, <1>6, <1>7, <1>8, <2>3, <2>4 DEF CommandInv
<1>10. CASE phase = "exited"
  <2>1. toClient' = toClient
    BY <1>10 DEF ReceiveRequest, Sent
  <2>2. TypeInv'
    BY <1>1, <1>2, <2>1 DEF CommandInv, TypeInv
  <2>3. AskingInv'
    BY <1>1, <1>10 DEF AskingInv
  <2> QED
    BY <1>5, <1>6, <1>7, <1>8, <2>2, <2>3 DEF CommandInv
<1> QED
  BY <1>3, <1>9, <1>10

(* What else it receives comes after the answer.                           *)
LEMMA CommandOtherMessage ==
  ASSUME CommandInv, ServerReceive,
         ReceiveSubscription \/ ReceiveUnsubscription \/ ReceiveEnd
  PROVE  CommandInv'
<1>1. /\ serverEnd = "open" /\ toServer # <<>>
      /\ UNCHANGED <<kind, options, trace, phase, watched, shown, verdict, due, written>>
      /\ IsSeq(toServer') /\ IsSeq(toClient) /\ ToSet(toServer') \subseteq ToSet(toServer)
      /\ phase \in {"asking", "watching", "exited"}
      /\ phase = "asking" => Head(toServer) = Request
      /\ phase = "watching" =>
           Head(toServer).kind = "subscribe" /\ toServer' = <<>> /\ due = <<>>
  BY Taken
<1>2. /\ Head(toServer).kind \in {"subscribe", "unsubscribe", "fin"}
      /\ Head(toServer).kind = "subscribe" => subscribed' = TRUE /\ serverEnd' = serverEnd
      /\ serverEnd' = serverEnd \/ (serverEnd' = "closed" /\ subscribed' = FALSE)
      /\ subscribed' \in BOOLEAN
      /\ UNCHANGED <<toClient, askedOf>>
  <2>1. CASE ReceiveSubscription
    BY <2>1 DEF ReceiveSubscription
  <2>2. CASE ReceiveUnsubscription
    BY <2>2 DEF ReceiveUnsubscription
  <2>3. CASE ReceiveEnd
    BY <2>3 DEF ReceiveEnd
  <2> QED
    BY <2>1, <2>2, <2>3
<1>3. phase \in {"watching", "exited"}
  <2>1. Request.kind \in {"tags.get", "tags.resolve"}
    BY DEF Request
  <2> QED
    BY <1>1, <1>2, <2>1
<1>4. TypeInv'
  BY <1>1, <1>2 DEF CommandInv, TypeInv
<1>5. VerdictInv' /\ BeforeInv' /\ AskingInv'
  BY <1>1, <1>2, <1>3 DEF CommandInv, VerdictInv, BeforeInv, AskingInv
<1>6. Selected' = Selected /\ Data' = Data /\ WasAsked' = WasAsked
  BY <1>1, <1>2 DEF Selected, Data, WasAsked
<1>7. AnsweredInv'
  BY <1>1, <1>2, <1>6 DEF CommandInv, AnsweredInv
<1>8. SubscriptionInv'
  BY <1>1, <1>2, <1>3 DEF CommandInv, SubscriptionInv
<1>9. EventsInv'
  <2>1. phase = "watching" => serverEnd' = serverEnd
    BY <1>1, <1>2
  <2> QED
    BY <1>1, <1>2, <2>1 DEF CommandInv, EventsInv
<1> QED
  BY <1>4, <1>5, <1>7, <1>8, <1>9 DEF CommandInv

LEMMA CommandStop ==
  ASSUME CommandInv, Stop
  PROVE  CommandInv'
<1>1. /\ serverEnd \in {"none", "open"} /\ serverEnd' = "closed" /\ subscribed' = FALSE
      /\ UNCHANGED <<kind, options, trace, phase, watched, shown, verdict,
                     toServer, askedOf, due, written>>
  BY DEF Stop, commandVars, tagVars
<1>2. IsSeq(toClient) /\ TypeInv
  BY DEF CommandInv, TypeInv
<1>3. \/ phase = "exited" /\ toClient' = toClient
      \/ phase # "exited"
         /\ \E n \in 0..Len(toClient) : toClient' = Append(SubSeq(toClient, 1, n), Fin)
  BY DEF Stop, Fin
<1>4. IsSeq(toClient')
  <2>1. CASE phase = "exited"
    BY <1>2, <1>3, <2>1
  <2>2. CASE phase # "exited"
    <3>1. PICK n \in 0..Len(toClient) : toClient' = Append(SubSeq(toClient, 1, n), Fin)
      BY <1>3, <2>2
    <3>2. IsSeq(SubSeq(toClient, 1, n))
      BY <1>2, FrontIsSeq
    <3> QED
      BY <3>1, <3>2, AppendIsSeq
  <2> QED
    BY <2>1, <2>2
<1>5. TypeInv'
  BY <1>1, <1>2, <1>4 DEF TypeInv
<1>6. VerdictInv'
  BY <1>1 DEF CommandInv, VerdictInv
<1>7. BeforeInv'
  BY <1>1 DEF CommandInv, BeforeInv
<1>8. Response' = Response /\ Selected' = Selected /\ Data' = Data /\ WasAsked' = WasAsked
  BY <1>1 DEF Response, Selected, Data, WasAsked
<1>9. AnsweredInv'
  BY <1>1, <1>8 DEF CommandInv, AnsweredInv
<1>10. SubscriptionInv'
  BY <1>1 DEF SubscriptionInv, CommandInv
<1>11. AskingInv'
  <2> SUFFICES ASSUME phase = "asking"
               PROVE  \/ toClient' = <<Fin>>
                      \/ toClient' = <<Response, Fin>> /\ WasAsked
    BY <1>1, <1>8 DEF AskingInv, Fin
  <2>1. toClient = <<>> \/ (toClient = <<Response>> /\ WasAsked)
    <3>1. serverEnd # "closed"
      BY <1>1
    <3> QED
      BY <3>1 DEF CommandInv, AskingInv
  <2>2. PICK n \in 0..Len(toClient) : toClient' = Append(SubSeq(toClient, 1, n), Fin)
    BY <1>3
  <2>3. \A e : Append(<<>>, e) = <<e>>
    OBVIOUS
  <2>4. \A d, e : Append(<<d>>, e) = <<d, e>>
    BY TwoIsSeq
  <2>5. CASE toClient = <<>>
    <3>1. SubSeq(toClient, 1, n) = <<>>
      BY <2>2, <2>5
    <3> QED
      BY <2>2, <2>3, <3>1
  <2>6. CASE toClient = <<Response>> /\ WasAsked
    <3>1. \A d : SubSeq(<<d>>, 1, 0) = <<>> /\ SubSeq(<<d>>, 1, 1) = <<d>>
      BY OneIsSeq
    <3>2. n = 0 \/ n = 1
      BY <2>6, OneIsSeq
    <3> QED
      BY <2>2, <2>3, <2>4, <2>6, <3>1, <3>2
  <2> QED
    BY <2>1, <2>5, <2>6
<1>12. EventsInv'
  <2>1. CASE phase # "watching"
    BY <1>1, <2>1 DEF CommandInv, EventsInv
  <2>2. CASE phase = "watching"
    <3>1. serverEnd = "open"
      BY <1>1, <2>2 DEF CommandInv, SubscriptionInv
    <3>2. PICK k \in 0..Len(due) :
            /\ shown = PrintedOf(watched, trace, SubSeq(Read(due), 1, k))
            /\ \A i \in DOMAIN toClient : k + i <= Len(due) /\ toClient[i] = Event(due[k + i])
      BY <2>2, <3>1 DEF CommandInv, EventsInv
    <3>3. PICK n \in 0..Len(toClient) : toClient' = Append(SubSeq(toClient, 1, n), Fin)
      BY <1>3, <2>2
    <3> DEFINE front == SubSeq(toClient, 1, n)
    <3>4. /\ IsSeq(front) /\ Len(front) = n
          /\ \A i \in 1..n : i \in DOMAIN toClient /\ front[i] = toClient[i]
      BY <1>2, FrontIsSeq
    <3> HIDE DEF front
    <3>5. /\ DOMAIN toClient' = 1..(n + 1) /\ toClient'[n + 1] = Fin
          /\ \A i \in 1..n : toClient'[i] = front[i]
      BY <3>3, <3>4, AppendIsSeq DEF front
    <3>6. ASSUME NEW i \in DOMAIN toClient'
          PROVE  \/ toClient'[i] = Fin
                 \/ k + i <= Len(due) /\ toClient'[i] = Event(due[k + i])
      <4>1. i = n + 1 \/ i \in 1..n
        BY <3>3, <3>5
      <4> QED
        BY <3>2, <3>4, <3>5, <4>1
    <3>7. /\ shown' = PrintedOf(watched', trace', SubSeq(Read(due'), 1, k))
          /\ k \in 0..Len(due') /\ serverEnd' = "closed"
          /\ \A i \in DOMAIN toClient' :
               \/ toClient'[i] = Fin /\ serverEnd' = "closed"
               \/ k + i <= Len(due') /\ toClient'[i] = Event(due'[k + i])
      BY <1>1, <3>2, <3>6
    <3>8. phase' = "watching" /\ serverEnd' # "open"
      BY <1>1, <2>2
    <3> QED
      BY <3>7, <3>8 DEF EventsInv, Fin
  <2> QED
    BY <2>1, <2>2
<1> QED
  BY <1>5, <1>6, <1>7, <1>9, <1>10, <1>11, <1>12 DEF CommandInv

-----------------------------------------------------------------------------
(* Then those of the command itself.                                       *)

LEMMA PrefixEmpty ==
  ASSUME NEW ids, NEW all, NEW s, IsSeq(s)
  PROVE  IsPrefix(<<>>, PrintedOf(ids, all, s))
<1> DEFINE t == PrintedOf(ids, all, s)
<1>1. IsSeq(t)
  BY EmptyIsSeq, PrintedConcat
<1>2. Len(t) \in Nat
  <2> DEFINE X == ToSet(t)
  <2>1. t \in Seq(X)
    BY <1>1 DEF IsSeq
  <2> HIDE DEF t, X
  <2> QED
    BY <2>1
<1> HIDE DEF t
<1>3. Len(<<>>) = 0 /\ SubSeq(<<>>, 1, 0) = <<>> /\ SubSeq(t, 1, 0) = <<>>
  BY EmptySeq, SubSeqEmpty
<1>4. IsPrefix(<<>>, t)
  BY <1>2, <1>3 DEF IsPrefix
<1> QED
  BY <1>4 DEF t

LEMMA ExitSends ==
  ASSUME NEW messages, IsSeq(messages), IsSeq(toServer), NEW v, ExitWith(v, messages)
  PROVE  /\ phase' = "exited" /\ verdict' = v
         /\ IsSeq(toServer')
         /\ ToSet(toServer') \subseteq ToSet(toServer) \cup ToSet(messages) \cup {Fin}
<1> DEFINE last == IF serverEnd = "none" THEN <<>> ELSE <<Fin>>
<1>1. phase' = "exited" /\ verdict' = v /\ toServer' = toServer \o messages \o last
  BY DEF ExitWith, Fin
<1>2. IsSeq(last) /\ ToSet(last) \subseteq {Fin}
  BY EmptyIsSeq, OneIsSeq
<1> HIDE DEF last
<1>3. IsSeq(toServer \o messages)
      /\ ToSet(toServer \o messages) = ToSet(toServer) \cup ToSet(messages)
  BY ConcatIsSeq
<1>4. IsSeq((toServer \o messages) \o last)
      /\ ToSet((toServer \o messages) \o last) = ToSet(toServer \o messages) \cup ToSet(last)
  <2> DEFINE front == toServer \o messages
  <2>1. IsSeq(front)
    BY <1>3
  <2> HIDE DEF front
  <2>2. IsSeq(front \o last) /\ ToSet(front \o last) = ToSet(front) \cup ToSet(last)
    BY <1>2, <2>1, ConcatIsSeq
  <2> QED
    BY <2>2 DEF front
<1> QED
  BY <1>1, <1>2, <1>3, <1>4

LEMMA CommandStart ==
  ASSUME CommandInv, NEW k \in {"get", "watch"}, NEW o \in CommandLines, NEW t \in BOOLEAN,
         Start(k, o, t)
  PROVE  CommandInv'
<1>1. /\ phase = "idle" /\ kind' = k /\ options' = o /\ trace' = t
      /\ UNCHANGED <<written, watched, shown, subscribed, serverEnd, toClient, askedOf, due>>
  BY DEF Start, tagVars
<1>2. /\ TypeInv /\ verdict = "none" /\ serverEnd # "open" /\ toServer = <<>>
      /\ ~subscribed /\ due = <<>> /\ shown = <<>>
      /\ serverEnd = "none" => toClient = <<>>
      /\ serverEnd = "closed" => ~subscribed
  BY <1>1 DEF CommandInv, VerdictInv, BeforeInv, SubscriptionInv
<1>3. Invalid(o) <=> ~AllowedTogether(o)
  BY OptionsAssumption, RefusedAsDocumented
<1>4. CASE Invalid(o)
  <2>1. ExitWith("VALIDATION_ERROR", <<>>)
    BY <1>4 DEF Start
  <2>2. phase' = "exited" /\ verdict' = "VALIDATION_ERROR" /\ IsSeq(toServer')
    BY <1>2, <2>1, EmptyIsSeq, ExitSends
  <2>3. TypeInv'
    BY <1>1, <1>2, <2>2 DEF TypeInv
  <2>4. VerdictInv' /\ BeforeInv'
    BY <1>1, <1>2, <1>3, <1>4, <2>2 DEF VerdictInv, BeforeInv
  <2>5. AskingInv' /\ AnsweredInv' /\ SubscriptionInv'
    BY <1>1, <1>2, <2>2 DEF AskingInv, AnsweredInv, SubscriptionInv
  <2>6. EventsInv'
    <3>1. IsPrefix(<<>>, PrintedOf(watched, t, Read(due)))
      BY <1>2, EmptyIsSeq, ReadIsSeq, PrefixEmpty
    <3> QED
      BY <1>1, <1>2, <2>2, <3>1 DEF EventsInv
  <2> QED
    BY <2>3, <2>4, <2>5, <2>6 DEF CommandInv
<1>5. CASE ~Invalid(o)
  <2>1. phase' = "connecting" /\ verdict' = verdict /\ toServer' = toServer
    BY <1>5 DEF Start
  <2>2. TypeInv'
    BY <1>1, <1>2, <2>1 DEF TypeInv
  <2>3. VerdictInv' /\ BeforeInv'
    BY <1>1, <1>2, <1>3, <1>5, <2>1 DEF VerdictInv, BeforeInv
  <2>4. AskingInv' /\ AnsweredInv' /\ SubscriptionInv' /\ EventsInv'
    BY <1>1, <1>2, <2>1 DEF AskingInv, AnsweredInv, SubscriptionInv, EventsInv
  <2> QED
    BY <2>2, <2>3, <2>4 DEF CommandInv
<1> QED
  BY <1>4, <1>5

LEMMA CommandConnect ==
  ASSUME CommandInv, Connect
  PROVE  CommandInv'
<1>1. /\ phase = "connecting" /\ serverEnd = "none" /\ serverEnd' = "open" /\ phase' = "asking"
      /\ toServer' = <<Request>>
      /\ UNCHANGED <<written, kind, options, trace, watched, shown, verdict,
                     subscribed, toClient, askedOf, due>>
  BY DEF Connect, Request, tagVars
<1>2. /\ TypeInv /\ verdict = "none" /\ toClient = <<>>
      /\ ~subscribed /\ due = <<>> /\ shown = <<>>
      /\ kind \in {"get", "watch"} /\ options \in CommandLines /\ AllowedTogether(options)
  BY <1>1 DEF CommandInv, VerdictInv, BeforeInv, TypeInv
<1>3. IsSeq(toServer')
  BY <1>1, OneIsSeq
<1>4. TypeInv'
  BY <1>1, <1>2, <1>3 DEF TypeInv
<1>5. VerdictInv' /\ BeforeInv'
  BY <1>1, <1>2 DEF VerdictInv, BeforeInv
<1>6. Request' = Request
  BY <1>1 DEF Request
<1>7. AskingInv'
  BY <1>1, <1>2, <1>6 DEF AskingInv
<1>8. AnsweredInv' /\ SubscriptionInv' /\ EventsInv'
  BY <1>1, <1>2 DEF AnsweredInv, SubscriptionInv, EventsInv
<1> QED
  BY <1>4, <1>5, <1>7, <1>8 DEF CommandInv

(* A command that ends for another reason than an answer.                  *)
LEMMA CommandExits ==
  ASSUME CommandInv, NEW v, NEW messages, ExitWith(v, messages),
         phase \in {"connecting", "asking", "watching"},
         IsSeq(messages), \A msg \in ToSet(messages) : msg.kind = "unsubscribe",
         v \in {"SERVER_ERROR", "UNKNOWN_ERROR", "killed"} \/ (v = "SUCCESS" /\ phase = "watching"),
         toClient' \in {<<>>, toClient},
         UNCHANGED <<written, kind, options, trace, watched, shown,
                     subscribed, serverEnd, askedOf, due>>
  PROVE  CommandInv'
<1>1. /\ TypeInv /\ IsSeq(toServer) /\ IsSeq(toClient) /\ verdict = "none"
      /\ options \in CommandLines /\ kind \in {"get", "watch"} /\ AllowedTogether(options)
      /\ IsSeq(due)
  BY DEF CommandInv, TypeInv, VerdictInv
<1>2. /\ phase' = "exited" /\ verdict' = v /\ IsSeq(toServer')
      /\ ToSet(toServer') \subseteq ToSet(toServer) \cup ToSet(messages) \cup {Fin}
  BY <1>1, ExitSends
<1>3. TypeInv'
  BY <1>1, <1>2, EmptyIsSeq DEF TypeInv
<1>4. VerdictInv' /\ AskingInv'
  BY <1>1, <1>2 DEF VerdictInv, AskingInv
<1>5. BeforeInv' /\ SubscriptionInv'
  BY <1>2 DEF CommandInv, BeforeInv, SubscriptionInv
<1>6. Selected' = Selected /\ Data' = Data /\ WasAsked' = WasAsked
  BY DEF Selected, Data, WasAsked
<1>7. AnsweredInv'
  <2>1. CASE v # "SUCCESS"
    BY <1>2, <2>1 DEF AnsweredInv
  <2>2. CASE v = "SUCCESS" /\ phase = "watching"
    <3>1. /\ WasAsked /\ kind = "watch"
          /\ serverEnd = "open" =>
               \A msg \in ToSet(toServer) : msg.kind \notin {"tags.get", "tags.resolve"}
      BY <2>2 DEF CommandInv, AnsweredInv, SubscriptionInv
    <3>2. serverEnd = "open" =>
            \A msg \in ToSet(toServer') : msg.kind \notin {"tags.get", "tags.resolve"}
      BY <1>2, <3>1 DEF Fin
    <3> QED
      BY <1>2, <1>6, <2>2, <3>1, <3>2 DEF AnsweredInv
  <2> QED
    BY <2>1, <2>2
<1>8. EventsInv'
  <2>1. IsPrefix(shown, PrintedOf(watched, trace, Read(due)))
    <3>1. IsSeq(Read(due)) /\ Len(Read(due)) = Len(due)
      BY <1>1, ReadIsSeq
    <3>2. CASE phase \in {"connecting", "asking"}
      <4>1. shown = <<>>
        BY <3>2 DEF CommandInv, BeforeInv
      <4> QED
        BY <3>1, <4>1, PrefixEmpty
    <3>3. CASE phase = "watching"
      <4>1. PICK k \in 0..Len(due) : shown = PrintedOf(watched, trace, SubSeq(Read(due), 1, k))
        BY <3>3 DEF CommandInv, EventsInv
      <4>2. k \in 0..Len(Read(due))
        BY <3>1
      <4> QED
        BY <3>1, <4>1, <4>2, PrintedOfFirst
    <3> QED
      BY <3>2, <3>3
  <2> QED
    BY <1>2, <2>1 DEF EventsInv
<1> QED
  BY <1>3, <1>4, <1>5, <1>7, <1>8 DEF CommandInv

LEMMA CommandClose ==
  ASSUME CommandInv, ClientReceive, ReceiveClose
  PROVE  CommandInv'
<1>1. /\ phase \in {"asking", "watching"}
      /\ toClient' = IF phase' = "exited" THEN <<>> ELSE Tail(toClient)
      /\ UNCHANGED <<written, kind, options, trace, subscribed, serverEnd, askedOf, due>>
  BY DEF ClientReceive, tagVars
<1>2. /\ ExitWith(IF phase = "asking" THEN "SERVER_ERROR" ELSE "SUCCESS", <<>>)
      /\ UNCHANGED <<watched, shown>>
  BY DEF ReceiveClose
<1>3. toClient' = <<>>
  BY <1>1, <1>2 DEF ExitWith
<1>4. IsSeq(<<>>) /\ ToSet(<<>>) = {}
  BY EmptyIsSeq
<1>5. CASE phase = "asking"
  <2>1. ExitWith("SERVER_ERROR", <<>>)
    BY <1>2, <1>5
  <2> QED
    BY <1>1, <1>2, <1>3, <1>4, <2>1, CommandExits
<1>6. CASE phase = "watching"
  <2>1. ExitWith("SUCCESS", <<>>)
    BY <1>2, <1>6
  <2> QED
    BY <1>1, <1>2, <1>3, <1>4, <1>6, <2>1, CommandExits
<1> QED
  BY <1>1, <1>5, <1>6

(* The answer is the one to its request.                                   *)
LEMMA TakesAnswer ==
  ASSUME CommandInv, ClientReceive, ReceiveAnswer
  PROVE  /\ phase = "asking" /\ WasAsked /\ verdict = "none" /\ IsSeq(toServer)
         /\ Head(toClient) = Response
         /\ Tail(toClient) = <<>> \/ (Tail(toClient) = <<Fin>> /\ serverEnd = "closed")
         /\ serverEnd \in {"open", "closed"}
         /\ serverEnd = "open" => toServer = <<>>
         /\ ~subscribed /\ due = <<>> /\ shown = <<>>
         /\ options \in CommandLines /\ kind \in {"get", "watch"} /\ AllowedTogether(options)
         /\ Selected.error = Selection(askedOf.devices, options).error
         /\ Selected.error \in {"none", "DEVICE_NOT_FOUND",
                                "TAG_BROWSE_NAME_AMBIGUOUS", "TAG_NOT_FOUND"}
         /\ \A t \in ToSet(Selected.tags) : t.nodeId \in NodeIds
         /\ toClient' = IF phase' = "exited" THEN <<>> ELSE Tail(toClient)
         /\ UNCHANGED <<written, kind, options, trace, subscribed, serverEnd, askedOf, due>>
<1>1. /\ toClient' = IF phase' = "exited" THEN <<>> ELSE Tail(toClient)
      /\ UNCHANGED <<written, kind, options, trace, subscribed, serverEnd, askedOf, due>>
      /\ toClient # <<>>
  BY DEF ClientReceive, tagVars
<1>2. phase = "asking" /\ Head(toClient).kind = "response"
  BY DEF ReceiveAnswer
<1>3. /\ verdict = "none" /\ IsSeq(toServer) /\ ~subscribed /\ due = <<>> /\ shown = <<>>
      /\ options \in CommandLines /\ kind \in {"get", "watch"} /\ AllowedTogether(options)
  BY <1>2 DEF CommandInv, TypeInv, VerdictInv, BeforeInv
<1>4. \/ serverEnd = "open" /\ toServer = <<Request>> /\ toClient = <<>>
      \/ serverEnd = "open" /\ toServer = <<>> /\ toClient = <<Response>> /\ WasAsked
      \/ serverEnd = "closed" /\ toClient = <<Fin>>
      \/ serverEnd = "closed" /\ toClient = <<Response, Fin>> /\ WasAsked
  BY <1>2 DEF CommandInv, AskingInv
<1>5. toClient # <<Fin>>
  <2>1. Head(<<Fin>>) = Fin /\ Fin.kind = "fin"
    BY OneIsSeq DEF Fin
  <2>2. "fin" # "response"
    OBVIOUS
  <2> QED
    BY <1>2, <2>1, <2>2
<1>6. \/ serverEnd = "open" /\ toServer = <<>> /\ toClient = <<Response>> /\ WasAsked
      \/ serverEnd = "closed" /\ toClient = <<Response, Fin>> /\ WasAsked
  BY <1>1, <1>4, <1>5
<1>7. /\ WasAsked /\ serverEnd \in {"open", "closed"}
      /\ serverEnd = "open" => toServer = <<>>
      /\ Head(toClient) = Response
      /\ Tail(toClient) = <<>> \/ (Tail(toClient) = <<Fin>> /\ serverEnd = "closed")
  <2>1. Head(<<Response>>) = Response /\ Tail(<<Response>>) = <<>>
    BY OneIsSeq
  <2>2. Head(<<Response, Fin>>) = Response /\ Tail(<<Response, Fin>>) = <<Fin>>
    BY TwoIsSeq
  <2> QED
    BY <1>6, <2>1, <2>2
<1> QED
  BY <1>1, <1>2, <1>3, <1>7, SelectedFacts

LEMMA CommandAnswered ==
  ASSUME CommandInv, ClientReceive, ReceiveAnswer, AnswerEndsCommand(Head(toClient))
  PROVE  CommandInv'
<1> DEFINE code == ExitCode(Selected.error)
<1>1. /\ WasAsked /\ IsSeq(toServer) /\ Head(toClient) = Response
      /\ serverEnd \in {"open", "closed"}
      /\ serverEnd = "open" => toServer = <<>>
      /\ ~subscribed /\ due = <<>> /\ shown = <<>>
      /\ kind \in {"get", "watch"} /\ AllowedTogether(options)
      /\ UNCHANGED <<written, kind, options, trace, subscribed, serverEnd, askedOf, due>>
  BY TakesAnswer
<1>2. /\ code \in {"SUCCESS", "DEVICE_ERROR", "TAG_ERROR"}
      /\ code = "SUCCESS" <=> Selected.error = "none"
  BY TakesAnswer, ExitCodes
<1>3. Response.error = Selected.error /\ Response.data = Data
  BY DEF Response, Answer
<1>4. /\ shown' = IF kind = "get" THEN Data ELSE <<>>
      /\ ExitWith(code, <<>>) /\ watched' = watched
  BY <1>1, <1>3 DEF AnswerEndsCommand
<1> HIDE DEF code
<1>5. /\ phase' = "exited" /\ verdict' = code /\ IsSeq(toServer')
      /\ ToSet(toServer') \subseteq ToSet(toServer) \cup ToSet(<<>>) \cup {Fin}
  BY <1>1, <1>4, EmptyIsSeq, ExitSends
<1>6. toClient' = <<>>
  BY <1>5, TakesAnswer
<1>7. TypeInv'
  BY <1>1, <1>4, <1>5, <1>6, EmptyIsSeq, TakesAnswer DEF CommandInv, TypeInv
<1>8. VerdictInv' /\ BeforeInv' /\ AskingInv' /\ SubscriptionInv'
  BY <1>1, <1>2, <1>5, <1>6 DEF VerdictInv, BeforeInv, AskingInv, SubscriptionInv
<1>9. Selected' = Selected /\ Data' = Data /\ WasAsked' = WasAsked
  BY <1>1 DEF Selected, Data, WasAsked
<1>10. AnsweredInv'
  <2>1. serverEnd = "open" =>
          \A msg \in ToSet(toServer') : msg.kind \notin {"tags.get", "tags.resolve"}
    <3>1. serverEnd = "open" => ToSet(toServer') \subseteq {Fin}
      BY <1>1, <1>5, EmptyIsSeq
    <3> QED
      BY <3>1 DEF Fin
  <2>2. ExitCode(Selected.error)' = code
    BY <1>9 DEF code
  <2> QED
    BY <1>1, <1>2, <1>4, <1>5, <1>9, <2>1, <2>2 DEF AnsweredInv
<1>11. EventsInv'
  <2>1. IsPrefix(<<>>, PrintedOf(watched, trace, Read(due)))
    BY <1>1, EmptyIsSeq, ReadIsSeq, PrefixEmpty
  <2> QED
    BY <1>1, <1>4, <1>5, <2>1 DEF EventsInv
<1> QED
  BY <1>7, <1>8, <1>10, <1>11 DEF CommandInv

LEMMA CommandBegins ==
  ASSUME CommandInv, ClientReceive, ReceiveAnswer, AnswerBeginsWatch(Head(toClient))
  PROVE  CommandInv'
<1>1. /\ WasAsked /\ IsSeq(toServer) /\ Head(toClient) = Response /\ verdict = "none"
      /\ serverEnd \in {"open", "closed"}
      /\ serverEnd = "open" => toServer = <<>>
      /\ Tail(toClient) = <<>> \/ (Tail(toClient) = <<Fin>> /\ serverEnd = "closed")
      /\ ~subscribed /\ due = <<>> /\ shown = <<>>
      /\ options \in CommandLines /\ AllowedTogether(options)
      /\ \A t \in ToSet(Selected.tags) : t.nodeId \in NodeIds
      /\ toClient' = IF phase' = "exited" THEN <<>> ELSE Tail(toClient)
      /\ UNCHANGED <<written, kind, options, trace, subscribed, serverEnd, askedOf, due>>
  BY TakesAnswer
<1>2. Response.error = Selected.error /\ (kind = "watch" => Response.data = Selected.tags)
  BY DEF Response, Answer, Data
<1>3. /\ kind = "watch" /\ Selected.error = "none"
      /\ watched' = {Selected.tags[i].nodeId : i \in DOMAIN Selected.tags}
      /\ phase' = "watching" /\ toServer' = Append(toServer, [kind |-> "subscribe"])
      /\ UNCHANGED <<shown, verdict>>
  BY <1>1, <1>2 DEF AnswerBeginsWatch
<1>4. watched' = {t.nodeId : t \in ToSet(Selected.tags)}
  <2>1. ASSUME NEW n \in watched' PROVE n \in {t.nodeId : t \in ToSet(Selected.tags)}
    BY <1>3 DEF ToSet
  <2>2. ASSUME NEW n \in {t.nodeId : t \in ToSet(Selected.tags)} PROVE n \in watched'
    <3>1. PICK t \in ToSet(Selected.tags) : n = t.nodeId
      OBVIOUS
    <3>2. PICK i \in DOMAIN Selected.tags : t = Selected.tags[i]
      BY DEF ToSet
    <3> QED
      BY <1>3, <3>1, <3>2
  <2> QED
    BY <2>1, <2>2
<1>5. watched' \subseteq NodeIds
  BY <1>1, <1>4
<1>6. toClient' = Tail(toClient)
  BY <1>1, <1>3
<1>7. IsSeq(toClient') /\ IsSeq(toServer')
      /\ ToSet(toServer') = ToSet(toServer) \cup {[kind |-> "subscribe"]}
  <2>1. toClient' = <<>> \/ toClient' = <<Fin>>
    BY <1>1, <1>6
  <2>2. IsSeq(toClient')
    BY <2>1, EmptyIsSeq, OneIsSeq
  <2> QED
    BY <1>1, <1>3, <2>2, AppendIsSeq
<1>8. TypeInv'
  BY <1>1, <1>3, <1>5, <1>7 DEF CommandInv, TypeInv
<1>9. VerdictInv' /\ AskingInv'
  BY <1>1, <1>3 DEF VerdictInv, AskingInv
<1>10. BeforeInv'
  BY <1>1, <1>3 DEF BeforeInv
<1>11. Selected' = Selected /\ WasAsked' = WasAsked
  BY <1>1 DEF Selected, WasAsked
<1>12. AnsweredInv'
  <2>1. serverEnd = "open" =>
          \A msg \in ToSet(toServer') : msg.kind \notin {"tags.get", "tags.resolve"}
    BY <1>1, <1>7, EmptyIsSeq
  <2>2. verdict' = "none" /\ phase' = "watching"
    BY <1>1, <1>3
  <2> QED
    BY <1>1, <1>3, <1>4, <1>11, <2>1, <2>2 DEF AnsweredInv
<1>13. SubscriptionInv'
  <2>1. \A e : Append(<<>>, e) = <<e>>
    OBVIOUS
  <2> QED
    BY <1>1, <1>3, <2>1 DEF SubscriptionInv
<1>14. EventsInv'
  <2> DEFINE ids == watched'
             all == trace'
  <2>1. Read(due') = <<>> /\ Len(due') = 0 /\ 0 \in 0..Len(due')
    <3>1. Len(Read(<<>>)) = 0 /\ IsSeq(Read(<<>>))
      BY EmptyIsSeq, ReadIsSeq
    <3>2. Read(<<>>) = <<>>
      <4> DEFINE r == Read(<<>>)
                 X == ToSet(r)
      <4>1. r \in Seq(X) /\ Len(r) = 0
        BY <3>1 DEF IsSeq
      <4> HIDE DEF r, X
      <4>2. r = <<>>
        BY <4>1, EmptySeq
      <4> QED
        BY <4>2 DEF r
    <3> QED
      BY <1>1, <3>2, EmptyIsSeq
  <2>2. PrintedOf(ids, all, <<>>) = <<>>
    BY FilterEmpty DEF PrintedOf
  <2>3. SubSeq(Read(due'), 1, 0) = <<>>
    BY <2>1, SubSeqEmpty
  <2>4. shown' = PrintedOf(watched', trace', SubSeq(Read(due'), 1, 0))
    BY <1>1, <1>3, <2>2, <2>3
  <2>5. \A i \in DOMAIN toClient' : toClient'[i] = Fin /\ serverEnd' = "closed"
    <3>1. \A i \in DOMAIN toClient' : toClient'[i] \in ToSet(toClient')
      BY DEF ToSet
    <3>2. toClient' = <<>> \/ (serverEnd = "closed" /\ toClient' = <<Fin>>)
      BY <1>1, <1>6
    <3>3. ToSet(toClient') = {} \/ (serverEnd = "closed" /\ ToSet(toClient') = {Fin})
      BY <3>2, EmptyIsSeq, OneIsSeq
    <3> QED
      BY <1>1, <3>1, <3>3
  <2>6. serverEnd' = "open" => Len(toClient') = Len(due') - 0
    <3>1. serverEnd' = "open" => toClient' = <<>>
      BY <1>1, <1>6
    <3> QED
      BY <2>1, <3>1, EmptyIsSeq
  <2> QED
    BY <1>3, <2>1, <2>4, <2>5, <2>6 DEF EventsInv
<1> QED
  BY <1>8, <1>9, <1>10, <1>12, <1>13, <1>14 DEF CommandInv

LEMMA CommandEvent ==
  ASSUME CommandInv, ClientReceive, ReceiveEvent
  PROVE  CommandInv'
<1> DEFINE change == Head(toClient).change
<1>1. /\ phase \in {"asking", "watching"} /\ toClient # <<>>
      /\ UNCHANGED <<written, kind, options, trace, subscribed, serverEnd, askedOf, due>>
      /\ Head(toClient).kind = "event"
      /\ shown' = IF Prints(change) THEN Append(shown, change) ELSE shown
      /\ UNCHANGED <<phase, watched, verdict, toServer>>
  BY DEF ClientReceive, ReceiveEvent, tagVars
<1>2. toClient' = Tail(toClient)
  BY <1>1 DEF ClientReceive
<1>3. /\ TypeInv /\ IsSeq(toClient) /\ IsSeq(due) /\ Len(due) \in Nat
  BY AppendIsSeq DEF CommandInv, TypeInv
<1>4. phase = "watching"
  <2> SUFFICES ASSUME phase = "asking" PROVE FALSE
    BY <1>1
  <2>1. toClient = <<Response>> \/ toClient = <<Fin>> \/ toClient = <<Response, Fin>>
    BY <1>1 DEF CommandInv, AskingInv
  <2>2. Head(toClient) \in {Response, Fin}
    BY <2>1, OneIsSeq, TwoIsSeq
  <2>3. Response.kind = "response" /\ Fin.kind = "fin"
    BY DEF Response, Answer, Fin
  <2> QED
    BY <1>1, <2>2, <2>3
<1>5. PICK k \in 0..Len(due) :
        /\ shown = PrintedOf(watched, trace, SubSeq(Read(due), 1, k))
        /\ \A i \in DOMAIN toClient :
             \/ toClient[i] = Fin /\ serverEnd = "closed"
             \/ k + i <= Len(due) /\ toClient[i] = Event(due[k + i])
        /\ serverEnd = "open" => Len(toClient) = Len(due) - k
  BY <1>4 DEF CommandInv, EventsInv
<1>6. /\ IsSeq(toClient') /\ Head(toClient) = toClient[1] /\ 1 \in DOMAIN toClient
      /\ Len(toClient') = Len(toClient) - 1 /\ Len(toClient) \in Nat
      /\ \A i \in DOMAIN toClient' :
           i \in Nat \ {0} /\ i + 1 \in DOMAIN toClient /\ toClient'[i] = toClient[i + 1]
  BY <1>1, <1>2, <1>3, TailIsSeq
<1>7. k + 1 <= Len(due) /\ change = AsRead(due[k + 1])
  <2>1. Fin.kind = "fin" /\ \A c : Event(c).change = AsRead(c)
    BY DEF Fin, Event
  <2>2. toClient[1] # Fin
    BY <1>1, <1>6, <2>1
  <2>3. k + 1 <= Len(due) /\ toClient[1] = Event(due[k + 1])
    BY <1>5, <1>6, <2>2
  <2> QED
    BY <1>6, <2>1, <2>3
<1> HIDE DEF change
<1>8. k + 1 \in 0..Len(due) /\ k + 1 \in 1..Len(due) /\ k \in Nat
  BY <1>3, <1>5, <1>7
<1>9. shown' = PrintedOf(watched', trace', SubSeq(Read(due'), 1, k + 1))
  <2> DEFINE r == Read(due)
             front == SubSeq(r, 1, k)
  <2>1. IsSeq(r) /\ Len(r) = Len(due) /\ r[k + 1] = change
    BY <1>3, <1>7, <1>8, ReadIsSeq
  <2>2. SubSeq(r, 1, k + 1) = Append(front, change) /\ IsSeq(front)
    <3> DEFINE X == ToSet(r)
    <3>1. r \in Seq(X)
      BY <2>1 DEF IsSeq
    <3> HIDE DEF r, X
    <3>2. k \in 0..Len(r) /\ k + 1 \in 1..Len(r) /\ Len(r) \in Nat
      BY <1>3, <1>5, <1>8, <2>1
    <3>3. IsSeq(front)
      BY <2>1, <3>2, FrontIsSeq
    <3>4. SubSeq(r, 1, k + 1) = Append(front, r[k + 1])
      BY <3>1, <3>2
    <3> QED
      BY <2>1, <3>3, <3>4
  <2> HIDE DEF r, front
  <2>3. shown = PrintedOf(watched, trace, front)
    BY <1>5 DEF front, r
  <2>4. PrintedOf(watched, trace, Append(front, change))
          = IF Passes(watched, trace, change) THEN Append(PrintedOf(watched, trace, front), change)
            ELSE PrintedOf(watched, trace, front)
    BY <2>2, PrintedAppend
  <2>5. Passes(watched, trace, change) <=> Prints(change)
    BY DEF Passes, Prints
  <2>6. shown' = PrintedOf(watched, trace, SubSeq(r, 1, k + 1))
    <3>1. CASE Prints(change)
      BY <1>1, <2>2, <2>3, <2>4, <2>5, <3>1
    <3>2. CASE ~Prints(change)
      BY <1>1, <2>2, <2>3, <2>4, <2>5, <3>2
    <3> QED
      BY <3>1, <3>2
  <2> QED
    BY <1>1, <2>6 DEF r
<1>10. ASSUME NEW i \in DOMAIN toClient'
       PROVE  \/ toClient'[i] = Fin /\ serverEnd = "closed"
              \/ (k + 1) + i <= Len(due) /\ toClient'[i] = Event(due[(k + 1) + i])
  <2>1. k + (i + 1) = (k + 1) + i
    BY <1>6, <1>8
  <2>2. i + 1 \in DOMAIN toClient /\ toClient'[i] = toClient[i + 1]
    BY <1>6
  <2>3. \/ toClient[i + 1] = Fin /\ serverEnd = "closed"
        \/ k + (i + 1) <= Len(due) /\ toClient[i + 1] = Event(due[k + (i + 1)])
    BY <1>5, <2>2
  <2> QED
    BY <2>1, <2>2, <2>3
<1>11. serverEnd = "open" => Len(toClient') = Len(due) - (k + 1)
  BY <1>3, <1>5, <1>6, <1>8
<1>12. EventsInv'
  <2>1. /\ shown' = PrintedOf(watched', trace', SubSeq(Read(due'), 1, k + 1))
        /\ \A i \in DOMAIN toClient' :
             \/ toClient'[i] = Fin /\ serverEnd' = "closed"
             \/ (k + 1) + i <= Len(due') /\ toClient'[i] = Event(due'[(k + 1) + i])
        /\ serverEnd' = "open" => Len(toClient') = Len(due') - (k + 1)
        /\ k + 1 \in 0..Len(due')
    BY <1>1, <1>8, <1>9, <1>10, <1>11
  <2>2. phase' = "watching"
    BY <1>1, <1>4
  <2> QED
    BY <2>1, <2>2, Zenon DEF EventsInv, Fin
<1>13. TypeInv'
  BY <1>1, <1>3, <1>6 DEF TypeInv
<1>14. VerdictInv' /\ BeforeInv' /\ AskingInv' /\ SubscriptionInv'
  BY <1>1, <1>4 DEF CommandInv, VerdictInv, BeforeInv, AskingInv, SubscriptionInv
<1>15. Selected' = Selected /\ WasAsked' = WasAsked
  BY <1>1 DEF Selected, WasAsked
<1>16. AnsweredInv'
  <2>1. verdict = "none"
    BY <1>4 DEF CommandInv, VerdictInv
  <2> QED
    BY <1>1, <1>4, <1>15, <2>1 DEF CommandInv, AnsweredInv
<1> QED
  BY <1>12, <1>13, <1>14, <1>16 DEF CommandInv

LEMMA CommandsInit == Init => RuntimeInv /\ CommandInv
<1> SUFFICES ASSUME Init PROVE CommandInv
  BY RuntimeInit
<1>1. /\ kind = None /\ options = None /\ trace = FALSE /\ phase = "idle" /\ written = 0
      /\ watched = {} /\ shown = <<>> /\ verdict = "none"
      /\ subscribed = FALSE /\ serverEnd = "none"
      /\ toServer = <<>> /\ toClient = <<>> /\ due = <<>>
  BY DEF Init
<1>2. TypeInv
  <2>1. 0 \in 0..MaxChanges
    BY SoundAssumption
  <2>2. IsSeq(<<>>) /\ Len(<<>>) <= 0
    BY EmptyIsSeq
  <2> QED
    BY <1>1, <2>1, <2>2, Zenon DEF TypeInv
<1>3. VerdictInv /\ BeforeInv /\ AskingInv /\ AnsweredInv /\ SubscriptionInv /\ EventsInv
  BY <1>1 DEF VerdictInv, BeforeInv, AskingInv, AnsweredInv, SubscriptionInv, EventsInv
<1> QED
  BY <1>2, <1>3 DEF CommandInv

LEMMA CommandReceives ==
  ASSUME CommandInv, ClientReceive
  PROVE  CommandInv'
<1>1. ReceiveAnswer \/ ReceiveEvent \/ ReceiveClose
  BY DEF ClientReceive
<1>2. CASE ReceiveAnswer
  <2>1. AnswerEndsCommand(Head(toClient)) \/ AnswerBeginsWatch(Head(toClient))
    BY <1>2 DEF ReceiveAnswer
  <2> QED
    BY <1>2, <2>1, CommandAnswered, CommandBegins
<1> QED
  BY <1>1, <1>2, CommandEvent, CommandClose

LEMMA CommandGivesUp ==
  ASSUME CommandInv, ConnectFails \/ RequestTimesOut \/ Interrupt \/ Killed
  PROVE  CommandInv'
<1>1. IsSeq(<<>>) /\ ToSet(<<>>) = {}
  BY EmptyIsSeq
<1>2. CASE ConnectFails
  <2>1. /\ phase = "connecting" /\ ExitWith("SERVER_ERROR", <<>>)
        /\ UNCHANGED <<written, kind, options, trace, watched, shown,
                       subscribed, serverEnd, toClient, askedOf, due>>
    BY <1>2 DEF ConnectFails, tagVars
  <2> QED
    BY <1>1, <2>1, CommandExits
<1>3. CASE RequestTimesOut
  <2>1. /\ phase = "asking" /\ ExitWith("UNKNOWN_ERROR", <<>>) /\ toClient' = <<>>
        /\ UNCHANGED <<written, kind, options, trace, watched, shown,
                       subscribed, serverEnd, askedOf, due>>
    BY <1>3 DEF RequestTimesOut, tagVars
  <2> QED
    BY <1>1, <2>1, CommandExits
<1>4. CASE Interrupt
  <2>1. /\ phase = "watching" /\ ExitWith("SUCCESS", <<[kind |-> "unsubscribe"]>>)
        /\ toClient' = <<>>
        /\ UNCHANGED <<written, kind, options, trace, watched, shown,
                       subscribed, serverEnd, askedOf, due>>
    BY <1>4 DEF Interrupt, tagVars
  <2>2. IsSeq(<<[kind |-> "unsubscribe"]>>)
        /\ \A msg \in ToSet(<<[kind |-> "unsubscribe"]>>) : msg.kind = "unsubscribe"
    BY OneIsSeq
  <2> QED
    BY <2>1, <2>2, CommandExits
<1>5. CASE Killed
  <2>1. /\ phase \in {"connecting", "asking", "watching"}
        /\ ExitWith("killed", <<>>) /\ toClient' = <<>>
        /\ UNCHANGED <<written, kind, options, trace, watched, shown,
                       subscribed, serverEnd, askedOf, due>>
    BY <1>5 DEF Killed, tagVars
  <2> QED
    BY <1>1, <2>1, CommandExits
<1> QED
  BY <1>2, <1>3, <1>4, <1>5

LEMMA CommandsNext ==
  ASSUME RuntimeInv, CommandInv, [Next]_vars
  PROVE  RuntimeInv' /\ CommandInv'
<1>1. ASSUME NEW config \in Configs, Reload(config) PROVE RuntimeInv' /\ CommandInv'
  <2>1. UNCHANGED <<written, commandVars, socketVars>>
    BY <1>1 DEF Reload
  <2> QED
    BY <1>1, <2>1, RuntimeReload, CommandUnchanged
<1>2. ASSUME NEW n \in NodeIds, NEW value \in Values, Write(n, value)
      PROVE  RuntimeInv' /\ CommandInv'
  BY <1>2, RuntimeWrite, CommandWrite
<1>3. CASE ServerReceive
  <2>1. RuntimeInv'
    BY <1>3, RuntimeUnchanged DEF ServerReceive, tagVars
  <2>2. ReceiveRequest \/ ReceiveSubscription \/ ReceiveUnsubscription \/ ReceiveEnd
    BY <1>3 DEF ServerReceive
  <2> QED
    BY <1>3, <2>1, <2>2, CommandRequest, CommandOtherMessage
<1>4. CASE Stop
  BY <1>4, RuntimeUnchanged, CommandStop DEF Stop, tagVars
<1>5. ASSUME NEW k \in {"get", "watch"}, NEW o \in CommandLines, NEW t \in BOOLEAN,
             Start(k, o, t)
      PROVE  RuntimeInv' /\ CommandInv'
  BY <1>5, RuntimeUnchanged, CommandStart DEF Start, tagVars
<1>6. CASE Connect
  BY <1>6, RuntimeUnchanged, CommandConnect DEF Connect, tagVars
<1>7. CASE ClientReceive
  BY <1>7, RuntimeUnchanged, CommandReceives DEF ClientReceive, tagVars
<1>8. CASE ConnectFails \/ RequestTimesOut \/ Interrupt \/ Killed
  <2>1. UNCHANGED tagVars
    BY <1>8 DEF ConnectFails, RequestTimesOut, Interrupt, Killed
  <2> QED
    BY <1>8, <2>1, RuntimeUnchanged, CommandGivesUp DEF tagVars
<1>9. CASE UNCHANGED vars
  <2>1. UNCHANGED <<written, commandVars, socketVars>> /\ UNCHANGED tagVars
    BY <1>9 DEF vars, tagVars
  <2> QED
    BY <2>1, RuntimeUnchanged, CommandUnchanged DEF tagVars
<1> QED
  BY <1>1, <1>2, <1>3, <1>4, <1>5, <1>6, <1>7, <1>8, <1>9 DEF Next, Command

(* At every moment, whatever is written, reloaded, asked and lost.         *)
THEOREM Invariant == Spec => [](RuntimeInv /\ CommandInv)
<1>1. RuntimeInv /\ CommandInv /\ [Next]_vars => (RuntimeInv /\ CommandInv)'
  BY CommandsNext
<1> QED
  BY CommandsInit, <1>1, PTL DEF Spec

-----------------------------------------------------------------------------
(* What follows.                                                           *)

(* The types; and the runtime knows the tags there are, and no others.     *)
THEOREM Types == Spec => []TypeOK
<1>1. RuntimeInv /\ CommandInv => TypeOK
  <2> SUFFICES ASSUME RuntimeInv, CommandInv PROVE TypeOK
    OBVIOUS
  <2> DEFINE all == registry \o NodesetDevices
  <2>1. /\ registry \in Configs
        /\ node \in [NodeIds -> Values \cup {t.value : t \in AnyTag} \cup {NoValue}]
        /\ \A t \in TagSet(all) : runtime[t.nodeId] = [device |-> t.device, value |-> node[t.nodeId]]
        /\ \A n \in NodeIds : (\A t \in TagSet(all) : t.nodeId # n) => runtime[n] = NoTag
    BY DEF RuntimeInv, AllDeviceEntries
  <2>2. \A t \in TagSet(all) : t.nodeId \in NodeIds /\ t.device # None
    BY <2>1, Known
  <2> HIDE DEF all
  <2>3. {n \in NodeIds : runtime[n] # NoTag} = {t.nodeId : t \in TagSet(all)}
    <3>1. ASSUME NEW t \in TagSet(all) PROVE runtime[t.nodeId] # NoTag
      <4>1. /\ runtime[t.nodeId] = [device |-> t.device, value |-> node[t.nodeId]]
            /\ t.device # None
        BY <2>1, <2>2
      <4>2. NoTag.device = None
        BY DEF NoTag
      <4> QED
        BY <4>1, <4>2
    <3>2. ASSUME NEW n \in NodeIds, runtime[n] # NoTag
          PROVE  \E t \in TagSet(all) : t.nodeId = n
      BY <2>1, <3>2
    <3> QED
      BY <2>2, <3>1, <3>2
  <2>4. /\ subscribed \in BOOLEAN /\ trace \in BOOLEAN
        /\ serverEnd \in {"none", "open", "closed"}
        /\ written \in 0..MaxChanges /\ Len(due) <= written
        /\ kind \in {"get", "watch", None}
        /\ options \in CommandLines \cup {None}
        /\ phase \in {"idle", "connecting", "asking", "watching", "exited"}
        /\ watched \subseteq NodeIds
    BY DEF CommandInv, TypeInv
  <2> QED
    BY <2>1, <2>3, <2>4 DEF TypeOK, AllDeviceEntries, all
<1> QED
  BY Invariant, <1>1, PTL

(* What a command answers, or is refused for, is what the documentation    *)
(* says of its options, of the devices that the server had when it         *)
(* answered; and the values of `get` are those of that moment.             *)
THEOREM AnswersAsDocumented == Spec => []AnswersWhatWasAsked
<1>1. RuntimeInv /\ CommandInv => AnswersWhatWasAsked
  <2> SUFFICES ASSUME RuntimeInv, CommandInv PROVE AnswersWhatWasAsked
    OBVIOUS
  <2> DEFINE expected == Selection(askedOf.devices, options)
             value(t) == OnTheWire(askedOf.values[t.nodeId])
  <2>1. phase # "idle" => (verdict = "VALIDATION_ERROR" <=> ~AllowedTogether(options))
    BY DEF CommandInv, VerdictInv
  <2>2. ASSUME phase = "watching" \/ verdict \in {"SUCCESS", "DEVICE_ERROR", "TAG_ERROR"}
        PROVE  /\ WasAsked /\ Selected.error = expected.error
               /\ ToSet(Selected.tags) = expected.tags
    <3>1. WasAsked
      BY <2>2 DEF CommandInv, AnsweredInv
    <3>2. phase # "idle" /\ AllowedTogether(options)
      BY <2>2 DEF CommandInv, VerdictInv
    <3>3. options \in CommandLines
      BY <3>2 DEF CommandInv, TypeInv
    <3> QED
      BY <3>1, <3>2, <3>3, SelectedFacts
  <2> HIDE DEF expected
  <2>3. phase = "watching" =>
          expected.error = "none" /\ watched = {t.nodeId : t \in expected.tags}
    BY <2>2 DEF CommandInv, AnsweredInv
  <2>4. ASSUME kind = "get", verdict = "SUCCESS"
        PROVE  expected.error = "none" /\ ToSet(shown) = {[tag |-> t, value |-> value(t)] : t \in expected.tags}
    <3> DEFINE tags == Selected.tags
    <3>1. Selected.error = "none" /\ shown = Data
      BY <2>4 DEF CommandInv, AnsweredInv
    <3>2. shown = [i \in DOMAIN tags |-> [tag |-> tags[i], value |-> value(tags[i])]]
      BY <2>4, <3>1 DEF Data
    <3>3. ToSet(tags) = expected.tags
      BY <2>2, <2>4
    <3> HIDE DEF tags, value
    <3>4. ToSet(shown) = {[tag |-> t, value |-> value(t)] : t \in ToSet(tags)}
      <4>1. DOMAIN shown = DOMAIN tags
            /\ \A i \in DOMAIN tags : shown[i] = [tag |-> tags[i], value |-> value(tags[i])]
        BY <3>2
      <4>2. ASSUME NEW x \in ToSet(shown)
            PROVE  \E t \in ToSet(tags) : x = [tag |-> t, value |-> value(t)]
        BY <4>1 DEF ToSet
      <4>3. ASSUME NEW t \in ToSet(tags) PROVE [tag |-> t, value |-> value(t)] \in ToSet(shown)
        BY <4>1 DEF ToSet
      <4> QED
        BY <4>2, <4>3
    <3> QED
      BY <2>2, <2>4, <3>1, <3>3, <3>4
  <2>5. verdict \in {"DEVICE_ERROR", "TAG_ERROR"} => verdict = ExitCode(expected.error)
    BY <2>2 DEF CommandInv, AnsweredInv
  <2> QED
    BY <2>1, <2>3, <2>4, <2>5 DEF AnswersWhatWasAsked, expected
<1> QED
  BY Invariant, <1>1, PTL

(* What is on its way to a watch whose connection is open is what it has   *)
(* not seen: an event for each of the changes, in their order.             *)
LEMMA ComingChanges ==
  ASSUME NEW messages, IsSeq(messages), NEW changes, IsSeq(changes), NEW k \in 0..Len(changes),
         Len(messages) = Len(changes) - k,
         \A i \in DOMAIN messages : messages[i] = Event(changes[k + i])
  PROVE  LET events == Filter(messages, {msg \in ToSet(messages) : msg.kind = "event"})
             coming == [i \in DOMAIN events |-> events[i].change]
         IN /\ IsSeq(coming)
            /\ SubSeq(Read(changes), 1, k) \o coming = Read(changes)
<1> DEFINE events == Filter(messages, {msg \in ToSet(messages) : msg.kind = "event"})
           coming == [i \in DOMAIN messages |-> messages[i].change]
           front == SubSeq(Read(changes), 1, k)
           n == Len(changes)
<1>1. /\ messages \in Seq(ToSet(messages)) /\ DOMAIN messages = 1..Len(messages)
      /\ Len(messages) \in Nat
  BY LenProperties DEF IsSeq
<1>2. /\ IsSeq(Read(changes)) /\ Len(Read(changes)) = n /\ n \in Nat
      /\ \A i \in 1..n : Read(changes)[i] = AsRead(changes[i])
      /\ k \in Nat /\ k <= n /\ n - k \in Nat
  BY ReadIsSeq
<1>3. {msg \in ToSet(messages) : msg.kind = "event"} = ToSet(messages)
  <2>1. ASSUME NEW msg \in ToSet(messages) PROVE msg.kind = "event"
    <3>1. PICK i \in DOMAIN messages : msg = messages[i]
      BY DEF ToSet
    <3>2. msg = Event(changes[k + i])
      BY <3>1
    <3> QED
      BY <3>2 DEF Event
  <2> QED
    BY <2>1
<1>4. events = messages
  BY <1>1, <1>3, FilterAll
<1>5. /\ DOMAIN coming = 1..(n - k)
      /\ \A i \in 1..(n - k) : coming[i] = Read(changes)[k + i]
  <2>1. ASSUME NEW i \in 1..(n - k) PROVE messages[i].change = Read(changes)[k + i]
    <3>1. messages[i] = Event(changes[k + i])
      BY <1>1
    <3>2. k + i \in 1..n
      BY <1>2
    <3> QED
      BY <1>2, <3>1, <3>2 DEF Event
  <2> QED
    BY <1>1, <2>1
<1>6. /\ IsSeq(coming) /\ Len(coming) = n - k
  <2> DEFINE m == n - k
  <2>1. m \in Nat /\ DOMAIN coming = 1..m /\ coming = [i \in 1..m |-> coming[i]]
    BY <1>1, <1>2
  <2> HIDE DEF coming, m
  <2> DEFINE X == ToSet(coming)
  <2>2. coming \in [1..m -> X]
    BY <2>1, Zenon DEF ToSet
  <2> HIDE DEF X
  <2>3. coming \in Seq(X)
    BY <2>1, <2>2
  <2>4. Len(coming) = m
    BY <2>1, <2>3, LenProperties
  <2> QED
    BY <2>3, <2>4 DEF IsSeq, m, X
<1>7. /\ IsSeq(front) /\ Len(front) = k
      /\ \A i \in 1..k : front[i] = Read(changes)[i]
  BY <1>2, FrontIsSeq
<1>8. front \o coming = Read(changes)
  <2> DEFINE X == ToSet(front) \cup ToSet(coming) \cup ToSet(Read(changes))
             whole == Read(changes)
  <2> HIDE DEF front, coming, whole, n
  <2>1. front \in Seq(X) /\ coming \in Seq(X) /\ whole \in Seq(X)
    <3> DEFINE F == ToSet(front)
               C == ToSet(coming)
               W == ToSet(whole)
    <3>1. front \in Seq(F) /\ coming \in Seq(C) /\ whole \in Seq(W)
      BY <1>2, <1>6, <1>7 DEF IsSeq, whole
    <3>2. F \subseteq X /\ C \subseteq X /\ W \subseteq X
      BY DEF whole
    <3> HIDE DEF F, C, W, X
    <3> QED
      BY <3>1, <3>2, SeqMonotonic
  <2> HIDE DEF X
  <2>2. /\ front \o coming \in Seq(X) /\ Len(front \o coming) = n
        /\ \A i \in 1..n : (front \o coming)[i] = IF i <= k THEN front[i] ELSE coming[i - k]
    <3>1. /\ front \o coming \in Seq(X)
          /\ Len(front \o coming) = Len(front) + Len(coming)
          /\ \A i \in 1..(Len(front) + Len(coming)) :
               (front \o coming)[i] = IF i <= Len(front) THEN front[i] ELSE coming[i - Len(front)]
      BY <2>1, ConcatProperties, Zenon
    <3>2. Len(front) = k /\ Len(front) + Len(coming) = n
      BY <1>2, <1>6, <1>7
    <3> QED
      BY <3>1, <3>2
  <2>3. \A i \in 1..n : (front \o coming)[i] = whole[i]
    <3> SUFFICES ASSUME NEW i \in 1..n PROVE (front \o coming)[i] = whole[i]
      OBVIOUS
    <3>1. CASE i <= k
      BY <1>2, <1>7, <2>2, <3>1 DEF whole
    <3>2. CASE ~(i <= k)
      <4>1. i - k \in 1..(n - k) /\ k + (i - k) = i
        BY <1>2, <3>2
      <4> QED
        BY <1>5, <2>2, <3>2, <4>1 DEF whole
    <3> QED
      BY <3>1, <3>2
  <2>4. Len(whole) = n
    BY <1>2 DEF whole
  <2>5. front \o coming = whole
    BY <2>1, <2>2, <2>3, <2>4, SeqEqual
  <2> QED
    BY <2>5 DEF whole
<1> HIDE DEF events, coming, front
<1> QED
  BY <1>4, <1>6, <1>8 DEF events, coming, front

(* A watch prints each change of its tags that passes the deadband, from   *)
(* its subscription on, once and in the order they were made.              *)
THEOREM WatchPrints == Spec => []PrintsEveryChange
<1>1. RuntimeInv /\ CommandInv => PrintsEveryChange
  <2> SUFFICES ASSUME CommandInv, kind = "watch" PROVE PrintsEveryChange
    BY DEF PrintsEveryChange
  <2> DEFINE events == Filter(toClient, {msg \in ToSet(toClient) : msg.kind = "event"})
             coming == [i \in DOMAIN events |-> events[i].change]
             changes == [i \in DOMAIN due |-> AsRead(due[i])]
  <2>1. /\ IsSeq(due) /\ IsSeq(toClient)
        /\ phase \in {"idle", "connecting", "asking", "watching", "exited"}
    BY DEF CommandInv, TypeInv
  <2>2. changes = Read(due)
    BY DEF Read
  <2>3. IsSeq(Read(due)) /\ Len(Read(due)) = Len(due)
    BY <2>1, ReadIsSeq
  <2>4. \A s : Printed(s) = PrintedOf(watched, trace, s)
    BY DEF Printed, PrintedOf, Prints
  <2> HIDE DEF events, coming, changes
  <2>5. CASE phase \in {"idle", "connecting", "asking"}
    <3>1. shown = <<>>
      BY <2>5 DEF CommandInv, BeforeInv
    <3>2. IsPrefix(shown, Printed(changes))
      BY <2>2, <2>3, <2>4, <3>1, PrefixEmpty
    <3> QED
      BY <2>5, <3>2 DEF PrintsEveryChange, changes
  <2>6. CASE phase = "exited"
    <3>1. IsPrefix(shown, Printed(changes))
      BY <2>2, <2>4, <2>6 DEF CommandInv, EventsInv
    <3> QED
      BY <2>6, <3>1 DEF PrintsEveryChange, changes
  <2>7. CASE phase = "watching"
    <3>1. PICK k \in 0..Len(due) :
            /\ shown = PrintedOf(watched, trace, SubSeq(Read(due), 1, k))
            /\ \A i \in DOMAIN toClient :
                 \/ toClient[i] = Fin /\ serverEnd = "closed"
                 \/ k + i <= Len(due) /\ toClient[i] = Event(due[k + i])
            /\ serverEnd = "open" => Len(toClient) = Len(due) - k
      BY <2>7 DEF CommandInv, EventsInv
    <3>2. IsPrefix(shown, Printed(changes))
      BY <2>2, <2>3, <2>4, <3>1, PrintedOfFirst
    <3>3. ASSUME serverEnd = "open" PROVE shown \o Printed(coming) = Printed(changes)
      <4>1. \A i \in DOMAIN toClient : toClient[i] = Event(due[k + i])
        BY <3>1, <3>3
      <4>2. IsSeq(coming) /\ SubSeq(Read(due), 1, k) \o coming = Read(due)
        BY <2>1, <3>1, <3>3, <4>1, ComingChanges DEF coming, events
      <4> DEFINE front == SubSeq(Read(due), 1, k)
      <4>3. IsSeq(front)
        BY <2>3, FrontIsSeq
      <4> HIDE DEF front
      <4>4. PrintedOf(watched, trace, front \o coming)
              = PrintedOf(watched, trace, front) \o PrintedOf(watched, trace, coming)
        BY <4>2, <4>3, PrintedConcat
      <4> QED
        BY <2>2, <2>4, <3>1, <4>2, <4>4 DEF front
    <3> QED
      BY <3>2, <3>3 DEF PrintsEveryChange, changes, coming, events
  <2> QED
    BY <2>1, <2>5, <2>6, <2>7
<1> QED
  BY Invariant, <1>1, PTL

(* The old value of a change is the one that `get` would have answered.    *)
THEOREM OldValues == Spec => OldValueIsWhatGetAnswers
<1> DEFINE Step == due' # due =>
             LET change == due'[Len(due')] IN change.old = GetValue(change.nodeId)
<1>1. ASSUME RuntimeInv, CommandInv, [Next]_vars PROVE Step
  <2> SUFFICES ASSUME due' # due
               PROVE  LET change == due'[Len(due')] IN change.old = GetValue(change.nodeId)
    OBVIOUS
  <2>1. PICK n \in NodeIds, value \in Values : Write(n, value)
    <3>1. Command => due' = due
      BY DEF Command, Start, Connect, ConnectFails, ClientReceive, RequestTimesOut, Interrupt, Killed
    <3>2. ServerReceive \/ Stop \/ UNCHANGED vars => due' = due
      BY DEF ServerReceive, Stop, vars, socketVars
    <3>3. \A config \in Configs : Reload(config) => due' = due
      BY DEF Reload, socketVars
    <3> QED
      BY <1>1, <3>1, <3>2, <3>3 DEF Next
  <2>2. due' = Append(due, Change(n, value))
    BY <2>1 DEF Write
  <2>3. IsSeq(due)
    BY <1>1 DEF CommandInv, TypeInv
  <2>4. due'[Len(due')] = Change(n, value)
    BY <2>2, <2>3, AppendIsSeq
  <2> QED
    BY <1>1, <2>1, <2>4, OldIsRuntime
<1>2. RuntimeInv /\ CommandInv /\ [Next]_vars => [Step]_vars
  BY <1>1
<1> HIDE DEF Step
<1>3. Spec => [][Step]_vars
  BY Invariant, <1>2, PTL DEF Spec
<1> QED
  BY <1>3 DEF OldValueIsWhatGetAnswers, Step

=============================================================================
