--------------------------- MODULE TagSelectors ---------------------------
(***************************************************************************)
(* How `watch` and `get` pick tags: from the options of the command line   *)
(* to a selector, and from a selector to tags of the server's devices; and *)
(* when a change of a value is worth telling.  Pure operators, with what   *)
(* docs/CLI.md says of the options as their reference.                     *)
(*                                                                         *)
(* A device is a record of a key and a sequence of tags.  An option is not *)
(* given (Unset), the empty string (Blank) or a name; --tags is split at   *)
(* its commas, so that "" is <<Blank>>.                                    *)
(***************************************************************************)
EXTENDS Integers, Sequences, SequencesExt

CONSTANTS
  Unset, Blank,  \* an option that is not given, or that is empty
  NaN            \* the number that is none

(* filter: the elements of a sequence that are in a set, in order.         *)
Filter(seq, S) ==
  LET f[i \in 0..Len(seq)] ==
        IF i = 0 THEN <<>>
        ELSE IF seq[i] \in S THEN Append(f[i - 1], seq[i]) ELSE f[i - 1]
  IN f[Len(seq)]

(* What the code takes for given: "" is as good as nothing.                *)
Given(option) == option \notin {Unset, Blank, <<Blank>>}

-----------------------------------------------------------------------------
(* buildTagSelectorPayload.                                                *)

Invalid(options) ==
  \/ Given(options.nodeId) /\ \E o \in {"device", "browseName", "tags"} : Given(options[o])
  \/ options.tags # Unset /\ (Given(options.browseName) \/ ~Given(options.device))

NamesIn(tags) == Filter(tags, ToSet(tags) \ {Blank})

BuildTagSelectorPayload(options) ==
  [nodeId |-> options.nodeId, browseName |-> options.browseName,
   tags |-> IF Given(options.tags) THEN NamesIn(options.tags) ELSE Unset,
   device |-> options.device]

-----------------------------------------------------------------------------
(* resolveTagSelector: what it throws, or the tags it returns in order.    *)

Resolved(code, tags) == [error |-> code, tags |-> tags]

Error(code) == Resolved(code, <<>>)

(* toResolved.                                                             *)
Label(device, tag) ==
  [device |-> device.key, browseName |-> tag.browseName, nodeId |-> tag.nodeId]

TagsOf(device) == [i \in DOMAIN device.tags |-> Label(device, device.tags[i])]

AllTags(devices) == FlattenSeq([i \in DOMAIN devices |-> TagsOf(devices[i])])

(* find: the first, if there is one.                                       *)
First(seq) == SubSeq(seq, 1, IF seq = <<>> THEN 0 ELSE 1)

FoundOr(tags) == IF tags = <<>> THEN Error("TAG_NOT_FOUND") ELSE Resolved("none", tags)

ByNodeId(tags, nodeId) == Filter(tags, {tag \in ToSet(tags) : tag.nodeId = nodeId})

ByBrowseName(tags, name) == Filter(tags, {tag \in ToSet(tags) : tag.browseName = name})

ResolveSubset(tags, names) ==
  LET found == [i \in DOMAIN names |-> First(ByBrowseName(tags, names[i]))]
  IN IF \E i \in DOMAIN names : found[i] = <<>>
     THEN Error("TAG_NOT_FOUND") ELSE Resolved("none", FlattenSeq(found))

ResolveOnDevice(device, selector) ==
  IF Given(selector.tags) /\ selector.tags # <<>>
  THEN ResolveSubset(TagsOf(device), selector.tags)
  ELSE IF Given(selector.browseName)
  THEN FoundOr(First(ByBrowseName(TagsOf(device), selector.browseName)))
  ELSE Resolved("none", TagsOf(device))

(* Mutation: a name that several devices have is taken of the first.       *)
GuessAmongAll(tags, name) == FoundOr(First(ByBrowseName(tags, name)))

ResolveAmongAll(tags, name) ==
  IF Len(ByBrowseName(tags, name)) > 1 THEN Error("TAG_BROWSE_NAME_AMBIGUOUS")
  ELSE FoundOr(ByBrowseName(tags, name))

ResolveTagSelector(devices, selector) ==
  LET named == Filter(devices, {d \in ToSet(devices) : d.key = selector.device}) IN
  CASE Given(selector.nodeId) -> FoundOr(First(ByNodeId(AllTags(devices), selector.nodeId)))
    [] ~Given(selector.nodeId) /\ Given(selector.device) ->
         IF named = <<>> THEN Error("DEVICE_NOT_FOUND")
         ELSE ResolveOnDevice(Head(named), selector)
    [] ~Given(selector.nodeId) /\ ~Given(selector.device) /\ Given(selector.browseName) ->
         ResolveAmongAll(AllTags(devices), selector.browseName)
    [] OTHER -> Resolved("none", AllTags(devices))

-----------------------------------------------------------------------------
(* The reference: the table of docs/CLI.md, for devices whose keys differ  *)
(* and tags whose nodeIds do, and differ in name on a device.              *)

IsSeq(s) == s \in Seq(ToSet(s))

Distinct(devices) ==
  /\ IsSeq(devices) /\ \A i \in DOMAIN devices : IsSeq(devices[i].tags)
  /\ \A i, j \in DOMAIN devices : devices[i].key = devices[j].key => i = j
  /\ \A i, j \in DOMAIN devices :
       \A k \in DOMAIN devices[i].tags, l \in DOMAIN devices[j].tags :
         devices[i].tags[k].nodeId = devices[j].tags[l].nodeId => i = j /\ k = l
  /\ \A i \in DOMAIN devices : \A k, l \in DOMAIN devices[i].tags :
       devices[i].tags[k].browseName = devices[i].tags[l].browseName => k = l

(* What --tags is given is a sequence of names, which no other value is.   *)
WellFormed(options) ==
  options.tags # Unset =>
    /\ IsSeq(options.tags)
    /\ Unset \notin Seq(ToSet(options.tags)) /\ Blank \notin Seq(ToSet(options.tags))

(* The flags that may be given together.                                   *)
Combinations ==
  {{}, {"device"}, {"nodeId"}, {"browseName"}, {"device", "browseName"}, {"device", "tags"}}

AllowedTogether(options) ==
  {o \in {"device", "nodeId", "browseName"} : Given(options[o])}
    \cup {o \in {"tags"} : options.tags # Unset} \in Combinations

Names(options) == IF options.tags = Unset THEN {} ELSE ToSet(options.tags) \ {Blank}

TagSet(devices) ==
  UNION {{Label(devices[i], devices[i].tags[j]) : j \in DOMAIN devices[i].tags}
         : i \in DOMAIN devices}

AskedFor(options, tag) ==
  /\ Given(options.nodeId) => tag.nodeId = options.nodeId
  /\ Given(options.device) => tag.device = options.device
  /\ Given(options.browseName) => tag.browseName = options.browseName
  /\ Names(options) # {} => tag.browseName \in Names(options)

(* What the options select, as a set, or what is wrong with them.          *)
Selection(devices, options) ==
  LET tags == {tag \in TagSet(devices) : AskedFor(options, tag)}
      noDevice ==
        Given(options.device) /\ \A i \in DOMAIN devices : devices[i].key # options.device
      several ==
        /\ Given(options.browseName) /\ ~Given(options.device)
        /\ \E s, t \in tags : s # t
      missing ==
        \/ tags = {} /\ (Given(options.nodeId) \/ Given(options.browseName))
        \/ \E name \in Names(options) : \A tag \in tags : tag.browseName # name
      error == IF ~AllowedTogether(options) THEN "TAG_SELECTOR_INVALID"
               ELSE IF noDevice THEN "DEVICE_NOT_FOUND"
               ELSE IF several THEN "TAG_BROWSE_NAME_AMBIGUOUS"
               ELSE IF missing THEN "TAG_NOT_FOUND" ELSE "none"
  IN Resolved(error, IF error = "none" THEN tags ELSE {})

-----------------------------------------------------------------------------
IsNumber(value) == value = NaN \/ value \in Int

(* hasSignificantChange: `!==`, by which NaN differs from itself, unless   *)
(* there are two numbers to compare.  Of two dates or two arrays `!==`     *)
(* asks whether they are one object: values here are primitive.            *)
HasSignificantChange(old, new, threshold) ==
  IF IsNumber(old) /\ IsNumber(new) /\ NaN \notin {old, new}
  THEN new - old > threshold \/ old - new > threshold
  ELSE old # new \/ new = NaN

=============================================================================
