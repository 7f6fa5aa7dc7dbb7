--------------------------- MODULE TagCommands ---------------------------
(***************************************************************************)
(* The commands `get` and `watch` and the server they ask: its registered  *)
(* and imported devices, the tag runtime, and the tag-updates stream,      *)
(* while clients write values over OPC UA and devices.json is reloaded.    *)
(*                                                                         *)
(* One command is followed from its start to its end, over the one socket  *)
(* it opens, which is a FIFO queue each way as in ControlChannel.  A       *)
(* reload is one step here, of files whose devices all register; what      *)
(* others do is in DeviceManager.                                          *)
(***************************************************************************)
EXTENDS TagSelectors

CONSTANTS
  Configs,     \* the devices of devices.json, in order, as files give them
  Nodeset,     \* the objects of imported nodesets, in order
  Unsupported, \* the type of a variable that no tag type stands for
  NodeIds,     \* the nodeIds of tags
  Values,      \* the values that OPC UA clients write, as tags parse them
  defaultThreshold, \* the deadband of a tag that has none of its own
  CommandLines, \* the options a command may be given
  MaxChanges,  \* bound: the changes of values
  Null,        \* what JSON makes of NaN
  NoValue,     \* the value of a variable that is not there
  None         \* nothing yet

VARIABLES
  registry,    \* DeviceManager.list()
  node,        \* the value of each variable, as OPC UA reads it
  runtime,     \* TagRuntime.tags
  subscribed,  \* is the command's connection in ControlServer.subscriptions
  serverEnd,   \* the server's end of its socket
  written,     \* history: how many values were written
  kind,        \* the command
  options,     \* its options
  trace,       \* was it given --log-level trace
  phase,       \* where it stands
  toServer,    \* what is under way on its socket
  toClient,
  watched,     \* the nodeIds it watches
  shown,       \* what it printed
  verdict,     \* how it ended
  askedOf,     \* history: what the server answered from
  due          \* history: the changes since the server has its subscription

tagVars == <<registry, node, runtime, written>>
commandVars == <<kind, options, trace, phase, watched, shown, verdict>>
socketVars == <<subscribed, serverEnd, toServer, toClient, askedOf, due>>
vars == <<tagVars, commandVars, socketVars>>

(* discoverNodesetDevices: one device per object, of the variables whose   *)
(* types are supported.                                                    *)
NodesetDevices ==
  [i \in DOMAIN Nodeset |->
     [key |-> Nodeset[i].key,
      tags |-> Filter(Nodeset[i].tags,
                      {tag \in ToSet(Nodeset[i].tags) : tag.type # Unsupported})]]

Keys(devices) == {devices[i].key : i \in DOMAIN devices}

TagsIn(devices) ==
  UNION {{devices[i].tags[j] : j \in DOMAIN devices[i].tags} : i \in DOMAIN devices}

(* The devices' keys differ, and so do their tags' nodeIds, and their      *)
(* names on a device; an imported object may have no name that is the key  *)
(* of a device.  A key is not the empty string either, for which           *)
(* addPrimitiveTag registers nothing in the runtime.                       *)
ASSUME SoundAssumption ==
  /\ MaxChanges \in Nat
  /\ IsSeq(Nodeset)
  /\ \A c \in Configs :
       /\ IsSeq(c) /\ Distinct(c \o Nodeset)
       /\ None \notin Keys(c \o Nodeset)
       /\ \A t \in TagsIn(c \o Nodeset) : t.nodeId \in NodeIds

ASSUME OptionsAssumption == \A o \in CommandLines : WellFormed(o)

-----------------------------------------------------------------------------
(* TagRuntime: a tag is a device's key and a value.                        *)

NoTag == [value |-> NoValue, device |-> None]

(* register, for every tag of the devices.                                 *)
Register(devices, tags) ==
  LET known == TagsIn(devices)
      labels == TagSet(devices)
  IN [n \in NodeIds |->
        IF \E t \in known : t.nodeId = n
        THEN [device |-> (CHOOSE t \in labels : t.nodeId = n).device,
              value |-> (CHOOSE t \in known : t.nodeId = n).value]
        ELSE tags[n]]

(* Mutation: the tags of removed devices stay.                             *)
UnregisterNone(keys, tags) == tags

(* unregisterDevice, for each of the keys.                                 *)
UnregisterDevices(keys, tags) ==
  [n \in NodeIds |-> IF tags[n].device \in keys THEN NoTag ELSE tags[n]]

GetValue(n) == runtime[n].value

(* addVariable and the importer of nodesets: the variables and values.     *)
AddVariables(devices, values) ==
  LET known == TagsIn(devices)
  IN [n \in NodeIds |-> IF \E t \in known : t.nodeId = n
                        THEN (CHOOSE t \in known : t.nodeId = n).value ELSE values[n]]

DeleteVariables(devices, values) ==
  LET known == TagsIn(devices)
  IN [n \in NodeIds |-> IF \E t \in known : t.nodeId = n THEN NoValue ELSE values[n]]

-----------------------------------------------------------------------------
(* The socket.  JSON.stringify writes NaN as null.                         *)

OnTheWire(value) == IF value = NaN THEN Null ELSE value

AsRead(change) == [change EXCEPT !.old = OnTheWire(@), !.new = OnTheWire(@)]

(* What is sent to a process that is gone is lost.                         *)
Sent(message) ==
  toClient' = IF serverEnd = "open" /\ phase # "exited"
              THEN Append(toClient, message) ELSE toClient

(* The event of a change, to the connection if it subscribed.              *)
Publish(change) ==
  IF subscribed
  THEN Sent([kind |-> "event", change |-> AsRead(change)])
  ELSE UNCHANGED toClient

Answer(error, data) == [kind |-> "response", error |-> error, data |-> data]

-----------------------------------------------------------------------------
(* DeviceManager.reload.                                                   *)
Reload(config) ==
  /\ registry' = config
  /\ node' = AddVariables(config, DeleteVariables(registry, node))
  /\ runtime' = Register(config, UnregisterDevices(Keys(registry), runtime))
  /\ UNCHANGED <<written, commandVars, socketVars>>

IsImported(n) == \E t \in TagsIn(NodesetDevices) : t.nodeId = n

(* Mutation: an imported variable's old value is read after it is written. *)
OldValueAfterwards(n, value) == IF IsImported(n) THEN value ELSE node[n]

(* The closure's value, or for an imported variable the runtime's.         *)
OldValue(n, value) == IF IsImported(n) THEN GetValue(n) ELSE node[n]

Threshold(n) ==
  IF IsImported(n) THEN defaultThreshold
  ELSE (CHOOSE t \in TagsIn(registry) : t.nodeId = n).changeThreshold

Change(n, value) ==
  [nodeId |-> n, old |-> OldValue(n, value), new |-> value,
   significant |-> HasSignificantChange(OldValue(n, value), value, Threshold(n))]

(* Mutation: only changes that pass the deadband are published.            *)
RecordIfSignificant(change) ==
  /\ runtime' = [runtime EXCEPT ![change.nodeId].value = change.new]
  /\ IF change.significant THEN Publish(change) ELSE UNCHANGED toClient

(* TagRuntime.recordChange and its listener, which publishes.              *)
RecordChange(change) ==
  /\ runtime' = [runtime EXCEPT ![change.nodeId].value =
                   IF runtime[change.nodeId] = NoTag THEN @ ELSE change.new]
  /\ Publish(change)

(* A watch whose subscription has arrived.                                 *)
Following ==
  /\ phase = "watching" /\ serverEnd = "open"
  /\ \A i \in DOMAIN toServer : toServer[i].kind # "subscribe"

(* A client writes a variable: set(), or the value_changed listener.       *)
Write(n, value) ==
  /\ written < MaxChanges
  /\ \E t \in TagsIn(registry \o NodesetDevices) : t.nodeId = n
  /\ written' = written + 1
  /\ RecordChange(Change(n, value))
  /\ node' = [node EXCEPT ![n] = value]
  /\ due' = IF Following THEN Append(due, Change(n, value)) ELSE due
  /\ UNCHANGED <<registry, commandVars, subscribed, serverEnd, toServer, askedOf>>

-----------------------------------------------------------------------------
(* The server's side of the command's connection.                          *)

AllDeviceEntries == registry \o NodesetDevices

HandleTagsResolve(selector) == ResolveTagSelector(AllDeviceEntries, selector)

HandleTagsGet(selector) ==
  LET tags == HandleTagsResolve(selector).tags IN
  [i \in DOMAIN tags |-> [tag |-> tags[i], value |-> OnTheWire(GetValue(tags[i].nodeId))]]

ReceiveRequest ==
  LET msg == Head(toServer)
      error == HandleTagsResolve(msg.selector).error
  IN /\ msg.kind \in {"tags.get", "tags.resolve"}
     /\ Sent(Answer(error, IF msg.kind = "tags.get" THEN HandleTagsGet(msg.selector)
                           ELSE HandleTagsResolve(msg.selector).tags))
     /\ askedOf' = [devices |-> AllDeviceEntries, values |-> node]
     /\ UNCHANGED <<subscribed, serverEnd>>

ReceiveSubscription ==
  /\ Head(toServer).kind = "subscribe"
  /\ subscribed' = TRUE
  /\ UNCHANGED <<serverEnd, toClient, askedOf>>

ReceiveUnsubscription ==
  /\ Head(toServer).kind = "unsubscribe"
  /\ subscribed' = FALSE
  /\ UNCHANGED <<serverEnd, toClient, askedOf>>

(* Mutation: the subscriptions of a connection that closed are kept.       *)
CloseKeepingSubscription ==
  /\ Head(toServer).kind = "fin"
  /\ serverEnd' = "closed"
  /\ UNCHANGED <<subscribed, toClient, askedOf>>

ReceiveEnd ==
  /\ Head(toServer).kind = "fin"
  /\ serverEnd' = "closed"
  /\ subscribed' = FALSE
  /\ UNCHANGED <<toClient, askedOf>>

ServerReceive ==
  /\ serverEnd = "open"
  /\ toServer # <<>>
  /\ toServer' = Tail(toServer)
  /\ ReceiveRequest \/ ReceiveSubscription \/ ReceiveUnsubscription \/ ReceiveEnd
  /\ UNCHANGED <<tagVars, commandVars, due>>

(* ControlServer.stop, with the server's shutdown.  What was under way to  *)
(* the command is delivered or lost.                                       *)
Stop ==
  /\ serverEnd \in {"none", "open"}
  /\ serverEnd' = "closed"
  /\ subscribed' = FALSE
  /\ IF phase = "exited" THEN UNCHANGED toClient
     ELSE \E n \in 0..Len(toClient) :
            toClient' = Append(SubSeq(toClient, 1, n), [kind |-> "fin"])
  /\ UNCHANGED <<tagVars, commandVars, toServer, askedOf, due>>

-----------------------------------------------------------------------------
(* The command.                                                            *)

(* The end of its process ends its connection.                             *)
ExitWith(v, messages) ==
  /\ phase' = "exited"
  /\ verdict' = v
  /\ toServer' = toServer \o messages
                   \o (IF serverEnd = "none" THEN <<>> ELSE <<[kind |-> "fin"]>>)

Start(k, o, t) ==
  /\ phase = "idle"
  /\ k = "watch" => o.tags = Unset
  /\ t => k = "watch"
  /\ kind' = k /\ options' = o /\ trace' = t
  /\ IF Invalid(o) THEN ExitWith("VALIDATION_ERROR", <<>>)
     ELSE phase' = "connecting" /\ UNCHANGED <<verdict, toServer>>
  /\ UNCHANGED <<tagVars, watched, shown, subscribed, serverEnd, toClient, askedOf, due>>

(* connect(), and the request that follows.                                *)
Connect ==
  /\ phase = "connecting"
  /\ serverEnd = "none"
  /\ serverEnd' = "open"
  /\ phase' = "asking"
  /\ toServer' = <<[kind |-> IF kind = "get" THEN "tags.get" ELSE "tags.resolve",
                    selector |-> BuildTagSelectorPayload(options)]>>
  /\ UNCHANGED <<tagVars, kind, options, trace, watched, shown, verdict,
                 subscribed, toClient, askedOf, due>>

ConnectFails ==
  /\ phase = "connecting"
  /\ ExitWith("SERVER_ERROR", <<>>)
  /\ UNCHANGED <<tagVars, kind, options, trace, watched, shown,
                 subscribed, serverEnd, toClient, askedOf, due>>

(* The exit code of an error's class.                                      *)
ExitCode(error) ==
  CASE error = "none" -> "SUCCESS"
    [] error = "TAG_SELECTOR_INVALID" -> "VALIDATION_ERROR"
    [] error = "DEVICE_NOT_FOUND" -> "DEVICE_ERROR"
    [] error \in {"TAG_NOT_FOUND", "TAG_BROWSE_NAME_AMBIGUOUS"} -> "TAG_ERROR"

(* `get` prints the values; both end here if there is nothing to watch.    *)
AnswerEndsCommand(msg) ==
  /\ kind = "get" \/ msg.error # "none" \/ msg.data = <<>>
  /\ shown' = IF kind = "get" THEN msg.data ELSE <<>>
  /\ ExitWith(ExitCode(msg.error), <<>>)
  /\ UNCHANGED watched

(* `watch` subscribes once it knows its tags.                              *)
AnswerBeginsWatch(msg) ==
  /\ kind = "watch" /\ msg.error = "none" /\ msg.data # <<>>
  /\ watched' = {msg.data[i].nodeId : i \in DOMAIN msg.data}
  /\ phase' = "watching"
  /\ toServer' = Append(toServer, [kind |-> "subscribe"])
  /\ UNCHANGED <<shown, verdict>>

ReceiveAnswer ==
  /\ Head(toClient).kind = "response"
  /\ phase = "asking"
  /\ AnswerEndsCommand(Head(toClient)) \/ AnswerBeginsWatch(Head(toClient))

(* The changes that `watch` prints.                                        *)
Prints(change) == change.nodeId \in watched /\ (trace \/ change.significant)

ReceiveEvent ==
  LET change == Head(toClient).change IN
  /\ Head(toClient).kind = "event"
  /\ shown' = IF Prints(change) THEN Append(shown, change) ELSE shown
  /\ UNCHANGED <<phase, watched, verdict, toServer>>

(* A request is rejected; a `watch` has nothing left to wait for, and its  *)
(* process ends by itself.                                                 *)
ReceiveClose ==
  /\ Head(toClient).kind = "fin"
  /\ ExitWith(IF phase = "asking" THEN "SERVER_ERROR" ELSE "SUCCESS", <<>>)
  /\ UNCHANGED <<watched, shown>>

ClientReceive ==
  /\ phase \in {"asking", "watching"}
  /\ toClient # <<>>
  /\ ReceiveAnswer \/ ReceiveEvent \/ ReceiveClose
  /\ toClient' = IF phase' = "exited" THEN <<>> ELSE Tail(toClient)
  /\ UNCHANGED <<tagVars, kind, options, trace, subscribed, serverEnd, askedOf, due>>

(* The timer of the request, whose error has no class.                     *)
RequestTimesOut ==
  /\ phase = "asking"
  /\ ExitWith("UNKNOWN_ERROR", <<>>)
  /\ toClient' = <<>>
  /\ UNCHANGED <<tagVars, kind, options, trace, watched, shown,
                 subscribed, serverEnd, askedOf, due>>

(* Ctrl+C while it watches.                                                *)
Interrupt ==
  /\ phase = "watching"
  /\ ExitWith("SUCCESS", <<[kind |-> "unsubscribe"]>>)
  /\ toClient' = <<>>
  /\ UNCHANGED <<tagVars, kind, options, trace, watched, shown,
                 subscribed, serverEnd, askedOf, due>>

(* A signal nobody handles.                                                *)
Killed ==
  /\ phase \in {"connecting", "asking", "watching"}
  /\ ExitWith("killed", <<>>)
  /\ toClient' = <<>>
  /\ UNCHANGED <<tagVars, kind, options, trace, watched, shown,
                 subscribed, serverEnd, askedOf, due>>

-----------------------------------------------------------------------------
Init ==
  /\ registry \in Configs
  /\ node = AddVariables(registry \o Nodeset, [n \in NodeIds |-> NoValue])
  /\ runtime = Register(registry \o NodesetDevices, [n \in NodeIds |-> NoTag])
  /\ written = 0
  /\ kind = None /\ options = None /\ trace = FALSE /\ phase = "idle"
  /\ watched = {} /\ shown = <<>> /\ verdict = "none"
  /\ subscribed = FALSE /\ serverEnd = "none"
  /\ toServer = <<>> /\ toClient = <<>>
  /\ askedOf = None /\ due = <<>>

Command ==
  \/ \E k \in {"get", "watch"}, o \in CommandLines, t \in BOOLEAN : Start(k, o, t)
  \/ Connect \/ ConnectFails \/ ClientReceive \/ RequestTimesOut \/ Interrupt \/ Killed

Next ==
  \/ \E config \in Configs : Reload(config)
  \/ \E n \in NodeIds, value \in Values : Write(n, value)
  \/ ServerReceive \/ Stop
  \/ Command

Spec == Init /\ [][Next]_vars

(* The server reads what its connections sent.                             *)
FairSpec == Spec /\ WF_vars(ServerReceive)

-----------------------------------------------------------------------------
AnyTag == UNION {TagsIn(c \o Nodeset) : c \in Configs}

(* Types; and the runtime knows the tags there are, and no others.         *)
TypeOK ==
  /\ registry \in Configs
  /\ node \in [NodeIds -> Values \cup {t.value : t \in AnyTag} \cup {NoValue}]
  /\ {n \in NodeIds : runtime[n] # NoTag} = {t.nodeId : t \in TagSet(AllDeviceEntries)}
  /\ subscribed \in BOOLEAN /\ trace \in BOOLEAN
  /\ serverEnd \in {"none", "open", "closed"}
  /\ written \in 0..MaxChanges /\ Len(due) <= written
  /\ kind \in {"get", "watch", None}
  /\ options \in CommandLines \cup {None}
  /\ phase \in {"idle", "connecting", "asking", "watching", "exited"}
  /\ watched \subseteq NodeIds

(* A command is refused without asking the server exactly if its options   *)
(* may not be combined.  What it answers else is what docs/CLI.md says     *)
(* they select, of the devices the server had at one moment, the imported  *)
(* ones included; and the values of `get` are those that an OPC UA client  *)
(* reads at that moment.                                                   *)
AnswersWhatWasAsked ==
  LET expected == Selection(askedOf.devices, options)
      ids == {tag.nodeId : tag \in expected.tags}
  IN /\ phase # "idle" => (verdict = "VALIDATION_ERROR" <=> ~AllowedTogether(options))
     /\ phase = "watching" => expected.error = "none" /\ watched = ids
     /\ kind = "get" /\ phase = "exited" /\ verdict = "SUCCESS" =>
          /\ expected.error = "none"
          /\ ToSet(shown) = {[tag |-> t, value |-> OnTheWire(askedOf.values[t.nodeId])]
                             : t \in expected.tags}
     /\ verdict \in {"DEVICE_ERROR", "TAG_ERROR"} => verdict = ExitCode(expected.error)

(* Those of some changes that `watch` prints.                              *)
Printed(changes) == Filter(changes, {c \in ToSet(changes) : Prints(c)})

(* `watch` prints every change of a tag it watches that passes the deadband *)
(* (with trace: every change) from its subscription on, each once, in the  *)
(* order they were made, whatever is reloaded meanwhile; what it has not   *)
(* printed is on its way.                                                  *)
PrintsEveryChange ==
  LET changes == [i \in DOMAIN due |-> AsRead(due[i])]
      events == Filter(toClient, {msg \in ToSet(toClient) : msg.kind = "event"})
      coming == [i \in DOMAIN events |-> events[i].change]
  IN kind = "watch" =>
       /\ IsPrefix(shown, Printed(changes))
       /\ phase = "watching" /\ serverEnd = "open" =>
            shown \o Printed(coming) = Printed(changes)

(* Where a change starts from, for `watch`, is what `get` would have       *)
(* answered before it: closures and imported variables alike.              *)
OldValueIsWhatGetAnswers ==
  [][due' # due =>
       LET change == due'[Len(due')] IN change.old = GetValue(change.nodeId)]_vars

(* However a command ends, in the end the server has no subscription of it *)
(* and gets none any more.                                                 *)
NoStraySubscription == <>[](phase = "exited" => ~subscribed)

=============================================================================
