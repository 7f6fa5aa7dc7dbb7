# A verification project for the OPC UA server

TLA+ models of the server in `src/`, the TLC runs that check them on small
instances, and theorems about them that TLAPS proves for every value of the
constants. `PROJECT.json` lists the runs, the mutants that show each property
can fail, the lines of code each definition stands for, the hazards of the code
and the theorems.

To repeat the work, in this directory:

    tlc -config DeviceManagerFaulty.cfg MCDeviceManager    # a run of the table below
    tlapm DeviceManagerProofs.tla                          # the proofs of a module

## The system

A TypeScript process that serves devices and their tags over OPC UA (with
node-opcua), configured by one file, `devices.json`, and a command line that
talks to the running process over a local socket.

| Part | State it keeps | Operations | Works with |
| --- | --- | --- | --- |
| `DeviceManager` (`devices/device-manager.ts`) | the registered devices, by key | `load`, `reload`, `register`, `remove`, `list` | reads the configuration, calls `createDevice`, writes metrics and tag runtime, deletes nodes |
| `createDevice`, `createTag`, `addPrimitiveTag` (`devices/`, `tags/`) | the current value of each tag, in a closure | make an object and its variables; `get` and `set` of a variable | address space, tag runtime, metrics |
| `TagRuntime` (`tags/tag-runtime.ts`) | the live tags with their values, by nodeId | `register`, `unregisterDevice`, `recordChange`, `getValue` | its change event is published on the control channel |
| configuration reader and schema (`devices/config-reader.ts`, `schemas/`) | none | read, parse, validate | records errors in the metrics |
| `ConfigWatcher` (`devices/config-watcher.ts`) | a file watch, a debounce timer | `start`, `stop`, the listener, `performReload` | calls `DeviceManager.reload` |
| `ControlServer` (`control/`) | connections, subscriptions, handlers, the listening socket | `start`, `stop`, `publish`, the handling of a message | the socket file; the handlers of the server manager |
| `ControlClient` (`control/`) | socket, pending requests with timers, callbacks | `connect`, `request`, `subscribe`, `disconnect` | every command but `start`, `validate` and `cert` |
| `OPCUAServerManager` (`core/`) | `isShuttingDown`, timers, references to all parts | `initialize`, `start`, `shutdown`, the request handlers | everything |
| server runner (`server-runner.ts`) | none | signals, escaped errors, exit codes | `shutdown` |
| `MetricsService` (`metrics/`) | status, device statuses, tag and error counters, timestamps of recent errors, sessions | `record...`, `get...`, the derived status, which also drops old timestamps | read by `info` and `healthcheck` |
| nodeset devices (`devices/nodeset-devices.ts`) | listeners on imported variables | discovery, value changes | tag runtime |
| tag selection (`cli/tag-selector.ts`, `devices/resolve-tags.ts`) | none | options to selector, selector to tags | the handlers of `tags.get` and `tags.resolve` |
| `get`, `watch` (`cli/commands/`) | the nodeIds watched | ask, subscribe, print, end | the control channel |
| `healthcheck` (`cli/commands/`) and the ports (`cli/target-port.ts`, `config/`) | none | connect, ask for `info`, exit with a verdict | the control channel of the port it works out |

What is hard in it:

- one process and one event loop, but many turns: a reload runs to completion,
  while file events, timers, sockets, signals and node-opcua's callbacks come
  between any two turns;
- four stores (address space, registry, tag runtime, metrics) that each
  registration and removal updates in turn, with exceptions caught halfway;
- other processes: editors that write `devices.json` at their own pace, clients
  that come and go, a second server on the same port, kills.

What makes each part correct is stated as the properties of its module; the
list of `hazards` in `PROJECT.json` says at which line each can go wrong.

## Modules

| Module | Stands for |
| --- | --- |
| `DeviceConfigs` | what a valid `devices.json` is: keys, tags, nodeIds, types, initial values, and the uniqueness the schema enforces |
| `TagService` | the abstract specification of the registry: a configuration is applied in one step, tags are written, nothing else happens |
| `DeviceManager` | the registry with the tag runtime, the metrics and the address space it writes |
| `MCDeviceManager` | the instances of `DeviceManager` for TLC: two or three devices, three nodeIds, sound and faulty files |
| `DeviceManagerProofs` | theorems about `DeviceManager`, for every file |
| `DeviceServiceProofs` | theorems about `DeviceManager` for sound files, and that it then implements `TagService` |
| `ConfigWatcher` | hot reload: the file, its editors, the watch, the debounce timer, and requested reloads |
| `ConfigWatcherProofs` | theorems about `ConfigWatcher` |
| `Rpc` | the abstract specification of a request: its handler is called once at most, its promise settled once at most |
| `ControlChannel` | one `ControlServer` and its clients over sockets that are two queues each |
| `ControlChannelProofs` | theorems about `ControlChannel`, and that it implements `Rpc` |
| `TagSelectors` | which tags the options of `get` and `watch` pick, with what `docs/CLI.md` says as the reference; when a change is worth telling |
| `TagSelectorsProofs` | theorems about `TagSelectors`, and about the filters and concatenations of sequences it is built from |
| `TagCommands` | `get` and `watch` from the command line to the exit, and the server they ask, imported devices included |
| `MCTagCommands` | the instance of `TagCommands` for TLC |
| `TagCommandsProofs` | theorems about `TagCommands` |
| `HealthCheck` | `healthcheck`, run over and over, and the status derived from the metrics |
| `HealthCheckProofs` | theorems about `HealthCheck` |
| `ServerLifecycle` | server processes on one port: boot, shutdown, signals, fatal errors, exit codes, and the path of the control socket |
| `ServerLifecycleProofs` | theorems about `ServerLifecycle` |

### DeviceManager

`load()` and `reload()` do not yield, yet the model takes them one device and
one tag at a time: `phase`, `todo`, `creating` and `made` are where the running
call stands. The event loop is free when `phase` is `"idle"`; only then do
clients write tags (`WriteTag`) and reloads begin. So properties about what
clients see are stated for the idle states, and those about a loop's
intermediate results for all of them. The keys are taken in any order, which
covers the order of every file. `CreateTag` is one turn of `createDevice`'s
loop with `createTag` and `addPrimitiveTag` in the code's order: the entry of
the tag runtime is written before `addVariable` may throw, so
`RegistrationFails` writes it too. Nodes that a failed registration leaves
behind get the owner `Orphan`. `Unnamed` is the empty key, which the schema lets
through and `addPrimitiveTag` takes for none: no entry of the runtime is made,
nor changed by its writes. A node keeps the `key` it was made with, which is what
its closure writes under. A configuration gives each key a sequence of
tags or `NoDevice`; browse names, thresholds and log text are left out.

### ConfigWatcher

A reload is one step here: it reads the file and applies what it reads if that
is valid. `SaveInPlace` cuts the file and writes it in two steps, so a reload can
read half a file (`Partial`); `Replace` is a save by rename, or a removal, after
which the watch is gone. Equal events next to each other are one, as inotify
does. The debounce timer counts ticks. `RequestedReload` is the handler of the
control channel, which asks for nothing but the channel: `OpenChannel` opens it
when node-opcua calls `start`'s callback, and `Stop` (`cleanupResources`) closes
it in the turn in which it stops the watcher. With `LateStart` the callback may
come after that.

### ControlChannel

A socket is a queue each way, with `"fin"` as the last message. A promise of
`ControlClient.request` has an `outcome`; `pending` is the client's map. There is
one channel of events. `Subscribe` and `Unsubscribe` are guarded by how many
messages are under way, which only bounds the queues. A promise may time out at
any moment: the model has no clock, so every order of answer, timer and close is
there. `readNdjson` and `writeNdjson` are the queues: whole messages in order.
`Rpc` knows of a request what its handler came to (`handling`) and what became of
its promise (`outcome`). The detailed module has both as variables of its own,
so the refinement mapping is the identity on them and hides the rest. `'end'` and
`'close'` of a server's socket are one step, and the answer to a request that has
no handler is that of a handler that throws.

### TagSelectors and TagCommands

`TagSelectors` has `buildTagSelectorPayload`, `resolveTagSelector` and
`hasSignificantChange` as operators. Its other half, `Selection`, is the table
of options in `docs/CLI.md` as a set comprehension over tags, with no order of
branches in it. Both agree for devices that are `Distinct` (keys and nodeIds
differ, and browse names on a device) and options that are `WellFormed` (what
`--tags` gives is a sequence of names). Values are primitive: of two dates or two
arrays, which imported variables may have, `hasSignificantChange` compares the
identity and would tell of each write, equal or not.

`TagCommands` follows one command over the one socket it opens. `Reload` is one
step, of files whose devices all register; what happens when they do not is in
`DeviceManager`. `Write` is a client's write to a tag of the file (`set`) or to an
imported variable (the `value_changed` listener), which differ in where the old
value comes from. `OnTheWire` is what JSON does to a value. `Interrupt` is Ctrl+C
with its handler, `Killed` any other end. The history `askedOf` keeps what the
server answered from, and `due` the changes made since it has the subscription.

### HealthCheck

Time is counted in ticks: errors have an age up to the window, and the command's
two timers count what they spent. `PruneOldErrors` happens only where
`deriveStatus` gets as far as looking for a burst, as in the code. Server and
command each work out their port (`ServerPort`, `TargetPort`); the connection is
there only if they agree. `Boot` loads a valid file and `BootRefused` none, with
one error; `Started` is the callback of `server.start`, which sets the status to
`running` also when a shutdown has begun before it (`startCallback` is then
`"late"`). The metrics go with the process. The history `seen` collects the conditions the server
was in during a check, with `"down"` for a server that was not there.

### ServerLifecycle

Each action is one turn of the event loop: `Initialized` and `Started` are the
callbacks of node-opcua, `Shutdown` the whole synchronous part of `shutdown()`
with the call of `server.shutdown`, which may throw. `BuildFails` leaves what
`buildAddressSpace` had set by then: no device manager, one, or one with its
watcher started; the shutdown that follows stops the watcher unless it is the
second. `exitWith` is the code in
the closure given to `shutdown()`. `path` names the process whose socket file
lies at the control path, also after that process died. The variables
`signalled`, `escaped` and `failed` are history, used by properties only.

## Runs

| Run | Module | Shows |
| --- | --- | --- |
| `devices_sound` | `MCDeviceManager` | with files whose nodeIds are good and differ: `get` answers what OPC UA reads (`RuntimeMirrorsNodes`), no stale tag (`NoStaleTags`), the applied file is served (`AppliedIsServed`), and the registry implements `TagService` (`ImplementsTagService`) |
| `devices_faulty` | `MCDeviceManager` | with shared and refused nodeIds and failing removals: listed devices are whole, the metrics agree with registry and address space, every failure is reported, entries of the tag runtime are of registered or failed devices, and a registered device's own ones answer what OPC UA reads (`OnlyKnownDevicesAnswer`), every reload ends |
| `bad_edit` | `MCDeviceManager` | **violation**: after a bad edit is corrected, the device is still refused |
| `hot_reload` | `ConfigWatcher` | no edit of the watched file is lost, what is served becomes what the file says, however slowly it is written; no reload after the cleanup, by timer, event or request |
| `lost_save` | `ConfigWatcher` | **violation**: a file that is replaced, or appears later, is not watched |
| `control_channel` | `ControlChannel` | requests are what `Rpc` promises (`ImplementsRpc`) and are all settled; events in order; subscriptions of open connections only; `stop()` ends every connection |
| `tag_commands` | `MCTagCommands` | for every combination of options: `get` answers, and `watch` watches, what the documentation says (`AnswersWhatWasAsked`); `watch` prints every change from its subscription on, in order (`PrintsEveryChange`); old values are those `get` would have shown; no subscription outlives its command |
| `health` | `HealthCheck` | the status is the documented one although timestamps are dropped (`DegradedAsDocumented`), every verdict has its cause during the check (`VerdictHasItsCause`), a check ends in time, a burst of errors passes |
| `env_port` | `HealthCheck` | **violation**: with PORT only in `.env`, the command looks for the server elsewhere |
| `server_lifecycle` | `ServerLifecycle` | handlers find the device manager, a shutdown is complete and ends, exit codes have their cause, fatal errors are counted, a restarted server is found at the path |
| `failed_shutdown` | `ServerLifecycle` | **violation**: a shutdown that fails exits 0 |
| `port_taken` | `ServerLifecycle` | **violation**: a server without its port reports `running` |

### Findings

The violations are disagreements between the code and what its documentation,
comments or messages say; `PROJECT.json` quotes both under `findings`.

1. A registration that fails leaves its nodes behind (`device-manager.ts:50`).
   Their nodeIds stay taken, so the corrected file cannot be served.
2. `fs.watch` is given the file itself and only `"change"` is heard
   (`config-watcher.ts:34`): saves by rename are noticed once at most.
3. `start` takes PORT from `.env` too, `resolveTargetPort` does not
   (`target-port.ts:7`): set up as `README.md` says, with another port in `.env`, no
   command finds the server without `--port`.
4. A failed shutdown after a signal exits with 0, not 6
   (`opcua-server-manager.ts:144`).
5. `start()` ignores the error its callback may be given
   (`opcua-server-manager.ts:94`): without its port, a server is `running`, and
   takes the socket path of the one that has the port.

Some properties hold only under a condition that a run states as a constant.
`NoLostEdit` and `FollowsTheFile` need `StartupEdits = FALSE`: an edit between
`load()` and the start of the watcher is lost. `QuietAfterStop` needs
`LateStart = FALSE`: a callback of `start` after the cleanup opens a channel that
takes reloads. With either constant TRUE, TLC finds them violated. `ChannelIsAtThePath` needs `Overlap = FALSE`: two servers
on a port remove each other's socket file. `RuntimeMirrorsNodes` and `NoStaleTags`
need files whose tags differ and whose keys are not empty: a nodeId of two devices
has its entry in the tag runtime overwritten by the registration that fails, and
a device with the key `""` has none. For every file there is
`OnlyKnownDevicesAnswer`, which says whose entries there may be, and what they
answer. `AnswersWhatWasAsked` and
`OldValueIsWhatGetAnswers` need devices that are `Distinct`, the imported ones
included (`SoundAssumption`), and keys that are not empty: a reload unregisters tags by device name, and an
option that names a device or a tag of it picks the first. The schema enforces
this of `devices.json`. Of imported objects nothing does: that their names are no
keys of `devices.json` and differ, and so the names of the variables on each,
is a condition on the nodesets. A file and a nodeset that share a nodeId do not
both get their variable (the registration fails, which is `DeviceManager`'s).
`VerdictHasItsCause` needs server and command to work out the same port, which
`health` grants by `DotEnvPort = None` and `env_port` does not.

### Bounds

- Devices: two keys (`devices_faulty` and `bad_edit` have the empty key as a third), three nodeIds, two types, two values. Two devices are what
  sharing a nodeId needs, and three nodeIds let a tag move from one device to
  the other while each keeps one. The files are listed in `MCDeviceManager`.
  `MaxErrors` stops a counter at the number of devices, the least the count of
  failures needs.
- Hot reload: three valid contents, so that a third one can be written while two
  reloads are under way; a debounce of three ticks, so that changes come at
  its start, its middle and its end.
- Control channel: one client with one socket in `control_channel`, since
  clients share nothing but the loops over connections; two requests and two
  events, so that they can overtake each other; two callbacks, so that one can
  come while the other goes. `CHECK_DEADLOCK FALSE`: with requests and events used
  up, nothing happens.
- Tag commands: two devices that share a browse name, so that it is ambiguous; a
  second file that drops one of them and gives its nodeId to the other; imported
  objects with a supported variable, an unsupported one and none. Every
  combination of given and missing options, and of `--tags` also blanks, an order
  other than the file's, and a name that is not there. Two changes, so that
  their order shows, with a number that passes the deadband and
  `NaN`, which differs from itself and is null on the wire.
- Health: one device, since only whether one is in error counts; a threshold of
  two and three errors, so that a burst ends while an error remains and can come
  again; a window of two ticks and a timeout of one, so that errors expire between
  two questions and within a check; two ports.
- Server processes: two, one after the other, so that a restart meets what the
  first left behind; of the errors that escape, one that is an `AppError` (7) and
  one that is not (1). `CHECK_DEADLOCK FALSE`: all processes may have ended.

### Fairness

- `DeviceManager`: `WF(Continue)`, the running call goes on, since it is
  synchronous code. Nothing makes clients write or files change.
- `ConfigWatcher`: the kernel delivers events and the event loop runs expired
  timers. No editor must ever finish: `FollowsTheFile` supposes that it did.
- `ControlChannel`: timers expire and sockets deliver what was sent. Not that
  a handler comes back, nor that the server reads: `RequestsSettle` holds without.
- `TagCommands`: the server reads what its connections sent (`ServerReceive`), which
  its event loop does. Not that the command goes on: it may stand still for ever.
- `HealthCheck`: time goes on and the command's timers fire. Nobody need ask for
  the status: `BurstsPass` holds of the status one would be told.
- `ServerLifecycle`: `forceExitTimeout` expires. Nothing is assumed of node-opcua.

## Proofs

`DeviceManagerProofs`, from the assumptions on the constants alone
(`ConstantsAssumption`, `NoDeviceAssumption`):

- `TypeCorrect`: `TypeOK`. Its content is in the counters and keys: no step takes
  a counter below zero or visits a key that is not there. It needs a stronger
  invariant than itself, because removing reads `devices[k]` for the keys in
  `todo`.
- `ConnectedIffRegisteredAlways`, `ConfiguredOrReportedAlways`,
  `RegisteredDevicesAreCompleteAlways`: the registry, the metrics and the address
  space agree, with failures at any point. The inductive invariant says for each
  phase what the loop has already done: which keys of `todo` are still
  registered, that the tags `made` so far have their variables with the owner
  `creating`, and that no node has an owner that is neither registered, being
  created, nor `Orphan`.
- `TagCountMatchesAlways`: the tag counters count the variables. A removal counts
  down by the configuration while it deletes by owner, so the proof shows that
  the tags of a registered device and its variables are in one-to-one
  correspondence (nodeIds within a device differ, by the schema), and then counts
  finite sets.
- `FailuresAreCountedAlways`: there are at least as many errors recorded as devices
  in error, since every step that puts one there records one.

- `OnlyKnownDevicesAnswerAlways`: an entry of the tag runtime belongs to a device
  that is registered, being created, or in error (`KnownDevices`), for every file:
  removing a device takes its entries away, and a registration that fails puts
  its own device in error. An entry that a registered device has of a tag of its
  own has the value of the variable (`OwnAnswers`), since only the device that owns
  the variable writes under its key.

`DeviceServiceProofs`, from `SoundOnly`: every file has good nodeIds that no two
devices share and no empty key, and `deleteNode` does not throw.

- `AppliedIsServedAlways`, `RuntimeMirrorsNodesAlways`, `NoStaleTagsAlways`. The
  invariant follows the loops: what is registered while registering are the keys
  of `applied` that are no longer in `todo`, variables keep their initial values
  until the call ends, and the tag runtime holds in every state what the nodes
  hold. `NoRegistrationFails` shows that under `SoundOnly` no nodeId is ever
  taken, which is what the invariant rests on.
- `RegistryImplementsTagService`: the step that begins a load or a reload is the one
  that applies the configuration; all that follow it stutter, until the call ends.
  `InitialIs` makes the
  value that the mapping chooses that of the one tag with the nodeId.

`ControlChannelProofs`, from `ChannelAssumption`, for any number of clients,
sockets, requests and events:

- `ChannelImplementsRpc`, with `PendingAreUnsettled`. A request under way is the
  only one of its id and its handler has not been called; a response under way
  says what the call came to; a pending id is in the map of the client that owns
  the socket it was sent on, so that the close of the socket loses just those.
- `EventsComeInOrder`: events under way on a socket come in their order and after
  all that its owner received. A client connects once, which the proof needs: two
  sockets of a client could overtake each other.
- `SubscribersStayConnected`: the subscriptions are those of open server ends.

`HealthCheckProofs`, from `HealthAssumption`, for any window, threshold, timeout and
number of errors:

- `DegradedIsAsDocumented`: the timestamps kept include every error of the window
  (`WindowIsKept`), so those counted are the same as if none were ever dropped.
- `ChecksAlwaysEndInTime`: what is left of the two timers bounds the time
  (`TimeInv`).
- `VerdictAlwaysHasItsCause`, under `PortsAgree` (which `PortsAgreeWithoutDotEnv`
  shows to hold if PORT is not in `.env` only): an answer under way was given in a
  condition of this check (`SeenInv`), since the connection ends with the process
  that accepted it (`ChannelInv`).

`ConfigWatcherProofs`, from `WatcherAssumption`:

- `WatcherIsWellTyped`, which the others use.
- `NoLostEditAlways`: under `~StartupEdits`, an outdated configuration has a change
  event or the timer on its way. The invariant adds that what was loaded is
  what the file holds until the watcher starts, and that nothing is scheduled
  while it does not run.
- `QuietAfterStopAlways`, under `~LateStart`: neither a timer nor an event survives
  `stop()`, and the channel is open while the server runs only
  (`OpenWhileRunning`), which the request handler itself does not look at.

`ServerLifecycleProofs`, from `LifecycleAssumption`, for any number of processes:

- `HandlersAlwaysFindTheirManager` and `ShutdownIsAlwaysComplete`: one invariant
  says what each stage of the start implies. The channel is off before `"done"`,
  and the address space is built from `"starting"` on; a shutdown that came at
  `"done"` finds nothing left to be started, since no callback comes twice.
- `ExitCodeAlwaysHasItsCause`: the invariant follows the exit code through the
  closure (`exitWith`), since the process exits turns after its cause.
- `FatalErrorsAreAlwaysCounted`: each step adds to the counter what it adds to the
  finite set of errors that escaped, and a shutdown throws at most once
  (`FailedInv`).
- `ChannelIsAlwaysAtThePath`, under `~Overlap`: at most one process is alive, and
  only it touches the path.

`TagSelectorsProofs`, from no assumption on the constants:

- `RefusedAsDocumented`: for any options,
  `buildTagSelectorPayload` throws exactly where the documentation forbids the
  combination.
- `ResolvesAsDocumented`: for devices that are `Distinct`, `resolveTagSelector`
  returns the tags of `Selection`, or throws its error. The proof goes along the
  order of the code's branches, one case each.
- Both rest on what `Filter` and `FlattenSeq` do to a sequence of any length:
  which elements are left, that they keep their order, that filters and
  concatenations commute. These are recursive functions on indices. The library's
  induction theorems cannot be instantiated here, so `NatSetInduction` and
  `SeqSetInduction` state induction with a set in place of the operator, from the
  least element of a set of numbers. That each recursive function exists at all
  (`CollectsExists`, `JoinsExists`) is proved the same way, and that it is unique.

`TagCommandsProofs`, from `SoundAssumption` and `OptionsAssumption`, for any devices and
imported objects whose keys (none empty) and nodeIds differ, and any options,
values and number of changes. `Invariant` shows
`RuntimeInv /\ CommandInv` inductive; the others follow from it.

- `OldValues` needs `RuntimeInv` alone: the runtime has each tag of the devices there
  are, with its device and the value of its variable, and nothing else. A reload
  keeps this because no device of the old file shares a key or a nodeId with an
  imported one, so that what it unregisters and deletes is what it had
  registered and added.
- `Types`, whose content is that the runtime knows the tags there are and no others.
- `AnswersAsDocumented`: while a command asks, either its request or the answer to
  it is all that is under way, or the connection ends (`AskingInv`); the answer is
  what `ResolveTagSelector` gave for the devices in `askedOf`, and the server does
  not answer again and so does not change them (`AnsweredInv`). `ResolvesAsDocumented` then
  turns what the code gave into what the documentation says.
- `WatchPrints`: a `watch` has its subscription, or it is under way and nothing is
  due (`SubscriptionInv`); some first part of `due` was seen and gave `shown`, and the
  messages under way are the events of those that follow, all of them while the
  connection is open (`EventsInv`). A reload touches none of these. The theorem
  follows as filtering commutes with concatenation.

Only model-checked: liveness (`RunsToCompletion`, `FollowsTheFile`,
`RequestsSettle`, `StopEndsConnections`, `ShutdownEnds`, `BurstsPass`,
`NoStraySubscription`), which is beyond the prover. All other properties of the passing
runs are theorems.

## Not modelled

- How a message is cut into chunks and a character into bytes (`readNdjson`): the
  queues carry whole messages.
- `validateUnique` as an algorithm: `DeviceConfigs` has its result, and the parsers of
  values in the schema what they leave. Both are one pass without state.
- Sessions: two counters that only the log and `info` show. The metrics log and its
  text.
- `info`, `reload`, `export-nodeset`, `validate` and `cert` beyond the one request
  they make or the files they read; the export writes a file that nothing of
  this program reads again.
- Logging, formatting, certificates and the search for the devices directory: no
  state that another part reads.
- What an XML nodeset makes: `Nodeset` is any list of objects and variables.
- node-opcua, Node's sockets, files and signals: external, as this code uses
  them.

## What could come next

1. Two servers on a port with their socket files, as an abstract lock that
   `ServerLifecycle` fails to implement when `Overlap` is true.
2. Framing: `readNdjson` as a function on sequences of chunks, against the sequence
   of lines that was written.
3. The safety part of `NoStraySubscription`: once the server has read the end of a
   command's connection, nothing subscribes it again.
