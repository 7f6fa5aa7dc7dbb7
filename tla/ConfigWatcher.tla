--------------------------- MODULE ConfigWatcher ---------------------------
(***************************************************************************)
(* Hot reload: devices.json, the ConfigWatcher of                          *)
(* src/devices/config-watcher.ts that watches it, and the reloads it and   *)
(* the control channel ask of the DeviceManager.                           *)
(*                                                                         *)
(* Editors are other processes, so their steps fall between any two of the *)
(* server's.  A reload itself runs to completion (DeviceManager); here it  *)
(* reads the file and, when what it reads is valid, applies it.            *)
(***************************************************************************)
EXTENDS Integers, Sequences

CONSTANTS
  Versions,      \* the valid contents of devices.json
  Partial,       \* contents that readDevicesConfig refuses, half-written ones too
  Absent,        \* there is no file
  Nothing,       \* no configuration applied
  Debounce,      \* the ticks of the debounce timer
  Off,           \* no debounce timer
  Replaced,      \* whether the file is replaced by another, or removed
  StartupEdits,  \* whether files change between load() and the watcher's start
  LateStart      \* whether node-opcua may call start's callback after cleanupResources

VARIABLES
  file,          \* what devices.json holds
  watching,      \* whether fs.watch looks at the file now under that name
  events,        \* the events of fs.watch still to deliver
  timer,         \* ConfigWatcher.debounceTimer: its ticks, or Off
  applied,       \* the configuration the DeviceManager holds
  phase,         \* of the server
  channel        \* the control channel: "none", "open" or "closed"

vars == <<file, watching, events, timer, applied, phase, channel>>

ASSUME WatcherAssumption ==
  /\ Partial \notin Versions /\ Absent \notin Versions /\ Nothing \notin Versions
  /\ Partial # Absent
  /\ Debounce \in Nat \ {0}
  /\ Off \notin Int
  /\ {Replaced, StartupEdits, LateStart} \subseteq BOOLEAN

Contents == Versions \cup {Partial, Absent}

Init ==
  /\ file \in Contents
  /\ watching = FALSE
  /\ events = <<>>
  /\ timer = Off
  /\ applied = Nothing
  /\ phase = "starting"
  /\ channel = "none"

-----------------------------------------------------------------------------
(* Editors.                                                                *)

(* The kernel merges an event with an equal one before it in the queue.    *)
Queued(e) ==
  IF events # <<>> /\ events[Len(events)] = e THEN events ELSE Append(events, e)

MayEdit == phase = "loaded" => StartupEdits

(* A save in place: the file is cut and then written, at any pace.         *)
SaveInPlace(contents) ==
  /\ MayEdit
  /\ file # Absent
  /\ contents \notin {file, Absent}
  /\ contents = Partial \/ file = Partial
  /\ file' = contents
  /\ events' = IF watching THEN Queued("change") ELSE events
  /\ UNCHANGED <<watching, timer, applied, phase, channel>>

(* The file is removed, or a new one is renamed to its name.  The watch    *)
(* stays with the old file, whose loss is the last that it reports.        *)
Replace(contents) ==
  /\ Replaced
  /\ MayEdit
  /\ contents \in Versions \/ (contents = Absent /\ file # Absent)
  /\ file' = contents
  /\ watching' = FALSE
  /\ events' = IF watching THEN Append(Queued("change"), "rename") ELSE events
  /\ UNCHANGED <<timer, applied, phase, channel>>

-----------------------------------------------------------------------------
(* readDevicesConfig, and load() or reload() with what it returns.         *)
ReadAndApply == applied' = IF file \in Versions THEN file ELSE applied

Load ==
  /\ phase = "starting"
  /\ phase' = "loaded"
  /\ ReadAndApply
  /\ UNCHANGED <<file, watching, events, timer, channel>>

(* ConfigWatcher.start: without a file fs.watch throws, and nothing        *)
(* watches for it to appear.                                               *)
Start ==
  /\ phase = "loaded"
  /\ phase' = "running"
  /\ watching' = (file # Absent)
  /\ UNCHANGED <<file, events, timer, applied, channel>>

(* Mutation: the listener takes the wrong event for a change of contents.  *)
NoticeRename ==
  /\ phase = "running"
  /\ events # <<>>
  /\ timer' = IF Head(events) = "rename" THEN 0 ELSE timer
  /\ events' = Tail(events)
  /\ UNCHANGED <<file, watching, applied, phase, channel>>

(* The listener of fs.watch and scheduleReload: a change starts the timer, *)
(* or starts it again, and anything else is ignored.                       *)
Notice ==
  /\ phase = "running"
  /\ events # <<>>
  /\ timer' = IF Head(events) = "change" THEN 0 ELSE timer
  /\ events' = Tail(events)
  /\ UNCHANGED <<file, watching, applied, phase, channel>>

(* Mutation: the timer runs a tick too long.                               *)
TickPastDebounce ==
  /\ timer # Off
  /\ timer <= Debounce
  /\ timer' = timer + 1
  /\ UNCHANGED <<file, watching, events, applied, phase, channel>>

Tick ==
  /\ timer # Off
  /\ timer < Debounce
  /\ timer' = timer + 1
  /\ UNCHANGED <<file, watching, events, applied, phase, channel>>

(* The timer's callback, performReload.                                    *)
Fire ==
  /\ timer = Debounce
  /\ timer' = Off
  /\ ReadAndApply
  /\ UNCHANGED <<file, watching, events, phase, channel>>

(* start's callback opens the control channel, once, and does not look     *)
(* whether a shutdown has cleaned up meanwhile.                            *)
OpenChannel ==
  /\ channel = "none"
  /\ phase = "running" \/ (LateStart /\ phase = "stopped")
  /\ channel' = "open"
  /\ UNCHANGED <<file, watching, events, timer, applied, phase>>

(* The `reload` request of the control channel, of whatever phase.         *)
RequestedReload ==
  /\ channel = "open"
  /\ ReadAndApply
  /\ UNCHANGED <<file, watching, events, timer, phase, channel>>

CloseChannel == channel' = IF channel = "open" THEN "closed" ELSE channel

(* Mutation: the debounce timer survives the watcher.                      *)
StopWatchOnly ==
  /\ phase = "running"
  /\ phase' = "stopped"
  /\ watching' = FALSE
  /\ events' = <<>>
  /\ CloseChannel
  /\ UNCHANGED <<file, timer, applied>>

(* cleanupResources: ControlServer.stop destroys the connections and       *)
(* ConfigWatcher.stop ends the watch and its timer, in one synchronous run. *)
Stop ==
  /\ phase = "running"
  /\ phase' = "stopped"
  /\ timer' = Off
  /\ watching' = FALSE
  /\ events' = <<>>
  /\ CloseChannel
  /\ UNCHANGED <<file, applied>>

Edit ==
  \E contents \in Contents : SaveInPlace(contents) \/ Replace(contents)

Server ==
  \/ Load \/ Start \/ Notice \/ Tick \/ Fire
  \/ OpenChannel \/ RequestedReload \/ Stop

Next == Edit \/ Server

(* The kernel delivers events and the event loop runs its timers.  Nothing *)
(* makes an editor finish, an operator ask, or the server stop.            *)
Fairness == WF_vars(Load) /\ WF_vars(Start) /\ WF_vars(Notice)
            /\ WF_vars(Tick) /\ WF_vars(Fire)

Spec == Init /\ [][Next]_vars /\ Fairness

-----------------------------------------------------------------------------
TypeOK ==
  /\ file \in Contents
  /\ watching \in BOOLEAN
  /\ events \in Seq({"change", "rename"})
  /\ timer \in 0..Debounce \cup {Off}
  /\ applied \in Versions \cup {Nothing}
  /\ phase \in {"starting", "loaded", "running", "stopped"}
  /\ channel \in {"none", "open", "closed"}

ChangePending == timer # Off \/ \E i \in DOMAIN events : events[i] = "change"

Outdated == phase = "running" /\ file \in Versions /\ file # applied

(* No edit is lost: while the watched file holds a valid configuration     *)
(* that is not the one applied, a change is on its way to the watcher or   *)
(* its debounce timer is running.                                          *)
NoLostEdit == Outdated /\ watching => ChangePending

(* What is promised of hot reload, however the file is saved: ConfigWatcher *)
(* "watches devices.json for changes and reloads devices automatically".   *)
NoLostSave == Outdated => ChangePending

(* When the edits stop, what is served becomes what the file says, however *)
(* slowly it was written and whatever reload read it half-written.         *)
FollowsTheFile ==
  \A v \in Versions :
    <>[](phase = "running" /\ watching /\ file = v) => <>[](applied = v)

(* Once cleanupResources has run no reload runs behind the server's back,  *)
(* by timer, by event or by request.                                       *)
QuietAfterStop == [][phase = "stopped" => applied' = applied]_vars

=============================================================================
