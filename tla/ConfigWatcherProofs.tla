------------------------ MODULE ConfigWatcherProofs ------------------------
(***************************************************************************)
(* What is proved of hot reload for any set of configurations and any      *)
(* length of the debounce timer: no edit of a file that is watched is      *)
(* lost, and no reload runs once the server has cleaned up.                *)
(***************************************************************************)
EXTENDS ConfigWatcher, TLAPS

(* A file read by load() is not changed before the watcher starts, if that *)
(* is excluded; before it runs and after it stopped nothing is scheduled.  *)
LoadedIsApplied ==
  ~StartupEdits /\ phase = "loaded" /\ file \in Versions => applied = file

IdleUnlessRunning == phase # "running" => timer = Off /\ events = <<>> /\ watching = FALSE

(* The channel opens when node-opcua answers, closes with the watcher, and *)
(* does not open afterwards if start's callback is not late.               *)
OpenWhileRunning == ~LateStart /\ channel = "open" => phase = "running"

WatchInv ==
  /\ TypeOK
  /\ LoadedIsApplied
  /\ IdleUnlessRunning
  /\ OpenWhileRunning
  /\ ~StartupEdits => NoLostEdit

(* A queue to which an event was sent holds it, and is one.                *)
LEMMA QueuedHolds ==
  ASSUME events \in Seq({"change", "rename"}), NEW e \in {"change", "rename"}
  PROVE  /\ Queued(e) \in Seq({"change", "rename"})
         /\ \E i \in DOMAIN Queued(e) : Queued(e)[i] = e
<1>1. CASE events # <<>> /\ events[Len(events)] = e
  <2>1. Len(events) \in DOMAIN events
    BY <1>1
  <2> QED
    BY <1>1, <2>1 DEF Queued
<1>2. CASE ~(events # <<>> /\ events[Len(events)] = e)
  <2>1. Queued(e) = Append(events, e)
    BY <1>2 DEF Queued
  <2>2. Len(events) + 1 \in DOMAIN Append(events, e)
    OBVIOUS
  <2>3. Append(events, e)[Len(events) + 1] = e
    OBVIOUS
  <2> QED
    BY <2>1, <2>2, <2>3
<1> QED
  BY <1>1, <1>2

(* An event that is not the first stays when the first is taken.           *)
LEMMA TailKeeps ==
  ASSUME events \in Seq({"change", "rename"}), events # <<>>,
         Head(events) # "change",
         NEW i \in DOMAIN events, events[i] = "change"
  PROVE  \E j \in DOMAIN Tail(events) : Tail(events)[j] = "change"
<1>1. i # 1
  <2>1. Head(events) = events[1]
    OBVIOUS
  <2> QED
    BY <2>1
<1>2. i - 1 \in DOMAIN Tail(events) /\ Tail(events)[i - 1] = events[i]
  BY <1>1
<1> QED
  BY <1>2

LEMMA WatchInit == Init => WatchInv
<1> SUFFICES ASSUME Init PROVE WatchInv
  OBVIOUS
<1>1. TypeOK
  <2>1. << >> \in Seq({"change", "rename"})
    OBVIOUS
  <2> QED
    BY <2>1 DEF Init, TypeOK, Contents
<1>2. LoadedIsApplied /\ IdleUnlessRunning /\ OpenWhileRunning /\ NoLostEdit
  BY DEF Init, LoadedIsApplied, IdleUnlessRunning, OpenWhileRunning, NoLostEdit, Outdated
<1> QED
  BY <1>1, <1>2 DEF WatchInv

LEMMA WatchStep == WatchInv /\ [Next]_vars => WatchInv'
<1> SUFFICES ASSUME WatchInv, [Next]_vars PROVE WatchInv'
  OBVIOUS
<1> USE WatcherAssumption
<1> USE DEF WatchInv, TypeOK, LoadedIsApplied, IdleUnlessRunning, OpenWhileRunning,
            NoLostEdit, Outdated, ChangePending, Contents
<1>1. ASSUME NEW contents \in Contents, SaveInPlace(contents)
      PROVE  WatchInv'
  <2>1. CASE watching = TRUE
    <3>1. events' = Queued("change") /\ UNCHANGED <<watching, timer, applied, phase, channel>>
      BY <1>1, <2>1 DEF SaveInPlace
    <3>2. phase = "running"
      BY <2>1
    <3>3. /\ events' \in Seq({"change", "rename"})
          /\ \E i \in DOMAIN events' : events'[i] = "change"
      BY <3>1, QueuedHolds
    <3>4. file' \in Contents
      BY <1>1 DEF SaveInPlace
    <3> QED
      BY <3>1, <3>2, <3>3, <3>4
  <2>2. CASE watching = FALSE
    BY <1>1, <2>2 DEF SaveInPlace, MayEdit
  <2> QED
    BY <2>1, <2>2
<1>2. ASSUME NEW contents \in Contents, Replace(contents)
      PROVE  WatchInv'
  <2>1. CASE watching = TRUE
    <3>1. /\ events' = Append(Queued("change"), "rename") /\ watching' = FALSE
          /\ UNCHANGED <<timer, applied, phase, channel>>
      BY <1>2, <2>1 DEF Replace
    <3>2. phase = "running"
      BY <2>1
    <3>3. Queued("change") \in Seq({"change", "rename"})
      BY QueuedHolds
    <3>4. events' \in Seq({"change", "rename"})
      BY <3>1, <3>3
    <3>5. file' \in Contents
      BY <1>2 DEF Replace
    <3> QED
      BY <3>1, <3>2, <3>4, <3>5
  <2>2. CASE watching = FALSE
    BY <1>2, <2>2 DEF Replace, MayEdit
  <2> QED
    BY <2>1, <2>2
<1>3. CASE Load
  BY <1>3 DEF Load, ReadAndApply
<1>4. CASE Start
  BY <1>4 DEF Start
<1>5. CASE Notice
  <2>1. /\ events # <<>> /\ events' = Tail(events)
        /\ timer' = IF Head(events) = "change" THEN 0 ELSE timer
        /\ phase = "running" /\ UNCHANGED <<file, watching, applied, phase, channel>>
    BY <1>5 DEF Notice
  <2>2. events' \in Seq({"change", "rename"})
    BY <2>1
  <2>3. timer' \in 0..Debounce \cup {Off}
    BY <2>1
  <2>4. ChangePending => ChangePending'
    <3>1. CASE Head(events) = "change"
      BY <2>1, <3>1
    <3>2. CASE Head(events) # "change"
      <4>1. ASSUME NEW i \in DOMAIN events, events[i] = "change"
            PROVE  \E j \in DOMAIN events' : events'[j] = "change"
        BY <2>1, <3>2, <4>1, TailKeeps
      <4> QED
        BY <2>1, <3>2, <4>1
    <3> QED
      BY <3>1, <3>2
  <2> QED
    BY <2>1, <2>2, <2>3, <2>4
<1>6. CASE Tick
  BY <1>6 DEF Tick
<1>7. CASE Fire
  BY <1>7 DEF Fire, ReadAndApply
<1>8. CASE RequestedReload
  BY <1>8 DEF RequestedReload, ReadAndApply
<1>9. CASE Stop
  <2>1. << >> \in Seq({"change", "rename"})
    OBVIOUS
  <2> QED
    BY <1>9, <2>1 DEF Stop, CloseChannel
<1>10. CASE OpenChannel
  BY <1>10 DEF OpenChannel
<1>11. CASE UNCHANGED vars
  BY <1>11 DEF vars
<1> QED
  BY <1>1, <1>2, <1>3, <1>4, <1>5, <1>6, <1>7, <1>8, <1>9, <1>10,
     <1>11 DEF Next, Edit, Server

LEMMA WatchInvAlways == Spec => []WatchInv
BY WatchInit, WatchStep, PTL DEF Spec

(* The timer of the watcher never runs past the debounce time, and what is *)
(* applied is a valid configuration or none.                               *)
THEOREM WatcherIsWellTyped == Spec => []TypeOK
<1>1. WatchInv => TypeOK
  BY DEF WatchInv
<1> QED
  BY <1>1, WatchInvAlways, PTL

(* If devices.json does not change between load() and the start of the     *)
(* watcher, every change of the watched file to another valid              *)
(* configuration has a reload on its way.                                  *)
THEOREM NoLostEditAlways ==
  ASSUME ~StartupEdits
  PROVE  Spec => []NoLostEdit
<1>1. WatchInv => NoLostEdit
  BY DEF WatchInv
<1> QED
  BY <1>1, WatchInvAlways, PTL

(* If start's callback is not called after cleanupResources, no timer, no  *)
(* event and no connection is left behind it, and no reload runs after it. *)
THEOREM QuietAfterStopAlways ==
  ASSUME ~LateStart
  PROVE  Spec => QuietAfterStop
<1>1. WatchInv /\ [Next]_vars => [phase = "stopped" => applied' = applied]_vars
  BY WatcherAssumption
     DEF WatchInv, IdleUnlessRunning, OpenWhileRunning, Next, Edit, Server, SaveInPlace,
         Replace, Load, Start, Notice, Tick, Fire, OpenChannel, RequestedReload, Stop, vars
<1> QED
  BY <1>1, WatchInvAlways, PTL DEF Spec, QuietAfterStop

=============================================================================
