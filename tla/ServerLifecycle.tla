-------------------------- MODULE ServerLifecycle --------------------------
(***************************************************************************)
(* The server processes of one machine that are given the same port: how   *)
(* src/server-runner.ts and OPCUAServerManager start one, shut it down     *)
(* after a signal or an error that escaped, and let it exit; and how they  *)
(* share the path of the control channel's socket, which is derived from   *)
(* the port.                                                               *)
(*                                                                         *)
(* node-opcua is external: it may call start's callback with or without an *)
(* error, and shutdown may throw, call back late or never call back.       *)
(***************************************************************************)
EXTENDS Naturals, FiniteSets

CONSTANTS
  Processes,   \* the server processes that are started
  FatalCodes,  \* bound: exit codes of the errors that escape, each once
  Overlap,     \* whether a server is started while another one is alive
  None

(* Members of the ExitCode enum.                                           *)
SUCCESS == 0
UNKNOWN_ERROR == 1
SERVER_ERROR == 6

ASSUME LifecycleAssumption ==
  /\ None \notin Processes
  /\ None \notin {"new", "initializing", "starting", "done", "failed"}
  /\ FatalCodes \subseteq 1..7
  /\ Overlap \in BOOLEAN

VARIABLES
  process,     \* not yet started, alive, or how it ended
  boot,        \* how far initialize() and start() have come
  status,      \* MetricsService.status
  errors,      \* MetricsService: the errors recorded by these operations
  built,       \* namespace and deviceManager are set
  watching,    \* configWatcher is started and not stopped
  control,     \* controlServer.server
  heartbeat,   \* controlHeartbeatTimer is set
  shutdownAt,  \* None, or boot at the time isShuttingDown was set
  exitWith,    \* the exit code in the closure given to shutdown()
  forceTimer,  \* forceExitTimeout is running
  exitCode,    \* of a process that called process.exit
  port,        \* the process that listens on the OPC UA port
  path,        \* the process whose socket the path names, dead or alive
  signalled,   \* history: a termination signal came
  escaped,     \* history: the exit codes of the errors that escaped
  failed       \* history: server.shutdown threw

managerVars == <<built, watching, control, heartbeat>>
historyVars == <<signalled, escaped, failed>>
vars == <<process, boot, status, errors, managerVars, shutdownAt, exitWith,
          forceTimer, exitCode, port, path, historyVars>>

Alive(p) == process[p] = "alive"

isShuttingDown(p) == shutdownAt[p] # None

Init ==
  /\ process = [p \in Processes |-> "new"]
  /\ boot = [p \in Processes |-> "new"]
  /\ status = [p \in Processes |-> "starting"]
  /\ errors = [p \in Processes |-> 0]
  /\ built = [p \in Processes |-> FALSE]
  /\ watching = [p \in Processes |-> FALSE]
  /\ control = [p \in Processes |-> "off"]
  /\ heartbeat = [p \in Processes |-> FALSE]
  /\ shutdownAt = [p \in Processes |-> None]
  /\ exitWith = [p \in Processes |-> None]
  /\ forceTimer = [p \in Processes |-> FALSE]
  /\ exitCode = [p \in Processes |-> None]
  /\ port = None
  /\ path = None
  /\ signalled = [p \in Processes |-> FALSE]
  /\ escaped = [p \in Processes |-> {}]
  /\ failed = [p \in Processes |-> FALSE]

-----------------------------------------------------------------------------
(* The operating system closes what a process that ends had open; the file *)
(* of a socket stays.                                                      *)
Ends(p, how) ==
  /\ process' = [process EXCEPT ![p] = how]
  /\ port' = IF port = p THEN None ELSE port

Exit(p, code) ==
  /\ Ends(p, "exited")
  /\ exitCode' = [exitCode EXCEPT ![p] = code]

(* startServer: the constructor and initialize().                          *)
Start(p) ==
  /\ process[p] = "new"
  /\ Overlap \/ \A q \in Processes : ~Alive(q)
  /\ process' = [process EXCEPT ![p] = "alive"]
  /\ boot' = [boot EXCEPT ![p] = "initializing"]
  /\ UNCHANGED <<status, errors, managerVars, shutdownAt, exitWith, forceTimer,
                 exitCode, port, path, historyVars>>

(* cleanupResources: nothing is waited for.                                *)
CleanupResources(p) ==
  /\ heartbeat' = [heartbeat EXCEPT ![p] = FALSE]
  /\ control' = [control EXCEPT ![p] = IF @ = "listening" THEN "closing" ELSE @]
  /\ watching' = [watching EXCEPT ![p] = FALSE]

(* The call of server.shutdown throws.                                     *)
ShutdownThrows(p, code, recorded) ==
  /\ status' = [status EXCEPT ![p] = "stopped"]
  /\ errors' = [errors EXCEPT ![p] = @ + recorded + 1]
  /\ failed' = [failed EXCEPT ![p] = TRUE]
  /\ Exit(p, code)
  /\ UNCHANGED forceTimer

(* It does not: what remains is its callback, or the timer.                *)
ShutdownBegins(p, recorded) ==
  /\ status' = [status EXCEPT ![p] = "stopping"]
  /\ errors' = [errors EXCEPT ![p] = @ + recorded]
  /\ forceTimer' = [forceTimer EXCEPT ![p] = TRUE]
  /\ UNCHANGED <<process, exitCode, port, failed>>

(* Mutation: the timer that forces the exit is not set.                    *)
ShutdownWithoutTimer(p, code, recorded) ==
  /\ ~isShuttingDown(p)
  /\ shutdownAt' = [shutdownAt EXCEPT ![p] = boot[p]]
  /\ exitWith' = [exitWith EXCEPT ![p] = code]
  /\ CleanupResources(p)
  /\ status' = [status EXCEPT ![p] = "stopping"]
  /\ errors' = [errors EXCEPT ![p] = @ + recorded]
  /\ UNCHANGED <<process, exitCode, port, failed, forceTimer>>

(* Mutation: the resources are cleaned up, but for the config watcher.     *)
ShutdownKeepsWatching(p, code, recorded) ==
  /\ ~isShuttingDown(p)
  /\ shutdownAt' = [shutdownAt EXCEPT ![p] = boot[p]]
  /\ exitWith' = [exitWith EXCEPT ![p] = code]
  /\ heartbeat' = [heartbeat EXCEPT ![p] = FALSE]
  /\ control' = [control EXCEPT ![p] = IF @ = "listening" THEN "closing" ELSE @]
  /\ UNCHANGED watching
  /\ ShutdownThrows(p, code, recorded) \/ ShutdownBegins(p, recorded)

(* shutdown, called with a callback that exits with code, after recorded   *)
(* errors were recorded in the same turn.                                  *)
Shutdown(p, code, recorded) ==
  /\ ~isShuttingDown(p)
  /\ shutdownAt' = [shutdownAt EXCEPT ![p] = boot[p]]
  /\ exitWith' = [exitWith EXCEPT ![p] = code]
  /\ CleanupResources(p)
  /\ ShutdownThrows(p, code, recorded) \/ ShutdownBegins(p, recorded)

ShutdownIgnored(p, recorded) ==
  /\ isShuttingDown(p)
  /\ errors' = [errors EXCEPT ![p] = @ + recorded]
  /\ UNCHANGED <<process, status, control, heartbeat, shutdownAt, exitWith,
                 forceTimer, exitCode, port, failed>>

(* Mutation: the exit code is the conventional one, 128 and the signal.    *)
SignalExits143(p) ==
  /\ Alive(p)
  /\ signalled' = [signalled EXCEPT ![p] = TRUE]
  /\ Shutdown(p, 143, 0) \/ (ShutdownIgnored(p, 0) /\ UNCHANGED watching)
  /\ UNCHANGED <<boot, built, path, escaped>>

(* SIGINT or SIGTERM.                                                      *)
Signal(p) ==
  /\ Alive(p)
  /\ signalled' = [signalled EXCEPT ![p] = TRUE]
  /\ Shutdown(p, SUCCESS, 0) \/ (ShutdownIgnored(p, 0) /\ UNCHANGED watching)
  /\ UNCHANGED <<boot, built, path, escaped>>

(* Mutation: an error that comes during a shutdown is not recorded.        *)
HandleFirstError(p, code, watched) ==
  /\ Alive(p)
  /\ code \in FatalCodes \ escaped[p]
  /\ escaped' = [escaped EXCEPT ![p] = @ \cup {code}]
  /\ LET recorded == IF code = UNKNOWN_ERROR THEN 0 ELSE 1
     IN \/ Shutdown(p, code, recorded)
        \/ /\ ShutdownIgnored(p, 0)
           /\ watching' = [watching EXCEPT ![p] = watched]
  /\ UNCHANGED <<signalled, path>>

(* handleFatalError: an AppError is recorded, every other error only       *)
(* logged.  Whether the config watcher runs by then, watched says; a       *)
(* shutdown stops it, unless there was one before.                         *)
HandleFatalError(p, code, watched) ==
  /\ Alive(p)
  /\ code \in FatalCodes \ escaped[p]
  /\ escaped' = [escaped EXCEPT ![p] = @ \cup {code}]
  /\ LET recorded == IF code = UNKNOWN_ERROR THEN 0 ELSE 1
     IN \/ Shutdown(p, code, recorded)
        \/ /\ ShutdownIgnored(p, recorded)
           /\ watching' = [watching EXCEPT ![p] = watched]
  /\ UNCHANGED <<signalled, path>>

FatalError(p, code) ==
  /\ HandleFatalError(p, code, watching[p])
  /\ UNCHANGED <<boot, built>>

-----------------------------------------------------------------------------
(* Mutation: start() does not wait until the address space is built.       *)
StartBeforeBuilding(p) ==
  /\ Alive(p)
  /\ boot[p] = "initializing"
  /\ boot' = [boot EXCEPT ![p] = "starting"]
  /\ watching' = [watching EXCEPT ![p] = TRUE]
  /\ UNCHANGED <<process, status, errors, built, control, heartbeat, shutdownAt,
                 exitWith, forceTimer, exitCode, port, path, historyVars>>

(* The callback of server.initialize: buildAddressSpace, then start().     *)
Initialized(p) ==
  /\ Alive(p)
  /\ boot[p] = "initializing"
  /\ boot' = [boot EXCEPT ![p] = "starting"]
  /\ built' = [built EXCEPT ![p] = TRUE]
  /\ watching' = [watching EXCEPT ![p] = TRUE]
  /\ UNCHANGED <<process, status, errors, control, heartbeat, shutdownAt, exitWith,
                 forceTimer, exitCode, port, path, historyVars>>

(* buildAddressSpace throws, before or after it has set the device manager *)
(* and started the watcher: start() is not called.                         *)
BuildFails(p, code) ==
  /\ boot[p] = "initializing"
  /\ boot' = [boot EXCEPT ![p] = "failed"]
  /\ \E managed, watched \in BOOLEAN :
       /\ watched => managed
       /\ built' = [built EXCEPT ![p] = managed]
       /\ HandleFatalError(p, code, watched)

(* Mutation: the file a process that died left at the path is not removed, *)
(* and listen() fails.                                                     *)
ListenOnFreePath(p) ==
  /\ control' = [control EXCEPT ![p] = "listening"]
  /\ path' = IF path = None THEN p ELSE path

(* ControlServer.start: a file that is at the path is taken for stale.     *)
ListenOnPath(p) ==
  IF control[p] = "off"
  THEN /\ control' = [control EXCEPT ![p] = "listening"]
       /\ path' = p
  ELSE UNCHANGED <<control, path>>

(* The callback of server.start, whatever error it is given.               *)
Started(p, bound) ==
  /\ Alive(p)
  /\ boot[p] = "starting"
  /\ bound => port = None
  /\ boot' = [boot EXCEPT ![p] = "done"]
  /\ port' = IF bound THEN p ELSE port
  /\ status' = [status EXCEPT ![p] = "running"]
  /\ ListenOnPath(p)
  /\ heartbeat' = [heartbeat EXCEPT ![p] = TRUE]
  /\ UNCHANGED <<process, errors, built, watching, shutdownAt, exitWith, forceTimer,
                 exitCode, historyVars>>

(* The callback of controlServer.server.close.                             *)
ControlClosed(p) ==
  /\ Alive(p)
  /\ control[p] = "closing"
  /\ control' = [control EXCEPT ![p] = "off"]
  /\ path' = None
  /\ UNCHANGED <<process, boot, status, errors, built, watching, heartbeat, shutdownAt,
                 exitWith, forceTimer, exitCode, port, historyVars>>

(* Mutation: the callback given to shutdown() exits with success.          *)
ShutdownSucceeds(p) ==
  /\ Alive(p) /\ forceTimer[p]
  /\ forceTimer' = [forceTimer EXCEPT ![p] = FALSE]
  /\ status' = [status EXCEPT ![p] = "stopped"]
  /\ Exit(p, SUCCESS)
  /\ UNCHANGED <<boot, errors, managerVars, shutdownAt, exitWith, path, historyVars>>

(* The callback of server.shutdown, before the timer.                      *)
ShutdownDone(p) ==
  /\ Alive(p) /\ forceTimer[p]
  /\ forceTimer' = [forceTimer EXCEPT ![p] = FALSE]
  /\ status' = [status EXCEPT ![p] = "stopped"]
  /\ Exit(p, exitWith[p])
  /\ UNCHANGED <<boot, errors, managerVars, shutdownAt, exitWith, path, historyVars>>

(* forceExitTimeout.                                                       *)
ForceExit(p) ==
  /\ Alive(p) /\ forceTimer[p]
  /\ forceTimer' = [forceTimer EXCEPT ![p] = FALSE]
  /\ Exit(p, exitWith[p])
  /\ UNCHANGED <<boot, status, errors, managerVars, shutdownAt, exitWith, path,
                 historyVars>>

(* The process is killed, or the machine runs out of memory.               *)
Kill(p) ==
  /\ Alive(p)
  /\ Ends(p, "killed")
  /\ UNCHANGED <<boot, status, errors, managerVars, shutdownAt, exitWith, forceTimer,
                 exitCode, path, historyVars>>

-----------------------------------------------------------------------------
Next ==
  \E p \in Processes :
    \/ Start(p) \/ Initialized(p) \/ ControlClosed(p)
    \/ \E bound \in BOOLEAN : Started(p, bound)
    \/ \E code \in FatalCodes : BuildFails(p, code) \/ FatalError(p, code)
    \/ Signal(p) \/ ShutdownDone(p) \/ ForceExit(p) \/ Kill(p)

Spec == Init /\ [][Next]_vars

(* The timer expires; nothing makes node-opcua call back.                  *)
FairSpec == Spec /\ \A p \in Processes : WF_vars(ForceExit(p))

-----------------------------------------------------------------------------
TypeOK ==
  /\ process \in [Processes -> {"new", "alive", "exited", "killed"}]
  /\ boot \in [Processes -> {"new", "initializing", "starting", "done", "failed"}]
  /\ status \in [Processes -> {"starting", "running", "stopping", "stopped"}]
  /\ errors \in [Processes -> Nat]
  /\ built \in [Processes -> BOOLEAN]
  /\ watching \in [Processes -> BOOLEAN]
  /\ control \in [Processes -> {"off", "listening", "closing"}]
  /\ heartbeat \in [Processes -> BOOLEAN]
  /\ shutdownAt \in
       [Processes -> {None, "new", "initializing", "starting", "done", "failed"}]
  /\ exitWith \in [Processes -> 0..7 \cup {None}]
  /\ forceTimer \in [Processes -> BOOLEAN]
  /\ exitCode \in [Processes -> 0..7 \cup {None}]
  /\ port \in Processes \cup {None}
  /\ path \in Processes \cup {None}
  /\ signalled \in [Processes -> BOOLEAN]
  /\ escaped \in [Processes -> SUBSET FatalCodes]
  /\ failed \in [Processes -> BOOLEAN]

(* "Unreachable in practice: the control channel only starts (see start(), *)
(* above) after buildAddressSpace() has already set this.deviceManager":   *)
(* whoever reaches the channel finds the device manager there.             *)
HandlersFindTheirManager ==
  \A p \in Processes : control[p] # "off" => built[p]

(* A server that had started when it was told to shut down takes no more   *)
(* part in anything: no reload, no heartbeat, no new client.               *)
ShutdownIsComplete ==
  \A p \in Processes :
    shutdownAt[p] = "done" =>
      /\ ~watching[p] /\ ~heartbeat[p] /\ control[p] # "listening"
      /\ status[p] \in {"stopping", "stopped"}

(* Servers one after the other: clients that look at the path of the port  *)
(* find the server that listens, whatever its predecessors left there.     *)
ChannelIsAtThePath ==
  \A p \in Processes : Alive(p) /\ control[p] = "listening" => path = p

(* A process exits with success after a signal only, and else with the     *)
(* code of one of the errors that escaped: "if the escaped error is an     *)
(* AppError, the process exits with that error's exitCode".                *)
ExitCodeHasItsCause ==
  \A p \in Processes :
    exitCode[p] # None =>
      IF exitCode[p] = SUCCESS THEN signalled[p] ELSE exitCode[p] \in escaped[p]

(* Each AppError that escaped, and a shutdown that failed, is counted once *)
(* in the metrics, also when it comes during the shutdown.                 *)
FatalErrorsAreCounted ==
  \A p \in Processes :
    errors[p] = Cardinality(escaped[p] \ {UNKNOWN_ERROR})
                  + (IF failed[p] THEN 1 ELSE 0)

(* A shutdown ends, whether or not node-opcua ever calls back.             *)
ShutdownEnds ==
  \A p \in Processes : isShuttingDown(p) ~> process[p] \in {"exited", "killed"}

(* "Only a genuinely fatal failure (an error that escapes normal control   *)
(* flow, or a failed shutdown) terminates the process, and it does so with *)
(* the exit code matching that error's category."                          *)
FailedShutdownIsAServerError ==
  \A p \in Processes :
    failed[p] /\ escaped[p] = {} => exitCode[p] = SERVER_ERROR

(* "so "healthy" reflects real server status [...], not just "the port     *)
(* accepts a TCP connection"": a server that answers a health check with   *)
(* running serves the port it was given.                                   *)
RunningIsServing ==
  \A p \in Processes : Alive(p) /\ status[p] = "running" => port = p

=============================================================================
