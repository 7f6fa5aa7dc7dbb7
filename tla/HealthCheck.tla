--------------------------- MODULE HealthCheck ---------------------------
(***************************************************************************)
(* `opcua-server healthcheck`, run over and over by an orchestrator, and   *)
(* the status it asks for: that of MetricsService, `degraded` while a      *)
(* device is in error or errors come in a burst.                           *)
(*                                                                         *)
(* Server and command find each other by port, which each works out from   *)
(* its own flag, the environment and .env.  Time is counted in ticks; the  *)
(* control channel is what Rpc promises, for the one request of a check.   *)
(***************************************************************************)
EXTENDS Integers, FiniteSets

CONSTANTS
  Keys,                    \* the keys devices may have in devices.json
  degradedErrorThreshold,  \* as many recent errors are a burst
  degradedWindow,          \* the ticks for which an error is recent
  timeout,                 \* the option --timeout, in ticks
  MaxErrors,               \* bound: the errors one server process records
  Ports,                   \* the ports a --port flag may name
  EnvPort,                 \* PORT in the environment of server and command
  DotEnvPort,              \* PORT in the file .env of their directory
  DefaultPort,             \* 4840
  None                     \* no port, no answer

VARIABLES
  status,      \* MetricsService.status, or "off" with no server process
  startCallback,  \* of server.start: "due", "called", or "late" if shutdown came first
  flag,        \* the --port flag the server was started with
  listening,   \* the port whose control channel is open
  devices,     \* MetricsService.devices
  recorded,    \* history: how many errors the server recorded
  age,         \* the ticks since each of them, up to degradedWindow
  recent,      \* MetricsService.recentErrorTimestamps
  phase,       \* where the healthcheck command stands
  option,      \* its --port flag
  connection,  \* its socket
  asked,       \* whether its request waits for the server
  answer,      \* the status under way to it
  spent,       \* the ticks it has waited for the connection or the answer
  elapsed,     \* history: the ticks since it was started
  seen,        \* history: the conditions of the server since it was started
  verdict      \* what it exited with, if it did

metricsVars == <<devices, recorded, age, recent>>
serverVars == <<status, startCallback, flag, listening, metricsVars>>
checkVars == <<phase, option, connection, asked, answer, spent, elapsed, verdict>>
vars == <<serverVars, checkVars, seen>>

Flags == Ports \cup {None}

ASSUME HealthAssumption ==
  /\ IsFiniteSet(Keys)
  /\ degradedErrorThreshold \in Nat /\ degradedWindow \in Nat /\ timeout \in Nat
  /\ MaxErrors \in Nat
  /\ None \notin Ports
  /\ EnvPort \in Flags /\ DotEnvPort \in Flags /\ DefaultPort \in Ports

ErrorIds == 1..MaxErrors

-----------------------------------------------------------------------------
(* The first of the settings that is there.                                *)
FirstOf(a, b) == IF a # None THEN a ELSE b

(* applyOverrides, dotenv.config and server-config.ts: what is set already *)
(* wins over .env.                                                         *)
ServerPort(f) == FirstOf(f, FirstOf(EnvPort, FirstOf(DotEnvPort, DefaultPort)))

(* resolveTargetPort: .env is not read.                                    *)
TargetPort(f) == FirstOf(f, FirstOf(EnvPort, DefaultPort))

-----------------------------------------------------------------------------
(* MetricsService.                                                         *)

Recent(ids) == {i \in ids : age[i] < degradedWindow}

HasDeviceInError == \E k \in Keys : devices[k] = "error"

(* Mutation: all the errors that are kept count.                           *)
BurstOfAllErrors == Cardinality(recent) >= degradedErrorThreshold

HasRecentErrorBurst == Cardinality(Recent(recent)) >= degradedErrorThreshold

DerivedStatus ==
  IF status = "running" /\ (HasDeviceInError \/ HasRecentErrorBurst)
  THEN "degraded" ELSE status

(* Mutation: the cutoff itself is taken off by one.                        *)
PruneTooMany ==
  recent' = IF status = "running" /\ ~HasDeviceInError
            THEN {i \in recent : age[i] + 1 < degradedWindow} ELSE recent

(* Old timestamps are dropped as the burst is looked for, which is when    *)
(* the status is "running" and no device is in error.                      *)
PruneOldErrors ==
  recent' = IF status = "running" /\ ~HasDeviceInError THEN Recent(recent) ELSE recent

(* recordError, n times.                                                   *)
RecordErrors(n) ==
  LET ids == recorded + 1..recorded + n IN
  /\ recorded + n <= MaxErrors
  /\ recorded' = recorded + n
  /\ recent' = recent \cup ids
  /\ age' = [i \in ErrorIds |-> IF i \in ids THEN 0 ELSE age[i]]

(* What a file makes of the device of a key.                               *)
Entries == {"absent", "registers", "fails"}

(* Every registered device is removed, then those of the file registered:  *)
(* a device in error was not registered, and leaves with no reload.        *)
DevicesAfter(file) ==
  [k \in Keys |-> CASE file[k] = "registers" -> "connected"
                    [] file[k] = "fails" -> "error"
                    [] OTHER -> IF devices[k] = "error" THEN "error" ELSE "none"]

Failing(file) == Cardinality({k \in Keys : file[k] = "fails"})

(* DeviceManager.reload of a file that is valid.                           *)
Reload(file) ==
  /\ status = "running"
  /\ devices' = DevicesAfter(file)
  /\ RecordErrors(Failing(file))
  /\ UNCHANGED <<status, startCallback, flag, listening, checkVars>>

(* DeviceManager.reload of a file that is not.                             *)
RefusedReload ==
  /\ status = "running"
  /\ RecordErrors(1)
  /\ UNCHANGED <<status, startCallback, flag, listening, checkVars, devices>>

(* ping, logSummary: the status is derived and nobody hears of it.         *)
GetStatus ==
  /\ status = "running"
  /\ PruneOldErrors
  /\ UNCHANGED <<status, startCallback, flag, listening, checkVars, devices, recorded, age>>

-----------------------------------------------------------------------------
(* The server process, as far as it can be asked.                          *)

(* A connection ends with the channel; what was under way may be lost.     *)
EndConnection ==
  /\ connection' = IF connection = "open" THEN "lost" ELSE connection
  /\ asked' = FALSE
  /\ answer' \in {answer, None}
  /\ UNCHANGED <<phase, option, spent, elapsed, verdict>>

(* startServer up to the callback of server.initialize, which loads the    *)
(* devices: n errors are the first of new metrics.                         *)
NewServer(f, n) ==
  /\ status = "off"
  /\ status' = "starting"
  /\ flag' = f
  /\ n <= MaxErrors
  /\ recorded' = n
  /\ recent' = 1..n
  /\ UNCHANGED <<startCallback, listening, age, checkVars>>

Boot(f, file) == NewServer(f, Failing(file)) /\ devices' = DevicesAfter(file)

(* A file that is refused, or is not there: the server starts without.     *)
BootRefused(f) == NewServer(f, 1) /\ UNCHANGED devices

(* The callback of server.start, which does not look whether a shutdown    *)
(* has begun before it.                                                    *)
Started ==
  /\ status \in {"starting", "stopping"}
  /\ startCallback = "due"
  /\ startCallback' = IF status = "starting" THEN "called" ELSE "late"
  /\ status' = "running"
  /\ listening' = ServerPort(flag)
  /\ UNCHANGED <<flag, metricsVars, checkVars>>

(* shutdown: the status is set and the channel stopped in one turn, once.  *)
Shutdown ==
  /\ status \in {"starting", "running"}
  /\ startCallback # "late"
  /\ status' = "stopping"
  /\ listening' = None
  /\ EndConnection
  /\ UNCHANGED <<startCallback, flag, metricsVars>>

(* The process exits, or is killed, and its metrics are gone.              *)
Exit ==
  /\ status # "off"
  /\ status' = "off" /\ startCallback' = "due" /\ flag' = None /\ listening' = None
  /\ devices' = [k \in Keys |-> "none"]
  /\ recorded' = 0 /\ age' = [i \in ErrorIds |-> 0] /\ recent' = {}
  /\ EndConnection

-----------------------------------------------------------------------------
(* The healthcheck command.                                                *)

StartCheck(f) ==
  /\ phase = "idle"
  /\ phase' = "connecting"
  /\ option' = f
  /\ connection' = "none" /\ asked' = FALSE /\ answer' = None
  /\ spent' = 0 /\ elapsed' = 0
  /\ verdict' = "none"
  /\ UNCHANGED serverVars

(* reportControlChannelFailure or process.exit(ExitCode.SUCCESS).          *)
ExitWith(v) ==
  /\ phase' = "idle"
  /\ verdict' = v
  /\ UNCHANGED <<serverVars, option, connection, asked, answer, spent, elapsed>>

(* The 'connect' listener, and the request that follows at once.           *)
Connected ==
  /\ phase = "connecting"
  /\ listening = TargetPort(option)
  /\ phase' = "requesting"
  /\ connection' = "open"
  /\ asked' = TRUE
  /\ spent' = 0
  /\ UNCHANGED <<serverVars, option, answer, elapsed, verdict>>

(* The 'error' listener of connect.                                        *)
ConnectRefused ==
  /\ phase = "connecting"
  /\ listening # TargetPort(option)
  /\ ExitWith("SERVER_NOT_RUNNING")

ConnectTimesOut ==
  /\ phase = "connecting"
  /\ spent = timeout
  /\ ExitWith("SERVER_NOT_RUNNING")

(* Mutation: the status as it was set is answered.                         *)
AnswerSetStatus ==
  /\ asked
  /\ asked' = FALSE
  /\ answer' = status
  /\ UNCHANGED recent

(* handleInfoRequest, as far as the command looks at it.                   *)
AnswerInfo ==
  /\ asked
  /\ asked' = FALSE
  /\ answer' = DerivedStatus
  /\ PruneOldErrors

HandleInfo ==
  /\ AnswerInfo
  /\ UNCHANGED <<status, startCallback, flag, listening, devices, recorded, age,
                 phase, option, connection, spent, elapsed, verdict>>

(* assertHealthy.                                                          *)
Answered ==
  /\ phase = "requesting"
  /\ answer # None
  /\ ExitWith(IF answer = "running" THEN "SUCCESS" ELSE "SERVER_UNHEALTHY")

(* The 'close' listener of the client's socket.                            *)
ConnectionLost ==
  /\ phase = "requesting"
  /\ connection = "lost"
  /\ answer = None
  /\ ExitWith("SERVER_NOT_RUNNING")

(* The timer of the request rejects with an error that has no exit code.   *)
RequestTimesOut ==
  /\ phase = "requesting"
  /\ spent = timeout
  /\ ExitWith("UNKNOWN_ERROR")

(* Mutation: the request is given its default time, whatever --timeout is. *)
OverdueWhileConnecting == phase = "connecting" /\ spent >= timeout

Overdue == phase # "idle" /\ spent >= timeout

(* A timer fires before the clock moves past it.                           *)
Tick ==
  /\ ~Overdue
  /\ age' = [i \in ErrorIds |->
               IF i <= recorded /\ age[i] < degradedWindow THEN age[i] + 1 ELSE age[i]]
  /\ spent' = IF phase = "idle" THEN spent ELSE spent + 1
  /\ elapsed' = IF phase = "idle" THEN elapsed ELSE elapsed + 1
  /\ UNCHANGED <<status, startCallback, flag, listening, devices, recorded, recent,
                 phase, option, connection, asked, answer, verdict>>

-----------------------------------------------------------------------------
Files == [Keys -> Entries]

Init ==
  /\ status = "off" /\ startCallback = "due" /\ flag = None /\ listening = None
  /\ devices = [k \in Keys |-> "none"]
  /\ recorded = 0 /\ age = [i \in ErrorIds |-> 0] /\ recent = {}
  /\ phase = "idle" /\ option = None
  /\ connection = "none" /\ asked = FALSE /\ answer = None
  /\ spent = 0 /\ elapsed = 0
  /\ seen = {} /\ verdict = "none"

ServerStep ==
  \/ \E f \in Flags : BootRefused(f) \/ \E file \in Files : Boot(f, file)
  \/ \E file \in Files : Reload(file)
  \/ RefusedReload \/ GetStatus \/ Started \/ Shutdown \/ Exit \/ HandleInfo

CheckTimer == ConnectTimesOut \/ RequestTimesOut

CheckStep ==
  \/ \E f \in Flags : StartCheck(f)
  \/ Connected \/ ConnectRefused \/ Answered \/ ConnectionLost \/ CheckTimer

(* What README.md says of the status, from every error the server recorded *)
(* rather than from those it kept.                                         *)
DocumentedStatus ==
  IF status = "running"
     /\ (HasDeviceInError \/ Cardinality(Recent(1..recorded)) >= degradedErrorThreshold)
  THEN "degraded" ELSE status

(* The condition of the server that a check is about: the one started with *)
(* the same options, or in any case the one at the port it asks.           *)
Condition ==
  IF listening # None /\ (flag = option \/ listening = TargetPort(option))
  THEN DocumentedStatus ELSE "down"

Observe ==
  seen' = IF phase' = "idle" THEN seen
          ELSE (IF phase = "idle" THEN {} ELSE seen) \cup {Condition'}

Next == (ServerStep \/ CheckStep \/ Tick) /\ Observe

Spec == Init /\ [][Next]_vars

(* Time goes on, and the command's timers fire.                            *)
Fairness == WF_vars(Tick /\ Observe) /\ WF_vars(CheckTimer /\ Observe)

FairSpec == Spec /\ Fairness

-----------------------------------------------------------------------------
Statuses == {"off", "starting", "running", "stopping"}
Verdicts ==
  {"none", "SUCCESS", "SERVER_UNHEALTHY", "SERVER_NOT_RUNNING", "UNKNOWN_ERROR"}

TypeOK ==
  /\ status \in Statuses /\ startCallback \in {"due", "called", "late"}
  /\ flag \in Flags /\ listening \in Flags
  /\ devices \in [Keys -> {"none", "connected", "error"}]
  /\ recorded \in 0..MaxErrors
  /\ age \in [ErrorIds -> 0..degradedWindow]
  /\ recent \subseteq 1..recorded
  /\ phase \in {"idle", "connecting", "requesting"}
  /\ option \in Flags
  /\ connection \in {"none", "open", "lost"}
  /\ asked \in BOOLEAN
  /\ answer \in {None, "running", "degraded"}
  /\ spent \in 0..timeout
  /\ elapsed \in Nat
  /\ seen \subseteq {"running", "degraded", "down"}
  /\ verdict \in Verdicts

(* The status the service derives from the timestamps it kept is the one   *)
(* README.md describes, whoever asked in between: dropping timestamps, now *)
(* and then, drops none that still counts.                                 *)
DegradedAsDocumented == DerivedStatus = DocumentedStatus

(* "No running OPC UA server was found" is said of servers that were not   *)
(* there, or did not take the connection in time.                          *)
CommandsFindTheServer ==
  verdict = "SERVER_NOT_RUNNING" => "down" \in seen \/ spent = timeout

(* A check exits with 0 only if the server was healthy at some moment of   *)
(* the check, and calls it unhealthy or absent only if it was: no answer   *)
(* comes from before, nor from another process.                            *)
VerdictHasItsCause ==
  /\ verdict = "SUCCESS" => "running" \in seen
  /\ verdict = "SERVER_UNHEALTHY" => "degraded" \in seen
  /\ CommandsFindTheServer

(* Whatever the server does, a check takes no longer than --timeout for    *)
(* the connection and --timeout for the answer.                            *)
ChecksEndInTime == elapsed <= 2 * timeout

(* A burst of errors passes: with no device in error and no new error, the *)
(* server is healthy again, though nobody may have asked for its status.   *)
BurstsPass ==
  DerivedStatus = "degraded" ~>
    (DerivedStatus # "degraded" \/ HasDeviceInError
       \/ \E i \in 1..recorded : age[i] = 0)

=============================================================================
