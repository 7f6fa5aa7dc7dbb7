------------------------- MODULE HealthCheckProofs -------------------------
(***************************************************************************)
(* What is proved of the derived status and of healthcheck, for any number *)
(* of devices and errors, any window, threshold and timeout: timestamps    *)
(* that are dropped do not count, a check ends in time, and where server   *)
(* and command work out the same port, its verdict has its cause.          *)
(***************************************************************************)
EXTENDS HealthCheck, FiniteSetTheorems, TLAPS

(* Every error of the window is among the timestamps that are kept.        *)
WindowIsKept == \A i \in 1..recorded : age[i] < degradedWindow => i \in recent

(* An open channel is that of a running server at its port, and a request  *)
(* waits for the server it was sent to.                                    *)
ChannelInv ==
  /\ listening # None => status = "running" /\ listening = ServerPort(flag)
  /\ asked => status = "running" /\ listening = TargetPort(option)
  /\ phase = "connecting" => connection = "none" /\ ~asked /\ answer = None

(* What is left of the two budgets bounds the time a check took.           *)
TimeInv ==
  /\ elapsed <= 2 * timeout
  /\ phase = "connecting" => elapsed = spent
  /\ phase = "requesting" => elapsed <= timeout + spent

(* What a check may base its verdict on was so since it was started.       *)
SeenInv ==
  /\ phase # "idle" => Condition \in seen /\ verdict = "none"
  /\ phase = "requesting" /\ answer # None => answer \in seen
  /\ phase # "idle" /\ connection = "lost" => "down" \in seen

HealthInv == TypeOK /\ WindowIsKept /\ ChannelInv /\ TimeInv /\ SeenInv

PortsAgree == \A f \in Flags : ServerPort(f) = TargetPort(f)

LEMMA FailingIsCounted == ASSUME NEW file PROVE Failing(file) \in Nat
<1>1. IsFiniteSet({k \in Keys : file[k] = "fails"})
  BY HealthAssumption, FS_Subset
<1> QED
  BY <1>1, FS_CardinalityType DEF Failing

LEMMA PortsOfFlags ==
  ASSUME NEW f \in Flags
  PROVE  ServerPort(f) \in Ports /\ TargetPort(f) \in Ports
BY HealthAssumption DEF ServerPort, TargetPort, FirstOf, Flags

LEMMA HealthInit == Init => HealthInv
<1> SUFFICES ASSUME Init PROVE HealthInv
  OBVIOUS
<1> USE HealthAssumption DEF Init
<1>1. TypeOK
  <2>1. age \in [ErrorIds -> 0..degradedWindow] /\ recent \subseteq 1..recorded
    OBVIOUS
  <2>2. /\ status \in Statuses /\ startCallback \in {"due", "called", "late"}
        /\ verdict \in Verdicts
        /\ flag \in Flags /\ listening \in Flags /\ option \in Flags
    BY DEF Flags, Verdicts, Statuses
  <2>3. /\ devices \in [Keys -> {"none", "connected", "error"}]
        /\ recorded \in 0..MaxErrors /\ spent \in 0..timeout /\ elapsed \in Nat
    OBVIOUS
  <2>4. /\ phase \in {"idle", "connecting", "requesting"}
        /\ connection \in {"none", "open", "lost"} /\ asked \in BOOLEAN
        /\ answer \in {None, "running", "degraded"}
        /\ seen \subseteq {"running", "degraded", "down"}
    OBVIOUS
  <2> QED
    BY <2>1, <2>2, <2>3, <2>4, Zenon DEF TypeOK
<1>2. WindowIsKept /\ TimeInv
  BY DEF WindowIsKept, TimeInv
<1>3. ChannelInv /\ SeenInv
  BY DEF ChannelInv, SeenInv
<1> QED
  BY <1>1, <1>2, <1>3 DEF HealthInv

-----------------------------------------------------------------------------
(* MetricsService.                                                         *)

(* The errors that are recorded, and what is kept of them.                 *)
ErrorsOK ==
  /\ recorded \in 0..MaxErrors
  /\ age \in [ErrorIds -> 0..degradedWindow]
  /\ recent \subseteq 1..recorded

LEMMA RecordErrorsKeepsWindow ==
  ASSUME ErrorsOK, WindowIsKept, NEW n \in Nat, RecordErrors(n)
  PROVE  ErrorsOK' /\ WindowIsKept'
<1> USE HealthAssumption DEF ErrorsOK, ErrorIds
<1>1. recorded' \in 0..MaxErrors /\ recorded' = recorded + n
  BY DEF RecordErrors
<1>2. age' \in [ErrorIds -> 0..degradedWindow]
  BY DEF RecordErrors
<1>3. recent' \subseteq 1..recorded'
  BY <1>1 DEF RecordErrors
<1>4. WindowIsKept'
  <2> SUFFICES ASSUME NEW i \in 1..recorded', age'[i] < degradedWindow PROVE i \in recent'
    BY DEF WindowIsKept
  <2>1. CASE i \in recorded + 1..recorded + n
    BY <2>1 DEF RecordErrors
  <2>2. CASE i \notin recorded + 1..recorded + n
    <3>1. i \in 1..recorded /\ age'[i] = age[i]
      BY <1>1, <2>2 DEF RecordErrors
    <3> QED
      BY <3>1 DEF WindowIsKept, RecordErrors
  <2> QED
    BY <2>1, <2>2
<1> QED
  BY <1>1, <1>2, <1>3, <1>4

LEMMA PruneKeepsWindow ==
  ASSUME ErrorsOK, WindowIsKept, PruneOldErrors, UNCHANGED <<recorded, age>>
  PROVE  ErrorsOK' /\ WindowIsKept'
BY DEF ErrorsOK, WindowIsKept, PruneOldErrors, Recent

LEMMA NewServerKeepsWindow ==
  ASSUME ErrorsOK, NEW f, NEW n \in Nat, NewServer(f, n)
  PROVE  ErrorsOK' /\ WindowIsKept'
BY HealthAssumption DEF NewServer, ErrorsOK, WindowIsKept

LEMMA ErrorsStep ==
  ASSUME HealthInv, [Next]_vars
  PROVE  ErrorsOK' /\ WindowIsKept'
<1> USE HealthAssumption
<1>0. ErrorsOK /\ WindowIsKept
  BY DEF HealthInv, TypeOK, ErrorsOK
<1>1. ASSUME NEW f \in Flags, NEW n \in Nat, NewServer(f, n) PROVE ErrorsOK' /\ WindowIsKept'
  BY <1>0, <1>1, NewServerKeepsWindow
<1>2. ASSUME NEW file \in Files, Reload(file) PROVE ErrorsOK' /\ WindowIsKept'
  BY <1>0, <1>2, FailingIsCounted, RecordErrorsKeepsWindow DEF Reload
<1>3. CASE RefusedReload
  BY <1>0, <1>3, RecordErrorsKeepsWindow DEF RefusedReload
<1>4. CASE GetStatus
  BY <1>0, <1>4, PruneKeepsWindow DEF GetStatus
<1>5. CASE HandleInfo
  BY <1>0, <1>5, PruneKeepsWindow DEF HandleInfo, AnswerInfo
<1>6. CASE Tick
  <2>1. age' \in [ErrorIds -> 0..degradedWindow]
    BY <1>0, <1>6 DEF Tick, ErrorsOK
  <2>2. ASSUME NEW i \in 1..recorded', age'[i] < degradedWindow PROVE i \in recent'
    BY <1>0, <1>6, <2>2 DEF Tick, ErrorsOK, WindowIsKept, ErrorIds
  <2> QED
    BY <1>0, <1>6, <2>1, <2>2 DEF Tick, ErrorsOK, WindowIsKept
<1>7. CASE UNCHANGED metricsVars
  BY <1>0, <1>7 DEF metricsVars, ErrorsOK, WindowIsKept
<1>8. CASE Started \/ Shutdown \/ CheckStep
  BY <1>7, <1>8
     DEF Started, Shutdown, CheckStep, StartCheck, Connected, ConnectRefused, Answered,
         ConnectionLost, CheckTimer, ConnectTimesOut, RequestTimesOut, ExitWith, serverVars
<1>9. CASE Exit
  BY <1>9 DEF Exit, ErrorsOK, WindowIsKept
<1>10. ASSUME NEW f \in Flags,
              BootRefused(f) \/ \E file \in Files : Boot(f, file)
       PROVE  ErrorsOK' /\ WindowIsKept'
  BY <1>1, <1>10, FailingIsCounted DEF Boot, BootRefused
<1> QED
  BY <1>2, <1>3, <1>4, <1>5, <1>6, <1>7, <1>8, <1>9, <1>10
     DEF Next, ServerStep, vars, serverVars

-----------------------------------------------------------------------------
(* The channel.                                                            *)

LEMMA ChannelStep == ASSUME HealthInv, [Next]_vars PROVE ChannelInv'
<1> USE HealthAssumption DEF HealthInv, ChannelInv, TypeOK
<1>1. ASSUME NEW f \in Flags,
             BootRefused(f) \/ \E file \in Files : Boot(f, file)
      PROVE  ChannelInv'
  BY <1>1 DEF Boot, BootRefused, NewServer, checkVars
<1>2. CASE Started
  BY <1>2 DEF Started, checkVars, ServerPort
<1>3. CASE Shutdown \/ Exit
  BY <1>3 DEF Shutdown, Exit, EndConnection
<1>4. CASE HandleInfo
  BY <1>4 DEF HandleInfo, AnswerInfo, ServerPort, TargetPort
<1>5. ASSUME NEW f \in Flags, StartCheck(f) PROVE ChannelInv'
  BY <1>5 DEF StartCheck, serverVars, ServerPort
<1>6. CASE Connected
  BY <1>6, PortsOfFlags DEF Connected, serverVars, ServerPort, TargetPort, Flags
<1>7. CASE ConnectRefused \/ Answered \/ ConnectionLost \/ CheckTimer
  BY <1>7 DEF ConnectRefused, Answered, ConnectionLost, CheckTimer, ConnectTimesOut,
              RequestTimesOut, ExitWith, serverVars, ServerPort, TargetPort
<1>8. CASE Tick
  BY <1>8 DEF Tick, ServerPort, TargetPort
<1>9. CASE UNCHANGED <<status, startCallback, flag, listening, checkVars>>
  BY <1>9 DEF checkVars, ServerPort, TargetPort
<1>10. CASE (\E file \in Files : Reload(file)) \/ RefusedReload \/ GetStatus
  BY <1>9, <1>10 DEF Reload, RefusedReload, GetStatus
<1> QED
  BY <1>1, <1>2, <1>3, <1>4, <1>5, <1>6, <1>7, <1>8, <1>9, <1>10
     DEF Next, ServerStep, CheckStep, vars, serverVars

-----------------------------------------------------------------------------
(* Time.                                                                   *)

LEMMA TimeStep ==
  ASSUME HealthInv, [Next]_vars
  PROVE  TimeInv' /\ spent' \in 0..timeout /\ elapsed' \in Nat
<1> USE HealthAssumption DEF HealthInv, TimeInv, TypeOK
<1>1. ASSUME NEW f \in Flags, StartCheck(f)
      PROVE  TimeInv' /\ spent' \in 0..timeout /\ elapsed' \in Nat
  BY <1>1 DEF StartCheck
<1>2. CASE Connected
  BY <1>2 DEF Connected
<1>3. CASE ConnectRefused \/ Answered \/ ConnectionLost \/ CheckTimer
  BY <1>3 DEF ConnectRefused, Answered, ConnectionLost, CheckTimer, ConnectTimesOut,
              RequestTimesOut, ExitWith
<1>4. CASE Tick
  BY <1>4 DEF Tick, Overdue
<1>5. CASE UNCHANGED <<phase, spent, elapsed>>
  BY <1>5
<1>6. CASE ServerStep
  BY <1>5, <1>6 DEF ServerStep, Boot, BootRefused, NewServer, Reload, RefusedReload, GetStatus, Started, Shutdown, Exit,
                    HandleInfo, EndConnection, checkVars
<1> QED
  BY <1>1, <1>2, <1>3, <1>4, <1>5, <1>6 DEF Next, CheckStep, vars, checkVars

-----------------------------------------------------------------------------
(* Types.                                                                  *)

LEMMA ConditionType ==
  ASSUME TypeOK, ChannelInv PROVE Condition \in {"running", "degraded", "down"}
BY DEF TypeOK, ChannelInv, Condition, DocumentedStatus

LEMMA TypeStep == ASSUME HealthInv, [Next]_vars PROVE TypeOK'
<1> USE HealthAssumption
<1>1. /\ status' \in Statuses /\ startCallback' \in {"due", "called", "late"}
      /\ flag' \in Flags /\ listening' \in Flags
      /\ phase' \in {"idle", "connecting", "requesting"}
      /\ option' \in Flags
      /\ connection' \in {"none", "open", "lost"}
      /\ asked' \in BOOLEAN
      /\ answer' \in {None, "running", "degraded"}
      /\ verdict' \in Verdicts
  <2> USE DEF HealthInv, TypeOK, Statuses, Verdicts
  <2> DEFINE Goal == /\ status' \in Statuses
                     /\ startCallback' \in {"due", "called", "late"}
                     /\ flag' \in Flags /\ listening' \in Flags
                     /\ phase' \in {"idle", "connecting", "requesting"}
                     /\ option' \in Flags
                     /\ connection' \in {"none", "open", "lost"}
                     /\ asked' \in BOOLEAN
                     /\ answer' \in {None, "running", "degraded"}
                     /\ verdict' \in Verdicts
  <2>1. ASSUME NEW f \in Flags,
               BootRefused(f) \/ \E file \in Files : Boot(f, file)
        PROVE  Goal
    BY <2>1 DEF Boot, BootRefused, NewServer, checkVars
  <2>2. CASE Started
    BY <2>2, PortsOfFlags DEF Started, checkVars, Flags
  <2>3. CASE Shutdown \/ Exit
    BY <2>3 DEF Shutdown, Exit, EndConnection, Flags
  <2>4. CASE HandleInfo
    BY <2>4 DEF HandleInfo, AnswerInfo, DerivedStatus, ChannelInv
  <2>5. ASSUME NEW f \in Flags, StartCheck(f) PROVE Goal
    BY <2>5 DEF StartCheck, serverVars
  <2>6. CASE Connected
    BY <2>6 DEF Connected, serverVars
  <2>7. CASE ConnectRefused \/ Answered \/ ConnectionLost \/ CheckTimer
    BY <2>7 DEF ConnectRefused, Answered, ConnectionLost, CheckTimer, ConnectTimesOut,
                RequestTimesOut, ExitWith, serverVars
  <2>8. CASE Tick
    BY <2>8 DEF Tick
  <2>9. CASE UNCHANGED <<status, startCallback, flag, listening, checkVars>>
    BY <2>9 DEF checkVars
  <2>10. CASE (\E file \in Files : Reload(file)) \/ RefusedReload \/ GetStatus
    BY <2>9, <2>10 DEF Reload, RefusedReload, GetStatus
  <2> QED
    BY <2>1, <2>2, <2>3, <2>4, <2>5, <2>6, <2>7, <2>8, <2>9, <2>10
       DEF Next, ServerStep, CheckStep, vars, serverVars
<1>2. devices' \in [Keys -> {"none", "connected", "error"}]
  <2>1. CASE UNCHANGED devices
    BY <2>1 DEF HealthInv, TypeOK
  <2>2. ASSUME NEW f \in Flags, NEW file \in Files, Boot(f, file)
        PROVE  devices' \in [Keys -> {"none", "connected", "error"}]
    BY <2>2 DEF Boot, DevicesAfter
  <2>3. ASSUME NEW file \in Files, Reload(file)
        PROVE  devices' \in [Keys -> {"none", "connected", "error"}]
    BY <2>3 DEF Reload, DevicesAfter
  <2>4. CASE Exit
    BY <2>4 DEF Exit
  <2> QED
    BY <2>1, <2>2, <2>3, <2>4
       DEF Next, ServerStep, CheckStep, BootRefused, Started, Shutdown, RefusedReload, GetStatus,
           HandleInfo, StartCheck, Connected, ConnectRefused, Answered, ConnectionLost,
           CheckTimer, ConnectTimesOut, RequestTimesOut, ExitWith, Tick, vars, serverVars,
           metricsVars
<1>3. seen' \subseteq {"running", "degraded", "down"}
  <2>1. CASE UNCHANGED seen
    BY <2>1 DEF HealthInv, TypeOK
  <2>2. CASE Observe
    <3>1. Condition' \in {"running", "degraded", "down"}
      BY <1>1, ChannelStep DEF Condition, DocumentedStatus, ChannelInv, Statuses
    <3> QED
      BY <2>2, <3>1 DEF Observe, HealthInv, TypeOK
  <2> QED
    BY <2>1, <2>2 DEF Next, vars
<1> QED
  BY <1>1, <1>2, <1>3, ErrorsStep, TimeStep DEF TypeOK, ErrorsOK

-----------------------------------------------------------------------------
(* What a check has seen.                                                  *)

LEMMA SeenStep == ASSUME HealthInv, [Next]_vars PROVE SeenInv'
<1> USE HealthAssumption DEF HealthInv, SeenInv, TypeOK
<1>1. CASE UNCHANGED vars
  BY <1>1 DEF vars, serverVars, metricsVars, checkVars, Condition, DocumentedStatus,
              HasDeviceInError, Recent, TargetPort
<1>2. CASE Next
  <2>1. phase' # "idle" => Condition' \in seen'
    BY <1>2 DEF Next, Observe
  <2>2. phase # "idle" => (phase' # "idle" => seen \subseteq seen')
    BY <1>2 DEF Next, Observe
  <2>3. ASSUME NEW f \in Flags, StartCheck(f) PROVE SeenInv'
    BY <2>1, <2>3 DEF StartCheck
  <2>4. CASE ConnectRefused \/ Answered \/ ConnectionLost \/ CheckTimer
    BY <2>4 DEF ConnectRefused, Answered, ConnectionLost, CheckTimer, ConnectTimesOut,
                RequestTimesOut, ExitWith
  <2>5. CASE Connected
    BY <2>1, <2>2, <2>5 DEF Connected, ChannelInv
  <2>6. CASE HandleInfo
    <3>1. ASSUME phase # "idle" PROVE answer' \in seen
      <4>1. status = "running" /\ listening = TargetPort(option) /\ listening # None
        BY <2>6, PortsOfFlags DEF HandleInfo, AnswerInfo, ChannelInv
      <4>2. Condition = DocumentedStatus
        BY <4>1 DEF Condition
      <4>3. Recent(recent) = Recent(1..recorded)
        BY DEF Recent, WindowIsKept
      <4>4. DerivedStatus = DocumentedStatus
        BY <4>3 DEF DerivedStatus, DocumentedStatus, HasRecentErrorBurst
      <4> QED
        BY <2>6, <3>1, <4>2, <4>4 DEF HandleInfo, AnswerInfo
    <3> QED
      BY <2>1, <2>2, <2>6, <3>1 DEF HandleInfo
  <2>7. CASE Shutdown \/ Exit
    <3>1. Condition' = "down"
      BY <2>7 DEF Shutdown, Exit, Condition
    <3> QED
      BY <2>1, <2>2, <2>7, <3>1 DEF Shutdown, Exit, EndConnection
  <2>8. CASE UNCHANGED <<phase, connection, answer, verdict>>
    BY <2>1, <2>2, <2>8
  <2>9. CASE Tick \/ Started
              \/ (\E f \in Flags : BootRefused(f) \/ \E file \in Files : Boot(f, file))
              \/ (\E file \in Files : Reload(file)) \/ RefusedReload \/ GetStatus
    BY <2>8, <2>9 DEF Tick, Started, Boot, BootRefused, NewServer, Reload, RefusedReload, GetStatus, checkVars
  <2> QED
    BY <1>2, <2>3, <2>4, <2>5, <2>6, <2>7, <2>9 DEF Next, ServerStep, CheckStep
<1> QED
  BY <1>1, <1>2

LEMMA HealthInvStep == HealthInv /\ [Next]_vars => HealthInv'
BY ErrorsStep, ChannelStep, TimeStep, TypeStep, SeenStep DEF HealthInv

LEMMA HealthInvariant == Spec => []HealthInv
BY HealthInit, HealthInvStep, PTL DEF Spec

(* Every variable keeps its type: no answer and no observation is of any   *)
(* server but a running one, and no timer runs past its end.               *)
THEOREM HealthIsWellTyped == Spec => []TypeOK
<1>1. HealthInv => TypeOK
  BY DEF HealthInv
<1> QED
  BY <1>1, HealthInvariant, PTL

(* The status derived from the timestamps that were kept is the one that   *)
(* README.md describes, whenever it was last asked for.                    *)
THEOREM DegradedIsAsDocumented == Spec => []DegradedAsDocumented
<1>1. HealthInv => DegradedAsDocumented
  <2> SUFFICES ASSUME HealthInv PROVE DerivedStatus = DocumentedStatus
    BY DEF DegradedAsDocumented
  <2>1. Recent(recent) = Recent(1..recorded)
    BY DEF HealthInv, TypeOK, Recent, WindowIsKept
  <2> QED
    BY <2>1 DEF DerivedStatus, DocumentedStatus, HasRecentErrorBurst
<1> QED
  BY <1>1, HealthInvariant, PTL

(* A check takes no longer than --timeout twice, whatever the server does. *)
THEOREM ChecksAlwaysEndInTime == Spec => []ChecksEndInTime
<1>1. HealthInv => ChecksEndInTime
  BY DEF HealthInv, TimeInv, ChecksEndInTime
<1> QED
  BY <1>1, HealthInvariant, PTL

-----------------------------------------------------------------------------
LEMMA VerdictStep ==
  ASSUME PortsAgree, HealthInv, VerdictHasItsCause, [Next]_vars
  PROVE  VerdictHasItsCause'
<1> USE HealthAssumption DEF VerdictHasItsCause, CommandsFindTheServer
<1>1. CASE UNCHANGED vars
  BY <1>1 DEF vars, checkVars
<1>2. CASE Next
  <2>1. phase' = "idle" => seen' = seen
    BY <1>2 DEF Next, Observe
  <2>2. CASE ConnectRefused
    <3>1. Condition \in seen
      BY <2>2 DEF ConnectRefused, HealthInv, SeenInv
    <3>2. Condition = "down"
      BY <2>2 DEF ConnectRefused, HealthInv, TypeOK, ChannelInv, Condition, PortsAgree
    <3> QED
      BY <2>1, <2>2, <3>1, <3>2 DEF ConnectRefused, ExitWith
  <2>3. CASE ConnectTimesOut \/ RequestTimesOut
    BY <2>3 DEF ConnectTimesOut, RequestTimesOut, ExitWith
  <2>4. CASE Answered
    BY <2>1, <2>4 DEF Answered, ExitWith, HealthInv, SeenInv, TypeOK
  <2>5. CASE ConnectionLost
    BY <2>1, <2>5 DEF ConnectionLost, ExitWith, HealthInv, SeenInv
  <2>6. ASSUME NEW f \in Flags, StartCheck(f) PROVE VerdictHasItsCause'
    BY <2>6 DEF StartCheck
  <2>7. CASE Connected
    BY <2>7 DEF Connected, HealthInv, SeenInv
  <2>8. CASE ServerStep \/ Tick
    <3>1. phase' = phase /\ verdict' = verdict /\ (phase = "idle" => spent' = spent)
      BY <2>8 DEF ServerStep, Boot, BootRefused, NewServer, Reload, RefusedReload, GetStatus, Started, Shutdown, Exit,
                  EndConnection, HandleInfo, checkVars, Tick
    <3>2. CASE phase = "idle"
      BY <2>1, <3>1, <3>2
    <3>3. CASE phase # "idle"
      BY <3>1, <3>3 DEF HealthInv, SeenInv
    <3> QED
      BY <3>2, <3>3
  <2> QED
    BY <1>2, <2>2, <2>3, <2>4, <2>5, <2>6, <2>7, <2>8 DEF Next, CheckStep, CheckTimer
<1> QED
  BY <1>1, <1>2

(* Where server and command work out the same port, which they do without  *)
(* a PORT in .env, an exit code is about a server that was in that         *)
(* condition during the check.                                             *)
THEOREM VerdictAlwaysHasItsCause ==
  ASSUME PortsAgree PROVE Spec => []VerdictHasItsCause
<1>1. Init => VerdictHasItsCause
  BY DEF Init, VerdictHasItsCause, CommandsFindTheServer
<1>2. HealthInv /\ VerdictHasItsCause /\ [Next]_vars => VerdictHasItsCause'
  BY PortsAgree, VerdictStep
<1> QED
  BY <1>1, <1>2, HealthInvariant, PTL DEF Spec

(* They do when .env has no PORT, or the environment has one.              *)
LEMMA PortsAgreeWithoutDotEnv == DotEnvPort = None \/ EnvPort # None => PortsAgree
BY DEF PortsAgree, ServerPort, TargetPort, FirstOf

=============================================================================
