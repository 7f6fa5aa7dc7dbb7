----------------------- MODULE ServerLifecycleProofs -----------------------
(***************************************************************************)
(* What is proved of the server processes, for any number of them and any  *)
(* errors that escape: who reaches the control channel finds the device    *)
(* manager, a shutdown is complete, an exit code has its cause, every      *)
(* fatal error is counted, and a server is found at the path of its port   *)
(* when servers run one after the other.                                   *)
(***************************************************************************)
EXTENDS ServerLifecycle, FiniteSetTheorems, TLAPS

Cause(p, code) == IF code = SUCCESS THEN signalled[p] = TRUE ELSE code \in escaped[p]

(* How far a process came tells what it has.                               *)
BootInv ==
  \A p \in Processes :
    /\ boot[p] \in {"starting", "done"} => built[p] = TRUE
    /\ boot[p] # "done" => control[p] = "off"
    /\ shutdownAt[p] = "done" => boot[p] = "done"
    /\ process[p] = "new" => boot[p] = "new"

(* What the closure given to shutdown() exits with has its cause.          *)
ExitInv ==
  \A p \in Processes :
    /\ forceTimer[p] = TRUE => Cause(p, exitWith[p])
    /\ exitCode[p] # None => Cause(p, exitCode[p])

(* No process is started at first.                                         *)
LEMMA TypeInit == Init => TypeOK
BY DEF Init, TypeOK

(* Each part of an action keeps its types.                                 *)
LEMMA TypeStep == TypeOK /\ [Next]_vars => TypeOK'
<1> SUFFICES ASSUME TypeOK, [Next]_vars PROVE TypeOK'
  OBVIOUS
<1> USE LifecycleAssumption
<1>1. ASSUME NEW p \in Processes, NEW code \in 0..7, NEW recorded \in Nat,
             Shutdown(p, code, recorded), UNCHANGED path
      PROVE  /\ process' \in [Processes -> {"new", "alive", "exited", "killed"}]
             /\ status' \in [Processes -> {"starting", "running", "stopping", "stopped"}]
             /\ errors' \in [Processes -> Nat]
             /\ watching' \in [Processes -> BOOLEAN]
             /\ control' \in [Processes -> {"off", "listening", "closing"}]
             /\ heartbeat' \in [Processes -> BOOLEAN]
             /\ shutdownAt' \in [Processes -> {None, "new", "initializing",
                                               "starting", "done", "failed"}]
             /\ exitWith' \in [Processes -> 0..7 \cup {None}]
             /\ forceTimer' \in [Processes -> BOOLEAN]
             /\ exitCode' \in [Processes -> 0..7 \cup {None}]
             /\ port' \in Processes \cup {None}
             /\ failed' \in [Processes -> BOOLEAN]
  <2>1. /\ watching' \in [Processes -> BOOLEAN]
        /\ control' \in [Processes -> {"off", "listening", "closing"}]
        /\ heartbeat' \in [Processes -> BOOLEAN]
    BY <1>1 DEF TypeOK, Shutdown, CleanupResources
  <2>2. /\ shutdownAt' \in [Processes -> {None, "new", "initializing",
                                          "starting", "done", "failed"}]
        /\ exitWith' \in [Processes -> 0..7 \cup {None}]
    BY <1>1 DEF TypeOK, Shutdown
  <2>3. CASE ShutdownThrows(p, code, recorded)
    <3>1. /\ process' \in [Processes -> {"new", "alive", "exited", "killed"}]
          /\ exitCode' \in [Processes -> 0..7 \cup {None}]
          /\ port' \in Processes \cup {None}
      BY <2>3 DEF TypeOK, ShutdownThrows, Exit, Ends
    <3>2. recorded + 1 \in Nat /\ \A n \in Nat : n + recorded + 1 \in Nat
      OBVIOUS
    <3>3. errors' \in [Processes -> Nat]
      BY <2>3, <3>2 DEF TypeOK, ShutdownThrows
    <3>4. /\ status' \in [Processes -> {"starting", "running", "stopping", "stopped"}]
          /\ failed' \in [Processes -> BOOLEAN]
          /\ forceTimer' \in [Processes -> BOOLEAN]
      BY <2>3 DEF TypeOK, ShutdownThrows
    <3> QED
      BY <2>1, <2>2, <3>1, <3>3, <3>4
  <2>4. CASE ShutdownBegins(p, recorded)
    BY <2>1, <2>2, <2>4 DEF TypeOK, ShutdownBegins
  <2> QED
    BY <1>1, <2>3, <2>4 DEF Shutdown
<1>2. ASSUME NEW p \in Processes, NEW recorded \in Nat, ShutdownIgnored(p, recorded)
      PROVE  errors' \in [Processes -> Nat]
  BY <1>2 DEF TypeOK, ShutdownIgnored
<1>3. ASSUME NEW p \in Processes, NEW code \in FatalCodes, NEW watched \in BOOLEAN,
             HandleFatalError(p, code, watched),
             boot' \in [Processes -> {"new", "initializing", "starting", "done", "failed"}],
             built' \in [Processes -> BOOLEAN]
      PROVE  TypeOK'
  <2>1. PICK recorded \in {0, 1} :
          \/ Shutdown(p, code, recorded)
          \/ /\ ShutdownIgnored(p, recorded)
             /\ watching' = [watching EXCEPT ![p] = watched]
    BY <1>3 DEF HandleFatalError
  <2>2. escaped' \in [Processes -> SUBSET FatalCodes]
    BY <1>3 DEF HandleFatalError, TypeOK
  <2>3. UNCHANGED <<signalled, path>>
    BY <1>3 DEF HandleFatalError
  <2>4. CASE Shutdown(p, code, recorded)
    <3>1. code \in 0..7 /\ recorded \in Nat /\ UNCHANGED path
      BY <2>1, <2>3
    <3> QED
      BY <1>1, <1>3, <2>2, <2>3, <2>4, <3>1 DEF TypeOK
  <2>5. CASE /\ ShutdownIgnored(p, recorded)
             /\ watching' = [watching EXCEPT ![p] = watched]
    <3>1. errors' \in [Processes -> Nat]
      BY <1>2, <2>5
    <3> QED
      BY <3>1, <1>3, <2>2, <2>3, <2>5 DEF TypeOK, ShutdownIgnored
  <2> QED
    BY <2>1, <2>4, <2>5
<1>4. ASSUME NEW p \in Processes, Signal(p)
      PROVE  TypeOK'
  <2>1. signalled' \in [Processes -> BOOLEAN] /\ UNCHANGED <<boot, built, path, escaped>>
    BY <1>4 DEF Signal, TypeOK
  <2>2. CASE Shutdown(p, SUCCESS, 0)
    <3>1. SUCCESS \in 0..7
      BY DEF SUCCESS
    <3> QED
      BY <1>1, <2>1, <2>2, <3>1 DEF TypeOK
  <2>3. CASE ShutdownIgnored(p, 0) /\ UNCHANGED watching
    <3>1. errors' \in [Processes -> Nat]
      BY <1>2, <2>3
    <3> QED
      BY <3>1, <2>1, <2>3 DEF TypeOK, ShutdownIgnored
  <2> QED
    BY <1>4, <2>2, <2>3 DEF Signal
<1>5. ASSUME NEW p \in Processes, NEW code \in FatalCodes,
             BuildFails(p, code) \/ FatalError(p, code)
      PROVE  TypeOK'
  <2>1. CASE BuildFails(p, code)
    <3>1. PICK managed \in BOOLEAN, watched \in BOOLEAN :
            /\ built' = [built EXCEPT ![p] = managed]
            /\ HandleFatalError(p, code, watched)
      BY <2>1 DEF BuildFails
    <3>2. boot' = [boot EXCEPT ![p] = "failed"]
      BY <2>1 DEF BuildFails
    <3>3. /\ boot' \in [Processes -> {"new", "initializing", "starting", "done", "failed"}]
          /\ built' \in [Processes -> BOOLEAN]
      BY <3>1, <3>2 DEF TypeOK
    <3> QED
      BY <1>3, <3>1, <3>3
  <2>2. CASE FatalError(p, code)
    <3>1. watching[p] \in BOOLEAN
      BY DEF TypeOK
    <3>2. HandleFatalError(p, code, watching[p]) /\ UNCHANGED <<boot, built>>
      BY <2>2 DEF FatalError
    <3>3. /\ boot' \in [Processes -> {"new", "initializing", "starting", "done", "failed"}]
          /\ built' \in [Processes -> BOOLEAN]
      BY <3>2 DEF TypeOK
    <3> QED
      BY <1>3, <3>1, <3>2, <3>3
  <2> QED
    BY <1>5, <2>1, <2>2
<1>6. ASSUME NEW p \in Processes, Start(p) \/ Initialized(p) \/ ControlClosed(p) \/ Kill(p)
      PROVE  TypeOK'
  <2>1. CASE Start(p)
    BY <2>1 DEF TypeOK, Start, managerVars, historyVars
  <2>2. CASE Initialized(p)
    BY <2>2 DEF TypeOK, Initialized, historyVars
  <2>3. CASE ControlClosed(p)
    BY <2>3 DEF TypeOK, ControlClosed, historyVars
  <2>4. CASE Kill(p)
    BY <2>4 DEF TypeOK, Kill, Ends, managerVars, historyVars
  <2> QED
    BY <1>6, <2>1, <2>2, <2>3, <2>4
<1>7. ASSUME NEW p \in Processes, NEW bound \in BOOLEAN, Started(p, bound)
      PROVE  TypeOK'
  BY <1>7 DEF TypeOK, Started, ListenOnPath, historyVars
<1>8. ASSUME NEW p \in Processes, ShutdownDone(p) \/ ForceExit(p)
      PROVE  TypeOK'
  <2>1. /\ process' \in [Processes -> {"new", "alive", "exited", "killed"}]
        /\ exitCode' \in [Processes -> 0..7 \cup {None}]
        /\ port' \in Processes \cup {None}
    BY <1>8 DEF TypeOK, ShutdownDone, ForceExit, Exit, Ends
  <2>2. CASE ShutdownDone(p)
    BY <2>1, <2>2 DEF TypeOK, ShutdownDone, managerVars, historyVars
  <2>3. CASE ForceExit(p)
    BY <2>1, <2>3 DEF TypeOK, ForceExit, managerVars, historyVars
  <2> QED
    BY <1>8, <2>2, <2>3
<1>9. CASE UNCHANGED vars
  BY <1>9 DEF TypeOK, vars, managerVars, historyVars
<1> QED
  BY <1>4, <1>5, <1>6, <1>7, <1>8, <1>9 DEF Next

-----------------------------------------------------------------------------
(* A process that is not started has nothing, and was not shut down.       *)
LEMMA BootInit == Init => BootInv /\ ShutdownIsComplete
<1> SUFFICES ASSUME Init PROVE BootInv /\ ShutdownIsComplete
  OBVIOUS
<1>1. None # "done"
  BY LifecycleAssumption
<1>2. \A p \in Processes :
        /\ process[p] = "new" /\ boot[p] = "new" /\ control[p] = "off"
        /\ shutdownAt[p] # "done"
  BY <1>1 DEF Init
<1> QED
  BY <1>2 DEF BootInv, ShutdownIsComplete

(* Each step of a process keeps what its stage tells, and what a shutdown   *)
(* stopped stays stopped.                                                  *)
LEMMA BootStep ==
  TypeOK /\ BootInv /\ ShutdownIsComplete /\ [Next]_vars
    => BootInv' /\ ShutdownIsComplete'
<1> SUFFICES ASSUME TypeOK, BootInv, ShutdownIsComplete, [Next]_vars
             PROVE  BootInv' /\ ShutdownIsComplete'
  OBVIOUS
<1> USE LifecycleAssumption
<1> USE DEF TypeOK, BootInv, ShutdownIsComplete
<1> DEFINE Continues(p) ==
             \/ UNCHANGED <<boot, built>>
             \/ /\ boot[p] = "initializing" /\ boot' = [boot EXCEPT ![p] = "failed"]
                /\ \E managed \in BOOLEAN : built' = [built EXCEPT ![p] = managed]
<1>1. ASSUME NEW p \in Processes, NEW code, NEW recorded, Shutdown(p, code, recorded),
             Continues(p)
      PROVE  BootInv' /\ ShutdownIsComplete'
  <2>1. process' \in {process, [process EXCEPT ![p] = "exited"]}
    BY <1>1 DEF Shutdown, ShutdownThrows, ShutdownBegins, Exit, Ends
  <2>2. status' \in {[status EXCEPT ![p] = "stopping"], [status EXCEPT ![p] = "stopped"]}
    BY <1>1 DEF Shutdown, ShutdownThrows, ShutdownBegins
  <2>3. BootInv'
    BY <1>1, <2>1 DEF Shutdown, CleanupResources
  <2>4. ShutdownIsComplete'
    BY <1>1, <2>2 DEF Shutdown, CleanupResources
  <2> QED
    BY <2>3, <2>4
<1>2. ASSUME NEW p \in Processes, NEW recorded, ShutdownIgnored(p, recorded),
             Continues(p),
             \/ UNCHANGED watching
             \/ /\ \E watched \in BOOLEAN : watching' = [watching EXCEPT ![p] = watched]
                /\ boot[p] = "initializing"
      PROVE  BootInv' /\ ShutdownIsComplete'
  BY <1>2 DEF ShutdownIgnored
<1>3. ASSUME NEW p \in Processes, Signal(p)
      PROVE  BootInv' /\ ShutdownIsComplete'
  BY <1>1, <1>2, <1>3 DEF Signal
<1>4. ASSUME NEW p \in Processes, NEW code \in FatalCodes,
             BuildFails(p, code) \/ FatalError(p, code)
      PROVE  BootInv' /\ ShutdownIsComplete'
  <2>1. Continues(p)
    BY <1>4 DEF BuildFails, FatalError
  <2>2. PICK recorded \in {0, 1} :
          \/ Shutdown(p, code, recorded)
          \/ /\ ShutdownIgnored(p, recorded)
             /\ \/ UNCHANGED watching
                \/ /\ \E watched \in BOOLEAN : watching' = [watching EXCEPT ![p] = watched]
                   /\ boot[p] = "initializing"
    BY <1>4 DEF BuildFails, FatalError, HandleFatalError
  <2> QED
    BY <1>1, <1>2, <2>1, <2>2
<1>5. ASSUME NEW p \in Processes, Start(p)
      PROVE  BootInv' /\ ShutdownIsComplete'
  BY <1>5 DEF Start, managerVars
<1>6. ASSUME NEW p \in Processes, Initialized(p)
      PROVE  BootInv' /\ ShutdownIsComplete'
  BY <1>6 DEF Initialized, Alive
<1>7. ASSUME NEW p \in Processes, NEW bound \in BOOLEAN, Started(p, bound)
      PROVE  BootInv' /\ ShutdownIsComplete'
  <2>1. control' \in {control, [control EXCEPT ![p] = "listening"]}
    BY <1>7 DEF Started, ListenOnPath
  <2> QED
    BY <1>7, <2>1 DEF Started, Alive
<1>8. ASSUME NEW p \in Processes, ControlClosed(p)
      PROVE  BootInv' /\ ShutdownIsComplete'
  BY <1>8 DEF ControlClosed
<1>9. ASSUME NEW p \in Processes, ShutdownDone(p) \/ ForceExit(p) \/ Kill(p)
      PROVE  BootInv' /\ ShutdownIsComplete'
  BY <1>9 DEF ShutdownDone, ForceExit, Kill, Exit, Ends, managerVars
<1>10. CASE UNCHANGED vars
  BY <1>10 DEF vars, managerVars
<1> HIDE DEF TypeOK, BootInv, ShutdownIsComplete
<1> QED
  BY <1>3, <1>4, <1>5, <1>6, <1>7, <1>8, <1>9, <1>10 DEF Next

-----------------------------------------------------------------------------
(* No process has exited, or is about to, at first.                        *)
LEMMA CauseInit == Init => ExitInv
BY DEF Init, ExitInv

(* A cause that has come remains one.                                      *)
LEMMA CauseStays ==
  ASSUME TypeOK, NEW p \in Processes, NEW code, Cause(p, code),
         \/ UNCHANGED <<signalled, escaped>>
         \/ \E q \in Processes : /\ signalled' = [signalled EXCEPT ![q] = TRUE]
                                 /\ UNCHANGED escaped
         \/ \E q \in Processes, c \in FatalCodes :
              /\ escaped' = [escaped EXCEPT ![q] = @ \cup {c}]
              /\ UNCHANGED signalled
  PROVE  Cause(p, code)'
BY DEF Cause, TypeOK

(* The code an exit is given keeps its cause until the process exits.      *)
LEMMA CauseStep == TypeOK /\ ExitInv /\ [Next]_vars => ExitInv'
<1> SUFFICES ASSUME TypeOK, ExitInv, [Next]_vars PROVE ExitInv'
  OBVIOUS
<1>1. ASSUME NEW p \in Processes, NEW code, NEW recorded,
             Shutdown(p, code, recorded) \/ ShutdownIgnored(p, recorded),
             \A q \in Processes : \A c : Cause(q, c) => Cause(q, c)',
             Cause(p, code)'
      PROVE  ExitInv'
  <2>1. CASE Shutdown(p, code, recorded)
    <3>1. exitWith' = [exitWith EXCEPT ![p] = code]
      BY <2>1 DEF Shutdown
    <3>2. /\ forceTimer' \in {forceTimer, [forceTimer EXCEPT ![p] = TRUE]}
          /\ exitCode' \in {exitCode, [exitCode EXCEPT ![p] = code]}
      BY <2>1 DEF Shutdown, ShutdownThrows, ShutdownBegins, Exit
    <3> QED
      BY <1>1, <3>1, <3>2 DEF ExitInv, TypeOK
  <2>2. CASE ShutdownIgnored(p, recorded)
    BY <1>1, <2>2 DEF ShutdownIgnored, ExitInv
  <2> QED
    BY <1>1, <2>1, <2>2
<1>2. ASSUME NEW p \in Processes, Signal(p)
      PROVE  ExitInv'
  <2>1. signalled' = [signalled EXCEPT ![p] = TRUE] /\ UNCHANGED escaped
    BY <1>2 DEF Signal
  <2>2. \A q \in Processes : \A c : Cause(q, c) => Cause(q, c)'
    BY <2>1, CauseStays
  <2>3. Cause(p, SUCCESS)'
    BY <2>1 DEF Cause, TypeOK
  <2> QED
    BY <1>1, <1>2, <2>2, <2>3 DEF Signal
<1>3. ASSUME NEW p \in Processes, NEW code \in FatalCodes, NEW watched,
             HandleFatalError(p, code, watched)
      PROVE  ExitInv'
  <2>1. escaped' = [escaped EXCEPT ![p] = @ \cup {code}] /\ UNCHANGED signalled
    BY <1>3 DEF HandleFatalError
  <2>2. \A q \in Processes : \A c : Cause(q, c) => Cause(q, c)'
    BY <2>1, CauseStays
  <2>3. Cause(p, code)'
    BY <2>1, LifecycleAssumption DEF Cause, TypeOK, SUCCESS
  <2>4. PICK recorded \in {0, 1} :
          Shutdown(p, code, recorded) \/ ShutdownIgnored(p, recorded)
    BY <1>3 DEF HandleFatalError
  <2> QED
    BY <1>1, <2>2, <2>3, <2>4
<1>4. ASSUME NEW p \in Processes, ShutdownDone(p) \/ ForceExit(p)
      PROVE  ExitInv'
  <2>1. /\ forceTimer[p] = TRUE
        /\ forceTimer' = [forceTimer EXCEPT ![p] = FALSE]
        /\ exitCode' = [exitCode EXCEPT ![p] = exitWith[p]]
        /\ UNCHANGED <<exitWith, signalled, escaped>>
    BY <1>4 DEF ShutdownDone, ForceExit, Exit, historyVars
  <2> QED
    BY <2>1 DEF ExitInv, Cause, TypeOK
<1>5. ASSUME UNCHANGED <<exitWith, forceTimer, exitCode, historyVars>>
      PROVE  ExitInv'
  BY <1>5 DEF ExitInv, Cause, historyVars
<1>6. CASE UNCHANGED vars
  BY <1>5, <1>6 DEF vars
<1>7. ASSUME NEW p \in Processes,
             \/ Start(p) \/ Initialized(p) \/ ControlClosed(p) \/ Kill(p)
             \/ \E bound \in BOOLEAN : Started(p, bound)
      PROVE  ExitInv'
  BY <1>5, <1>7 DEF Start, Initialized, ControlClosed, Kill, Started
<1> QED
  BY <1>2, <1>3, <1>4, <1>6, <1>7 DEF Next, BuildFails, FatalError

-----------------------------------------------------------------------------
(* The metrics count what escaped, each error once.                        *)
LEMMA CountInit == Init => FatalErrorsAreCounted
<1> SUFFICES ASSUME Init, NEW p \in Processes
             PROVE  errors[p] = Cardinality(escaped[p] \ {UNKNOWN_ERROR})
                                  + (IF failed[p] THEN 1 ELSE 0)
  BY DEF FatalErrorsAreCounted
<1>1. escaped[p] \ {UNKNOWN_ERROR} = {} /\ errors[p] = 0 /\ failed[p] = FALSE
  BY DEF Init
<1> QED
  BY <1>1, FS_EmptySet

(* A shutdown that throws has not thrown before.                           *)
FailedInv ==
  \A p \in Processes : shutdownAt[p] = None => failed[p] = FALSE

Counted(p) == Cardinality(escaped[p] \ {UNKNOWN_ERROR})

Failures(p) == IF failed[p] = TRUE THEN 1 ELSE 0

(* The errors that escaped are finitely many: each has one of seven codes. *)
LEMMA CountedType ==
  ASSUME TypeOK, NEW p \in Processes
  PROVE  IsFiniteSet(escaped[p]) /\ Counted(p) \in Nat
<1>1. escaped[p] \in SUBSET (1..7) /\ escaped[p] \ {UNKNOWN_ERROR} \in SUBSET (1..7)
  BY LifecycleAssumption DEF TypeOK
<1>2. IsFiniteSet(1..7)
  <2>1. 1 \in Int /\ 7 \in Int
    OBVIOUS
  <2> QED
    BY <2>1, FS_Interval, Zenon
<1>3. IsFiniteSet(escaped[p]) /\ IsFiniteSet(escaped[p] \ {UNKNOWN_ERROR})
  BY <1>1, <1>2, FS_Subset, Zenon
<1> QED
  BY <1>3, FS_CardinalityType DEF Counted

(* The error that escapes is one more, unless it is only logged.           *)
LEMMA CountedStep ==
  ASSUME TypeOK, NEW p \in Processes, NEW code \in FatalCodes \ escaped[p],
         escaped' = [escaped EXCEPT ![p] = @ \cup {code}]
  PROVE  /\ Counted(p) \in Nat
         /\ Counted(p)' = Counted(p) + (IF code = UNKNOWN_ERROR THEN 0 ELSE 1)
         /\ \A q \in Processes \ {p} : Counted(q)' = Counted(q)
<1> DEFINE S == escaped[p] \ {UNKNOWN_ERROR}
<1>1. IsFiniteSet(escaped[p])
  BY CountedType
<1>2. IsFiniteSet(S)
  BY <1>1, FS_Subset, Zenon
<1>3. escaped[p]' = escaped[p] \cup {code}
  BY DEF TypeOK
<1>4. \A q \in Processes \ {p} : escaped[q]' = escaped[q]
  BY DEF TypeOK
<1>5. Counted(p) \in Nat
  BY CountedType
<1>6. CASE code = UNKNOWN_ERROR
  <2>1. (escaped[p] \ {UNKNOWN_ERROR})' = S
    BY <1>3, <1>6
  <2>2. Counted(p)' = Counted(p)
    BY <2>1 DEF Counted
  <2> QED
    BY <2>2, <1>4, <1>5, <1>6 DEF Counted
<1>7. CASE code # UNKNOWN_ERROR
  <2>1. (escaped[p] \ {UNKNOWN_ERROR})' = S \cup {code}
    BY <1>3, <1>7
  <2>2. code \notin S
    OBVIOUS
  <2>3. Cardinality(S \cup {code}) = Cardinality(S) + 1
    BY <1>2, <2>2, FS_AddElement
  <2>4. Counted(p)' = Counted(p) + 1
    BY <2>1, <2>3 DEF Counted
  <2> QED
    BY <2>4, <1>4, <1>5, <1>7 DEF Counted
<1> QED
  BY <1>6, <1>7, <1>5

(* Each step records the errors that it lets escape.                       *)
LEMMA CountStep ==
  TypeOK /\ FailedInv /\ FatalErrorsAreCounted /\ [Next]_vars
    => FailedInv' /\ FatalErrorsAreCounted'
<1> DEFINE Sum(p) == errors[p] = Counted(p) + Failures(p)
<1>0. FatalErrorsAreCounted <=> \A p \in Processes : Sum(p)
  BY DEF FatalErrorsAreCounted, Counted, Failures
<1> SUFFICES ASSUME TypeOK, FailedInv, \A p \in Processes : Sum(p), [Next]_vars
             PROVE  FailedInv' /\ \A p \in Processes : Sum(p)'
  <2>1. FatalErrorsAreCounted' <=> \A p \in Processes : Sum(p)'
    BY DEF FatalErrorsAreCounted, Counted, Failures
  <2> QED
    BY <1>0, <2>1
<1> HIDE DEF Sum
(* What a shutdown does to the metrics, and to what it must match.         *)
<1>1. ASSUME NEW p \in Processes, NEW code, NEW recorded \in {0, 1},
             Shutdown(p, code, recorded) \/ ShutdownIgnored(p, recorded)
      PROVE  /\ FailedInv'
             /\ errors' \in [Processes -> Nat]
             /\ \E d \in {0, 1} : /\ errors[p]' = errors[p] + recorded + d
                                 /\ Failures(p)' = Failures(p) + d
             /\ \A q \in Processes \ {p} :
                  errors[q]' = errors[q] /\ Failures(q)' = Failures(q)
  <2>1. errors[p] \in Nat /\ Failures(p) \in Nat
    BY DEF TypeOK, Failures
  <2>2. CASE ShutdownIgnored(p, recorded)
    <3>1. UNCHANGED <<shutdownAt, failed>> /\ errors' = [errors EXCEPT ![p] = @ + recorded]
      BY <2>2 DEF ShutdownIgnored
    <3>2. FailedInv' /\ \A q \in Processes : Failures(q)' = Failures(q)
      BY <3>1 DEF FailedInv, Failures
    <3>3. errors[p]' = errors[p] + recorded
          /\ \A q \in Processes \ {p} : errors[q]' = errors[q]
      BY <3>1 DEF TypeOK
    <3>4. errors[p] + recorded + 0 = errors[p] + recorded /\ Failures(p) + 0 = Failures(p)
      BY <2>1
    <3>5. errors' \in [Processes -> Nat]
      BY <3>1 DEF TypeOK
    <3> QED
      BY <3>2, <3>3, <3>4, <3>5
  <2>3. CASE Shutdown(p, code, recorded)
    <3>1. failed[p] = FALSE
      BY <2>3 DEF Shutdown, isShuttingDown, FailedInv
    <3>2. /\ shutdownAt' = [shutdownAt EXCEPT ![p] = boot[p]]
          /\ boot[p] # None
      BY <2>3, LifecycleAssumption DEF Shutdown, TypeOK
    <3>3. \/ /\ errors' = [errors EXCEPT ![p] = @ + recorded + 1]
             /\ failed' = [failed EXCEPT ![p] = TRUE]
          \/ /\ errors' = [errors EXCEPT ![p] = @ + recorded]
             /\ UNCHANGED failed
      BY <2>3 DEF Shutdown, ShutdownThrows, ShutdownBegins
    <3>4. FailedInv'
      BY <3>2, <3>3 DEF FailedInv, TypeOK
    <3>5. \/ errors[p]' = errors[p] + recorded + 1 /\ Failures(p)' = 1
          \/ errors[p]' = errors[p] + recorded /\ Failures(p)' = 0
      BY <3>1, <3>3 DEF TypeOK, Failures
    <3>6. Failures(p) = 0
      BY <3>1 DEF Failures
    <3>7. \A q \in Processes \ {p} : errors[q]' = errors[q] /\ Failures(q)' = Failures(q)
      BY <3>3 DEF TypeOK, Failures
    <3>8. \E d \in {0, 1} : /\ errors[p]' = errors[p] + recorded + d
                            /\ Failures(p)' = Failures(p) + d
      BY <2>1, <3>5, <3>6
    <3>9. errors' \in [Processes -> Nat]
      BY <3>3 DEF TypeOK
    <3> QED
      BY <3>4, <3>7, <3>8, <3>9
  <2> QED
    BY <1>1, <2>2, <2>3
<1>2. ASSUME NEW p \in Processes, Signal(p)
      PROVE  FailedInv' /\ \A q \in Processes : Sum(q)'
  <2>1. UNCHANGED escaped
    BY <1>2 DEF Signal
  <2>2. \A q \in Processes : Counted(q)' = Counted(q)
    BY <2>1 DEF Counted
  <2>3. Shutdown(p, SUCCESS, 0) \/ ShutdownIgnored(p, 0)
    BY <1>2 DEF Signal
  <2>4. 0 \in {0, 1}
    OBVIOUS
  <2>5. /\ FailedInv'
        /\ \E d \in {0, 1} : /\ errors[p]' = errors[p] + 0 + d
                            /\ Failures(p)' = Failures(p) + d
        /\ \A q \in Processes \ {p} : errors[q]' = errors[q] /\ Failures(q)' = Failures(q)
    BY <1>1, <2>3, <2>4
  <2>6. errors[p] \in Nat /\ Failures(p) \in Nat /\ Counted(p) \in Nat
    BY CountedType DEF Failures, TypeOK
  <2>7. Counted(p)' = Counted(p) /\ errors[p] = Counted(p) + Failures(p)
    BY <2>2 DEF Sum
  <2>8. Sum(p)'
    BY <2>5, <2>6, <2>7 DEF Sum
  <2>9. \A q \in Processes \ {p} : Sum(q)'
    BY <2>2, <2>5 DEF Sum
  <2> QED
    BY <2>5, <2>8, <2>9
<1>3. ASSUME NEW p \in Processes, NEW code \in FatalCodes, NEW watched,
             HandleFatalError(p, code, watched)
      PROVE  FailedInv' /\ \A q \in Processes : Sum(q)'
  <2> DEFINE recorded == IF code = UNKNOWN_ERROR THEN 0 ELSE 1
  <2>1. /\ Counted(p) \in Nat
        /\ Counted(p)' = Counted(p) + recorded
        /\ \A q \in Processes \ {p} : Counted(q)' = Counted(q)
    BY <1>3, CountedStep DEF HandleFatalError
  <2>2. recorded \in {0, 1}
    OBVIOUS
  <2>3. Shutdown(p, code, recorded) \/ ShutdownIgnored(p, recorded)
    BY <1>3 DEF HandleFatalError
  <2> HIDE DEF recorded
  <2>4. /\ FailedInv'
        /\ \E d \in {0, 1} : /\ errors[p]' = errors[p] + recorded + d
                            /\ Failures(p)' = Failures(p) + d
        /\ \A q \in Processes \ {p} : errors[q]' = errors[q] /\ Failures(q)' = Failures(q)
    BY <1>1, <2>2, <2>3
  <2>5. Failures(p) \in Nat
    BY DEF Failures
  <2>6. Sum(p)'
    BY <2>1, <2>2, <2>4, <2>5 DEF Sum
  <2>7. \A q \in Processes \ {p} : Sum(q)'
    BY <2>1, <2>4 DEF Sum
  <2> QED
    BY <2>4, <2>6, <2>7
<1>4. ASSUME UNCHANGED <<errors, shutdownAt, escaped, failed>>
      PROVE  FailedInv' /\ \A q \in Processes : Sum(q)'
  BY <1>4 DEF FailedInv, Sum, Counted, Failures
<1>5. ASSUME NEW p \in Processes,
             \/ Start(p) \/ Initialized(p) \/ ControlClosed(p) \/ Kill(p)
             \/ ShutdownDone(p) \/ ForceExit(p)
             \/ \E bound \in BOOLEAN : Started(p, bound)
      PROVE  FailedInv' /\ \A q \in Processes : Sum(q)'
  BY <1>4, <1>5 DEF Start, Initialized, ControlClosed, Kill, ShutdownDone, ForceExit,
                    Started, historyVars
<1>6. CASE UNCHANGED vars
  BY <1>4, <1>6 DEF vars, historyVars
<1> QED
  BY <1>2, <1>3, <1>5, <1>6 DEF Next, BuildFails, FatalError

-----------------------------------------------------------------------------
(* One server after the other: only one of them is alive, and a server     *)
(* that listens is at the path.                                            *)
PathInv ==
  /\ \A p, q \in Processes : Alive(p) /\ Alive(q) => p = q
  /\ ChannelIsAtThePath

(* No process is alive at first.                                           *)
LEMMA PathInit == Init => PathInv
BY DEF Init, PathInv, ChannelIsAtThePath, Alive

(* Only the server that starts to listen changes what the path names.      *)
LEMMA PathStep ==
  ASSUME ~Overlap, TypeOK, BootInv, PathInv, [Next]_vars
  PROVE  PathInv'
<1> USE DEF PathInv, ChannelIsAtThePath, Alive, TypeOK
<1>1. ASSUME NEW p \in Processes, NEW code, NEW recorded,
             Shutdown(p, code, recorded) \/ ShutdownIgnored(p, recorded),
             UNCHANGED path
      PROVE  PathInv'
  <2>1. process' \in {process, [process EXCEPT ![p] = "exited"]}
    BY <1>1 DEF Shutdown, ShutdownThrows, ShutdownBegins, Exit, Ends, ShutdownIgnored
  <2>2. control' \in {control, [control EXCEPT ![p] = "closing"]}
    BY <1>1 DEF Shutdown, CleanupResources, ShutdownIgnored
  <2> QED
    BY <1>1, <2>1, <2>2
<1>2. ASSUME NEW p \in Processes, Signal(p)
      PROVE  PathInv'
  BY <1>1, <1>2 DEF Signal
<1>3. ASSUME NEW p \in Processes, NEW code \in FatalCodes, NEW watched,
             HandleFatalError(p, code, watched)
      PROVE  PathInv'
  <2>1. UNCHANGED path
    BY <1>3 DEF HandleFatalError
  <2>2. PICK recorded \in {0, 1} :
          Shutdown(p, code, recorded) \/ ShutdownIgnored(p, recorded)
    BY <1>3 DEF HandleFatalError
  <2> QED
    BY <1>1, <2>1, <2>2
<1>4. ASSUME NEW p \in Processes, Start(p)
      PROVE  PathInv'
  <2>1. control[p] = "off"
    BY <1>4 DEF Start, BootInv
  <2> QED
    BY <1>4, <2>1 DEF Start, managerVars
<1>5. ASSUME NEW p \in Processes, NEW bound \in BOOLEAN, Started(p, bound)
      PROVE  PathInv'
  <2>1. control[p] = "off" /\ process[p] = "alive"
    BY <1>5 DEF Started, BootInv
  <2>2. control' = [control EXCEPT ![p] = "listening"] /\ path' = p /\ UNCHANGED process
    BY <1>5, <2>1 DEF Started, ListenOnPath
  <2> QED
    BY <2>1, <2>2
<1>6. ASSUME NEW p \in Processes, ControlClosed(p)
      PROVE  PathInv'
  BY <1>6 DEF ControlClosed
<1>7. ASSUME NEW p \in Processes, ShutdownDone(p) \/ ForceExit(p) \/ Kill(p)
      PROVE  PathInv'
  BY <1>7 DEF ShutdownDone, ForceExit, Kill, Exit, Ends, managerVars
<1>8. ASSUME NEW p \in Processes, Initialized(p)
      PROVE  PathInv'
  BY <1>8 DEF Initialized
<1>9. CASE UNCHANGED vars
  BY <1>9 DEF vars, managerVars
<1> HIDE DEF PathInv, TypeOK
<1> QED
  BY <1>2, <1>3, <1>4, <1>5, <1>6, <1>7, <1>8, <1>9 DEF Next, BuildFails, FatalError

-----------------------------------------------------------------------------
(* The state stays well typed.                                             *)
THEOREM LifecycleIsWellTyped == Spec => []TypeOK
<1> QED
  BY TypeInit, TypeStep, PTL DEF Spec

(* Both hold together: a shutdown is complete because of the stage at      *)
(* which it came.                                                          *)
LEMMA BootAlways == Spec => [](BootInv /\ ShutdownIsComplete)
<1>1. Spec => []TypeOK
  BY LifecycleIsWellTyped
<1> QED
  BY <1>1, BootInit, BootStep, PTL DEF Spec

(* Whoever reaches the control channel finds the device manager that       *)
(* buildAddressSpace made: the channel starts after it.                    *)
THEOREM HandlersAlwaysFindTheirManager == Spec => []HandlersFindTheirManager
<1>1. BootInv => HandlersFindTheirManager
  BY DEF BootInv, HandlersFindTheirManager
<1> QED
  BY <1>1, BootAlways, PTL

(* A server that had started is shut down as a whole: cleanupResources     *)
(* leaves no watcher, no heartbeat and no channel that takes clients, and  *)
(* nothing brings one back.                                                *)
THEOREM ShutdownIsAlwaysComplete == Spec => []ShutdownIsComplete
BY BootAlways, PTL

(* A process exits with success after a signal only, and else with the     *)
(* code of an error that escaped.                                          *)
THEOREM ExitCodeAlwaysHasItsCause == Spec => []ExitCodeHasItsCause
<1>1. Spec => []TypeOK
  BY LifecycleIsWellTyped
<1>2. ExitInv => ExitCodeHasItsCause
  BY DEF ExitInv, ExitCodeHasItsCause, Cause
<1> QED
  BY <1>1, <1>2, CauseInit, CauseStep, PTL DEF Spec

(* MetricsService counts each AppError that escaped, and the shutdown that *)
(* failed, once.                                                           *)
THEOREM FatalErrorsAreAlwaysCounted == Spec => []FatalErrorsAreCounted
<1>1. Spec => []TypeOK
  BY LifecycleIsWellTyped
<1>2. Init => FailedInv
  BY DEF Init, FailedInv
<1> QED
  BY <1>1, <1>2, CountInit, CountStep, PTL DEF Spec

(* When no server is started while another one is alive, the server that   *)
(* listens is the one the path of its port names, whatever a predecessor   *)
(* that was killed left there.                                             *)
THEOREM ChannelIsAlwaysAtThePath ==
  ASSUME ~Overlap
  PROVE  Spec => []ChannelIsAtThePath
<1>1. Spec => []TypeOK
  BY LifecycleIsWellTyped
<1>2. Spec => []BootInv
  BY BootAlways, PTL
<1>3. TypeOK /\ BootInv /\ PathInv /\ [Next]_vars => PathInv'
  BY PathStep
<1>4. PathInv => ChannelIsAtThePath
  BY DEF PathInv
<1> QED
  BY <1>1, <1>2, <1>3, <1>4, PathInit, PTL DEF Spec

=============================================================================
