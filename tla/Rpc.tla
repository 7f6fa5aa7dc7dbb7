------------------------------- MODULE Rpc -------------------------------
(***************************************************************************)
(* What the control channel promises to a command that makes a request:    *)
(* the handler is called at most once, an answer is what that one call     *)
(* came to, and the promise is settled at most once.  A request that is    *)
(* given up on, or whose connection is lost, may have been carried out all *)
(* the same, and may yet be.  ControlChannel implements this.              *)
(***************************************************************************)
CONSTANT Requests  \* the ids of the requests that may ever be made

VARIABLES
  handling,  \* what became of the one call of the handler
  outcome    \* what became of the promise

vars == <<handling, outcome>>

Init ==
  /\ handling = [id \in Requests |-> "none"]
  /\ outcome = [id \in Requests |-> "unused"]

Ask(id) ==
  /\ outcome[id] = "unused"
  /\ outcome' = [outcome EXCEPT ![id] = "pending"]
  /\ UNCHANGED handling

Call(id) ==
  /\ outcome[id] # "unused"
  /\ handling[id] = "none"
  /\ handling' = [handling EXCEPT ![id] = "called"]
  /\ UNCHANGED outcome

Return(id, result) ==
  /\ handling[id] = "called"
  /\ handling' = [handling EXCEPT ![id] = result]
  /\ UNCHANGED outcome

Answer(id) ==
  /\ outcome[id] = "pending"
  /\ \/ handling[id] = "returned" /\ outcome' = [outcome EXCEPT ![id] = "ok"]
     \/ handling[id] = "threw" /\ outcome' = [outcome EXCEPT ![id] = "error"]
  /\ UNCHANGED handling

GiveUp(id) ==
  /\ outcome[id] = "pending"
  /\ outcome' = [outcome EXCEPT ![id] = "timeout"]
  /\ UNCHANGED handling

Lose(ids) ==
  /\ \A id \in ids : outcome[id] = "pending"
  /\ outcome' = [id \in Requests |-> IF id \in ids THEN "closed" ELSE outcome[id]]
  /\ UNCHANGED handling

Next ==
  \/ \E id \in Requests :
       \/ Ask(id) \/ Call(id) \/ Answer(id) \/ GiveUp(id)
       \/ \E result \in {"returned", "threw"} : Return(id, result)
  \/ \E ids \in SUBSET Requests : Lose(ids)

Spec == Init /\ [][Next]_vars

=============================================================================
