---------------------------- MODULE TagService ----------------------------
(***************************************************************************)
(* What the devices of devices.json promise to those who read tags, over   *)
(* OPC UA or with `get`: the tags of one configuration, each with the last *)
(* value written since that configuration took effect.  A new one takes    *)
(* effect at once and whole.  DeviceManager implements this as long as     *)
(* every file is sound and no removal fails.                               *)
(***************************************************************************)
EXTENDS DeviceConfigs

CONSTANTS
  Configs,  \* the configurations that may take effect
  NoValue   \* the value of a tag that is not there

VARIABLES
  config,   \* the configuration in effect
  value     \* the value of each tag

vars == <<config, value>>

Init ==
  /\ config = NoDevices
  /\ value = [n \in NodeIds |-> NoValue]

Apply(c) ==
  /\ config' = c
  /\ value' = [n \in NodeIds |-> InitialValue(c, n, NoValue)]

Write(n, v) ==
  /\ value[n] # NoValue
  /\ value' = [value EXCEPT ![n] = v]
  /\ UNCHANGED config

Next ==
  \/ \E c \in Configs : Apply(c)
  \/ \E n \in NodeIds, v \in Values : Write(n, v)

Spec == Init /\ [][Next]_vars

=============================================================================
