-------------------------- MODULE MCTagCommands --------------------------
(***************************************************************************)
(* An instance of TagCommands: two devices with a browse name in common,   *)
(* of which a reload takes one away and gives its nodeId to a tag of the   *)
(* other; an imported object with a variable that is supported and one     *)
(* that is not; and one with no variables.                                 *)
(***************************************************************************)
EXTENDS TagCommands

CONSTANTS
  plc1, plc2, trim, empty, other,  \* keys
  temp, level, state,              \* browse names
  n1, n2, n3, n4, n5               \* nodeIds

Tag(nodeId, name, threshold, value) ==
  [nodeId |-> nodeId, value |-> value, browseName |-> name,
   type |-> "float", changeThreshold |-> threshold]

Opaque(nodeId) ==
  [nodeId |-> nodeId, value |-> 0, browseName |-> temp,
   type |-> Unsupported, changeThreshold |-> 0]

MCConfigs ==
  {<<[key |-> plc1, tags |-> <<Tag(n1, temp, 1, 0), Tag(n2, level, 0, 1)>>],
     [key |-> plc2, tags |-> <<Tag(n3, temp, 1, 0)>>]>>,
   <<[key |-> plc2, tags |-> <<Tag(n1, level, 1, 1)>>]>>}

MCNodeset ==
  <<[key |-> trim, tags |-> <<Tag(n4, state, 1, 0), Opaque(n5)>>],
    [key |-> empty, tags |-> <<>>]>>

Line(device, nodeId, browseName, tags) ==
  [nodeId |-> nodeId, browseName |-> browseName, tags |-> tags, device |-> device]

(* The combinations of the options, and what they may be given.            *)
MCCommandLines ==
  {Line(d, n, b, t) : d \in {Unset, plc1}, n \in {Unset, n1},
                      b \in {Unset, temp}, t \in {Unset, <<level, temp>>}}
    \cup {Line(plc1, Unset, Unset, t) :
            t \in {<<temp, other>>, <<Blank, level>>, <<Blank, Blank>>}}
    \cup {Line(d, Unset, Unset, Unset) : d \in {trim, empty, other}}
    \cup {Line(Unset, n4, Unset, Unset), Line(Unset, Unset, level, Unset),
          Line(Unset, Blank, other, Unset), Line(Blank, n1, Unset, <<Blank>>)}

=============================================================================
