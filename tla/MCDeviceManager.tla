-------------------------- MODULE MCDeviceManager --------------------------
(***************************************************************************)
(* Instances of DeviceManager for TLC: two devices over three nodeIds,     *)
(* and in the faulty files a third one whose key is empty.                 *)
(***************************************************************************)
EXTENDS DeviceManager, TLC

CONSTANTS d1, d2, t1, t2, t3, num, bool, off, on

Tag(n, ty) == [nodeId |-> n, type |-> ty, value |-> off]

File(tags1, tags2) ==
  [k \in Keys |-> IF k = d1 THEN tags1 ELSE IF k = d2 THEN tags2 ELSE NoDevice]

(* Sound files: a tag moves from one device to the other, changes its      *)
(* type, a device goes away and comes back.                                *)
SoundFiles == {
  File(<<Tag(t1, bool), Tag(t2, num)>>, <<Tag(t3, num)>>),
  File(<<Tag(t2, bool)>>, <<Tag(t3, num), Tag(t1, num)>>),
  File(NoDevice, <<Tag(t1, num), [Tag(t2, num) EXCEPT !.value = on]>>),
  NoDevices}

(* Files the schema accepts although devices share a tag's nodeId: the tag *)
(* is the last or the only one of its device, and a third device has the   *)
(* key "", where Keys allows for it.                                       *)
SharingFiles == {
  File(<<Tag(t1, bool), Tag(t2, num)>>, <<Tag(t3, num), Tag(t1, num)>>),
  [k \in Keys |-> CASE k = d1 -> <<Tag(t1, bool)>>
                    [] k = d2 -> <<[Tag(t1, bool) EXCEPT !.value = on]>>
                    [] k = Unnamed -> <<Tag(t2, num), Tag(t1, num)>>]}

(* t3 is then a nodeId that addVariable refuses.                           *)
FaultyFiles ==
  SharingFiles \cup
    {NoDevices, File(<<Tag(t1, num)>>, NoDevice),
     File(NoDevice, <<Tag(t1, num), [Tag(t2, num) EXCEPT !.value = on]>>)}

=============================================================================
