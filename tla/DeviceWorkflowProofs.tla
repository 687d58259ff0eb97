------------------------ MODULE DeviceWorkflowProofs ------------------------
(***************************************************************************)
(* What is proved of DeviceWorkflow for every set of devices and however   *)
(* often they are plugged and unplugged: the buttons are enabled for the   *)
(* device that is there, and a device is announced rooted when it is.      *)
(***************************************************************************)
EXTENDS DeviceWorkflow, TLAPS

LEMMA InitWfInv == WfInit => WfInv
<1> SUFFICES ASSUME WfInit PROVE WfInv
  OBVIOUS
<1>1. WfTypeOK
  <2>1. /\ plugged \in Devices \union {NoDevice} /\ template \in Devices \union {NoDevice}
        /\ rooted \in SUBSET Devices /\ secure \in SUBSET Devices /\ unrooting \in BOOLEAN
    BY DEF WfInit
  <2>2. hides \in 0..MaxHides /\ changes \in 0..MaxChanges /\ faults \in 0..MaxFaults
    BY LimitAssumption DEF WfInit
  <2>3. /\ server \in BOOLEAN /\ rootBtn \in BOOLEAN /\ collectBtn \in BOOLEAN /\ bar \in BOOLEAN
        /\ swapped \in BOOLEAN /\ unsure \in BOOLEAN /\ steady \in BOOLEAN
    BY DEF WfInit
  <2>4. pc = "idle" /\ claim = "nothing" /\ panel = "none"
    BY DEF WfInit
  <2> QED BY <2>1, <2>2, <2>3, <2>4 DEF WfTypeOK
<1>2. QueueInv /\ ConnectInv /\ RootInv
  BY DEF WfInit, QueueInv, ConnectInv, RootInv, RootSteps, Boxes
<1> QED BY <1>1, <1>2 DEF WfInv

(* The types, apart: what is true or false, and the rest.                  *)
Flags ==
  /\ server \in BOOLEAN /\ unrooting \in BOOLEAN /\ bar \in BOOLEAN
  /\ rootBtn \in BOOLEAN /\ collectBtn \in BOOLEAN
  /\ swapped \in BOOLEAN /\ unsure \in BOOLEAN /\ steady \in BOOLEAN

Values ==
  /\ plugged \in Devices \union {NoDevice} /\ template \in Devices \union {NoDevice}
  /\ rooted \in SUBSET Devices /\ secure \in SUBSET Devices
  /\ claim \in {"nothing", "absent", "notRooted", "already", "rooted"}
  /\ panel \in {"none", "root", "acquisition", "disconnect"}
  /\ pc \in {"idle"} \union Steps
  /\ hides \in 0..MaxHides /\ changes \in 0..MaxChanges /\ faults \in 0..MaxFaults

LEMMA TypesApart == WfTypeOK <=> Flags /\ Values
BY Zenon DEF WfTypeOK, Flags, Values

LEMMA InvTypes == WfInv => Flags /\ Values
BY TypesApart DEF WfInv

LEMMA TypesTogether == Flags' /\ Values' => WfTypeOK'
BY Zenon DEF WfTypeOK, Flags, Values

(* The bound of the failing calls.                                         *)
LEMMA FaultBound ==
  ASSUME WfInv, Fault \/ UNCHANGED faults
  PROVE  faults' \in 0..MaxFaults
<1>1. faults \in 0..MaxFaults
  BY Zenon DEF WfInv, WfTypeOK
<1> QED BY <1>1, LimitAssumption DEF Fault

(* What the looks answer.                                                  *)
LEMMA ConnectedAnswer ==
  ASSUME WfInv, NEW yes \in BOOLEAN, Connected(yes)
  PROVE  /\ server' \in BOOLEAN /\ (yes => server' = TRUE)
         /\ faults' \in 0..MaxFaults /\ UNCHANGED <<device, changes>>
         /\ yes /\ server => plugged # NoDevice
<1>1. UNCHANGED <<device, changes>>
  BY DEF Connected
<1>2. faults' \in 0..MaxFaults
  BY FaultBound, Zenon DEF Connected
<1>3. server' \in BOOLEAN /\ (yes => server' = TRUE)
  BY ZenonT(20) DEF Connected, WfInv, WfTypeOK
<1>4. yes /\ server => plugged # NoDevice
  BY DEF Connected
<1> QED BY <1>1, <1>2, <1>3, <1>4

LEMMA RootedAnswer ==
  ASSUME WfInv, NEW yes \in BOOLEAN, Rooted(yes)
  PROVE  /\ faults' \in 0..MaxFaults /\ UNCHANGED <<device, server, changes>>
         /\ yes => plugged \in rooted
         /\ LookFailed \/ (yes <=> plugged \in rooted)
BY LimitAssumption DEF Rooted, LookFailed, Fault, WfInv, WfTypeOK

LEMMA SetRootedRest ==
  ASSUME WfInv, NEW to \in SUBSET Devices, SetRooted(to)
  PROVE  /\ rooted' \in SUBSET Devices /\ UNCHANGED <<plugged, secure, swapped>>
         /\ unsure' \in BOOLEAN /\ steady' \in BOOLEAN
         /\ steady' => steady /\ rooted' = rooted
         /\ ~unsure' => ~unsure /\ rooted' = rooted
BY DEF SetRooted, WfInv, WfTypeOK

LEMMA HereIsDevice == WfInv => Here \subseteq Devices
BY DEF Here, WfInv, WfTypeOK

-----------------------------------------------------------------------------
(* The device by itself.                                                   *)

LEMMA ChangeInv ==
  ASSUME WfInv, Replug \/ SetSecure
  PROVE  WfInv'
<1>1. CASE Replug
  <2>1. plugged' \in Devices \union {NoDevice} /\ changes' \in 0..MaxChanges
    BY <1>1, LimitAssumption DEF Replug, Change, WfInv, WfTypeOK
  <2>2. UNCHANGED <<rooted, secure, unrooting, server, rootBtn, collectBtn, template, claim, panel, bar,
                    hides, pc, faults>> /\ swapped' = TRUE /\ unsure' = TRUE /\ steady' = FALSE
    BY <1>1 DEF Replug, buttons, progress
  <2>3. WfTypeOK'
    BY <2>1, <2>2 DEF WfInv, WfTypeOK
  <2>4. QueueInv' /\ ConnectInv' /\ RootInv'
    BY <2>2 DEF WfInv, QueueInv, ConnectInv, RootInv
  <2> QED BY <2>3, <2>4 DEF WfInv
<1>2. CASE SetSecure
  <2>1. secure' \in SUBSET Devices /\ changes' \in 0..MaxChanges
    BY <1>2, LimitAssumption DEF SetSecure, Change, WfInv, WfTypeOK
  <2>2. UNCHANGED <<plugged, rooted, unrooting, server, rootBtn, collectBtn, template, claim, panel, bar,
                    hides, pc, faults, swapped, unsure, steady>>
    BY <1>2 DEF SetSecure, buttons, progress, history
  <2>3. WfTypeOK'
    BY <2>1, <2>2 DEF WfInv, WfTypeOK
  <2>4. QueueInv' /\ ConnectInv' /\ RootInv'
    BY <2>2 DEF WfInv, QueueInv, ConnectInv, RootInv
  <2> QED BY <2>3, <2>4 DEF WfInv
<1> QED BY <1>1, <1>2

-----------------------------------------------------------------------------
(* The clicks.                                                             *)

LEMMA ClickInv ==
  ASSUME WfInv, Click
  PROVE  WfInv'
<1> USE DEF buttons, progress, bounds, history, device
<1>1. CASE ConnectDevice
  BY <1>1 DEF ConnectDevice, WfInv, WfTypeOK, QueueInv, ConnectInv, RootInv, Steps, RootSteps,
              Boxes, Announcing
<1>2. CASE RootDevice
  <2>1. PICK yes \in BOOLEAN : Rooted(yes) /\ collectBtn' = yes
    BY <1>2 DEF RootDevice
  <2>2. UNCHANGED <<rootBtn, template, claim, bar, hides, pc, swapped>>
        /\ panel' = "root" /\ unsure' = FALSE /\ steady' = (steady /\ ~LookFailed)
    BY <1>2 DEF RootDevice
  <2>3. steady' \in BOOLEAN /\ (steady' => steady /\ yes)
    BY <2>1, <2>2, RootedAnswer DEF WfInv, WfTypeOK, RootInv
  <2>4. WfTypeOK'
    <3>1. Flags'
      BY <2>1, <2>2, <2>3, RootedAnswer, InvTypes, Zenon DEF Flags
    <3>2. Values'
      BY <2>1, <2>2, RootedAnswer, InvTypes DEF Values
    <3> QED BY <3>1, <3>2, TypesTogether
  <2>5. QueueInv' /\ ConnectInv' /\ RootInv'
    BY <2>1, <2>2, <2>3, RootedAnswer DEF WfInv, QueueInv, ConnectInv, RootInv
  <2> QED BY <2>4, <2>5 DEF WfInv
<1>3. CASE CollectRawData
  BY <1>3 DEF CollectRawData, WfInv, WfTypeOK, QueueInv, ConnectInv, RootInv
<1>4. CASE Disconnect
  <2>1. PICK yes \in BOOLEAN : Rooted(yes) /\ pc' = IF yes THEN "unpatch" ELSE "idle"
    BY <1>4 DEF Disconnect
  <2>2. UNCHANGED <<rootBtn, collectBtn, template, claim, bar, hides, swapped, unsure, steady>>
        /\ panel' = "disconnect" /\ pc = "idle"
    BY <1>4 DEF Disconnect
  <2> QED BY <2>1, <2>2, RootedAnswer
             DEF WfInv, WfTypeOK, QueueInv, ConnectInv, RootInv, Steps, RootSteps, Boxes,
                 Announcing
<1>5. CASE Execute
  <2>1. pc = "idle" /\ hides < MaxHides /\ bar' = TRUE
        /\ UNCHANGED <<server, rootBtn, collectBtn, template, claim, panel, hides, changes,
                       faults>>
        /\ pc' \in {"install", "finish"}
    BY <1>5 DEF Execute
  <2>2. /\ rooted' \in SUBSET Devices /\ UNCHANGED <<plugged, secure, unrooting, swapped>>
        /\ unsure' \in BOOLEAN /\ steady' \in BOOLEAN
        /\ steady' => steady /\ rooted' = rooted
        /\ ~unsure' => ~unsure /\ rooted' = rooted
    <3>1. CASE UNCHANGED <<device, history>>
      BY <3>1 DEF WfInv, WfTypeOK
    <3>2. CASE SetRooted(rooted \union Here)
      <4>1. rooted \union Here \in SUBSET Devices
        BY HereIsDevice DEF WfInv, WfTypeOK
      <4>2. UNCHANGED unrooting
        BY <1>5 DEF Execute
      <4> QED BY <3>2, <4>1, <4>2, SetRootedRest
    <3> QED BY <1>5, <3>1, <3>2 DEF Execute
  <2> QED BY <2>1, <2>2 DEF WfInv, WfTypeOK, QueueInv, ConnectInv, RootInv, Steps, RootSteps,
                            Boxes, Announcing
<1> QED BY <1>1, <1>2, <1>3, <1>4, <1>5 DEF Click

-----------------------------------------------------------------------------
(* "Connect Device" and "Disconnect Device".                               *)

LEMMA ConnectStepInv ==
  ASSUME WfInv, ConnectStep
  PROVE  WfInv'
<1> USE DEF buttons, progress, bounds, history, device
<1>1. ASSUME Connected(FALSE), NotConnected PROVE WfInv'
  <2>1. server' \in BOOLEAN /\ faults' \in 0..MaxFaults /\ UNCHANGED <<device, changes>>
    BY <1>1, ConnectedAnswer
  <2>2. WfTypeOK'
    BY <1>1, <2>1 DEF NotConnected, WfInv, WfTypeOK
  <2>3. QueueInv' /\ ConnectInv' /\ RootInv'
    BY <1>1, <2>1 DEF NotConnected, WfInv, QueueInv, ConnectInv, RootInv, RootSteps, Boxes
  <2> QED BY <2>2, <2>3 DEF WfInv
<1>2. CASE LookFirst
  <2>1. CASE Connected(TRUE) /\ pc' = "again"
             /\ UNCHANGED <<buttons, template, claim, panel, progress, history>>
    <3>1. server' = TRUE /\ faults' \in 0..MaxFaults /\ UNCHANGED <<device, changes>>
      BY <2>1, ConnectedAnswer
    <3>2. WfTypeOK'
      BY <2>1, <3>1 DEF WfInv, WfTypeOK, Steps
    <3>3. QueueInv' /\ ConnectInv' /\ RootInv'
      BY <1>2, <2>1, <3>1 DEF LookFirst, WfInv, QueueInv, ConnectInv, RootInv, RootSteps, Boxes,
         Announcing
    <3> QED BY <3>2, <3>3 DEF WfInv
  <2> QED BY <1>1, <1>2, <2>1 DEF LookFirst
<1>3. CASE LookAgain
  <2>1. CASE Connected(TRUE) /\ pc' = "info" /\ swapped' = FALSE
             /\ UNCHANGED <<buttons, template, claim, panel, progress, unsure, steady>>
    <3>1. pc = "again" /\ plugged # NoDevice
      BY <1>3, <2>1, ConnectedAnswer DEF LookAgain, WfInv, ConnectInv
    <3>2. server' \in BOOLEAN /\ faults' \in 0..MaxFaults /\ UNCHANGED <<device, changes>>
      BY <2>1, ConnectedAnswer
    <3>3. WfTypeOK'
      <4>1. Flags'
        BY <2>1, <3>2, InvTypes, Zenon DEF Flags
      <4>2. Values'
        BY <2>1, <3>2, InvTypes DEF Values, Steps
      <4> QED BY <4>1, <4>2, TypesTogether
    <3>4. QueueInv' /\ ConnectInv' /\ RootInv'
      BY <2>1, <3>1, <3>2 DEF WfInv, QueueInv, ConnectInv, RootInv, RootSteps, Boxes, Announcing
    <3> QED BY <3>3, <3>4 DEF WfInv
  <2> QED BY <1>1, <1>3, <2>1 DEF LookAgain
<1>4. CASE ReadInfo
  <2>1. WfTypeOK'
    <3>1. faults' \in 0..MaxFaults
      BY <1>4, FaultBound DEF ReadInfo
    <3>2. Flags'
      BY <1>4, InvTypes, Zenon DEF ReadInfo, Flags
    <3>3. Values'
      BY <1>4, <3>1, InvTypes DEF ReadInfo, Values, Steps
    <3> QED BY <3>2, <3>3, TypesTogether
  <2>2. QueueInv' /\ ConnectInv' /\ RootInv'
    BY <1>4 DEF ReadInfo, WfInv, QueueInv, ConnectInv, RootInv, RootSteps, Boxes, Announcing
  <2> QED BY <2>1, <2>2 DEF WfInv
<1>5. CASE ConnectRooted
  <2>1. PICK yes \in BOOLEAN :
          Rooted(yes) /\ collectBtn' = yes /\ claim' = IF yes THEN "already" ELSE "notRooted"
    BY <1>5 DEF ConnectRooted
  <2>2. pc = "connectRoot" /\ pc' = "idle" /\ unsure' = FALSE
        /\ UNCHANGED <<rootBtn, template, panel, bar, hides, swapped, steady>>
    BY <1>5 DEF ConnectRooted
  <2>3. WfTypeOK'
    <3>1. Flags'
      BY <2>1, <2>2, RootedAnswer, InvTypes, Zenon DEF Flags
    <3>2. Values'
      BY <2>1, <2>2, RootedAnswer, InvTypes DEF Values
    <3> QED BY <3>1, <3>2, TypesTogether
  <2>4. QueueInv' /\ ConnectInv' /\ RootInv'
    BY <2>1, <2>2, RootedAnswer DEF WfInv, QueueInv, ConnectInv, RootInv, RootSteps, Boxes
  <2> QED BY <2>3, <2>4 DEF WfInv
<1> QED BY <1>2, <1>3, <1>4, <1>5 DEF ConnectStep

LEMMA RestoreStepInv ==
  ASSUME WfInv, RestoreStep
  PROVE  WfInv'
<1> USE DEF buttons, progress, bounds, history
<1>1. CASE RemoveKernelSecure
  BY <1>1 DEF RemoveKernelSecure, Here, WfInv, WfTypeOK, QueueInv, ConnectInv, RootInv, Steps,
              RootSteps, Boxes, Announcing
<1>2. CASE Unroot
  <2>1. rooted \ Here \in SUBSET Devices
    BY DEF WfInv, WfTypeOK
  <2>2. SetRooted(rooted \ Here) /\ pc = "unroot" /\ pc' = "idle" /\ unrooting' = TRUE
        /\ UNCHANGED <<server, buttons, template, claim, panel, progress, bounds>>
    BY <1>2 DEF Unroot
  <2> QED BY <2>1, <2>2, SetRootedRest DEF WfInv, WfTypeOK, QueueInv, ConnectInv, RootInv,
             Steps, RootSteps, Boxes, Announcing
<1> QED BY <1>1, <1>2 DEF RestoreStep

-----------------------------------------------------------------------------
(* rootDevice.                                                             *)

LEMMA RootStepInv ==
  ASSUME WfInv, RootStep
  PROVE  WfInv'
<1> USE DEF buttons, progress, bounds, history, device, rest
<1>1. CASE Install
  <2>1. pc = "install" /\ pc' \in {"restart", "finish"} /\ UNCHANGED <<server, rest, changes>>
    BY <1>1 DEF Install
  <2>2. faults' \in 0..MaxFaults
    BY <1>1, LimitAssumption DEF Install, Fault, WfInv, WfTypeOK
  <2>3. /\ rooted' \in SUBSET Devices /\ UNCHANGED <<plugged, secure, unrooting, swapped>>
        /\ unsure' \in BOOLEAN /\ steady' \in BOOLEAN
        /\ steady' => steady /\ rooted' = rooted
        /\ ~unsure' => ~unsure /\ rooted' = rooted
    <3>1. CASE UNCHANGED <<device, history>>
      BY <3>1 DEF WfInv, WfTypeOK
    <3>2. CASE SetRooted(rooted \union Here)
      <4>1. rooted \union Here \in SUBSET Devices
        BY HereIsDevice DEF WfInv, WfTypeOK
      <4>2. UNCHANGED unrooting
        BY <1>1 DEF Install
      <4> QED BY <3>2, <4>1, <4>2, SetRootedRest
    <3> QED BY <1>1, <3>1, <3>2 DEF Install
  <2> QED BY <2>1, <2>2, <2>3 DEF WfInv, WfTypeOK, QueueInv, ConnectInv, RootInv, Steps,
             RootSteps, Boxes, Announcing
<1>2. CASE RestartAdb \/ AnswerReconnect
  <2>1. /\ pc \in {"restart", "reconnect"} /\ pc' \in {"reconnect", "check"}
        /\ server' \in BOOLEAN /\ faults' \in 0..MaxFaults
        /\ UNCHANGED <<device, rest, changes, history>>
    <3>1. pc \in {"restart", "reconnect"} /\ pc' \in {"reconnect", "check"}
          /\ UNCHANGED <<device, rest, changes, history>>
      BY <1>2 DEF RestartAdb, AnswerReconnect
    <3>2. server' \in BOOLEAN
      BY <1>2, InvTypes, Zenon DEF RestartAdb, AnswerReconnect, KillAndStart, Flags
    <3>3. faults' \in 0..MaxFaults
      BY <1>2, FaultBound, Zenon DEF RestartAdb, AnswerReconnect, KillAndStart
    <3> QED BY <3>1, <3>2, <3>3
  <2>2. WfTypeOK'
    BY <2>1 DEF WfInv, WfTypeOK, Steps, RootSteps, Boxes
  <2>3. QueueInv' /\ ConnectInv' /\ RootInv'
    BY <2>1 DEF WfInv, QueueInv, ConnectInv, RootInv, RootSteps, Boxes, Announcing
  <2> QED BY <2>2, <2>3 DEF WfInv
<1>3. CASE CheckRooted
  <2>1. PICK yes \in BOOLEAN :
          Rooted(yes) /\ steady' = yes /\ pc' = IF yes THEN "prepare" ELSE "finish"
    BY <1>3 DEF CheckRooted
  <2>2. pc = "check" /\ UNCHANGED <<rest, swapped, unsure>>
    BY <1>3 DEF CheckRooted
  <2> QED BY <2>1, <2>2, RootedAnswer DEF WfInv, WfTypeOK, QueueInv, ConnectInv, RootInv,
             Steps, RootSteps, Boxes, Announcing
<1>4. CASE Prepare
  <2>1. PICK yes \in BOOLEAN : Connected(yes) /\ pc' = IF yes THEN "prepareRoot" ELSE "verify"
    BY <1>4 DEF Prepare
  <2>2. pc = "prepare" /\ UNCHANGED <<rest, history>>
    BY <1>4 DEF Prepare
  <2>3. server' \in BOOLEAN /\ faults' \in 0..MaxFaults /\ UNCHANGED <<device, changes>>
    BY <2>1, ConnectedAnswer
  <2>4. WfTypeOK'
    BY <2>1, <2>2, <2>3 DEF WfInv, WfTypeOK, Steps, RootSteps, Boxes
  <2>5. QueueInv' /\ ConnectInv' /\ RootInv'
    BY <2>1, <2>2, <2>3 DEF WfInv, QueueInv, ConnectInv, RootInv, RootSteps, Boxes, Announcing
  <2> QED BY <2>4, <2>5 DEF WfInv
<1>5. CASE PrepareRooted
  <2>1. PICK yes \in BOOLEAN : Rooted(yes) /\ pc' = IF yes THEN "kernel" ELSE "verify"
    BY <1>5 DEF PrepareRooted
  <2>2. pc = "prepareRoot" /\ UNCHANGED <<rest, swapped, unsure>>
        /\ steady' \in BOOLEAN /\ (steady' => steady)
    BY <1>5 DEF PrepareRooted, WfInv, WfTypeOK
  <2> QED BY <2>1, <2>2, RootedAnswer DEF WfInv, WfTypeOK, QueueInv, ConnectInv, RootInv,
             Steps, RootSteps, Boxes, Announcing
<1>6. CASE PrepareKernel
  <2>1. pc = "kernel" /\ pc' \in {"post", "enable"} /\ faults' \in 0..MaxFaults
        /\ UNCHANGED <<device, server, rest, changes, history>>
    BY <1>6, LimitAssumption DEF PrepareKernel, Fault, WfInv, WfTypeOK
  <2> QED BY <2>1 DEF WfInv, WfTypeOK, QueueInv, ConnectInv, RootInv, Steps, RootSteps, Boxes,
             Announcing
<1>7. CASE AnswerPrepare
  BY <1>7 DEF AnswerPrepare, WfInv, WfTypeOK, QueueInv, ConnectInv, RootInv, Steps, RootSteps,
              Boxes, Announcing
<1>8. CASE Postroot
  <2>1. PICK yes \in BOOLEAN :
          /\ Connected(yes) /\ steady' = (steady /\ yes)
          /\ pc' = IF yes THEN "postRoot" ELSE "finish"
    BY <1>8 DEF Postroot
  <2>2. pc = "post" /\ UNCHANGED <<rest, swapped, unsure>>
    BY <1>8 DEF Postroot
  <2>3. steady' \in BOOLEAN /\ (steady' => steady /\ yes)
    BY <2>1 DEF WfInv, WfTypeOK
  <2>4. server' \in BOOLEAN /\ faults' \in 0..MaxFaults /\ UNCHANGED <<device, changes>>
    BY <2>1, ConnectedAnswer
  <2>5. WfTypeOK'
    BY <2>1, <2>2, <2>3, <2>4 DEF WfInv, WfTypeOK, Steps, RootSteps, Boxes
  <2>6. QueueInv' /\ ConnectInv' /\ RootInv'
    BY <2>1, <2>2, <2>3, <2>4 DEF WfInv, QueueInv, ConnectInv, RootInv, RootSteps, Boxes,
       Announcing
  <2> QED BY <2>5, <2>6 DEF WfInv
<1>9. CASE PostrootRooted
  <2>1. PICK yes \in BOOLEAN : Rooted(yes) /\ collectBtn' = yes
    BY <1>9 DEF PostrootRooted
  <2>2. pc = "postRoot" /\ pc' = "finish" /\ claim' = "rooted" /\ unsure' = FALSE
        /\ steady' = (steady /\ ~LookFailed)
        /\ UNCHANGED <<rootBtn, template, panel, bar, hides, swapped>>
    BY <1>9 DEF PostrootRooted
  <2>3. steady' \in BOOLEAN /\ (steady' => steady /\ yes)
    BY <2>1, <2>2, RootedAnswer DEF WfInv, WfTypeOK, RootInv
  <2>4. WfTypeOK'
    <3>1. Flags'
      BY <2>1, <2>2, <2>3, RootedAnswer, InvTypes, Zenon DEF Flags
    <3>2. Values'
      BY <2>1, <2>2, RootedAnswer, InvTypes DEF Values, Steps, RootSteps
    <3> QED BY <3>1, <3>2, TypesTogether
  <2>5. QueueInv' /\ ConnectInv' /\ RootInv'
    BY <2>1, <2>2, <2>3, RootedAnswer DEF WfInv, QueueInv, ConnectInv, RootInv, RootSteps,
       Boxes, Announcing
  <2> QED BY <2>4, <2>5 DEF WfInv
<1>10. CASE Finish
  BY <1>10, LimitAssumption DEF Finish, WfInv, WfTypeOK, QueueInv, ConnectInv, RootInv, Steps,
              RootSteps, Boxes, Announcing
<1> QED BY <1>1, <1>2, <1>3, <1>4, <1>5, <1>6, <1>7, <1>8, <1>9, <1>10 DEF RootStep

-----------------------------------------------------------------------------
(* What is not of the handlers.                                            *)

LEMMA LateUnrootInv ==
  ASSUME WfInv, LateUnroot
  PROVE  WfInv'
<1> USE DEF buttons, progress
<1>1. rooted \ Here \in SUBSET Devices
  BY DEF WfInv, WfTypeOK
<1>2. SetRooted(rooted \ Here) /\ unrooting' \in BOOLEAN
      /\ UNCHANGED <<server, buttons, template, claim, panel, progress, pc, faults>>
  BY DEF LateUnroot
<1>3. changes' \in 0..MaxChanges
  BY LimitAssumption DEF LateUnroot, Change, WfInv, WfTypeOK
<1> QED BY <1>1, <1>2, <1>3, SetRootedRest DEF WfInv, WfTypeOK, QueueInv, ConnectInv, RootInv

LEMMA SilentInv ==
  ASSUME WfInv, Silent
  PROVE  WfInv'
<1>1. /\ faults' \in 0..MaxFaults /\ server' \in BOOLEAN /\ hides' = 0 /\ hides' \in 0..MaxHides
      /\ pc' = "idle" /\ rootBtn' = FALSE /\ collectBtn' = FALSE /\ template' = NoDevice
      /\ claim' = "nothing" /\ panel' = "none" /\ bar' = FALSE
      /\ swapped' = FALSE /\ unsure' = FALSE /\ steady' = FALSE
      /\ UNCHANGED <<plugged, rooted, secure, unrooting, changes>>
  <2>1. faults' \in 0..MaxFaults /\ hides' = 0 /\ hides' \in 0..MaxHides
    BY LimitAssumption DEF Silent, Fault, WfInv, WfTypeOK
  <2>2. server' \in BOOLEAN
    BY ZenonT(20) DEF Silent, WfInv, WfTypeOK
  <2> QED BY <2>1, <2>2 DEF Silent, device
<1>2. WfTypeOK'
  BY <1>1 DEF WfInv, WfTypeOK
<1>3. QueueInv' /\ ConnectInv' /\ RootInv'
  BY <1>1 DEF QueueInv, ConnectInv, RootInv, RootSteps, Boxes
<1> QED BY <1>2, <1>3 DEF WfInv

LEMMA HideBarInv ==
  ASSUME WfInv, HideBar
  PROVE  WfInv'
<1> USE DEF device, buttons, bounds, history
<1>1. hides' \in 0..MaxHides /\ hides' < MaxHides
  BY LimitAssumption DEF HideBar, WfInv, WfTypeOK
<1>2. WfTypeOK'
  <2>1. bar' = FALSE /\ UNCHANGED <<plugged, rooted, secure, unrooting, server, rootBtn, collectBtn, template,
          claim, panel, pc, changes, faults, swapped, unsure, steady>>
    BY DEF HideBar
  <2>2. WfTypeOK
    BY DEF WfInv
  <2>3. /\ (plugged \in Devices \union {NoDevice})' /\ (template \in Devices \union {NoDevice})'
        /\ (rooted \in SUBSET Devices)' /\ (secure \in SUBSET Devices)'
        /\ (pc \in {"idle"} \union Steps)'
        /\ (claim \in {"nothing", "absent", "notRooted", "already", "rooted"})'
        /\ (panel \in {"none", "root", "acquisition", "disconnect"})'
        /\ (changes \in 0..MaxChanges)' /\ (faults \in 0..MaxFaults)'
    BY <2>1, <2>2 DEF WfTypeOK
  <2>4. /\ server' \in BOOLEAN /\ unrooting' \in BOOLEAN
        /\ rootBtn' \in BOOLEAN /\ collectBtn' \in BOOLEAN
        /\ bar' \in BOOLEAN /\ swapped' \in BOOLEAN /\ unsure' \in BOOLEAN /\ steady' \in BOOLEAN
    BY <2>1, <2>2 DEF WfTypeOK
  <2> QED BY <1>1, <2>3, <2>4 DEF WfTypeOK
<1>3. QueueInv' /\ ConnectInv' /\ RootInv'
  BY <1>1 DEF HideBar, WfInv, QueueInv, ConnectInv, RootInv
<1> QED BY <1>2, <1>3 DEF WfInv

-----------------------------------------------------------------------------
LEMMA NextWfInv == WfInv /\ [WfNext]_wfVars => WfInv'
<1> SUFFICES ASSUME WfInv, [WfNext]_wfVars PROVE WfInv'
  OBVIOUS
<1>1. CASE UNCHANGED wfVars
  BY <1>1 DEF wfVars, device, buttons, progress, bounds, history, WfInv, WfTypeOK, QueueInv,
              ConnectInv, RootInv
<1>2. CASE WfNext
  BY <1>2, ChangeInv, ClickInv, ConnectStepInv, RestoreStepInv, RootStepInv, HideBarInv, LateUnrootInv,
     SilentInv
     DEF WfNext, HandlerStep
<1> QED BY <1>1, <1>2

LEMMA WorkflowInvariant == WfSpec => []WfInv
BY InitWfInv, NextWfInv, PTL DEF WfSpec

(* Every variable keeps its type; hides stays within its bound, since a    *)
(* rootDevice that has begun finds room for the hide it queues.            *)
THEOREM WorkflowTypeCorrect == WfSpec => []WfTypeOK
<1>1. WfInv => WfTypeOK
  BY DEF WfInv
<1> QED BY <1>1, WorkflowInvariant, PTL

(* A button that can be pressed is enabled for the device that is there,   *)
(* whether its model could be read or not, and the model shown beside it   *)
(* is never that of another device (ConnectDevice, RootDevice, postroot).  *)
THEOREM ButtonsStayCurrent == WfSpec => []ButtonsAreCurrent
<1>1. WfInv => ButtonsAreCurrent
  BY DEF WfInv, ConnectInv, RootInv, ButtonsAreCurrent
<1> QED BY <1>1, WorkflowInvariant, PTL

(* A device that is announced rooted is, and its data can be collected     *)
(* (rootDevice, postroot).                                                 *)
THEOREM AnnouncementsHold == WfSpec => []AnnouncedIsRooted
<1>1. WfInv => AnnouncedIsRooted
  BY DEF WfInv, RootInv, AnnouncedIsRooted, Announcing
<1> QED BY <1>1, WorkflowInvariant, PTL
=============================================================================
