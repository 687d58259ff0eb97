--------------------------- MODULE DeviceWorkflow ---------------------------
(***************************************************************************)
(* The Data Collection tab: connecting a device, rooting it, opening the   *)
(* acquisition panel and restoring it (DataCollection.java, Root.java, and *)
(* the looks at the device in AdbExecCmd.java).                            *)
(*                                                                         *)
(* Every answer about the device is a new call of adb or of a script, and  *)
(* a handler asks several times: between any two of its looks the device   *)
(* may be unplugged or another one plugged in.  Handlers run one at a time *)
(* on the user-interface thread; a message box keeps the other buttons     *)
(* away, but what was queued with asyncExec runs while it is open.         *)
(*                                                                         *)
(* External are adb and the scripts: "adb devices" also prints two lines   *)
(* when it has to start its server, which getDevices may read as a device; *)
(* a script may root or restore a device, or not.                          *)
(***************************************************************************)
EXTENDS Naturals

CONSTANTS
  Devices,     (* the devices of the investigation                          *)
  NoDevice,    (* none: nothing plugged in, nothing read                    *)
  MaxChanges,  (* bound: times something happens to the plug or the device  *)
  MaxFaults,   (* bound: calls that cannot be started, see nothing or fail  *)
  MaxHides     (* bound: hides of the progress bar queued at once           *)

ASSUME DeviceAssumption == NoDevice \notin Devices
ASSUME LimitAssumption == MaxChanges \in Nat /\ MaxFaults \in Nat /\ MaxHides \in Nat

VARIABLES
  plugged,     (* the device on the cable                                   *)
  rooted,      (* devices files/test.sh answers "success" for               *)
  secure,      (* devices whose ro.secure is "0": what isKernelSecure tests *)
  server,      (* the adb server runs                                       *)
  unrooting,   (* the unroot process nobody reads may still be running      *)
  rootBtn,     (* btnRoot is enabled                                        *)
  collectBtn,  (* btnCollectRawData is enabled                              *)
  template,    (* the device devicetemplate was read from; NoDevice when    *)
               (* it has adb's error text, nothing, or was never read       *)
  claim,       (* what lblConsole says                                      *)
  panel,       (* stacklayout.topControl                                    *)
  bar,         (* progressBar of Root is visible                            *)
  hides,       (* Runnables queued with asyncExec that hide it              *)
  pc,          (* the next call of the handler, or the box it waits at      *)
  changes, faults,   (* bound counters                                      *)
  (* History variables: no guard and no other variable reads them.          *)
  swapped,     (* plugged or unplugged since getDeviceBasicInfo looked      *)
  unsure,      (* something happened to the device since isRooted was asked *)
               (* to set btnCollectRawData                                  *)
  steady       (* nothing did, no isRooted failed and postroot saw a        *)
               (* device since rootDevice found it rooted                   *)

device == <<plugged, rooted, secure, unrooting>>
buttons == <<rootBtn, collectBtn>>
progress == <<bar, hides>>
bounds == <<changes, faults>>
history == <<swapped, unsure, steady>>
wfVars == <<device, server, buttons, template, claim, panel, progress, pc, bounds, history>>

Boxes == {"reconnect", "verify", "enable"}
RootSteps == {"install", "restart", "check", "prepare", "prepareRoot", "kernel",
              "post", "postRoot", "finish"} \union Boxes
Steps == {"connect", "again", "info", "connectRoot", "unpatch", "unroot"} \union RootSteps

WfTypeOK ==
  /\ plugged \in Devices \union {NoDevice}
  /\ rooted \in SUBSET Devices /\ secure \in SUBSET Devices
  /\ server \in BOOLEAN /\ unrooting \in BOOLEAN
  /\ rootBtn \in BOOLEAN /\ collectBtn \in BOOLEAN
  /\ template \in Devices \union {NoDevice}
  /\ claim \in {"nothing", "absent", "notRooted", "already", "rooted"}
  /\ panel \in {"none", "root", "acquisition", "disconnect"}
  /\ bar \in BOOLEAN /\ hides \in 0..MaxHides
  /\ pc \in {"idle"} \union Steps
  /\ changes \in 0..MaxChanges /\ faults \in 0..MaxFaults
  /\ swapped \in BOOLEAN /\ unsure \in BOOLEAN /\ steady \in BOOLEAN

WfInit ==
  /\ plugged \in Devices \union {NoDevice}
  /\ rooted \in SUBSET Devices /\ secure \in SUBSET Devices /\ server \in BOOLEAN
  /\ unrooting = FALSE
  /\ rootBtn = FALSE /\ collectBtn = FALSE /\ template = NoDevice
  /\ claim = "nothing" /\ panel = "none"
  /\ bar = FALSE /\ hides = 0 /\ pc = "idle"
  /\ changes = 0 /\ faults = 0
  /\ swapped = FALSE /\ unsure = FALSE /\ steady = FALSE

-----------------------------------------------------------------------------
(* What happens to the device by itself.                                   *)

Change == changes < MaxChanges /\ changes' = changes + 1

Replug ==
  /\ Change
  /\ plugged' \in IF plugged = NoDevice THEN Devices ELSE {NoDevice}
  /\ swapped' = TRUE /\ unsure' = TRUE /\ steady' = FALSE
  /\ UNCHANGED <<rooted, secure, unrooting, server, buttons, template, claim, panel, progress, pc,
                 faults>>

(* The investigator enables or disables "Insecure" on the device.          *)
SetSecure ==
  /\ Change
  /\ \E d \in Devices : secure' = IF d \in secure THEN secure \ {d} ELSE secure \union {d}
  /\ UNCHANGED <<plugged, rooted, unrooting, server, buttons, template, claim, panel, progress, pc,
                 faults, history>>

Here == {plugged} \ {NoDevice}

(* What a script does to the device that is plugged in: it roots it, or    *)
(* takes the root away, or has no effect.                                  *)
SetRooted(to) ==
  /\ rooted' \in {rooted, to}
  /\ unsure' = (unsure \/ rooted' # rooted)
  /\ steady' = (steady /\ rooted' = rooted)
  /\ UNCHANGED <<plugged, secure, swapped>>

(* What an unroot process that nobody waits for does after the handler; it *)
(* may not be the last of them.                                            *)
LateUnroot ==
  /\ Change
  /\ unrooting /\ unrooting' \in BOOLEAN
  /\ SetRooted(rooted \ Here)
  /\ UNCHANGED <<server, buttons, template, claim, panel, progress, pc, faults>>

Fault == faults < MaxFaults /\ faults' = faults + 1

-----------------------------------------------------------------------------
(* The looks of AdbExecCmd.                                                *)

(* isDeviceConnected, by getDevices: the second line "adb devices" prints. *)
(* A call that cannot be started, or that comes before the server has      *)
(* found the device, sees none.                                            *)
Connected(yes) ==
  /\ \/ (server => (yes <=> plugged # NoDevice)) /\ server' = TRUE /\ UNCHANGED faults
     \/ ~yes /\ Fault /\ server' \in {server, TRUE}
  /\ UNCHANGED <<device, changes>>

(* isRooted: the last line files/test.sh prints; nothing if it cannot be   *)
(* started.                                                                *)
Rooted(yes) ==
  /\ \/ (yes <=> plugged \in rooted) /\ UNCHANGED faults
     \/ ~yes /\ Fault
  /\ UNCHANGED <<device, server, changes>>

(* When adb prints nothing getDevices asks for a string of length -1: that *)
(* exception nobody catches, and the program ends.  When it is started     *)
(* again nothing is enabled and nothing was read.                          *)
Silent ==
  /\ pc \in {"connect", "again", "prepare", "post"} /\ pc' = "idle"
  /\ Fault /\ server' \in {server, TRUE}
  /\ rootBtn' = FALSE /\ collectBtn' = FALSE /\ template' = NoDevice
  /\ claim' = "nothing" /\ panel' = "none" /\ bar' = FALSE /\ hides' = 0
  /\ swapped' = FALSE /\ unsure' = FALSE /\ steady' = FALSE
  /\ UNCHANGED <<device, changes>>

LookFailed == faults' # faults

(* The mutant tests what the name says.                                    *)
KernelIsSecure == plugged # NoDevice /\ plugged \notin secure

IsKernelSecure == plugged \in secure

-----------------------------------------------------------------------------
(* "Connect Device".                                                       *)

ConnectDevice ==
  /\ pc = "idle" /\ pc' = "connect"
  /\ UNCHANGED <<device, server, buttons, template, claim, panel, progress, bounds, history>>

NotConnected ==
  /\ rootBtn' = FALSE /\ collectBtn' = FALSE /\ claim' = "absent" /\ pc' = "idle"
  /\ UNCHANGED <<template, panel, progress, history>>

(* The first look may take the lines of a starting server for a device.    *)
LookFirst ==
  /\ pc = "connect"
  /\ \/ Connected(FALSE) /\ NotConnected
     \/ /\ Connected(TRUE)
        /\ pc' = "again"
        /\ UNCHANGED <<buttons, template, claim, panel, progress, history>>

(* getDeviceBasicInfo looks again; the mutant does not.                    *)
LookOnce ==
  /\ pc = "again" /\ pc' = "info" /\ swapped' = FALSE
  /\ UNCHANGED <<device, server, buttons, template, claim, panel, progress, bounds,
                 unsure, steady>>

LookAgain ==
  /\ pc = "again"
  /\ \/ Connected(FALSE) /\ NotConnected
     \/ /\ Connected(TRUE)
        /\ pc' = "info" /\ swapped' = FALSE
        /\ UNCHANGED <<buttons, template, claim, panel, progress, unsure, steady>>

(* Whatever getprop answers, adb's error text or nothing included, is the  *)
(* model of the device, and getDeviceBasicInfo returns true.               *)
ReadInfo ==
  /\ pc = "info"
  /\ \/ template' = plugged /\ UNCHANGED faults
     \/ template' = NoDevice /\ Fault
  /\ rootBtn' = TRUE /\ collectBtn' = FALSE /\ pc' = "connectRoot"
  /\ UNCHANGED <<device, server, claim, panel, progress, changes, history>>

ConnectRooted ==
  /\ pc = "connectRoot"
  /\ \E yes \in BOOLEAN :
       Rooted(yes) /\ collectBtn' = yes /\ claim' = IF yes THEN "already" ELSE "notRooted"
  /\ unsure' = FALSE /\ pc' = "idle"
  /\ UNCHANGED <<rootBtn, template, panel, progress, swapped, steady>>

(* "Root Device" opens its panel, which stays open when Root is disabled.  *)
RootDevice ==
  /\ pc = "idle" /\ rootBtn
  /\ panel' = "root"
  /\ \E yes \in BOOLEAN : Rooted(yes) /\ collectBtn' = yes
  /\ unsure' = FALSE /\ steady' = (steady /\ ~LookFailed)
  /\ UNCHANGED <<rootBtn, template, claim, progress, pc, swapped>>

CollectRawData ==
  /\ pc = "idle" /\ collectBtn
  /\ panel' = "acquisition"
  /\ UNCHANGED <<device, server, buttons, template, claim, progress, pc, bounds, history>>

-----------------------------------------------------------------------------
(* "Disconnect Device": neither button is touched.                         *)

Disconnect ==
  /\ pc = "idle"
  /\ panel' = "disconnect"
  /\ \E yes \in BOOLEAN : Rooted(yes) /\ pc' = IF yes THEN "unpatch" ELSE "idle"
  /\ UNCHANGED <<buttons, template, claim, progress, history>>

RemoveKernelSecure ==
  /\ pc = "unpatch" /\ pc' = "unroot"
  /\ secure' \in {secure, secure \ Here}
  /\ UNCHANGED <<plugged, rooted, unrooting, server, buttons, template, claim, panel,
                 progress, bounds, history>>

(* unroot starts the script twice and reads the second process only.       *)
Unroot ==
  /\ pc = "unroot" /\ pc' = "idle" /\ unrooting' = TRUE
  /\ SetRooted(rooted \ Here)
  /\ UNCHANGED <<server, buttons, template, claim, panel, progress, bounds>>

-----------------------------------------------------------------------------
(* "Execute" of the Root panel: rootDevice.                                *)

rest == <<buttons, template, claim, panel, progress>>

Execute ==
  /\ pc = "idle" /\ panel = "root" /\ hides < MaxHides
  /\ bar' = TRUE
  /\ \/ pc' = "install" /\ UNCHANGED history                (* Safe Root    *)
        /\ UNCHANGED device
     \/ pc' = "finish" /\ SetRooted(rooted \union Here)     (* Argon        *)
        /\ UNCHANGED unrooting
     \/ pc' = "finish" /\ UNCHANGED <<device, history>>     (* the others   *)
  /\ UNCHANGED <<server, buttons, template, claim, panel, hides, bounds>>

Install ==
  /\ pc = "install"
  /\ \/ pc' = "restart" /\ SetRooted(rooted \union Here)
        /\ UNCHANGED <<unrooting, faults>>
     \/ pc' = "finish" /\ Fault /\ UNCHANGED <<device, history>>
  /\ UNCHANGED <<server, rest, changes>>

(* killAdb and startAdb: a server that cannot be started again is gone.    *)
KillAndStart ==
  \/ server' = TRUE /\ UNCHANGED faults
  \/ server' = FALSE /\ Fault

(* Then the box that asks to reconnect; it may be closed without an OK.    *)
RestartAdb ==
  /\ pc = "restart" /\ pc' = "reconnect" /\ KillAndStart
  /\ UNCHANGED <<device, rest, changes, history>>

AnswerReconnect ==
  /\ pc = "reconnect" /\ pc' = "check"
  /\ KillAndStart \/ UNCHANGED <<server, faults>>
  /\ UNCHANGED <<device, rest, changes, history>>

(* The mutant takes the script at its word.                                *)
TrustScript ==
  /\ pc = "check" /\ pc' = "prepare" /\ steady' = TRUE
  /\ UNCHANGED <<device, server, rest, bounds, swapped, unsure>>

CheckRooted ==
  /\ pc = "check"
  /\ \E yes \in BOOLEAN :
       /\ Rooted(yes) /\ steady' = yes
       /\ pc' = IF yes THEN "prepare" ELSE "finish"
  /\ UNCHANGED <<rest, swapped, unsure>>

(* prepareDevice, called again for as long as isKernelSecure holds and the *)
(* investigator presses OK.                                                *)
Prepare ==
  /\ pc = "prepare"
  /\ \E yes \in BOOLEAN : Connected(yes) /\ pc' = IF yes THEN "prepareRoot" ELSE "verify"
  /\ UNCHANGED <<rest, history>>

PrepareRooted ==
  /\ pc = "prepareRoot"
  /\ \E yes \in BOOLEAN : Rooted(yes) /\ pc' = IF yes THEN "kernel" ELSE "verify"
  /\ steady' = (steady /\ ~LookFailed)
  /\ UNCHANGED <<rest, swapped, unsure>>

(* files/insecure.sh may not be there to be started.                       *)
PrepareKernel ==
  /\ pc = "kernel"
  /\ \/ ~IsKernelSecure /\ pc' = "post" /\ UNCHANGED faults
     \/ IsKernelSecure /\ pc' = "enable" /\ UNCHANGED faults
     \/ IsKernelSecure /\ pc' = "post" /\ Fault
  /\ UNCHANGED <<device, server, rest, changes, history>>

AnswerPrepare ==
  /\ \/ pc = "verify" /\ pc' = "post"
     \/ pc = "enable" /\ pc' \in {"prepare", "post"}
  /\ UNCHANGED <<device, server, rest, bounds, history>>

(* postroot, whatever prepareDevice returned: the console says that the    *)
(* device is rooted whichever way isRooted answers.                        *)
Postroot ==
  /\ pc = "post"
  /\ \E yes \in BOOLEAN :
       /\ Connected(yes) /\ steady' = (steady /\ yes)
       /\ pc' = IF yes THEN "postRoot" ELSE "finish"
  /\ UNCHANGED <<rest, swapped, unsure>>

PostrootRooted ==
  /\ pc = "postRoot" /\ pc' = "finish"
  /\ \E yes \in BOOLEAN : Rooted(yes) /\ collectBtn' = yes
  /\ claim' = "rooted"
  /\ unsure' = FALSE /\ steady' = (steady /\ ~LookFailed)
  /\ UNCHANGED <<rootBtn, template, panel, progress, swapped>>

Finish ==
  /\ pc = "finish" /\ pc' = "idle"
  /\ hides' = hides + 1
  /\ UNCHANGED <<device, server, buttons, template, claim, panel, bar, bounds, history>>

(* The loop, that of a box too, runs what asyncExec queued; the mutant of  *)
(* the queue runs a Runnable that is not there.                            *)
HideUnasked ==
  /\ pc \in {"idle"} \union Boxes /\ bar
  /\ bar' = FALSE /\ hides' = hides - 1
  /\ UNCHANGED <<device, server, buttons, template, claim, panel, pc, bounds, history>>

HideBar ==
  /\ pc \in {"idle"} \union Boxes /\ hides > 0
  /\ bar' = FALSE /\ hides' = hides - 1
  /\ UNCHANGED <<device, server, buttons, template, claim, panel, pc, bounds, history>>

-----------------------------------------------------------------------------
ConnectStep == LookFirst \/ LookAgain \/ ReadInfo \/ ConnectRooted
RestoreStep == RemoveKernelSecure \/ Unroot
RootStep ==
  \/ Install \/ RestartAdb \/ AnswerReconnect \/ CheckRooted
  \/ Prepare \/ PrepareRooted \/ PrepareKernel \/ AnswerPrepare
  \/ Postroot \/ PostrootRooted \/ Finish
HandlerStep == ConnectStep \/ RestoreStep \/ RootStep
Click == ConnectDevice \/ RootDevice \/ CollectRawData \/ Disconnect \/ Execute

WfNext == Click \/ HandlerStep \/ Silent \/ HideBar \/ Replug \/ SetSecure \/ LateUnroot

WfSpec == WfInit /\ [][WfNext]_wfVars

(* A handler goes on, its boxes are answered, and asyncExec's queue is run *)
(* though the thread is now and then busy with another handler.            *)
WfFairSpec == WfSpec /\ WF_wfVars(HandlerStep) /\ SF_wfVars(HideBar)
-----------------------------------------------------------------------------
(* Properties.                                                             *)

(* A button that can be pressed is enabled for the device that is there,   *)
(* unless something happened to the device after the look that enabled the *)
(* button (ConnectDevice, RootDevice, postroot): Root for a device whose   *)
(* model is shown, or whose model was asked for in vain, but never beside  *)
(* the model of another one; Collect Raw Data for a rooted one.            *)
ButtonsAreCurrent ==
  pc = "idle" =>
    /\ rootBtn /\ ~swapped => plugged # NoDevice /\ template \in {plugged, NoDevice}
    /\ collectBtn /\ ~unsure => plugged \in rooted

(* When rooting is announced the device is rooted and its data can be      *)
(* collected, though the announcement does not wait for the last answer:   *)
(* rootDevice comes to it from an earlier one only (rootDevice, postroot). *)
AnnouncedIsRooted ==
  pc = "idle" /\ claim = "rooted" /\ steady => collectBtn /\ plugged \in rooted

(* The progress bar of rootDevice does not stay for ever, unless the       *)
(* kernel of the device keeps the answer prepareDevice calls itself for.   *)
BarHides == <>[](plugged \notin secure) => (bar ~> ~bar)
-----------------------------------------------------------------------------
(* What makes the invariants above inductive.                              *)

(* A hide is queued by each rootDevice that has begun, and not before.     *)
QueueInv == pc \in RootSteps => hides < MaxHides

(* When getDeviceBasicInfo looks, the first look has started the server.   *)
ConnectInv ==
  /\ pc = "again" => server
  /\ pc = "info" /\ ~swapped => plugged # NoDevice
  /\ pc # "info" /\ rootBtn /\ ~swapped =>
       plugged # NoDevice /\ template \in {plugged, NoDevice}

(* The answers of isRooted that are in use still hold.                     *)
Announcing == {"prepare", "verify", "prepareRoot", "kernel", "enable", "post", "postRoot"}
RootInv ==
  /\ collectBtn /\ ~unsure => plugged \in rooted
  /\ steady => plugged \in rooted
  /\ claim = "rooted" /\ steady /\ pc \notin Announcing \union {"connectRoot"} => collectBtn

WfInv == WfTypeOK /\ QueueInv /\ ConnectInv /\ RootInv
=============================================================================
