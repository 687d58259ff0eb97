------------------------------ MODULE CaseStore ------------------------------
(***************************************************************************)
(* The register of cases of ANDROPHSY: the rows of Androspy_Case and       *)
(* Androspy_Device, the directories in which a case keeps its evidence,    *)
(* and the globals gb_CaseId, gb_DeviceId and gb_CasePath that the rest of *)
(* the program follows to them.                                            *)
(*                                                                         *)
(* A case is created by a wizard (CreateCase.java), opened from a list     *)
(* that shows what the database held at the last refresh (NewCase.java),   *)
(* given further devices by a second wizard (AddDevice.java) and handed to *)
(* another investigator (CaseTransfer.java).  All handlers run on the one  *)
(* user-interface thread, but creating and opening a case take several     *)
(* database calls and several mkdirs: each of them is a step, each may     *)
(* fail, and the program may be killed between any two of them.  The       *)
(* database and the directories survive that, everything else does not.    *)
(***************************************************************************)
EXTENDS Integers, Sequences

CONSTANTS
  CaseIds,     (* bound: the values AUTO_INCREMENT gives to case_id         *)
  DeviceIds,   (* device ids typed into the wizards, one digit each         *)
  Users,       (* user names of investigators                               *)
  Roots,       (* directories an investigator chooses as "Case Location"    *)
  NoUser,      (* gb_username = "": nobody is logged in                     *)
  NoPath,      (* gb_CasePath = "", case_path NULL, no location chosen      *)
  MaxFaults    (* bound: failing calls, lost connections and crashes        *)

ASSUME IdAssumption == CaseIds \subseteq Nat /\ 0 \notin CaseIds
ASSUME DeviceAssumption == DeviceIds \subseteq 0..9
ASSUME BoundAssumption == MaxFaults \in Nat

(* A directory: a chosen one and the numbered ones below it.  A path is    *)
(* its name as a string, which ends with "/" or does not.                  *)
Dir == [root : Roots, tail : Seq(Int)]

Path == [dir : Dir, slash : BOOLEAN]

NullsDiffer == NoUser \notin Users /\ NoPath \notin Path /\ NoPath \notin Dir

ASSUME NullAssumption == NullsDiffer

(* The text that is no number, -1 where getCaseId fails, no case at all.   *)
NotANumber == -1
NoId == -1
None == 0

(* A store consists of the case directory and two directories in it.       *)
Subs == {"self", "Acquire", "Analysis"}

VARIABLES
  ids,          (* case_id of the rows of Androspy_Case                     *)
  created,      (* those with case_created = 1                              *)
  casePath,     (* their case_path                                          *)
  investigator, (* their investigator_id                                    *)
  devices,      (* (case_id, device_id) of the rows of Androspy_Device      *)
  fs,           (* what mkdir made: a directory, or a subdirectory of it    *)
  listMade,     (* history: the directories made for a store by the list    *)
  user,         (* AndrospyMain.gb_username                                 *)
  gbId,         (* AndrospyMain.gb_CaseId                                   *)
  gbDev,        (* AndrospyMain.gb_DeviceId                                 *)
  gbPath,       (* AndrospyMain.gb_CasePath                                 *)
  via,          (* history: what set the three, the list or the wizard      *)
  table,        (* NewCase.table: the rows as PopulateCases read them       *)
  picked,       (* case id of NewCase.casetemplate, the row last selected   *)
  page,         (* the wizard page shown                                    *)
  bInsert,      (* DevicePage.bInsert                                       *)
  wizId,        (* CaseTemplate.case_id of the creating wizard              *)
  wizPath,      (* CaseTemplate.case_path                                   *)
  wizDev,       (* DeviceTemplate.deviceId                                  *)
  pc,           (* where the running handler stands                         *)
  lastId,       (* LAST_INSERT_ID() of its connection                       *)
  typed,        (* the text of the device id field                          *)
  target,       (* what CreateStore works on, and for which handler         *)
  faults        (* bound counter                                            *)

dbVars     == <<ids, created, casePath, investigator, devices>>
diskVars   == <<fs, listMade>>
caseVars   == <<gbId, gbDev, gbPath, via>>
listVars   == <<table, picked>>
wizardVars == <<bInsert, wizId, wizPath, wizDev>>
runVars    == <<pc, lastId, typed, target>>
vars == <<dbVars, diskVars, user, caseVars, listVars, page, wizardVars, runVars, faults>>

-----------------------------------------------------------------------------
(* Types.                                                                  *)

Row == [id : CaseIds, dev : DeviceIds, path : Path \union {NoPath},
        created : BOOLEAN, inv : Users]

Target == [by : {"wizard", "list"}, dir : Dir \union {NoPath},
           id : CaseIds \union {NoId, None}, dev : DeviceIds \union {None}]

NoTarget == [by |-> "wizard", dir |-> NoPath, id |-> None, dev |-> None]

DbTypes ==
  /\ ids \in SUBSET CaseIds /\ created \in SUBSET ids
  /\ casePath \in [CaseIds -> Path \union {NoPath}]
  /\ investigator \in [CaseIds -> Users \union {NoUser}]
  /\ devices \in SUBSET ((CaseIds \union {NoId}) \X DeviceIds)

DiskTypes == fs \in SUBSET (Dir \X Subs) /\ listMade \in SUBSET Dir

SessionTypes ==
  /\ user \in Users \union {NoUser}
  /\ gbId \in CaseIds \union {NoId, None}
  /\ gbDev \in DeviceIds \union {None} /\ gbPath \in Path \union {NoPath}
  /\ via \in {"none", "list", "wizard"}

ListTypes == table \in SUBSET Row /\ picked \in CaseIds \union {None}

WizardTypes ==
  /\ page \in {"closed", "case", "device", "last", "second"}
  /\ bInsert \in BOOLEAN /\ wizId \in CaseIds \union {NoId, None}
  /\ wizPath \in Path \union {NoPath} /\ wizDev \in DeviceIds \union {None}

RunTypes ==
  /\ pc \in {"idle", "insert", "device", "caseid", "mkdir", "Acquire",
             "Analysis", "update"}
  /\ lastId \in CaseIds \union {None} /\ typed \in DeviceIds \union {NotANumber}
  /\ target \in Target

TypeOK ==
  /\ DbTypes /\ DiskTypes /\ SessionTypes /\ ListTypes /\ WizardTypes /\ RunTypes
  /\ faults \in 0..MaxFaults

Init ==
  /\ ids = {} /\ created = {} /\ devices = {} /\ fs = {} /\ listMade = {}
  /\ casePath = [c \in CaseIds |-> NoPath]
  /\ investigator = [c \in CaseIds |-> NoUser]
  /\ user = NoUser
  /\ gbId = None /\ gbDev = None /\ gbPath = NoPath /\ via = "none"
  /\ table = {} /\ picked = None
  /\ page = "closed" /\ bInsert = FALSE
  /\ wizId = None /\ wizPath = NoPath /\ wizDev = None
  /\ pc = "idle" /\ lastId = None /\ typed = NotANumber /\ target = NoTarget
  /\ faults = 0

-----------------------------------------------------------------------------
(* Directories.                                                            *)

Last(d) == d.tail[Len(d.tail)]

(* root + "/" + name                                                       *)
Below(d, n) == [root |-> d.root, tail |-> Append(d.tail, n)]

(* path + name with nothing between them: below a path that ends with "/", *)
(* beside any other, where the digit is added to the last name.            *)
Concat(p, n) ==
  IF p.slash THEN Below(p.dir, n)
  ELSE [p.dir EXCEPT !.tail[Len(p.dir.tail)] = 10 * @ + n]

HasStore(d) == \A s \in Subs : <<d, s>> \in fs

(* A store is the one of case c when its directory is called c.            *)
IsStoreOf(d, c) == HasStore(d) /\ Last(d) = c

(* A call may fail while the bound on faults is not used up.               *)
Fault == faults < MaxFaults /\ faults' = faults + 1
NoFault == UNCHANGED faults

(* The shell takes clicks: no handler runs and no wizard is open over it.  *)
Idle == user # NoUser /\ pc = "idle" /\ page = "closed"

(* The handler of page p runs: nothing else is under way.                  *)
OnPage(p) == pc = "idle" /\ page = p

(* What the wizard and its handlers kept goes with them.                   *)
DropWizard ==
  /\ page' = "closed" /\ pc' = "idle"
  /\ bInsert' = FALSE /\ wizId' = None /\ wizPath' = NoPath /\ wizDev' = None
  /\ lastId' = None /\ typed' = NotANumber /\ target' = NoTarget

-----------------------------------------------------------------------------
(* Androspy.Logout, and the end of the program: the globals, the list and  *)
(* an open wizard are gone.  The mutant keeps the list.                    *)
ForgetNotList ==
  /\ user' = NoUser
  /\ gbId' = None /\ gbDev' = None /\ gbPath' = NoPath /\ via' = "none"
  /\ DropWizard
  /\ UNCHANGED <<dbVars, diskVars, listVars>>

Forget ==
  /\ user' = NoUser
  /\ gbId' = None /\ gbDev' = None /\ gbPath' = NoPath /\ via' = "none"
  /\ table' = {} /\ picked' = None
  /\ DropWizard
  /\ UNCHANGED <<dbVars, diskVars>>

Login(u) ==
  /\ user = NoUser /\ user' = u
  /\ UNCHANGED <<dbVars, diskVars, caseVars, listVars, page, wizardVars, runVars, faults>>

Logout == Idle /\ Forget /\ NoFault

(* The program is killed, at any point, or ended by an exception that the  *)
(* event loop of AndrospyMain does not catch.                              *)
Crash == user # NoUser /\ Forget /\ Fault

-----------------------------------------------------------------------------
(* The list of cases.                                                      *)

(* PopulateCases: the join of cases and devices, for one investigator.     *)
Listed ==
  {[id |-> d[1], dev |-> d[2], path |-> casePath[d[1]],
    created |-> d[1] \in created, inv |-> user] :
     d \in {e \in devices : e[1] \in ids /\ investigator[e[1]] = user}}

(* An SQLException leaves the cleared list, a connection that is null ends *)
(* the program (Crash).                                                    *)
PopulateCases ==
  \/ table' = Listed /\ NoFault
  \/ table' = {} /\ Fault

Refresh ==
  /\ Idle /\ PopulateCases
  /\ UNCHANGED <<dbVars, diskVars, user, caseVars, picked, page, wizardVars, runVars>>

SelectRow(r) ==
  /\ Idle /\ r \in table /\ picked' = r.id
  /\ UNCHANGED <<dbVars, diskVars, user, caseVars, table, page, wizardVars, runVars, faults>>

SetGlobals(id, dev, path, how) ==
  gbId' = id /\ gbDev' = dev /\ gbPath' = path /\ via' = how

(* OpenCase for a row with case_created = 1.                               *)
OpenCreated(r) ==
  /\ Idle /\ r \in table /\ r.created
  /\ picked' = r.id
  /\ SetGlobals(r.id, r.dev, r.path, "list")
  /\ UNCHANGED <<dbVars, diskVars, user, table, page, wizardVars, runVars, faults>>

(* OpenCase for a row with case_created = 0: the investigator chooses a    *)
(* directory for the store.  A cancelled dialog changes nothing.           *)
OpenUncreated(r, root) ==
  /\ Idle /\ r \in table /\ ~r.created
  /\ picked' = r.id
  /\ pc' = "mkdir"
  /\ target' = [by |-> "list", dir |-> [root |-> root, tail |-> <<r.id>>],
                id |-> r.id, dev |-> r.dev]
  /\ UNCHANGED <<dbVars, diskVars, user, caseVars, table, page, wizardVars, lastId, typed, faults>>

(* CaseTransfer.TransferCase, and what the list does not learn of it.      *)
TransferCase(c, u) ==
  /\ Idle /\ c \in ids
  /\ investigator' = [investigator EXCEPT ![c] = u]
  /\ UNCHANGED <<ids, created, casePath, devices, diskVars, user, caseVars, listVars,
                 page, wizardVars, runVars, faults>>

-----------------------------------------------------------------------------
(* The pages of the wizards.                                               *)

OpenWizard ==
  /\ Idle /\ page' = "case"
  /\ UNCHANGED <<dbVars, diskVars, user, caseVars, listVars, wizardVars, runVars, faults>>

(* A cancelled dialog raises an exception before it sets anything.         *)
ChooseLocation(root) ==
  /\ OnPage("case")
  /\ wizPath' = [dir |-> [root |-> root, tail |-> <<>>], slash |-> FALSE]
  /\ UNCHANGED <<dbVars, diskVars, user, caseVars, listVars, page, bInsert, wizId, wizDev,
                 runVars, faults>>

(* getNextPage of the pages; ConnectDevice, between the first two, changes *)
(* nothing but the device's description.                                   *)
TurnPage ==
  /\ \/ OnPage("case") /\ page' = "device"
     \/ OnPage("device") /\ page' = "case"
     \/ OnPage("device") /\ bInsert /\ page' = "last"
     \/ OnPage("last") /\ page' = "device"
  /\ UNCHANGED <<dbVars, diskVars, user, caseVars, listVars, wizardVars, runVars, faults>>

(* Finish or Cancel on any page; CaseManagement then refreshes the list.   *)
CloseWizard ==
  /\ pc = "idle" /\ page \in {"case", "device", "last"}
  /\ DropWizard /\ PopulateCases
  /\ UNCHANGED <<dbVars, diskVars, user, caseVars, picked>>

(* LastPage.OpenCase                                                       *)
OpenFromWizard ==
  /\ OnPage("last")
  /\ SetGlobals(wizId, wizDev, wizPath, "wizard")
  /\ UNCHANGED <<dbVars, diskVars, user, listVars, page, wizardVars, runVars, faults>>

-----------------------------------------------------------------------------
(* Create New Case.                                                        *)

(* bound: AUTO_INCREMENT has a value left                                  *)
IdsLeft == \E n \in CaseIds : \A c \in ids : c < n

PressCreate(text) ==
  /\ OnPage("device") /\ IdsLeft
  /\ pc' = "insert" /\ typed' = text /\ lastId' = None
  /\ UNCHANGED <<dbVars, diskVars, user, caseVars, listVars, page, wizardVars, target, faults>>

(* if (bInsert) bInsert = CreateStore(...): without a location the path is *)
(* "null/..." and its mkdir fails.                                         *)
AfterInsertCase(b, id) ==
  \/ ~b /\ pc' = "idle" /\ bInsert' = b /\ UNCHANGED target
  \/ b /\ wizPath = NoPath /\ pc' = "idle" /\ bInsert' = FALSE /\ UNCHANGED target
  \/ /\ b /\ wizPath # NoPath /\ pc' = "mkdir" /\ bInsert' = b
     /\ target' = [by |-> "wizard", dir |-> Below(wizPath.dir, id), id |-> id,
                   dev |-> wizDev]

(* The INSERT of the case.  It fails with an exception that is caught and  *)
(* leaves bInsert as the press before left it, or with one that is not:    *)
(* there was no connection.                                                *)
InsertCase ==
  /\ pc = "insert"
  /\ \/ \E n \in CaseIds :
          /\ \A c \in ids : c < n
          /\ ids' = ids \union {n} /\ lastId' = n
          /\ investigator' = [investigator EXCEPT ![n] = user]
          /\ pc' = "device" /\ NoFault
          /\ UNCHANGED <<bInsert, target>>
     \/ Fault /\ AfterInsertCase(bInsert, wizId) /\ UNCHANGED <<ids, investigator, lastId>>
     \/ Fault /\ pc' = "idle" /\ UNCHANGED <<ids, investigator, lastId, bInsert, target>>
  /\ UNCHANGED <<created, casePath, devices, diskVars, user, caseVars, listVars, page,
                 wizId, wizPath, wizDev, typed>>

(* InserDevice: a text that is no number ends the handler here.            *)
RejectText ==
  /\ pc = "device" /\ typed = NotANumber /\ pc' = "idle"
  /\ UNCHANGED <<dbVars, diskVars, user, caseVars, listVars, page, wizardVars, lastId, typed,
                 target, faults>>

(* Otherwise the device goes to the case of getCaseId, or to -1.           *)
InserDevice ==
  /\ pc = "device" /\ typed # NotANumber
  /\ wizDev' = typed /\ pc' = "caseid"
  /\ \/ devices' = devices \union {<<lastId, typed>>} /\ bInsert' = TRUE /\ NoFault
     \/ devices' = devices \union {<<NoId, typed>>} /\ bInsert' = TRUE /\ Fault
     \/ UNCHANGED <<devices, bInsert>> /\ Fault
  /\ UNCHANGED <<ids, created, casePath, investigator, diskVars, user, caseVars, listVars,
                 page, wizId, wizPath, lastId, typed, target>>

(* The second call of getCaseId, in InsertCase.  The mutant keeps the id   *)
(* of an earlier press.                                                    *)
GetFirstCaseId ==
  /\ pc = "caseid"
  /\ wizId' = IF wizId = None THEN lastId ELSE wizId
  /\ AfterInsertCase(bInsert, wizId')
  /\ UNCHANGED <<dbVars, diskVars, user, caseVars, listVars, page, wizPath, wizDev, lastId,
                 typed, faults>>

GetCaseId ==
  /\ pc = "caseid"
  /\ \/ wizId' = lastId /\ NoFault
     \/ wizId' = NoId /\ Fault
  /\ AfterInsertCase(bInsert, wizId')
  /\ UNCHANGED <<dbVars, diskVars, user, caseVars, listVars, page, wizPath, wizDev, lastId, typed>>

-----------------------------------------------------------------------------
(* CreateStore, of the wizard and of the list.                             *)

(* It returns false.  The mutant does not assign the result to bInsert.    *)
StoreFailsUnseen == pc' = "idle" /\ UNCHANGED <<bInsert, fs>>

StoreFails ==
  /\ pc' = "idle"
  /\ bInsert' = (bInsert /\ target.by # "wizard")
  /\ UNCHANGED fs

(* The order of the three steps.  The mutant is satisfied with Acquire, as *)
(* an || in place of the && would be.                                      *)
AfterEither(s) == "update"
AfterSub(s) == IF s = "Acquire" THEN "Analysis" ELSE "update"

MakeStore ==
  /\ pc = "mkdir"
  /\ \/ /\ <<target.dir, "self">> \notin fs
        /\ fs' = fs \union {<<target.dir, "self">>}
        /\ listMade' = listMade \union {d \in {target.dir} : target.by = "list"}
        /\ pc' = "Acquire" /\ UNCHANGED bInsert /\ NoFault
     \/ <<target.dir, "self">> \in fs /\ StoreFails /\ NoFault /\ UNCHANGED listMade
     \/ Fault /\ StoreFails /\ UNCHANGED listMade
  /\ UNCHANGED <<dbVars, user, caseVars, listVars, page, wizId, wizPath, wizDev,
                 lastId, typed, target>>

MakeSub(s) ==
  /\ pc = s
  /\ \/ /\ fs' = fs \union {<<target.dir, s>>}
        /\ pc' = AfterSub(s) /\ UNCHANGED bInsert /\ NoFault
     \/ Fault /\ StoreFails
  /\ UNCHANGED <<dbVars, listMade, user, caseVars, listVars, page, wizId, wizPath, wizDev,
                 lastId, typed, target>>

(* The UPDATE finds a row: count == 1.  The mutant does not ask.           *)
AnyRow == TRUE
RowFound == target.id \in ids

(* UPDATE Androspy_Case SET case_path = ..., case_created = 1.  The mutant *)
(* drops the "/" that updateCasePath appends.                              *)
SetPathUnended(slash) ==
  /\ casePath' = [casePath EXCEPT ![target.id] = [dir |-> target.dir, slash |-> FALSE]]
  /\ created' = created \union {target.id}

SetPath(slash) ==
  /\ casePath' = [casePath EXCEPT ![target.id] = [dir |-> target.dir, slash |-> slash]]
  /\ created' = created \union {target.id}

(* DevicePage.updateCasePath.  An exception that is not caught leaves      *)
(* bInsert as it is; no row has the case_id -1.                            *)
UpdateCasePath ==
  /\ pc = "update" /\ target.by = "wizard" /\ pc' = "idle"
  /\ \/ /\ RowFound /\ SetPath(TRUE) /\ NoFault
        /\ wizPath' = [dir |-> target.dir, slash |-> FALSE]
        /\ UNCHANGED bInsert
     \/ /\ ~RowFound /\ bInsert' = FALSE /\ NoFault
        /\ UNCHANGED <<casePath, created, wizPath>>
     \/ Fault /\ bInsert' = FALSE /\ UNCHANGED <<casePath, created, wizPath>>
     \/ Fault /\ UNCHANGED <<bInsert, casePath, created, wizPath>>
  /\ UNCHANGED <<ids, investigator, devices, diskVars, user, caseVars, listVars, page,
                 wizId, wizDev, lastId, typed, target>>

(* NewCase.OpenCase after its CreateStore: UpdateTable swallows an         *)
(* SQLException, and the case is opened without its row being updated.     *)
OpenStored ==
  /\ pc = "update" /\ target.by = "list" /\ pc' = "idle" /\ target' = NoTarget
  /\ \/ SetPath(FALSE) /\ NoFault
     \/ UNCHANGED <<casePath, created>> /\ Fault
  /\ SetGlobals(target.id, target.dev, [dir |-> target.dir, slash |-> FALSE], "list")
  /\ UNCHANGED <<ids, investigator, devices, diskVars, user, listVars, page, wizardVars,
                 lastId, typed>>

-----------------------------------------------------------------------------
(* Add Device, for the case of the row last selected.                      *)

OpenAddDevice ==
  /\ Idle /\ picked # None /\ page' = "second"
  /\ UNCHANGED <<dbVars, diskVars, user, caseVars, listVars, wizardVars, runVars, faults>>

CloseAddDevice ==
  /\ OnPage("second") /\ page' = "closed"
  /\ UNCHANGED <<dbVars, diskVars, user, caseVars, listVars, wizardVars, runVars, faults>>

(* createStorage: one mkdir under the path of the case that is open, which *)
(* need not be the case the row names.  A relative path is not modelled.   *)
CreateStorage(dev) ==
  \/ /\ gbPath # NoPath /\ gbPath.dir.tail # <<>>
     /\ fs' = fs \union {<<Concat(gbPath, dev), "self">>}
  \/ UNCHANGED fs

(* SecondDevicePage.InserDevice                                            *)
AttachDevice(dev) ==
  /\ OnPage("second")
  /\ devices' = devices \union {<<picked, dev>>} /\ CreateStorage(dev)
  /\ UNCHANGED <<ids, created, casePath, investigator, listMade, user, caseVars,
                 listVars, page, wizardVars, runVars, faults>>

-----------------------------------------------------------------------------
Next ==
  \/ \E u \in Users : Login(u)
  \/ Logout \/ Crash \/ Refresh
  \/ \E r \in table : SelectRow(r) \/ OpenCreated(r)
  \/ \E r \in table, root \in Roots : OpenUncreated(r, root)
  \/ \E c \in ids, u \in Users : TransferCase(c, u)
  \/ OpenWizard \/ TurnPage \/ CloseWizard \/ OpenFromWizard
  \/ \E root \in Roots : ChooseLocation(root)
  \/ \E text \in DeviceIds \union {NotANumber} : PressCreate(text)
  \/ InsertCase \/ RejectText \/ InserDevice \/ GetCaseId
  \/ MakeStore \/ (\E s \in {"Acquire", "Analysis"} : MakeSub(s))
  \/ UpdateCasePath \/ OpenStored
  \/ OpenAddDevice \/ CloseAddDevice
  \/ \E dev \in DeviceIds : AttachDevice(dev)

Spec == Init /\ [][Next]_vars

-----------------------------------------------------------------------------
(* Properties.                                                             *)

(* The database never claims a store that is not there: whatever call of a *)
(* creation failed and wherever the program was killed, a case with        *)
(* case_created = 1 has a path that leads to a directory named after it,   *)
(* with Acquire and Analysis in it.  (CreateCase.CreateStore and           *)
(* NewCase.OpenCase write the row after the directories.)                  *)
CreatedHasStore ==
  \A c \in created : casePath[c] # NoPath /\ IsStoreOf(casePath[c].dir, c)

(* The wizard lets the investigator go on to "Case Created Successfully"   *)
(* only when a complete store was made for the case it announces, however  *)
(* often Create New Case was pressed, with which text and location, and    *)
(* whichever of its calls failed (DevicePage.getNextPage, bInsert).        *)
StoreMade == \E e \in fs : IsStoreOf(e[1], wizId)

LastPageHasStore == pc = "idle" /\ (bInsert \/ page = "last") => StoreMade

(* A case opened from the list is opened consistently: gb_CasePath leads   *)
(* to the store of gb_CaseId and gb_DeviceId is a device of that case,     *)
(* although the row may be older than the database and the UPDATE that     *)
(* follows the creation of a store may fail (NewCase.OpenCase).  The path  *)
(* ends with the slash that gb_CasePath + "Analysis/Quick_Extract" needs   *)
(* exactly when the wizard made the store: the list leaves the slash out   *)
(* of the global and of case_path, so that a case whose store it made has  *)
(* its files named beside the store, in this session and in every later    *)
(* one, while for a store of the wizard no stale row, no failed UPDATE and *)
(* no second store ever loses it.                                          *)
EndsAsMade(p) == p.slash <=> p.dir \notin listMade

OpenedConsistently ==
  via = "list" =>
    /\ gbPath # NoPath /\ IsStoreOf(gbPath.dir, gbId) /\ EndsAsMade(gbPath)
    /\ <<gbId, gbDev>> \in devices

(* The list shows the investigator who is logged in cases that were his    *)
(* when it was filled, each with one of its devices, and a row that says   *)
(* "created" can be opened however stale it is: stores do not go away      *)
(* (NewCase.PopulateCases, Androspy.Logout).                               *)
ListStaysValid ==
  \A r \in table :
    /\ r.inv = user /\ <<r.id, r.dev>> \in devices
    /\ r.created => r.path # NoPath /\ IsStoreOf(r.path.dir, r.id)

(* The store of a created case is moved in two ways only, both by a        *)
(* handler that works with what it read before: the list opens a row that  *)
(* still says case_created = 0, or the wizard is pressed again, its INSERT *)
(* fails, and it makes a store for the case of the press before.  No step  *)
(* takes case_created back.                                                *)
StoreMovesOnlyByStaleRead ==
  [][/\ created \subseteq created'
     /\ \A c \in created : casePath'[c] # casePath[c] =>
          /\ pc = "update" /\ target.id = c
          /\ target.by = "wizard" => lastId = None]_vars

(* The label "Open this case for investigation" of the last page: with     *)
(* what LastPage.OpenCase stores in gb_CasePath, gb_CasePath +             *)
(* "Analysis/Quick_Extract" names a file in the store.                     *)
WizardOpensStore == via = "wizard" => gbPath # NoPath /\ gbPath.slash

(* The title "Case Created Successfully" of the last page: the case it     *)
(* names is a created case with a device, which the list therefore shows.  *)
AnnouncedCaseIsCreated ==
  page = "last" => wizId \in created /\ \E dev \in DeviceIds : <<wizId, dev>> \in devices

-----------------------------------------------------------------------------
(* What the inductive invariant adds.                                      *)

InStore == pc \in {"mkdir", "Acquire", "Analysis", "update"}

(* A store under construction is the one of its case, and has the parts    *)
(* the steps before have made.                                             *)
StoreSteps ==
  /\ InStore => target.dir \in Dir /\ Last(target.dir) = target.id
  /\ pc \in {"Acquire", "Analysis", "update"} => <<target.dir, "self">> \in fs
  /\ pc \in {"Analysis", "update"} => <<target.dir, "Acquire">> \in fs
  /\ pc = "update" => <<target.dir, "Analysis">> \in fs

(* Who made a store is settled when its directory is made, before any path *)
(* to it is known.                                                         *)
MadeByHandler ==
  /\ \A d \in listMade : <<d, "self">> \in fs
  /\ pc \in {"Acquire", "Analysis", "update"} =>
       (target.by = "list" <=> target.dir \in listMade)

KnownPaths ==
  /\ \A c \in created : EndsAsMade(casePath[c])
  /\ \A r \in table : r.created => EndsAsMade(r.path)

(* Wizards and handlers belong to a session.                               *)
InSession == user = NoUser => page = "closed" /\ pc = "idle"

(* Which handler runs on which page, and for which case.                   *)
ByList ==
  InStore /\ target.by = "list" =>
    page = "closed" /\ target.id \in ids /\ <<target.id, target.dev>> \in devices

ByWizard ==
  /\ pc # "idle" /\ (InStore => target.by = "wizard") => page = "device"
  /\ InStore /\ target.by = "wizard" => bInsert /\ target.id = wizId

(* The case of this press is new until its row is updated.                 *)
FreshCase ==
  /\ pc = "insert" => lastId = None
  /\ pc \in {"device", "caseid"} => lastId \in ids \ created
  /\ InStore /\ target.by = "wizard" /\ lastId # None =>
       lastId \notin created /\ target.id \in {lastId, NoId}

(* bInsert is older than the store only while CreateCase runs.             *)
InsertMeansStore ==
  /\ bInsert => page \in {"case", "device", "last"}
  /\ page = "last" => bInsert
  /\ pc \in {"idle", "insert", "device"} /\ bInsert => StoreMade

KnownIds ==
  /\ picked \in ids \union {None} /\ (page = "second" => picked # None)
  /\ (\A r \in table : r.id \in ids) /\ wizId \in ids \union {NoId, None}

StoreInv ==
  /\ TypeOK /\ CreatedHasStore /\ OpenedConsistently /\ ListStaysValid
  /\ InSession /\ StoreSteps /\ MadeByHandler /\ KnownPaths /\ ByList /\ ByWizard
  /\ FreshCase /\ InsertMeansStore /\ KnownIds
=============================================================================
