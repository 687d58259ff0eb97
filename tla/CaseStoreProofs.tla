--------------------------- MODULE CaseStoreProofs ---------------------------
(***************************************************************************)
(* What is proved of CaseStore for every set of case ids, devices, users   *)
(* and locations and every number of failures.                             *)
(***************************************************************************)
EXTENDS CaseStore, TLAPS

-----------------------------------------------------------------------------
(* Directories.                                                            *)

LEMMA BelowDir ==
  ASSUME NEW d \in Dir, NEW n \in Int
  PROVE  Below(d, n) \in Dir /\ Last(Below(d, n)) = n
BY DEF Dir, Below, Last

LEMMA RootDir ==
  ASSUME NEW r \in Roots, NEW n \in Int
  PROVE  /\ [root |-> r, tail |-> <<n>>] \in Dir
         /\ Last([root |-> r, tail |-> <<n>>]) = n
         /\ [root |-> r, tail |-> <<>>] \in Dir
BY DEF Dir, Last

LEMMA ConcatDir ==
  ASSUME NEW p \in Path, NEW n \in Nat, p.dir.tail # <<>>
  PROVE  Concat(p, n) \in Dir
<1>1. CASE p.slash
  BY <1>1, BelowDir DEF Path, Concat
<1>2. CASE ~p.slash
  <2> DEFINE t == p.dir.tail
  <2>1. t \in Seq(Int) /\ Len(t) \in 1..Len(t)
    BY DEF Path, Dir
  <2>2. [t EXCEPT ![Len(t)] = 10 * t[Len(t)] + n] \in Seq(Int)
    BY <2>1
  <2> QED BY <1>2, <2>2 DEF Path, Dir, Concat
<1> QED BY <1>1, <1>2

LEMMA RootPath ==
  ASSUME NEW r \in Roots
  PROVE  [dir |-> [root |-> r, tail |-> <<>>], slash |-> FALSE] \in Path
<1>1. <<>> \in Seq(Int)
  OBVIOUS
<1> QED BY <1>1 DEF Path, Dir

(* A path is never the null.                                               *)
LEMMA PathIsNotNull == NoPath \notin Path /\ NoPath \notin Dir
BY NullAssumption DEF NullsDiffer

-----------------------------------------------------------------------------
(* Rows, devices and directories are never deleted.                        *)

LEMMA NothingIsDeleted ==
  [Next]_vars => /\ ids \subseteq ids' /\ created \subseteq created'
                 /\ devices \subseteq devices' /\ fs \subseteq fs'
<1> SUFFICES ASSUME [Next]_vars
    PROVE ids \subseteq ids' /\ created \subseteq created'
          /\ devices \subseteq devices' /\ fs \subseteq fs'
  OBVIOUS
<1> DEFINE Kept == /\ ids \subseteq ids' /\ created \subseteq created'
                   /\ devices \subseteq devices' /\ fs \subseteq fs'
<1> HIDE DEF Kept
<1> USE DEF Kept, dbVars, diskVars, vars
<1>1. ASSUME
        \/ \E u \in Users : Login(u)
        \/ Logout
        \/ Crash
        \/ Refresh
        \/ \E r \in table : SelectRow(r)
        \/ \E r \in table : OpenCreated(r)
        \/ \E c \in ids, u \in Users : TransferCase(c, u)
      PROVE Kept
  BY <1>1 DEF Login, Logout, Forget, DropWizard, NoFault, Idle, Crash, Fault, Refresh,
     PopulateCases, SelectRow, OpenCreated, SetGlobals, TransferCase
<1>2. ASSUME
        \/ OpenWizard
        \/ TurnPage
        \/ CloseWizard
        \/ OpenFromWizard
        \/ \E root \in Roots : ChooseLocation(root)
        \/ OpenAddDevice
        \/ CloseAddDevice
      PROVE Kept
  BY <1>2 DEF OpenWizard, Idle, TurnPage, OnPage, CloseWizard, DropWizard,
     PopulateCases, Fault, NoFault, OpenFromWizard, SetGlobals, ChooseLocation,
     OpenAddDevice, CloseAddDevice
<1>3. ASSUME
        \/ \E r \in table, root \in Roots : OpenUncreated(r, root)
        \/ \E text \in DeviceIds \union {NotANumber} : PressCreate(text)
        \/ InsertCase
        \/ RejectText
        \/ InserDevice
        \/ GetCaseId
      PROVE Kept
  BY <1>3 DEF OpenUncreated, Idle, PressCreate, OnPage, InsertCase, AfterInsertCase,
     Fault, NoFault, RejectText, InserDevice, GetCaseId
<1>4. ASSUME
        \/ MakeStore
        \/ \E s \in {"Acquire", "Analysis"} : MakeSub(s)
        \/ UpdateCasePath
        \/ OpenStored
        \/ \E dev \in DeviceIds : AttachDevice(dev)
      PROVE Kept
  BY <1>4 DEF MakeStore, StoreFails, Fault, NoFault, MakeSub, AfterSub,
     UpdateCasePath, SetPath, RowFound, OpenStored, SetGlobals, AttachDevice,
     CreateStorage, OnPage
<1>5. CASE UNCHANGED vars
  BY <1>5
<1> QED BY <1>1, <1>2, <1>3, <1>4, <1>5 DEF Next

(* A directory that exists is not made again, by whomever.                 *)
LEMMA MakerIsSettled ==
  [Next]_vars => \A d : <<d, "self">> \in fs => (d \in listMade' <=> d \in listMade)
<1> SUFFICES ASSUME [Next]_vars
    PROVE \A d : <<d, "self">> \in fs => (d \in listMade' <=> d \in listMade)
  OBVIOUS
<1> DEFINE Kept == \A d : <<d, "self">> \in fs => (d \in listMade' <=> d \in listMade)
<1> HIDE DEF Kept
<1> USE DEF Kept, dbVars, diskVars, vars
<1>1. ASSUME
        \/ \E u \in Users : Login(u)
        \/ Logout
        \/ Crash
        \/ Refresh
        \/ \E r \in table : SelectRow(r)
        \/ \E r \in table : OpenCreated(r)
        \/ \E c \in ids, u \in Users : TransferCase(c, u)
      PROVE Kept
  BY <1>1 DEF Login, Logout, Forget, DropWizard, NoFault, Idle, Crash, Fault, Refresh,
     PopulateCases, SelectRow, OpenCreated, SetGlobals, TransferCase
<1>2. ASSUME
        \/ OpenWizard
        \/ TurnPage
        \/ CloseWizard
        \/ OpenFromWizard
        \/ \E root \in Roots : ChooseLocation(root)
        \/ OpenAddDevice
        \/ CloseAddDevice
      PROVE Kept
  BY <1>2 DEF OpenWizard, Idle, TurnPage, OnPage, CloseWizard, DropWizard,
     PopulateCases, Fault, NoFault, OpenFromWizard, SetGlobals, ChooseLocation,
     OpenAddDevice, CloseAddDevice
<1>3. ASSUME
        \/ \E r \in table, root \in Roots : OpenUncreated(r, root)
        \/ \E text \in DeviceIds \union {NotANumber} : PressCreate(text)
        \/ InsertCase
        \/ RejectText
        \/ InserDevice
        \/ GetCaseId
      PROVE Kept
  BY <1>3 DEF OpenUncreated, Idle, PressCreate, OnPage, InsertCase, AfterInsertCase,
     Fault, NoFault, RejectText, InserDevice, GetCaseId
<1>4. ASSUME
        \/ MakeStore
        \/ \E s \in {"Acquire", "Analysis"} : MakeSub(s)
        \/ UpdateCasePath
        \/ OpenStored
        \/ \E dev \in DeviceIds : AttachDevice(dev)
      PROVE Kept
  BY <1>4 DEF MakeStore, StoreFails, Fault, NoFault, MakeSub, AfterSub,
     UpdateCasePath, SetPath, RowFound, OpenStored, SetGlobals, AttachDevice,
     CreateStorage, OnPage
<1>5. CASE UNCHANGED vars
  BY <1>5
<1> QED BY <1>1, <1>2, <1>3, <1>4, <1>5 DEF Next

-----------------------------------------------------------------------------
(* Types.                                                                  *)

LEMMA NoTargetType == NoTarget \in Target
BY DEF NoTarget, Target

LEMMA TargetType ==
  ASSUME WizardTypes, wizPath # NoPath, NEW id \in CaseIds \union {NoId, None}
  PROVE  [by |-> "wizard", dir |-> Below(wizPath.dir, id), id |-> id,
          dev |-> wizDev] \in Target
<1>1. id \in Int
  BY IdAssumption DEF NoId, None
<1>2. wizPath.dir \in Dir
  BY DEF WizardTypes, Path
<1>3. Below(wizPath.dir, id) \in Dir
  BY <1>1, <1>2, BelowDir
<1> QED BY <1>3 DEF WizardTypes, Target

LEMMA TargetPath ==
  ASSUME StoreSteps, InStore, NEW slash \in BOOLEAN
  PROVE  [dir |-> target.dir, slash |-> slash] \in Path
BY DEF StoreSteps, Path

LEMMA SetPathTypes ==
  ASSUME DbTypes, StoreSteps, InStore, NEW slash \in BOOLEAN,
         target.id \in ids, SetPath(slash), UNCHANGED <<ids, investigator, devices>>
  PROVE  DbTypes'
<1> DEFINE p == [dir |-> target.dir, slash |-> slash]
<1>1. p \in Path
  BY TargetPath
<1>2. casePath' = [casePath EXCEPT ![target.id] = p]
  BY DEF SetPath
<1>3. casePath' \in [CaseIds -> Path \union {NoPath}]
  BY <1>1, <1>2 DEF DbTypes
<1>4. created' \in SUBSET ids'
  BY DEF SetPath, DbTypes
<1> QED BY <1>3, <1>4 DEF DbTypes

LEMMA IdsAreInts == CaseIds \subseteq Int
<1> SUFFICES ASSUME NEW c \in CaseIds PROVE c \in Int
  OBVIOUS
<1>1. c \in Nat
  BY IdAssumption
<1> QED BY <1>1

LEMMA RowType ==
  ASSUME ListTypes, NEW r \in table
  PROVE  /\ r.id \in CaseIds /\ r.id \in Int /\ r.dev \in DeviceIds
         /\ r.path \in Path \union {NoPath}
<1>1. r \in Row
  BY DEF ListTypes
<1>2. r.id \in CaseIds /\ r.dev \in DeviceIds /\ r.path \in Path \union {NoPath}
  BY <1>1 DEF Row
<1> QED BY <1>2, IdsAreInts

LEMMA FaultType ==
  ASSUME TypeOK, Fault \/ NoFault
  PROVE  faults' \in 0..MaxFaults
BY BoundAssumption DEF TypeOK, Fault, NoFault

LEMMA ListedType ==
  ASSUME DbTypes, SessionTypes, user # NoUser
  PROVE  Listed \subseteq Row
<1> SUFFICES ASSUME NEW d \in devices, d[1] \in ids
    PROVE [id |-> d[1], dev |-> d[2], path |-> casePath[d[1]],
           created |-> d[1] \in created, inv |-> user] \in Row
  BY DEF Listed
<1>1. d[1] \in CaseIds /\ d[2] \in DeviceIds
  BY DEF DbTypes
<1>2. casePath[d[1]] \in Path \union {NoPath} /\ user \in Users
  BY <1>1 DEF DbTypes, SessionTypes
<1> QED BY <1>1, <1>2 DEF Row

(* A session that forgets everything is well typed.                        *)
LEMMA DropType ==
  ASSUME DropWizard
  PROVE  WizardTypes' /\ RunTypes'
BY NoTargetType DEF DropWizard, WizardTypes, RunTypes

LEMMA ForgetType ==
  ASSUME TypeOK, Forget, Fault \/ NoFault
  PROVE  TypeOK'
<1>1. DbTypes' /\ DiskTypes'
  BY DEF TypeOK, Forget, DbTypes, DiskTypes, dbVars, diskVars
<1>2. SessionTypes' /\ ListTypes'
  BY DEF Forget, SessionTypes, ListTypes
<1> QED BY <1>1, <1>2, DropType, FaultType DEF TypeOK, Forget

LEMMA NextTypeOK ==
  TypeOK /\ InSession /\ StoreSteps /\ ByList /\ FreshCase /\ KnownIds /\ [Next]_vars
    => TypeOK'
<1> SUFFICES ASSUME TypeOK, InSession, StoreSteps, ByList, FreshCase, KnownIds, [Next]_vars
    PROVE TypeOK'
  OBVIOUS
<1>0. /\ DbTypes /\ DiskTypes /\ SessionTypes /\ ListTypes /\ WizardTypes /\ RunTypes
      /\ (Fault \/ NoFault => faults' \in 0..MaxFaults)
  BY FaultType DEF TypeOK
<1> USE DEF dbVars, diskVars, caseVars, listVars, wizardVars, runVars, vars
<1>1. ASSUME NEW u \in Users, Login(u) PROVE TypeOK'
  <2>1. DbTypes' /\ DiskTypes' /\ ListTypes' /\ WizardTypes' /\ RunTypes'
    BY <1>1, <1>0 DEF Login, DbTypes, DiskTypes, ListTypes, WizardTypes, RunTypes
  <2>2. SessionTypes'
    BY <1>1, <1>0 DEF Login, SessionTypes
  <2>3. Fault \/ NoFault
    BY <1>1 DEF Login, NoFault
  <2> QED BY <1>0, <2>1, <2>2, <2>3 DEF TypeOK
<1>2. ASSUME Logout PROVE TypeOK'
  BY <1>2, ForgetType DEF Logout
<1>3. ASSUME Crash PROVE TypeOK'
  BY <1>3, ForgetType DEF Crash
<1>4. ASSUME Refresh PROVE TypeOK'
  <2>1. DbTypes' /\ DiskTypes' /\ SessionTypes' /\ WizardTypes' /\ RunTypes'
    BY <1>4, <1>0 DEF Refresh, PopulateCases, Fault, NoFault, Idle, DbTypes,
       DiskTypes, SessionTypes, WizardTypes, RunTypes
  <2>2. ListTypes'
    BY <1>4, <1>0, ListedType DEF Refresh, PopulateCases, Fault, NoFault, Idle,
       ListTypes
  <2>3. Fault \/ NoFault
    BY <1>4 DEF Refresh, PopulateCases, Fault, NoFault, Idle
  <2> QED BY <1>0, <2>1, <2>2, <2>3 DEF TypeOK
<1>5. ASSUME NEW r \in table, SelectRow(r) PROVE TypeOK'
  <2>1. DbTypes' /\ DiskTypes' /\ SessionTypes' /\ WizardTypes' /\ RunTypes'
    BY <1>5, <1>0 DEF SelectRow, Idle, DbTypes, DiskTypes, SessionTypes, WizardTypes,
       RunTypes
  <2>2. ListTypes'
    BY <1>5, <1>0, RowType DEF SelectRow, Idle, ListTypes
  <2>3. Fault \/ NoFault
    BY <1>5 DEF SelectRow, Idle, NoFault
  <2> QED BY <1>0, <2>1, <2>2, <2>3 DEF TypeOK
<1>6. ASSUME NEW r \in table, OpenCreated(r) PROVE TypeOK'
  <2>1. DbTypes' /\ DiskTypes' /\ WizardTypes' /\ RunTypes'
    BY <1>6, <1>0 DEF OpenCreated, SetGlobals, Idle, DbTypes, DiskTypes, WizardTypes,
       RunTypes
  <2>2. ListTypes'
    BY <1>6, <1>0, RowType DEF OpenCreated, SetGlobals, Idle, ListTypes
  <2>3. SessionTypes'
    BY <1>6, <1>0, RowType DEF OpenCreated, SetGlobals, Idle, SessionTypes
  <2>4. Fault \/ NoFault
    BY <1>6 DEF OpenCreated, SetGlobals, Idle, NoFault
  <2> QED BY <1>0, <2>1, <2>2, <2>3, <2>4 DEF TypeOK
<1>7. ASSUME NEW r \in table, NEW root \in Roots, OpenUncreated(r, root) PROVE TypeOK'
  <2>1. DbTypes' /\ DiskTypes' /\ SessionTypes' /\ WizardTypes'
    BY <1>7, <1>0 DEF OpenUncreated, Idle, DbTypes, DiskTypes, SessionTypes, WizardTypes
  <2>2. ListTypes'
    BY <1>7, <1>0, RowType DEF OpenUncreated, Idle, ListTypes
  <2>3. RunTypes'
    BY <1>7, <1>0, RowType, RootDir DEF OpenUncreated, Idle, RunTypes, Target
  <2>4. Fault \/ NoFault
    BY <1>7 DEF OpenUncreated, Idle, NoFault
  <2> QED BY <1>0, <2>1, <2>2, <2>3, <2>4 DEF TypeOK
<1>8. ASSUME NEW c \in ids, NEW u \in Users, TransferCase(c, u) PROVE TypeOK'
  <2>1. DiskTypes' /\ SessionTypes' /\ ListTypes' /\ WizardTypes' /\ RunTypes'
    BY <1>8, <1>0 DEF TransferCase, Idle, DiskTypes, SessionTypes, ListTypes,
       WizardTypes, RunTypes
  <2>2. DbTypes'
    BY <1>8, <1>0 DEF TransferCase, Idle, DbTypes
  <2>3. Fault \/ NoFault
    BY <1>8 DEF TransferCase, Idle, NoFault
  <2> QED BY <1>0, <2>1, <2>2, <2>3 DEF TypeOK
<1>9. ASSUME OpenWizard PROVE TypeOK'
  <2>1. DbTypes' /\ DiskTypes' /\ SessionTypes' /\ ListTypes' /\ RunTypes'
    BY <1>9, <1>0 DEF OpenWizard, Idle, DbTypes, DiskTypes, SessionTypes, ListTypes,
       RunTypes
  <2>2. WizardTypes'
    BY <1>9, <1>0 DEF OpenWizard, Idle, WizardTypes
  <2>3. Fault \/ NoFault
    BY <1>9 DEF OpenWizard, Idle, NoFault
  <2> QED BY <1>0, <2>1, <2>2, <2>3 DEF TypeOK
<1>10. ASSUME TurnPage PROVE TypeOK'
  <2>1. DbTypes' /\ DiskTypes' /\ SessionTypes' /\ ListTypes' /\ RunTypes'
    BY <1>10, <1>0 DEF TurnPage, OnPage, DbTypes, DiskTypes, SessionTypes, ListTypes,
       RunTypes
  <2>2. WizardTypes'
    BY <1>10, <1>0 DEF TurnPage, OnPage, WizardTypes
  <2>3. Fault \/ NoFault
    BY <1>10 DEF TurnPage, OnPage, NoFault
  <2> QED BY <1>0, <2>1, <2>2, <2>3 DEF TypeOK
<1>11. ASSUME CloseWizard PROVE TypeOK'
  <2>1. DbTypes' /\ DiskTypes' /\ SessionTypes'
    BY <1>11, <1>0 DEF CloseWizard, DropWizard, PopulateCases, Fault, NoFault,
       DbTypes, DiskTypes, SessionTypes
  <2>2. ListTypes'
    BY <1>11, <1>0, ListedType DEF CloseWizard, DropWizard, PopulateCases, Fault,
       NoFault, ListTypes, InSession
  <2>3. WizardTypes'
    BY <1>11, <1>0, DropType DEF CloseWizard, DropWizard, PopulateCases, Fault,
       NoFault, WizardTypes
  <2>4. RunTypes'
    BY <1>11, <1>0, DropType DEF CloseWizard, DropWizard, PopulateCases, Fault,
       NoFault, RunTypes
  <2>5. Fault \/ NoFault
    BY <1>11 DEF CloseWizard, DropWizard, PopulateCases, Fault, NoFault
  <2> QED BY <1>0, <2>1, <2>2, <2>3, <2>4, <2>5 DEF TypeOK
<1>12. ASSUME OpenFromWizard PROVE TypeOK'
  <2>1. DbTypes' /\ DiskTypes' /\ ListTypes' /\ WizardTypes' /\ RunTypes'
    BY <1>12, <1>0 DEF OpenFromWizard, SetGlobals, OnPage, DbTypes, DiskTypes,
       ListTypes, WizardTypes, RunTypes
  <2>2. SessionTypes'
    BY <1>12, <1>0 DEF OpenFromWizard, SetGlobals, OnPage, SessionTypes, WizardTypes
  <2>3. Fault \/ NoFault
    BY <1>12 DEF OpenFromWizard, SetGlobals, OnPage, NoFault
  <2> QED BY <1>0, <2>1, <2>2, <2>3 DEF TypeOK
<1>13. ASSUME NEW root \in Roots, ChooseLocation(root) PROVE TypeOK'
  <2>1. DbTypes' /\ DiskTypes' /\ SessionTypes' /\ ListTypes' /\ RunTypes'
    BY <1>13, <1>0 DEF ChooseLocation, OnPage, DbTypes, DiskTypes, SessionTypes,
       ListTypes, RunTypes
  <2>2. WizardTypes'
    BY <1>13, <1>0, RootPath DEF ChooseLocation, OnPage, WizardTypes
  <2>3. Fault \/ NoFault
    BY <1>13 DEF ChooseLocation, OnPage, NoFault
  <2> QED BY <1>0, <2>1, <2>2, <2>3 DEF TypeOK
<1>14. ASSUME NEW text \in DeviceIds \union {NotANumber}, PressCreate(text) PROVE TypeOK'
  <2>1. DbTypes' /\ DiskTypes' /\ SessionTypes' /\ ListTypes' /\ WizardTypes'
    BY <1>14, <1>0 DEF PressCreate, OnPage, DbTypes, DiskTypes, SessionTypes,
       ListTypes, WizardTypes
  <2>2. RunTypes'
    BY <1>14, <1>0 DEF PressCreate, OnPage, RunTypes
  <2>3. Fault \/ NoFault
    BY <1>14 DEF PressCreate, OnPage, NoFault
  <2> QED BY <1>0, <2>1, <2>2, <2>3 DEF TypeOK
<1>15. ASSUME InsertCase PROVE TypeOK'
  <2>1. DiskTypes' /\ SessionTypes' /\ ListTypes'
    BY <1>15, <1>0 DEF InsertCase, AfterInsertCase, Fault, NoFault, DiskTypes,
       SessionTypes, ListTypes
  <2>2. DbTypes'
    BY <1>15, <1>0 DEF InsertCase, AfterInsertCase, Fault, NoFault, DbTypes,
       SessionTypes
  <2>3. WizardTypes'
    BY <1>15, <1>0 DEF InsertCase, AfterInsertCase, Fault, NoFault, WizardTypes
  <2>4. RunTypes'
    BY <1>15, <1>0, TargetType DEF InsertCase, AfterInsertCase, Fault, NoFault,
       RunTypes, WizardTypes
  <2>5. Fault \/ NoFault
    BY <1>15 DEF InsertCase, AfterInsertCase, Fault, NoFault
  <2> QED BY <1>0, <2>1, <2>2, <2>3, <2>4, <2>5 DEF TypeOK
<1>16. ASSUME RejectText PROVE TypeOK'
  <2>1. DbTypes' /\ DiskTypes' /\ SessionTypes' /\ ListTypes' /\ WizardTypes'
    BY <1>16, <1>0 DEF RejectText, DbTypes, DiskTypes, SessionTypes, ListTypes,
       WizardTypes
  <2>2. RunTypes'
    BY <1>16, <1>0 DEF RejectText, RunTypes
  <2>3. Fault \/ NoFault
    BY <1>16 DEF RejectText, NoFault
  <2> QED BY <1>0, <2>1, <2>2, <2>3 DEF TypeOK
<1>17. ASSUME InserDevice PROVE TypeOK'
  <2>1. DiskTypes' /\ SessionTypes' /\ ListTypes'
    BY <1>17, <1>0 DEF InserDevice, Fault, NoFault, DiskTypes, SessionTypes, ListTypes
  <2>2. DbTypes'
    BY <1>17, <1>0 DEF InserDevice, Fault, NoFault, DbTypes, FreshCase, RunTypes
  <2>3. WizardTypes'
    BY <1>17, <1>0 DEF InserDevice, Fault, NoFault, WizardTypes, RunTypes
  <2>4. RunTypes'
    BY <1>17, <1>0 DEF InserDevice, Fault, NoFault, RunTypes
  <2>5. Fault \/ NoFault
    BY <1>17 DEF InserDevice, Fault, NoFault
  <2> QED BY <1>0, <2>1, <2>2, <2>3, <2>4, <2>5 DEF TypeOK
<1>18. ASSUME GetCaseId PROVE TypeOK'
  <2>1. DbTypes' /\ DiskTypes' /\ SessionTypes' /\ ListTypes'
    BY <1>18, <1>0 DEF GetCaseId, AfterInsertCase, Fault, NoFault, DbTypes, DiskTypes,
       SessionTypes, ListTypes
  <2>2. WizardTypes'
    BY <1>18, <1>0 DEF GetCaseId, AfterInsertCase, Fault, NoFault, WizardTypes, RunTypes
  <2>3. RunTypes'
    BY <1>18, <1>0, TargetType DEF GetCaseId, AfterInsertCase, Fault, NoFault, RunTypes
  <2>4. Fault \/ NoFault
    BY <1>18 DEF GetCaseId, AfterInsertCase, Fault, NoFault
  <2> QED BY <1>0, <2>1, <2>2, <2>3, <2>4 DEF TypeOK
<1>19. ASSUME MakeStore PROVE TypeOK'
  <2>1. DbTypes' /\ SessionTypes' /\ ListTypes'
    BY <1>19, <1>0 DEF MakeStore, StoreFails, Fault, NoFault, DbTypes, SessionTypes,
       ListTypes
  <2>2. DiskTypes'
    BY <1>19, <1>0 DEF MakeStore, StoreFails, Fault, NoFault, DiskTypes, StoreSteps,
       InStore, Subs
  <2>3. WizardTypes'
    BY <1>19, <1>0 DEF MakeStore, StoreFails, Fault, NoFault, WizardTypes
  <2>4. RunTypes'
    BY <1>19, <1>0 DEF MakeStore, StoreFails, Fault, NoFault, RunTypes
  <2>5. Fault \/ NoFault
    BY <1>19 DEF MakeStore, StoreFails, Fault, NoFault
  <2> QED BY <1>0, <2>1, <2>2, <2>3, <2>4, <2>5 DEF TypeOK
<1>20. ASSUME NEW s \in {"Acquire", "Analysis"}, MakeSub(s) PROVE TypeOK'
  <2>1. DbTypes' /\ SessionTypes' /\ ListTypes'
    BY <1>20, <1>0 DEF MakeSub, AfterSub, StoreFails, Fault, NoFault, DbTypes,
       SessionTypes, ListTypes
  <2>2. DiskTypes'
    BY <1>20, <1>0 DEF MakeSub, AfterSub, StoreFails, Fault, NoFault, DiskTypes,
       StoreSteps, InStore, Subs
  <2>3. WizardTypes'
    BY <1>20, <1>0 DEF MakeSub, AfterSub, StoreFails, Fault, NoFault, WizardTypes
  <2>4. RunTypes'
    BY <1>20, <1>0 DEF MakeSub, AfterSub, StoreFails, Fault, NoFault, RunTypes
  <2>5. Fault \/ NoFault
    BY <1>20 DEF MakeSub, AfterSub, StoreFails, Fault, NoFault
  <2> QED BY <1>0, <2>1, <2>2, <2>3, <2>4, <2>5 DEF TypeOK
<1>21. ASSUME UpdateCasePath PROVE TypeOK'
  <2>1. DiskTypes' /\ SessionTypes' /\ ListTypes'
    BY <1>21, <1>0 DEF UpdateCasePath, SetPath, RowFound, Fault, NoFault, DiskTypes,
       SessionTypes, ListTypes
  <2>2. DbTypes'
    <3>1. ASSUME RowFound, SetPath(TRUE) PROVE DbTypes'
      BY <1>21, <1>0, <3>1, SetPathTypes DEF UpdateCasePath, RowFound, InStore
    <3>2. ASSUME UNCHANGED <<casePath, created>> PROVE DbTypes'
      BY <1>21, <1>0, <3>2 DEF UpdateCasePath, DbTypes
    <3> QED BY <1>21, <3>1, <3>2 DEF UpdateCasePath
  <2>3. WizardTypes'
    BY <1>21, <1>0, TargetPath DEF UpdateCasePath, SetPath, RowFound, Fault, NoFault,
       WizardTypes, InStore
  <2>4. RunTypes'
    BY <1>21, <1>0 DEF UpdateCasePath, SetPath, RowFound, Fault, NoFault, RunTypes
  <2>5. Fault \/ NoFault
    BY <1>21 DEF UpdateCasePath, SetPath, RowFound, Fault, NoFault
  <2> QED BY <1>0, <2>1, <2>2, <2>3, <2>4, <2>5 DEF TypeOK
<1>22. ASSUME OpenStored PROVE TypeOK'
  <2>1. DiskTypes' /\ ListTypes' /\ WizardTypes'
    BY <1>22, <1>0 DEF OpenStored, SetPath, SetGlobals, Fault, NoFault, DiskTypes,
       ListTypes, WizardTypes
  <2>2. DbTypes'
    <3>1. ASSUME SetPath(FALSE) PROVE DbTypes'
      BY <1>22, <1>0, <3>1, SetPathTypes DEF OpenStored, InStore, ByList
    <3>2. ASSUME UNCHANGED <<casePath, created>> PROVE DbTypes'
      BY <1>22, <1>0, <3>2 DEF OpenStored, DbTypes
    <3> QED BY <1>22, <3>1, <3>2 DEF OpenStored
  <2>3. SessionTypes'
    BY <1>22, <1>0, TargetPath DEF OpenStored, SetPath, SetGlobals, Fault, NoFault,
       SessionTypes, InStore, Target, RunTypes, ByList, DbTypes
  <2>4. RunTypes'
    BY <1>22, <1>0, NoTargetType DEF OpenStored, SetPath, SetGlobals, Fault, NoFault,
       RunTypes
  <2>5. Fault \/ NoFault
    BY <1>22 DEF OpenStored, SetPath, SetGlobals, Fault, NoFault
  <2> QED BY <1>0, <2>1, <2>2, <2>3, <2>4, <2>5 DEF TypeOK
<1>23. ASSUME OpenAddDevice PROVE TypeOK'
  <2>1. DbTypes' /\ DiskTypes' /\ SessionTypes' /\ ListTypes' /\ RunTypes'
    BY <1>23, <1>0 DEF OpenAddDevice, Idle, DbTypes, DiskTypes, SessionTypes,
       ListTypes, RunTypes
  <2>2. WizardTypes'
    BY <1>23, <1>0 DEF OpenAddDevice, Idle, WizardTypes
  <2>3. Fault \/ NoFault
    BY <1>23 DEF OpenAddDevice, Idle, NoFault
  <2> QED BY <1>0, <2>1, <2>2, <2>3 DEF TypeOK
<1>24. ASSUME CloseAddDevice PROVE TypeOK'
  <2>1. DbTypes' /\ DiskTypes' /\ SessionTypes' /\ ListTypes' /\ RunTypes'
    BY <1>24, <1>0 DEF CloseAddDevice, OnPage, DbTypes, DiskTypes, SessionTypes,
       ListTypes, RunTypes
  <2>2. WizardTypes'
    BY <1>24, <1>0 DEF CloseAddDevice, OnPage, WizardTypes
  <2>3. Fault \/ NoFault
    BY <1>24 DEF CloseAddDevice, OnPage, NoFault
  <2> QED BY <1>0, <2>1, <2>2, <2>3 DEF TypeOK
<1>25. ASSUME NEW dev \in DeviceIds, AttachDevice(dev) PROVE TypeOK'
  <2>1. SessionTypes' /\ ListTypes' /\ WizardTypes' /\ RunTypes'
    BY <1>25, <1>0 DEF AttachDevice, CreateStorage, OnPage, SessionTypes, ListTypes,
       WizardTypes, RunTypes
  <2>2. DbTypes'
    BY <1>25, <1>0 DEF AttachDevice, CreateStorage, OnPage, DbTypes, KnownIds
  <2>3. DiskTypes'
    BY <1>25, <1>0, ConcatDir, DeviceAssumption DEF AttachDevice, CreateStorage,
       OnPage, DiskTypes, SessionTypes, Subs
  <2>4. Fault \/ NoFault
    BY <1>25 DEF AttachDevice, CreateStorage, OnPage, NoFault
  <2> QED BY <1>0, <2>1, <2>2, <2>3, <2>4 DEF TypeOK
<1>26. CASE UNCHANGED vars
  BY <1>26, <1>0 DEF TypeOK, DbTypes, DiskTypes, SessionTypes, ListTypes, WizardTypes,
    RunTypes
<1> QED BY <1>1, <1>2, <1>3, <1>4, <1>5, <1>6, <1>7, <1>8, <1>9, <1>10, <1>11, <1>12,
   <1>13, <1>14, <1>15, <1>16, <1>17, <1>18, <1>19, <1>20, <1>21, <1>22, <1>23, <1>24,
   <1>25, <1>26 DEF Next

-----------------------------------------------------------------------------
(* Sessions.                                                               *)
LEMMA NextInSession ==
  InSession /\ [Next]_vars
    => InSession'
<1> SUFFICES ASSUME InSession, [Next]_vars
    PROVE InSession'
  OBVIOUS
<1> USE DEF InSession, Idle, OnPage, dbVars, diskVars, caseVars, listVars, wizardVars,
   runVars, vars
<1>1. ASSUME
        \/ \E u \in Users : Login(u)
        \/ Logout
        \/ Crash
        \/ Refresh
        \/ \E r \in table : SelectRow(r)
        \/ \E r \in table : OpenCreated(r)
        \/ \E c \in ids, u \in Users : TransferCase(c, u)
      PROVE InSession'
  BY <1>1 DEF Login, Logout, Forget, DropWizard, NoFault, Idle, Crash, Fault, Refresh,
     PopulateCases, SelectRow, OpenCreated, SetGlobals, TransferCase
<1>2. ASSUME
        \/ OpenWizard
        \/ TurnPage
        \/ CloseWizard
        \/ \E root \in Roots : ChooseLocation(root)
        \/ OpenAddDevice
        \/ CloseAddDevice
      PROVE InSession'
  BY <1>2 DEF OpenWizard, Idle, TurnPage, OnPage, CloseWizard, DropWizard,
     PopulateCases, Fault, NoFault, ChooseLocation, OpenAddDevice, CloseAddDevice
<1>3. ASSUME OpenFromWizard PROVE InSession'
  BY <1>3 DEF OpenFromWizard, SetGlobals, OnPage, OnPage
<1>4. ASSUME
        \/ \E r \in table, root \in Roots : OpenUncreated(r, root)
        \/ \E text \in DeviceIds \union {NotANumber} : PressCreate(text)
        \/ InsertCase
        \/ RejectText
        \/ InserDevice
        \/ GetCaseId
      PROVE InSession'
  BY <1>4 DEF OpenUncreated, Idle, PressCreate, OnPage, InsertCase, AfterInsertCase,
     Fault, NoFault, RejectText, InserDevice, GetCaseId
<1>5. ASSUME
        \/ MakeStore
        \/ \E s \in {"Acquire", "Analysis"} : MakeSub(s)
        \/ UpdateCasePath
        \/ OpenStored
        \/ \E dev \in DeviceIds : AttachDevice(dev)
      PROVE InSession'
  BY <1>5 DEF MakeStore, StoreFails, Fault, NoFault, MakeSub, AfterSub,
     UpdateCasePath, SetPath, RowFound, OpenStored, SetGlobals, AttachDevice,
     CreateStorage, OnPage
<1>6. CASE UNCHANGED vars
  BY <1>6
<1> QED BY <1>1, <1>2, <1>3, <1>4, <1>5, <1>6 DEF Next

-----------------------------------------------------------------------------
(* The store under construction.                                           *)
LEMMA NextStoreSteps ==
  TypeOK /\ StoreSteps /\ [Next]_vars
    => StoreSteps'
<1> SUFFICES ASSUME TypeOK, StoreSteps, [Next]_vars
    PROVE StoreSteps'
  OBVIOUS
<1>0. /\ ListTypes /\ (wizPath # NoPath => wizPath.dir \in Dir)
      /\ wizId \in Int /\ lastId \in Int /\ NoId \in Int
  BY IdsAreInts DEF TypeOK, WizardTypes, RunTypes, Path, NoId, None
<1> USE DEF StoreSteps, InStore, dbVars, diskVars, caseVars, listVars, wizardVars,
   runVars, vars
<1>1. ASSUME
        \/ \E u \in Users : Login(u)
        \/ Logout
        \/ Crash
        \/ Refresh
        \/ \E r \in table : SelectRow(r)
        \/ \E r \in table : OpenCreated(r)
        \/ \E c \in ids, u \in Users : TransferCase(c, u)
      PROVE StoreSteps'
  BY <1>1 DEF Login, Logout, Forget, DropWizard, NoFault, Idle, Crash, Fault, Refresh,
     PopulateCases, SelectRow, OpenCreated, SetGlobals, TransferCase
<1>2. ASSUME
        \/ OpenWizard
        \/ TurnPage
        \/ CloseWizard
        \/ OpenFromWizard
        \/ \E root \in Roots : ChooseLocation(root)
        \/ OpenAddDevice
        \/ CloseAddDevice
      PROVE StoreSteps'
  BY <1>2 DEF OpenWizard, Idle, TurnPage, OnPage, CloseWizard, DropWizard,
     PopulateCases, Fault, NoFault, OpenFromWizard, SetGlobals, ChooseLocation,
     OpenAddDevice, CloseAddDevice
<1>3. ASSUME
        \/ \E text \in DeviceIds \union {NotANumber} : PressCreate(text)
        \/ RejectText
        \/ InserDevice
      PROVE StoreSteps'
  BY <1>3 DEF PressCreate, OnPage, RejectText, InserDevice, Fault, NoFault
<1>4. ASSUME NEW r \in table, NEW root \in Roots, OpenUncreated(r, root) PROVE StoreSteps'
  BY <1>4, <1>0, RowType, RootDir DEF OpenUncreated, Idle
<1>5. ASSUME InsertCase PROVE StoreSteps'
  BY <1>5, <1>0, BelowDir DEF InsertCase, AfterInsertCase, Fault, NoFault
<1>6. ASSUME GetCaseId PROVE StoreSteps'
  BY <1>6, <1>0, BelowDir DEF GetCaseId, AfterInsertCase, Fault, NoFault
<1>7. ASSUME
        \/ MakeStore
        \/ \E s \in {"Acquire", "Analysis"} : MakeSub(s)
        \/ UpdateCasePath
        \/ OpenStored
        \/ \E dev \in DeviceIds : AttachDevice(dev)
      PROVE StoreSteps'
  BY <1>7 DEF MakeStore, StoreFails, Fault, NoFault, MakeSub, AfterSub,
     UpdateCasePath, SetPath, RowFound, OpenStored, SetGlobals, AttachDevice,
     CreateStorage, OnPage
<1>8. CASE UNCHANGED vars
  BY <1>8
<1> QED BY <1>1, <1>2, <1>3, <1>4, <1>5, <1>6, <1>7, <1>8 DEF Next

-----------------------------------------------------------------------------
(* The list's handler.                                                     *)
LEMMA NextByList ==
  TypeOK /\ ByList /\ ByWizard /\ InSession /\ KnownIds /\ ListStaysValid /\ [Next]_vars
    => ByList'
<1> SUFFICES ASSUME TypeOK, ByList, ByWizard, InSession, KnownIds, ListStaysValid, [Next]_vars
    PROVE ByList'
  OBVIOUS
<1> USE DEF ByList, InStore, dbVars, diskVars, caseVars, listVars, wizardVars, runVars,
   vars
<1>1. ASSUME
        \/ \E u \in Users : Login(u)
        \/ Logout
        \/ Crash
        \/ Refresh
        \/ \E r \in table : SelectRow(r)
        \/ \E r \in table : OpenCreated(r)
        \/ \E c \in ids, u \in Users : TransferCase(c, u)
      PROVE ByList'
  BY <1>1 DEF Login, Logout, Forget, DropWizard, NoFault, Idle, Crash, Fault, Refresh,
     PopulateCases, SelectRow, OpenCreated, SetGlobals, TransferCase
<1>2. ASSUME
        \/ OpenWizard
        \/ TurnPage
        \/ CloseWizard
        \/ OpenFromWizard
        \/ \E root \in Roots : ChooseLocation(root)
        \/ OpenAddDevice
        \/ CloseAddDevice
      PROVE ByList'
  BY <1>2 DEF OpenWizard, Idle, TurnPage, OnPage, CloseWizard, DropWizard,
     PopulateCases, Fault, NoFault, OpenFromWizard, SetGlobals, ChooseLocation,
     OpenAddDevice, CloseAddDevice
<1>3. ASSUME
        \/ \E text \in DeviceIds \union {NotANumber} : PressCreate(text)
        \/ InsertCase
        \/ RejectText
        \/ InserDevice
        \/ GetCaseId
      PROVE ByList'
  BY <1>3 DEF PressCreate, OnPage, InsertCase, AfterInsertCase, Fault, NoFault,
     RejectText, InserDevice, GetCaseId
<1>4. ASSUME NEW r \in table, NEW root \in Roots, OpenUncreated(r, root) PROVE ByList'
  BY <1>4 DEF OpenUncreated, Idle, KnownIds, ListStaysValid
<1>5. ASSUME
        \/ MakeStore
        \/ \E s \in {"Acquire", "Analysis"} : MakeSub(s)
        \/ UpdateCasePath
        \/ OpenStored
        \/ \E dev \in DeviceIds : AttachDevice(dev)
      PROVE ByList'
  BY <1>5 DEF MakeStore, StoreFails, Fault, NoFault, MakeSub, AfterSub,
     UpdateCasePath, SetPath, RowFound, OpenStored, SetGlobals, AttachDevice,
     CreateStorage, OnPage
<1>6. CASE UNCHANGED vars
  BY <1>6
<1> QED BY <1>1, <1>2, <1>3, <1>4, <1>5, <1>6 DEF Next

-----------------------------------------------------------------------------
(* The wizard's handler.                                                   *)
LEMMA NextByWizard ==
  TypeOK /\ ByList /\ ByWizard /\ FreshCase /\ [Next]_vars
    => ByWizard'
<1> SUFFICES ASSUME TypeOK, ByList, ByWizard, FreshCase, [Next]_vars
    PROVE ByWizard'
  OBVIOUS
<1> USE DEF ByWizard, InStore, dbVars, diskVars, caseVars, listVars, wizardVars,
   runVars, vars
<1>1. ASSUME
        \/ \E u \in Users : Login(u)
        \/ Logout
        \/ Crash
        \/ Refresh
        \/ \E r \in table : SelectRow(r)
        \/ \E r \in table : OpenCreated(r)
        \/ \E c \in ids, u \in Users : TransferCase(c, u)
      PROVE ByWizard'
  BY <1>1 DEF Login, Logout, Forget, DropWizard, NoFault, Idle, Crash, Fault, Refresh,
     PopulateCases, SelectRow, OpenCreated, SetGlobals, TransferCase
<1>2. ASSUME
        \/ OpenWizard
        \/ TurnPage
        \/ CloseWizard
        \/ OpenFromWizard
        \/ \E root \in Roots : ChooseLocation(root)
        \/ OpenAddDevice
        \/ CloseAddDevice
      PROVE ByWizard'
  BY <1>2 DEF OpenWizard, Idle, TurnPage, OnPage, CloseWizard, DropWizard,
     PopulateCases, Fault, NoFault, OpenFromWizard, SetGlobals, ChooseLocation,
     OpenAddDevice, CloseAddDevice
<1>3. ASSUME
        \/ \E r \in table, root \in Roots : OpenUncreated(r, root)
        \/ \E text \in DeviceIds \union {NotANumber} : PressCreate(text)
        \/ InsertCase
        \/ RejectText
        \/ InserDevice
        \/ GetCaseId
      PROVE ByWizard'
  BY <1>3 DEF OpenUncreated, Idle, PressCreate, OnPage, InsertCase, AfterInsertCase,
     Fault, NoFault, RejectText, InserDevice, GetCaseId
<1>4. ASSUME
        \/ MakeStore
        \/ \E s \in {"Acquire", "Analysis"} : MakeSub(s)
        \/ UpdateCasePath
        \/ OpenStored
        \/ \E dev \in DeviceIds : AttachDevice(dev)
      PROVE ByWizard'
  BY <1>4 DEF MakeStore, StoreFails, Fault, NoFault, MakeSub, AfterSub,
     UpdateCasePath, SetPath, RowFound, OpenStored, SetGlobals, AttachDevice,
     CreateStorage, OnPage
<1>5. CASE UNCHANGED vars
  BY <1>5
<1> QED BY <1>1, <1>2, <1>3, <1>4, <1>5 DEF Next

-----------------------------------------------------------------------------
(* The case of the running press.                                          *)
LEMMA NextFreshCase ==
  TypeOK /\ ByList /\ ByWizard /\ FreshCase /\ [Next]_vars
    => FreshCase'
<1> SUFFICES ASSUME TypeOK, ByList, ByWizard, FreshCase, [Next]_vars
    PROVE FreshCase'
  OBVIOUS
<1> USE DEF FreshCase, InStore, dbVars, diskVars, caseVars, listVars, wizardVars,
   runVars, vars
<1>1. ASSUME
        \/ \E u \in Users : Login(u)
        \/ Logout
        \/ Crash
        \/ Refresh
        \/ \E r \in table : SelectRow(r)
        \/ \E r \in table : OpenCreated(r)
        \/ \E c \in ids, u \in Users : TransferCase(c, u)
      PROVE FreshCase'
  BY <1>1 DEF Login, Logout, Forget, DropWizard, NoFault, Idle, Crash, Fault, Refresh,
     PopulateCases, SelectRow, OpenCreated, SetGlobals, TransferCase
<1>2. ASSUME
        \/ OpenWizard
        \/ TurnPage
        \/ CloseWizard
        \/ OpenFromWizard
        \/ \E root \in Roots : ChooseLocation(root)
        \/ OpenAddDevice
        \/ CloseAddDevice
      PROVE FreshCase'
  BY <1>2 DEF OpenWizard, Idle, TurnPage, OnPage, CloseWizard, DropWizard,
     PopulateCases, Fault, NoFault, OpenFromWizard, SetGlobals, ChooseLocation,
     OpenAddDevice, CloseAddDevice
<1>3. ASSUME
        \/ \E r \in table, root \in Roots : OpenUncreated(r, root)
        \/ \E text \in DeviceIds \union {NotANumber} : PressCreate(text)
        \/ RejectText
        \/ InserDevice
        \/ GetCaseId
      PROVE FreshCase'
  BY <1>3 DEF OpenUncreated, Idle, PressCreate, OnPage, RejectText, InserDevice,
     Fault, NoFault, GetCaseId, AfterInsertCase
<1>4. ASSUME InsertCase PROVE FreshCase'
  BY <1>4, IdsAreInts DEF InsertCase, AfterInsertCase, Fault, NoFault, TypeOK, DbTypes
<1>5. ASSUME
        \/ MakeStore
        \/ \E s \in {"Acquire", "Analysis"} : MakeSub(s)
        \/ UpdateCasePath
        \/ OpenStored
        \/ \E dev \in DeviceIds : AttachDevice(dev)
      PROVE FreshCase'
  BY <1>5 DEF MakeStore, StoreFails, Fault, NoFault, MakeSub, AfterSub,
     UpdateCasePath, SetPath, RowFound, OpenStored, SetGlobals, AttachDevice,
     CreateStorage, OnPage
<1>6. CASE UNCHANGED vars
  BY <1>6
<1> QED BY <1>1, <1>2, <1>3, <1>4, <1>5, <1>6 DEF Next

-----------------------------------------------------------------------------
(* Ids that were given.                                                    *)
LEMMA NextKnownIds ==
  FreshCase /\ KnownIds /\ [Next]_vars
    => KnownIds'
<1> SUFFICES ASSUME FreshCase, KnownIds, [Next]_vars
    PROVE KnownIds'
  OBVIOUS
<1> USE DEF KnownIds, dbVars, diskVars, caseVars, listVars, wizardVars, runVars, vars
<1>1. ASSUME
        \/ \E u \in Users : Login(u)
        \/ Logout
        \/ Crash
        \/ \E r \in table : SelectRow(r)
        \/ \E r \in table : OpenCreated(r)
        \/ \E c \in ids, u \in Users : TransferCase(c, u)
      PROVE KnownIds'
  BY <1>1 DEF Login, Logout, Forget, DropWizard, NoFault, Idle, Crash, Fault,
     SelectRow, OpenCreated, SetGlobals, TransferCase
<1>2. ASSUME Refresh PROVE KnownIds'
  BY <1>2 DEF Refresh, PopulateCases, Fault, NoFault, Idle, Listed
<1>3. ASSUME
        \/ OpenWizard
        \/ TurnPage
        \/ OpenFromWizard
        \/ \E root \in Roots : ChooseLocation(root)
        \/ OpenAddDevice
        \/ CloseAddDevice
      PROVE KnownIds'
  BY <1>3 DEF OpenWizard, Idle, TurnPage, OnPage, OpenFromWizard, SetGlobals,
     ChooseLocation, OpenAddDevice, CloseAddDevice
<1>4. ASSUME CloseWizard PROVE KnownIds'
  BY <1>4 DEF CloseWizard, DropWizard, PopulateCases, Fault, NoFault, Listed
<1>5. ASSUME
        \/ \E r \in table, root \in Roots : OpenUncreated(r, root)
        \/ \E text \in DeviceIds \union {NotANumber} : PressCreate(text)
        \/ InsertCase
        \/ RejectText
        \/ InserDevice
      PROVE KnownIds'
  BY <1>5 DEF OpenUncreated, Idle, PressCreate, OnPage, InsertCase, AfterInsertCase,
     Fault, NoFault, RejectText, InserDevice
<1>6. ASSUME GetCaseId PROVE KnownIds'
  BY <1>6 DEF GetCaseId, AfterInsertCase, Fault, NoFault, FreshCase
<1>7. ASSUME
        \/ MakeStore
        \/ \E s \in {"Acquire", "Analysis"} : MakeSub(s)
        \/ UpdateCasePath
        \/ OpenStored
        \/ \E dev \in DeviceIds : AttachDevice(dev)
      PROVE KnownIds'
  BY <1>7 DEF MakeStore, StoreFails, Fault, NoFault, MakeSub, AfterSub,
     UpdateCasePath, SetPath, RowFound, OpenStored, SetGlobals, AttachDevice,
     CreateStorage, OnPage
<1>8. CASE UNCHANGED vars
  BY <1>8
<1> QED BY <1>1, <1>2, <1>3, <1>4, <1>5, <1>6, <1>7, <1>8 DEF Next

-----------------------------------------------------------------------------
(* Stores.                                                                 *)

(* The last step of CreateStore finds it complete.                         *)
LEMMA StoreDone ==
  ASSUME StoreSteps, pc = "update"
  PROVE  target.dir \in Dir /\ IsStoreOf(target.dir, target.id)
BY DEF StoreSteps, InStore, IsStoreOf, HasStore, Subs

LEMMA StoresStay ==
  ASSUME fs \subseteq fs', NEW d, NEW c, IsStoreOf(d, c)
  PROVE  IsStoreOf(d, c)'
BY DEF IsStoreOf, HasStore, Last

LEMMA StoreMadeStays ==
  ASSUME fs \subseteq fs', wizId' = wizId, StoreMade
  PROVE  StoreMade'
BY DEF StoreMade, IsStoreOf, HasStore, Last

(* The row is written when the store is complete.                          *)
LEMMA SetPathHasStore ==
  ASSUME TypeOK, CreatedHasStore, StoreSteps, pc = "update", target.id \in ids,
         NEW slash \in BOOLEAN, SetPath(slash), fs' = fs
  PROVE  CreatedHasStore'
<1> SUFFICES ASSUME NEW c \in created'
    PROVE (casePath[c] # NoPath /\ IsStoreOf(casePath[c].dir, c))'
  BY DEF CreatedHasStore
<1> DEFINE p == [dir |-> target.dir, slash |-> slash]
<1>1. target.id \in CaseIds /\ created \subseteq CaseIds
  BY DEF TypeOK, DbTypes
<1>2. CASE c = target.id
  <2>1. casePath'[c] = p
    BY <1>1, <1>2 DEF SetPath, TypeOK, DbTypes
  <2>2. p # NoPath
    BY TargetPath, PathIsNotNull DEF InStore
  <2>3. IsStoreOf(target.dir, c)
    BY <1>2, StoreDone
  <2> QED BY <2>1, <2>2, <2>3 DEF IsStoreOf, HasStore, Last
<1>3. CASE c # target.id
  <2>1. c \in created /\ casePath'[c] = casePath[c]
    BY <1>1, <1>3 DEF SetPath, TypeOK, DbTypes
  <2> QED BY <2>1 DEF CreatedHasStore, IsStoreOf, HasStore, Last
<1> QED BY <1>2, <1>3

(* What PopulateCases reads is valid when it reads it.                     *)
LEMMA ListedValid ==
  ASSUME TypeOK, CreatedHasStore, NEW r \in Listed
  PROVE  /\ r.inv = user /\ <<r.id, r.dev>> \in devices
         /\ r.created => r.path # NoPath /\ IsStoreOf(r.path.dir, r.id)
<1>1. PICK d \in devices :
        r = [id |-> d[1], dev |-> d[2], path |-> casePath[d[1]],
             created |-> d[1] \in created, inv |-> user]
  BY DEF Listed
<1>2. d = <<d[1], d[2]>>
  BY DEF TypeOK, DbTypes
<1>3. r.created => d[1] \in created
  BY <1>1
<1> QED BY <1>1, <1>2, <1>3 DEF CreatedHasStore

-----------------------------------------------------------------------------
(* The store of a created case.                                            *)
LEMMA NextCreatedHasStore ==
  TypeOK /\ CreatedHasStore /\ StoreSteps /\ ByList /\ [Next]_vars
    => CreatedHasStore'
<1> SUFFICES ASSUME TypeOK, CreatedHasStore, StoreSteps, ByList, [Next]_vars
    PROVE CreatedHasStore'
  OBVIOUS
<1>0. created \subseteq created' /\ fs \subseteq fs' /\ devices \subseteq devices'
  BY NothingIsDeleted
<1> USE DEF CreatedHasStore, IsStoreOf, HasStore, Last, dbVars, diskVars, caseVars,
   listVars, wizardVars, runVars, vars
<1>1. ASSUME
        \/ \E u \in Users : Login(u)
        \/ Logout
        \/ Crash
        \/ Refresh
        \/ \E r \in table : SelectRow(r)
        \/ \E r \in table : OpenCreated(r)
        \/ \E c \in ids, u \in Users : TransferCase(c, u)
      PROVE CreatedHasStore'
  BY <1>1 DEF Login, Logout, Forget, DropWizard, NoFault, Idle, Crash, Fault, Refresh,
     PopulateCases, SelectRow, OpenCreated, SetGlobals, TransferCase
<1>2. ASSUME
        \/ OpenWizard
        \/ TurnPage
        \/ CloseWizard
        \/ OpenFromWizard
        \/ \E root \in Roots : ChooseLocation(root)
        \/ OpenAddDevice
        \/ CloseAddDevice
      PROVE CreatedHasStore'
  BY <1>2 DEF OpenWizard, Idle, TurnPage, OnPage, CloseWizard, DropWizard,
     PopulateCases, Fault, NoFault, OpenFromWizard, SetGlobals, ChooseLocation,
     OpenAddDevice, CloseAddDevice
<1>3. ASSUME
        \/ \E r \in table, root \in Roots : OpenUncreated(r, root)
        \/ \E text \in DeviceIds \union {NotANumber} : PressCreate(text)
        \/ InsertCase
        \/ RejectText
        \/ InserDevice
        \/ GetCaseId
      PROVE CreatedHasStore'
  BY <1>3 DEF OpenUncreated, Idle, PressCreate, OnPage, InsertCase, AfterInsertCase,
     Fault, NoFault, RejectText, InserDevice, GetCaseId
<1>4. ASSUME
        \/ MakeStore
        \/ \E s \in {"Acquire", "Analysis"} : MakeSub(s)
        \/ \E dev \in DeviceIds : AttachDevice(dev)
      PROVE CreatedHasStore'
  BY <1>4 DEF MakeStore, StoreFails, Fault, NoFault, MakeSub, AfterSub, AttachDevice,
     CreateStorage, OnPage
<1>5. ASSUME UpdateCasePath PROVE CreatedHasStore'
  <2>1. ASSUME RowFound, SetPath(TRUE) PROVE CreatedHasStore'
    BY <1>5, <2>1, SetPathHasStore DEF UpdateCasePath, RowFound
  <2>2. ASSUME UNCHANGED <<casePath, created>> PROVE CreatedHasStore'
    BY <1>5, <2>2 DEF UpdateCasePath
  <2> QED BY <1>5, <2>1, <2>2 DEF UpdateCasePath
<1>6. ASSUME OpenStored PROVE CreatedHasStore'
  <2>1. target.id \in ids
    BY <1>6 DEF OpenStored, ByList, InStore
  <2>2. ASSUME SetPath(FALSE) PROVE CreatedHasStore'
    BY <1>6, <2>1, <2>2, SetPathHasStore DEF OpenStored
  <2>3. ASSUME UNCHANGED <<casePath, created>> PROVE CreatedHasStore'
    BY <1>6, <2>3 DEF OpenStored
  <2> QED BY <1>6, <2>2, <2>3 DEF OpenStored
<1>7. CASE UNCHANGED vars
  BY <1>7
<1> QED BY <1>1, <1>2, <1>3, <1>4, <1>5, <1>6, <1>7 DEF Next

-----------------------------------------------------------------------------
(* The maker of a store.                                                   *)
LEMMA NextMadeByHandler ==
  TypeOK /\ StoreSteps /\ MadeByHandler /\ [Next]_vars => MadeByHandler'
<1> SUFFICES ASSUME TypeOK, StoreSteps, MadeByHandler, [Next]_vars
    PROVE MadeByHandler'
  OBVIOUS
<1>0. fs \subseteq fs'
  BY NothingIsDeleted
<1> USE DEF MadeByHandler, dbVars, diskVars, caseVars, listVars, wizardVars, runVars,
   vars
<1>1. ASSUME
        \/ \E u \in Users : Login(u)
        \/ Logout
        \/ Crash
        \/ Refresh
        \/ \E r \in table : SelectRow(r)
        \/ \E r \in table : OpenCreated(r)
        \/ \E c \in ids, u \in Users : TransferCase(c, u)
      PROVE MadeByHandler'
  BY <1>1 DEF Login, Logout, Forget, DropWizard, NoFault, Idle, Crash, Fault, Refresh,
     PopulateCases, SelectRow, OpenCreated, SetGlobals, TransferCase
<1>2. ASSUME
        \/ OpenWizard
        \/ TurnPage
        \/ CloseWizard
        \/ OpenFromWizard
        \/ \E root \in Roots : ChooseLocation(root)
        \/ OpenAddDevice
        \/ CloseAddDevice
      PROVE MadeByHandler'
  BY <1>2 DEF OpenWizard, Idle, TurnPage, OnPage, CloseWizard, DropWizard,
     PopulateCases, Fault, NoFault, OpenFromWizard, SetGlobals, ChooseLocation,
     OpenAddDevice, CloseAddDevice
<1>3. ASSUME
        \/ \E r \in table, root \in Roots : OpenUncreated(r, root)
        \/ \E text \in DeviceIds \union {NotANumber} : PressCreate(text)
        \/ InsertCase
        \/ RejectText
        \/ InserDevice
        \/ GetCaseId
      PROVE MadeByHandler'
  BY <1>3 DEF OpenUncreated, Idle, PressCreate, OnPage, InsertCase, AfterInsertCase,
     Fault, NoFault, RejectText, InserDevice, GetCaseId
<1>4. ASSUME MakeStore PROVE MadeByHandler'
  <2>1. CASE pc' = "Acquire"
    <3>1. /\ <<target.dir, "self">> \notin fs
          /\ fs' = fs \union {<<target.dir, "self">>}
          /\ listMade' = listMade \union {d \in {target.dir} : target.by = "list"}
          /\ target' = target
      BY <1>4, <2>1 DEF MakeStore, StoreFails
    <3>2. target.dir \notin listMade
      BY <3>1
    <3>3. target'.by = "list" <=> target'.dir \in listMade'
      BY <3>1, <3>2
    <3>4. \A d \in listMade' : <<d, "self">> \in fs'
      BY <3>1
    <3> QED BY <3>3, <3>4
  <2>2. CASE pc' = "idle" /\ UNCHANGED listMade
    BY <2>2, <1>0
  <2> QED BY <1>4, <2>1, <2>2 DEF MakeStore, StoreFails
<1>5. ASSUME
        \/ \E s \in {"Acquire", "Analysis"} : MakeSub(s)
        \/ UpdateCasePath
        \/ OpenStored
        \/ \E dev \in DeviceIds : AttachDevice(dev)
      PROVE MadeByHandler'
  <2>1. UNCHANGED listMade
    BY <1>5 DEF MakeSub, UpdateCasePath, OpenStored, AttachDevice
  <2>2. pc' \in {"Acquire", "Analysis", "update"} =>
          pc \in {"Acquire", "Analysis", "update"} /\ UNCHANGED target
    BY <1>5 DEF MakeSub, AfterSub, StoreFails, UpdateCasePath, OpenStored, AttachDevice,
       OnPage
  <2> QED BY <2>1, <2>2, <1>0
<1>6. CASE UNCHANGED vars
  BY <1>6
<1> QED BY <1>1, <1>2, <1>3, <1>4, <1>5, <1>6 DEF Next

(* The path written for a store ends as its maker leaves it.               *)
LEMMA SetPathEnds ==
  ASSUME TypeOK, KnownPaths, MadeByHandler, CreatedHasStore, pc = "update",
         NEW slash \in BOOLEAN, slash <=> target.by = "wizard",
         target.id \in ids, SetPath(slash), listMade' = listMade,
         NEW c \in created'
  PROVE  EndsAsMade(casePath[c])'
<1>1. target.id \in CaseIds
  BY DEF TypeOK, DbTypes
<1>2. CASE c = target.id
  <2>1. casePath'[c] = [dir |-> target.dir, slash |-> slash]
    BY <1>1, <1>2 DEF SetPath, TypeOK, DbTypes
  <2>2. slash <=> target.dir \notin listMade
    BY DEF MadeByHandler, TypeOK, RunTypes, Target
  <2> QED BY <2>1, <2>2 DEF EndsAsMade
<1>3. CASE c # target.id
  <2>1. c \in created /\ casePath'[c] = casePath[c]
    BY <1>1, <1>3 DEF SetPath, TypeOK, DbTypes
  <2> QED BY <2>1 DEF KnownPaths, EndsAsMade
<1> QED BY <1>2, <1>3

LEMMA NextKnownPaths ==
  TypeOK /\ StoreSteps /\ MadeByHandler /\ KnownPaths /\ CreatedHasStore
  /\ ListStaysValid /\ ByList /\ [Next]_vars => KnownPaths'
<1> SUFFICES ASSUME TypeOK, StoreSteps, MadeByHandler, KnownPaths, CreatedHasStore,
                    ListStaysValid, ByList, [Next]_vars
    PROVE KnownPaths'
  OBVIOUS
<1> USE DEF dbVars, diskVars, caseVars, listVars, wizardVars, runVars, vars
<1>1. \A d : <<d, "self">> \in fs => (d \in listMade' <=> d \in listMade)
  BY MakerIsSettled
<1>2. (\A c \in created : EndsAsMade(casePath[c]))'
  <2>1. ASSUME UNCHANGED <<created, casePath>>
        PROVE  (\A c \in created : EndsAsMade(casePath[c]))'
    <3> SUFFICES ASSUME NEW c \in created PROVE EndsAsMade(casePath[c])'
      BY <2>1
    <3>1. <<casePath[c].dir, "self">> \in fs
      BY DEF CreatedHasStore, IsStoreOf, HasStore, Subs
    <3> QED BY <1>1, <2>1, <3>1 DEF KnownPaths, EndsAsMade
  <2>2. ASSUME UpdateCasePath \/ OpenStored
        PROVE  (\A c \in created : EndsAsMade(casePath[c]))'
    <3>1. pc = "update" /\ listMade' = listMade
      BY <2>2 DEF UpdateCasePath, OpenStored
    <3>2. CASE UpdateCasePath /\ RowFound /\ SetPath(TRUE)
      BY <3>1, <3>2, SetPathEnds DEF UpdateCasePath, RowFound
    <3>3. CASE OpenStored /\ SetPath(FALSE)
      <4>1. target.by = "list" /\ target.id \in ids
        BY <3>1, <3>3 DEF OpenStored, ByList, InStore
      <4> QED BY <3>1, <3>3, <4>1, SetPathEnds
    <3>4. CASE UNCHANGED <<created, casePath>>
      BY <2>1, <3>4
    <3> QED BY <2>2, <3>2, <3>3, <3>4 DEF UpdateCasePath, OpenStored
  <2>3. UpdateCasePath \/ OpenStored \/ UNCHANGED <<created, casePath>>
    BY DEF Next, Login, Logout, Crash, Forget, Refresh, SelectRow, OpenCreated,
       OpenUncreated, TransferCase, OpenWizard, TurnPage, CloseWizard, OpenFromWizard,
       ChooseLocation, PressCreate, InsertCase, RejectText, InserDevice, GetCaseId,
       MakeStore, MakeSub, OpenAddDevice, CloseAddDevice, AttachDevice
  <2> QED BY <2>1, <2>2, <2>3
<1>3. (\A r \in table : r.created => EndsAsMade(r.path))'
  <2>1. ASSUME NEW r \in table, r.created PROVE EndsAsMade(r.path)'
    <3>1. <<r.path.dir, "self">> \in fs
      BY <2>1 DEF ListStaysValid, IsStoreOf, HasStore, Subs
    <3> QED BY <1>1, <2>1, <3>1 DEF KnownPaths, EndsAsMade
  <2>2. ASSUME NEW r \in Listed, r.created, listMade' = listMade
        PROVE  EndsAsMade(r.path)'
    <3>1. PICK d \in devices :
            r = [id |-> d[1], dev |-> d[2], path |-> casePath[d[1]],
                 created |-> d[1] \in created, inv |-> user]
      BY DEF Listed
    <3>2. d[1] \in created /\ r.path = casePath[d[1]]
      BY <2>2, <3>1
    <3> QED BY <2>2, <3>2 DEF KnownPaths, EndsAsMade
  <2>3. \/ table' \subseteq table
        \/ table' = Listed /\ listMade' = listMade
    BY DEF Next, Login, Logout, Crash, Forget, Refresh, SelectRow, OpenCreated,
       OpenUncreated, TransferCase, OpenWizard, TurnPage, CloseWizard, OpenFromWizard,
       ChooseLocation, PressCreate, InsertCase, RejectText, InserDevice, GetCaseId,
       MakeStore, MakeSub, OpenAddDevice, CloseAddDevice, AttachDevice, PopulateCases,
       UpdateCasePath, OpenStored
  <2> QED BY <2>1, <2>2, <2>3
<1> QED BY <1>2, <1>3 DEF KnownPaths

-----------------------------------------------------------------------------
(* The open case.                                                         *)
LEMMA NextOpenedConsistently ==
  TypeOK /\ OpenedConsistently /\ ListStaysValid /\ StoreSteps /\ ByList
  /\ MadeByHandler /\ KnownPaths /\ [Next]_vars => OpenedConsistently'
<1> SUFFICES ASSUME TypeOK, OpenedConsistently, ListStaysValid, StoreSteps, ByList,
                    MadeByHandler, KnownPaths, [Next]_vars
    PROVE OpenedConsistently'
  OBVIOUS
<1>0. created \subseteq created' /\ fs \subseteq fs' /\ devices \subseteq devices'
  BY NothingIsDeleted
<1>1. ASSUME UNCHANGED caseVars PROVE OpenedConsistently'
  <2> SUFFICES ASSUME via = "list" PROVE OpenedConsistently'
    BY <1>1 DEF OpenedConsistently, caseVars
  <2>1. <<gbPath.dir, "self">> \in fs
    BY <1>1 DEF OpenedConsistently, IsStoreOf, HasStore, Subs
  <2>2. EndsAsMade(gbPath)'
    BY <1>1, <2>1, MakerIsSettled DEF OpenedConsistently, EndsAsMade, caseVars
  <2>3. IsStoreOf(gbPath.dir, gbId)'
    BY <1>1, <1>0 DEF OpenedConsistently, IsStoreOf, HasStore, Last, caseVars
  <2> QED BY <1>1, <1>0, <2>2, <2>3 DEF OpenedConsistently, caseVars
<1>2. ASSUME NEW r \in table, OpenCreated(r) PROVE OpenedConsistently'
  BY <1>2 DEF OpenCreated, SetGlobals, Idle, ListStaysValid, OpenedConsistently,
     IsStoreOf, HasStore, Last, KnownPaths, EndsAsMade, dbVars, diskVars
<1>3. ASSUME via' # "list" PROVE OpenedConsistently'
  BY <1>3 DEF OpenedConsistently
<1>4. ASSUME OpenStored PROVE OpenedConsistently'
  <2>1. IsStoreOf(target.dir, target.id) /\ <<target.id, target.dev>> \in devices
    BY <1>4, StoreDone DEF OpenStored, ByList, InStore
  <2>2. [dir |-> target.dir, slash |-> FALSE] # NoPath
    BY <1>4, TargetPath, PathIsNotNull DEF OpenStored, InStore
  <2>3. target.dir \in listMade
    BY <1>4 DEF OpenStored, MadeByHandler
  <2> QED BY <1>4, <2>1, <2>2, <2>3 DEF OpenStored, SetGlobals, OpenedConsistently,
     EndsAsMade, IsStoreOf, HasStore, Last, diskVars
<1>5. \/ UNCHANGED caseVars \/ via' # "list" \/ OpenStored
      \/ \E r \in table : OpenCreated(r)
  BY DEF Next, Login, Logout, Crash, Forget, Refresh, SelectRow, OpenUncreated,
     TransferCase, OpenWizard, TurnPage, CloseWizard, OpenFromWizard, SetGlobals,
     ChooseLocation, PressCreate, InsertCase, RejectText, InserDevice, GetCaseId,
     MakeStore, MakeSub, UpdateCasePath, OpenAddDevice, CloseAddDevice, AttachDevice,
     vars, caseVars
<1> QED BY <1>1, <1>2, <1>3, <1>4, <1>5

-----------------------------------------------------------------------------
(* The list.                                                              *)
LEMMA NextListStaysValid ==
  TypeOK /\ CreatedHasStore /\ ListStaysValid /\ InSession /\ [Next]_vars
    => ListStaysValid'
<1> SUFFICES ASSUME TypeOK, CreatedHasStore, ListStaysValid, InSession, [Next]_vars
    PROVE ListStaysValid'
  OBVIOUS
<1>0. created \subseteq created' /\ fs \subseteq fs' /\ devices \subseteq devices'
  BY NothingIsDeleted
<1> USE DEF ListStaysValid, IsStoreOf, HasStore, Last, dbVars, diskVars, caseVars,
   listVars, wizardVars, runVars, vars
<1>1. ASSUME
        \/ Logout
        \/ Crash
        \/ \E r \in table : SelectRow(r)
        \/ \E r \in table : OpenCreated(r)
        \/ \E c \in ids, u \in Users : TransferCase(c, u)
      PROVE ListStaysValid'
  BY <1>1 DEF Logout, Forget, DropWizard, NoFault, Idle, Crash, Fault, SelectRow,
     OpenCreated, SetGlobals, TransferCase
<1>2. ASSUME NEW u \in Users, Login(u) PROVE ListStaysValid'
  BY <1>2, NullAssumption DEF Login, TypeOK, ListTypes, Row, NullsDiffer
<1>3. ASSUME Refresh PROVE ListStaysValid'
  <2>1. CASE table' = Listed
    BY <1>3, <2>1, <1>0, ListedValid DEF Refresh
  <2>2. CASE table' = {}
    BY <2>2
  <2> QED BY <1>3, <2>1, <2>2 DEF Refresh, PopulateCases
<1>4. ASSUME
        \/ OpenWizard
        \/ TurnPage
        \/ OpenFromWizard
        \/ \E root \in Roots : ChooseLocation(root)
        \/ OpenAddDevice
        \/ CloseAddDevice
      PROVE ListStaysValid'
  BY <1>4 DEF OpenWizard, Idle, TurnPage, OnPage, OpenFromWizard, SetGlobals,
     ChooseLocation, OpenAddDevice, CloseAddDevice
<1>5. ASSUME CloseWizard PROVE ListStaysValid'
  <2>1. CASE table' = Listed
    BY <1>5, <2>1, <1>0, ListedValid DEF CloseWizard
  <2>2. CASE table' = {}
    BY <2>2
  <2> QED BY <1>5, <2>1, <2>2 DEF CloseWizard, PopulateCases
<1>6. ASSUME
        \/ \E r \in table, root \in Roots : OpenUncreated(r, root)
        \/ \E text \in DeviceIds \union {NotANumber} : PressCreate(text)
        \/ InsertCase
        \/ RejectText
        \/ InserDevice
        \/ GetCaseId
      PROVE ListStaysValid'
  BY <1>6 DEF OpenUncreated, Idle, PressCreate, OnPage, InsertCase, AfterInsertCase,
     Fault, NoFault, RejectText, InserDevice, GetCaseId
<1>7. ASSUME
        \/ MakeStore
        \/ \E s \in {"Acquire", "Analysis"} : MakeSub(s)
        \/ UpdateCasePath
        \/ OpenStored
        \/ \E dev \in DeviceIds : AttachDevice(dev)
      PROVE ListStaysValid'
  BY <1>7 DEF MakeStore, StoreFails, Fault, NoFault, MakeSub, AfterSub,
     UpdateCasePath, SetPath, RowFound, OpenStored, SetGlobals, AttachDevice,
     CreateStorage, OnPage
<1>8. CASE UNCHANGED vars
  BY <1>8
<1> QED BY <1>1, <1>2, <1>3, <1>4, <1>5, <1>6, <1>7, <1>8 DEF Next

-----------------------------------------------------------------------------
(* bInsert.                                                               *)
LEMMA NextInsertMeansStore ==
  TypeOK /\ StoreSteps /\ ByWizard /\ ByList /\ InsertMeansStore /\ [Next]_vars
    => InsertMeansStore'
<1> SUFFICES ASSUME TypeOK, StoreSteps, ByWizard, ByList, InsertMeansStore, [Next]_vars
    PROVE InsertMeansStore'
  OBVIOUS
<1>0. created \subseteq created' /\ fs \subseteq fs' /\ devices \subseteq devices'
  BY NothingIsDeleted
<1>00. /\ bInsert \in BOOLEAN
       /\ pc # "idle" => page # "last"
       /\ pc \in {"insert", "device", "caseid"} => page = "device"
       /\ InStore /\ bInsert => target.by = "wizard" /\ target.id = wizId
       /\ pc = "update" /\ target.by = "wizard" => target.id = wizId
       /\ pc \in {"mkdir", "Acquire", "Analysis", "update"} => InStore
  BY DEF TypeOK, WizardTypes, RunTypes, Target, InStore, ByList, ByWizard,
     InsertMeansStore
<1> USE DEF InsertMeansStore, dbVars, diskVars, caseVars, listVars, wizardVars,
   runVars, vars
<1>1. ASSUME
        \/ \E u \in Users : Login(u)
        \/ Logout
        \/ Crash
        \/ Refresh
        \/ \E r \in table : SelectRow(r)
        \/ \E r \in table : OpenCreated(r)
        \/ \E c \in ids, u \in Users : TransferCase(c, u)
      PROVE InsertMeansStore'
  BY <1>1, <1>0, StoreMadeStays DEF Login, Logout, Forget, DropWizard, NoFault, Idle,
     Crash, Fault, Refresh, PopulateCases, SelectRow, OpenCreated, SetGlobals,
     TransferCase
<1>2. ASSUME
        \/ OpenWizard
        \/ TurnPage
        \/ CloseWizard
        \/ OpenFromWizard
        \/ \E root \in Roots : ChooseLocation(root)
        \/ OpenAddDevice
        \/ CloseAddDevice
      PROVE InsertMeansStore'
  BY <1>2, <1>0, StoreMadeStays DEF OpenWizard, Idle, TurnPage, OnPage, CloseWizard,
     DropWizard, PopulateCases, Fault, NoFault, OpenFromWizard, SetGlobals,
     ChooseLocation, OpenAddDevice, CloseAddDevice
<1>3. ASSUME
        \/ \E r \in table, root \in Roots : OpenUncreated(r, root)
        \/ \E text \in DeviceIds \union {NotANumber} : PressCreate(text)
        \/ RejectText
      PROVE InsertMeansStore'
  BY <1>3, <1>0, StoreMadeStays DEF OpenUncreated, Idle, PressCreate, OnPage,
     RejectText
<1>4. ASSUME InsertCase PROVE InsertMeansStore'
  <2>1. (bInsert => page \in {"case", "device", "last"})'
    BY <1>4, <1>00 DEF InsertCase, AfterInsertCase, Fault, NoFault
  <2>2. (page = "last" => bInsert)'
    BY <1>4, <1>00 DEF InsertCase, AfterInsertCase, Fault, NoFault
  <2>3. (pc \in {"idle", "insert", "device"} /\ bInsert => StoreMade)'
    BY <1>4, <1>0, <1>00, StoreMadeStays DEF InsertCase, AfterInsertCase, Fault, NoFault
  <2> QED BY <2>1, <2>2, <2>3
<1>5. ASSUME InserDevice PROVE InsertMeansStore'
  <2>1. (bInsert => page \in {"case", "device", "last"})'
    BY <1>5, <1>00 DEF InserDevice, Fault, NoFault
  <2>2. (page = "last" => bInsert)'
    BY <1>5, <1>00 DEF InserDevice, Fault, NoFault
  <2>3. (pc \in {"idle", "insert", "device"} /\ bInsert => StoreMade)'
    BY <1>5, <1>0, <1>00, StoreMadeStays DEF InserDevice, Fault, NoFault
  <2> QED BY <2>1, <2>2, <2>3
<1>6. ASSUME GetCaseId PROVE InsertMeansStore'
  <2>1. (bInsert => page \in {"case", "device", "last"})'
    BY <1>6, <1>00 DEF GetCaseId, AfterInsertCase, Fault, NoFault
  <2>2. (page = "last" => bInsert)'
    BY <1>6, <1>00 DEF GetCaseId, AfterInsertCase, Fault, NoFault
  <2>3. (pc \in {"idle", "insert", "device"} /\ bInsert => StoreMade)'
    BY <1>6, <1>0, <1>00, StoreMadeStays DEF GetCaseId, AfterInsertCase, Fault, NoFault
  <2> QED BY <2>1, <2>2, <2>3
<1>7. ASSUME
        \/ \E dev \in DeviceIds : AttachDevice(dev)
      PROVE InsertMeansStore'
  BY <1>7, <1>0, StoreMadeStays DEF AttachDevice, CreateStorage, OnPage
<1>8. ASSUME MakeStore PROVE InsertMeansStore'
  <2>1. (bInsert => page \in {"case", "device", "last"})'
    BY <1>8, <1>00 DEF MakeStore, StoreFails, Fault, NoFault
  <2>2. (page = "last" => bInsert)'
    BY <1>8, <1>00 DEF MakeStore, StoreFails, Fault, NoFault
  <2>3. (pc \in {"idle", "insert", "device"} /\ bInsert => StoreMade)'
    BY <1>8, <1>0, <1>00, StoreMadeStays DEF MakeStore, StoreFails, Fault, NoFault
  <2> QED BY <2>1, <2>2, <2>3
<1>9. ASSUME NEW s \in {"Acquire", "Analysis"}, MakeSub(s) PROVE InsertMeansStore'
  <2>1. (bInsert => page \in {"case", "device", "last"})'
    BY <1>9, <1>00 DEF MakeSub, AfterSub, StoreFails, Fault, NoFault
  <2>2. (page = "last" => bInsert)'
    BY <1>9, <1>00 DEF MakeSub, AfterSub, StoreFails, Fault, NoFault
  <2>3. (pc \in {"idle", "insert", "device"} /\ bInsert => StoreMade)'
    BY <1>9, <1>0, <1>00, StoreMadeStays DEF MakeSub, AfterSub, StoreFails, Fault,
       NoFault
  <2> QED BY <2>1, <2>2, <2>3
<1>10. ASSUME UpdateCasePath PROVE InsertMeansStore'
  <2>1. (bInsert => page \in {"case", "device", "last"})'
    BY <1>10, <1>00 DEF UpdateCasePath, SetPath, RowFound, Fault, NoFault
  <2>0. StoreMade
    <3>1. <<target.dir, "self">> \in fs
      BY <1>10 DEF UpdateCasePath, StoreSteps
    <3>2. IsStoreOf(target.dir, wizId)
      BY <1>10, <1>00, StoreDone DEF UpdateCasePath
    <3> QED BY <3>1, <3>2 DEF StoreMade
  <2>2. (page = "last" => bInsert)'
    BY <1>10, <1>00 DEF UpdateCasePath, SetPath, RowFound, Fault, NoFault
  <2>3. (pc \in {"idle", "insert", "device"} /\ bInsert => StoreMade)'
    BY <1>10, <2>0, <1>0, <1>00, StoreMadeStays DEF UpdateCasePath, SetPath, RowFound,
       Fault, NoFault
  <2> QED BY <2>1, <2>2, <2>3
<1>11. ASSUME OpenStored PROVE InsertMeansStore'
  <2>1. (bInsert => page \in {"case", "device", "last"})'
    BY <1>11, <1>00 DEF OpenStored, SetPath, SetGlobals, Fault, NoFault
  <2>2. (page = "last" => bInsert)'
    BY <1>11, <1>00 DEF OpenStored, SetPath, SetGlobals, Fault, NoFault
  <2>3. (pc \in {"idle", "insert", "device"} /\ bInsert => StoreMade)'
    BY <1>11, <1>0, <1>00, StoreMadeStays DEF OpenStored, SetPath, SetGlobals, Fault,
       NoFault
  <2> QED BY <2>1, <2>2, <2>3
<1>12. CASE UNCHANGED vars
  BY <1>12, <1>0, StoreMadeStays
<1> QED BY <1>1, <1>2, <1>3, <1>4, <1>5, <1>6, <1>7, <1>8, <1>9, <1>10, <1>11, <1>12
   DEF Next

-----------------------------------------------------------------------------
(* The invariant.                                                          *)

LEMMA InitStoreInv == Init => StoreInv
<1> SUFFICES ASSUME Init PROVE StoreInv
  OBVIOUS
<1>1. TypeOK
  <2>1. DbTypes /\ DiskTypes
    BY DEF Init, DbTypes, DiskTypes
  <2>2. SessionTypes /\ ListTypes /\ WizardTypes
    BY DEF Init, SessionTypes, ListTypes, WizardTypes
  <2>3. RunTypes /\ faults \in 0..MaxFaults
    BY NoTargetType, BoundAssumption DEF Init, RunTypes
  <2> QED BY <2>1, <2>2, <2>3 DEF TypeOK
<1>2. CreatedHasStore /\ OpenedConsistently /\ ListStaysValid
  BY DEF Init, CreatedHasStore, OpenedConsistently, ListStaysValid
<1>3. /\ InSession /\ StoreSteps /\ MadeByHandler /\ KnownPaths
      /\ ByList /\ ByWizard /\ FreshCase
  BY DEF Init, InSession, StoreSteps, MadeByHandler, KnownPaths, ByList, ByWizard,
     FreshCase, InStore
<1>4. InsertMeansStore /\ KnownIds
  BY DEF Init, InsertMeansStore, KnownIds
<1> QED BY <1>1, <1>2, <1>3, <1>4 DEF StoreInv

LEMMA NextStoreInv == StoreInv /\ [Next]_vars => StoreInv'
BY NextTypeOK, NextInSession, NextStoreSteps, NextMadeByHandler, NextKnownPaths, NextByList, NextByWizard, NextFreshCase,
   NextKnownIds, NextCreatedHasStore, NextOpenedConsistently, NextListStaysValid,
   NextInsertMeansStore DEF StoreInv

LEMMA StoreInvariant == Spec => []StoreInv
BY InitStoreInv, NextStoreInv, PTL DEF Spec

-----------------------------------------------------------------------------
(* Theorems.                                                               *)

(* Every variable keeps its type.                                          *)
THEOREM TypeCorrect == Spec => []TypeOK
<1>1. StoreInv => TypeOK
  BY DEF StoreInv
<1> QED BY <1>1, StoreInvariant, PTL

(* case_created = 1 is never written before the store is complete, and     *)
(* stays true: whatever fails and wherever the program is killed.          *)
THEOREM CreatedCaseHasItsStore == Spec => []CreatedHasStore
<1>1. StoreInv => CreatedHasStore
  BY DEF StoreInv
<1> QED BY <1>1, StoreInvariant, PTL

(* The last page of the wizard is never reached without a store.           *)
THEOREM LastPageIsReachedWithStore == Spec => []LastPageHasStore
<1>1. StoreInv => LastPageHasStore
  BY DEF StoreInv, InsertMeansStore, LastPageHasStore
<1> QED BY <1>1, StoreInvariant, PTL

(* The list opens a case, its store and one of its devices together, with  *)
(* the slash that names files in the store if and only if the wizard made  *)
(* it.                                                                     *)
THEOREM ListOpensConsistently == Spec => []OpenedConsistently
<1>1. StoreInv => OpenedConsistently
  BY DEF StoreInv
<1> QED BY <1>1, StoreInvariant, PTL

(* A stale row of the list can still be opened, and is the user's.         *)
THEOREM ListIsValid == Spec => []ListStaysValid
<1>1. StoreInv => ListStaysValid
  BY DEF StoreInv
<1> QED BY <1>1, StoreInvariant, PTL

(* Two cases never share a store: Last tells their directories apart.      *)
NoSharedStore ==
  \A c, d \in created : c # d => casePath[c].dir # casePath[d].dir

(* No evidence of one created case is written into the store of another    *)
(* by following case_path.                                                 *)
THEOREM StoresAreNotShared == Spec => []NoSharedStore
<1>1. StoreInv => NoSharedStore
  BY DEF StoreInv, CreatedHasStore, NoSharedStore, IsStoreOf
<1> QED BY <1>1, StoreInvariant, PTL

(* A created case keeps its store unless a handler works on what it read   *)
(* before: a stale row, or the id of the press before.                     *)
THEOREM StoreMovesOnlyWhenStale == Spec => StoreMovesOnlyByStaleRead
<1> DEFINE A == /\ created \subseteq created'
                /\ \A c \in created : casePath'[c] # casePath[c] =>
                     /\ pc = "update" /\ target.id = c
                     /\ target.by = "wizard" => lastId = None
<1>1. StoreInv /\ [Next]_vars => [A]_vars
  <2> SUFFICES ASSUME StoreInv, [Next]_vars, NEW c \in created,
                      casePath'[c] # casePath[c]
      PROVE /\ pc = "update" /\ target.id = c
            /\ target.by = "wizard" => lastId = None
    BY NothingIsDeleted
  <2>1. c \in CaseIds /\ c # NoId
    BY IdAssumption DEF StoreInv, TypeOK, DbTypes, NoId
  <2>2. UpdateCasePath \/ OpenStored
    <3>1. casePath' # casePath
      OBVIOUS
    <3> QED BY <3>1 DEF Next, Login, Logout, Crash, Forget, Refresh, SelectRow,
       OpenCreated, OpenUncreated, TransferCase, OpenWizard, TurnPage, CloseWizard,
       OpenFromWizard, ChooseLocation, PressCreate, InsertCase, RejectText, InserDevice,
       GetCaseId, MakeStore, MakeSub, OpenAddDevice, CloseAddDevice, AttachDevice,
       dbVars, diskVars, vars
  <2>3. pc = "update" /\ (SetPath(TRUE) \/ SetPath(FALSE))
    BY <2>2 DEF UpdateCasePath, OpenStored
  <2>4. target.id = c
    BY <2>1, <2>3 DEF SetPath, StoreInv, TypeOK, DbTypes
  <2>5. target.by = "wizard" => lastId = None
    BY <2>1, <2>3, <2>4 DEF StoreInv, FreshCase, InStore
  <2> QED BY <2>3, <2>4, <2>5
<1> QED BY <1>1, StoreInvariant, PTL DEF Spec, StoreMovesOnlyByStaleRead
=============================================================================
