------------------------- MODULE AcquisitionProofs -------------------------
(***************************************************************************)
(* What is proved of Acquisition for every set of threads, tabs,           *)
(* partitions and cases and every bound on failures.                       *)
(***************************************************************************)
EXTENDS Acquisition, TLAPS

-----------------------------------------------------------------------------
(* Types, and that a running handler has a case and a tab to work with.    *)

LEMMA InitTypeInv == Init => TypeInv
<1> SUFFICES ASSUME Init PROVE TypeInv
  OBVIOUS
<1>1. NullJob \in JobType
  BY DEF NullJob, JobType
<1>2. TypeOK
  BY <1>1, BoundAssumption DEF Init, TypeOK, PC
<1>3. JobInv
  BY DEF Init, JobInv
<1> QED BY <1>2, <1>3 DEF TypeInv

(* The record Make gives a thread, and the row Logdata inserts.            *)
LEMMA MakeType ==
  ASSUME TypeInv, NEW t \in todo, NEW j \in Jobs, Make(t, j)
  PROVE  /\ pc' \in [Jobs -> PC] /\ job' \in [Jobs -> JobType]
         /\ job'[j] \in MadeJob /\ pc'[j] = "show"
         /\ \A i \in Jobs \ {j} : job'[i] = job[i] /\ pc'[i] = pc[i]
         /\ LogRow(t) \in HashFile
<1>1. t \in Task /\ tab \in Tabs /\ gbPath \in Cases
  BY DEF TypeInv, TypeOK, JobInv
<1>2. t.kind \in Kinds /\ t.part \in Partitions
  BY <1>1 DEF Task
<1>3. pc \in [Jobs -> PC] /\ job \in [Jobs -> JobType]
  BY DEF TypeInv, TypeOK
<1> DEFINE made == [kind |-> t.kind, part |-> t.part, tab |-> tab, case |-> gbPath]
<1>4. made \in MadeJob /\ made \in JobType
  BY <1>1, <1>2 DEF MadeJob, JobType
<1>5. pc' \in [Jobs -> PC] /\ pc'[j] = "show"
  BY <1>3 DEF Make, PC
<1>6. job' \in [Jobs -> JobType] /\ job'[j] = made
  BY <1>3, <1>4 DEF Make
<1>7. \A i \in Jobs \ {j} : job'[i] = job[i] /\ pc'[i] = pc[i]
  BY <1>3 DEF Make
<1>8. LogRow(t) \in HashFile
  BY <1>1, <1>2 DEF LogRow, HashFile
<1> QED BY <1>4, <1>5, <1>6, <1>7, <1>8

LEMMA LogdataType ==
  ASSUME TypeInv, NEW t \in todo, NEW j \in Jobs, LogRow(t) \in HashFile, Logdata(t, j)
  PROVE  log' \in SUBSET HashFile /\ unlogged' \in SUBSET Jobs /\ faults' \in 0..MaxFaults
BY BoundAssumption DEF TypeInv, TypeOK, Logdata, Fault

(* Go moves one thread.                                                    *)
LEMMA GoType ==
  ASSUME TypeInv, NEW j \in Jobs, NEW here, NEW next \in PC, Go(j, here, next)
  PROVE  /\ pc' \in [Jobs -> PC] /\ pc[j] = here /\ pc'[j] = next
         /\ \A i \in Jobs \ {j} : pc'[i] = pc[i]
BY DEF TypeInv, TypeOK, Go

LEMMA NextTypeInv == TypeInv /\ [Next]_vars => TypeInv'
<1> SUFFICES ASSUME TypeInv, [Next]_vars PROVE TypeInv'
  OBVIOUS
<1>a. TypeOK /\ JobInv
  BY DEF TypeInv
<1>b. \A j \in Jobs : pc[j] # "free" => job[j] \in MadeJob
  BY <1>a DEF JobInv
<1>1. ASSUME NEW c \in Cases, NEW t \in Tabs, OpenCase(c, t) PROVE TypeInv'
  BY <1>1, <1>a DEF OpenCase, clickVars, jobVars, storeVars, TypeInv, TypeOK, JobInv, UiIdle
<1>2. ASSUME Logout PROVE TypeInv'
  BY <1>2, <1>a DEF Logout, clickVars, jobVars, storeVars, TypeInv, TypeOK, JobInv, UiIdle
<1>3. ASSUME NEW kinds \in SUBSET Kinds, NEW parts \in SUBSET Partitions,
             Acquire(kinds, parts)
      PROVE  TypeInv'
  <2>1. todo' \in SUBSET Task
    BY <1>3 DEF Acquire, Task
  <2> QED BY <1>3, <1>a, <2>1 DEF Acquire, caseVars, jobVars, storeVars, TypeInv, TypeOK, JobInv
<1>4. ASSUME NEW t \in Task, NEW j \in Jobs, StartLogical(t, j) PROVE TypeInv'
  <2>1. t \in todo /\ Make(t, j) /\ Logdata(t, j)
    BY <1>4 DEF StartLogical, IsNext
  <2>2. TypeOK'
    BY <1>4, <1>a, <2>1, MakeType, LogdataType
       DEF StartLogical, caseVars, storeVars, TypeOK
  <2>3. JobInv'
    BY <1>4, <1>a, <2>1, MakeType DEF StartLogical, caseVars, storeVars, TypeOK, JobInv
  <2> QED BY <2>2, <2>3 DEF TypeInv
<1>5. ASSUME NEW t \in Task, NEW j \in Jobs, StartPhysical(t, j) PROVE TypeInv'
  <2>1. t \in todo /\ Make(t, j)
    BY <1>5 DEF StartPhysical, IsNext
  <2>2. [job |-> j, holds |-> Mounts(t.part)] \in Listener
    BY DEF Task, Mounts, Listener
  <2>3. /\ listeners' \in SUBSET Listener
        /\ log' \in SUBSET HashFile /\ unlogged' \in SUBSET Jobs
        /\ faults' \in 0..MaxFaults
    <3>1. CASE Logdata(t, j) /\ listeners' = listeners \union
                 {[job |-> j, holds |-> Mounts(t.part)]}
      BY <3>1, <1>a, <2>1, <2>2, MakeType, LogdataType DEF TypeOK
    <3>2. CASE Fault /\ log' = log \union {LogRow(t)} /\ UNCHANGED <<unlogged, listeners>>
      BY <3>2, <1>a, <2>1, MakeType, BoundAssumption DEF TypeOK, Fault
    <3> QED BY <1>5, <3>1, <3>2 DEF StartPhysical
  <2>4. crowded' \in SUBSET Jobs
    <3>1. Waiting \in SUBSET Jobs
      BY <1>a DEF Waiting, TypeOK, Listener
    <3> QED BY <1>5, <1>a, <3>1 DEF StartPhysical, TypeOK
  <2>5. TypeOK'
    BY <1>5, <1>a, <2>1, <2>3, <2>4, MakeType DEF StartPhysical, caseVars, storeVars, TypeOK
  <2>6. JobInv'
    BY <1>5, <1>a, <2>1, MakeType DEF StartPhysical, caseVars, storeVars, TypeOK, JobInv
  <2> QED BY <2>5, <2>6 DEF TypeInv
<1>6. ASSUME NEW t \in Task, NoPhysical(t) PROVE TypeInv'
  <2>1. t \in todo /\ gbPath \in Cases
    BY <1>6, <1>a DEF NoPhysical, IsNext, JobInv
  <2>2. LogRow(t) \in HashFile
    BY <2>1 DEF LogRow, HashFile, Task
  <2> QED BY <1>6, <1>a, <2>1, <2>2, BoundAssumption
       DEF NoPhysical, caseVars, jobVars, storeVars, Fault, TypeInv, TypeOK, JobInv
<1>7. ASSUME StopListening PROVE TypeInv'
  BY <1>7, <1>a DEF StopListening, caseVars, jobVars, storeVars, TypeInv, TypeOK, JobInv
<1>8. ASSUME NEW j \in Jobs, ShowBar(j) PROVE TypeInv'
  <2>1. CASE Disposed(j)
    BY <1>8, <1>a, <2>1, GoType
       DEF ShowBar, Shared, caseVars, clickVars, storeVars, TypeInv, TypeOK, JobInv, PC
  <2>2. CASE ~Disposed(j)
    <3>1. pc' \in [Jobs -> PC] /\ \A i \in Jobs \ {j} : pc'[i] = pc[i]
      BY <1>8, <2>2, GoType DEF ShowBar, PC
    <3>2. /\ pc[j] = "show" /\ job[j] \in MadeJob
          /\ pc'[j] = IF job[j].kind = "logical" THEN "pull" ELSE "path"
      BY <1>8, <1>b, <2>2, GoType DEF ShowBar, PC
    <3>3. job[j].kind \in Kinds
      BY <3>2 DEF MadeJob
    <3>4. bar' \in [Tabs -> BOOLEAN]
      BY <1>8, <1>a, <2>2 DEF ShowBar, TypeOK
    <3>5. TypeOK'
      BY <1>8, <1>a, <3>1, <3>4 DEF ShowBar, Shared, caseVars, clickVars, storeVars, TypeOK
    <3>6. JobInv'
      BY <1>8, <1>a, <3>1, <3>2, <3>3
         DEF ShowBar, Shared, caseVars, clickVars, JobInv, Kinds
    <3> QED BY <3>5, <3>6 DEF TypeInv
  <2> QED BY <2>1, <2>2
<1>9. ASSUME NEW j \in Jobs, PullRoot(j) PROVE TypeInv'
  <2>1. trees' \in [Cases -> [Partitions -> SUBSET Jobs]]
    <3>1. trees \in [Cases -> [Partitions -> SUBSET Jobs]]
      BY <1>a DEF TypeOK
    <3>2. CASE trees' = [c \in Cases |-> [p \in Partitions |->
                  IF c = PullDir(j) /\ p = job[j].part
                  THEN trees[c][p] \union {j} ELSE trees[c][p]]]
      BY <3>1, <3>2
    <3> QED BY <1>9, <3>1, <3>2 DEF PullRoot
  <2>2. faults' \in 0..MaxFaults
    BY <1>9, <1>a, BoundAssumption DEF PullRoot, TypeOK, Fault
  <2>3. acquireDirs' \in SUBSET Cases
    BY <1>9, <1>a DEF PullRoot, PullDir, TypeOK
  <2> QED BY <1>9, <1>a, <2>1, <2>2, <2>3, GoType
       DEF PullRoot, Shared, caseVars, clickVars, TypeInv, TypeOK, JobInv, PC
<1>10. ASSUME NEW j \in Jobs, ReadPath(j) PROVE TypeInv'
  BY <1>10, <1>a, GoType
     DEF ReadPath, Shared, caseVars, clickVars, storeVars, TypeInv, TypeOK, JobInv, PC
<1>11. ASSUME NEW j \in Jobs, StartClient(j) PROVE TypeInv'
  <2>1. images' \in [Cases -> [Partitions -> SUBSET Written]]
    <3>1. images' = [c \in Cases |-> [p \in Partitions |->
                      IF c = dir[j] /\ p = job[j].part THEN {} ELSE images[c][p]]]
      BY <1>11 DEF StartClient, SetImage
    <3> QED BY <1>a, <3>1 DEF TypeOK
  <2>2. listeners' \in SUBSET Listener /\ from' \in [Jobs -> SUBSET Listener]
    <3>1. listeners \in SUBSET Listener /\ from \in [Jobs -> SUBSET Listener]
      BY <1>a DEF TypeOK
    <3>2. CASE UNCHANGED listeners /\ from' = [from EXCEPT ![j] = {}]
      BY <3>1, <3>2
    <3>3. ASSUME NEW l \in listeners, listeners' = listeners \ {l},
                 from' = [from EXCEPT ![j] = {l}]
          PROVE  listeners' \in SUBSET Listener /\ from' \in [Jobs -> SUBSET Listener]
      BY <3>1, <3>3
    <3> QED BY <1>11, <3>2, <3>3 DEF StartClient
  <2> QED BY <1>11, <1>a, <2>1, <2>2, GoType
       DEF StartClient, Shared, caseVars, clickVars, TypeInv, TypeOK, JobInv, PC
<1>12. ASSUME NEW j \in Jobs, ClientHasNoFile(j) PROVE TypeInv'
  BY <1>12, <1>a, GoType
     DEF ClientHasNoFile, Shared, caseVars, clickVars, storeVars, TypeInv, TypeOK, JobInv, PC
<1>13. ASSUME NEW j \in Jobs, NoClient(j) PROVE TypeInv'
  BY <1>13, <1>a, GoType, BoundAssumption
     DEF NoClient, AfterError, Fault, Shared, caseVars, clickVars, storeVars, TypeInv,
         TypeOK, JobInv, PC
<1>14. ASSUME NEW j \in Jobs, EndClient(j) PROVE TypeInv'
  <2> DEFINE copied == {[by |-> j, from |-> l.job, holds |-> l.holds] : l \in from[j]}
  <2>1. copied \in SUBSET Written
    <3>1. \A l \in from[j] : l \in Listener
      BY <1>a DEF TypeOK
    <3> QED BY <3>1 DEF Listener, Written
  <2>2. images' \in [Cases -> [Partitions -> SUBSET Written]]
    <3>1. ASSUME NEW c \in Cases, NEW p \in Partitions, c = dir[j], p = job[j].part
          PROVE  images[dir[j]][job[j].part] \union copied \in SUBSET Written
      BY <1>a, <2>1, <3>1 DEF TypeOK
    <3>2. images' = [c \in Cases |-> [p \in Partitions |->
             IF c = dir[j] /\ p = job[j].part
             THEN images[dir[j]][job[j].part] \union copied ELSE images[c][p]]]
      BY <1>14 DEF EndClient, SetImage
    <3> HIDE DEF copied
    <3> QED BY <1>a, <3>1, <3>2 DEF TypeOK
  <2> QED BY <1>14, <1>a, <2>2, GoType
       DEF EndClient, Shared, caseVars, clickVars, TypeInv, TypeOK, JobInv, PC
<1>15. ASSUME NEW j \in Jobs, MakeHashDir(j) PROVE TypeInv'
  BY <1>15, <1>a, GoType
     DEF MakeHashDir, Shared, caseVars, clickVars, TypeInv, TypeOK, JobInv, PC
<1>16. ASSUME NEW j \in Jobs, OpenHash(j) PROVE TypeInv'
  <2>1. CASE MayOpen(HashIn(j, gbPath))
    <3>1. gbPath \in Cases
      BY <1>a, <2>1 DEF MayOpen, HashIn, TypeOK
    <3>2. hashes' \in [Cases -> [Partitions -> SUBSET Digest]]
      <4>1. hashes' = [c \in Cases |-> [p \in Partitions |->
               IF HashIn(j, gbPath) = [case |-> c, kind |-> "logical", part |-> p]
               THEN {} ELSE hashes[c][p]]]
        BY <1>16, <2>1 DEF OpenHash
      <4>2. \A c \in Cases, p \in Partitions : hashes[c][p] \in SUBSET Digest
        BY <1>a DEF TypeOK
      <4> QED BY <4>1, <4>2
    <3>3. hdir' \in [Jobs -> Cases \union {NoCase}] /\ hdir'[j] \in Cases
          /\ \A i \in Jobs \ {j} : hdir'[i] = hdir[i]
      BY <1>16, <1>a, <2>1, <3>1 DEF OpenHash, TypeOK
    <3>4. /\ pc' \in [Jobs -> PC] /\ pc[j] = "open" /\ pc'[j] = "digest"
          /\ \A i \in Jobs \ {j} : pc'[i] = pc[i]
      BY <1>16, <2>1, GoType DEF OpenHash, PC
    <3>5. TypeOK'
      BY <1>16, <1>a, <3>2, <3>3, <3>4 DEF OpenHash, Shared, caseVars, clickVars, TypeOK
    <3>6. JobInv'
      BY <1>16, <1>a, <3>3, <3>4 DEF OpenHash, Shared, caseVars, clickVars, JobInv
    <3> QED BY <3>5, <3>6 DEF TypeInv
  <2>2. CASE ~MayOpen(HashIn(j, gbPath))
    <3>1. Go(j, "open", "hide") /\ UNCHANGED <<hdir, hashes>>
      BY <1>16, <2>2 DEF OpenHash, AfterError
    <3> QED BY <1>16, <1>a, <3>1, GoType
         DEF OpenHash, Shared, caseVars, clickVars, TypeInv, TypeOK, JobInv, PC
  <2> QED BY <2>1, <2>2
<1>17. ASSUME NEW j \in Jobs, Md5deep(j) PROVE TypeInv'
  <2>1. DigestOf(j) \in SUBSET Jobs
    <3>1. pc[j] = "digest"
      BY <1>17 DEF Md5deep, Go
    <3>2. job[j].part \in Partitions
      BY <1>b, <3>1 DEF MadeJob
    <3> QED BY <1>a, <3>2 DEF DigestOf, TypeOK
  <2>2. digest' \in [Jobs -> SUBSET Jobs] /\ faults' \in 0..MaxFaults
    <3>1. CASE digest' = [digest EXCEPT ![j] = DigestOf(j)] /\ UNCHANGED faults
      BY <1>a, <2>1, <3>1 DEF TypeOK
    <3>2. CASE Fault /\ UNCHANGED digest
      BY <1>a, <3>2, BoundAssumption DEF Fault, TypeOK
    <3> QED BY <1>17, <3>1, <3>2 DEF Md5deep
  <2>3. CASE Go(j, "digest", "seal")
    BY <1>17, <1>a, <2>2, <2>3, GoType
       DEF Md5deep, Shared, caseVars, clickVars, storeVars, TypeInv, TypeOK, JobInv, PC
  <2>4. CASE Go(j, "digest", "hide")
    BY <1>17, <1>a, <2>2, <2>4, GoType
       DEF Md5deep, Shared, caseVars, clickVars, storeVars, TypeInv, TypeOK, JobInv, PC
  <2> QED BY <1>17, <2>3, <2>4 DEF Md5deep, AfterError
<1>18. ASSUME NEW j \in Jobs, SetReadOnly(j) PROVE TypeInv'
  <2>1. pc[j] = "seal" /\ hdir[j] \in Cases
    BY <1>18, <1>a DEF SetReadOnly, Go, JobInv
  <2>2. HashIn(j, hdir[j]) \in HashFile
    BY <1>b, <2>1 DEF HashIn, HashFile, MadeJob
  <2>3. [by |-> j, of |-> digest[j]] \in Digest
    BY <1>a DEF TypeOK, Digest
  <2>4. hashes' \in [Cases -> [Partitions -> SUBSET Digest]]
    BY <1>18, <1>a, <2>3 DEF SetReadOnly, TypeOK
  <2> QED BY <1>18, <1>a, <2>2, <2>4, GoType
       DEF SetReadOnly, Shared, caseVars, clickVars, TypeInv, TypeOK, JobInv, PC
<1>19. ASSUME NEW j \in Jobs, HideBar(j) PROVE TypeInv'
  <2>1. CASE Disposed(j)
    BY <1>19, <1>a, <2>1, GoType
       DEF HideBar, Shared, caseVars, clickVars, storeVars, TypeInv, TypeOK, JobInv, PC
  <2>2. CASE ~Disposed(j)
    BY <1>19, <1>a, <2>2, GoType
       DEF HideBar, Shared, caseVars, clickVars, storeVars, TypeInv, TypeOK, JobInv, PC
  <2> QED BY <2>1, <2>2
<1>20. CASE UNCHANGED vars
  BY <1>20, <1>a
     DEF vars, caseVars, clickVars, jobVars, storeVars, TypeInv, TypeOK, JobInv
<1> QED BY <1>1, <1>2, <1>3, <1>4, <1>5, <1>6, <1>7, <1>8, <1>9, <1>10, <1>11, <1>12,
           <1>13, <1>14, <1>15, <1>16, <1>17, <1>18, <1>19, <1>20
        DEF Next, Click, Handler, Run

(* Type correctness, for every instance.                                   *)
THEOREM TypeCorrect == Spec => []TypeOK
<1>1. TypeInv => TypeOK
  BY DEF TypeInv
<1> QED BY <1>1, InitTypeInv, NextTypeInv, PTL DEF Spec

-----------------------------------------------------------------------------
(***************************************************************************)
(* Who can meet whom on the port: a thread that is not crowded connects to *)
(* its own listener or to none, and a listener serves the partition of the *)
(* thread that started it.                                                 *)
(***************************************************************************)

(* A thread that goes on touches nothing the invariant speaks of.          *)
LEMMA ListenerFrame ==
  ASSUME TypeInv, ListenerInv, NEW j \in Jobs, pc[j] # "free", pc'[j] # "free",
         pc'[j] \in {"show", "path", "client"} => pc[j] \in {"show", "path", "client"},
         \A i \in Jobs \ {j} : pc'[i] = pc[i],
         UNCHANGED <<listeners, job, from, crowded, images>>
  PROVE  ListenerInv'
<1>1. Waiting' \in SUBSET Waiting
  BY DEF Waiting
<1>2. \A l \in listeners : l.job \in Jobs
  BY DEF TypeInv, TypeOK, Listener
<1> QED BY <1>1, <1>2 DEF ListenerInv, ImageOfItsPartition

LEMMA NextListenerInv ==
  ASSUME TypeInv, ListenerInv, [Next]_vars
  PROVE  ListenerInv'
<1>a. TypeOK /\ JobInv
  BY DEF TypeInv
<1>b. \A l \in listeners : l.job \in Jobs
  BY <1>a DEF TypeOK, Listener
<1>1. ASSUME UNCHANGED <<listeners, pc, job, from, crowded, images>> PROVE ListenerInv'
  BY <1>1 DEF ListenerInv, ImageOfItsPartition, Waiting
<1>2. ASSUME NEW c \in Cases, NEW t \in Tabs, OpenCase(c, t) PROVE ListenerInv'
  BY <1>1, <1>2 DEF OpenCase, clickVars, jobVars, storeVars
<1>3. ASSUME Logout PROVE ListenerInv'
  BY <1>1, <1>3 DEF Logout, clickVars, jobVars, storeVars
<1>4. ASSUME NEW kinds \in SUBSET Kinds, NEW parts \in SUBSET Partitions,
             Acquire(kinds, parts)
      PROVE  ListenerInv'
  BY <1>1, <1>4 DEF Acquire, jobVars, storeVars
<1>5. ASSUME NEW t \in Task, NEW j \in Jobs, StartLogical(t, j) PROVE ListenerInv'
  <2>1. t \in todo /\ Make(t, j) /\ t.kind = "logical"
    BY <1>5 DEF StartLogical, IsNext
  <2>2. /\ pc[j] = "free" /\ pc'[j] = "show" /\ job'[j].kind = "logical"
        /\ \A i \in Jobs \ {j} : job'[i] = job[i] /\ pc'[i] = pc[i]
    BY <1>a, <2>1, MakeType DEF Make, TypeOK
  <2>3. UNCHANGED <<listeners, from, crowded, images>>
    BY <1>5 DEF StartLogical, storeVars
  <2>4. \A l \in listeners : l.job # j
    BY <2>2 DEF ListenerInv
  <2>5. Waiting' \in SUBSET Waiting
    BY <2>2, <2>3 DEF Waiting
  <2>6. j \notin crowded => from[j] = {}
    BY <2>2 DEF ListenerInv
  <2> QED BY <1>b, <2>2, <2>3, <2>4, <2>5, <2>6 DEF ListenerInv, ImageOfItsPartition
<1>6. ASSUME NEW t \in Task, NEW j \in Jobs, StartPhysical(t, j) PROVE ListenerInv'
  <2> DEFINE new == [job |-> j, holds |-> t.part]
  <2>1. t \in todo /\ Make(t, j)
    BY <1>6 DEF StartPhysical, IsNext
  <2>2. /\ pc[j] = "free" /\ pc'[j] = "show" /\ job'[j].part = t.part
        /\ \A i \in Jobs \ {j} : job'[i] = job[i] /\ pc'[i] = pc[i]
    BY <1>a, <2>1, MakeType DEF Make, TypeOK
  <2>3. UNCHANGED <<from, images>> /\ listeners' \in SUBSET (listeners \union {new})
    BY <1>6 DEF StartPhysical, storeVars, Mounts
  <2>4. \A l \in listeners : l.job # j /\ l.job \in Waiting
    BY <2>2 DEF ListenerInv, Waiting
  <2>5. \A l \in listeners' : pc'[l.job] # "free" /\ l.holds = job'[l.job].part
    BY <1>b, <2>2, <2>3, <2>4 DEF ListenerInv
  <2>6. Waiting' \in SUBSET (Waiting \union {j})
    BY <2>2, <2>3 DEF Waiting
  <2>7. crowded \in SUBSET crowded'
    BY <1>6 DEF StartPhysical
  <2>8. \A i \in Waiting' \ crowded' : \A l \in listeners' : l.job = i
    <3>1. CASE Waiting = {}
      BY <2>3, <2>4, <2>6, <3>1
    <3>2. CASE Waiting # {}
      BY <1>6, <2>6, <3>2 DEF StartPhysical
    <3> QED BY <3>1, <3>2
  <2>9. j \notin crowded => from[j] = {}
    BY <2>2 DEF ListenerInv
  <2>10. \A i \in Jobs \ crowded' : \A l \in from'[i] :
           pc'[i] # "free" /\ l.holds = job'[i].part
    BY <2>2, <2>3, <2>7, <2>9 DEF ListenerInv
  <2> QED BY <2>3, <2>5, <2>7, <2>8, <2>10 DEF ListenerInv, ImageOfItsPartition
<1>7. ASSUME NEW t \in Task, NoPhysical(t) PROVE ListenerInv'
  BY <1>1, <1>7 DEF NoPhysical, jobVars, storeVars
<1>8. ASSUME StopListening PROVE ListenerInv'
  BY <1>1, <1>8 DEF StopListening, jobVars, storeVars
<1>9. ASSUME NEW j \in Jobs, ShowBar(j) PROVE ListenerInv'
  <2>1. UNCHANGED <<listeners, job, from, crowded, images>>
    BY <1>9 DEF ShowBar, Shared, clickVars, storeVars
  <2>2. CASE Go(j, "show", "dead")
    BY <1>9, <2>1, <2>2, GoType, ListenerFrame DEF PC
  <2>3. CASE Go(j, "show", IF job[j].kind = "logical" THEN "pull" ELSE "path")
    <3>1. pc[j] = "show" /\ pc'[j] # "free" /\ \A i \in Jobs \ {j} : pc'[i] = pc[i]
      BY <2>3, GoType DEF PC
    <3> QED BY <2>1, <3>1, ListenerFrame
  <2> QED BY <1>9, <2>2, <2>3 DEF ShowBar
<1>10. ASSUME NEW j \in Jobs, PullRoot(j) PROVE ListenerInv'
  BY <1>10, GoType, ListenerFrame DEF PullRoot, Shared, clickVars, PC
<1>11. ASSUME NEW j \in Jobs, ReadPath(j) PROVE ListenerInv'
  BY <1>11, GoType, ListenerFrame DEF ReadPath, Shared, clickVars, storeVars, PC
<1>12. ASSUME NEW j \in Jobs, StartClient(j) PROVE ListenerInv'
  <2>1. pc[j] = "client" /\ pc'[j] = "copy" /\ \A i \in Jobs \ {j} : pc'[i] = pc[i]
    BY <1>12, GoType DEF StartClient, PC
  <2>2. UNCHANGED <<job, crowded>> /\ listeners' \in SUBSET listeners
    BY <1>12 DEF StartClient, Shared, clickVars
  <2>3. j \in Waiting
    BY <1>a, <2>1 DEF Waiting, JobInv
  <2>4. /\ \A i \in Jobs \ {j} : from'[i] = from[i]
        /\ \A l \in from'[j] : l \in listeners
    BY <1>12, <1>a DEF StartClient, TypeOK
  <2>5. j \notin crowded => \A l \in from'[j] : l.holds = job[j].part
    BY <2>3, <2>4 DEF ListenerInv
  <2>6. Waiting' \in SUBSET Waiting
    BY <2>1, <2>2 DEF Waiting
  <2>7. ImageOfItsPartition'
    BY <1>12, <2>2 DEF StartClient, SetImage, ListenerInv, ImageOfItsPartition
  <2>8. \A l \in listeners' : pc'[l.job] # "free" /\ l.holds = job'[l.job].part
    BY <1>b, <2>1, <2>2 DEF ListenerInv
  <2>9. \A i \in Waiting' \ crowded' : \A l \in listeners' : l.job = i
    BY <2>2, <2>6 DEF ListenerInv
  <2>10. \A i \in Jobs \ crowded' : \A l \in from'[i] :
           pc'[i] # "free" /\ l.holds = job'[i].part
    BY <2>1, <2>2, <2>4, <2>5 DEF ListenerInv
  <2> QED BY <2>7, <2>8, <2>9, <2>10 DEF ListenerInv
<1>13. ASSUME NEW j \in Jobs, ClientHasNoFile(j) PROVE ListenerInv'
  BY <1>13, GoType, ListenerFrame DEF ClientHasNoFile, Shared, clickVars, storeVars, PC
<1>14. ASSUME NEW j \in Jobs, NoClient(j) PROVE ListenerInv'
  BY <1>14, GoType, ListenerFrame
     DEF NoClient, AfterError, Shared, clickVars, storeVars, PC
<1>15. ASSUME NEW j \in Jobs, EndClient(j) PROVE ListenerInv'
  <2> DEFINE copied == {[by |-> j, from |-> l.job, holds |-> l.holds] : l \in from[j]}
  <2>1. pc[j] = "copy" /\ pc'[j] = "hash" /\ \A i \in Jobs \ {j} : pc'[i] = pc[i]
    BY <1>15, GoType DEF EndClient, PC
  <2>2. UNCHANGED <<listeners, job, from, crowded>>
    BY <1>15 DEF EndClient, Shared, clickVars
  <2>3. \A w \in copied : w.by = j /\ (j \notin crowded => w.holds = job[j].part)
    BY DEF ListenerInv
  <2>4. \A c \in Cases, p \in Partitions :
          images'[c][p] = IF c = dir[j] /\ p = job[j].part
                          THEN images[c][p] \union copied ELSE images[c][p]
    BY <1>15 DEF EndClient, SetImage
  <2>5. ImageOfItsPartition'
    <3> SUFFICES ASSUME NEW c \in Cases, NEW p \in Partitions, NEW w \in images'[c][p],
                        w.by \notin crowded
                 PROVE  w.holds = p
      BY <2>2 DEF ImageOfItsPartition
    <3> HIDE DEF copied
    <3>1. CASE w \in images[c][p]
      BY <3>1 DEF ListenerInv, ImageOfItsPartition
    <3>2. CASE w \in copied /\ p = job[j].part
      BY <2>3, <3>2
    <3> QED BY <2>4, <3>1, <3>2
  <2>6. Waiting' \in SUBSET Waiting
    BY <2>1, <2>2 DEF Waiting
  <2> QED BY <1>b, <2>1, <2>2, <2>5, <2>6 DEF ListenerInv
<1>16. ASSUME NEW j \in Jobs, MakeHashDir(j) PROVE ListenerInv'
  BY <1>16, GoType, ListenerFrame DEF MakeHashDir, Shared, clickVars, PC
<1>17. ASSUME NEW j \in Jobs, OpenHash(j) PROVE ListenerInv'
  <2>1. Go(j, "open", "digest") \/ Go(j, "open", "hide")
    BY <1>17 DEF OpenHash, AfterError
  <2> QED BY <1>17, <2>1, GoType, ListenerFrame DEF OpenHash, Shared, clickVars, PC
<1>18. ASSUME NEW j \in Jobs, Md5deep(j) PROVE ListenerInv'
  <2>1. Go(j, "digest", "seal") \/ Go(j, "digest", "hide")
    BY <1>18 DEF Md5deep, AfterError
  <2> QED BY <1>18, <2>1, GoType, ListenerFrame
       DEF Md5deep, Shared, clickVars, storeVars, PC
<1>19. ASSUME NEW j \in Jobs, SetReadOnly(j) PROVE ListenerInv'
  BY <1>19, GoType, ListenerFrame DEF SetReadOnly, Shared, clickVars, PC
<1>20. ASSUME NEW j \in Jobs, HideBar(j) PROVE ListenerInv'
  <2>1. Go(j, "hide", "dead") \/ Go(j, "hide", "done")
    BY <1>20 DEF HideBar
  <2> QED BY <1>20, <2>1, GoType, ListenerFrame
       DEF HideBar, Shared, clickVars, storeVars, PC
<1>21. CASE UNCHANGED vars
  BY <1>1, <1>21 DEF vars, clickVars, jobVars, storeVars
<1> QED BY <1>2, <1>3, <1>4, <1>5, <1>6, <1>7, <1>8, <1>9, <1>10, <1>11, <1>12, <1>13,
           <1>14, <1>15, <1>16, <1>17, <1>18, <1>19, <1>20, <1>21
        DEF Next, Click, Handler, Run

(* Images of partitions acquired one at a time are images of theirs.       *)
THEOREM ImagesAreOfTheirPartition == Spec => []ImageOfItsPartition
<1>1. Init => ListenerInv
  BY DEF Init, ListenerInv, ImageOfItsPartition, Waiting
<1>2. ListenerInv => ImageOfItsPartition
  BY DEF ListenerInv
<1> QED BY <1>1, <1>2, InitTypeInv, NextTypeInv, NextListenerInv, PTL DEF Spec

-----------------------------------------------------------------------------
(***************************************************************************)
(* A waiting b.sh: its listener has the handler wait for it, the handler   *)
(* has every Runnable wait, and so the thread beside it stands before its  *)
(* first syncExec and is no client.                                        *)
(***************************************************************************)

(* A thread beyond its first syncExec goes on.                             *)
LEMMA StarveFrame ==
  ASSUME TypeInv, StarveInv, NEW j \in Jobs, pc[j] # "show",
         \A i \in Jobs \ {j} : pc'[i] = pc[i],
         UNCHANGED <<bshWaits, listeners, listening, from, images>>
  PROVE  StarveInv'
<1>1. \A l \in listeners : l.job \in Jobs
  BY DEF TypeInv, TypeOK, Listener
<1> QED BY <1>1 DEF StarveInv, OwnListenerNeverServes

LEMMA NextStarveInv ==
  ASSUME TypeInv, StarveInv, [Next]_vars
  PROVE  StarveInv'
<1>a. TypeOK /\ JobInv
  BY DEF TypeInv
<1>b. \A l \in listeners : l.job \in Jobs
  BY <1>a DEF TypeOK, Listener
<1>c. bshWaits /\ listening = NoJob => listeners = {}
  BY <1>b, NullAssumption DEF StarveInv
<1>1. ASSUME UNCHANGED <<bshWaits, pc, listeners, listening, from, images>>
      PROVE  StarveInv'
  BY <1>1 DEF StarveInv, OwnListenerNeverServes
<1>2. ASSUME NEW c \in Cases, NEW t \in Tabs, OpenCase(c, t) PROVE StarveInv'
  BY <1>1, <1>2 DEF OpenCase, clickVars, jobVars, storeVars
<1>3. ASSUME Logout PROVE StarveInv'
  BY <1>1, <1>3 DEF Logout, clickVars, jobVars, storeVars
<1>4. ASSUME NEW kinds \in SUBSET Kinds, NEW parts \in SUBSET Partitions,
             Acquire(kinds, parts)
      PROVE  StarveInv'
  BY <1>1, <1>4 DEF Acquire, jobVars, storeVars
<1>5. ASSUME NEW t \in Task, NEW j \in Jobs, StartLogical(t, j) PROVE StarveInv'
  <2>1. pc[j] = "free" /\ \A i \in Jobs \ {j} : pc'[i] = pc[i]
    BY <1>5, <1>a DEF StartLogical, Make, TypeOK
  <2> QED BY <1>5, <2>1, StarveFrame DEF StartLogical, storeVars
<1>6. ASSUME NEW t \in Task, NEW j \in Jobs, StartPhysical(t, j) PROVE StarveInv'
  <2>1. listening = NoJob /\ listening' = j
    BY <1>6 DEF StartPhysical, IsNext
  <2>2. pc'[j] = "show"
    BY <1>6, <1>a DEF StartPhysical, Make, TypeOK
  <2>3. \A l \in listeners' : l \in listeners \/ l.job = j
    BY <1>6 DEF StartPhysical
  <2>4. UNCHANGED <<bshWaits, from, images>>
    BY <1>6 DEF StartPhysical, storeVars
  <2> QED BY <1>c, <2>1, <2>2, <2>3, <2>4 DEF StarveInv, OwnListenerNeverServes
<1>7. ASSUME NEW t \in Task, NoPhysical(t) PROVE StarveInv'
  BY <1>1, <1>7 DEF NoPhysical, jobVars, storeVars
<1>8. ASSUME StopListening PROVE StarveInv'
  <2>1. UNCHANGED <<bshWaits, pc, listeners, from, images>>
    BY <1>8 DEF StopListening, jobVars, storeVars
  <2>2. bshWaits => listeners = {}
    BY <1>8 DEF StopListening, Eof, StarveInv
  <2> QED BY <2>1, <2>2 DEF StarveInv, OwnListenerNeverServes
<1>9. ASSUME NEW j \in Jobs, ShowBar(j) PROVE StarveInv'
  <2>1. UNCHANGED <<bshWaits, listeners, listening, from, images>> /\ listening = NoJob
    BY <1>9 DEF ShowBar, Shared, clickVars, storeVars, MayShow, UiIdle
  <2> QED BY <1>c, <2>1 DEF StarveInv, OwnListenerNeverServes
<1>10. ASSUME NEW j \in Jobs, PullRoot(j) PROVE StarveInv'
  BY <1>10, GoType, StarveFrame DEF PullRoot, Shared, clickVars, PC
<1>11. ASSUME NEW j \in Jobs, ReadPath(j) PROVE StarveInv'
  BY <1>11, GoType, StarveFrame DEF ReadPath, Shared, clickVars, storeVars, PC
<1>12. ASSUME NEW j \in Jobs, StartClient(j) PROVE StarveInv'
  <2>1. pc[j] = "client" /\ \A i \in Jobs \ {j} : pc'[i] = pc[i]
    BY <1>12, GoType DEF StartClient, PC
  <2>2. UNCHANGED <<bshWaits, listening>> /\ listeners' \in SUBSET listeners
    BY <1>12 DEF StartClient, Shared, clickVars
  <2>3. /\ \A i \in Jobs \ {j} : from'[i] = from[i]
        /\ \A l \in from'[j] : l \in listeners
    BY <1>12, <1>a DEF StartClient, TypeOK
  <2>4. bshWaits => \A l \in listeners : l.job # j
    BY <2>1 DEF StarveInv
  <2>5. OwnListenerNeverServes'
    BY <1>12, <2>2 DEF StartClient, SetImage, StarveInv, OwnListenerNeverServes
  <2> QED BY <1>b, <2>1, <2>2, <2>3, <2>4, <2>5 DEF StarveInv
<1>13. ASSUME NEW j \in Jobs, ClientHasNoFile(j) PROVE StarveInv'
  BY <1>13, GoType, StarveFrame DEF ClientHasNoFile, Shared, clickVars, storeVars, PC
<1>14. ASSUME NEW j \in Jobs, NoClient(j) PROVE StarveInv'
  BY <1>14, GoType, StarveFrame DEF NoClient, AfterError, Shared, clickVars, storeVars, PC
<1>15. ASSUME NEW j \in Jobs, EndClient(j) PROVE StarveInv'
  <2> DEFINE copied == {[by |-> j, from |-> l.job, holds |-> l.holds] : l \in from[j]}
  <2>1. pc[j] = "copy" /\ \A i \in Jobs \ {j} : pc'[i] = pc[i]
    BY <1>15, GoType DEF EndClient, PC
  <2>2. UNCHANGED <<bshWaits, listeners, listening, from>>
    BY <1>15 DEF EndClient, Shared, clickVars
  <2>3. bshWaits => \A w \in copied : w.from # w.by
    BY DEF StarveInv
  <2>4. \A c \in Cases, p \in Partitions :
          images'[c][p] = IF c = dir[j] /\ p = job[j].part
                          THEN images[c][p] \union copied ELSE images[c][p]
    BY <1>15 DEF EndClient, SetImage
  <2> HIDE DEF copied
  <2>5. OwnListenerNeverServes'
    <3> SUFFICES ASSUME bshWaits, NEW c \in Cases, NEW p \in Partitions,
                        NEW w \in images'[c][p]
                 PROVE  w.from # w.by
      BY <2>2 DEF OwnListenerNeverServes
    <3>1. CASE w \in images[c][p]
      BY <3>1 DEF StarveInv, OwnListenerNeverServes
    <3>2. CASE w \in copied
      BY <2>3, <3>2
    <3> QED BY <2>4, <3>1, <3>2
  <2> QED BY <1>b, <2>1, <2>2, <2>5 DEF StarveInv
<1>16. ASSUME NEW j \in Jobs, MakeHashDir(j) PROVE StarveInv'
  BY <1>16, GoType, StarveFrame DEF MakeHashDir, Shared, clickVars, PC
<1>17. ASSUME NEW j \in Jobs, OpenHash(j) PROVE StarveInv'
  <2>1. Go(j, "open", "digest") \/ Go(j, "open", "hide")
    BY <1>17 DEF OpenHash, AfterError
  <2> QED BY <1>17, <2>1, GoType, StarveFrame DEF OpenHash, Shared, clickVars, PC
<1>18. ASSUME NEW j \in Jobs, Md5deep(j) PROVE StarveInv'
  <2>1. Go(j, "digest", "seal") \/ Go(j, "digest", "hide")
    BY <1>18 DEF Md5deep, AfterError
  <2> QED BY <1>18, <2>1, GoType, StarveFrame DEF Md5deep, Shared, clickVars, storeVars, PC
<1>19. ASSUME NEW j \in Jobs, SetReadOnly(j) PROVE StarveInv'
  BY <1>19, GoType, StarveFrame DEF SetReadOnly, Shared, clickVars, PC
<1>20. ASSUME NEW j \in Jobs, HideBar(j) PROVE StarveInv'
  <2>1. Go(j, "hide", "dead") \/ Go(j, "hide", "done")
    BY <1>20 DEF HideBar
  <2> QED BY <1>20, <2>1, GoType, StarveFrame DEF HideBar, Shared, clickVars, storeVars, PC
<1>21. CASE UNCHANGED vars
  BY <1>1, <1>21 DEF vars, clickVars, jobVars, storeVars
<1> QED BY <1>2, <1>3, <1>4, <1>5, <1>6, <1>7, <1>8, <1>9, <1>10, <1>11, <1>12, <1>13,
           <1>14, <1>15, <1>16, <1>17, <1>18, <1>19, <1>20, <1>21
        DEF Next, Click, Handler, Run

(* A b.sh that waits for its client never gets the one meant for it.       *)
THEOREM WaitingScriptStarves == Spec => []OwnListenerNeverServes
<1>1. Init => StarveInv
  BY DEF Init, StarveInv, OwnListenerNeverServes
<1>2. StarveInv => OwnListenerNeverServes
  BY DEF StarveInv
<1> QED BY <1>1, <1>2, InitTypeInv, NextTypeInv, NextStarveInv, PTL DEF Spec

-----------------------------------------------------------------------------
(***************************************************************************)
(* The bar: a tab is worked in only once it was made, so a new one has no  *)
(* bar left over, and a thread hides the bar whichever way it ends.        *)
(***************************************************************************)

(* A thread that works goes on working.                                    *)
LEMMA BarFrame ==
  ASSUME BarInv, NEW j \in Jobs, Working(j), pc'[j] \notin {"free", "done", "dead", "show"},
         \A i \in Jobs \ {j} : pc'[i] = pc[i],
         UNCHANGED <<tab, tabs, bar, job>>
  PROVE  BarInv'
BY DEF BarInv, BarHiddenAtRest, Working, Active

LEMMA NextBarInv ==
  ASSUME TypeInv, BarInv, [Next]_vars
  PROVE  BarInv'
<1>a. TypeOK /\ JobInv
  BY DEF TypeInv
<1>b. \A j \in Jobs : pc[j] # "free" => job[j].tab \in Tabs
  BY <1>a DEF JobInv, MadeJob
<1>1. ASSUME UNCHANGED <<tab, tabs, bar, pc, job>> PROVE BarInv'
  BY <1>1 DEF BarInv, BarHiddenAtRest, Working, Active
<1>2. ASSUME NEW c \in Cases, NEW t \in Tabs, OpenCase(c, t) PROVE BarInv'
  BY <1>2, <1>a, <1>b
     DEF OpenCase, TypeOK, jobVars, BarInv, BarHiddenAtRest, Working, Active
<1>3. ASSUME Logout PROVE BarInv'
  BY <1>3, <1>a, <1>b, NullAssumption
     DEF Logout, TypeOK, jobVars, BarInv, BarHiddenAtRest, Working, Active
<1>4. ASSUME NEW kinds \in SUBSET Kinds, NEW parts \in SUBSET Partitions,
             Acquire(kinds, parts)
      PROVE  BarInv'
  BY <1>1, <1>4 DEF Acquire, caseVars, jobVars
<1>5. ASSUME NEW t \in todo, NEW j \in Jobs, Make(t, j), UNCHANGED <<tab, tabs, bar>>
      PROVE  BarInv'
  <2>1. /\ pc[j] = "free" /\ pc'[j] = "show" /\ job'[j].tab = tab
        /\ \A i \in Jobs \ {j} : job'[i] = job[i] /\ pc'[i] = pc[i]
    BY <1>5, <1>a DEF Make, TypeOK
  <2>2. tab \in Tabs
    BY <1>a DEF JobInv
  <2> QED BY <1>5, <2>1, <2>2, NullAssumption
       DEF BarInv, BarHiddenAtRest, Working, Active
<1>6. ASSUME NEW t \in Task, NEW j \in Jobs, StartLogical(t, j) PROVE BarInv'
  BY <1>5, <1>6 DEF StartLogical, IsNext, caseVars
<1>7. ASSUME NEW t \in Task, NEW j \in Jobs, StartPhysical(t, j) PROVE BarInv'
  BY <1>5, <1>7 DEF StartPhysical, IsNext, caseVars
<1>8. ASSUME NEW t \in Task, NoPhysical(t) PROVE BarInv'
  BY <1>1, <1>8 DEF NoPhysical, caseVars, jobVars
<1>9. ASSUME StopListening PROVE BarInv'
  BY <1>1, <1>9 DEF StopListening, caseVars, jobVars
<1>10. ASSUME NEW j \in Jobs, ShowBar(j) PROVE BarInv'
  <2>1. UNCHANGED <<tab, tabs, job>> /\ pc[j] = "show"
    BY <1>10 DEF ShowBar, Shared, caseVars
  <2>2. CASE Disposed(j)
    BY <1>10, <2>1, <2>2, GoType
       DEF ShowBar, BarInv, BarHiddenAtRest, Working, Active, PC
  <2>3. CASE ~Disposed(j)
    <3>1. /\ pc'[j] \in {"pull", "path"} /\ \A i \in Jobs \ {j} : pc'[i] = pc[i]
          /\ bar' = [bar EXCEPT ![job[j].tab] = TRUE]
      BY <1>10, <2>3, GoType DEF ShowBar, PC
    <3>2. \A t \in Tabs : bar'[t] = IF t = job[j].tab THEN TRUE ELSE bar[t]
      BY <1>a, <3>1 DEF TypeOK
    <3>3. Working(j)' /\ \A i \in Jobs \ {j} : Working(i) => Working(i)'
      BY <3>1 DEF Working, Active
    <3>4. ~Working(j)
      BY <2>1 DEF Working
    <3>5. BarHiddenAtRest'
      BY <2>1, <3>2, <3>3, <3>4 DEF BarInv, BarHiddenAtRest
    <3> QED BY <2>1, <3>1, <3>2, <3>5 DEF BarInv
  <2> QED BY <2>2, <2>3
<1>11. ASSUME NEW j \in Jobs, PullRoot(j) PROVE BarInv'
  BY <1>11, GoType, BarFrame DEF PullRoot, Shared, caseVars, PC, Working, Active
<1>12. ASSUME NEW j \in Jobs, ReadPath(j) PROVE BarInv'
  BY <1>12, GoType, BarFrame DEF ReadPath, Shared, caseVars, PC, Working, Active
<1>13. ASSUME NEW j \in Jobs, StartClient(j) PROVE BarInv'
  BY <1>13, GoType, BarFrame DEF StartClient, Shared, caseVars, PC, Working, Active
<1>14. ASSUME NEW j \in Jobs, ClientHasNoFile(j) PROVE BarInv'
  BY <1>14, GoType, BarFrame DEF ClientHasNoFile, Shared, caseVars, PC, Working, Active
<1>15. ASSUME NEW j \in Jobs, NoClient(j) PROVE BarInv'
  BY <1>15, GoType, BarFrame DEF NoClient, AfterError, Shared, caseVars, PC, Working, Active
<1>16. ASSUME NEW j \in Jobs, EndClient(j) PROVE BarInv'
  BY <1>16, GoType, BarFrame DEF EndClient, Shared, caseVars, PC, Working, Active
<1>17. ASSUME NEW j \in Jobs, MakeHashDir(j) PROVE BarInv'
  BY <1>17, GoType, BarFrame DEF MakeHashDir, Shared, caseVars, PC, Working, Active
<1>18. ASSUME NEW j \in Jobs, OpenHash(j) PROVE BarInv'
  <2>1. Go(j, "open", "digest") \/ Go(j, "open", "hide")
    BY <1>18 DEF OpenHash, AfterError
  <2> QED BY <1>18, <2>1, GoType, BarFrame DEF OpenHash, Shared, caseVars, PC, Working, Active
<1>19. ASSUME NEW j \in Jobs, Md5deep(j) PROVE BarInv'
  <2>1. Go(j, "digest", "seal") \/ Go(j, "digest", "hide")
    BY <1>19 DEF Md5deep, AfterError
  <2> QED BY <1>19, <2>1, GoType, BarFrame DEF Md5deep, Shared, caseVars, PC, Working, Active
<1>20. ASSUME NEW j \in Jobs, SetReadOnly(j) PROVE BarInv'
  BY <1>20, GoType, BarFrame DEF SetReadOnly, Shared, caseVars, PC, Working, Active
<1>21. ASSUME NEW j \in Jobs, HideBar(j) PROVE BarInv'
  <2>1. UNCHANGED <<tab, tabs, job>> /\ pc[j] = "hide"
    BY <1>21 DEF HideBar, Shared, caseVars
  <2>2. CASE Disposed(j)
    BY <1>21, <2>1, <2>2, GoType
       DEF HideBar, Disposed, BarInv, BarHiddenAtRest, Working, Active, PC
  <2>3. CASE ~Disposed(j)
    <3>1. /\ pc'[j] = "done" /\ \A i \in Jobs \ {j} : pc'[i] = pc[i]
          /\ bar' = [bar EXCEPT ![job[j].tab] = FALSE]
      BY <1>21, <2>3, GoType DEF HideBar, PC
    <3>2. \A t \in Tabs : bar'[t] = IF t = job[j].tab THEN FALSE ELSE bar[t]
      BY <1>a, <3>1 DEF TypeOK
    <3>3. \A i \in Jobs \ {j} : Working(i) => Working(i)'
      BY <3>1 DEF Working, Active
    <3>4. BarHiddenAtRest'
      BY <2>1, <3>2, <3>3 DEF BarInv, BarHiddenAtRest
    <3> QED BY <2>1, <3>1, <3>2, <3>4 DEF BarInv
  <2> QED BY <2>2, <2>3
<1>22. CASE UNCHANGED vars
  BY <1>1, <1>22 DEF vars, caseVars, jobVars
<1> QED BY <1>2, <1>3, <1>4, <1>6, <1>7, <1>8, <1>9, <1>10, <1>11, <1>12, <1>13,
           <1>14, <1>15, <1>16, <1>17, <1>18, <1>19, <1>20, <1>21, <1>22
        DEF Next, Click, Handler, Run

(* No bar of an open tab turns for threads that are all gone.              *)
THEOREM BarsAreHidden == Spec => []BarHiddenAtRest
<1>1. Init => BarInv
  BY DEF Init, BarInv, BarHiddenAtRest
<1>2. BarInv => BarHiddenAtRest
  BY DEF BarInv
<1> QED BY <1>1, <1>2, InitTypeInv, NextTypeInv, NextBarInv, PTL DEF Spec

-----------------------------------------------------------------------------
(***************************************************************************)
(* Custody: while the open case does not change under a thread, every path *)
(* it reads leads to the case whose log its acquisition was announced in.  *)
(***************************************************************************)

(* A thread that reads no path and changes no store.                       *)
LEMMA CustodyFrame ==
  ASSUME CustodyInv, NEW j \in Jobs, pc[j] # "free", pc'[j] # "free",
         Active(j)' => Active(j),
         pc'[j] \in {"client", "copy"} => pc[j] \in {"client", "copy"},
         pc'[j] \in {"digest", "seal"} => pc[j] \in {"digest", "seal"},
         \A i \in Jobs \ {j} : pc'[i] = pc[i],
         UNCHANGED <<gbPath, job, dir, hdir, images, trees, log, unlogged, moved>>
  PROVE  CustodyInv'
<1>1. \A i \in Jobs : PathInv(i)'
  BY DEF CustodyInv, PathInv, Announced, HashIn, Active
<1>2. AcquiredInLoggedCase'
  BY DEF CustodyInv, AcquiredInLoggedCase
<1> QED BY <1>1, <1>2 DEF CustodyInv

(* The log only grows, so what was announced stays announced.              *)
LEMMA LogGrows ==
  ASSUME CustodyInv, log \in SUBSET log', unlogged \in SUBSET unlogged',
         moved \in SUBSET moved', UNCHANGED <<images, trees>>
  PROVE  AcquiredInLoggedCase'
BY DEF CustodyInv, AcquiredInLoggedCase

(* A new thread was announced in the case open at the click.               *)
LEMMA MakeCustody ==
  ASSUME TypeInv, CustodyInv, NEW t \in todo, NEW j \in Jobs, Make(t, j),
         log \in SUBSET log', unlogged \in SUBSET unlogged',
         LogRow(t) \in log' \/ j \in unlogged',
         t.kind = "logical" => dir'[j] = gbPath,
         \A i \in Jobs \ {j} : dir'[i] = dir[i],
         UNCHANGED <<gbPath, hdir, images, trees, moved>>
  PROVE  CustodyInv'
<1>1. /\ pc[j] = "free" /\ pc'[j] = "show"
      /\ job'[j].kind = t.kind /\ job'[j].part = t.part /\ job'[j].case = gbPath
      /\ \A i \in Jobs \ {j} : job'[i] = job[i] /\ pc'[i] = pc[i]
  BY DEF Make, TypeInv, TypeOK
<1>2. PathInv(j)'
  BY <1>1 DEF PathInv, Announced, HashIn, LogRow
<1>3. ASSUME NEW i \in Jobs \ {j} PROVE PathInv(i)'
  <2>1. PathInv(i)
    BY DEF CustodyInv
  <2> QED BY <1>1, <2>1 DEF PathInv, Announced, HashIn, Active
<1> QED BY <1>2, <1>3, LogGrows DEF CustodyInv

LEMMA NextCustodyInv ==
  ASSUME TypeInv, CustodyInv, [Next]_vars
  PROVE  CustodyInv'
<1>a. TypeOK /\ JobInv
  BY DEF TypeInv
<1>b. \A j \in Jobs : PathInv(j)
  BY DEF CustodyInv
<1>1. ASSUME UNCHANGED <<gbPath, pc, job, dir, hdir, images, trees, log, unlogged, moved>>
      PROVE  CustodyInv'
  BY <1>1 DEF CustodyInv, PathInv, Announced, HashIn, Active, AcquiredInLoggedCase
<1>2. ASSUME UNCHANGED <<pc, job, dir, hdir, images, trees, log, unlogged>>,
             moved \in SUBSET moved',
             \A j \in Jobs : Active(j) => gbPath' = gbPath \/ j \in moved'
      PROVE  CustodyInv'
  <2>1. \A j \in Jobs : PathInv(j)'
    BY <1>2, <1>b DEF PathInv, Announced, HashIn, Active
  <2> QED BY <1>2, <2>1, LogGrows DEF CustodyInv
<1>3. ASSUME NEW c \in Cases, NEW t \in Tabs, OpenCase(c, t) PROVE CustodyInv'
  BY <1>2, <1>3 DEF OpenCase, clickVars, jobVars, storeVars
<1>4. ASSUME Logout PROVE CustodyInv'
  BY <1>2, <1>4 DEF Logout, clickVars, jobVars, storeVars
<1>5. ASSUME NEW kinds \in SUBSET Kinds, NEW parts \in SUBSET Partitions,
             Acquire(kinds, parts)
      PROVE  CustodyInv'
  BY <1>1, <1>5 DEF Acquire, caseVars, jobVars, storeVars
<1>6. ASSUME NEW t \in Task, NEW j \in Jobs, StartLogical(t, j) PROVE CustodyInv'
  <2>1. t \in todo /\ Make(t, j) /\ Logdata(t, j)
    BY <1>6 DEF StartLogical, IsNext
  <2>2. /\ log \in SUBSET log' /\ unlogged \in SUBSET unlogged'
        /\ LogRow(t) \in log' \/ j \in unlogged'
    BY <2>1 DEF Logdata
  <2>3. dir'[j] = gbPath /\ \A i \in Jobs \ {j} : dir'[i] = dir[i]
    BY <1>6, <1>a DEF StartLogical, TypeOK
  <2> QED BY <1>6, <2>1, <2>2, <2>3, MakeCustody DEF StartLogical, caseVars, storeVars
<1>7. ASSUME NEW t \in Task, NEW j \in Jobs, StartPhysical(t, j) PROVE CustodyInv'
  <2>1. t \in todo /\ Make(t, j) /\ t.kind = "physical"
    BY <1>7 DEF StartPhysical, IsNext
  <2>2. /\ log \in SUBSET log' /\ unlogged \in SUBSET unlogged'
        /\ LogRow(t) \in log' \/ j \in unlogged'
    BY <1>7 DEF StartPhysical, Logdata
  <2> QED BY <1>7, <2>1, <2>2, MakeCustody DEF StartPhysical, caseVars, storeVars
<1>8. ASSUME NEW t \in Task, NoPhysical(t) PROVE CustodyInv'
  <2>1. \A j \in Jobs : PathInv(j)'
    BY <1>8, <1>b DEF NoPhysical, caseVars, jobVars, PathInv, Announced, HashIn, Active
  <2> QED BY <1>8, <2>1, LogGrows DEF NoPhysical, storeVars, CustodyInv
<1>9. ASSUME StopListening PROVE CustodyInv'
  BY <1>1, <1>9 DEF StopListening, caseVars, jobVars, storeVars
<1>10. ASSUME NEW j \in Jobs, ShowBar(j) PROVE CustodyInv'
  <2>1. UNCHANGED <<gbPath, job, dir, hdir, images, trees, log, unlogged, moved>>
    BY <1>10 DEF ShowBar, Shared, caseVars, clickVars, storeVars
  <2>2. Go(j, "show", "dead") \/ Go(j, "show", "pull") \/ Go(j, "show", "path")
    BY <1>10 DEF ShowBar
  <2> QED BY <2>1, <2>2, GoType, CustodyFrame DEF PC, Active
<1>11. ASSUME NEW j \in Jobs, PullRoot(j) PROVE CustodyInv'
  <2>1. /\ pc[j] = "pull" /\ pc'[j] = "hash" /\ \A i \in Jobs \ {j} : pc'[i] = pc[i]
    BY <1>11, GoType DEF PullRoot, PC
  <2>2. UNCHANGED <<gbPath, job, dir, hdir, images, log, unlogged, moved>>
    BY <1>11 DEF PullRoot, Shared, caseVars, clickVars
  <2>3. \A i \in Jobs : PathInv(i)'
    BY <1>b, <2>1, <2>2 DEF PathInv, Announced, HashIn, Active
  <2>4. \/ [case |-> dir[j], kind |-> "logical", part |-> job[j].part] \in log
        \/ j \in unlogged
    BY <1>a, <1>b, <2>1 DEF JobInv, PathInv, Announced, HashIn
  <2>5. \A c \in Cases, p \in Partitions :
          trees'[c][p] \in SUBSET (trees[c][p] \union
                                   IF c = dir[j] /\ p = job[j].part THEN {j} ELSE {})
    BY <1>11 DEF PullRoot, PullDir
  <2>6. AcquiredInLoggedCase'
    BY <2>2, <2>4, <2>5 DEF CustodyInv, AcquiredInLoggedCase
  <2> QED BY <2>3, <2>6 DEF CustodyInv
<1>12. ASSUME NEW j \in Jobs, ReadPath(j) PROVE CustodyInv'
  <2>1. /\ pc[j] = "path" /\ pc'[j] = "client" /\ \A i \in Jobs \ {j} : pc'[i] = pc[i]
    BY <1>12, GoType DEF ReadPath, PC
  <2>2. UNCHANGED <<gbPath, job, hdir, images, trees, log, unlogged, moved>>
    BY <1>12 DEF ReadPath, Shared, caseVars, clickVars, storeVars
  <2>3. dir'[j] = gbPath /\ \A i \in Jobs \ {j} : dir'[i] = dir[i]
    BY <1>12, <1>a DEF ReadPath, TypeOK
  <2>4. job[j].kind = "physical"
    BY <1>a, <2>1 DEF JobInv
  <2>5. \A i \in Jobs : PathInv(i)'
    BY <1>b, <2>1, <2>2, <2>3, <2>4 DEF PathInv, Announced, HashIn, Active
  <2> QED BY <2>2, <2>5, LogGrows DEF CustodyInv
<1>13. ASSUME NEW j \in Jobs, StartClient(j) PROVE CustodyInv'
  <2>1. /\ pc[j] = "client" /\ pc'[j] = "copy" /\ \A i \in Jobs \ {j} : pc'[i] = pc[i]
    BY <1>13, GoType DEF StartClient, PC
  <2>2. UNCHANGED <<gbPath, job, dir, hdir, trees, log, unlogged, moved>>
    BY <1>13 DEF StartClient, Shared, caseVars, clickVars
  <2>3. \A i \in Jobs : PathInv(i)'
    BY <1>b, <2>1, <2>2 DEF PathInv, Announced, HashIn, Active
  <2>4. AcquiredInLoggedCase'
    BY <1>13, <2>2 DEF StartClient, SetImage, CustodyInv, AcquiredInLoggedCase
  <2> QED BY <2>3, <2>4 DEF CustodyInv
<1>14. ASSUME NEW j \in Jobs, ClientHasNoFile(j) PROVE CustodyInv'
  BY <1>14, GoType, CustodyFrame
     DEF ClientHasNoFile, Shared, caseVars, clickVars, storeVars, PC, Active
<1>15. ASSUME NEW j \in Jobs, NoClient(j) PROVE CustodyInv'
  BY <1>15, GoType, CustodyFrame
     DEF NoClient, AfterError, Shared, caseVars, clickVars, storeVars, PC, Active
<1>16. ASSUME NEW j \in Jobs, EndClient(j) PROVE CustodyInv'
  <2> DEFINE copied == {[by |-> j, from |-> l.job, holds |-> l.holds] : l \in from[j]}
  <2>1. /\ pc[j] = "copy" /\ pc'[j] = "hash" /\ \A i \in Jobs \ {j} : pc'[i] = pc[i]
    BY <1>16, GoType DEF EndClient, PC
  <2>2. UNCHANGED <<gbPath, job, dir, hdir, trees, log, unlogged, moved>>
    BY <1>16 DEF EndClient, Shared, caseVars, clickVars
  <2>3. \A i \in Jobs : PathInv(i)'
    BY <1>b, <2>1, <2>2 DEF PathInv, Announced, HashIn, Active
  <2>4. j \notin moved =>
          \/ [case |-> dir[j], kind |-> "physical", part |-> job[j].part] \in log
          \/ j \in unlogged
    BY <1>a, <1>b, <2>1 DEF JobInv, PathInv, Announced, HashIn
  <2>5. \A w \in copied : w.by = j
    OBVIOUS
  <2>6. \A c \in Cases, p \in Partitions :
          images'[c][p] = IF c = dir[j] /\ p = job[j].part
                          THEN images[c][p] \union copied ELSE images[c][p]
    BY <1>16 DEF EndClient, SetImage
  <2> HIDE DEF copied
  <2>7. AcquiredInLoggedCase'
    <3>1. ASSUME NEW c \in Cases, NEW p \in Partitions, NEW w \in images'[c][p],
                 w.by \notin moved
          PROVE  \/ [case |-> c, kind |-> "physical", part |-> p] \in log
                 \/ w.by \in unlogged
      <4>1. CASE w \in images[c][p]
        BY <3>1, <4>1 DEF CustodyInv, AcquiredInLoggedCase
      <4>2. CASE w \in copied /\ c = dir[j] /\ p = job[j].part
        BY <2>4, <2>5, <3>1, <4>2
      <4> QED BY <2>6, <3>1, <4>1, <4>2
    <3> QED BY <2>2, <3>1 DEF CustodyInv, AcquiredInLoggedCase
  <2> QED BY <2>3, <2>7 DEF CustodyInv
<1>17. ASSUME NEW j \in Jobs, MakeHashDir(j) PROVE CustodyInv'
  BY <1>17, GoType, CustodyFrame DEF MakeHashDir, Shared, caseVars, clickVars, PC, Active
<1>18. ASSUME NEW j \in Jobs, OpenHash(j) PROVE CustodyInv'
  <2>1. UNCHANGED <<gbPath, job, dir, images, trees, log, unlogged, moved>>
    BY <1>18 DEF OpenHash, Shared, caseVars, clickVars
  <2>2. CASE Go(j, "open", "hide") /\ UNCHANGED hdir
    BY <2>1, <2>2, GoType, CustodyFrame DEF PC, Active
  <2>3. CASE Go(j, "open", "digest") /\ hdir' = [hdir EXCEPT ![j] = gbPath]
    <3>1. /\ pc[j] = "open" /\ pc'[j] = "digest" /\ \A i \in Jobs \ {j} : pc'[i] = pc[i]
      BY <2>3, GoType DEF PC
    <3>2. hdir'[j] = gbPath /\ \A i \in Jobs \ {j} : hdir'[i] = hdir[i]
      BY <2>3, <1>a DEF TypeOK
    <3>3. \A i \in Jobs : PathInv(i)'
      BY <1>b, <2>1, <3>1, <3>2 DEF PathInv, Announced, HashIn, Active
    <3> QED BY <2>1, <3>3, LogGrows DEF CustodyInv
  <2> QED BY <1>18, <2>2, <2>3 DEF OpenHash, AfterError
<1>19. ASSUME NEW j \in Jobs, Md5deep(j) PROVE CustodyInv'
  <2>1. Go(j, "digest", "seal") \/ Go(j, "digest", "hide")
    BY <1>19 DEF Md5deep, AfterError
  <2> QED BY <1>19, <2>1, GoType, CustodyFrame
       DEF Md5deep, Shared, caseVars, clickVars, storeVars, PC, Active
<1>20. ASSUME NEW j \in Jobs, SetReadOnly(j) PROVE CustodyInv'
  BY <1>20, GoType, CustodyFrame DEF SetReadOnly, Shared, caseVars, clickVars, PC, Active
<1>21. ASSUME NEW j \in Jobs, HideBar(j) PROVE CustodyInv'
  <2>1. Go(j, "hide", "dead") \/ Go(j, "hide", "done")
    BY <1>21 DEF HideBar
  <2> QED BY <1>21, <2>1, GoType, CustodyFrame
       DEF HideBar, Shared, caseVars, clickVars, storeVars, PC, Active
<1>22. CASE UNCHANGED vars
  BY <1>1, <1>22 DEF vars, caseVars, clickVars, jobVars, storeVars
<1> QED BY <1>3, <1>4, <1>5, <1>6, <1>7, <1>8, <1>9, <1>10, <1>11, <1>12, <1>13,
           <1>14, <1>15, <1>16, <1>17, <1>18, <1>19, <1>20, <1>21, <1>22
        DEF Next, Click, Handler, Run

LEMMA InitCustodyInv == Init => CustodyInv
BY DEF Init, CustodyInv, PathInv, Active, AcquiredInLoggedCase

(* Whatever the stores of the cases hold was announced in their logs.      *)
THEOREM AcquisitionsAreLogged == Spec => []AcquiredInLoggedCase
<1>1. CustodyInv => AcquiredInLoggedCase
  BY DEF CustodyInv
<1> QED BY <1>1, InitTypeInv, InitCustodyInv, NextTypeInv, NextCustodyInv, PTL DEF Spec

-----------------------------------------------------------------------------
(***************************************************************************)
(* Hashes: between the moment md5deep read a directory and the end of time *)
(* nobody changes it, if its thread is the only one that pulls into it.    *)
(***************************************************************************)

Ended == {"hide", "done", "dead"}

(* Who is alone after a step was alone before it.                          *)
LEMMA AloneBefore ==
  ASSUME \A i \in Jobs : pc[i] # "free" =>
           /\ pc'[i] # "free" /\ job'[i] = job[i]
           /\ job[i].kind = "logical" => dir'[i] = dir[i]
  PROVE  \A j \in Jobs : pc[j] # "free" /\ job[j].kind = "logical" /\ Alone(j)' =>
           Alone(j)
BY DEF Alone

(* A step that pulls nothing, writes no hash and has no thread read one.   *)
LEMMA HashFrame ==
  ASSUME TypeInv, HashInv, UNCHANGED trees, moved \in SUBSET moved',
         \A i \in Jobs : pc[i] # "free" =>
           /\ pc'[i] # "free" /\ job'[i] = job[i]
           /\ job[i].kind = "logical" => dir'[i] = dir[i],
         \A i \in Jobs : pc[i] \in Ended => pc'[i] \in Ended,
         \A i \in Jobs : pc'[i] = "seal" => pc[i] = "seal" /\ digest'[i] = digest[i],
         \A c \in Cases, p \in Partitions : hashes'[c][p] \in SUBSET hashes[c][p]
  PROVE  HashInv'
<1>1. \A j \in Jobs : pc[j] # "free" /\ job[j].kind = "logical" /\ Alone(j)' => Alone(j)
  BY AloneBefore
<1>2. ASSUME NEW j \in Jobs, pc'[j] = "seal", job'[j].kind = "logical", Alone(j)'
      PROVE  digest'[j] = trees'[dir'[j]][job'[j].part]
  BY <1>1, <1>2 DEF HashInv
<1>3. ASSUME NEW c \in Cases, NEW p \in Partitions, NEW w \in hashes'[c][p]
      PROVE  /\ pc'[w.by] \in Ended
             /\ job'[w.by].kind = "logical" /\ job'[w.by].part = p
             /\ w.by \notin moved' /\ Alone(w.by)' =>
                  dir'[w.by] = c /\ w.of = trees'[c][p]
  <2>1. w \in hashes[c][p]
    BY <1>3
  <2>2. w.by \in Jobs
    BY <2>1 DEF TypeInv, TypeOK, Digest
  <2>3. /\ pc[w.by] \in Ended /\ job[w.by].kind = "logical" /\ job[w.by].part = p
        /\ w.by \notin moved /\ Alone(w.by) => dir[w.by] = c /\ w.of = trees[c][p]
    BY <2>1 DEF HashInv, Ended
  <2>4. pc[w.by] # "free"
    BY <2>3 DEF Ended
  <2> QED BY <1>1, <2>2, <2>3, <2>4
<1> QED BY <1>2, <1>3 DEF HashInv, Ended

(* The same for one thread that goes on and keeps its directory.           *)
LEMMA HashRunFrame ==
  ASSUME TypeInv, HashInv, NEW j \in Jobs, pc[j] \notin {"free", "done", "dead"},
         pc'[j] \notin {"free", "seal"}, pc[j] = "hide" => pc'[j] \in Ended,
         \A i \in Jobs \ {j} : pc'[i] = pc[i],
         UNCHANGED <<job, dir, digest, trees, moved>>,
         \A c \in Cases, p \in Partitions : hashes'[c][p] \in SUBSET hashes[c][p]
  PROVE  HashInv'
BY HashFrame DEF Ended

LEMMA MakeHash ==
  ASSUME TypeInv, HashInv, NEW t \in todo, NEW j \in Jobs, Make(t, j),
         \A i \in Jobs \ {j} : dir'[i] = dir[i],
         UNCHANGED <<digest, trees, hashes, moved>>
  PROVE  HashInv'
<1>1. /\ pc[j] = "free" /\ pc'[j] = "show"
      /\ \A i \in Jobs \ {j} : job'[i] = job[i] /\ pc'[i] = pc[i]
  BY DEF Make, TypeInv, TypeOK
<1> QED BY <1>1, HashFrame DEF Ended

LEMMA NextHashInv ==
  ASSUME TypeInv, CustodyInv, HashInv, [Next]_vars
  PROVE  HashInv'
<1>a. TypeOK /\ JobInv
  BY DEF TypeInv
<1>b. \A j \in Jobs : pc[j] # "free" /\ job[j].kind = "logical" =>
        dir[j] = job[j].case /\ dir[j] \in Cases /\ job[j].part \in Partitions
  BY <1>a DEF CustodyInv, PathInv, JobInv, MadeJob
<1>1. ASSUME UNCHANGED <<pc, job, dir, digest, trees, hashes>>, moved \in SUBSET moved'
      PROVE  HashInv'
  BY <1>1, HashFrame
<1>2. ASSUME NEW c \in Cases, NEW t \in Tabs, OpenCase(c, t) PROVE HashInv'
  BY <1>1, <1>2 DEF OpenCase, jobVars, storeVars
<1>3. ASSUME Logout PROVE HashInv'
  BY <1>1, <1>3 DEF Logout, jobVars, storeVars
<1>4. ASSUME NEW kinds \in SUBSET Kinds, NEW parts \in SUBSET Partitions,
             Acquire(kinds, parts)
      PROVE  HashInv'
  BY <1>1, <1>4 DEF Acquire, jobVars, storeVars
<1>5. ASSUME NEW t \in Task, NEW j \in Jobs, StartLogical(t, j) PROVE HashInv'
  <2>1. t \in todo /\ Make(t, j) /\ \A i \in Jobs \ {j} : dir'[i] = dir[i]
    BY <1>5, <1>a DEF StartLogical, IsNext, TypeOK
  <2> QED BY <1>5, <2>1, MakeHash DEF StartLogical, storeVars
<1>6. ASSUME NEW t \in Task, NEW j \in Jobs, StartPhysical(t, j) PROVE HashInv'
  <2>1. t \in todo /\ Make(t, j)
    BY <1>6 DEF StartPhysical, IsNext
  <2> QED BY <1>6, <2>1, MakeHash DEF StartPhysical, storeVars
<1>7. ASSUME NEW t \in Task, NoPhysical(t) PROVE HashInv'
  BY <1>1, <1>7 DEF NoPhysical, jobVars, storeVars
<1>8. ASSUME StopListening PROVE HashInv'
  BY <1>1, <1>8 DEF StopListening, jobVars, storeVars
<1>9. ASSUME NEW j \in Jobs, ShowBar(j) PROVE HashInv'
  <2>1. Go(j, "show", "dead") \/ Go(j, "show", "pull") \/ Go(j, "show", "path")
    BY <1>9 DEF ShowBar
  <2> QED BY <1>9, <2>1, GoType, HashRunFrame DEF ShowBar, Shared, storeVars, PC
<1>10. ASSUME NEW j \in Jobs, PullRoot(j) PROVE HashInv'
  <2>1. /\ pc[j] = "pull" /\ pc'[j] = "hash" /\ \A i \in Jobs \ {j} : pc'[i] = pc[i]
    BY <1>10, GoType DEF PullRoot, PC
  <2>2. UNCHANGED <<job, dir, digest, hashes, moved>>
    BY <1>10 DEF PullRoot, Shared
  <2>3. job[j].kind = "logical"
    BY <1>a, <2>1 DEF JobInv
  <2>4. ASSUME NEW c \in Cases, NEW p \in Partitions, c # dir[j] \/ p # job[j].part
        PROVE  trees'[c][p] = trees[c][p]
    BY <1>10, <2>4 DEF PullRoot, PullDir
  <2>5. \A i \in Jobs \ {j} : Alone(i) /\ job[j].part = job[i].part => dir[j] # dir[i]
    BY <2>1, <2>3 DEF Alone
  <2>6. \A i \in Jobs : Alone(i)' => Alone(i)
    BY <2>1, <2>2 DEF Alone
  <2>7. ASSUME NEW i \in Jobs, pc'[i] = "seal", job'[i].kind = "logical", Alone(i)'
        PROVE  digest'[i] = trees'[dir'[i]][job'[i].part]
    <3>1. i # j /\ pc[i] = "seal" /\ job[i].kind = "logical" /\ Alone(i)
      BY <2>1, <2>2, <2>6, <2>7
    <3> QED BY <1>b, <2>2, <2>4, <2>5, <3>1 DEF HashInv
  <2>8. ASSUME NEW c \in Cases, NEW p \in Partitions, NEW w \in hashes'[c][p]
        PROVE  /\ pc'[w.by] \in Ended
               /\ job'[w.by].kind = "logical" /\ job'[w.by].part = p
               /\ w.by \notin moved' /\ Alone(w.by)' =>
                    dir'[w.by] = c /\ w.of = trees'[c][p]
    <3>1. w \in hashes[c][p] /\ w.by \in Jobs
      BY <1>a, <2>2, <2>8 DEF TypeOK, Digest
    <3>2. /\ pc[w.by] \in Ended /\ job[w.by].kind = "logical" /\ job[w.by].part = p
          /\ w.by \notin moved /\ Alone(w.by) => dir[w.by] = c /\ w.of = trees[c][p]
      BY <3>1 DEF HashInv, Ended
    <3>3. w.by # j
      BY <2>1, <3>2 DEF Ended
    <3> QED BY <2>1, <2>2, <2>4, <2>5, <2>6, <3>1, <3>2, <3>3
  <2> QED BY <2>7, <2>8 DEF HashInv, Ended
<1>11. ASSUME NEW j \in Jobs, ReadPath(j) PROVE HashInv'
  <2>1. /\ pc[j] = "path" /\ pc'[j] = "client" /\ \A i \in Jobs \ {j} : pc'[i] = pc[i]
    BY <1>11, GoType DEF ReadPath, PC
  <2>2. job[j].kind = "physical" /\ \A i \in Jobs \ {j} : dir'[i] = dir[i]
    BY <1>11, <1>a, <2>1 DEF ReadPath, TypeOK, JobInv
  <2> QED BY <1>11, <2>1, <2>2, HashFrame DEF ReadPath, Shared, storeVars, Ended
<1>12. ASSUME NEW j \in Jobs, StartClient(j) PROVE HashInv'
  BY <1>12, GoType, HashRunFrame DEF StartClient, Shared, PC
<1>13. ASSUME NEW j \in Jobs, ClientHasNoFile(j) PROVE HashInv'
  BY <1>13, GoType, HashRunFrame DEF ClientHasNoFile, Shared, storeVars, PC
<1>14. ASSUME NEW j \in Jobs, NoClient(j) PROVE HashInv'
  BY <1>14, GoType, HashRunFrame DEF NoClient, AfterError, Shared, storeVars, PC
<1>15. ASSUME NEW j \in Jobs, EndClient(j) PROVE HashInv'
  BY <1>15, GoType, HashRunFrame DEF EndClient, Shared, PC
<1>16. ASSUME NEW j \in Jobs, MakeHashDir(j) PROVE HashInv'
  BY <1>16, GoType, HashRunFrame DEF MakeHashDir, Shared, PC
<1>17. ASSUME NEW j \in Jobs, OpenHash(j) PROVE HashInv'
  <2>1. Go(j, "open", "digest") \/ Go(j, "open", "hide")
    BY <1>17 DEF OpenHash, AfterError
  <2>2. \A c \in Cases, p \in Partitions : hashes'[c][p] \in SUBSET hashes[c][p]
    BY <1>17 DEF OpenHash
  <2> QED BY <1>17, <2>1, <2>2, GoType, HashRunFrame DEF OpenHash, Shared, PC
<1>18. ASSUME NEW j \in Jobs, Md5deep(j) PROVE HashInv'
  <2>1. UNCHANGED <<job, dir, trees, hashes, moved>>
    BY <1>18 DEF Md5deep, Shared, storeVars
  <2>2. CASE Go(j, "digest", "hide") /\ UNCHANGED digest
    BY <2>1, <2>2, GoType, HashRunFrame DEF PC
  <2>3. CASE Go(j, "digest", "seal") /\ digest' = [digest EXCEPT ![j] = DigestOf(j)]
    <3>1. /\ pc[j] = "digest" /\ pc'[j] = "seal" /\ \A i \in Jobs \ {j} : pc'[i] = pc[i]
      BY <2>3, GoType DEF PC
    <3>2. digest'[j] = DigestOf(j) /\ \A i \in Jobs \ {j} : digest'[i] = digest[i]
      BY <2>3, <1>a DEF TypeOK
    <3>3. job[j].kind = "logical" => digest'[j] = trees[dir[j]][job[j].part]
      BY <1>b, <3>1, <3>2 DEF DigestOf
    <3>4. \A i \in Jobs : Alone(i)' => Alone(i)
      BY <2>1, <3>1 DEF Alone
    <3>5. \A i \in Jobs : pc'[i] = "seal" /\ job'[i].kind = "logical" /\ Alone(i)' =>
            digest'[i] = trees'[dir'[i]][job'[i].part]
      BY <2>1, <3>1, <3>2, <3>3, <3>4 DEF HashInv
    <3>6. ASSUME NEW c \in Cases, NEW p \in Partitions, NEW w \in hashes[c][p]
          PROVE  w.by \in Jobs /\ w.by # j
      <4>1. w.by \in Jobs
        BY <1>a DEF TypeOK, Digest
      <4>2. pc[w.by] \in Ended
        BY DEF HashInv, Ended
      <4> QED BY <3>1, <4>1, <4>2 DEF Ended
    <3>7. \A c \in Cases, p \in Partitions : \A w \in hashes'[c][p] :
            /\ pc'[w.by] \in Ended
            /\ job'[w.by].kind = "logical" /\ job'[w.by].part = p
            /\ w.by \notin moved' /\ Alone(w.by)' =>
                 dir'[w.by] = c /\ w.of = trees'[c][p]
      BY <2>1, <3>1, <3>4, <3>6 DEF HashInv, Ended
    <3> QED BY <3>5, <3>7 DEF HashInv, Ended
  <2> QED BY <1>18, <2>2, <2>3 DEF Md5deep, AfterError
<1>19. ASSUME NEW j \in Jobs, SetReadOnly(j) PROVE HashInv'
  <2> DEFINE new == [by |-> j, of |-> digest[j]]
  <2>1. /\ pc[j] = "seal" /\ pc'[j] = "hide" /\ \A i \in Jobs \ {j} : pc'[i] = pc[i]
    BY <1>19, GoType DEF SetReadOnly, PC
  <2>2. UNCHANGED <<job, dir, digest, trees, moved>>
    BY <1>19 DEF SetReadOnly, Shared
  <2>3. \A i \in Jobs : Alone(i)' => Alone(i)
    BY <2>1, <2>2 DEF Alone
  <2>4. \A c \in Cases, p \in Partitions :
          hashes'[c][p] =
            IF HashIn(j, hdir[j]) = [case |-> c, kind |-> "logical", part |-> p]
            THEN hashes[c][p] \union {new} ELSE hashes[c][p]
    BY <1>19 DEF SetReadOnly
  <2>5. \A i \in Jobs : pc'[i] = "seal" /\ job'[i].kind = "logical" /\ Alone(i)' =>
          digest'[i] = trees'[dir'[i]][job'[i].part]
    BY <2>1, <2>2, <2>3 DEF HashInv
  <2>6. ASSUME NEW c \in Cases, NEW p \in Partitions,
               HashIn(j, hdir[j]) = [case |-> c, kind |-> "logical", part |-> p]
        PROVE  /\ hdir[j] = c /\ job[j].kind = "logical" /\ job[j].part = p
               /\ j \notin moved /\ Alone(j) => dir[j] = c /\ digest[j] = trees[c][p]
    <3>1. hdir[j] = c /\ job[j].kind = "logical" /\ job[j].part = p
      BY <2>6 DEF HashIn
    <3>2. j \notin moved => dir[j] = c
      BY <2>1, <3>1 DEF CustodyInv, PathInv
    <3> QED BY <2>1, <3>1, <3>2 DEF HashInv
  <2>7. ASSUME NEW c \in Cases, NEW p \in Partitions, NEW w \in hashes'[c][p]
        PROVE  /\ pc'[w.by] \in Ended
               /\ job'[w.by].kind = "logical" /\ job'[w.by].part = p
               /\ w.by \notin moved' /\ Alone(w.by)' =>
                    dir'[w.by] = c /\ w.of = trees'[c][p]
    <3>1. CASE w \in hashes[c][p]
      <4>1. w.by \in Jobs
        BY <1>a, <3>1 DEF TypeOK, Digest
      <4>2. /\ pc[w.by] \in Ended /\ job[w.by].kind = "logical" /\ job[w.by].part = p
            /\ w.by \notin moved /\ Alone(w.by) => dir[w.by] = c /\ w.of = trees[c][p]
        BY <3>1 DEF HashInv, Ended
      <4> QED BY <2>1, <2>2, <2>3, <4>1, <4>2 DEF Ended
    <3>2. CASE /\ w = new
               /\ HashIn(j, hdir[j]) = [case |-> c, kind |-> "logical", part |-> p]
      <4>1. w.by = j /\ w.of = digest[j]
        BY <3>2
      <4> QED BY <2>1, <2>2, <2>3, <2>6, <3>2, <4>1 DEF Ended
    <3> HIDE DEF new
    <3> QED BY <2>4, <2>7, <3>1, <3>2
  <2> QED BY <2>5, <2>7 DEF HashInv, Ended
<1>20. ASSUME NEW j \in Jobs, HideBar(j) PROVE HashInv'
  <2>1. Go(j, "hide", "dead") \/ Go(j, "hide", "done")
    BY <1>20 DEF HideBar
  <2> QED BY <1>20, <2>1, GoType, HashRunFrame DEF HideBar, Shared, storeVars, PC, Ended
<1>21. CASE UNCHANGED vars
  BY <1>1, <1>21 DEF vars, jobVars, storeVars
<1> QED BY <1>2, <1>3, <1>4, <1>5, <1>6, <1>7, <1>8, <1>9, <1>10, <1>11, <1>12, <1>13,
           <1>14, <1>15, <1>16, <1>17, <1>18, <1>19, <1>20, <1>21
        DEF Next, Click, Handler, Run

(* A sealed hash is of the directory beside it and of what is in it.       *)
THEOREM HashesFit == Spec => []HashFitsTree
<1>1. Init => HashInv
  BY DEF Init, HashInv
<1>2. HashInv => HashFitsTree
  BY DEF HashInv, HashFitsTree
<1> QED BY <1>1, <1>2, InitTypeInv, InitCustodyInv, NextTypeInv, NextCustodyInv,
           NextHashInv, PTL DEF Spec
-----------------------------------------------------------------------------
(***************************************************************************)
(* The threads implement the jobs of Custody.                              *)
(***************************************************************************)

LEMMA InitFreeInv == Init => FreeInv
BY DEF Init, FreeInv

LEMMA NextFreeInv ==
  ASSUME TypeInv, FreeInv, [Next]_vars
  PROVE  FreeInv'
<1>1. ASSUME \A j \in Jobs : pc'[j] = "free" => pc[j] = "free", UNCHANGED job,
             \A j \in Jobs : pc[j] = "free" /\ j \in moved' => j \in moved
      PROVE  FreeInv'
  BY <1>1 DEF FreeInv
<1>2. ASSUME NEW j \in Jobs, NEW here, NEW next \in PC \ {"free"}, Go(j, here, next),
             UNCHANGED <<job, moved>>
      PROVE  FreeInv'
  BY <1>1, <1>2, GoType
<1>3. CASE Click
  BY <1>1, <1>3 DEF Click, OpenCase, Logout, Acquire, jobVars, Active
<1>4. ASSUME NEW t \in Task, NEW j \in Jobs, StartLogical(t, j) \/ StartPhysical(t, j)
      PROVE  FreeInv'
  <2>1. t \in todo /\ Make(t, j) /\ UNCHANGED moved
    BY <1>4 DEF StartLogical, StartPhysical, IsNext
  <2> QED BY <2>1, MakeType DEF FreeInv
<1>5. CASE StopListening \/ \E t \in Task : NoPhysical(t)
  BY <1>1, <1>5 DEF StopListening, NoPhysical, jobVars
<1>6. ASSUME NEW j \in Jobs, ShowBar(j) \/ HideBar(j) PROVE FreeInv'
  <2>1. \E here, next \in PC \ {"free"} : Go(j, here, next)
    BY <1>6 DEF ShowBar, HideBar, PC
  <2> QED BY <1>2, <1>6, <2>1 DEF ShowBar, HideBar, Shared
<1>7. ASSUME NEW j \in Jobs, Run(j) PROVE FreeInv'
  <2>1. \E here, next \in PC \ {"free"} : Go(j, here, next)
    BY <1>7 DEF Run, PullRoot, ReadPath, StartClient, ClientHasNoFile, NoClient, EndClient,
         MakeHashDir, OpenHash, Md5deep, SetReadOnly, AfterError, PC
  <2>2. UNCHANGED <<job, moved>>
    BY <1>7 DEF Run, PullRoot, ReadPath, StartClient, ClientHasNoFile, NoClient, EndClient,
         MakeHashDir, OpenHash, Md5deep, SetReadOnly, Shared
  <2> QED BY <1>2, <2>1, <2>2
<1>8. CASE UNCHANGED vars
  BY <1>1, <1>8 DEF vars, jobVars
<1> QED BY <1>3, <1>4, <1>5, <1>6, <1>7, <1>8 DEF Next, Handler

LEMMA InitCustodian == Init => Custodian!Init
<1> SUFFICES ASSUME Init PROVE Custodian!Init
  OBVIOUS
<1>1. Home = [j \in Jobs |-> NoCase]
  <2>1. \A j \in Jobs : job[j].case = NoCase
    BY DEF Init, NullJob
  <2> QED BY <2>1 DEF Home
<1>2. Busy = {} /\ Noted = {} /\ Strayed = {} /\ InStore = {}
  BY DEF Init, Busy, Active, Noted, Strayed, InStore
<1> QED BY <1>1, <1>2 DEF Init, Custodian!Init

(* What a step that starts and stores nothing leaves as it is.             *)
LEMMA SameJobs ==
  ASSUME UNCHANGED <<job, log, unlogged, moved>>
  PROVE  UNCHANGED <<Home, Noted, unlogged, Strayed>>
BY DEF Home, Noted, HashIn, Strayed

LEMMA SameStore ==
  ASSUME UNCHANGED <<images, trees>>
  PROVE  InStore' = InStore
BY DEF InStore

LEMMA GoBusy ==
  ASSUME TypeInv, NEW j \in Jobs, NEW here, NEW next \in PC, Go(j, here, next),
         here \notin {"free", "done", "dead"}
  PROVE  /\ j \in Busy
         /\ Busy' = IF next \in {"free", "done", "dead"} THEN Busy \ {j} ELSE Busy
BY GoType DEF Busy, Active

(* A thread begins in the case open at the click.                          *)
LEMMA BeginStep ==
  ASSUME TypeInv, FreeInv, NEW t \in todo, NEW j \in Jobs, Make(t, j),
         log \in SUBSET log', unlogged' \in {unlogged, unlogged \union {j}},
         LogRow(t) \in log' \/ j \in unlogged',
         UNCHANGED <<gbPath, images, trees, moved>>
  PROVE  Custodian!Next
<1>1. /\ pc[j] = "free" /\ job[j] = NullJob /\ j \notin moved
      /\ pc'[j] = "show" /\ \A i \in Jobs \ {j} : job'[i] = job[i] /\ pc'[i] = pc[i]
      /\ job'[j].kind = t.kind /\ job'[j].part = t.part /\ job'[j].case = gbPath
  BY MakeType DEF Make, FreeInv, TypeInv, TypeOK
<1>2. gbPath \in Cases
  BY DEF TypeInv, JobInv
<1>3. Home[j] = NoCase /\ Home' = [Home EXCEPT ![j] = gbPath]
  <2>1. \A i \in Jobs : job'[i].case = IF i = j THEN gbPath ELSE job[i].case
    BY <1>1
  <2>2. job[j].case = NoCase
    BY <1>1 DEF NullJob
  <2> QED BY <2>1, <2>2 DEF Home
<1>4. Busy' = Busy \union {j}
  BY <1>1 DEF Busy, Active
<1>5. j \notin Noted
  <2>1. HashIn(j, NoCase) \notin HashFile
    BY <1>1, NullAssumption DEF HashIn, HashFile
  <2> QED BY <1>1, <2>1 DEF Noted, NullJob, TypeInv, TypeOK
<1>6. Noted \subseteq Noted'
  BY <1>1, <1>5 DEF Noted, HashIn
<1>7. j \in Noted' \union unlogged'
  BY <1>1 DEF Noted, HashIn, LogRow
<1>8. Strayed' = Strayed
  BY <1>1 DEF Strayed, TypeInv, TypeOK
<1>9. Custodian!Begin(j, gbPath)
  BY <1>3, <1>4, <1>6, <1>7, <1>8, SameStore DEF Custodian!Begin
<1> QED BY <1>2, <1>9 DEF Custodian!Next

(* A thread at work that is where its evidence belongs, or has strayed.    *)
LEMMA FileStep ==
  ASSUME NEW j \in Jobs, NEW c \in Cases, j \in Busy, Busy' = Busy,
         j \in Strayed \/ c = job[j].case,
         \A d \in Cases, p \in Partitions :
           /\ \A w \in images'[d][p] : w \in images[d][p] \/ (w.by = j /\ d = c)
           /\ \A i \in trees'[d][p] : i \in trees[d][p] \/ (i = j /\ d = c),
         UNCHANGED <<job, log, unlogged, moved>>
  PROVE  Custodian!Next
<1>1. ASSUME NEW e \in InStore', e \notin InStore PROVE e = [by |-> j, in |-> c]
  <2>1. e \in [by : Jobs, in : Cases]
    BY DEF InStore
  <2>2. e.by = j /\ e.in = c
    BY <1>1, <2>1 DEF InStore
  <2> QED BY <2>1, <2>2
<1>2. c = Home[j] \/ j \in Strayed
  BY DEF Home
<1>3. Custodian!File(j, c)
  BY <1>1, <1>2, SameJobs DEF Custodian!File
<1> QED BY <1>3 DEF Custodian!Next

LEMMA NextCustodian ==
  ASSUME TypeInv, CustodyInv, FreeInv, [Next]_vars
  PROVE  [Custodian!Next]_(Custodian!vars)
<1>a. TypeOK /\ JobInv /\ \A j \in Jobs : PathInv(j)
  BY DEF TypeInv, CustodyInv
<1>1. ASSUME UNCHANGED <<job, log, unlogged, moved, images, trees>>, Busy' = Busy
      PROVE  UNCHANGED Custodian!vars
  BY <1>1, SameJobs, SameStore DEF Custodian!vars
<1>2. ASSUME NEW j \in Jobs, NEW here \in PC \ {"free", "done", "dead"},
             NEW next \in PC \ {"free", "done", "dead"}, Go(j, here, next),
             UNCHANGED <<job, log, unlogged, moved, images, trees>>
      PROVE  UNCHANGED Custodian!vars
  BY <1>1, <1>2, GoBusy
<1>3. ASSUME UNCHANGED <<pc, job, log, unlogged, images, trees>>,
             moved \in SUBSET moved', moved' \in SUBSET (moved \union Busy)
      PROVE  Custodian!Next
  <2>1. UNCHANGED <<Home, Busy, Noted, InStore>>
    BY <1>3, SameStore DEF Home, Busy, Active, Noted, HashIn
  <2>2. Strayed \subseteq Strayed' /\ Strayed' \subseteq Strayed \union Busy
    BY <1>3 DEF Strayed
  <2> QED BY <1>3, <2>1, <2>2 DEF Custodian!Next, Custodian!Switch
<1>4. ASSUME NEW c \in Cases, NEW t \in Tabs, OpenCase(c, t) PROVE Custodian!Next
  BY <1>3, <1>4 DEF OpenCase, clickVars, jobVars, storeVars, Busy
<1>5. ASSUME Logout PROVE Custodian!Next
  BY <1>3, <1>5 DEF Logout, clickVars, jobVars, storeVars, Busy
<1>6. ASSUME NEW kinds \in SUBSET Kinds, NEW parts \in SUBSET Partitions,
             Acquire(kinds, parts)
      PROVE  UNCHANGED Custodian!vars
  BY <1>1, <1>6 DEF Acquire, jobVars, storeVars, Busy, Active
<1>7. ASSUME NEW t \in Task, NEW j \in Jobs, StartLogical(t, j) PROVE Custodian!Next
  <2>3. UNCHANGED <<gbPath, images, trees, moved>>
    BY <1>7 DEF StartLogical, caseVars, storeVars
  <2>1. t \in todo /\ Make(t, j) /\ Logdata(t, j)
    BY <1>7 DEF StartLogical, IsNext
  <2>2. /\ log \in SUBSET log' /\ unlogged' \in {unlogged, unlogged \union {j}}
        /\ LogRow(t) \in log' \/ j \in unlogged'
    BY <2>1 DEF Logdata
  <2> QED BY <2>1, <2>2, <2>3, BeginStep
<1>8. ASSUME NEW t \in Task, NEW j \in Jobs, StartPhysical(t, j) PROVE Custodian!Next
  <2>3. UNCHANGED <<gbPath, images, trees, moved>>
    BY <1>8 DEF StartPhysical, caseVars, storeVars
  <2>1. t \in todo /\ Make(t, j)
    BY <1>8 DEF StartPhysical, IsNext
  <2>2. /\ log \in SUBSET log' /\ unlogged' \in {unlogged, unlogged \union {j}}
        /\ LogRow(t) \in log' \/ j \in unlogged'
    BY <1>8 DEF StartPhysical, Logdata
  <2> QED BY <2>1, <2>2, <2>3, BeginStep
<1>9. ASSUME NEW t \in Task, NoPhysical(t) PROVE Custodian!Next
  <2>1. UNCHANGED <<Home, Busy, Strayed, InStore>> /\ Noted \subseteq Noted'
    BY <1>9, SameStore DEF NoPhysical, jobVars, storeVars, Home, Busy, Active, Strayed,
         Noted, HashIn
  <2> QED BY <1>9, <2>1 DEF NoPhysical, Custodian!Next, Custodian!Note
<1>10. ASSUME StopListening PROVE UNCHANGED Custodian!vars
  BY <1>1, <1>10 DEF StopListening, jobVars, storeVars, Busy, Active
<1>11. ASSUME NEW j \in Jobs, NEW here \in {"show", "hide"}, NEW next \in {"dead", "done"},
              Go(j, here, next), UNCHANGED <<job, log, unlogged, moved, images, trees>>
       PROVE  Custodian!Next
  <2>1. j \in Busy /\ Busy' = Busy \ {j}
    BY <1>11, GoBusy DEF PC
  <2> QED BY <1>11, <2>1, SameJobs, SameStore DEF Custodian!Next, Custodian!End
<1>12. ASSUME NEW j \in Jobs, ShowBar(j) PROVE [Custodian!Next]_(Custodian!vars)
  <2>1. UNCHANGED <<job, log, unlogged, moved, images, trees>>
    BY <1>12 DEF ShowBar, Shared, clickVars, storeVars
  <2>2. Go(j, "show", "dead") \/ Go(j, "show", "pull") \/ Go(j, "show", "path")
    BY <1>12 DEF ShowBar
  <2> QED BY <1>2, <1>11, <2>1, <2>2 DEF PC
<1>13. ASSUME NEW j \in Jobs, HideBar(j) PROVE Custodian!Next
  <2>1. UNCHANGED <<job, log, unlogged, moved, images, trees>>
    BY <1>13 DEF HideBar, Shared, clickVars, storeVars
  <2>2. Go(j, "hide", "dead") \/ Go(j, "hide", "done")
    BY <1>13 DEF HideBar
  <2> QED BY <1>11, <2>1, <2>2
<1>14. ASSUME NEW j \in Jobs, PullRoot(j) PROVE Custodian!Next
  <2>1. pc[j] = "pull" /\ j \in Busy /\ Busy' = Busy
    BY <1>14, GoBusy DEF PullRoot, PC, Go
  <2>2. dir[j] = job[j].case /\ job[j].case \in Cases
    BY <1>a, <2>1 DEF JobInv, PathInv, MadeJob
  <2>3. UNCHANGED <<job, log, unlogged, moved, images>>
    BY <1>14 DEF PullRoot, Shared, clickVars
  <2>4. \A d \in Cases, p \in Partitions :
          \A i \in trees'[d][p] : i \in trees[d][p] \/ (i = j /\ d = job[j].case)
    BY <1>14, <2>2 DEF PullRoot, PullDir
  <2> QED BY <2>1, <2>2, <2>3, <2>4, FileStep
<1>15. ASSUME NEW j \in Jobs, StartClient(j) PROVE Custodian!Next
  <2>1. pc[j] = "client" /\ j \in Busy /\ Busy' = Busy
    BY <1>15, GoBusy DEF StartClient, PC, Go
  <2>2. job[j].case \in Cases
    BY <1>a, <2>1 DEF JobInv, MadeJob
  <2>3. UNCHANGED <<job, log, unlogged, moved, trees>>
    BY <1>15 DEF StartClient, Shared, clickVars
  <2>4. \A d \in Cases, p \in Partitions : images'[d][p] \in SUBSET images[d][p]
    BY <1>15 DEF StartClient, SetImage
  <2> QED BY <2>1, <2>2, <2>3, <2>4, FileStep
<1>16. ASSUME NEW j \in Jobs, EndClient(j) PROVE Custodian!Next
  <2> DEFINE copied == {[by |-> j, from |-> l.job, holds |-> l.holds] : l \in from[j]}
  <2>1. pc[j] = "copy" /\ j \in Busy /\ Busy' = Busy
    BY <1>16, GoBusy DEF EndClient, PC, Go
  <2>2. job[j].case \in Cases /\ job[j].kind = "physical"
    BY <1>a, <2>1 DEF JobInv, MadeJob
  <2>3. UNCHANGED <<job, log, unlogged, moved, trees>>
    BY <1>16 DEF EndClient, Shared, clickVars
  <2>4. \A w \in copied : w.by = j
    OBVIOUS
  <2>5. \A d \in Cases, p \in Partitions :
          images'[d][p] = IF d = dir[j] /\ p = job[j].part
                          THEN images[d][p] \union copied ELSE images[d][p]
    BY <1>16 DEF EndClient, SetImage
  <2> HIDE DEF copied
  <2>6. CASE dir[j] \in Cases
    <3>1. j \in Strayed \/ dir[j] = job[j].case
      BY <1>a, <2>1, <2>2 DEF Strayed, PathInv
    <3>2. \A d \in Cases, p \in Partitions :
            \A w \in images'[d][p] : w \in images[d][p] \/ (w.by = j /\ d = dir[j])
      BY <2>4, <2>5
    <3> QED BY <2>1, <2>3, <2>6, <3>1, <3>2, FileStep
  <2>7. CASE dir[j] \notin Cases
    <3>1. \A d \in Cases, p \in Partitions : images'[d][p] = images[d][p]
      BY <2>5, <2>7
    <3> QED BY <2>1, <2>2, <2>3, <3>1, FileStep
  <2> QED BY <2>6, <2>7
<1>17. ASSUME NEW j \in Jobs,
              \/ ReadPath(j) \/ ClientHasNoFile(j) \/ NoClient(j)
              \/ MakeHashDir(j) \/ OpenHash(j) \/ Md5deep(j) \/ SetReadOnly(j)
       PROVE  UNCHANGED Custodian!vars
  <2>1. \E here, next \in PC \ {"free", "done", "dead"} : Go(j, here, next)
    BY <1>17 DEF ReadPath, ClientHasNoFile, NoClient, MakeHashDir, OpenHash, Md5deep,
         SetReadOnly, AfterError, PC
  <2>2. UNCHANGED <<job, log, unlogged, moved, images, trees>>
    BY <1>17 DEF ReadPath, ClientHasNoFile, NoClient, MakeHashDir, OpenHash, Md5deep,
         SetReadOnly, Shared, clickVars, storeVars
  <2> QED BY <1>2, <2>1, <2>2
<1>18. CASE UNCHANGED vars
  BY <1>1, <1>18 DEF vars, clickVars, jobVars, storeVars, Busy, Active
<1> QED BY <1>4, <1>5, <1>6, <1>7, <1>8, <1>9, <1>10, <1>12, <1>13, <1>14, <1>15, <1>16,
           <1>17, <1>18 DEF Next, Click, Handler, Run

(* Every acquisition, with any number of threads and whatever the user and *)
(* the failures do, is a behaviour of Custody.                             *)
THEOREM ImplementsCustody == Spec => KeepsCustody
<1> QED BY InitTypeInv, InitCustodyInv, InitFreeInv, InitCustodian,
           NextTypeInv, NextCustodyInv, NextFreeInv, NextCustodian, PTL
        DEF Spec, KeepsCustody, Custodian!Spec

(* What is proved of Custody, of the same jobs.                            *)
Keeper == INSTANCE CustodyProofs WITH
  home <- Home, working <- Busy, noted <- Noted, unnoted <- unlogged,
  strayed <- Strayed, store <- InStore

(* So the chain of custody holds of every image and every tree: it is in   *)
(* the case of its thread, announced there, but for a thread under which   *)
(* the case was changed, or whose log entry was lost (LogicalAcquisition,  *)
(* PhysicalAcquisition).                                                   *)
THEOREM AcquisitionsKeepCustody == Spec => []Custodian!Kept
<1>1. NoCase \notin Cases
  BY NullAssumption
<1>2. Keeper!Spec => []Keeper!Kept
  BY <1>1, Keeper!CustodyIsKept
<1>3. Custodian!Init => Keeper!Init
  BY DEF Custodian!Init, Keeper!Init
<1>4. [Custodian!Next]_(Custodian!vars) => [Keeper!Next]_(Keeper!vars)
  BY DEF Custodian!Next, Keeper!Next, Custodian!vars, Keeper!vars,
         Custodian!Begin, Keeper!Begin, Custodian!File, Keeper!File, Custodian!End, Keeper!End,
         Custodian!Note, Keeper!Note, Custodian!Switch, Keeper!Switch
<1>5. Keeper!Kept => Custodian!Kept
  BY DEF Keeper!Kept, Custodian!Kept
<1> QED BY <1>2, <1>3, <1>4, <1>5, ImplementsCustody, PTL
        DEF KeepsCustody, Custodian!Spec, Keeper!Spec
=============================================================================
