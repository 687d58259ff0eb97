---------------------------- MODULE Acquisition ----------------------------
(***************************************************************************)
(* Acquiring the partitions of a device (NoneVolCollection.java and the    *)
(* methods of AdbExecCmd.java it calls): the Acquire button, whose handler *)
(* starts one thread per ticked partition and level, the threads that pull *)
(* a file system (logical) or copy an image (physical), and the hash each  *)
(* of them leaves beside what it acquired.                                 *)
(*                                                                         *)
(* A physical acquisition has two ends.  The user-interface thread starts  *)
(* files/b.sh, which makes the device listen with the partition's device   *)
(* file, and reads its output to the end; the thread starts files/c.sh,    *)
(* which connects and copies what it is served to a file of the case.      *)
(* Neither script is given a port, so every c.sh reaches every listener.   *)
(* The scripts, adb and md5deep are external: a listener serves one        *)
(* client, and b.sh either returns at once or when its client was served.  *)
(*                                                                         *)
(* The threads read AndrospyMain.gb_CasePath when they get to it; opening  *)
(* a case makes a new tab with a bar of its own and leaves the threads of  *)
(* the old one running; a logout disposes every tab.                       *)
(*                                                                         *)
(* What is named gb_CasePath + "Acquire" is a directory of the store when  *)
(* the path ends with a slash.  Otherwise (CaseStore, OpenStored) it is a  *)
(* directory beside the store, called 12Acquire instead of 12/Acquire,     *)
(* which does not exist until adb pull makes it.  Either is "the Acquire"  *)
(* of the case here.                                                       *)
(***************************************************************************)
EXTENDS Naturals, FiniteSets

CONSTANTS
  Jobs,        (* the threads, one per partition and level of a click       *)
  Tabs,        (* NoneVolCollection objects, one per opened case            *)
  Partitions,  (* "DATA", "SYSTEM" and "CACHE"                              *)
  Rank,        (* their order in the handler of Acquire                     *)
  Cases,       (* forensic cases, each with its store and its Acquire       *)
  Beside,      (* those whose path has no slash: the list made their store  *)
  NoCase,      (* gb_CasePath = "": nobody is logged in, or no case is open *)
  NoTab,       (* there is no Acquisition tab                               *)
  NoPartition, (* the partition of a thread that was not made yet           *)
  NoJob,       (* no thread                                                 *)
  BshWaits,    (* bound: whether b.sh waits for its client, FALSE, TRUE     *)
  MaxFaults    (* bound: calls that fail                                    *)

Kinds == {"logical", "physical"}

ASSUME RankAssumption ==
  /\ Rank \in [Partitions -> Nat]
  /\ \A p, q \in Partitions : Rank[p] = Rank[q] => p = q
ASSUME NullAssumption ==
  /\ NoCase \notin Cases /\ NoTab \notin Tabs
  /\ NoPartition \notin Partitions /\ NoJob \notin Jobs
ASSUME BesideAssumption == Beside \subseteq Cases
ASSUME BoundAssumption == BshWaits \in SUBSET BOOLEAN /\ MaxFaults \in Nat

(* An acquisition a click asks for, and a listener on the device.          *)
Task == [kind : Kinds, part : Partitions]
Listener == [job : Jobs, holds : Partitions]

(* The file of a hash in Acquire/Hashes: data.hash or Data.dd.hash, ...    *)
HashFile == [case : Cases, kind : Kinds, part : Partitions]

VARIABLES
  bshWaits,    (* how the b.sh of this installation behaves                 *)
  gbPath,      (* AndrospyMain.gb_CasePath, as the case it leads to         *)
  tab,         (* the Acquisition tab shown                                 *)
  tabs,        (* which tabs are "new" (not made), "open" or "disposed"     *)
  bar,         (* whether the progressBar of a tab is visible               *)
  todo,        (* what the running handler of Acquire has still to start    *)
  listening,   (* the thread beside whose b.sh the handler waits, or NoJob  *)
  pc,          (* where each thread stands                                  *)
  job,         (* its kind, partition and tab, and the case open at Acquire *)
  dir,         (* the case whose Acquire it writes to                       *)
  from,        (* the listener c.sh is connected to: none, or a set of one  *)
  hdir,        (* the case whose Acquire/Hashes it writes to                *)
  digest,      (* what md5deep -r read: the threads that wrote those files  *)
  listeners,   (* listeners waiting on the device                           *)
  images,      (* what the image of a partition of a case is made of        *)
  trees,       (* the threads whose files are in a directory of a case      *)
  acquireDirs, (* the cases whose Acquire exists                            *)
  hashDirs,    (* the cases with a directory Acquire/Hashes                 *)
  hashes,      (* what the hash file of a directory is made of              *)
  sealed,      (* the hash files set read-only                              *)
  log,         (* Androspy_Log: the acquisitions announced                  *)
  faults,      (* failed calls so far                                       *)
  (* History variables: no guard and no other variable reads them.          *)
  unlogged,    (* threads whose log entry was not inserted                  *)
  moved,       (* threads under which the open case changed                 *)
  crowded      (* threads that shared the device with another's listener    *)

caseVars  == <<gbPath, tab, tabs>>
jobVars   == <<job, dir, from, hdir, digest>>
storeVars == <<images, trees, acquireDirs, hashDirs, hashes, sealed>>
clickVars == <<todo, listening, log, unlogged, crowded>>
vars == <<bshWaits, caseVars, bar, clickVars, pc, jobVars, listeners, storeVars,
          faults, moved>>

-----------------------------------------------------------------------------
PC == {"free", "show", "pull", "path", "client", "copy", "hash", "open",
       "digest", "seal", "hide", "done", "dead"}

JobType == [kind : Kinds \union {"none"}, part : Partitions \union {NoPartition},
            tab : Tabs \union {NoTab}, case : Cases \union {NoCase}]

Written == [by : Jobs, from : Jobs, holds : Partitions]
Digest == [by : Jobs, of : SUBSET Jobs]

TypeOK ==
  /\ bshWaits \in BOOLEAN
  /\ gbPath \in Cases \union {NoCase} /\ tab \in Tabs \union {NoTab}
  /\ tabs \in [Tabs -> {"new", "open", "disposed"}] /\ bar \in [Tabs -> BOOLEAN]
  /\ todo \in SUBSET Task /\ listening \in Jobs \union {NoJob}
  /\ pc \in [Jobs -> PC] /\ job \in [Jobs -> JobType]
  /\ dir \in [Jobs -> Cases \union {NoCase}]
  /\ from \in [Jobs -> SUBSET Listener]
  /\ hdir \in [Jobs -> Cases \union {NoCase}]
  /\ digest \in [Jobs -> SUBSET Jobs] /\ listeners \in SUBSET Listener
  /\ images \in [Cases -> [Partitions -> SUBSET Written]]
  /\ trees \in [Cases -> [Partitions -> SUBSET Jobs]]
  /\ acquireDirs \in SUBSET Cases /\ hashDirs \in SUBSET Cases
  /\ hashes \in [Cases -> [Partitions -> SUBSET Digest]]
  /\ sealed \in SUBSET HashFile /\ log \in SUBSET HashFile
  /\ faults \in 0..MaxFaults
  /\ unlogged \in SUBSET Jobs /\ moved \in SUBSET Jobs /\ crowded \in SUBSET Jobs

NullJob == [kind |-> "none", part |-> NoPartition, tab |-> NoTab, case |-> NoCase]

Init ==
  /\ bshWaits \in BshWaits
  /\ gbPath = NoCase /\ tab = NoTab
  /\ tabs = [t \in Tabs |-> "new"] /\ bar = [t \in Tabs |-> FALSE]
  /\ todo = {} /\ listening = NoJob
  /\ pc = [j \in Jobs |-> "free"] /\ job = [j \in Jobs |-> NullJob]
  /\ dir = [j \in Jobs |-> NoCase] /\ from = [j \in Jobs |-> {}]
  /\ hdir = [j \in Jobs |-> NoCase] /\ digest = [j \in Jobs |-> {}]
  /\ listeners = {}
  /\ images = [c \in Cases |-> [p \in Partitions |-> {}]]
  /\ trees = [c \in Cases |-> [p \in Partitions |-> {}]]
  /\ acquireDirs = Cases \ Beside /\ hashDirs = {}
  /\ hashes = [c \in Cases |-> [p \in Partitions |-> {}]]
  /\ sealed = {} /\ log = {} /\ faults = 0
  /\ unlogged = {} /\ moved = {} /\ crowded = {}

Fault == faults < MaxFaults /\ faults' = faults + 1

-----------------------------------------------------------------------------
(* The user-interface thread.                                              *)

(* It is in the event loop, the only place where it takes the next click   *)
(* or runs what a thread handed over with syncExec.                        *)
UiIdle == todo = {} /\ listening = NoJob

Active(j) == pc[j] \notin {"free", "done", "dead"}

(* NewCase.OpenCase and createTabs: the path, and a new Acquisition tab.   *)
OpenCase(c, t) ==
  /\ UiIdle /\ tabs[t] = "new"
  /\ gbPath' = c /\ tab' = t /\ tabs' = [tabs EXCEPT ![t] = "open"]
  /\ moved' = moved \union {j \in Jobs : Active(j) /\ c # gbPath}
  /\ UNCHANGED <<bshWaits, bar, clickVars, pc, jobVars, listeners, storeVars,
                 faults>>

(* Androspy.Logout: the path is reset and every tab is disposed.           *)
Logout ==
  /\ UiIdle /\ tab # NoTab
  /\ gbPath' = NoCase /\ tab' = NoTab
  /\ tabs' = [t \in Tabs |-> IF tabs[t] = "open" THEN "disposed" ELSE tabs[t]]
  /\ moved' = moved \union {j \in Jobs : Active(j)}
  /\ UNCHANGED <<bshWaits, bar, clickVars, pc, jobVars, listeners, storeVars,
                 faults>>

(* btnAcquire.widgetSelected, for the boxes ticked.  The bound: there are  *)
(* threads left for all of them.                                           *)
Acquire(kinds, parts) ==
  /\ UiIdle /\ tab # NoTab /\ kinds # {} /\ parts # {}
  /\ todo' = [kind : kinds, part : parts]
  /\ Cardinality(todo') <= Cardinality({j \in Jobs : pc[j] = "free"})
  /\ UNCHANGED <<bshWaits, caseVars, bar, listening, log, unlogged, crowded, pc,
                 jobVars, listeners, storeVars, faults, moved>>

(* The handler takes the logical ones first, each level in its order.      *)
Before(t, u) ==
  \/ t.kind = "logical" /\ u.kind = "physical"
  \/ t.kind = u.kind /\ Rank[t.part] < Rank[u.part]

IsNext(t) ==
  /\ listening = NoJob /\ t \in todo
  /\ \A u \in todo \ {t} : Before(t, u)

(* AndrospyLog.Logdata: a failing INSERT is only printed.                  *)
LogRow(t) == [case |-> gbPath, kind |-> t.kind, part |-> t.part]

Logdata(t, j) ==
  \/ log' = log \union {LogRow(t)} /\ UNCHANGED <<unlogged, faults>>
  \/ Fault /\ unlogged' = unlogged \union {j} /\ UNCHANGED log

Make(t, j) ==
  /\ pc[j] = "free"
  /\ pc' = [pc EXCEPT ![j] = "show"]
  /\ job' = [job EXCEPT ![j] = [kind |-> t.kind, part |-> t.part, tab |-> tab,
                                case |-> gbPath]]

(* LogicalAcquisition: the path is read here, in the handler.              *)
StartLogical(t, j) ==
  /\ IsNext(t) /\ t.kind = "logical"
  /\ Logdata(t, j) /\ Make(t, j)
  /\ dir' = [dir EXCEPT ![j] = gbPath]
  /\ todo' = todo \ {t}
  /\ UNCHANGED <<bshWaits, caseVars, bar, listening, crowded, from, hdir, digest,
                 listeners, storeVars, moved>>

(* AdbExecCmd.getMounts: the device file of a partition; the variant takes *)
(* the one tmp was initialised with.                                       *)
FirstMount(p) == CHOOSE q \in Partitions : \A r \in Partitions : Rank[q] <= Rank[r]

Mounts(p) == p

(* A thread that has not connected yet and the listeners that wait: who    *)
(* may meet on the port.                                                   *)
Waiting ==
  {j \in Jobs : job[j].kind = "physical" /\ pc[j] \in {"show", "path", "client"}}
  \union {l.job : l \in listeners}

(* PhysicalAcquisition up to t.start(): a.sh, getMounts and b.sh.  When    *)
(* the device is gone, or mount does not list the partition, b.sh ends     *)
(* without a listener.                                                     *)
StartPhysical(t, j) ==
  /\ IsNext(t) /\ t.kind = "physical"
  /\ Make(t, j)
  /\ \/ /\ Logdata(t, j)
        /\ listeners' = listeners \union {[job |-> j, holds |-> Mounts(t.part)]}
     \/ /\ Fault /\ log' = log \union {LogRow(t)}
        /\ UNCHANGED <<unlogged, listeners>>
  /\ crowded' = IF Waiting = {} THEN crowded ELSE crowded \union Waiting \union {j}
  /\ todo' = todo \ {t} /\ listening' = j
  /\ UNCHANGED <<bshWaits, caseVars, bar, dir, from, hdir, digest, storeVars, moved>>

(* An IOException of a.sh or b.sh before t.start(): no thread is started.  *)
NoPhysical(t) ==
  /\ IsNext(t) /\ t.kind = "physical"
  /\ Fault
  /\ log' = log \union {LogRow(t)}
  /\ todo' = todo \ {t}
  /\ UNCHANGED <<bshWaits, caseVars, bar, listening, unlogged, crowded, pc,
                 jobVars, listeners, storeVars, moved>>


Eof(j) == bshWaits => \A l \in listeners : l.job # j

StopListening ==
  /\ listening # NoJob /\ Eof(listening)
  /\ listening' = NoJob
  /\ UNCHANGED <<bshWaits, caseVars, bar, todo, log, unlogged, crowded, pc,
                 jobVars, listeners, storeVars, faults, moved>>

-----------------------------------------------------------------------------
(* The threads.                                                            *)

Go(j, here, next) == pc[j] = here /\ pc' = [pc EXCEPT ![j] = next]

Shared == <<bshWaits, caseVars, clickVars, job, moved>>

Disposed(j) == tabs[job[j].tab] = "disposed"

(* syncExec waits for the event loop; the variant, like asyncExec, does    *)
(* not.                                                                    *)
MayShowAsync(j) == TRUE

MayShow(j) == UiIdle

(* syncExec: the bar is shown.  A disposed tab throws SWTException, which  *)
(* nobody catches.                                                         *)
ShowBar(j) ==
  /\ pc[j] = "show" /\ MayShow(j)
  /\ IF Disposed(j)
     THEN Go(j, "show", "dead") /\ UNCHANGED bar
     ELSE /\ Go(j, "show", IF job[j].kind = "logical" THEN "pull" ELSE "path")
          /\ bar' = [bar EXCEPT ![job[j].tab] = TRUE]
  /\ UNCHANGED <<Shared, dir, from, hdir, digest, listeners, storeVars, faults>>

(* AdbExecCmd.pullRoot, into the directory of the case open at the click;  *)
(* the variant takes the case open now.                                    *)
LatePullDir(j) == gbPath

PullDir(j) == dir[j]

(* Nobody looks at what adb pull reports: it may have pulled all, a part   *)
(* or nothing.  It makes the directories it needs.                         *)
PullRoot(j) ==
  /\ Go(j, "pull", "hash")
  /\ \/ /\ trees' = [c \in Cases |-> [p \in Partitions |->
                       IF c = PullDir(j) /\ p = job[j].part
                       THEN trees[c][p] \union {j} ELSE trees[c][p]]]
        /\ acquireDirs' = acquireDirs \union ({PullDir(j)} \ {NoCase})
        /\ UNCHANGED faults \/ Fault
     \/ Fault /\ UNCHANGED <<trees, acquireDirs>>
  /\ UNCHANGED <<Shared, bar, dir, from, hdir, digest, listeners, images, hashDirs,
                 hashes, sealed>>

(* spath = gb_CasePath + "Acquire/...dd", in the thread: the Acquire of    *)
(* the case that is open by now, in its store or beside it.                *)
ReadPath(j) ==
  /\ Go(j, "path", "client")
  /\ dir' = [dir EXCEPT ![j] = gbPath]
  /\ UNCHANGED <<Shared, bar, from, hdir, digest, listeners, storeVars, faults>>

SetImage(j, content) ==
  images' = [c \in Cases |-> [p \in Partitions |->
               IF c = dir[j] /\ p = job[j].part THEN content ELSE images[c][p]]]

(* c.sh empties the file and is served by some listener, or by none.       *)
StartClient(j) ==
  /\ Go(j, "client", "copy")
  /\ dir[j] \in acquireDirs
  /\ SetImage(j, {})
  /\ \/ /\ listeners = {} /\ UNCHANGED listeners
        /\ from' = [from EXCEPT ![j] = {}]
     \/ \E l \in listeners :
          /\ listeners' = listeners \ {l}
          /\ from' = [from EXCEPT ![j] = {l}]
  /\ UNCHANGED <<Shared, bar, dir, hdir, digest, trees, acquireDirs, hashDirs, hashes,
                 sealed, faults>>

(* There is no directory Acquire to write to.                              *)
ClientHasNoFile(j) ==
  /\ Go(j, "client", "hash")
  /\ dir[j] \notin acquireDirs
  /\ UNCHANGED <<Shared, bar, dir, from, hdir, digest, listeners, storeVars, faults>>

(* IOException: it is printed and the bar is hidden; the variant returns.  *)
AfterErrorReturn == "done"

AfterError == "hide"

NoClient(j) ==
  /\ Go(j, "client", AfterError)
  /\ Fault
  /\ UNCHANGED <<Shared, bar, dir, from, hdir, digest, listeners, storeVars>>

(* c.sh ends.  Two that write the same file mix what they copy.            *)
EndClient(j) ==
  /\ Go(j, "copy", "hash")
  /\ SetImage(j, images[dir[j]][job[j].part] \union
                 {[by |-> j, from |-> l.job, holds |-> l.holds] : l \in from[j]})
  /\ UNCHANGED <<Shared, bar, dir, from, hdir, digest, listeners, trees, acquireDirs,
                 hashDirs, hashes, sealed, faults>>

(* generateHash and generateFileHash: dir.mkdir() ...                      *)
MakeHashDir(j) ==
  /\ Go(j, "hash", "open")
  /\ hashDirs' = hashDirs \union ({gbPath} \intersect acquireDirs)
  /\ UNCHANGED <<Shared, bar, dir, from, hdir, digest, listeners, images, trees,
                 acquireDirs, hashes, sealed, faults>>

HashIn(j, c) == [case |-> c, kind |-> job[j].kind, part |-> job[j].part]

(* ... new FileOutputStream(hashfile), with the path read once more, fails *)
(* for a file set read-only before and where there is no directory; the    *)
(* variant does not know directories.                                      *)
MayOpenAnywhere(f) == f \notin sealed

MayOpen(f) == f.case \in hashDirs /\ f \notin sealed

OpenHash(j) ==
  LET f == HashIn(j, gbPath) IN
  /\ IF MayOpen(f)
     THEN /\ Go(j, "open", "digest")
          /\ hdir' = [hdir EXCEPT ![j] = gbPath]
          /\ hashes' = [c \in Cases |-> [p \in Partitions |->
                          IF f = [case |-> c, kind |-> "logical", part |-> p]
                          THEN {} ELSE hashes[c][p]]]
     ELSE Go(j, "open", AfterError) /\ UNCHANGED <<hdir, hashes>>
  /\ UNCHANGED <<Shared, bar, dir, from, digest, listeners, images, trees, acquireDirs,
                 hashDirs, sealed, faults>>

(* md5deep -r on the directory pulled; the variant on the first one.       *)
DigestFirst(j) ==
  IF dir[j] \in Cases THEN trees[dir[j]][FirstMount(job[j].part)] ELSE {}

DigestOf(j) == IF dir[j] \in Cases THEN trees[dir[j]][job[j].part] ELSE {}

Md5deep(j) ==
  /\ \/ /\ Go(j, "digest", "seal")
        /\ digest' = [digest EXCEPT ![j] = DigestOf(j)]
        /\ UNCHANGED faults
     \/ Go(j, "digest", AfterError) /\ Fault /\ UNCHANGED digest
  /\ UNCHANGED <<Shared, bar, dir, from, hdir, listeners, storeVars>>

(* What was read is flushed and the file is set read-only.  The hash of an *)
(* image never gets there: generateFileHash writes the empty line.         *)
SetReadOnly(j) ==
  LET f == HashIn(j, hdir[j]) IN
  /\ Go(j, "seal", "hide")
  /\ hashes' = [c \in Cases |-> [p \in Partitions |->
                  IF f = [case |-> c, kind |-> "logical", part |-> p]
                  THEN hashes[c][p] \union {[by |-> j, of |-> digest[j]]}
                  ELSE hashes[c][p]]]
  /\ sealed' = sealed \union {f}
  /\ UNCHANGED <<Shared, bar, dir, from, hdir, digest, listeners, images, trees,
                 acquireDirs, hashDirs, faults>>

(* syncExec: the bar is hidden, also when another thread still works.      *)
HideBar(j) ==
  /\ pc[j] = "hide" /\ UiIdle
  /\ IF Disposed(j)
     THEN Go(j, "hide", "dead") /\ UNCHANGED bar
     ELSE Go(j, "hide", "done") /\ bar' = [bar EXCEPT ![job[j].tab] = FALSE]
  /\ UNCHANGED <<Shared, dir, from, hdir, digest, listeners, storeVars, faults>>

-----------------------------------------------------------------------------
Handler ==
  \/ \E t \in Task, j \in Jobs : StartLogical(t, j) \/ StartPhysical(t, j)
  \/ \E t \in Task : NoPhysical(t)
  \/ StopListening

Click ==
  \/ \E c \in Cases, t \in Tabs : OpenCase(c, t)
  \/ Logout
  \/ \E kinds \in SUBSET Kinds, parts \in SUBSET Partitions : Acquire(kinds, parts)

Run(j) ==
  \/ PullRoot(j)
  \/ ReadPath(j) \/ StartClient(j) \/ ClientHasNoFile(j) \/ NoClient(j)
  \/ EndClient(j)
  \/ MakeHashDir(j) \/ OpenHash(j) \/ Md5deep(j) \/ SetReadOnly(j)

Next == Click \/ Handler \/ \E j \in Jobs : ShowBar(j) \/ Run(j) \/ HideBar(j)

Spec == Init /\ [][Next]_vars

(* A running handler goes on, the threads are scheduled, the scripts and   *)
(* tools end, and the event loop runs a waiting Runnable whenever no click *)
(* is queued, which is again and again the case.                           *)
Fairness ==
  /\ WF_vars(Handler)
  /\ \A j \in Jobs : /\ WF_vars(Run(j))
                     /\ SF_vars(ShowBar(j)) /\ SF_vars(HideBar(j))

FairSpec == Spec /\ Fairness

-----------------------------------------------------------------------------
(* Properties.                                                             *)

(* An image holds bytes of its own partition only, unless its thread was   *)
(* waiting for the device at the same time as another listener or thread   *)
(* (PhysicalAcquisition: c.sh cannot say which listener it wants).         *)
ImageOfItsPartition ==
  \A c \in Cases, p \in Partitions : \A w \in images[c][p] :
    w.by \notin crowded => w.holds = p

(* What is in the Acquire of a case, in its store or beside it, was        *)
(* announced in the log of that case: the directories always, the images   *)
(* unless the open case changed before the thread read its path            *)
(* (LogicalAcquisition, PhysicalAcquisition).                              *)
AcquiredInLoggedCase ==
  \A c \in Cases, p \in Partitions :
    /\ \A w \in images[c][p] : w.by \notin moved =>
         \/ [case |-> c, kind |-> "physical", part |-> p] \in log
         \/ w.by \in unlogged
    /\ \A j \in trees[c][p] :
         \/ [case |-> c, kind |-> "logical", part |-> p] \in log
         \/ j \in unlogged

(* No other thread ever pulled the same partition into the same case.      *)
Alone(j) ==
  \A i \in Jobs \ {j} :
    pc[i] # "free" /\ job[i].kind = "logical" /\ job[i].part = job[j].part =>
      dir[i] # dir[j]

(* A read-only hash of a directory is of the directory beside it and of    *)
(* the files it has, as long as they were pulled once and the open case    *)
(* did not change meanwhile (generateHash).                                *)
HashFitsTree ==
  \A c \in Cases, p \in Partitions :
    [case |-> c, kind |-> "logical", part |-> p] \in sealed =>
      \A w \in hashes[c][p] : w.by \notin moved /\ Alone(w.by) =>
        dir[w.by] = c /\ w.of = trees[c][p]

Working(j) == Active(j) /\ pc[j] # "show"

(* A bar that still turns means a thread that still works, whatever        *)
(* failed, unless the tab is gone.                                         *)
BarHiddenAtRest ==
  \A t \in Tabs : bar[t] /\ tabs[t] = "open" =>
    \E j \in Jobs : job[j].tab = t /\ Working(j)

(* If b.sh waits for its client, no image is ever made of what its own     *)
(* listener serves: the thread that would be the client waits in syncExec  *)
(* for the handler that reads the output of b.sh (PhysicalAcquisition).    *)
OwnListenerNeverServes ==
  bshWaits =>
    \A c \in Cases, p \in Partitions : \A w \in images[c][p] : w.from # w.by


(* A thread as a job of Custody.                                           *)
Home == [j \in Jobs |-> job[j].case]
Busy == {j \in Jobs : Active(j)}
Noted == {j \in Jobs : HashIn(j, job[j].case) \in log}
Strayed == {j \in moved : job[j].kind = "physical"}
InStore ==
  {e \in [by : Jobs, in : Cases] :
     \E p \in Partitions : \/ \E w \in images[e.in][p] : w.by = e.by
                           \/ e.by \in trees[e.in][p]}

Custodian == INSTANCE Custody WITH
  home <- Home, working <- Busy, noted <- Noted, unnoted <- unlogged,
  strayed <- Strayed, store <- InStore

(* The threads keep the chain of custody step by step: each is a job of    *)
(* the case whose Acquire it was, a copy of a directory never strays, and  *)
(* none files evidence after its end (LogicalAcquisition,                  *)
(* PhysicalAcquisition).                                                   *)
KeepsCustody == Custodian!Spec
-----------------------------------------------------------------------------
(* What makes the properties above inductive.                              *)

MadeJob == [kind : Kinds, part : Partitions, tab : Tabs, case : Cases]

(* A handler of Acquire has a tab and a case; a thread has what it was     *)
(* made with, and stands where its kind can; a hash is written somewhere.  *)
JobInv ==
  /\ tab # NoTab \/ todo # {} => tab \in Tabs /\ gbPath \in Cases
  /\ \A j \in Jobs :
       /\ pc[j] # "free" => job[j] \in MadeJob
       /\ pc[j] = "pull" => job[j].kind = "logical"
       /\ pc[j] \in {"path", "client", "copy"} => job[j].kind = "physical"
       /\ pc[j] \in {"digest", "seal"} => hdir[j] \in Cases

TypeInv == TypeOK /\ JobInv

(* A listener holds the partition of its thread, and whoever is not        *)
(* crowded can only meet its own.                                          *)
ListenerInv ==
  /\ \A l \in listeners : pc[l.job] # "free" /\ l.holds = job[l.job].part
  /\ \A j \in Waiting \ crowded : \A l \in listeners : l.job = j
  /\ \A j \in Jobs \ crowded : \A l \in from[j] :
       pc[j] # "free" /\ l.holds = job[j].part
  /\ ImageOfItsPartition

(* A thread was announced, and while the open case did not change under it *)
(* every path it read leads to the case it was announced in.               *)
Announced(j) == HashIn(j, job[j].case) \in log \/ j \in unlogged

PathInv(j) ==
  /\ pc[j] # "free" => Announced(j)
  /\ pc[j] # "free" /\ job[j].kind = "logical" => dir[j] = job[j].case
  /\ j \notin moved =>
       /\ Active(j) => gbPath = job[j].case
       /\ pc[j] \in {"client", "copy"} => dir[j] = job[j].case
       /\ pc[j] \in {"digest", "seal"} => hdir[j] = job[j].case

CustodyInv == (\A j \in Jobs : PathInv(j)) /\ AcquiredInLoggedCase

(* What md5deep read is still what is there, before and after it was       *)
(* written, for a thread alone with its directory.                         *)
HashInv ==
  /\ \A j \in Jobs : pc[j] = "seal" /\ job[j].kind = "logical" /\ Alone(j) =>
       digest[j] = trees[dir[j]][job[j].part]
  /\ \A c \in Cases, p \in Partitions : \A w \in hashes[c][p] :
       /\ pc[w.by] \in {"hide", "done", "dead"}
       /\ job[w.by].kind = "logical" /\ job[w.by].part = p
       /\ w.by \notin moved /\ Alone(w.by) => dir[w.by] = c /\ w.of = trees[c][p]

(* Only a tab that was made is worked in.                                  *)
BarInv ==
  /\ tab # NoTab => tabs[tab] # "new"
  /\ \A j \in Jobs : pc[j] # "free" => tabs[job[j].tab] # "new"
  /\ \A t \in Tabs : tabs[t] = "new" => ~bar[t]
  /\ BarHiddenAtRest

(* A thread that was not made yet is nobody's.                             *)
FreeInv ==
  \A j \in Jobs : pc[j] = "free" => job[j] = NullJob /\ j \notin moved

(* If b.sh waits, a listener has the handler wait, and the handler its     *)
(* thread.                                                                 *)
StarveInv ==
  /\ bshWaits =>
       /\ \A l \in listeners : listening = l.job /\ pc[l.job] = "show"
       /\ \A j \in Jobs : \A l \in from[j] : l.job # j
  /\ OwnListenerNeverServes
=============================================================================
