------------------------ MODULE ExtractionJobsProofs ------------------------
(***************************************************************************)
(* That the options of an extraction are jobs of Custody, for every set of *)
(* Operations, options, cases and stores and every bound, and what follows *)
(* for the evidence rows.                                                  *)
(***************************************************************************)
EXTENDS ExtractionJobs, ExtractionProofs

-----------------------------------------------------------------------------
(* Four kinds of steps are all that Custody can tell apart.                *)

Still == UNCHANGED <<taken, log, lostLog, records>>

(* The user-interface thread opens a case, or does something else.         *)
Moves == Still /\ \A op \in Operations : pc'[op] = pc[op]

(* One thread goes on, to where it files rows only if it already did.      *)
Goes(op) ==
  /\ Still /\ gbId' = gbId
  /\ \A p \in Operations \ {op} : pc'[p] = pc[p]
  /\ Files(pc'[op]) => Files(pc[op])
  /\ pc[op] # "log" \/ pc'[op] # "work"
  /\ pc'[op] # "log"

LEMMA KindsOfSteps ==
  ASSUME TypeInv, Next
  PROVE  \/ Moves
         \/ \E op \in Operations :
              Goes(op) \/ LogOption(op) \/ TakeNext(op) \/ InsertRow(op)
<1> USE DEF TypeInv, TypeOK
<1>1. ASSUME NEW o \in Options, TickBox(o) \/ UntickBox(o) PROVE Moves
  BY <1>1 DEF TickBox, UntickBox, SelectOnly, iterVars, dbVars, Moves, Still
<1>2. ASSUME NEW o \in Options, NEW b \in BOOLEAN, AcceptDialog(o, b) PROVE Moves
  BY <1>2 DEF AcceptDialog, SelectOnly, iterVars, dbVars, Moves, Still
<1>3. ASSUME SelectFromTemplate PROVE Moves
  BY <1>3 DEF SelectFromTemplate, SelectOnly, iterVars, dbVars, Moves, Still
<1>4. ASSUME NEW op \in Operations, Extract(op) PROVE Goes(op)
  <2>1. pc[op] = "idle" /\ pc' = [pc EXCEPT ![op] = "ready"]
    BY <1>4 DEF Extract
  <2>2. Still /\ gbId' = gbId
    BY <1>4 DEF Extract, iterVars, dbVars, caseVars, Still
  <2> QED BY <2>1, <2>2 DEF Goes, Files
<1>5. ASSUME NEW op \in Operations, RunProgress(op) PROVE Goes(op)
  <2>1. pc[op] = "sync" /\ pc' = [pc EXCEPT ![op] = "test"]
    BY <1>5 DEF RunProgress
  <2>2. Still /\ gbId' = gbId
    BY <1>5 DEF RunProgress, iterVars, dbVars, caseVars, Still
  <2> QED BY <2>1, <2>2 DEF Goes, Files
<1>6. ASSUME NEW c \in Cases, OpenCaseId(c) PROVE Moves
  BY <1>6 DEF OpenCaseId, iterVars, dbVars, Moves, Still
<1>7. ASSUME OpenCasePath \/ Logout PROVE Moves
  BY <1>7 DEF OpenCasePath, Logout, iterVars, dbVars, Moves, Still
(* A thread goes from one place to another.                                *)
<1>8. ASSUME NEW op \in Operations, NEW from, NEW to, Go(op, from, to),
             Still, gbId' = gbId, Files(to) => Files(from),
             from # "log" \/ to # "work", to # "log"
      PROVE  Goes(op)
  BY <1>8 DEF Go, Goes
<1>9. ASSUME NEW op \in Operations, Start(op) PROVE Goes(op)
  BY <1>8, <1>9 DEF Start, Shared, caseVars, readVars, dbVars, Still, Files
<1>10. ASSUME NEW op \in Operations, HasNext(op) \/ HasNoNext(op) PROVE Goes(op)
  BY <1>8, <1>10 DEF HasNext, HasNoNext, Shared, caseVars, iterVars, dbVars, Still, Files
<1>11. ASSUME NEW op \in Operations, FailFast(op) PROVE Goes(op)
  BY <1>8, <1>11 DEF FailFast, Shared, caseVars, iterVars, dbVars, Still, Files
<1>12. ASSUME NEW op \in Operations, NoDatabase(op) PROVE Goes(op)
  BY <1>8, <1>12 DEF NoDatabase, Shared, caseVars, iterVars, dbVars, Still, Files
<1>13. ASSUME NEW op \in Operations, SkipOption(op) PROVE Goes(op)
  BY <1>8, <1>13 DEF SkipOption, Shared, caseVars, iterVars, dbVars, Still, Files
<1>14. ASSUME NEW op \in Operations, RunTool(op) \/ SkipStore(op) PROVE Goes(op)
  BY <1>8, <1>14 DEF RunTool, SkipStore, ReadEnds, Shared, caseVars, iterVars, dbVars, Still, Files
<1>15. ASSUME NEW op \in Operations, ReadDirectFile(op) PROVE Goes(op)
  <2>1. Still /\ gbId' = gbId
    BY <1>15 DEF ReadDirectFile, Shared, caseVars, iterVars, dbVars, Still
  <2>2. Go(op, "work", "rows") \/ ReadEnds(op, "work")
    BY <1>15 DEF ReadDirectFile
  <2> QED BY <1>8, <2>1, <2>2 DEF ReadEnds, Files
<1>16. ASSUME NEW op \in Operations, ReadRecords(op) PROVE Goes(op)
  BY <1>8, <1>16 DEF ReadRecords, Shared, caseVars, iterVars, dbVars, Still, Files
<1>17. ASSUME NEW op \in Operations, OpenStore(op) PROVE Goes(op)
  <2>1. Still /\ gbId' = gbId
    BY <1>17 DEF OpenStore, Shared, caseVars, iterVars, dbVars, Still
  <2>2. Go(op, "open", "stmt") \/ Go(op, "open", "dead")
    BY <1>17 DEF OpenStore
  <2> QED BY <1>8, <2>1, <2>2 DEF Files
<1>18. ASSUME NEW op \in Operations, MakeStatement(op) PROVE Goes(op)
  BY <1>8, <1>18 DEF MakeStatement, Shared, caseVars, iterVars, dbVars, Still, Files
<1>19. ASSUME NEW op \in Operations, EndRows(op) PROVE Goes(op)
  BY <1>8, <1>19 DEF EndRows, ReadEnds, Shared, caseVars, iterVars, dbVars, Still, Files
<1>20. ASSUME NEW op \in Operations, Clear(op) PROVE Goes(op)
  BY <1>8, <1>20 DEF Clear, caseVars, iterVars, dbVars, Still, Files
<1> QED BY <1>1, <1>2, <1>3, <1>4, <1>5, <1>6, <1>7, <1>9, <1>10, <1>11, <1>12, <1>13,
           <1>14, <1>15, <1>16, <1>17, <1>18, <1>19, <1>20
        DEF Next, UserInterface, Select, Run

-----------------------------------------------------------------------------
(* The job an Operation at an option is at is one of the jobs.             *)
LEMMA JobAt ==
  ASSUME TypeInv, JobInv, NEW op \in Operations, Extracting(op)
  PROVE  Job(op) \in Jobs /\ Job(op)[1] = op /\ Job(op)[2] = Len(taken[op])
<1>1. taken[op] \in Seq(Entry) /\ taken[op] # <<>> /\ Len(taken[op]) <= MaxTurns
  BY DEF TypeInv, TypeOK, HasCurrent, JobInv
<1>2. Len(taken[op]) \in 1..MaxTurns
  BY <1>1, TurnAssumption
<1> QED BY <1>2 DEF Job, Jobs

(* The history variables stay when nothing is announced and no case opened.*)
LEMMA HistoryFrame ==
  ASSUME JobInv, JobNext, \A op \in Operations : ~Announces(op)
  PROVE  home' = home /\ (gbId' = gbId => strayed' = strayed)
<1>1. \A j \in Jobs : j[1] \in Operations
  BY DEF Jobs
<1>2. home' = [j \in Jobs |-> home[j]]
  BY <1>1 DEF JobNext
<1>3. home \in [Jobs -> Cases \union {NoCase, NotBegun}]
  BY DEF JobInv
<1> QED BY <1>2, <1>3 DEF JobNext

(* What Logdata's return does to them.                                     *)
LEMMA Announcement ==
  ASSUME TypeInv, JobInv, JobNext, NEW op \in Operations, LogOption(op)
  PROVE  /\ Extracting(op) /\ home[Job(op)] = NotBegun
         /\ home' = [home EXCEPT ![Job(op)] = gbId] /\ strayed' = strayed
         /\ pc' = [pc EXCEPT ![op] = "work"]
         /\ UNCHANGED <<taken, gbId, records>>
         /\ Working' = Working \union {Job(op)}
<1>1. pc[op] = "log" /\ pc' = [pc EXCEPT ![op] = "work"]
  BY DEF LogOption, Go
<1>2. UNCHANGED <<taken, gbId, records>>
  BY DEF LogOption, Shared, caseVars, iterVars
<1>3. Extracting(op)
  BY <1>1 DEF Extracting
<1>4. Job(op) \in Jobs /\ Job(op)[1] = op
  BY <1>3, JobAt
<1>5. home[Job(op)] = NotBegun
  BY <1>1, <1>4 DEF JobInv
<1>6. pc \in [Operations -> PC] /\ home \in [Jobs -> Cases \union {NoCase, NotBegun}]
  BY DEF TypeInv, TypeOK, JobInv
<1>7. \A j \in Jobs : Announces(j[1]) /\ j = Job(j[1]) <=> j = Job(op)
  BY <1>1, <1>4, <1>6 DEF Jobs, Announces
<1>8. home' = [j \in Jobs |-> IF j = Job(op) THEN gbId ELSE home[j]]
  BY <1>7 DEF JobNext
<1>9. home' = [home EXCEPT ![Job(op)] = gbId]
  BY <1>6, <1>8
<1>10. strayed' = strayed
  BY <1>2 DEF JobNext
<1>11. \A p : Job(p)' = Job(p)
  BY <1>2 DEF Job
<1>12. \A j \in Jobs : j[1] \in Operations
  BY DEF Jobs
<1>13. \A j \in Jobs : j \in Working' <=> j \in Working \/ j = Job(op)
  BY <1>1, <1>4, <1>6, <1>11, <1>12 DEF Working, Files
<1>14. Working \subseteq Jobs /\ Working' \subseteq Jobs
  BY DEF Working
<1>15. Working' = Working \union {Job(op)}
  BY <1>4, <1>13, <1>14
<1> QED BY <1>1, <1>2, <1>3, <1>5, <1>9, <1>10, <1>15

(* Steps that announce nothing.                                            *)
LEMMA Unannounced ==
  ASSUME TypeInv, NEW op \in Operations,
         Goes(op) \/ TakeNext(op) \/ InsertRow(op)
  PROVE  /\ \A p \in Operations : ~Announces(p)
         /\ \A p \in Operations \ {op} : pc'[p] = pc[p] /\ taken'[p] = taken[p]
         /\ gbId' = gbId
<1> USE DEF TypeInv, TypeOK
<1>1. CASE Goes(op)
  BY <1>1 DEF Goes, Still, Announces
<1>2. CASE TakeNext(op)
  BY <1>2 DEF TakeNext, Go, Shared, caseVars, Announces
<1>3. CASE InsertRow(op)
  BY <1>3 DEF InsertRow, Shared, caseVars, iterVars, Announces
<1> QED BY <1>1, <1>2, <1>3

(***************************************************************************)
(* The case of a job.                                                      *)
(***************************************************************************)
LEMMA InitJobInv == JobInit => JobInv
<1> SUFFICES ASSUME JobInit PROVE JobInv
  OBVIOUS
<1>1. \A op \in Operations : taken[op] = <<>> /\ pc[op] = "idle"
  BY DEF JobInit, Init
<1>2. Working = {}
  BY <1>1 DEF Working, Files, Jobs
<1>3. \A op \in Operations : Len(taken[op]) <= MaxTurns
  BY <1>1, TurnAssumption
<1> QED BY <1>2, <1>3 DEF JobInit, JobInv

LEMMA NextJobInv == TypeInv /\ JobInv /\ [JobNext]_jobVars => JobInv'
<1> SUFFICES ASSUME TypeInv, JobInv, [JobNext]_jobVars PROVE JobInv'
  OBVIOUS
<1>1. CASE UNCHANGED jobVars
  BY <1>1 DEF jobVars, vars, iterVars, caseVars, JobInv, Working, Job
<1> SUFFICES ASSUME JobNext PROVE JobInv'
  BY <1>1
<1>a. \A op \in Operations : Len(taken'[op]) <= MaxTurns
  BY DEF JobNext
<1>b. \A j \in Jobs : j[1] \in Operations /\ j[2] \in 1..MaxTurns
  BY DEF Jobs
<1>c. \A op \in Operations : Len(taken[op]) \in Nat
  BY DEF TypeInv, TypeOK
(* The parts of JobInv that speak of cases.                                *)
<1> DEFINE Types == home \in [Jobs -> Cases \union {NoCase, NotBegun}] /\ strayed \subseteq Jobs
           Later == \A j \in Jobs :
                      /\ j[2] > Len(taken[j[1]]) => home[j] = NotBegun
                      /\ j = Job(j[1]) /\ pc[j[1]] = "log" => home[j] = NotBegun
           Now == \A j \in Working \ strayed : home[j] = gbId
<1>d. Types /\ Later /\ Now
  BY DEF JobInv
<1>e. Types' /\ Later' /\ Now' => JobInv'
  BY <1>a DEF JobInv
<1>2. CASE Moves
  <2>1. UNCHANGED taken /\ \A op \in Operations : pc'[op] = pc[op]
    BY <1>2 DEF Moves, Still
  <2>2. home' = home /\ (gbId' = gbId => strayed' = strayed)
    BY <2>1, HistoryFrame DEF Announces
  <2>3. Working' = Working
    BY <1>b, <2>1 DEF Working, Job
  <2>4. strayed' = IF gbId' = gbId THEN strayed ELSE strayed \union Working
    BY DEF JobNext
  <2>5. Types'
    BY <1>d, <2>2, <2>4 DEF Working
  <2>6. Later'
    BY <1>b, <1>d, <2>1, <2>2 DEF Job
  <2>7. Now'
    BY <1>d, <2>2, <2>3, <2>4
  <2> QED BY <1>e, <2>5, <2>6, <2>7
<1>3. ASSUME NEW op \in Operations, Goes(op) \/ InsertRow(op) PROVE JobInv'
  <2>1. UNCHANGED taken
    BY <1>3 DEF Goes, Still, InsertRow, iterVars
  <2>2. \A p \in Operations : (Files(pc'[p]) => Files(pc[p])) /\ (pc'[p] = "log" => pc[p] = "log")
    BY <1>3, Unannounced DEF Goes, InsertRow
  <2>3. home' = home /\ strayed' = strayed /\ gbId' = gbId
    BY <1>3, Unannounced, HistoryFrame
  <2>4. Working' \subseteq Working
    BY <1>b, <2>1, <2>2 DEF Working, Job
  <2>5. Types'
    BY <1>d, <2>3
  <2>6. Later'
    BY <1>b, <1>d, <2>1, <2>2, <2>3 DEF Job
  <2>7. Now'
    BY <1>d, <2>3, <2>4
  <2> QED BY <1>e, <2>5, <2>6, <2>7
<1>4. ASSUME NEW op \in Operations, TakeNext(op) PROVE JobInv'
  <2>1. pc'[op] = "log" /\ Len(taken'[op]) = Len(taken[op]) + 1
    BY <1>4 DEF TypeInv, TypeOK, TakeNext, Go
  <2>2. \A p \in Operations \ {op} : pc'[p] = pc[p] /\ taken'[p] = taken[p]
    BY <1>4, Unannounced
  <2>3. home' = home /\ strayed' = strayed /\ gbId' = gbId
    BY <1>4, Unannounced, HistoryFrame
  <2>4. Working' \subseteq Working
    BY <1>b, <2>1, <2>2 DEF Working, Job, Files
  <2>5. Types'
    BY <1>d, <2>3
  <2>6. Later'
    <3> SUFFICES ASSUME NEW j \in Jobs
                 PROVE  /\ j[2] > Len(taken'[j[1]]) => home[j] = NotBegun
                        /\ j = Job(j[1])' /\ pc'[j[1]] = "log" => home[j] = NotBegun
      BY <2>3
    <3>1. CASE j[1] = op
      BY <1>b, <1>c, <1>d, <2>1, <3>1 DEF Job
    <3>2. CASE j[1] # op
      BY <1>b, <1>d, <2>2, <3>2 DEF Job
    <3> QED BY <3>1, <3>2
  <2>7. Now'
    BY <1>d, <2>3, <2>4
  <2> QED BY <1>e, <2>5, <2>6, <2>7
<1>5. ASSUME NEW op \in Operations, LogOption(op) PROVE JobInv'
  <2>1. /\ Extracting(op)
        /\ home' = [home EXCEPT ![Job(op)] = gbId] /\ strayed' = strayed
        /\ pc' = [pc EXCEPT ![op] = "work"]
        /\ UNCHANGED <<taken, gbId>>
        /\ Working' = Working \union {Job(op)}
    BY <1>5, Announcement
  <2>2. Job(op) \in Jobs /\ Job(op)[1] = op /\ Job(op)[2] = Len(taken[op])
    BY <2>1, JobAt
  <2>3. gbId \in Cases \union {NoCase} /\ pc \in [Operations -> PC]
    BY DEF TypeInv, TypeOK
  <2>4. Types'
    BY <1>d, <2>1, <2>3
  <2>5. \A j \in Jobs : home'[j] = IF j = Job(op) THEN gbId ELSE home[j]
    BY <1>d, <2>1
  <2>6. Later'
    <3> SUFFICES ASSUME NEW j \in Jobs
                 PROVE  /\ j[2] > Len(taken[j[1]]) => home'[j] = NotBegun
                        /\ j = Job(j[1]) /\ pc'[j[1]] = "log" => home'[j] = NotBegun
      BY <2>1 DEF Job
    <3>1. CASE j = Job(op)
      BY <1>c, <2>1, <2>2, <2>3, <3>1
    <3>2. CASE j # Job(op)
      <4>1. j = Job(j[1]) => j[1] # op
        BY <3>2
      <4> QED BY <1>b, <1>d, <2>1, <2>3, <2>5, <3>2, <4>1
    <3> QED BY <3>1, <3>2
  <2>7. Now'
    BY <1>d, <2>1, <2>5 DEF Working
  <2> QED BY <1>e, <2>4, <2>6, <2>7
<1> QED BY <1>2, <1>3, <1>4, <1>5, KindsOfSteps DEF JobNext

(***************************************************************************)
(* The refinement of Custody.                                              *)
(***************************************************************************)
LEMMA InitCustodian == JobInit => Custodian!Init
<1> SUFFICES ASSUME JobInit PROVE Custodian!Init
  OBVIOUS
<1>1. log = {} /\ lostLog = {} /\ records = {} /\ strayed = {}
  BY DEF JobInit, Init
<1>2. Working = {}
  BY DEF JobInit, Init, Working, Files, Jobs
<1>3. Noted = {} /\ Unnoted = {} /\ InStore = {}
  BY <1>1 DEF Noted, Unnoted, InStore
<1> QED BY <1>1, <1>2, <1>3 DEF JobInit, Custodian!Init

(* An announcement begins a job.                                           *)
LEMMA AnnouncementBegins ==
  ASSUME TypeInv, JobInv, JobNext, NEW op \in Operations, LogOption(op)
  PROVE  Custodian!Next
<1>1. /\ Extracting(op) /\ home[Job(op)] = NotBegun
      /\ home' = [home EXCEPT ![Job(op)] = gbId] /\ strayed' = strayed
      /\ UNCHANGED records
      /\ Working' = Working \union {Job(op)}
  BY Announcement
<1>2. Job(op) \in Jobs /\ Job(op) = <<op, Len(taken[op])>>
  BY <1>1, JobAt DEF Job
<1>3. gbId \in Cases \union {NoCase} /\ log \subseteq LogType
  BY DEF TypeInv, TypeOK
<1>4. home \in [Jobs -> Cases \union {NoCase, NotBegun}]
  BY DEF JobInv
<1>5. \A j \in Jobs : home'[j] = IF j = Job(op) THEN gbId ELSE home[j]
  BY <1>1, <1>4
<1>6. log \subseteq log'
  BY DEF LogOption
<1>7. Noted \subseteq Noted'
  <2> SUFFICES ASSUME NEW j \in Jobs,
                      [op |-> j[1], n |-> j[2], case |-> home[j]] \in log
               PROVE  [op |-> j[1], n |-> j[2], case |-> home'[j]] \in log'
    BY DEF Noted
  <2>1. home[j] \in Cases \union {NoCase}
    BY <1>3 DEF LogType
  <2>2. j # Job(op)
    BY <1>1, <2>1, TurnAssumption
  <2> QED BY <1>5, <1>6, <2>2
<1>8. Unnoted' \in {Unnoted, Unnoted \union {Job(op)}}
  BY <1>2 DEF LogOption, Unnoted
<1>9. Job(op) \in Noted' \union Unnoted'
  <2>1. CASE log' = log \union {LogRow(op)}
    BY <1>2, <1>5, <2>1 DEF LogRow, Noted
  <2>2. CASE lostLog' = lostLog \union {<<op, Len(taken[op])>>}
    BY <1>2, <2>2 DEF Unnoted
  <2> QED BY <2>1, <2>2 DEF LogOption
<1>10. InStore' = InStore
  BY <1>1 DEF InStore
<1>11. Custodian!Begin(Job(op), gbId)
  BY <1>1, <1>7, <1>8, <1>9, <1>10 DEF Custodian!Begin
<1> QED BY <1>2, <1>3, <1>11 DEF Custodian!Next

(* A row is filed by a job at work, in its case or after it strayed.       *)
LEMMA RowIsFiled ==
  ASSUME TypeInv, JobInv, JobNext, NEW op \in Operations, InsertRow(op)
  PROVE  Custodian!Next
<1>1. home' = home /\ strayed' = strayed
  BY Unannounced, HistoryFrame
<1>2. UNCHANGED <<pc, taken, log, lostLog>> /\ pc[op] = "rows"
  BY DEF InsertRow, iterVars
<1>3. Job(op) \in Jobs /\ Job(op)[1] = op
  BY <1>2, JobAt DEF Extracting
<1>4. Job(op) \in Working
  BY <1>2, <1>3 DEF Working, Files
<1>5. Job(op) \in strayed \/ gbId = home[Job(op)]
  BY <1>4 DEF JobInv
<1>6. InStore' \subseteq InStore \union {[by |-> Job(op), in |-> gbId]}
  <2>1. \A r \in records' : r \in records \/ (r.op = op /\ r.n = Len(taken[op]) /\ r.to = gbId)
    BY DEF InsertRow
  <2> QED BY <2>1 DEF InStore, Job
<1>7. Working' = Working /\ Noted' = Noted /\ Unnoted' = Unnoted
  BY <1>1, <1>2 DEF Working, Job, Noted, Unnoted
<1>8. Custodian!File(Job(op), gbId)
  BY <1>1, <1>4, <1>5, <1>6, <1>7 DEF Custodian!File
<1>9. gbId \in Cases \union {NoCase}
  BY DEF TypeInv, TypeOK
<1> QED BY <1>3, <1>8, <1>9 DEF Custodian!Next

(* A thread that goes on ends its job, or nothing happens to it.           *)
LEMMA JobGoesOn ==
  ASSUME TypeInv, JobInv, JobNext, NEW op \in Operations, Goes(op) \/ TakeNext(op)
  PROVE  [Custodian!Next]_(Custodian!vars)
<1>1. home' = home /\ strayed' = strayed
  BY Unannounced, HistoryFrame
<1>2. UNCHANGED <<log, lostLog, records>>
  BY DEF Goes, Still, TakeNext, dbVars
<1>3. Noted' = Noted /\ Unnoted' = Unnoted /\ InStore' = InStore
  BY <1>1, <1>2 DEF Noted, Unnoted, InStore
<1>4. \A p \in Operations \ {op} : pc'[p] = pc[p] /\ taken'[p] = taken[p]
  BY Unannounced
<1>5. \A j \in Jobs : j[1] \in Operations
  BY DEF Jobs
<1>6. \A j \in Jobs : j[1] # op => (j \in Working' <=> j \in Working)
  BY <1>4, <1>5 DEF Working, Job
<1>7. Working \subseteq Jobs /\ Working' \subseteq Jobs
  BY DEF Working
<1>8. \A j \in Jobs : j[1] = op /\ j \in Working => j = Job(op)
  BY DEF Working
<1>9. \A j \in Jobs : j[1] = op /\ j \in Working' => j \in Working /\ Files(pc'[op])
  <2>1. CASE Goes(op)
    BY <2>1 DEF Goes, Still, Working, Job
  <2>2. CASE TakeNext(op)
    BY <2>2 DEF TypeInv, TypeOK, TakeNext, Go, Working, Files
  <2> QED BY <2>1, <2>2
<1>10. CASE Working' = Working
  BY <1>1, <1>3, <1>10 DEF Custodian!vars
<1>11. CASE Working' # Working
  <2>1. PICK j \in Jobs : j \in Working /\ j \notin Working'
    BY <1>6, <1>7, <1>9, <1>11
  <2>2. j = Job(op) /\ j[1] = op
    BY <1>6, <1>8, <2>1
  <2>3. \A i \in Jobs : i[1] = op => i \notin Working' \/ i = j
    BY <1>8, <1>9, <2>2
  <2>4. Working' = Working \ {j}
    BY <1>6, <1>7, <1>8, <1>9, <2>1, <2>2, <2>3
  <2>5. Custodian!End(j)
    BY <1>1, <1>3, <2>1, <2>4 DEF Custodian!End
  <2> QED BY <2>5 DEF Custodian!Next
<1> QED BY <1>10, <1>11

LEMMA NextCustodian ==
  TypeInv /\ JobInv /\ [JobNext]_jobVars => [Custodian!Next]_(Custodian!vars)
<1> SUFFICES ASSUME TypeInv, JobInv, [JobNext]_jobVars
             PROVE  [Custodian!Next]_(Custodian!vars)
  OBVIOUS
<1>1. CASE UNCHANGED jobVars
  BY <1>1 DEF jobVars, vars, iterVars, dbVars, Working, Job, Noted, Unnoted, InStore,
              Custodian!vars
<1>2. CASE JobNext /\ Moves
  <2>1. UNCHANGED <<taken, log, lostLog, records>>
    BY <1>2 DEF Moves, Still
  <2>2. \A op \in Operations : pc'[op] = pc[op]
    BY <1>2 DEF Moves
  <2>3. home' = home /\ (gbId' = gbId => strayed' = strayed)
    BY <1>2, <2>2, HistoryFrame DEF Announces
  <2>4. Working' = Working
    BY <2>1, <2>2 DEF Working, Job, Jobs
  <2>5. Noted' = Noted /\ Unnoted' = Unnoted /\ InStore' = InStore
    BY <2>1, <2>3 DEF Noted, Unnoted, InStore
  <2>6. strayed \subseteq strayed' /\ strayed' \subseteq strayed \union Working
    BY <1>2 DEF JobNext
  <2>7. Custodian!Switch
    BY <2>3, <2>4, <2>5, <2>6 DEF Custodian!Switch
  <2> QED BY <2>7 DEF Custodian!Next
<1> QED BY <1>1, <1>2, KindsOfSteps, AnnouncementBegins, RowIsFiled, JobGoesOn DEF JobNext

(* Every extraction, with any number of Operations, options and cases and  *)
(* whatever the user and the failures do, is a behaviour of Custody.       *)
THEOREM OptionsImplementCustody == JobSpec => OptionsKeepCustody
<1>1. JobInit => TypeInv
  BY InitTypeInv DEF JobInit
<1>2. TypeInv /\ [JobNext]_jobVars => TypeInv'
  <2>1. [JobNext]_jobVars => [Next]_vars
    BY DEF JobNext, jobVars
  <2> QED BY <2>1, NextTypeInv
<1> QED BY <1>1, <1>2, InitJobInv, NextJobInv, InitCustodian, NextCustodian, PTL
        DEF JobSpec, OptionsKeepCustody, Custodian!Spec

(* What is proved of Custody, of the same jobs.                            *)
Keeper == INSTANCE CustodyProofs WITH
  Cases <- Cases \union {NoCase}, NoCase <- NotBegun,
  working <- Working, noted <- Noted, unnoted <- Unnoted, store <- InStore

(* So the chain of custody holds of every evidence row: it is in the case  *)
(* its option was announced in, but for an option under which the case was *)
(* changed, or whose log entry was lost, also where another Operation      *)
(* replaced the connection (insertRecords).                                *)
THEOREM ExtractionsKeepCustody == JobSpec => []Custodian!Kept
<1>1. NotBegun \notin Cases \union {NoCase}
  BY TurnAssumption
<1>2. Keeper!Spec => []Keeper!Kept
  BY <1>1, Keeper!CustodyIsKept
<1>3. Custodian!Init => Keeper!Init
  BY DEF Custodian!Init, Keeper!Init
<1>4. [Custodian!Next]_(Custodian!vars) => [Keeper!Next]_(Keeper!vars)
  BY DEF Custodian!Next, Keeper!Next, Custodian!vars, Keeper!vars,
         Custodian!Begin, Keeper!Begin, Custodian!File, Keeper!File, Custodian!End, Keeper!End,
         Custodian!Note, Keeper!Note, Custodian!Switch, Keeper!Switch
<1>5. Keeper!Kept => Custodian!Kept
  BY DEF Keeper!Kept, Custodian!Kept
<1> QED BY <1>2, <1>3, <1>4, <1>5, OptionsImplementCustody, PTL
        DEF OptionsKeepCustody, Custodian!Spec, Keeper!Spec
=============================================================================
