----------------------------- MODULE Extraction -----------------------------
(***************************************************************************)
(* The Data Extraction tab of ANDROPHSY (DataExtract.java): a list of      *)
(* selected options, the Extract button that starts an Operation thread on *)
(* that same list, and the work an Operation does for each option: a log   *)
(* entry, the evidence rows read from the acquired case store              *)
(* (AndrospyUtility.java) and one step of the progress bar.                *)
(*                                                                         *)
(* The actors are the SWT user-interface thread (every click is one        *)
(* handler, and it alone runs the Runnables an Operation hands over with   *)
(* syncExec) and the Operation threads.  They share, with no lock:         *)
(*   - the ArrayList DataExtract.checked,                                  *)
(*   - the globals AndrospyMain.gb_CasePath and gb_CaseId,                 *)
(*   - the static Connection AndrospyUtility.conn,                         *)
(*   - the progress bar.                                                   *)
(* One call on the list, one assignment of a global and one JDBC call are  *)
(* one step each.  The device id travels with the case id.                 *)
(***************************************************************************)
EXTENDS Naturals, Sequences, SequencesExt

CONSTANTS
  Operations,  (* Operation threads, one per click on Extract               *)
  Options,     (* option names that can be selected                         *)
  Reads,       (* what the branch of startExtract does for an option        *)
  ByEquals,    (* options whose branch compares with equals, not with ==    *)
  Boxes,       (* options selected by a check box of the tab itself         *)
  Cases,       (* forensic cases                                            *)
  Templates,   (* selection templates an earlier extraction may have saved  *)
  NoCase,      (* gb_CaseId = 0 and gb_CasePath = "", after a logout        *)
  NoOption,    (* no option: the store of a connection never opened         *)
  Stores,      (* the acquired stores found from the path of their case; a  *)
               (* case whose path has no slash at its end has none of them  *)
  MaxRows,     (* bound: rows a query returns                               *)
  MaxMods,     (* bound: modifications of the list by the user              *)
  MaxFaults,   (* bound: log rows the database refuses                      *)
  MayLogOut    (* bound: whether the user logs out at all                   *)

(* A branch runs a command line tool, reads a file itself, or reads record *)
(* stores: the first, with or without a test that it exists, or one more   *)
(* at the path computed before.                                            *)
ReadsType ==
  /\ Reads \in [Options -> Seq({"tool", "direct", "store", "tested", "again"})]
  /\ \A o \in Options : Reads[o] # <<>> => Reads[o][1] # "again"

ASSUME ReadsAssumption == ReadsType
ASSUME TemplateAssumption == Templates \in SUBSET Seq(Options)
ASSUME NullAssumption == NoCase \notin Cases /\ NoOption \notin Options
ASSUME BoundAssumption ==
  /\ MaxRows \in Nat /\ MaxMods \in Nat /\ MaxFaults \in Nat
  /\ MayLogOut \in BOOLEAN

(***************************************************************************)
(* An element of the list: the option's name and whether the string is the *)
(* literal of the source, the only case in which == finds it equal.  The   *)
(* lines of the selection template are strings of their own.               *)
(***************************************************************************)
Entry == [name : Options, literal : BOOLEAN]

(* The file of the case store c that holds the records of option o.        *)
Store(c, o) == [case |-> c, option |-> o]

NoStore == Store(NoCase, NoOption)

VARIABLES
  checked,     (* DataExtract.checked                                       *)
  modCount,    (* its modification counter (java.util.AbstractList)         *)
  ticked,      (* the check boxes shown as selected                         *)
  template,    (* files/selectiontemplate.txt, the names line by line       *)
  disposed,    (* the tab, its progress bar included, was disposed          *)
  bar,         (* DataExtract.pb1                                           *)
  gbPath,      (* AndrospyMain.gb_CasePath, as the case it leads to         *)
  gbId,        (* AndrospyMain.gb_CaseId                                    *)
  switching,   (* the case a running NewCase.OpenCase is opening, or NoCase *)
  conn,        (* AndrospyUtility.conn, as the store it is connected to     *)
  pc,          (* where each Operation thread stands                        *)
  expected,    (* expectedModCount of each Operation's iterator             *)
  taken,       (* what its it.next() returned; the cursor is the length     *)
  nth,         (* how much of the current option's Reads is done            *)
  path,        (* appPath or filename of the current option                 *)
  source,      (* the store the current ResultSet reads                     *)
  left,        (* rows it still has                                         *)
  log,         (* Androspy_Log: the "Extract <option>" rows                 *)
  lostLog,     (* log rows whose INSERT failed                              *)
  records,     (* evidence rows                                             *)
  (* History variables: no guard and no other variable reads them.          *)
  snapshot,    (* the list when the Operation created its iterator          *)
  moved,       (* the open case changed since the option was taken          *)
  crossed      (* another thread replaced conn between open and statement   *)

listVars == <<checked, modCount, ticked, template>>
caseVars == <<gbPath, gbId, switching>>
iterVars == <<expected, taken, snapshot>>
readVars == <<nth, path, source, left, conn, moved, crossed>>
dbVars   == <<log, lostLog, records>>
vars == <<listVars, disposed, bar, caseVars, pc, iterVars, readVars, dbVars>>

-----------------------------------------------------------------------------
(* Types.                                                                  *)

PC == {"idle", "ready", "test", "next", "log", "work", "open", "stmt", "rows",
       "sync", "clear", "done", "dead"}

StoreType == [case : Cases \union {NoCase}, option : Options \union {NoOption}]

LogType == [op : Operations, n : Nat, case : Cases \union {NoCase}]

RecordType == [op : Operations, n : Nat, option : Options, from : StoreType,
               to : Cases \union {NoCase}, clean : BOOLEAN]

TypeOK ==
  /\ checked \in Seq(Entry) /\ modCount \in Nat
  /\ ticked \in SUBSET Boxes /\ template \in Seq(Options)
  /\ disposed \in BOOLEAN /\ bar \in [selection : Nat, maximum : Nat]
  /\ gbPath \in Cases \union {NoCase} /\ gbId \in Cases \union {NoCase}
  /\ switching \in Cases \union {NoCase} /\ conn \in StoreType
  /\ pc \in [Operations -> PC] /\ expected \in [Operations -> Nat]
  /\ taken \in [Operations -> Seq(Entry)] /\ snapshot \in [Operations -> Seq(Entry)]
  /\ nth \in [Operations -> Nat] /\ path \in [Operations -> Cases \union {NoCase}]
  /\ source \in [Operations -> StoreType] /\ left \in [Operations -> Nat]
  /\ log \in SUBSET LogType /\ lostLog \in SUBSET (Operations \X Nat)
  /\ records \in SUBSET RecordType
  /\ moved \in [Operations -> BOOLEAN] /\ crossed \in [Operations -> BOOLEAN]

Init ==
  /\ checked = <<>> /\ modCount = 0
  /\ ticked = {}
  /\ template \in Templates
  /\ disposed = FALSE /\ bar = [selection |-> 0, maximum |-> 100]
  /\ gbId \in Cases /\ gbPath = gbId
  /\ switching = NoCase /\ conn = NoStore
  /\ pc = [op \in Operations |-> "idle"]
  /\ expected = [op \in Operations |-> 0]
  /\ taken = [op \in Operations |-> <<>>]
  /\ snapshot = [op \in Operations |-> <<>>]
  /\ nth = [op \in Operations |-> 0]
  /\ path = [op \in Operations |-> NoCase]
  /\ source = [op \in Operations |-> NoStore]
  /\ left = [op \in Operations |-> 0]
  /\ log = {} /\ lostLog = {} /\ records = {}
  /\ moved = [op \in Operations |-> FALSE]
  /\ crossed = [op \in Operations |-> FALSE]

-----------------------------------------------------------------------------
(* The user-interface thread.                                              *)

(* It is between two handlers, the only time it takes the next one.        *)
UiIdle == switching = NoCase

(* ArrayList.add, remove(Object) and addAll, by a handler of the tab.      *)
Add(e) == checked' = Append(checked, e) /\ modCount' = modCount + 1

RemoveOption(o) ==
  LET Found(k) == checked[k].name = o IN
  \/ \E k \in DOMAIN checked :
       /\ Found(k) /\ \A i \in 1..(k - 1) : ~Found(i)
       /\ checked' = RemoveAt(checked, k) /\ modCount' = modCount + 1
  \/ (\A k \in DOMAIN checked : ~Found(k)) /\ UNCHANGED <<checked, modCount>>

MaySelect == UiIdle /\ ~disposed /\ modCount < MaxMods

SelectOnly == UNCHANGED <<template, disposed, bar, caseVars, pc, iterVars,
                          readVars, dbVars>>

(* btnsellistener: a check box is selected, or deselected.                 *)
TickBox(o) ==
  /\ MaySelect /\ o \in Boxes \ ticked
  /\ ticked' = ticked \union {o}
  /\ Add([name |-> o, literal |-> TRUE])
  /\ SelectOnly

UntickBox(o) ==
  /\ MaySelect /\ o \in ticked
  /\ ticked' = ticked \ {o}
  /\ RemoveOption(o)
  /\ SelectOnly

(* getSelectedItems of an option dialog, for one of its boxes: an option   *)
(* selected there is added even when the list already has it.              *)
AcceptDialog(o, selected) ==
  /\ MaySelect /\ o \notin Boxes
  /\ IF selected THEN Add([name |-> o, literal |-> TRUE]) ELSE RemoveOption(o)
  /\ UNCHANGED ticked
  /\ SelectOnly

(* "Select from Template": every line of the file is added to the list.    *)
SelectFromTemplate ==
  /\ MaySelect /\ template # <<>>
  /\ checked' = checked \o [i \in DOMAIN template |->
                              [name |-> template[i], literal |-> FALSE]]
  /\ modCount' = modCount + Len(template)
  /\ UNCHANGED ticked
  /\ SelectOnly

(* The Extract button, with and without "Save Selection as Template".      *)
Extract(op) ==
  /\ UiIdle /\ ~disposed
  /\ pc[op] = "idle" /\ checked # <<>>
  /\ \/ template' = [i \in DOMAIN checked |-> checked[i].name]
     \/ template' = template
  /\ bar' = [selection |-> 1, maximum |-> Len(checked) + 1]
  /\ pc' = [pc EXCEPT ![op] = "ready"]
  /\ UNCHANGED <<checked, modCount, ticked, disposed, caseVars, iterVars,
                 readVars, dbVars>>

(* ProgressBar.setSelection(getSelection() + 1) stops at the maximum; the  *)
(* variant does not.                                                       *)
SteppedUnbounded == [bar EXCEPT !.selection = @ + 1]

Stepped == [bar EXCEPT !.selection = IF @ < bar.maximum THEN @ + 1
                                     ELSE bar.maximum]

(* The Runnable of syncExec: one step of the bar, unless it is disposed;   *)
(* the Operation waits until it has run.                                   *)
RunProgress(op) ==
  /\ UiIdle /\ pc[op] = "sync"
  /\ bar' = IF disposed THEN bar ELSE Stepped
  /\ pc' = [pc EXCEPT ![op] = "test"]
  /\ UNCHANGED <<listVars, disposed, caseVars, iterVars, readVars, dbVars>>

(* The Operation is at an option's log entry, path or rows.                *)
Extracting(op) == pc[op] \in {"log", "work", "open", "stmt", "rows"}

(* NewCase.OpenCase: the case id is assigned first, then the path.         *)
OpenCaseId(c) ==
  /\ UiIdle /\ c # gbId
  /\ switching' = c /\ gbId' = c
  /\ moved' = [op \in Operations |-> Extracting(op)]
  /\ UNCHANGED <<listVars, disposed, bar, gbPath, pc, iterVars, nth, path,
                 source, left, conn, crossed, dbVars>>

OpenCasePath ==
  /\ ~UiIdle
  /\ gbPath' = switching /\ switching' = NoCase
  /\ moved' = [op \in Operations |-> Extracting(op)]
  /\ UNCHANGED <<listVars, disposed, bar, gbId, pc, iterVars, nth, path,
                 source, left, conn, crossed, dbVars>>

(* Androspy.Logout: the globals are reset and the window's content, this   *)
(* tab with it, is disposed.  Running Operations are not told.             *)
Logout ==
  /\ MayLogOut /\ UiIdle /\ ~disposed
  /\ gbId' = NoCase /\ gbPath' = NoCase
  /\ disposed' = TRUE
  /\ moved' = [op \in Operations |-> Extracting(op)]
  /\ UNCHANGED <<listVars, bar, switching, pc, iterVars, nth, path, source,
                 left, conn, crossed, dbVars>>

-----------------------------------------------------------------------------
(* An Operation thread: the loop of startExtract.                          *)

Go(op, from, to) == pc[op] = from /\ pc' = [pc EXCEPT ![op] = to]

Shared == <<listVars, disposed, bar, caseVars>>

Current(op) == taken[op][Len(taken[op])]

(* The thread runs and creates its iterator over the shared list.          *)
Start(op) ==
  /\ Go(op, "ready", "test")
  /\ expected' = [expected EXCEPT ![op] = modCount]
  /\ snapshot' = [snapshot EXCEPT ![op] = checked]
  /\ UNCHANGED <<Shared, taken, readVars, dbVars>>

(* it.hasNext() compares the cursor with the size the list has now; the    *)
(* variant stops one element early.                                        *)
AtEndEarly(op) == Len(taken[op]) + 1 >= Len(checked)

AtEnd(op) == Len(taken[op]) = Len(checked)

HasNext(op) ==
  /\ ~AtEnd(op)
  /\ Go(op, "test", "next")
  /\ UNCHANGED <<Shared, iterVars, readVars, dbVars>>

HasNoNext(op) ==
  /\ AtEnd(op)
  /\ Go(op, "test", "clear")
  /\ UNCHANGED <<Shared, iterVars, readVars, dbVars>>

(* it.next() finds the list as it was when the iterator was created; the   *)
(* variant does not look.                                                  *)
Unchecked(op) == TRUE

Unmodified(op) == modCount = expected[op]

TakeNext(op) ==
  /\ Unmodified(op) /\ Len(taken[op]) < Len(checked)
  /\ Go(op, "next", "log")
  /\ taken' = [taken EXCEPT ![op] = Append(@, checked[Len(@) + 1])]
  /\ nth' = [nth EXCEPT ![op] = 0]
  /\ moved' = [moved EXCEPT ![op] = ~UiIdle]
  /\ crossed' = [crossed EXCEPT ![op] = FALSE]
  /\ UNCHANGED <<Shared, expected, snapshot, path, source, left, conn,
                 dbVars>>

(* it.next() otherwise: ConcurrentModificationException (or, past the end, *)
(* NoSuchElementException) ends the thread.                                *)
FailFast(op) ==
  /\ ~Unmodified(op) \/ Len(taken[op]) >= Len(checked)
  /\ Go(op, "next", "dead")
  /\ UNCHANGED <<Shared, iterVars, readVars, dbVars>>

(* AndrospyLog.Logdata's row; the variant still has the previous option.   *)
LateLogRow(op) == [op |-> op, n |-> Len(taken[op]) - 1, case |-> gbId]

LogRow(op) == [op |-> op, n |-> Len(taken[op]), case |-> gbId]

(* An SQLException of its INSERT is swallowed.                             *)
LogOption(op) ==
  /\ Go(op, "log", "work")
  /\ \/ /\ log' = log \union {LogRow(op)}
        /\ UNCHANGED lostLog
     \/ /\ Cardinality(lostLog) < MaxFaults
        /\ lostLog' = lostLog \union {<<op, Len(taken[op])>>}
        /\ UNCHANGED log
  /\ UNCHANGED <<Shared, iterVars, readVars, records>>

Doing(op, read) ==
  LET reads == Reads[Current(op).name] IN
  nth[op] < Len(reads) /\ reads[nth[op] + 1] = read

(* getConnection found no database server and returned null; Logdata,      *)
(* createConnection and readWifiData use it all the same.                  *)
NoDatabase(op) ==
  /\ \/ Go(op, "log", "dead")
     \/ Go(op, "open", "dead")
     \/ Go(op, "rows", "dead") /\ Doing(op, "direct")
  /\ UNCHANGED <<Shared, iterVars, readVars, dbVars>>

Recognised(e) == Reads[e.name] # <<>> /\ (e.literal \/ e.name \in ByEquals)

Serves(op, read) == pc[op] = "work" /\ Recognised(Current(op)) /\ Doing(op, read)

MoreReads(op) == nth[op] + 1 < Len(Reads[Current(op).name])

ReadEnds(op, from) ==
  /\ Go(op, from, IF MoreReads(op) THEN "work" ELSE "sync")
  /\ nth' = [nth EXCEPT ![op] = @ + 1]

(* No branch of startExtract compares equal: nothing is done.  The variant *)
(* tests the same option again and again.                                  *)
SkipNothing(op) ==
  pc[op] = "work" /\ ~Recognised(Current(op)) /\ UNCHANGED vars

SkipOption(op) ==
  /\ Go(op, "work", "test")
  /\ ~Recognised(Current(op))
  /\ UNCHANGED <<Shared, iterVars, readVars, dbVars>>

(* CreateStringFile and recoverDeleted: command line tools, no records.    *)
RunTool(op) ==
  /\ Serves(op, "tool")
  /\ ReadEnds(op, "work")
  /\ path' = [path EXCEPT ![op] = gbPath]
  /\ UNCHANGED <<Shared, iterVars, source, left, conn, moved, crossed, dbVars>>

(* The file of the current option, at the path of the case open now.       *)
Exists(op) == Store(gbPath, Current(op).name) \in Stores

(* readWifiData and readBlutoothInfo: the file is opened from the path of  *)
(* the case open now; a missing file is reported and the option is over.   *)
ReadDirectFile(op) ==
  /\ Serves(op, "direct")
  /\ path' = [path EXCEPT ![op] = gbPath]
  /\ IF Exists(op)
     THEN /\ Go(op, "work", "rows")
          /\ source' = [source EXCEPT ![op] = Store(gbPath, Current(op).name)]
          /\ \E n \in 0..MaxRows : left' = [left EXCEPT ![op] = n]
          /\ UNCHANGED nth
     ELSE ReadEnds(op, "work") /\ UNCHANGED <<source, left>>
  /\ UNCHANGED <<Shared, iterVars, conn, moved, crossed, dbVars>>

(* readRecords computes the path of the record store, or goes on with a    *)
(* second query and the path it has.                                       *)
ReadRecords(op) ==
  /\ Go(op, "work", "open")
  /\ \/ /\ Serves(op, "store") \/ (Serves(op, "tested") /\ Exists(op))
        /\ path' = [path EXCEPT ![op] = gbPath]
     \/ Serves(op, "again") /\ UNCHANGED path
  /\ UNCHANGED <<Shared, iterVars, nth, source, left, conn, moved, crossed,
                 dbVars>>

(* readRecords of a mail store: tmp.exists() says no, nothing is read.     *)
SkipStore(op) ==
  /\ Serves(op, "tested") /\ ~Exists(op)
  /\ ReadEnds(op, "work")
  /\ path' = [path EXCEPT ![op] = gbPath]
  /\ UNCHANGED <<Shared, iterVars, source, left, conn, moved, crossed, dbVars>>

(* DriverManager.getConnection; the variant keeps a connection it has.     *)
Reconnect(store) == IF conn = NoStore THEN store ELSE conn

Connect(store) == store

(* createConnection assigns the static conn; a store that is not there     *)
(* leaves conn alone and stmt null, and insertRecords uses stmt.           *)
OpenStore(op) ==
  LET store == Store(path[op], Current(op).name) IN
  /\ pc[op] = "open"
  /\ IF store \in Stores
     THEN /\ Go(op, "open", "stmt")
          /\ conn' = Connect(store)
          /\ crossed' = [p \in Operations |->
                           IF p = op THEN FALSE ELSE crossed[p] \/ pc[p] = "stmt"]
     ELSE Go(op, "open", "dead") /\ UNCHANGED <<conn, crossed>>
  /\ UNCHANGED <<Shared, iterVars, nth, path, source, left, moved, dbVars>>

(* conn.createStatement() reads the static again; then the query runs.  No *)
(* rows also stands for a query that fails.                                *)
MakeStatement(op) ==
  /\ Go(op, "stmt", "rows")
  /\ source' = [source EXCEPT ![op] = conn]
  /\ \E n \in 0..MaxRows : left' = [left EXCEPT ![op] = n]
  /\ UNCHANGED <<Shared, iterVars, nth, path, conn, moved, crossed, dbVars>>

(* rs.next(); the variant reads one row too many.                          *)
HasRowLate(op) == left[op] >= 0

HasRow(op) == left[op] > 0

(* One row: read from the ResultSet, inserted under the case open now.     *)
InsertRow(op) ==
  /\ pc[op] = "rows" /\ HasRow(op)
  /\ left' = [left EXCEPT ![op] = @ - 1]
  /\ records' = records \union
       {[op |-> op, n |-> Len(taken[op]), option |-> Current(op).name,
         from |-> source[op], to |-> gbId,
         clean |-> ~moved[op] /\ ~crossed[op]]}
  /\ UNCHANGED <<Shared, pc, iterVars, nth, path, source, conn, moved, crossed, log,
                 lostLog>>

(* The ResultSet is exhausted, or an INSERT failed and the rest is left;   *)
(* after the last read the path goes out of scope.                         *)
EndRows(op) ==
  /\ ReadEnds(op, "rows")
  /\ left' = [left EXCEPT ![op] = 0]
  /\ path' = [path EXCEPT ![op] = IF MoreReads(op) THEN @ ELSE NoCase]
  /\ source' = [source EXCEPT ![op] = NoStore]
  /\ UNCHANGED <<Shared, iterVars, conn, moved, crossed, dbVars>>

(* checked.clear(), whoever put what in the list meanwhile.                *)
Clear(op) ==
  /\ Go(op, "clear", "done")
  /\ checked' = <<>> /\ modCount' = modCount + 1
  /\ UNCHANGED <<ticked, template, disposed, bar, caseVars, iterVars, readVars,
                 dbVars>>

-----------------------------------------------------------------------------
Select == \E o \in Options :
  \/ TickBox(o) \/ UntickBox(o)
  \/ \E selected \in BOOLEAN : AcceptDialog(o, selected)

UserInterface ==
  \/ Select
  \/ SelectFromTemplate
  \/ \E op \in Operations : Extract(op) \/ RunProgress(op)
  \/ \E c \in Cases : OpenCaseId(c)
  \/ OpenCasePath
  \/ Logout

Run(op) ==
  \/ Start(op) \/ HasNext(op) \/ HasNoNext(op) \/ TakeNext(op) \/ FailFast(op)
  \/ LogOption(op) \/ NoDatabase(op)
  \/ SkipOption(op) \/ RunTool(op)
  \/ ReadDirectFile(op) \/ ReadRecords(op) \/ SkipStore(op) \/ OpenStore(op)
  \/ MakeStatement(op) \/ InsertRow(op) \/ EndRows(op) \/ Clear(op)

Next == UserInterface \/ \E op \in Operations : Run(op)

Spec == Init /\ [][Next]_vars

(* The threads are scheduled, a handler that runs ends, and the event loop *)
(* runs a waiting Runnable whenever the queue of clicks is empty, which is *)
(* again and again the case.  Nothing makes the user click.                *)
Fairness ==
  /\ \A op \in Operations : WF_vars(Run(op)) /\ SF_vars(RunProgress(op))
  /\ WF_vars(OpenCasePath)

FairSpec == Spec /\ Fairness
-----------------------------------------------------------------------------
(* Properties.                                                             *)

(* Whatever happens to the shared list, an Operation works through options *)
(* that were all selected together when its loop began, in their order and *)
(* each at most once: it never mixes two selections (startExtract).        *)
OneSelection == \A op \in Operations : IsPrefix(taken[op], snapshot[op])

(* An Operation about to clear a list that nobody modified since its loop  *)
(* began has worked through all of it, so clear() drops nothing unhandled. *)
ClearsOnlyHandled ==
  \A op \in Operations :
    pc[op] = "clear" /\ Unmodified(op) =>
      taken[op] = snapshot[op] /\ checked = snapshot[op]

(* Chain of custody: a row is filed under the case whose store it was read *)
(* from and comes from the store of the option it was extracted for,       *)
(* unless the open case changed while that option was extracted or another *)
(* Operation replaced the static connection (readRecords, insertRecords).  *)
RowsFiledUnderSource ==
  \A r \in records : r.clean => r.from = Store(r.to, r.option)

(* A row was announced in the log of the case it is filed under before it  *)
(* was inserted, unless the open case changed in between or the INSERT     *)
(* into Androspy_Log itself failed.                                        *)
RowsLogged ==
  \A r \in records : r.clean =>
    \/ [op |-> r.op, n |-> r.n, case |-> r.to] \in log
    \/ <<r.op, r.n>> \in lostLog

Finished(op) ==
  {i \in DOMAIN taken[op] :
     /\ Recognised(taken[op][i])
     /\ i < Len(taken[op]) \/ pc[op] \in {"test", "next", "clear", "done"}}

(* While only one Operation was ever started, the bar shows one step per   *)
(* option finished, however the user edits the list meanwhile.             *)
BarCountsFinished ==
  \A op \in Operations :
    /\ pc[op] \notin {"idle", "dead"} /\ ~disposed
    /\ \A p \in Operations \ {op} : pc[p] = "idle"
    => bar.selection = Min({bar.maximum, 1 + Cardinality(Finished(op))})

(* What an Operation has still to do, most significant first: to begin, to *)
(* take options, to read for the one it took, to get through its branch,   *)
(* to insert rows.                                                         *)
Phase(op) == CASE pc[op] = "idle" -> 2 [] pc[op] = "ready" -> 1 [] OTHER -> 0

Untaken(op) == Len(snapshot[op]) - Len(taken[op])

Unread(op) ==
  IF taken[op] = <<>> THEN 0 ELSE Len(Reads[Current(op).name]) - nth[op]

Place(op) ==
  CASE pc[op] = "log" -> 8 [] pc[op] = "work" -> 7 [] pc[op] = "open" -> 6
    [] pc[op] = "stmt" -> 5 [] pc[op] = "rows" -> 4 [] pc[op] = "sync" -> 3
    [] pc[op] = "test" -> 2 [] pc[op] \in {"next", "clear"} -> 1 [] OTHER -> 0

Ahead(op) == <<Phase(op), Untaken(op), Unread(op), Place(op), left[op]>>

(* The lexicographic order of tuples of naturals, which is well-founded.   *)
Below(r, s) ==
  \E i \in DOMAIN s : r[i] \in 0..(s[i] - 1) /\ \A k \in 1..(i - 1) : r[k] = s[k]

Steps(op) == Extract(op) \/ RunProgress(op) \/ Run(op)

(* Every step of an Operation, and no step of anyone else, reduces what it *)
(* has still to do: its loop is bounded by the list it began with, however *)
(* the user or another Operation changes that list meanwhile, so that it   *)
(* can only be held up, never kept busy for ever (startExtract).           *)
NeverGoesBack ==
  [][\A op \in Operations : IF Steps(op) THEN Below(Ahead(op)', Ahead(op))
                            ELSE Ahead(op)' = Ahead(op)]_vars

(* An Operation that was started ends, whatever the user does: no syncExec *)
(* waits for ever and no loop over the list runs for ever.                 *)
EveryOperationEnds ==
  \A op \in Operations : pc[op] = "ready" ~> pc[op] \in {"done", "dead"}

-----------------------------------------------------------------------------
(* What makes the properties above inductive.                              *)

(* An option is being worked on: there is a current option.                *)
HasCurrent ==
  \A op \in Operations : Extracting(op) \/ pc[op] = "sync" => taken[op] # <<>>

(* The counter of an iterator never runs ahead of the list's, and as long  *)
(* as they agree the list is the one the iterator was created over.        *)
IteratorInv(op) ==
  /\ pc[op] \in {"idle", "ready"} => taken[op] = <<>>
  /\ pc[op] \notin {"idle", "ready"} =>
       /\ expected[op] <= modCount
       /\ Unmodified(op) => checked = snapshot[op]
  /\ IsPrefix(taken[op], snapshot[op])
  /\ pc[op] = "clear" /\ Unmodified(op) => taken[op] = snapshot[op]

ListInv == \A op \in Operations : IteratorInv(op)

Announced(op) == LogRow(op) \in log \/ <<op, Len(taken[op])>> \in lostLog

(* While the open case did not move since the option was taken, the path   *)
(* read then is the path of the case rows are filed under now; while conn  *)
(* was not replaced, it leads to the store of the option.                  *)
ReaderInv(op) ==
  /\ Extracting(op) /\ ~moved[op] => UiIdle
  /\ pc[op] \in {"work", "open", "stmt", "rows"} /\ ~moved[op] => Announced(op)
  /\ pc[op] \in {"open", "stmt", "rows"} /\ ~moved[op] => path[op] = gbId
  /\ pc[op] \in {"log", "work"} /\ nth[op] > 0 /\ ~moved[op] => path[op] = gbId
  /\ pc[op] = "stmt" /\ ~crossed[op] => conn = Store(path[op], Current(op).name)
  /\ pc[op] = "rows" /\ ~crossed[op] =>
       source[op] = Store(path[op], Current(op).name)

CustodyInv ==
  /\ IF UiIdle THEN gbPath = gbId ELSE gbId = switching
  /\ \A op \in Operations : ReaderInv(op)
  /\ RowsFiledUnderSource
  /\ RowsLogged

(* An option whose rows are read, or whose step of the bar is still to be  *)
(* made, has a branch of its own in startExtract.                          *)
RecognisedInv ==
  \A op \in Operations :
    pc[op] \in {"open", "stmt", "rows", "sync"} => Recognised(Current(op))

BarInv == RecognisedInv /\ BarCountsFinished

(* An Operation never has more reads behind it than its option has.        *)
UnreadInv ==
  \A op \in Operations :
    taken[op] # <<>> =>
      /\ nth[op] <= Len(Reads[Current(op).name])
      /\ pc[op] \in {"open", "stmt", "rows"} => nth[op] < Len(Reads[Current(op).name])
=============================================================================
