------------------------------ MODULE Evidence ------------------------------
(***************************************************************************)
(* The evidence rows of the database and their favourite marks.  The views *)
(* of the Analysis tab (AppAnalysis.java, AppDummyTab.java,                *)
(* PresentationUtil.java) show the rows of the open case with a check box  *)
(* each; "Save Favorites" writes the boxes back with two UPDATEs, and a    *)
(* report may be restricted to the rows marked (see Report).               *)
(*                                                                         *)
(* A row is selected by case, device and a condition of the view, but the  *)
(* UPDATEs name it by its id alone.  That id is mostly the number the row  *)
(* had in the application's own database on the device, which rows of      *)
(* another case, of another browser in the same table, of a second         *)
(* extraction and the several rows a join makes of one contact have too.   *)
(* Only tables whose INSERT leaves the id out number their rows themselves.*)
(*                                                                         *)
(* Handlers run one at a time on the user-interface thread; an Operation   *)
(* thread may insert rows between any two of their database calls.         *)
(***************************************************************************)
EXTENDS Naturals, FiniteSets

CONSTANTS
  Cases,       (* forensic cases, each with its device                      *)
  NoCase,      (* gb_CaseId = 0                                             *)
  Parts,       (* what the views and the report tell apart in the tables    *)
  Tables,      (* the evidence tables                                       *)
  TableOf,     (* the table of a part                                       *)
  Counted,     (* the tables that number their rows themselves              *)
  Ids,         (* the numbers of rows                                       *)
  Copies,      (* what else tells rows of one part and number apart         *)
  Views,       (* the features PopulateData knows                           *)
  Groups,      (* sets of views shown together, as the tabs of AppDummyTab  *)
  Shows,       (* the parts a view's query selects                          *)
  SavesTo,     (* the table saveFavouriteEvidence finds for a view          *)
  NoTable,     (* none: the name it compares with is another one            *)
  Restricts,   (* the parts that satisfy a view's bwhere                    *)
  NoView,      (* no view is being saved                                    *)
  MaxRows,     (* bound: rows inserted                                      *)
  MaxFaults    (* bound: failing calls and ends of the program              *)

(* A view shows parts of one table and saves to that table, if any.        *)
ViewTypes ==
  /\ TableOf \in [Parts -> Tables] /\ Counted \subseteq Tables /\ Groups \in SUBSET SUBSET Views
  /\ Shows \in [Views -> SUBSET Parts] /\ Restricts \in [Views -> SUBSET Parts]
  /\ SavesTo \in [Views -> Tables \union {NoTable}]
  /\ \A v \in Views : \A p \in Shows[v] :
       p \in Restricts[v] /\ SavesTo[v] \in {NoTable, TableOf[p]}

ASSUME ViewAssumption == ViewTypes
ASSUME NullAssumption == NoCase \notin Cases /\ NoTable \notin Tables /\ NoView \notin Views
ASSUME BoundAssumption == MaxFaults \in Nat /\ MaxRows \in Nat

Row == [case : Cases, part : Parts, id : Ids, copy : Copies]

VARIABLES
  rows,        (* the evidence rows of the database                         *)
  marked,      (* those with favourite = 1                                  *)
  gbCase,      (* AndrospyMain.gb_CaseId and gb_DeviceId                    *)
  top,         (* the views on top of the stack of AppAnalysis              *)
  shown,       (* the rows in the table of a view                           *)
  ticked,      (* those whose check box is selected                         *)
  saving,      (* the view between its two UPDATEs, or NoView               *)
  faults,      (* bound counter                                             *)
  (* History variables: no guard and no other variable reads them.          *)
  chosen,      (* rows that were ticked where they were saved last          *)
  touched,     (* rows of a view ticked or unticked by hand and not saved   *)
  behind       (* views whose rows were changed otherwise since they were   *)
               (* read: by a save in another view, or by half a save        *)

viewVars == <<top, shown, ticked, touched, behind>>
evVars == <<rows, marked, gbCase, viewVars, saving, faults, chosen>>

-----------------------------------------------------------------------------
EvTypeOK ==
  /\ rows \in SUBSET Row /\ marked \in SUBSET rows
  /\ gbCase \in Cases \union {NoCase} /\ top \in SUBSET Views
  /\ shown \in [Views -> SUBSET rows] /\ ticked \in [Views -> SUBSET rows]
  /\ \A v \in Views : ticked[v] \subseteq shown[v]
  /\ saving \in Views \union {NoView} /\ faults \in 0..MaxFaults
  /\ chosen \in SUBSET rows /\ touched \in [Views -> SUBSET rows]
  /\ behind \in SUBSET Views

Nothing == [v \in Views |-> {}]

EvInit ==
  /\ rows = {} /\ marked = {} /\ gbCase = NoCase
  /\ top = {} /\ shown = Nothing /\ ticked = Nothing
  /\ saving = NoView /\ faults = 0
  /\ chosen = {} /\ touched = Nothing /\ behind = {}

Fault == faults < MaxFaults /\ faults' = faults + 1

(* Nobody saves: the thread takes the next click.                          *)
ViewsIdle == saving = NoView

-----------------------------------------------------------------------------
(* What else happens to the rows and the open case.                        *)

(* The rows the WHERE "id = ..." of an UPDATE of r's table finds.          *)
Namesakes(r) == {s \in rows : s.id = r.id /\ TableOf[s.part] = TableOf[r.part]}

(* insertRecords of an Operation: a row of the open case, not marked.      *)
InsertRecord(r) ==
  /\ r.case = gbCase /\ r \notin rows /\ Cardinality(rows) < MaxRows
  /\ TableOf[r.part] \in Counted => Namesakes(r) = {}
  /\ rows' = rows \union {r}
  /\ UNCHANGED <<marked, gbCase, viewVars, saving, faults, chosen>>

(* NewCase.OpenCase: the views go on showing what they show.               *)
OpenCase(c) ==
  /\ ViewsIdle /\ c # gbCase
  /\ gbCase' = c
  /\ UNCHANGED <<rows, marked, viewVars, saving, faults, chosen>>

(* The mutant keeps the boxes of tables that are gone.                     *)
CloseTablesOnly ==
  /\ gbCase' = NoCase /\ saving' = NoView
  /\ top' = {} /\ shown' = Nothing /\ UNCHANGED ticked
  /\ touched' = Nothing /\ behind' = {}
  /\ UNCHANGED <<rows, marked, chosen>>

CloseViews ==
  /\ gbCase' = NoCase /\ saving' = NoView
  /\ top' = {} /\ shown' = Nothing /\ ticked' = Nothing
  /\ touched' = Nothing /\ behind' = {}
  /\ UNCHANGED <<rows, marked, chosen>>

Logout == ViewsIdle /\ gbCase # NoCase /\ CloseViews /\ UNCHANGED faults

(* The program ends, at any point: killed, or by an exception nobody       *)
(* catches, as when there is no connection.                                *)
EvQuit == gbCase # NoCase /\ CloseViews /\ Fault

-----------------------------------------------------------------------------
(* The views.                                                              *)

(* The query of PopulateData.                                              *)
Selected(v) == {r \in rows : r.part \in Shows[v] /\ r.case = gbCase}

(* The boxes PopulateData leaves in a view it reads: each row read with    *)
(* favourite "1" is checked.  The mutant keeps those clicked before.       *)
BoxesKept(v) == marked \union ticked[v]

BoxesRead(v) == marked

(* PopulateData for the views vs, while only the views of kept go on being *)
(* shown.  When the query fails the table stays empty.                     *)
Populate(vs, kept) ==
  /\ \/ /\ shown' = [v \in Views |-> IF v \in vs THEN Selected(v)
                                     ELSE IF v \in kept THEN shown[v] ELSE {}]
        /\ UNCHANGED faults
     \/ /\ shown' = [v \in Views |-> IF v \in kept \ vs THEN shown[v] ELSE {}]
        /\ Fault
  /\ ticked' = [v \in Views |-> shown'[v] \intersect IF v \in vs THEN BoxesRead(v) ELSE ticked[v]]
  /\ touched' = [v \in Views |-> IF v \in kept \ vs THEN touched[v] ELSE {}]
  /\ behind' = behind \intersect (kept \ vs)
  /\ UNCHANGED <<rows, marked, gbCase, saving, chosen>>

(* A radio button of AppAnalysis brings new views, or the one it shares,   *)
(* to the top; what was there before is never seen again.                  *)
SelectGroup(g) == ViewsIdle /\ top' = g /\ Populate(g, {})

Refresh(v) == ViewsIdle /\ v \in top /\ Populate({v}, Views) /\ UNCHANGED top

ToggleRow(v, r) ==
  /\ ViewsIdle /\ r \in shown[v]
  /\ ticked' = [ticked EXCEPT ![v] = IF r \in @ THEN @ \ {r} ELSE @ \union {r}]
  /\ touched' = [touched EXCEPT ![v] = @ \union {r}]
  /\ UNCHANGED <<rows, marked, gbCase, top, shown, saving, faults, chosen, behind>>

IdsOf(R) == {r.id : r \in R}

(* "id = 3 OR id = 5 AND browser = '...'": AND binds tighter, so bwhere    *)
(* restricts the last id only.                                             *)
Matched(v, last) ==
  {r \in rows : /\ TableOf[r.part] = SavesTo[v]
                /\ \/ r.id \in IdsOf(ticked[v]) \ {last}
                   \/ r.id = last /\ r.part \in Restricts[v]}

(* The second WHERE has the ids of the boxes not ticked and no bwhere; the *)
(* mutant joins them with AND.                                             *)
UnmatchedByAnd(v) ==
  {r \in rows : /\ TableOf[r.part] = SavesTo[v]
                /\ IdsOf(shown[v] \ ticked[v]) = {r.id}}

Unmatched(v) ==
  {r \in rows : /\ TableOf[r.part] = SavesTo[v]
                /\ r.id \in IdsOf(shown[v] \ ticked[v])}

Overtaken(v, changed) == behind \union {w \in Views \ {v} : shown[w] \intersect changed # {}}

(* saveFavouriteEvidence up to its first UPDATE.  With no box ticked, with *)
(* no table or when the call fails, the SQLException ends the handler      *)
(* before anything is written, the second UPDATE included.                 *)
SaveTicked(v) ==
  /\ ViewsIdle /\ v \in top
  /\ SavesTo[v] # NoTable
  /\ \E last \in IdsOf(ticked[v]) :
       /\ marked' = marked \union Matched(v, last)
       /\ behind' = Overtaken(v, Matched(v, last) \ marked)
  /\ chosen' = chosen \union ticked[v]
  /\ saving' = v
  /\ UNCHANGED <<rows, gbCase, top, shown, ticked, touched, faults>>

(* Its second UPDATE; with every box ticked it is an SQL error and writes  *)
(* nothing, as it would.                                                   *)
SaveUnticked ==
  LET v == saving IN
  /\ ~ViewsIdle
  /\ saving' = NoView
  /\ touched' = [touched EXCEPT ![v] = {}]
  /\ \/ /\ marked' = marked \ Unmatched(v)
        /\ behind' = Overtaken(v, marked \intersect Unmatched(v)) \ {v}
        /\ chosen' = chosen \ (shown[v] \ ticked[v])
        /\ UNCHANGED faults
     \/ Fault /\ behind' = behind \union {v} /\ UNCHANGED <<marked, chosen>>
  /\ UNCHANGED <<rows, gbCase, top, shown, ticked>>

-----------------------------------------------------------------------------
UseViews ==
  \/ \E c \in Cases : OpenCase(c)
  \/ \E g \in Groups : SelectGroup(g)
  \/ \E v \in Views : Refresh(v) \/ SaveTicked(v)
  \/ \E v \in Views : \E r \in shown[v] : ToggleRow(v, r)
  \/ SaveUnticked

EvNext == UseViews \/ Logout \/ EvQuit \/ \E r \in Row : InsertRecord(r)

EvSpec == EvInit /\ [][EvNext]_evVars
-----------------------------------------------------------------------------
(* Properties.                                                             *)

(* Another row of the table has the number of row r.                       *)
Collides(r) == Namesakes(r) # {r}

(* The marks come from the investigator's choices, though the UPDATEs name *)
(* a row by a number others may have: a favourite is a row that was ticked *)
(* where it was last saved, or one with the number and table of such a     *)
(* row; and of the rows ticked there only those whose number is not theirs *)
(* alone can have lost the mark (saveFavouriteEvidence).                   *)
MarksAreChoices ==
  \A r \in rows :
    /\ r \in marked => Namesakes(r) \intersect chosen # {}
    /\ r \in chosen => r \in marked \/ Collides(r)

(* A row of the view has the number of r, and its box says otherwise, or   *)
(* has been clicked since.                                                 *)
Twin(v, r) == \E s \in shown[v] \ {r} : s.id = r.id /\ (s \notin ticked[v] \/ s \in touched[v])

(* What a view shows is what is saved.  The box of a row that was not      *)
(* clicked since is its mark, unless a save in another view, or half a     *)
(* save, changed the marks after the view was read; and only a row of the  *)
(* view with the same number, saved unticked, takes the mark of a row with *)
(* a ticked box (PopulateData, saveFavouriteEvidence).                     *)
BoxesShowMarks ==
  ViewsIdle => \A v \in Views \ behind : \A r \in shown[v] \ touched[v] :
    /\ r \in marked => r \in ticked[v]
    /\ r \in ticked[v] => r \in marked \/ Twin(v, r)
-----------------------------------------------------------------------------
(* What makes the properties above inductive.                              *)

(* The rows of a view are of its parts; a view between its UPDATEs has a   *)
(* table, and what was ticked is marked.                                   *)
ViewInv ==
  /\ \A v \in Views : \A r \in shown[v] : r.part \in Shows[v]
  /\ saving # NoView => SavesTo[saving] # NoTable /\ ticked[saving] \subseteq marked

(* The boxes of a view that was not overtaken and is not being saved.      *)
BoxInv ==
  \A v \in Views \ (behind \union {saving}) : \A r \in shown[v] \ touched[v] :
    /\ r \in marked => r \in ticked[v]
    /\ r \in ticked[v] => r \in marked \/ Twin(v, r)

EvInv == EvTypeOK /\ ViewInv /\ MarksAreChoices /\ BoxInv
=============================================================================
