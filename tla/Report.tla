------------------------------- MODULE Report -------------------------------
(***************************************************************************)
(* The Report tab (ReportGUITop.java, the option dialogs it opens) and the *)
(* writing of a report (ReportPdf.java), over the rows and marks of        *)
(* Evidence.                                                               *)
(*                                                                         *)
(* The investigator selects sections with check boxes and dialogs, moves   *)
(* them up and down in a list, and presses Generate Report: one section    *)
(* per entry, one query per subsection, for all rows of the open case or   *)
(* only its favourites.  addContent recognises some sections with ==, and  *)
(* a section that was moved comes from the widget as another string.       *)
(***************************************************************************)
EXTENDS Evidence, Sequences, SequencesExt

CONSTANTS
  Sections,    (* names a section can have                                  *)
  Contents,    (* the parts its subsections query, <<>> if it has no branch *)
  ByIdentity,  (* sections whose branch compares with ==                    *)
  Boxes,       (* the check boxes of the tab                                *)
  Opens,       (* those that open a dialog when ticked; the others add a    *)
               (* section of their own name                                 *)
  Resets,      (* those of them that are cleared at once                    *)
  Options,     (* the sections a box's dialog offers, in their order        *)
  Looks,       (* the sections the box is set by after "customize"          *)
  Always,      (* boxes that are set whatever the list is then: Firefox's   *)
  MaxSections  (* bound: entries of the list                                *)

SectionTypes ==
  /\ Contents \in [Sections -> Seq(Parts)] /\ ByIdentity \subseteq Sections
  /\ Opens \subseteq Boxes /\ Resets \subseteq Opens
  /\ Opens \intersect Sections = {} /\ Boxes \ Opens \subseteq Sections
  /\ Options \in [Boxes -> Seq(Sections \ Boxes)] /\ Looks \in [Boxes -> SUBSET Sections]
  /\ Always \subseteq Boxes /\ MaxSections \in Nat

ASSUME SectionAssumption == SectionTypes

(* An element of the list: its name, and whether the string is the one the *)
(* source compares with.                                                   *)
Entry == [name : Sections, literal : BOOLEAN]

(* Boxes without a dialog.                                                 *)
Plain == {b \in Boxes \ Opens : Options[b] = <<>>}

Closed == [case |-> NoCase, all |-> TRUE, sections |-> <<>>]

VARIABLES
  checked,     (* ReportGUITop.checked                                      *)
  list,        (* the texts of its list widget                              *)
  selected,    (* the index selected in it, 0 if none                       *)
  boxes,       (* the check boxes shown as ticked                           *)
  report,      (* the Document being written                                *)
  query,       (* generating: its next subsection, or 0                     *)
  (* History variables: no guard and no other variable reads them.          *)
  before,      (* the rows, or the rows chosen, when the report was begun   *)
  failed,      (* a query of it failed                                      *)
  moved,       (* Up or Down was pressed since the list was empty           *)
  cleared      (* boxes ticked before the last report                       *)

tabVars == <<checked, list, selected, boxes, moved, cleared>>
docVars == <<report, query, before, failed>>
vars == <<evVars, tabVars, docVars>>

-----------------------------------------------------------------------------
Section == [name : Sections, rows : SUBSET Row]

TypeOK ==
  /\ EvTypeOK
  /\ checked \in Seq(Entry) /\ list \in Seq(Sections)
  /\ selected \in 0..Len(list) /\ boxes \in SUBSET Boxes
  /\ report \in [case : Cases \union {NoCase}, all : BOOLEAN, sections : Seq(Section)]
  /\ query \in Nat
  /\ before \in SUBSET Row /\ failed \in BOOLEAN
  /\ moved \in BOOLEAN /\ cleared \in SUBSET Boxes

Init ==
  /\ EvInit
  /\ checked = <<>> /\ list = <<>> /\ selected = 0 /\ boxes = {}
  /\ report = Closed /\ query = 0
  /\ before = {} /\ failed = FALSE
  /\ moved = FALSE /\ cleared = {}

Generating == query # 0

Idle == ViewsIdle /\ ~Generating

-----------------------------------------------------------------------------
(* Choosing sections.                                                      *)

Names(s) == [i \in DOMAIN s |-> s[i].name]

(* ArrayList.add of a literal, and remove(Object): the first one equal.    *)
(* The mutant compares with ==.                                            *)
AddSection(s, o) == Append(s, [name |-> o, literal |-> TRUE])

RemoveLiteral(s, o) ==
  LET at == {i \in DOMAIN s : s[i].name = o /\ s[i].literal} IN
  IF at = {} THEN s ELSE RemoveAt(s, CHOOSE i \in at : \A j \in at : i <= j)

RemoveSection(s, o) ==
  LET at == {i \in DOMAIN s : s[i].name = o} IN
  IF at = {} THEN s ELSE RemoveAt(s, CHOOSE i \in at : \A j \in at : i <= j)

(* populateList shows the list anew, with nothing selected in it.  The     *)
(* mutants keep what the list had, and the selection.                      *)
SetListAppending(s) ==
  /\ checked' = s /\ list' = list \o Names(s) /\ selected' = 0
  /\ Len(s) <= MaxSections /\ Len(list') <= 2 * MaxSections
  /\ moved' = (moved /\ s # <<>>)

SetListKeepingSelection(s) ==
  /\ checked' = s /\ list' = Names(s) /\ selected' = selected
  /\ Len(s) <= MaxSections
  /\ moved' = (moved /\ s # <<>>)

SetList(s) ==
  /\ checked' = s /\ list' = Names(s) /\ selected' = 0
  /\ Len(s) <= MaxSections
  /\ moved' = (moved /\ s # <<>>)

TabOnly == UNCHANGED <<evVars, docVars>>

(* getSelectedItems of a dialog: one after the other, an option ticked     *)
(* there is added and another is removed once.                             *)
Choose(s, o, ticks) == IF o \in ticks THEN AddSection(s, o) ELSE RemoveSection(s, o)

Accepted(b, ticks) ==
  LET after[k \in 0..Len(Options[b])] ==
        IF k = 0 THEN checked ELSE Choose(after[k - 1], Options[b][k], ticks)
  IN after[Len(Options[b])]

(* What the dialog of a box leaves of the list: OK takes over its ticks,   *)
(* Cancel nothing.  Some dialogs open with the ticks of the list, others   *)
(* with none; the investigator may change every one of them.               *)
DialogLeaves(b) == {checked} \union {Accepted(b, ticks) : ticks \in SUBSET Range(Options[b])}

(* btnsellistener for a box that is ticked: a section of its own name, or  *)
(* the list s that its dialog leaves.                                      *)
TickBox(b, s) ==
  /\ Idle /\ b \notin boxes
  /\ SetList(IF b \in Opens THEN s ELSE AddSection(checked, b))
  /\ boxes' = IF b \in Resets THEN boxes ELSE boxes \union {b}
  /\ cleared' = cleared \ {b}
  /\ TabOnly

(* And unticked: its own name is removed, which for a box that opens a     *)
(* dialog is never in the list.                                            *)
UntickBox(b) ==
  /\ Idle /\ b \in boxes
  /\ SetList(RemoveSection(checked, b))
  /\ boxes' = boxes \ {b}
  /\ cleared' = cleared \ {b}
  /\ TabOnly

(* "customize": the box then says whether some section of the list is one  *)
(* of those it looks at, which for Skype are LinkedIn's; Firefox's is      *)
(* ticked anyway.                                                          *)
Customize(b, s) ==
  /\ Idle /\ Options[b] # <<>>
  /\ SetList(s)
  /\ boxes' = IF b \in Always \/ \E i \in DOMAIN checked' : checked'[i].name \in Looks[b]
              THEN boxes \union {b} ELSE boxes \ {b}
  /\ UNCHANGED cleared /\ TabOnly

SelectSection(k) ==
  /\ Idle /\ selected' = k
  /\ UNCHANGED <<checked, list, boxes, moved, cleared>> /\ TabOnly

(* remove, add, remove, add, as both handlers do it on both lists: k goes  *)
(* to the place of its neighbour n.                                        *)
Exchange(s, k, n, atK, atN) ==
  InsertAt(RemoveAt(InsertAt(RemoveAt(s, k), k, atK), n), n, atN)

FromWidget(text) == [name |-> text, literal |-> FALSE]

(* Up, and Down with a row selected.  What is selected then is left to the *)
(* toolkit.                                                                *)
Move(n) ==
  /\ Idle /\ selected > 0
  /\ n \in {selected - 1, selected + 1} \intersect DOMAIN list
  /\ list' = Exchange(list, selected, n, list[n], list[selected])
  /\ checked' = Exchange(checked, selected, n, FromWidget(list[n]), FromWidget(list[selected]))
  /\ selected' \in 0..Len(list) /\ moved' = TRUE
  /\ UNCHANGED <<boxes, cleared>> /\ TabOnly

-----------------------------------------------------------------------------
(* Writing the report.                                                     *)

ClearTab ==
  /\ checked' = <<>> /\ list' = <<>> /\ selected' = 0 /\ moved' = FALSE

(* generatePdf up to the first section; when the file cannot be written    *)
(* there is no report, and the list is emptied all the same.               *)
Generate(all) ==
  /\ Idle
  /\ report' = [case |-> gbCase, all |-> all, sections |-> <<>>]
  /\ query' = 1 /\ failed' = FALSE
  /\ before' = IF all THEN rows ELSE chosen
  /\ UNCHANGED <<evVars, tabVars>>

NoReport ==
  /\ Idle /\ checked # <<>> /\ Fault
  /\ ClearTab /\ cleared' = boxes /\ UNCHANGED boxes
  /\ UNCHANGED <<rows, marked, gbCase, viewVars, saving, chosen, docVars>>

(* The sections of which addContent has begun the text, and the parts it   *)
(* queries for an entry: none if no branch recognises it.                  *)
Begun == Len(report.sections)

(* The mutant compares every name with ==.                                 *)
QueriesByIdentity(e) == IF e.literal THEN Contents[e.name] ELSE <<>>

Queries(e) ==
  IF e.literal \/ e.name \notin ByIdentity THEN Contents[e.name] ELSE <<>>

Subsections == IF Begun = 0 THEN <<>> ELSE Queries(checked[Begun])

SectionDone == query > Len(Subsections)

BeginSection ==
  /\ Generating /\ SectionDone /\ Begun < Len(checked)
  /\ LET e == checked[Begun + 1] IN
     report' = [report EXCEPT !.sections =
                  Append(@, [name |-> e.name, rows |-> {}])]
  /\ query' = 1
  /\ UNCHANGED <<evVars, tabVars, before, failed>>

(* The query of CreateTable, for the case open now.                        *)
Reported(p) ==
  {r \in rows : r.part = p /\ r.case = gbCase /\ (report.all \/ r \in marked)}

(* One subsection; an SQLException leaves it without rows.                 *)
CreateTable ==
  /\ Generating /\ ~SectionDone
  /\ \/ /\ report' = [report EXCEPT !.sections[Begun].rows =
                        @ \union Reported(Subsections[query])]
        /\ UNCHANGED <<faults, failed>>
     \/ Fault /\ failed' = TRUE /\ UNCHANGED report
  /\ query' = query + 1
  /\ UNCHANGED <<rows, marked, gbCase, viewVars, saving, chosen, tabVars, before>>

Written == Generating /\ SectionDone /\ Begun = Len(checked)

CloseDocument == report' = Closed /\ query' = 0 /\ before' = {} /\ failed' = FALSE

(* The document is closed and the list emptied; the boxes stay as they are.*)
EndReport ==
  /\ Written
  /\ ClearTab /\ cleared' = boxes
  /\ CloseDocument
  /\ UNCHANGED <<evVars, boxes>>

(* Logout and the end of the program: the tab is gone.                     *)
CloseTab ==
  /\ ClearTab /\ boxes' = {} /\ cleared' = {}
  /\ CloseDocument

(* Down with nothing selected asks the widget for item -1, and nobody      *)
(* catches that.                                                           *)
DownUnselected ==
  /\ Idle /\ selected = 0 /\ list # <<>>
  /\ CloseViews /\ UNCHANGED faults
  /\ CloseTab

-----------------------------------------------------------------------------
UseTab ==
  \/ \E b \in Boxes : \E s \in DialogLeaves(b) : TickBox(b, s) \/ Customize(b, s)
  \/ \E b \in Boxes : UntickBox(b)
  \/ \E k \in DOMAIN list : SelectSection(k) \/ Move(k)
  \/ \E all \in BOOLEAN : Generate(all)
  \/ NoReport \/ DownUnselected

Write == BeginSection \/ CreateTable \/ EndReport

Leave == ((~Generating /\ Logout) \/ EvQuit) /\ CloseTab

UseEvidence ==
  /\ \/ ~Generating /\ UseViews
     \/ \E r \in Row : InsertRecord(r)
  /\ UNCHANGED <<tabVars, docVars>>

Next == UseTab \/ Write \/ Leave \/ UseEvidence

Spec == Init /\ [][Next]_vars
-----------------------------------------------------------------------------
(* Properties.                                                             *)

(* The list shows what a report will have, though both are changed one by  *)
(* one, entry by entry, and an entry may be there twice (populateList, the *)
(* listeners of Up and Down).                                              *)
ListShowsChecked == list = Names(checked)

(* The check box of a section without a dialog tells whether it will be in *)
(* the report, except that a report empties the list and leaves the boxes  *)
(* (btnsellistener, btnGenerateReport).                                    *)
BoxesFollowList ==
  \A b \in Plain :
    LET listed == \E i \in DOMAIN checked : checked[i].name = b IN
    /\ listed => b \in boxes
    /\ b \in boxes \ cleared => listed

(* What a report says when it is written: every section whose name has a   *)
(* branch has every row of the case there was when the report was begun.   *)
(* A report of favourites has there the rows the investigator chose, and   *)
(* else at most rows that have the number and table of a row chosen; only  *)
(* a chosen row that shares its number can be missing.  This is so unless  *)
(* a query failed or, for a section recognised with ==, the list was       *)
(* reordered (generatePdf, addContent, CreateTable).                       *)
ReportIsAsChosen ==
  Written /\ ~failed =>
    \A k \in DOMAIN report.sections :
      LET s == report.sections[k]
          due == {r \in before : r.case = report.case /\ r.part \in Range(Contents[s.name])}
      IN
      \/ moved /\ s.name \in ByIdentity
      \/ report.all /\ due \subseteq s.rows
      \/ /\ ~report.all /\ {r \in due : ~Collides(r)} \subseteq s.rows
         /\ \A r \in s.rows : /\ r.case = report.case
                             /\ Namesakes(r) \intersect before # {}
-----------------------------------------------------------------------------
(* What makes the properties above inductive.                              *)

(* A section that has a box of its own is listed once.                     *)
Once(s) ==
  \A i, j \in DOMAIN s : s[i].name = s[j].name /\ s[i].name \in Plain => i = j

(* Only a move puts a string of the widget into the list.                  *)
Literal(s) == \A i \in DOMAIN s : s[i].literal

(* The subsections of the k-th section that were queried.                  *)
Queried(k) == {q \in DOMAIN Queries(checked[k]) : k < Begun \/ q < query}

(* A row that belongs in the report.                                       *)
Wanted(r) == r.case = report.case /\ (report.all \/ r \in marked)

SectionInv(k) ==
  LET s == report.sections[k] IN
  /\ s.name = checked[k].name
  /\ \A r \in s.rows : r \in rows /\ Wanted(r) /\ r.part \in Range(Contents[s.name])
  /\ ~failed => \A q \in Queried(k) : \A r \in before :
       r.part = Queries(checked[k])[q] /\ Wanted(r) => r \in s.rows

(* The open case, the choices and the list stand still while a report is   *)
(* written; rows only come.                                                *)
WritingInv ==
  Generating =>
    /\ report.case = gbCase /\ Begun <= Len(checked)
    /\ before \subseteq rows /\ (report.all \/ before = chosen)
    /\ \A k \in DOMAIN report.sections : SectionInv(k)

ListInv ==
  /\ ListShowsChecked /\ BoxesFollowList
  /\ Once(checked) /\ (moved \/ Literal(checked))

ReportInv == TypeOK /\ EvInv /\ ListInv /\ WritingInv
=============================================================================
