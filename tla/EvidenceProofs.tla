--------------------------- MODULE EvidenceProofs ---------------------------
(***************************************************************************)
(* What is proved of Evidence for every set of cases, tables, views and    *)
(* numbers: the favourite marks are the investigator's choices, and the    *)
(* boxes of a view show them.                                              *)
(***************************************************************************)
EXTENDS Evidence, TLAPS

LEMMA InitEvInv == EvInit => EvInv
<1> SUFFICES ASSUME EvInit PROVE EvInv
  OBVIOUS
<1>1. EvTypeOK
  BY NullAssumption, BoundAssumption DEF EvInit, EvTypeOK, Nothing
<1>2. ViewInv /\ MarksAreChoices /\ BoxInv
  BY DEF EvInit, ViewInv, MarksAreChoices, BoxInv, Nothing
<1> QED BY <1>1, <1>2 DEF EvInv

(* A row has its own number.                                               *)
LEMMA OwnNumber ==
  ASSUME NEW r \in rows
  PROVE  /\ r \in Namesakes(r)
         /\ \A s \in rows \ {r} : s.id = r.id /\ TableOf[s.part] = TableOf[r.part] => Collides(r)
         /\ ~Collides(r) => Namesakes(r) = {r}
BY DEF Namesakes, Collides

(* So for a row whose number is its own the marks are the choices.         *)
LEMMA MarkedIfChosen ==
  ASSUME EvInv, NEW r \in rows, ~Collides(r)
  PROVE  r \in marked <=> r \in chosen
BY OwnNumber DEF EvInv, MarksAreChoices

(* A row of a view that saves is in the table it saves to, and satisfies   *)
(* the view's condition.                                                   *)
LEMMA ShownRows ==
  ASSUME EvInv, NEW v \in Views, SavesTo[v] # NoTable, NEW r \in shown[v]
  PROVE  r \in rows /\ TableOf[r.part] = SavesTo[v] /\ r.part \in Restricts[v]
<1>1. r.part \in Shows[v] /\ r \in rows
  BY DEF EvInv, ViewInv, EvTypeOK
<1> QED BY <1>1, ViewAssumption DEF ViewTypes

(* The first UPDATE marks what is ticked, and nothing else but rows with   *)
(* the number of a row that is.                                            *)
LEMMA MatchedRows ==
  ASSUME EvInv, NEW v \in Views, SavesTo[v] # NoTable, NEW last \in IdsOf(ticked[v])
  PROVE  /\ Matched(v, last) \subseteq rows
         /\ ticked[v] \subseteq Matched(v, last)
         /\ \A r \in Matched(v, last) : Namesakes(r) \intersect ticked[v] # {}
<1>1. ticked[v] \subseteq shown[v]
  BY DEF EvInv, EvTypeOK
<1>2. Matched(v, last) \subseteq rows
  BY DEF Matched
<1>3. \A r \in ticked[v] : r.id \in IdsOf(ticked[v])
  BY DEF IdsOf
<1>4. ticked[v] \subseteq Matched(v, last)
  BY <1>1, <1>3, ShownRows DEF Matched
<1>5. ASSUME NEW r \in Matched(v, last)
      PROVE  Namesakes(r) \intersect ticked[v] # {}
  <2>1. r.id \in IdsOf(ticked[v]) /\ TableOf[r.part] = SavesTo[v]
    BY DEF Matched
  <2>2. PICK s \in ticked[v] : s.id = r.id
    BY <2>1 DEF IdsOf
  <2>3. s \in Namesakes(r)
    BY <1>1, <2>1, <2>2, ShownRows DEF Namesakes
  <2> QED BY <2>2, <2>3
<1> QED BY <1>2, <1>4, <1>5

(* The second takes the mark from what is not ticked, and from nothing     *)
(* else but rows with the number of a row that is not.                     *)
LEMMA UnmatchedRows ==
  ASSUME EvInv, NEW v \in Views, SavesTo[v] # NoTable
  PROVE  /\ shown[v] \ ticked[v] \subseteq Unmatched(v)
         /\ \A r \in rows : r \in Unmatched(v) <=> Namesakes(r) \intersect (shown[v] \ ticked[v]) # {}
<1>1. \A r \in shown[v] \ ticked[v] : r.id \in IdsOf(shown[v] \ ticked[v])
  BY DEF IdsOf
<1>2. shown[v] \ ticked[v] \subseteq Unmatched(v)
  BY <1>1, ShownRows DEF Unmatched
<1>3. ASSUME NEW r \in Unmatched(v)
      PROVE  Namesakes(r) \intersect (shown[v] \ ticked[v]) # {}
  <2>1. r.id \in IdsOf(shown[v] \ ticked[v]) /\ TableOf[r.part] = SavesTo[v]
    BY DEF Unmatched
  <2>2. PICK s \in shown[v] \ ticked[v] : s.id = r.id
    BY <2>1 DEF IdsOf
  <2>3. s \in Namesakes(r)
    BY <2>1, <2>2, ShownRows DEF Namesakes
  <2> QED BY <2>2, <2>3
<1>4. ASSUME NEW r \in rows, NEW s \in Namesakes(r), s \in shown[v] \ ticked[v]
      PROVE  r \in Unmatched(v)
  <2>1. s.id = r.id /\ TableOf[r.part] = SavesTo[v]
    BY <1>4, ShownRows DEF Namesakes
  <2>2. r.id \in IdsOf(shown[v] \ ticked[v])
    BY <1>1, <1>4, <2>1
  <2> QED BY <2>1, <2>2 DEF Unmatched
<1> QED BY <1>2, <1>3, <1>4

(* Reading views changes no row and no mark.                               *)
LEMMA PopulateInv ==
  ASSUME EvInv, NEW vs \in SUBSET Views, NEW kept \in SUBSET Views,
         ViewsIdle, Populate(vs, kept), top' \in SUBSET Views
  PROVE  EvInv'
<1>1. UNCHANGED <<rows, marked, gbCase, saving, chosen>>
  BY DEF Populate
<1>2. /\ shown' \in [Views -> SUBSET rows] /\ DOMAIN shown' = Views
      /\ \A v \in Views :
           /\ v \in vs => shown'[v] \in {Selected(v), {}}
           /\ v \notin vs => shown'[v] = IF v \in kept THEN shown[v] ELSE {}
  <2>1. \A v \in Views : Selected(v) \in SUBSET rows /\ shown[v] \in SUBSET rows
    BY DEF Selected, EvInv, EvTypeOK
  <2>2. CASE shown' = [v \in Views |-> IF v \in vs THEN Selected(v)
                                      ELSE IF v \in kept THEN shown[v] ELSE {}]
    BY <2>1, <2>2
  <2>3. CASE shown' = [v \in Views |-> IF v \in kept \ vs THEN shown[v] ELSE {}]
    BY <2>1, <2>3
  <2> QED BY <2>2, <2>3 DEF Populate
<1>3. /\ ticked' \in [Views -> SUBSET rows]
      /\ \A v \in Views : ticked'[v] = shown'[v] \intersect IF v \in vs THEN marked ELSE ticked[v]
  BY <1>2 DEF Populate, BoxesRead, EvInv, EvTypeOK
<1>4. /\ touched' \in [Views -> SUBSET rows]
      /\ \A v \in Views : touched'[v] = IF v \in kept \ vs THEN touched[v] ELSE {}
  BY DEF Populate, EvInv, EvTypeOK
<1>5. behind' = behind \intersect (kept \ vs)
  BY DEF Populate
<1>6. faults' \in 0..MaxFaults
  BY BoundAssumption DEF Populate, Fault, EvInv, EvTypeOK
<1>7. EvTypeOK'
  BY <1>1, <1>2, <1>3, <1>4, <1>5, <1>6 DEF EvInv, EvTypeOK
<1>8. MarksAreChoices'
  BY <1>1 DEF EvInv, MarksAreChoices, Collides, Namesakes
<1>9. ViewInv'
  <2>1. ASSUME NEW v \in Views, NEW r \in shown'[v]
        PROVE  r.part \in Shows[v]
    <3>1. CASE v \in vs
      BY <1>2, <2>1, <3>1 DEF Selected
    <3>2. CASE v \notin vs
      BY <1>2, <2>1, <3>2 DEF EvInv, ViewInv
    <3> QED BY <3>1, <3>2
  <2> QED BY <1>1, <2>1 DEF ViewInv, ViewsIdle
<1>10. BoxInv'
  <2>1. ASSUME NEW v \in Views \ (behind' \union {saving'}), NEW r \in shown'[v] \ touched'[v]
        PROVE  /\ r \in marked => r \in ticked'[v]
               /\ r \in ticked'[v] => r \in marked \/ Twin(v, r)'
    <3>1. CASE v \in vs
      BY <1>3, <2>1, <3>1
    <3>2. CASE v \notin vs
      <4>1. v \in kept \ vs /\ shown'[v] = shown[v] /\ touched'[v] = touched[v]
        BY <1>2, <1>4, <2>1, <3>2
      <4>2. ticked'[v] = ticked[v]
        BY <1>3, <3>2, <4>1 DEF EvInv, EvTypeOK
      <4>3. Twin(v, r) => Twin(v, r)'
        BY <4>1, <4>2 DEF Twin
      <4>4. v \notin behind \union {saving}
        BY <1>1, <1>5, <2>1, <4>1
      <4> QED BY <2>1, <4>1, <4>2, <4>3, <4>4 DEF EvInv, BoxInv
    <3> QED BY <3>1, <3>2
  <2> QED BY <1>1, <2>1 DEF BoxInv
<1> QED BY <1>7, <1>8, <1>9, <1>10 DEF EvInv

LEMMA CloseViewsInv ==
  ASSUME EvInv, CloseViews, faults' \in 0..MaxFaults
  PROVE  EvInv'
<1>1. EvTypeOK'
  BY DEF CloseViews, EvInv, EvTypeOK, Nothing
<1>2. MarksAreChoices'
  BY DEF CloseViews, EvInv, MarksAreChoices, Collides, Namesakes
<1>3. ViewInv' /\ BoxInv'
  BY DEF CloseViews, ViewInv, BoxInv, Nothing
<1> QED BY <1>1, <1>2, <1>3 DEF EvInv

(* A view that was not overtaken shows no row whose mark was changed.      *)
LEMMA NotOvertaken ==
  ASSUME NEW v \in Views, NEW changed, NEW w \in Views \ {v}, w \notin Overtaken(v, changed)
  PROVE  w \notin behind /\ \A r \in shown[w] : r \notin changed
BY DEF Overtaken

LEMMA SaveTickedInv ==
  ASSUME EvInv, NEW v \in Views, SaveTicked(v)
  PROVE  EvInv'
<1>1. /\ ViewsIdle /\ SavesTo[v] # NoTable /\ saving' = v
      /\ chosen' = chosen \union ticked[v]
      /\ UNCHANGED <<rows, gbCase, top, shown, ticked, touched, faults>>
  BY DEF SaveTicked
<1>2. PICK last \in IdsOf(ticked[v]) :
        /\ marked' = marked \union Matched(v, last)
        /\ behind' = Overtaken(v, Matched(v, last) \ marked)
  BY DEF SaveTicked
<1>3. /\ Matched(v, last) \subseteq rows /\ ticked[v] \subseteq Matched(v, last)
      /\ \A r \in Matched(v, last) : Namesakes(r) \intersect ticked[v] # {}
  BY <1>1, MatchedRows
<1>4. ticked[v] \subseteq rows /\ v # NoView
  BY NullAssumption DEF EvInv, EvTypeOK
<1>5. EvTypeOK'
  <2>1. behind' \in SUBSET Views
    BY <1>2 DEF Overtaken, EvInv, EvTypeOK
  <2> QED BY <1>1, <1>2, <1>3, <1>4, <2>1 DEF EvInv, EvTypeOK
<1>7. ViewInv'
  BY <1>1, <1>2, <1>3 DEF EvInv, ViewInv
<1>8. MarksAreChoices'
  <2>1. ASSUME NEW r \in rows PROVE Namesakes(r)' = Namesakes(r) /\ (Collides(r)' <=> Collides(r))
    BY <1>1 DEF Collides, Namesakes
  <2> HIDE DEF Collides
  <2>2. ASSUME NEW r \in rows
        PROVE  /\ r \in marked' => Namesakes(r) \intersect chosen' # {}
               /\ r \in chosen' => r \in marked' \/ Collides(r)
    <3>1. /\ r \in marked => Namesakes(r) \intersect chosen # {}
          /\ r \in chosen => r \in marked \/ Collides(r)
      BY DEF EvInv, MarksAreChoices
    <3> QED BY <1>1, <1>2, <1>3, <3>1
  <2> QED BY <1>1, <2>1, <2>2 DEF MarksAreChoices
<1>9. BoxInv'
  <2>1. ASSUME NEW w \in Views \ (behind' \union {saving'}), NEW r \in shown[w] \ touched[w]
        PROVE  /\ r \in marked' => r \in ticked[w]
               /\ r \in ticked[w] => r \in marked' \/ Twin(w, r)
    <3>1. w # v /\ w \notin Overtaken(v, Matched(v, last) \ marked)
      BY <1>1, <1>2, <2>1
    <3>2. w \notin behind /\ r \notin Matched(v, last) \ marked
      BY <2>1, <3>1, NotOvertaken
    <3>3. w # saving
      BY <1>1, NullAssumption, <2>1 DEF ViewsIdle
    <3>4. /\ r \in marked => r \in ticked[w]
          /\ r \in ticked[w] => r \in marked \/ Twin(w, r)
      BY <2>1, <3>2, <3>3 DEF EvInv, BoxInv
    <3> QED BY <1>2, <3>2, <3>4
  <2>2. \A w, r : Twin(w, r)' <=> Twin(w, r)
    BY <1>1 DEF Twin
  <2> QED BY <1>1, <2>1, <2>2 DEF BoxInv
<1> QED BY <1>5, <1>7, <1>8, <1>9 DEF EvInv

LEMMA SaveUntickedInv ==
  ASSUME EvInv, SaveUnticked
  PROVE  EvInv'
<1>0. PICK v \in Views : v = saving
  BY DEF SaveUnticked, ViewsIdle, EvInv, EvTypeOK
<1>1. /\ v \in Views /\ saving' = NoView
      /\ touched' = [touched EXCEPT ![v] = {}]
      /\ UNCHANGED <<rows, gbCase, top, shown, ticked>>
  BY <1>0 DEF SaveUnticked
<1>2. SavesTo[v] # NoTable /\ ticked[v] \subseteq marked
  BY <1>0, <1>1, NullAssumption DEF EvInv, ViewInv
<1>3. /\ touched' \in [Views -> SUBSET rows]
      /\ \A w \in Views \ {v} : touched'[w] = touched[w]
  BY <1>1 DEF EvInv, EvTypeOK
<1>4. ViewInv'
  BY <1>1 DEF EvInv, ViewInv
<1>5. ASSUME NEW r \in rows PROVE Namesakes(r)' = Namesakes(r) /\ (Collides(r)' <=> Collides(r))
  BY <1>1 DEF Collides, Namesakes
<1>6. ASSUME NEW w \in Views \ (behind \union {v}), NEW r \in shown[w] \ touched'[w]
      PROVE  /\ r \in marked => r \in ticked[w]
             /\ r \in ticked[w] => r \in marked \/ Twin(w, r)'
  <2>1. touched'[w] = touched[w]
    BY <1>3, <1>6
  <2>2. Twin(w, r) => Twin(w, r)'
    BY <1>1, <2>1 DEF Twin
  <2> QED BY <1>0, <1>6, <2>1, <2>2 DEF EvInv, BoxInv
<1>7. CASE Fault /\ behind' = behind \union {v} /\ UNCHANGED <<marked, chosen>>
  <2>1. EvTypeOK'
    BY <1>1, <1>3, <1>7, BoundAssumption DEF Fault, EvInv, EvTypeOK
  <2>2. MarksAreChoices'
    BY <1>1, <1>5, <1>7 DEF EvInv, MarksAreChoices
  <2>3. BoxInv'
    BY <1>1, <1>6, <1>7 DEF BoxInv
  <2> QED BY <1>4, <2>1, <2>2, <2>3 DEF EvInv
<1>8. CASE /\ marked' = marked \ Unmatched(v)
           /\ behind' = Overtaken(v, marked \intersect Unmatched(v)) \ {v}
           /\ chosen' = chosen \ (shown[v] \ ticked[v])
           /\ UNCHANGED faults
  <2>1. EvTypeOK'
    <3>1. behind' \in SUBSET Views
      BY <1>8 DEF Overtaken, EvInv, EvTypeOK
    <3> QED BY <1>1, <1>3, <1>8, <3>1 DEF EvInv, EvTypeOK
  <2>2. /\ shown[v] \ ticked[v] \subseteq Unmatched(v) /\ shown[v] \subseteq rows
        /\ \A r \in rows : r \in Unmatched(v) <=> Namesakes(r) \intersect (shown[v] \ ticked[v]) # {}
    BY <1>1, <1>2, UnmatchedRows, ShownRows
  <2>3. MarksAreChoices'
    <3>1. ASSUME NEW r \in rows
          PROVE  /\ r \in marked' => Namesakes(r) \intersect chosen' # {}
                 /\ r \in chosen' => r \in marked' \/ Collides(r)
      <4>1. /\ r \in marked => Namesakes(r) \intersect chosen # {}
            /\ r \in chosen => r \in marked \/ Collides(r)
        BY DEF EvInv, MarksAreChoices
      <4>2. r \in marked' => Namesakes(r) \intersect chosen' # {}
        BY <1>8, <2>2, <4>1
      <4>3. ASSUME r \in chosen', r \in Unmatched(v) PROVE Collides(r)
        <5>1. r \notin shown[v] \ ticked[v] /\ Namesakes(r) \intersect (shown[v] \ ticked[v]) # {}
          BY <1>8, <2>2, <4>3
        <5> QED BY <5>1 DEF Collides
      <4> QED BY <1>8, <4>1, <4>2, <4>3
    <3> QED BY <1>1, <1>5, <3>1 DEF MarksAreChoices
  <2>4. ASSUME NEW r \in shown[v]
        PROVE  /\ r \in marked' => r \in ticked[v]
               /\ r \in ticked[v] => r \in marked' \/ Twin(v, r)'
    <3>1. r \in marked' => r \in ticked[v]
      BY <1>8, <2>2
    <3>2. ASSUME r \in ticked[v], r \in Unmatched(v) PROVE Twin(v, r)'
      <4>1. PICK s \in Namesakes(r) : s \in shown[v] \ ticked[v]
        BY <2>2, <3>2
      <4>2. s \in shown[v] \ {r} /\ s.id = r.id /\ s \notin ticked[v]
        BY <3>2, <4>1 DEF Namesakes
      <4> QED BY <1>1, <4>2 DEF Twin
    <3> QED BY <1>2, <1>8, <3>1, <3>2
  <2>5. ASSUME NEW w \in Views \ {v}, w \notin behind', NEW r \in shown[w] \ touched'[w]
        PROVE  /\ r \in marked' => r \in ticked[w]
               /\ r \in ticked[w] => r \in marked' \/ Twin(w, r)'
    <3>1. w \notin behind /\ r \notin marked \intersect Unmatched(v)
      BY <1>1, <1>8, <2>5, NotOvertaken
    <3> QED BY <1>6, <1>8, <2>5, <3>1
  <2>6. BoxInv'
    BY <1>1, <2>4, <2>5 DEF BoxInv
  <2> QED BY <1>4, <2>1, <2>3, <2>6 DEF EvInv
<1> QED BY <1>0, <1>7, <1>8 DEF SaveUnticked

LEMMA NextEvInv ==
  ASSUME EvInv, [EvNext]_evVars
  PROVE  EvInv'
<1>1. ASSUME NEW r \in Row, InsertRecord(r) PROVE EvInv'
  <2>1. /\ rows' = rows \union {r} /\ r \notin rows
        /\ UNCHANGED <<marked, gbCase, top, shown, ticked, touched, behind, saving, faults, chosen>>
    BY <1>1 DEF InsertRecord, viewVars
  <2>2. EvTypeOK'
    BY <2>1 DEF EvInv, EvTypeOK
  <2>4. ViewInv' /\ BoxInv'
    BY <2>1 DEF EvInv, ViewInv, BoxInv, Twin
  <2>5. MarksAreChoices'
    <3>1. \A s \in rows : Namesakes(s) \subseteq Namesakes(s)' /\ (Collides(s) => Collides(s)')
      BY <2>1, OwnNumber DEF Collides, Namesakes
    <3>2. r \notin marked /\ r \notin chosen
      BY <2>1 DEF EvInv, EvTypeOK
    <3> QED BY <2>1, <3>1, <3>2 DEF EvInv, MarksAreChoices
  <2> QED BY <2>2, <2>4, <2>5 DEF EvInv
<1>2. ASSUME NEW c \in Cases, OpenCase(c) PROVE EvInv'
  <2>1. gbCase' = c /\ UNCHANGED <<rows, marked, top, shown, ticked, touched, behind, saving, faults, chosen>>
    BY <1>2 DEF OpenCase, viewVars
  <2> QED BY <2>1 DEF EvInv, EvTypeOK, ViewInv, MarksAreChoices, Collides, Namesakes, BoxInv, Twin
<1>3. ASSUME Logout \/ EvQuit PROVE EvInv'
  <2>1. CloseViews /\ faults' \in 0..MaxFaults
    BY <1>3, BoundAssumption DEF Logout, EvQuit, Fault, EvInv, EvTypeOK
  <2> QED BY <2>1, CloseViewsInv
<1>4. ASSUME NEW g \in Groups, SelectGroup(g) PROVE EvInv'
  <2>1. g \in SUBSET Views
    BY ViewAssumption DEF ViewTypes
  <2> QED BY <1>4, <2>1, PopulateInv DEF SelectGroup
<1>5. ASSUME NEW v \in Views, Refresh(v) PROVE EvInv'
  <2>1. {v} \in SUBSET Views /\ Views \in SUBSET Views /\ top' \in SUBSET Views
    BY <1>5 DEF Refresh, EvInv, EvTypeOK
  <2>2. ViewsIdle /\ Populate({v}, Views)
    BY <1>5 DEF Refresh
  <2> QED BY <2>1, <2>2, PopulateInv
<1>6. ASSUME NEW v \in Views, NEW r \in shown[v], ToggleRow(v, r) PROVE EvInv'
  <2>1. UNCHANGED <<rows, marked, gbCase, top, shown, saving, faults, chosen, behind>> /\ ViewsIdle
    BY <1>6 DEF ToggleRow
  <2>2. r \in rows
    BY DEF EvInv, EvTypeOK
  <2>3. /\ ticked' \in [Views -> SUBSET rows] /\ touched' \in [Views -> SUBSET rows]
        /\ \A w \in Views : /\ ticked'[w] \subseteq shown[w] /\ touched[w] \subseteq touched'[w]
                            /\ \A s \in shown[w] \ touched'[w] : s \in ticked'[w] <=> s \in ticked[w]
    BY <1>6, <2>2 DEF ToggleRow, EvInv, EvTypeOK
  <2>4. EvTypeOK'
    BY <2>1, <2>3 DEF EvInv, EvTypeOK
  <2>5. MarksAreChoices'
    BY <2>1 DEF EvInv, MarksAreChoices, Collides, Namesakes
  <2>6. ViewInv'
    BY <2>1 DEF EvInv, ViewInv, ViewsIdle
  <2>7. BoxInv'
    <3>1. ASSUME NEW w \in Views, NEW s \in shown[w], Twin(w, s) PROVE Twin(w, s)'
      BY <2>1, <2>3, <3>1 DEF Twin
    <3> QED BY <2>1, <2>3, <3>1 DEF EvInv, BoxInv
  <2> QED BY <2>4, <2>5, <2>6, <2>7 DEF EvInv
<1>7. CASE UNCHANGED evVars
  BY <1>7 DEF evVars, viewVars, EvInv, EvTypeOK, ViewInv, MarksAreChoices, Collides,
              Namesakes, BoxInv, Twin
<1> QED BY <1>1, <1>2, <1>3, <1>4, <1>5, <1>6, <1>7, SaveTickedInv, SaveUntickedInv
        DEF EvNext, UseViews

-----------------------------------------------------------------------------
(* The type invariant of Evidence.                                         *)
THEOREM EvTypeCorrect == EvSpec => []EvTypeOK
<1>1. EvInv => EvTypeOK
  BY DEF EvInv
<1> QED BY <1>1, InitEvInv, NextEvInv, PTL DEF EvSpec

(* A favourite has the number of a row the investigator chose, and a row   *)
(* that was chosen is a favourite unless it shares its number.             *)
THEOREM FavouritesAreChosen == EvSpec => []MarksAreChoices
<1>1. EvInv => MarksAreChoices
  BY DEF EvInv
<1> QED BY <1>1, InitEvInv, NextEvInv, PTL DEF EvSpec

(* The boxes of a view are the marks, until something else changes them.   *)
THEOREM ViewsShowMarks == EvSpec => []BoxesShowMarks
<1>1. EvInv => BoxesShowMarks
  BY NullAssumption DEF EvInv, BoxInv, BoxesShowMarks, ViewsIdle
<1> QED BY <1>1, InitEvInv, NextEvInv, PTL DEF EvSpec
=============================================================================
