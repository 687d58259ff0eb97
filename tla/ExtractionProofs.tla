-------------------------- MODULE ExtractionProofs --------------------------
(***************************************************************************)
(* What is proved of Extraction for every set of Operations, options,      *)
(* cases and stores and every bound.                                       *)
(***************************************************************************)
EXTENDS Extraction, SequenceTheorems, FiniteSetTheorems, TLAPS

-----------------------------------------------------------------------------
(* The list that remove(Object) leaves holds entries of the list it had.   *)
LEMMA RemoveOptionType ==
  ASSUME NEW o, checked \in Seq(Entry), modCount \in Nat, RemoveOption(o)
  PROVE  checked' \in Seq(Entry) /\ modCount' \in Nat
<1>1. ASSUME NEW k \in DOMAIN checked, checked' = RemoveAt(checked, k)
      PROVE  checked' \in Seq(Entry)
  <2>1. k \in 1..Len(checked)
    OBVIOUS
  <2>2. SubSeq(checked, 1, k - 1) \in Seq(Entry)
    BY <2>1
  <2>3. SubSeq(checked, k + 1, Len(checked)) \in Seq(Entry)
    BY <2>1
  <2> QED BY <1>1, <2>2, <2>3 DEF RemoveAt
<1> QED BY <1>1 DEF RemoveOption

(***************************************************************************)
(* Types, together with what Current needs: an option being worked on.     *)
(***************************************************************************)
TypeInv == TypeOK /\ HasCurrent

LEMMA InitTypeInv == Init => TypeInv
<1> SUFFICES ASSUME Init PROVE TypeInv
  OBVIOUS
<1>1. NoStore \in StoreType
  BY DEF NoStore, Store, StoreType
<1>2. <<>> \in Seq(Entry)
  OBVIOUS
<1>3. template \in Seq(Options)
  BY TemplateAssumption DEF Init
<1>4. pc \in [Operations -> PC] /\ \A op \in Operations : pc[op] = "idle"
  BY DEF Init, PC
<1>5. HasCurrent
  BY <1>4 DEF HasCurrent, Extracting
<1>6. TypeOK
  BY <1>1, <1>2, <1>3, <1>4 DEF Init, TypeOK
<1> QED BY <1>5, <1>6 DEF TypeInv

LEMMA CurrentType ==
  ASSUME TypeInv, NEW op \in Operations, Extracting(op)
  PROVE  Current(op) \in Entry
BY DEF TypeInv, TypeOK, HasCurrent, Current

LEMMA NextTypeInv == TypeInv /\ [Next]_vars => TypeInv'
<1> SUFFICES ASSUME TypeInv, [Next]_vars PROVE TypeInv'
  OBVIOUS
<1> USE DEF TypeInv, TypeOK, HasCurrent, Extracting
<1>1. ASSUME NEW o \in Options, TickBox(o) PROVE TypeInv'
  <2>1. [name |-> o, literal |-> TRUE] \in Entry
    BY DEF Entry
  <2> QED BY <1>1, <2>1 DEF TickBox, Add, SelectOnly, caseVars, iterVars, readVars, dbVars
<1>2. ASSUME NEW o \in Options, UntickBox(o) PROVE TypeInv'
  <2>1. checked' \in Seq(Entry) /\ modCount' \in Nat
    BY <1>2, RemoveOptionType DEF UntickBox
  <2> QED BY <1>2, <2>1 DEF UntickBox, SelectOnly, caseVars, iterVars, readVars, dbVars
<1>3. ASSUME NEW o \in Options, NEW selected \in BOOLEAN, AcceptDialog(o, selected)
      PROVE  TypeInv'
  <2>1. [name |-> o, literal |-> TRUE] \in Entry
    BY DEF Entry
  <2>2. checked' \in Seq(Entry) /\ modCount' \in Nat
    <3>1. CASE selected
      <4>1. Add([name |-> o, literal |-> TRUE])
        BY <1>3, <3>1 DEF AcceptDialog
      <4> QED BY <2>1, <4>1 DEF Add
    <3>2. CASE ~selected
      BY <1>3, <3>2, RemoveOptionType DEF AcceptDialog
    <3> QED BY <3>1, <3>2
  <2> QED BY <1>3, <2>2 DEF AcceptDialog, SelectOnly, caseVars, iterVars, readVars, dbVars
<1>4. ASSUME SelectFromTemplate PROVE TypeInv'
  <2> DEFINE lines == [i \in DOMAIN template |->
                         [name |-> template[i], literal |-> FALSE]]
  <2>1. lines \in Seq(Entry)
    <3>1. DOMAIN template = 1..Len(template) /\ Len(template) \in Nat
      OBVIOUS
    <3>2. \A i \in 1..Len(template) : [name |-> template[i], literal |-> FALSE] \in Entry
      BY DEF Entry
    <3>3. lines \in [1..Len(template) -> Entry]
      BY <3>1, <3>2
    <3> QED BY <3>1, <3>3, SeqDef
  <2>2. checked' \in Seq(Entry) /\ modCount' \in Nat
    BY <1>4, <2>1 DEF SelectFromTemplate
  <2> QED BY <1>4, <2>2 DEF SelectFromTemplate, SelectOnly, caseVars, iterVars, readVars, dbVars
<1>5. ASSUME NEW op \in Operations, Extract(op) PROVE TypeInv'
  <2>1. template' \in Seq(Options)
    <3>1. DOMAIN checked = 1..Len(checked) /\ Len(checked) \in Nat
      OBVIOUS
    <3>2. \A i \in 1..Len(checked) : checked[i].name \in Options
      <4> TAKE i \in 1..Len(checked)
      <4>1. checked[i] \in Entry
        OBVIOUS
      <4> QED BY <4>1 DEF Entry
    <3>3. [i \in DOMAIN checked |-> checked[i].name] \in [1..Len(checked) -> Options]
      BY <3>1, <3>2
    <3>4. [i \in DOMAIN checked |-> checked[i].name] \in Seq(Options)
      BY <3>1, <3>3, SeqDef
    <3> QED BY <1>5, <3>4 DEF Extract
  <2>2. bar' \in [selection : Nat, maximum : Nat]
    BY <1>5 DEF Extract
  <2> QED BY <1>5, <2>1, <2>2 DEF Extract, caseVars, iterVars, readVars, dbVars, PC
<1>6. ASSUME NEW op \in Operations, RunProgress(op) PROVE TypeInv'
  <2>0. pc' \in [Operations -> PC]
    BY <1>6 DEF RunProgress, PC
  <2>1. bar' \in [selection : Nat, maximum : Nat]
    <3>1. bar.selection \in Nat /\ bar.maximum \in Nat
      OBVIOUS
    <3>2. Stepped \in [selection : Nat, maximum : Nat]
      <4>1. ASSUME NEW n \in Nat
            PROVE  [bar EXCEPT !.selection = n] \in [selection : Nat, maximum : Nat]
        OBVIOUS
      <4> DEFINE n == IF bar.selection < bar.maximum THEN bar.selection + 1
                      ELSE bar.maximum
      <4>2. n \in Nat
        BY <3>1
      <4>3. Stepped = [bar EXCEPT !.selection = n]
        BY DEF Stepped
      <4> HIDE DEF n
      <4> QED BY <4>1, <4>2, <4>3
    <3> QED BY <1>6, <3>2 DEF RunProgress
  <2>2. HasCurrent'
    BY <1>6 DEF RunProgress, iterVars
  <2> QED BY <1>6, <2>0, <2>1, <2>2
          DEF RunProgress, listVars, caseVars, iterVars, readVars, dbVars
<1>7. ASSUME NEW c \in Cases, OpenCaseId(c) PROVE TypeInv'
  <2>1. moved' \in [Operations -> BOOLEAN]
    BY <1>7 DEF OpenCaseId
  <2>2. gbId' \in Cases \union {NoCase} /\ switching' \in Cases \union {NoCase}
    BY <1>7 DEF OpenCaseId
  <2>3. HasCurrent'
    BY <1>7 DEF OpenCaseId, iterVars
  <2> QED BY <1>7, <2>1, <2>2, <2>3 DEF OpenCaseId, listVars, iterVars, dbVars
<1>8. ASSUME OpenCasePath PROVE TypeInv'
  BY <1>8 DEF OpenCasePath, listVars, iterVars, dbVars
<1>9. ASSUME Logout PROVE TypeInv'
  BY <1>9 DEF Logout, listVars, iterVars, dbVars
<1>10. ASSUME NEW op \in Operations, Run(op) PROVE TypeInv'
  <2> USE DEF Go, Shared, listVars, caseVars, iterVars, readVars, dbVars, PC
  <2>0. Extracting(op) => Current(op) \in Entry
    BY CurrentType
  <2>1. CASE Start(op)
    BY <2>1 DEF Start
  <2>2. CASE HasNext(op)
    BY <2>2 DEF HasNext
  <2>3. CASE HasNoNext(op)
    BY <2>3 DEF HasNoNext
  <2>4. CASE TakeNext(op)
    <3>1. taken[op] \in Seq(Entry) /\ Len(taken[op]) \in Nat
      OBVIOUS
    <3>2. checked[Len(taken[op]) + 1] \in Entry
      BY <2>4, <3>1 DEF TakeNext
    <3>3. Append(taken[op], checked[Len(taken[op]) + 1]) \in Seq(Entry) \ {<<>>}
      <4>1. Append(taken[op], checked[Len(taken[op]) + 1]) \in Seq(Entry)
        BY <3>1, <3>2, AppendProperties
      <4>2. Append(taken[op], checked[Len(taken[op]) + 1]) # <<>>
        BY ONLY <3>1, <3>2, AppendProperties
      <4> QED BY <4>1, <4>2
    <3> QED BY <2>4, <3>3 DEF TakeNext, UiIdle
  <2>5. CASE FailFast(op)
    BY <2>5 DEF FailFast
  <2>6. CASE LogOption(op)
    <3>1. pc[op] = "log" /\ pc' = [pc EXCEPT ![op] = "work"]
      BY ONLY <2>6 DEF LogOption, Go
    <3>2. UNCHANGED <<Shared, iterVars, readVars, records>>
      BY ONLY <2>6 DEF LogOption
    <3>3. log' \in SUBSET LogType /\ lostLog' \in SUBSET (Operations \X Nat)
      <4>1. LogRow(op) \in LogType /\ <<op, Len(taken[op])>> \in Operations \X Nat
        BY DEF LogRow, LogType
      <4> QED BY <2>6, <4>1 DEF LogOption
    <3> QED BY <3>1, <3>2, <3>3 DEF Shared, listVars, caseVars, iterVars, readVars, PC
  <2>7. CASE NoDatabase(op)
    BY <2>7 DEF NoDatabase
  <2>8. CASE SkipOption(op)
    BY <2>8 DEF SkipOption
  <2>9. CASE RunTool(op) \/ SkipStore(op)
    <3>a. ReadEnds(op, "work") /\ path' = [path EXCEPT ![op] = gbPath]
      BY <2>9 DEF RunTool, SkipStore
    <3>1. pc' \in [Operations -> PC] /\ nth' \in [Operations -> Nat]
          /\ path' \in [Operations -> Cases \union {NoCase}]
      BY <3>a DEF ReadEnds
    <3>2. HasCurrent'
      BY <2>9 DEF RunTool, SkipStore, ReadEnds, Serves
    <3> QED BY <2>9, <3>1, <3>2 DEF RunTool, SkipStore
  <2>10. CASE ReadDirectFile(op)
    <3>1. Store(gbPath, Current(op).name) \in StoreType
      BY <2>0, <2>10 DEF ReadDirectFile, Serves, Store, StoreType, Entry
    <3>2. left' \in [Operations -> Nat]
      <4>1. CASE left' = left
        BY <4>1
      <4>2. ASSUME NEW n \in 0..MaxRows, left' = [left EXCEPT ![op] = n]
            PROVE  left' \in [Operations -> Nat]
        BY <4>2, BoundAssumption
      <4> QED BY <2>10, <4>1, <4>2 DEF ReadDirectFile
    <3>3. source' \in [Operations -> StoreType]
      BY <2>10, <3>1 DEF ReadDirectFile
    <3>4. CASE ReadEnds(op, "work")
      <4>1. pc' \in [Operations -> PC] /\ nth' \in [Operations -> Nat]
        BY <3>4 DEF ReadEnds
      <4>2. HasCurrent'
        BY <2>10, <3>4 DEF ReadDirectFile, ReadEnds, Serves
      <4> QED BY <2>10, <3>2, <3>3, <4>1, <4>2 DEF ReadDirectFile
    <3>5. CASE Go(op, "work", "rows") /\ UNCHANGED nth
      <4>1. pc' \in [Operations -> PC] /\ nth' \in [Operations -> Nat]
        BY <3>5
      <4>2. HasCurrent'
        BY <2>10, <3>5 DEF ReadDirectFile, Serves
      <4> QED BY <2>10, <3>2, <3>3, <4>1, <4>2 DEF ReadDirectFile
    <3> QED BY <2>10, <3>4, <3>5 DEF ReadDirectFile
  <2>11. CASE ReadRecords(op)
    <3>1. pc' \in [Operations -> PC] /\ HasCurrent'
      BY <2>11 DEF ReadRecords
    <3>2. CASE path' = [path EXCEPT ![op] = gbPath]
      <4>1. path' \in [Operations -> Cases \union {NoCase}]
        BY <3>2
      <4> QED BY <2>11, <3>1, <4>1 DEF ReadRecords
    <3>3. CASE path' = path
      BY <2>11, <3>1, <3>3 DEF ReadRecords
    <3> QED BY <2>11, <3>2, <3>3 DEF ReadRecords
  <2>12. CASE OpenStore(op)
    <3>1. Store(path[op], Current(op).name) \in StoreType
      BY <2>0, <2>12 DEF OpenStore, Store, StoreType, Entry
    <3>2. crossed' \in [Operations -> BOOLEAN]
      BY <2>12 DEF OpenStore
    <3> QED BY <2>12, <3>1, <3>2 DEF OpenStore, Connect
  <2>13. CASE MakeStatement(op)
    <3>1. left' \in [Operations -> Nat]
      BY <2>13, BoundAssumption DEF MakeStatement
    <3> QED BY <2>13, <3>1 DEF MakeStatement
  <2>14. CASE InsertRow(op)
    <3> DEFINE row == [op |-> op, n |-> Len(taken[op]), option |-> Current(op).name,
                       from |-> source[op], to |-> gbId,
                       clean |-> ~moved[op] /\ ~crossed[op]]
    <3>1. row \in RecordType
      BY <2>0, <2>14 DEF InsertRow, RecordType, Entry
    <3>2. records' = records \union {row}
      BY <2>14 DEF InsertRow
    <3>3. left' \in [Operations -> Nat]
      BY <2>14 DEF InsertRow, HasRow
    <3> QED BY <2>14, <3>1, <3>2, <3>3 DEF InsertRow
  <2>15. CASE EndRows(op)
    <3>1. pc' \in [Operations -> PC] /\ nth' \in [Operations -> Nat]
          /\ path' \in [Operations -> Cases \union {NoCase}]
          /\ left' \in [Operations -> Nat]
      BY <2>15 DEF EndRows, ReadEnds
    <3>2. source' \in [Operations -> StoreType]
      BY <2>15 DEF EndRows, NoStore, Store, StoreType
    <3>3. HasCurrent'
      BY <2>15 DEF EndRows, ReadEnds
    <3> QED BY <2>15, <3>1, <3>2, <3>3 DEF EndRows
  <2>16. CASE Clear(op)
    <3>1. checked' \in Seq(Entry) /\ modCount' \in Nat
      BY <2>16 DEF Clear
    <3>2. pc' \in [Operations -> PC] /\ HasCurrent'
      BY <2>16 DEF Clear
    <3> QED BY <2>16, <3>1, <3>2 DEF Clear
  <2> QED BY <1>10, <2>1, <2>2, <2>3, <2>4, <2>5, <2>6, <2>7, <2>8, <2>9, <2>10,
             <2>11, <2>12, <2>13, <2>14, <2>15, <2>16 DEF Run
<1>11. CASE UNCHANGED vars
  BY <1>11 DEF vars, listVars, caseVars, iterVars, readVars, dbVars
<1> QED BY <1>1, <1>2, <1>3, <1>4, <1>5, <1>6, <1>7, <1>8, <1>9, <1>10, <1>11
        DEF Next, UserInterface, Select

(* The type invariant of Extraction.tla.                                   *)
THEOREM TypeCorrect == Spec => []TypeOK
<1>1. TypeInv => TypeOK
  BY DEF TypeInv
<1> QED BY <1>1, InitTypeInv, NextTypeInv, PTL DEF Spec

(***************************************************************************)
(* The iterators and the shared list.                                      *)
(***************************************************************************)
LEMMA InitListInv == Init => ListInv
BY DEF Init, ListInv, IteratorInv, IsPrefix

(* The user-interface thread changes the list and not the iterators; every *)
(* change of the list is counted.                                          *)
LEMMA ListChange ==
  ASSUME TypeInv, ListInv, UNCHANGED pc, UNCHANGED iterVars, modCount' \in Nat,
         modCount' > modCount \/ UNCHANGED <<checked, modCount>>
  PROVE  ListInv'
<1> SUFFICES ASSUME NEW op \in Operations PROVE IteratorInv(op)'
  BY DEF ListInv
<1>1. IteratorInv(op) /\ expected[op] \in Nat /\ modCount \in Nat
  BY DEF ListInv, TypeInv, TypeOK
<1>2. expected[op]' = expected[op] /\ taken[op]' = taken[op]
      /\ snapshot[op]' = snapshot[op] /\ pc[op]' = pc[op]
  BY DEF iterVars
<1> QED BY <1>1, <1>2 DEF IteratorInv, Unmodified, IsPrefix

(* A thread moves inside its loop, other than to the end of it.            *)
LEMMA LoopStep ==
  ASSUME TypeInv, ListInv, UNCHANGED <<checked, modCount>>, UNCHANGED iterVars,
         NEW op \in Operations, NEW to \in PC \ {"idle", "ready", "clear"},
         pc[op] \notin {"idle", "ready"}, pc' = [pc EXCEPT ![op] = to]
  PROVE  ListInv'
<1> SUFFICES ASSUME NEW p \in Operations PROVE IteratorInv(p)'
  BY DEF ListInv
<1>1. IteratorInv(p)
  BY DEF ListInv
<1>2. expected[p]' = expected[p] /\ taken[p]' = taken[p] /\ snapshot[p]' = snapshot[p]
  BY DEF iterVars
<1>3. pc[p]' = IF p = op THEN to ELSE pc[p]
  BY DEF TypeInv, TypeOK
<1> QED BY <1>1, <1>2, <1>3 DEF IteratorInv, Unmodified, IsPrefix

LEMMA NextListInv == TypeInv /\ ListInv /\ [Next]_vars => ListInv'
<1> SUFFICES ASSUME TypeInv, ListInv, [Next]_vars PROVE ListInv'
  OBVIOUS
<1>0. modCount \in Nat /\ pc \in [Operations -> PC]
  BY DEF TypeInv, TypeOK
<1>1. CASE Select
  <2>1. modCount' > modCount \/ UNCHANGED <<checked, modCount>>
    BY <1>0, <1>1 DEF Select, TickBox, UntickBox, AcceptDialog, Add, RemoveOption
  <2>2. UNCHANGED pc /\ UNCHANGED iterVars
    BY <1>1 DEF Select, TickBox, UntickBox, AcceptDialog, SelectOnly
  <2>3. modCount' \in Nat
    BY NextTypeInv DEF TypeInv, TypeOK
  <2> QED BY <2>1, <2>2, <2>3, ListChange
<1>2. CASE SelectFromTemplate
  <2>1. Len(template) \in Nat \ {0}
    BY <1>2 DEF SelectFromTemplate, TypeInv, TypeOK
  <2>2. modCount' > modCount /\ modCount' \in Nat
    BY <1>0, <1>2, <2>1 DEF SelectFromTemplate
  <2>3. UNCHANGED pc /\ UNCHANGED iterVars
    BY <1>2 DEF SelectFromTemplate, SelectOnly
  <2> QED BY <2>2, <2>3, ListChange
<1>3. ASSUME NEW op \in Operations, Extract(op) PROVE ListInv'
  <2> SUFFICES ASSUME NEW p \in Operations PROVE IteratorInv(p)'
    BY DEF ListInv
  <2>1. IteratorInv(p)
    BY DEF ListInv
  <2>2. expected[p]' = expected[p] /\ taken[p]' = taken[p] /\ snapshot[p]' = snapshot[p]
        /\ checked' = checked /\ modCount' = modCount
    BY <1>3 DEF Extract, iterVars
  <2>3. pc[p]' = (IF p = op THEN "ready" ELSE pc[p]) /\ pc[op] = "idle"
    BY <1>0, <1>3 DEF Extract
  <2> QED BY <2>1, <2>2, <2>3 DEF IteratorInv, Unmodified, IsPrefix
<1>4. ASSUME NEW op \in Operations, RunProgress(op) PROVE ListInv'
  BY <1>4, LoopStep DEF RunProgress, listVars, PC
<1>5. CASE OpenCasePath \/ Logout \/ \E c \in Cases : OpenCaseId(c)
  BY <1>0, <1>5, ListChange DEF OpenCaseId, OpenCasePath, Logout, listVars
<1>6. ASSUME NEW op \in Operations, Run(op) PROVE ListInv'
  <2>1. CASE Start(op)
    <3> SUFFICES ASSUME NEW p \in Operations PROVE IteratorInv(p)'
      BY DEF ListInv
    <3>1. IteratorInv(p) /\ IteratorInv(op)
      BY DEF ListInv
    <3>2. pc[op] = "ready" /\ pc[p]' = IF p = op THEN "test" ELSE pc[p]
      BY <1>0, <2>1 DEF Start, Go
    <3>3. expected[p]' = IF p = op THEN modCount ELSE expected[p]
      BY <2>1 DEF Start, TypeInv, TypeOK
    <3>4. snapshot[p]' = IF p = op THEN checked ELSE snapshot[p]
      BY <2>1 DEF Start, TypeInv, TypeOK
    <3>5. taken' = taken /\ checked' = checked /\ modCount' = modCount
      BY <2>1 DEF Start, Shared, listVars
    <3>6. checked \in Seq(Entry)
      BY DEF TypeInv, TypeOK
    <3> QED BY <1>0, <3>1, <3>2, <3>3, <3>4, <3>5, <3>6
            DEF IteratorInv, Unmodified, IsPrefix
  <2>2. CASE HasNoNext(op)
    <3> SUFFICES ASSUME NEW p \in Operations PROVE IteratorInv(p)'
      BY DEF ListInv
    <3>1. IteratorInv(p)
      BY DEF ListInv
    <3>2. UNCHANGED <<checked, modCount, taken, expected, snapshot>>
      BY <2>2 DEF HasNoNext, Shared, listVars, iterVars
    <3>3. pc[op] = "test" /\ Len(taken[op]) = Len(checked)
          /\ pc[p]' = IF p = op THEN "clear" ELSE pc[p]
      BY <1>0, <2>2 DEF HasNoNext, Go, AtEnd
    <3>4. CASE p = op /\ Unmodified(op)
      <4>1. checked = snapshot[op] /\ IsPrefix(taken[op], snapshot[op])
        BY <3>1, <3>3, <3>4 DEF IteratorInv
      <4>2. taken[op] \in Seq(Entry) /\ snapshot[op] \in Seq(Entry)
        BY DEF TypeInv, TypeOK
      <4>3. taken[op] = snapshot[op]
        BY <3>3, <4>1, <4>2, SeqEqual DEF IsPrefix
      <4> QED BY <3>1, <3>2, <3>3, <3>4, <4>3 DEF IteratorInv, Unmodified, IsPrefix
    <3>5. CASE ~(p = op /\ Unmodified(op))
      BY <3>1, <3>2, <3>3, <3>5 DEF IteratorInv, Unmodified, IsPrefix
    <3> QED BY <3>4, <3>5
  <2>3. CASE TakeNext(op)
    <3> SUFFICES ASSUME NEW p \in Operations PROVE IteratorInv(p)'
      BY DEF ListInv
    <3> DEFINE e == checked[Len(taken[op]) + 1]
    <3>1. IteratorInv(p) /\ IteratorInv(op)
      BY DEF ListInv
    <3>2. UNCHANGED <<checked, modCount, expected, snapshot>>
      BY <2>3 DEF TakeNext, Shared, listVars
    <3>3. pc[op] = "next" /\ pc[p]' = IF p = op THEN "log" ELSE pc[p]
      BY <1>0, <2>3 DEF TakeNext, Go
    <3>4. taken[p]' = IF p = op THEN Append(taken[op], e) ELSE taken[p]
      BY <2>3 DEF TakeNext, TypeInv, TypeOK
    <3>5. checked = snapshot[op] /\ IsPrefix(taken[op], checked)
          /\ Len(taken[op]) < Len(checked)
      BY <2>3, <3>1, <3>3 DEF IteratorInv, TakeNext
    <3>6. taken[op] \in Seq(Entry) /\ checked \in Seq(Entry)
      BY DEF TypeInv, TypeOK
    <3>7. IsPrefix(Append(taken[op], e), checked)
      BY <3>5, <3>6 DEF IsPrefix
    <3> QED BY <3>1, <3>2, <3>3, <3>4, <3>5, <3>7 DEF IteratorInv, Unmodified
  <2>4. CASE Clear(op)
    <3> SUFFICES ASSUME NEW p \in Operations PROVE IteratorInv(p)'
      BY DEF ListInv
    <3>1. IteratorInv(p) /\ expected[p] \in Nat
      BY DEF ListInv, TypeInv, TypeOK
    <3>2. modCount' = modCount + 1 /\ UNCHANGED <<taken, expected, snapshot>>
      BY <2>4 DEF Clear, iterVars
    <3>3. pc[op] = "clear" /\ pc[p]' = IF p = op THEN "done" ELSE pc[p]
      BY <1>0, <2>4 DEF Clear, Go
    <3> QED BY <1>0, <3>1, <3>2, <3>3 DEF IteratorInv, Unmodified, IsPrefix
  <2>5. CASE InsertRow(op)
    BY <1>0, <2>5, ListChange DEF InsertRow, Shared, listVars
  <2>6. CASE ~(Start(op) \/ HasNoNext(op) \/ TakeNext(op) \/ Clear(op) \/ InsertRow(op))
    <3>1. UNCHANGED <<checked, modCount>> /\ UNCHANGED iterVars
      BY <1>6, <2>6 DEF Run, HasNext, FailFast, LogOption, NoDatabase, SkipOption,
         RunTool, ReadDirectFile, ReadRecords, SkipStore, OpenStore, MakeStatement, EndRows,
         Shared, listVars
    <3>2. pc[op] \notin {"idle", "ready"}
      BY <1>6, <2>6 DEF Run, HasNext, FailFast, LogOption, NoDatabase, SkipOption,
         RunTool, ReadDirectFile, ReadRecords, SkipStore, OpenStore, MakeStatement, EndRows,
         ReadEnds, Go, Serves
    <3>3. PICK to \in PC \ {"idle", "ready", "clear"} : pc' = [pc EXCEPT ![op] = to]
      BY <1>6, <2>6 DEF Run, HasNext, FailFast, LogOption, NoDatabase, SkipOption,
         RunTool, ReadDirectFile, ReadRecords, SkipStore, OpenStore, MakeStatement, EndRows,
         ReadEnds, Go, PC
    <3> QED BY <3>1, <3>2, <3>3, LoopStep
  <2> QED BY <2>1, <2>2, <2>3, <2>4, <2>5, <2>6
<1>7. CASE UNCHANGED vars
  BY <1>0, <1>7, ListChange DEF vars, listVars
<1> QED BY <1>1, <1>2, <1>3, <1>4, <1>5, <1>6, <1>7 DEF Next, UserInterface

(* ListInv is an invariant of the specification.                           *)
THEOREM ListInvCorrect == Spec => []ListInv
BY InitTypeInv, NextTypeInv, InitListInv, NextListInv, PTL DEF Spec

(* No Operation mixes two selections, for any number of them on the list.  *)
THEOREM NeverMixesSelections == Spec => []OneSelection
<1>1. ListInv => OneSelection
  BY DEF ListInv, IteratorInv, OneSelection
<1> QED BY <1>1, ListInvCorrect, PTL

(* A clear() that no edit preceded drops only what was worked through.     *)
THEOREM ClearIsComplete == Spec => []ClearsOnlyHandled
<1>1. ListInv => ClearsOnlyHandled
  BY DEF ListInv, IteratorInv, ClearsOnlyHandled
<1> QED BY <1>1, ListInvCorrect, PTL

(***************************************************************************)
(* Chain of custody.                                                       *)
(***************************************************************************)
LEMMA InitCustodyInv == Init => CustodyInv
BY DEF Init, CustodyInv, ReaderInv, Extracting, UiIdle, RowsFiledUnderSource, RowsLogged

(* What a thread knows of its option survives every step that touches none *)
(* of its variables, not the open case and not conn, and only adds to the  *)
(* log.                                                                    *)
LEMMA ReaderFrame ==
  ASSUME NEW p \in Operations, ReaderInv(p),
         pc'[p] = pc[p], moved'[p] = moved[p], crossed'[p] = crossed[p],
         nth'[p] = nth[p], path'[p] = path[p], source'[p] = source[p], taken'[p] = taken[p],
         gbId' = gbId, switching' = switching,
         conn' = conn \/ crossed[p] \/ pc[p] # "stmt",
         log \subseteq log', lostLog \subseteq lostLog'
  PROVE  ReaderInv(p)'
<1>1. Current(p)' = Current(p)
  BY DEF Current
<1>2. Announced(p) => Announced(p)'
  BY DEF Announced, LogRow
<1> QED BY <1>1, <1>2 DEF ReaderInv, Extracting, UiIdle

(* A step of the user-interface thread that leaves the case open.          *)
LEMMA CustodyFrame ==
  ASSUME CustodyInv, UNCHANGED caseVars, UNCHANGED readVars, UNCHANGED dbVars,
         UNCHANGED taken, UNCHANGED pc
  PROVE  CustodyInv'
<1>1. ASSUME NEW p \in Operations PROVE ReaderInv(p)'
  <2>1. ReaderInv(p)
    BY DEF CustodyInv
  <2> QED BY <2>1, ReaderFrame DEF caseVars, readVars, dbVars
<1> QED BY <1>1 DEF CustodyInv, caseVars, dbVars, UiIdle, RowsFiledUnderSource, RowsLogged

(* The open case changes: every Operation on an option is marked.          *)
LEMMA CaseChange ==
  ASSUME TypeInv, CustodyInv, UNCHANGED pc, UNCHANGED dbVars,
         moved' = [op \in Operations |-> Extracting(op)],
         UNCHANGED <<nth, path, source, conn, crossed, taken>>,
         IF UiIdle' THEN gbPath' = gbId' ELSE gbId' = switching'
  PROVE  CustodyInv'
<1>1. ASSUME NEW p \in Operations PROVE ReaderInv(p)'
  <2>1. ReaderInv(p) /\ moved'[p] = Extracting(p) /\ Extracting(p)' = Extracting(p)
    BY DEF CustodyInv, Extracting
  <2>2. Current(p)' = Current(p)
    BY DEF Current
  <2> QED BY <2>1, <2>2 DEF ReaderInv, Extracting
<1> QED BY <1>1 DEF CustodyInv, dbVars, RowsFiledUnderSource, RowsLogged

(* A branch that goes on with the path it has computed it before.          *)
LEMMA AgainIsNotFirst ==
  ASSUME TypeInv, NEW op \in Operations, Extracting(op), Doing(op, "again")
  PROVE  nth[op] > 0
<1>1. Current(op).name \in Options /\ nth[op] \in Nat
  BY CurrentType DEF Entry, TypeInv, TypeOK
<1>2. Reads[Current(op).name] \in Seq({"tool", "direct", "store", "tested", "again"})
  BY <1>1, ReadsAssumption DEF ReadsType
<1>3. nth[op] < Len(Reads[Current(op).name])
      /\ Reads[Current(op).name][nth[op] + 1] = "again"
  BY DEF Doing
<1>4. CASE nth[op] = 0
  BY <1>1, <1>2, <1>3, <1>4, ReadsAssumption DEF ReadsType
<1> QED BY <1>1, <1>4

LEMMA NextCustodyInv == TypeInv /\ CustodyInv /\ [Next]_vars => CustodyInv'
<1> SUFFICES ASSUME TypeInv, CustodyInv, [Next]_vars PROVE CustodyInv'
  OBVIOUS
<1>0. pc \in [Operations -> PC] /\ moved \in [Operations -> BOOLEAN]
      /\ crossed \in [Operations -> BOOLEAN] /\ taken \in [Operations -> Seq(Entry)]
      /\ nth \in [Operations -> Nat] /\ path \in [Operations -> Cases \union {NoCase}]
      /\ source \in [Operations -> StoreType]
  BY DEF TypeInv, TypeOK
<1>1. CASE Select \/ SelectFromTemplate
  BY <1>1, CustodyFrame DEF Select, TickBox, UntickBox, AcceptDialog,
     SelectFromTemplate, SelectOnly, iterVars
<1>2. ASSUME NEW op \in Operations, Extract(op) \/ RunProgress(op) PROVE CustodyInv'
  <2>1. UNCHANGED caseVars /\ UNCHANGED readVars /\ UNCHANGED dbVars /\ UNCHANGED taken
    BY <1>2 DEF Extract, RunProgress, iterVars
  <2>2. PICK to \in {"ready", "test"} : pc' = [pc EXCEPT ![op] = to]
    BY <1>2 DEF Extract, RunProgress
  <2>3. ASSUME NEW p \in Operations PROVE ReaderInv(p)'
    <3>1. ReaderInv(p)
      BY DEF CustodyInv
    <3>2. CASE p = op
      BY <1>0, <2>2, <3>2 DEF ReaderInv, Extracting
    <3>3. CASE p # op
      <4>1. pc'[p] = pc[p]
        BY <1>0, <2>2, <3>3
      <4> QED BY <2>1, <3>1, <4>1, ReaderFrame DEF caseVars, readVars, dbVars
    <3> QED BY <3>2, <3>3
  <2> QED BY <2>1, <2>3 DEF CustodyInv, caseVars, dbVars, UiIdle, RowsFiledUnderSource,
             RowsLogged
<1>3. ASSUME NEW c \in Cases, OpenCaseId(c) PROVE CustodyInv'
  BY <1>3, CaseChange, NullAssumption DEF OpenCaseId, UiIdle, iterVars
<1>4. CASE OpenCasePath
  BY <1>4, CaseChange DEF OpenCasePath, CustodyInv, UiIdle, iterVars
<1>5. CASE Logout
  BY <1>5, CaseChange DEF Logout, UiIdle, iterVars
<1>6. ASSUME NEW op \in Operations, Run(op) PROVE CustodyInv'
  <2>1. UNCHANGED caseVars
    BY <1>6 DEF Run, Start, HasNext, HasNoNext, TakeNext, FailFast, LogOption, NoDatabase,
       SkipOption, RunTool, ReadDirectFile, ReadRecords, SkipStore, OpenStore, MakeStatement,
       InsertRow, EndRows, Clear, Shared
  <2>2. log \subseteq log' /\ lostLog \subseteq lostLog'
    BY <1>6 DEF Run, Start, HasNext, HasNoNext, TakeNext, FailFast, LogOption, NoDatabase,
       SkipOption, RunTool, ReadDirectFile, ReadRecords, SkipStore, OpenStore, MakeStatement,
       InsertRow, EndRows, Clear, dbVars
  <2>3. ASSUME NEW p \in Operations, p # op PROVE ReaderInv(p)'
    <3>1. pc'[p] = pc[p]
      BY <1>0, <1>6, <2>3 DEF Run, Start, HasNext, HasNoNext, TakeNext, FailFast,
         LogOption, NoDatabase, SkipOption, RunTool, ReadDirectFile, ReadRecords, SkipStore,
         OpenStore, MakeStatement, InsertRow, EndRows, Clear, ReadEnds, Go
    <3>2. moved'[p] = moved[p] /\ taken'[p] = taken[p] /\ path'[p] = path[p]
          /\ source'[p] = source[p] /\ nth'[p] = nth[p]
      BY <1>0, <1>6, <2>3 DEF Run, Start, HasNext, HasNoNext, TakeNext, FailFast,
         LogOption, NoDatabase, SkipOption, RunTool, ReadDirectFile, ReadRecords, SkipStore,
         OpenStore, MakeStatement, InsertRow, EndRows, Clear, ReadEnds, iterVars,
         readVars
    <3>3. CASE ~OpenStore(op)
      <4>1. crossed'[p] = crossed[p] /\ conn' = conn
        BY <1>0, <1>6, <2>3, <3>3 DEF Run, Start, HasNext, HasNoNext, TakeNext, FailFast,
           LogOption, NoDatabase, SkipOption, RunTool, ReadDirectFile, ReadRecords, SkipStore,
           MakeStatement, InsertRow, EndRows, Clear, readVars
      <4> QED BY <2>1, <2>2, <3>1, <3>2, <4>1, ReaderFrame DEF CustodyInv, caseVars
    <3>4. CASE OpenStore(op)
      <4>1. (conn' = conn /\ crossed' = crossed)
            \/ crossed'[p] = (crossed[p] \/ pc[p] = "stmt")
        BY <2>3, <3>4 DEF OpenStore
      <4>2. CASE crossed'[p] = crossed[p]
        BY <2>1, <2>2, <3>1, <3>2, <4>1, <4>2, ReaderFrame DEF CustodyInv, caseVars
      <4>3. CASE crossed'[p] # crossed[p]
        <5>1. crossed'[p] = TRUE /\ pc[p] = "stmt"
          BY <1>0, <4>1, <4>3
        <5>2. ReaderInv(p) /\ Current(p)' = Current(p)
          BY <3>2 DEF CustodyInv, Current
        <5>3. Announced(p) => Announced(p)'
          BY <2>1, <2>2, <3>2 DEF Announced, LogRow, caseVars
        <5> QED BY <2>1, <3>1, <3>2, <5>1, <5>2, <5>3
                DEF ReaderInv, Extracting, UiIdle, caseVars
      <4> QED BY <4>2, <4>3
    <3> QED BY <3>3, <3>4
  <2>4. ReaderInv(op)'
    <3>0. ReaderInv(op) /\ IF UiIdle THEN gbPath = gbId ELSE gbId = switching
      BY DEF CustodyInv
    <3> USE <1>0, <2>1, <2>2, <3>0 DEF Go, caseVars, UiIdle
    <3>1. CASE Start(op) \/ HasNext(op) \/ HasNoNext(op) \/ FailFast(op) \/ NoDatabase(op)
               \/ SkipOption(op) \/ Clear(op)
      <4>1. pc'[op] \notin {"log", "work", "open", "stmt", "rows"}
        BY <3>1 DEF Start, HasNext, HasNoNext, FailFast, NoDatabase, SkipOption, Clear
      <4> QED BY <4>1 DEF ReaderInv, Extracting
    <3>9. ASSUME RunTool(op) \/ SkipStore(op) \/ EndRows(op)
                 \/ (ReadDirectFile(op) /\ ReadEnds(op, "work"))
          PROVE  ReaderInv(op)'
      <4>1. pc[op] \in {"work", "rows"} /\ pc'[op] \in {"work", "sync"}
            /\ taken' = taken /\ moved' = moved
        BY <3>9 DEF RunTool, SkipStore, EndRows, ReadDirectFile, ReadEnds, Serves, iterVars
      <4>2. Announced(op) => Announced(op)'
        BY <4>1 DEF Announced, LogRow
      <4>3. pc'[op] = "work" =>
              path'[op] = gbPath \/ (path'[op] = path[op] /\ pc[op] = "rows")
        <5>1. CASE RunTool(op) \/ SkipStore(op) \/ ReadDirectFile(op)
          BY <5>1 DEF RunTool, SkipStore, ReadDirectFile
        <5>2. CASE EndRows(op)
          BY <5>2 DEF EndRows, ReadEnds
        <5> QED BY <3>9, <5>1, <5>2
      <4> QED BY <4>1, <4>2, <4>3 DEF ReaderInv, Extracting
    <3>2. CASE TakeNext(op)
      <4>1. pc'[op] = "log" /\ ~(nth'[op] > 0)
        BY <3>2 DEF TakeNext
      <4>2. ~moved'[op] => UiIdle'
        BY <3>2 DEF TakeNext
      <4> QED BY <4>1, <4>2 DEF ReaderInv, Extracting
    <3>3. CASE LogOption(op)
      <4>1. Announced(op)'
        BY <3>3 DEF LogOption, Announced, LogRow, iterVars, Shared
      <4> QED BY <3>3, <4>1 DEF LogOption, ReaderInv, Extracting, readVars
    <3>4. CASE ReadDirectFile(op) /\ ~ReadEnds(op, "work")
      <4>1. taken' = taken /\ Current(op)' = Current(op) /\ (Announced(op) => Announced(op)')
        BY <3>4 DEF ReadDirectFile, iterVars, Current, Announced, LogRow
      <4>2. pc[op] = "work" /\ moved' = moved /\ path'[op] = gbPath
        BY <3>4 DEF ReadDirectFile, Serves
      <4>3. pc'[op] = "rows" /\ source'[op] = Store(gbPath, Current(op).name)
        BY <3>4 DEF ReadDirectFile
      <4> QED BY <4>1, <4>2, <4>3 DEF ReaderInv, Extracting
    <3>5. CASE ReadRecords(op)
      <4>1. Announced(op) => Announced(op)'
        BY <3>5 DEF ReadRecords, iterVars, Announced, LogRow
      <4>2. pc[op] = "work" /\ pc'[op] = "open" /\ moved' = moved
        BY <3>5 DEF ReadRecords
      <4>3. path'[op] = gbPath \/ (path'[op] = path[op] /\ nth[op] > 0)
        <5>1. CASE path' = [path EXCEPT ![op] = gbPath]
          BY <5>1
        <5>2. CASE Serves(op, "again") /\ UNCHANGED path
          BY <5>2, AgainIsNotFirst DEF Serves, Extracting
        <5> QED BY <3>5, <5>1, <5>2 DEF ReadRecords
      <4> QED BY <4>1, <4>2, <4>3 DEF ReaderInv, Extracting
    <3>6. CASE OpenStore(op)
      <4>1. Current(op)' = Current(op) /\ (Announced(op) => Announced(op)')
        BY <3>6 DEF OpenStore, iterVars, Current, Announced, LogRow
      <4>2. moved' = moved /\ path' = path /\ pc[op] = "open"
        BY <3>6 DEF OpenStore
      <4>3. pc'[op] = "dead"
            \/ (pc'[op] = "stmt" /\ conn' = Store(path[op], Current(op).name))
        <5>1. CASE Store(path[op], Current(op).name) \in Stores
          BY <3>6, <5>1 DEF OpenStore, Connect
        <5>2. CASE Store(path[op], Current(op).name) \notin Stores
          BY <3>6, <5>2 DEF OpenStore, Connect
        <5> QED BY <5>1, <5>2
      <4> QED BY <4>1, <4>2, <4>3 DEF ReaderInv, Extracting
    <3>7. CASE MakeStatement(op)
      <4>1. Current(op)' = Current(op) /\ (Announced(op) => Announced(op)')
        BY <3>7 DEF MakeStatement, iterVars, Current, Announced, LogRow
      <4>2. pc[op] = "stmt" /\ pc'[op] = "rows" /\ source'[op] = conn /\ moved' = moved
            /\ crossed' = crossed /\ path' = path
        BY <3>7 DEF MakeStatement
      <4> QED BY <4>1, <4>2 DEF ReaderInv, Extracting
    <3>8. CASE InsertRow(op)
      <4>1. pc' = pc /\ taken' = taken /\ nth' = nth /\ path' = path /\ source' = source /\ conn' = conn
            /\ moved' = moved /\ crossed' = crossed
        BY <3>8 DEF InsertRow, iterVars
      <4> QED BY <4>1, ReaderFrame
    <3> QED BY <1>6, <3>1, <3>2, <3>3, <3>4, <3>5, <3>6, <3>7, <3>8, <3>9 DEF Run
  <2>5. RowsFiledUnderSource' /\ RowsLogged'
    <3>0. RowsFiledUnderSource /\ RowsLogged /\ ReaderInv(op)
      BY DEF CustodyInv
    <3>1. CASE InsertRow(op)
      <4> DEFINE row == [op |-> op, n |-> Len(taken[op]), option |-> Current(op).name,
                         from |-> source[op], to |-> gbId,
                         clean |-> ~moved[op] /\ ~crossed[op]]
      <4>1. records' = records \union {row} /\ pc[op] = "rows"
        BY <3>1 DEF InsertRow
      <4>2. ASSUME row.clean PROVE row.from = Store(row.to, row.option)
        BY <3>0, <4>1, <4>2 DEF ReaderInv
      <4>3. ASSUME row.clean
            PROVE  [op |-> row.op, n |-> row.n, case |-> row.to] \in log
                   \/ <<row.op, row.n>> \in lostLog
        BY <3>0, <4>1, <4>3 DEF ReaderInv, Announced, LogRow
      <4>4. RowsFiledUnderSource'
        BY <3>0, <4>1, <4>2 DEF RowsFiledUnderSource
      <4>5. RowsLogged'
        BY <2>2, <3>0, <4>1, <4>3 DEF RowsLogged
      <4> QED BY <4>4, <4>5
    <3>2. CASE ~InsertRow(op)
      <4>1. records' = records
        BY <1>6, <3>2 DEF Run, Start, HasNext, HasNoNext, TakeNext, FailFast, LogOption,
           NoDatabase, SkipOption, RunTool, ReadDirectFile, ReadRecords, SkipStore, OpenStore,
           MakeStatement, EndRows, Clear, dbVars
      <4> QED BY <2>2, <3>0, <4>1 DEF RowsFiledUnderSource, RowsLogged
    <3> QED BY <3>1, <3>2
  <2>6. (IF UiIdle THEN gbPath = gbId ELSE gbId = switching)'
    BY <2>1 DEF CustodyInv, caseVars, UiIdle
  <2>7. \A p \in Operations : ReaderInv(p)'
    BY <2>3, <2>4
  <2> QED BY <2>5, <2>6, <2>7 DEF CustodyInv
<1>7. CASE UNCHANGED vars
  BY <1>7, CustodyFrame DEF vars, iterVars
<1> QED BY <1>1, <1>2, <1>3, <1>4, <1>5, <1>6, <1>7 DEF Next, UserInterface

(* CustodyInv is an invariant of the specification.                        *)
THEOREM CustodyInvCorrect == Spec => []CustodyInv
BY InitTypeInv, NextTypeInv, InitCustodyInv, NextCustodyInv, PTL DEF Spec

(* Rows are filed under the case they were read from, unless the open case *)
(* changed or two Operations crossed on the static connection.             *)
THEOREM RowsAreFiledUnderSource == Spec => []RowsFiledUnderSource
<1>1. CustodyInv => RowsFiledUnderSource
  BY DEF CustodyInv
<1> QED BY <1>1, CustodyInvCorrect, PTL

(* Rows are announced in the log of the case they are filed under.         *)
THEOREM RowsAreLogged == Spec => []RowsLogged
<1>1. CustodyInv => RowsLogged
  BY DEF CustodyInv
<1> QED BY <1>1, CustodyInvCorrect, PTL

(***************************************************************************)
(* The progress bar.                                                       *)
(***************************************************************************)
LEMMA MinOfTwo ==
  ASSUME NEW a \in Nat, NEW b \in Nat
  PROVE  Min({a, b}) = IF a <= b THEN a ELSE b
<1> DEFINE m == IF a <= b THEN a ELSE b
<1>1. m \in {a, b} /\ \A y \in {a, b} : m <= y
  OBVIOUS
<1>2. ASSUME NEW x \in {a, b}, \A y \in {a, b} : x <= y PROVE x = m
  BY <1>2
<1> QED BY <1>1, <1>2 DEF Min

LEMMA FinishedFinite ==
  ASSUME TypeInv, NEW op \in Operations
  PROVE  IsFiniteSet(Finished(op)) /\ Cardinality(Finished(op)) \in Nat
<1>1. Len(taken[op]) \in Nat /\ DOMAIN taken[op] = 1..Len(taken[op])
  BY DEF TypeInv, TypeOK
<1>2. IsFiniteSet(1..Len(taken[op]))
  BY <1>1, FS_Interval
<1>3. Finished(op) \in SUBSET (1..Len(taken[op]))
  BY <1>1 DEF Finished
<1> QED BY <1>2, <1>3, FS_Subset, FS_CardinalityType

(* Where an Operation stands once it has finished its current option.      *)
Between == {"test", "next", "clear", "done"}

(* A step of an Operation's that neither takes nor finishes an option.     *)
LEMMA FinishedSame ==
  ASSUME TypeInv, NEW op \in Operations, taken'[op] = taken[op],
         \/ (pc[op] \in Between) = (pc'[op] \in Between)
         \/ taken[op] = <<>>
         \/ taken[op] # <<>> /\ ~Recognised(Current(op))
  PROVE  Finished(op)' = Finished(op)
<1>1. Len(taken[op]) \in Nat /\ DOMAIN taken[op] = 1..Len(taken[op])
  BY DEF TypeInv, TypeOK
<1>2. DOMAIN taken'[op] = DOMAIN taken[op] /\ Len(taken'[op]) = Len(taken[op])
  OBVIOUS
<1>3. CASE (pc[op] \in Between) = (pc'[op] \in Between)
  BY <1>1, <1>3 DEF Finished, Between, Recognised
<1>4. CASE taken[op] = <<>>
  <2>1. DOMAIN taken[op] = {}
    BY <1>4
  <2> QED BY <1>2, <2>1 DEF Finished
<1>5. CASE taken[op] # <<>> /\ ~Recognised(Current(op))
  <2>1. ASSUME NEW i \in DOMAIN taken[op], Recognised(taken[op][i]) PROVE i < Len(taken[op])
    BY <1>1, <1>5, <2>1 DEF Current
  <2> QED BY <1>1, <1>2, <2>1 DEF Finished, Recognised
<1> QED BY <1>3, <1>4, <1>5

(* What the bar shows of one Operation.                                    *)
BarOf(op) ==
  /\ pc[op] \notin {"idle", "dead"} /\ ~disposed
  /\ \A p \in Operations \ {op} : pc[p] = "idle"
  => bar.selection = Min({bar.maximum, 1 + Cardinality(Finished(op))})

LEMMA InitBarInv == Init => BarInv
BY DEF Init, BarInv, RecognisedInv, BarCountsFinished

LEMMA NextRecognised == TypeInv /\ RecognisedInv /\ [Next]_vars => RecognisedInv'
<1> SUFFICES ASSUME TypeInv, RecognisedInv, [Next]_vars, NEW p \in Operations,
                    pc'[p] \in {"open", "stmt", "rows", "sync"}
             PROVE  Recognised(Current(p))'
  BY DEF RecognisedInv
<1>0. pc \in [Operations -> PC] /\ taken \in [Operations -> Seq(Entry)]
  BY DEF TypeInv, TypeOK
<1>a. ASSUME taken'[p] = taken[p], Recognised(Current(p)) PROVE Recognised(Current(p))'
  BY <1>a DEF Current, Recognised
<1>b. ASSUME taken'[p] = taken[p], pc'[p] = pc[p] PROVE Recognised(Current(p))'
  BY <1>a, <1>b DEF RecognisedInv
<1>1. CASE UserInterface
  <2>1. taken' = taken
    BY <1>1 DEF UserInterface, Select, TickBox, UntickBox, AcceptDialog, SelectOnly,
       SelectFromTemplate, Extract, RunProgress, OpenCaseId, OpenCasePath, Logout, iterVars
  <2>2. pc'[p] = pc[p]
    BY <1>0, <1>1 DEF UserInterface, Select, TickBox, UntickBox, AcceptDialog, SelectOnly,
       SelectFromTemplate, Extract, RunProgress, OpenCaseId, OpenCasePath, Logout
  <2> QED BY <1>b, <2>1, <2>2
<1>2. ASSUME NEW op \in Operations, Run(op) PROVE Recognised(Current(p))'
  <2> USE DEF Go
  <2>1. CASE Start(op) \/ HasNext(op) \/ HasNoNext(op) \/ FailFast(op) \/ NoDatabase(op)
             \/ LogOption(op) \/ SkipOption(op) \/ Clear(op)
    <3>1. taken' = taken
      BY <2>1 DEF Start, HasNext, HasNoNext, FailFast, LogOption, NoDatabase, SkipOption, Clear, iterVars
    <3>2. pc'[p] = pc[p]
      BY <1>0, <2>1 DEF Start, HasNext, HasNoNext, FailFast, LogOption, NoDatabase, SkipOption, Clear
    <3> QED BY <1>b, <3>1, <3>2
  <2>2. CASE TakeNext(op)
    <3>1. p # op /\ pc'[p] = pc[p]
      BY <1>0, <2>2 DEF TakeNext
    <3>2. taken'[p] = taken[p]
      BY <1>0, <2>2, <3>1 DEF TakeNext
    <3> QED BY <1>b, <3>1, <3>2
  <2>3. CASE RunTool(op) \/ SkipStore(op) \/ ReadDirectFile(op) \/ ReadRecords(op)
    <3>1. taken' = taken /\ Recognised(Current(op))
      BY <2>3 DEF RunTool, SkipStore, ReadDirectFile, ReadRecords, Serves, iterVars
    <3>2. p # op => pc'[p] = pc[p]
      BY <1>0, <2>3 DEF RunTool, SkipStore, ReadDirectFile, ReadRecords, ReadEnds
    <3> QED BY <1>a, <1>b, <3>1, <3>2
  <2>4. CASE OpenStore(op) \/ MakeStatement(op) \/ InsertRow(op) \/ EndRows(op)
    <3>1. taken' = taken /\ pc[op] \in {"open", "stmt", "rows"}
      BY <2>4 DEF OpenStore, MakeStatement, InsertRow, EndRows, ReadEnds, iterVars
    <3>2. Recognised(Current(op))
      BY <3>1 DEF RecognisedInv
    <3>3. p # op => pc'[p] = pc[p]
      BY <1>0, <2>4 DEF OpenStore, MakeStatement, InsertRow, EndRows, ReadEnds
    <3> QED BY <1>a, <1>b, <3>1, <3>2, <3>3
  <2> QED BY <1>2, <2>1, <2>2, <2>3, <2>4 DEF Run
<1>3. CASE UNCHANGED vars
  BY <1>b, <1>3 DEF vars, iterVars
<1> QED BY <1>1, <1>2, <1>3 DEF Next

LEMMA NextBar ==
  ASSUME TypeInv, ListInv, RecognisedInv, [Next]_vars, NEW op \in Operations, BarOf(op)
  PROVE  BarOf(op)'
<1>0. /\ pc \in [Operations -> PC] /\ taken \in [Operations -> Seq(Entry)]
      /\ Len(checked) \in Nat /\ bar.selection \in Nat /\ bar.maximum \in Nat
      /\ pc[op] \in {"idle", "ready"} => taken[op] = <<>>
  BY DEF TypeInv, TypeOK, ListInv, IteratorInv
<1>1. ASSUME UNCHANGED <<bar, pc, taken>>, disposed => disposed' PROVE BarOf(op)'
  <2>1. Finished(op)' = Finished(op)
    BY <1>1, FinishedSame
  <2>2. bar' = bar /\ pc' = pc
    BY <1>1
  <2> QED BY <1>1, <2>1, <2>2 DEF BarOf
<1>2. CASE Select \/ SelectFromTemplate \/ OpenCasePath \/ Logout
           \/ \E c \in Cases : OpenCaseId(c)
  BY <1>1, <1>2 DEF Select, TickBox, UntickBox, AcceptDialog, SelectOnly,
     SelectFromTemplate, OpenCaseId, OpenCasePath, Logout, iterVars
<1>3. ASSUME NEW p \in Operations, Extract(p) PROVE BarOf(op)'
  <2>1. CASE p # op
    <3>1. pc'[p] # "idle"
      BY <1>0, <1>3 DEF Extract
    <3> QED BY <2>1, <3>1 DEF BarOf
  <2>2. CASE p = op
    <3>1. taken[op] = <<>> /\ taken'[op] = <<>>
      BY <1>0, <1>3, <2>2 DEF Extract, iterVars
    <3>2. Finished(op)' = {}
      BY <3>1 DEF Finished
    <3>3. bar'.selection = 1 /\ bar'.maximum = Len(checked) + 1
      BY <1>3 DEF Extract
    <3>4. 1 + Cardinality(Finished(op))' = 1
      BY <3>2, FS_EmptySet
    <3>5. Min({bar'.maximum, 1}) = 1
      BY <1>0, <3>3, MinOfTwo
    <3> QED BY <3>3, <3>4, <3>5 DEF BarOf
  <2> QED BY <2>1, <2>2
<1>4. ASSUME NEW p \in Operations, RunProgress(p) PROVE BarOf(op)'
  <2>0. pc[p] = "sync" /\ pc' = [pc EXCEPT ![p] = "test"] /\ taken' = taken
        /\ disposed' = disposed
    BY <1>4 DEF RunProgress, iterVars
  <2>1. CASE p # op
    <3>1. pc'[p] # "idle"
      BY <1>0, <2>0
    <3> QED BY <2>1, <3>1 DEF BarOf
  <2>2. CASE p = op
    <3> DEFINE n == Len(taken[op])
    <3>1. n \in Nat \ {0} /\ DOMAIN taken[op] = 1..n /\ Recognised(taken[op][n])
      BY <1>0, <2>0, <2>2 DEF RecognisedInv, TypeInv, HasCurrent, Current
    <3>2. pc'[op] = "test"
      BY <1>0, <2>0, <2>2
    <3>3. Finished(op)' = Finished(op) \union {n} /\ n \notin Finished(op)
      BY <2>0, <2>2, <3>1, <3>2 DEF Finished, Recognised
    <3>4. Cardinality(Finished(op))' = Cardinality(Finished(op)) + 1
          /\ Cardinality(Finished(op)) \in Nat
      BY <3>3, FinishedFinite, FS_AddElement
    <3>5. SUFFICES ASSUME ~disposed, \A q \in Operations \ {op} : pc'[q] = "idle"
                   PROVE  bar'.selection = Min({bar'.maximum, 1 + Cardinality(Finished(op))'})
      BY <2>0 DEF BarOf
    <3>6. \A q \in Operations \ {op} : pc[q] = "idle"
      BY <1>0, <2>0, <2>2, <3>5
    <3>7. bar.selection = Min({bar.maximum, 1 + Cardinality(Finished(op))})
      BY <2>0, <2>2, <3>5, <3>6 DEF BarOf
    <3>8. bar.selection = IF bar.maximum <= 1 + Cardinality(Finished(op))
                          THEN bar.maximum ELSE 1 + Cardinality(Finished(op))
      BY <1>0, <3>4, <3>7, MinOfTwo
    <3>9. bar' = Stepped
      BY <1>4, <3>5 DEF RunProgress
    <3>10. bar'.maximum = bar.maximum
           /\ bar'.selection = IF bar.selection < bar.maximum THEN bar.selection + 1
                               ELSE bar.maximum
      BY <3>9 DEF Stepped, TypeInv, TypeOK
    <3> DEFINE m == bar'.maximum
               c == 1 + Cardinality(Finished(op))'
    <3>12. m \in Nat /\ c \in Nat /\ c = 2 + Cardinality(Finished(op))
      BY <1>0, <3>4, <3>10
    <3>13. Min({m, c}) = IF m <= c THEN m ELSE c
      <4> HIDE DEF m, c
      <4> QED BY <3>12, MinOfTwo
    <3>11. Min({bar'.maximum, 1 + Cardinality(Finished(op))'})
             = IF bar.maximum <= 2 + Cardinality(Finished(op))
               THEN bar.maximum ELSE 2 + Cardinality(Finished(op))
      BY <3>10, <3>12, <3>13
    <3> QED BY <1>0, <3>4, <3>8, <3>10, <3>11
  <2> QED BY <2>1, <2>2
<1>5. ASSUME NEW p \in Operations, Run(p) PROVE BarOf(op)'
  <2>1. pc[p] # "idle" /\ pc'[p] # "idle" /\ (\A q \in Operations \ {p} : pc'[q] = pc[q])
        /\ UNCHANGED <<bar, disposed>>
    BY <1>0, <1>5 DEF Run, Start, HasNext, HasNoNext, TakeNext, FailFast, LogOption,
       NoDatabase, SkipOption, RunTool, ReadDirectFile, ReadRecords, SkipStore, ReadEnds, Serves,
       OpenStore, MakeStatement, InsertRow, EndRows, Clear, Go, Shared
  <2>2. CASE p # op
    BY <2>1, <2>2 DEF BarOf
  <2>3. CASE p = op /\ pc'[op] = "dead"
    BY <2>3 DEF BarOf
  <2>4. ASSUME p = op, Finished(op)' = Finished(op) PROVE BarOf(op)'
    <3>1. pc[op] # "dead"
      BY <1>5, <2>4 DEF Run, Start, HasNext, HasNoNext, TakeNext, FailFast, LogOption,
       NoDatabase, SkipOption, RunTool, ReadDirectFile, ReadRecords, SkipStore, ReadEnds, Serves,
       OpenStore, MakeStatement, InsertRow, EndRows, Clear, Go
    <3> QED BY <2>1, <2>4, <3>1 DEF BarOf
  <2>5. CASE p = op /\ TakeNext(op)
    <3> DEFINE n == Len(taken[op])
    <3>1. n \in Nat /\ pc[op] = "next" /\ pc'[op] = "log"
          /\ taken'[op] = Append(taken[op], checked[n + 1])
      BY <1>0, <2>5 DEF TakeNext, Go
    <3>2. checked[n + 1] \in Entry
      BY <1>0, <2>5, <3>1 DEF TakeNext, TypeInv, TypeOK
    <3>3. DOMAIN taken[op] = 1..n /\ DOMAIN taken'[op] = 1..(n + 1) /\ Len(taken'[op]) = n + 1
          /\ \A i \in 1..n : taken'[op][i] = taken[op][i]
      BY <1>0, <3>1, <3>2
    <3>4. Finished(op)' = Finished(op)
      BY <3>1, <3>3 DEF Finished, Recognised
    <3> QED BY <2>4, <2>5, <3>4
  <2>6. CASE p = op /\ ~TakeNext(op) /\ pc'[op] # "dead"
    <3>1. taken' = taken
      BY <1>5, <2>6 DEF Run, Start, HasNext, HasNoNext, FailFast, LogOption,
       NoDatabase, SkipOption, RunTool, ReadDirectFile, ReadRecords, SkipStore, Serves,
       OpenStore, MakeStatement, InsertRow, EndRows, Clear, iterVars
    <3>2. CASE SkipOption(op)
      <4>1. taken[op] # <<>> /\ ~Recognised(Current(op))
        BY <3>2 DEF SkipOption, Go, TypeInv, HasCurrent, Extracting
      <4> QED BY <2>4, <2>6, <3>1, <4>1, FinishedSame
    <3>3. CASE Start(op)
      <4>1. taken[op] = <<>>
        BY <1>0, <3>3 DEF Start, Go
      <4> QED BY <2>4, <2>6, <3>1, <4>1, FinishedSame
    <3>4. CASE ~SkipOption(op) /\ ~Start(op)
      <4>1. (pc[op] \in Between) = (pc'[op] \in Between)
        <5>1. CASE HasNext(op) \/ HasNoNext(op) \/ FailFast(op) \/ Clear(op)
          BY <1>0, <2>6, <5>1 DEF HasNext, HasNoNext, FailFast, Clear, Go, Between
        <5>2. CASE LogOption(op) \/ ReadRecords(op) \/ MakeStatement(op) \/ InsertRow(op)
          BY <1>0, <5>2 DEF LogOption, ReadRecords, MakeStatement, InsertRow, Go, Between
        <5>4. CASE NoDatabase(op)
          <6>1. pc'[op] = "dead"
            BY <1>0, <5>4 DEF NoDatabase, Go
          <6> QED BY <2>6, <6>1
        <5>5. CASE OpenStore(op)
          <6>1. pc[op] = "open" /\ pc'[op] \in {"stmt", "dead"}
            <7>1. Go(op, "open", "stmt") \/ Go(op, "open", "dead")
              BY <5>5 DEF OpenStore
            <7> QED BY <1>0, <7>1 DEF Go
          <6> QED BY <6>1 DEF Between
        <5>3. CASE RunTool(op) \/ SkipStore(op) \/ ReadDirectFile(op) \/ EndRows(op)
          BY <1>0, <5>3 DEF RunTool, SkipStore, ReadDirectFile, EndRows, ReadEnds, Serves, Go,
                            Between
        <5> QED BY <1>5, <2>6, <3>4, <5>1, <5>2, <5>3, <5>4, <5>5 DEF Run
      <4> QED BY <2>4, <2>6, <3>1, <4>1, FinishedSame
    <3> QED BY <3>2, <3>3, <3>4
  <2> QED BY <2>2, <2>3, <2>5, <2>6
<1>6. CASE UNCHANGED vars
  BY <1>1, <1>6 DEF vars, iterVars
<1> QED BY <1>2, <1>3, <1>4, <1>5, <1>6 DEF Next, UserInterface

LEMMA NextBarInv == TypeInv /\ ListInv /\ BarInv /\ [Next]_vars => BarInv'
<1>1. BarCountsFinished <=> \A op \in Operations : BarOf(op)
  BY DEF BarCountsFinished, BarOf
<1>2. BarCountsFinished' <=> \A op \in Operations : BarOf(op)'
  BY DEF BarCountsFinished, BarOf
<1> QED BY <1>1, <1>2, NextRecognised, NextBar DEF BarInv

(* As long as one Operation works alone, the bar shows one step per option *)
(* finished (RunProgress), for any selection and however it is edited.     *)
THEOREM BarCounts == Spec => []BarCountsFinished
<1>1. BarInv => BarCountsFinished
  BY DEF BarInv
<1> QED BY <1>1, InitTypeInv, NextTypeInv, InitListInv, NextListInv, InitBarInv, NextBarInv,
           PTL DEF Spec

-----------------------------------------------------------------------------
(***************************************************************************)
(* An Operation never goes back.                                           *)
(***************************************************************************)
LEMMA TakenReads ==
  ASSUME TypeInv, NEW op \in Operations, taken[op] # <<>>
  PROVE  Len(Reads[Current(op).name]) \in Nat
<1>1. Current(op) \in Entry
  BY DEF TypeInv, TypeOK, Current
<1>2. Reads[Current(op).name] \in Seq({"tool", "direct", "store", "tested", "again"})
  BY <1>1, ReadsAssumption DEF ReadsType, Entry
<1> QED BY <1>2

(* All of an Operation that tells what it has still to do.                 *)
Own(op) == <<pc[op], taken[op], snapshot[op], nth[op], left[op]>>

LEMMA SameOwn ==
  ASSUME NEW op, Own(op)' = Own(op)
  PROVE  Ahead(op)' = Ahead(op)
BY DEF Own, Ahead, Phase, Untaken, Unread, Place, Current

(* The first component in which two tuples differ decides.                 *)
LEMMA FirstLower ==
  ASSUME NEW a1, NEW a2, NEW a3, NEW a4, NEW a5,
         NEW b1, NEW b2, NEW b3, NEW b4, NEW b5,
         \/ a1 \in 0..(b1 - 1)
         \/ a1 = b1 /\ a2 \in 0..(b2 - 1)
         \/ a1 = b1 /\ a2 = b2 /\ a3 \in 0..(b3 - 1)
         \/ a1 = b1 /\ a2 = b2 /\ a3 = b3 /\ a4 \in 0..(b4 - 1)
         \/ a1 = b1 /\ a2 = b2 /\ a3 = b3 /\ a4 = b4 /\ a5 \in 0..(b5 - 1)
  PROVE  Below(<<a1, a2, a3, a4, a5>>, <<b1, b2, b3, b4, b5>>)
<1> DEFINE a == <<a1, a2, a3, a4, a5>>
           b == <<b1, b2, b3, b4, b5>>
<1>1. PICK i \in 1..5 : a[i] \in 0..(b[i] - 1) /\ \A k \in 1..(i - 1) : a[k] = b[k]
  <2>1. CASE a1 \in 0..(b1 - 1)
    <3> WITNESS 1 \in 1..5
    <3> QED BY <2>1
  <2>2. CASE a1 = b1 /\ a2 \in 0..(b2 - 1)
    <3> WITNESS 2 \in 1..5
    <3> QED BY <2>2
  <2>3. CASE a1 = b1 /\ a2 = b2 /\ a3 \in 0..(b3 - 1)
    <3> WITNESS 3 \in 1..5
    <3> QED BY <2>3
  <2>4. CASE a1 = b1 /\ a2 = b2 /\ a3 = b3 /\ a4 \in 0..(b4 - 1)
    <3> WITNESS 4 \in 1..5
    <3> QED BY <2>4
  <2>5. CASE a1 = b1 /\ a2 = b2 /\ a3 = b3 /\ a4 = b4 /\ a5 \in 0..(b5 - 1)
    <3> WITNESS 5 \in 1..5
    <3> QED BY <2>5
  <2> QED BY <2>1, <2>2, <2>3, <2>4, <2>5
<1>2. DOMAIN b = 1..5
  OBVIOUS
<1> QED BY <1>1, <1>2 DEF Below

(* A thread in its loop that goes to a later place of the same read.       *)
LEMMA LaterPlace ==
  ASSUME NEW op, UNCHANGED <<taken[op], snapshot[op], nth[op]>>,
         pc[op] \notin {"idle", "ready"}, pc'[op] \notin {"idle", "ready"},
         Place(op)' \in 0..(Place(op) - 1)
  PROVE  Below(Ahead(op)', Ahead(op))
<1>1. Phase(op)' = Phase(op)
  BY DEF Phase
<1>2. Untaken(op)' = Untaken(op) /\ Unread(op)' = Unread(op)
  BY DEF Untaken, Unread, Current
<1> QED BY <1>1, <1>2, FirstLower DEF Ahead

(* A thread that is through with one of the reads of its option.           *)
LEMMA ReadIsOver ==
  ASSUME TypeInv, NEW op \in Operations, NEW from \in {"work", "rows"},
         ReadEnds(op, from), nth[op] < Len(Reads[Current(op).name]),
         UNCHANGED <<taken, snapshot>>
  PROVE  Below(Ahead(op)', Ahead(op))
<1>1. pc[op] = from /\ pc'[op] \in {"work", "sync"} /\ nth'[op] = nth[op] + 1 /\ nth[op] \in Nat
  BY DEF TypeInv, TypeOK, ReadEnds, Go
<1>2. taken[op] # <<>>
  BY <1>1 DEF TypeInv, HasCurrent, Extracting
<1>3. Phase(op)' = Phase(op) /\ Untaken(op)' = Untaken(op)
  BY <1>1 DEF Phase, Untaken
<1>4. Len(Reads[Current(op).name]) \in Nat
  BY <1>2, TakenReads
<1>5. Unread(op)' = Len(Reads[Current(op).name]) - (nth[op] + 1)
  BY <1>1, <1>2 DEF Unread, Current
<1>6. Unread(op) = Len(Reads[Current(op).name]) - nth[op]
  BY <1>2 DEF Unread
<1>7. Unread(op)' \in 0..(Unread(op) - 1)
  BY <1>1, <1>4, <1>5, <1>6
<1> QED BY <1>3, <1>7, FirstLower DEF Ahead

LEMMA StepsReduce ==
  ASSUME TypeInv, ListInv, UnreadInv, NEW op \in Operations, Steps(op)
  PROVE  Below(Ahead(op)', Ahead(op))
<1>0. pc \in [Operations -> PC] /\ left[op] \in Nat /\ nth[op] \in Nat
  BY DEF TypeInv, TypeOK
<1>1. ASSUME Extract(op) PROVE Below(Ahead(op)', Ahead(op))
  <2>1. pc[op] = "idle" /\ pc'[op] = "ready"
    BY <1>0, <1>1 DEF Extract
  <2>2. Phase(op) = 2 /\ Phase(op)' = 1
    BY <2>1 DEF Phase
  <2> QED BY <2>2, FirstLower DEF Ahead
<1>2. ASSUME Start(op) PROVE Below(Ahead(op)', Ahead(op))
  <2>1. pc[op] = "ready" /\ pc'[op] = "test"
    BY <1>0, <1>2 DEF Start, Go
  <2>2. Phase(op) = 1 /\ Phase(op)' = 0
    BY <2>1 DEF Phase
  <2> QED BY <2>2, FirstLower DEF Ahead
<1>3. ASSUME RunProgress(op) PROVE Below(Ahead(op)', Ahead(op))
  <2>1. pc[op] = "sync" /\ pc'[op] = "test"
    BY <1>0, <1>3 DEF RunProgress
  <2>2. UNCHANGED <<taken[op], snapshot[op], nth[op]>>
    BY <1>3 DEF RunProgress, iterVars, readVars
  <2> QED BY <2>1, <2>2, LaterPlace DEF Place
<1>4. ASSUME HasNext(op) \/ HasNoNext(op) \/ FailFast(op) PROVE Below(Ahead(op)', Ahead(op))
  <2>1. pc[op] \in {"test", "next"} /\ pc'[op] \in {"next", "clear", "dead"}
        /\ (pc[op] = "next" => pc'[op] = "dead")
    BY <1>0, <1>4 DEF HasNext, HasNoNext, FailFast, Go
  <2>2. UNCHANGED <<taken[op], snapshot[op], nth[op]>>
    BY <1>4 DEF HasNext, HasNoNext, FailFast, iterVars, readVars
  <2>3. Place(op)' \in 0..(Place(op) - 1)
    BY <2>1 DEF Place
  <2> QED BY <2>1, <2>2, <2>3, LaterPlace
<1>5. ASSUME TakeNext(op) PROVE Below(Ahead(op)', Ahead(op))
  <2>1. pc[op] = "next" /\ pc'[op] = "log" /\ snapshot' = snapshot
    BY <1>0, <1>5 DEF TakeNext, Go
  <2>2. checked = snapshot[op]
    BY <1>5, <2>1 DEF TakeNext, ListInv, IteratorInv
  <2>3. Len(taken[op]) \in Nat /\ Len(checked) \in Nat /\ Len(taken[op]) < Len(checked)
    BY <1>5 DEF TypeInv, TypeOK, TakeNext
  <2>4. Len(taken'[op]) = Len(taken[op]) + 1
    BY <1>5 DEF TypeInv, TypeOK, TakeNext
  <2>5. Untaken(op)' \in 0..(Untaken(op) - 1)
    BY <2>1, <2>2, <2>3, <2>4 DEF Untaken
  <2>6. Phase(op)' = Phase(op)
    BY <2>1 DEF Phase
  <2> QED BY <2>5, <2>6, FirstLower DEF Ahead
<1>6. ASSUME LogOption(op) \/ NoDatabase(op) \/ SkipOption(op) \/ Clear(op)
      PROVE  Below(Ahead(op)', Ahead(op))
  <2>1. \/ pc[op] = "log" /\ pc'[op] = "work"
        \/ pc[op] \in {"log", "open", "rows"} /\ pc'[op] = "dead"
        \/ pc[op] = "work" /\ pc'[op] = "test"
        \/ pc[op] = "clear" /\ pc'[op] = "done"
    BY <1>0, <1>6 DEF LogOption, NoDatabase, SkipOption, Clear, Go
  <2>2. UNCHANGED <<taken[op], snapshot[op], nth[op]>>
    BY <1>6 DEF LogOption, NoDatabase, SkipOption, Clear, iterVars, readVars
  <2>3. Place(op)' \in 0..(Place(op) - 1)
    BY <2>1 DEF Place
  <2> QED BY <2>1, <2>2, <2>3, LaterPlace
<1>7. ASSUME RunTool(op) \/ SkipStore(op) PROVE Below(Ahead(op)', Ahead(op))
  <2>1. UNCHANGED <<taken, snapshot>>
    BY <1>7 DEF RunTool, SkipStore, iterVars
  <2>2. ReadEnds(op, "work") /\ nth[op] < Len(Reads[Current(op).name])
    BY <1>7 DEF RunTool, SkipStore, Serves, Doing
  <2> QED BY <2>1, <2>2, ReadIsOver
<1>8. ASSUME ReadDirectFile(op) PROVE Below(Ahead(op)', Ahead(op))
  <2>1. UNCHANGED <<taken, snapshot>>
    BY <1>8 DEF ReadDirectFile, iterVars
  <2>2. nth[op] < Len(Reads[Current(op).name])
    BY <1>8 DEF ReadDirectFile, Serves, Doing
  <2>3. CASE ReadEnds(op, "work")
    BY <2>1, <2>2, <2>3, ReadIsOver
  <2>4. CASE Go(op, "work", "rows") /\ UNCHANGED nth
    <3>1. pc[op] = "work" /\ pc'[op] = "rows"
      BY <1>0, <2>4 DEF Go
    <3>2. Place(op)' \in 0..(Place(op) - 1)
      BY <3>1 DEF Place
    <3> QED BY <2>1, <2>4, <3>1, <3>2, LaterPlace
  <2> QED BY <1>8, <2>3, <2>4 DEF ReadDirectFile
<1>9. ASSUME ReadRecords(op) \/ OpenStore(op) \/ MakeStatement(op)
      PROVE  Below(Ahead(op)', Ahead(op))
  <2>1. \/ pc[op] = "work" /\ pc'[op] = "open"
        \/ pc[op] = "open" /\ pc'[op] \in {"stmt", "dead"}
        \/ pc[op] = "stmt" /\ pc'[op] = "rows"
    BY <1>0, <1>9 DEF ReadRecords, OpenStore, MakeStatement, Go
  <2>2. UNCHANGED <<taken[op], snapshot[op], nth[op]>>
    BY <1>9 DEF ReadRecords, OpenStore, MakeStatement, iterVars
  <2>3. Place(op)' \in 0..(Place(op) - 1)
    BY <2>1 DEF Place
  <2> QED BY <2>1, <2>2, <2>3, LaterPlace
<1>10. ASSUME InsertRow(op) PROVE Below(Ahead(op)', Ahead(op))
  <2>1. UNCHANGED <<pc, taken, snapshot, nth>>
    BY <1>10 DEF InsertRow, iterVars
  <2>2. left'[op] \in 0..(left[op] - 1)
    BY <1>0, <1>10 DEF InsertRow, HasRow, TypeInv, TypeOK
  <2>3. Phase(op)' = Phase(op) /\ Untaken(op)' = Untaken(op) /\ Unread(op)' = Unread(op)
        /\ Place(op)' = Place(op)
    BY <2>1 DEF Phase, Untaken, Unread, Place, Current
  <2> QED BY <2>2, <2>3, FirstLower DEF Ahead
<1>11. ASSUME EndRows(op) PROVE Below(Ahead(op)', Ahead(op))
  <2>1. UNCHANGED <<taken, snapshot>> /\ ReadEnds(op, "rows") /\ pc[op] = "rows"
    BY <1>11 DEF EndRows, ReadEnds, Go, iterVars
  <2>2. taken[op] # <<>>
    BY <2>1 DEF TypeInv, HasCurrent, Extracting
  <2>3. nth[op] < Len(Reads[Current(op).name])
    BY <2>1, <2>2 DEF UnreadInv
  <2> QED BY <2>1, <2>3, ReadIsOver
<1> QED BY <1>1, <1>2, <1>3, <1>4, <1>5, <1>6, <1>7, <1>8, <1>9, <1>10, <1>11 DEF Steps, Run

(* A step is the user interface's own, or one Operation's.                 *)
LEMMA StepsOfOthers ==
  ASSUME TypeInv, Next, NEW op \in Operations, ~Steps(op)
  PROVE  Own(op)' = Own(op)
<1>0. /\ pc \in [Operations -> PC] /\ taken \in [Operations -> Seq(Entry)]
      /\ snapshot \in [Operations -> Seq(Entry)]
      /\ nth \in [Operations -> Nat] /\ left \in [Operations -> Nat]
  BY DEF TypeInv, TypeOK
<1>1. CASE Select \/ SelectFromTemplate
  BY <1>1 DEF Select, TickBox, UntickBox, AcceptDialog, SelectFromTemplate, SelectOnly,
              iterVars, readVars, Own
<1>2. CASE OpenCasePath \/ Logout \/ \E c \in Cases : OpenCaseId(c)
  BY <1>2 DEF OpenCaseId, OpenCasePath, Logout, iterVars, Own
<1>3. ASSUME NEW p \in Operations, p # op, Steps(p) PROVE Own(op)' = Own(op)
  <2>1. ASSUME NEW from, NEW to, Go(p, from, to) PROVE pc'[op] = pc[op]
    BY <1>0, <1>3, <2>1 DEF Go
  <2>2. CASE Extract(p) \/ RunProgress(p)
    BY <1>0, <1>3, <2>2 DEF Extract, RunProgress, iterVars, readVars, Own
  <2>3. CASE Start(p) \/ HasNext(p) \/ HasNoNext(p) \/ FailFast(p)
    BY <1>0, <1>3, <2>1, <2>3 DEF Start, HasNext, HasNoNext, FailFast, iterVars, readVars, Own
  <2>4. CASE TakeNext(p)
    BY <1>0, <1>3, <2>1, <2>4 DEF TakeNext, Own
  <2>5. CASE LogOption(p) \/ NoDatabase(p) \/ SkipOption(p) \/ Clear(p)
    BY <1>0, <1>3, <2>1, <2>5 DEF LogOption, NoDatabase, SkipOption, Clear, iterVars,
                                  readVars, Own
  <2>6. CASE RunTool(p) \/ SkipStore(p) \/ EndRows(p)
    BY <1>0, <1>3, <2>1, <2>6 DEF RunTool, SkipStore, EndRows, ReadEnds, iterVars, Own
  <2>7. CASE ReadDirectFile(p)
    <3>1. UNCHANGED <<taken, snapshot>>
      BY <2>7 DEF ReadDirectFile, iterVars
    <3>2. pc'[op] = pc[op]
      BY <2>1, <2>7 DEF ReadDirectFile, ReadEnds
    <3>3. nth'[op] = nth[op] /\ left'[op] = left[op]
      BY <1>0, <1>3, <2>7 DEF ReadDirectFile, ReadEnds
    <3> QED BY <3>1, <3>2, <3>3 DEF Own
  <2>8. CASE ReadRecords(p) \/ OpenStore(p)
    BY <1>0, <1>3, <2>1, <2>8 DEF ReadRecords, OpenStore, iterVars, Own
  <2>9. CASE MakeStatement(p) \/ InsertRow(p)
    BY <1>0, <1>3, <2>1, <2>9 DEF MakeStatement, InsertRow, iterVars, Own
  <2> QED BY <1>3, <2>2, <2>3, <2>4, <2>5, <2>6, <2>7, <2>8, <2>9 DEF Steps, Run
<1> QED BY <1>1, <1>2, <1>3 DEF Next, UserInterface, Steps

(* The reads of an option are counted up to their number.                  *)
LEMMA InitUnreadInv == Init => UnreadInv
BY DEF Init, UnreadInv

LEMMA NextUnreadInv == TypeInv /\ UnreadInv /\ [Next]_vars => UnreadInv'
<1> SUFFICES ASSUME TypeInv, UnreadInv, [Next]_vars, NEW op \in Operations, taken'[op] # <<>>
             PROVE  LET n == Len(Reads[Current(op)'.name]) IN
                    /\ nth'[op] <= n
                    /\ pc'[op] \in {"open", "stmt", "rows"} => nth'[op] < n
  BY DEF UnreadInv
<1>0. /\ pc \in [Operations -> PC] /\ taken \in [Operations -> Seq(Entry)]
      /\ nth \in [Operations -> Nat]
  BY DEF TypeInv, TypeOK
<1>1. ASSUME taken'[op] = taken[op], nth'[op] = nth[op],
             \/ pc'[op] \notin {"open", "stmt", "rows"}
             \/ pc[op] \in {"open", "stmt", "rows"}
             \/ nth[op] < Len(Reads[Current(op).name])
      PROVE  LET n == Len(Reads[Current(op)'.name]) IN
             /\ nth'[op] <= n
             /\ pc'[op] \in {"open", "stmt", "rows"} => nth'[op] < n
  BY <1>1 DEF UnreadInv, Current
<1>2. CASE UNCHANGED vars \/ Own(op)' = Own(op)
  <2>1. taken'[op] = taken[op] /\ nth'[op] = nth[op] /\ pc'[op] = pc[op]
    BY <1>2 DEF vars, iterVars, readVars, Own
  <2> QED BY <1>1, <2>1
<1>3. CASE Extract(op) \/ RunProgress(op) \/ Start(op)
  <2>1. taken'[op] = taken[op] /\ nth'[op] = nth[op] /\ pc'[op] \in {"ready", "test"}
    BY <1>0, <1>3 DEF Extract, RunProgress, Start, Go, iterVars, readVars
  <2> QED BY <1>1, <2>1
<1>4. CASE HasNext(op) \/ HasNoNext(op) \/ FailFast(op) \/ LogOption(op) \/ NoDatabase(op)
           \/ SkipOption(op) \/ Clear(op)
  <2>1. taken'[op] = taken[op] /\ nth'[op] = nth[op]
        /\ pc'[op] \in {"next", "clear", "dead", "work", "test", "done"}
    BY <1>0, <1>4 DEF HasNext, HasNoNext, FailFast, LogOption, NoDatabase, SkipOption, Clear,
                      Go, iterVars, readVars
  <2> QED BY <1>1, <2>1
<1>5. CASE TakeNext(op)
  <2>1. nth'[op] = 0 /\ pc'[op] = "log"
    BY <1>0, <1>5 DEF TakeNext, Go
  <2>2. TypeInv'
    BY NextTypeInv
  <2>3. Len(Reads[Current(op)'.name]) \in Nat
    <3>1. taken'[op] \in Seq(Entry)
      BY <2>2 DEF TypeInv, TypeOK
    <3>2. Current(op)' \in Entry
      BY <3>1 DEF Current
    <3>3. Reads[Current(op)'.name] \in Seq({"tool", "direct", "store", "tested", "again"})
      BY <3>2, ReadsAssumption DEF ReadsType, Entry
    <3> QED BY <3>3
  <2> QED BY <2>1, <2>3
<1>6. ASSUME ReadEnds(op, "work") \/ ReadEnds(op, "rows"), taken' = taken,
             nth[op] < Len(Reads[Current(op).name])
      PROVE  LET n == Len(Reads[Current(op)'.name]) IN
             /\ nth'[op] <= n
             /\ pc'[op] \in {"open", "stmt", "rows"} => nth'[op] < n
  <2>1. nth'[op] = nth[op] + 1 /\ pc'[op] \in {"work", "sync"} /\ nth[op] \in Nat
    BY <1>0, <1>6 DEF ReadEnds, Go
  <2>2. Len(Reads[Current(op).name]) \in Nat
    BY <1>6, TakenReads
  <2>3. Current(op)' = Current(op)
    BY <1>6 DEF Current
  <2> QED BY <1>6, <2>1, <2>2, <2>3
<1>7. CASE RunTool(op) \/ SkipStore(op) \/ EndRows(op)
  <2>1. taken' = taken
    BY <1>7 DEF RunTool, SkipStore, EndRows, iterVars
  <2>2. nth[op] < Len(Reads[Current(op).name])
    BY <1>7, <2>1 DEF RunTool, SkipStore, EndRows, ReadEnds, Go, Serves, Doing, UnreadInv
  <2> QED BY <1>6, <1>7, <2>1, <2>2 DEF RunTool, SkipStore, EndRows
<1>8. CASE ReadDirectFile(op) \/ ReadRecords(op)
  <2>1. taken' = taken /\ nth[op] < Len(Reads[Current(op).name])
    BY <1>8 DEF ReadDirectFile, ReadRecords, Serves, Doing, iterVars
  <2>2. ReadEnds(op, "work") \/ nth' = nth
    BY <1>8 DEF ReadDirectFile, ReadRecords
  <2> QED BY <1>1, <1>6, <2>1, <2>2
<1>9. CASE OpenStore(op) \/ MakeStatement(op) \/ InsertRow(op)
  <2>1. taken'[op] = taken[op] /\ nth'[op] = nth[op] /\ pc[op] \in {"open", "stmt", "rows"}
    BY <1>9 DEF OpenStore, MakeStatement, InsertRow, Go, iterVars
  <2> QED BY <1>1, <2>1
<1> QED BY <1>2, <1>3, <1>4, <1>5, <1>7, <1>8, <1>9, StepsOfOthers DEF Steps, Run

(* Every Operation has finitely many steps to do, whoever edits or clears  *)
(* the list it iterates over, so nothing but the scheduler, the event loop *)
(* or a tool can keep it from its end (startExtract).                      *)
THEOREM OperationsNeverGoBack == Spec => NeverGoesBack
<1>1. TypeInv /\ ListInv /\ UnreadInv /\ [Next]_vars =>
        [\A op \in Operations : IF Steps(op) THEN Below(Ahead(op)', Ahead(op))
                                ELSE Ahead(op)' = Ahead(op)]_vars
  BY StepsReduce, StepsOfOthers, SameOwn
<1> QED BY <1>1, InitTypeInv, NextTypeInv, InitListInv, NextListInv, InitUnreadInv,
           NextUnreadInv, PTL DEF Spec, NeverGoesBack
=============================================================================
