---------------------------- MODULE CustodyProofs ----------------------------
(***************************************************************************)
(* What the step-by-step promise of Custody amounts to: the chain of       *)
(* custody holds of everything in a store, however many jobs there are.    *)
(***************************************************************************)
EXTENDS Custody, TLAPS

TypeInv ==
  /\ home \in [Jobs -> Cases \union {NoCase}] /\ working \subseteq Jobs
  /\ store \subseteq Evidence

(* A job that may file, or has filed, has a case, which it keeps, and was  *)
(* announced, if its entry was not lost.                                   *)
JobInv ==
  \A j \in Jobs :
    (j \in working \/ \E e \in store : e.by = j) =>
      home[j] \in Cases /\ j \in noted \union unnoted

KeptInv == TypeInv /\ JobInv /\ Kept

LEMMA InitKeptInv == Init => KeptInv
<1> SUFFICES ASSUME Init PROVE KeptInv
  OBVIOUS
<1>1. TypeInv
  BY DEF Init, TypeInv
<1>2. JobInv
  BY DEF Init, JobInv
<1>3. Kept
  BY DEF Init, Kept
<1> QED BY <1>1, <1>2, <1>3 DEF KeptInv

LEMMA NextKeptInv ==
  ASSUME NoCase \notin Cases, KeptInv, [Next]_vars
  PROVE  KeptInv'
<1>a. TypeInv /\ JobInv /\ Kept
  BY DEF KeptInv
<1>b. \A e \in store : e.by \in Jobs /\ e.in \in Cases
  BY <1>a DEF TypeInv, Evidence
<1>1. ASSUME NEW j \in Jobs, NEW c \in Cases, Begin(j, c) PROVE KeptInv'
  <2>1. home' = [home EXCEPT ![j] = c] /\ home[j] = NoCase
    BY <1>1 DEF Begin
  <2>2. \A i \in Jobs \ {j} : home'[i] = home[i]
    BY <1>a, <2>1 DEF TypeInv
  <2>3. home'[j] = c
    BY <1>a, <2>1 DEF TypeInv
  <2>4. store' = store /\ strayed' = strayed /\ working' = working \union {j}
    BY <1>1 DEF Begin
  <2>5. noted \subseteq noted' /\ unnoted \subseteq unnoted' /\ j \in noted' \union unnoted'
    BY <1>1 DEF Begin
  <2>6. \A e \in store : e.by # j
    BY <1>a, <1>b, <2>1 DEF JobInv
  <2>7. TypeInv'
    BY <1>a, <2>1, <2>4 DEF TypeInv
  <2>8. JobInv'
    BY <1>a, <2>2, <2>3, <2>4, <2>5 DEF JobInv
  <2>9. Kept'
    BY <1>a, <1>b, <2>2, <2>4, <2>5, <2>6 DEF Kept
  <2> QED BY <2>7, <2>8, <2>9 DEF KeptInv
<1>2. ASSUME Note PROVE KeptInv'
  <2>1. UNCHANGED <<home, working, unnoted, strayed, store>> /\ noted \subseteq noted'
    BY <1>2 DEF Note
  <2>2. TypeInv' /\ JobInv'
    BY <1>a, <2>1 DEF TypeInv, JobInv
  <2>3. Kept'
    BY <1>a, <2>1 DEF Kept
  <2> QED BY <2>2, <2>3 DEF KeptInv
<1>3. ASSUME Switch PROVE KeptInv'
  <2>1. UNCHANGED <<home, working, noted, unnoted, store>> /\ strayed \subseteq strayed'
    BY <1>3 DEF Switch
  <2>2. TypeInv' /\ JobInv'
    BY <1>a, <2>1 DEF TypeInv, JobInv
  <2>3. Kept'
    BY <1>a, <2>1 DEF Kept
  <2> QED BY <2>2, <2>3 DEF KeptInv
<1>4. ASSUME NEW j \in Jobs, NEW c \in Cases, File(j, c) PROVE KeptInv'
  <2>1. UNCHANGED <<home, working, noted, unnoted, strayed>> /\ j \in working
    BY <1>4 DEF File
  <2>2. \A e \in store' : e \in store \/ e = [by |-> j, in |-> c]
    BY <1>4 DEF File
  <2>3. j \in strayed \/ c = home[j]
    BY <1>4 DEF File
  <2>4. j \in noted \union unnoted
    BY <1>a, <2>1 DEF JobInv
  <2>5. TypeInv'
    BY <1>a, <2>1, <2>2 DEF TypeInv, Evidence
  <2>6. JobInv'
    BY <1>a, <2>1, <2>2 DEF JobInv
  <2>7. Kept'
    BY <1>a, <2>1, <2>2, <2>3, <2>4 DEF Kept
  <2> QED BY <2>5, <2>6, <2>7 DEF KeptInv
<1>5. ASSUME NEW j \in Jobs, End(j) PROVE KeptInv'
  <2>1. UNCHANGED <<home, noted, unnoted, strayed, store>> /\ working' \subseteq working
    BY <1>5 DEF End
  <2>2. TypeInv' /\ JobInv'
    BY <1>a, <2>1 DEF TypeInv, JobInv
  <2>3. Kept'
    BY <1>a, <2>1 DEF Kept
  <2> QED BY <2>2, <2>3 DEF KeptInv
<1>6. CASE UNCHANGED vars
  BY <1>a, <1>6 DEF vars, KeptInv, TypeInv, JobInv, Kept
<1> QED BY <1>1, <1>2, <1>3, <1>4, <1>5, <1>6 DEF Next

(* Evidence in a store is of a job of that case that was announced there,  *)
(* unless the open case was changed under it or its log entry was lost.    *)
THEOREM CustodyIsKept ==
  ASSUME NoCase \notin Cases
  PROVE  Spec => []Kept
<1>1. KeptInv => Kept
  BY DEF KeptInv
<1> QED BY <1>1, InitKeptInv, NextKeptInv, PTL DEF Spec
=============================================================================
