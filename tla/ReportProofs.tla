---------------------------- MODULE ReportProofs ----------------------------
(***************************************************************************)
(* What is proved of Report for every set of sections and every list of    *)
(* options: the list shows what the report will have, the plain check      *)
(* boxes tell it, and a report says what was chosen.                       *)
(*                                                                         *)
(* The dialogs choose one option after the other, so the list they leave   *)
(* is defined by recursion; what is needed of it is proved by induction    *)
(* over the natural numbers, obtained here for sets from the fact that <   *)
(* is well-founded.                                                        *)
(***************************************************************************)
EXTENDS Report, EvidenceProofs, SequenceTheorems, WellFoundedInduction

-----------------------------------------------------------------------------
(* Induction.                                                              *)

Less == {ss \in Nat \X Nat : ss[1] < ss[2]}

LEMMA LessWF == IsWellFoundedOn(Less, Nat)
BY NatLessThanWellFounded DEF OpToRel, Less

LEMMA LeastNumber ==
  ASSUME NEW T, T \subseteq Nat, T # {}
  PROVE  \E x \in T : \A y \in T : x <= y
<1>1. PICK x \in T : \A y \in T : <<y, x>> \notin Less
  BY LessWF, WFMin
<1>2. ASSUME NEW y \in T PROVE x <= y
  <2>1. x \in Nat /\ y \in Nat /\ <<y, x>> \notin Less
    BY <1>1
  <2> QED BY <2>1 DEF Less
<1> QED BY <1>2

LEMMA SetInduction ==
  ASSUME NEW S, 0 \in S, \A n \in Nat : n \in S => n + 1 \in S
  PROVE  Nat \subseteq S
<1> DEFINE T == Nat \ S
<1> SUFFICES ASSUME T # {} PROVE FALSE
  OBVIOUS
<1>1. PICK x \in T : \A y \in T : x <= y
  <2> HIDE DEF T
  <2>1. T \subseteq Nat
    BY DEF T
  <2> QED BY <2>1, LeastNumber
<1>2. x \in Nat \ {0}
  OBVIOUS
<1>3. x - 1 \in T /\ ~(x <= x - 1)
  BY <1>2
<1> QED BY <1>1, <1>3

(* A function of an interval that is defined step by step exists.          *)
StepsTo(n, c, step, f) == f[0] = c /\ \A i \in 1..n : f[i] = step[<<i, f[i - 1]>>]

LEMMA StepByStep ==
  ASSUME NEW S, NEW c \in S, NEW n \in Nat, NEW step \in [(1..n) \X S -> S]
  PROVE  \E f \in [0..n -> S] : StepsTo(n, c, step, f)
<1> USE DEF StepsTo
<1> DEFINE M == {m \in Nat : m <= n => \E f \in [0..m -> S] : StepsTo(m, c, step, f)}
<1>1. 0 \in M
  <2>1. [i \in 0..0 |-> c] \in [0..0 -> S] /\ StepsTo(0, c, step, [i \in 0..0 |-> c])
    OBVIOUS
  <2> QED BY <2>1
<1>2. ASSUME NEW m \in Nat, m \in M PROVE m + 1 \in M
  <2> SUFFICES ASSUME m + 1 <= n
               PROVE  \E f \in [0..m + 1 -> S] : StepsTo(m + 1, c, step, f)
    OBVIOUS
  <2>1. PICK f \in [0..m -> S] : StepsTo(m, c, step, f)
    BY <1>2
  <2> DEFINE g == [i \in 0..m + 1 |-> IF i <= m THEN f[i] ELSE step[<<m + 1, f[m]>>]]
  <2>2. m + 1 \in 1..n /\ m \in 0..m /\ f[m] \in S
    OBVIOUS
  <2>3. step[<<m + 1, f[m]>>] \in S
    BY <2>2
  <2>4. g \in [0..m + 1 -> S]
    BY <2>3
  <2>5. ASSUME NEW i \in 1..m + 1 PROVE g[i] = step[<<i, g[i - 1]>>]
    <3>1. CASE i <= m
      <4>1. i \in 1..m /\ i \in 0..m + 1 /\ i - 1 \in 0..m + 1 /\ i - 1 <= m
        BY <3>1
      <4>2. g[i] = f[i] /\ g[i - 1] = f[i - 1]
        BY <3>1, <4>1
      <4> QED BY <2>1, <4>1, <4>2
    <3>2. CASE ~(i <= m)
      <4>1. i = m + 1 /\ i - 1 = m /\ i \in 0..m + 1 /\ m \in 0..m + 1
        BY <3>2
      <4>2. g[m] = f[m] /\ g[i] = step[<<i, f[m]>>]
        BY <3>2, <4>1
      <4> QED BY <4>1, <4>2
    <3> QED BY <3>1, <3>2
  <2>6. g[0] = c
    BY <2>1
  <2> QED BY <2>4, <2>5, <2>6
<1>3. n \in M
  <2> HIDE DEF M
  <2> QED BY <1>1, <1>2, SetInduction
<1> QED BY <1>3

-----------------------------------------------------------------------------
(* Sequences.                                                              *)

LEMMA RemoveAtElements ==
  ASSUME NEW E, NEW s \in Seq(E), NEW k \in 1..Len(s)
  PROVE  /\ RemoveAt(s, k) \in Seq(E)
         /\ Len(RemoveAt(s, k)) = Len(s) - 1
         /\ \A i \in 1..Len(s) - 1 : RemoveAt(s, k)[i] = IF i < k THEN s[i] ELSE s[i + 1]
<1> DEFINE a == SubSeq(s, 1, k - 1)
           b == SubSeq(s, k + 1, Len(s))
<1>1. /\ a \in Seq(E) /\ Len(a) = k - 1
      /\ \A i \in 1..k - 1 : a[i] = s[i]
  OBVIOUS
<1>2. /\ b \in Seq(E) /\ Len(b) = Len(s) - k
      /\ \A i \in 1..Len(s) - k : b[i] = s[k + i]
  OBVIOUS
<1>3. RemoveAt(s, k) = a \o b
  BY DEF RemoveAt
<1> HIDE DEF a, b
<1>4. /\ a \o b \in Seq(E) /\ Len(a \o b) = Len(s) - 1
      /\ \A i \in 1..Len(s) - 1 : (a \o b)[i] = IF i <= k - 1 THEN a[i] ELSE b[i - (k - 1)]
  BY <1>1, <1>2, ConcatProperties
<1>5. ASSUME NEW i \in 1..Len(s) - 1
      PROVE  (a \o b)[i] = IF i < k THEN s[i] ELSE s[i + 1]
  <2>1. CASE i < k
    <3>1. i \in 1..k - 1 /\ i <= k - 1
      BY <2>1
    <3> QED BY <1>1, <1>4, <2>1, <3>1
  <2>2. CASE ~(i < k)
    <3>1. i - (k - 1) \in 1..Len(s) - k /\ k + (i - (k - 1)) = i + 1 /\ ~(i <= k - 1)
      BY <2>2
    <3> QED BY <1>2, <1>4, <2>2, <3>1
  <2> QED BY <2>1, <2>2
<1> QED BY <1>3, <1>4, <1>5

LEMMA InsertAtElements ==
  ASSUME NEW E, NEW s \in Seq(E), NEW k \in 1..Len(s) + 1, NEW x \in E
  PROVE  /\ InsertAt(s, k, x) \in Seq(E)
         /\ Len(InsertAt(s, k, x)) = Len(s) + 1
         /\ \A i \in 1..Len(s) + 1 :
              InsertAt(s, k, x)[i] = IF i < k THEN s[i] ELSE IF i = k THEN x ELSE s[i - 1]
<1> DEFINE a == SubSeq(s, 1, k - 1)
           b == SubSeq(s, k, Len(s))
           c == a \o <<x>>
<1>1. /\ a \in Seq(E) /\ Len(a) = k - 1
      /\ \A i \in 1..k - 1 : a[i] = s[i]
  OBVIOUS
<1>2. /\ b \in Seq(E) /\ Len(b) = Len(s) - k + 1
      /\ \A i \in 1..Len(s) - k + 1 : b[i] = s[k + i - 1]
  OBVIOUS
<1>3. InsertAt(s, k, x) = c \o b
  BY DEF InsertAt
<1>4. /\ c \in Seq(E) /\ Len(c) = k
      /\ \A i \in 1..k - 1 : c[i] = s[i]
      /\ c[k] = x
  <2> HIDE DEF a
  <2>1. Len(a) + 1 = k /\ k \in Nat
    BY <1>1
  <2> QED BY <1>1, <2>1
<1> HIDE DEF c, b
<1>5. /\ c \o b \in Seq(E) /\ Len(c \o b) = Len(s) + 1
      /\ \A i \in 1..Len(s) + 1 : (c \o b)[i] = IF i <= k THEN c[i] ELSE b[i - k]
  BY <1>2, <1>4, ConcatProperties
<1>6. ASSUME NEW i \in 1..Len(s) + 1
      PROVE  (c \o b)[i] = IF i < k THEN s[i] ELSE IF i = k THEN x ELSE s[i - 1]
  <2>1. CASE i < k
    <3>1. i \in 1..k - 1 /\ i <= k
      BY <2>1
    <3> QED BY <1>4, <1>5, <2>1, <3>1
  <2>2. CASE i = k
    BY <1>4, <1>5, <2>2
  <2>3. CASE i > k
    <3>1. /\ i - k \in 1..Len(s) - k + 1 /\ k + (i - k) - 1 = i - 1
          /\ ~(i <= k) /\ ~(i < k) /\ i # k
      BY <2>3
    <3> QED BY <1>2, <1>5, <3>1
  <2>4. i < k \/ i = k \/ i > k
    OBVIOUS
  <2> QED BY <2>1, <2>2, <2>3, <2>4
<1> QED BY <1>3, <1>5, <1>6

(* Removing an element and adding another at its place replaces it.        *)
LEMMA Replaced ==
  ASSUME NEW E, NEW s \in Seq(E), NEW k \in 1..Len(s), NEW x \in E
  PROVE  InsertAt(RemoveAt(s, k), k, x) = [s EXCEPT ![k] = x]
<1> DEFINE r == RemoveAt(s, k)
           t == InsertAt(r, k, x)
           u == [s EXCEPT ![k] = x]
<1>1. /\ r \in Seq(E) /\ Len(r) = Len(s) - 1
      /\ \A i \in 1..Len(s) - 1 : r[i] = IF i < k THEN s[i] ELSE s[i + 1]
  BY RemoveAtElements
<1>2. k \in 1..Len(r) + 1 /\ Len(r) + 1 = Len(s) /\ Len(s) \in Nat
  BY <1>1
<1> HIDE DEF r
<1>3. /\ t \in Seq(E) /\ Len(t) = Len(s)
      /\ \A i \in 1..Len(s) : t[i] = IF i < k THEN r[i] ELSE IF i = k THEN x ELSE r[i - 1]
  BY <1>1, <1>2, InsertAtElements
<1>4. /\ u \in Seq(E) /\ Len(u) = Len(s)
      /\ \A i \in 1..Len(s) : u[i] = IF i = k THEN x ELSE s[i]
  BY ExceptSeq
<1>5. ASSUME NEW i \in 1..Len(s) PROVE t[i] = u[i]
  <2> HIDE DEF t, u
  <2>1. CASE i < k
    <3>1. i \in 1..Len(s) - 1 /\ i # k
      BY <2>1
    <3> QED BY <1>1, <1>3, <1>4, <2>1, <3>1
  <2>2. CASE i = k
    BY <1>3, <1>4, <2>2
  <2>3. CASE i > k
    <3>1. i - 1 \in 1..Len(s) - 1 /\ ~(i < k) /\ ~(i - 1 < k) /\ i # k /\ (i - 1) + 1 = i
      BY <2>3
    <3> QED BY <1>1, <1>3, <1>4, <3>1
  <2> QED BY <2>1, <2>2, <2>3
<1>6. t = u
  <2> HIDE DEF t, u
  <2> QED BY <1>3, <1>4, <1>5, SeqEqual
<1> QED BY <1>6 DEF r

(* So Up and Down put other elements in two places.                        *)
Put(s, k, n, x, y) == [[s EXCEPT ![k] = x] EXCEPT ![n] = y]

LEMMA ExchangeReplaces ==
  ASSUME NEW E, NEW s \in Seq(E), NEW k \in 1..Len(s), NEW n \in 1..Len(s),
         NEW x \in E, NEW y \in E
  PROVE  /\ Exchange(s, k, n, x, y) = Put(s, k, n, x, y)
         /\ Exchange(s, k, n, x, y) \in Seq(E)
         /\ Len(Exchange(s, k, n, x, y)) = Len(s)
<1> DEFINE u == [s EXCEPT ![k] = x]
           t == [u EXCEPT ![n] = y]
<1>1. InsertAt(RemoveAt(s, k), k, x) = u
  BY Replaced
<1>2. u \in Seq(E) /\ Len(u) = Len(s)
  BY ExceptSeq
<1> HIDE DEF u
<1>3. InsertAt(RemoveAt(u, n), n, y) = t
  BY <1>2, Replaced
<1>4. t \in Seq(E) /\ Len(t) = Len(s)
  BY <1>2, ExceptSeq
<1>5. Exchange(s, k, n, x, y) = t
  BY <1>1, <1>3 DEF Exchange
<1> HIDE DEF t
<1>6. Exchange(s, k, n, x, y) \in Seq(E) /\ Len(Exchange(s, k, n, x, y)) = Len(s)
  BY <1>4, <1>5
<1> QED BY <1>5, <1>6 DEF t, u, Put

-----------------------------------------------------------------------------
(* The list of sections.                                                   *)

Listed(s, b) == \E i \in DOMAIN s : s[i].name = b

(* What a dialog keeps: it has nothing to do with plain sections.          *)
Follows(s, t) ==
  /\ t \in Seq(Entry)
  /\ Once(s) => Once(t)
  /\ Literal(s) => Literal(t)
  /\ \A b \in Plain : Listed(t, b) <=> Listed(s, b)

LEMMA NamesAreSections ==
  ASSUME NEW s \in Seq(Entry)
  PROVE  /\ Names(s) \in Seq(Sections) /\ Len(Names(s)) = Len(s)
         /\ \A i \in 1..Len(s) : Names(s)[i] = s[i].name
<1>1. Len(s) \in Nat /\ DOMAIN s = 1..Len(s) /\ \A i \in 1..Len(s) : s[i] \in Entry
  BY LenProperties
<1>2. Names(s) \in [1..Len(s) -> Sections]
  BY <1>1 DEF Names, Entry
<1>3. Names(s) \in Seq(Sections)
  BY <1>1, <1>2, SeqDef
<1> QED BY <1>1, <1>2, <1>3, LenProperties DEF Names

LEMMA Added ==
  ASSUME NEW s \in Seq(Entry), NEW o \in Sections
  PROVE  LET t == AddSection(s, o) IN
         /\ t \in Seq(Entry)
         /\ \A b : Listed(t, b) <=> Listed(s, b) \/ b = o
         /\ Literal(s) => Literal(t)
         /\ Once(s) /\ ~(o \in Plain /\ Listed(s, o)) => Once(t)
<1> DEFINE e == [name |-> o, literal |-> TRUE]
           t == Append(s, e)
<1>1. e \in Entry /\ e.name = o /\ e.literal
  BY DEF Entry
<1> HIDE DEF e
<1>2. /\ t \in Seq(Entry) /\ Len(s) \in Nat
      /\ DOMAIN s = 1..Len(s) /\ DOMAIN t = 1..Len(s) + 1
      /\ \A i \in 1..Len(s) : t[i] = s[i]
      /\ t[Len(s) + 1] = e
  BY <1>1, AppendProperties, LenProperties
<1>3. AddSection(s, o) = t
  BY DEF AddSection, e
<1> HIDE DEF t
<1>4. ASSUME NEW i \in DOMAIN t
      PROVE  (i \in DOMAIN s /\ t[i] = s[i]) \/ (i = Len(s) + 1 /\ t[i] = e)
  BY <1>2
<1>5. ASSUME NEW b PROVE Listed(t, b) <=> Listed(s, b) \/ b = o
  <2>1. ASSUME Listed(t, b) PROVE Listed(s, b) \/ b = o
    BY <1>1, <1>4, <2>1 DEF Listed
  <2>2. ASSUME Listed(s, b) PROVE Listed(t, b)
    <3>1. PICK i \in DOMAIN s : s[i].name = b
      BY <2>2 DEF Listed
    <3>2. i \in DOMAIN t /\ t[i] = s[i]
      BY <1>2
    <3> QED BY <3>1, <3>2 DEF Listed
  <2>3. Len(s) + 1 \in DOMAIN t
    BY <1>2
  <2>4. Listed(t, o)
    BY <1>1, <1>2, <2>3 DEF Listed
  <2> QED BY <2>1, <2>2, <2>4
<1>6. Literal(s) => Literal(t)
  BY <1>1, <1>4 DEF Literal
<1>7. ASSUME Once(s), ~(o \in Plain /\ Listed(s, o)) PROVE Once(t)
  <2> SUFFICES ASSUME NEW i \in DOMAIN t, NEW j \in DOMAIN t,
                      t[i].name = t[j].name, t[i].name \in Plain
               PROVE  i = j
    BY DEF Once
  <2>1. CASE i \in DOMAIN s /\ t[i] = s[i] /\ j \in DOMAIN s /\ t[j] = s[j]
    BY <1>7, <2>1 DEF Once
  <2>2. CASE i \in DOMAIN s /\ t[i] = s[i] /\ t[j] = e
    BY <1>1, <1>7, <2>2 DEF Listed
  <2>3. CASE j \in DOMAIN s /\ t[j] = s[j] /\ t[i] = e
    BY <1>1, <1>7, <2>3 DEF Listed
  <2> QED BY <1>4, <2>1, <2>2, <2>3
<1> QED BY <1>2, <1>3, <1>5, <1>6, <1>7

LEMMA Removed ==
  ASSUME NEW s \in Seq(Entry), NEW o
  PROVE  LET t == RemoveSection(s, o) IN
         /\ t \in Seq(Entry)
         /\ \A b : b # o => (Listed(t, b) <=> Listed(s, b))
         /\ Literal(s) => Literal(t)
         /\ Once(s) => Once(t)
         /\ Once(s) /\ o \in Plain => ~Listed(t, o)
<1> DEFINE at == {i \in DOMAIN s : s[i].name = o}
           t == RemoveSection(s, o)
<1>1. Len(s) \in Nat /\ DOMAIN s = 1..Len(s)
  BY LenProperties
<1>2. CASE at = {}
  <2>1. t = s /\ ~Listed(s, o)
    BY <1>2 DEF RemoveSection, Listed
  <2> QED BY <2>1
<1>3. CASE at # {}
  <2> DEFINE k == CHOOSE i \in at : \A j \in at : i <= j
  <2>1. \E i \in at : \A j \in at : i <= j
    <3> HIDE DEF at
    <3>1. at \subseteq Nat
      BY <1>1 DEF at
    <3> QED BY <1>3, <3>1, LeastNumber
  <2>2. k \in at
    BY <2>1
  <2>3. t = RemoveAt(s, k)
    BY <1>3 DEF RemoveSection
  <2> HIDE DEF k, at, t
  <2>4. k \in 1..Len(s) /\ s[k].name = o
    BY <1>1, <2>2 DEF at
  <2>5. /\ t \in Seq(Entry) /\ Len(t) = Len(s) - 1
        /\ \A i \in 1..Len(s) - 1 : t[i] = IF i < k THEN s[i] ELSE s[i + 1]
    BY <2>3, <2>4, RemoveAtElements
  <2> DEFINE from(i) == IF i < k THEN i ELSE i + 1
  <2>6. ASSUME NEW i \in DOMAIN t
        PROVE  i \in Nat /\ from(i) \in DOMAIN s \ {k} /\ t[i] = s[from(i)]
    <3>1. i \in 1..Len(s) - 1
      BY <2>5, LenProperties
    <3> QED BY <1>1, <2>4, <2>5, <3>1
  <2>7. ASSUME NEW i \in DOMAIN s \ {k} PROVE \E j \in DOMAIN t : t[j] = s[i]
    <3>1. DOMAIN t = 1..Len(s) - 1
      BY <2>5, LenProperties
    <3>2. CASE i < k
      <4>1. i \in 1..Len(s) - 1
        BY <1>1, <2>4, <3>2
      <4> QED BY <2>5, <3>1, <3>2, <4>1
    <3>3. CASE ~(i < k)
      <4>1. i - 1 \in 1..Len(s) - 1 /\ ~(i - 1 < k) /\ (i - 1) + 1 = i
        BY <1>1, <2>4, <3>3
      <4>2. t[i - 1] = s[i]
        BY <2>5, <4>1
      <4> QED BY <3>1, <4>1, <4>2
    <3> QED BY <3>2, <3>3
  <2>8. ASSUME NEW b, b # o PROVE Listed(t, b) <=> Listed(s, b)
    <3> HIDE DEF from
    <3>1. ASSUME Listed(t, b) PROVE Listed(s, b)
      BY <2>6, <3>1 DEF Listed
    <3>2. ASSUME Listed(s, b) PROVE Listed(t, b)
      <4>1. PICK i \in DOMAIN s : s[i].name = b
        BY <3>2 DEF Listed
      <4>2. i # k
        BY <2>4, <2>8, <4>1
      <4> QED BY <2>7, <4>1, <4>2 DEF Listed
    <3> QED BY <3>1, <3>2
  <2>9. Literal(s) => Literal(t)
    <3> HIDE DEF from
    <3> QED BY <2>6 DEF Literal
  <2>10. Once(s) => Once(t)
    <3> SUFFICES ASSUME Once(s), NEW i \in DOMAIN t, NEW j \in DOMAIN t,
                        t[i].name = t[j].name, t[i].name \in Plain
                 PROVE  i = j
      BY DEF Once
    <3>1. from(i) = from(j)
      <4> HIDE DEF from
      <4> QED BY <2>6 DEF Once
    <3>2. i \in Nat /\ j \in Nat
      BY <2>6
    <3> QED BY <1>1, <2>4, <3>1, <3>2
  <2>11. Once(s) /\ o \in Plain => ~Listed(t, o)
    <3> HIDE DEF from
    <3> SUFFICES ASSUME Once(s), o \in Plain, NEW i \in DOMAIN t, t[i].name = o
                 PROVE  FALSE
      BY DEF Listed
    <3>1. from(i) \in DOMAIN s /\ from(i) # k /\ s[from(i)].name = o
      BY <2>6
    <3> QED BY <1>1, <2>4, <3>1 DEF Once
  <2> QED BY <2>5, <2>8, <2>9, <2>10, <2>11 DEF t
<1> QED BY <1>2, <1>3

LEMMA Chosen ==
  ASSUME NEW s \in Seq(Entry), NEW o \in Sections \ Boxes, NEW ticks
  PROVE  Follows(s, Choose(s, o, ticks))
<1>1. o \notin Plain /\ \A b \in Plain : b # o
  BY DEF Plain
<1>2. CASE o \in ticks
  BY <1>1, <1>2, Added DEF Choose, Follows
<1>3. CASE o \notin ticks
  BY <1>1, <1>3, Removed DEF Choose, Follows
<1> QED BY <1>2, <1>3

(* The options of a dialog, one after the other.                           *)
LEMMA AcceptedFollows ==
  ASSUME checked \in Seq(Entry), NEW b \in Boxes, NEW ticks
  PROVE  Follows(checked, Accepted(b, ticks))
<1> DEFINE n == Len(Options[b])
           Body(f) == [k \in 0..n |-> IF k = 0 THEN checked
                                      ELSE Choose(f[k - 1], Options[b][k], ticks)]
           after == CHOOSE f : f = Body(f)
           step == [p \in (1..n) \X Seq(Entry) |-> Choose(p[2], Options[b][p[1]], ticks)]
<1>1. n \in Nat /\ \A k \in 1..n : Options[b][k] \in Sections \ Boxes
  <2>1. Options[b] \in Seq(Sections \ Boxes)
    BY SectionAssumption DEF SectionTypes
  <2> QED BY <2>1, LenProperties
<1>2. Accepted(b, ticks) = after[n]
  BY DEF Accepted
<1>3. step \in [(1..n) \X Seq(Entry) -> Seq(Entry)]
  <2> HIDE DEF n
  <2> SUFFICES ASSUME NEW p \in (1..n) \X Seq(Entry)
               PROVE  Choose(p[2], Options[b][p[1]], ticks) \in Seq(Entry)
    BY <1>1
  <2> QED BY <1>1, Chosen DEF Follows
<1> HIDE DEF n
<1>4. PICK f \in [0..n -> Seq(Entry)] : StepsTo(n, checked, step, f)
  <2> DEFINE S == Seq(Entry)
  <2>0. n \in Nat
    BY <1>1
  <2>1. checked \in S /\ step \in [(1..n) \X S -> S]
    BY <1>3
  <2> HIDE DEF step, S
  <2>2. \E f \in [0..n -> S] : StepsTo(n, checked, step, f)
    BY <2>0, <2>1, StepByStep
  <2> QED BY <2>2 DEF S
<1>5. f = Body(f)
  <2>1. ASSUME NEW i \in 0..n PROVE f[i] = Body(f)[i]
    <3>1. CASE i = 0
      BY <1>4, <3>1 DEF StepsTo
    <3>2. CASE i # 0
      <4>1. i \in 1..n /\ i - 1 \in 0..n
        BY <1>1, <3>2
      <4>2. <<i, f[i - 1]>> \in (1..n) \X Seq(Entry)
        BY <4>1
      <4>3. f[i] = Choose(f[i - 1], Options[b][i], ticks)
        BY <1>4, <4>1, <4>2 DEF StepsTo
      <4> QED BY <3>2, <4>3
    <3> QED BY <3>1, <3>2
  <2> HIDE DEF Body
  <2>2. f = [i \in 0..n |-> f[i]] /\ Body(f) = [i \in 0..n |-> Body(f)[i]]
    BY DEF Body
  <2> QED BY <2>1, <2>2
<1>6. after = Body(after)
  <2> HIDE DEF Body
  <2> QED BY <1>5
<1> HIDE DEF after, step
<1>7. after[0] = checked
  BY <1>1, <1>6
<1>8. ASSUME NEW k \in 1..n PROVE after[k] = Choose(after[k - 1], Options[b][k], ticks)
  <2>1. k \in 0..n /\ k # 0
    OBVIOUS
  <2> QED BY <1>6, <2>1
<1> HIDE DEF Body
<1> DEFINE M == {m \in Nat : m <= n => Follows(checked, after[m])}
<1>9. 0 \in M
  BY <1>7 DEF Follows
<1>10. ASSUME NEW m \in Nat, m \in M PROVE m + 1 \in M
  <2> SUFFICES ASSUME m + 1 <= n PROVE Follows(checked, after[m + 1])
    OBVIOUS
  <2>1. m + 1 \in 1..n /\ m <= n /\ (m + 1) - 1 = m
    BY <1>1
  <2>2. Follows(checked, after[m])
    BY <1>10, <2>1
  <2>3. after[m] \in Seq(Entry) /\ Options[b][m + 1] \in Sections \ Boxes
    BY <1>1, <2>1, <2>2 DEF Follows
  <2>4. after[m + 1] = Choose(after[m], Options[b][m + 1], ticks)
    BY <1>8, <2>1
  <2>5. Follows(after[m], after[m + 1])
    BY <2>3, <2>4, Chosen
  <2> QED BY <2>2, <2>5 DEF Follows
<1>11. n \in M
  <2> HIDE DEF M
  <2> QED BY <1>1, <1>9, <1>10, SetInduction
<1> QED BY <1>1, <1>2, <1>11

-----------------------------------------------------------------------------
(* The tab: the list, its selection and the boxes.                         *)

TabType ==
  /\ checked \in Seq(Entry) /\ list \in Seq(Sections)
  /\ selected \in 0..Len(list) /\ boxes \in SUBSET Boxes
  /\ moved \in BOOLEAN /\ cleared \in SUBSET Boxes

TabInv == TabType /\ ListInv

(* Showing a list anew.                                                    *)
LEMMA SetListShows ==
  ASSUME NEW s \in Seq(Entry), SetList(s), TabInv, Literal(checked) => Literal(s)
  PROVE  /\ checked' = s /\ checked' \in Seq(Entry) /\ list' \in Seq(Sections)
         /\ selected' \in 0..Len(list') /\ moved' \in BOOLEAN
         /\ ListShowsChecked' /\ (moved \/ Literal(checked))'
<1>1. /\ checked' = s /\ list' = Names(s) /\ selected' = 0
      /\ moved' = (moved /\ s # <<>>)
  BY DEF SetList
<1>2. list' \in Seq(Sections)
  BY <1>1, NamesAreSections
<1>3. selected' \in 0..Len(list')
  <2>1. Len(list') \in Nat
    BY <1>2, LenProperties
  <2> QED BY <1>1, <2>1
<1>4. moved' \/ Literal(checked')
  <2>1. CASE s = <<>>
    BY <1>1, <2>1 DEF Literal
  <2>2. CASE s # <<>>
    BY <1>1, <2>2 DEF TabInv, ListInv
  <2> QED BY <2>1, <2>2
<1>5. ListShowsChecked'
  BY <1>1 DEF ListShowsChecked
<1>6. moved' \in BOOLEAN
  BY <1>1
<1> QED BY <1>1, <1>2, <1>3, <1>4, <1>5, <1>6

(* Whether OK or Cancel was pressed.                                       *)
LEMMA DialogFollows ==
  ASSUME checked \in Seq(Entry), NEW b \in Boxes, NEW s \in DialogLeaves(b)
  PROVE  Follows(checked, s)
<1>1. CASE s = checked
  BY <1>1 DEF Follows
<1>2. CASE \E ticks \in SUBSET Range(Options[b]) : s = Accepted(b, ticks)
  BY <1>2, AcceptedFollows
<1> QED BY <1>1, <1>2 DEF DialogLeaves

LEMMA TickBoxTab ==
  ASSUME TabInv, NEW b \in Boxes, NEW s \in DialogLeaves(b), TickBox(b, s)
  PROVE  TabInv'
<1>1. /\ b \notin boxes /\ cleared' = cleared \ {b}
      /\ boxes' = IF b \in Resets THEN boxes ELSE boxes \union {b}
  BY DEF TickBox
<1>2. /\ checked \in Seq(Entry) /\ Once(checked) /\ BoxesFollowList
      /\ boxes \in SUBSET Boxes /\ cleared \in SUBSET Boxes
  BY DEF TabInv, TabType, ListInv
<1>3. boxes' \in SUBSET Boxes /\ cleared' \in SUBSET Boxes
  BY <1>1, <1>2
<1>4. b \in Plain => b \notin Resets
  BY SectionAssumption DEF SectionTypes, Plain
<1>5. CASE b \in Opens
  <2>1. SetList(s) /\ b \notin Plain
    BY <1>5 DEF TickBox, Plain
  <2>2. Follows(checked, s)
    BY <1>2, DialogFollows
  <2>3. /\ checked' = s /\ checked' \in Seq(Entry) /\ list' \in Seq(Sections)
        /\ selected' \in 0..Len(list') /\ moved' \in BOOLEAN
        /\ ListShowsChecked' /\ (moved \/ Literal(checked))'
    BY <2>1, <2>2, SetListShows DEF Follows
  <2>4. Once(checked)'
    BY <1>2, <2>2, <2>3 DEF Follows
  <2>5. BoxesFollowList'
    BY <1>1, <1>2, <2>1, <2>2, <2>3 DEF BoxesFollowList, Follows, Listed
  <2> QED BY <1>3, <2>3, <2>4, <2>5 DEF TabInv, TabType, ListInv
<1>6. CASE b \notin Opens
  <2> DEFINE t == AddSection(checked, b)
  <2>1. SetList(t) /\ b \in Sections /\ b \notin Resets
    BY <1>6, SectionAssumption DEF TickBox, SectionTypes
  <2>2. ~(b \in Plain /\ Listed(checked, b))
    BY <1>1, <1>2 DEF BoxesFollowList, Listed
  <2>3. /\ t \in Seq(Entry) /\ Once(t) /\ (Literal(checked) => Literal(t))
        /\ \A p : Listed(t, p) <=> Listed(checked, p) \/ p = b
    BY <1>2, <2>1, <2>2, Added
  <2> HIDE DEF t
  <2>4. /\ checked' = t /\ checked' \in Seq(Entry) /\ list' \in Seq(Sections)
        /\ selected' \in 0..Len(list') /\ moved' \in BOOLEAN
        /\ ListShowsChecked' /\ (moved \/ Literal(checked))'
    BY <2>1, <2>3, SetListShows
  <2>5. Once(checked)'
    BY <2>3, <2>4
  <2>6. BoxesFollowList'
    BY <1>1, <1>2, <2>1, <2>3, <2>4 DEF BoxesFollowList, Listed
  <2> QED BY <1>3, <2>4, <2>5, <2>6 DEF TabInv, TabType, ListInv
<1> QED BY <1>5, <1>6

LEMMA UntickBoxTab ==
  ASSUME TabInv, NEW b \in Boxes, UntickBox(b)
  PROVE  TabInv'
<1> DEFINE s == RemoveSection(checked, b)
<1>1. SetList(s) /\ boxes' = boxes \ {b} /\ cleared' = cleared \ {b}
  BY DEF UntickBox
<1>2. /\ checked \in Seq(Entry) /\ Once(checked) /\ BoxesFollowList
      /\ boxes \in SUBSET Boxes /\ cleared \in SUBSET Boxes
  BY DEF TabInv, TabType, ListInv
<1>3. /\ s \in Seq(Entry) /\ Once(s) /\ (Literal(checked) => Literal(s))
      /\ \A p : p # b => (Listed(s, p) <=> Listed(checked, p))
      /\ b \in Plain => ~Listed(s, b)
  BY <1>2, Removed
<1> HIDE DEF s
<1>4. /\ checked' = s /\ checked' \in Seq(Entry) /\ list' \in Seq(Sections)
      /\ selected' \in 0..Len(list') /\ moved' \in BOOLEAN
      /\ ListShowsChecked' /\ (moved \/ Literal(checked))'
  BY <1>1, <1>3, SetListShows
<1>5. Once(checked)'
  BY <1>3, <1>4
<1>6. BoxesFollowList'
  BY <1>1, <1>2, <1>3, <1>4 DEF BoxesFollowList, Listed
<1> QED BY <1>1, <1>2, <1>4, <1>5, <1>6 DEF TabInv, TabType, ListInv

LEMMA CustomizeTab ==
  ASSUME TabInv, NEW b \in Boxes, NEW s \in DialogLeaves(b), Customize(b, s)
  PROVE  TabInv'
<1>1. SetList(s) /\ b \notin Plain /\ boxes' \in {boxes \union {b}, boxes \ {b}}
      /\ cleared' = cleared
  BY DEF Customize, Plain
<1>2. /\ checked \in Seq(Entry) /\ Once(checked) /\ BoxesFollowList
      /\ boxes \in SUBSET Boxes /\ cleared \in SUBSET Boxes
  BY DEF TabInv, TabType, ListInv
<1>3. Follows(checked, s)
  BY <1>2, DialogFollows
<1>4. /\ checked' = s /\ checked' \in Seq(Entry) /\ list' \in Seq(Sections)
      /\ selected' \in 0..Len(list') /\ moved' \in BOOLEAN
      /\ ListShowsChecked' /\ (moved \/ Literal(checked))'
  BY <1>1, <1>3, SetListShows DEF Follows
<1>5. Once(checked)'
  BY <1>2, <1>3, <1>4 DEF Follows
<1>6. BoxesFollowList'
  BY <1>1, <1>2, <1>3, <1>4 DEF BoxesFollowList, Follows, Listed
<1> QED BY <1>1, <1>2, <1>4, <1>5, <1>6 DEF TabInv, TabType, ListInv

(* Up and Down exchange the same two sections in both lists.               *)
LEMMA Moved ==
  ASSUME NEW c \in Seq(Entry), NEW l \in Seq(Sections), l = Names(c),
         NEW k \in 1..Len(l), NEW n \in 1..Len(l), k # n,
         NEW m, m = Exchange(l, k, n, l[n], l[k]),
         NEW d, d = Exchange(c, k, n, FromWidget(l[n]), FromWidget(l[k]))
  PROVE  /\ m \in Seq(Sections) /\ Len(m) = Len(l) /\ d \in Seq(Entry)
         /\ m = Names(d) /\ (Once(c) => Once(d))
         /\ \A b : Listed(d, b) <=> Listed(c, b)
<1> DEFINE atK == FromWidget(l[n])
           atN == FromWidget(l[k])
<1>1. /\ Len(l) = Len(c) /\ Len(c) \in Nat
      /\ DOMAIN c = 1..Len(c) /\ DOMAIN l = 1..Len(c)
      /\ \A i \in 1..Len(c) : l[i] = c[i].name
  BY NamesAreSections, LenProperties
<1>2. k \in 1..Len(c) /\ n \in 1..Len(c)
  BY <1>1
<1>3. l[n] \in Sections /\ l[k] \in Sections
  BY ElementOfSeq
<1>4. /\ atK \in Entry /\ atN \in Entry
      /\ atK.name = c[n].name /\ atN.name = c[k].name
  BY <1>1, <1>2, <1>3 DEF FromWidget, Entry
<1>5. /\ m = Put(l, k, n, l[n], l[k])
      /\ m \in Seq(Sections) /\ Len(m) = Len(l)
  <2> DEFINE nameN == l[n]
             nameK == l[k]
  <2>1. m = Exchange(l, k, n, nameN, nameK) /\ nameN \in Sections /\ nameK \in Sections
    BY <1>3
  <2> HIDE DEF nameN, nameK
  <2>2. m = Put(l, k, n, nameN, nameK) /\ m \in Seq(Sections) /\ Len(m) = Len(l)
    BY <2>1, ExchangeReplaces
  <2> QED BY <2>2 DEF nameN, nameK
<1>6. /\ d = Put(c, k, n, atK, atN)
      /\ d \in Seq(Entry) /\ Len(d) = Len(c)
  <2> HIDE DEF atK, atN
  <2>1. d = Exchange(c, k, n, atK, atN)
    BY DEF atK, atN
  <2> QED BY <1>2, <1>4, <2>1, ExchangeReplaces
<1> HIDE DEF atK, atN
<1> DEFINE pi(i) == IF i = n THEN k ELSE IF i = k THEN n ELSE i
<1>7. DOMAIN d = 1..Len(c) /\ DOMAIN m = 1..Len(c)
  BY <1>1, <1>5, <1>6, LenProperties
<1>8. ASSUME NEW i \in 1..Len(c)
      PROVE  /\ pi(i) \in 1..Len(c) /\ pi(pi(i)) = i
             /\ d[i].name = c[pi(i)].name /\ m[i] = d[i].name
  <2>1. pi(i) \in 1..Len(c) /\ pi(pi(i)) = i
    BY <1>2
  <2>2. d[i].name = c[pi(i)].name
    BY <1>1, <1>2, <1>4, <1>6 DEF Put
  <2>3. m[i] = c[pi(i)].name
    BY <1>1, <1>2, <1>5 DEF Put
  <2> QED BY <2>1, <2>2, <2>3
<1> HIDE DEF pi
<1>9. m = Names(d)
  <2>1. m = [i \in 1..Len(c) |-> m[i]]
    BY <1>5, <1>7 DEF Put
  <2>2. Names(d) = [i \in 1..Len(c) |-> d[i].name]
    BY <1>7 DEF Names
  <2> QED BY <1>8, <2>1, <2>2
<1>10. Once(c) => Once(d)
  <2> SUFFICES ASSUME Once(c), NEW i \in 1..Len(c), NEW j \in 1..Len(c),
                      d[i].name = d[j].name, d[i].name \in Plain
               PROVE  i = j
    BY <1>7 DEF Once
  <2>1. pi(i) = pi(j)
    BY <1>1, <1>8 DEF Once
  <2> QED BY <1>8, <2>1
<1>11. ASSUME NEW b PROVE Listed(d, b) <=> Listed(c, b)
  <2>1. ASSUME Listed(d, b) PROVE Listed(c, b)
    BY <1>1, <1>7, <1>8, <2>1 DEF Listed
  <2>2. ASSUME NEW i \in 1..Len(c), c[i].name = b PROVE Listed(d, b)
    <3>1. pi(i) \in 1..Len(c) /\ d[pi(i)].name = b
      BY <1>8, <2>2
    <3> QED BY <1>7, <3>1 DEF Listed
  <2> QED BY <1>1, <2>1, <2>2 DEF Listed
<1> QED BY <1>5, <1>6, <1>9, <1>10, <1>11

LEMMA MoveTab ==
  ASSUME TabInv, NEW n \in DOMAIN list, Move(n)
  PROVE  TabInv'
<1>1. /\ checked \in Seq(Entry) /\ list \in Seq(Sections) /\ list = Names(checked)
      /\ BoxesFollowList /\ Once(checked) /\ selected \in 0..Len(list)
  BY DEF TabInv, TabType, ListInv, ListShowsChecked
<1>2. selected \in 1..Len(list) /\ n \in 1..Len(list) /\ selected # n
  BY <1>1, LenProperties DEF Move
<1>3. /\ list' = Exchange(list, selected, n, list[n], list[selected])
      /\ checked' = Exchange(checked, selected, n, FromWidget(list[n]), FromWidget(list[selected]))
      /\ selected' \in 0..Len(list) /\ moved' = TRUE
      /\ boxes' = boxes /\ cleared' = cleared
  BY DEF Move
<1>4. /\ list' \in Seq(Sections) /\ Len(list') = Len(list) /\ checked' \in Seq(Entry)
      /\ list' = Names(checked') /\ Once(checked')
      /\ \A b : Listed(checked', b) <=> Listed(checked, b)
  BY <1>1, <1>2, <1>3, Moved
<1>5. BoxesFollowList'
  BY <1>1, <1>3, <1>4 DEF BoxesFollowList, Listed
<1>6. TabType'
  BY <1>3, <1>4 DEF TabInv, TabType
<1> QED BY <1>3, <1>4, <1>5, <1>6 DEF TabInv, ListInv, ListShowsChecked

LEMMA ClearTabTab ==
  ASSUME ClearTab, boxes' \in SUBSET Boxes, cleared' = boxes'
  PROVE  TabInv'
<1>1. checked' = <<>> /\ list' = <<>> /\ selected' = 0 /\ moved' = FALSE
  BY DEF ClearTab
<1>2. TabType'
  <2>1. <<>> \in Seq(Entry) /\ <<>> \in Seq(Sections) /\ 0 \in 0..Len(<<>>)
    OBVIOUS
  <2>2. checked' \in Seq(Entry) /\ list' \in Seq(Sections) /\ selected' \in 0..Len(list')
    BY <1>1, <2>1
  <2> QED BY <1>1, <2>2 DEF TabType
<1>3. ListShowsChecked' /\ Once(checked)' /\ Literal(checked)'
  BY <1>1 DEF ListShowsChecked, Names, Once, Literal
<1>4. BoxesFollowList'
  BY <1>1 DEF BoxesFollowList
<1> QED BY <1>2, <1>3, <1>4 DEF TabInv, ListInv

LEMMA SameTab ==
  ASSUME TabInv, UNCHANGED <<checked, list, boxes, moved, cleared>>, selected' \in 0..Len(list)
  PROVE  TabInv'
<1>1. TabType'
  BY DEF TabInv, TabType
<1>2. ListInv'
  BY DEF TabInv, ListInv, ListShowsChecked, BoxesFollowList
<1> QED BY <1>1, <1>2 DEF TabInv

LEMMA NextTabInv ==
  ASSUME TabInv, [Next]_vars
  PROVE  TabInv'
<1>1. selected \in 0..Len(list) /\ boxes \in SUBSET Boxes
  BY DEF TabInv, TabType
<1>2. CASE UNCHANGED tabVars
  BY <1>1, <1>2, SameTab DEF tabVars
<1>3. ASSUME NEW b \in Boxes, NEW s \in DialogLeaves(b), TickBox(b, s) \/ Customize(b, s)
      PROVE  TabInv'
  BY <1>3, TickBoxTab, CustomizeTab
<1>4. ASSUME NEW b \in Boxes, UntickBox(b) PROVE TabInv'
  BY <1>4, UntickBoxTab
<1>5. ASSUME NEW k \in DOMAIN list, SelectSection(k) PROVE TabInv'
  <2>1. k \in 0..Len(list)
    BY LenProperties DEF TabInv, TabType
  <2> QED BY <1>5, <2>1, SameTab DEF SelectSection
<1>6. ASSUME NEW k \in DOMAIN list, Move(k) PROVE TabInv'
  BY <1>6, MoveTab
<1>7. ASSUME NEW all \in BOOLEAN, Generate(all) PROVE TabInv'
  BY <1>2, <1>7 DEF Generate
<1>8. CASE NoReport
  BY <1>1, <1>8, ClearTabTab DEF NoReport
<1>9. CASE EndReport
  BY <1>1, <1>9, ClearTabTab DEF EndReport
<1>10. CASE CloseTab
  BY <1>10, ClearTabTab DEF CloseTab
<1>11. CASE UseTab
  BY <1>3, <1>4, <1>5, <1>6, <1>7, <1>8, <1>10, <1>11 DEF UseTab, DownUnselected
<1>12. CASE Write
  BY <1>2, <1>9, <1>12 DEF Write, BeginSection, CreateTable
<1>13. CASE Leave
  BY <1>10, <1>13 DEF Leave
<1>14. CASE UseEvidence
  BY <1>2, <1>14 DEF UseEvidence
<1>15. CASE UNCHANGED vars
  BY <1>2, <1>15 DEF vars
<1> QED BY <1>11, <1>12, <1>13, <1>14, <1>15 DEF Next

-----------------------------------------------------------------------------
(* The rows and the marks.                                                 *)

LEMMA FaultEvInv ==
  ASSUME EvInv, UNCHANGED <<rows, marked, gbCase, viewVars, saving, chosen>>,
         faults' \in 0..MaxFaults
  PROVE  EvInv'
<1>1. EvTypeOK'
  BY DEF EvInv, EvTypeOK, viewVars
<1>2. (ViewInv /\ MarksAreChoices /\ BoxInv)'
  BY DEF EvInv, ViewInv, MarksAreChoices, BoxInv, Collides, Namesakes, Twin, viewVars
<1> QED BY <1>1, <1>2 DEF EvInv

LEMMA NextReportEvInv ==
  ASSUME EvInv, [Next]_vars
  PROVE  EvInv'
<1>1. faults \in 0..MaxFaults /\ (Fault => faults' \in 0..MaxFaults)
  BY BoundAssumption DEF EvInv, EvTypeOK, Fault
<1>2. CASE UNCHANGED evVars
  BY <1>2, NextEvInv
<1>3. CASE NoReport
  BY <1>1, <1>3, FaultEvInv DEF NoReport
<1>4. CASE CreateTable
  BY <1>1, <1>4, FaultEvInv DEF CreateTable
<1>5. CASE DownUnselected
  BY <1>1, <1>5, CloseViewsInv DEF DownUnselected
<1>6. CASE Leave
  BY <1>6, NextEvInv DEF Leave, EvNext
<1>7. CASE UseEvidence
  BY <1>7, NextEvInv DEF UseEvidence, EvNext
<1>8. ASSUME UseTab PROVE NoReport \/ DownUnselected \/ UNCHANGED evVars
  BY <1>8 DEF UseTab, TickBox, Customize, UntickBox, SelectSection, Move, Generate, TabOnly
<1>9. ASSUME Write PROVE CreateTable \/ UNCHANGED evVars
  BY <1>9 DEF Write, BeginSection, EndReport
<1> QED BY <1>2, <1>3, <1>4, <1>5, <1>6, <1>7, <1>8, <1>9 DEF Next, vars

-----------------------------------------------------------------------------
(* The report that is being written.                                       *)

DocType ==
  /\ report \in [case : Cases \union {NoCase}, all : BOOLEAN, sections : Seq(Section)]
  /\ query \in Nat /\ before \in SUBSET Row /\ failed \in BOOLEAN

DocInv == DocType /\ WritingInv

LEMMA QueriesOfEntry ==
  ASSUME NEW e \in Entry
  PROVE  /\ Queries(e) \in Seq(Parts) /\ Contents[e.name] \in Seq(Parts)
         /\ \A q \in DOMAIN Queries(e) : Queries(e)[q] \in Range(Contents[e.name])
<1>1. e.name \in Sections /\ Contents[e.name] \in Seq(Parts)
  BY SectionAssumption DEF Entry, SectionTypes
<1>2. CASE e.literal \/ e.name \notin ByIdentity
  BY <1>1, <1>2 DEF Queries, Range
<1>3. CASE ~(e.literal \/ e.name \notin ByIdentity)
  <2>1. Queries(e) = <<>>
    BY <1>3 DEF Queries
  <2> QED BY <1>1, <2>1
<1> QED BY <1>2, <1>3

(* The sections of a report being written, and their entries.              *)
LEMMA SectionsBegun ==
  ASSUME TabInv, DocInv, Generating
  PROVE  /\ report.sections \in Seq(Section) /\ Begun \in Nat /\ Begun <= Len(checked)
         /\ Len(checked) \in Nat /\ DOMAIN report.sections = 1..Begun
         /\ \A k \in 1..Len(checked) : checked[k] \in Entry
         /\ \A k \in 1..Begun : report.sections[k] \in Section /\ SectionInv(k)
<1>1. report.sections \in Seq(Section) /\ checked \in Seq(Entry)
  BY DEF DocInv, DocType, TabInv, TabType
<1>2. /\ Begun \in Nat /\ Len(checked) \in Nat /\ DOMAIN report.sections = 1..Begun
      /\ \A k \in 1..Len(checked) : checked[k] \in Entry
      /\ \A k \in 1..Begun : report.sections[k] \in Section
  BY <1>1, LenProperties, ElementOfSeq DEF Begun
<1>3. Begun <= Len(checked) /\ \A k \in DOMAIN report.sections : SectionInv(k)
  BY DEF DocInv, WritingInv
<1> QED BY <1>1, <1>2, <1>3

(* Where a section is done, each of its subsections was queried.           *)
LEMMA DoneIsQueried ==
  ASSUME TabInv, DocInv, Generating, SectionDone, NEW k \in 1..Begun
  PROVE  Queried(k) = DOMAIN Queries(checked[k])
<1>1. /\ k \in 1..Len(checked) /\ Begun \in Nat /\ checked[k] \in Entry /\ query \in Nat
  BY SectionsBegun DEF DocInv, DocType
<1>2. CASE k < Begun
  BY <1>2 DEF Queried
<1>3. CASE k = Begun
  <2>1. Begun # 0
    BY <1>1, <1>3
  <2>2. Subsections = Queries(checked[k])
    BY <1>3, <2>1 DEF Subsections
  <2>3. Queries(checked[k]) \in Seq(Parts)
    BY <1>1, QueriesOfEntry
  <2>4. DOMAIN Queries(checked[k]) = 1..Len(Queries(checked[k])) /\ Len(Queries(checked[k])) \in Nat
    BY <2>3, LenProperties
  <2>5. query > Len(Queries(checked[k]))
    BY <2>2 DEF SectionDone
  <2>6. \A q \in DOMAIN Queries(checked[k]) : q < query
    BY <1>1, <2>4, <2>5
  <2> QED BY <2>6 DEF Queried
<1> QED BY <1>1, <1>2, <1>3

LEMMA NotWriting ==
  ASSUME DocType', query' = 0
  PROVE  DocInv'
BY DEF DocInv, WritingInv, Generating

LEMMA GenerateDoc ==
  ASSUME EvInv, TabInv, NEW all \in BOOLEAN, Generate(all)
  PROVE  DocInv'
<1>1. /\ report' = [case |-> gbCase, all |-> all, sections |-> <<>>]
      /\ query' = 1 /\ failed' = FALSE
      /\ before' = IF all THEN rows ELSE chosen
      /\ rows' = rows /\ chosen' = chosen /\ gbCase' = gbCase /\ checked' = checked
  BY DEF Generate, evVars, tabVars
<1>2. /\ rows \in SUBSET Row /\ chosen \in SUBSET rows /\ gbCase \in Cases \union {NoCase}
  BY DEF EvInv, EvTypeOK
<1>3. <<>> \in Seq(Section) /\ Len(<<>>) = 0 /\ DOMAIN <<>> = {}
  OBVIOUS
<1>4. DocType'
  BY <1>1, <1>2, <1>3 DEF DocType
<1>5. Begun' = 0 /\ DOMAIN report'.sections = {}
  BY <1>1, <1>3 DEF Begun
<1>6. Begun' <= Len(checked')
  <2>1. Len(checked) \in Nat
    BY LenProperties DEF TabInv, TabType
  <2> QED BY <1>1, <1>5, <2>1
<1>7. report'.case = gbCase' /\ before' \subseteq rows' /\ (report'.all \/ before' = chosen')
  BY <1>1, <1>2
<1>8. WritingInv'
  BY <1>5, <1>6, <1>7 DEF WritingInv
<1> QED BY <1>4, <1>8 DEF DocInv

LEMMA BeginSectionDoc ==
  ASSUME EvInv, TabInv, DocInv, BeginSection
  PROVE  DocInv'
<1>0. PICK n : n = Begun + 1
  OBVIOUS
<1> DEFINE s == [name |-> checked[n].name, rows |-> {}]
<1>1. /\ Generating /\ SectionDone /\ Begun < Len(checked) /\ query' = 1
      /\ UNCHANGED <<evVars, checked, before, failed>>
  BY DEF BeginSection, tabVars
<1>2. /\ report.sections \in Seq(Section) /\ Begun \in Nat
      /\ Len(checked) \in Nat /\ DOMAIN report.sections = 1..Begun
      /\ \A k \in 1..Len(checked) : checked[k] \in Entry
      /\ \A k \in 1..Begun : report.sections[k] \in Section /\ SectionInv(k)
  BY <1>1, SectionsBegun
<1>3. report' = [report EXCEPT !.sections = Append(@, s)]
  BY <1>0 DEF BeginSection
<1>4. n \in 1..Len(checked) /\ s \in Section
  <2>1. n \in 1..Len(checked)
    BY <1>0, <1>1, <1>2
  <2>2. checked[n].name \in Sections
    BY <1>2, <2>1 DEF Entry
  <2> QED BY <2>1, <2>2 DEF Section
<1> HIDE DEF s
<1>5. /\ report \in [case : Cases \union {NoCase}, all : BOOLEAN, sections : Seq(Section)]
      /\ report' \in [case : Cases \union {NoCase}, all : BOOLEAN, sections : Seq(Section)]
      /\ report'.case = report.case /\ report'.all = report.all
      /\ report'.sections = Append(report.sections, s)
  <2>1. report \in [case : Cases \union {NoCase}, all : BOOLEAN, sections : Seq(Section)]
    BY DEF DocInv, DocType
  <2>2. Append(report.sections, s) \in Seq(Section)
    BY <1>2, <1>4, AppendProperties
  <2> QED BY <1>3, <2>1, <2>2
<1>6. /\ Begun' = n /\ DOMAIN report'.sections = 1..n
      /\ \A k \in 1..Begun : report'.sections[k] = report.sections[k]
      /\ report'.sections[n] = s
  BY <1>0, <1>2, <1>4, <1>5, AppendProperties, LenProperties DEF Begun
<1>7. DocType'
  BY <1>1, <1>5 DEF DocInv, DocType
<1>8. /\ report.case = gbCase /\ before \subseteq rows /\ (report.all \/ before = chosen)
  BY <1>1 DEF DocInv, WritingInv
<1>9. ASSUME NEW k \in 1..Begun PROVE SectionInv(k)'
  <2>1. SectionInv(k) /\ Queried(k) = DOMAIN Queries(checked[k])
    BY <1>1, <1>2, DoneIsQueried
  <2>2. Queried(k)' \subseteq Queried(k)
    BY <1>1, <2>1 DEF Queried, Queries
  <2>3. report'.sections[k] = report.sections[k]
    BY <1>6
  <2>4. \A r : Wanted(r)' <=> Wanted(r)
    BY <1>1, <1>5 DEF Wanted, evVars
  <2> QED BY <1>1, <2>1, <2>2, <2>3, <2>4 DEF SectionInv, Queries, evVars
<1>10. SectionInv(n)'
  <2>1. s.name = checked[n].name /\ s.rows = {}
    BY DEF s
  <2>2. Queried(n)' = {}
    <3>1. checked'[n] \in Entry /\ query' = 1 /\ Begun' = n /\ n \in Nat
      BY <1>1, <1>2, <1>4, <1>6
    <3>2. DOMAIN Queries(checked'[n]) \subseteq Nat \ {0}
      BY <3>1, QueriesOfEntry, LenProperties
    <3>3. \A q \in DOMAIN Queries(checked'[n]) : ~(n < Begun') /\ ~(q < query')
      BY <3>1, <3>2
    <3> QED BY <3>3 DEF Queried
  <2> QED BY <1>1, <1>6, <2>1, <2>2 DEF SectionInv
<1>11. \A k \in DOMAIN report'.sections : SectionInv(k)'
  BY <1>0, <1>2, <1>6, <1>9, <1>10
<1>12. Begun' <= Len(checked')
  BY <1>1, <1>4, <1>6
<1>13. WritingInv'
  BY <1>1, <1>5, <1>8, <1>11, <1>12 DEF WritingInv, evVars
<1> QED BY <1>7, <1>13 DEF DocInv

LEMMA CreateTableDoc ==
  ASSUME EvInv, TabInv, DocInv, CreateTable
  PROVE  DocInv'
<1> DEFINE p == Subsections[query]
           done == report' = [report EXCEPT !.sections[Begun].rows = @ \union Reported(p)]
<1>1. /\ Generating /\ ~SectionDone /\ query' = query + 1
      /\ UNCHANGED <<rows, marked, gbCase, chosen, checked, before>>
      /\ (done /\ failed' = failed) \/ (failed' = TRUE /\ report' = report)
  BY DEF CreateTable, tabVars
<1>2. /\ report.sections \in Seq(Section) /\ Begun \in Nat /\ Begun <= Len(checked)
      /\ Len(checked) \in Nat /\ DOMAIN report.sections = 1..Begun
      /\ \A k \in 1..Len(checked) : checked[k] \in Entry
      /\ \A k \in 1..Begun : report.sections[k] \in Section /\ SectionInv(k)
  BY <1>1, SectionsBegun
<1>3. /\ report \in [case : Cases \union {NoCase}, all : BOOLEAN, sections : Seq(Section)]
      /\ query \in Nat \ {0} /\ before \in SUBSET Row /\ rows \in SUBSET Row
      /\ failed \in BOOLEAN
  BY <1>1 DEF DocInv, DocType, Generating, EvInv, EvTypeOK
<1>4. /\ report.case = gbCase /\ before \subseteq rows /\ (report.all \/ before = chosen)
  BY <1>1 DEF DocInv, WritingInv
<1>5. /\ Begun \in 1..Begun /\ Subsections = Queries(checked[Begun])
      /\ query \in DOMAIN Queries(checked[Begun])
      /\ p \in Range(Contents[checked[Begun].name])
  <2>1. query <= Len(Subsections)
    <3>1. Subsections \in Seq(Parts)
      BY <1>2, QueriesOfEntry DEF Subsections
    <3> QED BY <1>1, <1>3, <3>1, LenProperties DEF SectionDone
  <2>2. Begun # 0
    BY <1>3, <2>1 DEF Subsections
  <2>3. Subsections = Queries(checked[Begun]) /\ Begun \in 1..Begun /\ checked[Begun] \in Entry
    BY <1>2, <2>2 DEF Subsections
  <2>4. query \in DOMAIN Queries(checked[Begun])
    BY <1>3, <2>1, <2>3, QueriesOfEntry, LenProperties
  <2> QED BY <2>3, <2>4, QueriesOfEntry
<1> HIDE DEF p
<1>6. CASE failed' = TRUE /\ report' = report
  <2>1. DocType'
    BY <1>1, <1>3, <1>6 DEF DocType
  <2>2. ASSUME NEW k \in 1..Begun PROVE SectionInv(k)'
    <3>1. SectionInv(k)
      BY <1>2
    <3> QED BY <1>1, <1>6, <3>1 DEF SectionInv, Wanted
  <2>3. WritingInv'
    BY <1>1, <1>2, <1>4, <1>6, <2>2 DEF WritingInv, Begun
  <2> QED BY <2>1, <2>3 DEF DocInv
<1>7. CASE done /\ failed' = failed
  <2> DEFINE old == report.sections[Begun]
             new == [old EXCEPT !.rows = @ \union Reported(p)]
  <2>1. /\ report'.case = report.case /\ report'.all = report.all
        /\ report'.sections = [report.sections EXCEPT ![Begun] = new]
        /\ report' = [report EXCEPT !.sections = [report.sections EXCEPT ![Begun] = new]]
    BY <1>3, <1>7
  <2>2. old \in Section /\ Reported(p) \in SUBSET Row
    BY <1>2, <1>3, <1>5 DEF Reported
  <2>3. new \in Section /\ new.name = old.name /\ new.rows = old.rows \union Reported(p)
    <3> HIDE DEF old
    <3> QED BY <2>2 DEF Section
  <2> HIDE DEF done, old, new
  <2>4. /\ report'.sections \in Seq(Section) /\ Len(report'.sections) = Begun
        /\ DOMAIN report'.sections = 1..Begun
        /\ \A k \in 1..Begun : report'.sections[k] = IF k = Begun THEN new ELSE report.sections[k]
    BY <1>2, <1>5, <2>1, <2>3, ExceptSeq, LenProperties DEF Begun
  <2>5. report' \in [case : Cases \union {NoCase}, all : BOOLEAN, sections : Seq(Section)]
    BY <1>3, <2>1, <2>4
  <2>6. DocType'
    BY <1>1, <1>3, <1>7, <2>5 DEF DocType
  <2>7. \A r : Wanted(r)' <=> Wanted(r)
    BY <1>1, <2>1 DEF Wanted
  <2>8. Begun' = Begun /\ checked' = checked /\ rows' = rows /\ before' = before
    BY <1>1, <2>4 DEF Begun
  <2>9. ASSUME NEW k \in 1..Begun, k # Begun PROVE SectionInv(k)'
    <3>1. SectionInv(k) /\ k < Begun /\ report'.sections[k] = report.sections[k]
      BY <1>2, <2>4, <2>9
    <3>2. Queried(k)' = Queried(k)
      BY <2>8, <3>1 DEF Queried, Queries
    <3> QED BY <1>7, <2>7, <2>8, <3>1, <3>2 DEF SectionInv, Queries
  <2>10. SectionInv(Begun)'
    <3>1. SectionInv(Begun) /\ report'.sections[Begun] = new /\ old = report.sections[Begun]
      BY <1>2, <1>5, <2>4 DEF old
    <3>2. new.name = checked'[Begun].name
      BY <2>3, <2>8, <3>1 DEF SectionInv
    <3>3. ASSUME NEW r \in new.rows
          PROVE  r \in rows' /\ Wanted(r)' /\ r.part \in Range(Contents[new.name])
      <4>1. CASE r \in old.rows
        BY <2>3, <2>7, <2>8, <3>1, <4>1 DEF SectionInv
      <4>2. CASE r \in Reported(p)
        BY <1>4, <1>5, <2>7, <2>8, <3>2, <4>2 DEF Reported, Wanted
      <4> QED BY <2>3, <4>1, <4>2
    <3>4. ASSUME ~failed', NEW q \in Queried(Begun)', NEW r \in before',
                 r.part = Queries(checked[Begun])[q], Wanted(r)
          PROVE  r \in new.rows
      <4>1. q \in DOMAIN Queries(checked[Begun]) /\ q < query + 1
        BY <1>1, <1>2, <2>8, <3>4 DEF Queried, Queries
      <4>2. q \in Nat
        BY <1>2, <1>5, <4>1, QueriesOfEntry, LenProperties
      <4>3. CASE q < query
        <5>1. q \in Queried(Begun)
          BY <4>1, <4>3 DEF Queried
        <5> QED BY <1>7, <2>3, <2>8, <3>1, <3>4, <5>1 DEF SectionInv
      <4>4. CASE q = query
        <5>1. r.part = p
          BY <1>5, <3>4, <4>4 DEF p
        <5>2. r \in Reported(p)
          BY <1>4, <2>8, <3>4, <5>1 DEF Reported, Wanted
        <5> QED BY <2>3, <5>2
      <4> QED BY <1>3, <4>1, <4>2, <4>3, <4>4
    <3> QED BY <2>7, <2>8, <3>1, <3>2, <3>3, <3>4 DEF SectionInv, Queries
  <2>11. \A k \in DOMAIN report'.sections : SectionInv(k)'
    BY <2>4, <2>8, <2>9, <2>10
  <2>12. WritingInv'
    BY <1>1, <1>2, <1>4, <2>1, <2>8, <2>11 DEF WritingInv
  <2> QED BY <2>6, <2>12 DEF DocInv
<1> QED BY <1>1, <1>6, <1>7

(* Rows that come while a report is written are not in its way.            *)
LEMMA InsertRecordDoc ==
  ASSUME TabInv, DocInv, NEW r \in Row, InsertRecord(r), UNCHANGED <<tabVars, docVars>>
  PROVE  DocInv'
<1>1. /\ UNCHANGED <<marked, gbCase, chosen, checked, report, query, before, failed>>
      /\ rows \subseteq rows'
  BY DEF InsertRecord, tabVars, docVars
<1>2. DocType'
  BY <1>1 DEF DocInv, DocType
<1>3. ASSUME Generating, NEW k \in DOMAIN report.sections PROVE SectionInv(k)'
  <2>1. SectionInv(k)
    BY <1>3 DEF DocInv, WritingInv
  <2>2. Queried(k)' = Queried(k) /\ \A t : Wanted(t)' <=> Wanted(t)
    BY <1>1 DEF Queried, Queries, Begun, Wanted
  <2> QED BY <1>1, <2>1, <2>2 DEF SectionInv, Queries
<1>4. WritingInv'
  BY <1>1, <1>3 DEF DocInv, WritingInv, Generating, Begun
<1> QED BY <1>2, <1>4 DEF DocInv

LEMMA NextDocInv ==
  ASSUME EvInv, TabInv, DocInv, [Next]_vars
  PROVE  DocInv'
<1>1. DocType /\ (query = 0 \/ Generating)
  BY DEF DocInv, Generating
<1>2. CASE UNCHANGED docVars /\ ~Generating
  BY <1>1, <1>2, NotWriting DEF docVars, DocType
<1>3. CASE CloseDocument
  <2>1. NoCase \in Cases \union {NoCase} /\ <<>> \in Seq(Section)
    OBVIOUS
  <2>2. DocType' /\ query' = 0
    BY <1>3, <2>1 DEF CloseDocument, Closed, DocType
  <2> QED BY <2>2, NotWriting
<1>4. CASE UseTab
  <2>1. ASSUME NEW all \in BOOLEAN, Generate(all) PROVE DocInv'
    BY <2>1, GenerateDoc
  <2>2. CASE DownUnselected
    BY <1>3, <2>2 DEF DownUnselected, CloseTab
  <2>3. CASE NoReport
    BY <1>2, <2>3 DEF NoReport, Idle
  <2>4. ASSUME NEW b \in Boxes, NEW s \in DialogLeaves(b), TickBox(b, s) \/ Customize(b, s)
        PROVE  DocInv'
    BY <1>2, <2>4 DEF TickBox, Customize, Idle, TabOnly
  <2>5. ASSUME NEW b \in Boxes, UntickBox(b) PROVE DocInv'
    BY <1>2, <2>5 DEF UntickBox, Idle, TabOnly
  <2>6. ASSUME NEW k \in DOMAIN list, SelectSection(k) \/ Move(k) PROVE DocInv'
    BY <1>2, <2>6 DEF SelectSection, Move, Idle, TabOnly
  <2> QED BY <1>4, <2>1, <2>2, <2>3, <2>4, <2>5, <2>6 DEF UseTab
<1>5. CASE Write
  <2>1. CASE EndReport
    BY <1>3, <2>1 DEF EndReport
  <2> QED BY <1>5, <2>1, BeginSectionDoc, CreateTableDoc DEF Write
<1>6. CASE Leave
  BY <1>3, <1>6 DEF Leave, CloseTab
<1>7. CASE UseEvidence
  <2>1. CASE ~Generating
    BY <1>2, <1>7, <2>1 DEF UseEvidence
  <2>2. CASE Generating
    BY <1>7, <2>2, InsertRecordDoc DEF UseEvidence
  <2> QED BY <2>1, <2>2
<1>8. CASE UNCHANGED vars
  <2>1. CASE ~Generating
    BY <1>2, <1>8, <2>1 DEF vars
  <2>2. CASE Generating
    <3>1. UNCHANGED <<rows, marked, gbCase, chosen, checked, report, query, before, failed>>
      BY <1>8 DEF vars, evVars, tabVars, docVars
    <3>2. DocType'
      BY <1>1, <3>1 DEF DocType
    <3>3. ASSUME NEW k \in DOMAIN report.sections PROVE SectionInv(k)'
      <4>1. SectionInv(k)
        BY <2>2 DEF DocInv, WritingInv
      <4> QED BY <3>1, <4>1 DEF SectionInv, Queried, Queries, Begun, Wanted
    <3>4. WritingInv'
      BY <2>2, <3>1, <3>3 DEF DocInv, WritingInv, Begun
    <3> QED BY <3>2, <3>4 DEF DocInv
  <2> QED BY <2>1, <2>2
<1> QED BY <1>4, <1>5, <1>6, <1>7, <1>8 DEF Next

-----------------------------------------------------------------------------
(* Together.                                                               *)

LEMMA ReportInvParts == ReportInv <=> EvInv /\ TabInv /\ DocInv
BY DEF ReportInv, TypeOK, EvInv, TabInv, TabType, DocInv, DocType

LEMMA InitReportInv == Init => ReportInv
<1> SUFFICES ASSUME Init PROVE ReportInv
  OBVIOUS
<1>1. EvInv
  BY InitEvInv DEF Init
<1>2. /\ <<>> \in Seq(Entry) /\ <<>> \in Seq(Sections) /\ <<>> \in Seq(Section)
      /\ 0 \in 0..Len(<<>>) /\ NoCase \in Cases \union {NoCase}
  OBVIOUS
<1>3. TabType /\ DocType
  BY <1>2 DEF Init, TabType, DocType, Closed
<1>4. ListInv
  BY DEF Init, ListInv, ListShowsChecked, Names, BoxesFollowList, Once, Literal
<1>5. WritingInv
  BY DEF Init, WritingInv, Generating
<1> QED BY <1>1, <1>3, <1>4, <1>5, ReportInvParts DEF TabInv, DocInv

LEMMA NextReportInv == ReportInv /\ [Next]_vars => ReportInv'
<1> SUFFICES ASSUME ReportInv, [Next]_vars PROVE ReportInv'
  OBVIOUS
<1>1. EvInv /\ TabInv /\ DocInv
  BY ReportInvParts
<1>2. EvInv' /\ TabInv' /\ DocInv'
  BY <1>1, NextReportEvInv, NextTabInv, NextDocInv
<1> QED BY <1>2 DEF ReportInv, TypeOK, EvInv, TabInv, TabType, DocInv, DocType

(* When a report is written, each of its sections says what was chosen:    *)
(* its subsections were all queried, and the marks that a report of        *)
(* favourites goes by are the choices.                                     *)
LEMMA WrittenAsChosen == ReportInv => ReportIsAsChosen
<1> SUFFICES ASSUME ReportInv, Written, ~failed, NEW k \in DOMAIN report.sections,
                    ~(moved /\ report.sections[k].name \in ByIdentity)
             PROVE  LET s == report.sections[k]
                        due == {r \in before : r.case = report.case
                                               /\ r.part \in Range(Contents[s.name])} IN
                    \/ report.all /\ due \subseteq s.rows
                    \/ /\ ~report.all /\ {r \in due : ~Collides(r)} \subseteq s.rows
                       /\ \A r \in s.rows : /\ r.case = report.case
                                           /\ Namesakes(r) \intersect before # {}
  BY DEF ReportIsAsChosen
<1> DEFINE s == report.sections[k]
           due == {r \in before : r.case = report.case /\ r.part \in Range(Contents[s.name])}
           e == checked[k]
<1>1. EvInv /\ TabInv /\ DocInv /\ Generating /\ SectionDone
  BY ReportInvParts DEF Written
<1>2. k \in 1..Begun /\ e \in Entry /\ SectionInv(k) /\ Queried(k) = DOMAIN Queries(e)
  <2>1. k \in 1..Begun /\ SectionInv(k) /\ k \in 1..Len(checked) /\ checked[k] \in Entry
    BY <1>1, SectionsBegun
  <2> QED BY <1>1, <2>1, DoneIsQueried
<1>3. s.name = e.name
  BY <1>2 DEF SectionInv
<1>4. Queries(e) = Contents[e.name]
  <2>1. k \in DOMAIN checked
    BY <1>1, <1>2, SectionsBegun, LenProperties DEF TabInv, TabType
  <2>2. e.literal \/ moved
    BY <1>1, <2>1 DEF TabInv, ListInv, Literal
  <2> QED BY <1>3, <2>2 DEF Queries
<1>5. \A r \in s.rows : r \in rows /\ Wanted(r) /\ r.part \in Range(Contents[s.name])
  BY <1>2 DEF SectionInv
<1>6. ASSUME NEW r \in due, Wanted(r) PROVE r \in s.rows
  <2>1. PICK q \in DOMAIN Contents[e.name] : r.part = Contents[e.name][q]
    BY <1>3 DEF Range
  <2> QED BY <1>2, <1>4, <1>6, <2>1 DEF SectionInv
<1>7. before \subseteq rows /\ (report.all \/ before = chosen)
  BY <1>1 DEF DocInv, WritingInv
<1>8. MarksAreChoices
  BY <1>1 DEF EvInv
<1> HIDE DEF s, e
<1>9. CASE report.all
  BY <1>6, <1>9 DEF Wanted, s
<1>10. CASE ~report.all
  <2>1. ASSUME NEW r \in s.rows
        PROVE  r.case = report.case /\ Namesakes(r) \intersect before # {}
    BY <1>5, <1>7, <1>8, <1>10 DEF Wanted, MarksAreChoices
  <2>2. ASSUME NEW r \in due, ~Collides(r) PROVE r \in s.rows
    <3>1. r \in before /\ r.case = report.case
      OBVIOUS
    <3>2. r \in marked
      BY <1>7, <1>8, <1>10, <2>2, <3>1 DEF MarksAreChoices
    <3> QED BY <1>6, <3>1, <3>2 DEF Wanted
  <2> HIDE DEF due
  <2>3. {r \in due : ~Collides(r)} \subseteq s.rows
    BY <2>2
  <2> QED BY <1>10, <2>1, <2>3 DEF s, due
<1> QED BY <1>9, <1>10

(* Every variable of the Report tab has its type, the document included.   *)
THEOREM ReportTypeCorrect == Spec => []TypeOK
<1>1. ReportInv => TypeOK
  BY DEF ReportInv
<1> QED BY <1>1, InitReportInv, NextReportInv, PTL DEF Spec

(* The two lists that populateList and the listeners of Up and Down change *)
(* one by one have the same sections in the same order.                    *)
THEOREM ListIsSelection == Spec => []ListShowsChecked
<1>1. ReportInv => ListShowsChecked
  BY DEF ReportInv, ListInv
<1> QED BY <1>1, InitReportInv, NextReportInv, PTL DEF Spec

(* The check box of a section without a dialog tells whether it is listed, *)
(* whatever dialogs with whatever options were accepted, as far as no      *)
(* report emptied the list since (btnsellistener, btnGenerateReport).      *)
THEOREM BoxesTellSections == Spec => []BoxesFollowList
<1>1. ReportInv => BoxesFollowList
  BY DEF ReportInv, ListInv
<1> QED BY <1>1, InitReportInv, NextReportInv, PTL DEF Spec

(* A report says what was chosen when it was begun, whatever rows come     *)
(* while it is written (generatePdf, addContent, CreateTable).             *)
THEOREM ReportsAreAsChosen == Spec => []ReportIsAsChosen
<1> QED BY WrittenAsChosen, InitReportInv, NextReportInv, PTL DEF Spec
=============================================================================
