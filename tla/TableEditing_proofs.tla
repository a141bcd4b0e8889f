------------------------ MODULE TableEditing_proofs -------------------------
(***************************************************************************)
(* Spill errors are exact whenever a change is with everybody.             *)
(*                                                                         *)
(* A user's own operations check all spills when they are done: one pass   *)
(* over the tables, each checked against the cells and the tables before   *)
(* it, is enough, because an earlier table never looks at a later one.     *)
(* Others check nothing and take the flags as they come.  So what is       *)
(* proved is, in this order: what the operators on lists of tables do; one *)
(* pass is enough; every operation of a user's own transaction leaves the  *)
(* flags exact or nothing to share; and the invariant of the users' steps. *)
(***************************************************************************)
EXTENDS TableEditing, SequenceTheorems, WellFoundedInduction, TLAPS

-----------------------------------------------------------------------------
(* Numbers, and what Min and Max pick.                                     *)

LEMMA LeastExists ==
  ASSUME NEW T \in SUBSET Nat, T # {}
  PROVE  \E m \in T : \A k \in T : m <= k
<1> DEFINE R == OpToRel(<, Nat)
<1>1. IsWellFoundedOn(R, Nat)
  BY NatLessThanWellFounded
<1>2. \E m \in T : \A k \in T : ~ (<<k, m>> \in R)
  <2> HIDE DEF R
  <2> QED BY <1>1, WFMin
<1>3. \A m \in T, k \in T : <<k, m>> \in R <=> k < m
  BY DEF OpToRel
<1> HIDE DEF R
<1>4. PICK m \in T : \A k \in T : ~ (<<k, m>> \in R)
  BY <1>2
<1>5. \A k \in T : ~ (k < m)
  BY <1>3, <1>4
<1> QED
  BY <1>5

(* Induction from 0 to n; the property is a set, not an operator.          *)
LEMMA InductionTo ==
  ASSUME NEW n \in Nat, NEW G, 0 \in G,
         \A i \in 1..n : i - 1 \in G => i \in G
  PROVE  n \in G
<1> SUFFICES ASSUME n \notin G PROVE FALSE
  OBVIOUS
<1> DEFINE B == {i \in 0..n : i \notin G}
<1>1. B \in SUBSET Nat /\ B # {}
  OBVIOUS
<1>2. PICK m \in B : \A k \in B : m <= k
  <2> HIDE DEF B
  <2> QED BY <1>1, LeastExists
<1>3. m \in 1..n /\ m - 1 \in 0..n
  BY <1>2
<1> QED
  BY <1>2, <1>3

LEMMA MinIsLeast ==
  ASSUME NEW n \in Nat, NEW S \in SUBSET (1..n), S # {}
  PROVE  Min(S) \in S /\ \A k \in S : Min(S) <= k
<1>1. \E m \in S : \A k \in S : m <= k
  BY LeastExists
<1> QED
  BY <1>1 DEF Min

LEMMA MaxIsGreatest ==
  ASSUME NEW n \in Nat, NEW S \in SUBSET (1..n), S # {}
  PROVE  Max(S) \in S /\ \A k \in S : Max(S) >= k
<1> DEFINE U == {j \in 0..n : n - j \in S}
<1>1. PICK t \in S : t \in 1..n
  OBVIOUS
<1>2. n - t \in U /\ U \in SUBSET Nat
  BY <1>1
<1>3. PICK m \in U : \A k \in U : m <= k
  <2> HIDE DEF U
  <2> QED BY <1>2, LeastExists
<1>4. ASSUME NEW k \in S PROVE n - m >= k
  <2>1. k \in 1..n /\ n - (n - k) = k
    OBVIOUS
  <2>2. n - k \in U
    BY <2>1
  <2> QED BY <1>3, <2>1, <2>2
<1>5. n - m \in S
  BY <1>3
<1> QED
  BY <1>4, <1>5 DEF Max

(* SelectInSeq: the first index at which the test holds, or 0.             *)
First(marks) == IF marks # {} THEN Min(marks) ELSE 0

LEMMA FirstIsLeast ==
  ASSUME NEW n \in Nat, NEW marks \in SUBSET (1..n)
  PROVE  /\ First(marks) \in 0..n
         /\ First(marks) = 0 <=> marks = {}
         /\ First(marks) # 0 => First(marks) \in marks
         /\ \A k \in marks : First(marks) <= k
<1>1. CASE marks = {}
  BY <1>1 DEF First
<1>2. CASE marks # {}
  <2>1. Min(marks) \in marks /\ \A k \in marks : Min(marks) <= k
    BY <1>2, MinIsLeast
  <2>2. First(marks) = Min(marks)
    BY <1>2 DEF First
  <2>3. Min(marks) \in 1..n
    BY <2>1
  <2> QED BY <1>2, <2>1, <2>2, <2>3
<1> QED BY <1>1, <1>2

LEMMA IndexOfIsFirst ==
  ASSUME NEW s, NEW p, Len(s.tables) \in Nat
  PROVE  /\ IndexOf(s, p) \in 0..Len(s.tables)
         /\ IndexOf(s, p) # 0 => s.tables[IndexOf(s, p)].pos = p
         /\ IndexOf(s, p) = 0 => \A i \in 1..Len(s.tables) : s.tables[i].pos # p
<1> DEFINE marks == {i \in 1..Len(s.tables) : s.tables[i].pos = p}
<1>1. IndexOf(s, p) = First(marks)
  BY Zenon DEF IndexOf, SelectInSeq, First
<1>2. marks \in SUBSET (1..Len(s.tables))
  OBVIOUS
<1>3. /\ First(marks) \in 0..Len(s.tables)
      /\ First(marks) = 0 <=> marks = {}
      /\ First(marks) # 0 => First(marks) \in marks
  <2> HIDE DEF marks
  <2> QED BY <1>2, FirstIsLeast
<1> QED
  BY <1>1, <1>3

LEMMA WithinIsIndex ==
  ASSUME NEW s, NEW p, Len(s.tables) \in Nat
  PROVE  Within(s, p) \in 0..Len(s.tables)
<1> DEFINE marks == {i \in 1..Len(s.tables) : p \in Output(s.tables[i])}
<1>1. Within(s, p) = First(marks)
  BY Zenon DEF Within, SelectInSeq, First
<1>2. marks \in SUBSET (1..Len(s.tables))
  OBVIOUS
<1> HIDE DEF marks
<1> QED
  BY <1>1, <1>2, FirstIsLeast

-----------------------------------------------------------------------------
(* Well-formed tables, sheets and transactions: records with their fields, *)
(* a list of tables, cells numbered by integers.                           *)

IsTable(t) ==
  /\ t = [pos |-> t.pos, rows |-> t.rows, kind |-> t.kind, name |-> t.name,
          columns |-> t.columns, spill |-> t.spill, single |-> t.single, made |-> t.made]
  /\ t.spill \in BOOLEAN

IsTableList(q) == \E S : q \in Seq(S) /\ \A t \in S : IsTable(t)

IsSheet(s) ==
  /\ s = [cells |-> s.cells, tables |-> s.tables]
  /\ s.cells = [p \in DOMAIN s.cells |-> s.cells[p]] /\ DOMAIN s.cells \subseteq Int
  /\ IsTableList(s.tables)

IsPending(T) ==
  /\ T = [sheet |-> T.sheet, forward |-> T.forward, reverse |-> T.reverse]
  /\ IsSheet(T.sheet)

LEMMA TableListParts ==
  ASSUME NEW q, IsTableList(q)
  PROVE  /\ Len(q) \in Nat /\ DOMAIN q = 1..Len(q) /\ q = [i \in 1..Len(q) |-> q[i]]
         /\ \A i \in 1..Len(q) : IsTable(q[i])
<1>1. PICK S : q \in Seq(S) /\ \A t \in S : IsTable(t)
  BY DEF IsTableList
<1>2. \A i \in 1..Len(q) : q[i] \in S
  BY <1>1
<1>3. Len(q) \in Nat /\ DOMAIN q = 1..Len(q) /\ q = [i \in 1..Len(q) |-> q[i]]
  BY <1>1, LenProperties
<1> QED
  BY <1>1, <1>2, <1>3

(* What makes a list of tables.                                            *)
LEMMA TableListMade ==
  ASSUME NEW n \in Nat, NEW q, q = [i \in 1..n |-> q[i]], \A i \in 1..n : IsTable(q[i])
  PROVE  IsTableList(q) /\ Len(q) = n
<1> DEFINE S == {q[i] : i \in 1..n}
<1>1. q \in [1..n -> S]
  <2>1. \A i \in 1..n : q[i] \in S
    OBVIOUS
  <2> HIDE DEF S
  <2> QED BY <2>1
<1>2. \A t \in S : IsTable(t)
  OBVIOUS
<1> HIDE DEF S
<1>3. q \in Seq(S) /\ Len(q) = n
  BY <1>1
<1> QED
  BY <1>2, <1>3 DEF IsTableList

LEMMA ConcatTableLists ==
  ASSUME NEW q, NEW r, IsTableList(q), IsTableList(r)
  PROVE  IsTableList(q \o r) /\ Len(q \o r) = Len(q) + Len(r)
<1>1. PICK S : q \in Seq(S) /\ \A t \in S : IsTable(t)
  BY DEF IsTableList
<1>2. PICK U : r \in Seq(U) /\ \A t \in U : IsTable(t)
  BY DEF IsTableList
<1> DEFINE V == S \cup U
<1>3. q \in Seq(V) /\ r \in Seq(V) /\ \A t \in V : IsTable(t)
  BY <1>1, <1>2
<1> HIDE DEF V
<1>4. q \o r \in Seq(V) /\ Len(q \o r) = Len(q) + Len(r)
  BY <1>3, ConcatProperties
<1> QED
  BY <1>3, <1>4 DEF IsTableList

LEMMA SubTableList ==
  ASSUME NEW q, IsTableList(q), NEW lo \in 1..(Len(q) + 1), NEW hi \in 0..Len(q)
  PROVE  IsTableList(SubSeq(q, lo, hi))
         /\ Len(SubSeq(q, lo, hi)) = (IF lo <= hi THEN hi - lo + 1 ELSE 0)
<1>1. PICK S : q \in Seq(S) /\ \A t \in S : IsTable(t)
  BY DEF IsTableList
<1>2. Len(q) \in Nat
  BY TableListParts
<1>3. SubSeq(q, lo, hi) \in Seq(S)
      /\ Len(SubSeq(q, lo, hi)) = (IF lo <= hi THEN hi - lo + 1 ELSE 0)
  BY <1>1, <1>2, SubSeqProperties
<1> QED
  BY <1>1, <1>3 DEF IsTableList

LEMMA SingleTableList ==
  ASSUME NEW t, IsTable(t)
  PROVE  IsTableList(<<t>>) /\ Len(<<t>>) = 1 /\ <<t>>[1] = t
<1>1. <<t>> \in Seq({t}) /\ Len(<<t>>) = 1 /\ <<t>>[1] = t
  OBVIOUS
<1>2. \E S : <<t>> \in Seq(S) /\ \A u \in S : IsTable(u)
  <2> DEFINE S == {t}
  <2>1. \A u \in S : u = t
    OBVIOUS
  <2>2. <<t>> \in Seq(S)
    BY <1>1
  <2>3. \A u \in S : IsTable(u)
    <3> HIDE DEF S
    <3> QED BY <2>1
  <2> HIDE DEF S
  <2> QED BY <2>2, <2>3
<1> QED BY <1>1, <1>2 DEF IsTableList

LEMMA InsertAtTables ==
  ASSUME NEW q, IsTableList(q), NEW t, IsTable(t), NEW i \in 1..(Len(q) + 1)
  PROVE  IsTableList(InsertAt(q, i, t)) /\ Len(InsertAt(q, i, t)) = Len(q) + 1
<1> DEFINE x == SubSeq(q, 1, i - 1)
           y == SubSeq(q, i, Len(q))
<1>1. Len(q) \in Nat
  BY TableListParts
<1>2. IsTableList(x) /\ Len(x) = i - 1
  BY <1>1, SubTableList
<1>3. IsTableList(y) /\ Len(y) = Len(q) - i + 1
  BY <1>1, SubTableList
<1> HIDE DEF x, y
<1>4. IsTableList(x \o <<t>>) /\ Len(x \o <<t>>) = i
  BY <1>1, <1>2, SingleTableList, ConcatTableLists
<1>5. IsTableList((x \o <<t>>) \o y) /\ Len((x \o <<t>>) \o y) = Len(q) + 1
  BY <1>1, <1>3, <1>4, ConcatTableLists
<1> QED
  BY <1>5 DEF InsertAt, x, y

LEMMA RemoveAtTables ==
  ASSUME NEW q, IsTableList(q), NEW i \in 1..Len(q)
  PROVE  IsTableList(RemoveAt(q, i)) /\ Len(RemoveAt(q, i)) = Len(q) - 1
<1> DEFINE x == SubSeq(q, 1, i - 1)
           y == SubSeq(q, i + 1, Len(q))
<1>1. Len(q) \in Nat
  BY TableListParts
<1>2. IsTableList(x) /\ Len(x) = i - 1
  BY <1>1, SubTableList
<1>3. IsTableList(y) /\ Len(y) = Len(q) - i
  BY <1>1, SubTableList
<1> HIDE DEF x, y
<1>4. IsTableList(x \o y) /\ Len(x \o y) = Len(q) - 1
  BY <1>1, <1>2, <1>3, ConcatTableLists
<1> QED
  BY <1>4 DEF RemoveAt, x, y

LEMMA ReplaceAtTables ==
  ASSUME NEW q, IsTableList(q), NEW t, IsTable(t), NEW i \in 1..Len(q)
  PROVE  /\ IsTableList(ReplaceAt(q, i, t)) /\ Len(ReplaceAt(q, i, t)) = Len(q)
         /\ \A k \in 1..Len(q) : ReplaceAt(q, i, t)[k] = IF k = i THEN t ELSE q[k]
<1> DEFINE r == ReplaceAt(q, i, t)
<1>1. Len(q) \in Nat /\ q = [k \in 1..Len(q) |-> q[k]] /\ \A k \in 1..Len(q) : IsTable(q[k])
  BY TableListParts
<1>2. r = [k \in 1..Len(q) |-> IF k = i THEN t ELSE q[k]]
  BY <1>1 DEF ReplaceAt
<1>3. /\ r = [k \in 1..Len(q) |-> r[k]]
      /\ \A k \in 1..Len(q) : r[k] = IF k = i THEN t ELSE q[k]
  <2> HIDE DEF r
  <2> QED BY <1>2
<1>4. \A k \in 1..Len(q) : IsTable(r[k])
  BY <1>1, <1>3
<1> HIDE DEF r
<1>5. IsTableList(r) /\ Len(r) = Len(q)
  BY <1>1, <1>3, <1>4, TableListMade
<1> QED
  BY <1>3, <1>5 DEF r

(* Putting a table back where it was changes nothing.                      *)
LEMMA PutBack ==
  ASSUME NEW q, IsTableList(q), NEW i \in 1..Len(q)
  PROVE  InsertAt(RemoveAt(q, i), i, q[i]) = q
<1>1. PICK S : q \in Seq(S) /\ \A t \in S : IsTable(t)
  BY DEF IsTableList
<1>2. Len(q) \in Nat /\ q[i] \in S
  BY <1>1, TableListParts
<1> DEFINE x == SubSeq(q, 1, i - 1)
           y == SubSeq(q, i + 1, Len(q))
           r == x \o y
<1>3. /\ x \in Seq(S) /\ Len(x) = i - 1 /\ \A k \in 1..(i - 1) : x[k] = q[k]
      /\ y \in Seq(S) /\ Len(y) = Len(q) - i /\ \A k \in 1..(Len(q) - i) : y[k] = q[i + k]
  BY <1>1, <1>2, SubSeqProperties
<1> HIDE DEF x, y
<1>4. /\ r \in Seq(S) /\ Len(r) = Len(q) - 1
      /\ \A k \in 1..(Len(q) - 1) : r[k] = IF k < i THEN q[k] ELSE q[k + 1]
  <2>1. /\ r \in Seq(S) /\ Len(r) = Len(x) + Len(y)
        /\ \A k \in 1..(Len(x) + Len(y)) : r[k] = IF k <= Len(x) THEN x[k] ELSE y[k - Len(x)]
    BY <1>3, ConcatProperties
  <2> HIDE DEF r
  <2>2. ASSUME NEW k \in 1..(Len(q) - 1) PROVE r[k] = IF k < i THEN q[k] ELSE q[k + 1]
    <3>1. CASE k < i
      BY <1>2, <1>3, <2>1, <3>1, SMTT(30)
    <3>2. CASE ~ (k < i)
      <4>1. r[k] = y[k - (i - 1)] /\ k - (i - 1) \in 1..(Len(q) - i)
        BY <1>2, <1>3, <2>1, <3>2
      <4>2. i + (k - (i - 1)) = k + 1
        BY <1>2
      <4> QED BY <1>3, <3>2, <4>1, <4>2
    <3> QED BY <3>1, <3>2
  <2> QED BY <1>2, <1>3, <2>1, <2>2
<1> HIDE DEF r
<1> DEFINE u == SubSeq(r, 1, i - 1)
           v == SubSeq(r, i, Len(r))
           w == u \o <<q[i]>>
<1>5. /\ u \in Seq(S) /\ Len(u) = i - 1 /\ \A k \in 1..(i - 1) : u[k] = q[k]
      /\ v \in Seq(S) /\ Len(v) = Len(q) - i /\ \A k \in 1..(Len(q) - i) : v[k] = q[i + k]
  BY <1>2, <1>4, SubSeqProperties
<1> HIDE DEF u, v
<1>6. w \in Seq(S) /\ Len(w) = i /\ \A k \in 1..i : w[k] = q[k]
  BY <1>2, <1>5, ConcatProperties
<1> HIDE DEF w
<1> DEFINE z == w \o v
<1>7. z \in Seq(S) /\ Len(z) = Len(q) /\ \A k \in 1..Len(q) : z[k] = q[k]
  <2>1. /\ z \in Seq(S) /\ Len(z) = Len(w) + Len(v)
        /\ \A k \in 1..(Len(w) + Len(v)) : z[k] = IF k <= Len(w) THEN w[k] ELSE v[k - Len(w)]
    BY <1>5, <1>6, ConcatProperties
  <2> HIDE DEF z
  <2>2. Len(z) = Len(q) /\ \A k \in 1..Len(q) : z[k] = IF k <= i THEN w[k] ELSE v[k - i]
    BY <1>2, <1>5, <1>6, <2>1
  <2>3. ASSUME NEW k \in 1..Len(q), ~ (k <= i) PROVE z[k] = q[k]
    <3>1. k - i \in 1..(Len(q) - i) /\ i + (k - i) = k
      BY <1>2, <2>3
    <3> QED BY <1>5, <2>2, <2>3, <3>1
  <2>4. ASSUME NEW k \in 1..Len(q), k <= i PROVE z[k] = q[k]
    <3>1. k \in 1..i
      BY <1>2, <2>4
    <3> QED BY <1>6, <2>2, <2>4, <3>1
  <2> QED BY <2>1, <2>2, <2>3, <2>4
<1>8. z = q
  <2> HIDE DEF z
  <2> QED BY <1>1, <1>7, SeqEqual
<1> QED
  BY <1>8 DEF InsertAt, RemoveAt, u, v, w, r, x, y

-----------------------------------------------------------------------------
(* Sheets.                                                                 *)

LEMMA InsertBeforeType ==
  ASSUME NEW q, IsTableList(q), NEW t, IsTable(t), NEW index \in 1..(Len(q) + 1)
  PROVE  IsTableList(InsertBefore(q, index, t))
<1> DEFINE marks == {i \in 1..Len(q) : q[i].pos = t.pos}
           old == First(marks)
<1>1. InsertBefore(q, index, t) =
        IF old = 0 THEN InsertAt(q, index, t)
        ELSE InsertAt(RemoveAt(q, old), IF index > old THEN index - 1 ELSE index, t)
  BY Zenon DEF InsertBefore, SelectInSeq, First
<1>2. Len(q) \in Nat
  BY TableListParts
<1>3. old \in 0..Len(q)
  <2>1. marks \in SUBSET (1..Len(q))
    OBVIOUS
  <2> HIDE DEF marks
  <2> QED BY <1>2, <2>1, FirstIsLeast
<1> HIDE DEF old
<1>4. CASE old = 0
  BY <1>1, <1>4, InsertAtTables
<1>5. CASE old # 0
  <2> DEFINE at == IF index > old THEN index - 1 ELSE index
  <2>1. IsTableList(RemoveAt(q, old)) /\ Len(RemoveAt(q, old)) = Len(q) - 1
    BY <1>2, <1>3, <1>5, RemoveAtTables
  <2>2. at \in 1..(Len(RemoveAt(q, old)) + 1)
    BY <1>2, <1>3, <1>5, <2>1
  <2> HIDE DEF at
  <2>3. IsTableList(InsertAt(RemoveAt(q, old), at, t))
    BY <2>1, <2>2, InsertAtTables
  <2> QED BY <1>1, <1>5, <2>3 DEF at
<1> QED
  BY <1>4, <1>5

(* The binary search ends at an index of the list, sorted or not.          *)
IsProbe(f, m, q, t) ==
  f = [size \in 0..m |-> [base \in Nat |->
         IF size <= 1 THEN base
         ELSE f[size - size \div 2][IF q[base + size \div 2].pos > t.pos
                                      THEN base ELSE base + size \div 2]]]

LEMMA Halves ==
  ASSUME NEW size \in Nat, size > 1
  PROVE  /\ size \div 2 \in Nat /\ size \div 2 >= 1 /\ size \div 2 < size
         /\ size - size \div 2 \in 1..(size - 1)
OBVIOUS

LEMMA ProbeExists ==
  ASSUME NEW q, NEW t, NEW n \in Nat
  PROVE  \E f : IsProbe(f, n, q, t)
<1> DEFINE G == {m \in 0..n : \E f : IsProbe(f, m, q, t)}
           Following(f, size) ==
             [base \in Nat |->
                IF size <= 1 THEN base
                ELSE f[size - size \div 2][IF q[base + size \div 2].pos > t.pos
                                             THEN base ELSE base + size \div 2]]
<1>1. 0 \in G
  <2> DEFINE f == [size \in 0..0 |-> [base \in Nat |-> base]]
  <2>1. IsProbe(f, 0, q, t)
    BY DEF IsProbe
  <2> HIDE DEF f
  <2> QED BY <2>1
<1>2. ASSUME NEW m \in 1..n, m - 1 \in G PROVE m \in G
  <2>1. PICK g : IsProbe(g, m - 1, q, t)
    BY <1>2, SMTT(30)
  <2> DEFINE f == [size \in 0..m |-> IF size = m THEN Following(g, m) ELSE g[size]]
  <2>2. ASSUME NEW size \in 0..m PROVE f[size] = Following(f, size)
    <3>1. \A k \in 0..(m - 1) : f[k] = g[k]
      OBVIOUS
    <3>2. f[size] = Following(g, size)
      <4>1. CASE size = m
        BY <4>1
      <4>2. CASE size # m
        <5>1. size \in 0..(m - 1) /\ f[size] = g[size]
          BY <4>2, SMTT(30)
        <5>2. g[size] = Following(g, size)
          BY <2>1, <5>1, Zenon DEF IsProbe
        <5> QED BY <5>1, <5>2
      <4> QED BY <4>1, <4>2
    <3>3. Following(g, size) = Following(f, size)
      <4>1. CASE size <= 1
        BY <4>1
      <4>2. CASE ~ (size <= 1)
        <5>1. size \in Nat /\ size > 1
          BY <4>2
        <5>2. size - size \div 2 \in 1..(size - 1)
          BY <5>1, Halves
        <5>3. size - size \div 2 \in 0..(m - 1)
          BY <5>2
        <5>4. f[size - size \div 2] = g[size - size \div 2]
          BY <3>1, <5>3
        <5> HIDE DEF f
        <5> QED BY <5>4
      <4> QED BY <4>1, <4>2
    <3> QED BY <3>2, <3>3, Zenon
  <2>3. IsProbe(f, m, q, t)
    <3> DEFINE k == [size \in 0..m |-> Following(f, size)]
    <3>1. \A size \in 0..m : f[size] = k[size]
      <4> HIDE DEF f, Next
      <4> QED BY <2>2
    <3>2. f = [size \in 0..m |-> f[size]] /\ k = [size \in 0..m |-> k[size]]
      OBVIOUS
    <3>3. f = k
      <4> HIDE DEF f, k
      <4> QED BY <3>1, <3>2
    <3> HIDE DEF f
    <3> QED BY <3>3 DEF IsProbe
  <2> HIDE DEF f
  <2> QED BY <2>3
<1>3. n \in G
  <2> HIDE DEF G
  <2> QED BY <1>1, <1>2, InductionTo
<1> QED BY <1>3

LEMMA ProbeBounds ==
  ASSUME NEW q, NEW t, NEW n \in Nat \ {0}, NEW f, IsProbe(f, n, q, t)
  PROVE  f[n][1] \in 1..n
<1> DEFINE Good(m) == \A size \in 1..m, base \in Nat : f[size][base] \in base..(base + size - 1)
           G == {m \in 0..n : Good(m)}
<1>1. 0 \in G
  OBVIOUS
<1>2. ASSUME NEW m \in 1..n, m - 1 \in G PROVE m \in G
  <2>1. ASSUME NEW base \in Nat PROVE f[m][base] \in base..(base + m - 1)
    <3> DEFINE half == m \div 2
               b == IF q[base + half].pos > t.pos THEN base ELSE base + half
    <3>1. f[m][base] = IF m <= 1 THEN base ELSE f[m - half][b]
      <4>1. m \in 0..n
        OBVIOUS
      <4>2. f[m] = [x \in Nat |->
              IF m <= 1 THEN x
              ELSE f[m - m \div 2][IF q[x + m \div 2].pos > t.pos
                                      THEN x ELSE x + m \div 2]]
        BY <4>1, Zenon DEF IsProbe
      <4> QED BY <4>2
    <3>2. CASE m <= 1
      BY <3>1, <3>2
    <3>3. CASE ~ (m <= 1)
      <4>1. half \in Nat /\ half >= 1 /\ half < m /\ m - half \in 1..(m - 1)
        BY <3>3, Halves
      <4> HIDE DEF half
      <4>2. b \in {base, base + half} /\ b \in Nat
        BY <4>1
      <4> HIDE DEF b
      <4>3. f[m - half][b] \in b..(b + (m - half) - 1)
        BY <1>2, <4>1, <4>2
      <4>4. \A x \in b..(b + (m - half) - 1) : x \in base..(base + m - 1)
        BY <4>1, <4>2
      <4> QED BY <3>1, <3>3, <4>3, <4>4
    <3> QED BY <3>2, <3>3
  <2>2. Good(m)
    <3> SUFFICES ASSUME NEW size \in 1..m, NEW base \in Nat
                 PROVE  f[size][base] \in base..(base + size - 1)
      OBVIOUS
    <3>1. CASE size = m
      BY <2>1, <3>1
    <3>2. CASE size # m
      <4>1. size \in 1..(m - 1)
        BY <3>2
      <4> QED BY <1>2, <4>1
    <3> QED BY <3>1, <3>2
  <2> HIDE DEF Good
  <2> QED BY <2>2
<1>3. n \in G
  <2> HIDE DEF G
  <2> QED BY <1>1, <1>2, InductionTo
<1> QED BY <1>3

LEMMA InsertSortedType ==
  ASSUME NEW q, IsTableList(q), NEW t, IsTable(t)
  PROVE  IsTableList(InsertSorted(q, t))
<1> DEFINE n == Len(q)
           probe == CHOOSE f : IsProbe(f, n, q, t)
           i == probe[n][1]
           at == IF q[i].pos < t.pos THEN i + 1 ELSE i
<1>1. n \in Nat /\ q = [k \in 1..n |-> q[k]] /\ DOMAIN q = 1..n
  BY TableListParts
<1>2. InsertSorted(q, t) =
        IF q = <<>> THEN <<t>>
        ELSE IF q[i].pos = t.pos THEN ReplaceAt(q, i, t)
        ELSE InsertBefore(q, at, t)
  BY Zenon DEF InsertSorted, IsProbe
<1>3. IsTableList(<<t>>)
  BY SingleTableList
<1>4. q # <<>> => i \in 1..n
  <2> SUFFICES ASSUME q # <<>> PROVE i \in 1..n
    OBVIOUS
  <2>1. n # 0
    BY <1>1
  <2>2. IsProbe(probe, n, q, t)
    BY <1>1, ProbeExists
  <2> HIDE DEF probe, n
  <2>3. probe[n][1] \in 1..n
    BY <1>1, <2>1, <2>2, ProbeBounds
  <2> QED BY <2>3
<1> HIDE DEF i
<1>5. q # <<>> => IsTableList(ReplaceAt(q, i, t))
  BY <1>4, ReplaceAtTables
<1>6. q # <<>> => at \in 1..(Len(q) + 1)
  BY <1>1, <1>4
<1> HIDE DEF at
<1>7. q # <<>> => IsTableList(InsertBefore(q, at, t))
  BY <1>6, InsertBeforeType
<1> QED
  BY <1>2, <1>3, <1>5, <1>7, Zenon

LEMMA SheetParts ==
  ASSUME NEW s, IsSheet(s)
  PROVE  /\ Len(s.tables) \in Nat /\ DOMAIN s.tables = 1..Len(s.tables)
         /\ s.tables = [i \in 1..Len(s.tables) |-> s.tables[i]]
         /\ \A i \in 1..Len(s.tables) : IsTable(s.tables[i])
  BY TableListParts DEF IsSheet

(* The same cells with other tables, and the same tables with other cells. *)
LEMMA NewTables ==
  ASSUME NEW s, IsSheet(s), NEW q, IsTableList(q)
  PROVE  /\ [s EXCEPT !.tables = q] = [cells |-> s.cells, tables |-> q]
         /\ IsSheet([s EXCEPT !.tables = q])
<1> DEFINE u == [cells |-> s.cells, tables |-> q]
<1>1. s = [cells |-> s.cells, tables |-> s.tables]
  BY DEF IsSheet
<1>2. [s EXCEPT !.tables = q] = u
  BY <1>1
<1>3. u.cells = s.cells /\ u.tables = q
  OBVIOUS
<1>4. u = [cells |-> u.cells, tables |-> u.tables]
  OBVIOUS
<1> HIDE DEF u
<1>5. IsSheet(u)
  BY <1>3, <1>4 DEF IsSheet
<1> QED
  BY <1>2, <1>5 DEF u

LEMMA WithCellsType ==
  ASSUME NEW s, IsSheet(s), NEW lo, NEW values
  PROVE  IsSheet(WithCells(s, lo, values)) /\ WithCells(s, lo, values).tables = s.tables
<1> DEFINE c == [p \in DOMAIN s.cells |->
                   IF p - lo + 1 \in DOMAIN values THEN values[p - lo + 1] ELSE s.cells[p]]
           u == [cells |-> c, tables |-> s.tables]
<1>1. s = [cells |-> s.cells, tables |-> s.tables]
  BY DEF IsSheet
<1>2. WithCells(s, lo, values) = u
  <2>1. WithCells(s, lo, values) = [s EXCEPT !.cells = c]
    BY Zenon DEF WithCells
  <2> HIDE DEF c
  <2> QED BY <1>1, <2>1
<1>3. c = [p \in DOMAIN c |-> c[p]] /\ DOMAIN c = DOMAIN s.cells
  OBVIOUS
<1> HIDE DEF c
<1>4. u.cells = c /\ u.tables = s.tables /\ u = [cells |-> u.cells, tables |-> u.tables]
  OBVIOUS
<1> HIDE DEF u
<1>5. IsSheet(u)
  BY <1>3, <1>4 DEF IsSheet
<1> QED
  BY <1>2, <1>4, <1>5

LEMMA WithCellType ==
  ASSUME NEW s, IsSheet(s), NEW p, NEW v
  PROVE  IsSheet(WithCell(s, p, v)) /\ WithCell(s, p, v).tables = s.tables
BY WithCellsType DEF WithCell

(* Writing what is there changes nothing.                                  *)
LEMMA WriteSame ==
  ASSUME NEW s, IsSheet(s), NEW lo \in Int, NEW n \in Nat
  PROVE  WithCells(s, lo, Cells(s, lo, n)) = s
<1> DEFINE values == Cells(s, lo, n)
           c == [p \in DOMAIN s.cells |->
                   IF p - lo + 1 \in DOMAIN values THEN values[p - lo + 1] ELSE s.cells[p]]
<1>1. s = [cells |-> s.cells, tables |-> s.tables]
      /\ s.cells = [p \in DOMAIN s.cells |-> s.cells[p]] /\ DOMAIN s.cells \subseteq Int
  BY DEF IsSheet
<1>2. values = [k \in 1..n |-> s.cells[lo + k - 1]]
  BY DEF Cells
<1>3. ASSUME NEW p \in DOMAIN s.cells PROVE c[p] = s.cells[p]
  <2>1. p \in Int
    BY <1>1
  <2>2. p - lo + 1 \in DOMAIN values => values[p - lo + 1] = s.cells[lo + (p - lo + 1) - 1]
    BY <1>2
  <2>3. lo + (p - lo + 1) - 1 = p
    BY <2>1
  <2> HIDE DEF values
  <2> QED BY <2>2, <2>3
<1>4. c = [p \in DOMAIN s.cells |-> c[p]]
  OBVIOUS
<1>5. WithCells(s, lo, values) = [s EXCEPT !.cells = c]
  BY Zenon DEF WithCells
<1> HIDE DEF c
<1>6. c = s.cells
  BY <1>1, <1>3, <1>4
<1> HIDE DEF values
<1>7. [s EXCEPT !.cells = s.cells] = s
  BY <1>1
<1> QED
  BY <1>5, <1>6, <1>7 DEF values

LEMMA WithTableType ==
  ASSUME NEW s, IsSheet(s), NEW i \in 1..Len(s.tables), NEW t, IsTable(t)
  PROVE  /\ IsSheet(WithTable(s, i, t))
         /\ WithTable(s, i, t).cells = s.cells
         /\ Len(WithTable(s, i, t).tables) = Len(s.tables)
         /\ \A k \in 1..Len(s.tables) :
              WithTable(s, i, t).tables[k] = IF k = i THEN t ELSE s.tables[k]
<1> DEFINE q == ReplaceAt(s.tables, i, t)
<1>1. IsTableList(s.tables)
  BY DEF IsSheet
<1>2. /\ IsTableList(q) /\ Len(q) = Len(s.tables)
      /\ \A k \in 1..Len(s.tables) : q[k] = IF k = i THEN t ELSE s.tables[k]
  BY <1>1, ReplaceAtTables
<1> HIDE DEF q
<1>3. WithTable(s, i, t) = [s EXCEPT !.tables = q]
  BY Zenon DEF WithTable, q
<1>4. /\ [s EXCEPT !.tables = q] = [cells |-> s.cells, tables |-> q]
      /\ IsSheet([s EXCEPT !.tables = q])
  BY <1>2, NewTables
<1>5. WithTable(s, i, t).tables = q /\ WithTable(s, i, t).cells = s.cells
  BY <1>3, <1>4
<1> QED
  BY <1>2, <1>3, <1>4, <1>5

LEMMA WithoutTableType ==
  ASSUME NEW s, IsSheet(s), NEW p
  PROVE  IsSheet(WithoutTable(s, p))
<1>1. Len(s.tables) \in Nat /\ IsTableList(s.tables)
  BY SheetParts DEF IsSheet
<1>2. IndexOf(s, p) \in 0..Len(s.tables)
  BY <1>1, IndexOfIsFirst
<1>3. CASE IndexOf(s, p) = 0
  BY <1>3 DEF WithoutTable
<1>4. CASE IndexOf(s, p) # 0
  <2> DEFINE q == RemoveAt(s.tables, IndexOf(s, p))
  <2>1. IsTableList(q)
    <3>1. IndexOf(s, p) \in 1..Len(s.tables)
      BY <1>1, <1>2, <1>4
    <3> QED BY <1>1, <3>1, RemoveAtTables
  <2>2. WithoutTable(s, p) = [s EXCEPT !.tables = q]
    BY <1>4, Zenon DEF WithoutTable
  <2> HIDE DEF q
  <2>3. IsSheet([s EXCEPT !.tables = q])
    BY <2>1, NewTables
  <2> QED BY <2>2, <2>3, Zenon
<1> QED
  BY <1>3, <1>4

-----------------------------------------------------------------------------
(* Transactions.                                                           *)

LEMMA OnSheetType ==
  ASSUME NEW T, IsPending(T), NEW s, IsSheet(s)
  PROVE  IsPending(OnSheet(T, s)) /\ OnSheet(T, s).sheet = s
<1> DEFINE R == [sheet |-> s, forward |-> T.forward, reverse |-> T.reverse]
<1>1. T = [sheet |-> T.sheet, forward |-> T.forward, reverse |-> T.reverse]
  BY DEF IsPending
<1>2. OnSheet(T, s) = R
  BY <1>1 DEF OnSheet
<1>3. R.sheet = s /\ R = [sheet |-> R.sheet, forward |-> R.forward, reverse |-> R.reverse]
  OBVIOUS
<1> HIDE DEF R
<1> QED
  BY <1>2, <1>3 DEF IsPending

LEMMA RecordType ==
  ASSUME NEW T, IsPending(T), NEW forward, NEW reverse
  PROVE  IsPending(Record(T, forward, reverse)) /\ Record(T, forward, reverse).sheet = T.sheet
<1> DEFINE f == T.forward \o forward
           r == T.reverse \o reverse
           R == [sheet |-> T.sheet, forward |-> f, reverse |-> r]
<1>1. T = [sheet |-> T.sheet, forward |-> T.forward, reverse |-> T.reverse]
  BY DEF IsPending
<1>2. Record(T, forward, reverse) = [T EXCEPT !.forward = f, !.reverse = r]
  BY <1>1 DEF Record
<1> HIDE DEF f, r
<1>3. [T EXCEPT !.forward = f, !.reverse = r] = R
  <2> DEFINE U == [T EXCEPT !.forward = f]
  <2>1. U = [sheet |-> T.sheet, forward |-> f, reverse |-> T.reverse]
    BY <1>1
  <2>2. [U EXCEPT !.reverse = r] = R
    <3> HIDE DEF U
    <3> QED BY <2>1
  <2> QED BY <2>2
<1>4. R.sheet = T.sheet /\ R = [sheet |-> R.sheet, forward |-> R.forward, reverse |-> R.reverse]
  OBVIOUS
<1> HIDE DEF R
<1> QED
  BY <1>2, <1>3, <1>4 DEF IsPending

-----------------------------------------------------------------------------
(* Folds over a list.  The steps of all of them are one operator, so that  *)
(* what a fold computes is unfolded once: as a chain of values, each made  *)
(* from the one before and the next member of the list.                    *)

Step(loop, R, x) ==
  IF loop.over = "tables" THEN CheckSpill(R, x)
  ELSE IF loop.over = "deleted" THEN
    IF x.pos \in loop.lo .. loop.hi /\ loop.cells[x.pos] \notin {Code, Import}
      THEN FinalizeDataTable(R, loop.source, x.pos, None, 0) ELSE R
  ELSE IF loop.over = "rows" THEN InsertOneRow(R, loop.table, x, loop.swallow)
  ELSE Execute(R, loop.source, x)

IsFold(h, m, loop, T, q) ==
  h = [s \in SUBSET (1..m) |->
         IF s = {} THEN T ELSE Step(loop, h[s \ {Max(s)}], q[Max(s)])]

IsChain(g, n, loop, T, q) ==
  g[0] = T /\ \A k \in 1..n : g[k] = Step(loop, g[k - 1], q[k])

LEMMA FoldExists ==
  ASSUME NEW loop, NEW T, NEW q, NEW n \in Nat
  PROVE  \E h : IsFold(h, n, loop, T, q)
<1> DEFINE G == {m \in 0..n : \E h : IsFold(h, m, loop, T, q)}
<1>1. 0 \in G
  <2> DEFINE h == [s \in SUBSET (1..0) |-> T]
  <2>1. SUBSET (1..0) = {{}}
    OBVIOUS
  <2>2. IsFold(h, 0, loop, T, q)
    BY <2>1 DEF IsFold
  <2> HIDE DEF h
  <2> QED BY <2>2
<1>2. ASSUME NEW m \in 1..n, m - 1 \in G PROVE m \in G
  <2>1. PICK g : IsFold(g, m - 1, loop, T, q)
    BY <1>2
  <2> DEFINE h == [s \in SUBSET (1..m) |->
                     IF m \in s THEN Step(loop, g[s \ {m}], q[m]) ELSE g[s]]
  <2>2. ASSUME NEW s \in SUBSET (1..m)
        PROVE  h[s] = IF s = {} THEN T ELSE Step(loop, h[s \ {Max(s)}], q[Max(s)])
    <3>1. CASE m \in s
      <4>1. Max(s) = m
        <5>1. m \in Nat /\ s # {}
          BY <3>1
        <5>2. Max(s) \in s /\ \A y \in s : Max(s) >= y
          BY <5>1, MaxIsGreatest
        <5>3. Max(s) \in 1..m /\ Max(s) >= m
          BY <3>1, <5>2
        <5> QED BY <5>3
      <4>2. s \ {m} \in SUBSET (1..m) /\ h[s \ {m}] = g[s \ {m}]
        OBVIOUS
      <4>3. h[s] = Step(loop, g[s \ {m}], q[m])
        BY <3>1
      <4> HIDE DEF h
      <4> QED BY <3>1, <4>1, <4>2, <4>3
    <3>2. CASE m \notin s
      <4>1. s \in SUBSET (1..(m - 1))
        BY <3>2
      <4>2. g[s] = IF s = {} THEN T ELSE Step(loop, g[s \ {Max(s)}], q[Max(s)])
        BY <2>1, <4>1 DEF IsFold
      <4>3. h[s] = g[s] /\ h[s \ {Max(s)}] = g[s \ {Max(s)}]
        BY <3>2, <4>1
      <4> HIDE DEF h
      <4> QED BY <4>2, <4>3
    <3> QED BY <3>1, <3>2
  <2>3. IsFold(h, m, loop, T, q)
    <3> DEFINE k == [s \in SUBSET (1..m) |->
                       IF s = {} THEN T ELSE Step(loop, h[s \ {Max(s)}], q[Max(s)])]
    <3>1. \A s \in SUBSET (1..m) : h[s] = k[s]
      <4> HIDE DEF h
      <4> QED BY <2>2
    <3>2. h = [s \in SUBSET (1..m) |-> h[s]] /\ k = [s \in SUBSET (1..m) |-> k[s]]
      OBVIOUS
    <3>3. h = k
      <4> HIDE DEF h, k
      <4> QED BY <3>1, <3>2
    <3> HIDE DEF h
    <3> QED BY <3>3 DEF IsFold
  <2> HIDE DEF h
  <2> QED BY <2>3
<1>3. n \in G
  <2> HIDE DEF G
  <2> QED BY <1>1, <1>2, InductionTo
<1> QED BY <1>3

(* What FoldLeft computes, unfolded, is the end of a chain.                *)
LEMMA FoldIsChain ==
  ASSUME NEW loop, NEW T, NEW q, NEW n \in Nat, NEW h, IsFold(h, n, loop, T, q)
  PROVE  \E g : IsChain(g, n, loop, T, q) /\ h[1..n] = g[n]
<1> DEFINE g == [k \in 0..n |-> h[1..k]]
<1>3. \A s \in SUBSET (1..n) :
        h[s] = IF s = {} THEN T ELSE Step(loop, h[s \ {Max(s)}], q[Max(s)])
  BY DEF IsFold
<1>4. g[0] = T
  <2>1. 1..0 = {} /\ {} \in SUBSET (1..n)
    OBVIOUS
  <2> QED BY <1>3, <2>1
<1>5. ASSUME NEW k \in 1..n PROVE g[k] = Step(loop, g[k - 1], q[k])
  <2>1. 1..k \in SUBSET (1..n) /\ 1..k # {} /\ k \in Nat
    OBVIOUS
  <2>2. Max(1..k) = k
    <3>1. Max(1..k) \in 1..k /\ \A y \in 1..k : Max(1..k) >= y
      BY <2>1, MaxIsGreatest
    <3> QED BY <3>1
  <2>3. (1..k) \ {k} = 1..(k - 1)
    OBVIOUS
  <2>4. h[1..k] = Step(loop, h[1..(k - 1)], q[k])
    BY <1>3, <2>1, <2>2, <2>3
  <2>5. g[k] = h[1..k] /\ g[k - 1] = h[1..(k - 1)]
    OBVIOUS
  <2> QED BY <2>4, <2>5
<1>6. g[n] = h[1..n]
  OBVIOUS
<1> HIDE DEF g
<1> QED
  BY <1>4, <1>5, <1>6 DEF IsChain

IsSpillPass(g, n, T) ==
  /\ g[0] = T /\ CheckAllSpills(T) = g[n]
  /\ \A k \in 1..n : g[k] = CheckSpill(g[k - 1], k)

LEMMA SpillPassIsChain ==
  ASSUME NEW T, NEW n \in Nat, DOMAIN T.sheet.tables = 1..n
  PROVE  \E g : IsSpillPass(g, n, T)
<1> DEFINE q == [i \in 1..n |-> i]
           loop == [over |-> "tables"]
<1>1. CheckAllSpills(T) = FoldLeft(CheckSpill, T, q)
  BY DEF CheckAllSpills, FoldLeftDomain
<1>2. DOMAIN q = 1..n /\ \A k \in 1..n : q[k] = k
  OBVIOUS
<1> HIDE DEF q
<1>3. FoldLeft(CheckSpill, T, q) =
        (CHOOSE h : h = [s \in SUBSET (DOMAIN q) |->
            IF s = {} THEN T ELSE CheckSpill(h[s \ {Max(s)}], q[Max(s)])])[DOMAIN q]
  BY Zenon DEF FoldLeft, MapThenFoldSet
<1>4. loop.over = "tables"
  OBVIOUS
<1> HIDE DEF loop
<1>5. \A R, x : Step(loop, R, x) = CheckSpill(R, x)
  BY <1>4, Zenon DEF Step
<1> DEFINE Unfolds(h) == h = [s \in SUBSET (DOMAIN q) |->
                                IF s = {} THEN T ELSE CheckSpill(h[s \ {Max(s)}], q[Max(s)])]
           iter == CHOOSE h : Unfolds(h)
<1>6. ASSUME NEW h PROVE IsFold(h, n, loop, T, q) <=> Unfolds(h)
  <2> DEFINE a == [s \in SUBSET (1..n) |->
                     IF s = {} THEN T ELSE Step(loop, h[s \ {Max(s)}], q[Max(s)])]
             b == [s \in SUBSET (1..n) |->
                     IF s = {} THEN T ELSE CheckSpill(h[s \ {Max(s)}], q[Max(s)])]
  <2>1. ASSUME NEW s \in SUBSET (1..n) PROVE a[s] = b[s]
    BY <1>5
  <2>2. a = [s \in SUBSET (1..n) |-> a[s]] /\ b = [s \in SUBSET (1..n) |-> b[s]]
    OBVIOUS
  <2>3. a = b
    <3> HIDE DEF a, b
    <3> QED BY <2>1, <2>2
  <2>4. (IsFold(h, n, loop, T, q) <=> h = a) /\ (Unfolds(h) <=> h = b)
    BY <1>2, Zenon DEF IsFold
  <2> QED BY <2>3, <2>4
<1>7. CheckAllSpills(T) = iter[1..n]
  BY <1>1, <1>2, <1>3, Zenon
<1>8. IsFold(iter, n, loop, T, q)
  <2>1. \E h : Unfolds(h)
    BY <1>6, FoldExists, Zenon
  <2> HIDE DEF Unfolds
  <2>2. Unfolds(iter)
    BY <2>1, Zenon
  <2> QED BY <1>6, <2>2, Zenon
<1> HIDE DEF iter
<1>9. PICK g : IsChain(g, n, loop, T, q) /\ iter[1..n] = g[n]
  BY <1>8, FoldIsChain
<1> QED
  BY <1>2, <1>5, <1>7, <1>9 DEF IsChain, IsSpillPass

-----------------------------------------------------------------------------
(* Spills.                                                                 *)

(* The same table, up to its spill error.                                  *)
SameBut(t, u) ==
  /\ t.pos = u.pos /\ t.rows = u.rows /\ t.kind = u.kind
  /\ t.name = u.name /\ t.columns = u.columns /\ t.single = u.single
  /\ t.made = u.made

(* Whether a table is blocked depends on the cells, on its own place and   *)
(* size and on the tables before it, and not on its own spill error.       *)
LEMMA BlockedByEarlier ==
  ASSUME NEW s, NEW u, NEW i \in Nat, s.cells = u.cells,
         SameBut(s.tables[i], u.tables[i]),
         \A j \in 1..(i - 1) : s.tables[j] = u.tables[j]
  PROVE  IsBlocked(s, i) <=> IsBlocked(u, i)
<1> DEFINE t == s.tables[i]
           v == u.tables[i]
<1>1. Height(t) = Height(v) /\ FullOutput(t) = FullOutput(v) /\ t.pos = v.pos
  BY DEF SameBut, Height, FullOutput, HeadRows, NameIsShown, ColumnsAreShown
<1>2. \A j \in 1..(i - 1) : Output(s.tables[j]) = Output(u.tables[j])
  OBVIOUS
<1> HIDE DEF t, v
<1>3. IsBlocked(s, i) <=>
        /\ Height(t) > 1
        /\ \/ \E p \in FullOutput(t) \ {t.pos} : s.cells[p] # Blank
           \/ \E j \in 1 .. i - 1 : Output(s.tables[j]) \cap FullOutput(t) # {}
  BY Zenon DEF IsBlocked, t
<1>4. IsBlocked(u, i) <=>
        /\ Height(v) > 1
        /\ \/ \E p \in FullOutput(v) \ {v.pos} : u.cells[p] # Blank
           \/ \E j \in 1 .. i - 1 : Output(u.tables[j]) \cap FullOutput(v) # {}
  BY Zenon DEF IsBlocked, v
<1> QED
  BY <1>1, <1>2, <1>3, <1>4, Zenon

LEMMA BlockedIsBoolean ==
  ASSUME NEW s, NEW i
  PROVE  IsBlocked(s, i) \in BOOLEAN
BY DEF IsBlocked

(* A table with its spill error turned.                                    *)
LEMMA Turned ==
  ASSUME NEW t, IsTable(t)
  PROVE  LET v == [t EXCEPT !.spill = ~ @]
         IN  IsTable(v) /\ SameBut(v, t) /\ v.spill = ~ t.spill
<1> DEFINE b == ~ t.spill
           u == [pos |-> t.pos, rows |-> t.rows, kind |-> t.kind, name |-> t.name,
                 columns |-> t.columns, spill |-> b, single |-> t.single, made |-> t.made]
<1>1. /\ t = [pos |-> t.pos, rows |-> t.rows, kind |-> t.kind, name |-> t.name,
              columns |-> t.columns, spill |-> t.spill, single |-> t.single, made |-> t.made]
      /\ b \in BOOLEAN
  BY DEF IsTable
<1> HIDE DEF b
<1>2. [t EXCEPT !.spill = b] = u
  BY <1>1
<1>3. /\ u.pos = t.pos /\ u.rows = t.rows /\ u.kind = t.kind /\ u.name = t.name
      /\ u.columns = t.columns /\ u.spill = b /\ u.single = t.single
      /\ u.made = t.made
      /\ u = [pos |-> u.pos, rows |-> u.rows, kind |-> u.kind, name |-> u.name,
              columns |-> u.columns, spill |-> u.spill, single |-> u.single, made |-> u.made]
  OBVIOUS
<1> HIDE DEF u
<1>4. IsTable(u) /\ SameBut(u, t)
  BY <1>1, <1>3 DEF IsTable, SameBut
<1>5. [t EXCEPT !.spill = ~ @] = u
  BY <1>2 DEF b
<1> QED
  BY <1>3, <1>4, <1>5 DEF b

(* Exact up to the k-th table, on the cells and the tables of s.           *)
ExactTo(R, k, s) ==
  /\ IsPending(R)
  /\ R.sheet.cells = s.cells
  /\ Len(R.sheet.tables) = Len(s.tables)
  /\ \A i \in 1..Len(s.tables) : SameBut(R.sheet.tables[i], s.tables[i])
  /\ \A i \in 1..k : R.sheet.tables[i].spill = IsBlocked(R.sheet, i)

LEMMA ChangeSpillType ==
  ASSUME NEW T, IsPending(T), NEW i \in 1..Len(T.sheet.tables)
  PROVE  LET R == ChangeSpill(T, i)
             t == T.sheet.tables[i]
             q == R.sheet.tables
         IN  /\ IsPending(R)
             /\ R.sheet.cells = T.sheet.cells
             /\ Len(q) = Len(T.sheet.tables)
             /\ \A k \in 1..Len(T.sheet.tables) : k # i => q[k] = T.sheet.tables[k]
             /\ SameBut(q[i], t) /\ q[i].spill = ~ t.spill
<1> DEFINE t == T.sheet.tables[i]
           v == [t EXCEPT !.spill = ~ @]
           s == WithTable(T.sheet, i, v)
           f == <<SetDataTable(t.pos, v, i)>>
           r == <<SetDataTable(t.pos, t, i)>>
           R == ChangeSpill(T, i)
<1>1. IsSheet(T.sheet) /\ Len(T.sheet.tables) \in Nat /\ IsTable(t)
  BY SheetParts DEF IsPending
<1>2. IsTable(v) /\ SameBut(v, t) /\ v.spill = ~ t.spill
  BY <1>1, Turned
<1>3. R = Record(OnSheet(T, s), f, r)
  BY Zenon DEF ChangeSpill
<1> HIDE DEF v, t, f, r, R
<1>4. /\ IsSheet(s) /\ s.cells = T.sheet.cells /\ Len(s.tables) = Len(T.sheet.tables)
      /\ \A k \in 1..Len(T.sheet.tables) : s.tables[k] = IF k = i THEN v ELSE T.sheet.tables[k]
  BY <1>1, <1>2, WithTableType
<1> HIDE DEF s
<1>5. IsPending(R) /\ R.sheet = s
  BY <1>3, <1>4, OnSheetType, RecordType
<1>6. s.tables[i] = v
  BY <1>4
<1> QED
  BY <1>2, <1>4, <1>5, <1>6 DEF R, t

LEMMA CheckSpillExtends ==
  ASSUME NEW s, NEW R, NEW k \in 1..Len(s.tables), Len(s.tables) \in Nat, ExactTo(R, k - 1, s)
  PROVE  ExactTo(CheckSpill(R, k), k, s)
<1> DEFINE b == IsBlocked(R.sheet, k)
           t == R.sheet.tables[k]
<1>1. /\ IsPending(R) /\ R.sheet.cells = s.cells
      /\ Len(R.sheet.tables) = Len(s.tables)
      /\ \A i \in 1..Len(s.tables) : SameBut(R.sheet.tables[i], s.tables[i])
      /\ \A i \in 1..(k - 1) : R.sheet.tables[i].spill = IsBlocked(R.sheet, i)
  BY DEF ExactTo
<1>2. t.spill \in BOOLEAN
  <2>1. IsTable(t)
    BY <1>1, SheetParts DEF IsPending
  <2> QED BY <2>1 DEF IsTable
<1>3. CASE b = t.spill
  <2>1. CheckSpill(R, k) = R
    BY <1>3, Zenon DEF CheckSpill
  <2>2. \A i \in 1..k : R.sheet.tables[i].spill = IsBlocked(R.sheet, i)
    BY <1>1, <1>3
  <2> QED BY <1>1, <2>1, <2>2 DEF ExactTo
<1>4. CASE b # t.spill
  <2> DEFINE S == ChangeSpill(R, k)
             q == S.sheet.tables
  <2>1. CheckSpill(R, k) = S
    BY <1>4, Zenon DEF CheckSpill
  <2>2. /\ IsPending(S) /\ S.sheet.cells = R.sheet.cells
        /\ Len(q) = Len(R.sheet.tables)
        /\ \A i \in 1..Len(R.sheet.tables) : i # k => q[i] = R.sheet.tables[i]
        /\ SameBut(q[k], t) /\ q[k].spill = ~ t.spill
    BY <1>1, ChangeSpillType
  <2> HIDE DEF S
  <2>3. \A i \in 1..Len(s.tables) : SameBut(q[i], R.sheet.tables[i])
    BY <1>1, <2>2 DEF SameBut
  <2>4. \A i \in 1..Len(s.tables) : SameBut(q[i], s.tables[i])
    BY <1>1, <2>3 DEF SameBut
  <2>5. ASSUME NEW i \in 1..k PROVE IsBlocked(S.sheet, i) <=> IsBlocked(R.sheet, i)
    <3>1. i \in Nat /\ i \in 1..Len(s.tables)
      OBVIOUS
    <3>2. \A j \in 1..(i - 1) : S.sheet.tables[j] = R.sheet.tables[j]
      BY <1>1, <2>2, SMTT(30)
    <3>3. SameBut(S.sheet.tables[i], R.sheet.tables[i])
      BY <2>3, <3>1
    <3> QED BY <2>2, <3>1, <3>2, <3>3, BlockedByEarlier
  <2>6. ASSUME NEW i \in 1..k PROVE q[i].spill = IsBlocked(S.sheet, i)
    <3>1. IsBlocked(S.sheet, i) = IsBlocked(R.sheet, i)
      BY <2>5, BlockedIsBoolean
    <3>2. CASE i = k
      BY <1>2, <1>4, <2>2, <3>1, <3>2, BlockedIsBoolean
    <3>3. CASE i # k
      <4>1. i \in 1..(k - 1) /\ q[i] = R.sheet.tables[i]
        BY <1>1, <2>2, <3>3
      <4> QED BY <1>1, <3>1, <4>1
    <3> QED BY <3>2, <3>3
  <2> QED BY <1>1, <2>1, <2>2, <2>4, <2>6 DEF ExactTo
<1> QED
  BY <1>3, <1>4

(* One pass over the tables, from the first to the last, is enough: after  *)
(* it every table has a spill error exactly when something is in its way,  *)
(* whatever the pass changed on its way, and nothing else has changed.     *)
THEOREM OnePassIsEnough ==
  ASSUME NEW T, IsPending(T)
  PROVE  LET R == CheckAllSpills(T)
         IN  /\ IsPending(R) /\ Exact(R.sheet)
             /\ R.sheet.cells = T.sheet.cells
             /\ Len(R.sheet.tables) = Len(T.sheet.tables)
             /\ \A i \in 1..Len(T.sheet.tables) : SameBut(R.sheet.tables[i], T.sheet.tables[i])
<1> DEFINE s == T.sheet
           n == Len(s.tables)
<1>1. IsSheet(s) /\ n \in Nat /\ DOMAIN s.tables = 1..n
  BY SheetParts DEF IsPending
<1> HIDE DEF n
<1>2. PICK g : IsSpillPass(g, n, T)
  BY <1>1, SpillPassIsChain
<1> DEFINE G == {k \in 0..n : ExactTo(g[k], k, s)}
<1>3. 0 \in G
  <2>1. ExactTo(T, 0, s)
    BY DEF ExactTo, SameBut
  <2> QED BY <1>1, <1>2, <2>1 DEF IsSpillPass
<1>4. ASSUME NEW k \in 1..n, k - 1 \in G PROVE k \in G
  <2>1. ExactTo(g[k - 1], k - 1, s) /\ g[k] = CheckSpill(g[k - 1], k)
    BY <1>2, <1>4 DEF IsSpillPass
  <2>2. ExactTo(CheckSpill(g[k - 1], k), k, s)
    BY <1>1, <2>1, CheckSpillExtends DEF n
  <2>3. k \in 0..n
    BY <1>1
  <2> QED BY <2>1, <2>2, <2>3
<1>5. n \in G
  <2> HIDE DEF G
  <2> QED BY <1>1, <1>3, <1>4, InductionTo
<1>6. ExactTo(CheckAllSpills(T), n, s)
  BY <1>2, <1>5 DEF IsSpillPass
<1> DEFINE R == CheckAllSpills(T)
<1> HIDE DEF R
<1>7. ExactTo(R, n, s)
  BY <1>6 DEF R
<1>8. /\ IsPending(R) /\ R.sheet.cells = s.cells /\ Len(R.sheet.tables) = n
      /\ \A i \in 1..n : SameBut(R.sheet.tables[i], s.tables[i])
      /\ \A i \in 1..n : R.sheet.tables[i].spill = IsBlocked(R.sheet, i)
  BY <1>7 DEF ExactTo, n
<1>9. DOMAIN R.sheet.tables = 1..n
  BY <1>8, SheetParts DEF IsPending
<1> QED
  BY <1>8, <1>9 DEF Exact, R, n

-----------------------------------------------------------------------------
(* Operations of a user's own transaction.                                 *)

(* Nothing happened, or the sheet's spill errors are exact.                *)
Kept(T, R) == IsPending(R) /\ (R = T \/ Exact(R.sheet))

NoneIsNoTable == \A t : IsTable(t) => t # None

LEMMA KeptTwice ==
  ASSUME NEW T, NEW R, NEW S, Kept(T, R), Kept(R, S)
  PROVE  Kept(T, S)
BY Zenon DEF Kept

LEMMA KeptSelf ==
  ASSUME NEW T, IsPending(T)
  PROVE  Kept(T, T)
BY DEF Kept

LEMMA OnSheetSame ==
  ASSUME NEW T, IsPending(T)
  PROVE  OnSheet(T, T.sheet) = T
<1>1. T = [sheet |-> T.sheet, forward |-> T.forward, reverse |-> T.reverse]
  BY DEF IsPending
<1>2. [T EXCEPT !.sheet = T.sheet] = T
  BY <1>1
<1> QED
  BY <1>2, Zenon DEF OnSheet

LEMMA OwnOperationsChecked ==
  ASSUME NEW T, IsPending(T), NEW s, IsSheet(s), NEW forward, NEW reverse
  PROVE  LET R == DataTableOperations(OnSheet(T, s), "User", forward, reverse)
         IN  IsPending(R) /\ Exact(R.sheet)
<1> DEFINE U == OnSheet(T, s)
           V == Record(U, forward, reverse)
<1>1. DataTableOperations(U, "User", forward, reverse) = CheckAllSpills(V)
  BY DEF DataTableOperations
<1>2. IsPending(U)
  BY OnSheetType
<1> HIDE DEF U
<1>3. IsPending(V)
  BY <1>2, RecordType
<1> HIDE DEF V
<1>4. IsPending(CheckAllSpills(V)) /\ Exact(CheckAllSpills(V).sheet)
  BY <1>3, OnePassIsEnough
<1> QED
  BY <1>1, <1>4, Zenon DEF U

LEMMA TableAtType ==
  ASSUME NEW s, IsSheet(s), NEW p, IndexOf(s, p) # 0
  PROVE  /\ TableAt(s, p) = s.tables[IndexOf(s, p)] /\ IsTable(TableAt(s, p))
         /\ IndexOf(s, p) \in 1..Len(s.tables)
<1>1. Len(s.tables) \in Nat /\ \A i \in 1..Len(s.tables) : IsTable(s.tables[i])
  BY SheetParts
<1>2. IndexOf(s, p) \in 0..Len(s.tables)
  BY <1>1, IndexOfIsFirst
<1>3. IndexOf(s, p) \in 1..Len(s.tables)
  BY <1>1, <1>2
<1> QED
  BY <1>1, <1>3 DEF TableAt

LEMMA RenamedType ==
  ASSUME NEW t, IsTable(t), NEW name, NEW columns
  PROVE  IsTable([t EXCEPT !.name = name, !.columns = columns])
<1> DEFINE u == [pos |-> t.pos, rows |-> t.rows, kind |-> t.kind, name |-> name,
                 columns |-> columns, spill |-> t.spill, single |-> t.single, made |-> t.made]
           v == [t EXCEPT !.name = name]
<1>1. /\ t = [pos |-> t.pos, rows |-> t.rows, kind |-> t.kind, name |-> t.name,
              columns |-> t.columns, spill |-> t.spill, single |-> t.single, made |-> t.made]
      /\ t.spill \in BOOLEAN
  BY DEF IsTable
<1>2. v = [pos |-> t.pos, rows |-> t.rows, kind |-> t.kind, name |-> name,
           columns |-> t.columns, spill |-> t.spill, single |-> t.single, made |-> t.made]
  BY <1>1
<1> HIDE DEF v
<1>3. [v EXCEPT !.columns = columns] = u
  BY <1>2
<1>4. /\ u = [pos |-> u.pos, rows |-> u.rows, kind |-> u.kind, name |-> u.name,
              columns |-> u.columns, spill |-> u.spill, single |-> u.single, made |-> u.made]
      /\ u.spill = t.spill
  OBVIOUS
<1> HIDE DEF u
<1>5. IsTable(u)
  BY <1>1, <1>4 DEF IsTable
<1> QED
  BY <1>3, <1>5, Zenon DEF v

LEMMA WithKindType ==
  ASSUME NEW t, IsTable(t), NEW kind
  PROVE  IsTable([t EXCEPT !.kind = kind])
<1> DEFINE u == [pos |-> t.pos, rows |-> t.rows, kind |-> kind, name |-> t.name,
                 columns |-> t.columns, spill |-> t.spill, single |-> t.single, made |-> t.made]
<1>1. /\ t = [pos |-> t.pos, rows |-> t.rows, kind |-> t.kind, name |-> t.name,
              columns |-> t.columns, spill |-> t.spill, single |-> t.single, made |-> t.made]
      /\ t.spill \in BOOLEAN
  BY DEF IsTable
<1>2. [t EXCEPT !.kind = kind] = u
  BY <1>1
<1>3. /\ u = [pos |-> u.pos, rows |-> u.rows, kind |-> u.kind, name |-> u.name,
              columns |-> u.columns, spill |-> u.spill, single |-> u.single, made |-> u.made]
      /\ u.spill = t.spill
  OBVIOUS
<1> HIDE DEF u
<1> QED
  BY <1>1, <1>2, <1>3 DEF IsTable

LEMMA WithRowsType ==
  ASSUME NEW t, IsTable(t), NEW rows
  PROVE  IsTable([t EXCEPT !.rows = rows])
<1> DEFINE u == [pos |-> t.pos, rows |-> rows, kind |-> t.kind, name |-> t.name,
                 columns |-> t.columns, spill |-> t.spill, single |-> t.single, made |-> t.made]
<1>1. /\ t = [pos |-> t.pos, rows |-> t.rows, kind |-> t.kind, name |-> t.name,
              columns |-> t.columns, spill |-> t.spill, single |-> t.single, made |-> t.made]
      /\ t.spill \in BOOLEAN
  BY DEF IsTable
<1>2. [t EXCEPT !.rows = rows] = u
  BY <1>1
<1>3. /\ u = [pos |-> u.pos, rows |-> u.rows, kind |-> u.kind, name |-> u.name,
              columns |-> u.columns, spill |-> u.spill, single |-> u.single, made |-> u.made]
      /\ u.spill = t.spill
  OBVIOUS
<1> HIDE DEF u
<1> QED
  BY <1>1, <1>2, <1>3 DEF IsTable

LEMMA MadeType ==
  ASSUME NEW pos, NEW rows, NEW kind, NEW option, NEW time
  PROVE  IsTable(NewTable(pos, rows, kind, option, time))
<1> DEFINE single == kind = Code /\ Len(rows) = 1
           u == [pos |-> pos, rows |-> rows, kind |-> kind, name |-> option,
                 columns |-> option, spill |-> FALSE, single |-> single, made |-> time]
<1>1. NewTable(pos, rows, kind, option, time) = u
  BY DEF NewTable
<1> HIDE DEF single
<1>2. /\ u = [pos |-> u.pos, rows |-> u.rows, kind |-> u.kind, name |-> u.name,
              columns |-> u.columns, spill |-> u.spill, single |-> u.single, made |-> u.made]
      /\ u.spill = FALSE
  OBVIOUS
<1> HIDE DEF u
<1>3. IsTable(u)
  BY <1>2 DEF IsTable
<1> QED
  BY <1>1, <1>3

(* finalize_data_table without an index: when it skips the check of the    *)
(* spills, because the table it sets is the one there, nothing changes.    *)
LEMMA FinalizeKept ==
  ASSUME NEW T, IsPending(T), NEW p, NEW table, IsTable(table) \/ table = None, NoneIsNoTable
  PROVE  Kept(T, FinalizeDataTable(T, "User", p, table, 0))
<1> DEFINE s == T.sheet
           k == IndexOf(s, p)
           old == TableAt(s, p)
           new == IF None \in {old, table} THEN table
                  ELSE [table EXCEPT !.name = old.name, !.columns = old.columns]
           at == IF k # 0 THEN k ELSE Len(s.tables) + 1
           place == IF at > Len(s.tables) THEN Len(s.tables) + 1 ELSE at
           q == InsertBefore(s.tables, place, new)
           after == IF new = None THEN WithoutTable(s, p) ELSE [s EXCEPT !.tables = q]
           f == <<SetDataTable(p, new, at)>>
           r == <<SetDataTable(p, old, at)>>
           R == FinalizeDataTable(T, "User", p, table, 0)
<1>1. R = IF old = new THEN OnSheet(T, after)
          ELSE DataTableOperations(OnSheet(T, after), "User", f, r)
  BY DEF FinalizeDataTable
<1> SUFFICES Kept(T, R)
  OBVIOUS
<1> HIDE DEF R
<1>2. IsSheet(s) /\ Len(s.tables) \in Nat /\ IsTableList(s.tables)
  BY SheetParts DEF IsPending, IsSheet
<1>3. k \in 0..Len(s.tables)
  BY <1>2, IndexOfIsFirst
<1>4. new = None \/ IsTable(new)
  <2>1. CASE None \in {old, table}
    BY <2>1
  <2>2. CASE None \notin {old, table}
    <3>1. IsTable([table EXCEPT !.name = old.name, !.columns = old.columns])
      BY <2>2, RenamedType
    <3> QED BY <2>2, <3>1
  <2> QED BY <2>1, <2>2
<1> HIDE DEF new, old, f, r, k
<1>5. place \in 1..(Len(s.tables) + 1)
  BY <1>2, <1>3
<1>6. IsSheet(after)
  <2>1. CASE new = None
    BY <1>2, <2>1, WithoutTableType
  <2>2. CASE new # None
    <3>1. IsTableList(q)
      BY <1>2, <1>4, <1>5, <2>2, InsertBeforeType
    <3> HIDE DEF q
    <3>2. IsSheet([s EXCEPT !.tables = q])
      BY <1>2, <3>1, NewTables
    <3> QED BY <2>2, <3>2, Zenon
  <2> QED BY <2>1, <2>2
<1>7. CASE old # new
  <2> HIDE DEF after
  <2>1. IsPending(R) /\ Exact(R.sheet)
    BY <1>1, <1>6, <1>7, OwnOperationsChecked
  <2> QED BY <2>1 DEF Kept
<1>8. CASE old = new
  <2>1. OnSheet(T, s) = T
    BY OnSheetSame
  <2>2. after = s
    <3>1. CASE k = 0
      <4>1. old = None
        BY <3>1 DEF old, k, TableAt
      <4>2. after = WithoutTable(s, p)
        BY <1>8, <4>1, Zenon
      <4>3. WithoutTable(s, p) = s
        BY <3>1 DEF WithoutTable, k
      <4> QED BY <4>2, <4>3
    <3>2. CASE k # 0
      <4>1. old = s.tables[k] /\ IsTable(old) /\ k \in 1..Len(s.tables)
        BY <1>2, <3>2, TableAtType DEF old, k
      <4>2. new # None
        BY <1>8, <4>1 DEF NoneIsNoTable
      <4>3. place = k
        BY <1>2, <4>1
      <4>4. q = s.tables
        <5> DEFINE marks == {i \in 1..Len(s.tables) : s.tables[i].pos = new.pos}
        <5>1. InsertBefore(s.tables, place, new) =
                IF First(marks) = 0 THEN InsertAt(s.tables, place, new)
                ELSE InsertAt(RemoveAt(s.tables, First(marks)),
                              IF place > First(marks) THEN place - 1 ELSE place, new)
          BY Zenon DEF InsertBefore, SelectInSeq, First
        <5>2. First(marks) = k
          <6>1. new.pos = p
            <7>1. s.tables[IndexOf(s, p)].pos = p
              BY <1>2, <3>2, IndexOfIsFirst DEF k
            <7> QED BY <1>8, <4>1, <7>1 DEF k
          <6>2. IndexOf(s, p) = First({i \in 1..Len(s.tables) : s.tables[i].pos = p})
            BY Zenon DEF IndexOf, SelectInSeq, First
          <6> QED BY <6>1, <6>2 DEF k
        <5>3. InsertAt(RemoveAt(s.tables, k), k, s.tables[k]) = s.tables
          BY <1>2, <4>1, PutBack
        <5> HIDE DEF marks, place
        <5>4. InsertBefore(s.tables, place, new) = InsertAt(RemoveAt(s.tables, k), k, new)
          BY <1>2, <4>1, <4>3, <5>1, <5>2
        <5> QED BY <1>8, <4>1, <5>3, <5>4
      <4> HIDE DEF q
      <4>5. after = [s EXCEPT !.tables = s.tables]
        BY <4>2, <4>4
      <4>6. s = [cells |-> s.cells, tables |-> s.tables]
        BY <1>2 DEF IsSheet
      <4>7. [s EXCEPT !.tables = s.tables] = s
        BY <4>6
      <4> QED BY <4>5, <4>7
    <3> QED BY <3>1, <3>2
  <2> HIDE DEF after
  <2> QED BY <1>1, <1>8, <2>1, <2>2 DEF Kept
<1> QED
  BY <1>7, <1>8

LEMMA ExactKept ==
  ASSUME NEW T, NEW R, IsPending(R) /\ Exact(R.sheet)
  PROVE  Kept(T, R)
BY DEF Kept

LEMMA PendingParts ==
  ASSUME NEW T, IsPending(T)
  PROVE  /\ IsSheet(T.sheet) /\ Len(T.sheet.tables) \in Nat
         /\ IsTableList(T.sheet.tables)
         /\ \A i \in 1..Len(T.sheet.tables) : IsTable(T.sheet.tables[i])
BY SheetParts DEF IsPending, IsSheet

LEMMA ComputeCodeKept ==
  ASSUME NEW T, IsPending(T), NEW op, NoneIsNoTable
  PROVE  Kept(T, ExecuteComputeCode(T, "User", op))
<1> DEFINE t == NewTable(op.pos, op.result, Code, "default", op.time)
           R == FinalizeDataTable(T, "User", op.pos, t, 0)
<1>1. IsTable(t)
  BY MadeType
<1> HIDE DEF t
<1>2. Kept(T, R)
  BY <1>1, FinalizeKept
<1>3. ExecuteComputeCode(T, "User", op) = IF T.sheet.cells[op.pos] # Code THEN T ELSE R
  BY DEF ExecuteComputeCode, t
<1> HIDE DEF R
<1>4. Kept(T, T)
  BY KeptSelf
<1> QED
  BY <1>2, <1>3, <1>4

LEMMA AddDataTableKept ==
  ASSUME NEW T, IsPending(T), NEW op, IsTable(op.table), op.index \in Nat
  PROVE  Kept(T, ExecuteAddDataTable(T, "User", op))
<1> DEFINE s == T.sheet
           at == IF op.index > Len(s.tables) THEN Len(s.tables) + 1 ELSE op.index
           tables == IF op.index = 0 THEN InsertSorted(s.tables, op.table)
                     ELSE InsertBefore(s.tables, at, op.table)
           cells == WithCell(s, op.pos, op.cell)
           after == [cells EXCEPT !.tables = tables]
           r == << SetCellValues(op.pos, <<s.cells[op.pos]>>),
                   SetDataTable(op.pos, TableAt(s, op.pos), IndexOf(after, op.pos)) >>
           R == DataTableOperations(OnSheet(T, after), "User", <<op>>, r)
<1>1. ExecuteAddDataTable(T, "User", op) = R
  BY Zenon DEF ExecuteAddDataTable
<1>2. IsSheet(s) /\ Len(s.tables) \in Nat /\ IsTableList(s.tables)
  BY PendingParts
<1> HIDE DEF R, r
<1>3. op.index # 0 => at \in 1..(Len(s.tables) + 1)
  BY <1>2
<1> HIDE DEF at
<1>4. IsTableList(tables)
  BY <1>2, <1>3, InsertSortedType, InsertBeforeType
<1> HIDE DEF tables
<1>5. IsSheet(cells)
  BY <1>2, WithCellType
<1> HIDE DEF cells
<1>6. IsSheet(after)
  BY <1>4, <1>5, NewTables
<1> HIDE DEF after
<1>7. IsPending(R) /\ Exact(R.sheet)
  BY <1>6, OwnOperationsChecked DEF R
<1> QED
  BY <1>1, <1>7, ExactKept

LEMMA DeleteDataTableKept ==
  ASSUME NEW T, IsPending(T), NEW op
  PROVE  Kept(T, ExecuteDeleteDataTable(T, "User", op))
<1> DEFINE s == T.sheet
           i == Within(s, op.pos)
           t == s.tables[i]
           u == WithoutTable(s, t.pos)
           after == WithCell(u, t.pos, Blank)
           r == <<AddDataTable(op.pos, t, s.cells[t.pos], i)>>
           R == DataTableOperations(OnSheet(T, after), "User", <<op>>, r)
<1>1. ExecuteDeleteDataTable(T, "User", op) = IF i = 0 THEN T ELSE R
  BY Zenon DEF ExecuteDeleteDataTable
<1>2. IsSheet(s)
  BY PendingParts
<1> HIDE DEF R, r, t, i
<1>3. IsSheet(u)
  BY <1>2, WithoutTableType
<1> HIDE DEF u
<1>4. IsSheet(after)
  BY <1>3, WithCellType
<1> HIDE DEF after
<1>5. IsPending(R) /\ Exact(R.sheet)
  BY <1>4, OwnOperationsChecked DEF R
<1>6. Kept(T, T) /\ Kept(T, R)
  BY <1>5, ExactKept, KeptSelf
<1> QED
  BY <1>1, <1>6, Zenon

LEMMA SetDataTableAtKept ==
  ASSUME NEW T, IsPending(T), NEW op
  PROVE  Kept(T, ExecuteSetDataTableAt(T, "User", op))
<1> DEFINE s == T.sheet
           i == Within(s, op.pos)
           t == s.tables[i]
           j == Within(s, op.pos - HeadRows(t))
           u == s.tables[j]
           row == IF u.single THEN 1 ELSE op.pos - HeadRows(t) - u.pos + 1
           v == [u EXCEPT !.rows[row] = op.value]
           after == IF j = 0 \/ u.spill \/ row \notin DOMAIN u.rows THEN s ELSE WithTable(s, j, v)
           own == op.pos - t.pos - HeadRows(t) + 1
           old == IF t.single THEN t.rows[1]
                  ELSE IF t.spill THEN Blank
                  ELSE IF own \in DOMAIN t.rows THEN t.rows[own] ELSE Heading
           R == DataTableOperations(OnSheet(T, after), "User", <<op>>,
                  <<SetDataTableAt(op.pos, old)>>)
<1>1. ExecuteSetDataTableAt(T, "User", op) = IF i = 0 \/ t.kind = Code THEN T ELSE R
  BY Zenon DEF ExecuteSetDataTableAt
<1>2. /\ IsSheet(s) /\ Len(s.tables) \in Nat
      /\ \A k \in 1..Len(s.tables) : IsTable(s.tables[k])
  BY PendingParts
<1>3. j \in 0..Len(s.tables)
  BY <1>2, WithinIsIndex
<1> HIDE DEF R, old, own, row, t, i
<1>4. j # 0 => IsTable(u)
  BY <1>2, <1>3
<1> HIDE DEF u
<1>5. j # 0 => IsTable(v)
  <2> DEFINE rows == [u.rows EXCEPT ![row] = op.value]
  <2>1. v = [u EXCEPT !.rows = rows]
    OBVIOUS
  <2> HIDE DEF rows
  <2>2. j # 0 => IsTable([u EXCEPT !.rows = rows])
    BY <1>4, WithRowsType
  <2> HIDE DEF v
  <2> QED BY <2>1, <2>2, Zenon
<1> HIDE DEF v, j
<1>6. IsSheet(after)
  <2>1. CASE j = 0
    BY <1>2, <2>1
  <2>2. CASE j # 0
    <3>1. j \in 1..Len(s.tables)
      BY <1>2, <1>3, <2>2
    <3>2. IsSheet(WithTable(s, j, v))
      BY <1>2, <1>5, <2>2, <3>1, WithTableType
    <3> QED BY <1>2, <3>2
  <2> QED BY <2>1, <2>2
<1> HIDE DEF after
<1>7. IsPending(R) /\ Exact(R.sheet)
  BY <1>6, OwnOperationsChecked DEF R
<1>8. Kept(T, T) /\ Kept(T, R)
  BY <1>7, ExactKept, KeptSelf
<1> QED
  BY <1>1, <1>8, Zenon

LEMMA SwitchDataTableKindKept ==
  ASSUME NEW T, IsPending(T), NEW op
  PROVE  Kept(T, ExecuteSwitchDataTableKind(T, "User", op))
<1> DEFINE s == T.sheet
           i == Within(s, op.pos)
           t == s.tables[i]
           v == [t EXCEPT !.kind = op.kind]
           u == WithTable(s, i, v)
           after == WithCell(u, t.pos, op.cell)
           R == DataTableOperations(OnSheet(T, after), "User", <<op>>,
                  <<SwitchDataTableKind(op.pos, t.kind, s.cells[t.pos])>>)
<1>1. ExecuteSwitchDataTableKind(T, "User", op) = IF i = 0 THEN T ELSE R
  BY Zenon DEF ExecuteSwitchDataTableKind
<1>2. /\ IsSheet(s) /\ Len(s.tables) \in Nat
      /\ \A k \in 1..Len(s.tables) : IsTable(s.tables[k])
  BY PendingParts
<1>3. i \in 0..Len(s.tables)
  BY <1>2, WithinIsIndex
<1>4. Kept(T, T)
  BY KeptSelf
<1>5. CASE i = 0
  BY <1>1, <1>4, <1>5
<1>6. CASE i # 0
  <2>1. i \in 1..Len(s.tables)
    BY <1>2, <1>3, <1>6
  <2>2. IsTable(t)
    BY <1>2, <2>1
  <2> HIDE DEF t, i
  <2>3. IsTable(v)
    BY <2>2, WithKindType
  <2> HIDE DEF v
  <2>4. IsSheet(u)
    BY <1>2, <2>1, <2>3, WithTableType
  <2> HIDE DEF u
  <2>5. IsSheet(after)
    BY <2>4, WithCellType
  <2> HIDE DEF after
  <2>6. IsPending(R) /\ Exact(R.sheet)
    BY <2>5, OwnOperationsChecked
  <2> HIDE DEF R
  <2>7. Kept(T, R)
    BY <2>6, ExactKept
  <2> QED BY <1>1, <1>6, <2>7
<1> QED
  BY <1>5, <1>6

LEMMA DataTableOptionMetaKept ==
  ASSUME NEW T, IsPending(T), NEW op
  PROVE  Kept(T, ExecuteDataTableOptionMeta(T, "User", op))
<1> DEFINE s == T.sheet
           i == Within(s, op.pos)
           t == s.tables[i]
           v == [t EXCEPT !.name = op.name, !.columns = op.columns]
           after == WithTable(s, i, v)
           R == DataTableOperations(OnSheet(T, after), "User", <<op>>,
                  <<DataTableOptionMeta(op.pos, t.name, t.columns)>>)
<1>1. ExecuteDataTableOptionMeta(T, "User", op) = IF i = 0 THEN T ELSE R
  BY Zenon DEF ExecuteDataTableOptionMeta
<1>2. /\ IsSheet(s) /\ Len(s.tables) \in Nat
      /\ \A k \in 1..Len(s.tables) : IsTable(s.tables[k])
  BY PendingParts
<1>3. i \in 0..Len(s.tables)
  BY <1>2, WithinIsIndex
<1>4. Kept(T, T)
  BY KeptSelf
<1>5. CASE i = 0
  BY <1>1, <1>4, <1>5
<1>6. CASE i # 0
  <2>1. i \in 1..Len(s.tables)
    BY <1>2, <1>3, <1>6
  <2>2. IsTable(t)
    BY <1>2, <2>1
  <2> HIDE DEF t, i
  <2>3. IsTable(v)
    BY <2>2, RenamedType
  <2> HIDE DEF v
  <2>4. IsSheet(after)
    BY <1>2, <2>1, <2>3, WithTableType
  <2> HIDE DEF after
  <2>5. IsPending(R) /\ Exact(R.sheet)
    BY <2>4, OwnOperationsChecked
  <2> HIDE DEF R
  <2>6. Kept(T, R)
    BY <2>5, ExactKept
  <2> QED BY <1>1, <1>6, <2>6
<1> QED
  BY <1>5, <1>6

LEMMA GridToDataTableKept ==
  ASSUME NEW T, IsPending(T), NEW op
  PROVE  Kept(T, ExecuteGridToDataTable(T, "User", op))
<1> DEFINE s == T.sheet
           old == Cells(s, op.pos, op.hi - op.pos + 1)
           t == NewTable(op.pos, old, Import, "shown", op.time)
           u == WithCells(s, op.pos, Blanks(Len(old)))
           cleared == WithCell(u, op.pos, Import)
           q == InsertSorted(cleared.tables, t)
           after == [cleared EXCEPT !.tables = q]
           R == DataTableOperations(OnSheet(T, after), "User", <<op>>,
                  <<SetCellValues(op.pos, old), DeleteDataTable(op.pos)>>)
           busy == \E i \in DOMAIN s.tables : Output(s.tables[i]) \cap (op.pos .. op.hi) # {}
<1>1. ExecuteGridToDataTable(T, "User", op) = IF busy THEN T ELSE R
  BY Zenon DEF ExecuteGridToDataTable
<1>2. IsSheet(s)
  BY PendingParts
<1>3. IsTable(t)
  BY MadeType
<1> HIDE DEF R, busy, t
<1>4. IsSheet(u)
  BY <1>2, WithCellsType
<1> HIDE DEF u
<1>5. IsSheet(cleared)
  BY <1>4, WithCellType
<1> HIDE DEF cleared
<1>6. IsTableList(q)
  BY <1>3, <1>5, InsertSortedType DEF IsSheet
<1> HIDE DEF q
<1>7. IsSheet(after)
  BY <1>5, <1>6, NewTables
<1> HIDE DEF after
<1>8. IsPending(R) /\ Exact(R.sheet)
  BY <1>7, OwnOperationsChecked DEF R
<1>9. Kept(T, T) /\ Kept(T, R)
  BY <1>8, ExactKept, KeptSelf
<1> QED
  BY <1>1, <1>9, Zenon

(* check_deleted_data_tables.                                              *)
IsDeletedPass(loop, g, T, source, lo, hi, n) ==
  /\ loop = [over |-> "deleted", source |-> source, lo |-> lo, hi |-> hi,
             cells |-> T.sheet.cells]
  /\ IsChain(g, n, loop, T, T.sheet.tables)
  /\ CheckDeletedDataTables(T, source, lo, hi) = g[n]

LEMMA DeletedIsChain ==
  ASSUME NEW T, NEW source, NEW lo, NEW hi, NEW n \in Nat, DOMAIN T.sheet.tables = 1..n
  PROVE  \E loop, g : IsDeletedPass(loop, g, T, source, lo, hi, n)
<1> DEFINE q == T.sheet.tables
           cells == T.sheet.cells
           loop == [over |-> "deleted", source |-> source, lo |-> lo, hi |-> hi, cells |-> cells]
           Goes(t) == t.pos \in lo .. hi /\ cells[t.pos] \notin {Code, Import}
           Unfolds(h) == h = [s \in SUBSET (DOMAIN q) |->
              IF s = {} THEN T
              ELSE IF Goes(q[Max(s)])
                THEN FinalizeDataTable(h[s \ {Max(s)}], source, q[Max(s)].pos, None, 0)
              ELSE h[s \ {Max(s)}]]
           iter == CHOOSE h : Unfolds(h)
<1>1. CheckDeletedDataTables(T, source, lo, hi) = iter[DOMAIN q]
  BY Zenon DEF CheckDeletedDataTables, FoldLeft, MapThenFoldSet
<1>2. DOMAIN q = 1..n
  OBVIOUS
<1>3. /\ loop.over = "deleted" /\ loop.source = source /\ loop.lo = lo /\ loop.hi = hi
      /\ loop.cells = cells
  OBVIOUS
<1>4. loop = [over |-> "deleted", source |-> source, lo |-> lo, hi |-> hi,
              cells |-> T.sheet.cells]
  OBVIOUS
<1> HIDE DEF loop
<1>5. \A R, x : Step(loop, R, x) =
        IF x.pos \in lo .. hi /\ cells[x.pos] \notin {Code, Import}
          THEN FinalizeDataTable(R, source, x.pos, None, 0) ELSE R
  <2>1. "deleted" # "tables"
    OBVIOUS
  <2> HIDE DEF cells
  <2> QED BY <1>3, <2>1, Zenon DEF Step
<1> HIDE DEF q
<1>6. ASSUME NEW h PROVE IsFold(h, n, loop, T, q) <=> Unfolds(h)
  <2> DEFINE a == [s \in SUBSET (1..n) |->
                     IF s = {} THEN T ELSE Step(loop, h[s \ {Max(s)}], q[Max(s)])]
             b == [s \in SUBSET (1..n) |->
                     IF s = {} THEN T
                     ELSE IF Goes(q[Max(s)])
                       THEN FinalizeDataTable(h[s \ {Max(s)}], source, q[Max(s)].pos, None, 0)
                     ELSE h[s \ {Max(s)}]]
  <2>1. ASSUME NEW s \in SUBSET (1..n) PROVE a[s] = b[s]
    <3>1. a[s] = IF s = {} THEN T ELSE Step(loop, h[s \ {Max(s)}], q[Max(s)])
      OBVIOUS
    <3>2. b[s] = IF s = {} THEN T
                 ELSE IF Goes(q[Max(s)])
                   THEN FinalizeDataTable(h[s \ {Max(s)}], source, q[Max(s)].pos, None, 0)
                 ELSE h[s \ {Max(s)}]
      OBVIOUS
    <3> HIDE DEF a, b
    <3> QED BY <1>5, <3>1, <3>2, Zenon
  <2>2. a = [s \in SUBSET (1..n) |-> a[s]] /\ b = [s \in SUBSET (1..n) |-> b[s]]
    OBVIOUS
  <2>3. a = b
    <3> HIDE DEF a, b
    <3> QED BY <2>1, <2>2
  <2>4. (IsFold(h, n, loop, T, q) <=> h = a) /\ (Unfolds(h) <=> h = b)
    BY <1>2, Zenon DEF IsFold
  <2> QED BY <2>3, <2>4
<1>7. IsFold(iter, n, loop, T, q)
  <2>1. \E h : Unfolds(h)
    BY <1>6, FoldExists, Zenon
  <2> HIDE DEF Unfolds
  <2>2. Unfolds(iter)
    BY <2>1, Zenon
  <2> QED BY <1>6, <2>2, Zenon
<1> HIDE DEF iter
<1>8. PICK g : IsChain(g, n, loop, T, q) /\ iter[1..n] = g[n]
  BY <1>7, FoldIsChain
<1> QED
  BY <1>1, <1>2, <1>4, <1>8, Zenon DEF q, IsDeletedPass

LEMMA CheckDeletedKept ==
  ASSUME NEW T, IsPending(T), NEW lo, NEW hi, NoneIsNoTable
  PROVE  Kept(T, CheckDeletedDataTables(T, "User", lo, hi))
<1> DEFINE n == Len(T.sheet.tables)
           q == T.sheet.tables
<1>1. n \in Nat /\ DOMAIN T.sheet.tables = 1..n
  BY SheetParts DEF IsPending
<1> HIDE DEF n
<1>2. PICK loop, g :
         IsDeletedPass(loop, g, T, "User", lo, hi, n)
  BY <1>1, DeletedIsChain, Zenon
<1> DEFINE R == CheckDeletedDataTables(T, "User", lo, hi)
<1>3. loop.over = "deleted" /\ loop.source = "User" /\ IsChain(g, n, loop, T, q) /\ R = g[n]
  <2>1. /\ loop = [over |-> "deleted", source |-> "User", lo |-> lo, hi |-> hi,
                   cells |-> T.sheet.cells]
        /\ IsChain(g, n, loop, T, q) /\ R = g[n]
    BY <1>2, Zenon DEF IsDeletedPass
  <2> HIDE DEF R, q
  <2> QED BY <2>1
<1> SUFFICES Kept(T, R)
  OBVIOUS
<1> HIDE DEF R, q
<1>4. ASSUME NEW U, IsPending(U), NEW x PROVE Kept(U, Step(loop, U, x))
  <2> DEFINE goes == x.pos \in loop.lo .. loop.hi /\ loop.cells[x.pos] \notin {Code, Import}
             S == FinalizeDataTable(U, "User", x.pos, None, 0)
  <2>1. Step(loop, U, x) = IF goes THEN S ELSE U
    <3>1. "deleted" # "tables"
      OBVIOUS
    <3> QED BY <1>3, <3>1, Zenon DEF Step
  <2>2. Kept(U, U) /\ Kept(U, S)
    BY <1>4, KeptSelf, FinalizeKept
  <2> HIDE DEF goes, S
  <2> QED BY <2>1, <2>2, Zenon
<1> DEFINE G == {k \in 0..n : Kept(T, g[k])}
<1>5. 0 \in G
  BY <1>1, <1>3, KeptSelf DEF IsChain
<1>6. ASSUME NEW k \in 1..n, k - 1 \in G PROVE k \in G
  <2>1. Kept(T, g[k - 1]) /\ g[k] = Step(loop, g[k - 1], q[k])
    BY <1>3, <1>6 DEF IsChain
  <2>2. Kept(g[k - 1], g[k])
    BY <1>4, <2>1 DEF Kept
  <2>3. Kept(T, g[k])
    BY <2>1, <2>2, KeptTwice
  <2>4. k \in 0..n
    BY <1>1
  <2> QED BY <2>3, <2>4
<1>7. n \in G
  <2> HIDE DEF G
  <2> QED BY <1>1, <1>5, <1>6, InductionTo
<1> QED
  BY <1>3, <1>7

LEMMA SetCellValuesKept ==
  ASSUME NEW T, IsPending(T), NEW op, op.pos \in Int, Len(op.values) \in Nat, NoneIsNoTable
  PROVE  Kept(T, ExecuteSetCellValues(T, "User", op))
<1> DEFINE s == T.sheet
           old == Cells(s, op.pos, Len(op.values))
           after == WithCells(s, op.pos, op.values)
           set == OnSheet(T, after)
           forward == Record(set, <<op>>, <<>>)
           deleted == CheckDeletedDataTables(forward, "User",
                        op.pos, op.pos + Len(op.values) - 1)
           checked == CheckAllSpills(deleted)
           R == Record(checked, <<>>, <<SetCellValues(op.pos, old)>>)
<1>1. ExecuteSetCellValues(T, "User", op) = IF old = op.values THEN set ELSE R
  BY DEF ExecuteSetCellValues
<1>2. IsSheet(s)
  BY PendingParts
<1>3. CASE old = op.values
  <2>1. after = s
    BY <1>2, <1>3, WriteSame
  <2>2. OnSheet(T, s) = T /\ Kept(T, T)
    BY OnSheetSame, KeptSelf
  <2> HIDE DEF R, old
  <2> QED BY <1>1, <1>3, <2>1, <2>2
<1>4. CASE old # op.values
  <2>1. IsSheet(after)
    BY <1>2, WithCellsType
  <2> HIDE DEF after, old
  <2>2. IsPending(set)
    BY <2>1, OnSheetType
  <2> HIDE DEF set
  <2>3. IsPending(forward)
    BY <2>2, RecordType
  <2> HIDE DEF forward
  <2>4. IsPending(deleted)
    BY <2>3, CheckDeletedKept DEF Kept
  <2> HIDE DEF deleted
  <2>5. IsPending(checked) /\ Exact(checked.sheet)
    BY <2>4, OnePassIsEnough
  <2> HIDE DEF checked
  <2>6. IsPending(R) /\ R.sheet = checked.sheet
    BY <2>5, RecordType
  <2> HIDE DEF R
  <2>7. Kept(T, R)
    BY <2>5, <2>6, ExactKept
  <2> QED BY <1>1, <1>4, <2>7
<1> QED
  BY <1>3, <1>4

LEMMA FlattenDataTableKept ==
  ASSUME NEW T, IsPending(T), NEW op, NoneIsNoTable
  PROVE  Kept(T, ExecuteFlattenDataTable(T, "User", op))
<1> DEFINE s == T.sheet
           i == Within(s, op.pos)
           t == s.tables[i]
           values == [k \in 1 .. HeadRows(t) |-> Heading] \o t.rows
           u == WithoutTable(s, t.pos)
           after == WithCells(u, t.pos, values)
           shown == IF t.spill THEN 1 ELSE Height(t)
           r == << AddDataTable(op.pos, t, s.cells[t.pos], i),
                   SetCellValues(t.pos, Blanks(shown)) >>
           S == DataTableOperations(OnSheet(T, after), "User", <<op>>, r)
           R == CheckDeletedDataTables(S, "User", t.pos, t.pos + Len(values) - 1)
<1>1. ExecuteFlattenDataTable(T, "User", op) = IF i = 0 THEN T ELSE R
  BY Zenon DEF ExecuteFlattenDataTable
<1>2. IsSheet(s)
  BY PendingParts
<1> HIDE DEF r, shown, values, t, i
<1>3. IsSheet(u)
  BY <1>2, WithoutTableType
<1> HIDE DEF u
<1>4. IsSheet(after)
  BY <1>3, WithCellsType
<1> HIDE DEF after
<1>5. IsPending(S) /\ Exact(S.sheet)
  BY <1>4, OwnOperationsChecked
<1> HIDE DEF S
<1>6. Kept(S, R)
  BY <1>5, CheckDeletedKept
<1> HIDE DEF R
<1>7. IsPending(R) /\ Exact(R.sheet)
  BY <1>5, <1>6 DEF Kept
<1>8. Kept(T, T) /\ Kept(T, R)
  BY <1>7, ExactKept, KeptSelf
<1> QED
  BY <1>1, <1>8, Zenon

(* A row operation that fails records nothing.                             *)
Refused(T, R) == IsPending(R) /\ R.forward = T.forward /\ R.reverse = T.reverse

LEMMA OnSheetRefused ==
  ASSUME NEW T, IsPending(T), NEW s, IsSheet(s)
  PROVE  Refused(T, OnSheet(T, s))
<1> DEFINE R == [sheet |-> s, forward |-> T.forward, reverse |-> T.reverse]
<1>1. T = [sheet |-> T.sheet, forward |-> T.forward, reverse |-> T.reverse]
  BY DEF IsPending
<1>2. OnSheet(T, s) = R
  BY <1>1 DEF OnSheet
<1>3. R.forward = T.forward /\ R.reverse = T.reverse
  OBVIOUS
<1> HIDE DEF R
<1>4. IsPending(OnSheet(T, s))
  BY OnSheetType
<1> QED
  BY <1>2, <1>3, <1>4 DEF Refused

LEMMA DeleteDataTableRowsKept ==
  ASSUME NEW T, IsPending(T), NEW op
  PROVE  LET R == ExecuteDeleteDataTableRows(T, "User", op)
         IN  Kept(T, R) \/ Refused(T, R)
<1> DEFINE s == T.sheet
           i == Within(s, op.pos)
           t == s.tables[i]
           gone == {index \in Range(op.rows) : index - HeadRows(t) + 1 \in DOMAIN t.rows}
           kept == SelectSeq([k \in DOMAIN t.rows |-> k],
                             LAMBDA k : HeadRows(t) + k - 1 \notin gone)
           rows == [k \in DOMAIN kept |-> t.rows[kept[k]]]
           indexes == SetToSortSeq(gone, <)
           reverse == [k \in DOMAIN indexes |->
                         [index |-> indexes[k], value |-> t.rows[indexes[k] - HeadRows(t) + 1]]]
           lo == t.pos + HeadRows(t) + 1
           flat == [k \in 1 .. Len(t.rows) - 1 |->
                      IF HeadRows(t) + k \in gone THEN t.rows[k + 1] ELSE Blank]
           flattens == op.flatten /\ gone \ {HeadRows(t)} # {}
           v == [t EXCEPT !.rows = rows]
           left == IF rows = <<>> THEN <<t.rows[1]>> ELSE rows
           w == [t EXCEPT !.rows = left]
           deleted == WithTable(s, i, v)
           cleared == WithCells(deleted, lo, flat)
           after == IF flattens THEN cleared ELSE deleted
           refused == WithTable(s, i, w)
           r == <<InsertDataTableRows(op.pos, reverse, FALSE)>> \o
                (IF flattens THEN <<SetCellValues(lo, Cells(s, lo, Len(flat)))>> ELSE <<>>)
           heading == \E index \in Range(op.rows) : index < HeadRows(t)
           stays == op.rows = <<>> \/ t.single \/ (heading /\ op.flatten)
           S == DataTableOperations(OnSheet(T, after), "User", <<op>>, r)
           R == ExecuteDeleteDataTableRows(T, "User", op)
<1>1. R = IF i = 0 \/ stays THEN T
          ELSE IF heading \/ rows = <<>> THEN OnSheet(T, refused)
          ELSE S
  BY Zenon DEF ExecuteDeleteDataTableRows
<1> SUFFICES Kept(T, R) \/ Refused(T, R)
  OBVIOUS
<1>2. /\ IsSheet(s) /\ Len(s.tables) \in Nat
      /\ \A k \in 1..Len(s.tables) : IsTable(s.tables[k])
  BY PendingParts
<1>3. i \in 0..Len(s.tables)
  BY <1>2, WithinIsIndex
<1>4. Kept(T, T)
  BY KeptSelf
<1>5. i # 0 => IsTable(t) /\ i \in 1..Len(s.tables)
  BY <1>2, <1>3
<1> HIDE DEF R, stays, heading, r, flattens, flat, lo, reverse, indexes, kept, gone
<1>6. i # 0 => IsTable(v) /\ IsTable(w)
  <2> HIDE DEF rows, t, i, left
  <2> QED BY <1>5, WithRowsType
<1> HIDE DEF v, w, left, rows, t, i
<1>7. i # 0 => IsSheet(deleted) /\ IsSheet(refused)
  BY <1>2, <1>5, <1>6, WithTableType
<1> HIDE DEF deleted, refused
<1>8. i # 0 => IsSheet(cleared)
  BY <1>7, WithCellsType
<1> HIDE DEF cleared
<1>9. i # 0 => IsSheet(after)
  BY <1>7, <1>8
<1> HIDE DEF after
<1>10. i # 0 => IsPending(S) /\ Exact(S.sheet)
  BY <1>9, OwnOperationsChecked
<1> HIDE DEF S
<1>11. i # 0 => Kept(T, S)
  BY <1>10, ExactKept
<1>12. i # 0 => Refused(T, OnSheet(T, refused))
  BY <1>7, OnSheetRefused
<1> QED
  BY <1>1, <1>4, <1>11, <1>12, Zenon

(* Rows that are being inserted: whether all went well so far, and a sheet *)
(* with as many tables as at first.                                        *)
Inserting(R, m) ==
  /\ R = [ok |-> R.ok, sheet |-> R.sheet]
  /\ IsSheet(R.sheet) /\ Len(R.sheet.tables) = m

LEMMA InsertOneRowKeeps ==
  ASSUME NEW m \in Nat, NEW i \in 1..m, NEW R, Inserting(R, m), NEW row, NEW swallow
  PROVE  Inserting(InsertOneRow(R, i, row, swallow), m)
<1> DEFINE u == R.sheet.tables[i]
           cell == u.pos + row.index
           takes == swallow /\ row.value = None
           value == IF row.value # None THEN row.value
                    ELSE IF takes THEN R.sheet.cells[cell] ELSE Blank
           cleared == WithCell(R.sheet, cell, Blank)
           taken == IF takes THEN cleared ELSE R.sheet
           k == row.index - HeadRows(u) + 1
           rows == IF k <= Len(u.rows) + 1 THEN InsertAt(u.rows, k, value)
                   ELSE Append(u.rows, Blank)
           v == [u EXCEPT !.rows = rows]
           longer == WithTable(taken, i, v)
           anchored == takes /\ R.sheet.cells[cell] \in {Code, Import}
           A == [R EXCEPT !.ok = FALSE]
           B == [ok |-> FALSE, sheet |-> taken]
           C == [R EXCEPT !.sheet = longer]
           S == InsertOneRow(R, i, row, swallow)
<1>1. S = IF ~ R.ok THEN R
          ELSE IF k < 1 \/ anchored THEN A
          ELSE IF u.single THEN B
          ELSE C
  BY DEF InsertOneRow
<1> SUFFICES Inserting(S, m)
  OBVIOUS
<1>2. /\ R = [ok |-> R.ok, sheet |-> R.sheet]
      /\ IsSheet(R.sheet) /\ Len(R.sheet.tables) = m
  BY DEF Inserting
<1>3. IsTable(u)
  BY <1>2, SheetParts
<1> HIDE DEF S, anchored, rows, value, k
<1>4. IsTable(v)
  BY <1>3, WithRowsType
<1> HIDE DEF v, u, cell
<1>5. IsSheet(cleared) /\ cleared.tables = R.sheet.tables
  BY <1>2, WithCellType
<1> HIDE DEF cleared
<1>6. IsSheet(taken) /\ Len(taken.tables) = m
  BY <1>2, <1>5
<1> HIDE DEF taken, takes
<1>7. IsSheet(longer) /\ Len(longer.tables) = m
  BY <1>4, <1>6, WithTableType
<1> HIDE DEF longer
<1>8. A = [ok |-> FALSE, sheet |-> R.sheet] /\ C = [ok |-> R.ok, sheet |-> longer]
  <2>1. R = [ok |-> R.ok, sheet |-> R.sheet]
    BY <1>2
  <2>2. A = [ok |-> FALSE, sheet |-> R.sheet]
    <3>1. ASSUME NEW b PROVE [R EXCEPT !.ok = b] = [ok |-> b, sheet |-> R.sheet]
      BY <2>1
    <3> QED BY <3>1, Zenon
  <2>3. C = [ok |-> R.ok, sheet |-> longer]
    BY <2>1
  <2> QED BY <2>2, <2>3
<1>9. \A ok, s : IsSheet(s) /\ Len(s.tables) = m => Inserting([ok |-> ok, sheet |-> s], m)
  BY DEF Inserting
<1>10. Inserting(A, m) /\ Inserting(B, m) /\ Inserting(C, m)
  <2> HIDE DEF A, C
  <2> QED BY <1>2, <1>6, <1>7, <1>8, <1>9
<1> HIDE DEF A, B, C
<1> QED
  BY <1>1, <1>10, Zenon

IsInsertion(loop, g, s, i, q, swallow, n) ==
  /\ loop = [over |-> "rows", table |-> i, swallow |-> swallow]
  /\ IsChain(g, n, loop, [ok |-> TRUE, sheet |-> s], q)
  /\ InsertRows(s, i, q, swallow) = g[n]

LEMMA InsertedIsChain ==
  ASSUME NEW q, NEW i, NEW swallow, NEW s, NEW n \in Nat, DOMAIN q = 1..n
  PROVE  \E loop, g : IsInsertion(loop, g, s, i, q, swallow, n)
<1> DEFINE loop == [over |-> "rows", table |-> i, swallow |-> swallow]
           T == [ok |-> TRUE, sheet |-> s]
           Unfolds(h) == h = [S \in SUBSET (DOMAIN q) |->
              IF S = {} THEN T
              ELSE InsertOneRow(h[S \ {Max(S)}], i, q[Max(S)], swallow)]
           iter == CHOOSE h : Unfolds(h)
<1>1. InsertRows(s, i, q, swallow) = iter[DOMAIN q]
  BY Zenon DEF InsertRows, FoldLeft, MapThenFoldSet
<1>3. loop.over = "rows" /\ loop.table = i /\ loop.swallow = swallow
  OBVIOUS
<1>4. loop = [over |-> "rows", table |-> i, swallow |-> swallow]
  OBVIOUS
<1> HIDE DEF loop, T
<1>5. \A R, x : Step(loop, R, x) = InsertOneRow(R, i, x, swallow)
  <2>1. "rows" # "tables" /\ "rows" # "deleted"
    OBVIOUS
  <2> QED BY <1>3, <2>1, Zenon DEF Step
<1>6. ASSUME NEW h PROVE IsFold(h, n, loop, T, q) <=> Unfolds(h)
  <2> DEFINE a == [S \in SUBSET (1..n) |->
                     IF S = {} THEN T ELSE Step(loop, h[S \ {Max(S)}], q[Max(S)])]
             b == [S \in SUBSET (1..n) |->
                     IF S = {} THEN T
                     ELSE InsertOneRow(h[S \ {Max(S)}], i, q[Max(S)], swallow)]
  <2>1. ASSUME NEW S \in SUBSET (1..n) PROVE a[S] = b[S]
    BY <1>5
  <2>2. a = [S \in SUBSET (1..n) |-> a[S]] /\ b = [S \in SUBSET (1..n) |-> b[S]]
    OBVIOUS
  <2>3. a = b
    <3> HIDE DEF a, b
    <3> QED BY <2>1, <2>2
  <2>4. (IsFold(h, n, loop, T, q) <=> h = a) /\ (Unfolds(h) <=> h = b)
    BY Zenon DEF IsFold
  <2> QED BY <2>3, <2>4
<1>7. IsFold(iter, n, loop, T, q)
  <2>1. \E h : Unfolds(h)
    BY <1>6, FoldExists, Zenon
  <2> HIDE DEF Unfolds
  <2>2. Unfolds(iter)
    BY <2>1, Zenon
  <2> QED BY <1>6, <2>2, Zenon
<1> HIDE DEF iter
<1>8. PICK g : IsChain(g, n, loop, T, q) /\ iter[1..n] = g[n]
  BY <1>7, FoldIsChain
<1> QED
  BY <1>1, <1>4, <1>8, Zenon DEF T, IsInsertion

LEMMA InsertedType ==
  ASSUME NEW s, IsSheet(s), NEW i \in 1..Len(s.tables), NEW q, NEW swallow,
         NEW n \in Nat, DOMAIN q = 1..n
  PROVE  IsSheet(InsertRows(s, i, q, swallow).sheet)
<1> DEFINE done == InsertRows(s, i, q, swallow)
           m == Len(s.tables)
           T == [ok |-> TRUE, sheet |-> s]
<1>0. m \in Nat /\ Inserting(T, m)
  BY SheetParts DEF Inserting
<1> HIDE DEF T
<1>1. PICK loop, g : /\ loop = [over |-> "rows", table |-> i, swallow |-> swallow]
                      /\ IsChain(g, n, loop, T, q) /\ done = g[n]
  <2>1. \E loop, g : IsInsertion(loop, g, s, i, q, swallow, n)
    BY InsertedIsChain
  <2> QED BY <2>1, Zenon DEF IsInsertion, T
<1>2. loop.over = "rows" /\ loop.table = i /\ loop.swallow = swallow
  BY <1>1
<1>3. \A R, x : Step(loop, R, x) = InsertOneRow(R, i, x, swallow)
  <2>1. "rows" # "tables" /\ "rows" # "deleted"
    OBVIOUS
  <2> HIDE DEF done
  <2> QED BY <1>2, <2>1, Zenon DEF Step
<1> DEFINE G == {k \in 0..n : Inserting(g[k], m)}
<1> HIDE DEF done, m
<1>4. 0 \in G
  BY <1>0, <1>1 DEF IsChain
<1>5. ASSUME NEW k \in 1..n, k - 1 \in G PROVE k \in G
  <2>1. Inserting(g[k - 1], m) /\ g[k] = InsertOneRow(g[k - 1], i, q[k], swallow)
    BY <1>1, <1>3, <1>5 DEF IsChain
  <2>2. Inserting(g[k], m)
    BY <1>0, <2>1, InsertOneRowKeeps DEF m
  <2> QED BY <2>2
<1>6. n \in G
  <2> HIDE DEF G
  <2> QED BY <1>4, <1>5, InductionTo
<1>7. Inserting(done, m)
  BY <1>1, <1>6
<1> QED
  BY <1>7 DEF done, Inserting

LEMMA InsertDataTableRowsKept ==
  ASSUME NEW T, IsPending(T), NEW op, NEW n \in Nat, DOMAIN op.rows = 1..n
  PROVE  LET R == ExecuteInsertDataTableRows(T, "User", op)
         IN  Kept(T, R) \/ Refused(T, R)
<1> DEFINE i == Within(T.sheet, op.pos)
           m == Len(T.sheet.tables)
           done == InsertRows(T.sheet, i, op.rows, op.swallow)
           indexes == [k \in DOMAIN op.rows |-> op.rows[k].index]
           r == <<DeleteDataTableRows(op.pos, indexes, op.swallow)>>
           S == DataTableOperations(OnSheet(T, done.sheet), "User", <<op>>, r)
           R == ExecuteInsertDataTableRows(T, "User", op)
<1>1. R = IF i = 0 \/ op.rows = <<>> THEN T
          ELSE IF ~ done.ok THEN OnSheet(T, done.sheet) ELSE S
  BY Zenon DEF ExecuteInsertDataTableRows
<1> SUFFICES Kept(T, R) \/ Refused(T, R)
  OBVIOUS
<1>2. IsSheet(T.sheet) /\ m \in Nat
  BY PendingParts
<1>3. i \in 0..m
  BY <1>2, WithinIsIndex
<1>4. Kept(T, T)
  BY KeptSelf
<1> HIDE DEF R, r, i
<1>5. i # 0 => IsSheet(done.sheet)
  <2> SUFFICES ASSUME i # 0 PROVE IsSheet(done.sheet)
    OBVIOUS
  <2>1. i \in 1..m
    BY <1>2, <1>3
  <2> QED BY <1>2, <2>1, InsertedType
<1> HIDE DEF done
<1>6. i # 0 => IsPending(S) /\ Exact(S.sheet)
  BY <1>5, OwnOperationsChecked
<1> HIDE DEF S
<1>7. i # 0 => Kept(T, S) /\ Refused(T, OnSheet(T, done.sheet))
  BY <1>5, <1>6, ExactKept, OnSheetRefused
<1> QED
  BY <1>1, <1>4, <1>7, Zenon

(* The operations a user's own transactions are made of.                   *)
RowOperation == {"InsertDataTableRows", "DeleteDataTableRows"}

PlainOperation ==
  {"ComputeCode", "DeleteDataTable", "SetDataTableAt", "FlattenDataTable",
   "SwitchDataTableKind", "GridToDataTable", "DataTableOptionMeta", "DeleteDataTableRows"}

IsOwn(op) ==
  \/ op.op \in PlainOperation
  \/ op.op = "SetCellValues" /\ op.pos \in Int /\ Len(op.values) \in Nat
  \/ op.op = "AddDataTable" /\ IsTable(op.table) /\ op.index \in Nat
  \/ op.op = "InsertDataTableRows" /\ \E n \in Nat : DOMAIN op.rows = 1..n

(* Each leaves the sheet as it was or every spill error exact; a row       *)
(* operation may also fail half-way, with nothing recorded.                *)
Settles(T, op, R) == Kept(T, R) \/ (op.op \in RowOperation /\ Refused(T, R))

LEMMA OwnOperationSettles ==
  ASSUME NEW T, IsPending(T), NEW op, IsOwn(op), NoneIsNoTable
  PROVE  Settles(T, op, Execute(T, "User", op))
<1>1. CASE op.op = "SetCellValues"
  <2>1. Execute(T, "User", op) = ExecuteSetCellValues(T, "User", op)
    BY <1>1 DEF Execute
  <2>2. op.pos \in Int /\ Len(op.values) \in Nat
    BY <1>1 DEF IsOwn, PlainOperation
  <2> QED BY <2>1, <2>2, SetCellValuesKept DEF Settles
<1>2. CASE op.op = "AddDataTable"
  <2>1. Execute(T, "User", op) = ExecuteAddDataTable(T, "User", op)
    BY <1>2 DEF Execute
  <2>2. IsTable(op.table) /\ op.index \in Nat
    BY <1>2 DEF IsOwn, PlainOperation
  <2> QED BY <2>1, <2>2, AddDataTableKept DEF Settles
<1>3. CASE op.op = "InsertDataTableRows"
  <2>1. Execute(T, "User", op) = ExecuteInsertDataTableRows(T, "User", op)
    BY <1>3 DEF Execute
  <2>2. \E n \in Nat : DOMAIN op.rows = 1..n
    BY <1>3 DEF IsOwn, PlainOperation
  <2> DEFINE R == ExecuteInsertDataTableRows(T, "User", op)
  <2>3. Kept(T, R) \/ Refused(T, R)
    BY <2>2, InsertDataTableRowsKept
  <2> HIDE DEF R
  <2> QED BY <1>3, <2>1, <2>3 DEF Settles, RowOperation, R
<1>4. CASE op.op = "DeleteDataTableRows"
  <2>1. Execute(T, "User", op) = ExecuteDeleteDataTableRows(T, "User", op)
    BY <1>4 DEF Execute
  <2> DEFINE R == ExecuteDeleteDataTableRows(T, "User", op)
  <2>2. Kept(T, R) \/ Refused(T, R)
    BY DeleteDataTableRowsKept
  <2> HIDE DEF R
  <2> QED BY <1>4, <2>1, <2>2 DEF Settles, RowOperation, R
<1>5. CASE op.op = "ComputeCode"
  <2>1. Execute(T, "User", op) = ExecuteComputeCode(T, "User", op)
    BY <1>5 DEF Execute
  <2> QED BY <2>1, ComputeCodeKept DEF Settles
<1>6. CASE op.op = "DeleteDataTable"
  <2>1. Execute(T, "User", op) = ExecuteDeleteDataTable(T, "User", op)
    BY <1>6 DEF Execute
  <2> QED BY <2>1, DeleteDataTableKept DEF Settles
<1>7. CASE op.op = "SetDataTableAt"
  <2>1. Execute(T, "User", op) = ExecuteSetDataTableAt(T, "User", op)
    BY <1>7 DEF Execute
  <2> QED BY <2>1, SetDataTableAtKept DEF Settles
<1>8. CASE op.op = "FlattenDataTable"
  <2>1. Execute(T, "User", op) = ExecuteFlattenDataTable(T, "User", op)
    BY <1>8 DEF Execute
  <2> QED BY <2>1, FlattenDataTableKept DEF Settles
<1>9. CASE op.op = "SwitchDataTableKind"
  <2>1. Execute(T, "User", op) = ExecuteSwitchDataTableKind(T, "User", op)
    BY <1>9 DEF Execute
  <2> QED BY <2>1, SwitchDataTableKindKept DEF Settles
<1>10. CASE op.op = "GridToDataTable"
  <2>1. Execute(T, "User", op) = ExecuteGridToDataTable(T, "User", op)
    BY <1>10 DEF Execute
  <2> QED BY <2>1, GridToDataTableKept DEF Settles
<1>11. CASE op.op = "DataTableOptionMeta"
  <2>1. Execute(T, "User", op) = ExecuteDataTableOptionMeta(T, "User", op)
    BY <1>11 DEF Execute
  <2> QED BY <2>1, DataTableOptionMetaKept DEF Settles
<1> QED
  BY <1>1, <1>2, <1>3, <1>4, <1>5, <1>6, <1>7, <1>8, <1>9, <1>10, <1>11
     DEF IsOwn, PlainOperation

(* A transaction: its operations one after the other.                      *)
IsRun(loop, g, s, source, q, n) ==
  /\ loop = [over |-> "operations", source |-> source]
  /\ IsChain(g, n, loop, Pending(s), q)
  /\ Run(s, source, q) = g[n]

LEMMA RunIsChain ==
  ASSUME NEW s, NEW source, NEW q, NEW n \in Nat, DOMAIN q = 1..n
  PROVE  \E loop, g : IsRun(loop, g, s, source, q, n)
<1> DEFINE loop == [over |-> "operations", source |-> source]
           T == Pending(s)
           Unfolds(h) == h = [S \in SUBSET (DOMAIN q) |->
              IF S = {} THEN T ELSE Execute(h[S \ {Max(S)}], source, q[Max(S)])]
           iter == CHOOSE h : Unfolds(h)
<1>1. Run(s, source, q) = iter[DOMAIN q]
  BY Zenon DEF Run, FoldLeft, MapThenFoldSet
<1>2. loop.over = "operations" /\ loop.source = source
  OBVIOUS
<1>3. loop = [over |-> "operations", source |-> source]
  OBVIOUS
<1> HIDE DEF loop, T
<1>4. \A R, x : Step(loop, R, x) = Execute(R, source, x)
  <2>1. "operations" # "tables" /\ "operations" # "deleted" /\ "operations" # "rows"
    OBVIOUS
  <2> QED BY <1>2, <2>1, Zenon DEF Step
<1>5. ASSUME NEW h PROVE IsFold(h, n, loop, T, q) <=> Unfolds(h)
  <2> DEFINE a == [S \in SUBSET (1..n) |->
                     IF S = {} THEN T ELSE Step(loop, h[S \ {Max(S)}], q[Max(S)])]
             b == [S \in SUBSET (1..n) |->
                     IF S = {} THEN T ELSE Execute(h[S \ {Max(S)}], source, q[Max(S)])]
  <2>1. ASSUME NEW S \in SUBSET (1..n) PROVE a[S] = b[S]
    BY <1>4
  <2>2. a = [S \in SUBSET (1..n) |-> a[S]] /\ b = [S \in SUBSET (1..n) |-> b[S]]
    OBVIOUS
  <2>3. a = b
    <3> HIDE DEF a, b
    <3> QED BY <2>1, <2>2
  <2>4. (IsFold(h, n, loop, T, q) <=> h = a) /\ (Unfolds(h) <=> h = b)
    BY Zenon DEF IsFold
  <2> QED BY <2>3, <2>4
<1>6. IsFold(iter, n, loop, T, q)
  <2>1. \E h : Unfolds(h)
    BY <1>5, FoldExists, Zenon
  <2> HIDE DEF Unfolds
  <2>2. Unfolds(iter)
    BY <2>1, Zenon
  <2> QED BY <1>5, <2>2, Zenon
<1> HIDE DEF iter
<1>7. PICK g : IsChain(g, n, loop, T, q) /\ iter[1..n] = g[n]
  BY <1>6, FoldIsChain
<1> QED
  BY <1>1, <1>3, <1>7, Zenon DEF T, IsRun

LEMMA PendingType ==
  ASSUME NEW s, IsSheet(s)
  PROVE  IsPending(Pending(s)) /\ Pending(s).sheet = s /\ Pending(s).forward = <<>>
BY DEF Pending, IsPending

(* Row operations come alone.                                              *)
IsOwnTransaction(q) ==
  \E n \in Nat : /\ DOMAIN q = 1..n
                 /\ \A k \in 1..n : IsOwn(q[k])
                 /\ n = 1 \/ \A k \in 1..n : q[k].op \notin RowOperation

(* What a user's own transaction leaves: if it has anything to share, a    *)
(* sheet whose spill errors are all exact; otherwise the sheet as it was,  *)
(* or what a failed row operation made of it.                              *)
THEOREM OwnTransactionSettles ==
  ASSUME NEW s, IsSheet(s), NEW q, IsOwnTransaction(q), NoneIsNoTable
  PROVE  LET R == Run(s, "User", q)
         IN  /\ IsPending(R)
             /\ R = Pending(s) \/ Exact(R.sheet) \/ R.forward = <<>>
<1>1. PICK n \in Nat : /\ DOMAIN q = 1..n
                       /\ \A k \in 1..n : IsOwn(q[k])
                       /\ n = 1 \/ \A k \in 1..n : q[k].op \notin RowOperation
  BY DEF IsOwnTransaction
<1> DEFINE T == Pending(s)
           R == Run(s, "User", q)
<1>2. PICK loop, g : IsRun(loop, g, s, "User", q, n)
  BY <1>1, RunIsChain
<1>3. g[0] = T /\ R = g[n] /\ \A k \in 1..n : g[k] = Execute(g[k - 1], "User", q[k])
  <2>1. /\ loop = [over |-> "operations", source |-> "User"]
        /\ IsChain(g, n, loop, T, q) /\ R = g[n]
    BY <1>2, Zenon DEF IsRun
  <2>2. loop.over = "operations" /\ loop.source = "User"
    BY <2>1
  <2>3. \A S, x : Step(loop, S, x) = Execute(S, "User", x)
    <3>1. "operations" # "tables" /\ "operations" # "deleted" /\ "operations" # "rows"
      OBVIOUS
    <3> HIDE DEF R, T
    <3> QED BY <2>2, <3>1, Zenon DEF Step
  <2> HIDE DEF R, T
  <2> QED BY <2>1, <2>3 DEF IsChain
<1>4. IsPending(T) /\ T.forward = <<>>
  BY PendingType
<1> SUFFICES IsPending(R) /\ (R = T \/ Exact(R.sheet) \/ R.forward = <<>>)
  OBVIOUS
<1> HIDE DEF R, T
<1>5. CASE n = 1
  <2>1. R = Execute(T, "User", q[1]) /\ IsOwn(q[1])
    BY <1>1, <1>3, <1>5
  <2>2. Settles(T, q[1], R)
    BY <1>4, <2>1, OwnOperationSettles
  <2> QED BY <1>4, <2>2 DEF Settles, Kept, Refused
<1>6. CASE \A k \in 1..n : q[k].op \notin RowOperation
  <2> DEFINE G == {k \in 0..n : Kept(T, g[k])}
  <2>1. 0 \in G
    BY <1>3, <1>4, KeptSelf
  <2>2. ASSUME NEW k \in 1..n, k - 1 \in G PROVE k \in G
    <3>1. Kept(T, g[k - 1]) /\ IsPending(g[k - 1])
      BY <2>2 DEF Kept
    <3>2. Settles(g[k - 1], q[k], g[k])
      BY <1>1, <1>3, <3>1, OwnOperationSettles
    <3>3. Kept(g[k - 1], g[k])
      BY <1>6, <3>2 DEF Settles
    <3>4. Kept(T, g[k]) /\ k \in 0..n
      BY <3>1, <3>3, KeptTwice
    <3> QED BY <3>4
  <2>3. n \in G
    <3> HIDE DEF G
    <3> QED BY <2>1, <2>2, InductionTo
  <2>4. Kept(T, R)
    BY <1>3, <2>3
  <2> QED BY <2>4 DEF Kept
<1> QED
  BY <1>1, <1>5, <1>6

(* Nothing to do.                                                          *)
LEMMA RunNothing ==
  ASSUME NEW s, NEW source
  PROVE  Run(s, source, <<>>).sheet = s
<1>1. PICK loop, g : IsRun(loop, g, s, source, <<>>, 0)
  BY RunIsChain
<1>2. Run(s, source, <<>>) = Pending(s)
  BY <1>1 DEF IsRun, IsChain
<1> QED
  BY <1>2 DEF Pending

-----------------------------------------------------------------------------
(* What users ask for.                                                     *)

LEMMA OneOperation ==
  ASSUME NEW op, IsOwn(op)
  PROVE  IsOwnTransaction(<<op>>)
<1> DEFINE q == <<op>>
<1>1. 1 \in Nat /\ DOMAIN q = 1..1 /\ \A k \in 1..1 : q[k] = op
  OBVIOUS
<1> HIDE DEF q
<1>2. IsOwnTransaction(q)
  BY <1>1 DEF IsOwnTransaction
<1> QED
  BY <1>2 DEF q

LEMMA TwoOperations ==
  ASSUME NEW op, NEW more, IsOwn(op), IsOwn(more),
         op.op \notin RowOperation, more.op \notin RowOperation
  PROVE  IsOwnTransaction(<<op, more>>)
<1> DEFINE q == <<op, more>>
<1>1. 2 \in Nat /\ DOMAIN q = 1..2 /\ \A k \in 1..2 : q[k] = op \/ q[k] = more
  OBVIOUS
<1> HIDE DEF q
<1>2. \A k \in 1..2 : IsOwn(q[k]) /\ q[k].op \notin RowOperation
  BY <1>1
<1>3. IsOwnTransaction(q)
  BY <1>1, <1>2 DEF IsOwnTransaction
<1> QED
  BY <1>3 DEF q

LEMMA SetCellValuesIsOwn ==
  ASSUME NEW p \in Int, NEW v
  PROVE  LET op == SetCellValues(p, <<v>>) IN IsOwn(op) /\ op.op \notin RowOperation
<1> DEFINE op == SetCellValues(p, <<v>>)
<1>1. op.op = "SetCellValues" /\ op.pos = p /\ op.values = <<v>>
  BY DEF SetCellValues
<1> HIDE DEF op
<1>2. Len(op.values) \in Nat
  BY <1>1
<1>3. IsOwn(op) /\ op.op \notin RowOperation
  BY <1>1, <1>2 DEF IsOwn, RowOperation
<1> QED
  BY <1>3 DEF op

(* The operations of which nothing else need be known.                     *)
LEMMA PlainIsOwn ==
  ASSUME NEW op, op.op \in PlainOperation
  PROVE  /\ IsOwn(op)
         /\ op.op # "DeleteDataTableRows" => op.op \notin RowOperation
BY DEF IsOwn, PlainOperation, RowOperation

LEMMA ComputeCodeIsOwn ==
  ASSUME NEW p, NEW r, NEW time
  PROVE  LET op == ComputeCode(p, r, time) IN IsOwn(op) /\ op.op \notin RowOperation
<1>1. ComputeCode(p, r, time).op = "ComputeCode"
  BY DEF ComputeCode
<1> QED
  BY <1>1, PlainIsOwn DEF PlainOperation

LEMMA DeleteDataTableIsOwn ==
  ASSUME NEW p
  PROVE  LET op == DeleteDataTable(p) IN IsOwn(op) /\ op.op \notin RowOperation
<1>1. DeleteDataTable(p).op = "DeleteDataTable"
  BY DEF DeleteDataTable
<1> QED
  BY <1>1, PlainIsOwn DEF PlainOperation

LEMMA SetDataTableAtIsOwn ==
  ASSUME NEW p, NEW v
  PROVE  LET op == SetDataTableAt(p, v) IN IsOwn(op) /\ op.op \notin RowOperation
<1>1. SetDataTableAt(p, v).op = "SetDataTableAt"
  BY DEF SetDataTableAt
<1> QED
  BY <1>1, PlainIsOwn DEF PlainOperation

LEMMA FlattenIsOwn ==
  ASSUME NEW p
  PROVE  IsOwn(FlattenDataTable(p))
<1>1. FlattenDataTable(p).op = "FlattenDataTable"
  BY DEF FlattenDataTable
<1> QED
  BY <1>1, PlainIsOwn DEF PlainOperation

LEMMA SwitchIsOwn ==
  ASSUME NEW p, NEW kind, NEW cell
  PROVE  IsOwn(SwitchDataTableKind(p, kind, cell))
<1>1. SwitchDataTableKind(p, kind, cell).op = "SwitchDataTableKind"
  BY DEF SwitchDataTableKind
<1> QED
  BY <1>1, PlainIsOwn DEF PlainOperation

LEMMA GridIsOwn ==
  ASSUME NEW lo, NEW hi, NEW time
  PROVE  IsOwn(GridToDataTable(lo, hi, time))
<1>1. GridToDataTable(lo, hi, time).op = "GridToDataTable"
  BY DEF GridToDataTable
<1> QED
  BY <1>1, PlainIsOwn DEF PlainOperation

LEMMA MetaIsOwn ==
  ASSUME NEW p, NEW name, NEW columns
  PROVE  IsOwn(DataTableOptionMeta(p, name, columns))
<1>1. DataTableOptionMeta(p, name, columns).op = "DataTableOptionMeta"
  BY DEF DataTableOptionMeta
<1> QED
  BY <1>1, PlainIsOwn DEF PlainOperation

LEMMA DeleteRowsIsOwn ==
  ASSUME NEW p, NEW rows, NEW flatten
  PROVE  IsOwn(DeleteDataTableRows(p, rows, flatten))
<1>1. DeleteDataTableRows(p, rows, flatten).op = "DeleteDataTableRows"
  BY DEF DeleteDataTableRows
<1> QED
  BY <1>1, PlainIsOwn DEF PlainOperation

LEMMA AddIsOwn ==
  ASSUME NEW p, NEW t, IsTable(t), NEW cell
  PROVE  IsOwn(AddDataTable(p, t, cell, 0))
<1>1. /\ AddDataTable(p, t, cell, 0).op = "AddDataTable"
      /\ AddDataTable(p, t, cell, 0).table = t /\ AddDataTable(p, t, cell, 0).index = 0
  BY DEF AddDataTable
<1> QED
  BY <1>1 DEF IsOwn

LEMMA InsertRowIsOwn ==
  ASSUME NEW p, NEW row, NEW swallow
  PROVE  IsOwn(InsertDataTableRows(p, <<row>>, swallow))
<1> DEFINE op == InsertDataTableRows(p, <<row>>, swallow)
<1>1. op.op = "InsertDataTableRows" /\ op.rows = <<row>>
  BY DEF InsertDataTableRows
<1> HIDE DEF op
<1>2. 1 \in Nat /\ DOMAIN op.rows = 1..1
  BY <1>1
<1> QED
  BY <1>1, <1>2 DEF IsOwn, op

-----------------------------------------------------------------------------
(* Lists of transactions.                                                  *)

(* A transaction from a stack leads back to a sheet whose spill errors are *)
(* exact, unless that was stale.                                           *)
LeadsBack(t) ==
  /\ t.by \in User /\ t.source \in {"Undo", "Redo"}
  /\ ~ t.to.stale => Exact(t.to.sheet)

IsAsked(t) ==
  \/ t.by \in User /\ t.source = "User" /\ IsOwnTransaction(t.operations)
  \/ LeadsBack(t)

IsTodo(q) == \E S : q \in Seq(S) /\ \A t \in S : IsAsked(t)
IsStack(q) == \E S : q \in Seq(S) /\ \A t \in S : LeadsBack(t)

LEMMA TodoNext ==
  ASSUME NEW q, IsTodo(q), q # <<>>
  PROVE  IsAsked(Head(q)) /\ IsTodo(Tail(q))
<1>1. PICK S : q \in Seq(S) /\ \A t \in S : IsAsked(t)
  BY DEF IsTodo
<1>2. Head(q) \in S /\ Tail(q) \in Seq(S)
  BY <1>1
<1> QED
  BY <1>1, <1>2 DEF IsTodo

LEMMA StackLast ==
  ASSUME NEW q, IsStack(q), q # <<>>
  PROVE  LeadsBack(Last(q)) /\ IsStack(Front(q))
<1>1. PICK S : q \in Seq(S) /\ \A t \in S : LeadsBack(t)
  BY DEF IsStack
<1>2. Len(q) \in Nat /\ Len(q) # 0
  BY <1>1
<1>3. Last(q) \in S
  BY <1>1, <1>2 DEF Last
<1>4. Front(q) \in Seq(S)
  BY <1>1, <1>2, SubSeqProperties DEF Front
<1> QED
  BY <1>1, <1>3, <1>4 DEF IsStack

LEMMA StackPush ==
  ASSUME NEW q, IsStack(q), NEW t, LeadsBack(t)
  PROVE  IsStack(Append(q, t))
<1>1. PICK S : q \in Seq(S) /\ \A x \in S : LeadsBack(x)
  BY DEF IsStack
<1> DEFINE U == S \cup {t}
<1>2. /\ q \in Seq(U) /\ t \in U
  BY <1>1
<1>3. \A x \in U : LeadsBack(x)
  BY <1>1
<1> HIDE DEF U
<1>4. Append(q, t) \in Seq(U)
  BY <1>2
<1> QED
  BY <1>3, <1>4 DEF IsStack

LEMMA EmptyLists ==
  IsStack(<<>>) /\ IsTodo(<<>>)
<1> DEFINE E == {}
<1>1. <<>> \in Seq(E)
  BY EmptySeq
<1>2. \A t : t \notin E
  OBVIOUS
<1> HIDE DEF E
<1>3. \A t \in E : LeadsBack(t)
  BY <1>2
<1>4. \A t \in E : IsAsked(t)
  BY <1>2
<1>5. IsStack(<<>>)
  BY <1>1, <1>3 DEF IsStack
<1>6. IsTodo(<<>>)
  BY <1>1, <1>4 DEF IsTodo
<1> QED
  BY <1>5, <1>6

LEMMA OneToDo ==
  ASSUME NEW t, IsAsked(t)
  PROVE  IsTodo(<<t>>)
<1> DEFINE S == {t}
<1>1. <<t>> \in Seq(S) /\ \A x \in S : x = t
  OBVIOUS
<1>2. \A x \in S : IsAsked(x)
  BY <1>1
<1> HIDE DEF S
<1> QED
  BY <1>1, <1>2 DEF IsTodo

(* What a user commits.                                                    *)
Asked(u, transactions) ==
  [k \in DOMAIN transactions |-> Transaction(u, "User", transactions[k], None, None, TRUE)]

LEMMA CommitAll ==
  ASSUME NEW u \in User, NEW n \in Nat, NEW q, DOMAIN q = 1..n,
         \A k \in 1..n : IsOwnTransaction(q[k])
  PROVE  IsTodo(Asked(u, q))
<1> DEFINE x(k) == Transaction(u, "User", q[k], None, None, TRUE)
           S == {x(k) : k \in 1..n}
           a == Asked(u, q)
<1>1. a = [k \in 1..n |-> x(k)]
  BY DEF Asked
<1>2. \A k \in 1..n : x(k) \in S
  OBVIOUS
<1>3. \A k \in 1..n : IsAsked(x(k))
  <2>1. \A k \in 1..n : x(k).by = u /\ x(k).source = "User" /\ x(k).operations = q[k]
    BY DEF Transaction
  <2> HIDE DEF x
  <2> QED BY <2>1 DEF IsAsked
<1>4. \A t \in S : IsAsked(t)
  <2> HIDE DEF x
  <2> QED BY <1>3
<1> HIDE DEF x, S, a
<1>5. a \in [1..n -> S]
  BY <1>1, <1>2
<1>6. a \in Seq(S)
  BY <1>5, SeqDef
<1>7. IsTodo(a)
  BY <1>4, <1>6 DEF IsTodo
<1> QED
  BY <1>7 DEF a

LEMMA CommitOne ==
  ASSUME NEW u \in User, NEW q, IsOwnTransaction(q)
  PROVE  IsTodo(Asked(u, <<q>>))
<1> DEFINE a == <<q>>
<1>1. 1 \in Nat /\ DOMAIN a = 1..1 /\ \A k \in 1..1 : a[k] = q
  OBVIOUS
<1> HIDE DEF a
<1>2. IsTodo(Asked(u, a))
  BY <1>1, CommitAll
<1> QED
  BY <1>2 DEF a

LEMMA CommitTwo ==
  ASSUME NEW u \in User, NEW q, NEW r, IsOwnTransaction(q), IsOwnTransaction(r)
  PROVE  IsTodo(Asked(u, <<q, r>>))
<1> DEFINE a == <<q, r>>
<1>1. 2 \in Nat /\ DOMAIN a = 1..2 /\ \A k \in 1..2 : a[k] = q \/ a[k] = r
  OBVIOUS
<1> HIDE DEF a
<1>2. IsTodo(Asked(u, a))
  BY <1>1, CommitAll
<1> QED
  BY <1>2 DEF a

-----------------------------------------------------------------------------
(* The steps of users.                                                     *)

LEMMA SheetOfUser ==
  ASSUME TypeOK, NEW u \in User
  PROVE  IsSheet(sheet[u])
<1> DEFINE s == sheet[u]
<1>1. s \in [cells : [Row -> Cell], tables : Seq(Table)]
  BY DEF TypeOK
<1>2. Row \subseteq Int
  BY RowsAssumption
<1>3. \A t \in Table : IsTable(t)
  <2>1. ASSUME NEW t \in Table PROVE IsTable(t)
    BY DEF Table, IsTable
  <2> QED BY <2>1
<1> HIDE DEF s
<1>4. IsTableList(s.tables)
  BY <1>1, <1>3 DEF IsTableList
<1>5. s = [cells |-> s.cells, tables |-> s.tables]
  BY <1>1
<1>6. s.cells \in [Row -> Cell]
  BY <1>1
<1>7. s.cells = [p \in DOMAIN s.cells |-> s.cells[p]] /\ DOMAIN s.cells \subseteq Int
  BY <1>2, <1>6
<1>8. IsSheet(s)
  BY <1>4, <1>5, <1>7 DEF IsSheet
<1> QED
  BY <1>8 DEF s

(* A user's turn: something to execute, and nothing else changed.          *)
Turn == /\ todo = <<>> /\ shared = None
        /\ IsTodo(todo')
        /\ UNCHANGED <<sheet, shared, stale>>

Edited == Turn /\ UNCHANGED <<undo, redo>>

LEMMA Committed ==
  ASSUME NEW u, NEW q, Commit(u, q), IsTodo(Asked(u, q))
  PROVE  Edited
BY DEF Commit, Ask, Asked, Edited, Turn

LEMMA CommittedOne ==
  ASSUME NEW u \in User, NEW q, Commit(u, <<q>>), IsOwnTransaction(q)
  PROVE  Edited
<1>1. IsTodo(Asked(u, <<q>>))
  BY CommitOne
<1> DEFINE a == <<q>>
<1>2. Commit(u, a) /\ IsTodo(Asked(u, a))
  BY <1>1
<1> HIDE DEF a
<1> QED
  BY <1>2, Committed

LEMMA SetCellAsks ==
  ASSUME NEW u \in User, NEW p \in Typed, NEW v, SetCell(u, p, v)
  PROVE  Edited
<1> DEFINE t == ImportAt(u, p)
           above == Expanded(u, p)
           row == [index |-> p - above.pos, value |-> None]
           longer == InsertDataTableRows(above.pos, <<row>>, TRUE)
           value == SetDataTableAt(p, v)
           cell == SetCellValues(p, <<v>>)
           one == <<value>>
           two == <<cell>>
           three == <<longer>>
           q == IF t # None THEN <<one>> ELSE IF above # None THEN <<two, three>> ELSE <<two>>
<1>1. Commit(u, q)
  BY DEF SetCell
<1>2. IsOwnTransaction(one)
  <2>1. IsOwn(value)
    BY SetDataTableAtIsOwn
  <2> HIDE DEF value
  <2> QED BY <2>1, OneOperation
<1>3. IsOwnTransaction(two)
  <2>1. p \in Int
    BY RowsAssumption
  <2>2. IsOwn(cell)
    BY <2>1, SetCellValuesIsOwn
  <2> HIDE DEF cell
  <2> QED BY <2>2, OneOperation
<1>4. IsOwnTransaction(three)
  <2> DEFINE at == above.pos
  <2>1. \A x : IsOwn(InsertDataTableRows(at, <<x>>, TRUE))
    <3> HIDE DEF at
    <3> QED BY InsertRowIsOwn
  <2>2. IsOwn(longer)
    BY <2>1
  <2> HIDE DEF longer
  <2> QED BY <2>2, OneOperation
<1> HIDE DEF one, two, three, t, above
<1>5. IsTodo(Asked(u, <<one>>)) /\ IsTodo(Asked(u, <<two>>)) /\ IsTodo(Asked(u, <<two, three>>))
  BY <1>2, <1>3, <1>4, CommitOne, CommitTwo
<1>6. IsTodo(Asked(u, q))
  BY <1>5
<1> HIDE DEF q
<1> QED
  BY <1>1, <1>6, Committed

LEMMA DeleteCellAsks ==
  ASSUME NEW u \in User, NEW p \in Typed, DeleteCell(u, p)
  PROVE  Edited
<1> DEFINE i == Within(sheet[u], p)
           t == sheet[u].tables[i]
           cell == SetCellValues(p, <<Blank>>)
           table == DeleteDataTable(t.pos)
           value == SetDataTableAt(p, Blank)
           one == <<cell>>
           two == <<table, cell>>
           three == <<value, cell>>
           q == IF i = 0 THEN <<one>>
                ELSE IF t.kind = Code \/ DataRows(t) = {p} THEN <<two>>
                ELSE <<three>>
<1>1. Commit(u, q)
  BY DEF DeleteCell
<1>2. IsOwn(cell) /\ cell.op \notin RowOperation
  <2>1. p \in Int
    BY RowsAssumption
  <2> QED BY <2>1, SetCellValuesIsOwn
<1>3. IsOwn(table) /\ table.op \notin RowOperation
  <2> HIDE DEF t
  <2> QED BY DeleteDataTableIsOwn
<1>4. IsOwn(value) /\ value.op \notin RowOperation
  BY SetDataTableAtIsOwn
<1> HIDE DEF cell, table, value, i, t
<1>5. IsOwnTransaction(one) /\ IsOwnTransaction(two) /\ IsOwnTransaction(three)
  BY <1>2, <1>3, <1>4, OneOperation, TwoOperations
<1> HIDE DEF one, two, three
<1>6. IsTodo(Asked(u, <<one>>)) /\ IsTodo(Asked(u, <<two>>)) /\ IsTodo(Asked(u, <<three>>))
  BY <1>5, CommitOne
<1>7. IsTodo(Asked(u, q))
  BY <1>6
<1> HIDE DEF q
<1> QED
  BY <1>1, <1>7, Committed

LEMMA SetCodeAsks ==
  ASSUME NEW u \in User, NEW p \in Anchor, NEW r, SetCode(u, p, r)
  PROVE  Edited
<1> DEFINE cell == SetCellValues(p, <<Code>>)
           run == ComputeCode(p, r, Now)
           q == <<cell, run>>
<1>1. Commit(u, <<q>>)
  BY DEF SetCode
<1>2. IsOwn(cell) /\ cell.op \notin RowOperation
  <2>1. p \in Int
    BY RowsAssumption
  <2> QED BY <2>1, SetCellValuesIsOwn
<1>3. IsOwn(run) /\ run.op \notin RowOperation
  BY ComputeCodeIsOwn
<1> HIDE DEF cell, run
<1>4. IsOwnTransaction(q)
  BY <1>2, <1>3, TwoOperations
<1> HIDE DEF q
<1> QED
  BY <1>1, <1>4, CommittedOne

LEMMA OneOperationAsks ==
  ASSUME NEW u \in User, NEW op, IsOwn(op), Commit(u, << <<op>> >>)
  PROVE  Edited
<1> DEFINE q == <<op>>
<1>1. Commit(u, <<q>>)
  OBVIOUS
<1>2. IsOwnTransaction(q)
  BY OneOperation
<1> HIDE DEF q
<1> QED
  BY <1>1, <1>2, CommittedOne

LEMMA RunCodeAsks ==
  ASSUME NEW u \in User, NEW p, NEW r, RunCode(u, p, r)
  PROVE  Edited
<1> DEFINE op == ComputeCode(p, r, Now)
<1>1. Commit(u, << <<op>> >>)
  BY DEF RunCode
<1>2. IsOwn(op)
  BY ComputeCodeIsOwn
<1> HIDE DEF op
<1> QED
  BY <1>1, <1>2, OneOperationAsks

LEMMA AddTableAsks ==
  ASSUME NEW u \in User, NEW p, NEW r, AddTable(u, p, r)
  PROVE  Edited
<1> DEFINE t == NewTable(p, r, Import, "shown", Now)
           op == AddDataTable(p, t, Import, 0)
<1>1. Commit(u, << <<op>> >>)
  BY DEF AddTable
<1>2. IsTable(t)
  BY MadeType
<1>3. IsOwn(op)
  <2> HIDE DEF t
  <2> QED BY <1>2, AddIsOwn
<1> HIDE DEF op
<1> QED
  BY <1>1, <1>3, OneOperationAsks

LEMMA GridToTableAsks ==
  ASSUME NEW u \in User, NEW lo, NEW hi, GridToTable(u, lo, hi)
  PROVE  Edited
<1> DEFINE op == GridToDataTable(lo, hi, Now)
<1>1. Commit(u, << <<op>> >>)
  BY DEF GridToTable
<1>2. IsOwn(op)
  BY GridIsOwn
<1> HIDE DEF op
<1> QED
  BY <1>1, <1>2, OneOperationAsks

LEMMA FlattenAsks ==
  ASSUME NEW u \in User, NEW t, Flatten(u, t)
  PROVE  Edited
<1> DEFINE op == FlattenDataTable(t.pos)
<1>1. Commit(u, << <<op>> >>)
  BY DEF Flatten
<1>2. IsOwn(op)
  BY FlattenIsOwn
<1> HIDE DEF op
<1> QED
  BY <1>1, <1>2, OneOperationAsks

LEMMA ToDataTableAsks ==
  ASSUME NEW u \in User, NEW t, ToDataTable(u, t)
  PROVE  Edited
<1> DEFINE op == SwitchDataTableKind(t.pos, Import, Import)
<1>1. Commit(u, << <<op>> >>)
  BY DEF ToDataTable
<1>2. IsOwn(op)
  BY SwitchIsOwn
<1> HIDE DEF op
<1> QED
  BY <1>1, <1>2, OneOperationAsks

LEMMA ToggleNameAsks ==
  ASSUME NEW u \in User, NEW t, ToggleName(u, t)
  PROVE  Edited
<1> DEFINE name == IF NameIsShown(t) THEN "hidden" ELSE "shown"
           op == DataTableOptionMeta(t.pos, name, t.columns)
<1>1. Commit(u, << <<op>> >>)
  BY DEF ToggleName
<1>2. IsOwn(op)
  <2> HIDE DEF name
  <2> QED BY MetaIsOwn
<1> HIDE DEF op
<1> QED
  BY <1>1, <1>2, OneOperationAsks

LEMMA InsertRowAsks ==
  ASSUME NEW u \in User, NEW t, NEW index, InsertRow(u, t, index)
  PROVE  Edited
<1> DEFINE row == [index |-> index, value |-> None]
           op == InsertDataTableRows(t.pos, <<row>>, FALSE)
<1>1. Commit(u, << <<op>> >>)
  BY DEF InsertRow
<1>2. IsOwn(op)
  <2> HIDE DEF row
  <2> QED BY InsertRowIsOwn
<1> HIDE DEF op
<1> QED
  BY <1>1, <1>2, OneOperationAsks

LEMMA DeleteRowsAsks ==
  ASSUME NEW u \in User, NEW t, NEW indexes, DeleteRows(u, t, indexes)
  PROVE  Edited
<1> DEFINE list == SetToSortSeq(indexes, <)
           op == DeleteDataTableRows(t.pos, list, FALSE)
<1>1. Commit(u, << <<op>> >>)
  BY Zenon DEF DeleteRows
<1>2. IsOwn(op)
  <2> HIDE DEF list
  <2> QED BY DeleteRowsIsOwn
<1> HIDE DEF op
<1> QED
  BY <1>1, <1>2, OneOperationAsks

LEMMA EditAsks ==
  ASSUME NEW u \in User, Edit(u)
  PROVE  Edited
BY SetCellAsks, DeleteCellAsks, SetCodeAsks, RunCodeAsks, AddTableAsks, GridToTableAsks,
   FlattenAsks, ToDataTableAsks, ToggleNameAsks, InsertRowAsks, DeleteRowsAsks DEF Edit

-----------------------------------------------------------------------------
(* The invariant.                                                          *)

(* The user who has made a change has exact spill errors by now, or shares *)
(* nothing and everybody else has.                                         *)
SharedIsExact ==
  \/ Exact(sheet[shared.by])
  \/ shared.operations = <<>> /\ \A w \in User : w # shared.by => Exact(sheet[w])

IsStacks(stacks) ==
  stacks = [u \in User |-> stacks[u]] /\ \A u \in User : IsStack(stacks[u])

Lists == IsTodo(todo) /\ IsStacks(undo) /\ IsStacks(redo)

SpillInv ==
  /\ Lists
  /\ shared # None => shared.by \in User /\ (~ stale => SharedIsExact)
  /\ SpillsAreExact

(* None is not a message, and no user is alone with the sheet.             *)
NoneIsNoMessage == \A u, f : [by |-> u, operations |-> f] # None
Company == \A u \in User : \E w \in User : w # u

LEMMA PopStack ==
  ASSUME NEW stacks, IsStacks(stacks), NEW u \in User, stacks[u] # <<>>
  PROVE  LeadsBack(Last(stacks[u])) /\ IsStacks([stacks EXCEPT ![u] = Front(@)])
<1> DEFINE after == [stacks EXCEPT ![u] = Front(@)]
           rest == Front(stacks[u])
<1>1. IsStack(stacks[u])
  BY DEF IsStacks
<1>2. LeadsBack(Last(stacks[u])) /\ IsStack(rest)
  BY <1>1, StackLast
<1>3. after = [w \in User |-> IF w = u THEN rest ELSE stacks[w]]
  BY DEF IsStacks
<1> HIDE DEF after, rest
<1>4. IsStacks(after)
  BY <1>2, <1>3 DEF IsStacks
<1> QED
  BY <1>2, <1>4 DEF after

LEMMA SetStack ==
  ASSUME NEW stacks, IsStacks(stacks), NEW u \in User, NEW q, IsStack(q)
  PROVE  IsStacks([stacks EXCEPT ![u] = q])
<1> DEFINE after == [stacks EXCEPT ![u] = q]
<1>1. after = [w \in User |-> IF w = u THEN q ELSE stacks[w]]
  BY DEF IsStacks
<1> HIDE DEF after
<1>2. IsStacks(after)
  BY <1>1 DEF IsStacks
<1> QED
  BY <1>2 DEF after

LEMMA PushStack ==
  ASSUME NEW stacks, IsStacks(stacks), NEW u \in User, NEW t, LeadsBack(t)
  PROVE  IsStacks([stacks EXCEPT ![u] = Append(@, t)])
<1> DEFINE q == Append(stacks[u], t)
<1>1. IsStack(q)
  BY StackPush DEF IsStacks
<1> HIDE DEF q
<1>2. IsStacks([stacks EXCEPT ![u] = q])
  BY <1>1, SetStack
<1> QED
  BY <1>2 DEF q

LEMMA SpillInvFirst ==
  ASSUME Init
  PROVE  SpillInv
<1>1. todo = <<>> /\ undo = [u \in User |-> <<>>] /\ redo = [u \in User |-> <<>>]
  BY DEF Init
<1>2. IsTodo(todo) /\ IsStacks(undo) /\ IsStacks(redo)
  <2> DEFINE E == <<>>
  <2>1. IsStack(E) /\ IsTodo(E)
    BY EmptyLists
  <2>2. todo = E /\ undo = [u \in User |-> E] /\ redo = [u \in User |-> E]
    BY <1>1
  <2> HIDE DEF E
  <2>3. \A u \in User : undo[u] = E /\ redo[u] = E
    BY <2>2
  <2>4. undo = [u \in User |-> undo[u]] /\ redo = [u \in User |-> redo[u]]
    BY <2>2
  <2> QED BY <2>1, <2>2, <2>3, <2>4 DEF IsStacks
<1>3. \A u \in User : Exact(sheet[u])
  <2>1. PICK s \in FirstSheets : sheet = [u \in User |-> s]
    BY DEF Init
  <2>2. Exact(s)
    BY FirstSheetsAssumption
  <2>3. \A u \in User : sheet[u] = s
    BY <2>1
  <2> QED BY <2>2, <2>3
<1>4. shared = None
  BY DEF Init
<1> QED
  BY <1>2, <1>3, <1>4 DEF SpillInv, Lists, SpillsAreExact

LEMMA TurnKeeps ==
  ASSUME SpillInv, Turn, IsStacks(undo'), IsStacks(redo')
  PROVE  SpillInv'
<1>1. sheet' = sheet /\ shared' = shared /\ stale' = stale /\ IsTodo(todo')
  BY DEF Turn
<1>2. SharedIsExact => SharedIsExact'
  BY <1>1 DEF SharedIsExact
<1>3. SpillsAreExact'
  BY <1>1 DEF SpillInv, SpillsAreExact
<1> QED
  BY <1>1, <1>2, <1>3 DEF SpillInv, Lists

LEMMA UndoTurn ==
  ASSUME SpillInv, NEW u \in User, Undo(u)
  PROVE  Turn /\ IsStacks(undo') /\ redo' = redo
<1> DEFINE t == Last(undo[u])
<1>1. undo[u] # <<>> /\ Ask(<<t>>) /\ undo' = [undo EXCEPT ![u] = Front(@)] /\ redo' = redo
  BY DEF Undo
<1>2. IsStacks(undo)
  BY DEF SpillInv, Lists
<1>3. LeadsBack(t) /\ IsStacks(undo')
  BY <1>1, <1>2, PopStack
<1> HIDE DEF t
<1>4. IsTodo(<<t>>)
  BY <1>3, OneToDo DEF IsAsked
<1>5. Turn
  BY <1>1, <1>4 DEF Ask, Turn
<1> QED
  BY <1>1, <1>3, <1>5

LEMMA RedoTurn ==
  ASSUME SpillInv, NEW u \in User, Redo(u)
  PROVE  Turn /\ IsStacks(redo') /\ undo' = undo
<1> DEFINE t == Last(redo[u])
<1>1. redo[u] # <<>> /\ Ask(<<t>>) /\ redo' = [redo EXCEPT ![u] = Front(@)] /\ undo' = undo
  BY DEF Redo
<1>2. IsStacks(redo)
  BY DEF SpillInv, Lists
<1>3. LeadsBack(t) /\ IsStacks(redo')
  BY <1>1, <1>2, PopStack
<1> HIDE DEF t
<1>4. IsTodo(<<t>>)
  BY <1>3, OneToDo DEF IsAsked
<1>5. Turn
  BY <1>1, <1>4 DEF Ask, Turn
<1> QED
  BY <1>1, <1>3, <1>5

(* What Transact leaves on the stacks and in the sheets, by its parts.     *)
IsTransacted(t, u, T, back) ==
  /\ t = Head(todo) /\ u = t.by /\ T = Run(sheet[u], t.source, t.operations)
  /\ back.by = u /\ back.to.sheet = sheet[u] /\ back.to.stale = stale
  /\ todo # <<>> /\ shared = None /\ todo' = Tail(todo)
  /\ sheet' = [sheet EXCEPT ![u] = T.sheet]
  /\ shared' = [by |-> u, operations |-> T.forward]

(* A history step of the three sources.                                    *)
Stacked(t, u, T, undone, redone) ==
  /\ t.source = "User" => /\ undo' = [undo EXCEPT ![u] = Append(@, undone)]
                          /\ redo' = [redo EXCEPT ![u] = <<>>]
                          /\ stale' = (stale /\ T.forward = <<>>)
  /\ t.source = "Undo" => undo' = undo /\ redo' = [redo EXCEPT ![u] = Append(@, redone)]
  /\ t.source = "Redo" => undo' = [undo EXCEPT ![u] = Append(@, undone)] /\ redo' = redo
  /\ t.source # "User" => stale' = (t.to.stale \/ ~ IsExact(t))

LEMMA TransactParts ==
  ASSUME Transact
  PROVE  \E t, u, T, undone, redone :
           /\ IsTransacted(t, u, T, undone) /\ IsTransacted(t, u, T, redone)
           /\ undone.source = "Undo" /\ redone.source = "Redo"
           /\ Stacked(t, u, T, undone, redone)
<1> DEFINE t == Head(todo)
           u == t.by
           T == Run(sheet[u], t.source, t.operations)
           Back(source) == Transaction(u, source, Reverse(T.reverse), T.sheet,
                                       [sheet |-> sheet[u], stale |-> stale], IsExact(t))
           undone == Back("Undo")
           redone == Back("Redo")
<1>1. /\ todo # <<>> /\ shared = None /\ todo' = Tail(todo)
      /\ sheet' = [sheet EXCEPT ![u] = T.sheet]
      /\ shared' = [by |-> u, operations |-> T.forward]
      /\ undo' = IF t.source = "Undo" THEN undo
                 ELSE [undo EXCEPT ![u] = Append(@, undone)]
      /\ redo' = CASE t.source = "User" -> [redo EXCEPT ![u] = <<>>]
                   [] t.source = "Undo" -> [redo EXCEPT ![u] = Append(@, redone)]
                   [] t.source = "Redo" -> redo
      /\ stale' = IF t.source = "User" THEN stale /\ T.forward = <<>>
                  ELSE t.to.stale \/ ~ IsExact(t)
  BY Zenon DEF Transact
<1>2. /\ undone.by = u /\ undone.to = [sheet |-> sheet[u], stale |-> stale]
      /\ redone.by = u /\ redone.to = [sheet |-> sheet[u], stale |-> stale]
      /\ undone.source = "Undo" /\ redone.source = "Redo"
  <2> DEFINE from == [sheet |-> sheet[u], stale |-> stale]
             operations == Reverse(T.reverse)
             exact == IsExact(t)
  <2>1. undone = Transaction(u, "Undo", operations, T.sheet, from, exact)
    OBVIOUS
  <2>2. redone = Transaction(u, "Redo", operations, T.sheet, from, exact)
    OBVIOUS
  <2> HIDE DEF undone, redone, T, u, t, from, operations, exact
  <2>3. /\ undone.by = u /\ undone.to = from /\ undone.source = "Undo"
        /\ redone.by = u /\ redone.to = from /\ redone.source = "Redo"
    BY <2>1, <2>2, SMTT(30) DEF Transaction
  <2> QED BY <2>3 DEF from
<1>3. /\ undone.to.sheet = sheet[u] /\ undone.to.stale = stale
      /\ redone.to.sheet = sheet[u] /\ redone.to.stale = stale
  BY <1>2
<1>4. t = Head(todo) /\ u = t.by /\ T = Run(sheet[u], t.source, t.operations)
  OBVIOUS
<1> HIDE DEF undone, redone, T, u, t
<1>5. IsTransacted(t, u, T, undone) /\ IsTransacted(t, u, T, redone)
  BY <1>1, <1>2, <1>3, <1>4 DEF IsTransacted
<1>6. CASE t.source = "User"
  <2>1. t.source # "Undo" /\ t.source # "Redo"
    BY <1>6
  <2> QED BY <1>1, <1>2, <1>5, <1>6, <2>1, Zenon DEF Stacked
<1>7. CASE t.source = "Undo"
  <2>1. t.source # "User" /\ t.source # "Redo"
    BY <1>7
  <2> QED BY <1>1, <1>2, <1>5, <1>7, <2>1, Zenon DEF Stacked
<1>8. CASE t.source = "Redo"
  <2>1. t.source # "User" /\ t.source # "Undo"
    BY <1>8
  <2> QED BY <1>1, <1>2, <1>5, <1>8, <2>1, Zenon DEF Stacked
<1>9. CASE t.source # "User" /\ t.source # "Undo" /\ t.source # "Redo"
  <2>1. stale' = (t.to.stale \/ ~ IsExact(t))
    BY <1>1, <1>9, Zenon
  <2> QED BY <1>2, <1>5, <1>9, <2>1, Zenon DEF Stacked
<1> QED
  BY <1>6, <1>7, <1>8, <1>9

(* What a step back brings up is exact again.                              *)
LEMMA BackLeadsBack ==
  ASSUME SpillInv, NEW t, NEW u \in User, NEW T, NEW back, IsTransacted(t, u, T, back),
         back.source \in {"Undo", "Redo"}
  PROVE  LeadsBack(back)
<1>1. back.by = u /\ back.to.sheet = sheet[u] /\ (back.to.stale <=> stale) /\ shared = None
  BY DEF IsTransacted
<1>2. ~ stale => Exact(sheet[u])
  BY <1>1 DEF SpillInv, SpillsAreExact
<1> QED
  BY <1>1, <1>2 DEF LeadsBack

LEMMA TransactKeeps ==
  ASSUME SpillInv, TypeOK, NoneIsNoTable, NoneIsNoMessage,
         Transact, [UndoRestored]_vars
  PROVE  SpillInv'
<1>1. PICK t, u, T, undone, redone :
        /\ IsTransacted(t, u, T, undone) /\ IsTransacted(t, u, T, redone)
        /\ undone.source = "Undo" /\ redone.source = "Redo"
        /\ Stacked(t, u, T, undone, redone)
  BY TransactParts
<1>2. /\ t = Head(todo) /\ u = t.by /\ T = Run(sheet[u], t.source, t.operations)
      /\ todo # <<>> /\ shared = None /\ todo' = Tail(todo)
      /\ sheet' = [sheet EXCEPT ![u] = T.sheet]
      /\ shared' = [by |-> u, operations |-> T.forward]
  BY <1>1 DEF IsTransacted
<1>3. IsTodo(todo) /\ IsStacks(undo) /\ IsStacks(redo)
  BY DEF SpillInv, Lists
<1>4. IsAsked(t) /\ IsTodo(todo')
  BY <1>2, <1>3, TodoNext
<1>5. u \in User
  BY <1>2, <1>4 DEF IsAsked, LeadsBack
<1>6. LeadsBack(undone) /\ LeadsBack(redone)
  BY <1>1, <1>5, BackLeadsBack
<1>7. shared' # None /\ shared'.by = u /\ shared'.operations = T.forward
  BY <1>2 DEF NoneIsNoMessage
<1>8. SpillsAreExact'
  BY <1>7 DEF SpillsAreExact
<1>9. sheet' = [w \in User |-> IF w = u THEN T.sheet ELSE sheet[w]]
  BY <1>2 DEF TypeOK
<1>10. CASE t.source = "User"
  <2>1. /\ undo' = [undo EXCEPT ![u] = Append(@, undone)]
        /\ redo' = [redo EXCEPT ![u] = <<>>]
        /\ stale' = (stale /\ T.forward = <<>>)
    BY <1>1, <1>10, Zenon DEF Stacked
  <2>2. IsStacks(undo')
    BY <1>3, <1>5, <1>6, <2>1, PushStack
  <2>3. IsStacks(redo')
    BY <1>3, <1>5, <2>1, SetStack, EmptyLists
  <2>4. IsOwnTransaction(t.operations)
    BY <1>4, <1>10 DEF IsAsked, LeadsBack
  <2>5. T = Pending(sheet[u]) \/ Exact(T.sheet) \/ T.forward = <<>>
    BY <1>2, <1>5, <1>10, <2>4, SheetOfUser, OwnTransactionSettles
  <2>6. Exact(T.sheet) \/ T.forward = <<>>
    BY <2>5 DEF Pending
  <2>7. ASSUME ~ stale' PROVE SharedIsExact'
    <3>1. ~ stale \/ T.forward # <<>>
      BY <2>1, <2>7, Zenon
    <3>2. CASE T.forward # <<>>
      BY <1>5, <1>7, <1>9, <2>6, <3>2 DEF SharedIsExact
    <3>3. CASE ~ stale /\ T.forward = <<>>
      <4>1. \A w \in User : Exact(sheet[w])
        BY <1>2, <3>3 DEF SpillInv, SpillsAreExact
      <4>2. \A w \in User : w # u => sheet'[w] = sheet[w]
        BY <1>9
      <4> QED BY <1>7, <3>3, <4>1, <4>2 DEF SharedIsExact
    <3> QED BY <3>1, <3>2, <3>3
  <2> QED BY <1>4, <1>5, <1>7, <1>8, <2>2, <2>3, <2>7 DEF SpillInv, Lists
<1>11. CASE t.source # "User"
  <2>1. LeadsBack(t) /\ t.source \in {"Undo", "Redo"}
    BY <1>4, <1>11 DEF IsAsked, LeadsBack
  <2>2. IsStacks(undo') /\ IsStacks(redo')
    <3>1. CASE t.source = "Undo"
      <4>1. undo' = undo /\ redo' = [redo EXCEPT ![u] = Append(@, redone)]
        BY <1>1, <3>1, Zenon DEF Stacked
      <4> QED BY <1>3, <1>5, <1>6, <4>1, PushStack
    <3>2. CASE t.source = "Redo"
      <4>1. undo' = [undo EXCEPT ![u] = Append(@, undone)] /\ redo' = redo
        BY <1>1, <3>2, Zenon DEF Stacked
      <4> QED BY <1>3, <1>5, <1>6, <4>1, PushStack
    <3> QED BY <2>1, <3>1, <3>2
  <2>3. ASSUME ~ stale' PROVE SharedIsExact'
    <3>1. stale' = (t.to.stale \/ ~ IsExact(t))
      BY <1>1, <1>11, Zenon DEF Stacked
    <3>2. ~ t.to.stale /\ IsExact(t)
      BY <2>3, <3>1, Zenon
    <3>3. UndoRestored
      <4>1. CASE UNCHANGED vars
        <5>1. shared' = shared
          BY <4>1 DEF vars
        <5> QED BY <1>2, <1>7, <5>1
      <4> QED BY <4>1
    <3>4. sheet'[u] = t.to.sheet
      BY <1>2, <1>11, <3>2, <3>3 DEF UndoRestored
    <3>5. Exact(t.to.sheet)
      BY <2>1, <3>2 DEF LeadsBack
    <3>6. Exact(sheet'[u])
      BY <3>4, <3>5
    <3> QED BY <1>7, <3>6 DEF SharedIsExact
  <2> QED BY <1>4, <1>5, <1>7, <1>8, <2>2, <2>3 DEF SpillInv, Lists
<1> QED
  BY <1>10, <1>11

LEMMA ReceiveKeeps ==
  ASSUME SpillInv, TypeOK, SheetsAgree', Company, Receive
  PROVE  SpillInv'
<1> DEFINE Others(w) == Run(sheet[w], "Multiplayer", shared.operations).sheet
           by == shared.by
<1>1. /\ shared # None /\ shared' = None
      /\ sheet' = [w \in User |-> IF w = by THEN sheet[w] ELSE Others(w)]
      /\ undo' = undo /\ redo' = redo /\ todo' = todo /\ stale' = stale
  BY DEF Receive
<1>2. by \in User
  BY <1>1 DEF SpillInv
<1>3. Lists'
  BY <1>1 DEF SpillInv, Lists, IsStacks
<1>4. \A u, w \in User : sheet'[u] = sheet'[w]
  BY <1>1 DEF SheetsAgree
<1>5. ASSUME ~ stale' PROVE \A u \in User : Exact(sheet'[u])
  <2>1. SharedIsExact
    BY <1>1, <1>5 DEF SpillInv
  <2>2. \E w \in User : Exact(sheet'[w])
    <3>1. CASE Exact(sheet[by])
      BY <1>1, <1>2, <3>1
    <3>2. CASE shared.operations = <<>> /\ \A w \in User : w # by => Exact(sheet[w])
      <4>1. PICK w \in User : w # by
        BY <1>2 DEF Company
      <4>2. Others(w) = sheet[w]
        BY <3>2, RunNothing
      <4> HIDE DEF Others, by
      <4>3. sheet'[w] = sheet[w]
        BY <1>1, <4>1, <4>2
      <4>4. Exact(sheet[w])
        BY <3>2, <4>1
      <4> QED BY <4>3, <4>4
    <3> QED BY <2>1, <3>1, <3>2 DEF SharedIsExact
  <2> HIDE DEF Others, by
  <2> QED BY <1>4, <2>2
<1> QED
  BY <1>1, <1>3, <1>5 DEF SpillInv, SpillsAreExact

LEMMA SpillInvStep ==
  ASSUME SpillInv, TypeOK, SheetsAgree', NoneIsNoTable, NoneIsNoMessage, Company,
         [UndoRestored]_vars, [Next]_vars
  PROVE  SpillInv'
<1>1. ASSUME NEW u \in User, Edit(u) PROVE SpillInv'
  BY <1>1, EditAsks, TurnKeeps DEF Edited, SpillInv, Lists
<1>2. ASSUME NEW u \in User, Undo(u) PROVE SpillInv'
  BY <1>2, UndoTurn, TurnKeeps DEF SpillInv, Lists
<1>3. ASSUME NEW u \in User, Redo(u) PROVE SpillInv'
  BY <1>3, RedoTurn, TurnKeeps DEF SpillInv, Lists
<1>4. CASE Transact
  BY <1>4, TransactKeeps
<1>5. CASE Receive
  BY <1>5, ReceiveKeeps
<1>6. CASE UNCHANGED vars
  <2>1. /\ sheet' = sheet /\ undo' = undo /\ redo' = redo
        /\ todo' = todo /\ shared' = shared /\ stale' = stale
    BY <1>6 DEF vars
  <2> QED BY <2>1 DEF SpillInv, Lists, IsStacks, SharedIsExact, SpillsAreExact
<1> QED
  BY <1>1, <1>2, <1>3, <1>4, <1>5, <1>6 DEF Next

(* When a change is with everybody, a table has a spill error exactly when *)
(* something is in its way, for any number of users, rows, tables and      *)
(* moves.  That the clients agree and that undo restores is assumed: it is *)
(* how what one client checked becomes true of the others, who check       *)
(* nothing.  A user needs company because only another's sheet would show  *)
(* what a row operation that failed half-way has left.                     *)
THEOREM SpillErrors ==
  ASSUME NoneIsNoTable, NoneIsNoMessage, Company
  PROVE  Spec /\ []TypeOK /\ []SheetsAgree /\ UndoRestores => []SpillsAreExact
<1>1. Init => SpillInv
  BY SpillInvFirst
<1>2. SpillInv /\ TypeOK /\ SheetsAgree' /\ [UndoRestored]_vars /\ [Next]_vars => SpillInv'
  BY SpillInvStep
<1>3. SpillInv => SpillsAreExact
  BY DEF SpillInv
<1> QED
  BY <1>1, <1>2, <1>3, PTL DEF Spec, UndoRestores
=============================================================================
