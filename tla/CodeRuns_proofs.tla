-------------------------- MODULE CodeRuns_proofs --------------------------
(***************************************************************************)
(* What running code keeps, for every set of transactions, every finite    *)
(* set of cells with code of any language that read each other in any way, *)
(* and however often the user cancels:                                     *)
(*                                                                         *)
(*   - a transaction that nothing has run over waits for exactly one run,  *)
(*     and it is the run of the cell and the code it waits for;            *)
(*   - what a cell shows was computed by the code it is labelled with;     *)
(*   - no run that waits in the Python worker is forgotten.                *)
(*                                                                         *)
(* The first two are parts of the one invariant RunInv. OneRunPerWait      *)
(* needs the count of pending results (hasAsync is 1 exactly while a       *)
(* transaction is open) and that a run is with the worker of its language; *)
(* ResultIsOfItsCode then follows from the run that comes back being the   *)
(* one waited for. A step of a worker moves runs about (Keeps), and a step *)
(* of the core takes one off and sends at most one (CoreSendsOne).         *)
(***************************************************************************)
EXTENDS CodeRuns, TLAPS, FiniteSetTheorems, SequenceTheorems

-----------------------------------------------------------------------------
(* Counting in sequences. *)

\* A count is 0 exactly when there is none.
LEMMA NumberType ==
    ASSUME NEW X, NEW q \in Seq(X), NEW S
    PROVE  /\ IsFiniteSet({i \in DOMAIN q : q[i] \in S})
           /\ Number(q, S) \in Nat
           /\ Number(q, S) = 0 <=> \A i \in DOMAIN q : q[i] \notin S
<1> DEFINE P == {i \in DOMAIN q : q[i] \in S}
<1>1. DOMAIN q = 1 .. Len(q) /\ Len(q) \in Nat
      BY LenProperties
<1>2. IsFiniteSet(1 .. Len(q)) /\ P \in SUBSET (1 .. Len(q))
      BY <1>1, FS_Interval
<1>3. IsFiniteSet(P)
      BY <1>2, FS_Subset
<1>4. Number(q, S) = Cardinality(P)
      BY DEF Number
<1>5. P = {} <=> \A i \in DOMAIN q : q[i] \notin S
      OBVIOUS
<1> HIDE DEF P
<1>6. Cardinality(P) \in Nat /\ (Cardinality(P) = 0 <=> P = {})
      BY <1>3, FS_CardinalityType, FS_EmptySet
<1> QED BY <1>3, <1>4, <1>5, <1>6 DEF P

LEMMA NumberEmpty == \A S : Number(<<>>, S) = 0
<1> TAKE S
<1>1. <<>> \in Seq({}) /\ \A i \in DOMAIN <<>> : <<>>[i] \notin S
      OBVIOUS
<1> QED BY <1>1, NumberType

LEMMA NumberAppend ==
    ASSUME NEW X, NEW q \in Seq(X), NEW x \in X, NEW S
    PROVE  Number(Append(q, x), S) = Number(q, S) + (IF x \in S THEN 1 ELSE 0)
<1> DEFINE P == {i \in DOMAIN q : q[i] \in S}
           r == Append(q, x)
           R == {i \in DOMAIN r : r[i] \in S}
           n == Len(q) + 1
<1>1. DOMAIN q = 1 .. Len(q) /\ Len(q) \in Nat
      BY LenProperties
<1>2. /\ r \in Seq(X) /\ Len(r) = n
      /\ \A i \in 1 .. Len(q) : r[i] = q[i]
      /\ r[n] = x
      BY AppendProperties
<1>3. DOMAIN r = 1 .. n
      BY <1>2, LenProperties
<1>4. R = IF x \in S THEN P \cup {n} ELSE P
  <2> HIDE DEF r
  <2> QED BY <1>1, <1>2, <1>3
<1>5. n \notin P
      BY <1>1
<1>6. IsFiniteSet(P) /\ Cardinality(P) = Number(q, S)
      BY NumberType DEF Number
<1>7. Cardinality(R) = Number(r, S)
      BY DEF Number
<1> HIDE DEF P, R, r, n
<1>8. Cardinality(P \cup {n}) = Cardinality(P) + 1
      BY <1>5, <1>6, FS_AddElement
<1>9. Number(q, S) \in Nat /\ Number(r, S) = Cardinality(R)
      BY <1>7, NumberType
<1>10. CASE x \in S
      BY <1>4, <1>6, <1>8, <1>9, <1>10 DEF r
<1>11. CASE x \notin S
      BY <1>4, <1>6, <1>9, <1>11 DEF r
<1> QED BY <1>10, <1>11

LEMMA NumberTail ==
    ASSUME NEW X, NEW q \in Seq(X), q # <<>>, NEW S
    PROVE  Number(q, S) = Number(Tail(q), S) + (IF Head(q) \in S THEN 1 ELSE 0)
<1> DEFINE r == Tail(q)
           P == {i \in DOMAIN r : r[i] \in S}
           R == {i \in DOMAIN q : q[i] \in S}
           f == [i \in P |-> i + 1]
<1>1. DOMAIN q = 1 .. Len(q) /\ Len(q) \in Nat /\ Len(q) # 0
      BY LenProperties, EmptySeq
<1>2. /\ r \in Seq(X) /\ Len(r) = Len(q) - 1
      /\ \A i \in 1 .. Len(r) : r[i] = q[i + 1]
      BY HeadTailProperties
<1>3. DOMAIN r = 1 .. Len(r)
      BY <1>2, LenProperties
<1>4. Head(q) = q[1]
      OBVIOUS
<1> HIDE DEF r
<1>5. f \in Bijection(P, R \ {1})
  <2>1. f \in [P -> R \ {1}]
        BY <1>1, <1>2, <1>3
  <2>2. \A i, j \in P : f[i] = f[j] => i = j
        BY <1>1, <1>2, <1>3
  <2>3. \A k \in R \ {1} : \E i \in P : f[i] = k
    <3> TAKE k \in R \ {1}
    <3>1. k - 1 \in P
          BY <1>1, <1>2, <1>3
    <3> HIDE DEF P
    <3> QED BY <1>1, <3>1
  <2> HIDE DEF P, R, f
  <2> QED BY <2>1, <2>2, <2>3 DEF Bijection, Injection, Surjection, IsInjective
<1>6. /\ IsFiniteSet(P) /\ Cardinality(P) = Number(r, S)
      /\ IsFiniteSet(R) /\ Cardinality(R) = Number(q, S)
      BY <1>2, NumberType DEF Number
<1>7. 1 \in R <=> Head(q) \in S
      BY <1>1, <1>4
<1> HIDE DEF P, R, f
<1>8. Cardinality(R \ {1}) = Cardinality(P)
      BY <1>5, <1>6, FS_Bijection DEF ExistsBijection
<1>9. Cardinality(R \ {1}) = IF 1 \in R THEN Cardinality(R) - 1 ELSE Cardinality(R)
      BY <1>6, FS_RemoveElement
<1>10. Number(q, S) \in Nat /\ Number(r, S) \in Nat
      BY <1>2, NumberType
<1> QED BY <1>6, <1>7, <1>8, <1>9, <1>10 DEF r

\* What is not counted may be added.
LEMMA NumberConcat ==
    ASSUME NEW X, NEW q \in Seq(X), NEW s \in Seq(X), NEW S,
           \A i \in DOMAIN s : s[i] \notin S
    PROVE  Number(q \o s, S) = Number(q, S)
<1> DEFINE r == q \o s
<1>1. DOMAIN q = 1 .. Len(q) /\ Len(q) \in Nat /\ DOMAIN s = 1 .. Len(s) /\ Len(s) \in Nat
      BY LenProperties
<1>2. /\ r \in Seq(X) /\ Len(r) = Len(q) + Len(s)
      /\ \A i \in 1 .. Len(q) + Len(s) : r[i] = IF i <= Len(q) THEN q[i] ELSE s[i - Len(q)]
      BY ConcatProperties
<1>3. DOMAIN r = 1 .. Len(q) + Len(s)
      BY <1>2, LenProperties
<1> HIDE DEF r
<1>4. \A i \in DOMAIN r : r[i] \in S <=> i \in DOMAIN q /\ q[i] \in S
  <2> TAKE i \in DOMAIN r
  <2>1. CASE i <= Len(q)
        BY <1>1, <1>2, <1>3, <2>1
  <2>2. CASE ~(i <= Len(q))
    <3>1. i - Len(q) \in DOMAIN s /\ i \notin DOMAIN q /\ r[i] = s[i - Len(q)]
          BY <1>1, <1>2, <1>3, <2>2
    <3> QED BY <3>1
  <2> QED BY <2>1, <2>2
<1>5. \A i \in DOMAIN q : i \in DOMAIN r
      BY <1>1, <1>3
<1>6. {i \in DOMAIN r : r[i] \in S} = {i \in DOMAIN q : q[i] \in S}
      BY <1>4, <1>5
<1> QED BY <1>6 DEF Number, r

-----------------------------------------------------------------------------
(* The operators of CodeTransactions give what their callers expect. *)

LEMMA AddComputeOperationsType ==
    ASSUME NEW operations \in Seq(Cells), NEW tables, NEW c, NEW skip,
           NEW ops \in AddComputeOperations(operations, tables, c, skip)
    PROVE  ops \in Seq(Cells)
<1> DEFINE D == (Dependents(tables, c) \ skip) \ ToSet(operations)
           n == Cardinality(D)
<1>1. IsFiniteSet(Cells) /\ D \in SUBSET Cells
      BY CellsAssumption DEF Dependents
<1> HIDE DEF D
<1>2. n \in Nat
      BY <1>1, FS_Subset, FS_CardinalityType
<1>3. PICK s \in SetToSeqs(D) : ops = operations \o s
      BY DEF AddComputeOperations, D
<1>4. s \in [1 .. n -> D]
      BY <1>3 DEF SetToSeqs
<1> HIDE DEF n
<1>5. s \in Seq(Cells)
      BY <1>1, <1>2, <1>4
<1> QED BY <1>3, <1>5, ConcatProperties

LEMMA LeastExists ==
    ASSUME NEW T \in SUBSET Nat, T # {}
    PROVE  \E m \in T : \A k \in T : m <= k
<1> DEFINE R == OpToRel(<, Nat)
<1>1. IsWellFoundedOn(R, Nat)
      BY NatLessThanWellFounded
<1>2. \E m \in T : \A k \in T : ~ (<<k, m>> \in R)
  <2> HIDE DEF R
  <2> QED BY <1>1, WFMin
<1>3. \A m \in T, k \in T : <<k, m>> \in R <=> k < m
      BY DEF OpToRel
<1> HIDE DEF R
<1>4. PICK m \in T : \A k \in T : ~ (<<k, m>> \in R)
      BY <1>2
<1>5. \A k \in T : ~ (k < m)
      BY <1>3, <1>4
<1> QED BY <1>5

\* What start_transaction does: it sends nothing and leaves what the transaction waits
\* for alone, or it sends one run, for which the transaction waits from then on.
Starts(t, p, s) ==
    /\ s.p \in Pending /\ s.p.status = p.status
    /\ \/ s.sent = <<>> /\ s.p.hasAsync = p.hasAsync /\ s.p.current = p.current
       \/ \E r \in Run : /\ s.sent = <<r>> /\ r.transaction = t
                         /\ s.p.hasAsync = p.hasAsync + 1
                         /\ s.p.current = [cell |-> r.cell, code |-> r.code]

\* start_transaction starts one run, and waits for it, or has no operation left.
LEMMA StartTransactionType ==
    ASSUME NEW t \in Transactions, NEW p \in Pending,
           NEW codes \in [Cells -> Authors \cup {None}]
    PROVE  Starts(t, p, StartTransaction(t, p, codes))
<1> DEFINE runnable == {i \in DOMAIN p.operations :
                          codes[p.operations[i]] # None /\ (p.hasAsync > 0 => i = 1)}
           left == IF p.hasAsync > 0 THEN SubSeq(p.operations, 2, Len(p.operations)) ELSE <<>>
<1>0. /\ p.operations \in Seq(Cells) /\ Len(p.operations) \in Nat
      /\ DOMAIN p.operations = 1 .. Len(p.operations)
  <2>1. p.operations \in Seq(Cells)
        BY DEF Pending
  <2> QED BY <2>1, LenProperties
<1>1. CASE runnable = {}
  <2> DEFINE q == [p EXCEPT !.operations = left]
  <2>1. left \in Seq(Cells)
    <3>1. \A j \in 2 .. Len(p.operations) : p.operations[j] \in Cells
          BY <1>0, ElementOfSeq
    <3>2. SubSeq(p.operations, 2, Len(p.operations)) \in Seq(Cells)
          BY <1>0, <3>1, SubSeqProperties
    <3> QED BY <3>2, EmptySeq
  <2>2. StartTransaction(t, p, codes) = [p |-> q, sent |-> <<>>]
        BY <1>1 DEF StartTransaction
  <2> HIDE DEF left
  <2>3. q \in Pending /\ q.status = p.status /\ q.hasAsync = p.hasAsync /\ q.current = p.current
        BY <2>1 DEF Pending
  <2> HIDE DEF q
  <2> QED BY <2>2, <2>3 DEF Starts
<1>2. CASE runnable # {}
  <2> DEFINE i == CHOOSE i \in runnable : \A j \in runnable : i <= j
             c == p.operations[i]
             reads == IF LanguageOf[c] = "Connection" THEN Reads[c] ELSE {}
             q == [p EXCEPT !.operations = SubSeq(@, i + 1, Len(@)),
                            !.current = [cell |-> c, code |-> codes[c]],
                            !.hasAsync = @ + 1,
                            !.accessed = @ \cup reads]
             r == [transaction |-> t, cell |-> c, code |-> codes[c]]
  <2>1. i \in runnable
    <3>1. runnable \in SUBSET Nat
          BY <1>0
    <3>2. \E m \in runnable : \A k \in runnable : m <= k
      <4> HIDE DEF runnable
      <4> QED BY <1>2, <3>1, LeastExists
    <3> HIDE DEF runnable
    <3> QED BY <3>2
  <2>2. i \in 1 .. Len(p.operations) /\ codes[c] # None
        BY <1>0, <2>1
  <2> HIDE DEF i
  <2>3. c \in Cells
        BY <1>0, <2>2, ElementOfSeq
  <2> HIDE DEF c
  <2>4. codes[c] \in Authors
        BY <2>2, <2>3
  <2>5. SubSeq(p.operations, i + 1, Len(p.operations)) \in Seq(Cells)
    <3>1. \A j \in (i + 1) .. Len(p.operations) : p.operations[j] \in Cells
          BY <1>0, <2>2, ElementOfSeq
    <3> QED BY <1>0, <2>2, <3>1, SubSeqProperties
  <2>6. reads \in SUBSET Cells
        BY <2>3, CellsAssumption
  <2> HIDE DEF reads
  <2> DEFINE ops == SubSeq(p.operations, i + 1, Len(p.operations))
             current == [cell |-> c, code |-> codes[c]]
  <2>7. q \in Pending /\ q.status = p.status /\ q.hasAsync = p.hasAsync + 1
    <3>1. current \in {None} \cup [cell : Cells, code : Authors]
          BY <2>3, <2>4
    <3> HIDE DEF ops, current
    <3>2. p.hasAsync + 1 \in Nat /\ p.accessed \cup reads \in SUBSET Cells /\ ops \in Seq(Cells)
          BY <2>5, <2>6 DEF Pending, ops
    <3>4. q = [p EXCEPT !.operations = ops, !.current = current, !.hasAsync = @ + 1,
                        !.accessed = @ \cup reads]
          BY DEF ops, current
    <3> HIDE DEF q
    <3>5. DOMAIN p = {"status", "operations", "current", "hasAsync", "accessed"}
          BY DEF Pending
    <3>3. q = [status |-> p.status, operations |-> ops, current |-> current,
               hasAsync |-> p.hasAsync + 1, accessed |-> p.accessed \cup reads]
          BY <3>4, <3>5 DEF Pending
    <3> HIDE DEF q
    <3> QED BY <3>1, <3>2, <3>3 DEF Pending
  <2>8. q.current = [cell |-> r.cell, code |-> r.code] /\ r \in Run /\ r.transaction = t
        BY <2>3, <2>4 DEF Pending, Run
  <2>9. StartTransaction(t, p, codes) = [p |-> q, sent |-> <<r>>]
        BY <1>2 DEF StartTransaction, i, c, reads
  <2> HIDE DEF q, r
  <2> QED BY <2>7, <2>8, <2>9 DEF Starts
<1> QED BY <1>1, <1>2

\* Where the loop of order_code_cells may be.
Round == [cells : Seq(Cells), i : Nat \ {0}]

LEMMA OrderRoundType ==
    ASSUME NEW s \in Round
    PROVE  OrderRound(s) \in Round
<1> DEFINE n == Len(s.cells)
           later == {j \in (s.i + 1) .. n : s.cells[j] \in table[s.cells[s.i]].accessed}
           j == CHOOSE j \in later : \A k \in later : j <= k
           e == s.cells[s.i]
           rest == RemoveAt(s.cells, s.i)
           put == InsertAt(rest, j, e)
<1>1. /\ s.cells \in Seq(Cells) /\ s.i \in Nat \ {0} /\ n \in Nat
      /\ \A k \in 1 .. n : s.cells[k] \in Cells
  <2>1. s.cells \in Seq(Cells) /\ s.i \in Nat \ {0}
        BY DEF Round
  <2> QED BY <2>1, LenProperties, ElementOfSeq
<1>2. CASE s.i >= n
      BY <1>2 DEF OrderRound
<1>3. CASE ~(s.i >= n) /\ later = {}
  <2>1. OrderRound(s) = [s EXCEPT !.i = @ + 1]
        BY <1>3 DEF OrderRound
  <2> QED BY <1>1, <2>1 DEF Round
<1>4. CASE ~(s.i >= n) /\ later # {}
  <2>1. j \in later
    <3>1. later \in SUBSET Nat
          BY <1>1
    <3>2. \E m \in later : \A k \in later : m <= k
      <4> HIDE DEF later
      <4> QED BY <1>4, <3>1, LeastExists, SMTT(30)
    <3> HIDE DEF later
    <3> QED BY <3>2
  <2>2. j \in (s.i + 1) .. n
        BY <2>1
  <2>3. OrderRound(s) = [s EXCEPT !.cells = put]
        BY <1>4 DEF OrderRound
  <2> HIDE DEF j
  <2>4. SubSeq(s.cells, 1, s.i - 1) \in Seq(Cells) /\ Len(SubSeq(s.cells, 1, s.i - 1)) = s.i - 1
    <3>1. \A k \in 1 .. s.i - 1 : s.cells[k] \in Cells
          BY <1>1, <1>4
    <3> QED BY <1>1, <3>1, SubSeqProperties
  <2>5. SubSeq(s.cells, s.i + 1, n) \in Seq(Cells) /\ Len(SubSeq(s.cells, s.i + 1, n)) = n - s.i
    <3>1. \A k \in (s.i + 1) .. n : s.cells[k] \in Cells
          BY <1>1, <1>4
    <3> QED BY <1>1, <1>4, <3>1, SubSeqProperties
  <2>6. rest \in Seq(Cells) /\ Len(rest) = n - 1
    <3> DEFINE front == SubSeq(s.cells, 1, s.i - 1)
               back == SubSeq(s.cells, s.i + 1, n)
    <3>1. rest = front \o back
          BY DEF RemoveAt
    <3> HIDE DEF front, back, rest
    <3>2. front \o back \in Seq(Cells) /\ Len(front \o back) = Len(front) + Len(back)
          BY <2>4, <2>5, ConcatProperties DEF front, back
    <3>3. Len(front) = s.i - 1 /\ Len(back) = n - s.i
          BY <2>4, <2>5 DEF front, back
    <3> QED BY <1>1, <3>1, <3>2, <3>3
  <2> HIDE DEF rest
  <2>7. \A k \in 1 .. n - 1 : rest[k] \in Cells
        BY <1>1, <2>6, ElementOfSeq
  <2>8. SubSeq(rest, 1, j - 1) \in Seq(Cells)
    <3>1. \A k \in 1 .. j - 1 : rest[k] \in Cells
          BY <1>1, <2>2, <2>7
    <3> QED BY <1>1, <2>2, <3>1, SubSeqProperties
  <2>9. SubSeq(rest, j, Len(rest)) \in Seq(Cells)
    <3>1. \A k \in j .. n - 1 : rest[k] \in Cells
          BY <1>1, <2>2, <2>7
    <3> QED BY <1>1, <2>2, <2>6, <3>1, SubSeqProperties
  <2>10. <<e>> \in Seq(Cells)
        BY <1>1, <1>4
  <2>11. put \in Seq(Cells)
        BY <2>8, <2>9, <2>10, ConcatProperties DEF InsertAt
  <2> HIDE DEF put
  <2> QED BY <2>3, <2>11 DEF Round
<1> QED BY <1>2, <1>3, <1>4

\* Induction from 0 to n; the property is a set, not an operator.
LEMMA InductionTo ==
    ASSUME NEW n \in Nat, NEW G, 0 \in G,
           \A i \in 1 .. n : i - 1 \in G => i \in G
    PROVE  n \in G
<1> DEFINE B == {i \in 0 .. n : i \notin G}
<1>1. SUFFICES ASSUME B # {} PROVE FALSE
      OBVIOUS
<1>2. B \in SUBSET Nat
      OBVIOUS
<1>3. PICK m \in B : \A k \in B : m <= k
  <2> HIDE DEF B
  <2> QED BY <1>1, <1>2, LeastExists
<1>4. m \in 1 .. n /\ m - 1 \in 0 .. n
      BY <1>3
<1>5. m - 1 \in G
      BY <1>3, <1>4
<1> QED BY <1>3, <1>4, <1>5

\* n steps of H from s0.
Loop(f, H, s0, n) == f[0] = s0 /\ \A m \in 1 .. n : f[m] = H[f[m - 1]]

LEMMA LoopExists ==
    ASSUME NEW S, NEW n \in Nat, NEW H \in [S -> S], NEW s0 \in S
    PROVE  \E f \in [0 .. n -> S] : Loop(f, H, s0, n)
<1> DEFINE P(m) == \E f \in [0 .. m -> S] : Loop(f, H, s0, m)
           G == {m \in 0 .. n : P(m)}
<1>1. 0 \in G
  <2> DEFINE f == [i \in 0 .. 0 |-> s0]
  <2>1. f \in [0 .. 0 -> S] /\ Loop(f, H, s0, 0)
        BY DEF Loop
  <2> HIDE DEF f
  <2>2. P(0)
        BY <2>1
  <2> HIDE DEF P
  <2> QED BY <2>2
<1>2. ASSUME NEW m \in 1 .. n, m - 1 \in G PROVE m \in G
  <2>1. PICK f \in [0 .. (m - 1) -> S] : Loop(f, H, s0, m - 1)
        BY <1>2
  <2> DEFINE g == [i \in 0 .. m |-> IF i = m THEN H[f[m - 1]] ELSE f[i]]
  <2>2. g \in [0 .. m -> S] /\ Loop(g, H, s0, m)
        BY <2>1 DEF Loop
  <2> HIDE DEF g
  <2>3. P(m)
        BY <2>2
  <2> HIDE DEF P
  <2> QED BY <2>3
<1>3. n \in G
  <2> HIDE DEF G
  <2> QED BY <1>1, <1>2, InductionTo
<1> QED BY <1>3

LEMMA MaxRoundsType == MaxRounds \in Nat
<1>1. Cardinality(Cells) \in Nat
      BY CellsAssumption, FS_CardinalityType
<1>2. \A x, y \in Nat : x * y \in Nat
      OBVIOUS
<1> QED BY <1>1, <1>2 DEF MaxRounds

\* However it orders them, the list is one of cells.
LEMMA OrderCodeCellsType ==
    ASSUME NEW cells \in Seq(Cells)
    PROVE  OrderCodeCells(cells) \in Seq(Cells)
<1> DEFINE n == MaxRounds
           s0 == [cells |-> cells, i |-> 1]
           H == [s \in Round |-> OrderRound(s)]
           Body(f) == [m \in 0 .. n |-> IF m = 0 THEN s0 ELSE OrderRound(f[m - 1])]
           F == CHOOSE f : f = Body(f)
<1>1. n \in Nat /\ s0 \in Round /\ H \in [Round -> Round]
  <2>1. n \in Nat
        BY MaxRoundsType
  <2>2. s0 \in Round
        BY DEF Round
  <2>3. H \in [Round -> Round]
        BY OrderRoundType
  <2> QED BY <2>1, <2>2, <2>3
<1>2. OrderCodeCells(cells) = F[n].cells
      BY DEF OrderCodeCells
<1> HIDE DEF s0, n
<1>3. PICK f \in [0 .. n -> Round] : Loop(f, H, s0, n)
  <2> HIDE DEF H
  <2> QED BY <1>1, LoopExists
<1>4. f = Body(f)
  <2>1. \A m \in 1 .. n : f[m - 1] \in Round
        BY <1>1
  <2> QED BY <1>1, <1>3, <2>1 DEF Loop
<1>5. F = Body(F)
  <2> HIDE DEF Body
  <2> QED BY <1>4, Zenon
<1> HIDE DEF F
<1> DEFINE G == {m \in 0 .. n : F[m] \in Round}
<1>6. 0 \in G
      BY <1>1, <1>5
<1>7. ASSUME NEW m \in 1 .. n, m - 1 \in G PROVE m \in G
  <2>1. F[m] = OrderRound(F[m - 1])
        BY <1>1, <1>5
  <2> QED BY <1>1, <1>7, <2>1, OrderRoundType
<1>8. n \in G
  <2> HIDE DEF G
  <2> QED BY <1>1, <1>6, <1>7, InductionTo
<1> QED BY <1>2, <1>8 DEF Round

-----------------------------------------------------------------------------
(* The outcomes of a step of the core for transaction t. *)

Sent(t) ==
    {<<>>} \cup {<<r>> : r \in RunsOf(t)} \cup {<<q, r>> : q \in RunsOf(t), r \in RunsOf(t)}

LEMMA SentOne ==
    ASSUME NEW t
    PROVE  <<>> \in Sent(t) /\ \A r \in RunsOf(t) : <<r>> \in Sent(t)
BY DEF Sent

\* It waits if and only if it is open.
Outcome(t) ==
    {o \in [p : Pending, tables : [Cells -> Table \cup {None}], sent : Sent(t)] :
        o.p.status = "open" <=> o.p.hasAsync > 0}

\* It has started one run, for which it waits, or is complete.
Continues(t, o) ==
    \/ o.sent = <<>> /\ o.p.status = "complete" /\ o.p.hasAsync = 0
    \/ \E r \in RunsOf(t) : /\ o.sent = <<r>> /\ o.p.status = "open" /\ o.p.hasAsync = 1
                            /\ o.p.current = [cell |-> r.cell, code |-> r.code]

LEMMA FinalizeTransactionType ==
    ASSUME NEW p \in Pending
    PROVE  LET q == FinalizeTransaction(p)
           IN  /\ q \in Pending /\ q.hasAsync = p.hasAsync /\ q.current = p.current
               /\ q.status = IF p.hasAsync > 0 THEN "open" ELSE "complete"
BY DEF FinalizeTransaction, Pending

LEMMA RefusedType ==
    ASSUME NEW p \in Pending
    PROVE  LET q == Refused(p)
           IN  /\ q \in Pending /\ q.hasAsync = p.hasAsync
               /\ q.status = IF p.hasAsync > 0 THEN "open" ELSE "lost"
BY DEF Refused, Pending

LEMMA FinalizeDataTableType ==
    ASSUME NEW p \in Pending, NEW tables, NEW c, NEW new,
           NEW q \in FinalizeDataTable(p, tables, c, new)
    PROVE  q \in Pending /\ q.hasAsync = p.hasAsync /\ q.current = None
<1> DEFINE cleared == [p EXCEPT !.current = None, !.accessed = {}]
           after == [tables EXCEPT ![c] = new]
           Ops == AddComputeOperations(p.operations, after, c, {c})
<1>1. cleared \in Pending /\ cleared.hasAsync = p.hasAsync /\ cleared.current = None
      BY DEF Pending
<1>2. p.operations \in Seq(Cells)
      BY DEF Pending
<1>3. \A ops \in Ops : ops \in Seq(Cells)
  <2> HIDE DEF after
  <2> QED BY <1>2, AddComputeOperationsType
<1>4. q = cleared \/ \E ops \in Ops : q = [cleared EXCEPT !.operations = ops]
      BY DEF FinalizeDataTable
<1> HIDE DEF cleared, Ops
<1> QED BY <1>1, <1>3, <1>4 DEF Pending

LEMMA StartsOne ==
    ASSUME NEW t \in Transactions, NEW p \in Pending, NEW s, Starts(t, p, s)
    PROVE  LET o == FinalizeTransaction(s.p)
           IN  /\ o \in Pending /\ (o.status = "open" <=> o.hasAsync > 0)
               /\ \/ s.sent = <<>> /\ o.hasAsync = p.hasAsync /\ o.current = p.current
                  \/ \E r \in RunsOf(t) : /\ s.sent = <<r>> /\ o.hasAsync = p.hasAsync + 1
                                          /\ o.current = [cell |-> r.cell, code |-> r.code]
<1>1. s.p \in Pending
      BY DEF Starts
<1> QED BY <1>1, FinalizeTransactionType DEF Starts, RunsOf

LEMMA TwoRuns ==
    ASSUME NEW r, NEW s
    PROVE  /\ <<r>> \o <<s>> = <<r, s>>
           /\ <<r>> \o <<>> = <<r>> /\ <<>> \o <<r>> = <<r>> /\ <<>> \o <<>> = <<>>
<1> DEFINE both == <<r>> \o <<s>>
<1>1. <<r>> \in Seq({r, s}) /\ <<s>> \in Seq({r, s}) /\ <<>> \in Seq({r, s})
      OBVIOUS
<1>2. <<r, s>> \in Seq({r, s}) /\ Len(<<r, s>>) = 2
      OBVIOUS
<1>3. both \in Seq({r, s}) /\ Len(both) = 2 /\ both[1] = r /\ both[2] = s
  <2>1. Len(<<r>>) = 1 /\ Len(<<s>>) = 1
        OBVIOUS
  <2> QED BY <1>1, <2>1, ConcatProperties
<1> HIDE DEF both
<1>4. both = <<r, s>>
      BY <1>2, <1>3, SeqEqual
<1> QED BY <1>1, <1>4, ConcatEmptySeq DEF both

LEMMA StoredType ==
    ASSUME CoreTypeOK, NEW t \in Transactions, NEW p \in Pending, p.current # None,
           NEW new \in Table, NEW sent \in {<<>>} \cup {<<r>> : r \in RunsOf(t)},
           NEW o \in Stored(t, p, new, sent)
    PROVE  /\ o \in Outcome(t)
           /\ o.tables = [table EXCEPT ![p.current.cell] = new]
           /\ sent = <<>> /\ p.hasAsync = 0 => Continues(t, o)
<1>1. p.current.cell \in Cells /\ table \in [Cells -> Table \cup {None}]
      /\ code \in [Cells -> Authors \cup {None}]
      BY DEF Pending, CoreTypeOK
<1> DEFINE c == p.current.cell
           tables == [table EXCEPT ![c] = new]
<1>2. PICK q \in FinalizeDataTable(p, table, c, new) :
           LET s == StartTransaction(t, q, code)
           IN  o = [p |-> FinalizeTransaction(s.p), tables |-> tables, sent |-> sent \o s.sent]
      BY DEF Stored
<1> DEFINE s == StartTransaction(t, q, code)
           f == FinalizeTransaction(s.p)
<1>3. tables \in [Cells -> Table \cup {None}]
      BY <1>1
<1>4. q \in Pending /\ q.hasAsync = p.hasAsync /\ q.current = None
      BY FinalizeDataTableType
<1>5. o = [p |-> f, tables |-> tables, sent |-> sent \o s.sent]
      BY <1>2
<1>6. /\ f \in Pending /\ (f.status = "open" <=> f.hasAsync > 0)
      /\ \/ s.sent = <<>> /\ f.hasAsync = q.hasAsync /\ f.current = q.current
         \/ \E r \in RunsOf(t) : /\ s.sent = <<r>> /\ f.hasAsync = q.hasAsync + 1
                                 /\ f.current = [cell |-> r.cell, code |-> r.code]
  <2>1. Starts(t, q, s)
        BY <1>1, <1>4, StartTransactionType
  <2> HIDE DEF s
  <2> QED BY <1>4, <2>1, StartsOne
<1>7. f.status = IF q.hasAsync = f.hasAsync /\ q.hasAsync = 0 THEN "complete" ELSE f.status
  <2>1. s.p \in Pending
        BY <1>1, <1>4, StartTransactionType DEF Starts
  <2> HIDE DEF s
  <2> QED BY <2>1, FinalizeTransactionType
<1> HIDE DEF c, tables, s, f
<1>8. sent \o s.sent \in Sent(t)
  <2>1. sent = <<>> \/ \E r \in RunsOf(t) : sent = <<r>>
        OBVIOUS
  <2>2. s.sent = <<>> \/ \E r \in RunsOf(t) : s.sent = <<r>>
        BY <1>6
  <2>3. \/ sent \o s.sent = <<>>
        \/ \E r \in RunsOf(t) : sent \o s.sent = <<r>>
        \/ \E q1, q2 \in RunsOf(t) : sent \o s.sent = <<q1, q2>>
        BY <2>1, <2>2, TwoRuns
  <2> QED BY <2>3 DEF Sent
<1>9. o \in Outcome(t)
      BY <1>3, <1>5, <1>6, <1>8 DEF Outcome
<1>10. ASSUME sent = <<>>, p.hasAsync = 0 PROVE Continues(t, o)
  <2>1. \A r \in RunsOf(t) : <<>> \o <<r>> = <<r>>
        OBVIOUS
  <2>2. <<>> \o <<>> = <<>>
        OBVIOUS
  <2>3. CASE s.sent = <<>> /\ f.hasAsync = q.hasAsync
        BY <1>4, <1>5, <1>7, <1>10, <2>2, <2>3 DEF Continues
  <2>4. CASE \E r \in RunsOf(t) : /\ s.sent = <<r>> /\ f.hasAsync = q.hasAsync + 1
                                  /\ f.current = [cell |-> r.cell, code |-> r.code]
    <3>1. PICK r \in RunsOf(t) : /\ s.sent = <<r>> /\ f.hasAsync = 1
                                 /\ f.current = [cell |-> r.cell, code |-> r.code]
          BY <1>4, <1>10, <2>4
    <3>2. o.sent = <<r>> /\ o.p = f /\ f.status = "open"
          BY <1>5, <1>6, <1>10, <2>1, <3>1
    <3> QED BY <3>1, <3>2 DEF Continues
  <2> QED BY <1>6, <2>3, <2>4
<1> QED BY <1>5, <1>9, <1>10 DEF c, tables

Waits(t) == pending[t].status = "open" <=> pending[t].hasAsync > 0

LEMMA RemoveAwaitingAsyncType ==
    ASSUME NEW q \in Pending, q.hasAsync > 0
    PROVE  LET p == RemoveAwaitingAsync(q)
           IN  /\ p \in Pending /\ p.hasAsync = q.hasAsync - 1
               /\ p.current = q.current /\ p.accessed = q.accessed
BY DEF RemoveAwaitingAsync, Pending

LEMMA RefusalType ==
    ASSUME CoreTypeOK, NEW t \in Transactions, NEW p \in Pending, NEW sent \in Sent(t),
           NEW o \in Refusal(p, sent)
    PROVE  o \in Outcome(t) /\ o.tables = table /\ (p.hasAsync = 0 => o.p.status = "lost")
<1>1. o = [p |-> Refused(p), tables |-> table, sent |-> sent]
      BY DEF Refusal
<1> DEFINE q == Refused(p)
<1>2. q \in Pending /\ (q.status = "open" <=> q.hasAsync > 0) /\ (p.hasAsync = 0 => q.status = "lost")
      BY RefusedType DEF Pending
<1> HIDE DEF q
<1> QED BY <1>1, <1>2 DEF Outcome, q, CoreTypeOK

\* A result that nothing waits for.
LEMMA NobodyWaits ==
    ASSUME CoreTypeOK, NEW t \in Transactions, Waits(t)
    PROVE  [p |-> pending[t], tables |-> table, sent |-> <<>>] \in Outcome(t)
<1>1. pending[t] \in Pending /\ table \in [Cells -> Table \cup {None}]
      BY DEF CoreTypeOK
<1> QED BY <1>1 DEF Outcome, Sent, Waits

\* Only t has stored anything.
Stores(t, tables) ==
    \A c \in Cells : tables[c] # None => tables[c] = table[c] \/ tables[c].by = t

\* calculation_complete, whatever it is told: what it leaves, and what it stores.
LEMMA CalculationCompleteType ==
    ASSUME CoreTypeOK, NEW t \in Transactions, Waits(t), NEW ran \in Authors \cup {None},
           NEW cancel \in BOOLEAN, NEW o \in CalculationComplete(t, ran, cancel)
    PROVE  o \in Outcome(t) /\ Stores(t, o.tables)
<1> DEFINE p == RemoveAwaitingAsync(pending[t])
           s == IF cancel THEN StartTransaction(t, p, code) ELSE [p |-> p, sent |-> <<>>]
           new == [code |-> CodeOfResult(s.p), ran |-> ran, accessed |-> s.p.accessed, by |-> t]
<1>1. /\ pending[t] \in Pending /\ code \in [Cells -> Authors \cup {None}]
      /\ pending[t].hasAsync \in Nat
      BY DEF CoreTypeOK, Pending
<1>2. CASE pending[t].status # "open"
      BY <1>2, NobodyWaits DEF CalculationComplete, Stores
<1>3. CASE pending[t].status = "open"
  <2>1. p \in Pending
        BY <1>1, <1>3, RemoveAwaitingAsyncType DEF Waits
  <2>2. s.p \in Pending /\ s.sent \in {<<>>} \cup {<<r>> : r \in RunsOf(t)}
    <3>1. CASE cancel
      <4>1. Starts(t, p, s)
        <5> HIDE DEF p
        <5> QED BY <1>1, <2>1, <3>1, StartTransactionType
      <4> HIDE DEF s
      <4> QED BY <4>1 DEF Starts, RunsOf
    <3>2. CASE ~cancel
      <4> HIDE DEF p
      <4> QED BY <2>1, <3>2
    <3> QED BY <3>1, <3>2
  <2>3. \/ o \in Refusal(s.p, s.sent)
        \/ s.p.current # None /\ o \in Stored(t, s.p, new, s.sent)
        BY <1>3 DEF CalculationComplete
  <2>4. s.p.current # None => new \in Table
    <3>1. s.p.current # None => s.p.current.code \in Authors
          BY <2>2 DEF Pending
    <3>2. s.p.accessed \in SUBSET Cells /\ t \in Authors
          BY <2>2 DEF Pending, Authors
    <3> HIDE DEF s
    <3> QED BY <3>1, <3>2 DEF Table, CodeOfResult
  <2>5. new.by = t /\ s.sent \in Sent(t) /\ table \in [Cells -> Table \cup {None}]
        BY <2>2 DEF Sent, CoreTypeOK
  <2> HIDE DEF s, new
  <2>6. CASE o \in Refusal(s.p, s.sent)
        BY <2>2, <2>5, <2>6, RefusalType DEF Stores
  <2>7. CASE s.p.current # None /\ o \in Stored(t, s.p, new, s.sent)
    <3>1. o \in Outcome(t) /\ o.tables = [table EXCEPT ![s.p.current.cell] = new]
          BY <2>2, <2>4, <2>7, StoredType
    <3> QED BY <2>5, <3>1 DEF Stores
  <2> QED BY <2>3, <2>6, <2>7
<1> QED BY <1>2, <1>3

\* The result of the run that the transaction waits for.
LEMMA CalculationContinues ==
    ASSUME CoreTypeOK, NEW t \in Transactions, NEW ran \in Authors,
           NEW o \in CalculationComplete(t, ran, FALSE),
           pending[t].status = "open", pending[t].hasAsync = 1,
           pending[t].current # None, LanguageOf[pending[t].current.cell] \in CodeLanguages
    PROVE  /\ Continues(t, o)
           /\ \E accessed \in SUBSET Cells :
                o.tables = [table EXCEPT ![pending[t].current.cell] =
                    [code |-> pending[t].current.code, ran |-> ran, accessed |-> accessed, by |-> t]]
<1> DEFINE p == RemoveAwaitingAsync(pending[t])
           new == [code |-> CodeOfResult(p), ran |-> ran, accessed |-> p.accessed, by |-> t]
<1>1. pending[t] \in Pending
      BY DEF CoreTypeOK
<1>2. /\ p \in Pending /\ p.hasAsync = 0 /\ p.current = pending[t].current
      BY <1>1, RemoveAwaitingAsyncType
<1>3. o \in Stored(t, p, new, <<>>)
      BY <1>2 DEF CalculationComplete
<1>4. new = [code |-> pending[t].current.code, ran |-> ran, accessed |-> p.accessed, by |-> t]
      BY <1>2 DEF CodeOfResult
<1> HIDE DEF p, new
<1>5. p.accessed \in SUBSET Cells /\ p.current.code \in Authors /\ t \in Authors
      BY <1>2 DEF Pending, Authors
<1>6. new \in Table
      BY <1>2, <1>4, <1>5 DEF Table
<1>7. Continues(t, o) /\ o.tables = [table EXCEPT ![p.current.cell] = new]
      BY <1>2, <1>3, <1>6, StoredType
<1> QED BY <1>2, <1>4, <1>5, <1>7

\* t has stored nothing, or a result in the cell that it waited for.
StoresCurrent(t, tables) ==
    \/ tables = table
    \/ /\ pending[t].status = "open" /\ pending[t].current # None
       /\ \E new \in Table : /\ new.by = t
                             /\ tables = [table EXCEPT ![pending[t].current.cell] = new]

\* connection_complete, whatever it is told. It stores a result where t waited.
LEMMA ConnectionCompleteType ==
    ASSUME CoreTypeOK, NEW t \in Transactions, Waits(t), NEW ran \in Authors \cup {None},
           NEW parses \in BOOLEAN, NEW o \in ConnectionComplete(t, ran, parses)
    PROVE  /\ o \in Outcome(t)
           /\ StoresCurrent(t, o.tables)
           /\ (pending[t].status = "open" /\ pending[t].hasAsync = 1) =>
                (o.p.status = "lost" \/ Continues(t, o))
<1> DEFINE p == RemoveAwaitingAsync(pending[t])
           new == [code |-> code[p.current.cell], ran |-> ran, accessed |-> p.accessed, by |-> t]
<1>1. /\ pending[t] \in Pending /\ code \in [Cells -> Authors \cup {None}]
      /\ pending[t].hasAsync \in Nat
      BY DEF CoreTypeOK, Pending
<1>2. CASE pending[t].status # "open"
      BY <1>2, NobodyWaits DEF ConnectionComplete, StoresCurrent
<1>3. CASE pending[t].status = "open"
  <2>1. p \in Pending /\ p.current = pending[t].current /\ p.hasAsync = pending[t].hasAsync - 1
        BY <1>1, <1>3, RemoveAwaitingAsyncType DEF Waits
  <2>2. \/ o \in Refusal(p, <<>>)
        \/ p.current # None /\ code[p.current.cell] # None /\ o \in Stored(t, p, new, <<>>)
        BY <1>3 DEF ConnectionComplete
  <2>3. p.current # None /\ code[p.current.cell] # None => new \in Table
    <3> HIDE DEF p
    <3>1. p.current # None => p.current.cell \in Cells
          BY <2>1 DEF Pending
    <3>2. p.accessed \in SUBSET Cells /\ t \in Authors
          BY <2>1 DEF Pending, Authors
    <3> QED BY <1>1, <3>1, <3>2 DEF Table
  <2>4. <<>> \in Sent(t) /\ new.by = t
        BY DEF Sent
  <2> HIDE DEF p, new
  <2>5. CASE o \in Refusal(p, <<>>)
        BY <1>1, <2>1, <2>4, <2>5, RefusalType DEF StoresCurrent
  <2>6. CASE p.current # None /\ code[p.current.cell] # None /\ o \in Stored(t, p, new, <<>>)
    <3>1. /\ o \in Outcome(t) /\ o.tables = [table EXCEPT ![p.current.cell] = new]
          /\ p.hasAsync = 0 => Continues(t, o)
          BY <2>1, <2>3, <2>6, StoredType
    <3> QED BY <1>1, <1>3, <2>1, <2>3, <2>4, <2>6, <3>1 DEF StoresCurrent
  <2> QED BY <2>2, <2>5, <2>6
<1> QED BY <1>2, <1>3

\* A transaction that the user begins.
LEMMA BeginUserType ==
    ASSUME CoreTypeOK, NEW t \in Transactions, Waits(t), pending[t].status = "unused",
           NEW codes \in [Cells -> Authors \cup {None}],
           NEW tables \in [Cells -> Table \cup {None}], NEW operations \in Seq(Cells)
    PROVE  LET o == BeginUser(t, codes, tables, operations)
           IN  o \in Outcome(t) /\ o.tables = tables /\ Continues(t, o)
<1> DEFINE p == [pending[t] EXCEPT !.operations = operations]
           s == StartTransaction(t, p, codes)
           f == FinalizeTransaction(s.p)
           o == [p |-> f, tables |-> tables, sent |-> s.sent]
<1>1. p \in Pending /\ p.hasAsync = 0
  <2>1. pending[t] \in Pending
        BY DEF CoreTypeOK
  <2>2. pending[t].hasAsync \in Nat /\ ~(pending[t].hasAsync > 0)
        BY <2>1 DEF Pending, Waits
  <2>3. pending[t].hasAsync = 0
        BY <2>2
  <2>4. \A q \in Pending : LET r == [q EXCEPT !.operations = operations]
                           IN  r \in Pending /\ r.hasAsync = q.hasAsync
        BY DEF Pending
  <2> QED BY <2>1, <2>3, <2>4
<1>2. Starts(t, p, s)
  <2> HIDE DEF p
  <2> QED BY <1>1, StartTransactionType
<1>3. BeginUser(t, codes, tables, operations) = o
      BY DEF BeginUser
<1>4. s.p \in Pending
      BY <1>2 DEF Starts
<1> HIDE DEF s, p
<1>5. f.status = IF f.hasAsync > 0 THEN "open" ELSE "complete"
      BY <1>4, FinalizeTransactionType
<1>6. /\ f \in Pending /\ (f.status = "open" <=> f.hasAsync > 0)
      /\ \/ s.sent = <<>> /\ f.hasAsync = p.hasAsync /\ f.current = p.current
         \/ \E r \in RunsOf(t) : /\ s.sent = <<r>> /\ f.hasAsync = p.hasAsync + 1
                                 /\ f.current = [cell |-> r.cell, code |-> r.code]
      BY <1>1, <1>2, StartsOne
<1> HIDE DEF f
<1>7. o \in Outcome(t)
  <2>1. s.sent \in Sent(t)
    <3>1. s.sent = <<>> \/ \E r \in RunsOf(t) : s.sent = <<r>>
          BY <1>6
    <3> QED BY <3>1, SentOne
  <2>2. o \in [p : Pending, tables : [Cells -> Table \cup {None}], sent : Sent(t)]
        BY <1>6, <2>1
  <2> QED BY <1>6, <2>2 DEF Outcome
<1>8. Continues(t, o)
      BY <1>1, <1>5, <1>6 DEF Continues
<1> HIDE DEF o
<1> QED BY <1>3, <1>7, <1>8 DEF o

-----------------------------------------------------------------------------
(* Counting the runs under way. *)

OfTransaction(E, t) == {e \in E : e.run.transaction = t}

LEMMA OfTransactionType ==
    ASSUME NEW E, IsFiniteSet(E), NEW t
    PROVE  /\ IsFiniteSet(OfTransaction(E, t)) /\ Cardinality(OfTransaction(E, t)) \in Nat
           /\ Cardinality(OfTransaction(E, t)) = 0 <=> \A e \in E : e.run.transaction # t
<1>1. OfTransaction(E, t) \in SUBSET E
      BY DEF OfTransaction
<1>2. IsFiniteSet(OfTransaction(E, t))
      BY <1>1, FS_Subset
<1>3. OfTransaction(E, t) = {} <=> \A e \in E : e.run.transaction # t
      BY DEF OfTransaction
<1> QED BY <1>2, <1>3, FS_CardinalityType, FS_EmptySet

\* One more, where there was none of its transaction.
LEMMA OneMore ==
    ASSUME NEW E, IsFiniteSet(E), NEW e, NEW t,
           e.run.transaction = t => \A d \in E : d.run.transaction # t
    PROVE  /\ IsFiniteSet(E \cup {e})
           /\ Cardinality(OfTransaction(E \cup {e}, t)) =
                Cardinality(OfTransaction(E, t)) + (IF e.run.transaction = t THEN 1 ELSE 0)
<1>1. IsFiniteSet(E \cup {e})
      BY FS_AddElement
<1>2. CASE e.run.transaction = t
  <2>1. OfTransaction(E \cup {e}, t) = OfTransaction(E, t) \cup {e}
        BY <1>2 DEF OfTransaction
  <2>2. e \notin OfTransaction(E, t)
        BY <1>2 DEF OfTransaction
  <2>3. Cardinality(OfTransaction(E, t) \cup {e}) = Cardinality(OfTransaction(E, t)) + 1
        BY <2>2, OfTransactionType, FS_AddElement
  <2> QED BY <1>1, <1>2, <2>1, <2>3
<1>3. CASE e.run.transaction # t
  <2>1. OfTransaction(E \cup {e}, t) = OfTransaction(E, t)
        BY <1>3 DEF OfTransaction
  <2> QED BY <1>1, <1>3, <2>1, OfTransactionType
<1> QED BY <1>2, <1>3

LEMMA OneLess ==
    ASSUME NEW E, IsFiniteSet(E), NEW e \in E, NEW t
    PROVE  /\ IsFiniteSet(E \ {e})
           /\ Cardinality(OfTransaction(E, t)) =
                Cardinality(OfTransaction(E \ {e}, t)) + (IF e.run.transaction = t THEN 1 ELSE 0)
<1>1. IsFiniteSet(E \ {e})
      BY FS_RemoveElement
<1>3. CASE e.run.transaction = t
  <2>1. OfTransaction(E \ {e}, t) = OfTransaction(E, t) \ {e}
        BY <1>3 DEF OfTransaction
  <2>2. e \in OfTransaction(E, t)
        BY <1>3 DEF OfTransaction
  <2>3. Cardinality(OfTransaction(E, t) \ {e}) = Cardinality(OfTransaction(E, t)) - 1
        BY <2>2, OfTransactionType, FS_RemoveElement
  <2>4. Cardinality(OfTransaction(E, t)) \in Nat
        BY OfTransactionType
  <2>5. Cardinality(OfTransaction(E \ {e}, t)) = Cardinality(OfTransaction(E, t)) - 1
        BY <2>1, <2>3, Zenon
  <2> QED BY <1>1, <1>3, <2>4, <2>5
<1>4. CASE e.run.transaction # t
  <2>1. OfTransaction(E \ {e}, t) = OfTransaction(E, t)
        BY <1>4 DEF OfTransaction
  <2> QED BY <1>1, <1>4, <2>1, OfTransactionType
<1> QED BY <1>3, <1>4

\* One that goes on is still one.
LEMMA OneGoesOn ==
    ASSUME NEW E, NEW e \in E, NEW d, NEW t, IsFiniteSet(E), d.run = e.run,
           Cardinality(OfTransaction(E, t)) <= 1
    PROVE  Cardinality(OfTransaction((E \ {e}) \cup {d}, t)) = Cardinality(OfTransaction(E, t))
<1> DEFINE F == E \ {e}
<1>1. /\ IsFiniteSet(F)
      /\ Cardinality(OfTransaction(E, t)) =
           Cardinality(OfTransaction(F, t)) + (IF e.run.transaction = t THEN 1 ELSE 0)
      BY OneLess
<1> HIDE DEF F
<1>2. /\ Cardinality(OfTransaction(F, t)) \in Nat
      /\ Cardinality(OfTransaction(F, t)) = 0 <=> \A c \in F : c.run.transaction # t
      BY <1>1, OfTransactionType
<1>3. d.run.transaction = t => \A c \in F : c.run.transaction # t
      BY <1>1, <1>2
<1>4. /\ IsFiniteSet(F \cup {d})
      /\ Cardinality(OfTransaction(F \cup {d}, t)) =
           Cardinality(OfTransaction(F, t)) + (IF d.run.transaction = t THEN 1 ELSE 0)
      BY <1>1, <1>3, OneMore, SMTT(30)
<1> QED BY <1>1, <1>4 DEF F

LEMMA ImageIsFinite ==
    ASSUME NEW E, IsFiniteSet(E), NEW f, DOMAIN f = E
    PROVE  IsFiniteSet({f[e] : e \in E})
<1> DEFINE F == {f[e] : e \in E}
<1>1. [e \in E |-> f[e]] \in Surjection(E, F)
      BY DEF Surjection
<1> HIDE DEF F
<1>2. IsFiniteSet(F)
      BY <1>1, FS_Surjection
<1> QED BY <1>2 DEF F

\* The same for those that f takes on.
LEMMA AllGoOn ==
    ASSUME NEW E, NEW f, NEW t, IsFiniteSet(E), DOMAIN f = E, \A e \in E : f[e].run = e.run,
           Cardinality(OfTransaction(E, t)) <= 1
    PROVE  LET F == {f[e] : e \in E}
           IN  /\ IsFiniteSet(F)
               /\ Cardinality(OfTransaction(F, t)) = Cardinality(OfTransaction(E, t))
<1> DEFINE F == {f[e] : e \in E}
<1>1. IsFiniteSet(F)
      BY ImageIsFinite
<1>2. Cardinality(OfTransaction(E, t)) \in {0, 1}
      BY OfTransactionType
<1>5. SUFFICES Cardinality(OfTransaction(F, t)) = Cardinality(OfTransaction(E, t))
      BY <1>1
<1>3. CASE Cardinality(OfTransaction(E, t)) = 0
  <2>1. \A e \in E : e.run.transaction # t
        BY <1>3, OfTransactionType
  <2>2. \A d \in F : d.run.transaction # t
        BY <2>1
  <2> HIDE DEF F
  <2> QED BY <1>1, <1>3, <2>2, OfTransactionType
<1>4. CASE Cardinality(OfTransaction(E, t)) = 1
  <2>1. PICK e : OfTransaction(E, t) = {e}
        BY <1>4, OfTransactionType, FS_Singleton
  <2>2. e \in E /\ e.run.transaction = t /\ \A d \in E : d.run.transaction = t => d = e
        BY <2>1 DEF OfTransaction
  <2>3. OfTransaction(F, t) = {f[e]}
        BY <2>2 DEF OfTransaction
  <2> HIDE DEF F
  <2> QED BY <1>1, <1>4, <2>3, FS_Singleton
<1> QED BY <1>1, <1>2, <1>3, <1>4

-----------------------------------------------------------------------------
(* What a worker holds. Whatever it does moves a run it was given, from i, its inbox, to
   a, awaitingExecution, to e, the runs under way, and to o, the core's inbox: none is
   dropped, and none becomes two. *)

LEMMA ToSetAppend ==
    ASSUME NEW X, NEW q \in Seq(X), NEW x \in X
    PROVE  ToSet(Append(q, x)) = ToSet(q) \cup {x}
<1> DEFINE r == Append(q, x)
           n == Len(q) + 1
<1>1. DOMAIN q = 1 .. Len(q) /\ Len(q) \in Nat
      BY LenProperties
<1>2. /\ r \in Seq(X) /\ Len(r) = n
      /\ \A i \in 1 .. Len(q) : r[i] = q[i]
      /\ r[n] = x
      BY AppendProperties
<1>3. DOMAIN r = 1 .. n
      BY <1>2, LenProperties
<1> HIDE DEF r
<1>4. DOMAIN r = DOMAIN q \cup {n}
      BY <1>1, <1>3
<1> HIDE DEF n
<1>5. \A i \in DOMAIN q : r[i] = q[i]
      BY <1>1, <1>2
<1>6. ToSet(r) = ToSet(q) \cup {x}
      BY <1>2, <1>4, <1>5 DEF ToSet
<1> QED BY <1>6 DEF r

LEMMA ToSetTail ==
    ASSUME NEW X, NEW q \in Seq(X), q # <<>>
    PROVE  ToSet(q) = {Head(q)} \cup ToSet(Tail(q)) /\ Head(q) \in X /\ Tail(q) \in Seq(X)
<1> DEFINE r == Tail(q)
<1>1. DOMAIN q = 1 .. Len(q) /\ Len(q) \in Nat /\ Len(q) # 0
      BY LenProperties, EmptySeq
<1>2. /\ r \in Seq(X) /\ Len(r) = Len(q) - 1 /\ Head(q) \in X
      /\ \A i \in 1 .. Len(r) : r[i] = q[i + 1]
      BY HeadTailProperties
<1>3. DOMAIN r = 1 .. Len(r)
      BY <1>2, LenProperties
<1>4. Head(q) = q[1]
      OBVIOUS
<1> HIDE DEF r
<1>5. \A i \in DOMAIN q : i = 1 \/ (i - 1 \in DOMAIN r /\ r[i - 1] = q[i])
      BY <1>1, <1>2, <1>3
<1>6. \A i \in DOMAIN r : i + 1 \in DOMAIN q /\ r[i] = q[i + 1]
      BY <1>1, <1>2, <1>3
<1>7. 1 \in DOMAIN q
      BY <1>1
<1>8. ToSet(q) \subseteq {Head(q)} \cup ToSet(r)
      BY <1>4, <1>5 DEF ToSet
<1>9. {Head(q)} \cup ToSet(r) \subseteq ToSet(q)
      BY <1>4, <1>6, <1>7 DEF ToSet
<1> QED BY <1>2, <1>8, <1>9 DEF r

LEMMA ToSetConcat ==
    ASSUME NEW X, NEW q \in Seq(X), NEW s \in Seq(X)
    PROVE  ToSet(q \o s) \subseteq ToSet(q) \cup ToSet(s)
<1> DEFINE r == q \o s
<1>1. DOMAIN q = 1 .. Len(q) /\ Len(q) \in Nat /\ DOMAIN s = 1 .. Len(s) /\ Len(s) \in Nat
      BY LenProperties
<1>2. /\ r \in Seq(X) /\ Len(r) = Len(q) + Len(s)
      /\ \A i \in 1 .. Len(q) + Len(s) : r[i] = IF i <= Len(q) THEN q[i] ELSE s[i - Len(q)]
      BY ConcatProperties
<1>3. DOMAIN r = 1 .. Len(q) + Len(s)
      BY <1>2, LenProperties
<1> HIDE DEF r
<1>4. \A i \in DOMAIN r :
        (i \in DOMAIN q /\ r[i] = q[i]) \/ (i - Len(q) \in DOMAIN s /\ r[i] = s[i - Len(q)])
  <2> TAKE i \in DOMAIN r
  <2>1. CASE i <= Len(q)
        BY <1>1, <1>2, <1>3, <2>1
  <2>2. CASE ~(i <= Len(q))
        BY <1>1, <1>2, <1>3, <2>2
  <2> QED BY <2>1, <2>2
<1> QED BY <1>4 DEF ToSet, r

LEMMA ToSetType ==
    ASSUME NEW X, NEW q \in Seq(X)
    PROVE  ToSet(q) \subseteq X
BY LenProperties, ElementOfSeq DEF ToSet

\* A question is not a result.
LEMMA Messages ==
    /\ \A m \in Question : m \notin Result /\ \A t : m \notin ResultsOf(t)
    /\ \A r \in Run : [type |-> "result", run |-> r] \in Result
    /\ \A r \in Run, t \in Transactions :
         [type |-> "result", run |-> r] \in ResultsOf(t) <=> r.transaction = t
BY DEF Question, Result, ResultsOf

HeldType(i, a, e, o) ==
    /\ i \in Seq(Run) /\ a \in Seq(Run) /\ o \in Seq(Result \cup Question)
    /\ IsFiniteSet(e) /\ \A x \in e : x.run \in Run

\* How many runs a worker holds for t is a number.
LEMMA NumberHeldType ==
    ASSUME NEW i, NEW a, NEW e, NEW o, HeldType(i, a, e, o), NEW t \in Transactions
    PROVE  /\ Number(i, RunsOf(t)) \in Nat /\ Number(a, RunsOf(t)) \in Nat
           /\ Cardinality(OfTransaction(e, t)) \in Nat /\ Number(o, ResultsOf(t)) \in Nat
           /\ NumberHeld(t, i, a, e, o) = Number(i, RunsOf(t)) + Number(a, RunsOf(t))
                + Cardinality(OfTransaction(e, t)) + Number(o, ResultsOf(t))
           /\ NumberHeld(t, i, a, e, o) \in Nat
<1>1. /\ Number(i, RunsOf(t)) \in Nat /\ Number(a, RunsOf(t)) \in Nat
      /\ Cardinality(OfTransaction(e, t)) \in Nat /\ Number(o, ResultsOf(t)) \in Nat
      BY NumberType, OfTransactionType DEF HeldType
<1>2. NumberHeld(t, i, a, e, o) = Number(i, RunsOf(t)) + Number(a, RunsOf(t))
        + Cardinality(OfTransaction(e, t)) + Number(o, ResultsOf(t))
      BY DEF NumberHeld, OfTransaction
<1> QED BY <1>1, <1>2

\* From (i, a, e, o) to (i2, a2, e2, o2).
Keeps(i, a, e, o, i2, a2, e2, o2) ==
    /\ HeldType(i2, a2, e2, o2)
    /\ HeldRuns(i2, a2, e2, o2) \subseteq HeldRuns(i, a, e, o)
    /\ \A t \in Transactions :
         NumberHeld(t, i, a, e, o) <= 1 =>
            NumberHeld(t, i2, a2, e2, o2) = NumberHeld(t, i, a, e, o)

\* Two steps that keep the runs are one.
LEMMA KeepsTransitive ==
    ASSUME NEW i, NEW a, NEW e, NEW o, NEW i2, NEW a2, NEW e2, NEW o2, NEW i3, NEW a3, NEW e3, NEW o3,
           Keeps(i, a, e, o, i2, a2, e2, o2), Keeps(i2, a2, e2, o2, i3, a3, e3, o3)
    PROVE  Keeps(i, a, e, o, i3, a3, e3, o3)
BY DEF Keeps

\* The first run of a queue.
LEMMA FirstRun ==
    ASSUME NEW q \in Seq(Run), q # <<>>
    PROVE  /\ Head(q) \in Run /\ Tail(q) \in Seq(Run) /\ ToSet(q) = {Head(q)} \cup ToSet(Tail(q))
           /\ \A t \in Transactions : Number(q, RunsOf(t)) =
                Number(Tail(q), RunsOf(t)) + (IF Head(q).transaction = t THEN 1 ELSE 0)
<1>1. Head(q) \in Run /\ Tail(q) \in Seq(Run) /\ ToSet(q) = {Head(q)} \cup ToSet(Tail(q))
      BY ToSetTail
<1>2. \A t \in Transactions : Number(q, RunsOf(t)) =
        Number(Tail(q), RunsOf(t)) + (IF Head(q) \in RunsOf(t) THEN 1 ELSE 0)
      BY NumberTail
<1>3. \A t \in Transactions : Head(q) \in RunsOf(t) <=> Head(q).transaction = t
      BY <1>1 DEF RunsOf
<1> QED BY <1>1, <1>2, <1>3

LEMMA LastRun ==
    ASSUME NEW q \in Seq(Run), NEW r \in Run
    PROVE  /\ Append(q, r) \in Seq(Run) /\ ToSet(Append(q, r)) = ToSet(q) \cup {r}
           /\ \A t \in Transactions : Number(Append(q, r), RunsOf(t)) =
                Number(q, RunsOf(t)) + (IF r.transaction = t THEN 1 ELSE 0)
<1>1. \A t \in Transactions : r \in RunsOf(t) <=> r.transaction = t
      BY DEF RunsOf
<1> QED BY <1>1, AppendProperties, ToSetAppend, NumberAppend

\* A run of the inbox starts,
LEMMA InboxStarts ==
    ASSUME NEW i, NEW a, NEW e, NEW o, HeldType(i, a, e, o),
           NEW x, i # <<>>, x.run = Head(i)
    PROVE  Keeps(i, a, e, o, Tail(i), a, e \cup {x}, o)
<1> DEFINE r == Head(i)
           q == Tail(i)
           f == e \cup {x}
<1>1. /\ r \in Run /\ q \in Seq(Run) /\ ToSet(i) = {r} \cup ToSet(q)
      /\ \A t \in Transactions : Number(i, RunsOf(t)) =
           Number(q, RunsOf(t)) + (IF r.transaction = t THEN 1 ELSE 0)
      BY FirstRun DEF HeldType
<1>2. x.run = r
      OBVIOUS
<1> HIDE DEF r, q
<1>3. HeldType(q, a, f, o)
      BY <1>1, <1>2, FS_AddElement DEF HeldType
<1>4. HeldRuns(q, a, f, o) \subseteq HeldRuns(i, a, e, o)
      BY <1>1, <1>2 DEF HeldRuns
<1>5. ASSUME NEW t \in Transactions, NumberHeld(t, i, a, e, o) <= 1
      PROVE  NumberHeld(t, q, a, f, o) = NumberHeld(t, i, a, e, o)
  <2>1. /\ Number(i, RunsOf(t)) \in Nat /\ Number(a, RunsOf(t)) \in Nat
        /\ Cardinality(OfTransaction(e, t)) \in Nat /\ Number(o, ResultsOf(t)) \in Nat
        /\ NumberHeld(t, i, a, e, o) = Number(i, RunsOf(t)) + Number(a, RunsOf(t))
             + Cardinality(OfTransaction(e, t)) + Number(o, ResultsOf(t))
        BY NumberHeldType
  <2>2. /\ Number(q, RunsOf(t)) \in Nat
        /\ NumberHeld(t, q, a, f, o) = Number(q, RunsOf(t)) + Number(a, RunsOf(t))
             + Cardinality(OfTransaction(f, t)) + Number(o, ResultsOf(t))
        BY <1>3, NumberHeldType
  <2>3. r.transaction = t => Cardinality(OfTransaction(e, t)) = 0
        BY <1>1, <1>5, <2>1, <2>2
  <2>4. x.run.transaction = t => \A y \in e : y.run.transaction # t
        BY <1>2, <2>3, OfTransactionType DEF HeldType
  <2>5. Cardinality(OfTransaction(f, t)) =
          Cardinality(OfTransaction(e, t)) + (IF r.transaction = t THEN 1 ELSE 0)
        BY <1>2, <2>4, OneMore DEF HeldType
  <2> HIDE DEF f
  <2> QED BY <1>1, <2>1, <2>2, <2>5
<1> HIDE DEF f
<1>6. Keeps(i, a, e, o, q, a, f, o)
      BY <1>3, <1>4, <1>5 DEF Keeps
<1> QED BY <1>6 DEF q, f
\* and so does one that has waited.
LEMMA AwaitingStarts ==
    ASSUME NEW i, NEW a, NEW e, NEW o, HeldType(i, a, e, o),
           NEW x, a # <<>>, x.run = Head(a)
    PROVE  Keeps(i, a, e, o, i, Tail(a), e \cup {x}, o)
<1> DEFINE r == Head(a)
           q == Tail(a)
           f == e \cup {x}
<1>1. /\ r \in Run /\ q \in Seq(Run) /\ ToSet(a) = {r} \cup ToSet(q)
      /\ \A t \in Transactions : Number(a, RunsOf(t)) =
           Number(q, RunsOf(t)) + (IF r.transaction = t THEN 1 ELSE 0)
      BY FirstRun DEF HeldType
<1>2. x.run = r
      OBVIOUS
<1> HIDE DEF r, q
<1>3. HeldType(i, q, f, o)
      BY <1>1, <1>2, FS_AddElement DEF HeldType
<1>4. HeldRuns(i, q, f, o) \subseteq HeldRuns(i, a, e, o)
      BY <1>1, <1>2 DEF HeldRuns
<1>5. ASSUME NEW t \in Transactions, NumberHeld(t, i, a, e, o) <= 1
      PROVE  NumberHeld(t, i, q, f, o) = NumberHeld(t, i, a, e, o)
  <2>1. /\ Number(i, RunsOf(t)) \in Nat /\ Number(a, RunsOf(t)) \in Nat
        /\ Cardinality(OfTransaction(e, t)) \in Nat /\ Number(o, ResultsOf(t)) \in Nat
        /\ NumberHeld(t, i, a, e, o) = Number(i, RunsOf(t)) + Number(a, RunsOf(t))
             + Cardinality(OfTransaction(e, t)) + Number(o, ResultsOf(t))
        BY NumberHeldType
  <2>2. /\ Number(q, RunsOf(t)) \in Nat
        /\ NumberHeld(t, i, q, f, o) = Number(i, RunsOf(t)) + Number(q, RunsOf(t))
             + Cardinality(OfTransaction(f, t)) + Number(o, ResultsOf(t))
        BY <1>3, NumberHeldType
  <2>3. r.transaction = t => Cardinality(OfTransaction(e, t)) = 0
        BY <1>1, <1>5, <2>1, <2>2
  <2>4. x.run.transaction = t => \A y \in e : y.run.transaction # t
        BY <1>2, <2>3, OfTransactionType DEF HeldType
  <2>5. Cardinality(OfTransaction(f, t)) =
          Cardinality(OfTransaction(e, t)) + (IF r.transaction = t THEN 1 ELSE 0)
        BY <1>2, <2>4, OneMore DEF HeldType
  <2> HIDE DEF f
  <2> QED BY <1>1, <2>1, <2>2, <2>5
<1> HIDE DEF f
<1>6. Keeps(i, a, e, o, i, q, f, o)
      BY <1>3, <1>4, <1>5 DEF Keeps
<1> QED BY <1>6 DEF q, f
\* A run of the inbox has to wait.
LEMMA InboxWaits ==
    ASSUME NEW i, NEW a, NEW e, NEW o, HeldType(i, a, e, o), i # <<>>
    PROVE  Keeps(i, a, e, o, Tail(i), Append(a, Head(i)), e, o)
<1> DEFINE r == Head(i)
           q == Tail(i)
           b == Append(a, r)
<1>1. /\ r \in Run /\ q \in Seq(Run) /\ ToSet(i) = {r} \cup ToSet(q)
      /\ \A t \in Transactions : Number(i, RunsOf(t)) =
           Number(q, RunsOf(t)) + (IF r.transaction = t THEN 1 ELSE 0)
      BY FirstRun DEF HeldType
<1> HIDE DEF r, q
<1>2. /\ b \in Seq(Run) /\ ToSet(b) = ToSet(a) \cup {r}
      /\ \A t \in Transactions : Number(b, RunsOf(t)) =
           Number(a, RunsOf(t)) + (IF r.transaction = t THEN 1 ELSE 0)
      BY <1>1, LastRun DEF HeldType
<1> HIDE DEF b
<1>3. HeldType(q, b, e, o)
      BY <1>1, <1>2 DEF HeldType
<1>4. HeldRuns(q, b, e, o) \subseteq HeldRuns(i, a, e, o)
      BY <1>1, <1>2 DEF HeldRuns
<1>5. ASSUME NEW t \in Transactions
      PROVE  NumberHeld(t, q, b, e, o) = NumberHeld(t, i, a, e, o)
  <2>1. /\ Number(i, RunsOf(t)) \in Nat /\ Number(a, RunsOf(t)) \in Nat
        /\ Cardinality(OfTransaction(e, t)) \in Nat /\ Number(o, ResultsOf(t)) \in Nat
        /\ NumberHeld(t, i, a, e, o) = Number(i, RunsOf(t)) + Number(a, RunsOf(t))
             + Cardinality(OfTransaction(e, t)) + Number(o, ResultsOf(t))
        BY NumberHeldType
  <2>2. /\ Number(q, RunsOf(t)) \in Nat /\ Number(b, RunsOf(t)) \in Nat
        /\ Cardinality(OfTransaction(e, t)) \in Nat /\ Number(o, ResultsOf(t)) \in Nat
        /\ NumberHeld(t, q, b, e, o) = Number(q, RunsOf(t)) + Number(b, RunsOf(t))
             + Cardinality(OfTransaction(e, t)) + Number(o, ResultsOf(t))
        BY <1>3, NumberHeldType
  <2>3. Number(i, RunsOf(t)) = Number(q, RunsOf(t)) + (IF r.transaction = t THEN 1 ELSE 0)
        BY <1>1
  <2>4. Number(b, RunsOf(t)) = Number(a, RunsOf(t)) + (IF r.transaction = t THEN 1 ELSE 0)
        BY <1>2
  <2> QED BY <2>1, <2>2, <2>3, <2>4
<1>6. Keeps(i, a, e, o, q, b, e, o)
      BY <1>3, <1>4, <1>5 DEF Keeps
<1> QED BY <1>6 DEF r, q, b

\* One that has waited is put back.
LEMMA AwaitingWaits ==
    ASSUME NEW i, NEW a, NEW e, NEW o, HeldType(i, a, e, o), a # <<>>
    PROVE  Keeps(i, a, e, o, i, Append(Tail(a), Head(a)), e, o)
<1> DEFINE r == Head(a)
           q == Tail(a)
           b == Append(q, r)
<1>1. /\ r \in Run /\ q \in Seq(Run) /\ ToSet(a) = {r} \cup ToSet(q)
      /\ \A t \in Transactions : Number(a, RunsOf(t)) =
           Number(q, RunsOf(t)) + (IF r.transaction = t THEN 1 ELSE 0)
      BY FirstRun DEF HeldType
<1> HIDE DEF r, q
<1>2. /\ b \in Seq(Run) /\ ToSet(b) = ToSet(q) \cup {r}
      /\ \A t \in Transactions : Number(b, RunsOf(t)) =
           Number(q, RunsOf(t)) + (IF r.transaction = t THEN 1 ELSE 0)
      BY <1>1, LastRun DEF HeldType
<1> HIDE DEF b
<1>3. HeldType(i, b, e, o)
      BY <1>2 DEF HeldType
<1>4. HeldRuns(i, b, e, o) \subseteq HeldRuns(i, a, e, o)
      BY <1>1, <1>2 DEF HeldRuns
<1>5. ASSUME NEW t \in Transactions
      PROVE  NumberHeld(t, i, b, e, o) = NumberHeld(t, i, a, e, o)
  <2>1. /\ Number(i, RunsOf(t)) \in Nat /\ Number(a, RunsOf(t)) \in Nat
        /\ Cardinality(OfTransaction(e, t)) \in Nat /\ Number(o, ResultsOf(t)) \in Nat
        /\ NumberHeld(t, i, a, e, o) = Number(i, RunsOf(t)) + Number(a, RunsOf(t))
             + Cardinality(OfTransaction(e, t)) + Number(o, ResultsOf(t))
        BY NumberHeldType
  <2>2. /\ Number(i, RunsOf(t)) \in Nat /\ Number(b, RunsOf(t)) \in Nat
        /\ Cardinality(OfTransaction(e, t)) \in Nat /\ Number(o, ResultsOf(t)) \in Nat
        /\ NumberHeld(t, i, b, e, o) = Number(i, RunsOf(t)) + Number(b, RunsOf(t))
             + Cardinality(OfTransaction(e, t)) + Number(o, ResultsOf(t))
        BY <1>3, NumberHeldType
  <2>3. Number(q, RunsOf(t)) \in Nat
        BY <1>1, NumberType
  <2> QED BY <1>1, <1>2, <2>1, <2>2, <2>3
<1>6. Keeps(i, a, e, o, i, b, e, o)
      BY <1>3, <1>4, <1>5 DEF Keeps
<1> QED BY <1>6 DEF r, q, b

\* A run under way goes on.
LEMMA ExecutionGoesOn ==
    ASSUME NEW i, NEW a, NEW e, NEW o, NEW x \in e, NEW y, HeldType(i, a, e, o), y.run = x.run
    PROVE  Keeps(i, a, e, o, i, a, (e \ {x}) \cup {y}, o)
<1> DEFINE f == (e \ {x}) \cup {y}
<1>1. HeldType(i, a, f, o)
      BY FS_RemoveElement, FS_AddElement DEF HeldType
<1>2. HeldRuns(i, a, f, o) \subseteq HeldRuns(i, a, e, o)
      BY DEF HeldRuns
<1>3. ASSUME NEW t \in Transactions, NumberHeld(t, i, a, e, o) <= 1
      PROVE  NumberHeld(t, i, a, f, o) = NumberHeld(t, i, a, e, o)
  <2>1. Cardinality(OfTransaction(e, t)) <= 1
        BY <1>3, NumberHeldType
  <2>2. Cardinality(OfTransaction(f, t)) = Cardinality(OfTransaction(e, t))
        BY <2>1, OneGoesOn DEF HeldType
  <2> HIDE DEF f
  <2> QED BY <1>1, <2>2, NumberHeldType
<1> HIDE DEF f
<1>4. Keeps(i, a, e, o, i, a, f, o)
      BY <1>1, <1>2, <1>3 DEF Keeps
<1> QED BY <1>4 DEF f

\* Those that f takes on go on.
LEMMA ExecutionsGoOn ==
    ASSUME NEW i, NEW a, NEW e, NEW o, NEW f, HeldType(i, a, e, o),
           DOMAIN f = e, \A x \in e : f[x].run = x.run
    PROVE  Keeps(i, a, e, o, i, a, {f[x] : x \in e}, o)
<1> DEFINE g == {f[x] : x \in e}
<1>1. IsFiniteSet(g)
      BY ImageIsFinite DEF HeldType
<1>2. HeldType(i, a, g, o)
      BY <1>1 DEF HeldType
<1>3. HeldRuns(i, a, g, o) \subseteq HeldRuns(i, a, e, o)
      BY DEF HeldRuns
<1>4. ASSUME NEW t \in Transactions, NumberHeld(t, i, a, e, o) <= 1
      PROVE  NumberHeld(t, i, a, g, o) = NumberHeld(t, i, a, e, o)
  <2>1. Cardinality(OfTransaction(e, t)) <= 1
        BY <1>4, NumberHeldType
  <2>2. Cardinality(OfTransaction(g, t)) = Cardinality(OfTransaction(e, t))
        BY <2>1, AllGoOn DEF HeldType
  <2> HIDE DEF g
  <2> QED BY <1>2, <2>2, NumberHeldType
<1> HIDE DEF g
<1>5. Keeps(i, a, e, o, i, a, g, o)
      BY <1>2, <1>3, <1>4 DEF Keeps
<1> QED BY <1>5 DEF g

\* A run ends with a result.
LEMMA ExecutionEnds ==
    ASSUME NEW i, NEW a, NEW e, NEW o, NEW x \in e, HeldType(i, a, e, o)
    PROVE  Keeps(i, a, e, o, i, a, e \ {x}, Append(o, [type |-> "result", run |-> x.run]))
<1> DEFINE m == [type |-> "result", run |-> x.run]
           f == e \ {x}
           p == Append(o, m)
<1>1. /\ m \in Result \cup Question /\ m.run = x.run
      /\ \A t \in Transactions : m \in ResultsOf(t) <=> x.run.transaction = t
      BY Messages DEF HeldType
<1> HIDE DEF m
<1>2. /\ p \in Seq(Result \cup Question) /\ ToSet(p) = ToSet(o) \cup {m}
      /\ \A t \in Transactions : Number(p, ResultsOf(t)) =
           Number(o, ResultsOf(t)) + (IF m \in ResultsOf(t) THEN 1 ELSE 0)
      BY <1>1, AppendProperties, ToSetAppend, NumberAppend DEF HeldType
<1> HIDE DEF p
<1>3. IsFiniteSet(f) /\ \A t \in Transactions : Cardinality(OfTransaction(e, t)) =
        Cardinality(OfTransaction(f, t)) + (IF x.run.transaction = t THEN 1 ELSE 0)
      BY OneLess DEF HeldType
<1>4. HeldType(i, a, f, p)
      BY <1>2, <1>3 DEF HeldType
<1>5. HeldRuns(i, a, f, p) \subseteq HeldRuns(i, a, e, o)
      BY <1>1, <1>2 DEF HeldRuns
<1> HIDE DEF f
<1>6. ASSUME NEW t \in Transactions
      PROVE  NumberHeld(t, i, a, f, p) = NumberHeld(t, i, a, e, o)
  <2>1. /\ Number(i, RunsOf(t)) \in Nat /\ Number(a, RunsOf(t)) \in Nat
        /\ Cardinality(OfTransaction(e, t)) \in Nat /\ Number(o, ResultsOf(t)) \in Nat
        /\ NumberHeld(t, i, a, e, o) = Number(i, RunsOf(t)) + Number(a, RunsOf(t))
             + Cardinality(OfTransaction(e, t)) + Number(o, ResultsOf(t))
        BY NumberHeldType
  <2>2. /\ Number(i, RunsOf(t)) \in Nat /\ Number(a, RunsOf(t)) \in Nat
        /\ Cardinality(OfTransaction(f, t)) \in Nat /\ Number(p, ResultsOf(t)) \in Nat
        /\ NumberHeld(t, i, a, f, p) = Number(i, RunsOf(t)) + Number(a, RunsOf(t))
             + Cardinality(OfTransaction(f, t)) + Number(p, ResultsOf(t))
        BY <1>4, NumberHeldType
  <2>3. Number(p, ResultsOf(t)) =
          Number(o, ResultsOf(t)) + (IF x.run.transaction = t THEN 1 ELSE 0)
        BY <1>1, <1>2
  <2>4. Cardinality(OfTransaction(e, t)) =
          Cardinality(OfTransaction(f, t)) + (IF x.run.transaction = t THEN 1 ELSE 0)
        BY <1>3
  <2> QED BY <2>1, <2>2, <2>3, <2>4
<1>7. Keeps(i, a, e, o, i, a, f, p)
      BY <1>4, <1>5, <1>6 DEF Keeps
<1> QED BY <1>7 DEF m, f, p

\* A question is posted,
LEMMA QuestionPosted ==
    ASSUME NEW i, NEW a, NEW e, NEW o, NEW m \in Question, HeldType(i, a, e, o)
    PROVE  Keeps(i, a, e, o, i, a, e, Append(o, m))
<1> DEFINE p == Append(o, m)
<1>1. m \in Result \cup Question /\ m \notin Result /\ \A t : m \notin ResultsOf(t)
      BY Messages
<1>2. /\ p \in Seq(Result \cup Question) /\ ToSet(p) = ToSet(o) \cup {m}
      /\ \A t \in Transactions : Number(p, ResultsOf(t)) =
           Number(o, ResultsOf(t)) + (IF m \in ResultsOf(t) THEN 1 ELSE 0)
      BY <1>1, AppendProperties, ToSetAppend, NumberAppend DEF HeldType
<1> HIDE DEF p
<1>3. HeldType(i, a, e, p)
      BY <1>2 DEF HeldType
<1>4. HeldRuns(i, a, e, p) \subseteq HeldRuns(i, a, e, o)
      BY <1>1, <1>2 DEF HeldRuns
<1>5. ASSUME NEW t \in Transactions
      PROVE  NumberHeld(t, i, a, e, p) = NumberHeld(t, i, a, e, o)
      BY <1>1, <1>2, <1>3, NumberHeldType
<1>6. Keeps(i, a, e, o, i, a, e, p)
      BY <1>3, <1>4, <1>5 DEF Keeps
<1> QED BY <1>6 DEF p

\* and handled.
LEMMA QuestionHandled ==
    ASSUME NEW i, NEW a, NEW e, NEW o, HeldType(i, a, e, o), o # <<>>, Head(o).type = "cells"
    PROVE  Keeps(i, a, e, o, i, a, e, Tail(o))
<1> DEFINE p == Tail(o)
<1>1. /\ p \in Seq(Result \cup Question) /\ ToSet(p) \subseteq ToSet(o)
      /\ \A t \in Transactions : Number(o, ResultsOf(t)) =
           Number(p, ResultsOf(t)) + (IF Head(o) \in ResultsOf(t) THEN 1 ELSE 0)
      BY ToSetTail, NumberTail DEF HeldType
<1>2. \A t \in Transactions : Head(o) \notin ResultsOf(t)
      BY DEF ResultsOf, Result
<1> HIDE DEF p
<1>3. HeldType(i, a, e, p)
      BY <1>1 DEF HeldType
<1>4. HeldRuns(i, a, e, p) \subseteq HeldRuns(i, a, e, o)
      BY <1>1 DEF HeldRuns
<1>5. ASSUME NEW t \in Transactions
      PROVE  NumberHeld(t, i, a, e, p) = NumberHeld(t, i, a, e, o)
      BY <1>1, <1>2, <1>3, NumberHeldType
<1>6. Keeps(i, a, e, o, i, a, e, p)
      BY <1>3, <1>4, <1>5 DEF Keeps
<1> QED BY <1>6 DEF p

LEMMA KeepsAll ==
    ASSUME NEW i, NEW a, NEW e, NEW o, HeldType(i, a, e, o)
    PROVE  Keeps(i, a, e, o, i, a, e, o)
BY DEF Keeps

-----------------------------------------------------------------------------
(* The Python worker *)

PyGood ==
    /\ PyTypeOK
    /\ IsFiniteSet(pyExecuting)
    /\ pyState = "loading" => pyExecuting = {}

PyKeeps == Keeps(pyInbox, pyAwaiting, pyExecuting, pyOutbox,
                 pyInbox', pyAwaiting', pyExecuting', pyOutbox')

LEMMA PyHeldType ==
    ASSUME PyGood
    PROVE  HeldType(pyInbox, pyAwaiting, pyExecuting, pyOutbox)
BY DEF PyGood, PyTypeOK, HeldType, PyExecution

LEMMA PyStarted ==
    ASSUME NEW run \in Run
    PROVE  LET e == [run |-> run, phase |-> "started"]
           IN  e \in PyExecution /\ e.run = run /\ run.transaction \in Transactions
BY DEF PyExecution, Run

LEMMA PyReceiveKeeps ==
    ASSUME PyGood, PyReceive
    PROVE  PyGood' /\ PyKeeps
<1> DEFINE run == Head(pyInbox)
           x == [run |-> run, phase |-> "started"]
<1>1. /\ pyInbox # <<>> /\ pyInbox' = Tail(pyInbox) /\ RunPython(run, pyAwaiting)
      /\ UNCHANGED <<pyOutbox, pyState, pyNexts>>
      BY DEF PyReceive
<1>2. /\ pyInbox \in Seq(Run) /\ pyAwaiting \in Seq(Run)
      /\ HeldType(pyInbox, pyAwaiting, pyExecuting, pyOutbox)
      BY PyHeldType DEF PyGood, PyTypeOK
<1>3. run \in Run /\ Tail(pyInbox) \in Seq(Run)
      BY <1>1, <1>2, FirstRun
<1>4. x \in PyExecution /\ x.run = run /\ run.transaction \in Transactions
      BY <1>3, PyStarted
<1>5. CASE pyState = "ready" /\ pyTransactionId = None
  <2>1. /\ pyTransactionId' = run.transaction /\ pyExecuting' = pyExecuting \cup {x}
        /\ pyAwaiting' = pyAwaiting
        BY <1>1, <1>5 DEF RunPython
  <2> HIDE DEF x
  <2>2. Keeps(pyInbox, pyAwaiting, pyExecuting, pyOutbox,
              Tail(pyInbox), pyAwaiting, pyExecuting \cup {x}, pyOutbox)
        BY <1>1, <1>2, <1>4, InboxStarts
  <2> HIDE DEF run
  <2>3. PyKeeps
        BY <1>1, <2>1, <2>2 DEF PyKeeps
  <2>4. IsFiniteSet(pyExecuting')
        BY <2>1, FS_AddElement DEF PyGood
  <2>5. PyGood'
        BY <1>1, <1>3, <1>4, <1>5, <2>1, <2>4 DEF PyGood, PyTypeOK
  <2> QED BY <2>3, <2>5
<1>6. CASE ~(pyState = "ready" /\ pyTransactionId = None)
  <2>1. /\ pyAwaiting' = Append(pyAwaiting, run)
        /\ UNCHANGED <<pyTransactionId, pyExecuting>>
        BY <1>1, <1>6 DEF RunPython
  <2>2. Keeps(pyInbox, pyAwaiting, pyExecuting, pyOutbox,
              Tail(pyInbox), Append(pyAwaiting, run), pyExecuting, pyOutbox)
        BY <1>1, <1>2, InboxWaits
  <2> HIDE DEF run
  <2>3. PyKeeps
        BY <1>1, <2>1, <2>2 DEF PyKeeps
  <2>4. pyAwaiting' \in Seq(Run)
        BY <1>2, <1>3, <2>1, AppendProperties
  <2>5. PyGood'
        BY <1>1, <1>3, <2>1, <2>4 DEF PyGood, PyTypeOK
  <2> QED BY <2>3, <2>5
<1> QED BY <1>5, <1>6

LEMMA PyNextKeeps ==
    ASSUME PyGood, PyNext
    PROVE  PyGood' /\ PyKeeps
<1> DEFINE run == Head(pyAwaiting)
           x == [run |-> run, phase |-> "started"]
<1>1. /\ pyNexts' \in Nat
      /\ UNCHANGED <<pyInbox, pyOutbox, pyState>>
      BY DEF PyNext, PyGood, PyTypeOK
<1>2. /\ pyInbox \in Seq(Run) /\ pyAwaiting \in Seq(Run)
      /\ HeldType(pyInbox, pyAwaiting, pyExecuting, pyOutbox)
      BY PyHeldType DEF PyGood, PyTypeOK
<1>3. CASE UNCHANGED <<pyTransactionId, pyAwaiting, pyExecuting>>
  <2>1. PyKeeps
        BY <1>1, <1>2, <1>3, KeepsAll DEF PyKeeps
  <2> QED BY <1>1, <1>3, <2>1 DEF PyGood, PyTypeOK
<1>4. CASE /\ pyState = "ready" /\ pyAwaiting # <<>> /\ pyTransactionId = None
           /\ RunPython(run, Tail(pyAwaiting))
  <2>1. /\ pyTransactionId' = run.transaction /\ pyExecuting' = pyExecuting \cup {x}
        /\ pyAwaiting' = Tail(pyAwaiting)
        BY <1>4 DEF RunPython
  <2>2. run \in Run /\ Tail(pyAwaiting) \in Seq(Run)
        BY <1>2, <1>4, FirstRun
  <2>3. x \in PyExecution /\ x.run = run /\ run.transaction \in Transactions
        BY <2>2, PyStarted
  <2> HIDE DEF x
  <2>4. Keeps(pyInbox, pyAwaiting, pyExecuting, pyOutbox,
              pyInbox, Tail(pyAwaiting), pyExecuting \cup {x}, pyOutbox)
        BY <1>2, <1>4, <2>3, AwaitingStarts
  <2> HIDE DEF run
  <2>5. PyKeeps
        BY <1>1, <2>1, <2>4 DEF PyKeeps
  <2>6. IsFiniteSet(pyExecuting')
        BY <2>1, FS_AddElement DEF PyGood
  <2>7. PyGood'
        BY <1>1, <1>4, <2>1, <2>2, <2>3, <2>6 DEF PyGood, PyTypeOK
  <2> QED BY <2>5, <2>7
<1>5. CASE /\ pyAwaiting # <<>>
           /\ pyAwaiting' = Append(Tail(pyAwaiting), Head(pyAwaiting))
           /\ pyTransactionId' = None
           /\ UNCHANGED pyExecuting
  <2>1. run \in Run /\ Tail(pyAwaiting) \in Seq(Run)
        BY <1>2, <1>5, FirstRun
  <2>2. Keeps(pyInbox, pyAwaiting, pyExecuting, pyOutbox,
              pyInbox, Append(Tail(pyAwaiting), Head(pyAwaiting)), pyExecuting, pyOutbox)
        BY <1>2, <1>5, AwaitingWaits
  <2>3. PyKeeps
        BY <1>1, <1>5, <2>2 DEF PyKeeps
  <2>4. pyAwaiting' \in Seq(Run)
        BY <1>5, <2>1, AppendProperties
  <2>5. PyGood'
        BY <1>1, <1>5, <2>4 DEF PyGood, PyTypeOK
  <2> QED BY <2>3, <2>5
<1> QED BY <1>3, <1>4, <1>5 DEF PyNext

LEMMA PyLoadedKeeps ==
    ASSUME PyGood, PyLoaded
    PROVE  PyGood' /\ PyKeeps
<1> DEFINE run == Head(pyAwaiting)
           x == [run |-> run, phase |-> "started"]
<1>1. pyExecuting = {} /\ pyState' = "ready" /\ UNCHANGED <<pyInbox, pyOutbox, pyNexts>>
      BY DEF PyGood, PyLoaded
<1>2. /\ pyInbox \in Seq(Run) /\ pyAwaiting \in Seq(Run)
      /\ HeldType(pyInbox, pyAwaiting, pyExecuting, pyOutbox)
      BY PyHeldType DEF PyGood, PyTypeOK
<1>3. CASE pyAwaiting = <<>>
  <2>1. pyTransactionId' = None /\ UNCHANGED <<pyExecuting, pyAwaiting>>
        BY <1>3 DEF PyLoaded
  <2>2. PyKeeps
        BY <1>1, <1>2, <2>1, KeepsAll DEF PyKeeps
  <2> QED BY <1>1, <2>1, <2>2 DEF PyGood, PyTypeOK
<1>4. CASE pyAwaiting # <<>>
  <2>1. /\ pyTransactionId' = run.transaction /\ pyExecuting' = pyExecuting \cup {x}
        /\ pyAwaiting' = Tail(pyAwaiting)
        BY <1>1, <1>4 DEF PyLoaded
  <2>2. run \in Run /\ Tail(pyAwaiting) \in Seq(Run)
        BY <1>2, <1>4, FirstRun
  <2>3. x \in PyExecution /\ x.run = run /\ run.transaction \in Transactions
        BY <2>2, PyStarted
  <2> HIDE DEF x
  <2>4. Keeps(pyInbox, pyAwaiting, pyExecuting, pyOutbox,
              pyInbox, Tail(pyAwaiting), pyExecuting \cup {x}, pyOutbox)
        BY <1>2, <1>4, <2>3, AwaitingStarts
  <2> HIDE DEF run
  <2>5. PyKeeps
        BY <1>1, <2>1, <2>4 DEF PyKeeps
  <2>6. IsFiniteSet(pyExecuting')
        BY <2>1, FS_AddElement DEF PyGood
  <2>7. PyGood'
        BY <1>1, <2>1, <2>2, <2>3, <2>6 DEF PyGood, PyTypeOK
  <2> QED BY <2>5, <2>7
<1> QED BY <1>3, <1>4

\* A run that goes to another phase goes on.
LEMMA PyBecomes ==
    ASSUME PyGood, NEW e \in pyExecuting, NEW phase \in {"started", "asking", "answered"}
    PROVE  LET d == [e EXCEPT !.phase = phase]
           IN  d \in PyExecution /\ d.run = e.run /\ e.run \in Run
BY DEF PyGood, PyTypeOK, PyExecution

LEMMA PyAskKeeps ==
    ASSUME PyGood, NEW e \in pyExecuting, PyAsk(e)
    PROVE  PyGood' /\ PyKeeps
<1>1. UNCHANGED <<pyInbox, pyState, pyTransactionId, pyAwaiting, pyNexts>>
      BY DEF PyAsk
<1>2. HeldType(pyInbox, pyAwaiting, pyExecuting, pyOutbox)
      BY PyHeldType
<1>3. PICK phase \in {"asking", "answered"} :
        pyExecuting' = (pyExecuting \ {e}) \cup {[e EXCEPT !.phase = phase]}
      BY DEF PyAsk, Becomes
<1> DEFINE d == [e EXCEPT !.phase = phase]
<1>4. d \in PyExecution /\ d.run = e.run /\ e.run \in Run
      BY PyBecomes
<1>5. pyExecuting' = (pyExecuting \ {e}) \cup {d}
      BY <1>3
<1> HIDE DEF d
<1>6. Keeps(pyInbox, pyAwaiting, pyExecuting, pyOutbox,
            pyInbox, pyAwaiting, (pyExecuting \ {e}) \cup {d}, pyOutbox)
      BY <1>2, <1>4, ExecutionGoesOn
<1>7. IsFiniteSet(pyExecuting')
      BY <1>5, FS_RemoveElement, FS_AddElement DEF PyGood
<1>8. pyExecuting' \in SUBSET PyExecution /\ pyState # "loading"
      BY <1>4, <1>5 DEF PyGood, PyTypeOK
<1>9. CASE UNCHANGED pyOutbox
  <2>1. PyKeeps
        BY <1>1, <1>5, <1>6, <1>9 DEF PyKeeps
  <2> QED BY <1>1, <1>7, <1>8, <1>9, <2>1 DEF PyGood, PyTypeOK
<1>10. CASE pyTransactionId # None
  <2> DEFINE m == [type |-> "cells", run |-> e.run, transaction |-> pyTransactionId]
  <2>1. pyOutbox' = Append(pyOutbox, m)
        BY <1>10 DEF PyAsk
  <2>2. m \in Question
        BY <1>4, <1>10 DEF Question, PyGood, PyTypeOK
  <2> HIDE DEF m
  <2>3. HeldType(pyInbox, pyAwaiting, (pyExecuting \ {e}) \cup {d}, pyOutbox)
        BY <1>6 DEF Keeps
  <2>4. Keeps(pyInbox, pyAwaiting, (pyExecuting \ {e}) \cup {d}, pyOutbox,
              pyInbox, pyAwaiting, (pyExecuting \ {e}) \cup {d}, Append(pyOutbox, m))
        BY <2>2, <2>3, QuestionPosted
  <2>5. Keeps(pyInbox, pyAwaiting, pyExecuting, pyOutbox,
              pyInbox, pyAwaiting, (pyExecuting \ {e}) \cup {d}, Append(pyOutbox, m))
        BY <1>6, <2>4, KeepsTransitive
  <2>6. PyKeeps
        BY <1>1, <1>5, <2>1, <2>5 DEF PyKeeps
  <2>7. pyOutbox' \in Seq(Result \cup Question)
        BY <2>1, <2>5 DEF Keeps, HeldType
  <2> QED BY <1>1, <1>7, <1>8, <2>6, <2>7 DEF PyGood, PyTypeOK
<1> QED BY <1>9, <1>10 DEF PyAsk

LEMMA PyFinishKeeps ==
    ASSUME PyGood, NEW e \in pyExecuting, PyFinish(e)
    PROVE  PyGood' /\ PyKeeps
<1> DEFINE m == [type |-> "result", run |-> e.run]
<1>1. /\ pyOutbox' = Append(pyOutbox, m) /\ pyExecuting' = pyExecuting \ {e}
      /\ pyTransactionId' = None /\ pyNexts' = pyNexts + 1
      /\ UNCHANGED <<pyInbox, pyState, pyAwaiting>>
      BY DEF PyFinish
<1>2. HeldType(pyInbox, pyAwaiting, pyExecuting, pyOutbox)
      BY PyHeldType
<1>3. Keeps(pyInbox, pyAwaiting, pyExecuting, pyOutbox,
            pyInbox, pyAwaiting, pyExecuting \ {e}, Append(pyOutbox, m))
      BY <1>2, ExecutionEnds
<1> HIDE DEF m
<1>4. PyKeeps
      BY <1>1, <1>3 DEF PyKeeps
<1>5. pyOutbox' \in Seq(Result \cup Question) /\ IsFiniteSet(pyExecuting')
      BY <1>1, <1>3 DEF Keeps, HeldType
<1> QED BY <1>1, <1>4, <1>5 DEF PyGood, PyTypeOK

LEMMA PyStepKeeps ==
    ASSUME PyGood, PyStep
    PROVE  PyGood' /\ PyKeeps
BY PyReceiveKeeps, PyNextKeeps, PyLoadedKeeps, PyAskKeeps, PyFinishKeeps DEF PyStep

\* The core answers a question.
LEMMA PyAnsweredKeeps ==
    ASSUME PyGood, NEW run, PyAnswered(run), pyOutbox # <<>>, Head(pyOutbox).type = "cells",
           pyOutbox' = Tail(pyOutbox)
    PROVE  PyGood' /\ PyKeeps
<1> DEFINE f == [e \in pyExecuting |-> IF e.run = run /\ e.phase = "asking"
                                       THEN [e EXCEPT !.phase = "answered"] ELSE e]
           g == {f[e] : e \in pyExecuting}
<1>1. /\ pyExecuting' = g
      /\ UNCHANGED <<pyInbox, pyState, pyTransactionId, pyAwaiting, pyNexts>>
      BY DEF PyAnswered
<1>2. HeldType(pyInbox, pyAwaiting, pyExecuting, pyOutbox)
      BY PyHeldType
<1>3. DOMAIN f = pyExecuting /\ \A e \in pyExecuting : f[e] \in PyExecution /\ f[e].run = e.run
      BY PyBecomes DEF PyGood, PyTypeOK
<1> HIDE DEF f
<1>4. Keeps(pyInbox, pyAwaiting, pyExecuting, pyOutbox, pyInbox, pyAwaiting, g, pyOutbox)
      BY <1>2, <1>3, ExecutionsGoOn
<1>5. g \in SUBSET PyExecution /\ (pyState = "loading" => g = {})
      BY <1>3 DEF PyGood
<1> HIDE DEF g
<1>6. HeldType(pyInbox, pyAwaiting, g, pyOutbox)
      BY <1>4 DEF Keeps
<1>7. Keeps(pyInbox, pyAwaiting, g, pyOutbox, pyInbox, pyAwaiting, g, Tail(pyOutbox))
      BY <1>6, QuestionHandled
<1>8. Keeps(pyInbox, pyAwaiting, pyExecuting, pyOutbox, pyInbox, pyAwaiting, g, Tail(pyOutbox))
      BY <1>4, <1>7, KeepsTransitive
<1>9. PyKeeps
      BY <1>1, <1>8 DEF PyKeeps
<1>10. pyOutbox' \in Seq(Result \cup Question) /\ IsFiniteSet(pyExecuting')
      BY <1>1, <1>8 DEF Keeps, HeldType
<1> QED BY <1>1, <1>5, <1>9, <1>10 DEF PyGood, PyTypeOK

-----------------------------------------------------------------------------
(* The Javascript worker *)

JsGood ==
    /\ JsTypeOK
    /\ IsFiniteSet(jsExecuting)
    /\ jsState = "loading" => jsExecuting = {}
    /\ \A e \in jsExecuting : e.phase # "checking" => jsTransactionId # None

JsKeeps == Keeps(jsInbox, jsAwaiting, jsExecuting, jsOutbox,
                 jsInbox', jsAwaiting', jsExecuting', jsOutbox')

LEMMA JsHeldType ==
    ASSUME JsGood
    PROVE  HeldType(jsInbox, jsAwaiting, jsExecuting, jsOutbox)
BY DEF JsGood, JsTypeOK, HeldType, JsExecution

LEMMA JsCheckedFirst ==
    ASSUME NEW run \in Run
    PROVE  LET e == [run |-> run, phase |-> "checking"]
           IN  e \in JsExecution /\ e.run = run /\ e.phase = "checking"
BY DEF JsExecution

LEMMA JsReceiveKeeps ==
    ASSUME JsGood, JsReceive
    PROVE  JsGood' /\ JsKeeps
<1> DEFINE run == Head(jsInbox)
           x == [run |-> run, phase |-> "checking"]
<1>1. /\ jsInbox # <<>> /\ jsInbox' = Tail(jsInbox) /\ RunJavascript(run, jsAwaiting)
      /\ UNCHANGED <<jsOutbox, jsState, jsTransactionId, jsWithLineNumbers, jsNexts>>
      BY DEF JsReceive
<1>2. /\ jsInbox \in Seq(Run) /\ jsAwaiting \in Seq(Run)
      /\ HeldType(jsInbox, jsAwaiting, jsExecuting, jsOutbox)
      BY JsHeldType DEF JsGood, JsTypeOK
<1>3. run \in Run /\ Tail(jsInbox) \in Seq(Run)
      BY <1>1, <1>2, FirstRun
<1>4. x \in JsExecution /\ x.run = run /\ x.phase = "checking"
      BY <1>3, JsCheckedFirst
<1>5. CASE jsState = "ready"
  <2>1. jsExecuting' = jsExecuting \cup {x} /\ jsAwaiting' = jsAwaiting
        BY <1>1, <1>5 DEF RunJavascript
  <2> HIDE DEF x
  <2>2. Keeps(jsInbox, jsAwaiting, jsExecuting, jsOutbox,
              Tail(jsInbox), jsAwaiting, jsExecuting \cup {x}, jsOutbox)
        BY <1>1, <1>2, <1>4, InboxStarts
  <2> HIDE DEF run
  <2>3. JsKeeps
        BY <1>1, <2>1, <2>2 DEF JsKeeps
  <2>4. IsFiniteSet(jsExecuting')
        BY <2>1, FS_AddElement DEF JsGood
  <2>5. JsGood'
        BY <1>1, <1>3, <1>4, <1>5, <2>1, <2>4 DEF JsGood, JsTypeOK
  <2> QED BY <2>3, <2>5
<1>6. CASE jsState # "ready"
  <2>1. /\ jsAwaiting' = Append(jsAwaiting, run)
        /\ UNCHANGED jsExecuting
        BY <1>1, <1>6 DEF RunJavascript
  <2>2. Keeps(jsInbox, jsAwaiting, jsExecuting, jsOutbox,
              Tail(jsInbox), Append(jsAwaiting, run), jsExecuting, jsOutbox)
        BY <1>1, <1>2, InboxWaits
  <2> HIDE DEF run
  <2>3. JsKeeps
        BY <1>1, <2>1, <2>2 DEF JsKeeps
  <2>4. jsAwaiting' \in Seq(Run)
        BY <1>2, <1>3, <2>1, AppendProperties
  <2>5. JsGood'
        BY <1>1, <1>3, <2>1, <2>4 DEF JsGood, JsTypeOK
  <2> QED BY <2>3, <2>5
<1> QED BY <1>5, <1>6

\* A run that has waited begins with its check.
LEMMA JsAwaitingStarts ==
    ASSUME JsGood, jsAwaiting # <<>>, jsState' = "ready", jsAwaiting' = Tail(jsAwaiting),
           jsExecuting' = jsExecuting \cup {[run |-> Head(jsAwaiting), phase |-> "checking"]},
           jsNexts' \in Nat,
           UNCHANGED <<jsInbox, jsOutbox, jsTransactionId, jsWithLineNumbers>>
    PROVE  JsGood' /\ JsKeeps
<1> DEFINE run == Head(jsAwaiting)
           x == [run |-> run, phase |-> "checking"]
<1>1. /\ jsInbox \in Seq(Run) /\ jsAwaiting \in Seq(Run)
      /\ HeldType(jsInbox, jsAwaiting, jsExecuting, jsOutbox)
      BY JsHeldType DEF JsGood, JsTypeOK
<1>2. run \in Run /\ Tail(jsAwaiting) \in Seq(Run)
      BY <1>1, FirstRun
<1>3. x \in JsExecution /\ x.run = run /\ x.phase = "checking"
      BY <1>2, JsCheckedFirst
<1>4. jsExecuting' = jsExecuting \cup {x}
      OBVIOUS
<1> HIDE DEF x
<1>5. Keeps(jsInbox, jsAwaiting, jsExecuting, jsOutbox,
            jsInbox, Tail(jsAwaiting), jsExecuting \cup {x}, jsOutbox)
      BY <1>1, <1>3, AwaitingStarts
<1> HIDE DEF run
<1>6. JsKeeps
      BY <1>4, <1>5 DEF JsKeeps
<1>7. IsFiniteSet(jsExecuting')
      BY <1>4, FS_AddElement DEF JsGood
<1>8. JsGood'
      BY <1>2, <1>3, <1>4, <1>7 DEF JsGood, JsTypeOK
<1> QED BY <1>6, <1>8

LEMMA JsNextKeeps ==
    ASSUME JsGood, JsNext
    PROVE  JsGood' /\ JsKeeps
<1>1. /\ jsNexts' \in Nat
      /\ UNCHANGED <<jsInbox, jsOutbox, jsState, jsTransactionId, jsWithLineNumbers>>
      BY DEF JsNext, JsGood, JsTypeOK
<1>2. CASE jsState = "ready" /\ jsAwaiting # <<>>
  <2>1. /\ jsAwaiting' = Tail(jsAwaiting)
        /\ jsExecuting' = jsExecuting \cup {[run |-> Head(jsAwaiting), phase |-> "checking"]}
        BY <1>2 DEF JsNext, RunJavascript
  <2> QED BY <1>1, <1>2, <2>1, JsAwaitingStarts
<1>3. CASE ~(jsState = "ready" /\ jsAwaiting # <<>>)
  <2>1. UNCHANGED <<jsAwaiting, jsExecuting>>
        BY <1>3 DEF JsNext
  <2>2. JsKeeps
        BY <1>1, <2>1, JsHeldType, KeepsAll DEF JsKeeps
  <2> QED BY <1>1, <2>1, <2>2 DEF JsGood, JsTypeOK
<1> QED BY <1>2, <1>3

LEMMA JsLoadedKeeps ==
    ASSUME JsGood, JsLoaded
    PROVE  JsGood' /\ JsKeeps
<1>1. /\ jsExecuting = {} /\ jsState' = "ready" /\ jsNexts' \in Nat
      /\ UNCHANGED <<jsInbox, jsOutbox, jsTransactionId, jsWithLineNumbers, jsNexts>>
      BY DEF JsGood, JsTypeOK, JsLoaded
<1>2. CASE jsAwaiting # <<>>
  <2>1. /\ jsAwaiting' = Tail(jsAwaiting)
        /\ jsExecuting' = jsExecuting \cup {[run |-> Head(jsAwaiting), phase |-> "checking"]}
        BY <1>1, <1>2 DEF JsLoaded
  <2> QED BY <1>1, <1>2, <2>1, JsAwaitingStarts
<1>3. CASE jsAwaiting = <<>>
  <2>1. UNCHANGED <<jsAwaiting, jsExecuting>>
        BY <1>3 DEF JsLoaded
  <2>2. JsKeeps
        BY <1>1, <2>1, JsHeldType, KeepsAll DEF JsKeeps
  <2> QED BY <1>1, <2>1, <2>2 DEF JsGood, JsTypeOK
<1> QED BY <1>2, <1>3

\* A run that goes to another phase goes on. It goes on alone when the fields are its own.
LEMMA JsBecomesKeeps ==
    ASSUME JsGood, NEW e \in jsExecuting,
           NEW phase \in {"starting", "running", "asking", "answered"}, JsBecomes(e, phase),
           jsTransactionId' \in Transactions, jsWithLineNumbers' \in BOOLEAN,
           UNCHANGED <<jsInbox, jsState, jsAwaiting, jsNexts>>,
           UNCHANGED jsOutbox \/ \E m \in Question : jsOutbox' = Append(jsOutbox, m)
    PROVE  JsGood' /\ JsKeeps
<1> DEFINE d == [e EXCEPT !.phase = phase]
<1>1. d \in JsExecution /\ d.run = e.run
      BY DEF JsGood, JsTypeOK, JsExecution
<1>2. jsExecuting' = (jsExecuting \ {e}) \cup {d}
      BY DEF JsBecomes
<1> HIDE DEF d
<1>3. HeldType(jsInbox, jsAwaiting, jsExecuting, jsOutbox)
      BY JsHeldType
<1>4. Keeps(jsInbox, jsAwaiting, jsExecuting, jsOutbox,
            jsInbox, jsAwaiting, (jsExecuting \ {e}) \cup {d}, jsOutbox)
      BY <1>1, <1>3, ExecutionGoesOn
<1>5. IsFiniteSet(jsExecuting')
      BY <1>2, FS_RemoveElement, FS_AddElement DEF JsGood
<1>6. jsExecuting' \in SUBSET JsExecution /\ jsState # "loading" /\ jsTransactionId' # None
      BY <1>1, <1>2, CellsAssumption DEF JsGood, JsTypeOK
<1>7. CASE UNCHANGED jsOutbox
  <2>1. JsKeeps
        BY <1>2, <1>4, <1>7 DEF JsKeeps
  <2> QED BY <1>5, <1>6, <1>7, <2>1 DEF JsGood, JsTypeOK
<1>8. ASSUME NEW m \in Question, jsOutbox' = Append(jsOutbox, m)
      PROVE  JsGood' /\ JsKeeps
  <2>1. HeldType(jsInbox, jsAwaiting, (jsExecuting \ {e}) \cup {d}, jsOutbox)
        BY <1>4 DEF Keeps
  <2>2. Keeps(jsInbox, jsAwaiting, (jsExecuting \ {e}) \cup {d}, jsOutbox,
              jsInbox, jsAwaiting, (jsExecuting \ {e}) \cup {d}, Append(jsOutbox, m))
        BY <2>1, QuestionPosted
  <2>3. Keeps(jsInbox, jsAwaiting, jsExecuting, jsOutbox,
              jsInbox, jsAwaiting, (jsExecuting \ {e}) \cup {d}, Append(jsOutbox, m))
        BY <1>4, <2>2, KeepsTransitive
  <2>4. JsKeeps
        BY <1>2, <1>8, <2>3 DEF JsKeeps
  <2>5. jsOutbox' \in Seq(Result \cup Question)
        BY <1>8, <2>3 DEF Keeps, HeldType
  <2> QED BY <1>5, <1>6, <2>4, <2>5 DEF JsGood, JsTypeOK
<1> QED BY <1>7, <1>8

LEMMA JsEndsKeeps ==
    ASSUME JsGood, NEW e \in jsExecuting, jsExecuting' = jsExecuting \ {e}, JsAnswer(e.run),
           jsNexts' \in Nat,
           UNCHANGED <<jsInbox, jsState, jsTransactionId, jsWithLineNumbers, jsAwaiting>>
    PROVE  JsGood' /\ JsKeeps
<1> DEFINE m == [type |-> "result", run |-> e.run]
<1>1. jsOutbox' = Append(jsOutbox, m)
      BY DEF JsAnswer
<1>2. HeldType(jsInbox, jsAwaiting, jsExecuting, jsOutbox)
      BY JsHeldType
<1>3. Keeps(jsInbox, jsAwaiting, jsExecuting, jsOutbox,
            jsInbox, jsAwaiting, jsExecuting \ {e}, Append(jsOutbox, m))
      BY <1>2, ExecutionEnds
<1> HIDE DEF m
<1>4. JsKeeps
      BY <1>1, <1>3 DEF JsKeeps
<1>5. jsOutbox' \in Seq(Result \cup Question) /\ IsFiniteSet(jsExecuting')
      BY <1>1, <1>3 DEF Keeps, HeldType
<1> QED BY <1>1, <1>4, <1>5 DEF JsGood, JsTypeOK

LEMMA JsStepKeeps ==
    ASSUME JsGood, JsStep
    PROVE  JsGood' /\ JsKeeps
<1>1. ASSUME NEW e \in jsExecuting
      PROVE  /\ e.run \in Run /\ e.run.transaction \in Transactions
             /\ e.phase # "checking" => jsTransactionId \in Transactions
             /\ jsWithLineNumbers \in BOOLEAN /\ jsNexts \in Nat
      BY CellsAssumption DEF JsGood, JsTypeOK, JsExecution, Run
<1>2. ASSUME NEW e \in jsExecuting, JsSyntaxError(e)
      PROVE  JsGood' /\ JsKeeps
      BY <1>1, <1>2, JsEndsKeeps DEF JsSyntaxError
<1>3. ASSUME NEW e \in jsExecuting, JsChecked(e)
      PROVE  JsGood' /\ JsKeeps
      BY <1>1, <1>3, JsBecomesKeeps DEF JsChecked, JsStarting
<1>4. ASSUME NEW e \in jsExecuting, JsStarted(e)
      PROVE  JsGood' /\ JsKeeps
      BY <1>1, <1>4, JsBecomesKeeps DEF JsStarted
<1>5. ASSUME NEW e \in jsExecuting, JsAsk(e)
      PROVE  JsGood' /\ JsKeeps
  <2> DEFINE m == [type |-> "cells", run |-> e.run, transaction |-> jsTransactionId]
  <2>1. m \in Question
        BY <1>1, <1>5 DEF JsAsk, Question
  <2>2. \E q \in Question : jsOutbox' = Append(jsOutbox, q)
        BY <1>5, <2>1 DEF JsAsk
  <2> HIDE DEF m
  <2> QED BY <1>1, <1>5, <2>2, JsBecomesKeeps DEF JsAsk
<1>6. ASSUME NEW e \in jsExecuting, JsFinish(e)
      PROVE  JsGood' /\ JsKeeps
      BY <1>1, <1>6, JsEndsKeeps DEF JsFinish
<1>7. ASSUME NEW e \in jsExecuting, JsRunnerFails(e)
      PROVE  JsGood' /\ JsKeeps
  <2>1. CASE jsWithLineNumbers
        BY <1>1, <1>7, <2>1, JsBecomesKeeps DEF JsRunnerFails, JsStarting
  <2>2. CASE ~jsWithLineNumbers
        BY <1>1, <1>7, <2>2, JsEndsKeeps DEF JsRunnerFails
  <2> QED BY <2>1, <2>2
<1> QED BY <1>2, <1>3, <1>4, <1>5, <1>6, <1>7, JsReceiveKeeps, JsNextKeeps, JsLoadedKeeps
        DEF JsStep

\* The core answers a question.
LEMMA JsAnsweredKeeps ==
    ASSUME JsGood, NEW run, JsAnswered(run), jsOutbox # <<>>, Head(jsOutbox).type = "cells",
           jsOutbox' = Tail(jsOutbox)
    PROVE  JsGood' /\ JsKeeps
<1> DEFINE f == [e \in jsExecuting |-> IF e.run = run /\ e.phase = "asking"
                                       THEN [e EXCEPT !.phase = "answered"] ELSE e]
           g == {f[e] : e \in jsExecuting}
<1>1. /\ jsExecuting' = g
      /\ UNCHANGED <<jsInbox, jsState, jsTransactionId, jsWithLineNumbers, jsAwaiting, jsNexts>>
      BY DEF JsAnswered
<1>2. HeldType(jsInbox, jsAwaiting, jsExecuting, jsOutbox)
      BY JsHeldType
<1>3. DOMAIN f = jsExecuting /\ \A e \in jsExecuting :
        /\ f[e] \in JsExecution /\ f[e].run = e.run
        /\ f[e].phase # "checking" => e.phase # "checking"
      BY DEF JsGood, JsTypeOK, JsExecution
<1> HIDE DEF f
<1>4. Keeps(jsInbox, jsAwaiting, jsExecuting, jsOutbox, jsInbox, jsAwaiting, g, jsOutbox)
      BY <1>2, <1>3, ExecutionsGoOn
<1>5. /\ g \in SUBSET JsExecution /\ (jsState = "loading" => g = {})
      /\ \A d \in g : d.phase # "checking" => jsTransactionId # None
      BY <1>3 DEF JsGood
<1> HIDE DEF g
<1>6. HeldType(jsInbox, jsAwaiting, g, jsOutbox)
      BY <1>4 DEF Keeps
<1>7. Keeps(jsInbox, jsAwaiting, g, jsOutbox, jsInbox, jsAwaiting, g, Tail(jsOutbox))
      BY <1>6, QuestionHandled
<1>8. Keeps(jsInbox, jsAwaiting, jsExecuting, jsOutbox, jsInbox, jsAwaiting, g, Tail(jsOutbox))
      BY <1>4, <1>7, KeepsTransitive
<1>9. JsKeeps
      BY <1>1, <1>8 DEF JsKeeps
<1>10. jsOutbox' \in Seq(Result \cup Question) /\ IsFiniteSet(jsExecuting')
      BY <1>1, <1>8 DEF Keeps, HeldType
<1> QED BY <1>1, <1>5, <1>9, <1>10 DEF JsGood, JsTypeOK

-----------------------------------------------------------------------------
(* What the core sends, and what it takes. *)

LEMMA RunsInType ==
    ASSUME NEW t \in Transactions, NEW sent \in Sent(t), NEW l
    PROVE  /\ RunsIn(sent, l) \in Seq(Run)
           /\ \A i \in DOMAIN RunsIn(sent, l) :
                /\ RunsIn(sent, l)[i] \in RunsOf(t)
                /\ LanguageOf[RunsIn(sent, l)[i].cell] = l
           /\ sent = <<>> => RunsIn(sent, l) = <<>>
           /\ \A r : sent = <<r>> =>
                RunsIn(sent, l) = IF LanguageOf[r.cell] = l THEN <<r>> ELSE <<>>
<1> DEFINE run(i) == IF i \in DOMAIN sent /\ LanguageOf[sent[i].cell] = l THEN <<sent[i]>> ELSE <<>>
           R == {r \in RunsOf(t) : LanguageOf[r.cell] = l}
<1>1. RunsIn(sent, l) = run(1) \o run(2)
      BY DEF RunsIn
<1>2. \A i \in DOMAIN sent : sent[i] \in RunsOf(t)
      BY DEF Sent
<1>3. \A i \in 1 .. 2 : run(i) \in Seq(R)
  <2>1. \A r \in R : <<r>> \in Seq(R)
        OBVIOUS
  <2>2. <<>> \in Seq(R)
        OBVIOUS
  <2>3. \A i \in DOMAIN sent : LanguageOf[sent[i].cell] = l => sent[i] \in R
        BY <1>2
  <2> HIDE DEF R
  <2> QED BY <2>1, <2>2, <2>3
<1>4. RunsIn(sent, l) \in Seq(R)
  <2>1. run(1) \in Seq(R) /\ run(2) \in Seq(R)
        BY <1>3
  <2> HIDE DEF run, R
  <2> QED BY <1>1, <2>1, ConcatProperties
<1>5. \A i \in DOMAIN RunsIn(sent, l) : RunsIn(sent, l)[i] \in R
  <2> DEFINE s == RunsIn(sent, l)
  <2>1. s \in Seq(R)
        BY <1>4
  <2> HIDE DEF s, R
  <2> QED BY <2>1, ElementOfSeq, LenProperties DEF s
<1>6. R \subseteq Run
      BY DEF RunsOf
<1>7. RunsIn(sent, l) \in Seq(Run)
  <2> DEFINE s == RunsIn(sent, l)
  <2>1. s \in Seq(R)
        BY <1>4
  <2> HIDE DEF s, R
  <2> QED BY <1>6, <2>1 DEF s
<1>8. ASSUME sent = <<>> PROVE RunsIn(sent, l) = <<>>
  <2>1. run(1) = <<>> /\ run(2) = <<>>
        BY <1>8
  <2> HIDE DEF run
  <2> QED BY <1>1, <2>1, TwoRuns
<1>9. ASSUME NEW r, sent = <<r>>
      PROVE  RunsIn(sent, l) = IF LanguageOf[r.cell] = l THEN <<r>> ELSE <<>>
  <2>1. run(1) = (IF LanguageOf[r.cell] = l THEN <<r>> ELSE <<>>) /\ run(2) = <<>>
        BY <1>9
  <2> HIDE DEF run
  <2> QED BY <1>1, <2>1, TwoRuns
<1> QED BY <1>5, <1>7, <1>8, <1>9

LEMMA InboxGetsOne ==
    ASSUME NEW i, NEW a, NEW e, NEW o, NEW t \in Transactions, NEW r \in RunsOf(t),
           HeldType(i, a, e, o)
    PROVE  NumberHeld(t, i \o <<r>>, a, e, o) = NumberHeld(t, i, a, e, o) + 1
<1> DEFINE q == Append(i, r)
<1>1. i \in Seq(Run) /\ r \in Run
      BY DEF HeldType, RunsOf
<1>2. q = i \o <<r>>
      BY <1>1
<1>3. q \in Seq(Run) /\ Number(q, RunsOf(t)) = Number(i, RunsOf(t)) + 1
      BY <1>1, NumberAppend, AppendProperties
<1> HIDE DEF q
<1>4. HeldType(q, a, e, o)
      BY <1>3 DEF HeldType
<1>5. /\ NumberHeld(t, i, a, e, o) = Number(i, RunsOf(t)) + Number(a, RunsOf(t))
           + Cardinality(OfTransaction(e, t)) + Number(o, ResultsOf(t))
      /\ Number(i, RunsOf(t)) \in Nat /\ Number(a, RunsOf(t)) \in Nat
      /\ Cardinality(OfTransaction(e, t)) \in Nat /\ Number(o, ResultsOf(t)) \in Nat
      BY NumberHeldType
<1>6. NumberHeld(t, q, a, e, o) = Number(q, RunsOf(t)) + Number(a, RunsOf(t))
        + Cardinality(OfTransaction(e, t)) + Number(o, ResultsOf(t))
      BY <1>4, NumberHeldType
<1> QED BY <1>2, <1>3, <1>5, <1>6

\* The inbox gets the runs of s, all of transaction t.
LEMMA InboxGrows ==
    ASSUME NEW i, NEW a, NEW e, NEW o, NEW t \in Transactions, NEW s \in Seq(Run),
           HeldType(i, a, e, o), \A k \in DOMAIN s : s[k] \in RunsOf(t)
    PROVE  /\ HeldType(i \o s, a, e, o)
           /\ HeldRuns(i \o s, a, e, o) \subseteq HeldRuns(i, a, e, o) \cup ToSet(s)
           /\ \A u \in Transactions \ {t} :
                NumberHeld(u, i \o s, a, e, o) = NumberHeld(u, i, a, e, o)
           /\ s = <<>> => NumberHeld(t, i \o s, a, e, o) = NumberHeld(t, i, a, e, o)
           /\ \A r : s = <<r>> =>
                NumberHeld(t, i \o s, a, e, o) = NumberHeld(t, i, a, e, o) + 1
<1> DEFINE q == i \o s
<1>1. i \in Seq(Run)
      BY DEF HeldType
<1>2. q \in Seq(Run) /\ ToSet(q) \subseteq ToSet(i) \cup ToSet(s)
      BY <1>1, ConcatProperties, ToSetConcat
<1>3. \A u \in Transactions \ {t} : Number(q, RunsOf(u)) = Number(i, RunsOf(u))
  <2> TAKE u \in Transactions \ {t}
  <2>1. \A k \in DOMAIN s : s[k] \notin RunsOf(u)
        BY DEF RunsOf
  <2> QED BY <1>1, <2>1, NumberConcat
<1>7. s = <<>> => NumberHeld(t, q, a, e, o) = NumberHeld(t, i, a, e, o)
      BY <1>1, ConcatEmptySeq
<1>8. ASSUME NEW r, s = <<r>>
      PROVE  NumberHeld(t, q, a, e, o) = NumberHeld(t, i, a, e, o) + 1
  <2>1. r \in RunsOf(t)
    <3>1. 1 \in DOMAIN s /\ s[1] = r
          BY <1>8
    <3> QED BY <3>1
  <2> QED BY <1>8, <2>1, InboxGetsOne
<1> HIDE DEF q
<1>4. HeldType(q, a, e, o)
      BY <1>2 DEF HeldType
<1>5. HeldRuns(q, a, e, o) \subseteq HeldRuns(i, a, e, o) \cup ToSet(s)
      BY <1>2 DEF HeldRuns
<1>6. ASSUME NEW u \in Transactions \ {t}
      PROVE  NumberHeld(u, q, a, e, o) = NumberHeld(u, i, a, e, o)
      BY <1>3 DEF NumberHeld
<1> QED BY <1>4, <1>5, <1>6, <1>7, <1>8 DEF q

\* The core takes a result.
LEMMA ResultHandled ==
    ASSUME NEW i, NEW a, NEW e, NEW o, HeldType(i, a, e, o), o # <<>>, Head(o).type = "result"
    PROVE  /\ Head(o).run \in Run /\ Head(o).run \in HeldRuns(i, a, e, o)
           /\ HeldType(i, a, e, Tail(o))
           /\ HeldRuns(i, a, e, Tail(o)) \subseteq HeldRuns(i, a, e, o)
           /\ \A u \in Transactions : NumberHeld(u, i, a, e, o) =
                NumberHeld(u, i, a, e, Tail(o)) + (IF Head(o).run.transaction = u THEN 1 ELSE 0)
<1> DEFINE m == Head(o)
           p == Tail(o)
<1>1. /\ m \in Result \cup Question /\ p \in Seq(Result \cup Question)
      /\ ToSet(o) = {m} \cup ToSet(p)
      BY ToSetTail DEF HeldType
<1>2. \A u \in Transactions : Number(o, ResultsOf(u)) =
        Number(p, ResultsOf(u)) + (IF m \in ResultsOf(u) THEN 1 ELSE 0)
      BY NumberTail DEF HeldType
<1>3. m \in Result /\ m.run \in Run
      BY <1>1 DEF Result, Question
<1>4. \A u \in Transactions : m \in ResultsOf(u) <=> m.run.transaction = u
      BY <1>3 DEF ResultsOf
<1> HIDE DEF m, p
<1>5. HeldType(i, a, e, p)
      BY <1>1 DEF HeldType
<1>6. /\ m.run \in HeldRuns(i, a, e, o)
      /\ HeldRuns(i, a, e, p) \subseteq HeldRuns(i, a, e, o)
      BY <1>1, <1>3 DEF HeldRuns
<1>7. ASSUME NEW u \in Transactions
      PROVE  NumberHeld(u, i, a, e, o) =
               NumberHeld(u, i, a, e, p) + (IF m.run.transaction = u THEN 1 ELSE 0)
  <2>1. /\ NumberHeld(u, i, a, e, o) = Number(i, RunsOf(u)) + Number(a, RunsOf(u))
             + Cardinality(OfTransaction(e, u)) + Number(o, ResultsOf(u))
        /\ Number(i, RunsOf(u)) \in Nat /\ Number(a, RunsOf(u)) \in Nat
        /\ Cardinality(OfTransaction(e, u)) \in Nat /\ Number(o, ResultsOf(u)) \in Nat
        BY NumberHeldType
  <2>2. /\ NumberHeld(u, i, a, e, p) = Number(i, RunsOf(u)) + Number(a, RunsOf(u))
             + Cardinality(OfTransaction(e, u)) + Number(p, ResultsOf(u))
        /\ Number(p, ResultsOf(u)) \in Nat
        BY <1>5, NumberHeldType
  <2>3. Number(o, ResultsOf(u)) =
          Number(p, ResultsOf(u)) + (IF m.run.transaction = u THEN 1 ELSE 0)
        BY <1>2, <1>4
  <2> QED BY <2>1, <2>2, <2>3
<1> QED BY <1>3, <1>5, <1>6, <1>7 DEF m, p

\* None is held if the number is zero.
LEMMA NoneHeld ==
    ASSUME NEW i, NEW a, NEW e, NEW o, HeldType(i, a, e, o), NEW t \in Transactions,
           NumberHeld(t, i, a, e, o) = 0
    PROVE  \A r \in HeldRuns(i, a, e, o) : r.transaction # t
<1> DEFINE w == Number(i, RunsOf(t))
           x == Number(a, RunsOf(t))
           y == Cardinality(OfTransaction(e, t))
           z == Number(o, ResultsOf(t))
<1>1. w = 0 /\ x = 0 /\ y = 0 /\ z = 0
  <2>1. w \in Nat /\ x \in Nat /\ y \in Nat /\ z \in Nat /\ 0 = w + x + y + z
        BY NumberHeldType
  <2> HIDE DEF w, x, y, z
  <2> QED BY <2>1
<1>2. i \in Seq(Run) /\ a \in Seq(Run) /\ o \in Seq(Result \cup Question) /\ IsFiniteSet(e)
      BY DEF HeldType
<1>3. /\ \A k \in DOMAIN i : i[k] \notin RunsOf(t)
      /\ \A k \in DOMAIN a : a[k] \notin RunsOf(t)
      /\ \A k \in DOMAIN o : o[k] \notin ResultsOf(t)
      BY <1>1, <1>2, NumberType
<1>4. \A d \in e : d.run.transaction # t
      BY <1>1, <1>2, OfTransactionType
<1>5. /\ \A k \in DOMAIN i : i[k] \in Run
      /\ \A k \in DOMAIN a : a[k] \in Run
      BY <1>2, ElementOfSeq, LenProperties
<1>6. /\ \A r \in ToSet(i) : r.transaction # t
      /\ \A r \in ToSet(a) : r.transaction # t
      /\ \A m \in ToSet(o) \cap Result : m.run.transaction # t
      BY <1>3, <1>5 DEF ToSet, RunsOf, ResultsOf
<1> QED BY <1>4, <1>6 DEF HeldRuns

\* The last transactions are transactions.
LEMMA LastSentButType ==
    ASSUME CoreTypeOK, NEW t \in Transactions, NEW sent \in Sent(t), NEW done
    PROVE  LastSentBut(sent, done) \in [Languages -> Transactions \cup {None}]
<1>1. ASSUME NEW l \in Languages, RunsIn(sent, l) # <<>>
      PROVE  Last(RunsIn(sent, l)).transaction \in Transactions
  <2> DEFINE s == RunsIn(sent, l)
  <2>1. s \in Seq(Run) /\ s # <<>>
        BY <1>1, RunsInType
  <2> HIDE DEF s
  <2>2. Len(s) \in 1 .. Len(s) /\ s[Len(s)] \in Run
        BY <2>1, LenProperties, EmptySeq, ElementOfSeq
  <2> QED BY <2>2 DEF s, Last, Run
<1> QED BY <1>1 DEF LastSentBut, CoreTypeOK

\* What is posted to the worker of l.
Posted(sent, l) == IF restarting[l] = "no" THEN RunsIn(sent, l) ELSE <<>>

\* What is posted are runs of t in the language of the worker.
LEMMA PostedType ==
    ASSUME NEW t \in Transactions, NEW sent \in Sent(t), NEW l
    PROVE  /\ Posted(sent, l) \in Seq(Run)
           /\ \A i \in DOMAIN Posted(sent, l) : Posted(sent, l)[i] \in RunsOf(t)
           /\ \A r \in ToSet(Posted(sent, l)) : r \in RunsOf(t) /\ LanguageOf[r.cell] = l
           /\ sent = <<>> => Posted(sent, l) = <<>>
           /\ \A r : sent = <<r>> =>
                Posted(sent, l) =
                  IF LanguageOf[r.cell] = l /\ restarting[l] = "no" THEN <<r>> ELSE <<>>
<1>1. CASE restarting[l] = "no"
  <2> DEFINE s == RunsIn(sent, l)
  <2>1. Posted(sent, l) = s
        BY <1>1 DEF Posted
  <2>2. /\ s \in Seq(Run)
        /\ \A i \in DOMAIN s : s[i] \in RunsOf(t) /\ LanguageOf[s[i].cell] = l
        /\ sent = <<>> => s = <<>>
        /\ \A r : sent = <<r>> => s = IF LanguageOf[r.cell] = l THEN <<r>> ELSE <<>>
        BY RunsInType
  <2> HIDE DEF s
  <2>3. \A r \in ToSet(s) : r \in RunsOf(t) /\ LanguageOf[r.cell] = l
        BY <2>2 DEF ToSet
  <2> QED BY <1>1, <2>1, <2>2, <2>3
<1>2. CASE restarting[l] # "no"
  <2>1. Posted(sent, l) = <<>>
        BY <1>2 DEF Posted
  <2>2. <<>> \in Seq(Run) /\ DOMAIN <<>> = {} /\ ToSet(<<>>) = {}
        BY DEF ToSet
  <2> QED BY <1>2, <2>1, <2>2
<1> QED BY <1>1, <1>2

\* The queries that start are runs of t.
LEMMA NewFetchesType ==
    ASSUME NEW t \in Transactions, NEW sent \in Sent(t)
    PROVE  /\ NewFetches(sent) \subseteq Fetch /\ IsFiniteSet(NewFetches(sent))
           /\ \A f \in NewFetches(sent) :
                f.run \in RunsOf(t) /\ LanguageOf[f.run.cell] = "Connection"
           /\ sent = <<>> => NewFetches(sent) = {}
           /\ \A r : sent = <<r>> =>
                NewFetches(sent) = IF LanguageOf[r.cell] = "Connection"
                                   THEN {[run |-> r, phase |-> "token"]} ELSE {}
<1> DEFINE D == {i \in DOMAIN sent : LanguageOf[sent[i].cell] = "Connection"}
           f == [i \in D |-> [run |-> sent[i], phase |-> "token"]]
<1>1. D \subseteq {1} \cup {2} /\ \A i \in D : sent[i] \in RunsOf(t)
      BY DEF Sent
<1>2. IsFiniteSet(D)
  <2> HIDE DEF D
  <2>1. IsFiniteSet({1} \cup {2})
        BY FS_Singleton, FS_AddElement
  <2> QED BY <1>1, <2>1, FS_Subset
<1>3. NewFetches(sent) = {f[i] : i \in D}
      BY DEF NewFetches
<1>4. IsFiniteSet(NewFetches(sent))
  <2>1. DOMAIN f = D
        OBVIOUS
  <2> HIDE DEF D, f
  <2> QED BY <1>2, <1>3, <2>1, ImageIsFinite
<1>5. /\ NewFetches(sent) \subseteq Fetch
      /\ \A x \in NewFetches(sent) :
           x.run \in RunsOf(t) /\ LanguageOf[x.run.cell] = "Connection"
      BY <1>1 DEF NewFetches, Fetch, RunsOf
<1>6. sent = <<>> => NewFetches(sent) = {}
      BY DEF NewFetches
<1>7. ASSUME NEW r, sent = <<r>>
      PROVE  NewFetches(sent) = IF LanguageOf[r.cell] = "Connection"
                                THEN {[run |-> r, phase |-> "token"]} ELSE {}
  <2>1. DOMAIN sent = {1} /\ sent[1] = r
        BY <1>7
  <2> QED BY <2>1 DEF NewFetches
<1> QED BY <1>4, <1>5, <1>6, <1>7

\* A run that is lost is one of a transaction that was run over.
LEMMA RunsLostType ==
    ASSUME NEW t \in Transactions, NEW sent \in Sent(t)
    PROVE  /\ RunsLost(sent) \subseteq {t}
           /\ \A r : (sent = <<r>> /\ t \notin RunsLost(sent)
                        /\ LanguageOf[r.cell] \in CodeLanguages) =>
                     restarting[LanguageOf[r.cell]] = "no"
<1>1. \A i \in DOMAIN sent : sent[i].transaction = t
      BY DEF Sent, RunsOf
<1>2. RunsLost(sent) \subseteq {t}
      BY <1>1 DEF RunsLost
<1>3. ASSUME NEW r, sent = <<r>>, t \notin RunsLost(sent), LanguageOf[r.cell] \in CodeLanguages
      PROVE  restarting[LanguageOf[r.cell]] = "no"
  <2>1. 1 \in DOMAIN sent /\ sent[1] = r
        BY <1>3
  <2> QED BY <1>1, <1>3, <2>1 DEF RunsLost
<1> QED BY <1>2, <1>3

\* The queries that are started.
LEMMA FetchesSent ==
    ASSUME NEW F, NEW t \in Transactions, NEW sent \in Sent(t), IsFiniteSet(F)
    PROVE  LET G == F \cup NewFetches(sent)
           IN  /\ IsFiniteSet(G)
               /\ \A u \in Transactions \ {t} : OfTransaction(G, u) = OfTransaction(F, u)
               /\ sent = <<>> => OfTransaction(G, t) = OfTransaction(F, t)
               /\ \A r : sent = <<r>> /\ Cardinality(OfTransaction(F, t)) = 0 =>
                    Cardinality(OfTransaction(G, t)) =
                      IF LanguageOf[r.cell] = "Connection" THEN 1 ELSE 0
<1> DEFINE N == NewFetches(sent)
           G == F \cup N
<1>1. /\ IsFiniteSet(N)
      /\ \A f \in N : f.run.transaction = t
      /\ sent = <<>> => N = {}
      BY NewFetchesType DEF RunsOf
<1>2. IsFiniteSet(G)
  <2> HIDE DEF N
  <2> QED BY <1>1, FS_Union
<1>3. \A u \in Transactions \ {t} : OfTransaction(G, u) = OfTransaction(F, u)
  <2> HIDE DEF N
  <2> QED BY <1>1 DEF OfTransaction
<1>4. sent = <<>> => OfTransaction(G, t) = OfTransaction(F, t)
      BY <1>1
<1>5. ASSUME NEW r, sent = <<r>>, Cardinality(OfTransaction(F, t)) = 0
      PROVE  Cardinality(OfTransaction(G, t)) =
               IF LanguageOf[r.cell] = "Connection" THEN 1 ELSE 0
  <2> DEFINE x == [run |-> r, phase |-> "token"]
  <2>1. \A f \in F : f.run.transaction # t
        BY <1>5, OfTransactionType
  <2>2. CASE LanguageOf[r.cell] = "Connection"
    <3>1. N = {x} /\ x \in N
          BY <1>5, <2>2, NewFetchesType
    <3>2. x.run.transaction = t
          BY <1>1, <3>1
    <3> HIDE DEF x, N
    <3>3. Cardinality(OfTransaction(F \cup {x}, t)) =
            Cardinality(OfTransaction(F, t)) + (IF x.run.transaction = t THEN 1 ELSE 0)
          BY <2>1, OneMore
    <3> QED BY <1>5, <2>2, <3>1, <3>2, <3>3
  <2>3. CASE LanguageOf[r.cell] # "Connection"
    <3>1. N = {}
          BY <1>5, <2>3, NewFetchesType
    <3>2. G = F
          BY <3>1
    <3> QED BY <1>5, <2>3, <3>2
  <2> QED BY <2>2, <2>3
<1> QED BY <1>2, <1>3, <1>4, <1>5

-----------------------------------------------------------------------------
(* The invariant. A run is held by the worker of its language, a transaction is open
   while it waits for something, and one that nothing has run over waits for the run
   that there is for it. *)

Total(t) == PyNumber(t) + JsNumber(t) + QueryNumber(t)

LanguagesMatch ==
    /\ \A r \in PyRuns : LanguageOf[r.cell] = "Python"
    /\ \A r \in JsRuns : LanguageOf[r.cell] = "Javascript"
    /\ \A r \in Queries : LanguageOf[r.cell] = "Connection"

WaitedFor(r, p) == p.current # None /\ r.cell = p.current.cell /\ r.code = p.current.code

Alone(t) ==
    LET p == pending[t]
    IN  /\ p.status # "lost"
        /\ Total(t) = IF p.status = "open" THEN 1 ELSE 0
        /\ p.status = "open" => p.current # None /\ p.hasAsync = 1
        /\ \A r \in PyRuns \cup JsRuns \cup Queries : r.transaction = t => WaitedFor(r, p)

RunInv ==
    /\ TypeOK
    /\ PyGood /\ JsGood /\ IsFiniteSet(fetches)
    /\ LanguagesMatch
    /\ \A t \in Transactions : Waits(t)
    /\ \A t \in Transactions \ interrupted : Alone(t)
    /\ ResultIsOfItsCode

\* What there is for t is a number.
LEMMA TotalType ==
    ASSUME RunInv, NEW t \in Transactions
    PROVE  /\ PyNumber(t) \in Nat /\ JsNumber(t) \in Nat /\ QueryNumber(t) \in Nat
           /\ QueryNumber(t) = Cardinality(OfTransaction(fetches, t))
<1>1. /\ HeldType(pyInbox, pyAwaiting, pyExecuting, pyOutbox)
      /\ HeldType(jsInbox, jsAwaiting, jsExecuting, jsOutbox)
      BY PyHeldType, JsHeldType DEF RunInv
<1>2. PyNumber(t) \in Nat /\ JsNumber(t) \in Nat
      BY <1>1, NumberHeldType DEF PyNumber, JsNumber
<1>3. QueryNumber(t) = Cardinality(OfTransaction(fetches, t))
      BY DEF QueryNumber, OfTransaction
<1>4. QueryNumber(t) \in Nat
      BY <1>3, OfTransactionType DEF RunInv
<1> QED BY <1>2, <1>3, <1>4

\* What is left for u when the core has taken something up, and queries F go on.
Left(u, F) ==
    NumberHeld(u, pyInbox, pyAwaiting, pyExecuting, pyOutbox')
        + NumberHeld(u, jsInbox, jsAwaiting, jsExecuting, jsOutbox')
        + Cardinality(OfTransaction(F, u))

\* The core does something for t: what is sent is the one run that t then waits for.
LEMMA CoreSendsOne ==
    ASSUME RunInv, NEW t \in Transactions, NEW o \in Outcome(t), NEW gone, CoreDoes(t, o, gone),
           NEW F, F \subseteq fetches, fetches' = F \cup NewFetches(o.sent),
           UNCHANGED <<pyAwaiting, pyExecuting, jsAwaiting, jsExecuting>>,
           HeldType(pyInbox, pyAwaiting, pyExecuting, pyOutbox'),
           HeldType(jsInbox, jsAwaiting, jsExecuting, jsOutbox')
    PROVE  /\ HeldType(pyInbox', pyAwaiting', pyExecuting', pyOutbox')
           /\ HeldType(jsInbox', jsAwaiting', jsExecuting', jsOutbox')
           /\ fetches' \subseteq Fetch /\ IsFiniteSet(fetches')
           /\ \A u \in Transactions \ {t} : Total(u)' = Left(u, F)
           /\ \A r \in PyRuns' : r \in HeldRuns(pyInbox, pyAwaiting, pyExecuting, pyOutbox')
                \/ (r \in RunsOf(t) /\ LanguageOf[r.cell] = "Python")
           /\ \A r \in JsRuns' : r \in HeldRuns(jsInbox, jsAwaiting, jsExecuting, jsOutbox')
                \/ (r \in RunsOf(t) /\ LanguageOf[r.cell] = "Javascript")
           /\ \A f \in fetches' : f \in F
                \/ (f.run \in RunsOf(t) /\ LanguageOf[f.run.cell] = "Connection")
           /\ (Continues(t, o) /\ t \notin interrupted' /\ Left(t, F) = 0) =>
                /\ Total(t)' = IF o.p.status = "open" THEN 1 ELSE 0
                /\ \A r \in PyRuns' \cup JsRuns' \cup Queries' :
                     r.transaction = t => WaitedFor(r, o.p)
<1> DEFINE p == Posted(o.sent, "Python")
           j == Posted(o.sent, "Javascript")
<1>1. o.sent \in Sent(t)
      BY DEF Outcome
<1>2. /\ pyInbox' = pyInbox \o p /\ jsInbox' = jsInbox \o j
      /\ interrupted' = interrupted \cup gone \cup RunsLost(o.sent)
  <2>1. pyInbox \o <<>> = pyInbox /\ jsInbox \o <<>> = jsInbox
        BY ConcatEmptySeq DEF HeldType
  <2> QED BY <2>1 DEF CoreDoes, Posted
<1>3. /\ p \in Seq(Run) /\ \A i \in DOMAIN p : p[i] \in RunsOf(t)
      /\ \A r \in ToSet(p) : r \in RunsOf(t) /\ LanguageOf[r.cell] = "Python"
      /\ o.sent = <<>> => p = <<>>
      /\ \A r : o.sent = <<r>> =>
           p = IF LanguageOf[r.cell] = "Python" /\ restarting["Python"] = "no" THEN <<r>> ELSE <<>>
      BY <1>1, PostedType
<1>4. /\ j \in Seq(Run) /\ \A i \in DOMAIN j : j[i] \in RunsOf(t)
      /\ \A r \in ToSet(j) : r \in RunsOf(t) /\ LanguageOf[r.cell] = "Javascript"
      /\ o.sent = <<>> => j = <<>>
      /\ \A r : o.sent = <<r>> =>
           j = IF LanguageOf[r.cell] = "Javascript" /\ restarting["Javascript"] = "no"
               THEN <<r>> ELSE <<>>
      BY <1>1, PostedType
<1> HIDE DEF p, j
<1>5. /\ HeldType(pyInbox', pyAwaiting', pyExecuting', pyOutbox')
      /\ PyRuns' \subseteq HeldRuns(pyInbox, pyAwaiting, pyExecuting, pyOutbox') \cup ToSet(p)
      /\ \A u \in Transactions \ {t} :
           PyNumber(u)' = NumberHeld(u, pyInbox, pyAwaiting, pyExecuting, pyOutbox')
      /\ p = <<>> => PyNumber(t)' = NumberHeld(t, pyInbox, pyAwaiting, pyExecuting, pyOutbox')
      /\ \A r : p = <<r>> =>
           PyNumber(t)' = NumberHeld(t, pyInbox, pyAwaiting, pyExecuting, pyOutbox') + 1
  <2> DEFINE i == pyInbox \o p
  <2>1. /\ HeldType(i, pyAwaiting, pyExecuting, pyOutbox')
        /\ HeldRuns(i, pyAwaiting, pyExecuting, pyOutbox') \subseteq
             HeldRuns(pyInbox, pyAwaiting, pyExecuting, pyOutbox') \cup ToSet(p)
        /\ \A u \in Transactions \ {t} :
             NumberHeld(u, i, pyAwaiting, pyExecuting, pyOutbox') =
               NumberHeld(u, pyInbox, pyAwaiting, pyExecuting, pyOutbox')
        /\ p = <<>> => NumberHeld(t, i, pyAwaiting, pyExecuting, pyOutbox') =
             NumberHeld(t, pyInbox, pyAwaiting, pyExecuting, pyOutbox')
        /\ \A r : p = <<r>> => NumberHeld(t, i, pyAwaiting, pyExecuting, pyOutbox') =
             NumberHeld(t, pyInbox, pyAwaiting, pyExecuting, pyOutbox') + 1
        BY <1>3, InboxGrows
  <2>2. /\ pyInbox' = i /\ pyAwaiting' = pyAwaiting /\ pyExecuting' = pyExecuting
        BY <1>2
  <2> HIDE DEF i
  <2> QED BY <2>1, <2>2 DEF PyRuns, PyNumber
<1>6. /\ HeldType(jsInbox', jsAwaiting', jsExecuting', jsOutbox')
      /\ JsRuns' \subseteq HeldRuns(jsInbox, jsAwaiting, jsExecuting, jsOutbox') \cup ToSet(j)
      /\ \A u \in Transactions \ {t} :
           JsNumber(u)' = NumberHeld(u, jsInbox, jsAwaiting, jsExecuting, jsOutbox')
      /\ j = <<>> => JsNumber(t)' = NumberHeld(t, jsInbox, jsAwaiting, jsExecuting, jsOutbox')
      /\ \A r : j = <<r>> =>
           JsNumber(t)' = NumberHeld(t, jsInbox, jsAwaiting, jsExecuting, jsOutbox') + 1
  <2> DEFINE i == jsInbox \o j
  <2>1. /\ HeldType(i, jsAwaiting, jsExecuting, jsOutbox')
        /\ HeldRuns(i, jsAwaiting, jsExecuting, jsOutbox') \subseteq
             HeldRuns(jsInbox, jsAwaiting, jsExecuting, jsOutbox') \cup ToSet(j)
        /\ \A u \in Transactions \ {t} :
             NumberHeld(u, i, jsAwaiting, jsExecuting, jsOutbox') =
               NumberHeld(u, jsInbox, jsAwaiting, jsExecuting, jsOutbox')
        /\ j = <<>> => NumberHeld(t, i, jsAwaiting, jsExecuting, jsOutbox') =
             NumberHeld(t, jsInbox, jsAwaiting, jsExecuting, jsOutbox')
        /\ \A r : j = <<r>> => NumberHeld(t, i, jsAwaiting, jsExecuting, jsOutbox') =
             NumberHeld(t, jsInbox, jsAwaiting, jsExecuting, jsOutbox') + 1
        BY <1>4, InboxGrows
  <2>2. /\ jsInbox' = i /\ jsAwaiting' = jsAwaiting /\ jsExecuting' = jsExecuting
        BY <1>2
  <2> HIDE DEF i
  <2> QED BY <2>1, <2>2 DEF JsRuns, JsNumber
<1>7. /\ NewFetches(o.sent) \subseteq Fetch
      /\ \A f \in NewFetches(o.sent) :
           f.run \in RunsOf(t) /\ LanguageOf[f.run.cell] = "Connection"
      BY <1>1, NewFetchesType
<1>8. IsFiniteSet(F) /\ F \subseteq Fetch
      BY FS_Subset DEF RunInv, TypeOK
<1>9. /\ IsFiniteSet(fetches')
      /\ \A u \in Transactions \ {t} : OfTransaction(fetches', u) = OfTransaction(F, u)
      /\ o.sent = <<>> => OfTransaction(fetches', t) = OfTransaction(F, t)
      /\ \A r : o.sent = <<r>> /\ Cardinality(OfTransaction(F, t)) = 0 =>
           Cardinality(OfTransaction(fetches', t)) =
             IF LanguageOf[r.cell] = "Connection" THEN 1 ELSE 0
      BY <1>1, <1>8, FetchesSent, ZenonT(30)
<1>10. \A u \in Transactions : QueryNumber(u)' = Cardinality(OfTransaction(fetches', u))
      BY DEF QueryNumber, OfTransaction
<1>11. \A u \in Transactions \ {t} : Total(u)' = Left(u, F)
      BY <1>5, <1>6, <1>9, <1>10 DEF Total, Left
<1>12. ASSUME Continues(t, o), t \notin interrupted', Left(t, F) = 0
       PROVE  /\ Total(t)' = IF o.p.status = "open" THEN 1 ELSE 0
              /\ \A r \in PyRuns' \cup JsRuns' \cup Queries' :
                   r.transaction = t => WaitedFor(r, o.p)
  <2> DEFINE P == NumberHeld(t, pyInbox, pyAwaiting, pyExecuting, pyOutbox')
             J == NumberHeld(t, jsInbox, jsAwaiting, jsExecuting, jsOutbox')
             Q == Cardinality(OfTransaction(F, t))
  <2>1. P = 0 /\ J = 0 /\ Q = 0
    <3>1. P \in Nat /\ J \in Nat /\ Q \in Nat
          BY <1>8, NumberHeldType, OfTransactionType
    <3>2. 0 = P + J + Q
          BY <1>12 DEF Left
    <3> HIDE DEF P, J, Q
    <3> QED BY <3>1, <3>2
  <2>2. /\ \A r \in HeldRuns(pyInbox, pyAwaiting, pyExecuting, pyOutbox') : r.transaction # t
        /\ \A r \in HeldRuns(jsInbox, jsAwaiting, jsExecuting, jsOutbox') : r.transaction # t
        /\ \A f \in F : f.run.transaction # t
        BY <1>8, <2>1, NoneHeld, OfTransactionType
  <2>3. CASE o.sent = <<>> /\ o.p.status = "complete"
    <3>1. p = <<>> /\ j = <<>> /\ NewFetches(o.sent) = {}
          BY <1>1, <1>3, <1>4, <2>3, NewFetchesType
    <3>2. Total(t)' = 0
      <4>1. PyNumber(t)' = 0
            BY <1>5, <2>1, <3>1
      <4>2. JsNumber(t)' = 0
            BY <1>6, <2>1, <3>1
      <4>3. QueryNumber(t)' = 0
            BY <1>9, <1>10, <2>1, <2>3
      <4> QED BY <4>1, <4>2, <4>3 DEF Total
    <3>3. \A r \in PyRuns' \cup JsRuns' \cup Queries' : r.transaction # t
      <4>1. ToSet(p) = {} /\ ToSet(j) = {}
            BY <3>1 DEF ToSet
      <4> QED BY <1>5, <1>6, <2>2, <3>1, <4>1 DEF Queries
    <3> QED BY <2>3, <3>2, <3>3
  <2>4. ASSUME NEW r \in RunsOf(t), o.sent = <<r>>, o.p.status = "open",
               o.p.current = [cell |-> r.cell, code |-> r.code]
        PROVE  /\ Total(t)' = 1
               /\ \A q \in PyRuns' \cup JsRuns' \cup Queries' :
                    q.transaction = t => WaitedFor(q, o.p)
    <3>1. LanguageOf[r.cell] \in Languages
          BY CellsAssumption DEF RunsOf, Run
    <3>2. LanguageOf[r.cell] \in CodeLanguages => restarting[LanguageOf[r.cell]] = "no"
      <4>1. t \notin RunsLost(o.sent)
            BY <1>2, <1>12
      <4>2. \A q : (o.sent = <<q>> /\ t \notin RunsLost(o.sent)
                      /\ LanguageOf[q.cell] \in CodeLanguages) =>
                   restarting[LanguageOf[q.cell]] = "no"
            BY <1>1, RunsLostType
      <4> QED BY <2>4, <4>1, <4>2
    <3>3. p = (IF LanguageOf[r.cell] = "Python" THEN <<r>> ELSE <<>>)
          BY <1>3, <2>4, <3>1, <3>2 DEF CodeLanguages
    <3>4. j = (IF LanguageOf[r.cell] = "Javascript" THEN <<r>> ELSE <<>>)
          BY <1>4, <2>4, <3>1, <3>2 DEF CodeLanguages
    <3>5. QueryNumber(t)' = IF LanguageOf[r.cell] = "Connection" THEN 1 ELSE 0
          BY <1>9, <1>10, <2>1, <2>4
    <3>6. PyNumber(t)' = IF LanguageOf[r.cell] = "Python" THEN 1 ELSE 0
      <4>1. <<r>> # <<>>
            OBVIOUS
      <4> QED BY <1>5, <2>1, <3>3, <4>1
    <3>7. JsNumber(t)' = IF LanguageOf[r.cell] = "Javascript" THEN 1 ELSE 0
          BY <1>6, <2>1, <3>4
    <3>8. Total(t)' = 1
          BY <3>1, <3>5, <3>6, <3>7 DEF Total, Languages
    <3>9. ToSet(p) \subseteq {r} /\ ToSet(j) \subseteq {r}
          BY <3>3, <3>4 DEF ToSet
    <3>10. \A f \in NewFetches(o.sent) : f.run = r
          BY <1>1, <2>4, NewFetchesType
    <3>11. \A q \in PyRuns' \cup JsRuns' \cup Queries' : q.transaction = t => q = r
          BY <1>5, <1>6, <2>2, <3>9, <3>10 DEF Queries
    <3>12. WaitedFor(r, o.p)
      <4>1. o.p.current \in [cell : Cells, code : Authors]
            BY <2>4, CellsAssumption DEF RunsOf, Run
      <4> QED BY <2>4, <4>1, CellsAssumption DEF WaitedFor
    <3> QED BY <3>8, <3>11, <3>12
  <2> QED BY <1>12, <2>3, <2>4 DEF Continues
<1>13. \A r \in PyRuns' : r \in HeldRuns(pyInbox, pyAwaiting, pyExecuting, pyOutbox')
         \/ (r \in RunsOf(t) /\ LanguageOf[r.cell] = "Python")
      BY <1>3, <1>5
<1>14. \A r \in JsRuns' : r \in HeldRuns(jsInbox, jsAwaiting, jsExecuting, jsOutbox')
         \/ (r \in RunsOf(t) /\ LanguageOf[r.cell] = "Javascript")
      BY <1>4, <1>6
<1>15. /\ fetches' \subseteq Fetch
       /\ \A f \in fetches' : f \in F
            \/ (f.run \in RunsOf(t) /\ LanguageOf[f.run.cell] = "Connection")
      BY <1>7, <1>8
<1> QED BY <1>5, <1>6, <1>9, <1>11, <1>12, <1>13, <1>14, <1>15

\* What t has stored was computed by the code that it is labelled with.
StoresRight(t, tables) ==
    \A c \in Cells : (tables[c] # None /\ LanguageOf[c] \in CodeLanguages) =>
        tables[c] = table[c] \/ tables[c].ran = tables[c].code

\* What t stores may be wrong only if t has been run over.
LEMMA StoresKeeps ==
    ASSUME RunInv, NEW t \in Transactions, table' \in [Cells -> Table \cup {None}],
           interrupted \subseteq interrupted', Stores(t, table'),
           t \notin interrupted' => StoresRight(t, table')
    PROVE  ResultIsOfItsCode'
<1> SUFFICES ASSUME NEW c \in Cells, table'[c] # None, LanguageOf[c] \in CodeLanguages,
                    table'[c].by \notin interrupted'
             PROVE  table'[c].ran = table'[c].code
    BY DEF ResultIsOfItsCode
<1>1. CASE table'[c] = table[c]
      BY <1>1 DEF RunInv, ResultIsOfItsCode
<1>2. CASE table'[c] # table[c]
  <2>1. table'[c].by = t
        BY <1>2 DEF Stores
  <2> QED BY <1>2, <2>1 DEF StoresRight
<1> QED BY <1>1, <1>2

\* The core does something for t, after which t waits for the one run that it sends.
LEMMA CoreDoesKeeps ==
    ASSUME RunInv, NEW t \in Transactions, NEW o \in Outcome(t), NEW gone \in SUBSET Transactions,
           CoreDoes(t, o, gone), NEW F, F \subseteq fetches, fetches' = F \cup NewFetches(o.sent),
           code' \in [Cells -> Authors \cup {None}],
           lastTransactionId' \in [Languages -> Transactions \cup {None}],
           restarting' \in [CodeLanguages -> {"no", "cancel", "port"}],
           cancels' \in 0 .. MaxCancels, UNCHANGED <<pyWorkerVars, jsWorkerVars>>,
           HeldType(pyInbox, pyAwaiting, pyExecuting, pyOutbox'),
           HeldType(jsInbox, jsAwaiting, jsExecuting, jsOutbox'),
           HeldRuns(pyInbox, pyAwaiting, pyExecuting, pyOutbox') \subseteq PyRuns,
           HeldRuns(jsInbox, jsAwaiting, jsExecuting, jsOutbox') \subseteq JsRuns,
           \A u \in Transactions \ (interrupted \cup gone \cup {t}) : Left(u, F) = Total(u),
           t \notin interrupted' => Left(t, F) = 0 /\ Continues(t, o),
           Stores(t, o.tables), t \notin interrupted' => StoresRight(t, o.tables)
    PROVE  RunInv'
<1>1. /\ pyState' = pyState /\ pyTransactionId' = pyTransactionId /\ pyAwaiting' = pyAwaiting
      /\ pyExecuting' = pyExecuting /\ pyNexts' = pyNexts
      /\ jsState' = jsState /\ jsTransactionId' = jsTransactionId /\ jsAwaiting' = jsAwaiting
      /\ jsWithLineNumbers' = jsWithLineNumbers /\ jsExecuting' = jsExecuting /\ jsNexts' = jsNexts
      BY DEF pyWorkerVars, jsWorkerVars
<1>2. /\ o.p \in Pending /\ o.tables \in [Cells -> Table \cup {None}]
      /\ o.p.status = "open" <=> o.p.hasAsync > 0
      BY DEF Outcome
<1>3. /\ pending' = [pending EXCEPT ![t] = o.p] /\ table' = o.tables
      /\ interrupted' = interrupted \cup gone \cup RunsLost(o.sent)
      BY DEF CoreDoes
<1>4. RunsLost(o.sent) \subseteq {t}
      BY RunsLostType DEF Outcome
<1>5. pending \in [Transactions -> Pending]
      BY DEF RunInv, TypeOK, CoreTypeOK
<1>6. pending'[t] = o.p /\ \A u \in Transactions \ {t} : pending'[u] = pending[u]
      BY <1>3, <1>5
<1>7. /\ HeldType(pyInbox', pyAwaiting', pyExecuting', pyOutbox')
      /\ HeldType(jsInbox', jsAwaiting', jsExecuting', jsOutbox')
      /\ fetches' \subseteq Fetch /\ IsFiniteSet(fetches')
      /\ \A u \in Transactions \ {t} : Total(u)' = Left(u, F)
  <2>1. HeldType(pyInbox', pyAwaiting', pyExecuting', pyOutbox')
        BY <1>1, CoreSendsOne
  <2>2. HeldType(jsInbox', jsAwaiting', jsExecuting', jsOutbox')
        BY <1>1, CoreSendsOne
  <2>3. fetches' \subseteq Fetch /\ IsFiniteSet(fetches')
        BY <1>1, CoreSendsOne
  <2>4. \A u \in Transactions \ {t} : Total(u)' = Left(u, F)
        BY <1>1, CoreSendsOne
  <2> QED BY <2>1, <2>2, <2>3, <2>4
<1>8. \A r \in PyRuns' : r \in HeldRuns(pyInbox, pyAwaiting, pyExecuting, pyOutbox')
        \/ (r \in RunsOf(t) /\ LanguageOf[r.cell] = "Python")
      BY <1>1, CoreSendsOne
<1>9. \A r \in JsRuns' : r \in HeldRuns(jsInbox, jsAwaiting, jsExecuting, jsOutbox')
        \/ (r \in RunsOf(t) /\ LanguageOf[r.cell] = "Javascript")
      BY <1>1, CoreSendsOne
<1>10. \A f \in fetches' : f \in F
         \/ (f.run \in RunsOf(t) /\ LanguageOf[f.run.cell] = "Connection")
      BY <1>1, CoreSendsOne, ZenonT(30)
<1>11. t \notin interrupted' =>
         /\ Total(t)' = IF o.p.status = "open" THEN 1 ELSE 0
         /\ \A r \in PyRuns' \cup JsRuns' \cup Queries' : r.transaction = t => WaitedFor(r, o.p)
      BY <1>1, CoreSendsOne
<1>12. PyGood'
  <2>1. PyGood
        BY DEF RunInv
  <2>2. pyInbox' \in Seq(Run) /\ pyOutbox' \in Seq(Result \cup Question)
        BY <1>7 DEF HeldType
  <2> QED BY <1>1, <2>1, <2>2 DEF PyGood, PyTypeOK
<1>13. JsGood'
  <2>1. JsGood
        BY DEF RunInv
  <2>2. jsInbox' \in Seq(Run) /\ jsOutbox' \in Seq(Result \cup Question)
        BY <1>7 DEF HeldType
  <2> QED BY <1>1, <2>1, <2>2 DEF JsGood, JsTypeOK
<1>14. TypeOK'
  <2>1. pending' \in [Transactions -> Pending]
        BY <1>2, <1>3, <1>5
  <2>2. CoreTypeOK'
        BY <1>2, <1>3, <2>1 DEF CoreTypeOK
  <2>3. interrupted' \in SUBSET Transactions
        BY <1>3, <1>4 DEF RunInv, TypeOK
  <2> QED BY <1>7, <1>12, <1>13, <2>2, <2>3 DEF TypeOK, PyGood, JsGood
<1>15. LanguagesMatch'
  <2>1. LanguagesMatch
        BY DEF RunInv
  <2>2. \A r \in PyRuns' : r \in PyRuns \/ LanguageOf[r.cell] = "Python"
        BY <1>8
  <2>3. \A r \in JsRuns' : r \in JsRuns \/ LanguageOf[r.cell] = "Javascript"
        BY <1>9
  <2>4. \A r \in Queries' : r \in Queries \/ LanguageOf[r.cell] = "Connection"
        BY <1>10 DEF Queries
  <2> QED BY <2>1, <2>2, <2>3, <2>4 DEF LanguagesMatch
<1>16. \A u \in Transactions : Waits(u)'
      BY <1>2, <1>6 DEF Waits, RunInv
<1>17. ASSUME NEW u \in Transactions \ interrupted' PROVE Alone(u)'
  <2>1. CASE u = t
    <3>1. Continues(t, o)
          BY <2>1
    <3>2. /\ o.p.status # "lost"
          /\ o.p.status = "open" => o.p.current # None /\ o.p.hasAsync = 1
      <4>1. CASE o.sent = <<>> /\ o.p.status = "complete"
            BY <4>1
      <4>2. ASSUME NEW r \in RunsOf(t), o.p.status = "open", o.p.hasAsync = 1,
                   o.p.current = [cell |-> r.cell, code |-> r.code]
            PROVE  o.p.current # None
        <5>1. o.p.current \in [cell : Cells, code : Authors]
              BY <4>2 DEF RunsOf, Run
        <5> QED BY <5>1, CellsAssumption
      <4> QED BY <1>2, <3>1, <4>1, <4>2 DEF Continues
    <3> QED BY <1>6, <1>11, <2>1, <3>2 DEF Alone
  <2>2. CASE u # t
    <3>1. u \notin interrupted \cup gone \cup {t} /\ pending'[u] = pending[u]
          BY <1>3, <1>6, <2>2
    <3>2. Alone(u)
          BY <3>1 DEF RunInv
    <3>3. Total(u)' = Total(u)
          BY <1>7, <3>1
    <3>4. \A r \in PyRuns' \cup JsRuns' \cup Queries' :
            r.transaction = u => r \in PyRuns \cup JsRuns \cup Queries
      <4>1. \A r \in RunsOf(t) : r.transaction # u
            BY <2>2 DEF RunsOf
      <4> QED BY <1>8, <1>9, <1>10, <4>1 DEF Queries
    <3> QED BY <3>1, <3>2, <3>3, <3>4 DEF Alone
  <2> QED BY <2>1, <2>2
<1>18. ResultIsOfItsCode'
      BY <1>2, <1>3, StoresKeeps
<1> QED BY <1>7, <1>12, <1>13, <1>14, <1>15, <1>16, <1>17, <1>18 DEF RunInv

-----------------------------------------------------------------------------
(* Steps that hand nothing to a transaction. *)

\* Nothing is stored, and runs are lost only of transactions that are run over.
LEMMA RunsKeep ==
    ASSUME RunInv, TypeOK', PyGood', JsGood', IsFiniteSet(fetches'),
           interrupted \subseteq interrupted', table' = table,
           \A t \in Transactions : /\ pending'[t].status = pending[t].status
                                   /\ pending'[t].current = pending[t].current
                                   /\ pending'[t].hasAsync = pending[t].hasAsync,
           PyRuns' \subseteq PyRuns, JsRuns' \subseteq JsRuns, Queries' \subseteq Queries,
           \A t \in Transactions \ interrupted' : Total(t)' = Total(t)
    PROVE  RunInv'
<1>1. LanguagesMatch'
      BY DEF RunInv, LanguagesMatch
<1>2. \A t \in Transactions : Waits(t)'
      BY DEF RunInv, Waits
<1>3. ASSUME NEW t \in Transactions \ interrupted' PROVE Alone(t)'
  <2>1. Alone(t) /\ Total(t)' = Total(t)
        BY <1>3 DEF RunInv
  <2> QED BY <2>1 DEF Alone, WaitedFor
<1>4. ResultIsOfItsCode'
      BY DEF RunInv, ResultIsOfItsCode
<1> QED BY <1>1, <1>2, <1>3, <1>4 DEF RunInv

\* The workers have at most moved runs about.
LEMMA WorkersKeep ==
    ASSUME RunInv, TypeOK', PyGood', JsGood', PyKeeps, JsKeeps,
           UNCHANGED <<table, fetches, interrupted>>,
           \A t \in Transactions : /\ pending'[t].status = pending[t].status
                                   /\ pending'[t].current = pending[t].current
                                   /\ pending'[t].hasAsync = pending[t].hasAsync
    PROVE  RunInv'
<1>1. PyRuns' \subseteq PyRuns /\ JsRuns' \subseteq JsRuns
      BY DEF PyKeeps, JsKeeps, Keeps, PyRuns, JsRuns
<1>2. Queries' \subseteq Queries
      BY DEF Queries
<1>3. ASSUME NEW t \in Transactions \ interrupted' PROVE Total(t)' = Total(t)
  <2>1. Total(t) <= 1
        BY <1>3 DEF RunInv, Alone
  <2>2. PyNumber(t) \in Nat /\ JsNumber(t) \in Nat /\ QueryNumber(t) \in Nat
        BY TotalType
  <2>3. PyNumber(t) <= 1 /\ JsNumber(t) <= 1
        BY <2>1, <2>2 DEF Total
  <2>4. PyNumber(t)' = PyNumber(t)
        BY <2>3 DEF PyKeeps, Keeps, PyNumber
  <2>5. JsNumber(t)' = JsNumber(t)
        BY <2>3 DEF JsKeeps, Keeps, JsNumber
  <2>6. QueryNumber(t)' = QueryNumber(t)
        BY DEF QueryNumber
  <2> QED BY <2>4, <2>5, <2>6 DEF Total
<1>4. IsFiniteSet(fetches')
      BY DEF RunInv
<1> QED BY <1>1, <1>2, <1>3, <1>4, RunsKeep

LEMMA PyUnchanged ==
    ASSUME RunInv, UNCHANGED pyVars
    PROVE  PyGood' /\ PyKeeps
<1>1. /\ pyInbox' = pyInbox /\ pyOutbox' = pyOutbox /\ pyState' = pyState
      /\ pyTransactionId' = pyTransactionId /\ pyAwaiting' = pyAwaiting
      /\ pyExecuting' = pyExecuting /\ pyNexts' = pyNexts
      BY DEF pyVars, pyWorkerVars
<1>2. PyGood
      BY DEF RunInv
<1>3. PyKeeps
      BY <1>1, <1>2, PyHeldType, KeepsAll DEF PyKeeps
<1> QED BY <1>1, <1>2, <1>3 DEF PyGood, PyTypeOK

LEMMA JsUnchanged ==
    ASSUME RunInv, UNCHANGED jsVars
    PROVE  JsGood' /\ JsKeeps
<1>1. /\ jsInbox' = jsInbox /\ jsOutbox' = jsOutbox /\ jsState' = jsState
      /\ jsTransactionId' = jsTransactionId /\ jsAwaiting' = jsAwaiting
      /\ jsWithLineNumbers' = jsWithLineNumbers
      /\ jsExecuting' = jsExecuting /\ jsNexts' = jsNexts
      BY DEF jsVars, jsWorkerVars
<1>2. JsGood
      BY DEF RunInv
<1>3. JsKeeps
      BY <1>1, <1>2, JsHeldType, KeepsAll DEF JsKeeps
<1> QED BY <1>1, <1>2, <1>3 DEF JsGood, JsTypeOK

LEMMA WorkerStepsKeep ==
    ASSUME RunInv, PythonSteps \/ JavascriptSteps \/ UNCHANGED vars
    PROVE  RunInv'
<1>1. UNCHANGED coreVars /\ UNCHANGED runVars
      BY DEF PythonSteps, JavascriptSteps, vars
<1>2. PyGood' /\ PyKeeps /\ JsGood' /\ JsKeeps
  <2>1. PyGood /\ JsGood
        BY DEF RunInv
  <2>2. CASE PythonSteps
        BY <2>1, <2>2, PyStepKeeps, JsUnchanged DEF PythonSteps
  <2>3. CASE JavascriptSteps
        BY <2>1, <2>3, JsStepKeeps, PyUnchanged DEF JavascriptSteps
  <2>4. CASE UNCHANGED vars
        BY <2>4, PyUnchanged, JsUnchanged DEF vars
  <2> QED BY <2>2, <2>3, <2>4
<1>3. /\ UNCHANGED <<code, table, pending, lastTransactionId>>
      /\ UNCHANGED <<fetches, restarting, cancels, interrupted>>
      BY <1>1 DEF coreVars, runVars
<1>4. TypeOK'
      BY <1>2, <1>3 DEF RunInv, TypeOK, CoreTypeOK, PyGood, JsGood
<1> QED BY <1>2, <1>3, <1>4, WorkersKeep

\* A question is answered.
LEMMA QuestionKeeps ==
    ASSUME RunInv, NEW t \in Transactions, NEW cells \in SUBSET Cells, CalculationGetCells(t, cells),
           UNCHANGED <<code, table, lastTransactionId, runVars>>,
           PyGood', JsGood', PyKeeps, JsKeeps
    PROVE  RunInv'
<1>1. UNCHANGED <<fetches, restarting, cancels, interrupted>>
      BY DEF runVars
<1>2. pending \in [Transactions -> Pending]
      BY DEF RunInv, TypeOK, CoreTypeOK
<1>3. /\ pending' \in [Transactions -> Pending]
      /\ \A u \in Transactions : /\ pending'[u].status = pending[u].status
                                 /\ pending'[u].current = pending[u].current
                                 /\ pending'[u].hasAsync = pending[u].hasAsync
  <2>1. CASE UNCHANGED pending
        BY <1>2, <2>1
  <2>2. CASE pending' = [pending EXCEPT ![t].accessed = @ \cup cells]
    <3> DEFINE p == [pending[t] EXCEPT !.accessed = @ \cup cells]
    <3>1. pending[t] \in Pending
          BY <1>2
    <3>2. /\ p \in Pending /\ p.status = pending[t].status /\ p.current = pending[t].current
          /\ p.hasAsync = pending[t].hasAsync
          BY <3>1 DEF Pending
    <3>3. pending' = [pending EXCEPT ![t] = p]
          BY <2>2
    <3> HIDE DEF p
    <3> QED BY <1>2, <3>2, <3>3
  <2> QED BY <2>1, <2>2 DEF CalculationGetCells
<1>4. TypeOK'
      BY <1>1, <1>3 DEF RunInv, TypeOK, CoreTypeOK, PyGood, JsGood
<1> QED BY <1>1, <1>3, <1>4, WorkersKeep

\* A worker is stopped: those whose runs are gone have been run over.
LEMMA RestartedNumber ==
    ASSUME NEW i, NEW a, NEW e, NEW o, HeldType(i, a, e, o)
    PROVE  /\ HeldType(<<>>, <<>>, {}, o)
           /\ HeldRuns(<<>>, <<>>, {}, o) \subseteq HeldRuns(i, a, e, o)
           /\ \A t \in Transactions \ RestartedTransactions(i, a, e) :
                NumberHeld(t, <<>>, <<>>, {}, o) = NumberHeld(t, i, a, e, o)
<1>1. HeldType(<<>>, <<>>, {}, o)
      BY FS_EmptySet DEF HeldType
<1>2. HeldRuns(<<>>, <<>>, {}, o) \subseteq HeldRuns(i, a, e, o)
      BY DEF HeldRuns, ToSet
<1>3. ASSUME NEW t \in Transactions \ RestartedTransactions(i, a, e)
      PROVE  NumberHeld(t, <<>>, <<>>, {}, o) = NumberHeld(t, i, a, e, o)
  <2>1. \A r \in ToSet(i) \cup ToSet(a) \cup {x.run : x \in e} : r.transaction # t
        BY <1>3 DEF RestartedTransactions
  <2>2. i \in Seq(Run) /\ a \in Seq(Run) /\ IsFiniteSet(e)
        BY DEF HeldType
  <2>3. /\ \A k \in DOMAIN i : i[k] \notin RunsOf(t)
        /\ \A k \in DOMAIN a : a[k] \notin RunsOf(t)
        BY <2>1 DEF ToSet, RunsOf
  <2>4. Number(i, RunsOf(t)) = 0 /\ Number(a, RunsOf(t)) = 0
        BY <2>2, <2>3, NumberType
  <2>5. Cardinality(OfTransaction(e, t)) = 0
        BY <2>1, <2>2, OfTransactionType
  <2>6. Cardinality(OfTransaction({}, t)) = 0
        BY FS_EmptySet, OfTransactionType
  <2>7. Number(<<>>, RunsOf(t)) = 0
        BY NumberEmpty
  <2>8. NumberHeld(t, i, a, e, o) = Number(i, RunsOf(t)) + Number(a, RunsOf(t))
          + Cardinality(OfTransaction(e, t)) + Number(o, ResultsOf(t))
        BY NumberHeldType
  <2>9. NumberHeld(t, <<>>, <<>>, {}, o) = Number(<<>>, RunsOf(t)) + Number(<<>>, RunsOf(t))
          + Cardinality(OfTransaction({}, t)) + Number(o, ResultsOf(t))
        BY <1>1, NumberHeldType
  <2> QED BY <2>4, <2>5, <2>6, <2>7, <2>8, <2>9
<1> QED BY <1>1, <1>2, <1>3

\* The user stops a worker.
LEMMA UserCancelsWorkerKeeps ==
    ASSUME RunInv, NEW l \in CodeLanguages, UserCancelsWorker(l)
    PROVE  RunInv'
<1>0. PyGood /\ JsGood /\ TypeOK
      BY DEF RunInv
<1>1. /\ restarting' \in [CodeLanguages -> {"no", "cancel", "port"}] /\ cancels' \in 0 .. MaxCancels
  <2>1. cancels \in 0 .. MaxCancels /\ cancels < MaxCancels /\ cancels' = cancels + 1
        BY <1>0 DEF TypeOK, UserCancelsWorker
  <2>2. cancels' \in 0 .. MaxCancels
        BY <2>1, MaxCancelsAssumption
  <2>3. /\ restarting \in [CodeLanguages -> {"no", "cancel", "port"}]
        /\ restarting' = [restarting EXCEPT ![l] = "cancel"]
        BY <1>0 DEF TypeOK, UserCancelsWorker
  <2> QED BY <2>2, <2>3
<1>2. UNCHANGED <<code, table, pending, lastTransactionId, fetches>>
      BY DEF UserCancelsWorker, coreVars
<1>3. Queries' = Queries /\ \A t : QueryNumber(t)' = QueryNumber(t)
      BY <1>2 DEF Queries, QueryNumber
<1>4. CASE l = "Python"
  <2>1. /\ pyState' = "loading" /\ pyTransactionId' = None /\ pyAwaiting' = <<>>
        /\ pyExecuting' = {} /\ pyNexts' = 0 /\ pyInbox' = <<>> /\ pyOutbox' = pyOutbox
        /\ interrupted' = interrupted \cup RestartedTransactions(pyInbox, pyAwaiting, pyExecuting)
        /\ UNCHANGED jsVars
        BY <1>4 DEF UserCancelsWorker, PyRestart
  <2>2. /\ PyRuns' \subseteq PyRuns
        /\ \A t \in Transactions \ interrupted' : PyNumber(t)' = PyNumber(t)
        BY <1>0, <2>1, PyHeldType, RestartedNumber DEF PyRuns, PyNumber
  <2>3. PyGood'
        BY <1>0, <2>1, FS_EmptySet DEF PyGood, PyTypeOK
  <2>4. JsGood' /\ JsRuns' = JsRuns /\ \A t : JsNumber(t)' = JsNumber(t)
        BY <2>1, JsUnchanged DEF jsVars, jsWorkerVars, JsRuns, JsNumber
  <2>5. interrupted' \in SUBSET Transactions
    <3>1. RestartedTransactions(pyInbox, pyAwaiting, pyExecuting) \subseteq Transactions
      <4>1. ToSet(pyInbox) \subseteq Run /\ ToSet(pyAwaiting) \subseteq Run
            BY <1>0, ToSetType DEF PyGood, PyTypeOK
      <4>2. \A e \in pyExecuting : e.run \in Run
            BY <1>0 DEF PyGood, PyTypeOK, PyExecution
      <4> QED BY <4>1, <4>2 DEF RestartedTransactions, Run
    <3> QED BY <1>0, <2>1, <3>1 DEF TypeOK
  <2>6. TypeOK'
        BY <1>0, <1>1, <1>2, <2>3, <2>4, <2>5 DEF TypeOK, CoreTypeOK, PyGood, JsGood
  <2>7. \A t \in Transactions \ interrupted' : Total(t)' = Total(t)
        BY <1>3, <2>2, <2>4 DEF Total
  <2>8. IsFiniteSet(fetches') /\ interrupted \subseteq interrupted'
        BY <1>2, <2>1 DEF RunInv
  <2> QED BY <1>2, <1>3, <2>2, <2>3, <2>4, <2>6, <2>7, <2>8, RunsKeep
<1>5. CASE l # "Python"
  <2>1. /\ jsState' = "loading" /\ jsTransactionId' = None /\ jsAwaiting' = <<>>
        /\ jsWithLineNumbers' = TRUE
        /\ jsExecuting' = {} /\ jsNexts' = 0 /\ jsInbox' = <<>> /\ jsOutbox' = jsOutbox
        /\ interrupted' = interrupted \cup RestartedTransactions(jsInbox, jsAwaiting, jsExecuting)
        /\ UNCHANGED pyVars
        BY <1>5 DEF UserCancelsWorker, JsRestart
  <2>2. /\ JsRuns' \subseteq JsRuns
        /\ \A t \in Transactions \ interrupted' : JsNumber(t)' = JsNumber(t)
        BY <1>0, <2>1, JsHeldType, RestartedNumber DEF JsRuns, JsNumber
  <2>3. JsGood'
        BY <1>0, <2>1, FS_EmptySet DEF JsGood, JsTypeOK
  <2>4. PyGood' /\ PyRuns' = PyRuns /\ \A t : PyNumber(t)' = PyNumber(t)
        BY <2>1, PyUnchanged DEF pyVars, pyWorkerVars, PyRuns, PyNumber
  <2>5. interrupted' \in SUBSET Transactions
    <3>1. RestartedTransactions(jsInbox, jsAwaiting, jsExecuting) \subseteq Transactions
      <4>1. ToSet(jsInbox) \subseteq Run /\ ToSet(jsAwaiting) \subseteq Run
            BY <1>0, ToSetType DEF JsGood, JsTypeOK
      <4>2. \A e \in jsExecuting : e.run \in Run
            BY <1>0 DEF JsGood, JsTypeOK, JsExecution
      <4> QED BY <4>1, <4>2 DEF RestartedTransactions, Run
    <3> QED BY <1>0, <2>1, <3>1 DEF TypeOK
  <2>6. TypeOK'
        BY <1>0, <1>1, <1>2, <2>3, <2>4, <2>5 DEF TypeOK, CoreTypeOK, PyGood, JsGood
  <2>7. \A t \in Transactions \ interrupted' : Total(t)' = Total(t)
        BY <1>3, <2>2, <2>4 DEF Total
  <2>8. IsFiniteSet(fetches') /\ interrupted \subseteq interrupted'
        BY <1>2, <2>1 DEF RunInv
  <2> QED BY <1>2, <1>3, <2>2, <2>3, <2>4, <2>6, <2>7, <2>8, RunsKeep
<1> QED BY <1>4, <1>5

-----------------------------------------------------------------------------
(* Steps of the core for a transaction. *)

\* What the invariant says of a step for t.
LEMMA CoreFacts ==
    ASSUME RunInv
    PROVE  /\ CoreTypeOK /\ \A t \in Transactions : Waits(t)
           /\ code \in [Cells -> Authors \cup {None}]
           /\ table \in [Cells -> Table \cup {None}]
           /\ pending \in [Transactions -> Pending]
           /\ lastTransactionId \in [Languages -> Transactions \cup {None}]
           /\ restarting \in [CodeLanguages -> {"no", "cancel", "port"}]
           /\ cancels \in 0 .. MaxCancels
           /\ HeldType(pyInbox, pyAwaiting, pyExecuting, pyOutbox)
           /\ HeldType(jsInbox, jsAwaiting, jsExecuting, jsOutbox)
           /\ IsFiniteSet(fetches) /\ fetches \subseteq Fetch
<1>1. CoreTypeOK /\ PyGood /\ JsGood
      BY DEF RunInv, TypeOK
<1> QED BY <1>1, PyHeldType, JsHeldType DEF RunInv, TypeOK, CoreTypeOK

LEMMA SameTables ==
    ASSUME NEW t, NEW tables, \A c \in Cells : tables[c] # None => tables[c] = table[c]
    PROVE  Stores(t, tables) /\ StoresRight(t, tables)
BY DEF Stores, StoresRight

LEMMA NothingTaken ==
    ASSUME RunInv, UNCHANGED <<pyOutbox, jsOutbox>>, NEW t \in Transactions
    PROVE  Left(t, fetches) = Total(t)
BY TotalType DEF Left, Total, PyNumber, JsNumber

\* The user begins a transaction.
LEMMA UserBeginsKeeps ==
    ASSUME RunInv, NEW t \in Transactions, NEW codes, NEW outcomes, UserBegins(t, codes, outcomes),
           codes \in [Cells -> Authors \cup {None}],
           \A o \in outcomes : /\ o \in Outcome(t) /\ Continues(t, o)
                               /\ \A c \in Cells : o.tables[c] # None => o.tables[c] = table[c]
    PROVE  RunInv'
<1>1. PICK o \in outcomes : /\ CoreDoes(t, o, {})
                            /\ fetches' = fetches \cup NewFetches(o.sent)
                            /\ lastTransactionId' = LastSentBut(o.sent, {})
      BY DEF UserBegins
<1>2. /\ o \in Outcome(t) /\ Continues(t, o) /\ o.sent \in Sent(t)
      /\ Stores(t, o.tables) /\ StoresRight(t, o.tables)
      BY SameTables DEF Outcome
<1>3. /\ code' = codes /\ pending[t].status = "unused"
      /\ UNCHANGED <<pyWorkerVars, jsWorkerVars>>
      /\ pyOutbox' = pyOutbox /\ jsOutbox' = jsOutbox /\ restarting' = restarting
      /\ cancels' = cancels
      BY DEF UserBegins
<1>4. lastTransactionId' \in [Languages -> Transactions \cup {None}]
      BY <1>1, <1>2, CoreFacts, LastSentButType
<1>5. \A u \in Transactions : Left(u, fetches) = Total(u)
      BY <1>3, NothingTaken
<1>6. t \notin interrupted' => Left(t, fetches) = 0
  <2>1. interrupted \subseteq interrupted'
        BY <1>1 DEF CoreDoes
  <2>2. t \notin interrupted => Total(t) = 0
        BY <1>3 DEF RunInv, Alone
  <2> QED BY <1>5, <2>1, <2>2
<1>7. /\ HeldType(pyInbox, pyAwaiting, pyExecuting, pyOutbox')
      /\ HeldType(jsInbox, jsAwaiting, jsExecuting, jsOutbox')
      /\ HeldRuns(pyInbox, pyAwaiting, pyExecuting, pyOutbox') \subseteq PyRuns
      /\ HeldRuns(jsInbox, jsAwaiting, jsExecuting, jsOutbox') \subseteq JsRuns
      /\ restarting' \in [CodeLanguages -> {"no", "cancel", "port"}] /\ cancels' \in 0 .. MaxCancels
      BY <1>3, CoreFacts DEF PyRuns, JsRuns
<1> QED BY <1>1, <1>2, <1>3, <1>4, <1>5, <1>6, <1>7, CoreDoesKeeps

LEMMA UserBeginsSteps ==
    ASSUME RunInv, NEW t \in Transactions
    PROVE  /\ \A c \in Cells : UserSetsCode(t, c) \/ UserDeletesCode(t, c) => RunInv'
           /\ UserReruns(t) => RunInv'
<1>0. /\ CoreTypeOK /\ Waits(t) /\ t \in Authors
      /\ code \in [Cells -> Authors \cup {None}] /\ table \in [Cells -> Table \cup {None}]
      BY CoreFacts DEF Authors
<1>1. ASSUME NEW c \in Cells, UserSetsCode(t, c) PROVE RunInv'
  <2> DEFINE codes == [code EXCEPT ![c] = t]
  <2>1. codes \in [Cells -> Authors \cup {None}] /\ pending[t].status = "unused"
        BY <1>0, <1>1 DEF UserSetsCode, UserBegins
  <2>2. UserBegins(t, codes, SetCodeCell(t, c))
        BY <1>1 DEF UserSetsCode
  <2>3. ASSUME NEW o \in SetCodeCell(t, c)
        PROVE  o \in Outcome(t) /\ Continues(t, o) /\ o.tables = table
    <3>1. PICK ops \in AddComputeOperations(<<c>>, table, c, {}) : o = BeginUser(t, codes, table, ops)
          BY DEF SetCodeCell
    <3>2. ops \in Seq(Cells)
      <4>1. <<c>> \in Seq(Cells)
            OBVIOUS
      <4> QED BY <3>1, <4>1, AddComputeOperationsType
    <3> HIDE DEF codes
    <3> QED BY <1>0, <2>1, <3>1, <3>2, BeginUserType
  <2> HIDE DEF codes
  <2> QED BY <2>1, <2>2, <2>3, UserBeginsKeeps
<1>2. ASSUME NEW c \in Cells, UserDeletesCode(t, c) PROVE RunInv'
  <2> DEFINE codes == [code EXCEPT ![c] = None]
             tables == [table EXCEPT ![c] = None]
  <2>1. /\ codes \in [Cells -> Authors \cup {None}] /\ pending[t].status = "unused"
        /\ tables \in [Cells -> Table \cup {None}]
        /\ \A d \in Cells : tables[d] # None => tables[d] = table[d]
        BY <1>0, <1>2 DEF UserDeletesCode, UserBegins
  <2>2. UserBegins(t, codes, DeleteCodeCell(t, c))
        BY <1>2 DEF UserDeletesCode
  <2>3. ASSUME NEW o \in DeleteCodeCell(t, c)
        PROVE  o \in Outcome(t) /\ Continues(t, o) /\ o.tables = tables
    <3>1. PICK ops \in AddComputeOperations(<<>>, tables, c, {c}) : o = BeginUser(t, codes, tables, ops)
          BY DEF DeleteCodeCell
    <3> HIDE DEF codes, tables
    <3>2. ops \in Seq(Cells)
      <4>1. <<>> \in Seq(Cells)
            OBVIOUS
      <4> QED BY <3>1, <4>1, AddComputeOperationsType
    <3> QED BY <1>0, <2>1, <3>1, <3>2, BeginUserType
  <2> HIDE DEF codes, tables
  <2> QED BY <2>1, <2>2, <2>3, UserBeginsKeeps
<1>3. ASSUME UserReruns(t) PROVE RunInv'
  <2> DEFINE S == {c \in Cells : table[c] # None}
  <2>1. UserBegins(t, code, RerunAllCodeCells(t)) /\ pending[t].status = "unused"
        BY <1>3 DEF UserReruns, UserBegins
  <2>2. ASSUME NEW o \in RerunAllCodeCells(t)
        PROVE  o \in Outcome(t) /\ Continues(t, o) /\ o.tables = table
    <3>1. PICK cells \in SetToSeqs(S) : o = BeginUser(t, code, table, OrderCodeCells(cells))
          BY <2>2 DEF RerunAllCodeCells
    <3>2. cells \in Seq(Cells)
      <4>1. S \subseteq Cells /\ IsFiniteSet(S)
            BY FS_Subset, CellsAssumption
      <4> HIDE DEF S
      <4>2. Cardinality(S) \in Nat
            BY <4>1, FS_CardinalityType
      <4>3. cells \in [1 .. Cardinality(S) -> Cells]
            BY <3>1, <4>1 DEF SetToSeqs
      <4> QED BY <4>2, <4>3
    <3>3. OrderCodeCells(cells) \in Seq(Cells)
          BY <3>2, OrderCodeCellsType
    <3> QED BY <1>0, <2>1, <3>1, <3>3, BeginUserType
  <2> QED BY <1>0, <2>1, <2>2, UserBeginsKeeps
<1> QED BY <1>1, <1>2, <1>3

\* The result of a run of t: if nothing has run over t, it is the one that t waits for.
LEMMA HandleResultKeeps ==
    ASSUME RunInv, NEW l \in CodeLanguages, NEW m, HandleResult(l, m), m.run \in Run,
           LanguageOf[m.run.cell] = l, m.run \in PyRuns \cup JsRuns,
           UNCHANGED <<pyWorkerVars, jsWorkerVars, restarting, cancels>>,
           HeldType(pyInbox, pyAwaiting, pyExecuting, pyOutbox'),
           HeldType(jsInbox, jsAwaiting, jsExecuting, jsOutbox'),
           HeldRuns(pyInbox, pyAwaiting, pyExecuting, pyOutbox') \subseteq PyRuns,
           HeldRuns(jsInbox, jsAwaiting, jsExecuting, jsOutbox') \subseteq JsRuns,
           \A u \in Transactions : /\ Left(u, fetches) \in Nat
                                   /\ Total(u) = Left(u, fetches)
                                        + (IF m.run.transaction = u THEN 1 ELSE 0)
    PROVE  RunInv'
<1> DEFINE t == m.run.transaction
           done == IF lastTransactionId[l] = t THEN {l} ELSE {}
<1>1. t \in Transactions /\ m.run.code \in Authors
      BY DEF Run
<1>2. PICK o \in CalculationComplete(t, m.run.code, FALSE) :
           /\ CoreDoes(t, o, {})
           /\ fetches' = fetches \cup NewFetches(o.sent)
           /\ lastTransactionId' = LastSentBut(o.sent, done)
           /\ UNCHANGED code
      BY DEF HandleResult
<1> HIDE DEF t, done
<1>3. o \in Outcome(t) /\ Stores(t, o.tables)
      BY <1>1, CoreFacts, CalculationCompleteType
<1>4. ASSUME t \notin interrupted'
      PROVE  Left(t, fetches) = 0 /\ Continues(t, o) /\ StoresRight(t, o.tables)
  <2>1. Alone(t)
        BY <1>1, <1>2, <1>4 DEF CoreDoes, RunInv
  <2>2. Total(t) = Left(t, fetches) + 1 /\ Left(t, fetches) \in Nat
        BY <1>1 DEF t
  <2>3. pending[t].status = "open" /\ Left(t, fetches) = 0
        BY <2>1, <2>2 DEF Alone
  <2>4. /\ pending[t].current # None /\ pending[t].hasAsync = 1
        /\ m.run.cell = pending[t].current.cell /\ m.run.code = pending[t].current.code
        BY <2>1, <2>3 DEF Alone, WaitedFor, t
  <2>5. LanguageOf[pending[t].current.cell] \in CodeLanguages
        BY <2>4
  <2>6. /\ Continues(t, o)
        /\ \E accessed \in SUBSET Cells :
             o.tables = [table EXCEPT ![pending[t].current.cell] =
               [code |-> pending[t].current.code, ran |-> m.run.code, accessed |-> accessed, by |-> t]]
    <3>1. CoreTypeOK /\ o \in CalculationComplete(t, m.run.code, FALSE)
          BY <1>2, CoreFacts
    <3> QED BY <1>1, <2>3, <2>4, <2>5, <3>1, CalculationContinues, ZenonT(30)
  <2>7. PICK accessed \in SUBSET Cells :
             o.tables = [table EXCEPT ![pending[t].current.cell] =
               [code |-> pending[t].current.code, ran |-> m.run.code, accessed |-> accessed, by |-> t]]
        BY <2>6
  <2> DEFINE new == [code |-> pending[t].current.code, ran |-> m.run.code, accessed |-> accessed, by |-> t]
  <2>8. o.tables = [table EXCEPT ![pending[t].current.cell] = new] /\ new.ran = new.code
        BY <2>4, <2>7
  <2> HIDE DEF new
  <2>9. StoresRight(t, o.tables)
        BY <2>8, CoreFacts DEF StoresRight
  <2> QED BY <2>3, <2>6, <2>9
<1>5. lastTransactionId' \in [Languages -> Transactions \cup {None}]
  <2>1. o.sent \in Sent(t)
        BY <1>3 DEF Outcome
  <2> QED BY <1>1, <1>2, <2>1, CoreFacts, LastSentButType
<1>6. \A u \in Transactions \ (interrupted \cup {} \cup {t}) : Left(u, fetches) = Total(u)
      BY DEF t
<1>7. /\ code' \in [Cells -> Authors \cup {None}]
      /\ restarting' \in [CodeLanguages -> {"no", "cancel", "port"}]
      /\ cancels' \in 0 .. MaxCancels /\ UNCHANGED <<pyWorkerVars, jsWorkerVars>>
      BY <1>2, CoreFacts
<1> QED BY <1>1, <1>2, <1>3, <1>4, <1>5, <1>6, <1>7, CoreDoesKeeps

LEMMA LeftType ==
    ASSUME HeldType(pyInbox, pyAwaiting, pyExecuting, pyOutbox'),
           HeldType(jsInbox, jsAwaiting, jsExecuting, jsOutbox'),
           NEW F, IsFiniteSet(F), NEW t \in Transactions
    PROVE  /\ NumberHeld(t, pyInbox, pyAwaiting, pyExecuting, pyOutbox') \in Nat
           /\ NumberHeld(t, jsInbox, jsAwaiting, jsExecuting, jsOutbox') \in Nat
           /\ Cardinality(OfTransaction(F, t)) \in Nat /\ Left(t, F) \in Nat
<1>1. /\ NumberHeld(t, pyInbox, pyAwaiting, pyExecuting, pyOutbox') \in Nat
      /\ NumberHeld(t, jsInbox, jsAwaiting, jsExecuting, jsOutbox') \in Nat
      BY NumberHeldType
<1>2. Cardinality(OfTransaction(F, t)) \in Nat
      BY OfTransactionType
<1> QED BY <1>1, <1>2 DEF Left

\* The core takes a message of the Python worker.
LEMMA CoreHandlesPythonKeeps ==
    ASSUME RunInv, CoreHandlesPython
    PROVE  RunInv'
<1> DEFINE m == Head(pyOutbox)
<1>1. pyOutbox # <<>> /\ pyOutbox' = Tail(pyOutbox)
      BY DEF CoreHandlesPython
<1>2. CASE m.type = "result"
  <2>1. /\ m.type = "result" /\ HandleResult("Python", m)
        /\ UNCHANGED <<pyWorkerVars, jsOutbox, jsWorkerVars, restarting, cancels>>
        BY <1>2 DEF CoreHandlesPython
  <2>2. /\ m.run \in Run /\ m.run \in PyRuns
        /\ HeldType(pyInbox, pyAwaiting, pyExecuting, pyOutbox')
        /\ HeldRuns(pyInbox, pyAwaiting, pyExecuting, pyOutbox') \subseteq PyRuns
        /\ \A u \in Transactions : PyNumber(u) =
             NumberHeld(u, pyInbox, pyAwaiting, pyExecuting, pyOutbox')
               + (IF m.run.transaction = u THEN 1 ELSE 0)
        BY <1>1, <1>2, CoreFacts, ResultHandled DEF PyRuns, PyNumber
  <2> HIDE DEF m
  <2>3. LanguageOf[m.run.cell] = "Python"
        BY <2>2 DEF RunInv, LanguagesMatch
  <2>4. HeldType(jsInbox, jsAwaiting, jsExecuting, jsOutbox') /\ IsFiniteSet(fetches)
        BY <2>1, CoreFacts
  <2>5. HeldRuns(jsInbox, jsAwaiting, jsExecuting, jsOutbox') \subseteq JsRuns
        BY <2>1 DEF JsRuns
  <2>6. ASSUME NEW u \in Transactions
        PROVE  /\ Left(u, fetches) \in Nat
               /\ Total(u) = Left(u, fetches) + (IF m.run.transaction = u THEN 1 ELSE 0)
    <3>1. /\ NumberHeld(u, pyInbox, pyAwaiting, pyExecuting, pyOutbox') \in Nat
          /\ NumberHeld(u, jsInbox, jsAwaiting, jsExecuting, jsOutbox') \in Nat
          /\ Cardinality(OfTransaction(fetches, u)) \in Nat /\ Left(u, fetches) \in Nat
          BY <2>2, <2>4, LeftType
    <3>2. JsNumber(u) = NumberHeld(u, jsInbox, jsAwaiting, jsExecuting, jsOutbox')
          BY <2>1 DEF JsNumber
    <3>3. QueryNumber(u) = Cardinality(OfTransaction(fetches, u))
          BY TotalType
    <3> QED BY <2>2, <3>1, <3>2, <3>3 DEF Left, Total
  <2>7. m.run \in PyRuns \cup JsRuns /\ "Python" \in CodeLanguages
        BY <2>2 DEF CodeLanguages
  <2> QED BY <2>1, <2>2, <2>3, <2>4, <2>5, <2>6, <2>7, HandleResultKeeps
<1>3. CASE m.type = "cells"
  <2>1. /\ CalculationGetCells(m.transaction, Reads[m.run.cell]) /\ PyAnswered(m.run)
        /\ UNCHANGED <<code, table, lastTransactionId, jsVars, runVars>>
        BY <1>3 DEF CoreHandlesPython
  <2>2. m \in Question
    <3>1. pyOutbox \in Seq(Result \cup Question)
          BY CoreFacts DEF HeldType
    <3>2. m \in Result \cup Question
          BY <1>1, <3>1, ToSetTail
    <3> QED BY <1>3, <3>2 DEF Result
  <2>3. m.transaction \in Transactions /\ Reads[m.run.cell] \in SUBSET Cells
        BY <2>2, CellsAssumption DEF Question, Run
  <2>4. PyGood' /\ PyKeeps
        BY <1>1, <1>3, <2>1, PyAnsweredKeeps DEF RunInv
  <2>5. JsGood' /\ JsKeeps
        BY <2>1, JsUnchanged
  <2> HIDE DEF m
  <2> QED BY <2>1, <2>3, <2>4, <2>5, QuestionKeeps
<1> QED BY <1>2, <1>3 DEF CoreHandlesPython

\* The core takes a message of the Javascript worker.
LEMMA CoreHandlesJavascriptKeeps ==
    ASSUME RunInv, CoreHandlesJavascript
    PROVE  RunInv'
<1> DEFINE m == Head(jsOutbox)
<1>1. jsOutbox # <<>> /\ jsOutbox' = Tail(jsOutbox)
      BY DEF CoreHandlesJavascript
<1>2. CASE m.type = "result"
  <2>1. /\ m.type = "result" /\ HandleResult("Javascript", m)
        /\ UNCHANGED <<jsWorkerVars, pyOutbox, pyWorkerVars, restarting, cancels>>
        BY <1>2 DEF CoreHandlesJavascript
  <2>2. /\ m.run \in Run /\ m.run \in JsRuns
        /\ HeldType(jsInbox, jsAwaiting, jsExecuting, jsOutbox')
        /\ HeldRuns(jsInbox, jsAwaiting, jsExecuting, jsOutbox') \subseteq JsRuns
        /\ \A u \in Transactions : JsNumber(u) =
             NumberHeld(u, jsInbox, jsAwaiting, jsExecuting, jsOutbox')
               + (IF m.run.transaction = u THEN 1 ELSE 0)
        BY <1>1, <1>2, CoreFacts, ResultHandled DEF JsRuns, JsNumber
  <2> HIDE DEF m
  <2>3. LanguageOf[m.run.cell] = "Javascript"
        BY <2>2 DEF RunInv, LanguagesMatch
  <2>4. HeldType(pyInbox, pyAwaiting, pyExecuting, pyOutbox') /\ IsFiniteSet(fetches)
        BY <2>1, CoreFacts
  <2>5. HeldRuns(pyInbox, pyAwaiting, pyExecuting, pyOutbox') \subseteq PyRuns
        BY <2>1 DEF PyRuns
  <2>6. ASSUME NEW u \in Transactions
        PROVE  /\ Left(u, fetches) \in Nat
               /\ Total(u) = Left(u, fetches) + (IF m.run.transaction = u THEN 1 ELSE 0)
    <3>1. /\ NumberHeld(u, pyInbox, pyAwaiting, pyExecuting, pyOutbox') \in Nat
          /\ NumberHeld(u, jsInbox, jsAwaiting, jsExecuting, jsOutbox') \in Nat
          /\ Cardinality(OfTransaction(fetches, u)) \in Nat /\ Left(u, fetches) \in Nat
          BY <2>2, <2>4, LeftType
    <3>2. PyNumber(u) = NumberHeld(u, pyInbox, pyAwaiting, pyExecuting, pyOutbox')
          BY <2>1 DEF PyNumber
    <3>3. QueryNumber(u) = Cardinality(OfTransaction(fetches, u))
          BY TotalType
    <3> QED BY <2>2, <3>1, <3>2, <3>3 DEF Left, Total
  <2>7. m.run \in PyRuns \cup JsRuns /\ "Javascript" \in CodeLanguages
        BY <2>2 DEF CodeLanguages
  <2> QED BY <2>1, <2>2, <2>3, <2>4, <2>5, <2>6, <2>7, HandleResultKeeps
<1>3. CASE m.type = "cells"
  <2>1. /\ CalculationGetCells(m.transaction, Reads[m.run.cell]) /\ JsAnswered(m.run)
        /\ UNCHANGED <<code, table, lastTransactionId, pyVars, runVars>>
        BY <1>3 DEF CoreHandlesJavascript
  <2>2. m \in Question
    <3>1. jsOutbox \in Seq(Result \cup Question)
          BY CoreFacts DEF HeldType
    <3>2. m \in Result \cup Question
          BY <1>1, <3>1, ToSetTail
    <3> QED BY <1>3, <3>2 DEF Result
  <2>3. m.transaction \in Transactions /\ Reads[m.run.cell] \in SUBSET Cells
        BY <2>2, CellsAssumption DEF Question, Run
  <2>4. JsGood' /\ JsKeeps
        BY <1>1, <1>3, <2>1, JsAnsweredKeeps DEF RunInv
  <2>5. PyGood' /\ PyKeeps
        BY <2>1, PyUnchanged
  <2> HIDE DEF m
  <2> QED BY <2>1, <2>3, <2>4, <2>5, QuestionKeeps
<1> QED BY <1>2, <1>3 DEF CoreHandlesJavascript

-----------------------------------------------------------------------------
(* Queries, cancellations and the port of a new worker. *)

\* What a step of the core for t finds when it takes nothing from the workers.
LEMMA OutboxesUnchanged ==
    ASSUME RunInv, UNCHANGED <<pyOutbox, jsOutbox>>
    PROVE  /\ HeldType(pyInbox, pyAwaiting, pyExecuting, pyOutbox')
           /\ HeldType(jsInbox, jsAwaiting, jsExecuting, jsOutbox')
           /\ HeldRuns(pyInbox, pyAwaiting, pyExecuting, pyOutbox') \subseteq PyRuns
           /\ HeldRuns(jsInbox, jsAwaiting, jsExecuting, jsOutbox') \subseteq JsRuns
           /\ \A F : \A u \in Transactions : Left(u, F) =
                PyNumber(u) + JsNumber(u) + Cardinality(OfTransaction(F, u))
BY CoreFacts DEF PyRuns, JsRuns, PyNumber, JsNumber, Left

\* The core answers a query or a cancellation: it forgets the last transaction.
LEMMA LastForgotten ==
    ASSUME CoreTypeOK, NEW t \in Transactions, NEW sent \in Sent(t), NEW l
    PROVE  [LastSentBut(sent, {}) EXCEPT ![l] = None] \in [Languages -> Transactions \cup {None}]
<1> DEFINE last == LastSentBut(sent, {})
<1>1. last \in [Languages -> Transactions \cup {None}]
      BY LastSentButType
<1> HIDE DEF last
<1>2. [last EXCEPT ![l] = None] \in [Languages -> Transactions \cup {None}]
      BY <1>1
<1> QED BY <1>2 DEF last

\* A query gets its token.
LEMMA FetchTokenComesKeeps ==
    ASSUME RunInv, NEW f \in fetches, FetchTokenComes(f)
    PROVE  RunInv'
<1> DEFINE d == [f EXCEPT !.phase = "fetching"]
<1>1. /\ fetches' = (fetches \ {f}) \cup {d}
      /\ UNCHANGED <<code, table, pending, lastTransactionId, pyVars, jsVars>>
      /\ UNCHANGED <<restarting, cancels, interrupted>>
      BY DEF FetchTokenComes, coreVars
<1>2. d \in Fetch /\ d.run = f.run
  <2>1. f \in Fetch
        BY CoreFacts
  <2> QED BY <2>1 DEF Fetch
<1> HIDE DEF d
<1>3. /\ PyGood' /\ PyRuns' = PyRuns /\ \A t : PyNumber(t)' = PyNumber(t)
      BY <1>1, PyUnchanged DEF pyVars, pyWorkerVars, PyRuns, PyNumber
<1>4. /\ JsGood' /\ JsRuns' = JsRuns /\ \A t : JsNumber(t)' = JsNumber(t)
      BY <1>1, JsUnchanged DEF jsVars, jsWorkerVars, JsRuns, JsNumber
<1>5. fetches' \subseteq Fetch /\ IsFiniteSet(fetches')
  <2>1. IsFiniteSet(fetches \ {f})
        BY CoreFacts, FS_Subset
  <2> QED BY <1>1, <1>2, <2>1, CoreFacts, FS_AddElement
<1>6. TypeOK'
      BY <1>1, <1>3, <1>4, <1>5 DEF RunInv, TypeOK, CoreTypeOK, PyGood, JsGood
<1>7. Queries' \subseteq Queries
      BY <1>1, <1>2 DEF Queries
<1>8. ASSUME NEW t \in Transactions \ interrupted' PROVE Total(t)' = Total(t)
  <2>1. Total(t) <= 1
        BY <1>1, <1>8 DEF RunInv, Alone
  <2>2. /\ PyNumber(t) \in Nat /\ JsNumber(t) \in Nat /\ QueryNumber(t) \in Nat
        /\ QueryNumber(t) = Cardinality(OfTransaction(fetches, t))
        BY TotalType
  <2>3. Cardinality(OfTransaction(fetches, t)) <= 1
        BY <2>1, <2>2 DEF Total
  <2>4. Cardinality(OfTransaction(fetches', t)) = Cardinality(OfTransaction(fetches, t))
        BY <1>1, <1>2, <2>3, CoreFacts, OneGoesOn
  <2>5. QueryNumber(t)' = Cardinality(OfTransaction(fetches', t))
        BY DEF QueryNumber, OfTransaction
  <2> QED BY <1>3, <1>4, <2>2, <2>4, <2>5 DEF Total
<1> QED BY <1>1, <1>3, <1>4, <1>5, <1>6, <1>7, <1>8, RunsKeep

\* Queries end with nobody told: their transactions have been run over.
LEMMA FetchesEnd ==
    ASSUME RunInv, NEW ended \in SUBSET fetches, fetches' = fetches \ ended,
           interrupted' = interrupted \cup {f.run.transaction : f \in ended},
           UNCHANGED <<coreVars, pyVars, jsVars, restarting>>, cancels' \in 0 .. MaxCancels
    PROVE  RunInv'
<1>1. UNCHANGED <<code, table, pending, lastTransactionId>>
      BY DEF coreVars
<1>2. /\ PyGood' /\ PyRuns' = PyRuns /\ \A t : PyNumber(t)' = PyNumber(t)
      BY PyUnchanged DEF pyVars, pyWorkerVars, PyRuns, PyNumber
<1>3. /\ JsGood' /\ JsRuns' = JsRuns /\ \A t : JsNumber(t)' = JsNumber(t)
      BY JsUnchanged DEF jsVars, jsWorkerVars, JsRuns, JsNumber
<1>4. fetches' \subseteq Fetch /\ IsFiniteSet(fetches')
      BY CoreFacts, FS_Subset
<1>5. interrupted' \in SUBSET Transactions
  <2>1. \A f \in fetches : f.run.transaction \in Transactions
        BY CoreFacts DEF Fetch, Run
  <2> QED BY <2>1 DEF RunInv, TypeOK
<1>6. TypeOK'
      BY <1>1, <1>2, <1>3, <1>4, <1>5 DEF RunInv, TypeOK, CoreTypeOK, PyGood, JsGood
<1>7. Queries' \subseteq Queries
      BY DEF Queries
<1>8. ASSUME NEW t \in Transactions \ interrupted' PROVE Total(t)' = Total(t)
  <2>1. {f \in fetches' : f.run.transaction = t} = {f \in fetches : f.run.transaction = t}
        BY <1>8
  <2> QED BY <1>2, <1>3, <2>1 DEF Total, QueryNumber
<1> QED BY <1>1, <1>2, <1>3, <1>4, <1>6, <1>7, <1>8, RunsKeep

\* A query is answered: if nothing has run over its transaction, that one waits for it.
LEMMA FetchCompletesKeeps ==
    ASSUME RunInv, NEW f \in fetches, NEW parses \in BOOLEAN, FetchCompletes(f, parses)
    PROVE  RunInv'
<1> DEFINE t == f.run.transaction
           F == fetches \ {f}
<1>1. PICK o \in ConnectionComplete(t, f.run.code, parses) :
           /\ CoreDoes(t, o, IF o.p.status = "lost" THEN {t} ELSE {})
           /\ fetches' = F \cup NewFetches(o.sent)
           /\ lastTransactionId' = [LastSentBut(o.sent, {}) EXCEPT !["Connection"] = None]
           /\ UNCHANGED code
      BY DEF FetchCompletes
<1>2. /\ UNCHANGED <<pyWorkerVars, jsWorkerVars>> /\ UNCHANGED <<pyOutbox, jsOutbox>>
      /\ restarting' = restarting /\ cancels' = cancels
      BY DEF FetchCompletes
<1>3. /\ t \in Transactions /\ f.run.code \in Authors \cup {None}
      /\ LanguageOf[f.run.cell] = "Connection"
      BY CoreFacts DEF Fetch, Run, RunInv, LanguagesMatch, Queries
<1>4. \A u \in Transactions : /\ Left(u, F) \in Nat
                              /\ Total(u) = Left(u, F) + (IF t = u THEN 1 ELSE 0)
  <2> SUFFICES ASSUME NEW u \in Transactions
               PROVE  Left(u, F) \in Nat /\ Total(u) = Left(u, F) + (IF t = u THEN 1 ELSE 0)
      OBVIOUS
  <2>1. /\ IsFiniteSet(F)
        /\ Cardinality(OfTransaction(fetches, u)) =
             Cardinality(OfTransaction(F, u)) + (IF t = u THEN 1 ELSE 0)
        BY CoreFacts, OneLess
  <2> HIDE DEF F, t
  <2>2. Cardinality(OfTransaction(F, u)) \in Nat
        BY <2>1, OfTransactionType
  <2>3. Left(u, F) = PyNumber(u) + JsNumber(u) + Cardinality(OfTransaction(F, u))
        BY <1>2, OutboxesUnchanged
  <2> QED BY <2>1, <2>2, <2>3, TotalType DEF Total
<1> DEFINE gone == IF o.p.status = "lost" THEN {t} ELSE {}
<1>5. /\ o \in Outcome(t)
      /\ StoresCurrent(t, o.tables)
      /\ (pending[t].status = "open" /\ pending[t].hasAsync = 1) =>
           (o.p.status = "lost" \/ Continues(t, o))
  <2> HIDE DEF t
  <2>1. /\ CoreTypeOK /\ Waits(t) /\ o \in ConnectionComplete(t, f.run.code, parses)
        BY <1>3, CoreFacts
  <2> QED BY <1>3, <2>1, ConnectionCompleteType
<1>6. Stores(t, o.tables)
  <2> HIDE DEF t
  <2> QED BY <1>5, CoreFacts DEF Stores, StoresCurrent
<1>7. F \subseteq fetches /\ gone \in SUBSET Transactions /\ CoreDoes(t, o, gone)
      BY <1>1, <1>3
<1>8. ASSUME t \notin interrupted'
      PROVE  Left(t, F) = 0 /\ Continues(t, o) /\ StoresRight(t, o.tables)
  <2>1. o.p.status # "lost" /\ t \notin interrupted
        BY <1>1, <1>8 DEF CoreDoes
  <2>2. Alone(t)
        BY <1>3, <2>1 DEF RunInv
  <2>3. f.run \in Queries
        BY DEF Queries
  <2>4. f.run.transaction = t
        OBVIOUS
  <2> HIDE DEF F, t, gone
  <2>5. pending[t].status = "open" /\ Left(t, F) = 0
        BY <1>3, <1>4, <2>2 DEF Alone
  <2>6. pending[t].hasAsync = 1 /\ f.run.cell = pending[t].current.cell
        BY <2>2, <2>3, <2>4, <2>5 DEF Alone, WaitedFor
  <2>7. Continues(t, o)
        BY <1>5, <2>1, <2>5, <2>6
  <2>8. LanguageOf[pending[t].current.cell] \notin CodeLanguages
        BY <1>3, <2>6 DEF CodeLanguages
  <2>9. StoresRight(t, o.tables)
        BY <1>5, <2>8, CoreFacts DEF StoresRight, StoresCurrent
  <2> QED BY <2>5, <2>7, <2>9
<1>9. lastTransactionId' \in [Languages -> Transactions \cup {None}]
  <2> HIDE DEF t
  <2>1. o.sent \in Sent(t)
        BY <1>5 DEF Outcome
  <2> QED BY <1>1, <1>3, <2>1, CoreFacts, LastForgotten
<1>10. /\ code' \in [Cells -> Authors \cup {None}]
       /\ restarting' \in [CodeLanguages -> {"no", "cancel", "port"}]
       /\ cancels' \in 0 .. MaxCancels
       BY <1>1, <1>2, CoreFacts
<1>11. \A u \in Transactions \ (interrupted \cup gone \cup {t}) : Left(u, F) = Total(u)
  <2> HIDE DEF F, gone, t
  <2> QED BY <1>4
<1>12. fetches' = F \cup NewFetches(o.sent)
      BY <1>1
<1> HIDE DEF F, gone, t
<1>13. /\ HeldType(pyInbox, pyAwaiting, pyExecuting, pyOutbox')
       /\ HeldType(jsInbox, jsAwaiting, jsExecuting, jsOutbox')
       /\ HeldRuns(pyInbox, pyAwaiting, pyExecuting, pyOutbox') \subseteq PyRuns
       /\ HeldRuns(jsInbox, jsAwaiting, jsExecuting, jsOutbox') \subseteq JsRuns
       BY <1>2, OutboxesUnchanged
<1> QED BY <1>2, <1>3, <1>5, <1>6, <1>7, <1>8, <1>9, <1>10, <1>11, <1>12, <1>13, CoreDoesKeeps

\* A transaction is told that it was cancelled, while the queries F go on.
LEMMA CancelledKeeps ==
    ASSUME RunInv, NEW t \in Transactions, NEW o \in Outcome(t), NEW gone \in SUBSET Transactions,
           CoreDoes(t, o, gone \cup {t}), Stores(t, o.tables),
           NEW F, F \subseteq fetches, fetches' = F \cup NewFetches(o.sent),
           \A f \in fetches \ F : f.run.transaction \in gone,
           NEW l, lastTransactionId' = [LastSentBut(o.sent, {}) EXCEPT ![l] = None],
           UNCHANGED <<code, pyOutbox, jsOutbox, pyWorkerVars, jsWorkerVars>>,
           restarting' \in [CodeLanguages -> {"no", "cancel", "port"}],
           cancels' \in 0 .. MaxCancels
    PROVE  RunInv'
<1>1. t \in interrupted'
      BY DEF CoreDoes
<1>2. /\ HeldType(pyInbox, pyAwaiting, pyExecuting, pyOutbox')
      /\ HeldType(jsInbox, jsAwaiting, jsExecuting, jsOutbox')
      /\ HeldRuns(pyInbox, pyAwaiting, pyExecuting, pyOutbox') \subseteq PyRuns
      /\ HeldRuns(jsInbox, jsAwaiting, jsExecuting, jsOutbox') \subseteq JsRuns
      /\ \A u \in Transactions : Left(u, F) =
           PyNumber(u) + JsNumber(u) + Cardinality(OfTransaction(F, u))
      BY OutboxesUnchanged
<1>3. ASSUME NEW u \in Transactions \ (interrupted \cup (gone \cup {t}) \cup {t})
      PROVE  Left(u, F) = Total(u)
  <2>1. OfTransaction(F, u) = OfTransaction(fetches, u)
        BY <1>3 DEF OfTransaction
  <2> QED BY <1>2, <2>1, TotalType DEF Total
<1>4. lastTransactionId' \in [Languages -> Transactions \cup {None}]
  <2>1. o.sent \in Sent(t)
        BY DEF Outcome
  <2> QED BY <2>1, CoreFacts, LastForgotten
<1>5. code' \in [Cells -> Authors \cup {None}] /\ gone \cup {t} \in SUBSET Transactions
      BY CoreFacts
<1> QED BY <1>1, <1>2, <1>3, <1>4, <1>5, CoreDoesKeeps

\* The user cancels the queries.
LEMMA UserCancelsConnectionKeeps ==
    ASSUME RunInv, UserCancelsConnection
    PROVE  RunInv'
<1> DEFINE aborted == {f \in fetches : f.phase = "fetching"}
           gone == {f.run.transaction : f \in aborted}
           F == fetches \ aborted
           t == lastTransactionId["Connection"]
<1>1. cancels' \in 0 .. MaxCancels
  <2>1. cancels \in 0 .. MaxCancels /\ cancels < MaxCancels /\ cancels' = cancels + 1
        BY CoreFacts DEF UserCancelsConnection
  <2> QED BY <2>1, MaxCancelsAssumption
<1>2. UNCHANGED <<pyOutbox, pyWorkerVars, jsOutbox, jsWorkerVars, restarting>>
      BY DEF UserCancelsConnection
<1>3. CASE t = None
  <2>1. /\ fetches' = fetches \ aborted /\ interrupted' = interrupted \cup gone
        /\ UNCHANGED <<coreVars, pyInbox, jsInbox>>
        BY <1>3 DEF UserCancelsConnection
  <2>2. UNCHANGED <<pyVars, jsVars>>
        BY <1>2, <2>1 DEF pyVars, jsVars
  <2>3. aborted \in SUBSET fetches
        OBVIOUS
  <2> HIDE DEF aborted
  <2> QED BY <1>1, <1>2, <2>1, <2>2, <2>3, FetchesEnd
<1>4. CASE t # None
  <2>1. PICK o \in ConnectionComplete(t, None, TRUE) :
             /\ CoreDoes(t, o, gone \cup {t})
             /\ fetches' = F \cup NewFetches(o.sent)
             /\ lastTransactionId' = [LastSentBut(o.sent, {}) EXCEPT !["Connection"] = None]
             /\ UNCHANGED code
        BY <1>4 DEF UserCancelsConnection
  <2>2. t \in Transactions
    <3>1. "Connection" \in Languages
          BY DEF Languages
    <3> QED BY <1>4, <3>1, CoreFacts
  <2>3. gone \in SUBSET Transactions
    <3>1. \A f \in fetches : f.run.transaction \in Transactions
          BY CoreFacts DEF Fetch, Run
    <3> QED BY <3>1
  <2>4. F \subseteq fetches /\ \A f \in fetches \ F : f.run.transaction \in gone
        OBVIOUS
  <2>5. restarting' \in [CodeLanguages -> {"no", "cancel", "port"}]
        BY <1>2, CoreFacts
  <2> HIDE DEF F, gone, t
  <2>6. /\ o \in Outcome(t)
        /\ StoresCurrent(t, o.tables)
    <3>1. /\ CoreTypeOK /\ Waits(t) /\ o \in ConnectionComplete(t, None, TRUE)
          /\ None \in Authors \cup {None} /\ TRUE \in BOOLEAN
          BY <2>2, CoreFacts
    <3> QED BY <2>2, <3>1, ConnectionCompleteType
  <2>7. Stores(t, o.tables)
        BY <2>6, CoreFacts DEF Stores, StoresCurrent
  <2> QED BY <1>1, <1>2, <2>1, <2>2, <2>3, <2>4, <2>5, <2>6, <2>7, CancelledKeeps
<1> QED BY <1>3, <1>4

\* The core is told that a worker was stopped.
LEMMA CoreCancelsKeeps ==
    ASSUME RunInv, NEW l \in CodeLanguages, CoreCancels(l)
    PROVE  RunInv'
<1> DEFINE t == lastTransactionId[l]
<1>1. restarting' \in [CodeLanguages -> {"no", "cancel", "port"}]
  <2>1. restarting' = [restarting EXCEPT ![l] = "port"]
        BY DEF CoreCancels
  <2> QED BY <2>1, CoreFacts
<1>2. UNCHANGED <<pyOutbox, pyWorkerVars, jsOutbox, jsWorkerVars, cancels>>
      BY DEF CoreCancels
<1>3. CASE t = None
  <2>1. UNCHANGED <<code, table, pending, lastTransactionId, pyInbox, jsInbox, fetches, interrupted>>
        BY <1>3 DEF CoreCancels, coreVars
  <2>2. UNCHANGED <<pyVars, jsVars>>
        BY <1>2, <2>1 DEF pyVars, jsVars
  <2>3. PyGood' /\ PyKeeps /\ JsGood' /\ JsKeeps
        BY <2>2, PyUnchanged, JsUnchanged
  <2>4. TypeOK'
        BY <1>1, <1>2, <2>1, <2>3 DEF RunInv, TypeOK, CoreTypeOK, PyGood, JsGood
  <2> QED BY <2>1, <2>3, <2>4, WorkersKeep
<1>4. CASE t # None
  <2>1. PICK o \in CalculationComplete(t, None, TRUE) :
             /\ CoreDoes(t, o, {t})
             /\ fetches' = fetches \cup NewFetches(o.sent)
             /\ lastTransactionId' = [LastSentBut(o.sent, {}) EXCEPT ![l] = None]
             /\ UNCHANGED code
        BY <1>4 DEF CoreCancels
  <2>2. t \in Transactions
    <3>1. l \in Languages
          BY DEF Languages, CodeLanguages
    <3> QED BY <1>4, <3>1, CoreFacts
  <2>3. CoreDoes(t, o, {} \cup {t})
    <3>1. {} \cup {t} = {t}
          OBVIOUS
    <3> QED BY <2>1, <3>1
  <2> HIDE DEF t
  <2>4. o \in Outcome(t) /\ Stores(t, o.tables)
        BY <2>1, <2>2, CoreFacts, CalculationCompleteType
  <2>5. cancels' \in 0 .. MaxCancels
        BY <1>2, CoreFacts
  <2>6. \A f \in fetches \ fetches : f.run.transaction \in {}
        OBVIOUS
  <2>7. {} \in SUBSET Transactions
        OBVIOUS
  <2> QED BY <1>1, <1>2, <2>1, <2>2, <2>3, <2>4, <2>5, <2>6, <2>7, CancelledKeeps
<1> QED BY <1>3, <1>4

\* The core gets the port of the new worker.
LEMMA CoreGetsPortKeeps ==
    ASSUME RunInv, NEW l \in CodeLanguages, CoreGetsPort(l)
    PROVE  RunInv'
<1>1. /\ UNCHANGED <<code, table, pending, lastTransactionId, fetches, cancels, interrupted>>
      /\ UNCHANGED pyVars /\ UNCHANGED jsVars
      /\ restarting' = [restarting EXCEPT ![l] = "no"]
      BY DEF CoreGetsPort, coreVars
<1>2. PyGood' /\ PyKeeps /\ JsGood' /\ JsKeeps
      BY <1>1, PyUnchanged, JsUnchanged
<1>3. restarting' \in [CodeLanguages -> {"no", "cancel", "port"}]
      BY <1>1, CoreFacts
<1>4. TypeOK'
      BY <1>1, <1>2, <1>3 DEF RunInv, TypeOK, CoreTypeOK, PyGood, JsGood
<1> QED BY <1>1, <1>2, <1>4, WorkersKeep

-----------------------------------------------------------------------------
LEMMA InitRunInv == Init => RunInv
<1> SUFFICES ASSUME Init PROVE RunInv
    OBVIOUS
<1>1. /\ pyInbox = <<>> /\ pyOutbox = <<>> /\ pyState = "loading" /\ pyTransactionId = None
      /\ pyAwaiting = <<>> /\ pyExecuting = {} /\ pyNexts = 0
      BY DEF Init, PyInit, PyWorkerInit
<1>2. /\ jsInbox = <<>> /\ jsOutbox = <<>> /\ jsState = "loading" /\ jsTransactionId = None
      /\ jsWithLineNumbers = TRUE /\ jsAwaiting = <<>> /\ jsExecuting = {} /\ jsNexts = 0
      BY DEF Init, JsInit, JsWorkerInit
<1>3. /\ fetches = {} /\ restarting = [l \in CodeLanguages |-> "no"] /\ cancels = 0
      /\ interrupted = {} /\ CoreInit
      BY DEF Init
<1>4. PyGood
      BY <1>1, FS_EmptySet DEF PyGood, PyTypeOK
<1>5. JsGood
      BY <1>2, FS_EmptySet DEF JsGood, JsTypeOK
<1> DEFINE p == [status |-> "unused", operations |-> <<>>, current |-> None,
                 hasAsync |-> 0, accessed |-> {}]
           loaded(c) == [code |-> Loaded, ran |-> Loaded, accessed |-> Reads[c], by |-> Loaded]
<1>6. /\ p \in Pending /\ p.status = "unused" /\ p.hasAsync = 0
  <2>1. <<>> \in Seq(Cells)
        OBVIOUS
  <2> QED BY <2>1 DEF Pending
<1>7. \A c \in Cells : /\ loaded(c) \in Table /\ loaded(c).ran = loaded(c).code
      BY CellsAssumption DEF Table, Authors
<1>8. /\ code = [c \in Cells |-> Loaded] /\ table = [c \in Cells |-> loaded(c)]
      /\ pending = [t \in Transactions |-> p]
      /\ lastTransactionId = [l \in Languages |-> None]
      BY <1>3 DEF CoreInit
<1> HIDE DEF p, loaded
<1>9. CoreTypeOK
      BY <1>6, <1>7, <1>8 DEF CoreTypeOK, Authors
<1>10. TypeOK
  <2>1. cancels \in 0 .. MaxCancels
        BY <1>3, MaxCancelsAssumption
  <2> QED BY <1>3, <1>4, <1>5, <1>9, <2>1 DEF TypeOK, PyGood, JsGood
<1>11. PyRuns = {} /\ JsRuns = {} /\ Queries = {}
      BY <1>1, <1>2, <1>3 DEF PyRuns, JsRuns, Queries, HeldRuns, ToSet
<1>12. ASSUME NEW t \in Transactions PROVE Total(t) = 0
  <2>1. Number(<<>>, RunsOf(t)) = 0 /\ Number(<<>>, ResultsOf(t)) = 0
        BY NumberEmpty
  <2>2. Cardinality({}) = 0
        BY FS_EmptySet
  <2>3. {e \in {} : e.run.transaction = t} = {}
        OBVIOUS
  <2>4. NumberHeld(t, <<>>, <<>>, {}, <<>>) = 0
        BY <2>1, <2>2, <2>3 DEF NumberHeld
  <2>5. QueryNumber(t) = 0
        BY <1>3, <2>2, <2>3 DEF QueryNumber
  <2> QED BY <1>1, <1>2, <2>4, <2>5 DEF Total, PyNumber, JsNumber
<1>13. \A t \in Transactions : Waits(t) /\ Alone(t)
      BY <1>6, <1>8, <1>11, <1>12 DEF Waits, Alone
<1>14. ResultIsOfItsCode
      BY <1>7, <1>8 DEF ResultIsOfItsCode
<1>15. LanguagesMatch /\ IsFiniteSet(fetches)
      BY <1>3, <1>11, FS_EmptySet DEF LanguagesMatch
<1> QED BY <1>4, <1>5, <1>10, <1>13, <1>14, <1>15 DEF RunInv

LEMMA NextRunInv == RunInv /\ [Next]_vars => RunInv'
<1> SUFFICES ASSUME RunInv, [Next]_vars PROVE RunInv'
    OBVIOUS
<1>1. CASE PythonSteps \/ JavascriptSteps \/ UNCHANGED vars
      BY <1>1, WorkerStepsKeep
<1>2. CASE FetchSteps
  <2>1. PICK f \in fetches : \/ FetchTokenComes(f)
                             \/ \E parses \in BOOLEAN : FetchCompletes(f, parses)
                             \/ FetchFails(f)
        BY <1>2 DEF FetchSteps
  <2>2. CASE FetchFails(f)
    <3>1. /\ {f} \in SUBSET fetches /\ fetches' = fetches \ {f}
          /\ interrupted' = interrupted \cup {g.run.transaction : g \in {f}}
          /\ UNCHANGED <<coreVars, pyVars, jsVars, restarting>>
          BY <2>2 DEF FetchFails
    <3>2. cancels' \in 0 .. MaxCancels
          BY <2>2, CoreFacts DEF FetchFails
    <3> QED BY <3>1, <3>2, FetchesEnd
  <2> QED BY <2>1, <2>2, FetchTokenComesKeeps, FetchCompletesKeeps
<1>3. CASE CoreSteps
      BY <1>3, CoreHandlesPythonKeeps, CoreHandlesJavascriptKeeps, CoreCancelsKeeps,
         CoreGetsPortKeeps DEF CoreSteps
<1>4. CASE UserSteps
      BY <1>4, UserBeginsSteps, UserCancelsWorkerKeeps, UserCancelsConnectionKeeps DEF UserSteps
<1> QED BY <1>1, <1>2, <1>3, <1>4 DEF Next

(* The invariant: whatever the user starts, cancels and changes, and in whatever order
   the workers and the queries answer, runs and transactions stay in step. *)
THEOREM RunInvariance == Spec => []RunInv
BY InitRunInv, NextRunInv, PTL DEF Spec

\* Every variable keeps its type; the queues of the workers hold runs and messages.
THEOREM TypeCorrect == Spec => []TypeOK
<1>1. RunInv => TypeOK
      BY DEF RunInv
<1> QED BY <1>1, RunInvariance, PTL

(* However runs overlap, queue and change places in the workers, none that the core
   waits for is lost or done twice, and its result can be matched by its transaction
   alone, as calculation_complete does. *)
THEOREM OneRun == Spec => []OneRunPerWait
<1>1. RunInv => OneRunPerWait
      BY DEF RunInv, OneRunPerWait, Alone, Total, WaitedFor
<1> QED BY <1>1, RunInvariance, PTL

(* The output of a Python or Javascript cell was computed by the code that its table is
   labelled with, also when the cell was given other code while it ran. *)
THEOREM ResultsMatch == Spec => []ResultIsOfItsCode
<1>1. RunInv => ResultIsOfItsCode
      BY DEF RunInv
<1> QED BY <1>1, RunInvariance, PTL

-----------------------------------------------------------------------------
(* The queue of the Python worker. NoRunIsStranded is inductive with one fact more:
   while a transaction is set, its run is under way, so the end of a run, which calls
   next, is still to come when a run is put in the queue. *)

PyInv ==
    /\ pyNexts \in Nat /\ pyState \in {"loading", "ready"}
    /\ pyTransactionId # None => pyExecuting # {}
    /\ NoRunIsStranded

\* What the steps of the core, of the user and of the other workers leave alone, except
\* for the inbox and the outbox, which the invariant does not speak of.
PyUntouched == UNCHANGED pyWorkerVars

LEMMA UntouchedKeepsPyInv ==
    ASSUME PyInv, PyUntouched
    PROVE  PyInv'
BY DEF PyInv, PyUntouched, pyWorkerVars, NoRunIsStranded

LEMMA ReceiveKeepsPyInv == PyInv /\ PyReceive => PyInv'
<1> SUFFICES ASSUME PyInv, PyReceive PROVE PyInv'
    OBVIOUS
<1>0. UNCHANGED <<pyState, pyNexts>>
      BY DEF PyReceive
<1>1. CASE pyState = "ready" /\ pyTransactionId = None
  <2>1. pyExecuting' # {}
        BY <1>1 DEF PyReceive, RunPython
  <2> QED BY <2>1, <1>0 DEF PyInv, NoRunIsStranded
<1>2. CASE ~(pyState = "ready" /\ pyTransactionId = None)
  <2>1. pyTransactionId' = pyTransactionId /\ pyExecuting' = pyExecuting
        BY <1>2 DEF PyReceive, RunPython
  <2>2. pyState = "loading" \/ pyTransactionId # None
        BY <1>2 DEF PyInv
  <2> QED BY <2>1, <2>2, <1>0 DEF PyInv, NoRunIsStranded
<1> QED BY <1>1, <1>2

\* A run that next puts back is followed by the end of the run under way.
LEMMA NextKeepsPyInv == PyInv /\ PyNext => PyInv'
<1> SUFFICES ASSUME PyInv, PyNext PROVE PyInv'
    OBVIOUS
<1>0. pyNexts' \in Nat /\ pyState' = pyState
      BY DEF PyNext, PyInv
<1>1. CASE /\ pyState # "ready" \/ pyAwaiting = <<>>
           /\ UNCHANGED <<pyTransactionId, pyAwaiting, pyExecuting>>
      BY <1>0, <1>1 DEF PyInv, NoRunIsStranded
<1>2. CASE /\ pyState = "ready" /\ pyAwaiting # <<>>
           /\ pyTransactionId = None
           /\ RunPython(Head(pyAwaiting), Tail(pyAwaiting))
  <2>1. pyExecuting' # {}
        BY <1>2 DEF RunPython
  <2> QED BY <2>1, <1>0 DEF PyInv, NoRunIsStranded
<1>3. CASE /\ pyState = "ready" /\ pyAwaiting # <<>>
           /\ pyTransactionId # None
           /\ pyAwaiting' = Append(Tail(pyAwaiting), Head(pyAwaiting))
           /\ pyTransactionId' = None
           /\ UNCHANGED pyExecuting
      BY <1>0, <1>3 DEF PyInv, NoRunIsStranded
<1> QED BY <1>1, <1>2, <1>3 DEF PyNext

LEMMA LoadedKeepsPyInv == PyInv /\ PyLoaded => PyInv'
<1> SUFFICES ASSUME PyInv, PyLoaded PROVE PyInv'
    OBVIOUS
<1>1. CASE pyAwaiting # <<>>
  <2>1. pyExecuting' # {} /\ pyNexts' = pyNexts /\ pyState' = "ready"
        BY <1>1 DEF PyLoaded
  <2> QED BY <2>1 DEF PyInv, NoRunIsStranded
<1>2. CASE pyAwaiting = <<>>
      BY <1>2 DEF PyLoaded, PyInv, NoRunIsStranded
<1> QED BY <1>1, <1>2

LEMMA AskKeepsPyInv ==
    ASSUME PyInv, NEW e \in pyExecuting, PyAsk(e)
    PROVE  PyInv'
<1>1. pyExecuting' # {}
      BY DEF PyAsk, Becomes
<1> QED BY <1>1 DEF PyAsk, PyInv, NoRunIsStranded

LEMMA AnsweredKeepsPyInv ==
    ASSUME PyInv, NEW run, PyAnswered(run)
    PROVE  PyInv'
<1>1. pyExecuting # {} => pyExecuting' # {}
      BY DEF PyAnswered
<1> QED BY <1>1 DEF PyAnswered, PyInv, NoRunIsStranded

\* The end of a run schedules next, also when it clears the transaction of another.
LEMMA FinishKeepsPyInv ==
    ASSUME PyInv, NEW e \in pyExecuting, PyFinish(e)
    PROVE  PyInv'
<1>1. pyNexts' \in Nat /\ pyNexts' > 0 /\ pyTransactionId' = None /\ pyState' = pyState
      BY DEF PyFinish, PyInv
<1> QED BY <1>1 DEF PyInv, NoRunIsStranded

LEMMA RestartKeepsPyInv == PyRestart => PyInv'
BY DEF PyRestart, PyInv, NoRunIsStranded

LEMMA PyStepKeepsPyInv == PyInv /\ PyStep => PyInv'
BY ReceiveKeepsPyInv, NextKeepsPyInv, LoadedKeepsPyInv, AskKeepsPyInv, FinishKeepsPyInv
   DEF PyStep

-----------------------------------------------------------------------------
LEMMA UserKeepsPyInv ==
    ASSUME PyInv, UserSteps
    PROVE  PyInv'
<1>1. ASSUME NEW t \in Transactions, NEW c \in Cells, UserSetsCode(t, c)
      PROVE  PyUntouched
      BY <1>1 DEF UserSetsCode, UserBegins, PyUntouched
<1>2. ASSUME NEW t \in Transactions, NEW c \in Cells, UserDeletesCode(t, c)
      PROVE  PyUntouched
      BY <1>2 DEF UserDeletesCode, UserBegins, PyUntouched
<1>3. ASSUME NEW t \in Transactions, UserReruns(t)
      PROVE  PyUntouched
      BY <1>3 DEF UserReruns, UserBegins, PyUntouched
<1>4. ASSUME NEW l \in CodeLanguages, UserCancelsWorker(l)
      PROVE  PyUntouched \/ PyRestart
      BY <1>4 DEF UserCancelsWorker, PyUntouched, pyVars, pyWorkerVars
<1>5. UserCancelsConnection => PyUntouched
      BY DEF UserCancelsConnection, PyUntouched
<1> QED BY <1>1, <1>2, <1>3, <1>4, <1>5, UntouchedKeepsPyInv, RestartKeepsPyInv DEF UserSteps

LEMMA CoreKeepsPyInv ==
    ASSUME PyInv, CoreSteps
    PROVE  PyInv'
<1>1. CASE CoreHandlesPython
  <2>1. CASE UNCHANGED pyWorkerVars
        BY <2>1, UntouchedKeepsPyInv DEF PyUntouched
  <2>2. CASE PyAnswered(Head(pyOutbox).run)
        BY <2>2, AnsweredKeepsPyInv
  <2> QED BY <1>1, <2>1, <2>2 DEF CoreHandlesPython
<1>2. CoreHandlesJavascript => PyUntouched
      BY DEF CoreHandlesJavascript, PyUntouched, pyVars, pyWorkerVars
<1>3. ASSUME NEW l \in CodeLanguages, CoreCancels(l) \/ CoreGetsPort(l)
      PROVE  PyUntouched
      BY <1>3 DEF CoreCancels, CoreGetsPort, PyUntouched, pyVars, pyWorkerVars
<1> QED BY <1>1, <1>2, <1>3, UntouchedKeepsPyInv DEF CoreSteps

LEMMA FetchKeepsPyInv ==
    ASSUME PyInv, FetchSteps
    PROVE  PyInv'
<1>1. ASSUME NEW f \in fetches,
             \/ FetchTokenComes(f)
             \/ \E parses \in BOOLEAN : FetchCompletes(f, parses)
             \/ FetchFails(f)
      PROVE  PyUntouched
      BY <1>1 DEF FetchTokenComes, FetchCompletes, FetchFails, PyUntouched, pyVars, pyWorkerVars
<1> QED BY <1>1, UntouchedKeepsPyInv DEF FetchSteps

\* A run that waits in the Python worker will be taken up: whatever comes, the worker
\* loads, or something is under way whose end calls next, or next is scheduled.
THEOREM PythonStrandsNoRun == Spec => []NoRunIsStranded
<1>1. Init => PyInv
      BY DEF Init, PyInit, PyWorkerInit, PyInv, NoRunIsStranded
<1>2. PyInv /\ [Next]_vars => PyInv'
  <2> SUFFICES ASSUME PyInv, [Next]_vars PROVE PyInv'
      OBVIOUS
  <2>1. CASE PythonSteps
        BY <2>1, PyStepKeepsPyInv DEF PythonSteps
  <2>2. CASE JavascriptSteps
        BY <2>2, UntouchedKeepsPyInv DEF JavascriptSteps, PyUntouched, pyVars, pyWorkerVars
  <2>3. CASE UNCHANGED vars
        BY <2>3, UntouchedKeepsPyInv DEF vars, PyUntouched, pyVars, pyWorkerVars
  <2> QED BY <2>1, <2>2, <2>3, FetchKeepsPyInv, CoreKeepsPyInv, UserKeepsPyInv DEF Next
<1>3. PyInv => NoRunIsStranded
      BY DEF PyInv
<1> QED BY <1>1, <1>2, <1>3, PTL DEF Spec
=============================================================================
