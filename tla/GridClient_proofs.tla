------------------------- MODULE GridClient_proofs --------------------------
(***************************************************************************)
(* First what the operators of SheetWrites return, and the two principles  *)
(* the proofs about sequences of transactions rest on: induction up to a   *)
(* bound, and the existence of the states of an iteration.                 *)
(*                                                                         *)
(* Then what the receiving functions of GridClient preserve.  Sound(L, E)  *)
(* is the set of the states s of the engine that agree with the log L      *)
(* except in the cells E, those the user's own transactions write; every   *)
(* receiving function leads from one such state to another, and loses no   *)
(* unsaved transaction that is not in the log.                             *)
(***************************************************************************)
EXTENDS GridClient, SequenceTheorems, WellFoundedInduction, TLAPS

(* A non-empty set of numbers has a smallest member.                       *)
LEMMA LeastExists ==
  ASSUME NEW T \in SUBSET Nat, T # {}
  PROVE  \E m \in T : \A k \in T : m <= k
<1> DEFINE R == OpToRel(<, Nat)
<1>1. IsWellFoundedOn(R, Nat)
  BY NatLessThanWellFounded
<1>2. \E m \in T : \A k \in T : ~ (<<k, m>> \in R)
  <2> HIDE DEF R
  <2> QED BY <1>1, WFMin
<1>3. \A m \in T, k \in T : <<k, m>> \in R <=> k < m
  BY DEF OpToRel
<1> HIDE DEF R
<1>4. PICK m \in T : \A k \in T : ~ (<<k, m>> \in R)
  BY <1>2
<1>5. \A k \in T : ~ (k < m)
  BY <1>3, <1>4
<1> QED
  BY <1>5

(* Least picks it.                                                         *)
LEMMA LeastIsMember ==
  ASSUME NEW T \in SUBSET Nat, T # {}
  PROVE  Least(T) \in T /\ \A k \in T : Least(T) <= k
BY LeastExists DEF Least

(* So does Greatest, of a set that has a bound.                            *)
LEMMA GreatestIsMember ==
  ASSUME NEW n \in Nat, NEW T \in SUBSET (0..n), T # {}
  PROVE  Greatest(T) \in T /\ \A k \in T : k <= Greatest(T)
<1> DEFINE U == {j \in 0..n : n - j \in T}
<1>1. PICK t \in T : t \in 0..n
  OBVIOUS
<1>2. n - t \in U
  BY <1>1
<1>3. U \in SUBSET Nat /\ U # {}
  BY <1>2
<1>4. PICK m \in U : \A k \in U : m <= k
  <2> HIDE DEF U
  <2> QED BY <1>3, LeastExists
<1>5. n - m \in T
  BY <1>4
<1>6. \A k \in T : k \in Nat /\ k <= n - m
  <2> SUFFICES ASSUME NEW k \in T PROVE k \in Nat /\ k <= n - m
    OBVIOUS
  <2>1. k \in 0..n /\ n - (n - k) = k
    OBVIOUS
  <2>2. n - k \in U
    BY <2>1
  <2>3. m <= n - k /\ m \in 0..n
    BY <1>4, <2>2
  <2> QED BY <2>1, <2>3
<1>7. n - m \in Nat
  BY <1>5
<1> DEFINE g == n - m
<1>8. g \in T /\ g \in Nat /\ \A k \in T : k \in Nat /\ k <= g
  BY <1>5, <1>6, <1>7
<1> HIDE DEF g
<1> QED
  BY <1>8 DEF Greatest

(* Induction from 0 to n; the property is a set, not an operator.          *)
LEMMA InductionTo ==
  ASSUME NEW n \in Nat, NEW G, 0 \in G,
         \A i \in 1..n : i - 1 \in G => i \in G
  PROVE  n \in G
<1> DEFINE B == {i \in 0..n : i \notin G}
<1>1. SUFFICES ASSUME B # {} PROVE FALSE
  OBVIOUS
<1>2. B \in SUBSET Nat
  OBVIOUS
<1>3. PICK m \in B : \A k \in B : m <= k
  <2> HIDE DEF B
  <2> QED BY <1>1, <1>2, LeastExists
<1>4. m \in 1..n /\ m - 1 \in 0..n
  BY <1>3
<1>5. m - 1 \in G
  BY <1>3, <1>4
<1> QED
  BY <1>3, <1>4, <1>5

(* The states of iterating n steps in S from s0, the i-th step being N[i]. *)
Steps(S, n) == [1..n -> [S -> S]]
Iterations(S, n, N, s0) ==
  {f \in [0..n -> S] : f[0] = s0 /\ \A i \in 1..n : f[i] = N[i][f[i - 1]]}

(* They exist.                                                             *)
LEMMA IterationExists ==
  ASSUME NEW S, NEW n \in Nat, NEW N \in Steps(S, n), NEW s0 \in S
  PROVE  Iterations(S, n, N, s0) # {}
<1> USE DEF Steps
<1> DEFINE P(m) == \E f \in [0..m -> S] :
                     f[0] = s0 /\ \A i \in 1..m : f[i] = N[i][f[i - 1]]
           G == {m \in 0..n : P(m)}
<1>1. 0 \in G
  <2> DEFINE f == [i \in 0..0 |-> s0]
  <2>1. f \in [0..0 -> S] /\ f[0] = s0 /\ \A i \in 1..0 : f[i] = N[i][f[i - 1]]
    OBVIOUS
  <2> HIDE DEF f
  <2>2. P(0)
    BY <2>1
  <2> HIDE DEF P
  <2> QED BY <2>2
<1>2. ASSUME NEW m \in 1..n, m - 1 \in G PROVE m \in G
  <2>1. PICK f \in [0..(m - 1) -> S] :
               f[0] = s0 /\ \A i \in 1..(m - 1) : f[i] = N[i][f[i - 1]]
    BY <1>2
  <2> DEFINE g == [i \in 0..m |-> IF i = m THEN N[m][f[m - 1]] ELSE f[i]]
  <2>2. g \in [0..m -> S]
    BY <2>1
  <2>3. g[0] = s0 /\ \A i \in 1..m : g[i] = N[i][g[i - 1]]
    BY <2>1
  <2> HIDE DEF g
  <2>4. P(m)
    BY <2>2, <2>3
  <2> HIDE DEF P
  <2> QED BY <2>4
<1>3. n \in G
  <2> HIDE DEF G
  <2> QED BY <1>1, <1>2, InductionTo
<1> QED
  BY <1>3 DEF Iterations

-----------------------------------------------------------------------------

(* A member of Writes gives cells values.                                  *)
LEMMA WritesType ==
  ASSUME NEW w \in Writes
  PROVE  DOMAIN w \subseteq Cell /\ \A c \in DOMAIN w : w[c] \in Value
BY DEF Writes

LEMMA BlankGridType == BlankGrid \in Grid
BY BlankIsValue DEF BlankGrid, Grid

LEMMA NoWritesType == NoWrites \in Writes
BY DEF NoWrites, Writes

LEMMA OverlayType ==
  ASSUME NEW g \in Grid, NEW w \in Writes
  PROVE  Overlay(g, w) \in Grid
BY WritesType DEF Overlay, Grid

(* What is recorded is written in cells of the executed writes.            *)
LEMMA RecordedType ==
  ASSUME NEW g \in Grid, NEW w \in Writes, NEW D \in Recorded(g, w)
  PROVE  /\ D \subseteq DOMAIN w
         /\ ForwardOf(w, D) \in Writes /\ DOMAIN ForwardOf(w, D) = D
         /\ ReverseOf(g, D) \in Writes /\ DOMAIN ReverseOf(g, D) = D
<1>1. D \subseteq DOMAIN w
  BY DEF Recorded
<1>2. DOMAIN w \subseteq Cell /\ \A c \in DOMAIN w : w[c] \in Value
  BY WritesType
<1>3. ForwardOf(w, D) \in [D -> Value] /\ ReverseOf(g, D) \in [D -> Value]
  BY <1>1, <1>2 DEF ForwardOf, ReverseOf, Grid
<1> QED
  BY <1>1, <1>2, <1>3 DEF Writes, ForwardOf, ReverseOf

LEMMA MergeType ==
  ASSUME NEW w1 \in Writes, NEW w2 \in Writes
  PROVE  Merge(w1, w2) \in Writes /\ DOMAIN Merge(w1, w2) = DOMAIN w1 \cup DOMAIN w2
<1>1. Merge(w1, w2) \in [DOMAIN w1 \cup DOMAIN w2 -> Value]
  BY WritesType DEF Merge
<1>2. DOMAIN w1 \cup DOMAIN w2 \subseteq Cell
  BY WritesType
<1> QED
  BY <1>1, <1>2 DEF Writes, Merge

LEMMA OverlayBackwardType ==
  ASSUME NEW g \in Grid, NEW ws \in Seq(Writes)
  PROVE  OverlayBackward(g, ws) \in Grid
<1> SUFFICES ASSUME NEW c \in Cell, Covering(ws, c) # {}
             PROVE  ws[Least(Covering(ws, c))][c] \in Value
  BY DEF OverlayBackward, Grid
<1>1. Covering(ws, c) \in SUBSET Nat
  BY LenProperties DEF Covering
<1>2. Least(Covering(ws, c)) \in Covering(ws, c)
  BY <1>1, LeastIsMember
<1>3. PICK i \in DOMAIN ws : i = Least(Covering(ws, c)) /\ c \in DOMAIN ws[i]
  BY <1>2 DEF Covering
<1>4. ws[i] \in Writes
  BY ElementOfSeq, LenProperties
<1> QED
  BY <1>3, <1>4, WritesType

(* Cells that no element of the sequence writes keep their values.         *)
LEMMA OverlayBackwardElsewhere ==
  ASSUME NEW g, NEW ws, NEW c \in Cell, \A i \in DOMAIN ws : c \notin DOMAIN ws[i]
  PROVE  OverlayBackward(g, ws)[c] = g[c]
BY DEF OverlayBackward, Covering

(* Replaying one more transaction executes it on what was there before.    *)
LEMMA ReplayStep ==
  ASSUME NEW log, NEW n \in Nat, NEW c \in Cell
  PROVE  Replay(log, n + 1)[c] = Overlay(Replay(log, n), log[n + 1].writes)[c]
<1> DEFINE ws == [i \in 1..n |-> log[i].writes]
           ws1 == [i \in 1..(n + 1) |-> log[i].writes]
<1>1. CASE c \in DOMAIN log[n + 1].writes
  <2>1. n + 1 \in Covering(ws1, c) /\ \A i \in Covering(ws1, c) : i <= n + 1 /\ i \in Nat
    BY <1>1 DEF Covering
  <2>2. Greatest(Covering(ws1, c)) = n + 1
    <3> HIDE DEF ws1
    <3> QED BY <2>1 DEF Greatest
  <2>3. OverlayForward(BlankGrid, ws1)[c] = ws1[n + 1][c]
    <3> HIDE DEF ws1
    <3> QED BY <2>1, <2>2 DEF OverlayForward
  <2> QED BY <2>3, <1>1 DEF Replay, Overlay
<1>2. CASE c \notin DOMAIN log[n + 1].writes
  <2>1. Covering(ws1, c) = Covering(ws, c)
    BY <1>2 DEF Covering
  <2>2. \A i \in Covering(ws, c) : ws1[i] = ws[i]
    BY DEF Covering
  <2>3. Covering(ws, c) # {} => Greatest(Covering(ws, c)) \in Covering(ws, c)
    <3>1. Covering(ws, c) \in SUBSET (0..n)
      BY DEF Covering
    <3> HIDE DEF ws
    <3> QED BY <3>1, GreatestIsMember
  <2>4. OverlayForward(BlankGrid, ws1)[c] = OverlayForward(BlankGrid, ws)[c]
    <3> HIDE DEF ws, ws1
    <3> QED BY <2>1, <2>2, <2>3 DEF OverlayForward
  <2>5. Overlay(Replay(log, n), log[n + 1].writes)[c] = Replay(log, n)[c]
    BY <1>2 DEF Overlay
  <2> QED BY <2>4, <2>5 DEF Replay
<1> QED
  BY <1>1, <1>2

(* A transaction added to the log changes nothing of what was before it.   *)
LEMMA ReplayAppend ==
  ASSUME NEW T, NEW log \in Seq(T), NEW t \in T, NEW n \in Nat, n <= Len(log)
  PROVE  Replay(Append(log, t), n) = Replay(log, n)
<1>1. \A i \in 1..n : Append(log, t)[i] = log[i]
  BY AppendProperties, LenProperties
<1>2. [i \in 1..n |-> Append(log, t)[i].writes] = [i \in 1..n |-> log[i].writes]
  BY <1>1
<1> QED
  BY <1>2 DEF Replay

LEMMA ReplayNothing ==
  ASSUME NEW log
  PROVE  Replay(log, 0) = BlankGrid
BY DEF Replay, OverlayForward, Covering, BlankGrid

-----------------------------------------------------------------------------
(* The receiving functions.                                                *)

(* A held transaction is the one the server gave this number.              *)
Numbered(L, t) ==
  t.sequence_num \in 1..Len(L) /\ L[t.sequence_num] = [id |-> t.id, writes |-> t.writes]

(* An own transaction writes cells of E only.                              *)
OwnEntry(E, u) == u.id # Foreign /\ DOMAIN u.forward \subseteq E /\ DOMAIN u.reverse \subseteq E

OwnInLog(L, E) == \A n \in 1..Len(L) : L[n].id # Foreign => DOMAIN L[n].writes \subseteq E

Sound(L, E) ==
  {s \in Core :
     /\ s.last <= Len(L)
     /\ \A c \in Cell \ E : s.grid[c] = Replay(L, s.last)[c]
     /\ \A i \in DOMAIN s.stash : Numbered(L, s.stash[i])
     /\ \A i \in DOMAIN s.unsaved : OwnEntry(E, s.unsaved[i])}

Entries(q) == {q[i] : i \in DOMAIN q}

(* Of the unsaved transactions of s, r has all those that are not in L.    *)
Keeps(L, s, r) ==
  \A u \in Entries(s.unsaved) :
    (\A n \in 1..Len(L) : L[n].id # u.id) => u \in Entries(r.unsaved)

-----------------------------------------------------------------------------
(* Sequences of transactions.                                              *)

LEMMA ForwardsType ==
  ASSUME NEW q \in Seq(UnsavedTransaction)
  PROVE  /\ Forwards(q) \in Seq(Writes) /\ DOMAIN Forwards(q) = DOMAIN q
         /\ Reverses(q) \in Seq(Writes) /\ DOMAIN Reverses(q) = DOMAIN q
<1>1. Len(q) \in Nat /\ DOMAIN q = 1..Len(q) /\ \A i \in 1..Len(q) : q[i] \in UnsavedTransaction
  BY LenProperties, ElementOfSeq
<1>2. Forwards(q) \in [1..Len(q) -> Writes] /\ Reverses(q) \in [1..Len(q) -> Writes]
  BY <1>1 DEF Forwards, Reverses, UnsavedTransaction
<1> QED
  BY <1>1, <1>2, IsASeq DEF Forwards, Reverses

LEMMA WithoutIndexType ==
  ASSUME NEW S, NEW q \in Seq(S), NEW i \in 1..Len(q)
  PROVE  /\ WithoutIndex(q, i) \in Seq(S)
         /\ \A j \in DOMAIN WithoutIndex(q, i) : \E k \in DOMAIN q : WithoutIndex(q, i)[j] = q[k]
         /\ \A k \in DOMAIN q : k # i =>
              \E j \in DOMAIN WithoutIndex(q, i) : WithoutIndex(q, i)[j] = q[k]
<1>1. Len(q) \in Nat /\ DOMAIN q = 1..Len(q) /\ \A k \in 1..Len(q) : q[k] \in S
  BY LenProperties, ElementOfSeq
<1>2. Len(q) - 1 \in Nat
  BY <1>1
<1>3. \A j \in 1..(Len(q) - 1) : j \in 1..Len(q) /\ j + 1 \in 1..Len(q)
  BY <1>1
<1>4. \A j \in 1..(Len(q) - 1) : \E k \in 1..Len(q) : WithoutIndex(q, i)[j] = q[k]
  BY <1>3 DEF WithoutIndex
<1>5. WithoutIndex(q, i) \in [1..(Len(q) - 1) -> S]
  BY <1>1, <1>3 DEF WithoutIndex
<1>6. ASSUME NEW k \in 1..Len(q), k # i
      PROVE  \E j \in 1..(Len(q) - 1) : WithoutIndex(q, i)[j] = q[k]
  <2>1. CASE k < i
    <3>1. k \in 1..(Len(q) - 1)
      BY <1>1, <2>1
    <3>2. WithoutIndex(q, i)[k] = q[k]
      BY <2>1, <3>1 DEF WithoutIndex
    <3> QED BY <3>1, <3>2
  <2>2. CASE k > i
    <3>1. k - 1 \in 1..(Len(q) - 1) /\ ~(k - 1 < i) /\ (k - 1) + 1 = k
      BY <1>1, <2>2
    <3>2. WithoutIndex(q, i)[k - 1] = q[k]
      BY <3>1 DEF WithoutIndex
    <3> QED BY <3>1, <3>2
  <2> QED BY <1>1, <1>6, <2>1, <2>2
<1>7. DOMAIN WithoutIndex(q, i) = 1..(Len(q) - 1)
  BY DEF WithoutIndex
<1>8. WithoutIndex(q, i) \in Seq(S)
  BY <1>2, <1>5, IsASeq
<1> HIDE DEF WithoutIndex
<1> QED
  BY <1>1, <1>4, <1>6, <1>7, <1>8

LEMMA WithEntryAtType ==
  ASSUME NEW S, NEW q \in Seq(S), NEW i \in 1..(Len(q) + 1), NEW e \in S
  PROVE  /\ WithEntryAt(q, i, e) \in Seq(S)
         /\ \A j \in DOMAIN WithEntryAt(q, i, e) :
              WithEntryAt(q, i, e)[j] = e \/ \E k \in DOMAIN q : WithEntryAt(q, i, e)[j] = q[k]
<1>1. Len(q) \in Nat /\ DOMAIN q = 1..Len(q) /\ \A k \in 1..Len(q) : q[k] \in S
  BY LenProperties, ElementOfSeq
<1>2. \A j \in 1..(Len(q) + 1) : /\ j < i => j \in 1..Len(q)
                                 /\ ~(j < i) /\ j # i => j - 1 \in 1..Len(q)
  BY <1>1
<1>3. \A j \in 1..(Len(q) + 1) :
        WithEntryAt(q, i, e)[j] = e \/ \E k \in 1..Len(q) : WithEntryAt(q, i, e)[j] = q[k]
  BY <1>2 DEF WithEntryAt
<1>4. WithEntryAt(q, i, e) \in [1..(Len(q) + 1) -> S]
  BY <1>1, <1>2 DEF WithEntryAt
<1>5. Len(q) + 1 \in Nat
  BY <1>1
<1>6. WithEntryAt(q, i, e) \in Seq(S) /\ DOMAIN WithEntryAt(q, i, e) = 1..(Len(q) + 1)
  BY <1>4, <1>5, IsASeq
<1> QED
  BY <1>1, <1>3, <1>6

LEMMA IndexOfType ==
  ASSUME NEW S, NEW q \in Seq(S), NEW id, Holds(q, id)
  PROVE  IndexOf(q, id) \in 1..Len(q) /\ q[IndexOf(q, id)].id = id
<1> DEFINE T == {i \in DOMAIN q : q[i].id = id}
<1>1. T \in SUBSET Nat /\ T # {}
  BY LenProperties DEF Holds
<1>2. Least(T) \in T
  <2> HIDE DEF T
  <2> QED BY <1>1, LeastIsMember
<1> QED
  BY <1>2, LenProperties DEF IndexOf

LEMMA StashIndexType ==
  ASSUME NEW S, NEW q \in Seq(S), NEW seq \in Nat
  PROVE  StashIndex(q, seq) \in 1..(Len(q) + 1)
<1> DEFINE T == {i \in DOMAIN q : q[i].sequence_num < seq}
<1>1. T \in SUBSET (1..Len(q)) /\ T \in SUBSET Nat /\ Len(q) \in Nat
  BY LenProperties
<1>2. T # {} => Least(T) \in T
  <2> HIDE DEF T
  <2> QED BY <1>1, LeastIsMember
<1>3. StashIndex(q, seq) = IF T = {} THEN Len(q) + 1 ELSE Least(T)
  BY DEF StashIndex
<1>4. T # {} => Least(T) \in 1..Len(q)
  BY <1>1, <1>2
<1> HIDE DEF T
<1>5. CASE T = {}
  BY <1>1, <1>3, <1>5
<1>6. CASE T # {}
  <2>1. StashIndex(q, seq) = Least(T)
    BY <1>3, <1>6
  <2> QED BY <1>1, <1>4, <1>6, <2>1
<1> QED
  BY <1>5, <1>6

LEMMA InsertOrReplaceType ==
  ASSUME NEW q \in Seq(UnsavedTransaction), NEW e \in UnsavedTransaction
  PROVE  /\ InsertOrReplace(q, e) \in Seq(UnsavedTransaction)
         /\ \A j \in DOMAIN InsertOrReplace(q, e) :
              \/ InsertOrReplace(q, e)[j] = e
              \/ \E k \in DOMAIN q : InsertOrReplace(q, e)[j] = q[k]
<1>1. Len(q) \in Nat /\ DOMAIN q = 1..Len(q) /\ \A k \in 1..Len(q) : q[k] \in UnsavedTransaction
  BY LenProperties, ElementOfSeq
<1>2. CASE Holds(q, e.id)
  <2>1. InsertOrReplace(q, e) = [i \in DOMAIN q |-> IF q[i].id = e.id THEN e ELSE q[i]]
    BY <1>2 DEF InsertOrReplace
  <2>2. InsertOrReplace(q, e) \in [1..Len(q) -> UnsavedTransaction]
    BY <1>1, <2>1
  <2> QED BY <1>1, <2>1, <2>2, IsASeq
<1>3. CASE ~Holds(q, e.id)
  BY <1>1, <1>3, AppendProperties DEF InsertOrReplace
<1> QED
  BY <1>2, <1>3

-----------------------------------------------------------------------------
(* The receiving functions, on states that agree with the log L.           *)

LEMMA KeepsSame ==
  ASSUME NEW L, NEW s, NEW r, r.unsaved = s.unsaved
  PROVE  Keeps(L, s, r)
BY DEF Keeps

LEMMA KeepsTransitive ==
  ASSUME NEW L, NEW s, NEW x, NEW r, Keeps(L, s, x), Keeps(L, x, r)
  PROVE  Keeps(L, s, r)
BY DEF Keeps

LEMMA RollbackSound ==
  ASSUME NEW L, NEW E, NEW s \in Sound(L, E)
  PROVE  /\ Rollback(s) \in Sound(L, E) /\ Rollback(s).last = s.last
         /\ Rollback(s).unsaved = s.unsaved
<1>1. s \in Core /\ Reverses(s.unsaved) \in Seq(Writes)
      /\ DOMAIN Reverses(s.unsaved) = DOMAIN s.unsaved
  BY ForwardsType DEF Sound, Core
<1>2. OverlayBackward(s.grid, Reverses(s.unsaved)) \in Grid
  BY <1>1, OverlayBackwardType DEF Core
<1>3. \A c \in Cell \ E : OverlayBackward(s.grid, Reverses(s.unsaved))[c] = s.grid[c]
  <2> SUFFICES ASSUME NEW c \in Cell \ E, NEW i \in DOMAIN Reverses(s.unsaved)
               PROVE  c \notin DOMAIN Reverses(s.unsaved)[i]
    BY OverlayBackwardElsewhere
  <2> QED BY <1>1 DEF Sound, OwnEntry, Reverses
<1> QED
  BY <1>1, <1>2, <1>3 DEF Rollback, Sound, Core

LEMMA ReapplySound ==
  ASSUME NEW L, NEW E, NEW s \in Sound(L, E)
  PROVE  /\ Reapply(s) \in Sound(L, E) /\ Reapply(s).last = s.last
         /\ Reapply(s).unsaved = s.unsaved
<1>1. s \in Core /\ Forwards(s.unsaved) \in Seq(Writes)
      /\ DOMAIN Forwards(s.unsaved) = DOMAIN s.unsaved
  BY ForwardsType DEF Sound, Core
<1>2. OverlayBackward(s.grid, Forwards(s.unsaved)) \in Grid
  BY <1>1, OverlayBackwardType DEF Core
<1>3. \A c \in Cell \ E : OverlayBackward(s.grid, Forwards(s.unsaved))[c] = s.grid[c]
  <2> SUFFICES ASSUME NEW c \in Cell \ E, NEW i \in DOMAIN Forwards(s.unsaved)
               PROVE  c \notin DOMAIN Forwards(s.unsaved)[i]
    BY OverlayBackwardElsewhere
  <2> QED BY <1>1 DEF Sound, OwnEntry, Forwards
<1> QED
  BY <1>1, <1>2, <1>3 DEF Reapply, Sound, Core

LEMMA WithoutUnsavedSound ==
  ASSUME NEW L, NEW E, NEW s \in Sound(L, E), NEW id, Holds(s.unsaved, id)
  PROVE  /\ WithoutUnsaved(s, id) \in Sound(L, E) /\ WithoutUnsaved(s, id).last = s.last
         /\ (\E n \in 1..Len(L) : L[n].id = id) => Keeps(L, s, WithoutUnsaved(s, id))
<1> DEFINE q == WithoutIndex(s.unsaved, IndexOf(s.unsaved, id))
<1>1. s \in Core /\ s.unsaved \in Seq(UnsavedTransaction)
  BY DEF Sound, Core
<1>2. /\ IndexOf(s.unsaved, id) \in 1..Len(s.unsaved)
      /\ s.unsaved[IndexOf(s.unsaved, id)].id = id
  BY <1>1, IndexOfType
<1>3. /\ q \in Seq(UnsavedTransaction)
      /\ \A j \in DOMAIN q : \E k \in DOMAIN s.unsaved : q[j] = s.unsaved[k]
      /\ \A k \in DOMAIN s.unsaved : k # IndexOf(s.unsaved, id) =>
           \E j \in DOMAIN q : q[j] = s.unsaved[k]
  BY <1>1, <1>2, WithoutIndexType
<1>4. WithoutUnsaved(s, id) = [s EXCEPT !.unsaved = q]
  BY DEF WithoutUnsaved
<1> HIDE DEF q
<1> DEFINE r == WithoutUnsaved(s, id)
<1>5. /\ r \in Core /\ r.unsaved = q
      /\ r.grid = s.grid /\ r.stash = s.stash /\ r.last = s.last
  BY <1>1, <1>3, <1>4 DEF Core
<1> HIDE DEF r
<1>6. \A j \in DOMAIN q : OwnEntry(E, q[j])
  BY <1>3 DEF Sound
<1>7. r \in Sound(L, E)
  BY <1>5, <1>6 DEF Sound
<1>8. (\E n \in 1..Len(L) : L[n].id = id) => Keeps(L, s, r)
  BY <1>2, <1>3, <1>5 DEF Keeps, Entries
<1> QED
  BY <1>5, <1>7, <1>8 DEF r

(* Executing the next transaction of the log and counting it.              *)
LEMMA NextSound ==
  ASSUME NEW L \in Seq(SentTransaction), NEW E, NEW s \in Sound(L, E), NEW n \in 1..Len(L),
         n = s.last + 1
  PROVE  [s EXCEPT !.grid = Overlay(s.grid, L[n].writes), !.last = n] \in Sound(L, E)
<1>1. s \in Core /\ s.last \in Nat /\ s.grid \in Grid
  BY DEF Sound, Core
<1>2. L[n] \in SentTransaction /\ L[n].writes \in Writes
  <2>1. L[n] \in SentTransaction
    BY ElementOfSeq
  <2> QED BY <2>1 DEF SentTransaction
<1>3. Overlay(s.grid, L[n].writes) \in Grid
  BY <1>1, <1>2, OverlayType
<1>4. \A c \in Cell \ E : Overlay(s.grid, L[n].writes)[c] = Replay(L, n)[c]
  <2> TAKE c \in Cell \ E
  <2>1. s.grid[c] = Replay(L, s.last)[c]
    BY DEF Sound
  <2>2. Replay(L, n)[c] = Overlay(Replay(L, s.last), L[n].writes)[c]
    BY <1>1, ReplayStep
  <2> QED BY <2>1, <2>2 DEF Overlay
<1>5. n \in Nat /\ n <= Len(L)
  BY LenProperties
<1> QED
  BY <1>1, <1>3, <1>4, <1>5 DEF Sound, Core

(* Counting it only, when its effect is confined to E.                     *)
LEMMA NextOwnSound ==
  ASSUME NEW L \in Seq(SentTransaction), NEW E, NEW s \in Sound(L, E), NEW n \in 1..Len(L),
         n = s.last + 1, DOMAIN L[n].writes \subseteq E
  PROVE  [s EXCEPT !.last = n] \in Sound(L, E)
<1>1. s \in Core /\ s.last \in Nat /\ n \in Nat /\ n <= Len(L)
  BY LenProperties DEF Sound, Core
<1>2. \A c \in Cell \ E : s.grid[c] = Replay(L, n)[c]
  <2> TAKE c \in Cell \ E
  <2>1. s.grid[c] = Replay(L, s.last)[c]
    BY DEF Sound
  <2>2. Replay(L, n)[c] = Overlay(Replay(L, s.last), L[n].writes)[c]
    BY <1>1, ReplayStep
  <2> QED BY <2>1, <2>2 DEF Overlay
<1> QED
  BY <1>1, <1>2 DEF Sound, Core

LEMMA DrainStepSound ==
  ASSUME NEW L \in Seq(SentTransaction), NEW E, NEW s \in Sound(L, E),
         NEW t \in StashedTransaction, Numbered(L, t)
  PROVE  /\ DrainStep(s, t) \in Sound(L, E) /\ DrainStep(s, t).last >= s.last
         /\ DrainStep(s, t).unsaved = s.unsaved
<1>1. s \in Core /\ s.last \in Nat
  BY DEF Sound, Core
<1>2. CASE t.sequence_num = s.last + 1
  <2>1. t.sequence_num \in 1..Len(L) /\ L[t.sequence_num].writes = t.writes
    BY DEF Numbered
  <2> DEFINE next == [s EXCEPT !.grid = Overlay(s.grid, L[t.sequence_num].writes),
                               !.last = t.sequence_num]
  <2>2. DrainStep(s, t) = next
    BY <1>2, <2>1 DEF DrainStep
  <2>3. next \in Sound(L, E)
    BY <1>2, <2>1, NextSound
  <2>4. next.last = s.last + 1 /\ next.unsaved = s.unsaved
    BY <1>1, <1>2 DEF Core
  <2> HIDE DEF next
  <2> QED BY <1>1, <2>2, <2>3, <2>4
<1>3. CASE t.sequence_num # s.last + 1
  <2>1. DrainStep(s, t) = [s EXCEPT !.stash = Append(s.stash, t)]
    BY <1>3 DEF DrainStep
  <2>2. s.stash \in Seq(StashedTransaction) /\ \A i \in DOMAIN s.stash : Numbered(L, s.stash[i])
    BY <1>1 DEF Sound, Core
  <2>3. /\ Append(s.stash, t) \in Seq(StashedTransaction)
        /\ \A i \in DOMAIN Append(s.stash, t) : Numbered(L, Append(s.stash, t)[i])
    <3> HIDE DEF Numbered
    <3> QED BY <2>2, AppendProperties, LenProperties
  <2> DEFINE q == Append(s.stash, t)
  <2> HIDE DEF q
  <2>4. q \in Seq(StashedTransaction) /\ \A i \in DOMAIN q : Numbered(L, q[i])
    BY <2>3 DEF q
  <2>5. DrainStep(s, t) = [s EXCEPT !.stash = q]
    BY <2>1 DEF q
  <2>6. DrainStep(s, t).last = s.last /\ DrainStep(s, t).unsaved = s.unsaved
    BY <1>1, <2>5 DEF Core
  <2>7. DrainStep(s, t) \in Sound(L, E)
    BY <1>1, <2>4, <2>5 DEF Sound, Core
  <2> QED BY <1>1, <2>6, <2>7
<1> QED
  BY <1>2, <1>3

(* What every step of draining preserves, draining does.                   *)
LEMMA DrainWithin ==
  ASSUME NEW S, NEW s \in S, NEW q \in Seq(StashedTransaction),
         \A i \in 1..Len(q), x \in S : DrainStep(x, q[i]) \in S
  PROVE  Drain(s, q) \in S
<1> DEFINE N == [i \in 1..Len(q) |-> [x \in S |-> DrainStep(x, q[i])]]
           Body(f) == [i \in 0..Len(q) |-> IF i = 0 THEN s ELSE DrainStep(f[i - 1], q[i])]
           F == CHOOSE f : f = Body(f)
<1>1. Len(q) \in Nat
  BY LenProperties
<1>2. N \in Steps(S, Len(q))
  BY DEF Steps
<1>3. PICK f \in [0..Len(q) -> S] : f[0] = s /\ \A i \in 1..Len(q) : f[i] = N[i][f[i - 1]]
  <2> HIDE DEF N
  <2>1. Iterations(S, Len(q), N, s) # {}
    BY <1>1, <1>2, IterationExists
  <2> QED BY <2>1 DEF Iterations
<1>4. \A i \in 1..Len(q) : f[i - 1] \in S /\ f[i] = DrainStep(f[i - 1], q[i])
  <2> TAKE i \in 1..Len(q)
  <2>1. f[i - 1] \in S
    <3>1. i - 1 \in 0..Len(q)
      BY <1>1
    <3> QED BY <3>1
  <2> QED BY <1>3, <2>1
<1>5. F = Body(F)
  <2>1. f = Body(f)
    BY <1>1, <1>3, <1>4
  <2> HIDE DEF Body
  <2> QED BY <2>1, Zenon
<1>6. Drain(s, q) = F[Len(q)]
  BY DEF Drain
<1> HIDE DEF F
<1> DEFINE G == {i \in 0..Len(q) : F[i] \in S}
<1>7. 0 \in G
  BY <1>1, <1>5
<1>8. ASSUME NEW n \in 1..Len(q), n - 1 \in G PROVE n \in G
  <2>1. n \in 0..Len(q) /\ n # 0
    BY <1>1
  <2>2. F[n] = DrainStep(F[n - 1], q[n])
    BY <1>5, <2>1
  <2> QED BY <1>8, <2>1, <2>2
<1>9. Len(q) \in G
  <2> HIDE DEF G
  <2> QED BY <1>1, <1>7, <1>8, InductionTo
<1> QED
  BY <1>6, <1>9

LEMMA DrainSound ==
  ASSUME NEW L \in Seq(SentTransaction), NEW E, NEW s \in Sound(L, E),
         NEW q \in Seq(StashedTransaction), \A i \in DOMAIN q : Numbered(L, q[i])
  PROVE  /\ Drain(s, q) \in Sound(L, E) /\ Drain(s, q).last >= s.last
         /\ Drain(s, q).unsaved = s.unsaved
<1> DEFINE S == {x \in Sound(L, E) : x.last >= s.last /\ x.unsaved = s.unsaved}
<1>1. DOMAIN q = 1..Len(q) /\ \A i \in 1..Len(q) : q[i] \in StashedTransaction
  BY LenProperties, ElementOfSeq
<1>2. s.last \in Nat /\ s \in S /\ \A x \in S : x.last \in Nat
  BY DEF Sound, Core
<1>3. \A i \in 1..Len(q), x \in S : DrainStep(x, q[i]) \in S
  <2> TAKE i \in 1..Len(q), x \in S
  <2>1. /\ DrainStep(x, q[i]) \in Sound(L, E) /\ DrainStep(x, q[i]).last >= x.last
        /\ DrainStep(x, q[i]).unsaved = x.unsaved
    BY <1>1, DrainStepSound
  <2>2. DrainStep(x, q[i]).last \in Nat
    BY <2>1 DEF Sound, Core
  <2> HIDE DEF DrainStep
  <2> QED BY <1>2, <2>1, <2>2
<1>4. Drain(s, q) \in S
  <2> HIDE DEF S
  <2> QED BY <1>2, <1>3, DrainWithin
<1> QED
  BY <1>4

(* s is in Sound once its last is advanced to seq.                         *)
LEMMA ApplyOutOfOrderSound ==
  ASSUME NEW L \in Seq(SentTransaction), NEW E, NEW s \in Core, NEW seq \in Nat,
         [s EXCEPT !.last = seq] \in Sound(L, E)
  PROVE  /\ ApplyOutOfOrder(s, seq) \in Sound(L, E) /\ ApplyOutOfOrder(s, seq).last >= seq
         /\ ApplyOutOfOrder(s, seq).unsaved = s.unsaved
<1> DEFINE d == [s EXCEPT !.last = seq, !.stash = <<>>]
<1>1. d \in Sound(L, E) /\ d.last = seq /\ d.unsaved = s.unsaved
  <2> DEFINE y == [s EXCEPT !.last = seq]
  <2>1. d = [y EXCEPT !.stash = <<>>] /\ d.last = seq /\ d.unsaved = s.unsaved
    BY DEF Core
  <2> HIDE DEF y
  <2>2. y \in Sound(L, E)
    BY DEF y
  <2>3. <<>> \in Seq(StashedTransaction) /\ DOMAIN <<>> = {}
    BY EmptySeq
  <2>4. [y EXCEPT !.stash = <<>>] \in Sound(L, E)
    BY <2>2, <2>3 DEF Sound, Core
  <2> HIDE DEF d
  <2> QED BY <2>1, <2>4
<1>2. s.stash \in Seq(StashedTransaction) /\ \A i \in DOMAIN s.stash : Numbered(L, s.stash[i])
  BY DEF Sound, Core
<1>3. ApplyOutOfOrder(s, seq) = Drain(d, s.stash)
  BY DEF ApplyOutOfOrder
<1> HIDE DEF d
<1> QED
  BY <1>1, <1>2, <1>3, DrainSound

LEMMA ApplyNextSound ==
  ASSUME NEW L \in Seq(SentTransaction), NEW E, OwnInLog(L, E), NEW s \in Sound(L, E),
         NEW seq \in 1..Len(L), seq = s.last + 1
  PROVE  LET r == ApplyNext(s, L[seq].id, seq, L[seq].writes)
         IN  r \in Sound(L, E) /\ r.last >= seq /\ Keeps(L, s, r)
<1> DEFINE id == L[seq].id
           w == L[seq].writes
<1>1. seq \in Nat /\ w \in Writes
  <2>1. L[seq] \in SentTransaction
    BY ElementOfSeq
  <2> QED BY <2>1, LenProperties DEF SentTransaction
(* Executing w on a sound state that has reached seq - 1, draining and     *)
(* reapplying.                                                             *)
<1>2. ASSUME NEW x \in Sound(L, E), x.last = s.last
      PROVE  LET r == Reapply(ApplyOutOfOrder(Applied(x, w), seq))
             IN  r \in Sound(L, E) /\ r.last >= seq /\ r.unsaved = x.unsaved
  <2>1. x \in Core /\ Applied(x, w) \in Core /\ Applied(x, w).unsaved = x.unsaved
    BY <1>1, OverlayType DEF Applied, Sound, Core
  <2>2. [Applied(x, w) EXCEPT !.last = seq] = [x EXCEPT !.grid = Overlay(x.grid, w), !.last = seq]
    BY <2>1 DEF Applied, Core
  <2>3. [Applied(x, w) EXCEPT !.last = seq] \in Sound(L, E)
    BY <1>2, <2>2, NextSound
  <2>4. /\ ApplyOutOfOrder(Applied(x, w), seq) \in Sound(L, E)
        /\ ApplyOutOfOrder(Applied(x, w), seq).last >= seq
        /\ ApplyOutOfOrder(Applied(x, w), seq).unsaved = x.unsaved
    BY <1>1, <2>1, <2>3, ApplyOutOfOrderSound
  <2> QED BY <2>4, ReapplySound
<1>3. CASE ~Holds(s.unsaved, id)
  <2>1. ApplyNext(s, id, seq, w) = Reapply(ApplyOutOfOrder(Applied(Rollback(s), w), seq))
    BY <1>3 DEF ApplyNext, ApplyForeign
  <2> QED BY <1>2, <2>1, RollbackSound, KeepsSame
<1>4. CASE Holds(s.unsaved, id) /\ IndexOf(s.unsaved, id) = 1
  <2>1. ApplyNext(s, id, seq, w) = ApplyOutOfOrder(WithoutUnsaved(s, id), seq)
    BY <1>4 DEF ApplyNext, ApplyOldestOwn
  <2>2. /\ WithoutUnsaved(s, id) \in Sound(L, E) /\ WithoutUnsaved(s, id).last = s.last
        /\ Keeps(L, s, WithoutUnsaved(s, id))
    BY <1>4, WithoutUnsavedSound
  <2>3. id # Foreign
    <3>1. PICK i \in DOMAIN s.unsaved : s.unsaved[i].id = id
      BY <1>4 DEF Holds
    <3> QED BY <3>1 DEF Sound, OwnEntry
  <2>4. DOMAIN w \subseteq E
    BY <2>3 DEF OwnInLog
  <2>5. [WithoutUnsaved(s, id) EXCEPT !.last = seq] \in Sound(L, E)
    BY <2>2, <2>4, NextOwnSound
  <2>6. WithoutUnsaved(s, id) \in Core
    BY <2>2 DEF Sound
  <2> DEFINE r == ApplyOutOfOrder(WithoutUnsaved(s, id), seq)
  <2>7. /\ r \in Sound(L, E) /\ r.last >= seq
        /\ r.unsaved = WithoutUnsaved(s, id).unsaved
    BY <1>1, <2>5, <2>6, ApplyOutOfOrderSound
  <2> HIDE DEF r
  <2>8. Keeps(L, s, r)
    BY <2>2, <2>7, KeepsSame, KeepsTransitive
  <2> QED BY <2>1, <2>7, <2>8 DEF r
<1>5. CASE Holds(s.unsaved, id) /\ IndexOf(s.unsaved, id) # 1
  <2> DEFINE x == WithoutUnsaved(Rollback(s), id)
  <2>1. ApplyNext(s, id, seq, w) = Reapply(ApplyOutOfOrder(Applied(x, w), seq))
    BY <1>5 DEF ApplyNext, ApplyNewerOwn
  <2>2. /\ Rollback(s) \in Sound(L, E) /\ Rollback(s).last = s.last
        /\ Holds(Rollback(s).unsaved, id) /\ Keeps(L, s, Rollback(s))
    BY <1>5, RollbackSound, KeepsSame
  <2>3. x \in Sound(L, E) /\ x.last = s.last /\ Keeps(L, Rollback(s), x)
    BY <2>2, WithoutUnsavedSound
  <2> HIDE DEF x
  <2> DEFINE r == Reapply(ApplyOutOfOrder(Applied(x, w), seq))
  <2>4. r \in Sound(L, E) /\ r.last >= seq /\ r.unsaved = x.unsaved
    BY <1>2, <2>3
  <2> HIDE DEF r
  <2>5. Keeps(L, s, r)
    BY <2>2, <2>3, <2>4, KeepsSame, KeepsTransitive
  <2> QED BY <2>1, <2>4, <2>5 DEF r
<1> QED
  BY <1>3, <1>4, <1>5

LEMMA StashedSound ==
  ASSUME NEW L \in Seq(SentTransaction), NEW E, NEW s \in Sound(L, E), NEW seq \in 1..Len(L)
  PROVE  LET r == Stashed(s, L[seq].id, seq, L[seq].writes)
         IN  r \in Sound(L, E) /\ r.last = s.last /\ r.unsaved = s.unsaved
<1> DEFINE e == [id |-> L[seq].id, sequence_num |-> seq, writes |-> L[seq].writes]
           q == WithEntryAt(s.stash, StashIndex(s.stash, seq), e)
<1>1. L[seq] \in SentTransaction
  BY ElementOfSeq
<1>2. e \in StashedTransaction /\ Numbered(L, e) /\ seq \in Nat
  BY <1>1, LenProperties DEF StashedTransaction, SentTransaction, Numbered
<1>3. /\ s \in Core /\ s.stash \in Seq(StashedTransaction)
      /\ \A i \in DOMAIN s.stash : Numbered(L, s.stash[i])
  BY DEF Sound, Core
<1>4. Stashed(s, L[seq].id, seq, L[seq].writes) = [s EXCEPT !.stash = q]
  BY DEF Stashed
<1> HIDE DEF e
<1>5. StashIndex(s.stash, seq) \in 1..(Len(s.stash) + 1)
  BY <1>2, <1>3, StashIndexType
<1>6. /\ q \in Seq(StashedTransaction)
      /\ \A i \in DOMAIN q : q[i] = e \/ \E k \in DOMAIN s.stash : q[i] = s.stash[k]
  BY <1>2, <1>3, <1>5, WithEntryAtType
<1> HIDE DEF q
<1>7. \A i \in DOMAIN q : Numbered(L, q[i])
  BY <1>2, <1>3, <1>6
<1> QED
  BY <1>3, <1>4, <1>6, <1>7 DEF Sound, Core

LEMMA ClientApplySound ==
  ASSUME NEW L \in Seq(SentTransaction), NEW E, OwnInLog(L, E), NEW s \in Sound(L, E),
         NEW seq \in 1..Len(L)
  PROVE  LET r == ClientApply(s, L[seq].id, seq, L[seq].writes)
         IN  r \in Sound(L, E) /\ r.last >= s.last /\ Keeps(L, s, r)
<1>1. s.last \in Nat /\ seq \in Nat
  BY LenProperties DEF Sound, Core
<1> DEFINE r == ClientApply(s, L[seq].id, seq, L[seq].writes)
<1>2. CASE seq = s.last + 1
  <2>1. r = ApplyNext(s, L[seq].id, seq, L[seq].writes)
    BY <1>2 DEF ClientApply
  <2>2. r \in Sound(L, E) /\ r.last >= seq /\ Keeps(L, s, r)
    BY <1>2, <2>1, ApplyNextSound
  <2>3. r.last \in Nat
    BY <2>2 DEF Sound, Core
  <2> QED BY <1>1, <1>2, <2>2, <2>3
<1>3. CASE seq # s.last + 1 /\ seq > s.last
  <2>1. r = Stashed(s, L[seq].id, seq, L[seq].writes)
    BY <1>3 DEF ClientApply
  <2> QED BY <1>1, <2>1, StashedSound, KeepsSame
<1>4. CASE ~(seq > s.last)
  <2>1. r = s
    BY <1>1, <1>4 DEF ClientApply
  <2> QED BY <1>1, <2>1, KeepsSame
<1> QED
  BY <1>2, <1>3, <1>4

(* What receiving each transaction of a batch preserves holds before the   *)
(* unsaved ones are reapplied.                                             *)
LEMMA BatchWithin ==
  ASSUME NEW S, NEW s, Rollback(s) \in S, NEW batch \in Seq(SentTransaction), NEW from,
         \A i \in 1..Len(batch), x \in S :
           ClientApply(x, batch[i].id, from + i - 1, batch[i].writes) \in S
  PROVE  \E x \in S : ApplyBatch(s, batch, from) = Reapply(x)
<1> DEFINE n == Len(batch)
           Receive(x, i) == ClientApply(x, batch[i].id, from + i - 1, batch[i].writes)
           N == [i \in 1..n |-> [x \in S |-> Receive(x, i)]]
           Body(f) == [i \in 0..n |->
                         IF i = 0 THEN Rollback(s)
                         ELSE ClientApply(f[i - 1], batch[i].id, from + i - 1, batch[i].writes)]
           F == CHOOSE f : f = Body(f)
<1>1. n \in Nat
  BY LenProperties
<1>2. \A i \in 1..n, x \in S : Receive(x, i) \in S
  OBVIOUS
<1>3. PICK f \in [0..n -> S] : f[0] = Rollback(s) /\ \A i \in 1..n : f[i] = N[i][f[i - 1]]
  <2>1. N \in Steps(S, n)
    <3> HIDE DEF Receive
    <3> QED BY <1>2 DEF Steps
  <2> HIDE DEF N, Body, F, n
  <2>2. Iterations(S, n, N, Rollback(s)) # {}
    BY <1>1, <2>1, IterationExists
  <2> QED BY <2>2 DEF Iterations
<1>4. \A i \in 1..n : f[i] = Receive(f[i - 1], i)
  <2> TAKE i \in 1..n
  <2>1. f[i - 1] \in S
    <3> HIDE DEF N, Receive, n
    <3>1. i - 1 \in 0..n
      BY <1>1
    <3> QED BY <1>3, <3>1
  <2> HIDE DEF Receive
  <2> QED BY <1>3, <2>1
<1>5. F = Body(F)
  <2>1. f = Body(f)
    <3> HIDE DEF N, n
    <3> QED BY <1>1, <1>3, <1>4
  <2> HIDE DEF Body
  <2> QED BY <2>1, Zenon
<1>6. ApplyBatch(s, batch, from) = Reapply(F[n])
  BY DEF ApplyBatch
<1> HIDE DEF F
<1> DEFINE G == {i \in 0..n : F[i] \in S}
<1>7. 0 \in G
  <2> HIDE DEF N
  <2> QED BY <1>1, <1>5
<1>8. ASSUME NEW m \in 1..n, m - 1 \in G PROVE m \in G
  <2>1. F[m] = Receive(F[m - 1], m)
    <3>1. m \in 0..n /\ m # 0
      BY <1>1
    <3> HIDE DEF N, G, n
    <3> QED BY <1>5, <3>1
  <2> HIDE DEF N, Receive
  <2> QED BY <1>2, <1>8, <2>1
<1>9. n \in G
  <2> HIDE DEF G, n
  <2> QED BY <1>1, <1>7, <1>8, InductionTo
<1> QED
  BY <1>6, <1>9

(* A batch that is the part of the log from the number from on.            *)
LEMMA ApplyBatchSound ==
  ASSUME NEW L \in Seq(SentTransaction), NEW E, OwnInLog(L, E), NEW s \in Sound(L, E),
         NEW batch \in Seq(SentTransaction), NEW from \in Nat,
         \A i \in 1..Len(batch) :
           from + i - 1 \in 1..Len(L) /\ batch[i] = L[from + i - 1]
  PROVE  /\ ApplyBatch(s, batch, from) \in Sound(L, E) /\ ApplyBatch(s, batch, from).last >= s.last
         /\ Keeps(L, s, ApplyBatch(s, batch, from))
<1> DEFINE S == {x \in Sound(L, E) : x.last >= s.last /\ Keeps(L, s, x)}
           Receive(x, i) == ClientApply(x, batch[i].id, from + i - 1, batch[i].writes)
<1>1. s.last \in Nat /\ \A x \in S : x.last \in Nat
  BY DEF Sound, Core
<1>2. Rollback(s) \in S
  BY <1>1, RollbackSound, KeepsSame
<1>3. \A i \in 1..Len(batch), x \in S : Receive(x, i) \in S
  <2> TAKE i \in 1..Len(batch), x \in S
  <2> DEFINE seq == from + i - 1
  <2>1. seq \in 1..Len(L) /\ batch[i] = L[seq]
    OBVIOUS
  <2> HIDE DEF seq
  <2>2. LET r == ClientApply(x, L[seq].id, seq, L[seq].writes)
        IN  r \in Sound(L, E) /\ r.last >= x.last /\ Keeps(L, x, r)
    BY <2>1, ClientApplySound
  <2>3. Receive(x, i) = ClientApply(x, L[seq].id, seq, L[seq].writes)
    BY <2>1 DEF seq
  <2>4. /\ Receive(x, i) \in Sound(L, E) /\ Receive(x, i).last >= x.last
        /\ Keeps(L, x, Receive(x, i))
    BY <2>2, <2>3
  <2>5. Receive(x, i).last \in Nat
    BY <2>4 DEF Sound, Core
  <2> HIDE DEF Receive
  <2>6. Keeps(L, s, Receive(x, i))
    BY <2>4, KeepsTransitive
  <2> QED BY <1>1, <2>4, <2>5, <2>6
<1>4. PICK x \in S : ApplyBatch(s, batch, from) = Reapply(x)
  <2> HIDE DEF S
  <2> QED BY <1>2, <1>3, BatchWithin
<1>5. x \in Sound(L, E) /\ x.last >= s.last /\ Keeps(L, s, x)
  OBVIOUS
<1>6. /\ Reapply(x) \in Sound(L, E) /\ Reapply(x).last >= s.last
      /\ Reapply(x).unsaved = x.unsaved
  BY <1>5, ReapplySound
<1>7. Keeps(L, s, Reapply(x))
  BY <1>5, <1>6, KeepsSame, KeepsTransitive
<1> QED
  BY <1>4, <1>6, <1>7
=============================================================================
