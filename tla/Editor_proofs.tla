--------------------------- MODULE Editor_proofs ---------------------------
(***************************************************************************)
(* What a user sees and can undo, in a session whose messages keep their   *)
(* order, whose connection lasts, and in which she leaves alone the cells  *)
(* of her transactions that the server has not numbered yet: without any   *)
(* one of the three the code does not keep the promise (MultiplayerSession *)
(* says where).  Her unsaved transactions then write different cells, so   *)
(* that it does not matter in which order they are reapplied; received     *)
(* transactions come in the order of their numbers, so that none is held.  *)
(***************************************************************************)
EXTENDS MultiplayerSession_proofs

InOrder == ~Reorder /\ ~LocalConflicts /\ MaxDisconnects = 0

(* Messages come as they were numbered, and there is nothing to ask for.   *)
OrderInv ==
  /\ connected /\ disconnects = 0 /\ issued <= MaxOwn
  /\ requests = {} /\ replies = {} /\ out_of_order_transactions = <<>>
  /\ broadcasts = (last_sequence_num + 1)..Len(log)

Disjoint(q) ==
  \A u, v \in Entries(q) : u.id # v.id => DOMAIN u.forward \cap DOMAIN v.forward = {}

(* Unsaved transactions write different cells.                             *)
Apart(q) == Distinct(q) /\ Disjoint(q) /\ \A u \in Entries(q) : DOMAIN u.reverse = DOMAIN u.forward

(* The user's part of the log: she has kept what she has not received yet, *)
(* and nothing of what she has.                                            *)
KeptUntilReceived ==
  /\ \A i, j \in DOMAIN log : log[i].id = log[j].id /\ log[i].id # Foreign => i = j
  /\ \A n \in DOMAIN log : log[n].id # Foreign =>
       IF n <= last_sequence_num THEN log[n].id \notin Ids(unsaved_transactions)
       ELSE \E u \in Entries(unsaved_transactions) :
              u.id = log[n].id /\ u.forward = log[n].writes

UnsavedInv ==
  /\ Apart(unsaved_transactions)
  /\ \A id \in Ids(unsaved_transactions) : id <= issued
  /\ KeptUntilReceived

(* g is base with the forward operations of q on top, whatever their order.*)
Shows(g, base, q) ==
  /\ \A u \in Entries(q), c \in Cell : c \in DOMAIN u.forward => g[c] = u.forward[c]
  /\ \A c \in Cell : (\A u \in Entries(q) : c \notin DOMAIN u.forward) => g[c] = base[c]

ViewInv == Shows(grid, Replay(log, last_sequence_num), unsaved_transactions)

(* What is in cell c after undoing everything in q, if it is v now.        *)
Bottom(q, c, v) == IF Covering(q, c) = {} THEN v ELSE q[Least(Covering(q, c))][c]

(* Undoing everything, the transactions whose code is running first, leads *)
(* to a blank cell.                                                        *)
TrailInv ==
  \A c \in OwnCells :
    /\ \A u \in Entries(async_transactions) :
         c \in DOMAIN u.reverse => Bottom(undo_stack, c, u.reverse[c]) = Blank
    /\ (\A u \in Entries(async_transactions) : c \notin DOMAIN u.reverse) =>
         Bottom(undo_stack, c, grid[c]) = Blank

EditorInv == OrderInv /\ UnsavedInv /\ ViewInv /\ TrailInv

-----------------------------------------------------------------------------
(* Transactions that write different cells.                                *)

LEMMA EntriesType ==
  ASSUME NEW S, NEW q \in Seq(S)
  PROVE  /\ \A u \in Entries(q) : u \in S
         /\ Ids(q) = {u.id : u \in Entries(q)}
<1>1. \A i \in DOMAIN q : q[i] \in S
  BY ElementOfSeq, LenProperties
<1> QED
  BY <1>1 DEF Entries, Ids

LEMMA CoveredOnce ==
  ASSUME NEW q \in Seq(UnsavedTransaction), Apart(q), NEW u \in Entries(q),
         NEW c \in DOMAIN u.forward
  PROVE  \E i \in DOMAIN q : /\ Covering(Forwards(q), c) = {i}
                             /\ Forwards(q)[i][c] = u.forward[c]
                             /\ Least({i}) = i /\ Greatest({i}) = i
<1>1. PICK i \in DOMAIN q : q[i] = u
  BY DEF Entries
<1>2. DOMAIN Forwards(q) = DOMAIN q /\ \A j \in DOMAIN q : Forwards(q)[j] = q[j].forward
  BY DEF Forwards
<1>3. \A j \in DOMAIN q : c \in DOMAIN q[j].forward => j = i
  BY <1>1 DEF Apart, Distinct, Disjoint, Entries
<1>4. Covering(Forwards(q), c) = {i}
  BY <1>1, <1>2, <1>3 DEF Covering
<1>5. i \in Nat
  BY LenProperties
<1>6. Least({i}) = i /\ Greatest({i}) = i
  BY <1>5 DEF Least, Greatest
<1> QED
  BY <1>1, <1>2, <1>4, <1>6

(* Then the order of execution makes no difference.                        *)
LEMMA OverlayApart ==
  ASSUME NEW q \in Seq(UnsavedTransaction), Apart(q), NEW g
  PROVE  /\ Shows(OverlayForward(g, Forwards(q)), g, q)
         /\ Shows(OverlayBackward(g, Forwards(q)), g, q)
<1>1. ASSUME NEW u \in Entries(q), NEW c \in Cell, c \in DOMAIN u.forward
      PROVE  /\ OverlayForward(g, Forwards(q))[c] = u.forward[c]
             /\ OverlayBackward(g, Forwards(q))[c] = u.forward[c]
  <2>1. PICK i \in DOMAIN q : /\ Covering(Forwards(q), c) = {i}
                              /\ Forwards(q)[i][c] = u.forward[c]
                              /\ Least({i}) = i /\ Greatest({i}) = i
    BY <1>1, CoveredOnce
  <2> QED BY <2>1 DEF OverlayForward, OverlayBackward
<1>2. ASSUME NEW c \in Cell, \A u \in Entries(q) : c \notin DOMAIN u.forward
      PROVE  /\ OverlayForward(g, Forwards(q))[c] = g[c]
             /\ OverlayBackward(g, Forwards(q))[c] = g[c]
  <2>1. Covering(Forwards(q), c) = {}
    BY <1>2 DEF Covering, Forwards, Entries
  <2> QED BY <2>1 DEF OverlayForward, OverlayBackward
<1> QED
  BY <1>1, <1>2 DEF Shows

(* What is shown is determined.                                            *)
LEMMA ShowsOne ==
  ASSUME NEW q, NEW base, NEW g, NEW h, Shows(g, base, q), Shows(h, base, q)
  PROVE  \A c \in Cell : g[c] = h[c]
BY DEF Shows

LEMMA ViewIsOverlay ==
  ASSUME NEW q \in Seq(UnsavedTransaction), Apart(q), NEW base, NEW g \in Grid, Shows(g, base, q)
  PROVE  g = OverlayForward(base, Forwards(q))
<1>1. \A c \in Cell : g[c] = OverlayForward(base, Forwards(q))[c]
  BY OverlayApart, ShowsOne
<1>2. g = [c \in Cell |-> g[c]]
  BY DEF Grid
<1>3. OverlayForward(base, Forwards(q)) = [c \in Cell |-> OverlayForward(base, Forwards(q))[c]]
  BY DEF OverlayForward
<1> QED
  BY <1>1, <1>2, <1>3

(* Rolling back leaves the cells that no unsaved transaction writes.       *)
LEMMA RollbackElsewhere ==
  ASSUME NEW q \in Seq(UnsavedTransaction), Apart(q), NEW g, NEW c \in Cell,
         \A u \in Entries(q) : c \notin DOMAIN u.forward
  PROVE  OverlayBackward(g, Reverses(q))[c] = g[c]
<1>1. \A i \in DOMAIN Reverses(q) : c \notin DOMAIN Reverses(q)[i]
  BY DEF Reverses, Apart, Entries
<1> QED
  BY <1>1, OverlayBackwardElsewhere

(* Taking one of them out.                                                 *)
LEMMA ApartWithoutIndex ==
  ASSUME NEW q \in Seq(UnsavedTransaction), Apart(q), NEW k \in DOMAIN q
  PROVE  /\ WithoutIndex(q, k) \in Seq(UnsavedTransaction)
         /\ Apart(WithoutIndex(q, k))
         /\ Entries(WithoutIndex(q, k)) = {u \in Entries(q) : u.id # q[k].id}
         /\ Ids(WithoutIndex(q, k)) \subseteq Ids(q) \ {q[k].id}
<1> DEFINE p == WithoutIndex(q, k)
<1>0. k \in 1..Len(q) /\ Distinct(q)
  BY LenProperties DEF Apart
<1>1. /\ p \in Seq(UnsavedTransaction)
      /\ \A j \in DOMAIN q : j # k => \E i \in DOMAIN p : p[i] = q[j]
  BY <1>0, WithoutIndexType
<1>2. Ids(p) \subseteq Ids(q) \ {q[k].id} /\ Entries(p) \subseteq Entries(q) /\ Distinct(p)
  BY <1>0, IdsWithoutIndex
<1> HIDE DEF p
<1>3. Entries(p) = {u \in Entries(q) : u.id # q[k].id}
  <2>1. \A u \in Entries(p) : u.id # q[k].id
    BY <1>2 DEF Ids, Entries
  <2>2. \A u \in Entries(q) : u.id # q[k].id => u \in Entries(p)
    BY <1>1 DEF Entries
  <2> QED BY <1>2, <2>1, <2>2
<1>4. Apart(p)
  BY <1>2, <1>3 DEF Apart, Disjoint
<1> QED
  BY <1>1, <1>2, <1>3, <1>4 DEF p

-----------------------------------------------------------------------------
(* Receiving the next transaction.                                         *)

(* What the engine shows between two messages: nothing is held, and the    *)
(* unsaved transactions are on top of the log.                             *)
Clear(L) ==
  {s \in Core : /\ s.stash = <<>> /\ Apart(s.unsaved)
                /\ \A u \in Entries(s.unsaved) : u.id # Foreign
                /\ Shows(s.grid, Replay(L, s.last), s.unsaved)}

(* With nothing held, nothing follows.                                     *)
LEMMA DrainNothing ==
  ASSUME NEW s \in Core, s.stash = <<>>, NEW seq \in Nat
  PROVE  LET r == ApplyOutOfOrder(s, seq)
         IN  /\ r \in Core /\ r.grid = s.grid /\ r.unsaved = s.unsaved
             /\ r.stash = <<>> /\ r.last = seq
<1> DEFINE d == [s EXCEPT !.last = seq, !.stash = <<>>]
           Body(f) == [i \in 0..Len(s.stash) |-> IF i = 0 THEN d ELSE DrainStep(f[i - 1], s.stash[i])]
           F == CHOOSE f : f = Body(f)
<1>1. Len(s.stash) = 0
  BY EmptySeq
<1>2. d \in Core /\ d.grid = s.grid /\ d.unsaved = s.unsaved /\ d.stash = <<>> /\ d.last = seq
  BY DEF Core
<1>3. ApplyOutOfOrder(s, seq) = F[Len(s.stash)]
  BY DEF ApplyOutOfOrder, Drain
<1>4. F = Body(F)
  <2> DEFINE f == [i \in 0..0 |-> d]
  <2>1. f = Body(f)
    <3> HIDE DEF d
    <3> QED BY <1>1
  <2> HIDE DEF Body, f
  <2> QED BY <2>1, Zenon
<1> HIDE DEF d, F
<1>5. F[0] = d
  BY <1>1, <1>4
<1> QED
  BY <1>1, <1>2, <1>3, <1>5

(* Reapplying on a grid that is right wherever no unsaved transaction      *)
(* writes.                                                                 *)
LEMMA ReapplyShows ==
  ASSUME NEW s \in Core, Apart(s.unsaved), NEW base,
         \A c \in Cell : (\A u \in Entries(s.unsaved) : c \notin DOMAIN u.forward) =>
                           s.grid[c] = base[c]
  PROVE  LET r == Reapply(s)
         IN  /\ r \in Core /\ r.unsaved = s.unsaved /\ r.stash = s.stash /\ r.last = s.last
             /\ Shows(r.grid, base, s.unsaved)
<1> DEFINE g == OverlayBackward(s.grid, Forwards(s.unsaved))
<1>1. s.unsaved \in Seq(UnsavedTransaction) /\ s.grid \in Grid
  BY DEF Core
<1>2. g \in Grid
  BY <1>1, ForwardsType, OverlayBackwardType
<1>3. Shows(g, s.grid, s.unsaved)
  BY <1>1, OverlayApart
<1> HIDE DEF g
<1>4. Shows(g, base, s.unsaved)
  BY <1>3 DEF Shows
<1>5. Reapply(s) = [s EXCEPT !.grid = g]
  BY DEF Reapply, g
<1> QED
  BY <1>2, <1>4, <1>5 DEF Core

LEMMA RollbackType ==
  ASSUME NEW s \in Core
  PROVE  LET r == Rollback(s)
         IN  /\ r \in Core /\ r.unsaved = s.unsaved /\ r.stash = s.stash /\ r.last = s.last
             /\ r.grid = OverlayBackward(s.grid, Reverses(s.unsaved))
<1> DEFINE g == OverlayBackward(s.grid, Reverses(s.unsaved))
<1>1. s.unsaved \in Seq(UnsavedTransaction) /\ s.grid \in Grid
  BY DEF Core
<1>2. g \in Grid
  BY <1>1, ForwardsType, OverlayBackwardType
<1>3. Rollback(s) = [s EXCEPT !.grid = g]
  BY DEF Rollback
<1> HIDE DEF g
<1>4. Rollback(s) \in Core /\ Rollback(s).grid = g
  BY <1>2, <1>3 DEF Core
<1> QED
  BY <1>3, <1>4 DEF Core, g

(* Executing w on a state that is rolled back, and all that follows.       *)
LEMMA ApplyRolledBack ==
  ASSUME NEW L \in Seq(SentTransaction), NEW x \in Core, NEW seq \in 1..Len(L),
         seq = x.last + 1, x.stash = <<>>, Apart(x.unsaved),
         \A u \in Entries(x.unsaved) : u.id # Foreign,
         \A c \in Cell : (\A u \in Entries(x.unsaved) : c \notin DOMAIN u.forward) =>
           x.grid[c] = Replay(L, x.last)[c] \/ c \in DOMAIN L[seq].writes
  PROVE  LET r == Reapply(ApplyOutOfOrder(Applied(x, L[seq].writes), seq))
         IN  r \in Clear(L) /\ r.last = seq /\ r.unsaved = x.unsaved
<1> DEFINE w == L[seq].writes
           g == Overlay(x.grid, w)
           y == Applied(x, w)
           z == ApplyOutOfOrder(y, seq)
           r == Reapply(z)
<1>1. seq \in Nat /\ x.last \in Nat /\ x.grid \in Grid /\ x.unsaved \in Seq(UnsavedTransaction)
  BY LenProperties DEF Core
<1>2. w \in Writes
  <2>1. L[seq] \in SentTransaction
    BY ElementOfSeq
  <2> QED BY <2>1 DEF SentTransaction
<1>3. g \in Grid
  BY <1>1, <1>2, OverlayType
<1>4. \A c \in Cell : (\A u \in Entries(x.unsaved) : c \notin DOMAIN u.forward) =>
                        g[c] = Replay(L, seq)[c]
  <2> SUFFICES ASSUME NEW c \in Cell, \A u \in Entries(x.unsaved) : c \notin DOMAIN u.forward
               PROVE  g[c] = Replay(L, seq)[c]
    OBVIOUS
  <2>1. Replay(L, seq)[c] = Overlay(Replay(L, x.last), w)[c]
    BY <1>1, ReplayStep
  <2> QED BY <2>1 DEF Overlay
<1>5. y = [x EXCEPT !.grid = g]
  BY DEF Applied
<1> HIDE DEF g
<1>6. y \in Core /\ y.grid = g /\ y.unsaved = x.unsaved /\ y.stash = <<>>
  BY <1>3, <1>5 DEF Core
<1> HIDE DEF y
<1>7. z \in Core /\ z.grid = g /\ z.unsaved = x.unsaved /\ z.stash = <<>> /\ z.last = seq
  BY <1>1, <1>6, DrainNothing
<1> HIDE DEF z
<1>8. /\ r \in Core /\ r.unsaved = x.unsaved /\ r.stash = <<>> /\ r.last = seq
      /\ Shows(r.grid, Replay(L, seq), z.unsaved)
  BY <1>4, <1>7, ReapplyShows
<1> HIDE DEF r
<1>9. r \in Clear(L)
  BY <1>7, <1>8 DEF Clear
<1> QED
  BY <1>8, <1>9 DEF r, z, y

(* The transaction is someone else's.                                      *)
LEMMA ForeignShows ==
  ASSUME NEW L \in Seq(SentTransaction), NEW s \in Clear(L), NEW seq \in 1..Len(L),
         seq = s.last + 1, L[seq].id = Foreign
  PROVE  LET r == ClientApply(s, L[seq].id, seq, L[seq].writes)
         IN  r \in Clear(L) /\ r.last = seq /\ r.unsaved = s.unsaved
<1> DEFINE x == Rollback(s)
           r == ClientApply(s, L[seq].id, seq, L[seq].writes)
<1>1. s \in Core /\ s.unsaved \in Seq(UnsavedTransaction) /\ Apart(s.unsaved)
  BY DEF Clear, Core
<1>2. ~Holds(s.unsaved, Foreign)
  BY DEF Holds, Clear, Entries
<1>3. r = Reapply(ApplyOutOfOrder(Applied(x, L[seq].writes), seq))
  BY <1>2 DEF ClientApply, ApplyNext, ApplyForeign
<1>4. /\ x \in Core /\ x.unsaved = s.unsaved /\ x.stash = s.stash /\ x.last = s.last
      /\ x.grid = OverlayBackward(s.grid, Reverses(s.unsaved))
  BY <1>1, RollbackType
<1>5. \A c \in Cell : (\A u \in Entries(s.unsaved) : c \notin DOMAIN u.forward) =>
                        x.grid[c] = Replay(L, s.last)[c]
  BY <1>1, <1>4, RollbackElsewhere DEF Clear, Shows
<1> HIDE DEF x, r
<1>6. /\ x.stash = <<>> /\ Apart(x.unsaved) /\ seq = x.last + 1
      /\ \A u \in Entries(x.unsaved) : u.id # Foreign
  BY <1>4 DEF Clear
<1>7. LET q == Reapply(ApplyOutOfOrder(Applied(x, L[seq].writes), seq))
      IN  q \in Clear(L) /\ q.last = seq /\ q.unsaved = x.unsaved
  BY <1>4, <1>5, <1>6, ApplyRolledBack
<1> QED
  BY <1>3, <1>4, <1>7 DEF r

(* The transaction is her own: it is no longer unsaved, and every cell     *)
(* keeps its value.                                                        *)
LEMMA OwnShows ==
  ASSUME NEW L \in Seq(SentTransaction), NEW s \in Clear(L), NEW seq \in 1..Len(L),
         seq = s.last + 1, NEW u \in Entries(s.unsaved),
         u.id = L[seq].id, u.forward = L[seq].writes
  PROVE  LET r == ClientApply(s, L[seq].id, seq, L[seq].writes)
         IN  /\ r \in Clear(L) /\ r.last = seq
             /\ \E k \in DOMAIN s.unsaved :
                  s.unsaved[k].id = L[seq].id /\ r.unsaved = WithoutIndex(s.unsaved, k)
<1> DEFINE id == L[seq].id
           w == L[seq].writes
           r == ClientApply(s, id, seq, w)
           k == IndexOf(s.unsaved, id)
           q == WithoutIndex(s.unsaved, k)
<1>1. /\ s \in Core /\ s.unsaved \in Seq(UnsavedTransaction) /\ Apart(s.unsaved)
      /\ s.stash = <<>> /\ \A v \in Entries(s.unsaved) : v.id # Foreign
      /\ Shows(s.grid, Replay(L, s.last), s.unsaved)
      /\ s.last \in Nat /\ seq \in Nat
  BY LenProperties DEF Clear, Core
<1>2. Holds(s.unsaved, id)
  BY DEF Holds, Entries
<1>3. k \in DOMAIN s.unsaved /\ s.unsaved[k].id = id
  BY <1>1, <1>2, IndexOfType, LenProperties
<1>4. /\ q \in Seq(UnsavedTransaction) /\ Apart(q)
      /\ Entries(q) = {v \in Entries(s.unsaved) : v.id # id}
  BY <1>1, <1>3, ApartWithoutIndex
<1> HIDE DEF k, q
<1>5. \A v \in Entries(s.unsaved) : v.id = id => v = u
  BY <1>1 DEF Apart, Distinct, Entries
(* What no other transaction writes is as the log has it.                  *)
<1>6. ASSUME NEW c \in Cell, \A v \in Entries(q) : c \notin DOMAIN v.forward
      PROVE  /\ c \in DOMAIN w => s.grid[c] = w[c]
             /\ c \notin DOMAIN w => \A v \in Entries(s.unsaved) : c \notin DOMAIN v.forward
  BY <1>1, <1>4, <1>5, <1>6 DEF Shows
<1>7. CASE IndexOf(s.unsaved, id) = 1
  <2> DEFINE x == [s EXCEPT !.unsaved = q]
  <2>1. r = ApplyOutOfOrder(x, seq)
    BY <1>2, <1>7 DEF ClientApply, ApplyNext, ApplyOldestOwn, WithoutUnsaved, k, q
  <2>2. x \in Core /\ x.grid = s.grid /\ x.unsaved = q /\ x.stash = <<>>
    BY <1>1, <1>4 DEF Core
  <2> HIDE DEF x
  <2>3. r \in Core /\ r.grid = s.grid /\ r.unsaved = q /\ r.stash = <<>> /\ r.last = seq
    <3>1. LET y == ApplyOutOfOrder(x, seq)
          IN  y \in Core /\ y.grid = x.grid /\ y.unsaved = x.unsaved /\ y.stash = <<>> /\ y.last = seq
      BY <1>1, <2>2, DrainNothing
    <3> QED BY <2>1, <2>2, <3>1
  <2> HIDE DEF r
  <2>4. \A c \in Cell : (\A v \in Entries(q) : c \notin DOMAIN v.forward) =>
                          s.grid[c] = Replay(L, seq)[c]
    <3> SUFFICES ASSUME NEW c \in Cell, \A v \in Entries(q) : c \notin DOMAIN v.forward
                 PROVE  s.grid[c] = Replay(L, seq)[c]
      OBVIOUS
    <3>1. Replay(L, seq)[c] = Overlay(Replay(L, s.last), w)[c]
      BY <1>1, ReplayStep
    <3>2. c \notin DOMAIN w => s.grid[c] = Replay(L, s.last)[c]
      BY <1>1, <1>6 DEF Shows
    <3> HIDE DEF w
    <3> QED BY <1>6, <3>1, <3>2 DEF Overlay
  <2>5. Shows(r.grid, Replay(L, seq), q)
    BY <1>1, <1>4, <2>3, <2>4 DEF Shows
  <2>6. r \in Clear(L)
    BY <1>1, <1>4, <2>3, <2>5 DEF Clear
  <2> QED BY <1>3, <2>3, <2>6 DEF r, q
<1>8. CASE IndexOf(s.unsaved, id) # 1
  <2> DEFINE b == Rollback(s)
             x == [b EXCEPT !.unsaved = q]
  <2>1. /\ b \in Core /\ b.unsaved = s.unsaved /\ b.stash = s.stash /\ b.last = s.last
        /\ b.grid = OverlayBackward(s.grid, Reverses(s.unsaved))
    BY <1>1, RollbackType
  <2>2. r = Reapply(ApplyOutOfOrder(Applied(x, w), seq))
    BY <1>2, <1>8, <2>1 DEF ClientApply, ApplyNext, ApplyNewerOwn, WithoutUnsaved, k, q
  <2> HIDE DEF b
  <2>3. x \in Core /\ x.grid = b.grid /\ x.unsaved = q /\ x.stash = <<>> /\ x.last = s.last
    BY <1>1, <1>4, <2>1 DEF Core
  <2> HIDE DEF x, r
  <2>4. \A c \in Cell : (\A v \in Entries(q) : c \notin DOMAIN v.forward) =>
          x.grid[c] = Replay(L, s.last)[c] \/ c \in DOMAIN w
    BY <1>1, <1>6, <2>1, <2>3, RollbackElsewhere DEF Shows
  <2>5. Apart(x.unsaved) /\ \A v \in Entries(x.unsaved) : v.id # Foreign
    BY <1>1, <1>4, <2>3
  <2>6. r \in Clear(L) /\ r.last = seq /\ r.unsaved = q
    BY <1>1, <2>2, <2>3, <2>4, <2>5, ApplyRolledBack
  <2> QED BY <1>3, <2>6 DEF r, q
<1> QED
  BY <1>7, <1>8

-----------------------------------------------------------------------------
(* What undoing and redoing lead to.                                       *)

LEMMA BottomIsOverlay ==
  ASSUME NEW q, NEW g, NEW c \in Cell
  PROVE  OverlayBackward(g, q)[c] = Bottom(q, c, g[c])
BY DEF OverlayBackward, Bottom

(* One more entry on the stack.                                            *)
LEMMA BottomAppend ==
  ASSUME NEW q \in Seq(Writes), NEW w \in Writes, NEW c, NEW v
  PROVE  Bottom(Append(q, w), c, v) = Bottom(q, c, IF c \in DOMAIN w THEN w[c] ELSE v)
<1> DEFINE p == Append(q, w)
           C == Covering(q, c)
           D == Covering(p, c)
<1>1. /\ Len(q) \in Nat /\ DOMAIN q = 1..Len(q) /\ DOMAIN p = 1..(Len(q) + 1)
      /\ p[Len(q) + 1] = w /\ \A i \in DOMAIN q : p[i] = q[i]
  BY AppendProperties, LenProperties
<1> HIDE DEF p
<1>2. D = C \cup (IF c \in DOMAIN w THEN {Len(q) + 1} ELSE {})
  BY <1>1 DEF Covering
<1>3. C \in SUBSET (1..Len(q))
  BY <1>1 DEF Covering
<1> HIDE DEF C, D
<1>4. CASE C = {}
  <2>1. c \in DOMAIN w => Least(D) = Len(q) + 1
    <3>1. c \in DOMAIN w => D = {Len(q) + 1}
      BY <1>2, <1>4
    <3>2. Least({Len(q) + 1}) = Len(q) + 1
      BY <1>1 DEF Least
    <3> QED BY <3>1, <3>2
  <2> QED BY <1>1, <1>2, <1>4, <2>1 DEF Bottom, p, C, D
<1>5. CASE C # {}
  <2>1. C \in SUBSET Nat
    BY <1>1, <1>3
  <2>2. Least(C) \in C /\ \A i \in C : Least(C) <= i
    BY <1>5, <2>1, LeastIsMember
  <2>3. Least(D) = Least(C)
    <3>0. C \subseteq D /\ \A i \in D : i \in C \/ i = Len(q) + 1
      BY <1>2
    <3>1. Least(C) \in D /\ \A i \in D : Least(C) <= i
      <4>1. Least(C) \in 1..Len(q)
        BY <1>3, <2>2
      <4> DEFINE m == Least(C)
      <4> HIDE DEF m
      <4>2. m \in 1..Len(q) /\ m \in C /\ \A i \in C : m <= i
        BY <4>1, <2>2 DEF m
      <4>3. m \in D /\ \A i \in D : m <= i
        BY <1>1, <3>0, <4>2
      <4> QED BY <4>3 DEF m
    <3>2. D \in SUBSET Nat /\ D # {}
      BY <1>1, <2>1, <3>0, <3>1
    <3>3. Least(D) \in D /\ \A i \in D : Least(D) <= i
      BY <3>2, LeastIsMember
    <3>4. Least(C) \in Nat /\ Least(D) \in Nat /\ Least(C) <= Least(D) /\ Least(D) <= Least(C)
      BY <3>1, <3>2, <3>3
    <3> QED BY <3>4
  <2>4. p[Least(C)] = q[Least(C)] /\ D # {}
    BY <1>1, <1>2, <1>3, <2>2
  <2> QED BY <1>5, <2>3, <2>4 DEF Bottom, p, C, D
<1> QED
  BY <1>4, <1>5

(* The entry on the top taken off.                                         *)
LEMMA BottomPop ==
  ASSUME NEW q \in Seq(Writes), q # <<>>, NEW c, NEW v
  PROVE  /\ Top(q) \in Writes /\ Pop(q) \in Seq(Writes)
         /\ Bottom(q, c, v) = Bottom(Pop(q), c, IF c \in DOMAIN Top(q) THEN Top(q)[c] ELSE v)
<1>1. \A i \in DOMAIN q : q[i] \in Writes /\ DOMAIN q[i] \subseteq Cell
  BY ElementOfSeq, LenProperties, WritesType
<1>2. q \in Stack(Cell)
  BY <1>1 DEF Stack
<1>3. Top(q) \in Writes /\ Pop(q) \in Seq(Writes)
  BY <1>2, StackTopPop DEF Stack
<1>4. Append(Pop(q), Top(q)) = q
  <2>1. Len(q) \in Nat /\ Len(q) # 0 /\ DOMAIN q = 1..Len(q)
    BY LenProperties, EmptySeq
  <2> DEFINE n == Len(q) - 1
  <2>2. n \in Nat /\ 1 \in Int /\ \A i \in 1..n : q[i] \in Writes
    BY <1>1, <2>1
  <2>3. Len(Pop(q)) = n /\ \A i \in 1..n : Pop(q)[i] = q[i]
    <3> HIDE DEF n
    <3>1. /\ Len(SubSeq(q, 1, n)) = IF 1 <= n THEN n - 1 + 1 ELSE 0
          /\ \A i \in 1..(n - 1 + 1) : SubSeq(q, 1, n)[i] = q[1 + i - 1]
      BY <2>2, SubSeqProperties
    <3>2. Len(SubSeq(q, 1, n)) = n /\ \A i \in 1..n : SubSeq(q, 1, n)[i] = q[i]
      BY <2>2, <3>1
    <3>3. Pop(q) = SubSeq(q, 1, n)
      BY DEF Pop, n
    <3> QED BY <3>2, <3>3
  <2> DEFINE p == Pop(q)
             t == Top(q)
  <2>4. /\ Append(p, t) \in Seq(Writes) /\ Len(Append(p, t)) = Len(p) + 1
        /\ \A i \in 1..Len(p) : Append(p, t)[i] = p[i]
        /\ Append(p, t)[Len(p) + 1] = t
    BY <1>3, AppendProperties
  <2>5. t = q[Len(q)]
    BY DEF Top
  <2> HIDE DEF p, t
  <2>6. Len(Append(p, t)) = Len(q) /\ \A i \in 1..Len(q) : Append(p, t)[i] = q[i]
    BY <2>1, <2>3, <2>4, <2>5 DEF p
  <2>7. Append(p, t) = q
    BY <2>4, <2>6, SeqEqual
  <2> QED BY <2>7 DEF p, t
<1>5. Bottom(Append(Pop(q), Top(q)), c, v)
        = Bottom(Pop(q), c, IF c \in DOMAIN Top(q) THEN Top(q)[c] ELSE v)
  BY <1>3, BottomAppend
<1> QED
  BY <1>3, <1>4, <1>5

(* Executing w, of which D is recorded: what is not recorded stays as it   *)
(* was.                                                                    *)
LEMMA ExecutedCells ==
  ASSUME NEW g, NEW w, NEW D \in Recorded(g, w)
  PROVE  /\ D \subseteq DOMAIN w
         /\ \A c \in Cell : Overlay(g, w)[c] = IF c \in D THEN w[c] ELSE g[c]
<1>1. Changed(g, w) \subseteq D /\ D \subseteq DOMAIN w
  BY DEF Recorded, Changed
<1> QED
  BY <1>1 DEF Overlay, Changed

-----------------------------------------------------------------------------
(* The user's own transactions.                                            *)

Untouched(w) ==
  \A u \in Entries(unsaved_transactions) : DOMAIN w \cap DOMAIN u.forward = {}

LEMMA MayWriteUntouched ==
  ASSUME InOrder, NEW w, MayWrite(w)
  PROVE  Untouched(w)
BY DEF InOrder, MayWrite, Untouched, Entries

(* The transaction that executing w makes when D is recorded of it.        *)
Made(w, D) ==
  [id |-> issued + 1, forward |-> ForwardOf(w, D), reverse |-> ReverseOf(grid, D)]

LEMMA MadeType ==
  ASSUME IndInv, NEW w \in Writes, NEW t \in Executions(w)
  PROVE  \E D \in Recorded(grid, w) :
           /\ t = Made(w, D) /\ t \in UnsavedTransaction /\ t.id = issued + 1
           /\ D \subseteq DOMAIN w /\ t.reverse \in Writes
           /\ DOMAIN t.forward = D /\ \A c \in D : t.forward[c] = w[c]
           /\ DOMAIN t.reverse = D /\ \A c \in D : t.reverse[c] = grid[c]
           /\ \A c \in Cell : Overlay(grid, w)[c] = IF c \in D THEN w[c] ELSE grid[c]
<1>1. PICK D \in Recorded(grid, w) : t = Made(w, D)
  BY DEF Executions, Made
<1>2. t \in UnsavedTransaction /\ t.reverse \in Writes
  BY ExecutionsType
<1>3. /\ D \subseteq DOMAIN w
      /\ \A c \in Cell : Overlay(grid, w)[c] = IF c \in D THEN w[c] ELSE grid[c]
  BY ExecutedCells
<1>4. /\ DOMAIN ForwardOf(w, D) = D /\ \A c \in D : ForwardOf(w, D)[c] = w[c]
      /\ DOMAIN ReverseOf(grid, D) = D /\ \A c \in D : ReverseOf(grid, D)[c] = grid[c]
  BY DEF ForwardOf, ReverseOf
<1> QED
  BY <1>1, <1>2, <1>3, <1>4 DEF Made

(* A transaction under a new id is the newest of the unsaved ones, and     *)
(* writes other cells than they do.                                        *)
LEMMA NewUnsaved ==
  ASSUME IndInv, OwnInv, UnsavedInv, ViewInv, NEW w \in Writes, Untouched(w),
         NEW t \in Executions(w), grid' = Overlay(grid, w),
         unsaved_transactions' = InsertOrReplace(unsaved_transactions, t),
         issued' = issued + 1, UNCHANGED <<log, last_sequence_num>>
  PROVE  /\ UnsavedInv' /\ ViewInv'
         /\ unsaved_transactions' = Append(unsaved_transactions, t)
         /\ t.id \notin Ids(unsaved_transactions) \cup Ids(log)
<1>1. PICK D \in Recorded(grid, w) :
           /\ t = Made(w, D) /\ t \in UnsavedTransaction /\ t.id = issued + 1
           /\ D \subseteq DOMAIN w /\ t.reverse \in Writes
           /\ DOMAIN t.forward = D /\ \A c \in D : t.forward[c] = w[c]
           /\ DOMAIN t.reverse = D /\ \A c \in D : t.reverse[c] = grid[c]
           /\ \A c \in Cell : Overlay(grid, w)[c] = IF c \in D THEN w[c] ELSE grid[c]
  BY MadeType
<1>2. issued \in Nat /\ \A id \in Ids(unsaved_transactions) : id \in Nat
  <2>1. /\ \A u \in Entries(unsaved_transactions) : u \in UnsavedTransaction
        /\ Ids(unsaved_transactions) = {u.id : u \in Entries(unsaved_transactions)}
    BY SequenceTypes, EntriesType
  <2> QED BY <2>1, SequenceTypes DEF UnsavedTransaction, TransactionId
<1>3. issued + 1 \notin Ids(unsaved_transactions) /\ issued + 1 \notin Ids(log)
  BY <1>2, SequenceTypes DEF UnsavedInv, OwnInv, IdsInv
<1>4. unsaved_transactions' = Append(unsaved_transactions, t)
  BY <1>1, <1>3 DEF InsertOrReplace, Holds, Ids
<1>5. /\ Ids(unsaved_transactions') = Ids(unsaved_transactions) \cup {issued + 1}
      /\ Entries(unsaved_transactions') = Entries(unsaved_transactions) \cup {t}
      /\ Distinct(unsaved_transactions')
  <2>1. Distinct(unsaved_transactions) /\ t.id \notin Ids(unsaved_transactions)
    BY <1>1, <1>3 DEF UnsavedInv, Apart
  <2>2. unsaved_transactions \in Seq(UnsavedTransaction) /\ t \in UnsavedTransaction
    BY <1>1, SequenceTypes
  <2>3. /\ Ids(Append(unsaved_transactions, t)) = Ids(unsaved_transactions) \cup {t.id}
        /\ Entries(Append(unsaved_transactions, t)) = Entries(unsaved_transactions) \cup {t}
        /\ Distinct(Append(unsaved_transactions, t))
    BY <2>1, <2>2, IdsAppend
  <2> QED BY <1>1, <1>4, <2>3
<1>6. Disjoint(unsaved_transactions')
  <2>1. \A u \in Entries(unsaved_transactions) : DOMAIN u.forward \cap DOMAIN t.forward = {}
    BY <1>1 DEF Untouched
  <2> QED BY <1>5, <2>1 DEF Disjoint, UnsavedInv, Apart
<1>7. Apart(unsaved_transactions')
  BY <1>1, <1>5, <1>6 DEF UnsavedInv, Apart
<1>8. \A id \in Ids(unsaved_transactions') : id <= issued'
  BY <1>2, <1>5 DEF UnsavedInv
<1>9. KeptUntilReceived'
  <2>1. ASSUME NEW n \in DOMAIN log, log[n].id # Foreign
        PROVE  IF n <= last_sequence_num THEN log[n].id \notin Ids(unsaved_transactions')
               ELSE \E u \in Entries(unsaved_transactions') :
                      u.id = log[n].id /\ u.forward = log[n].writes
    <3>1. log[n].id # issued + 1
      BY <1>3 DEF Ids
    <3> QED BY <1>5, <2>1, <3>1 DEF UnsavedInv, KeptUntilReceived
  <2> QED BY <2>1 DEF UnsavedInv, KeptUntilReceived
<1>10. ViewInv'
  <2>1. \A u \in Entries(unsaved_transactions'), c \in Cell :
          c \in DOMAIN u.forward => grid'[c] = u.forward[c]
    BY <1>1, <1>5 DEF ViewInv, Shows, Untouched
  <2>2. \A c \in Cell : (\A u \in Entries(unsaved_transactions') : c \notin DOMAIN u.forward) =>
          grid'[c] = Replay(log, last_sequence_num)[c]
    BY <1>1, <1>5 DEF ViewInv, Shows
  <2> QED BY <2>1, <2>2 DEF ViewInv, Shows
<1> QED
  BY <1>1, <1>3, <1>4, <1>7, <1>8, <1>9, <1>10 DEF UnsavedInv

(* The cells of a transaction whose code is running are cells of an        *)
(* unsaved one.                                                            *)
LEMMA AsyncTouched ==
  ASSUME OwnInv, UnsavedInv, NEW w, Untouched(w)
  PROVE  \A u \in Entries(async_transactions) :
           DOMAIN u.reverse = DOMAIN u.forward /\ DOMAIN w \cap DOMAIN u.forward = {}
BY DEF OwnInv, UnsavedInv, Apart, Untouched

(* Executing w and keeping its reverse operations to be undone.            *)
LEMMA PushedTrail ==
  ASSUME IndInv, OwnInv, UnsavedInv, TrailInv, NEW w \in Writes, Untouched(w),
         NEW t \in Executions(w), grid' = Overlay(grid, w),
         undo_stack' = Append(undo_stack, t.reverse), UNCHANGED <<log, async_transactions>>
  PROVE  TrailInv'
<1>1. PICK D \in Recorded(grid, w) :
           /\ t = Made(w, D) /\ t \in UnsavedTransaction /\ t.id = issued + 1
           /\ D \subseteq DOMAIN w /\ t.reverse \in Writes
           /\ DOMAIN t.forward = D /\ \A c \in D : t.forward[c] = w[c]
           /\ DOMAIN t.reverse = D /\ \A c \in D : t.reverse[c] = grid[c]
           /\ \A c \in Cell : Overlay(grid, w)[c] = IF c \in D THEN w[c] ELSE grid[c]
  BY MadeType
<1>2. undo_stack \in Seq(Writes)
  BY IndInvSequences DEF Stack
<1>3. \A u \in Entries(async_transactions) : DOMAIN w \cap DOMAIN u.reverse = {}
  BY AsyncTouched
<1>4. \A c, v : Bottom(undo_stack', c, v)
                  = Bottom(undo_stack, c, IF c \in D THEN grid[c] ELSE v)
  BY <1>1, <1>2, BottomAppend
<1>5. OwnCells' = OwnCells /\ \A c \in OwnCells : c \in Cell
  BY DEF OwnCells
<1> SUFFICES ASSUME NEW c \in OwnCells
             PROVE  /\ \A u \in Entries(async_transactions) :
                         c \in DOMAIN u.reverse => Bottom(undo_stack', c, u.reverse[c]) = Blank
                    /\ (\A u \in Entries(async_transactions) : c \notin DOMAIN u.reverse) =>
                         Bottom(undo_stack', c, grid'[c]) = Blank
  BY <1>5 DEF TrailInv
<1>6. ASSUME NEW u \in Entries(async_transactions), c \in DOMAIN u.reverse
      PROVE  Bottom(undo_stack', c, u.reverse[c]) = Blank
  <2>1. c \notin D
    BY <1>1, <1>3, <1>6
  <2> QED BY <1>4, <1>6, <2>1 DEF TrailInv
<1>7. ASSUME \A u \in Entries(async_transactions) : c \notin DOMAIN u.reverse
      PROVE  Bottom(undo_stack', c, grid'[c]) = Blank
  <2>1. Bottom(undo_stack', c, grid'[c]) = Bottom(undo_stack, c, grid[c])
    BY <1>1, <1>4, <1>5
  <2> QED BY <1>7, <2>1 DEF TrailInv
<1> QED
  BY <1>6, <1>7

(* Executing what the last of the reverse operations wrote.                *)
LEMMA PoppedTrail ==
  ASSUME IndInv, OwnInv, UnsavedInv, TrailInv, undo_stack # <<>>, Untouched(Top(undo_stack)),
         grid' = Overlay(grid, Top(undo_stack)), undo_stack' = Pop(undo_stack),
         UNCHANGED <<log, async_transactions>>
  PROVE  TrailInv'
<1> DEFINE w == Top(undo_stack)
<1>1. undo_stack \in Seq(Writes)
  BY IndInvSequences DEF Stack
<1>2. \A c, v : Bottom(undo_stack, c, v)
                  = Bottom(undo_stack', c, IF c \in DOMAIN w THEN w[c] ELSE v)
  BY <1>1, BottomPop
<1>3. \A u \in Entries(async_transactions) : DOMAIN w \cap DOMAIN u.reverse = {}
  BY AsyncTouched
<1>4. \A c \in Cell : grid'[c] = IF c \in DOMAIN w THEN w[c] ELSE grid[c]
  BY DEF Overlay
<1>5. OwnCells' = OwnCells /\ \A c \in OwnCells : c \in Cell
  BY DEF OwnCells
<1> HIDE DEF w
<1> SUFFICES ASSUME NEW c \in OwnCells
             PROVE  /\ \A u \in Entries(async_transactions) :
                         c \in DOMAIN u.reverse => Bottom(undo_stack', c, u.reverse[c]) = Blank
                    /\ (\A u \in Entries(async_transactions) : c \notin DOMAIN u.reverse) =>
                         Bottom(undo_stack', c, grid'[c]) = Blank
  BY <1>5 DEF TrailInv
<1>6. ASSUME NEW u \in Entries(async_transactions), c \in DOMAIN u.reverse
      PROVE  Bottom(undo_stack', c, u.reverse[c]) = Blank
  <2>1. c \notin DOMAIN w
    BY <1>3, <1>6
  <2>2. Bottom(undo_stack, c, u.reverse[c]) = Bottom(undo_stack', c, u.reverse[c])
    BY <1>2, <2>1
  <2> QED BY <1>6, <2>2 DEF TrailInv
<1>7. ASSUME \A u \in Entries(async_transactions) : c \notin DOMAIN u.reverse
      PROVE  Bottom(undo_stack', c, grid'[c]) = Blank
  <2>1. Bottom(undo_stack, c, grid[c]) = Bottom(undo_stack', c, grid'[c])
    BY <1>2, <1>4, <1>5
  <2> QED BY <1>7, <2>1 DEF TrailInv
<1> QED
  BY <1>6, <1>7

(* Executing w while its code is still to run.                             *)
LEMMA WaitingTrail ==
  ASSUME IndInv, OwnInv, UnsavedInv, TrailInv, NEW w \in Writes, Untouched(w),
         NEW t \in Executions(w), grid' = Overlay(grid, w),
         async_transactions' = Append(async_transactions, t), UNCHANGED <<log, undo_stack>>
  PROVE  TrailInv'
<1>1. PICK D \in Recorded(grid, w) :
           /\ t = Made(w, D) /\ t \in UnsavedTransaction /\ t.id = issued + 1
           /\ D \subseteq DOMAIN w /\ t.reverse \in Writes
           /\ DOMAIN t.forward = D /\ \A c \in D : t.forward[c] = w[c]
           /\ DOMAIN t.reverse = D /\ \A c \in D : t.reverse[c] = grid[c]
           /\ \A c \in Cell : Overlay(grid, w)[c] = IF c \in D THEN w[c] ELSE grid[c]
  BY MadeType
<1>2. Entries(async_transactions') = Entries(async_transactions) \cup {t}
  BY <1>1, SequenceTypes, IdsAppend
<1>3. \A u \in Entries(async_transactions) : DOMAIN w \cap DOMAIN u.reverse = {}
  BY AsyncTouched
<1>4. OwnCells' = OwnCells /\ \A c \in OwnCells : c \in Cell
  BY DEF OwnCells
<1> SUFFICES ASSUME NEW c \in OwnCells
             PROVE  /\ \A u \in Entries(async_transactions') :
                         c \in DOMAIN u.reverse => Bottom(undo_stack, c, u.reverse[c]) = Blank
                    /\ (\A u \in Entries(async_transactions') : c \notin DOMAIN u.reverse) =>
                         Bottom(undo_stack, c, grid'[c]) = Blank
  BY <1>4 DEF TrailInv
<1>5. ASSUME NEW u \in Entries(async_transactions'), c \in DOMAIN u.reverse
      PROVE  Bottom(undo_stack, c, u.reverse[c]) = Blank
  <2>1. CASE u \in Entries(async_transactions)
    BY <1>5, <2>1 DEF TrailInv
  <2>2. CASE u = t
    <3>1. c \in D /\ u.reverse[c] = grid[c]
      BY <1>1, <1>5, <2>2
    <3>2. \A v \in Entries(async_transactions) : c \notin DOMAIN v.reverse
      BY <1>1, <1>3, <3>1
    <3> QED BY <3>1, <3>2 DEF TrailInv
  <2> QED BY <1>2, <2>1, <2>2
<1>6. ASSUME \A u \in Entries(async_transactions') : c \notin DOMAIN u.reverse
      PROVE  Bottom(undo_stack, c, grid'[c]) = Blank
  <2>1. grid'[c] = grid[c] /\ \A v \in Entries(async_transactions) : c \notin DOMAIN v.reverse
    BY <1>1, <1>2, <1>4, <1>6
  <2> QED BY <2>1 DEF TrailInv
<1> QED
  BY <1>5, <1>6

(* The transaction a, whose code wrote r, when D is recorded of that.      *)
LEMMA CompletedType ==
  ASSUME IndInv, NEW k \in DOMAIN async_transactions, NEW r \in Writes,
         NEW t \in Completions(async_transactions[k], r),
         DOMAIN async_transactions[k].reverse = DOMAIN async_transactions[k].forward,
         DOMAIN r \cap DOMAIN async_transactions[k].forward = {}
  PROVE  LET a == async_transactions[k]
         IN  \E D \in Recorded(grid, r) :
               /\ t \in UnsavedTransaction /\ t.id = a.id /\ t.reverse \in Writes
               /\ D \subseteq DOMAIN r /\ D \cap DOMAIN a.forward = {}
               /\ DOMAIN t.forward = DOMAIN a.forward \cup D
               /\ DOMAIN t.reverse = DOMAIN a.forward \cup D
               /\ \A c \in DOMAIN a.forward :
                    t.forward[c] = a.forward[c] /\ t.reverse[c] = a.reverse[c]
               /\ \A c \in D : t.forward[c] = r[c] /\ t.reverse[c] = grid[c]
               /\ t.forward = Merge(a.forward, ForwardOf(r, D)) /\ ForwardOf(r, D) \in Writes
               /\ \A c \in Cell : Overlay(grid, r)[c] = IF c \in D THEN r[c] ELSE grid[c]
<1> DEFINE a == async_transactions[k]
<1>1. PICK D \in Recorded(grid, r) :
        t = [id |-> a.id, forward |-> Merge(a.forward, ForwardOf(r, D)),
             reverse |-> Merge(a.reverse, ReverseOf(grid, D))]
  BY DEF Completions
<1>2. t \in UnsavedTransaction /\ t.reverse \in Writes
  BY CompletionsType
<1>3. /\ D \subseteq DOMAIN r
      /\ \A c \in Cell : Overlay(grid, r)[c] = IF c \in D THEN r[c] ELSE grid[c]
  BY ExecutedCells
<1>4. /\ DOMAIN ForwardOf(r, D) = D /\ \A c \in D : ForwardOf(r, D)[c] = r[c]
      /\ DOMAIN ReverseOf(grid, D) = D /\ \A c \in D : ReverseOf(grid, D)[c] = grid[c]
  BY DEF ForwardOf, ReverseOf
<1>5. ForwardOf(r, D) \in Writes
  BY RecordedType DEF IndInv, TypeOK, ClientTypeOK
<1>6. t.id = a.id /\ t.forward = Merge(a.forward, ForwardOf(r, D))
      /\ t.reverse = Merge(a.reverse, ReverseOf(grid, D))
  BY <1>1
<1>7. DOMAIN a.reverse = DOMAIN a.forward /\ D \cap DOMAIN a.forward = {}
  BY <1>3
<1> HIDE DEF a
<1>8. /\ DOMAIN t.forward = DOMAIN a.forward \cup D
      /\ \A c \in DOMAIN a.forward : t.forward[c] = a.forward[c]
      /\ \A c \in D : t.forward[c] = r[c]
  BY <1>4, <1>6, <1>7 DEF Merge
<1>9. /\ DOMAIN t.reverse = DOMAIN a.forward \cup D
      /\ \A c \in DOMAIN a.forward : t.reverse[c] = a.reverse[c]
      /\ \A c \in D : t.reverse[c] = grid[c]
  BY <1>4, <1>6, <1>7 DEF Merge
<1> QED
  BY <1>2, <1>3, <1>5, <1>6, <1>7, <1>8, <1>9 DEF a

(* An entry replaced by one with the same id.                              *)
LEMMA ReplacedEntry ==
  ASSUME NEW q \in Seq(UnsavedTransaction), Distinct(q), NEW t, NEW j \in DOMAIN q, q[j].id = t.id
  PROVE  LET p == InsertOrReplace(q, t)
         IN  /\ p = [q EXCEPT ![j] = t]
             /\ Entries(p) = {u \in Entries(q) : u.id # t.id} \cup {t}
             /\ Ids(p) = Ids(q) /\ Distinct(p)
<1> DEFINE p == [i \in DOMAIN q |-> IF q[i].id = t.id THEN t ELSE q[i]]
<1>1. InsertOrReplace(q, t) = p
  BY DEF InsertOrReplace, Holds
<1>2. DOMAIN p = DOMAIN q
      /\ \A i \in DOMAIN q : IF i = j THEN p[i] = t ELSE p[i] = q[i] /\ q[i].id # t.id
  BY DEF Distinct
<1>3. p = [q EXCEPT ![j] = t]
  BY <1>2
<1> HIDE DEF p
<1>4. \A i \in DOMAIN q : p[i].id = q[i].id
  BY <1>2
<1>5. Ids(p) = Ids(q) /\ Distinct(p)
  BY <1>2, <1>4 DEF Ids, Distinct
<1>6. Entries(p) = {u \in Entries(q) : u.id # t.id} \cup {t}
  <2>1. \A u \in Entries(p) : u = t \/ (u \in Entries(q) /\ u.id # t.id)
    BY <1>2 DEF Entries
  <2>2. t \in Entries(p) /\ \A u \in Entries(q) : u.id # t.id => u \in Entries(p)
    BY <1>2 DEF Entries
  <2> QED BY <2>1, <2>2
<1> QED
  BY <1>1, <1>3, <1>5, <1>6

(* A transaction whose code has run takes the place of the one that was    *)
(* waiting for it, and still writes other cells than the others.           *)
LEMMA CompletedUnsaved ==
  ASSUME IndInv, OwnInv, UnsavedInv, ViewInv, NEW k \in DOMAIN async_transactions,
         NEW r \in Writes, Untouched(r),
         DOMAIN r \cap DOMAIN async_transactions[k].forward = {},
         NEW t \in Completions(async_transactions[k], r), grid' = Overlay(grid, r),
         unsaved_transactions' = InsertOrReplace(unsaved_transactions, t),
         UNCHANGED <<log, last_sequence_num, issued>>
  PROVE  /\ UnsavedInv' /\ ViewInv' /\ t.id \notin Ids(log)
         /\ \E j \in DOMAIN unsaved_transactions :
              /\ unsaved_transactions[j] = async_transactions[k]
              /\ unsaved_transactions[j].id = t.id
              /\ unsaved_transactions' = [unsaved_transactions EXCEPT ![j] = t]
<1> DEFINE a == async_transactions[k]
<1>0. PICK j \in DOMAIN unsaved_transactions : unsaved_transactions[j] = a
  BY DEF OwnInv, Entries
<1>1. a \in Entries(unsaved_transactions) /\ DOMAIN a.reverse = DOMAIN a.forward
  BY <1>0 DEF Entries, UnsavedInv, Apart
<1>2. PICK D \in Recorded(grid, r) :
               /\ t \in UnsavedTransaction /\ t.id = a.id /\ t.reverse \in Writes
               /\ D \subseteq DOMAIN r /\ D \cap DOMAIN a.forward = {}
               /\ DOMAIN t.forward = DOMAIN a.forward \cup D
               /\ DOMAIN t.reverse = DOMAIN a.forward \cup D
               /\ \A c \in DOMAIN a.forward :
                    t.forward[c] = a.forward[c] /\ t.reverse[c] = a.reverse[c]
               /\ \A c \in D : t.forward[c] = r[c] /\ t.reverse[c] = grid[c]
               /\ t.forward = Merge(a.forward, ForwardOf(r, D)) /\ ForwardOf(r, D) \in Writes
               /\ \A c \in Cell : Overlay(grid, r)[c] = IF c \in D THEN r[c] ELSE grid[c]
  BY <1>1, CompletedType
<1>3. a.id \in Ids(async_transactions) /\ a.id \notin Ids(log)
  BY DEF OwnInv, IdsInv, Ids
<1> HIDE DEF a
<1>4. /\ unsaved_transactions' = [unsaved_transactions EXCEPT ![j] = t]
      /\ Entries(unsaved_transactions')
           = {u \in Entries(unsaved_transactions) : u.id # t.id} \cup {t}
      /\ Ids(unsaved_transactions') = Ids(unsaved_transactions)
      /\ Distinct(unsaved_transactions')
  <2>1. unsaved_transactions[j].id = t.id
    BY <1>0, <1>2
  <2>2. unsaved_transactions \in Seq(UnsavedTransaction) /\ Distinct(unsaved_transactions)
    BY SequenceTypes DEF UnsavedInv, Apart
  <2> DEFINE p == InsertOrReplace(unsaved_transactions, t)
  <2>3. /\ p = [unsaved_transactions EXCEPT ![j] = t]
        /\ Entries(p) = {u \in Entries(unsaved_transactions) : u.id # t.id} \cup {t}
        /\ Ids(p) = Ids(unsaved_transactions) /\ Distinct(p)
    BY <2>1, <2>2, ReplacedEntry
  <2> QED BY <2>3
<1>5. Disjoint(unsaved_transactions')
  <2>1. \A u \in Entries(unsaved_transactions) :
          u.id # t.id => DOMAIN u.forward \cap DOMAIN t.forward = {}
    BY <1>1, <1>2 DEF Untouched, UnsavedInv, Apart, Disjoint
  <2> QED BY <1>4, <2>1 DEF Disjoint, UnsavedInv, Apart
<1>6. Apart(unsaved_transactions')
  BY <1>2, <1>4, <1>5 DEF UnsavedInv, Apart
<1>7. KeptUntilReceived'
  <2>1. ASSUME NEW n \in DOMAIN log, log[n].id # Foreign
        PROVE  IF n <= last_sequence_num THEN log[n].id \notin Ids(unsaved_transactions')
               ELSE \E u \in Entries(unsaved_transactions') :
                      u.id = log[n].id /\ u.forward = log[n].writes
    <3>1. log[n].id # t.id
      BY <1>2, <1>3 DEF Ids
    <3> QED BY <1>4, <2>1, <3>1 DEF UnsavedInv, KeptUntilReceived
  <2> QED BY <2>1 DEF UnsavedInv, KeptUntilReceived
<1>8. ViewInv'
  <2>1. \A u \in Entries(unsaved_transactions'), c \in Cell :
          c \in DOMAIN u.forward => grid'[c] = u.forward[c]
    <3> SUFFICES ASSUME NEW u \in Entries(unsaved_transactions'), NEW c \in Cell,
                        c \in DOMAIN u.forward
                 PROVE  grid'[c] = u.forward[c]
      OBVIOUS
    <3>1. CASE u \in Entries(unsaved_transactions)
      BY <1>2, <3>1 DEF ViewInv, Shows, Untouched
    <3>2. CASE u = t
      <4>1. CASE c \in D
        BY <1>2, <3>2, <4>1
      <4>2. CASE c \in DOMAIN a.forward
        <5>1. grid[c] = a.forward[c]
          BY <1>1, <4>2 DEF ViewInv, Shows
        <5> QED BY <1>2, <3>2, <4>2, <5>1
      <4> QED BY <1>2, <3>2, <4>1, <4>2
    <3> QED BY <1>4, <3>1, <3>2
  <2>2. ASSUME NEW c \in Cell, \A u \in Entries(unsaved_transactions') : c \notin DOMAIN u.forward
        PROVE  grid'[c] = Replay(log, last_sequence_num)[c]
    <3>1. c \notin DOMAIN a.forward /\ c \notin D
      BY <1>2, <1>4, <2>2
    <3>2. \A u \in Entries(unsaved_transactions) : u.id = a.id => u = a
      BY <1>1 DEF UnsavedInv, Apart, Distinct, Entries
    <3>3. \A u \in Entries(unsaved_transactions) : c \notin DOMAIN u.forward
      BY <1>2, <1>4, <2>2, <3>1, <3>2
    <3> QED BY <1>2, <3>1, <3>3 DEF ViewInv, Shows
  <2> QED BY <2>1, <2>2 DEF ViewInv, Shows
<1>9. UnsavedInv'
  <2>1. \A id \in Ids(unsaved_transactions') : id <= issued'
    BY <1>4 DEF UnsavedInv
  <2> QED BY <1>6, <1>7, <2>1 DEF UnsavedInv
<1>10. t.id \notin Ids(log) /\ unsaved_transactions[j].id = t.id
  BY <1>0, <1>2, <1>3
<1>11. unsaved_transactions[j] = async_transactions[k]
  BY <1>0 DEF a
<1> QED
  BY <1>4, <1>8, <1>9, <1>10, <1>11

LEMMA CompletedTrail ==
  ASSUME IndInv, OwnInv, UnsavedInv, TrailInv, NEW k \in DOMAIN async_transactions,
         NEW r \in Writes, Untouched(r),
         DOMAIN r \cap DOMAIN async_transactions[k].forward = {},
         NEW t \in Completions(async_transactions[k], r), grid' = Overlay(grid, r),
         undo_stack' = Append(undo_stack, t.reverse),
         async_transactions' = WithoutIndex(async_transactions, k), UNCHANGED log
  PROVE  TrailInv'
<1> DEFINE a == async_transactions[k]
<1>1. /\ a \in Entries(async_transactions)
      /\ \A u \in Entries(async_transactions) :
           DOMAIN u.reverse = DOMAIN u.forward /\ DOMAIN r \cap DOMAIN u.forward = {}
  BY AsyncTouched DEF Entries
<1>2. PICK D \in Recorded(grid, r) :
               /\ t \in UnsavedTransaction /\ t.id = a.id /\ t.reverse \in Writes
               /\ D \subseteq DOMAIN r /\ D \cap DOMAIN a.forward = {}
               /\ DOMAIN t.forward = DOMAIN a.forward \cup D
               /\ DOMAIN t.reverse = DOMAIN a.forward \cup D
               /\ \A c \in DOMAIN a.forward :
                    t.forward[c] = a.forward[c] /\ t.reverse[c] = a.reverse[c]
               /\ \A c \in D : t.forward[c] = r[c] /\ t.reverse[c] = grid[c]
               /\ t.forward = Merge(a.forward, ForwardOf(r, D)) /\ ForwardOf(r, D) \in Writes
               /\ \A c \in Cell : Overlay(grid, r)[c] = IF c \in D THEN r[c] ELSE grid[c]
  BY <1>1, CompletedType
<1>3. Entries(async_transactions') \subseteq Entries(async_transactions)
      /\ \A u \in Entries(async_transactions) : u = a \/ u \in Entries(async_transactions')
  <2>1. k \in 1..Len(async_transactions) /\ Distinct(async_transactions)
    BY SequenceTypes, LenProperties DEF OwnInv, IdsInv
  <2>2. Entries(async_transactions') \subseteq Entries(async_transactions)
    BY <2>1, SequenceTypes, IdsWithoutIndex
  <2>3. \A j \in DOMAIN async_transactions : j # k =>
          \E i \in DOMAIN async_transactions' : async_transactions'[i] = async_transactions[j]
    BY <2>1, SequenceTypes, WithoutIndexType
  <2> QED BY <2>2, <2>3 DEF Entries
<1>4. undo_stack \in Seq(Writes)
  BY IndInvSequences DEF Stack
<1> HIDE DEF a
<1>5. \A c, v : Bottom(undo_stack', c, v)
                  = Bottom(undo_stack, c, IF c \in DOMAIN t.reverse THEN t.reverse[c] ELSE v)
  BY <1>2, <1>4, BottomAppend
<1>6. OwnCells' = OwnCells /\ \A c \in OwnCells : c \in Cell
  BY DEF OwnCells
<1> SUFFICES ASSUME NEW c \in OwnCells
             PROVE  /\ \A u \in Entries(async_transactions') :
                         c \in DOMAIN u.reverse => Bottom(undo_stack', c, u.reverse[c]) = Blank
                    /\ (\A u \in Entries(async_transactions') : c \notin DOMAIN u.reverse) =>
                         Bottom(undo_stack', c, grid'[c]) = Blank
  BY <1>6 DEF TrailInv
(* Its own cells lead to a blank one, whatever is there.                   *)
<1>7. ASSUME c \in DOMAIN t.reverse, NEW v
      PROVE  Bottom(undo_stack', c, v) = Blank
  <2>1. CASE c \in DOMAIN a.forward
    <3>1. Bottom(undo_stack, c, a.reverse[c]) = Blank
      BY <1>1, <2>1 DEF TrailInv
    <3> QED BY <1>2, <1>5, <1>7, <2>1, <3>1
  <2>2. CASE c \in D
    <3>1. \A u \in Entries(async_transactions) : c \notin DOMAIN u.reverse
      BY <1>1, <1>2, <2>2
    <3>2. Bottom(undo_stack, c, grid[c]) = Blank
      BY <3>1 DEF TrailInv
    <3> QED BY <1>2, <1>5, <1>7, <2>2, <3>2
  <2> QED BY <1>2, <1>7, <2>1, <2>2
<1>8. ASSUME c \notin DOMAIN t.reverse, NEW u \in Entries(async_transactions'),
             c \in DOMAIN u.reverse
      PROVE  Bottom(undo_stack', c, u.reverse[c]) = Blank
  BY <1>3, <1>5, <1>8 DEF TrailInv
<1>9. ASSUME c \notin DOMAIN t.reverse,
             \A u \in Entries(async_transactions') : c \notin DOMAIN u.reverse
      PROVE  Bottom(undo_stack', c, grid'[c]) = Blank
  <2>1. \A u \in Entries(async_transactions) : c \notin DOMAIN u.reverse
    BY <1>1, <1>2, <1>3, <1>9
  <2>2. grid'[c] = grid[c]
    BY <1>2, <1>6, <1>9
  <2>3. Bottom(undo_stack, c, grid[c]) = Blank
    BY <2>1 DEF TrailInv
  <2> QED BY <1>5, <1>9, <2>2, <2>3
<1> QED
  BY <1>7, <1>8, <1>9

-----------------------------------------------------------------------------
(* The server's transactions.                                              *)

(* The room has one transaction more: someone else's, or one of hers, that *)
(* she has kept as it was sent.                                            *)
LEMMA CommittedEditor ==
  ASSUME IndInv, UnsavedInv, ViewInv, TrailInv, NEW t \in SentTransaction,
         \/ t.id = Foreign
         \/ /\ t.id \notin Ids(log)
            /\ \E u \in Entries(unsaved_transactions) : u.id = t.id /\ u.forward = t.writes,
         log' = Append(log, t),
         UNCHANGED <<grid, unsaved_transactions, last_sequence_num, issued,
                     async_transactions, undo_stack>>
  PROVE  UnsavedInv' /\ ViewInv' /\ TrailInv' /\ OwnCells' \subseteq OwnCells
<1>1. /\ DOMAIN log = 1..Len(log) /\ DOMAIN log' = 1..(Len(log) + 1) /\ Len(log) \in Nat
      /\ log'[Len(log) + 1] = t /\ \A n \in DOMAIN log : log'[n] = log[n]
  BY SequenceTypes, AppendProperties, LenProperties
<1>2. last_sequence_num \in Nat /\ last_sequence_num <= Len(log)
  BY DEF IndInv, TypeOK, ClientTypeOK, InFlightIsLogged
<1>3. Replay(log', last_sequence_num) = Replay(log, last_sequence_num)
  BY <1>2, SequenceTypes, ReplayAppend
<1>4. ViewInv'
  BY <1>3 DEF ViewInv
<1>5. OwnCells' \subseteq OwnCells
  BY <1>1 DEF OwnCells
<1>6. TrailInv'
  BY <1>5 DEF TrailInv
<1>7. ASSUME NEW i \in DOMAIN log', NEW j \in DOMAIN log', log'[i].id = log'[j].id,
             log'[i].id # Foreign
      PROVE  i = j
  <2>1. CASE i \in DOMAIN log /\ j \in DOMAIN log
    BY <1>1, <1>7, <2>1 DEF UnsavedInv, KeptUntilReceived
  <2>2. CASE i \in DOMAIN log /\ j = Len(log) + 1
    BY <1>1, <1>7, <2>2 DEF Ids
  <2>3. CASE i = Len(log) + 1 /\ j \in DOMAIN log
    BY <1>1, <1>7, <2>3 DEF Ids
  <2> QED BY <1>1, <2>1, <2>2, <2>3
<1>8. ASSUME NEW n \in DOMAIN log', log'[n].id # Foreign
      PROVE  IF n <= last_sequence_num THEN log'[n].id \notin Ids(unsaved_transactions)
             ELSE \E u \in Entries(unsaved_transactions) :
                    u.id = log'[n].id /\ u.forward = log'[n].writes
  <2>1. CASE n \in DOMAIN log
    BY <1>1, <1>8, <2>1 DEF UnsavedInv, KeptUntilReceived
  <2>2. CASE n = Len(log) + 1
    BY <1>1, <1>2, <1>8, <2>2
  <2> QED BY <1>1, <2>1, <2>2
<1>9. UnsavedInv'
  BY <1>7, <1>8 DEF UnsavedInv, KeptUntilReceived
<1> QED
  BY <1>4, <1>5, <1>6, <1>9

LEMMA SequenceEditor ==
  ASSUME IndInv, OwnInv, UnsavedInv, ViewInv, TrailInv, Sequence
  PROVE  UnsavedInv' /\ ViewInv' /\ TrailInv' /\ OwnCells' \subseteq OwnCells
<1> DEFINE h == Head(to_server)
<1>1. /\ to_server # <<>> /\ log' = Append(log, h)
      /\ UNCHANGED <<grid, unsaved_transactions, last_sequence_num, issued,
                     async_transactions, undo_stack>>
  BY DEF Sequence, Commit
<1>2. h = to_server[1] /\ 1 \in DOMAIN to_server /\ h \in SentTransaction
  <2>1. Len(to_server) \in Nat /\ DOMAIN to_server = 1..Len(to_server) /\ Len(to_server) # 0
    BY <1>1, SequenceTypes, LenProperties, EmptySeq
  <2>2. h = to_server[1]
    BY <1>1, SequenceTypes, HeadTailProperties
  <2> QED BY <2>1, <2>2, SequenceTypes, ElementOfSeq
<1> HIDE DEF h
<1>3. h.id \in Ids(to_server) /\ h.id \notin Ids(log)
  BY <1>2 DEF Ids, OwnInv, IdsInv
<1>4. \E u \in Entries(unsaved_transactions) : u.id = h.id /\ u.forward = h.writes
  BY <1>2 DEF OwnInv, SentFrom
<1> QED
  BY <1>1, <1>2, <1>3, <1>4, CommittedEditor

LEMMA RemoteEditor ==
  ASSUME IndInv, UnsavedInv, ViewInv, TrailInv, RemoteCommit
  PROVE  UnsavedInv' /\ ViewInv' /\ TrailInv' /\ OwnCells' \subseteq OwnCells
<1>1. PICK w \in RemoteEdits : log' = Append(log, [id |-> Foreign, writes |-> w])
  BY DEF RemoteCommit, Commit
<1>2. UNCHANGED <<grid, unsaved_transactions, last_sequence_num, issued,
                  async_transactions, undo_stack>>
  BY DEF RemoteCommit, clientVars
<1> DEFINE t == [id |-> Foreign, writes |-> w]
<1>3. t \in SentTransaction /\ t.id = Foreign
  BY SessionAssumption DEF SentTransaction, TransactionId, Foreign
<1> HIDE DEF t
<1> QED
  BY <1>1, <1>2, <1>3, CommittedEditor DEF t

(* The next transaction has come.                                          *)
Received(n) ==
  \/ log[n].id = Foreign /\ unsaved_transactions' = unsaved_transactions
  \/ \E k \in DOMAIN unsaved_transactions :
       /\ unsaved_transactions[k].id = log[n].id
       /\ unsaved_transactions' = WithoutIndex(unsaved_transactions, k)

LEMMA ReceivedEditor ==
  ASSUME InOrder, IndInv, OwnInv, EditorInv, NEW n \in broadcasts, ReceiveTransaction(n)
  PROVE  /\ n = last_sequence_num + 1 /\ last_sequence_num' = n /\ Received(n)
         /\ n \in DOMAIN log /\ EditorInv' /\ \A c \in OwnCells : grid'[c] = grid[c]
<1> DEFINE r == ClientApply(CoreState, log[n].id, n, log[n].writes)
<1>1. /\ log \in Seq(SentTransaction) /\ DOMAIN log = 1..Len(log) /\ Len(log) \in Nat
      /\ last_sequence_num \in Nat /\ last_sequence_num <= Len(log)
      /\ unsaved_transactions \in Seq(UnsavedTransaction) /\ CoreState \in Core
  BY SequenceTypes, CoreStateIsSound DEF IndInv, TypeOK, ClientTypeOK, InFlightIsLogged, Sound
<1>2. n = last_sequence_num + 1 /\ n \in DOMAIN log
  <2>1. n = Least(broadcasts)
    BY DEF ReceiveTransaction, InOrder
  <2>2. broadcasts = (last_sequence_num + 1)..Len(log)
    BY DEF EditorInv, OrderInv
  <2>3. broadcasts \in SUBSET Nat /\ broadcasts # {}
    BY <1>1, <2>2
  <2>4. \A m \in broadcasts : n <= m
    BY <2>1, <2>3, LeastIsMember
  <2>5. last_sequence_num + 1 \in broadcasts
    BY <1>1, <2>2
  <2> QED BY <1>1, <2>2, <2>4, <2>5
<1>3. CoreState \in Clear(log)
  BY <1>1 DEF Clear, CoreState, EditorInv, OrderInv, UnsavedInv, ViewInv, IndInv, OwnWorkIsEdited,
     IsOwn, Entries
<1>4. /\ CoreState.last = last_sequence_num /\ CoreState.unsaved = unsaved_transactions
      /\ CoreState.grid = grid
  BY DEF CoreState
<1>5. /\ BecomesCore(r) /\ broadcasts' = broadcasts \ {n}
      /\ UNCHANGED <<log, replies, connected, disconnects, requests>>
  BY DEF ReceiveTransaction, ReceivedTransaction
<1>6. /\ r \in Clear(log) /\ r.last = n
      /\ \/ log[n].id = Foreign /\ r.unsaved = unsaved_transactions
         \/ \E k \in DOMAIN unsaved_transactions :
              /\ unsaved_transactions[k].id = log[n].id
              /\ r.unsaved = WithoutIndex(unsaved_transactions, k)
  <2>1. CASE log[n].id = Foreign
    BY <1>1, <1>2, <1>3, <1>4, <2>1, ForeignShows
  <2>2. CASE log[n].id # Foreign
    <3>1. PICK u \in Entries(unsaved_transactions) : u.id = log[n].id /\ u.forward = log[n].writes
      BY <1>1, <1>2, <2>2 DEF EditorInv, UnsavedInv, KeptUntilReceived
    <3>2. /\ r \in Clear(log) /\ r.last = n
          /\ \E k \in DOMAIN CoreState.unsaved :
               /\ CoreState.unsaved[k].id = log[n].id
               /\ r.unsaved = WithoutIndex(CoreState.unsaved, k)
      BY <1>1, <1>2, <1>3, <1>4, <3>1, OwnShows
    <3> QED BY <1>4, <3>2
  <2> QED BY <2>1, <2>2
<1> HIDE DEF r
<1>7. /\ grid' = r.grid /\ unsaved_transactions' = r.unsaved /\ last_sequence_num' = n
      /\ out_of_order_transactions' = r.stash
      /\ UNCHANGED <<async_transactions, undo_stack, issued>>
  BY <1>5, <1>6 DEF BecomesCore
<1>8. /\ out_of_order_transactions' = <<>> /\ Apart(unsaved_transactions')
      /\ Shows(grid', Replay(log, n), unsaved_transactions')
  BY <1>6, <1>7 DEF Clear
<1>9. Received(n)
  BY <1>6, <1>7 DEF Received
<1>10. OrderInv'
  <2>1. broadcasts' = (n + 1)..Len(log)
    BY <1>1, <1>2, <1>5 DEF EditorInv, OrderInv
  <2> QED BY <1>5, <1>7, <1>8, <2>1 DEF EditorInv, OrderInv
<1>11. /\ Entries(unsaved_transactions')
            = {u \in Entries(unsaved_transactions) : u.id # log[n].id}
       /\ Ids(unsaved_transactions') \subseteq Ids(unsaved_transactions) \ {log[n].id}
  <2>1. CASE unsaved_transactions' = unsaved_transactions /\ log[n].id = Foreign
    BY <2>1 DEF IndInv, OwnWorkIsEdited, IsOwn, Ids, Entries
  <2>2. ASSUME NEW k \in DOMAIN unsaved_transactions, unsaved_transactions[k].id = log[n].id,
               unsaved_transactions' = WithoutIndex(unsaved_transactions, k)
        PROVE  /\ Entries(unsaved_transactions')
                    = {u \in Entries(unsaved_transactions) : u.id # log[n].id}
               /\ Ids(unsaved_transactions') \subseteq Ids(unsaved_transactions) \ {log[n].id}
    BY <1>1, <2>2, ApartWithoutIndex DEF EditorInv, UnsavedInv
  <2> QED BY <1>9, <2>1, <2>2 DEF Received
<1>12. UnsavedInv'
  <2>1. ASSUME NEW m \in DOMAIN log, log[m].id # Foreign
        PROVE  IF m <= n THEN log[m].id \notin Ids(unsaved_transactions')
               ELSE \E u \in Entries(unsaved_transactions') :
                      u.id = log[m].id /\ u.forward = log[m].writes
    <3>1. m # n => log[m].id # log[n].id
      BY <1>2, <2>1 DEF EditorInv, UnsavedInv, KeptUntilReceived
    <3>2. CASE m = n
      BY <1>1, <1>2, <1>11, <3>2
    <3>3. CASE m # n /\ m <= n
      BY <1>1, <1>2, <1>11, <2>1, <3>3 DEF EditorInv, UnsavedInv, KeptUntilReceived
    <3>4. CASE ~(m <= n)
      <4>1. m # n /\ ~(m <= last_sequence_num)
        BY <1>1, <1>2, <3>4
      <4> QED BY <1>11, <2>1, <3>1, <3>4, <4>1 DEF EditorInv, UnsavedInv, KeptUntilReceived
    <3> QED BY <3>2, <3>3, <3>4
  <2>2. KeptUntilReceived'
    BY <1>5, <1>7, <2>1 DEF EditorInv, UnsavedInv, KeptUntilReceived
  <2> QED BY <1>7, <1>8, <1>11, <2>2 DEF EditorInv, UnsavedInv
<1>13. ViewInv'
  BY <1>5, <1>7, <1>8 DEF ViewInv
(* In the user's own cells the next transaction is what she sees already.  *)
<1>14. ASSUME NEW c \in OwnCells PROVE grid'[c] = grid[c]
  <2>0. c \in Cell /\ (log[n].id = Foreign => c \notin DOMAIN log[n].writes)
    BY <1>2 DEF OwnCells
  <2>1. Replay(log, n)[c] = Overlay(Replay(log, last_sequence_num), log[n].writes)[c]
    BY <1>1, <1>2, <2>0, ReplayStep
  <2>2. Shows(grid, Replay(log, last_sequence_num), unsaved_transactions)
    BY DEF EditorInv, ViewInv
  <2>3. CASE \E u \in Entries(unsaved_transactions') : c \in DOMAIN u.forward
    BY <1>8, <1>11, <2>0, <2>2, <2>3 DEF Shows
  <2>4. CASE \A u \in Entries(unsaved_transactions') : c \notin DOMAIN u.forward
    <3>1. grid'[c] = Replay(log, n)[c]
      BY <1>8, <2>0, <2>4 DEF Shows
    <3>2. CASE c \in DOMAIN log[n].writes
      <4>1. PICK u \in Entries(unsaved_transactions) : u.forward = log[n].writes
        BY <1>1, <1>2, <2>0, <3>2 DEF EditorInv, UnsavedInv, KeptUntilReceived
      <4> QED BY <2>0, <2>1, <2>2, <3>1, <3>2, <4>1 DEF Shows, Overlay
    <3>3. CASE c \notin DOMAIN log[n].writes
      <4>1. \A u \in Entries(unsaved_transactions) : c \notin DOMAIN u.forward
        <5> SUFFICES ASSUME NEW u \in Entries(unsaved_transactions), u.id = log[n].id
                     PROVE  c \notin DOMAIN u.forward
          BY <1>11, <2>4
        <5>1. log[n].id # Foreign
          BY DEF IndInv, OwnWorkIsEdited, IsOwn, Entries
        <5>2. PICK v \in Entries(unsaved_transactions) :
                v.id = log[n].id /\ v.forward = log[n].writes
          BY <1>1, <1>2, <5>1 DEF EditorInv, UnsavedInv, KeptUntilReceived
        <5>3. u = v
          BY <5>2 DEF EditorInv, UnsavedInv, Apart, Distinct, Entries
        <5> QED BY <3>3, <5>2, <5>3
      <4> QED BY <2>0, <2>1, <2>2, <3>1, <3>3, <4>1 DEF Shows, Overlay
    <3> QED BY <3>2, <3>3
  <2> QED BY <2>3, <2>4
<1>15. TrailInv'
  <2>1. OwnCells' = OwnCells
    BY <1>5 DEF OwnCells
  <2> QED BY <1>7, <1>14, <2>1 DEF EditorInv, TrailInv
<1> QED
  BY <1>2, <1>7, <1>9, <1>10, <1>12, <1>13, <1>14, <1>15 DEF EditorInv

-----------------------------------------------------------------------------
(* Every step.                                                             *)

LEMMA OrderKept ==
  ASSUME OrderInv, issued' <= MaxOwn, UNCHANGED netVars,
         UNCHANGED <<requests, out_of_order_transactions, last_sequence_num>>
  PROVE  OrderInv'
BY DEF OrderInv, netVars

LEMMA IssuedBounded ==
  ASSUME IndInv, issued < MaxOwn, issued' = issued + 1
  PROVE  issued' <= MaxOwn
BY SequenceTypes, SessionAssumption

(* Bringing the client up to date finds that it is.                        *)
LEMMA AnnouncedIsReached ==
  ASSUME InOrder, IndInv, OrderInv, NEW k \in Announced
  PROVE  k = last_sequence_num
<1>1. /\ last_sequence_num \in Nat /\ Len(log) \in Nat /\ last_sequence_num <= Len(log)
      /\ broadcasts = (last_sequence_num + 1)..Len(log)
  BY SequenceTypes DEF IndInv, TypeOK, ClientTypeOK, InFlightIsLogged, OrderInv
<1>2. CASE broadcasts = {}
  <2>1. k = Len(log)
    BY <1>2 DEF Announced, InOrder
  <2>2. last_sequence_num + 1 \notin broadcasts
    BY <1>2
  <2> QED BY <1>1, <2>1, <2>2
<1>3. CASE broadcasts # {}
  <2>1. k = Least(broadcasts) - 1
    BY <1>3 DEF Announced, InOrder
  <2>2. broadcasts \in SUBSET Nat /\ last_sequence_num + 1 \in broadcasts
    BY <1>1, <1>3
  <2>3. Least(broadcasts) \in broadcasts /\ Least(broadcasts) <= last_sequence_num + 1
    BY <1>3, <2>2, LeastIsMember
  <2> QED BY <1>1, <2>1, <2>3
<1> QED
  BY <1>2, <1>3

LEMMA EditEditor ==
  ASSUME InOrder, IndInv, OwnInv, EditorInv, Edit
  PROVE  EditorInv'
<1>1. PICK w \in UserEdits : MayWrite(w) /\ UserTransaction(w)
  BY DEF Edit
<1>2. w \in Writes /\ Untouched(w)
  BY <1>1, EditsAreWrites, MayWriteUntouched
<1>3. PICK t \in Executions(w) : KeepAndSend(t) /\ undo_stack' = Append(undo_stack, t.reverse)
  BY <1>1 DEF UserTransaction
<1>4. /\ grid' = Overlay(grid, w) /\ issued' = issued + 1 /\ issued < MaxOwn
      /\ unsaved_transactions' = InsertOrReplace(unsaved_transactions, t)
      /\ UNCHANGED netVars /\ UNCHANGED log
      /\ UNCHANGED <<requests, out_of_order_transactions, last_sequence_num, async_transactions>>
  BY <1>1, <1>3 DEF Edit, UserTransaction, KeepAndSend, netVars
<1>5. UnsavedInv' /\ ViewInv'
  BY <1>2, <1>4, NewUnsaved DEF EditorInv
<1>6. TrailInv'
  BY <1>2, <1>3, <1>4, PushedTrail DEF EditorInv
<1>7. OrderInv'
  BY <1>4, IssuedBounded, OrderKept DEF EditorInv
<1> QED
  BY <1>5, <1>6, <1>7 DEF EditorInv

LEMMA RunCodeEditor ==
  ASSUME InOrder, IndInv, OwnInv, EditorInv, RunCode
  PROVE  EditorInv'
<1>1. PICK w \in CodeCells : MayWrite(w) /\ StartAsyncTransaction(w)
  BY DEF RunCode
<1>2. w \in Writes /\ Untouched(w)
  BY <1>1, EditsAreWrites, MayWriteUntouched
<1>3. PICK t \in Executions(w) :
        /\ unsaved_transactions' = InsertOrReplace(unsaved_transactions, t)
        /\ async_transactions' = Append(async_transactions, t)
  BY <1>1 DEF StartAsyncTransaction
<1>4. /\ grid' = Overlay(grid, w) /\ issued' = issued + 1 /\ issued < MaxOwn
      /\ UNCHANGED netVars /\ UNCHANGED log
      /\ UNCHANGED <<requests, out_of_order_transactions, last_sequence_num, undo_stack>>
  BY <1>1, <1>3 DEF RunCode, StartAsyncTransaction, netVars
<1>5. UnsavedInv' /\ ViewInv'
  BY <1>2, <1>3, <1>4, NewUnsaved DEF EditorInv
<1>6. TrailInv'
  BY <1>2, <1>3, <1>4, WaitingTrail DEF EditorInv
<1>7. OrderInv'
  BY <1>4, IssuedBounded, OrderKept DEF EditorInv
<1> QED
  BY <1>5, <1>6, <1>7 DEF EditorInv

LEMMA CodeCompletesEditor ==
  ASSUME InOrder, IndInv, OwnInv, EditorInv, CodeCompletes
  PROVE  EditorInv'
<1>1. PICK k \in DOMAIN async_transactions, r \in CodeResults :
        MayWrite(r) /\ CalculationComplete(k, r)
  BY DEF CodeCompletes
<1>2. r \in Writes /\ Untouched(r) /\ DOMAIN r \cap DOMAIN async_transactions[k].forward = {}
  BY <1>1, EditsAreWrites, MayWriteUntouched DEF CalculationComplete
<1>3. PICK t \in Completions(async_transactions[k], r) :
        KeepAndSend(t) /\ undo_stack' = Append(undo_stack, t.reverse)
  BY <1>1 DEF CalculationComplete
<1>4. /\ grid' = Overlay(grid, r)
      /\ unsaved_transactions' = InsertOrReplace(unsaved_transactions, t)
      /\ async_transactions' = WithoutIndex(async_transactions, k)
      /\ UNCHANGED netVars /\ UNCHANGED log
      /\ UNCHANGED <<issued, requests, out_of_order_transactions, last_sequence_num>>
  BY <1>1, <1>3 DEF CodeCompletes, CalculationComplete, KeepAndSend, netVars
<1>5. UnsavedInv' /\ ViewInv'
  BY <1>2, <1>4, CompletedUnsaved DEF EditorInv
<1>6. TrailInv'
  BY <1>2, <1>3, <1>4, CompletedTrail DEF EditorInv
<1>7. OrderInv'
  BY <1>4, OrderKept DEF EditorInv, OrderInv
<1> QED
  BY <1>5, <1>6, <1>7 DEF EditorInv

LEMMA UndoEditor ==
  ASSUME InOrder, IndInv, OwnInv, EditorInv, UndoLast
  PROVE  EditorInv'
<1> DEFINE w == Top(undo_stack)
<1>1. MayWrite(w) /\ undo_stack # <<>> /\ Undo
  BY DEF UndoLast
<1>2. w \in Writes /\ Untouched(w)
  BY <1>1, IndInvSequences, StackTopPop, MayWriteUntouched
<1>3. PICK t \in Executions(w) : KeepAndSend(t)
  BY <1>1 DEF Undo
<1>4. /\ grid' = Overlay(grid, w) /\ issued' = issued + 1 /\ issued < MaxOwn
      /\ undo_stack' = Pop(undo_stack)
      /\ unsaved_transactions' = InsertOrReplace(unsaved_transactions, t)
      /\ UNCHANGED netVars /\ UNCHANGED log
      /\ UNCHANGED <<requests, out_of_order_transactions, last_sequence_num, async_transactions>>
  BY <1>1, <1>3 DEF UndoLast, Undo, KeepAndSend, netVars
<1>5. TrailInv'
  BY <1>1, <1>2, <1>4, PoppedTrail DEF EditorInv
<1> HIDE DEF w
<1>6. UnsavedInv' /\ ViewInv'
  BY <1>2, <1>4, NewUnsaved DEF EditorInv
<1>7. OrderInv'
  BY <1>4, IssuedBounded, OrderKept DEF EditorInv
<1> QED
  BY <1>5, <1>6, <1>7 DEF EditorInv

LEMMA RedoEditor ==
  ASSUME InOrder, IndInv, OwnInv, EditorInv, RedoLast
  PROVE  EditorInv'
<1> DEFINE w == Top(redo_stack)
<1>1. MayWrite(w) /\ redo_stack # <<>> /\ Redo
  BY DEF RedoLast
<1>2. w \in Writes /\ Untouched(w)
  BY <1>1, IndInvSequences, StackTopPop, MayWriteUntouched
<1>3. PICK t \in Executions(w) : KeepAndSend(t) /\ undo_stack' = Append(undo_stack, t.reverse)
  BY <1>1 DEF Redo
<1>4. /\ grid' = Overlay(grid, w) /\ issued' = issued + 1 /\ issued < MaxOwn
      /\ unsaved_transactions' = InsertOrReplace(unsaved_transactions, t)
      /\ UNCHANGED netVars /\ UNCHANGED log
      /\ UNCHANGED <<requests, out_of_order_transactions, last_sequence_num, async_transactions>>
  BY <1>1, <1>3 DEF RedoLast, Redo, KeepAndSend, netVars
<1> HIDE DEF w
<1>5. TrailInv'
  BY <1>2, <1>3, <1>4, PushedTrail DEF EditorInv
<1>6. UnsavedInv' /\ ViewInv'
  BY <1>2, <1>4, NewUnsaved DEF EditorInv
<1>7. OrderInv'
  BY <1>4, IssuedBounded, OrderKept DEF EditorInv
<1> QED
  BY <1>5, <1>6, <1>7 DEF EditorInv

(* The server's own steps: one more transaction is under way.              *)
LEMMA CommitOrder ==
  ASSUME IndInv, OrderInv, NEW t \in SentTransaction, Commit(t),
         UNCHANGED <<connected, disconnects, issued, requests, replies,
                     out_of_order_transactions, last_sequence_num>>
  PROVE  OrderInv'
<1>1. /\ Len(log') = Len(log) + 1 /\ Len(log) \in Nat
      /\ last_sequence_num \in Nat /\ last_sequence_num <= Len(log)
  BY SequenceTypes, AppendProperties DEF Commit, IndInv, TypeOK, ClientTypeOK, InFlightIsLogged
<1>2. broadcasts' = broadcasts \cup {Len(log) + 1} /\ broadcasts = (last_sequence_num + 1)..Len(log)
  BY DEF Commit, OrderInv
<1>3. broadcasts' = (last_sequence_num' + 1)..Len(log')
  BY <1>1, <1>2
<1> QED
  BY <1>3 DEF OrderInv

LEMMA EditorNext ==
  ASSUME InOrder, IndInv, OwnInv, EditorInv, [Next]_vars
  PROVE  EditorInv'
<1>0. ASSUME UNCHANGED clientVars, UNCHANGED netVars PROVE EditorInv'
  BY <1>0 DEF clientVars, netVars, EditorInv, OrderInv, UnsavedInv, KeptUntilReceived, ViewInv,
     TrailInv, OwnCells
<1>1. CASE Edit
  BY <1>1, EditEditor
<1>2. CASE RunCode
  BY <1>2, RunCodeEditor
<1>3. CASE CodeCompletes
  BY <1>3, CodeCompletesEditor
<1>4. CASE UndoLast
  BY <1>4, UndoEditor
<1>5. CASE RedoLast
  BY <1>5, RedoEditor
<1>6. CASE Sequence
  <2>1. Head(to_server) \in SentTransaction
    BY <1>6, SequenceTypes, HeadTailProperties DEF Sequence
  <2>2. OrderInv'
    BY <1>6, <2>1, CommitOrder DEF Sequence, EditorInv
  <2> QED BY <1>6, <2>2, SequenceEditor DEF EditorInv
<1>7. CASE RemoteCommit
  <2>1. PICK w \in RemoteEdits : Commit([id |-> Foreign, writes |-> w])
    BY <1>7 DEF RemoteCommit
  <2>2. [id |-> Foreign, writes |-> w] \in SentTransaction
    BY SessionAssumption DEF SentTransaction, TransactionId, Foreign
  <2>3. OrderInv'
    BY <1>7, <2>1, <2>2, CommitOrder DEF RemoteCommit, clientVars, EditorInv
  <2> QED BY <1>7, <2>3, RemoteEditor DEF EditorInv
<1>8. CASE \E m \in requests : ServeRequest(m)
  BY <1>8 DEF EditorInv, OrderInv
<1>9. CASE \E n \in broadcasts : ReceiveTransaction(n)
  BY <1>9, ReceivedEditor
<1>10. CASE \E r \in replies : ReceiveTransactions(r)
  BY <1>10 DEF EditorInv, OrderInv
<1>11. CASE \E k \in Announced : ReceiveCurrentTransaction(k)
  <2>1. PICK k \in Announced : ReceiveCurrentTransaction(k)
    BY <1>11
  <2>2. k = last_sequence_num
    BY AnnouncedIsReached DEF EditorInv
  <2>3. UNCHANGED clientVars /\ UNCHANGED netVars
    BY <2>1, <2>2 DEF ReceiveCurrentTransaction, ReceiveSequenceNum, clientVars
  <2> QED BY <1>0, <2>3
<1>12. CASE Disconnect
  <2>1. disconnects < MaxDisconnects /\ MaxDisconnects = 0 /\ disconnects = 0
    BY <1>12 DEF Disconnect, InOrder, EditorInv, OrderInv
  <2> QED BY <2>1
<1>13. CASE Reconnect
  BY <1>13 DEF Reconnect, EditorInv, OrderInv
<1>14. CASE UNCHANGED vars
  BY <1>0, <1>14 DEF vars
<1> QED
  BY <1>1, <1>2, <1>3, <1>4, <1>5, <1>6, <1>7, <1>8, <1>9, <1>10, <1>11, <1>12, <1>13, <1>14
     DEF Next

LEMMA EditorInitially == InOrder /\ Init => EditorInv
<1> SUFFICES ASSUME InOrder, Init PROVE EditorInv
  OBVIOUS
<1>1. /\ grid = BlankGrid /\ log = <<>> /\ unsaved_transactions = <<>> /\ undo_stack = <<>>
      /\ async_transactions = <<>> /\ last_sequence_num = 0
      /\ DOMAIN <<>> = {} /\ Len(log) = 0
  BY EmptySeq DEF Init, ClientInit
<1>2. Entries(<<>>) = {} /\ Ids(<<>>) = {}
  BY <1>1 DEF Entries, Ids
<1>3. OrderInv
  <2>1. (last_sequence_num + 1)..Len(log) = {}
    BY <1>1
  <2> QED BY <2>1, SessionAssumption DEF Init, ClientInit, OrderInv
<1>4. UnsavedInv
  BY <1>1, <1>2 DEF UnsavedInv, Apart, Distinct, Disjoint, KeptUntilReceived
<1>5. ViewInv
  BY <1>1, <1>2, ReplayNothing DEF ViewInv, Shows
<1>6. TrailInv
  BY <1>1, <1>2 DEF TrailInv, Bottom, Covering, OwnCells, BlankGrid
<1> QED
  BY <1>3, <1>4, <1>5, <1>6 DEF EditorInv

(* What the editor's promises rest on.                                     *)
THEOREM EditorInvariance == InOrder => (Spec => []EditorInv)
<1> SUFFICES ASSUME InOrder PROVE Spec => []EditorInv
  OBVIOUS
<1>1. Init => EditorInv
  BY EditorInitially
<1>2. IndInv /\ OwnInv /\ EditorInv /\ [Next]_vars => EditorInv'
  BY EditorNext
<1> QED
  BY <1>1, <1>2, Invariance, OwnInvariance, PTL DEF Spec

LEMMA ViewFollows == ASSUME IndInv, EditorInv PROVE ViewIsLogPlusUnsaved
<1>1. /\ unsaved_transactions \in Seq(UnsavedTransaction) /\ grid \in Grid
      /\ Apart(unsaved_transactions)
      /\ Shows(grid, Replay(log, last_sequence_num), unsaved_transactions)
  BY DEF IndInv, TypeOK, ClientTypeOK, EditorInv, UnsavedInv, ViewInv
<1> QED
  BY <1>1, ViewIsOverlay DEF ViewIsLogPlusUnsaved

(* The sheet a user sees is the log so far with her unsaved transactions   *)
(* on top of it.                                                           *)
THEOREM ViewIsShown == InOrder => (Spec => []ViewIsLogPlusUnsaved)
<1>1. IndInv /\ EditorInv => ViewIsLogPlusUnsaved
  BY ViewFollows
<1> QED
  BY <1>1, Invariance, EditorInvariance, PTL

(* Undoing everything blanks the cells that only this user has written,    *)
(* whatever was undone, redone and received before.                        *)
THEOREM UndoClears == InOrder => (Spec => []UndoClearsOwnWork)
<1>1. OwnInv /\ EditorInv => UndoClearsOwnWork
  <2> SUFFICES ASSUME OwnInv, EditorInv, NEW c \in OwnCells,
                      \A i \in DOMAIN async_transactions :
                        c \notin DOMAIN async_transactions[i].forward
               PROVE  OverlayBackward(grid, undo_stack)[c] = Blank
    BY DEF UndoClearsOwnWork
  <2>1. c \in Cell
    BY DEF OwnCells
  <2>2. \A u \in Entries(async_transactions) : c \notin DOMAIN u.reverse
    BY DEF OwnInv, EditorInv, UnsavedInv, Apart, Entries
  <2>3. Bottom(undo_stack, c, grid[c]) = Blank
    BY <2>2 DEF EditorInv, TrailInv
  <2> QED BY <2>1, <2>3, BottomIsOverlay
<1> QED
  BY <1>1, OwnInvariance, EditorInvariance, PTL

(* Where undoing everything and redoing everything lead, step by step.     *)
LEMMA Retracing ==
  ASSUME InOrder, IndInv, OwnInv, EditorInv, [Next]_vars
  PROVE  \/ Edit \/ RunCode \/ CodeCompletes \/ UNCHANGED vars
         \/ \A c \in OwnCells' : TrailEnds(c)' = TrailEnds(c)
<1>0. ASSUME UNCHANGED <<undo_stack, redo_stack>>, OwnCells' \subseteq OwnCells,
             \A c \in OwnCells : grid'[c] = grid[c]
      PROVE  \A c \in OwnCells' : TrailEnds(c)' = TrailEnds(c)
  <2> SUFFICES ASSUME NEW c \in OwnCells' PROVE TrailEnds(c)' = TrailEnds(c)
    OBVIOUS
  <2>1. c \in Cell /\ grid'[c] = grid[c]
    BY <1>0 DEF OwnCells
  <2> QED BY <1>0, <2>1, BottomIsOverlay DEF TrailEnds
<1>1. CASE UndoLast
  <2> DEFINE w == Top(undo_stack)
  <2>1. PICK t \in Executions(w) : redo_stack' = Append(redo_stack, t.reverse)
    BY <1>1 DEF UndoLast, Undo
  <2>2. /\ undo_stack # <<>> /\ undo_stack' = Pop(undo_stack) /\ grid' = Overlay(grid, w)
        /\ undo_stack \in Seq(Writes) /\ redo_stack \in Seq(Writes)
    BY <1>1, IndInvSequences DEF UndoLast, Undo, Stack
  <2>3. w \in Writes
    BY <2>2, BottomPop
  <2>4. \A c, v : Bottom(undo_stack, c, v)
                    = Bottom(undo_stack', c, IF c \in DOMAIN w THEN w[c] ELSE v)
    BY <2>2, BottomPop
  <2>5. \A c \in Cell : grid'[c] = IF c \in DOMAIN w THEN w[c] ELSE grid[c]
    BY <2>2 DEF Overlay
  <2> HIDE DEF w
  <2>6. PICK D \in Recorded(grid, w) :
           /\ t = Made(w, D) /\ t \in UnsavedTransaction /\ t.id = issued + 1
           /\ D \subseteq DOMAIN w /\ t.reverse \in Writes
           /\ DOMAIN t.forward = D /\ \A c \in D : t.forward[c] = w[c]
           /\ DOMAIN t.reverse = D /\ \A c \in D : t.reverse[c] = grid[c]
           /\ \A c \in Cell : Overlay(grid, w)[c] = IF c \in D THEN w[c] ELSE grid[c]
    BY <2>1, <2>3, MadeType
  <2>7. \A c, v : Bottom(redo_stack', c, v)
                    = Bottom(redo_stack, c, IF c \in D THEN grid[c] ELSE v)
    BY <2>1, <2>2, <2>6, BottomAppend
  <2>8. \A c \in Cell : /\ Bottom(undo_stack', c, grid'[c]) = Bottom(undo_stack, c, grid[c])
                        /\ Bottom(redo_stack', c, grid'[c]) = Bottom(redo_stack, c, grid[c])
    BY <2>2, <2>4, <2>5, <2>6, <2>7
  <2>9. \A c \in Cell : TrailEnds(c)' = TrailEnds(c)
    BY <2>8, BottomIsOverlay DEF TrailEnds
  <2> QED BY <2>9 DEF OwnCells
<1>2. CASE RedoLast
  <2> DEFINE w == Top(redo_stack)
  <2>1. PICK t \in Executions(w) : undo_stack' = Append(undo_stack, t.reverse)
    BY <1>2 DEF RedoLast, Redo
  <2>2. /\ redo_stack # <<>> /\ redo_stack' = Pop(redo_stack) /\ grid' = Overlay(grid, w)
        /\ undo_stack \in Seq(Writes) /\ redo_stack \in Seq(Writes)
    BY <1>2, IndInvSequences DEF RedoLast, Redo, Stack
  <2>3. w \in Writes
    BY <2>2, BottomPop
  <2>4. \A c, v : Bottom(redo_stack, c, v)
                    = Bottom(redo_stack', c, IF c \in DOMAIN w THEN w[c] ELSE v)
    BY <2>2, BottomPop
  <2>5. \A c \in Cell : grid'[c] = IF c \in DOMAIN w THEN w[c] ELSE grid[c]
    BY <2>2 DEF Overlay
  <2> HIDE DEF w
  <2>6. PICK D \in Recorded(grid, w) :
           /\ t = Made(w, D) /\ t \in UnsavedTransaction /\ t.id = issued + 1
           /\ D \subseteq DOMAIN w /\ t.reverse \in Writes
           /\ DOMAIN t.forward = D /\ \A c \in D : t.forward[c] = w[c]
           /\ DOMAIN t.reverse = D /\ \A c \in D : t.reverse[c] = grid[c]
           /\ \A c \in Cell : Overlay(grid, w)[c] = IF c \in D THEN w[c] ELSE grid[c]
    BY <2>1, <2>3, MadeType
  <2>7. \A c, v : Bottom(undo_stack', c, v)
                    = Bottom(undo_stack, c, IF c \in D THEN grid[c] ELSE v)
    BY <2>1, <2>2, <2>6, BottomAppend
  <2>8. \A c \in Cell : /\ Bottom(undo_stack', c, grid'[c]) = Bottom(undo_stack, c, grid[c])
                        /\ Bottom(redo_stack', c, grid'[c]) = Bottom(redo_stack, c, grid[c])
    BY <2>2, <2>4, <2>5, <2>6, <2>7
  <2>9. \A c \in Cell : TrailEnds(c)' = TrailEnds(c)
    BY <2>8, BottomIsOverlay DEF TrailEnds
  <2> QED BY <2>9 DEF OwnCells
<1>3. CASE Sequence
  BY <1>0, <1>3, SequenceEditor DEF Sequence, EditorInv
<1>4. CASE RemoteCommit
  BY <1>0, <1>4, RemoteEditor DEF RemoteCommit, clientVars, EditorInv
<1>5. CASE \E m \in requests : ServeRequest(m)
  BY <1>0, <1>5 DEF ServeRequest, OwnCells
<1>6. CASE \E n \in broadcasts : ReceiveTransaction(n)
  <2>1. PICK n \in broadcasts : ReceiveTransaction(n)
    BY <1>6
  <2>2. OwnCells' = OwnCells /\ UNCHANGED <<undo_stack, redo_stack>>
    BY <2>1 DEF ReceiveTransaction, ReceivedTransaction, BecomesCore, OwnCells
  <2>3. \A c \in OwnCells : grid'[c] = grid[c]
    BY <2>1, ReceivedEditor
  <2> QED BY <1>0, <2>2, <2>3
<1>7. CASE \E r \in replies : ReceiveTransactions(r)
  BY <1>7 DEF EditorInv, OrderInv
<1>8. CASE \E k \in Announced : ReceiveCurrentTransaction(k)
  BY <1>0, <1>8 DEF ReceiveCurrentTransaction, ReceiveSequenceNum, netVars, OwnCells
<1>9. CASE Disconnect
  BY <1>0, <1>9 DEF Disconnect, OwnCells
<1>10. CASE Reconnect
  BY <1>0, <1>10 DEF Reconnect, clientVars, OwnCells
<1> QED
  BY <1>1, <1>2, <1>3, <1>4, <1>5, <1>6, <1>7, <1>8, <1>9, <1>10 DEF Next

(* An undo or a redo moves along the trail of what can be undone and       *)
(* redone, and receiving transactions leaves the trail alone: only new     *)
(* work changes where it leads.                                            *)
THEOREM Retraces == InOrder => (Spec => UndoRedoRetrace)
<1> SUFFICES ASSUME InOrder PROVE Spec => UndoRedoRetrace
  OBVIOUS
<1>1. IndInv /\ OwnInv /\ EditorInv /\ [Next]_vars =>
        [Edit \/ RunCode \/ CodeCompletes
         \/ \A c \in OwnCells' : TrailEnds(c)' = TrailEnds(c)]_vars
  BY Retracing
<1> QED
  BY <1>1, Invariance, OwnInvariance, EditorInvariance, PTL DEF Spec, UndoRedoRetrace

-----------------------------------------------------------------------------
(* The promise of SharedSheet.                                             *)

Mine(q) == [i \in DOMAIN q |-> [id |-> q[i].id, writes |-> q[i].forward]]

LEMMA SharedOperators ==
  /\ \A h, n : Shared!Replay(h, n) = Replay(h, n)
  /\ \A g, ws : Shared!OverlayForward(g, ws) = OverlayForward(g, ws)
  /\ \A v, w : Shared!Merge(v, w) = Merge(v, w)
  /\ Shared!Writes = Writes /\ Shared!BlankGrid = BlankGrid
BY DEF Shared!Replay, Shared!OverlayForward, Shared!Merge, Shared!Writes, Shared!BlankGrid,
   Shared!Covering, Shared!Greatest, Replay, OverlayForward, Merge, Writes, BlankGrid,
   Covering, Greatest

(* What she sees after a step.                                             *)
LEMMA SeenNext ==
  ASSUME ViewIsLogPlusUnsaved'
  PROVE  Shared!AsSeen
<1> DEFINE m == Mine(unsaved_transactions')
<1>1. [i \in DOMAIN m |-> m[i].writes] = Forwards(unsaved_transactions')
  BY DEF Mine, Forwards
<1>2. grid' = OverlayForward(Replay(log', last_sequence_num'), [i \in DOMAIN m |-> m[i].writes])
  BY <1>1 DEF ViewIsLogPlusUnsaved
<1> QED
  BY <1>2, SharedOperators DEF Shared!AsSeen, Shared!View, Mine

LEMMA MineAppend ==
  ASSUME NEW q \in Seq(UnsavedTransaction), NEW t \in UnsavedTransaction
  PROVE  Mine(Append(q, t)) = Append(Mine(q), [id |-> t.id, writes |-> t.forward])
<1> DEFINE e == [id |-> t.id, writes |-> t.forward]
           m == Mine(q)
           p == Append(q, t)
<1>1. /\ Len(q) \in Nat /\ DOMAIN q = 1..Len(q) /\ DOMAIN p = 1..(Len(q) + 1)
      /\ p[Len(q) + 1] = t /\ \A i \in 1..Len(q) : p[i] = q[i] /\ q[i] \in UnsavedTransaction
  BY AppendProperties, LenProperties, ElementOfSeq
<1>2. e \in SentTransaction /\ \A i \in 1..Len(q) : [id |-> q[i].id, writes |-> q[i].forward] \in SentTransaction
  BY <1>1 DEF SentTransaction, UnsavedTransaction
<1>3. m \in [1..Len(q) -> SentTransaction]
  BY <1>1, <1>2 DEF Mine
<1>4. m \in Seq(SentTransaction) /\ Len(m) = Len(q)
  <2> HIDE DEF m
  <2>1. m \in Seq(SentTransaction)
    BY <1>1, <1>3, IsASeq
  <2>2. DOMAIN m = 1..Len(q) /\ DOMAIN m = 1..Len(m) /\ Len(m) \in Nat
    BY <1>3, <2>1, LenProperties
  <2> QED BY <1>1, <2>1, <2>2
<1>5. \A i \in 1..Len(q) : m[i] = [id |-> q[i].id, writes |-> q[i].forward]
  BY <1>1 DEF Mine
<1> HIDE DEF m, e, p
<1>6. /\ Append(m, e) \in Seq(SentTransaction) /\ Len(Append(m, e)) = Len(q) + 1
      /\ \A i \in 1..Len(q) : Append(m, e)[i] = m[i]
      /\ Append(m, e)[Len(q) + 1] = e
  BY <1>2, <1>4, AppendProperties
<1>7. Append(m, e) = [i \in 1..(Len(q) + 1) |-> Append(m, e)[i]]
  BY <1>6, LenProperties
<1>8. Mine(p) = [i \in 1..(Len(q) + 1) |-> [id |-> p[i].id, writes |-> p[i].forward]]
  BY <1>1 DEF Mine
<1>9. \A i \in 1..(Len(q) + 1) :
        Append(m, e)[i] = [id |-> p[i].id, writes |-> p[i].forward]
  <2> SUFFICES ASSUME NEW i \in 1..(Len(q) + 1)
               PROVE  Append(m, e)[i] = [id |-> p[i].id, writes |-> p[i].forward]
    OBVIOUS
  <2>1. CASE i \in 1..Len(q)
    BY <1>1, <1>5, <1>6, <2>1
  <2>2. CASE i = Len(q) + 1
    BY <1>1, <1>6, <2>2 DEF e
  <2>3. i \in 1..Len(q) \/ i = Len(q) + 1
    BY LenProperties
  <2> QED BY <2>1, <2>2, <2>3
<1> QED
  BY <1>7, <1>8, <1>9 DEF m, e, p

LEMMA NewIsWork ==
  ASSUME unsaved_transactions \in Seq(UnsavedTransaction), NEW t \in UnsavedTransaction,
         t.id \in 1..MaxOwn, t.id \notin Ids(unsaved_transactions) \cup Ids(log),
         unsaved_transactions' = Append(unsaved_transactions, t),
         UNCHANGED <<log, last_sequence_num>>, ViewIsLogPlusUnsaved'
  PROVE  Shared!Work
<1> DEFINE e == [id |-> t.id, writes |-> t.forward]
           m == Mine(unsaved_transactions)
<1>1. Mine(unsaved_transactions') = Append(m, e)
  BY MineAppend
<1>2. e \in Shared!OwnTransaction /\ e.id = t.id
  BY SharedOperators DEF Shared!OwnTransaction, UnsavedTransaction
<1>3. ~Shared!Holds(m, t.id) /\ ~Shared!Holds(log, t.id)
  BY DEF Shared!Holds, Mine, Ids
<1> HIDE DEF e
<1>4. Shared!AsSeen
  BY SeenNext
<1> QED
  BY <1>1, <1>2, <1>3, <1>4 DEF Shared!Work, Mine

LEMMA CompletionIsWork ==
  ASSUME NEW j \in DOMAIN unsaved_transactions, NEW t, NEW w \in Writes,
         t.id = unsaved_transactions[j].id, t.id \notin Ids(log),
         t.forward = Merge(unsaved_transactions[j].forward, w),
         unsaved_transactions' = [unsaved_transactions EXCEPT ![j] = t],
         UNCHANGED <<log, last_sequence_num>>, ViewIsLogPlusUnsaved'
  PROVE  Shared!Work
<1> DEFINE m == Mine(unsaved_transactions)
<1>1. /\ DOMAIN m = DOMAIN unsaved_transactions /\ m[j].id = t.id
      /\ m[j] = [id |-> t.id, writes |-> unsaved_transactions[j].forward]
  BY DEF Mine
<1>2. Mine(unsaved_transactions') = [m EXCEPT ![j].writes = Merge(@, w)]
  BY DEF Mine
<1>3. ~Shared!Holds(log, m[j].id)
  BY <1>1 DEF Shared!Holds, Ids
<1>4. Shared!AsSeen
  BY SeenNext
<1>5. Mine(unsaved_transactions') = [m EXCEPT ![j].writes = Shared!Merge(@, w)]
  BY <1>2, SharedOperators
<1>6. w \in Shared!Writes
  BY SharedOperators
<1> HIDE DEF m
<1>7. \E i \in DOMAIN m, v \in Shared!Writes :
        /\ ~Shared!Holds(log, m[i].id)
        /\ Mine(unsaved_transactions') = [m EXCEPT ![i].writes = Shared!Merge(@, v)]
  BY <1>1, <1>3, <1>5, <1>6
<1> QED
  BY <1>4, <1>7 DEF Shared!Work, m, Mine

LEMMA MineLength ==
  ASSUME NEW q \in Seq(UnsavedTransaction)
  PROVE  /\ DOMAIN Mine(q) = DOMAIN q /\ Len(Mine(q)) = Len(q)
         /\ Len(q) \in Nat /\ DOMAIN q = 1..Len(q)
<1>1. Len(q) \in Nat /\ DOMAIN q = 1..Len(q) /\ \A i \in 1..Len(q) : q[i] \in UnsavedTransaction
  BY LenProperties, ElementOfSeq
<1>2. \A i \in 1..Len(q) : [id |-> q[i].id, writes |-> q[i].forward] \in SentTransaction
  BY <1>1 DEF SentTransaction, UnsavedTransaction
<1> DEFINE m == Mine(q)
<1>3. m \in [1..Len(q) -> SentTransaction]
  BY <1>1, <1>2 DEF Mine
<1> HIDE DEF m
<1>4. m \in Seq(SentTransaction)
  BY <1>1, <1>3, IsASeq
<1>5. DOMAIN m = 1..Len(q) /\ DOMAIN m = 1..Len(m) /\ Len(m) \in Nat
  BY <1>3, <1>4, LenProperties
<1> QED
  BY <1>1, <1>5 DEF m

LEMMA RestWithoutNone ==
  ASSUME NEW q \in Seq(UnsavedTransaction)
  PROVE  Shared!IsRestOf(Mine(q), Mine(q), DOMAIN q)
<1> DEFINE m == Mine(q)
           n == Len(q)
           f == [i \in 1..n |-> i]
<1>1. Len(m) = n /\ n \in Nat /\ DOMAIN q = 1..n /\ DOMAIN m = 1..n
  BY MineLength
<1>2. f \in [1..n -> DOMAIN q]
  BY <1>1
<1>3. /\ \A i, j \in 1..n : i < j => f[i] < f[j]
      /\ \A k \in DOMAIN q : \E i \in 1..n : f[i] = k
  BY <1>1
<1>4. m = [i \in 1..n |-> m[f[i]]]
  <2> SUFFICES m = [i \in 1..n |-> m[i]]
    OBVIOUS
  <2> QED BY <1>1 DEF Mine
<1> HIDE DEF m, n, f
<1> SUFFICES \E l \in 0..Len(m) : \E h \in [1..l -> DOMAIN q] :
               /\ \A i, j \in 1..l : i < j => h[i] < h[j]
               /\ \A k \in DOMAIN q : \E i \in 1..l : h[i] = k
               /\ m = [i \in 1..l |-> m[h[i]]]
  BY DEF Shared!IsRestOf, m
<1>5. n \in 0..Len(m)
  BY <1>1
<1> WITNESS n \in 0..Len(m)
<1> WITNESS f \in [1..n -> DOMAIN q]
<1> QED
  BY <1>3, <1>4

LEMMA RestWithoutOne ==
  ASSUME NEW q \in Seq(UnsavedTransaction), NEW k \in DOMAIN q
  PROVE  Shared!IsRestOf(Mine(WithoutIndex(q, k)), Mine(q), DOMAIN q \ {k})
<1> DEFINE m == Mine(q)
           n == Len(q) - 1
           f == [i \in 1..n |-> IF i < k THEN i ELSE i + 1]
           p == WithoutIndex(q, k)
<1>1. /\ Len(m) = Len(q) /\ Len(q) \in Nat /\ DOMAIN q = 1..Len(q) /\ k \in 1..Len(q)
      /\ n \in 0..Len(q)
  BY MineLength
<1>2. f \in [1..n -> DOMAIN q \ {k}]
  <2> SUFFICES ASSUME NEW i \in 1..n
               PROVE  (IF i < k THEN i ELSE i + 1) \in DOMAIN q \ {k}
    OBVIOUS
  <2> QED BY <1>1
<1>3. \A i, j \in 1..n : i < j => f[i] < f[j]
  BY <1>1
<1>4. ASSUME NEW l \in DOMAIN q \ {k} PROVE \E i \in 1..n : f[i] = l
  <2>1. CASE l < k
    <3>1. l \in 1..n /\ f[l] = l
      BY <1>1, <2>1
    <3> QED BY <3>1
  <2>2. CASE ~(l < k)
    <3>1. l - 1 \in 1..n /\ ~(l - 1 < k) /\ (l - 1) + 1 = l
      BY <1>1, <2>2
    <3>2. f[l - 1] = l
      BY <3>1
    <3> QED BY <3>1, <3>2
  <2> QED BY <2>1, <2>2
<1>5. DOMAIN p = 1..n /\ \A i \in 1..n : p[i] = q[f[i]]
  BY DEF WithoutIndex
<1>6. \A i \in 1..n : f[i] \in DOMAIN q
  BY <1>2
<1> HIDE DEF f, p
<1>7. Mine(p) = [i \in 1..n |-> m[f[i]]]
  BY <1>5, <1>6 DEF Mine
<1> HIDE DEF m, n
<1> SUFFICES \E l \in 0..Len(m) : \E h \in [1..l -> DOMAIN q \ {k}] :
               /\ \A i, j \in 1..l : i < j => h[i] < h[j]
               /\ \A j \in DOMAIN q \ {k} : \E i \in 1..l : h[i] = j
               /\ Mine(p) = [i \in 1..l |-> m[h[i]]]
  BY DEF Shared!IsRestOf, m, p
<1>8. n \in 0..Len(m)
  BY <1>1
<1> WITNESS n \in 0..Len(m)
<1> WITNESS f \in [1..n -> DOMAIN q \ {k}]
<1> QED
  BY <1>3, <1>4, <1>7

LEMMA ReceivingIsLearning ==
  ASSUME InOrder, IndInv, OwnInv, EditorInv, NEW n \in broadcasts, ReceiveTransaction(n),
         ViewIsLogPlusUnsaved'
  PROVE  Shared!Learn
<1> DEFINE q == unsaved_transactions
           m == Mine(q)
           kept == {i \in DOMAIN m : \A l \in 1..n : log[l].id # m[i].id}
<1>1. /\ n = last_sequence_num + 1 /\ last_sequence_num' = n /\ Received(n) /\ n \in DOMAIN log
      /\ UNCHANGED log
  BY ReceivedEditor DEF ReceiveTransaction
<1>2. /\ q \in Seq(UnsavedTransaction) /\ DOMAIN log = 1..Len(log) /\ Len(log) \in Nat
      /\ last_sequence_num \in Nat
  BY SequenceTypes DEF IndInv, TypeOK, ClientTypeOK
<1>3. DOMAIN m = DOMAIN q /\ \A i \in DOMAIN q : m[i].id = q[i].id
  BY DEF Mine
<1>4. ASSUME NEW l \in 1..last_sequence_num, NEW i \in DOMAIN q PROVE log[l].id # q[i].id
  <2>1. l \in DOMAIN log /\ l <= last_sequence_num
    BY <1>1, <1>2
  <2>2. q[i].id # Foreign
    BY DEF IndInv, OwnWorkIsEdited, IsOwn
  <2> QED BY <2>1, <2>2 DEF EditorInv, UnsavedInv, KeptUntilReceived, Ids
<1>5. kept = {i \in DOMAIN q : log[n].id # q[i].id}
  <2> HIDE DEF m, q
  <2>1. \A l \in 1..n : l = n \/ l \in 1..last_sequence_num
    BY <1>1, <1>2
  <2>2. n \in 1..n
    BY <1>1, <1>2
  <2> QED BY <1>3, <1>4, <2>1, <2>2
<1>6. Shared!IsRestOf(Mine(q'), m, kept)
  <2>1. CASE log[n].id = Foreign /\ q' = q
    <3>1. kept = DOMAIN q
      <4> HIDE DEF kept
      <4> QED BY <1>5, <2>1 DEF IndInv, OwnWorkIsEdited, IsOwn
    <3> QED BY <1>2, <2>1, <3>1, RestWithoutNone
  <2>2. ASSUME NEW k \in DOMAIN q, q[k].id = log[n].id, q' = WithoutIndex(q, k)
        PROVE  Shared!IsRestOf(Mine(q'), m, kept)
    <3>1. kept = DOMAIN q \ {k}
      <4> HIDE DEF kept
      <4> QED BY <1>5, <2>2 DEF EditorInv, UnsavedInv, Apart, Distinct
    <3> QED BY <1>2, <2>2, <3>1, RestWithoutOne
  <2> QED BY <1>1, <2>1, <2>2 DEF Received
<1>7. Shared!AsSeen
  BY SeenNext
<1>8. last_sequence_num' \in (last_sequence_num + 1)..Len(log)
  BY <1>1, <1>2
<1>9. kept = {i \in DOMAIN m : \A l \in 1..last_sequence_num' : log[l].id # m[i].id}
  BY <1>1
<1> HIDE DEF kept
<1> QED
  BY <1>1, <1>6, <1>7, <1>8, <1>9 DEF Shared!Learn, Mine

(* The server takes the user's next transaction, or someone else's.        *)
LEMMA SequencingIsPublishing ==
  ASSUME IndInv, OwnInv, OrderInv, Sequence
  PROVE  Shared!Publish
<1> DEFINE h == Head(to_server)
           m == Mine(unsaved_transactions)
<1>1. /\ to_server # <<>> /\ log' = Append(log, h)
      /\ UNCHANGED <<grid, unsaved_transactions, last_sequence_num>>
  BY DEF Sequence, Commit
<1>2. h = to_server[1] /\ 1 \in DOMAIN to_server /\ h \in SentTransaction
  <2>1. Len(to_server) \in Nat /\ DOMAIN to_server = 1..Len(to_server) /\ Len(to_server) # 0
    BY <1>1, SequenceTypes, LenProperties, EmptySeq
  <2>2. h = to_server[1]
    BY <1>1, SequenceTypes, HeadTailProperties
  <2> QED BY <2>1, <2>2, SequenceTypes, ElementOfSeq
<1> HIDE DEF h
<1>3. h.id \in Ids(to_server) /\ h.id \notin Ids(log) /\ h.id # Foreign
  BY <1>2 DEF Ids, OwnInv, IdsInv, IndInv, OwnWorkIsEdited
<1>4. h.id \in 1..MaxOwn /\ h.writes \in Writes
  <2>1. h.id \in Nat /\ h.id # 0 /\ h.writes \in Writes
    BY <1>2, <1>3 DEF SentTransaction, TransactionId, Foreign
  <2>2. h.id <= issued /\ issued <= MaxOwn /\ issued \in Nat /\ MaxOwn \in Nat
    BY <1>3, SequenceTypes, SessionAssumption DEF OwnInv, IdsInv, OrderInv
  <2> QED BY <2>1, <2>2
<1>5. PICK j \in DOMAIN unsaved_transactions :
        unsaved_transactions[j].id = h.id /\ unsaved_transactions[j].forward = h.writes
  BY <1>2 DEF OwnInv, SentFrom, Entries
<1>6. h = [id |-> h.id, writes |-> h.writes]
  BY <1>2 DEF SentTransaction
<1>7. j \in DOMAIN m /\ m[j] = h
  BY <1>5, <1>6 DEF Mine
<1>8. h \in Shared!Range(m) /\ ~Shared!Holds(log, h.id)
  BY <1>3, <1>7 DEF Shared!Range, Shared!Holds, Ids
<1>9. h \in Shared!Transaction
  BY <1>4, <1>6, SharedOperators DEF Shared!Transaction
<1> HIDE DEF m
<1>10. \E t \in Shared!Transaction :
         /\ t.id # Foreign => t \in Shared!Range(m) /\ ~Shared!Holds(log, t.id)
         /\ log' = Append(log, t)
  BY <1>1, <1>8, <1>9
<1> QED
  BY <1>1, <1>10 DEF Shared!Publish, m, Mine

LEMMA RemoteIsPublishing ==
  ASSUME RemoteCommit
  PROVE  Shared!Publish
<1>1. PICK w \in RemoteEdits : log' = Append(log, [id |-> Foreign, writes |-> w])
  BY DEF RemoteCommit, Commit
<1>2. UNCHANGED <<grid, unsaved_transactions, last_sequence_num>>
  BY DEF RemoteCommit, clientVars
<1>3. [id |-> Foreign, writes |-> w] \in Shared!Transaction
  BY SessionAssumption, SharedOperators DEF Shared!Transaction
<1> QED
  BY <1>1, <1>2, <1>3 DEF Shared!Publish

LEMMA ExecutingIsWork ==
  ASSUME IndInv, OwnInv, EditorInv, ViewIsLogPlusUnsaved', NEW w \in Writes, Untouched(w),
         NEW t \in Executions(w), grid' = Overlay(grid, w),
         unsaved_transactions' = InsertOrReplace(unsaved_transactions, t),
         issued < MaxOwn, issued' = issued + 1, UNCHANGED <<log, last_sequence_num>>
  PROVE  Shared!Work
<1>1. /\ unsaved_transactions' = Append(unsaved_transactions, t)
      /\ t.id \notin Ids(unsaved_transactions) \cup Ids(log)
  BY NewUnsaved DEF EditorInv
<1>2. t \in UnsavedTransaction /\ t.id = issued + 1
  BY ExecutionsType, NewExecution
<1>3. t.id \in 1..MaxOwn
  BY <1>2, SequenceTypes, SessionAssumption
<1> QED
  BY <1>1, <1>2, <1>3, SequenceTypes, NewIsWork

LEMMA CompletingIsWork ==
  ASSUME InOrder, IndInv, OwnInv, EditorInv, ViewIsLogPlusUnsaved', CodeCompletes
  PROVE  Shared!Work
<1>1. PICK k \in DOMAIN async_transactions, r \in CodeResults :
        MayWrite(r) /\ CalculationComplete(k, r)
  BY DEF CodeCompletes
<1> DEFINE a == async_transactions[k]
<1>2. r \in Writes /\ Untouched(r) /\ DOMAIN r \cap DOMAIN a.forward = {}
  BY <1>1, EditsAreWrites, MayWriteUntouched DEF CalculationComplete
<1>3. PICK t \in Completions(a, r) : KeepAndSend(t)
  BY <1>1 DEF CalculationComplete
<1>4. /\ grid' = Overlay(grid, r)
      /\ unsaved_transactions' = InsertOrReplace(unsaved_transactions, t)
      /\ UNCHANGED <<log, issued, last_sequence_num>>
  BY <1>1, <1>3 DEF CodeCompletes, CalculationComplete, KeepAndSend, netVars
<1>5. /\ t.id \notin Ids(log)
      /\ \E j \in DOMAIN unsaved_transactions :
           /\ unsaved_transactions[j] = a /\ unsaved_transactions[j].id = t.id
           /\ unsaved_transactions' = [unsaved_transactions EXCEPT ![j] = t]
  BY <1>2, <1>3, <1>4, CompletedUnsaved DEF EditorInv
<1>6. DOMAIN a.reverse = DOMAIN a.forward
  BY DEF OwnInv, EditorInv, UnsavedInv, Apart, Entries
<1>7. \E D \in Recorded(grid, r) :
        t.forward = Merge(a.forward, ForwardOf(r, D)) /\ ForwardOf(r, D) \in Writes
  BY <1>2, <1>3, <1>6, CompletedType
<1> HIDE DEF a
<1> QED
  BY <1>4, <1>5, <1>7, CompletionIsWork

LEMMA SharedStep ==
  ASSUME InOrder, IndInv, OwnInv, EditorInv, ViewIsLogPlusUnsaved', [Next]_vars
  PROVE  [Shared!SharedNext]_(Shared!sharedVars)
<1>0. ASSUME UNCHANGED <<grid, unsaved_transactions, last_sequence_num, log>>
      PROVE  UNCHANGED Shared!sharedVars
  BY <1>0 DEF Shared!sharedVars
<1>1. CASE Edit
  <2>1. PICK w \in UserEdits : MayWrite(w) /\ UserTransaction(w)
    BY <1>1 DEF Edit
  <2>2. w \in Writes /\ Untouched(w)
    BY <2>1, EditsAreWrites, MayWriteUntouched
  <2>3. PICK t \in Executions(w) : KeepAndSend(t)
    BY <2>1 DEF UserTransaction
  <2>4. /\ grid' = Overlay(grid, w) /\ issued < MaxOwn /\ issued' = issued + 1
        /\ unsaved_transactions' = InsertOrReplace(unsaved_transactions, t)
        /\ UNCHANGED <<log, last_sequence_num>>
    BY <1>1, <2>1, <2>3 DEF Edit, UserTransaction, KeepAndSend, netVars
  <2>5. Shared!Work
    BY <2>2, <2>3, <2>4, ExecutingIsWork
  <2> QED BY <2>5 DEF Shared!SharedNext
<1>2. CASE RunCode
  <2>1. PICK w \in CodeCells : MayWrite(w) /\ StartAsyncTransaction(w)
    BY <1>2 DEF RunCode
  <2>2. w \in Writes /\ Untouched(w)
    BY <2>1, EditsAreWrites, MayWriteUntouched
  <2>3. PICK t \in Executions(w) :
          unsaved_transactions' = InsertOrReplace(unsaved_transactions, t)
    BY <2>1 DEF StartAsyncTransaction
  <2>4. /\ grid' = Overlay(grid, w) /\ issued < MaxOwn /\ issued' = issued + 1
        /\ UNCHANGED <<log, last_sequence_num>>
    BY <1>2, <2>1 DEF RunCode, StartAsyncTransaction, netVars
  <2>5. Shared!Work
    BY <2>2, <2>3, <2>4, ExecutingIsWork
  <2> QED BY <2>5 DEF Shared!SharedNext
<1>3. CASE CodeCompletes
  BY <1>3, CompletingIsWork DEF Shared!SharedNext
<1>4. CASE UndoLast
  <2> DEFINE w == Top(undo_stack)
  <2>1. MayWrite(w) /\ undo_stack # <<>> /\ Undo
    BY <1>4 DEF UndoLast
  <2>2. w \in Writes /\ Untouched(w)
    BY <2>1, IndInvSequences, StackTopPop, MayWriteUntouched
  <2>3. PICK t \in Executions(w) : KeepAndSend(t)
    BY <2>1 DEF Undo
  <2>4. /\ grid' = Overlay(grid, w) /\ issued < MaxOwn /\ issued' = issued + 1
        /\ unsaved_transactions' = InsertOrReplace(unsaved_transactions, t)
        /\ UNCHANGED <<log, last_sequence_num>>
    BY <1>4, <2>1, <2>3 DEF UndoLast, Undo, KeepAndSend, netVars
  <2> HIDE DEF w
  <2>5. Shared!Work
    BY <2>2, <2>3, <2>4, ExecutingIsWork
  <2> QED BY <2>5 DEF Shared!SharedNext
<1>5. CASE RedoLast
  <2> DEFINE w == Top(redo_stack)
  <2>1. MayWrite(w) /\ redo_stack # <<>> /\ Redo
    BY <1>5 DEF RedoLast
  <2>2. w \in Writes /\ Untouched(w)
    BY <2>1, IndInvSequences, StackTopPop, MayWriteUntouched
  <2>3. PICK t \in Executions(w) : KeepAndSend(t)
    BY <2>1 DEF Redo
  <2>4. /\ grid' = Overlay(grid, w) /\ issued < MaxOwn /\ issued' = issued + 1
        /\ unsaved_transactions' = InsertOrReplace(unsaved_transactions, t)
        /\ UNCHANGED <<log, last_sequence_num>>
    BY <1>5, <2>1, <2>3 DEF RedoLast, Redo, KeepAndSend, netVars
  <2> HIDE DEF w
  <2>5. Shared!Work
    BY <2>2, <2>3, <2>4, ExecutingIsWork
  <2> QED BY <2>5 DEF Shared!SharedNext
<1>6. CASE Sequence
  BY <1>6, SequencingIsPublishing DEF EditorInv, Shared!SharedNext
<1>7. CASE RemoteCommit
  BY <1>7, RemoteIsPublishing DEF Shared!SharedNext
<1>8. CASE \E m \in requests : ServeRequest(m)
  BY <1>0, <1>8 DEF ServeRequest
<1>9. CASE \E n \in broadcasts : ReceiveTransaction(n)
  BY <1>9, ReceivingIsLearning DEF Shared!SharedNext
<1>10. CASE \E r \in replies : ReceiveTransactions(r)
  BY <1>10 DEF EditorInv, OrderInv
<1>11. CASE \E k \in Announced : ReceiveCurrentTransaction(k)
  BY <1>0, <1>11 DEF ReceiveCurrentTransaction, ReceiveSequenceNum, netVars
<1>12. CASE Disconnect
  BY <1>0, <1>12 DEF Disconnect
<1>13. CASE Reconnect
  BY <1>0, <1>13 DEF Reconnect, clientVars
<1>14. CASE UNCHANGED vars
  BY <1>0, <1>14 DEF vars, clientVars, netVars
<1> QED
  BY <1>1, <1>2, <1>3, <1>4, <1>5, <1>6, <1>7, <1>8, <1>9, <1>10, <1>11, <1>12, <1>13, <1>14
     DEF Next

LEMMA SharedInitially == Init => Shared!SharedInit
<1> SUFFICES ASSUME Init PROVE Shared!SharedInit
  OBVIOUS
<1>1. /\ grid = BlankGrid /\ log = <<>> /\ last_sequence_num = 0
      /\ unsaved_transactions = <<>> /\ DOMAIN <<>> = {}
  BY EmptySeq DEF Init, ClientInit
<1>2. Mine(<<>>) = <<>>
  BY <1>1 DEF Mine
<1> QED
  BY <1>1, <1>2, SharedOperators DEF Shared!SharedInit, Mine

(* A session keeps the promise of SharedSheet: there is one history, a     *)
(* user learns it in order and without a gap, her own work is hers alone   *)
(* until she learns it back, and her sheet is the one on top of the other. *)
THEOREM Implements == InOrder => (Spec => ImplementsSharedSheet)
<1> SUFFICES ASSUME InOrder PROVE Spec => ImplementsSharedSheet
  OBVIOUS
<1>1. Init => Shared!SharedInit
  BY SharedInitially
<1>2. IndInv /\ OwnInv /\ EditorInv /\ ViewIsLogPlusUnsaved' /\ [Next]_vars =>
        [Shared!SharedNext]_(Shared!sharedVars)
  BY SharedStep
<1>3. Spec => []ViewIsLogPlusUnsaved
  BY ViewIsShown
<1> QED
  BY <1>1, <1>2, <1>3, Invariance, OwnInvariance, EditorInvariance, PTL
     DEF Spec, ImplementsSharedSheet, Shared!SharedSpec
=============================================================================
