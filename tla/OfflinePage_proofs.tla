------------------------- MODULE OfflinePage_proofs -------------------------
(***************************************************************************)
(* Theorems about a page that is reloaded: what the user has finished is   *)
(* never lost, a transaction has one entry in the store, what holds of a   *)
(* session holds across reloads, and a page that has settled is in sync,   *)
(* for all cells, edits and bounds.                                        *)
(***************************************************************************)
EXTENDS OfflinePage, Editor_proofs, FiniteSetTheorems

(* The states that executing what was stored leads through.                *)
Loading(E) ==
  {s \in [grid : Grid, undo : Stack(E), redo : Stack(E), send : Sending(E)] :
     \A c \in Cell \ E : s.grid[c] = Replay(log, last_sequence_num)[c]}

LEMMA ApplyOneLoading ==
  ASSUME NEW E, NEW s \in Loading(E), NEW e \in OfflineEntry,
         e.transactionId # Foreign, DOMAIN e.transaction \subseteq E
  PROVE  ApplyOfflineUnsaved(s, e) \subseteq Loading(E)
<1>1. /\ s.grid \in Grid /\ s.undo \in Stack(E) /\ s.redo \in Stack(E) /\ s.send \in Sending(E)
      /\ s = [grid |-> s.grid, undo |-> s.undo, redo |-> s.redo, send |-> s.send]
      /\ \A c \in Cell \ E : s.grid[c] = Replay(log, last_sequence_num)[c]
  BY DEF Loading
<1>2. e.transactionId \in TransactionId /\ e.transaction \in Writes
  BY DEF OfflineEntry
<1>3. /\ \A q \in Stack(E), w \in Writes : DOMAIN w \subseteq E => Append(q, w) \in Stack(E)
      /\ \A q \in Sending(E), t \in SentTransaction :
           (t.id # Foreign /\ DOMAIN t.writes \subseteq E) => Append(q, t) \in Sending(E)
      /\ <<>> \in Stack(E)
  BY AppendOwn
<1>4. ASSUME NEW w \in Writes, DOMAIN w \subseteq E
      PROVE  Append(s.send, [id |-> e.transactionId, writes |-> w]) \in Sending(E)
  <2> DEFINE t == [id |-> e.transactionId, writes |-> w]
  <2>1. t \in SentTransaction /\ t.id # Foreign /\ DOMAIN t.writes \subseteq E
    BY <1>2, <1>4 DEF SentTransaction
  <2> HIDE DEF t
  <2>2. Append(s.send, t) \in Sending(E)
    BY <1>1, <1>3, <2>1
  <2> QED BY <2>2 DEF t
<1>5. CASE Holds(unsaved_transactions, e.transactionId)
  <2> DEFINE q == Append(s.send, [id |-> e.transactionId, writes |-> e.transaction])
  <2>1. q \in Sending(E)
    BY <1>2, <1>4
  <2>2. ApplyOfflineUnsaved(s, e) = {[s EXCEPT !.send = q]}
    BY <1>5 DEF ApplyOfflineUnsaved
  <2> HIDE DEF q
  <2>3. [s EXCEPT !.send = q] = [grid |-> s.grid, undo |-> s.undo, redo |-> s.redo, send |-> q]
    BY <1>1
  <2>4. [s EXCEPT !.send = q] \in Loading(E)
    BY <1>1, <2>1, <2>3 DEF Loading
  <2> QED BY <2>2, <2>4
<1>6. CASE ~Holds(unsaved_transactions, e.transactionId)
  <2> SUFFICES ASSUME NEW p \in ApplyOfflineUnsaved(s, e) PROVE p \in Loading(E)
    OBVIOUS
  <2>1. PICK D \in Recorded(s.grid, e.transaction) :
          p = [grid |-> Overlay(s.grid, e.transaction),
               undo |-> Append(s.undo, ReverseOf(s.grid, D)),
               redo |-> <<>>,
               send |-> Append(s.send, [id |-> e.transactionId,
                                        writes |-> ForwardOf(e.transaction, D)])]
    BY <1>6 DEF ApplyOfflineUnsaved
  <2>2. /\ D \subseteq DOMAIN e.transaction
        /\ ForwardOf(e.transaction, D) \in Writes /\ DOMAIN ForwardOf(e.transaction, D) = D
        /\ ReverseOf(s.grid, D) \in Writes /\ DOMAIN ReverseOf(s.grid, D) = D
    BY <1>1, <1>2, RecordedType
  <2> DEFINE g == Overlay(s.grid, e.transaction)
             u == Append(s.undo, ReverseOf(s.grid, D))
             q == Append(s.send, [id |-> e.transactionId,
                                  writes |-> ForwardOf(e.transaction, D)])
  <2>3. g \in Grid /\ u \in Stack(E) /\ q \in Sending(E)
    BY <1>1, <1>2, <1>3, <1>4, <2>2, OverlayType
  <2>4. \A c \in Cell \ E : g[c] = Replay(log, last_sequence_num)[c]
    BY <1>1 DEF Overlay
  <2>5. p = [grid |-> g, undo |-> u, redo |-> <<>>, send |-> q]
    BY <2>1
  <2> HIDE DEF g, u, q
  <2> QED BY <1>3, <2>3, <2>4, <2>5 DEF Loading
<1> QED
  BY <1>5, <1>6

(* All entries, one after the other: the set of states that each of them   *)
(* stays in, all of them stay in.                                          *)
LEMMA ApplyAllWithin ==
  ASSUME NEW P, NEW s \in P, NEW q \in Seq(OfflineEntry),
         \A i \in 1..Len(q), p \in P : ApplyOfflineUnsaved(p, q[i]) \subseteq P
  PROVE  ApplyAll(s, q) \subseteq P
<1> DEFINE S == SUBSET P
           Step(T, i) == UNION {ApplyOfflineUnsaved(p, q[i]) : p \in T}
           N == [i \in 1..Len(q) |-> [T \in S |-> Step(T, i)]]
           Body(f) == [i \in 0..Len(q) |-> IF i = 0 THEN {s} ELSE Step(f[i - 1], i)]
           F == CHOOSE f : f = Body(f)
<1>1. Len(q) \in Nat
  BY LenProperties
<1>2. {s} \in S
  OBVIOUS
<1>3. \A i \in 1..Len(q), T \in S : Step(T, i) \in S
  <2> TAKE i \in 1..Len(q), T \in S
  <2>1. \A p \in T : ApplyOfflineUnsaved(p, q[i]) \subseteq P
    OBVIOUS
  <2> QED BY <2>1
<1> HIDE DEF Step
<1>4. N \in [1..Len(q) -> [S -> S]]
  BY <1>3
<1>5. PICK f \in [0..Len(q) -> S] : f[0] = {s} /\ \A i \in 1..Len(q) : f[i] = N[i][f[i - 1]]
  <2>1. N \in Steps(S, Len(q))
    BY <1>4 DEF Steps
  <2> HIDE DEF S, N, Body, F
  <2>2. Iterations(S, Len(q), N, {s}) # {}
    BY <1>1, <1>2, <2>1, IterationExists
  <2> QED BY <2>2 DEF Iterations
<1>6. \A i \in 1..Len(q) : f[i] = Step(f[i - 1], i)
  <2> TAKE i \in 1..Len(q)
  <2>1. f[i - 1] \in S
    BY <1>1, <1>5
  <2> HIDE DEF S
  <2> QED BY <1>5, <2>1
<1>7. f = Body(f)
  <2> HIDE DEF S, N
  <2> QED BY <1>1, <1>5, <1>6
<1>8. F = Body(F)
  <2> HIDE DEF Body
  <2> QED BY <1>7, Zenon
<1>9. ApplyAll(s, q) = F[Len(q)]
  BY DEF ApplyAll, Step
<1> HIDE DEF F
<1> DEFINE G == {i \in 0..Len(q) : F[i] \in S}
<1>10. 0 \in G
  <2> HIDE DEF S, N
  <2> QED BY <1>1, <1>2, <1>8
<1>11. ASSUME NEW n \in 1..Len(q), n - 1 \in G PROVE n \in G
  <2>1. F[n] = Step(F[n - 1], n)
    <3>1. n \in 0..Len(q) /\ n # 0
      BY <1>1
    <3> HIDE DEF S, N, G
    <3> QED BY <1>8, <3>1
  <2> HIDE DEF S, N
  <2> QED BY <1>3, <1>11, <2>1
<1>12. Len(q) \in G
  <2> HIDE DEF G
  <2> QED BY <1>1, <1>10, <1>11, InductionTo
<1> QED
  BY <1>9, <1>12

LEMMA ApplyAllLoading ==
  ASSUME NEW E, NEW s \in Loading(E), NEW q \in Seq(OfflineEntry),
         \A i \in DOMAIN q : q[i].transactionId # Foreign /\ DOMAIN q[i].transaction \subseteq E
  PROVE  ApplyAll(s, q) \subseteq Loading(E)
<1>1. DOMAIN q = 1..Len(q) /\ \A i \in 1..Len(q) : q[i] \in OfflineEntry
  BY LenProperties, ElementOfSeq
<1>2. \A i \in 1..Len(q), p \in Loading(E) : ApplyOfflineUnsaved(p, q[i]) \subseteq Loading(E)
  BY <1>1, ApplyOneLoading
<1> QED
  BY <1>2, ApplyAllWithin

-----------------------------------------------------------------------------
(* The log never forgets an id.                                            *)
LogGrows == \A id \in TransactionId : Holds(log, id) => Holds(log', id)

LEMMA AppendHolds ==
  ASSUME NEW q \in Seq(SentTransaction), NEW t \in SentTransaction
  PROVE  \A id \in TransactionId : Holds(q, id) => Holds(Append(q, t), id)
<1>1. Len(q) \in Nat /\ DOMAIN q = 1..Len(q)
  BY LenProperties
<1>2. /\ Append(q, t) \in Seq(SentTransaction) /\ Len(Append(q, t)) = Len(q) + 1
      /\ \A i \in 1..Len(q) : Append(q, t)[i] = q[i]
  BY AppendProperties
<1>3. DOMAIN Append(q, t) = 1..(Len(q) + 1)
  BY <1>2, LenProperties
<1> QED
  BY <1>1, <1>2, <1>3 DEF Holds

LEMMA OfflineInvTypes ==
  ASSUME OfflineInv
  PROVE  /\ issued \in Nat /\ log \in Seq(SentTransaction) /\ to_server \in Seq(SentTransaction)
         /\ async_transactions \in Seq(UnsavedTransaction)
         /\ leaving \in Seq(SentTransaction) /\ finished \in SUBSET TransactionId
         /\ stored \in SUBSET OfflineEntry /\ IsFiniteSet(stored) /\ edited \in SUBSET Cell
BY DEF OfflineInv, OfflineTypeOK, TypeOK, ClientTypeOK

(* A step that neither stores nor removes anything.                        *)
LEMMA QuietStep ==
  ASSUME OfflineInv, IndInv',
         UNCHANGED <<stored, index, unapplied, leaving, checkpoint, reloads, finished,
                     async_transactions, issued, edited>>,
         locked' \subseteq {"offline", "multiplayer"}, batched' \in BOOLEAN, LogGrows
  PROVE  OfflineInv'
<1>1. OfflineTypeOK'
  BY DEF OfflineInv, OfflineTypeOK, IndInv
<1>2. WaitingIsOwn' /\ StoredOnce'
  BY DEF OfflineInv, WaitingIsOwn, StoredOnce
<1>3. AsyncIsNotStored'
  BY DEF OfflineInv, AsyncIsNotStored
<1>4. NothingFinishedIsLost'
  BY OfflineInvTypes DEF OfflineInv, NothingFinishedIsLost, LogGrows
<1> QED
  BY <1>1, <1>2, <1>3, <1>4 DEF OfflineInv

(* A transaction that is finished and stored.                              *)
LEMMA FinishStep ==
  ASSUME OfflineInv, IndInv', NEW t \in SentTransaction, to_server' = Append(to_server, t),
         AddUnsentTransaction(to_server'[Len(to_server')]), log' = log,
         issued' \in Nat, issued <= issued', edited \subseteq edited',
         t.id \in 1..issued', \A e \in stored : e.transactionId # t.id,
         \A i \in DOMAIN async_transactions' :
           /\ async_transactions'[i].id \in 1..issued /\ async_transactions'[i].id # t.id
           /\ \A e \in stored : e.transactionId # async_transactions'[i].id
           /\ \A j \in DOMAIN async_transactions' :
                async_transactions'[i].id = async_transactions'[j].id => i = j
  PROVE  OfflineInv'
<1> DEFINE new == [transactionId |-> t.id, transaction |-> t.writes, index |-> index]
<1>1. issued \in Nat /\ index \in Nat /\ Len(to_server) \in Nat
  BY OfflineInvTypes, LenProperties DEF OfflineInv, OfflineTypeOK
<1>2. /\ Len(to_server') = Len(to_server) + 1 /\ to_server'[Len(to_server) + 1] = t
      /\ Len(to_server) + 1 \in DOMAIN to_server'
  <2>1. /\ Append(to_server, t) \in Seq(SentTransaction)
        /\ Len(Append(to_server, t)) = Len(to_server) + 1
        /\ Append(to_server, t)[Len(to_server) + 1] = t
    BY OfflineInvTypes, AppendProperties
  <2> QED BY <1>1, <2>1, LenProperties
<1>3. /\ stored' = stored \cup {new} /\ index' = index + 1 /\ finished' = finished \cup {t.id}
      /\ UNCHANGED <<unapplied, locked, leaving, checkpoint, reloads, batched>>
  BY <1>2 DEF AddUnsentTransaction
<1>4. t.id \in TransactionId /\ t.writes \in Writes /\ new \in OfflineEntry
      /\ new.transactionId = t.id /\ new.transaction = t.writes
  BY <1>1 DEF SentTransaction, OfflineEntry
<1>5. DOMAIN t.writes \subseteq edited'
  BY <1>2 DEF IndInv, OwnWorkIsEdited
<1> HIDE DEF new
<1>6. IsFiniteSet(stored')
  BY <1>3, OfflineInvTypes, FS_AddElement
<1>7. OfflineTypeOK'
  BY <1>1, <1>3, <1>4, <1>6 DEF OfflineInv, OfflineTypeOK, IndInv
<1>8. WaitingIsOwn'
  <2>1. \A e \in stored' : e.transactionId \in 1..issued' /\ DOMAIN e.transaction \subseteq edited'
    BY <1>1, <1>3, <1>4, <1>5 DEF OfflineInv, WaitingIsOwn
  <2> QED BY <1>3, <2>1 DEF OfflineInv, WaitingIsOwn
<1>9. AsyncIsNotStored'
  BY <1>1, <1>3, <1>4 DEF AsyncIsNotStored
<1>10. StoredOnce'
  BY <1>3, <1>4 DEF OfflineInv, StoredOnce
<1>11. NothingFinishedIsLost'
  <2>1. \A id \in finished' : Holds(log, id) \/ \E e \in stored' : e.transactionId = id
    BY <1>3, <1>4 DEF OfflineInv, NothingFinishedIsLost
  <2> QED BY <2>1 DEF NothingFinishedIsLost
<1> QED
  BY <1>7, <1>8, <1>9, <1>10, <1>11 DEF OfflineInv

(* A transaction with a new id, which does not touch those that wait.      *)
LEMMA FreshFinishStep ==
  ASSUME OfflineInv, IndInv', NEW w \in Writes, NEW t \in Executions(w), KeepAndSend(t),
         AddUnsentTransaction(to_server'[Len(to_server')]), log' = log,
         issued' = issued + 1, edited \subseteq edited', async_transactions' = async_transactions
  PROVE  OfflineInv'
<1>1. issued \in Nat /\ IndInv
  BY OfflineInvTypes DEF OfflineInv
<1>2. t.id = issued + 1 /\ [id |-> t.id, writes |-> t.forward] \in SentTransaction
  BY <1>1, ExecutionsType DEF Executions
<1> DEFINE s == [id |-> t.id, writes |-> t.forward]
<1>3. s \in SentTransaction /\ s.id = issued + 1 /\ to_server' = Append(to_server, s)
  BY <1>2 DEF KeepAndSend
<1> HIDE DEF s
<1>4. \A e \in stored : e.transactionId \in 1..issued
  BY DEF OfflineInv, WaitingIsOwn
<1>5. \A i \in DOMAIN async_transactions' :
        /\ async_transactions'[i].id \in 1..issued
        /\ \A e \in stored : e.transactionId # async_transactions'[i].id
        /\ \A j \in DOMAIN async_transactions' :
             async_transactions'[i].id = async_transactions'[j].id => i = j
  BY DEF OfflineInv, AsyncIsNotStored
<1> QED
  BY <1>1, <1>3, <1>4, <1>5, FinishStep

LEMMA UserFinishesInv == ASSUME OfflineInv, UserFinishes PROVE OfflineInv'
<1>1. IndInv /\ issued \in Nat /\ AddUnsentTransaction(to_server'[Len(to_server')])
      /\ (Edit \/ CodeCompletes \/ UndoLast \/ RedoLast)
  BY OfflineInvTypes DEF OfflineInv, UserFinishes
<1>2. IndInv'
  BY <1>1, NextInv DEF Next
<1>3. CASE Edit
  <2>1. PICK w \in UserEdits : UserTransaction(w)
    BY <1>3 DEF Edit
  <2>2. PICK t \in Executions(w) : KeepAndSend(t)
    BY <2>1 DEF UserTransaction
  <2>3. w \in Writes /\ issued' = issued + 1 /\ edited \subseteq edited' /\ log' = log
        /\ async_transactions' = async_transactions
    BY <1>3, <2>1, EditsAreWrites DEF Edit, UserTransaction, netVars
  <2> QED BY <1>1, <1>2, <2>2, <2>3, FreshFinishStep
<1>4. CASE UndoLast
  <2>1. PICK t \in Executions(Top(undo_stack)) : KeepAndSend(t)
    BY <1>4 DEF UndoLast, Undo
  <2>2. Top(undo_stack) \in Writes
    BY <1>1, <1>4, IndInvSequences, StackTopPop DEF UndoLast
  <2>3. issued' = issued + 1 /\ edited' = edited /\ log' = log
        /\ async_transactions' = async_transactions
    BY <1>4 DEF UndoLast, Undo, netVars
  <2> QED BY <1>1, <1>2, <2>1, <2>2, <2>3, FreshFinishStep
<1>5. CASE RedoLast
  <2>1. PICK t \in Executions(Top(redo_stack)) : KeepAndSend(t)
    BY <1>5 DEF RedoLast, Redo
  <2>2. Top(redo_stack) \in Writes
    BY <1>1, <1>5, IndInvSequences, StackTopPop DEF RedoLast
  <2>3. issued' = issued + 1 /\ edited' = edited /\ log' = log
        /\ async_transactions' = async_transactions
    BY <1>5 DEF RedoLast, Redo, netVars
  <2> QED BY <1>1, <1>2, <2>1, <2>2, <2>3, FreshFinishStep
<1>6. CASE CodeCompletes
  <2>1. PICK k \in DOMAIN async_transactions, r \in CodeResults : CalculationComplete(k, r)
    BY <1>6 DEF CodeCompletes
  <2>2. PICK t \in Completions(async_transactions[k], r) : KeepAndSend(t)
    BY <2>1 DEF CalculationComplete
  <2>3. issued' = issued /\ edited \subseteq edited' /\ log' = log
        /\ async_transactions' = WithoutIndex(async_transactions, k)
    BY <1>6, <2>1 DEF CodeCompletes, CalculationComplete, netVars
  <2> DEFINE s == [id |-> t.id, writes |-> t.forward]
             n == Len(async_transactions)
  <2>4. to_server' = Append(to_server, s) /\ t.id = async_transactions[k].id
    BY <2>2 DEF KeepAndSend, Completions
  <2>5. n \in Nat /\ DOMAIN async_transactions = 1..n
    BY OfflineInvTypes, LenProperties
  <2>6. to_server' \in Seq(SentTransaction) /\ to_server \in Seq(SentTransaction)
    BY <1>1, <1>2 DEF IndInv, TypeOK, ClientTypeOK
  <2>7. s \in SentTransaction
    <3>1. PICK D \in Recorded(grid, r) :
            t = [id |-> async_transactions[k].id,
                 forward |-> Merge(async_transactions[k].forward, ForwardOf(r, D)),
                 reverse |-> Merge(async_transactions[k].reverse, ReverseOf(grid, D))]
      BY <2>2 DEF Completions
    <3>2. async_transactions[k] \in UnsavedTransaction
      BY <2>5, OfflineInvTypes, ElementOfSeq
    <3>3. ForwardOf(r, D) \in Writes
      BY <1>1, EditsAreWrites, RecordedType DEF IndInv, TypeOK, ClientTypeOK
    <3>4. Merge(async_transactions[k].forward, ForwardOf(r, D)) \in Writes
      BY <3>2, <3>3, MergeType DEF UnsavedTransaction
    <3> QED BY <3>1, <3>2, <3>4 DEF SentTransaction, UnsavedTransaction
  <2>8. s.id = async_transactions[k].id
    BY <2>4
  <2> HIDE DEF s
  <2>9. \A i \in DOMAIN async_transactions' : \E h \in 1..n :
          /\ h # k /\ h = (IF i < k THEN i ELSE i + 1)
          /\ async_transactions'[i] = async_transactions[h]
    BY <2>1, <2>3, <2>5 DEF WithoutIndex
  <2>10. \A h \in 1..n :
           /\ async_transactions[h].id \in 1..issued
           /\ \A e \in stored : e.transactionId # async_transactions[h].id
           /\ \A j \in 1..n : async_transactions[h].id = async_transactions[j].id => h = j
    BY <2>5 DEF OfflineInv, AsyncIsNotStored
  <2>11. DOMAIN async_transactions' = 1..(n - 1)
    BY <2>3 DEF WithoutIndex
  <2>12. \A i \in DOMAIN async_transactions' :
           /\ async_transactions'[i].id \in 1..issued /\ async_transactions'[i].id # s.id
           /\ \A e \in stored : e.transactionId # async_transactions'[i].id
           /\ \A j \in DOMAIN async_transactions' :
                async_transactions'[i].id = async_transactions'[j].id => i = j
    <3> TAKE i \in DOMAIN async_transactions'
    <3>1. PICK h \in 1..n : /\ h # k /\ h = (IF i < k THEN i ELSE i + 1)
                            /\ async_transactions'[i] = async_transactions[h]
      BY <2>9
    <3>2. ASSUME NEW j \in DOMAIN async_transactions',
                 async_transactions'[i].id = async_transactions'[j].id
          PROVE  i = j
      <4>1. PICK l \in 1..n : /\ l # k /\ l = (IF j < k THEN j ELSE j + 1)
                              /\ async_transactions'[j] = async_transactions[l]
        BY <2>9
      <4>2. h = l
        BY <2>10, <3>1, <3>2, <4>1
      <4> QED BY <2>1, <2>5, <2>11, <3>1, <4>1, <4>2
    <3> QED BY <2>1, <2>5, <2>8, <2>10, <3>1, <3>2
  <2>13. s.id \in 1..issued' /\ \A e \in stored : e.transactionId # s.id
    BY <2>1, <2>3, <2>5, <2>8, <2>10
  <2>14. issued' \in Nat /\ issued <= issued'
    BY <1>1, <2>3
  <2> QED BY <1>1, <1>2, <2>3, <2>4, <2>7, <2>12, <2>13, <2>14, FinishStep
<1> QED
  BY <1>1, <1>3, <1>4, <1>5, <1>6

LEMMA UserStartsCodeInv == ASSUME OfflineInv, UserStartsCode PROVE OfflineInv'
<1>1. IndInv /\ issued \in Nat /\ IndInv'
  BY OfflineInvTypes, NextInv DEF OfflineInv, UserStartsCode, Next
<1>2. PICK w \in CodeCells : StartAsyncTransaction(w)
  BY DEF UserStartsCode, RunCode
<1>3. PICK t \in Executions(w) : async_transactions' = Append(async_transactions, t)
  BY <1>2 DEF StartAsyncTransaction
<1>4. issued' = issued + 1 /\ edited \subseteq edited' /\ log' = log
  BY <1>2 DEF UserStartsCode, RunCode, StartAsyncTransaction, netVars
<1>5. UNCHANGED offlineVars
  BY DEF UserStartsCode
<1>6. t.id = issued + 1 /\ t \in UnsavedTransaction
  <2>1. w \in Writes
    BY EditsAreWrites
  <2>2. t.id = issued + 1
    BY DEF Executions
  <2> QED BY <1>1, <2>1, <2>2, ExecutionsType
<1> DEFINE n == Len(async_transactions)
<1>7. n \in Nat /\ DOMAIN async_transactions = 1..n
  BY OfflineInvTypes, LenProperties
<1>8. /\ DOMAIN async_transactions' = 1..(n + 1)
      /\ \A i \in 1..n : async_transactions'[i] = async_transactions[i]
      /\ async_transactions'[n + 1] = t
  <2>1. /\ Append(async_transactions, t) \in Seq(UnsavedTransaction)
        /\ Len(Append(async_transactions, t)) = n + 1
        /\ \A i \in 1..n : Append(async_transactions, t)[i] = async_transactions[i]
        /\ Append(async_transactions, t)[n + 1] = t
    BY <1>6, OfflineInvTypes, AppendProperties
  <2> QED BY <1>3, <2>1, LenProperties
<1> HIDE DEF n
<1>9. \A e \in stored : e.transactionId \in 1..issued /\ DOMAIN e.transaction \subseteq edited
  BY DEF OfflineInv, WaitingIsOwn
<1>10. OfflineTypeOK'
  BY <1>1, <1>5 DEF OfflineInv, OfflineTypeOK, IndInv, offlineVars
<1>11. WaitingIsOwn'
  <2>1. \A e \in stored : e.transactionId \in 1..issued' /\ DOMAIN e.transaction \subseteq edited'
    BY <1>1, <1>4, <1>9
  <2> QED BY <1>4, <1>5, <2>1 DEF OfflineInv, WaitingIsOwn, offlineVars
<1>12. AsyncIsNotStored'
  <2>1. \A i \in 1..n :
          /\ async_transactions[i].id \in 1..issued
          /\ \A e \in stored : e.transactionId # async_transactions[i].id
          /\ \A j \in 1..n : async_transactions[i].id = async_transactions[j].id => i = j
    BY <1>7 DEF OfflineInv, AsyncIsNotStored
  <2>2. \A i \in 1..(n + 1) :
          /\ async_transactions'[i].id \in 1..issued'
          /\ \A e \in stored : e.transactionId # async_transactions'[i].id
    BY <1>1, <1>4, <1>6, <1>7, <1>8, <1>9, <2>1
  <2>3. \A i, j \in 1..(n + 1) :
          async_transactions'[i].id = async_transactions'[j].id => i = j
    <3> SUFFICES ASSUME NEW i \in 1..(n + 1), NEW j \in 1..(n + 1),
                        async_transactions'[i].id = async_transactions'[j].id
                 PROVE  i = j
      OBVIOUS
    <3>1. \A k \in 1..n : async_transactions'[k].id \in 1..issued
      BY <1>8, <2>1
    <3>2. async_transactions'[n + 1].id = issued + 1
      BY <1>6, <1>8
    <3>3. CASE i \in 1..n /\ j \in 1..n
      BY <1>8, <2>1, <3>3
    <3>4. CASE i \in 1..n /\ j = n + 1
      BY <1>1, <3>1, <3>2, <3>4
    <3>5. CASE i = n + 1 /\ j \in 1..n
      BY <1>1, <3>1, <3>2, <3>5
    <3> QED BY <1>7, <3>3, <3>4, <3>5
  <2> QED BY <1>5, <1>8, <2>2, <2>3 DEF AsyncIsNotStored, offlineVars
<1>13. StoredOnce' /\ NothingFinishedIsLost'
  BY <1>4, <1>5 DEF OfflineInv, StoredOnce, NothingFinishedIsLost, offlineVars, Holds
<1> QED
  BY <1>1, <1>10, <1>11, <1>12, <1>13 DEF OfflineInv

-----------------------------------------------------------------------------
(* The room and what it sends.                                             *)

LEMMA RoomStepsInv == ASSUME OfflineInv, RoomSteps PROVE OfflineInv'
<1>1. IndInv'
  BY NextInv DEF OfflineInv, RoomSteps, Next
<1>2. UNCHANGED offlineVars
  BY DEF RoomSteps
<1>3. /\ UNCHANGED <<async_transactions, issued, edited>>
      /\ log' = log \/ \E t \in SentTransaction : log' = Append(log, t)
  <2>1. CASE Sequence
    <3>1. to_server \in Seq(SentTransaction) /\ to_server # <<>>
      BY <2>1, OfflineInvTypes DEF Sequence
    <3>2. Head(to_server) \in SentTransaction
      BY <3>1, HeadTailProperties
    <3> QED BY <2>1, <3>2 DEF Sequence, Commit
  <2>2. CASE RemoteCommit
    <3>1. PICK w \in RemoteEdits : Commit([id |-> Foreign, writes |-> w])
      BY <2>2 DEF RemoteCommit
    <3>2. [id |-> Foreign, writes |-> w] \in SentTransaction
      BY SessionAssumption DEF SentTransaction, TransactionId, Foreign
    <3> QED BY <2>2, <3>1, <3>2 DEF RemoteCommit, Commit, clientVars
  <2>3. CASE \E m \in requests : ServeRequest(m)
    BY <2>3 DEF ServeRequest
  <2>4. CASE Reconnect
    BY <2>4 DEF Reconnect, clientVars
  <2> QED BY <2>1, <2>2, <2>3, <2>4 DEF RoomSteps
<1>4. LogGrows
  <2>1. CASE log' = log
    BY <2>1 DEF LogGrows, Holds
  <2>2. ASSUME NEW t \in SentTransaction, log' = Append(log, t) PROVE LogGrows
    <3>1. \A id \in TransactionId : Holds(log, id) => Holds(Append(log, t), id)
      BY OfflineInvTypes, AppendHolds
    <3> QED BY <2>2, <3>1 DEF LogGrows
  <2> QED BY <1>3, <2>1, <2>2
<1>5. locked' \subseteq {"offline", "multiplayer"} /\ batched' \in BOOLEAN
  BY <1>2 DEF OfflineInv, OfflineTypeOK, offlineVars
<1> QED
  BY <1>1, <1>2, <1>3, <1>4, <1>5, QuietStep DEF offlineVars

LEMMA PageReceivesTransactionInv ==
  ASSUME OfflineInv, NEW n \in broadcasts, PageReceivesTransaction(n)
  PROVE  OfflineInv'
<1>1. IndInv'
  BY NextInv DEF OfflineInv, PageReceivesTransaction, Next
<1>2. /\ stored' = Unsent(log[n].id)
      /\ UNCHANGED <<index, unapplied, locked, leaving, checkpoint, reloads, finished, batched>>
      /\ UNCHANGED <<async_transactions, issued, edited, log>>
  BY DEF PageReceivesTransaction, ReceiveTransaction, ReceivedTransaction, BecomesCore
<1>3. /\ stored' \subseteq stored
      /\ \A e \in stored : e \in stored' \/ e.transactionId = log[n].id
  BY <1>2 DEF Unsent
<1>4. n \in DOMAIN log
  BY DEF OfflineInv, IndInv, InFlightIsLogged
<1>5. OfflineTypeOK'
  <2>1. IsFiniteSet(stored')
    BY <1>3, OfflineInvTypes, FS_Subset
  <2> QED BY <1>1, <1>2, <1>3, <2>1 DEF OfflineInv, OfflineTypeOK, IndInv
<1>6. WaitingIsOwn' /\ StoredOnce'
  BY <1>2, <1>3 DEF OfflineInv, WaitingIsOwn, StoredOnce
<1>7. AsyncIsNotStored'
  BY <1>2, <1>3 DEF OfflineInv, AsyncIsNotStored
<1>8. NothingFinishedIsLost'
  <2>1. \A id \in finished : Holds(log, id) \/ \E e \in stored' : e.transactionId = id
    BY <1>3, <1>4 DEF OfflineInv, NothingFinishedIsLost, Holds
  <2> QED BY <1>2, <2>1 DEF NothingFinishedIsLost, Holds
<1> QED
  BY <1>1, <1>5, <1>6, <1>7, <1>8 DEF OfflineInv

LEMMA PageHearsInv ==
  ASSUME OfflineInv,
         \/ \E r \in replies : PageReceivesTransactions(r)
         \/ \E k \in Announced : PageReceivesCurrentTransaction(k)
         \/ PageDisconnects
         \/ ConnectionFails
  PROVE  OfflineInv'
<1>1. locked \subseteq {"offline", "multiplayer"} /\ batched \in BOOLEAN /\ IndInv
  BY DEF OfflineInv, OfflineTypeOK
<1>2. CASE \E r \in replies : PageReceivesTransactions(r)
  <2>1. PICK r \in replies : PageReceivesTransactions(r)
    BY <1>2
  <2>2. IndInv'
    BY <1>1, <2>1, NextInv DEF PageReceivesTransactions, Next
  <2>3. /\ UNCHANGED <<stored, index, unapplied, leaving, checkpoint, reloads, finished>>
        /\ UNCHANGED <<async_transactions, issued, edited, log>>
        /\ locked' \subseteq {"offline", "multiplayer"} /\ batched' \in BOOLEAN
    BY <1>1, <2>1
       DEF PageReceivesTransactions, ReceiveTransactions, ReceivedTransactions, BecomesCore
  <2> QED BY <2>2, <2>3, QuietStep DEF LogGrows, Holds
<1>3. CASE \E k \in Announced : PageReceivesCurrentTransaction(k)
  <2>1. PICK k \in Announced : PageReceivesCurrentTransaction(k)
    BY <1>3
  <2>2. IndInv'
    BY <1>1, <2>1, NextInv DEF PageReceivesCurrentTransaction, Next
  <2>3. /\ UNCHANGED <<stored, index, unapplied, leaving, checkpoint, reloads, finished>>
        /\ UNCHANGED <<async_transactions, issued, edited, log>>
        /\ locked' \subseteq {"offline", "multiplayer"} /\ batched' \in BOOLEAN
    BY <1>1, <2>1
       DEF PageReceivesCurrentTransaction, ReceiveCurrentTransaction, ReceiveSequenceNum, netVars
  <2> QED BY <2>2, <2>3, QuietStep DEF LogGrows, Holds
<1>4. CASE PageDisconnects
  <2>1. IndInv'
    BY <1>1, <1>4, NextInv DEF PageDisconnects, Next
  <2>2. /\ UNCHANGED <<stored, index, unapplied, leaving, checkpoint, reloads, finished>>
        /\ UNCHANGED <<async_transactions, issued, edited, log>>
        /\ locked' \subseteq {"offline", "multiplayer"} /\ batched' \in BOOLEAN
    BY <1>1, <1>4 DEF PageDisconnects, Disconnect, Unlock
  <2> QED BY <2>1, <2>2, QuietStep DEF LogGrows, Holds
<1>5. CASE ConnectionFails
  <2>1. UNCHANGED vars
    BY <1>5 DEF ConnectionFails
  <2>2. IndInv'
    BY <1>1, <2>1, NextInv
  <2>3. /\ UNCHANGED <<stored, index, unapplied, leaving, checkpoint, reloads, finished>>
        /\ UNCHANGED <<async_transactions, issued, edited, log>>
        /\ locked' \subseteq {"offline", "multiplayer"} /\ batched' \in BOOLEAN
    BY <1>1, <1>5 DEF ConnectionFails, Unlock, vars, clientVars, netVars
  <2> QED BY <2>2, <2>3, QuietStep DEF LogGrows, Holds
<1> QED
  BY <1>2, <1>3, <1>4, <1>5

-----------------------------------------------------------------------------
(* Reloading.                                                              *)

LEMMA ReplayType ==
  ASSUME NEW q \in Seq(SentTransaction), NEW n \in Nat, n <= Len(q)
  PROVE  Replay(q, n) \in Grid
<1> DEFINE ws == [i \in 1..n |-> q[i].writes]
<1>1. Len(q) \in Nat /\ \A i \in 1..Len(q) : q[i] \in SentTransaction
  BY LenProperties, ElementOfSeq
<1>2. \A i \in 1..n : ws[i] \in Writes
  BY <1>1 DEF SentTransaction
<1>3. DOMAIN ws = 1..n
  OBVIOUS
<1> HIDE DEF ws
<1>4. ASSUME NEW c \in Cell, Covering(ws, c) # {}
      PROVE  ws[Greatest(Covering(ws, c))][c] \in Value
  <2>1. Covering(ws, c) \in SUBSET (0..n)
    BY <1>3 DEF Covering
  <2>2. Greatest(Covering(ws, c)) \in Covering(ws, c)
    BY <1>4, <2>1, GreatestIsMember
  <2>3. PICK i \in 1..n : i = Greatest(Covering(ws, c)) /\ c \in DOMAIN ws[i]
    BY <1>3, <2>2 DEF Covering
  <2> QED BY <1>2, <2>3, WritesType
<1>5. OverlayForward(BlankGrid, ws) \in Grid
  BY <1>4, BlankGridType DEF OverlayForward, Grid
<1> QED
  BY <1>5 DEF Replay, ws

LEMMA ReloadInv == ASSUME OfflineInv, Reload PROVE OfflineInv'
<1>1. IndInv /\ log \in Seq(SentTransaction) /\ Len(log) \in Nat /\ DOMAIN log = 1..Len(log)
      /\ checkpoint \in Nat /\ reloads \in Nat
  BY OfflineInvTypes, LenProperties DEF OfflineInv, OfflineTypeOK
<1>2. /\ checkpoint' \in Nat /\ checkpoint' <= Len(log) /\ last_sequence_num' = checkpoint'
      /\ grid' = Replay(log, checkpoint')
      /\ unsaved_transactions' = <<>> /\ out_of_order_transactions' = <<>>
      /\ async_transactions' = <<>> /\ undo_stack' = <<>> /\ redo_stack' = <<>>
      /\ to_server' = <<>> /\ requests' = {} /\ broadcasts' = {} /\ replies' = {}
      /\ connected' = FALSE /\ joined' = Len(log) /\ must_reload' = FALSE
      /\ UNCHANGED <<issued, edited, log, disconnects, stored, finished, batched>>
  BY <1>1 DEF Reload
<1>3. /\ index' = 0 /\ unapplied' = TRUE /\ locked' = {"offline", "multiplayer"}
      /\ reloads' = reloads + 1
      /\ leaving' = IF connected THEN leaving \o to_server ELSE leaving
  BY DEF Reload
<1>4. Len(<<>>) = 0 /\ DOMAIN <<>> = {} /\ \A S : <<>> \in Seq(S)
  BY EmptySeq
<1>5. grid' \in Grid
  BY <1>1, <1>2, ReplayType
<1>6. IndInv'
  <2>1. ClientTypeOK'
    BY <1>1, <1>2, <1>4, <1>5 DEF IndInv, TypeOK, ClientTypeOK
  <2>2. TypeOK'
    BY <1>1, <1>2, <2>1 DEF IndInv, TypeOK
  <2>3. OwnWorkIsEdited'
    BY <1>1, <1>2, <1>4 DEF IndInv, OwnWorkIsEdited
  <2>4. InFlightIsLogged'
    BY <1>1, <1>2 DEF InFlightIsLogged
  <2>5. StashMatchesLog'
    BY <1>2, <1>4 DEF StashMatchesLog
  <2>6. UntouchedCellsFollowLog'
    BY <1>2 DEF UntouchedCellsFollowLog
  <2> QED BY <2>2, <2>3, <2>4, <2>5, <2>6 DEF IndInv
<1>7. /\ leaving' \in Seq(SentTransaction)
      /\ \A i \in DOMAIN leaving' :
           leaving'[i].id # Foreign /\ DOMAIN leaving'[i].writes \subseteq edited
  <2>1. leaving \in Seq(SentTransaction) /\ to_server \in Seq(SentTransaction)
    BY OfflineInvTypes
  <2>2. /\ \A i \in DOMAIN leaving :
             leaving[i].id # Foreign /\ DOMAIN leaving[i].writes \subseteq edited
        /\ \A i \in DOMAIN to_server :
             to_server[i].id # Foreign /\ DOMAIN to_server[i].writes \subseteq edited
    BY DEF OfflineInv, WaitingIsOwn, IndInv, OwnWorkIsEdited
  <2>3. CASE ~connected
    BY <1>3, <2>1, <2>2, <2>3
  <2>4. CASE connected
    <3> DEFINE q == leaving \o to_server
    <3>1. /\ Len(leaving) \in Nat /\ DOMAIN leaving = 1..Len(leaving)
          /\ Len(to_server) \in Nat /\ DOMAIN to_server = 1..Len(to_server)
      BY <2>1, LenProperties
    <3>2. /\ q \in Seq(SentTransaction) /\ Len(q) = Len(leaving) + Len(to_server)
          /\ \A i \in 1..(Len(leaving) + Len(to_server)) :
               q[i] = IF i <= Len(leaving) THEN leaving[i] ELSE to_server[i - Len(leaving)]
      BY <2>1, ConcatProperties
    <3>3. DOMAIN q = 1..(Len(leaving) + Len(to_server))
      BY <3>2, LenProperties
    <3>4. leaving' = q
      BY <1>3, <2>4
    <3> HIDE DEF q
    <3>5. \A i \in DOMAIN q : q[i].id # Foreign /\ DOMAIN q[i].writes \subseteq edited
      <4> TAKE i \in DOMAIN q
      <4>1. i \in 1..(Len(leaving) + Len(to_server))
        BY <3>3
      <4>2. CASE i <= Len(leaving)
        <5>1. i \in DOMAIN leaving /\ q[i] = leaving[i]
          BY <3>1, <3>2, <4>1, <4>2
        <5> QED BY <2>2, <5>1
      <4>3. CASE ~(i <= Len(leaving))
        <5>1. i - Len(leaving) \in DOMAIN to_server /\ q[i] = to_server[i - Len(leaving)]
          BY <3>1, <3>2, <4>1, <4>3
        <5> QED BY <2>2, <5>1
      <4> QED BY <4>2, <4>3
    <3> QED BY <3>2, <3>4, <3>5
  <2> QED BY <2>3, <2>4
<1>8. OfflineTypeOK'
  BY <1>1, <1>2, <1>3, <1>6, <1>7 DEF OfflineInv, OfflineTypeOK, IndInv
<1>9. WaitingIsOwn'
  BY <1>2, <1>7 DEF OfflineInv, WaitingIsOwn
<1>10. AsyncIsNotStored'
  BY <1>2, <1>4 DEF AsyncIsNotStored
<1>11. StoredOnce' /\ NothingFinishedIsLost'
  BY <1>2 DEF OfflineInv, StoredOnce, NothingFinishedIsLost, Holds
<1> QED
  BY <1>6, <1>8, <1>9, <1>10, <1>11 DEF OfflineInv

LEMMA LoadTransactionsInv == ASSUME OfflineInv, LoadTransactions PROVE OfflineInv'
<1>1. IndInv /\ Cardinality(stored) \in Nat
  BY OfflineInvTypes, FS_CardinalityType DEF OfflineInv
<1>2. PICK q \in LoadOrders : \E s \in ApplyAll(PageState, q) :
        /\ grid' = s.grid /\ undo_stack' = s.undo /\ redo_stack' = s.redo
        /\ to_server' = s.send
  BY DEF LoadTransactions
<1>3. /\ index' = Cardinality(stored) /\ unapplied' = FALSE /\ locked' = locked \ {"offline"}
      /\ UNCHANGED <<unsaved_transactions, out_of_order_transactions, last_sequence_num,
                     async_transactions, issued, requests, edited, log, broadcasts, replies,
                     connected, joined, disconnects, must_reload, stored, leaving, checkpoint,
                     reloads, finished, batched>>
  BY DEF LoadTransactions, netVars
<1>4. q \in Seq(OfflineEntry) /\ \A i \in DOMAIN q : q[i] \in stored
  <2>1. q \in [1..Cardinality(stored) -> stored]
    BY DEF LoadOrders
  <2>2. q \in [1..Cardinality(stored) -> OfflineEntry]
    BY <2>1, OfflineInvTypes
  <2> QED BY <1>1, <2>1, <2>2, IsASeq
<1>5. \A i \in DOMAIN q : q[i].transactionId # Foreign /\ DOMAIN q[i].transaction \subseteq edited
  <2>1. \A e \in stored : e.transactionId \in 1..issued /\ DOMAIN e.transaction \subseteq edited
    BY DEF OfflineInv, WaitingIsOwn
  <2> QED BY <1>4, <2>1, OfflineInvTypes DEF Foreign
<1>6. PageState \in Loading(edited)
  BY <1>1, IndInvSequences
     DEF PageState, Loading, IndInv, TypeOK, ClientTypeOK, UntouchedCellsFollowLog
<1>7. PICK s \in Loading(edited) :
        /\ grid' = s.grid /\ undo_stack' = s.undo /\ redo_stack' = s.redo
        /\ to_server' = s.send
  <2>1. ApplyAll(PageState, q) \subseteq Loading(edited)
    BY <1>4, <1>5, <1>6, ApplyAllLoading
  <2> QED BY <1>2, <2>1
<1>8. /\ grid' \in Grid /\ undo_stack' \in Stack(edited) /\ redo_stack' \in Stack(edited)
      /\ to_server' \in Sending(edited)
      /\ \A c \in Cell \ edited : grid'[c] = Replay(log, last_sequence_num)[c]
  BY <1>7 DEF Loading
<1>9. IndInv'
  <2>1. TypeOK'
    BY <1>1, <1>3, <1>8 DEF IndInv, TypeOK, ClientTypeOK, Stack, Sending
  <2>2. OwnWorkIsEdited'
    BY <1>1, <1>3, <1>8 DEF IndInv, OwnWorkIsEdited, Stack, Sending, IsOwn
  <2>3. InFlightIsLogged' /\ StashMatchesLog'
    BY <1>1, <1>3 DEF IndInv, InFlightIsLogged, StashMatchesLog
  <2>4. UntouchedCellsFollowLog'
    BY <1>3, <1>8 DEF UntouchedCellsFollowLog
  <2> QED BY <2>1, <2>2, <2>3, <2>4 DEF IndInv
<1>10. OfflineTypeOK'
  BY <1>1, <1>3, <1>9 DEF OfflineInv, OfflineTypeOK, IndInv
<1>11. WaitingIsOwn' /\ StoredOnce' /\ NothingFinishedIsLost'
  BY <1>3 DEF OfflineInv, WaitingIsOwn, StoredOnce, NothingFinishedIsLost, Holds
<1>12. AsyncIsNotStored'
  BY <1>3 DEF OfflineInv, AsyncIsNotStored
<1> QED
  BY <1>9, <1>10, <1>11, <1>12 DEF OfflineInv

LEMMA LateSequenceInv == ASSUME OfflineInv, LateSequence PROVE OfflineInv'
<1>1. /\ IndInv /\ leaving \in Seq(SentTransaction) /\ leaving # <<>>
      /\ DOMAIN leaving = 1..Len(leaving) /\ Len(leaving) \in Nat
      /\ log \in Seq(SentTransaction)
  BY OfflineInvTypes, LenProperties DEF OfflineInv, LateSequence
<1>2. /\ Commit(Head(leaving)) /\ leaving' = Tail(leaving)
      /\ UNCHANGED <<grid, unsaved_transactions, out_of_order_transactions, last_sequence_num,
                     async_transactions, undo_stack, redo_stack, issued, to_server, requests,
                     edited, replies, connected, joined, disconnects, must_reload>>
      /\ UNCHANGED <<stored, index, unapplied, locked, checkpoint, reloads, finished, batched>>
  BY DEF LateSequence, clientVars
<1>3. Len(leaving) # 0
  BY <1>1, EmptySeq
<1>4. Head(leaving) = leaving[1] /\ Head(leaving) \in SentTransaction
  BY <1>1, HeadTailProperties
<1>5. /\ Tail(leaving) \in Seq(SentTransaction)
      /\ DOMAIN Tail(leaving) = 1..(Len(leaving) - 1)
      /\ \A i \in 1..(Len(leaving) - 1) : Tail(leaving)[i] = leaving[i + 1]
  <2>1. /\ Tail(leaving) \in Seq(SentTransaction) /\ Len(Tail(leaving)) = Len(leaving) - 1
        /\ \A i \in 1..Len(Tail(leaving)) : Tail(leaving)[i] = leaving[i + 1]
    BY <1>1, HeadTailProperties
  <2> QED BY <2>1, LenProperties
<1>6. \A i \in 1..Len(leaving) :
        leaving[i].id # Foreign /\ DOMAIN leaving[i].writes \subseteq edited
  BY <1>1 DEF OfflineInv, WaitingIsOwn
<1>7. IndInv'
  <2>1. to_server' \in Sending(edited)
    BY <1>1, <1>2, IndInvSequences
  <2>2. Head(leaving).id # Foreign => DOMAIN Head(leaving).writes \subseteq edited
    BY <1>1, <1>3, <1>4, <1>6
  <2> QED BY <1>1, <1>2, <1>4, <2>1, <2>2, CommitInv
<1>8. OfflineTypeOK'
  BY <1>2, <1>5, <1>7 DEF OfflineInv, OfflineTypeOK, IndInv
<1>9. WaitingIsOwn'
  <2>1. \A i \in DOMAIN leaving' :
          leaving'[i].id # Foreign /\ DOMAIN leaving'[i].writes \subseteq edited
    BY <1>1, <1>2, <1>3, <1>5, <1>6
  <2> QED BY <1>2, <2>1 DEF OfflineInv, WaitingIsOwn
<1>10. AsyncIsNotStored' /\ StoredOnce'
  BY <1>2 DEF OfflineInv, AsyncIsNotStored, StoredOnce
<1>11. NothingFinishedIsLost'
  <2>1. \A id \in TransactionId : Holds(log, id) => Holds(log', id)
    BY <1>1, <1>2, <1>4, AppendHolds DEF Commit
  <2> QED BY <1>2, <2>1, OfflineInvTypes DEF OfflineInv, NothingFinishedIsLost
<1> QED
  BY <1>7, <1>8, <1>9, <1>10, <1>11 DEF OfflineInv

LEMMA LateLossInv == ASSUME OfflineInv, LateLoss PROVE OfflineInv'
<1>1. /\ UNCHANGED vars /\ leaving' = <<>>
      /\ UNCHANGED <<stored, index, unapplied, locked, checkpoint, reloads, finished, batched>>
  BY DEF LateLoss
<1>2. IndInv'
  BY <1>1, NextInv DEF OfflineInv
<1>3. OfflineTypeOK'
  BY <1>1, <1>2, EmptySeq DEF OfflineInv, OfflineTypeOK, IndInv
<1>4. WaitingIsOwn'
  BY <1>1, EmptySeq DEF OfflineInv, WaitingIsOwn, vars, clientVars
<1>5. AsyncIsNotStored' /\ StoredOnce' /\ NothingFinishedIsLost'
  BY <1>1 DEF OfflineInv, AsyncIsNotStored, StoredOnce, NothingFinishedIsLost, Holds, vars,
     clientVars, netVars
<1> QED
  BY <1>2, <1>3, <1>4, <1>5 DEF OfflineInv

-----------------------------------------------------------------------------

LEMMA OfflineInitInv == OfflineInit => OfflineInv
<1> SUFFICES ASSUME OfflineInit PROVE OfflineInv
  OBVIOUS
<1>1. IndInv
  BY InitInv DEF OfflineInit
<1>2. /\ stored = {} /\ index = 0 /\ unapplied = FALSE /\ locked = {} /\ leaving = <<>>
      /\ checkpoint = 0 /\ reloads = 0 /\ finished = {} /\ batched = FALSE
      /\ async_transactions = <<>>
  BY DEF OfflineInit, Init, ClientInit
<1>3. DOMAIN <<>> = {} /\ leaving \in Seq(SentTransaction)
  BY <1>2, EmptySeq
<1>4. OfflineTypeOK
  BY <1>1, <1>2, <1>3, FS_EmptySet DEF OfflineTypeOK, IndInv
<1> QED
  BY <1>1, <1>2, <1>3, <1>4
     DEF OfflineInv, WaitingIsOwn, AsyncIsNotStored, StoredOnce, NothingFinishedIsLost

LEMMA OfflineNextInv ==
  ASSUME OfflineInv, [OfflineNext]_<<vars, offlineVars>>
  PROVE  OfflineInv'
<1>1. CASE UNCHANGED <<vars, offlineVars>>
  <2>1. IndInv'
    BY <1>1, NextInv DEF OfflineInv
  <2>2. /\ UNCHANGED <<stored, index, unapplied, leaving, checkpoint, reloads, finished, locked,
                       batched>>
        /\ UNCHANGED <<async_transactions, issued, edited, log>>
    BY <1>1 DEF vars, clientVars, netVars, offlineVars
  <2>3. locked' \subseteq {"offline", "multiplayer"} /\ batched' \in BOOLEAN
    BY <2>2 DEF OfflineInv, OfflineTypeOK
  <2> QED BY <2>1, <2>2, <2>3, QuietStep DEF LogGrows, Holds
<1>2. CASE OfflineNext
  BY <1>2, UserFinishesInv, UserStartsCodeInv, RoomStepsInv, PageReceivesTransactionInv,
     PageHearsInv, ReloadInv, LoadTransactionsInv, LateSequenceInv, LateLossInv DEF OfflineNext
<1> QED
  BY <1>1, <1>2

(* The inductive invariant of the page, for all edits and bounds, however  *)
(* messages are reordered and connections and pages are lost.              *)
THEOREM OfflineInvariance == OfflineSpec => []OfflineInv
<1>1. OfflineInit => OfflineInv
  BY OfflineInitInv
<1>2. OfflineInv /\ [OfflineNext]_<<vars, offlineVars>> => OfflineInv'
  BY OfflineNextInv
<1> QED
  BY <1>1, <1>2, PTL DEF OfflineSpec

(* What the user has finished is numbered by the server or still stored:   *)
(* markTransactionSent removes nothing else, and no crash of the page or   *)
(* of the connection does.                                                 *)
THEOREM FinishedWorkIsSafe == OfflineSpec => []NothingFinishedIsLost
<1>1. OfflineInv => NothingFinishedIsLost
  BY DEF OfflineInv
<1> QED
  BY <1>1, OfflineInvariance, PTL

(* addUnsentTransaction never makes a second entry of a transaction.       *)
THEOREM EntriesAreUnique == OfflineSpec => []StoredOnce
<1>1. OfflineInv => StoredOnce
  BY DEF OfflineInv
<1> QED
  BY <1>1, OfflineInvariance, PTL

(* Across reloads, too, the cells the user has not written follow the log: *)
(* executing what was stored disturbs nothing else.                        *)
THEOREM UntouchedCellsAcrossReloads == OfflineSpec => []UntouchedCellsFollowLog
<1>1. OfflineInv => UntouchedCellsFollowLog
  BY DEF OfflineInv, IndInv
<1> QED
  BY <1>1, OfflineInvariance, PTL

-----------------------------------------------------------------------------
(* A page that nothing has disturbed, PageInv.  First the engine:          *)
(* receiving leaves every cell as the log has it, or still to be written   *)
(* by what is under way.                                                   *)

(* The cells that no transaction of q writes.                              *)
Uncovered(q, c) == \A u \in Entries(q) : c \notin DOMAIN u.forward

(* Among the transactions of L after the l-th is one that writes c and is  *)
(* not of q.                                                               *)
Coming(L, q, l, c) ==
  \E n \in (l + 1)..Len(L) : c \in DOMAIN L[n].writes /\ ~Holds(q, L[n].id)

(* What is held is of L, and its numbers are of N.                         *)
HeldFrom(L, N, q) ==
  \A i \in DOMAIN q : Numbered(L, q[i]) /\ q[i].sequence_num \in N

(* Cell c shows v, or will be written again; A are the cells that what is  *)
(* still to be sent will write.                                            *)
Settles(L, A, s, c, v) == s.grid[c] = v \/ c \in A \/ Coming(L, s.unsaved, s.last, c)

ElsewhereSettles(L, A, s) ==
  \A c \in Cell : Uncovered(s.unsaved, c) => Settles(L, A, s, c, Replay(L, s.last)[c])

UnsavedSettle(L, A, s) ==
  \A u \in Entries(s.unsaved), c \in Cell :
    c \in DOMAIN u.forward => Settles(L, A, s, c, u.forward[c])

(* The states of the engine in which every cell that no unsaved            *)
(* transaction writes is as in the log, or will be; and those in which the *)
(* others are right, too.                                                  *)
Bare(L, N, A) ==
  {s \in Core : /\ Apart(s.unsaved) /\ s.last <= Len(L) /\ HeldFrom(L, N, s.stash)
                /\ ElsewhereSettles(L, A, s)}

Settling(L, N, A) == {s \in Bare(L, N, A) : UnsavedSettle(L, A, s)}

LEMMA ComingNext ==
  ASSUME NEW L \in Seq(SentTransaction), NEW q, NEW l \in Nat, NEW c,
         Coming(L, q, l, c), c \notin DOMAIN L[l + 1].writes \/ Holds(q, L[l + 1].id)
  PROVE  Coming(L, q, l + 1, c)
<1>1. PICK n \in (l + 1)..Len(L) : c \in DOMAIN L[n].writes /\ ~Holds(q, L[n].id)
  BY DEF Coming
<1>2. n \in (l + 1 + 1)..Len(L)
  BY <1>1, LenProperties
<1> QED
  BY <1>1, <1>2 DEF Coming

LEMMA HoldsEntry ==
  ASSUME NEW q, NEW id
  PROVE  Holds(q, id) <=> \E u \in Entries(q) : u.id = id
BY DEF Holds, Entries

LEMMA ComingFewer ==
  ASSUME NEW L, NEW q, NEW p, NEW l, NEW c, Coming(L, q, l, c), Entries(p) \subseteq Entries(q)
  PROVE  Coming(L, p, l, c)
<1>1. PICK n \in (l + 1)..Len(L) : c \in DOMAIN L[n].writes /\ ~Holds(q, L[n].id)
  BY DEF Coming
<1>2. ~Holds(p, L[n].id)
  BY <1>1, HoldsEntry
<1> QED
  BY <1>1, <1>2 DEF Coming

(* Changing parts of a state of the engine.                                *)
LEMMA CoreParts ==
  ASSUME NEW s \in Core
  PROVE  /\ s.grid \in Grid /\ s.unsaved \in Seq(UnsavedTransaction)
         /\ s.stash \in Seq(StashedTransaction) /\ s.last \in Nat
BY DEF Core

LEMMA BareParts ==
  ASSUME NEW L, NEW N, NEW A, NEW s \in Bare(L, N, A)
  PROVE  /\ s \in Core /\ s.grid \in Grid /\ s.unsaved \in Seq(UnsavedTransaction)
         /\ s.stash \in Seq(StashedTransaction) /\ s.last \in Nat
         /\ Apart(s.unsaved) /\ s.last <= Len(L) /\ HeldFrom(L, N, s.stash)
         /\ ElsewhereSettles(L, A, s)
BY CoreParts DEF Bare

LEMMA RollbackBare ==
  ASSUME NEW L, NEW N, NEW A, NEW s \in Bare(L, N, A)
  PROVE  LET r == Rollback(s)
         IN  r \in Bare(L, N, A) /\ r.unsaved = s.unsaved /\ r.stash = s.stash /\ r.last = s.last
<1> DEFINE r == Rollback(s)
<1>1. /\ r \in Core /\ r.unsaved = s.unsaved /\ r.stash = s.stash /\ r.last = s.last
      /\ r.grid = OverlayBackward(s.grid, Reverses(s.unsaved))
  BY BareParts, RollbackType
<1> HIDE DEF r
<1>2. \A c \in Cell : Uncovered(s.unsaved, c) => r.grid[c] = s.grid[c]
  BY <1>1, BareParts, RollbackElsewhere DEF Uncovered
<1>3. ElsewhereSettles(L, A, r)
  BY <1>1, <1>2, BareParts DEF ElsewhereSettles, Settles
<1> QED
  BY <1>1, <1>3, BareParts DEF Bare, r

LEMMA ReapplyBare ==
  ASSUME NEW L, NEW N, NEW A, NEW s \in Bare(L, N, A)
  PROVE  LET r == Reapply(s)
         IN  r \in Settling(L, N, A) /\ r.unsaved = s.unsaved /\ r.last = s.last
<1> DEFINE r == Reapply(s)
<1>1. /\ r \in Core /\ r.unsaved = s.unsaved /\ r.stash = s.stash /\ r.last = s.last
      /\ Shows(r.grid, s.grid, s.unsaved)
  BY BareParts, ReapplyShows
<1> HIDE DEF r
<1>2. ElsewhereSettles(L, A, r)
  BY <1>1, BareParts DEF ElsewhereSettles, Settles, Shows, Uncovered
<1>3. UnsavedSettle(L, A, r)
  BY <1>1 DEF UnsavedSettle, Settles, Shows
<1> QED
  BY <1>1, <1>2, <1>3, BareParts DEF Bare, Settling, r

(* Executing the next transaction of the log and counting it.              *)
LEMMA NextBare ==
  ASSUME NEW L \in Seq(SentTransaction), NEW N, NEW A, NEW s \in Bare(L, N, A),
         NEW n \in 1..Len(L), n = s.last + 1
  PROVE  [s EXCEPT !.grid = Overlay(s.grid, L[n].writes), !.last = n] \in Bare(L, N, A)
<1> DEFINE w == L[n].writes
           g == Overlay(s.grid, w)
           r == [s EXCEPT !.grid = g, !.last = n]
<1>1. n \in Nat /\ n <= Len(L) /\ w \in Writes
  <2>1. L[n] \in SentTransaction
    BY ElementOfSeq
  <2> QED BY <2>1, LenProperties DEF SentTransaction
<1>2. g \in Grid
  BY <1>1, BareParts, OverlayType
<1>3. \A c \in Cell : /\ g[c] = IF c \in DOMAIN w THEN w[c] ELSE s.grid[c]
                      /\ Replay(L, n)[c] = IF c \in DOMAIN w THEN w[c] ELSE Replay(L, s.last)[c]
  <2> TAKE c \in Cell
  <2>1. Replay(L, n)[c] = Overlay(Replay(L, s.last), w)[c]
    BY BareParts, ReplayStep
  <2> HIDE DEF w
  <2> QED BY <2>1 DEF Overlay
<1> HIDE DEF g
<1>4. /\ r \in Core /\ r.grid = g /\ r.unsaved = s.unsaved /\ r.stash = s.stash /\ r.last = n
  <2>1. s \in Core
    BY BareParts
  <2> QED BY <1>1, <1>2, <2>1 DEF Core
<1> HIDE DEF r
<1>5. ElsewhereSettles(L, A, r)
  <2> SUFFICES ASSUME NEW c \in Cell, Uncovered(s.unsaved, c)
               PROVE  Settles(L, A, r, c, Replay(L, n)[c])
    BY <1>4 DEF ElsewhereSettles
  <2>1. CASE c \in DOMAIN w
    BY <1>3, <1>4, <2>1 DEF Settles
  <2>2. CASE c \notin DOMAIN w
    <3>1. Settles(L, A, s, c, Replay(L, s.last)[c])
      BY BareParts DEF ElsewhereSettles
    <3>2. Coming(L, s.unsaved, s.last, c) => Coming(L, s.unsaved, n, c)
      BY <2>2, BareParts, ComingNext
    <3> QED BY <1>3, <1>4, <2>2, <3>1, <3>2 DEF Settles
  <2> QED BY <2>1, <2>2
<1> QED
  BY <1>1, <1>4, <1>5, BareParts DEF Bare, r, g

LEMMA HeldAppend ==
  ASSUME NEW L, NEW N, NEW q \in Seq(StashedTransaction), HeldFrom(L, N, q),
         NEW t \in StashedTransaction, Numbered(L, t), t.sequence_num \in N
  PROVE  Append(q, t) \in Seq(StashedTransaction) /\ HeldFrom(L, N, Append(q, t))
<1>1. /\ Append(q, t) \in Seq(StashedTransaction)
      /\ \A i \in DOMAIN Append(q, t) :
           Append(q, t)[i] = t \/ (i \in DOMAIN q /\ Append(q, t)[i] = q[i])
  BY AppendProperties, LenProperties
<1> QED
  BY <1>1 DEF HeldFrom

LEMMA DrainStepBare ==
  ASSUME NEW L \in Seq(SentTransaction), NEW N, NEW A, NEW s \in Bare(L, N, A),
         NEW t \in StashedTransaction, Numbered(L, t), t.sequence_num \in N
  PROVE  DrainStep(s, t) \in Bare(L, N, A) /\ DrainStep(s, t).unsaved = s.unsaved
<1>1. CASE t.sequence_num = s.last + 1
  <2>1. t.sequence_num \in 1..Len(L) /\ L[t.sequence_num].writes = t.writes
    BY DEF Numbered
  <2> DEFINE next == [s EXCEPT !.grid = Overlay(s.grid, L[t.sequence_num].writes),
                               !.last = t.sequence_num]
  <2>2. DrainStep(s, t) = next
    BY <1>1, <2>1 DEF DrainStep
  <2>3. next \in Bare(L, N, A)
    BY <1>1, <2>1, NextBare
  <2>4. next.unsaved = s.unsaved
    <3>1. s \in Core
      BY BareParts
    <3> QED BY <3>1 DEF Core
  <2> HIDE DEF next
  <2> QED BY <2>2, <2>3, <2>4
<1>2. CASE t.sequence_num # s.last + 1
  <2> DEFINE q == Append(s.stash, t)
             r == [s EXCEPT !.stash = q]
  <2>1. q \in Seq(StashedTransaction) /\ HeldFrom(L, N, q)
    BY BareParts, HeldAppend
  <2>2. DrainStep(s, t) = r
    BY <1>2 DEF DrainStep
  <2> HIDE DEF q
  <2>3. r \in Core /\ r.grid = s.grid /\ r.unsaved = s.unsaved /\ r.stash = q /\ r.last = s.last
    <3>1. s \in Core
      BY BareParts
    <3> QED BY <2>1, <3>1 DEF Core
  <2> HIDE DEF r
  <2>4. ElsewhereSettles(L, A, r)
    BY <2>3, BareParts DEF ElsewhereSettles, Settles
  <2> QED BY <2>1, <2>2, <2>3, <2>4, BareParts DEF Bare
<1> QED
  BY <1>1, <1>2

(* Draining, once the last number is advanced to seq.                      *)
LEMMA ApplyOutOfOrderBare ==
  ASSUME NEW L \in Seq(SentTransaction), NEW N, NEW A, NEW s \in Core, NEW seq \in Nat,
         [s EXCEPT !.last = seq] \in Bare(L, N, A)
  PROVE  LET r == ApplyOutOfOrder(s, seq)
         IN  r \in Bare(L, N, A) /\ r.unsaved = s.unsaved
<1> DEFINE d == [s EXCEPT !.last = seq, !.stash = <<>>]
           y == [s EXCEPT !.last = seq]
           S == {x \in Bare(L, N, A) : x.unsaved = s.unsaved}
<1>1. <<>> \in Seq(StashedTransaction) /\ DOMAIN <<>> = {}
  BY EmptySeq
<1>2. /\ y.grid = s.grid /\ y.unsaved = s.unsaved /\ y.stash = s.stash /\ y.last = seq
      /\ d \in Core /\ d.grid = s.grid /\ d.unsaved = s.unsaved /\ d.stash = <<>> /\ d.last = seq
  BY <1>1 DEF Core
<1>3. ApplyOutOfOrder(s, seq) = Drain(d, s.stash)
  BY DEF ApplyOutOfOrder
<1> HIDE DEF d, y
<1>4. y \in Bare(L, N, A)
  BY DEF y
<1>5. ElsewhereSettles(L, A, d)
  BY <1>2, <1>4, BareParts DEF ElsewhereSettles, Settles
<1>6. HeldFrom(L, N, d.stash)
  BY <1>1, <1>2 DEF HeldFrom
<1>7. d \in S
  BY <1>2, <1>4, <1>5, <1>6, BareParts DEF Bare
<1>8. /\ s.stash \in Seq(StashedTransaction) /\ HeldFrom(L, N, s.stash)
      /\ DOMAIN s.stash = 1..Len(s.stash)
      /\ \A i \in 1..Len(s.stash) : s.stash[i] \in StashedTransaction
  BY <1>2, <1>4, BareParts, LenProperties, ElementOfSeq
<1>9. \A i \in 1..Len(s.stash), x \in S : DrainStep(x, s.stash[i]) \in S
  BY <1>8, DrainStepBare DEF HeldFrom
<1>10. Drain(d, s.stash) \in S
  <2> HIDE DEF S
  <2> QED BY <1>7, <1>8, <1>9, DrainWithin
<1> QED
  BY <1>3, <1>10

(* What is held has been reached already.                                  *)
LEMMA DrainStale ==
  ASSUME NEW L \in Seq(SentTransaction), NEW N, NEW A, NEW s \in Core, NEW seq \in Nat,
         [s EXCEPT !.last = seq] \in Settling(L, N, A),
         \A i \in DOMAIN s.stash : s.stash[i].sequence_num <= seq
  PROVE  LET r == ApplyOutOfOrder(s, seq)
         IN  r \in Settling(L, N, A) /\ r.unsaved = s.unsaved
<1> DEFINE d == [s EXCEPT !.last = seq, !.stash = <<>>]
           y == [s EXCEPT !.last = seq]
           S == {x \in Core : /\ x.grid = s.grid /\ x.unsaved = s.unsaved /\ x.last = seq
                              /\ HeldFrom(L, N, x.stash)}
<1>1. <<>> \in Seq(StashedTransaction) /\ DOMAIN <<>> = {}
  BY EmptySeq
<1>2. /\ y.grid = s.grid /\ y.unsaved = s.unsaved /\ y.stash = s.stash /\ y.last = seq
      /\ d \in Core /\ d.grid = s.grid /\ d.unsaved = s.unsaved /\ d.stash = <<>> /\ d.last = seq
  BY <1>1 DEF Core
<1>3. ApplyOutOfOrder(s, seq) = Drain(d, s.stash)
  BY DEF ApplyOutOfOrder
<1> HIDE DEF d, y
<1>4. y \in Bare(L, N, A) /\ UnsavedSettle(L, A, y)
  BY DEF y, Settling
<1>5. d \in S
  BY <1>1, <1>2 DEF HeldFrom
<1>6. /\ s.stash \in Seq(StashedTransaction) /\ HeldFrom(L, N, s.stash)
      /\ DOMAIN s.stash = 1..Len(s.stash)
      /\ \A i \in 1..Len(s.stash) : s.stash[i] \in StashedTransaction
  BY <1>2, <1>4, BareParts, LenProperties, ElementOfSeq
<1>7. \A i \in 1..Len(s.stash), x \in S : DrainStep(x, s.stash[i]) \in S
  <2> TAKE i \in 1..Len(s.stash), x \in S
  <2> DEFINE q == Append(x.stash, s.stash[i])
             r == [x EXCEPT !.stash = q]
  <2>1. s.stash[i].sequence_num \in Nat /\ s.stash[i].sequence_num <= seq /\ x.last = seq
    BY <1>6 DEF StashedTransaction
  <2>2. DrainStep(x, s.stash[i]) = r
    <3>1. s.stash[i].sequence_num # x.last + 1
      BY <2>1
    <3> QED BY <3>1 DEF DrainStep
  <2>3. x \in Core /\ x.stash \in Seq(StashedTransaction) /\ HeldFrom(L, N, x.stash)
    BY CoreParts
  <2>4. /\ s.stash[i] \in StashedTransaction /\ Numbered(L, s.stash[i])
        /\ s.stash[i].sequence_num \in N
    BY <1>6 DEF HeldFrom
  <2>5. q \in Seq(StashedTransaction) /\ HeldFrom(L, N, q)
    BY <2>3, <2>4, HeldAppend
  <2> HIDE DEF q
  <2>6. r \in Core /\ r.grid = x.grid /\ r.unsaved = x.unsaved /\ r.stash = q /\ r.last = x.last
    BY <2>3, <2>5 DEF Core
  <2> HIDE DEF r
  <2> QED BY <2>2, <2>5, <2>6
<1>8. Drain(d, s.stash) \in S
  <2> HIDE DEF S
  <2> QED BY <1>5, <1>6, <1>7, DrainWithin
<1> DEFINE r == Drain(d, s.stash)
<1>9. /\ r \in Core /\ r.grid = y.grid /\ r.unsaved = y.unsaved /\ r.last = y.last
      /\ HeldFrom(L, N, r.stash)
  BY <1>2, <1>8
<1> HIDE DEF r
<1>10. ElsewhereSettles(L, A, r)
  BY <1>4, <1>9, BareParts DEF ElsewhereSettles, Settles
<1>11. UnsavedSettle(L, A, r)
  BY <1>4, <1>9 DEF UnsavedSettle, Settles
<1> QED
  BY <1>2, <1>3, <1>4, <1>9, <1>10, <1>11, BareParts DEF Bare, Settling, r

(* Executing w, and all that follows.                                      *)
LEMMA ExecutedBare ==
  ASSUME NEW L \in Seq(SentTransaction), NEW N, NEW A, NEW x \in Core, NEW seq \in Nat,
         NEW w \in Writes, [Applied(x, w) EXCEPT !.last = seq] \in Bare(L, N, A)
  PROVE  LET r == Reapply(ApplyOutOfOrder(Applied(x, w), seq))
         IN  r \in Settling(L, N, A) /\ r.unsaved = x.unsaved
<1> DEFINE y == Applied(x, w)
           z == ApplyOutOfOrder(y, seq)
<1>1. Overlay(x.grid, w) \in Grid
  BY CoreParts, OverlayType
<1>2. y \in Core /\ y.unsaved = x.unsaved
  BY <1>1 DEF Applied, Core
<1>3. [y EXCEPT !.last = seq] \in Bare(L, N, A)
  OBVIOUS
<1> HIDE DEF y
<1>4. z \in Bare(L, N, A) /\ z.unsaved = y.unsaved
  BY <1>2, <1>3, ApplyOutOfOrderBare
<1> HIDE DEF z
<1>5. Reapply(z) \in Settling(L, N, A) /\ Reapply(z).unsaved = z.unsaved
  BY <1>4, ReapplyBare
<1> QED
  BY <1>2, <1>4, <1>5 DEF y, z

(* The transaction is not among the unsaved ones.                          *)
LEMMA ForeignBare ==
  ASSUME NEW L \in Seq(SentTransaction), NEW N, NEW A, NEW s \in Bare(L, N, A),
         NEW seq \in 1..Len(L), seq = s.last + 1, ~Holds(s.unsaved, L[seq].id)
  PROVE  LET r == ClientApply(s, L[seq].id, seq, L[seq].writes)
         IN  r \in Settling(L, N, A) /\ r.unsaved = s.unsaved
<1> DEFINE x == Rollback(s)
           w == L[seq].writes
           r == ClientApply(s, L[seq].id, seq, w)
           y == [Applied(x, w) EXCEPT !.last = seq]
<1>1. seq \in Nat /\ w \in Writes
  <2>1. L[seq] \in SentTransaction
    BY ElementOfSeq
  <2> QED BY <2>1, LenProperties DEF SentTransaction
<1>2. r = Reapply(ApplyOutOfOrder(Applied(x, w), seq))
  BY DEF ClientApply, ApplyNext, ApplyForeign
<1>3. x \in Bare(L, N, A) /\ x.unsaved = s.unsaved /\ x.last = s.last
  BY RollbackBare
<1> HIDE DEF x, r
<1>4. [x EXCEPT !.grid = Overlay(x.grid, w), !.last = seq] \in Bare(L, N, A)
  BY <1>3, NextBare
<1>5. x \in Core
  BY <1>3, BareParts
<1>6. y = [x EXCEPT !.grid = Overlay(x.grid, w), !.last = seq]
  BY <1>5 DEF Applied, Core
<1>7. y \in Bare(L, N, A)
  BY <1>4, <1>6
<1> HIDE DEF w
<1>8. LET z == Reapply(ApplyOutOfOrder(Applied(x, w), seq))
      IN  z \in Settling(L, N, A) /\ z.unsaved = x.unsaved
  BY <1>1, <1>5, <1>7, ExecutedBare
<1> QED
  BY <1>2, <1>3, <1>8 DEF r, w

(* It is kept for later.                                                   *)
LEMMA StashedBare ==
  ASSUME NEW L \in Seq(SentTransaction), NEW N, NEW A, NEW s \in Bare(L, N, A),
         NEW seq \in 1..Len(L), seq \in N
  PROVE  LET r == Stashed(s, L[seq].id, seq, L[seq].writes)
         IN  /\ r \in Bare(L, N, A) /\ r.unsaved = s.unsaved
             /\ s \in Settling(L, N, A) => r \in Settling(L, N, A)
<1> DEFINE e == [id |-> L[seq].id, sequence_num |-> seq, writes |-> L[seq].writes]
           q == WithEntryAt(s.stash, StashIndex(s.stash, seq), e)
           r == [s EXCEPT !.stash = q]
<1>1. L[seq] \in SentTransaction
  BY ElementOfSeq
<1>2. e \in StashedTransaction /\ Numbered(L, e) /\ e.sequence_num \in N /\ seq \in Nat
  BY <1>1, LenProperties DEF StashedTransaction, SentTransaction, Numbered
<1>3. s \in Core /\ s.stash \in Seq(StashedTransaction) /\ HeldFrom(L, N, s.stash)
  BY BareParts
<1>4. Stashed(s, L[seq].id, seq, L[seq].writes) = r
  BY DEF Stashed
<1> HIDE DEF e
<1>5. StashIndex(s.stash, seq) \in 1..(Len(s.stash) + 1)
  BY <1>2, <1>3, StashIndexType
<1>6. /\ q \in Seq(StashedTransaction)
      /\ \A i \in DOMAIN q : q[i] = e \/ \E k \in DOMAIN s.stash : q[i] = s.stash[k]
  BY <1>2, <1>3, <1>5, WithEntryAtType
<1> HIDE DEF q
<1>7. HeldFrom(L, N, q)
  BY <1>2, <1>3, <1>6 DEF HeldFrom
<1>8. r \in Core /\ r.grid = s.grid /\ r.unsaved = s.unsaved /\ r.stash = q /\ r.last = s.last
  BY <1>3, <1>6 DEF Core
<1> HIDE DEF r
<1>9. ElsewhereSettles(L, A, r)
  BY <1>8, BareParts DEF ElsewhereSettles, Settles
<1>10. UnsavedSettle(L, A, s) => UnsavedSettle(L, A, r)
  BY <1>8 DEF UnsavedSettle, Settles
<1>11. r \in Bare(L, N, A)
  BY <1>7, <1>8, <1>9, BareParts DEF Bare
<1> QED
  BY <1>4, <1>8, <1>10, <1>11 DEF Settling

(* It is one of the unsaved transactions, u.                               *)
LEMMA OwnSettles ==
  ASSUME NEW L \in Seq(SentTransaction), NEW N, NEW A, NEW s \in Settling(L, N, A),
         NEW seq \in 1..Len(L), seq = s.last + 1, NEW u \in Entries(s.unsaved),
         u.id = L[seq].id, u.forward = L[seq].writes,
         \A i \in DOMAIN s.stash : s.stash[i].sequence_num <= seq
  PROVE  LET r == ClientApply(s, L[seq].id, seq, L[seq].writes)
         IN  r \in Settling(L, N, A) /\ Entries(r.unsaved) \subseteq Entries(s.unsaved)
<1> DEFINE id == L[seq].id
           w == L[seq].writes
           r == ClientApply(s, id, seq, w)
           k == IndexOf(s.unsaved, id)
           q == WithoutIndex(s.unsaved, k)
<1>1. /\ s \in Core /\ s.grid \in Grid /\ s.unsaved \in Seq(UnsavedTransaction)
      /\ s.last \in Nat /\ Apart(s.unsaved) /\ HeldFrom(L, N, s.stash)
      /\ s \in Bare(L, N, A) /\ UnsavedSettle(L, A, s)
      /\ s.stash \in Seq(StashedTransaction)
  BY BareParts DEF Settling
<1>2. seq \in Nat /\ seq <= Len(L) /\ w \in Writes
  <2>1. L[seq] \in SentTransaction
    BY ElementOfSeq
  <2> QED BY <2>1, LenProperties DEF SentTransaction
<1>3. Holds(s.unsaved, id)
  BY DEF Holds, Entries
<1>4. k \in DOMAIN s.unsaved /\ s.unsaved[k].id = id
  BY <1>1, <1>3, IndexOfType, LenProperties
<1>5. /\ q \in Seq(UnsavedTransaction) /\ Apart(q)
      /\ Entries(q) = {v \in Entries(s.unsaved) : v.id # id}
  BY <1>1, <1>4, ApartWithoutIndex
<1> HIDE DEF k, q
<1>6. \A v \in Entries(s.unsaved) : v.id = id => v = u
  BY <1>1 DEF Apart, Distinct, Entries
<1>7. \A c \in Cell : Uncovered(q, c) /\ c \notin DOMAIN w => Uncovered(s.unsaved, c)
  BY <1>5, <1>6 DEF Uncovered
<1>8. \A c \in Cell : Replay(L, seq)[c] = IF c \in DOMAIN w THEN w[c] ELSE Replay(L, s.last)[c]
  <2> TAKE c \in Cell
  <2>1. Replay(L, seq)[c] = Overlay(Replay(L, s.last), w)[c]
    BY <1>1, ReplayStep
  <2> HIDE DEF w
  <2> QED BY <2>1 DEF Overlay
<1>9. \A c \in Cell : Coming(L, s.unsaved, s.last, c) => Coming(L, q, seq, c)
  <2> TAKE c \in Cell
  <2> HAVE Coming(L, s.unsaved, s.last, c)
  <2>1. Holds(s.unsaved, L[s.last + 1].id)
    BY <1>3
  <2>2. Coming(L, s.unsaved, s.last + 1, c)
    BY <1>1, <2>1, ComingNext
  <2>3. Entries(q) \subseteq Entries(s.unsaved)
    BY <1>5
  <2> QED BY <2>2, <2>3, ComingFewer
<1>10. CASE k = 1
  <2> DEFINE x == [s EXCEPT !.unsaved = q]
             y == [x EXCEPT !.last = seq]
  <2>1. r = ApplyOutOfOrder(x, seq)
    BY <1>3, <1>10 DEF ClientApply, ApplyNext, ApplyOldestOwn, WithoutUnsaved, k, q
  <2>2. x \in Core /\ x.unsaved = q /\ x.stash = s.stash
    BY <1>1, <1>5 DEF Core
  <2>3. y \in Core /\ y.grid = s.grid /\ y.unsaved = q /\ y.stash = s.stash /\ y.last = seq
    BY <1>1, <1>2, <1>5 DEF Core
  <2> HIDE DEF y
  <2>4. ElsewhereSettles(L, A, y)
    <3> SUFFICES ASSUME NEW c \in Cell, Uncovered(q, c)
                 PROVE  Settles(L, A, y, c, Replay(L, seq)[c])
      BY <2>3 DEF ElsewhereSettles
    <3>1. CASE c \in DOMAIN w
      <4>1. Settles(L, A, s, c, w[c])
        BY <1>1, <3>1 DEF UnsavedSettle
      <4> QED BY <1>8, <1>9, <2>3, <3>1, <4>1 DEF Settles
    <3>2. CASE c \notin DOMAIN w
      <4>1. Settles(L, A, s, c, Replay(L, s.last)[c])
        BY <1>1, <1>7, <3>2, BareParts DEF ElsewhereSettles
      <4> QED BY <1>8, <1>9, <2>3, <3>2, <4>1 DEF Settles
    <3> QED BY <3>1, <3>2
  <2>5. UnsavedSettle(L, A, y)
    BY <1>1, <1>5, <1>9, <2>3 DEF UnsavedSettle, Settles
  <2>6. y \in Settling(L, N, A)
    BY <1>1, <1>2, <1>5, <2>3, <2>4, <2>5 DEF Bare, Settling
  <2>7. [x EXCEPT !.last = seq] \in Settling(L, N, A)
    BY <2>6 DEF y
  <2> HIDE DEF x
  <2>8. /\ ApplyOutOfOrder(x, seq) \in Settling(L, N, A)
        /\ ApplyOutOfOrder(x, seq).unsaved = x.unsaved
    BY <1>2, <2>2, <2>7, DrainStale
  <2> QED BY <1>5, <2>1, <2>2, <2>8
<1>11. CASE k # 1
  <2> DEFINE b == Rollback(s)
             x == [b EXCEPT !.unsaved = q]
             g == Overlay(b.grid, w)
             y == [x EXCEPT !.grid = g, !.last = seq]
  <2>1. b \in Bare(L, N, A) /\ b.unsaved = s.unsaved /\ b.stash = s.stash /\ b.last = s.last
    BY <1>1, RollbackBare
  <2>2. r = Reapply(ApplyOutOfOrder(Applied(x, w), seq))
    BY <1>3, <1>11, <2>1 DEF ClientApply, ApplyNext, ApplyNewerOwn, WithoutUnsaved, k, q
  <2> HIDE DEF b
  <2>3. b \in Core /\ b.grid \in Grid /\ ElsewhereSettles(L, A, b)
    BY <2>1, BareParts
  <2>4. x \in Core /\ x.grid = b.grid /\ x.unsaved = q /\ x.stash = s.stash /\ x.last = s.last
    BY <1>1, <1>5, <2>1, <2>3 DEF Core
  <2> HIDE DEF x
  <2>5. /\ g \in Grid
        /\ \A c \in Cell : g[c] = IF c \in DOMAIN w THEN w[c] ELSE b.grid[c]
    <3>1. g \in Grid
      BY <1>2, <2>3, OverlayType
    <3> HIDE DEF w
    <3> QED BY <3>1 DEF Overlay
  <2>6. Applied(x, w) = [x EXCEPT !.grid = g]
    BY <2>4 DEF Applied
  <2> HIDE DEF g
  <2>7. y \in Core /\ y.grid = g /\ y.unsaved = q /\ y.stash = s.stash /\ y.last = seq
    BY <1>2, <2>4, <2>5 DEF Core
  <2>8. [Applied(x, w) EXCEPT !.last = seq] = y
    BY <2>4, <2>6 DEF Core
  <2> HIDE DEF y
  <2>9. ElsewhereSettles(L, A, y)
    <3> SUFFICES ASSUME NEW c \in Cell, Uncovered(q, c)
                 PROVE  Settles(L, A, y, c, Replay(L, seq)[c])
      BY <2>7 DEF ElsewhereSettles
    <3>1. CASE c \in DOMAIN w
      BY <1>8, <2>5, <2>7, <3>1 DEF Settles
    <3>2. CASE c \notin DOMAIN w
      <4>1. Settles(L, A, b, c, Replay(L, s.last)[c])
        BY <1>7, <2>1, <2>3, <3>2 DEF ElsewhereSettles
      <4>2. b.grid[c] = Replay(L, s.last)[c] \/ c \in A \/ Coming(L, s.unsaved, s.last, c)
        BY <2>1, <4>1 DEF Settles
      <4> QED BY <1>8, <1>9, <2>5, <2>7, <3>2, <4>2 DEF Settles
    <3> QED BY <3>1, <3>2
  <2>10. y \in Bare(L, N, A)
    BY <1>1, <1>2, <1>5, <2>7, <2>9 DEF Bare
  <2>11. [Applied(x, w) EXCEPT !.last = seq] \in Bare(L, N, A)
    BY <2>8, <2>10
  <2> HIDE DEF w, r
  <2>12. LET z == Reapply(ApplyOutOfOrder(Applied(x, w), seq))
         IN  z \in Settling(L, N, A) /\ z.unsaved = x.unsaved
    BY <1>2, <2>4, <2>11, ExecutedBare
  <2> QED BY <1>5, <2>2, <2>4, <2>12 DEF r, w
<1> QED
  BY <1>10, <1>11

(* A transaction that comes by itself, in the order of the numbers.        *)
LEMMA PageApplies ==
  ASSUME NEW L \in Seq(SentTransaction), NEW N, NEW A, NEW s \in Settling(L, N, A),
         NEW seq \in 1..Len(L), seq \in N,
         \A u \in Entries(s.unsaved) : u.id = L[seq].id => u.forward = L[seq].writes,
         \A i \in DOMAIN s.stash : s.stash[i].sequence_num <= seq
  PROVE  LET r == ClientApply(s, L[seq].id, seq, L[seq].writes)
         IN  r \in Settling(L, N, A) /\ Entries(r.unsaved) \subseteq Entries(s.unsaved)
<1> DEFINE r == ClientApply(s, L[seq].id, seq, L[seq].writes)
<1>1. s \in Bare(L, N, A) /\ s.last \in Nat /\ seq \in Nat
  BY BareParts, LenProperties DEF Settling
<1>2. CASE seq = s.last + 1 /\ ~Holds(s.unsaved, L[seq].id)
  BY <1>1, <1>2, ForeignBare
<1>3. CASE seq = s.last + 1 /\ Holds(s.unsaved, L[seq].id)
  <2>1. PICK u \in Entries(s.unsaved) : u.id = L[seq].id
    BY <1>3, HoldsEntry
  <2> HIDE DEF r
  <2> QED BY <1>3, <2>1, OwnSettles DEF r
<1>4. CASE seq # s.last + 1 /\ seq > s.last
  <2>1. r = Stashed(s, L[seq].id, seq, L[seq].writes)
    BY <1>4 DEF ClientApply
  <2> QED BY <1>1, <2>1, StashedBare
<1>5. CASE ~(seq > s.last)
  <2>1. r = s
    BY <1>1, <1>5 DEF ClientApply
  <2> QED BY <2>1
<1> QED
  BY <1>2, <1>3, <1>4, <1>5

(* One that is not of this page.                                           *)
LEMMA OthersBare ==
  ASSUME NEW L \in Seq(SentTransaction), NEW N, NEW A, NEW s \in Bare(L, N, A),
         NEW seq \in 1..Len(L), seq \in N, ~Holds(s.unsaved, L[seq].id)
  PROVE  LET r == ClientApply(s, L[seq].id, seq, L[seq].writes)
         IN  r \in Bare(L, N, A) /\ r.unsaved = s.unsaved
<1>1. s.last \in Nat /\ seq \in Nat
  BY BareParts, LenProperties
<1>2. CASE seq = s.last + 1
  <2>1. LET r == ClientApply(s, L[seq].id, seq, L[seq].writes)
        IN  r \in Settling(L, N, A) /\ r.unsaved = s.unsaved
    BY <1>2, ForeignBare
  <2> QED BY <2>1 DEF Settling
<1>3. CASE seq # s.last + 1 /\ seq > s.last
  <2>1. ClientApply(s, L[seq].id, seq, L[seq].writes)
          = Stashed(s, L[seq].id, seq, L[seq].writes)
    BY <1>3 DEF ClientApply
  <2> QED BY <1>1, <1>3, <2>1, StashedBare
<1>4. CASE ~(seq > s.last)
  <2>1. ClientApply(s, L[seq].id, seq, L[seq].writes) = s
    BY <1>1, <1>4 DEF ClientApply
  <2> QED BY <2>1
<1> QED
  BY <1>2, <1>3, <1>4

(* A part of the log that holds nothing of q.                              *)
PartWithout(L, N, q, batch, from) ==
  \A i \in 1..Len(batch) :
    /\ from + i - 1 \in 1..Len(L) /\ batch[i] = L[from + i - 1] /\ from + i - 1 \in N
    /\ ~Holds(q, batch[i].id)

(* A batch that brings back none of the unsaved transactions.              *)
LEMMA PageAppliesBatch ==
  ASSUME NEW L \in Seq(SentTransaction), NEW N, NEW A, NEW s \in Settling(L, N, A),
         NEW batch \in Seq(SentTransaction), NEW from \in Nat,
         PartWithout(L, N, s.unsaved, batch, from)
  PROVE  LET r == ApplyBatch(s, batch, from)
         IN  r \in Settling(L, N, A) /\ r.unsaved = s.unsaved
<1> DEFINE S == {x \in Bare(L, N, A) : x.unsaved = s.unsaved}
<1>1. Rollback(s) \in S
  BY RollbackBare DEF Settling
<1>2. ASSUME NEW i \in 1..Len(batch), NEW x \in S
      PROVE  ClientApply(x, batch[i].id, from + i - 1, batch[i].writes) \in S
  <2>1. PICK n \in 1..Len(L) :
          n = from + i - 1 /\ batch[i] = L[n] /\ n \in N /\ ~Holds(s.unsaved, L[n].id)
    BY DEF PartWithout
  <2>2. x \in Bare(L, N, A) /\ x.unsaved = s.unsaved /\ ~Holds(x.unsaved, L[n].id)
    BY <2>1
  <2>3. /\ ClientApply(x, L[n].id, n, L[n].writes) \in Bare(L, N, A)
        /\ ClientApply(x, L[n].id, n, L[n].writes).unsaved = x.unsaved
    BY <2>1, <2>2, OthersBare
  <2> QED BY <2>1, <2>2, <2>3
<1>3. PICK x \in S : ApplyBatch(s, batch, from) = Reapply(x)
  <2> HIDE DEF S
  <2> QED BY <1>1, <1>2, BatchWithin
<1>4. x \in Bare(L, N, A) /\ x.unsaved = s.unsaved
  OBVIOUS
<1>5. Reapply(x) \in Settling(L, N, A) /\ Reapply(x).unsaved = x.unsaved
  BY <1>4, ReapplyBare
<1> QED
  BY <1>3, <1>4, <1>5

-----------------------------------------------------------------------------
(* What PageInv says in these terms.                                       *)

(* PageInv, said of sets of transactions rather than of sequences.         *)
Agree(C, n, as, q) ==
  \A t \in C : /\ t.id <= n
               /\ \A a \in Entries(as) : a.id # t.id
               /\ \A u \in Entries(q) : u.id = t.id => u.forward = t.writes

Through(q, n) == Apart(q) /\ \A u \in Entries(q) : u.id <= n

(* A transaction that is still to be sent, and not of q, writes c.         *)
Sends(S, q, c) == \E t \in Entries(S) : c \in DOMAIN t.writes /\ ~Holds(q, t.id)

Expected(L, l, q, S, c) == Coming(L, q, l, c) \/ Sends(S, q, c)

Shown(g, L, l, q, S) ==
  \A c \in Cell :
    g[c] = OverlayForward(Replay(L, l), Forwards(q))[c] \/ Expected(L, l, q, S, c)

Calm ==
  /\ Agree(Copies, issued, async_transactions, unsaved_transactions)
  /\ Through(unsaved_transactions, issued)
  /\ Entries(async_transactions) \subseteq Entries(unsaved_transactions)
  /\ HeldCameFirst
  /\ Shown(grid, log, last_sequence_num, unsaved_transactions, to_server)

LEMMA AgreeMeans ==
  ASSUME NEW C, NEW n, NEW as, NEW q
  PROVE  Agree(C, n, as, q) <=>
           \A t \in C :
             /\ t.id <= n
             /\ \A i \in DOMAIN as : as[i].id # t.id
             /\ \A j \in DOMAIN q : q[j].id = t.id => q[j].forward = t.writes
<1> DEFINE F == \A t \in C :
                  /\ t.id <= n
                  /\ \A i \in DOMAIN as : as[i].id # t.id
                  /\ \A j \in DOMAIN q : q[j].id = t.id => q[j].forward = t.writes
<1>1. /\ \A i \in DOMAIN as : as[i] \in Entries(as)
      /\ \A j \in DOMAIN q : q[j] \in Entries(q)
  BY DEF Entries
<1>2. Agree(C, n, as, q) => F
  BY <1>1 DEF Agree
<1>3. ASSUME F PROVE Agree(C, n, as, q)
  <2> SUFFICES ASSUME NEW t \in C
               PROVE  /\ t.id <= n
                      /\ \A a \in Entries(as) : a.id # t.id
                      /\ \A u \in Entries(q) : u.id = t.id => u.forward = t.writes
    BY DEF Agree
  <2>1. t.id <= n
    BY <1>3
  <2>2. \A a \in Entries(as) : a.id # t.id
    BY <1>3 DEF Entries
  <2>3. ASSUME NEW u \in Entries(q), u.id = t.id PROVE u.forward = t.writes
    <3>1. PICK j \in DOMAIN q : u = q[j]
      BY DEF Entries
    <3> QED BY <1>3, <2>3, <3>1
  <2> QED BY <2>1, <2>2, <2>3
<1> QED
  BY <1>2, <1>3

LEMMA ThroughMeans ==
  ASSUME NEW q, NEW n
  PROVE  Through(q, n) <=>
           \A i, j \in DOMAIN q :
             LET u == q[i]
                 v == q[j]
             IN  /\ u.id <= n /\ DOMAIN u.reverse = DOMAIN u.forward
                 /\ i # j => u.id # v.id /\ DOMAIN u.forward \cap DOMAIN v.forward = {}
<1> DEFINE F == \A i, j \in DOMAIN q :
                  /\ q[i].id <= n /\ DOMAIN q[i].reverse = DOMAIN q[i].forward
                  /\ i # j => q[i].id # q[j].id
                              /\ DOMAIN q[i].forward \cap DOMAIN q[j].forward = {}
<1>1. ASSUME Through(q, n) PROVE F
  <2> SUFFICES ASSUME NEW i \in DOMAIN q, NEW j \in DOMAIN q
               PROVE  /\ q[i].id <= n /\ DOMAIN q[i].reverse = DOMAIN q[i].forward
                      /\ i # j => q[i].id # q[j].id
                                  /\ DOMAIN q[i].forward \cap DOMAIN q[j].forward = {}
    OBVIOUS
  <2>1. q[i] \in Entries(q) /\ q[j] \in Entries(q)
    BY DEF Entries
  <2> QED BY <1>1, <2>1 DEF Through, Apart, Distinct, Disjoint
<1>2. ASSUME F PROVE Through(q, n)
  BY <1>2 DEF Through, Apart, Distinct, Disjoint, Entries
<1> QED
  BY <1>1, <1>2

LEMMA ExpectedMeans ==
  ASSUME NEW L, NEW l, NEW q, NEW S, NEW c
  PROVE  Expected(L, l, q, S, c) <=>
           \/ \E n \in (l + 1)..Len(L) : c \in DOMAIN L[n].writes /\ ~Holds(q, L[n].id)
           \/ \E i \in DOMAIN S : c \in DOMAIN S[i].writes /\ ~Holds(q, S[i].id)
BY DEF Expected, Coming, Sends, Entries

LEMMA AsyncMeans ==
  ASSUME NEW p, NEW q
  PROVE  Entries(p) \subseteq Entries(q) <=> \A i \in DOMAIN p : \E j \in DOMAIN q : q[j] = p[i]
BY DEF Entries

LEMMA CalmMeans ==
  (PageInv <=> (Undisturbed => Calm)) /\ (PageInv' <=> (Undisturbed' => Calm'))
<1> DEFINE v == unsaved_transactions
           a == async_transactions
<1>1. CopiesAgree <=> Agree(Copies, issued, a, v)
  BY AgreeMeans DEF CopiesAgree
<1>2. CopiesAgree' <=> Agree(Copies', issued', a', v')
  BY AgreeMeans DEF CopiesAgree
<1>3. UnsavedAreApart <=> Through(v, issued)
  BY ThroughMeans DEF UnsavedAreApart
<1>4. UnsavedAreApart' <=> Through(v', issued')
  BY ThroughMeans DEF UnsavedAreApart
<1>5. AsyncIsUnsaved <=> Entries(a) \subseteq Entries(v)
  BY AsyncMeans DEF AsyncIsUnsaved
<1>6. AsyncIsUnsaved' <=> Entries(a') \subseteq Entries(v')
  BY AsyncMeans DEF AsyncIsUnsaved
<1>7. \A c \in Cell : Awaited(c) <=> Expected(log, last_sequence_num, v, to_server, c)
  BY ExpectedMeans DEF Awaited
<1>8. \A c \in Cell : Awaited(c)' <=> Expected(log', last_sequence_num', v', to_server', c)
  BY ExpectedMeans DEF Awaited
<1>9. ShownOrAwaited <=> (Undisturbed => Shown(grid, log, last_sequence_num, v, to_server))
  BY <1>7 DEF ShownOrAwaited, Shown
<1>10. ShownOrAwaited' <=>
         (Undisturbed' => Shown(grid', log', last_sequence_num', v', to_server'))
  BY <1>8 DEF ShownOrAwaited, Shown
<1>11. PageInv <=> (Undisturbed => Calm)
  BY <1>1, <1>3, <1>5, <1>9 DEF PageInv, Calm
<1>12. PageInv' <=> (Undisturbed' => Calm')
  BY <1>2, <1>4, <1>6, <1>10 DEF PageInv, Calm
<1> QED
  BY <1>11, <1>12

(* What is shown, cell by cell.                                            *)
LEMMA ShownMeans ==
  ASSUME NEW q \in Seq(UnsavedTransaction), Apart(q), NEW g, NEW L, NEW l, NEW S
  PROVE  Shown(g, L, l, q, S) <=>
           /\ \A c \in Cell : Uncovered(q, c) =>
                g[c] = Replay(L, l)[c] \/ Expected(L, l, q, S, c)
           /\ \A u \in Entries(q), c \in Cell : c \in DOMAIN u.forward =>
                g[c] = u.forward[c] \/ Expected(L, l, q, S, c)
<1> DEFINE f == OverlayForward(Replay(L, l), Forwards(q))
<1>1. Shows(f, Replay(L, l), q)
  BY OverlayApart
<1> HIDE DEF f
<1>2. /\ \A c \in Cell : Uncovered(q, c) => f[c] = Replay(L, l)[c]
      /\ \A u \in Entries(q), c \in Cell : c \in DOMAIN u.forward => f[c] = u.forward[c]
  BY <1>1 DEF Shows, Uncovered
<1>3. Shown(g, L, l, q, S) <=> \A c \in Cell : g[c] = f[c] \/ Expected(L, l, q, S, c)
  BY DEF Shown, f
<1>4. \A c \in Cell : Uncovered(q, c) \/ \E u \in Entries(q) : c \in DOMAIN u.forward
  BY DEF Uncovered
<1> QED
  BY <1>2, <1>3, <1>4

(* The same as the engine sees it.                                         *)
SentCells(S, q) == {c \in Cell : Sends(S, q, c)}

LEMMA SettlingShown ==
  ASSUME NEW s \in Core, Apart(s.unsaved), NEW L, NEW S
  PROVE  (ElsewhereSettles(L, SentCells(S, s.unsaved), s)
          /\ UnsavedSettle(L, SentCells(S, s.unsaved), s))
           <=> Shown(s.grid, L, s.last, s.unsaved, S)
<1>1. s.unsaved \in Seq(UnsavedTransaction)
  BY CoreParts
<1>2. \A c \in Cell : \A v : Settles(L, SentCells(S, s.unsaved), s, c, v) <=>
                           s.grid[c] = v \/ Expected(L, s.last, s.unsaved, S, c)
  BY DEF Settles, SentCells, Expected
<1>3. ElsewhereSettles(L, SentCells(S, s.unsaved), s) <=>
        \A c \in Cell : Uncovered(s.unsaved, c) =>
          s.grid[c] = Replay(L, s.last)[c] \/ Expected(L, s.last, s.unsaved, S, c)
  BY <1>2 DEF ElsewhereSettles
<1>4. UnsavedSettle(L, SentCells(S, s.unsaved), s) <=>
        \A u \in Entries(s.unsaved), c \in Cell : c \in DOMAIN u.forward =>
          s.grid[c] = u.forward[c] \/ Expected(L, s.last, s.unsaved, S, c)
  BY <1>2 DEF UnsavedSettle
<1> QED
  BY <1>1, <1>3, <1>4, ShownMeans

-----------------------------------------------------------------------------
(* What each step does to it.                                              *)

StoredCopies(S) == {[id |-> e.transactionId, writes |-> e.transaction] : e \in S}

LEMMA CopiesParts ==
  /\ Copies = Entries(log) \cup Entries(to_server) \cup Entries(leaving) \cup StoredCopies(stored)
  /\ Copies' = Entries(log') \cup Entries(to_server') \cup Entries(leaving')
               \cup StoredCopies(stored')
BY DEF Copies, Entries, StoredCopies

LEMMA ApartAppend ==
  ASSUME NEW q \in Seq(UnsavedTransaction), NEW t \in UnsavedTransaction, Apart(q),
         DOMAIN t.reverse = DOMAIN t.forward,
         \A u \in Entries(q) : u.id # t.id /\ DOMAIN u.forward \cap DOMAIN t.forward = {}
  PROVE  /\ Append(q, t) \in Seq(UnsavedTransaction) /\ Apart(Append(q, t))
         /\ Entries(Append(q, t)) = Entries(q) \cup {t}
<1>1. t.id \notin Ids(q)
  BY DEF Ids, Entries
<1>2. /\ Entries(Append(q, t)) = Entries(q) \cup {t} /\ Distinct(Append(q, t))
  BY <1>1, IdsAppend DEF Apart
<1>3. Disjoint(Append(q, t))
  BY <1>2 DEF Apart, Disjoint
<1> QED
  BY <1>2, <1>3, AppendProperties DEF Apart

LEMMA ExpectedGrows ==
  ASSUME NEW L \in Seq(SentTransaction), NEW l \in Nat, NEW q, NEW p, NEW S, NEW T, NEW c,
         Entries(S) \subseteq Entries(T),
         \A t \in Entries(L) \cup Entries(S) : Holds(p, t.id) => Holds(q, t.id),
         Expected(L, l, q, S, c)
  PROVE  Expected(L, l, p, T, c)
<1>1. CASE Coming(L, q, l, c)
  <2>1. PICK n \in (l + 1)..Len(L) : c \in DOMAIN L[n].writes /\ ~Holds(q, L[n].id)
    BY <1>1 DEF Coming
  <2>2. L[n] \in Entries(L)
    BY LenProperties DEF Entries
  <2>3. ~Holds(p, L[n].id)
    BY <2>1, <2>2
  <2> QED BY <2>1, <2>3 DEF Coming, Expected
<1>2. CASE Sends(S, q, c)
  BY <1>2 DEF Sends, Expected
<1> QED
  BY <1>1, <1>2 DEF Expected

(* A transaction with a new id, whether it is sent now or its code has to  *)
(* run before.                                                             *)
LEMMA ExecutedCalm ==
  ASSUME OfflineInv, Calm, NEW w \in Writes, Untouched(w), NEW t \in Executions(w),
         grid' = Overlay(grid, w),
         unsaved_transactions' = InsertOrReplace(unsaved_transactions, t),
         issued' = issued + 1,
         UNCHANGED <<log, last_sequence_num, out_of_order_transactions, broadcasts>>,
         Entries(to_server) \subseteq Entries(to_server'),
         \/ /\ Entries(async_transactions') \subseteq Entries(async_transactions) \cup {t}
            /\ Copies' \subseteq Copies
         \/ /\ Entries(async_transactions') \subseteq Entries(async_transactions)
            /\ Copies' \subseteq Copies \cup {[id |-> t.id, writes |-> t.forward]}
  PROVE  Calm'
<1> DEFINE q == unsaved_transactions
           p == unsaved_transactions'
           l == last_sequence_num
           s == [id |-> t.id, writes |-> t.forward]
<1>1. PICK D \in Recorded(grid, w) :
           /\ t = Made(w, D) /\ t \in UnsavedTransaction /\ t.id = issued + 1
           /\ D \subseteq DOMAIN w /\ t.reverse \in Writes
           /\ DOMAIN t.forward = D /\ \A c \in D : t.forward[c] = w[c]
           /\ DOMAIN t.reverse = D /\ \A c \in D : t.reverse[c] = grid[c]
           /\ \A c \in Cell : Overlay(grid, w)[c] = IF c \in D THEN w[c] ELSE grid[c]
  BY MadeType DEF OfflineInv
<1>2. /\ q \in Seq(UnsavedTransaction) /\ log \in Seq(SentTransaction) /\ l \in Nat
      /\ issued \in Nat /\ Apart(q) /\ to_server \in Seq(SentTransaction)
  BY OfflineInvTypes DEF OfflineInv, IndInv, TypeOK, ClientTypeOK, Calm, Through
<1>3. /\ \A u \in Entries(q) : u.id \in Nat /\ u.id <= issued
  <2>1. \A u \in Entries(q) : u \in UnsavedTransaction
    BY <1>2, EntriesType
  <2> QED BY <2>1 DEF UnsavedTransaction, TransactionId, Calm, Through
<1>4. \A u \in Entries(q) : u.id # t.id /\ DOMAIN u.forward \cap DOMAIN t.forward = {}
  BY <1>1, <1>2, <1>3 DEF Untouched
<1>5. p = Append(q, t)
  BY <1>4 DEF InsertOrReplace, Holds, Entries
<1>6. p \in Seq(UnsavedTransaction) /\ Apart(p) /\ Entries(p) = Entries(q) \cup {t}
  <2>1. q \in Seq(UnsavedTransaction) /\ t \in UnsavedTransaction /\ Apart(q)
        /\ DOMAIN t.reverse = DOMAIN t.forward
    BY <1>1, <1>2
  <2> HIDE DEF q
  <2>2. /\ Append(q, t) \in Seq(UnsavedTransaction) /\ Apart(Append(q, t))
        /\ Entries(Append(q, t)) = Entries(q) \cup {t}
    BY <1>4, <2>1, ApartAppend
  <2> QED BY <1>5, <2>2
<1>7. Through(p, issued')
  BY <1>1, <1>2, <1>3, <1>6 DEF Through
<1>8. \A c \in Copies : /\ c.id <= issued /\ \A a \in Entries(async_transactions) : a.id # c.id
                        /\ \A u \in Entries(q) : u.id = c.id => u.forward = c.writes
  BY DEF Calm, Agree
<1>9. \A c \in Entries(log) \cup Entries(to_server) : c \in Copies /\ c.id \in Nat
  <2>1. \A c \in Entries(log) \cup Entries(to_server) : c \in SentTransaction
    BY <1>2, EntriesType
  <2> QED BY <2>1, CopiesParts DEF SentTransaction, TransactionId
<1>10. \A c \in Copies : c.id \in Nat
  <2>1. \A c \in Entries(leaving) : c \in SentTransaction
    BY OfflineInvTypes, EntriesType
  <2>2. \A e \in stored : e.transactionId \in Nat
    BY OfflineInvTypes DEF OfflineEntry, TransactionId
  <2>3. \A c \in StoredCopies(stored) : c.id \in Nat
    BY <2>2 DEF StoredCopies
  <2> QED BY <1>9, <2>1, <2>3, CopiesParts DEF SentTransaction, TransactionId
<1>11. \A c \in Copies : c.id # t.id /\ c.id <= issued'
  BY <1>1, <1>2, <1>8, <1>10
<1>12. Entries(async_transactions) \subseteq Entries(q)
  BY DEF Calm
<1> HIDE DEF q, p
<1>13. Agree(Copies', issued', async_transactions', p)
  <2>1. ASSUME NEW c \in Copies, NEW a \in Entries(async_transactions') PROVE a.id # c.id
    BY <1>8, <1>11
  <2>2. ASSUME NEW c \in Copies, NEW u \in Entries(p), u.id = c.id PROVE u.forward = c.writes
    BY <1>6, <1>8, <1>11, <2>2
  <2>3. s.id = t.id /\ s.writes = t.forward
    OBVIOUS
  <2> HIDE DEF s
  <2>4. s.id <= issued'
    BY <1>1, <1>2, <2>3
  <2>5. ASSUME NEW a \in Entries(async_transactions) PROVE a.id # s.id
    BY <1>4, <1>12, <2>3
  <2>6. ASSUME NEW u \in Entries(p), u.id = s.id PROVE u.forward = s.writes
    BY <1>4, <1>6, <2>3, <2>6
  <2>7. CASE Copies' \subseteq Copies
    BY <1>11, <2>1, <2>2, <2>7 DEF Agree
  <2>8. CASE /\ Entries(async_transactions') \subseteq Entries(async_transactions)
             /\ Copies' \subseteq Copies \cup {s}
    BY <1>11, <2>1, <2>2, <2>4, <2>5, <2>6, <2>8 DEF Agree
  <2> QED BY <2>7, <2>8 DEF s
<1>14. Entries(async_transactions') \subseteq Entries(p)
  BY <1>6, <1>12
<1>15. HeldCameFirst'
  BY DEF Calm, HeldCameFirst
<1>16. \A c : Expected(log, l, q, to_server, c) => Expected(log, l, p, to_server', c)
  <2>1. \A c \in Entries(log) \cup Entries(to_server) : Holds(p, c.id) => Holds(q, c.id)
    BY <1>6, <1>9, <1>11, HoldsEntry
  <2> QED BY <1>2, <2>1, ExpectedGrows
<1>17. /\ \A c \in Cell : Uncovered(q, c) =>
            grid[c] = Replay(log, l)[c] \/ Expected(log, l, q, to_server, c)
       /\ \A u \in Entries(q), c \in Cell : c \in DOMAIN u.forward =>
            grid[c] = u.forward[c] \/ Expected(log, l, q, to_server, c)
  <2>1. Shown(grid, log, l, q, to_server)
    BY DEF Calm, q
  <2>2. q \in Seq(UnsavedTransaction) /\ Apart(q)
    BY <1>2
  <2> QED BY <2>1, <2>2, ShownMeans
<1> HIDE DEF l
<1>18. \A c \in Cell : Uncovered(p, c) =>
         grid'[c] = Replay(log, l)[c] \/ Expected(log, l, p, to_server', c)
  <2> SUFFICES ASSUME NEW c \in Cell, Uncovered(p, c)
               PROVE  grid'[c] = Replay(log, l)[c] \/ Expected(log, l, p, to_server', c)
    OBVIOUS
  <2>1. Uncovered(q, c) /\ c \notin D
    BY <1>1, <1>6 DEF Uncovered
  <2>2. grid'[c] = grid[c]
    BY <1>1, <2>1
  <2> QED BY <1>16, <1>17, <2>1, <2>2
<1>19. \A u \in Entries(p), c \in Cell : c \in DOMAIN u.forward =>
         grid'[c] = u.forward[c] \/ Expected(log, l, p, to_server', c)
  <2> SUFFICES ASSUME NEW u \in Entries(p), NEW c \in Cell, c \in DOMAIN u.forward
               PROVE  grid'[c] = u.forward[c] \/ Expected(log, l, p, to_server', c)
    OBVIOUS
  <2>1. CASE u = t
    BY <1>1, <2>1
  <2>2. CASE u \in Entries(q)
    <3>1. c \notin D
      BY <1>1, <1>4, <2>2
    <3>2. grid'[c] = grid[c]
      BY <1>1, <3>1
    <3> QED BY <1>16, <1>17, <2>2, <3>2
  <2> QED BY <1>6, <2>1, <2>2
<1>20. Shown(grid', log, l, p, to_server')
  BY <1>6, <1>18, <1>19, ShownMeans
<1> QED
  BY <1>7, <1>13, <1>14, <1>15, <1>20 DEF Calm, p, l

(* A transaction whose code has run, and which is sent now.                *)
LEMMA CompletedCalm ==
  ASSUME OfflineInv, Calm, NEW k \in DOMAIN async_transactions, NEW r \in Writes, Untouched(r),
         DOMAIN r \cap DOMAIN async_transactions[k].forward = {},
         NEW t \in Completions(async_transactions[k], r), grid' = Overlay(grid, r),
         unsaved_transactions' = InsertOrReplace(unsaved_transactions, t),
         async_transactions' = WithoutIndex(async_transactions, k),
         UNCHANGED <<issued, log, last_sequence_num, out_of_order_transactions, broadcasts>>,
         Entries(to_server) \subseteq Entries(to_server'),
         Copies' \subseteq Copies \cup {[id |-> t.id, writes |-> t.forward]}
  PROVE  Calm'
<1> DEFINE q == unsaved_transactions
           p == unsaved_transactions'
           l == last_sequence_num
           a == async_transactions[k]
           s == [id |-> t.id, writes |-> t.forward]
<1>1. /\ q \in Seq(UnsavedTransaction) /\ log \in Seq(SentTransaction) /\ l \in Nat
      /\ issued \in Nat /\ Apart(q) /\ async_transactions \in Seq(UnsavedTransaction)
      /\ Distinct(async_transactions) /\ \A u \in Entries(q) : u.id <= issued
  BY OfflineInvTypes
     DEF OfflineInv, IndInv, TypeOK, ClientTypeOK, Calm, Through, AsyncIsNotStored, Distinct
<1>2. /\ a \in Entries(async_transactions) /\ Entries(async_transactions) \subseteq Entries(q)
      /\ Untouched(r) /\ DOMAIN r \cap DOMAIN a.forward = {}
  BY DEF Calm, Entries
<1>3. DOMAIN a.reverse = DOMAIN a.forward
  BY <1>1, <1>2 DEF Apart
<1>4. PICK D \in Recorded(grid, r) :
           /\ t \in UnsavedTransaction /\ t.id = a.id /\ t.reverse \in Writes
           /\ D \subseteq DOMAIN r /\ D \cap DOMAIN a.forward = {}
           /\ DOMAIN t.forward = DOMAIN a.forward \cup D
           /\ DOMAIN t.reverse = DOMAIN a.forward \cup D
           /\ \A c \in DOMAIN a.forward :
                t.forward[c] = a.forward[c] /\ t.reverse[c] = a.reverse[c]
           /\ \A c \in D : t.forward[c] = r[c] /\ t.reverse[c] = grid[c]
           /\ t.forward = Merge(a.forward, ForwardOf(r, D)) /\ ForwardOf(r, D) \in Writes
           /\ \A c \in Cell : Overlay(grid, r)[c] = IF c \in D THEN r[c] ELSE grid[c]
  BY <1>3, CompletedType DEF OfflineInv
<1>5. PICK j \in DOMAIN q : q[j] = a
  BY <1>2 DEF Entries
<1>6. /\ Ids(async_transactions') \subseteq Ids(async_transactions) \ {a.id}
      /\ Entries(async_transactions') \subseteq Entries(async_transactions)
  BY <1>1, IdsWithoutIndex
<1>7. \A u \in Entries(q) : u.id = a.id => u = a
  BY <1>1, <1>5 DEF Apart, Distinct, Entries
<1> HIDE DEF a
<1>8. Entries(p) = {u \in Entries(q) : u.id # t.id} \cup {t} /\ Distinct(p)
  <2>1. q[j].id = t.id /\ q \in Seq(UnsavedTransaction) /\ Distinct(q)
    BY <1>1, <1>4, <1>5 DEF Apart
  <2> HIDE DEF q
  <2>2. LET n == InsertOrReplace(q, t)
        IN  /\ n = [q EXCEPT ![j] = t]
            /\ Entries(n) = {u \in Entries(q) : u.id # t.id} \cup {t}
            /\ Ids(n) = Ids(q) /\ Distinct(n)
    BY <2>1, ReplacedEntry
  <2> QED BY <2>2 DEF q
<1>9. p \in Seq(UnsavedTransaction)
  BY <1>1, <1>4, InsertOrReplaceType
<1>10. \A u \in Entries(q) : DOMAIN r \cap DOMAIN u.forward = {}
  BY <1>2 DEF Untouched
<1>11. Apart(p)
  <2>1. \A u \in Entries(q) : u.id # t.id => DOMAIN u.forward \cap DOMAIN t.forward = {}
    BY <1>1, <1>2, <1>4, <1>10 DEF Apart, Disjoint
  <2>2. Disjoint(p)
    BY <1>1, <1>8, <2>1 DEF Disjoint, Apart
  <2> QED BY <1>1, <1>4, <1>8, <2>2 DEF Apart
<1>12. Through(p, issued')
  BY <1>1, <1>2, <1>4, <1>8, <1>11 DEF Through
<1>13. \A c \in Copies : /\ c.id <= issued /\ \A b \in Entries(async_transactions) : b.id # c.id
                         /\ \A u \in Entries(q) : u.id = c.id => u.forward = c.writes
  BY DEF Calm, Agree
<1>14. \A c \in Copies : c.id # t.id
  BY <1>2, <1>4, <1>13
<1> HIDE DEF p, q
<1>15. Agree(Copies', issued', async_transactions', p)
  <2>1. ASSUME NEW c \in Copies
        PROVE  /\ c.id <= issued' /\ \A b \in Entries(async_transactions') : b.id # c.id
               /\ \A u \in Entries(p) : u.id = c.id => u.forward = c.writes
    BY <1>6, <1>8, <1>13, <1>14
  <2>2. s.id = t.id /\ s.writes = t.forward
    OBVIOUS
  <2> HIDE DEF s
  <2>3. s.id <= issued'
    BY <1>1, <1>2, <1>4, <2>2 DEF q
  <2>4. ASSUME NEW b \in Entries(async_transactions') PROVE b.id # s.id
    <3>1. b.id \in Ids(async_transactions')
      BY DEF Ids, Entries
    <3> QED BY <1>4, <1>6, <2>2, <3>1
  <2>5. ASSUME NEW u \in Entries(p), u.id = s.id PROVE u.forward = s.writes
    BY <1>8, <2>2, <2>5
  <2>6. Copies' \subseteq Copies \cup {s}
    BY DEF s
  <2> QED BY <2>1, <2>3, <2>4, <2>5, <2>6 DEF Agree
<1>16. Entries(async_transactions') \subseteq Entries(p)
  <2> SUFFICES ASSUME NEW b \in Entries(async_transactions') PROVE b \in Entries(p)
    OBVIOUS
  <2>1. b.id \in Ids(async_transactions')
    BY DEF Ids, Entries
  <2> QED BY <1>2, <1>4, <1>6, <1>8, <2>1
<1>17. HeldCameFirst'
  BY DEF Calm, HeldCameFirst
<1>18. \A c : Expected(log, l, q, to_server, c) => Expected(log, l, p, to_server', c)
  <2>1. \A b \in Entries(log) \cup Entries(to_server) : b \in Copies
    BY CopiesParts
  <2>2. \A b \in Entries(log) \cup Entries(to_server) : Holds(p, b.id) => Holds(q, b.id)
    BY <1>8, <1>14, <2>1, HoldsEntry
  <2> QED BY <1>1, <2>2, ExpectedGrows
<1>19. /\ \A c \in Cell : Uncovered(q, c) =>
            grid[c] = Replay(log, l)[c] \/ Expected(log, l, q, to_server, c)
       /\ \A u \in Entries(q), c \in Cell : c \in DOMAIN u.forward =>
            grid[c] = u.forward[c] \/ Expected(log, l, q, to_server, c)
  <2>1. Shown(grid, log, l, q, to_server)
    BY DEF Calm, q
  <2>2. q \in Seq(UnsavedTransaction) /\ Apart(q)
    BY <1>1 DEF q
  <2> QED BY <2>1, <2>2, ShownMeans
<1> HIDE DEF l
<1>20. \A c \in Cell : Uncovered(p, c) =>
         grid'[c] = Replay(log, l)[c] \/ Expected(log, l, p, to_server', c)
  <2> SUFFICES ASSUME NEW c \in Cell, Uncovered(p, c)
               PROVE  grid'[c] = Replay(log, l)[c] \/ Expected(log, l, p, to_server', c)
    OBVIOUS
  <2>1. c \notin D /\ c \notin DOMAIN a.forward
    BY <1>4, <1>8 DEF Uncovered
  <2>2. Uncovered(q, c)
    BY <1>4, <1>7, <1>8, <2>1 DEF Uncovered, q
  <2>3. grid'[c] = grid[c]
    BY <1>4, <2>1
  <2> QED BY <1>18, <1>19, <2>2, <2>3
<1>21. \A u \in Entries(p), c \in Cell : c \in DOMAIN u.forward =>
         grid'[c] = u.forward[c] \/ Expected(log, l, p, to_server', c)
  <2> SUFFICES ASSUME NEW u \in Entries(p), NEW c \in Cell, c \in DOMAIN u.forward
               PROVE  grid'[c] = u.forward[c] \/ Expected(log, l, p, to_server', c)
    OBVIOUS
  <2>1. CASE c \in D /\ u = t
    BY <1>4, <2>1
  <2>2. CASE c \in DOMAIN a.forward /\ u = t
    <3>1. grid[c] = a.forward[c] \/ Expected(log, l, q, to_server, c)
      BY <1>2, <1>19, <2>2 DEF q
    <3>2. grid'[c] = grid[c] /\ t.forward[c] = a.forward[c]
      BY <1>4, <2>2
    <3> QED BY <1>18, <2>2, <3>1, <3>2
  <2>3. CASE u \in Entries(q)
    <3>1. c \notin D
      BY <1>4, <1>10, <2>3 DEF q
    <3>2. grid'[c] = grid[c]
      BY <1>4, <3>1
    <3> QED BY <1>18, <1>19, <2>3, <3>2
  <2> QED BY <1>4, <1>8, <2>1, <2>2, <2>3
<1>22. Shown(grid', log, l, p, to_server')
  BY <1>9, <1>11, <1>20, <1>21, ShownMeans
<1> QED
  BY <1>12, <1>15, <1>16, <1>17, <1>22 DEF Calm, p, l

LEMMA MayWriteApart ==
  ASSUME ~LocalConflicts, NEW w, MayWrite(w)
  PROVE  Untouched(w)
BY DEF MayWrite, Untouched, Entries

(* A transaction that is stored and sent adds one copy.                    *)
LEMMA FinishCopies ==
  ASSUME OfflineInv, NEW x \in SentTransaction, to_server' = Append(to_server, x), log' = log,
         AddUnsentTransaction(to_server'[Len(to_server')])
  PROVE  Copies' \subseteq Copies \cup {x} /\ Entries(to_server) \subseteq Entries(to_server')
<1>1. to_server \in Seq(SentTransaction)
  BY OfflineInvTypes
<1>2. to_server'[Len(to_server')] = x
  <2>1. /\ Len(Append(to_server, x)) = Len(to_server) + 1
        /\ Append(to_server, x)[Len(to_server) + 1] = x
    BY <1>1, AppendProperties
  <2> QED BY <2>1
<1>3. Entries(to_server') = Entries(to_server) \cup {x}
  BY <1>1, IdsAppend
<1> DEFINE e == [transactionId |-> x.id, transaction |-> x.writes, index |-> index]
<1>4. stored' = stored \cup {e} /\ leaving' = leaving
  BY <1>2 DEF AddUnsentTransaction
<1>5. [id |-> e.transactionId, writes |-> e.transaction] = x
  BY DEF SentTransaction
<1> HIDE DEF e
<1>6. StoredCopies(stored') \subseteq StoredCopies(stored) \cup {x}
  BY <1>4, <1>5 DEF StoredCopies
<1> QED
  BY <1>3, <1>4, <1>6, CopiesParts

(* Edit, UndoLast and RedoLast.                                            *)
LEMMA FreshFinishCalm ==
  ASSUME OfflineInv, Calm, NEW w \in Writes, Untouched(w), NEW t \in Executions(w),
         KeepAndSend(t), AddUnsentTransaction(to_server'[Len(to_server')]),
         grid' = Overlay(grid, w), issued' = issued + 1,
         UNCHANGED <<log, last_sequence_num, out_of_order_transactions, broadcasts,
                     async_transactions>>
  PROVE  Calm'
<1> DEFINE x == [id |-> t.id, writes |-> t.forward]
<1>1. x \in SentTransaction
  BY ExecutionsType DEF OfflineInv
<1>2. /\ to_server' = Append(to_server, x)
      /\ unsaved_transactions' = InsertOrReplace(unsaved_transactions, t)
  BY DEF KeepAndSend
<1> HIDE DEF x
<1>3. Copies' \subseteq Copies \cup {x} /\ Entries(to_server) \subseteq Entries(to_server')
  BY <1>1, <1>2, FinishCopies
<1>4. /\ Entries(async_transactions') \subseteq Entries(async_transactions)
      /\ Copies' \subseteq Copies \cup {[id |-> t.id, writes |-> t.forward]}
  BY <1>3 DEF x
<1> QED
  BY <1>2, <1>3, <1>4, ExecutedCalm

LEMMA UserFinishesCalm ==
  ASSUME ~LocalConflicts, OfflineInv, Calm, UserFinishes
  PROVE  Calm'
<1>1. /\ IndInv /\ AddUnsentTransaction(to_server'[Len(to_server')])
      /\ (Edit \/ CodeCompletes \/ UndoLast \/ RedoLast)
  BY DEF OfflineInv, UserFinishes
<1>2. CASE Edit
  <2>1. PICK w \in UserEdits : MayWrite(w) /\ UserTransaction(w)
    BY <1>2 DEF Edit
  <2>2. PICK t \in Executions(w) : KeepAndSend(t)
    BY <2>1 DEF UserTransaction
  <2>3. /\ w \in Writes /\ grid' = Overlay(grid, w) /\ issued' = issued + 1
        /\ UNCHANGED <<log, last_sequence_num, out_of_order_transactions, broadcasts,
                       async_transactions>>
    BY <1>2, <2>1, EditsAreWrites DEF Edit, UserTransaction, netVars
  <2>4. Untouched(w)
    BY <2>1, MayWriteApart
  <2> QED BY <1>1, <2>2, <2>3, <2>4, FreshFinishCalm
<1>3. CASE UndoLast
  <2> DEFINE w == Top(undo_stack)
  <2>1. PICK t \in Executions(w) : KeepAndSend(t)
    BY <1>3 DEF UndoLast, Undo
  <2>2. w \in Writes
    BY <1>1, <1>3, IndInvSequences, StackTopPop DEF UndoLast
  <2>3. /\ grid' = Overlay(grid, w) /\ issued' = issued + 1
        /\ UNCHANGED <<log, last_sequence_num, out_of_order_transactions, broadcasts,
                       async_transactions>>
    BY <1>3 DEF UndoLast, Undo, netVars
  <2>4. Untouched(w)
    BY <1>3, MayWriteApart DEF UndoLast
  <2> HIDE DEF w
  <2> QED BY <1>1, <2>1, <2>2, <2>3, <2>4, FreshFinishCalm
<1>4. CASE RedoLast
  <2> DEFINE w == Top(redo_stack)
  <2>1. PICK t \in Executions(w) : KeepAndSend(t)
    BY <1>4 DEF RedoLast, Redo
  <2>2. w \in Writes
    BY <1>1, <1>4, IndInvSequences, StackTopPop DEF RedoLast
  <2>3. /\ grid' = Overlay(grid, w) /\ issued' = issued + 1
        /\ UNCHANGED <<log, last_sequence_num, out_of_order_transactions, broadcasts,
                       async_transactions>>
    BY <1>4 DEF RedoLast, Redo, netVars
  <2>4. Untouched(w)
    BY <1>4, MayWriteApart DEF RedoLast
  <2> HIDE DEF w
  <2> QED BY <1>1, <2>1, <2>2, <2>3, <2>4, FreshFinishCalm
<1>5. CASE CodeCompletes
  <2>1. PICK k \in DOMAIN async_transactions, r \in CodeResults :
          MayWrite(r) /\ CalculationComplete(k, r)
    BY <1>5 DEF CodeCompletes
  <2>2. PICK t \in Completions(async_transactions[k], r) : KeepAndSend(t)
    BY <2>1 DEF CalculationComplete
  <2>3. /\ r \in Writes /\ grid' = Overlay(grid, r)
        /\ DOMAIN r \cap DOMAIN async_transactions[k].forward = {}
        /\ async_transactions' = WithoutIndex(async_transactions, k)
        /\ UNCHANGED <<issued, log, last_sequence_num, out_of_order_transactions, broadcasts>>
    BY <1>5, <2>1, EditsAreWrites DEF CodeCompletes, CalculationComplete, netVars
  <2>4. Untouched(r)
    BY <2>1, MayWriteApart
  <2> DEFINE x == [id |-> t.id, writes |-> t.forward]
  <2>5. x \in SentTransaction
    BY <1>1, <2>3, CompletionsType
  <2>6. /\ to_server' = Append(to_server, x)
        /\ unsaved_transactions' = InsertOrReplace(unsaved_transactions, t)
    BY <2>2 DEF KeepAndSend
  <2> HIDE DEF x
  <2>7. Copies' \subseteq Copies \cup {x} /\ Entries(to_server) \subseteq Entries(to_server')
    BY <1>1, <2>3, <2>5, <2>6, FinishCopies
  <2>8. Copies' \subseteq Copies \cup {[id |-> t.id, writes |-> t.forward]}
    BY <2>7 DEF x
  <2> QED BY <2>3, <2>4, <2>6, <2>7, <2>8, CompletedCalm
<1> QED
  BY <1>1, <1>2, <1>3, <1>4, <1>5

LEMMA UserStartsCodeCalm ==
  ASSUME ~LocalConflicts, OfflineInv, Calm, UserStartsCode
  PROVE  Calm'
<1>1. PICK w \in CodeCells : MayWrite(w) /\ StartAsyncTransaction(w)
  BY DEF UserStartsCode, RunCode
<1>2. PICK t \in Executions(w) :
        /\ unsaved_transactions' = InsertOrReplace(unsaved_transactions, t)
        /\ async_transactions' = Append(async_transactions, t)
  BY <1>1 DEF StartAsyncTransaction
<1>3. /\ w \in Writes /\ grid' = Overlay(grid, w) /\ issued' = issued + 1
      /\ UNCHANGED <<log, last_sequence_num, out_of_order_transactions, broadcasts, to_server>>
      /\ UNCHANGED <<stored, leaving>>
  BY <1>1, EditsAreWrites DEF UserStartsCode, RunCode, StartAsyncTransaction, netVars, offlineVars
<1>4. Untouched(w)
  BY <1>1, MayWriteApart
<1>5. Copies' \subseteq Copies
  BY <1>3, CopiesParts
<1>6. Entries(async_transactions') \subseteq Entries(async_transactions) \cup {t}
  <2>1. t \in UnsavedTransaction
    BY <1>3, ExecutionsType DEF OfflineInv
  <2> QED BY <1>2, <2>1, OfflineInvTypes, IdsAppend
<1>7. Entries(to_server) \subseteq Entries(to_server')
  BY <1>3
<1> QED
  BY <1>2, <1>3, <1>4, <1>5, <1>6, <1>7, ExecutedCalm

LEMMA CalmTypes ==
  ASSUME OfflineInv, Calm
  PROVE  /\ unsaved_transactions \in Seq(UnsavedTransaction) /\ Apart(unsaved_transactions)
         /\ log \in Seq(SentTransaction) /\ last_sequence_num \in Nat
         /\ last_sequence_num <= Len(log) /\ Len(log) \in Nat /\ DOMAIN log = 1..Len(log)
         /\ broadcasts \subseteq DOMAIN log /\ broadcasts \in SUBSET Nat
         /\ \A i \in DOMAIN out_of_order_transactions :
              out_of_order_transactions[i].sequence_num \in DOMAIN log
BY OfflineInvTypes, LenProperties
   DEF OfflineInv, IndInv, TypeOK, ClientTypeOK, InFlightIsLogged, StashMatchesLog, Calm, Through

(* A step that the page does not notice.                                   *)
LEMMA UnnoticedCalm ==
  ASSUME Calm, Copies' \subseteq Copies,
         UNCHANGED <<grid, unsaved_transactions, out_of_order_transactions, last_sequence_num,
                     async_transactions, issued, to_server, log, broadcasts>>
  PROVE  Calm'
<1>1. Agree(Copies', issued', async_transactions', unsaved_transactions')
  BY DEF Calm, Agree
<1>2. HeldCameFirst'
  BY DEF Calm, HeldCameFirst
<1> QED
  BY <1>1, <1>2 DEF Calm

(* A transaction gets its number.                                          *)
LEMMA CommitCalm ==
  ASSUME OfflineInv, Calm, NEW t \in SentTransaction, Commit(t),
         Agree({t}, issued, async_transactions, unsaved_transactions),
         UNCHANGED <<grid, unsaved_transactions, out_of_order_transactions, last_sequence_num,
                     async_transactions, issued>>,
         Copies' \subseteq Copies \cup {t},
         Entries(to_server) \subseteq Entries(to_server') \cup {t}
  PROVE  Calm'
<1> DEFINE q == unsaved_transactions
           l == last_sequence_num
<1>1. log' = Append(log, t) /\ broadcasts' \subseteq broadcasts \cup {Len(log) + 1}
  BY DEF Commit
<1>2. /\ log' \in Seq(SentTransaction) /\ Len(log') = Len(log) + 1
      /\ \A n \in 1..Len(log) : log'[n] = log[n]
      /\ log'[Len(log) + 1] = t
  BY <1>1, CalmTypes, AppendProperties
<1>3. Agree(Copies', issued', async_transactions', unsaved_transactions')
  BY DEF Calm, Agree
<1>4. HeldCameFirst'
  <2> SUFFICES ASSUME NEW n \in broadcasts', NEW i \in DOMAIN out_of_order_transactions
               PROVE  out_of_order_transactions[i].sequence_num < n
    BY DEF HeldCameFirst
  <2>1. CASE n \in broadcasts
    BY <2>1 DEF Calm, HeldCameFirst
  <2>2. CASE n = Len(log) + 1
    <3>1. out_of_order_transactions[i].sequence_num \in 1..Len(log)
      BY CalmTypes
    <3> QED BY <2>2, <3>1, CalmTypes
  <2> QED BY <1>1, <2>1, <2>2
<1>5. Replay(log', l) = Replay(log, l)
  BY <1>1, CalmTypes, ReplayAppend
<1>6. ASSUME NEW c, Expected(log, l, q, to_server, c) PROVE Expected(log', l, q, to_server', c)
  <2>1. CASE Coming(log, q, l, c)
    <3>1. PICK n \in (l + 1)..Len(log) : c \in DOMAIN log[n].writes /\ ~Holds(q, log[n].id)
      BY <2>1 DEF Coming
    <3>2. n \in (l + 1)..Len(log') /\ log'[n] = log[n]
      BY <1>2, <3>1, CalmTypes
    <3> QED BY <3>1, <3>2 DEF Coming, Expected
  <2>2. CASE Sends(to_server, q, c)
    <3>1. PICK x \in Entries(to_server) : c \in DOMAIN x.writes /\ ~Holds(q, x.id)
      BY <2>2 DEF Sends
    <3>2. CASE x = t
      <4>1. Len(log) + 1 \in (l + 1)..Len(log')
        BY <1>2, CalmTypes
      <4> QED BY <1>2, <3>1, <3>2, <4>1 DEF Coming, Expected
    <3>3. CASE x \in Entries(to_server')
      BY <3>1, <3>3 DEF Sends, Expected
    <3> QED BY <3>2, <3>3
  <2> QED BY <1>6, <2>1, <2>2 DEF Expected
<1>7. Shown(grid', log', l, q, to_server')
  BY <1>5, <1>6 DEF Calm, Shown
<1> QED
  BY <1>3, <1>4, <1>7 DEF Calm

LEMMA CopyAgrees ==
  ASSUME Calm, NEW t \in Copies
  PROVE  Agree({t}, issued, async_transactions, unsaved_transactions)
BY DEF Calm, Agree

LEMMA SequenceCalm ==
  ASSUME OfflineInv, Calm, Sequence, UNCHANGED offlineVars
  PROVE  Calm'
<1> DEFINE t == Head(to_server)
<1>1. to_server \in Seq(SentTransaction) /\ to_server # <<>>
  BY OfflineInvTypes DEF Sequence
<1>2. t \in SentTransaction /\ t \in Entries(to_server)
      /\ Entries(to_server') \subseteq Entries(to_server)
      /\ Entries(to_server) \subseteq Entries(to_server') \cup {t}
  <2>1. /\ Len(to_server) \in Nat /\ DOMAIN to_server = 1..Len(to_server)
        /\ Len(to_server) # 0
    BY <1>1, LenProperties, EmptySeq
  <2>2. /\ t = to_server[1] /\ t \in SentTransaction
        /\ Tail(to_server) \in Seq(SentTransaction) /\ Len(Tail(to_server)) = Len(to_server) - 1
        /\ \A i \in 1..Len(Tail(to_server)) : Tail(to_server)[i] = to_server[i + 1]
    BY <1>1, HeadTailProperties
  <2>3. to_server' = Tail(to_server)
    BY DEF Sequence
  <2> HIDE DEF t
  <2>4. DOMAIN to_server' = 1..(Len(to_server) - 1)
        /\ \A i \in 1..(Len(to_server) - 1) : to_server'[i] = to_server[i + 1]
    BY <2>2, <2>3, LenProperties
  <2>5. t \in Entries(to_server)
    BY <2>1, <2>2 DEF Entries
  <2>6. Entries(to_server') \subseteq Entries(to_server)
    BY <2>1, <2>4 DEF Entries
  <2>7. ASSUME NEW i \in 1..Len(to_server) PROVE to_server[i] \in Entries(to_server') \cup {t}
    <3>1. CASE i = 1
      BY <2>2, <3>1
    <3>2. CASE i # 1
      <4>1. i - 1 \in 1..(Len(to_server) - 1) /\ to_server'[i - 1] = to_server[i]
        <5>1. i - 1 \in 1..(Len(to_server) - 1) /\ (i - 1) + 1 = i
          BY <2>1, <3>2
        <5> QED BY <2>4, <5>1
      <4> QED BY <2>4, <4>1 DEF Entries
    <3> QED BY <3>1, <3>2
  <2> QED BY <2>1, <2>2, <2>5, <2>6, <2>7 DEF Entries
<1>3. /\ Commit(t) /\ t \in Copies
      /\ UNCHANGED <<grid, unsaved_transactions, out_of_order_transactions, last_sequence_num,
                     async_transactions, issued, stored, leaving>>
  BY <1>2, CopiesParts DEF Sequence, offlineVars
<1>4. Agree({t}, issued, async_transactions, unsaved_transactions)
  BY <1>3, CopyAgrees
<1> HIDE DEF t
<1>5. Copies' \subseteq Copies \cup {t}
  <2>1. Entries(log') = Entries(log) \cup {t}
    BY <1>2, <1>3, CalmTypes, IdsAppend DEF Commit
  <2> QED BY <1>2, <1>3, <2>1, CopiesParts
<1> QED
  BY <1>2, <1>3, <1>4, <1>5, CommitCalm

LEMMA LateSequenceCalm ==
  ASSUME OfflineInv, Calm, LateSequence
  PROVE  Calm'
<1> DEFINE t == Head(leaving)
<1>1. leaving \in Seq(SentTransaction) /\ leaving # <<>>
  BY OfflineInvTypes DEF LateSequence
<1>2. t \in SentTransaction /\ t \in Entries(leaving)
      /\ Entries(leaving') \subseteq Entries(leaving)
  <2>1. /\ Len(leaving) \in Nat /\ DOMAIN leaving = 1..Len(leaving) /\ Len(leaving) # 0
    BY <1>1, LenProperties, EmptySeq
  <2>2. /\ t = leaving[1] /\ t \in SentTransaction
        /\ Tail(leaving) \in Seq(SentTransaction) /\ Len(Tail(leaving)) = Len(leaving) - 1
        /\ \A i \in 1..Len(Tail(leaving)) : Tail(leaving)[i] = leaving[i + 1]
    BY <1>1, HeadTailProperties
  <2>3. leaving' = Tail(leaving)
    BY DEF LateSequence
  <2> HIDE DEF t
  <2>4. DOMAIN leaving' = 1..(Len(leaving) - 1)
        /\ \A i \in 1..(Len(leaving) - 1) : leaving'[i] = leaving[i + 1]
    BY <2>2, <2>3, LenProperties
  <2>5. t \in Entries(leaving)
    BY <2>1, <2>2 DEF Entries
  <2>6. Entries(leaving') \subseteq Entries(leaving)
    BY <2>1, <2>4 DEF Entries
  <2> QED BY <2>2, <2>5, <2>6
<1>3. /\ Commit(t) /\ t \in Copies
      /\ UNCHANGED <<grid, unsaved_transactions, out_of_order_transactions, last_sequence_num,
                     async_transactions, issued, stored, to_server>>
  BY <1>2, CopiesParts DEF LateSequence, clientVars
<1>4. Agree({t}, issued, async_transactions, unsaved_transactions)
  BY <1>3, CopyAgrees
<1> HIDE DEF t
<1>5. Copies' \subseteq Copies \cup {t}
  <2>1. Entries(log') = Entries(log) \cup {t}
    BY <1>2, <1>3, CalmTypes, IdsAppend DEF Commit
  <2> QED BY <1>2, <1>3, <2>1, CopiesParts
<1> QED
  BY <1>3, <1>2, <1>4, <1>5, CommitCalm

LEMMA RemoteCommitCalm ==
  ASSUME OfflineInv, Calm, RemoteCommit, UNCHANGED offlineVars
  PROVE  Calm'
<1>1. PICK w \in RemoteEdits : Commit([id |-> Foreign, writes |-> w])
  BY DEF RemoteCommit
<1> DEFINE t == [id |-> Foreign, writes |-> w]
<1>2. t \in SentTransaction /\ t.id = 0
  BY SessionAssumption DEF SentTransaction, TransactionId, Foreign
<1>3. /\ Commit(t)
      /\ UNCHANGED <<grid, unsaved_transactions, out_of_order_transactions, last_sequence_num,
                     async_transactions, issued, stored, leaving, to_server>>
  BY <1>1 DEF RemoteCommit, clientVars, offlineVars
<1> HIDE DEF t
<1>4. Agree({t}, issued, async_transactions, unsaved_transactions)
  <2>1. \A a \in Entries(async_transactions) : a.id # 0
    BY OfflineInvTypes DEF OfflineInv, AsyncIsNotStored, Entries
  <2>2. \A u \in Entries(unsaved_transactions) : u.id # 0
    BY DEF OfflineInv, IndInv, OwnWorkIsEdited, IsOwn, Entries, Foreign
  <2> QED BY <1>2, <2>1, <2>2, OfflineInvTypes DEF Agree
<1>5. Copies' \subseteq Copies \cup {t}
  <2>1. Entries(log') = Entries(log) \cup {t}
    BY <1>2, <1>3, CalmTypes, IdsAppend DEF Commit
  <2> QED BY <1>3, <2>1, CopiesParts
<1>6. Entries(to_server) \subseteq Entries(to_server') \cup {t}
  BY <1>3
<1> QED
  BY <1>2, <1>3, <1>4, <1>5, <1>6, CommitCalm

LEMMA RoomStepsCalm ==
  ASSUME OfflineInv, Calm, RoomSteps
  PROVE  Calm'
<1>1. UNCHANGED offlineVars
  BY DEF RoomSteps
<1>2. CASE (\E m \in requests : ServeRequest(m)) \/ Reconnect
  <2>1. UNCHANGED <<grid, unsaved_transactions, out_of_order_transactions, last_sequence_num,
                    async_transactions, issued, to_server, log, broadcasts, stored, leaving>>
    BY <1>1, <1>2 DEF ServeRequest, Reconnect, clientVars, offlineVars
  <2>2. Copies' \subseteq Copies
    BY <2>1, CopiesParts
  <2> QED BY <2>1, <2>2, UnnoticedCalm
<1> QED
  BY <1>1, <1>2, SequenceCalm, RemoteCommitCalm DEF RoomSteps

LEMMA CoreSettles ==
  ASSUME OfflineInv, Calm, NEW N,
         \A i \in DOMAIN out_of_order_transactions : out_of_order_transactions[i].sequence_num \in N
  PROVE  CoreState \in Settling(log, N, SentCells(to_server, unsaved_transactions))
<1> DEFINE s == CoreState
           A == SentCells(to_server, unsaved_transactions)
<1>1. s \in Sound(log, edited)
  BY CoreStateIsSound DEF OfflineInv
<1>2. /\ s.grid = grid /\ s.unsaved = unsaved_transactions
      /\ s.stash = out_of_order_transactions /\ s.last = last_sequence_num
  BY DEF CoreState
<1> HIDE DEF s
<1>3. s \in Core /\ s.last <= Len(log) /\ HeldFrom(log, N, s.stash)
  BY <1>1, <1>2 DEF Sound, HeldFrom
<1>4. Apart(s.unsaved)
  BY <1>2, CalmTypes
<1>5. ElsewhereSettles(log, A, s) /\ UnsavedSettle(log, A, s)
  <2>1. Shown(s.grid, log, s.last, s.unsaved, to_server)
    BY <1>2 DEF Calm
  <2> HIDE DEF A
  <2>2. ElsewhereSettles(log, SentCells(to_server, s.unsaved), s)
        /\ UnsavedSettle(log, SentCells(to_server, s.unsaved), s)
    BY <1>3, <1>4, <2>1, SettlingShown
  <2> QED BY <1>2, <2>2 DEF A
<1> HIDE DEF A
<1>6. s \in Settling(log, N, A)
  BY <1>3, <1>4, <1>5 DEF Settling, Bare
<1> QED
  BY <1>6 DEF s, A

LEMMA SettlingMonotone ==
  ASSUME NEW L, NEW N, NEW A, NEW B, A \subseteq B, NEW s \in Settling(L, N, A)
  PROVE  ElsewhereSettles(L, B, s) /\ UnsavedSettle(L, B, s)
BY DEF Settling, Bare, ElsewhereSettles, UnsavedSettle, Settles

(* What the engine has become when it has received something.              *)
LEMMA ReceivedCalm ==
  ASSUME OfflineInv, Calm, NEW r, NEW N,
         r \in Settling(log, N, SentCells(to_server, unsaved_transactions)),
         Entries(r.unsaved) \subseteq Entries(unsaved_transactions),
         Keeps(log, CoreState, r), BecomesCore(r), log' = log, Copies' \subseteq Copies,
         \A k \in N, b \in broadcasts' : k < b
  PROVE  Calm'
<1> DEFINE q == unsaved_transactions
<1>1. /\ grid' = r.grid /\ unsaved_transactions' = r.unsaved
      /\ out_of_order_transactions' = r.stash /\ last_sequence_num' = r.last
      /\ UNCHANGED <<async_transactions, issued, to_server>>
  BY DEF BecomesCore
<1>2. r \in Core /\ Apart(r.unsaved) /\ HeldFrom(log, N, r.stash)
  BY DEF Settling, Bare
<1>3. Agree(Copies', issued', async_transactions', r.unsaved)
  BY <1>1 DEF Calm, Agree
<1>4. Through(r.unsaved, issued')
  BY <1>1, <1>2 DEF Calm, Through
<1>5. Entries(async_transactions) \subseteq Entries(r.unsaved)
  <2> SUFFICES ASSUME NEW a \in Entries(async_transactions) PROVE a \in Entries(r.unsaved)
    OBVIOUS
  <2>1. a \in Entries(q) /\ \A t \in Copies : a.id # t.id
    BY DEF Calm, Agree
  <2>2. \A n \in 1..Len(log) : log[n].id # a.id
    <3>1. \A n \in 1..Len(log) : log[n] \in Copies
      BY CalmTypes, CopiesParts DEF Entries
    <3> QED BY <2>1, <3>1
  <2>3. CoreState.unsaved = q
    BY DEF CoreState
  <2> QED BY <2>1, <2>2, <2>3 DEF Keeps
<1>6. HeldCameFirst'
  BY <1>1, <1>2 DEF HeldCameFirst, HeldFrom
<1>7. Shown(r.grid, log, r.last, r.unsaved, to_server)
  <2>1. SentCells(to_server, q) \subseteq SentCells(to_server, r.unsaved)
    BY HoldsEntry DEF SentCells, Sends
  <2>2. /\ ElsewhereSettles(log, SentCells(to_server, r.unsaved), r)
        /\ UnsavedSettle(log, SentCells(to_server, r.unsaved), r)
    BY <2>1, SettlingMonotone
  <2> QED BY <1>2, <2>2, SettlingShown
<1> QED
  BY <1>1, <1>3, <1>4, <1>5, <1>6, <1>7 DEF Calm

LEMMA PageReceivesTransactionCalm ==
  ASSUME ~Reorder, OfflineInv, Calm, NEW n \in broadcasts, PageReceivesTransaction(n)
  PROVE  Calm'
<1> DEFINE N == {k \in Nat : \A b \in broadcasts' : k < b}
           A == SentCells(to_server, unsaved_transactions)
           r == ClientApply(CoreState, log[n].id, n, log[n].writes)
<1>1. /\ n = Least(broadcasts) /\ BecomesCore(r) /\ broadcasts' = broadcasts \ {n}
      /\ log' = log /\ leaving' = leaving /\ to_server' = to_server
      /\ stored' = Unsent(log[n].id)
  BY DEF PageReceivesTransaction, ReceiveTransaction, ReceivedTransaction, BecomesCore
<1>2. /\ n \in 1..Len(log) /\ n \in Nat /\ \A b \in broadcasts : n <= b /\ b \in Nat
  BY <1>1, CalmTypes, LeastIsMember
<1>3. n \in N
  BY <1>1, <1>2
<1>4. \A i \in DOMAIN out_of_order_transactions :
        /\ out_of_order_transactions[i].sequence_num \in N
        /\ out_of_order_transactions[i].sequence_num <= n
  <2> TAKE i \in DOMAIN out_of_order_transactions
  <2>1. \A b \in broadcasts : out_of_order_transactions[i].sequence_num < b
    BY DEF Calm, HeldCameFirst
  <2>2. out_of_order_transactions[i].sequence_num \in Nat
    BY CalmTypes
  <2> QED BY <1>1, <1>2, <2>1, <2>2
<1>5. \A k \in N, b \in broadcasts' : k < b
  OBVIOUS
<1> HIDE DEF N
<1>6. CoreState \in Settling(log, N, A)
  BY <1>4, CoreSettles
<1>7. CoreState.unsaved = unsaved_transactions /\ CoreState.stash = out_of_order_transactions
  BY DEF CoreState
<1>8. \A u \in Entries(CoreState.unsaved) : u.id = log[n].id => u.forward = log[n].writes
  <2>1. log[n] \in Copies
    BY <1>2, CalmTypes, CopiesParts DEF Entries
  <2> QED BY <1>7, <2>1 DEF Calm, Agree
<1>9. Keeps(log, CoreState, r)
  BY <1>2, CalmTypes, CoreStateIsSound, ClientApplySound DEF OfflineInv
<1>10. Copies' \subseteq Copies
  <2>1. stored' \subseteq stored
    BY <1>1 DEF Unsent
  <2>2. StoredCopies(stored') \subseteq StoredCopies(stored)
    BY <2>1 DEF StoredCopies
  <2> QED BY <1>1, <2>2, CopiesParts
<1> HIDE DEF A, r
<1>11. r \in Settling(log, N, A) /\ Entries(r.unsaved) \subseteq Entries(CoreState.unsaved)
  <2>1. \A i \in DOMAIN CoreState.stash : CoreState.stash[i].sequence_num <= n
    BY <1>4, <1>7
  <2>2. LET x == ClientApply(CoreState, log[n].id, n, log[n].writes)
        IN  x \in Settling(log, N, A) /\ Entries(x.unsaved) \subseteq Entries(CoreState.unsaved)
    BY <1>2, <1>3, <1>6, <1>8, <2>1, CalmTypes, PageApplies
  <2> QED BY <2>2 DEF r
<1> QED
  BY <1>1, <1>5, <1>7, <1>9, <1>10, <1>11, ReceivedCalm DEF A

LEMMA PageReceivesTransactionsCalm ==
  ASSUME ~Reorder, OfflineInv, Calm, NEW m \in replies, PageReceivesTransactions(m), ~batched'
  PROVE  Calm'
<1> DEFINE N == {k \in Nat : \A b \in broadcasts' : k < b}
           A == SentCells(to_server, unsaved_transactions)
           batch == SubSeq(log, m.from, m.to)
           r == ApplyBatch(CoreState, batch, m.from)
<1>1. /\ \A b \in broadcasts : m.to < b
      /\ BecomesCore(r) /\ UNCHANGED <<broadcasts, log, leaving, to_server, stored>>
      /\ \A k \in m.from..m.to : ~Holds(unsaved_transactions, log[k].id)
  BY DEF PageReceivesTransactions, ReceiveTransactions, ReceivedTransactions, BecomesCore
<1>2. /\ batch \in Seq(SentTransaction) /\ m.from \in Nat
      /\ \A i \in 1..Len(batch) :
           /\ m.from + i - 1 \in 1..Len(log) /\ batch[i] = log[m.from + i - 1]
           /\ m.from + i - 1 \in m.from..m.to
  BY RepliesAreLogged DEF OfflineInv
<1> HIDE DEF batch
<1>3. m.to \in Nat
  BY DEF OfflineInv, IndInv, TypeOK, Reply
<1>4. \A i \in 1..Len(batch) : m.from + i - 1 \in N
  <2> TAKE i \in 1..Len(batch)
  <2> DEFINE k == m.from + i - 1
  <2>1. k \in Nat /\ k <= m.to
    BY <1>2, <1>3
  <2>2. broadcasts' = broadcasts /\ broadcasts \subseteq Nat /\ \A b \in broadcasts : m.to < b
    BY <1>1, CalmTypes
  <2> HIDE DEF k
  <2>3. k \in N
    BY <2>1, <2>2, <1>3
  <2> QED BY <2>3 DEF k
<1>5. \A i \in DOMAIN out_of_order_transactions : out_of_order_transactions[i].sequence_num \in N
  <2> TAKE i \in DOMAIN out_of_order_transactions
  <2>1. \A b \in broadcasts : out_of_order_transactions[i].sequence_num < b
    BY DEF Calm, HeldCameFirst
  <2>2. out_of_order_transactions[i].sequence_num \in Nat
    BY CalmTypes
  <2> QED BY <1>1, <2>1, <2>2
<1>6. \A k \in N, b \in broadcasts' : k < b
  OBVIOUS
<1> HIDE DEF N
<1>7. CoreState \in Settling(log, N, A)
  BY <1>5, CoreSettles
<1>8. CoreState.unsaved = unsaved_transactions
  BY DEF CoreState
<1>9. Keeps(log, CoreState, r)
  BY <1>2, CalmTypes, CoreStateIsSound, ApplyBatchSound DEF OfflineInv
<1>10. Copies' \subseteq Copies
  BY <1>1, CopiesParts
<1> HIDE DEF A, r
<1>11. r \in Settling(log, N, A) /\ r.unsaved = unsaved_transactions
  <2>1. PartWithout(log, N, CoreState.unsaved, batch, m.from)
    BY <1>1, <1>2, <1>4, <1>8 DEF PartWithout
  <2>2. LET x == ApplyBatch(CoreState, batch, m.from)
        IN  x \in Settling(log, N, A) /\ x.unsaved = CoreState.unsaved
    <3>1. log \in Seq(SentTransaction) /\ batch \in Seq(SentTransaction) /\ m.from \in Nat
      BY <1>2, CalmTypes
    <3> QED BY <1>7, <2>1, <3>1, PageAppliesBatch
  <2> QED BY <1>8, <2>2 DEF r
<1>12. Entries(r.unsaved) \subseteq Entries(unsaved_transactions)
  BY <1>11
<1> QED
  BY <1>1, <1>6, <1>9, <1>10, <1>11, <1>12, ReceivedCalm DEF A

LEMMA NothingApart ==
  /\ <<>> \in Seq(UnsavedTransaction) /\ Entries(<<>>) = {} /\ Apart(<<>>)
  /\ DOMAIN <<>> = {}
<1>1. DOMAIN <<>> = {}
  BY EmptySeq
<1> QED
  BY <1>1, EmptySeq DEF Entries, Apart, Distinct, Disjoint

LEMMA ReloadCalm ==
  ASSUME OfflineInv, Calm, Reload
  PROVE  Calm'
<1>1. /\ grid' = Replay(log, last_sequence_num')
      /\ unsaved_transactions' = <<>> /\ out_of_order_transactions' = <<>>
      /\ async_transactions' = <<>> /\ to_server' = <<>> /\ broadcasts' = {}
      /\ leaving' = IF connected THEN leaving \o to_server ELSE leaving
      /\ UNCHANGED <<issued, log, stored>>
  BY DEF Reload
<1>2. Entries(leaving') \subseteq Entries(leaving) \cup Entries(to_server)
  <2>1. CASE connected
    <3> DEFINE q == leaving \o to_server
    <3>1. /\ leaving \in Seq(SentTransaction) /\ to_server \in Seq(SentTransaction)
          /\ Len(leaving) \in Nat /\ DOMAIN leaving = 1..Len(leaving)
          /\ Len(to_server) \in Nat /\ DOMAIN to_server = 1..Len(to_server)
      BY OfflineInvTypes, LenProperties
    <3>2. /\ q \in Seq(SentTransaction) /\ Len(q) = Len(leaving) + Len(to_server)
          /\ \A i \in 1..(Len(leaving) + Len(to_server)) :
               q[i] = IF i <= Len(leaving) THEN leaving[i] ELSE to_server[i - Len(leaving)]
      BY <3>1, ConcatProperties
    <3>3. DOMAIN q = 1..(Len(leaving) + Len(to_server))
      BY <3>2, LenProperties
    <3>4. leaving' = q
      BY <1>1, <2>1
    <3> HIDE DEF q
    <3>5. ASSUME NEW i \in DOMAIN q PROVE q[i] \in Entries(leaving) \cup Entries(to_server)
      <4>1. CASE i <= Len(leaving)
        <5>1. i \in DOMAIN leaving /\ q[i] = leaving[i]
          BY <3>1, <3>2, <3>3, <4>1
        <5> QED BY <5>1 DEF Entries
      <4>2. CASE ~(i <= Len(leaving))
        <5>1. i - Len(leaving) \in DOMAIN to_server /\ q[i] = to_server[i - Len(leaving)]
          BY <3>1, <3>2, <3>3, <4>2
        <5> QED BY <5>1 DEF Entries
      <4> QED BY <4>1, <4>2
    <3> QED BY <3>4, <3>5 DEF Entries
  <2>2. CASE ~connected
    BY <1>1, <2>2
  <2> QED BY <2>1, <2>2
<1>3. Copies' \subseteq Copies
  BY <1>1, <1>2, NothingApart, CopiesParts
<1>4. Agree(Copies', issued', <<>>, <<>>)
  BY <1>1, <1>3, NothingApart DEF Calm, Agree
<1>5. Through(<<>>, issued') /\ Entries(<<>>) \subseteq Entries(<<>>)
  BY NothingApart DEF Through
<1>6. HeldCameFirst'
  BY <1>1 DEF HeldCameFirst
<1>7. Shown(grid', log, last_sequence_num', <<>>, <<>>)
  BY <1>1, NothingApart, ShownMeans
<1> QED
  BY <1>1, <1>4, <1>5, <1>6, <1>7 DEF Calm

(* The states that executing what was stored leads through, again: what    *)
(* is sent agrees with the unsaved transactions, and what is shown and not *)
(* of them is sent.                                                        *)
Resending ==
  {s \in [grid : Grid, undo : Seq(Writes), redo : Seq(Writes), send : Seq(SentTransaction)] :
     /\ Agree(Entries(s.send), issued, async_transactions, unsaved_transactions)
     /\ Shown(s.grid, log, last_sequence_num, unsaved_transactions, s.send)}

LEMMA SendsMore ==
  ASSUME OfflineInv, NEW S \in Seq(SentTransaction), NEW t \in SentTransaction, NEW c,
         Expected(log, last_sequence_num, unsaved_transactions, S, c)
  PROVE  Expected(log, last_sequence_num, unsaved_transactions, Append(S, t), c)
<1>1. Entries(Append(S, t)) = Entries(S) \cup {t}
  BY IdsAppend
<1>2. log \in Seq(SentTransaction) /\ last_sequence_num \in Nat
  BY DEF OfflineInv, IndInv, TypeOK, ClientTypeOK
<1> QED
  BY <1>1, <1>2, ExpectedGrows

LEMMA ApplyOneResending ==
  ASSUME OfflineInv, Calm, NEW s \in Resending, NEW e \in stored
  PROVE  ApplyOfflineUnsaved(s, e) \subseteq Resending
<1> DEFINE q == unsaved_transactions
           l == last_sequence_num
           x == [id |-> e.transactionId, writes |-> e.transaction]
<1>1. /\ s.grid \in Grid /\ s.undo \in Seq(Writes) /\ s.redo \in Seq(Writes)
      /\ s.send \in Seq(SentTransaction)
      /\ s = [grid |-> s.grid, undo |-> s.undo, redo |-> s.redo, send |-> s.send]
      /\ Agree(Entries(s.send), issued, async_transactions, q)
      /\ Shown(s.grid, log, l, q, s.send)
  BY DEF Resending
<1>2. e.transactionId \in TransactionId /\ e.transaction \in Writes
  BY OfflineInvTypes DEF OfflineEntry
<1>3. x \in Copies /\ x \in SentTransaction
      /\ x.id = e.transactionId /\ x.writes = e.transaction
  BY <1>2, CopiesParts DEF StoredCopies, SentTransaction
<1>4. Agree({x}, issued, async_transactions, q)
  BY <1>3, CopyAgrees
<1> HIDE DEF x
<1>5. CASE Holds(q, e.transactionId)
  <2> DEFINE p == Append(s.send, x)
  <2>1. p \in Seq(SentTransaction) /\ Entries(p) = Entries(s.send) \cup {x}
    BY <1>1, <1>3, IdsAppend, AppendProperties
  <2>2. ApplyOfflineUnsaved(s, e) = {[s EXCEPT !.send = p]}
    BY <1>5 DEF ApplyOfflineUnsaved, x
  <2>3. Shown(s.grid, log, l, q, p)
    BY <1>1, <1>3, SendsMore DEF Shown
  <2> HIDE DEF p
  <2>4. Agree(Entries(p), issued, async_transactions, q)
    BY <1>1, <1>4, <2>1 DEF Agree
  <2> DEFINE r == [s EXCEPT !.send = p]
  <2>5. r = [grid |-> s.grid, undo |-> s.undo, redo |-> s.redo, send |-> p]
    <3>1. s = [grid |-> s.grid, undo |-> s.undo, redo |-> s.redo, send |-> s.send]
      BY <1>1
    <3> QED BY <3>1
  <2>6. r \in Resending
    BY <1>1, <2>1, <2>3, <2>4, <2>5 DEF Resending
  <2> QED BY <2>2, <2>6
<1>6. CASE ~Holds(q, e.transactionId)
  <2> SUFFICES ASSUME NEW r \in ApplyOfflineUnsaved(s, e) PROVE r \in Resending
    OBVIOUS
  <2>1. PICK D \in Recorded(s.grid, e.transaction) :
          r = [grid |-> Overlay(s.grid, e.transaction),
               undo |-> Append(s.undo, ReverseOf(s.grid, D)),
               redo |-> <<>>,
               send |-> Append(s.send, [id |-> e.transactionId,
                                        writes |-> ForwardOf(e.transaction, D)])]
    BY <1>6 DEF ApplyOfflineUnsaved
  <2>2. /\ D \subseteq DOMAIN e.transaction
        /\ ForwardOf(e.transaction, D) \in Writes /\ DOMAIN ForwardOf(e.transaction, D) = D
        /\ ReverseOf(s.grid, D) \in Writes
    BY <1>1, <1>2, RecordedType
  <2> DEFINE g == Overlay(s.grid, e.transaction)
             u == Append(s.undo, ReverseOf(s.grid, D))
             y == [id |-> e.transactionId, writes |-> ForwardOf(e.transaction, D)]
             p == Append(s.send, y)
  <2>3. y \in SentTransaction /\ y.id = e.transactionId /\ DOMAIN y.writes = D
    BY <1>2, <2>2 DEF SentTransaction
  <2>4. g \in Grid /\ u \in Seq(Writes) /\ <<>> \in Seq(Writes)
    BY <1>1, <1>2, <2>2, OverlayType, AppendProperties, EmptySeq
  <2>5. \A c \in Cell : g[c] = IF c \in D THEN e.transaction[c] ELSE s.grid[c]
    BY ExecutedCells
  <2>6. r = [grid |-> g, undo |-> u, redo |-> <<>>, send |-> p]
    BY <2>1
  <2> HIDE DEF g, u, y
  <2>7. p \in Seq(SentTransaction) /\ Entries(p) = Entries(s.send) \cup {y}
    BY <1>1, <2>3, IdsAppend, AppendProperties
  <2>8. Agree(Entries(p), issued, async_transactions, q)
    <3>1. Agree({y}, issued, async_transactions, q)
      <4>1. \A v \in Entries(q) : v.id # y.id
        BY <1>6, <2>3, HoldsEntry
      <4> QED BY <1>3, <1>4, <2>3, <4>1 DEF Agree
    <3> QED BY <1>1, <2>7, <3>1 DEF Agree
  <2>9. Shown(g, log, l, q, p)
    <3> SUFFICES ASSUME NEW c \in Cell
                 PROVE  \/ g[c] = OverlayForward(Replay(log, l), Forwards(q))[c]
                        \/ Expected(log, l, q, p, c)
      BY DEF Shown
    <3>1. CASE c \in D
      <4>1. Sends(p, q, c)
        BY <1>6, <2>3, <2>7, <3>1 DEF Sends
      <4> QED BY <4>1 DEF Expected
    <3>2. CASE c \notin D
      <4>1. g[c] = s.grid[c]
        BY <2>5, <3>2
      <4>2. \/ s.grid[c] = OverlayForward(Replay(log, l), Forwards(q))[c]
            \/ Expected(log, l, q, s.send, c)
        BY <1>1 DEF Shown
      <4> QED BY <1>1, <2>3, <4>1, <4>2, SendsMore
    <3> QED BY <3>1, <3>2
  <2> HIDE DEF p
  <2> QED BY <2>4, <2>6, <2>7, <2>8, <2>9 DEF Resending
<1> QED
  BY <1>5, <1>6

LEMMA LoadTransactionsCalm ==
  ASSUME OfflineInv, Calm, LoadTransactions
  PROVE  Calm'
<1>1. Cardinality(stored) \in Nat
  BY OfflineInvTypes, FS_CardinalityType
<1>2. PICK q \in LoadOrders : \E s \in ApplyAll(PageState, q) :
        grid' = s.grid /\ to_server' = s.send
  BY DEF LoadTransactions
<1>3. UNCHANGED <<unsaved_transactions, out_of_order_transactions, last_sequence_num,
                  async_transactions, issued, log, broadcasts, stored, leaving>>
  BY DEF LoadTransactions, netVars
<1>4. q \in Seq(OfflineEntry) /\ \A i \in 1..Len(q) : q[i] \in stored
  <2>1. q \in [1..Cardinality(stored) -> stored]
    BY DEF LoadOrders
  <2>2. q \in [1..Cardinality(stored) -> OfflineEntry]
    BY <2>1, OfflineInvTypes
  <2>3. q \in Seq(OfflineEntry) /\ \A i \in DOMAIN q : q[i] \in stored
    BY <1>1, <2>1, <2>2, IsASeq
  <2> QED BY <2>3, LenProperties
<1>5. PageState \in Resending
  <2>1. Agree(Entries(to_server), issued, async_transactions, unsaved_transactions)
    BY CopiesParts DEF Calm, Agree
  <2>2. Shown(grid, log, last_sequence_num, unsaved_transactions, to_server)
    BY DEF Calm
  <2> QED BY <2>1, <2>2 DEF PageState, Resending, OfflineInv, IndInv, TypeOK, ClientTypeOK
<1>6. ApplyAll(PageState, q) \subseteq Resending
  BY <1>4, <1>5, ApplyOneResending, ApplyAllWithin
<1>7. /\ Agree(Entries(to_server'), issued, async_transactions, unsaved_transactions)
      /\ Shown(grid', log, last_sequence_num, unsaved_transactions, to_server')
  BY <1>2, <1>6 DEF Resending
<1>8. Agree(Copies', issued', async_transactions', unsaved_transactions')
  <2>1. Copies' \subseteq Copies \cup Entries(to_server')
    BY <1>3, CopiesParts
  <2> QED BY <1>3, <1>7, <2>1 DEF Calm, Agree
<1>9. HeldCameFirst'
  BY <1>3 DEF Calm, HeldCameFirst
<1> QED
  BY <1>3, <1>7, <1>8, <1>9 DEF Calm

-----------------------------------------------------------------------------
(* All steps together.                                                     *)

(* What disturbs a page leaves its trace.                                  *)
LEMMA UndisturbedBefore ==
  ASSUME OfflineInv, OfflineNext, Undisturbed'
  PROVE  Undisturbed
<1>1. ~batched' /\ disconnects' = 0 /\ disconnects \in Nat /\ batched \in BOOLEAN
  BY DEF Undisturbed, OfflineInv, OfflineTypeOK, TypeOK
<1>2. CASE UserFinishes
  BY <1>1, <1>2 DEF UserFinishes, AddUnsentTransaction, Edit, CodeCompletes, UndoLast, RedoLast,
     netVars, Undisturbed
<1>3. CASE UserStartsCode
  BY <1>1, <1>3 DEF UserStartsCode, RunCode, netVars, offlineVars, Undisturbed
<1>4. CASE RoomSteps
  <2>1. UNCHANGED <<batched, disconnects>>
    BY <1>4 DEF RoomSteps, Sequence, RemoteCommit, ServeRequest, Reconnect, offlineVars
  <2> QED BY <1>1, <2>1 DEF Undisturbed
<1>5. CASE \E n \in broadcasts : PageReceivesTransaction(n)
  BY <1>1, <1>5 DEF PageReceivesTransaction, ReceiveTransaction, Undisturbed
<1>6. CASE \E r \in replies : PageReceivesTransactions(r)
  BY <1>1, <1>6 DEF PageReceivesTransactions, ReceiveTransactions, Undisturbed
<1>7. CASE \E k \in Announced : PageReceivesCurrentTransaction(k)
  BY <1>1, <1>7
     DEF PageReceivesCurrentTransaction, ReceiveCurrentTransaction, netVars, Undisturbed
<1>8. CASE PageDisconnects
  <2>1. disconnects' = disconnects + 1
    BY <1>8 DEF PageDisconnects, Disconnect
  <2> QED BY <1>1, <2>1
<1>9. CASE ConnectionFails \/ LateLoss
  BY <1>1, <1>9 DEF ConnectionFails, LateLoss, vars, netVars, Undisturbed
<1>10. CASE Reload
  BY <1>1, <1>10 DEF Reload, Undisturbed
<1>11. CASE LoadTransactions
  BY <1>1, <1>11 DEF LoadTransactions, netVars, Undisturbed
<1>12. CASE LateSequence
  BY <1>1, <1>12 DEF LateSequence, Undisturbed
<1> QED
  BY <1>2, <1>3, <1>4, <1>5, <1>6, <1>7, <1>8, <1>9, <1>10, <1>11, <1>12 DEF OfflineNext

LEMMA QuietCalm ==
  ASSUME Calm,
         \/ \E k \in Announced : PageReceivesCurrentTransaction(k)
         \/ ConnectionFails
         \/ LateLoss
         \/ UNCHANGED <<vars, offlineVars>>
  PROVE  Calm'
<1>1. /\ UNCHANGED <<grid, unsaved_transactions, out_of_order_transactions, last_sequence_num,
                     async_transactions, issued, to_server, log, broadcasts, stored>>
      /\ leaving' = leaving \/ leaving' = <<>>
  <2>1. CASE \E k \in Announced : PageReceivesCurrentTransaction(k)
    BY <2>1
       DEF PageReceivesCurrentTransaction, ReceiveCurrentTransaction, ReceiveSequenceNum, netVars
  <2>2. CASE ConnectionFails
    BY <2>2 DEF ConnectionFails, vars, clientVars, netVars
  <2>3. CASE LateLoss
    BY <2>3 DEF LateLoss, vars, clientVars, netVars
  <2>4. CASE UNCHANGED <<vars, offlineVars>>
    BY <2>4 DEF vars, clientVars, netVars, offlineVars
  <2> QED BY <2>1, <2>2, <2>3, <2>4
<1>2. Copies' \subseteq Copies
  BY <1>1, NothingApart, CopiesParts
<1> QED
  BY <1>1, <1>2, UnnoticedCalm

LEMMA PageNext ==
  ASSUME ~Reorder, ~LocalConflicts, OfflineInv, PageInv, [OfflineNext]_<<vars, offlineVars>>
  PROVE  PageInv'
<1> SUFFICES ASSUME Undisturbed' PROVE Calm'
  BY CalmMeans
<1>1. CASE UNCHANGED <<vars, offlineVars>>
  <2>1. Undisturbed
    BY <1>1 DEF Undisturbed, vars, netVars, offlineVars
  <2> QED BY <1>1, <2>1, CalmMeans, QuietCalm
<1>2. CASE OfflineNext
  <2>1. Calm
    BY <1>2, UndisturbedBefore, CalmMeans
  <2>2. ~batched' /\ disconnects' = 0
    BY DEF Undisturbed
  <2>3. CASE \E n \in broadcasts : PageReceivesTransaction(n)
    BY <2>1, <2>3, PageReceivesTransactionCalm
  <2>4. CASE \E r \in replies : PageReceivesTransactions(r)
    BY <2>1, <2>2, <2>4, PageReceivesTransactionsCalm
  <2>5. CASE PageDisconnects
    <3>1. disconnects' = disconnects + 1 /\ disconnects \in Nat
      BY <2>5 DEF PageDisconnects, Disconnect, OfflineInv, OfflineTypeOK, TypeOK
    <3> QED BY <2>2, <3>1
  <2>6. CASE UserFinishes \/ UserStartsCode \/ RoomSteps
    BY <2>1, <2>6, UserFinishesCalm, UserStartsCodeCalm, RoomStepsCalm
  <2>7. CASE Reload \/ LoadTransactions \/ LateSequence
    BY <2>1, <2>7, ReloadCalm, LoadTransactionsCalm, LateSequenceCalm
  <2>8. CASE (\E k \in Announced : PageReceivesCurrentTransaction(k)) \/ ConnectionFails \/ LateLoss
    BY <2>1, <2>8, QuietCalm
  <2> QED BY <1>2, <2>3, <2>4, <2>5, <2>6, <2>7, <2>8 DEF OfflineNext
<1> QED
  BY <1>1, <1>2

LEMMA PageInitially == OfflineInit => PageInv
<1> SUFFICES ASSUME OfflineInit PROVE Calm
  BY CalmMeans
<1>1. /\ grid = BlankGrid /\ unsaved_transactions = <<>> /\ out_of_order_transactions = <<>>
      /\ last_sequence_num = 0 /\ async_transactions = <<>> /\ to_server = <<>>
      /\ log = <<>> /\ broadcasts = {} /\ leaving = <<>> /\ stored = {}
  BY DEF OfflineInit, Init, ClientInit
<1>2. Copies = {}
  BY <1>1, NothingApart, CopiesParts DEF StoredCopies
<1>3. Through(<<>>, issued) /\ Entries(<<>>) \subseteq Entries(<<>>)
  BY NothingApart DEF Through
<1>4. Shown(BlankGrid, <<>>, 0, <<>>, <<>>)
  <2>1. Replay(<<>>, 0) = BlankGrid
    BY ReplayNothing
  <2> QED BY <2>1, NothingApart, ShownMeans
<1> QED
  BY <1>1, <1>2, <1>3, <1>4 DEF Calm, Agree, HeldCameFirst

(* The inductive invariant of a page that no lost connection and no batch  *)
(* has disturbed, with messages in order: nothing that a reload or a load  *)
(* from the store sends twice disagrees with what the page shows.          *)
THEOREM PageInvariance == (~Reorder /\ ~LocalConflicts) => (OfflineSpec => []PageInv)
<1> SUFFICES ASSUME ~Reorder, ~LocalConflicts PROVE OfflineSpec => []PageInv
  OBVIOUS
<1>1. OfflineInit => PageInv
  BY PageInitially
<1>2. OfflineInv /\ PageInv /\ [OfflineNext]_<<vars, offlineVars>> => PageInv'
  BY PageNext
<1> QED
  BY <1>1, <1>2, OfflineInvariance, PTL DEF OfflineSpec

(* Every cell shows the log with the unsaved transactions on top, or is    *)
(* still to be written by something of the page's own that it will take    *)
(* for somebody else's (loadTransactions, received_transactions).          *)
THEOREM CellsAreShownOrAwaited ==
  (~Reorder /\ ~LocalConflicts) => (OfflineSpec => []ShownOrAwaited)
<1> SUFFICES ASSUME ~Reorder, ~LocalConflicts PROVE OfflineSpec => []ShownOrAwaited
  OBVIOUS
<1>1. PageInv => ShownOrAwaited
  BY DEF PageInv, ShownOrAwaited
<1> QED
  BY <1>1, PageInvariance, PTL

LEMMA SettledPage ==
  ASSUME OfflineInv, PageInv
  PROVE  SettledPageIsInSync
<1> SUFFICES ASSUME Undisturbed, unsaved_transactions = <<>>, to_server = <<>>,
                    last_sequence_num = Len(log)
             PROVE  grid = Replay(log, Len(log))
  BY DEF SettledPageIsInSync
<1>1. Calm
  BY CalmMeans
<1>2. Shown(grid, log, Len(log), <<>>, <<>>)
  BY <1>1 DEF Calm
<1>3. \A c \in Cell : ~Expected(log, Len(log), <<>>, <<>>, c)
  BY <1>1, NothingApart, CalmTypes DEF Expected, Coming, Sends
<1>4. \A c \in Cell : grid[c] = Replay(log, Len(log))[c]
  BY <1>2, <1>3, NothingApart, ShownMeans DEF Uncovered
<1>5. grid \in Grid /\ Replay(log, Len(log)) \in Grid
  BY <1>1, CalmTypes, ReplayType DEF OfflineInv, IndInv, TypeOK, ClientTypeOK
<1> HIDE DEF Expected
<1> QED
  BY <1>4, <1>5 DEF Grid

(* A page that has settled shows what everybody does, however often it was *)
(* reloaded and whatever of it the server numbered twice: for all cells,   *)
(* edits and bounds, and with copies of earlier pages still under way.     *)
THEOREM SettledPages == (~Reorder /\ ~LocalConflicts) => (OfflineSpec => []SettledPageIsInSync)
<1> SUFFICES ASSUME ~Reorder, ~LocalConflicts PROVE OfflineSpec => []SettledPageIsInSync
  OBVIOUS
<1>1. OfflineInv /\ PageInv => SettledPageIsInSync
  BY SettledPage
<1> QED
  BY <1>1, OfflineInvariance, PageInvariance, PTL
=============================================================================
