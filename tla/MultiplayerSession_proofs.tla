--------------------- MODULE MultiplayerSession_proofs ---------------------
(***************************************************************************)
(* Theorems about a session, for all cells, values, edits and bounds, and  *)
(* whatever is reordered, lost or in conflict: the types, that the cells   *)
(* the user has not written follow the log, and that no work is lost.      *)
(***************************************************************************)
EXTENDS MultiplayerSession, GridClient_proofs

(* IndInv, said of the record the receiving functions work on.             *)
LEMMA CoreStateIsSound ==
  ASSUME IndInv
  PROVE  CoreState \in Sound(log, edited) /\ OwnInLog(log, edited)
<1>1. CoreState \in Core
  BY DEF IndInv, TypeOK, ClientTypeOK, CoreState, Core
<1>2. DOMAIN log = 1..Len(log)
  BY LenProperties DEF IndInv, TypeOK
<1> QED
  BY <1>1, <1>2 DEF IndInv, OwnWorkIsEdited, InFlightIsLogged, StashMatchesLog,
     UntouchedCellsFollowLog, CoreState, Sound, OwnInLog, Numbered, OwnEntry, IsOwn

(* A sound state that becomes the client's satisfies what IndInv says of   *)
(* its parts.                                                              *)
LEMMA SoundCoreIsInvariant ==
  ASSUME IndInv, NEW s \in Sound(log, edited), BecomesCore(s), requests' = requests,
         UNCHANGED <<log, connected, joined, disconnects, must_reload>>,
         broadcasts' \subseteq broadcasts, replies' \subseteq replies
  PROVE  IndInv'
<1>1. s \in Core
  BY DEF Sound
<1>2. DOMAIN log = 1..Len(log)
  BY LenProperties DEF IndInv, TypeOK
<1>3. /\ grid' = s.grid /\ unsaved_transactions' = s.unsaved /\ last_sequence_num' = s.last
      /\ out_of_order_transactions' = s.stash
      /\ UNCHANGED <<async_transactions, undo_stack, redo_stack, issued, to_server, edited>>
  BY DEF BecomesCore
<1>4. TypeOK'
  BY <1>1, <1>3 DEF IndInv, TypeOK, ClientTypeOK, Core
<1>5. OwnWorkIsEdited'
  <2>1. \A i \in DOMAIN s.unsaved : OwnEntry(edited, s.unsaved[i])
    BY DEF Sound
  <2> QED BY <1>3, <2>1 DEF IndInv, OwnWorkIsEdited, OwnEntry, IsOwn
<1>6. InFlightIsLogged'
  BY <1>3 DEF IndInv, InFlightIsLogged, Sound
<1>7. StashMatchesLog'
  <2>1. \A i \in DOMAIN s.stash : Numbered(log, s.stash[i])
    BY DEF Sound
  <2> QED BY <1>2, <1>3, <2>1 DEF StashMatchesLog, Numbered
<1>8. UntouchedCellsFollowLog'
  BY <1>3 DEF Sound, UntouchedCellsFollowLog
<1> QED
  BY <1>4, <1>5, <1>6, <1>7, <1>8 DEF IndInv

LEMMA InitInv == Init => IndInv
<1> SUFFICES ASSUME Init PROVE IndInv
  OBVIOUS
<1>1. /\ unsaved_transactions = <<>> /\ out_of_order_transactions = <<>> /\ log = <<>>
      /\ async_transactions = <<>> /\ undo_stack = <<>> /\ redo_stack = <<>> /\ to_server = <<>>
      /\ last_sequence_num = 0 /\ requests = {} /\ broadcasts = {} /\ replies = {}
  BY DEF Init, ClientInit
<1>2. Len(<<>>) = 0 /\ DOMAIN <<>> = {}
  BY EmptySeq
<1>3. TypeOK
  <2>1. ClientTypeOK
    BY EmptySeq, BlankGridType DEF Init, ClientInit, ClientTypeOK
  <2> QED BY <2>1, EmptySeq DEF Init, TypeOK
<1>4. grid = BlankGrid /\ Replay(log, 0) = BlankGrid
  BY ReplayNothing DEF Init, ClientInit
<1> QED
  BY <1>1, <1>2, <1>3, <1>4 DEF IndInv, OwnWorkIsEdited, InFlightIsLogged, StashMatchesLog,
     UntouchedCellsFollowLog

-----------------------------------------------------------------------------
(* Receiving.                                                              *)

LEMMA ReceiveTransactionInv ==
  ASSUME IndInv, NEW n \in broadcasts, ReceiveTransaction(n)
  PROVE  IndInv' /\ last_sequence_num' >= last_sequence_num
<1> DEFINE s == ClientApply(CoreState, log[n].id, n, log[n].writes)
<1>1. n \in 1..Len(log) /\ log \in Seq(SentTransaction)
  BY LenProperties DEF IndInv, TypeOK, InFlightIsLogged
<1>2. s \in Sound(log, edited) /\ s.last >= CoreState.last
  BY <1>1, CoreStateIsSound, ClientApplySound
<1>3. BecomesCore(s) /\ requests' = requests
      /\ UNCHANGED <<log, replies, connected, joined, disconnects, must_reload>>
      /\ broadcasts' \subseteq broadcasts
  BY DEF ReceiveTransaction, ReceivedTransaction
<1> HIDE DEF s
<1>4. IndInv'
  BY <1>2, <1>3, SoundCoreIsInvariant
<1>5. last_sequence_num' = s.last /\ CoreState.last = last_sequence_num
  BY <1>3 DEF BecomesCore, CoreState
<1> QED
  BY <1>2, <1>4, <1>5

(* A reply is a part of the log.                                           *)
LEMMA RepliesAreLogged ==
  ASSUME IndInv, NEW r \in replies
  PROVE  LET batch == SubSeq(log, r.from, r.to)
         IN  /\ batch \in Seq(SentTransaction) /\ r.from \in Nat
             /\ \A i \in 1..Len(batch) :
                  /\ r.from + i - 1 \in 1..Len(log) /\ batch[i] = log[r.from + i - 1]
                  /\ r.from + i - 1 \in r.from..r.to
<1> DEFINE batch == SubSeq(log, r.from, r.to)
<1>1. /\ log \in Seq(SentTransaction) /\ Len(log) \in Nat
      /\ r.from \in Nat /\ r.from >= 1 /\ r.to \in Nat /\ r.to <= Len(log)
  BY LenProperties DEF IndInv, TypeOK, InFlightIsLogged, Reply
<1>2. \A i \in (r.from)..(r.to) : i \in 1..Len(log) /\ log[i] \in SentTransaction
  BY <1>1, ElementOfSeq
<1>3. CASE r.from <= r.to
  <2>1. batch \in Seq(SentTransaction) /\ Len(batch) = r.to - r.from + 1
        /\ \A i \in 1..(r.to - r.from + 1) : batch[i] = log[r.from + i - 1]
    BY <1>1, <1>2, <1>3, SubSeqProperties
  <2> HIDE DEF batch
  <2>2. \A i \in 1..(r.to - r.from + 1) :
          r.from + i - 1 \in 1..Len(log) /\ r.from + i - 1 \in r.from..r.to
    BY <1>1
  <2>3. \A i \in 1..Len(batch) :
          /\ r.from + i - 1 \in 1..Len(log) /\ batch[i] = log[r.from + i - 1]
          /\ r.from + i - 1 \in r.from..r.to
    BY <2>1, <2>2
  <2> QED BY <1>1, <2>1, <2>3 DEF batch
<1>4. CASE r.from > r.to
  BY <1>1, <1>4, SubSeqEmpty, EmptySeq
<1> QED
  BY <1>1, <1>3, <1>4

LEMMA ReceiveTransactionsInv ==
  ASSUME IndInv, NEW r \in replies, ReceiveTransactions(r)
  PROVE  IndInv' /\ last_sequence_num' >= last_sequence_num
<1> DEFINE batch == SubSeq(log, r.from, r.to)
           s == ApplyBatch(CoreState, batch, r.from)
<1>1. log \in Seq(SentTransaction)
  BY DEF IndInv, TypeOK
<1>2. /\ batch \in Seq(SentTransaction) /\ r.from \in Nat
      /\ \A i \in 1..Len(batch) :
           r.from + i - 1 \in 1..Len(log) /\ batch[i] = log[r.from + i - 1]
  BY RepliesAreLogged
<1>3. s \in Sound(log, edited) /\ s.last >= CoreState.last
  <2> HIDE DEF batch
  <2> QED BY <1>1, <1>2, CoreStateIsSound, ApplyBatchSound
<1>4. BecomesCore(s) /\ requests' = requests
      /\ UNCHANGED <<log, broadcasts, connected, joined, disconnects, must_reload>>
      /\ replies' \subseteq replies
  BY DEF ReceiveTransactions, ReceivedTransactions
<1> HIDE DEF s
<1>5. IndInv'
  BY <1>3, <1>4, SoundCoreIsInvariant
<1>6. last_sequence_num' = s.last /\ CoreState.last = last_sequence_num
  BY <1>4 DEF BecomesCore, CoreState
<1> QED
  BY <1>3, <1>5, <1>6

-----------------------------------------------------------------------------
(* The user's own transactions.                                            *)

Stack(E) == {q \in Seq(Writes) : \A i \in DOMAIN q : DOMAIN q[i] \subseteq E}
Waiting(E) == {q \in Seq(UnsavedTransaction) : \A i \in DOMAIN q : OwnEntry(E, q[i])}
Sending(E) ==
  {q \in Seq(SentTransaction) :
     \A i \in DOMAIN q : q[i].id # Foreign /\ DOMAIN q[i].writes \subseteq E}

LEMMA IndInvSequences ==
  ASSUME IndInv
  PROVE  /\ undo_stack \in Stack(edited) /\ redo_stack \in Stack(edited)
         /\ async_transactions \in Waiting(edited) /\ unsaved_transactions \in Waiting(edited)
         /\ to_server \in Sending(edited)
BY DEF IndInv, TypeOK, ClientTypeOK, OwnWorkIsEdited, Stack, Waiting, Sending, OwnEntry, IsOwn

LEMMA StackTopPop ==
  ASSUME NEW E, NEW q \in Stack(E), q # <<>>
  PROVE  Top(q) \in Writes /\ DOMAIN Top(q) \subseteq E /\ Pop(q) \in Stack(E)
<1>1. q \in Seq(Writes) /\ Len(q) \in Nat /\ DOMAIN q = 1..Len(q)
      /\ \A i \in 1..Len(q) : q[i] \in Writes
  BY LenProperties, ElementOfSeq DEF Stack
<1>2. Len(q) # 0
  BY <1>1, EmptySeq
<1>3. Top(q) \in Writes /\ DOMAIN Top(q) \subseteq E
  BY <1>1, <1>2 DEF Top, Stack
<1>4. /\ Pop(q) \in Seq(Writes) /\ Len(Pop(q)) = Len(q) - 1
      /\ \A i \in 1..(Len(q) - 1) : Pop(q)[i] = q[i]
  <2> DEFINE n == Len(q) - 1
  <2>1. n \in Nat /\ 1 \in Int /\ \A i \in 1..n : q[i] \in Writes
    BY <1>1, <1>2
  <2> HIDE DEF n
  <2>2. /\ SubSeq(q, 1, n) \in Seq(Writes)
        /\ Len(SubSeq(q, 1, n)) = IF 1 <= n THEN n - 1 + 1 ELSE 0
        /\ \A i \in 1..(n - 1 + 1) : SubSeq(q, 1, n)[i] = q[1 + i - 1]
    BY <2>1, SubSeqProperties
  <2>3. /\ Len(SubSeq(q, 1, n)) = n
        /\ \A i \in 1..n : SubSeq(q, 1, n)[i] = q[i]
    BY <2>1, <2>2
  <2> QED BY <2>2, <2>3 DEF Pop, n
<1>5. DOMAIN Pop(q) = 1..(Len(q) - 1)
  BY <1>4, LenProperties
<1>6. \A i \in DOMAIN Pop(q) : DOMAIN Pop(q)[i] \subseteq E
  BY <1>1, <1>4, <1>5 DEF Stack
<1> QED
  BY <1>3, <1>4, <1>6 DEF Stack

LEMMA AppendElements ==
  ASSUME NEW S, NEW q \in Seq(S), NEW e \in S
  PROVE  /\ Append(q, e) \in Seq(S)
         /\ \A j \in DOMAIN Append(q, e) :
              Append(q, e)[j] = e \/ \E k \in DOMAIN q : Append(q, e)[j] = q[k]
<1>1. Len(q) \in Nat /\ DOMAIN q = 1..Len(q)
  BY LenProperties
<1>2. /\ Append(q, e) \in Seq(S) /\ Len(Append(q, e)) = Len(q) + 1
      /\ \A i \in 1..Len(q) : Append(q, e)[i] = q[i]
      /\ Append(q, e)[Len(q) + 1] = e
  BY AppendProperties
<1>3. DOMAIN Append(q, e) = 1..(Len(q) + 1)
  BY <1>2, LenProperties
<1> QED
  BY <1>1, <1>2, <1>3

LEMMA AppendOwn ==
  ASSUME NEW E, NEW D, E \subseteq D
  PROVE  /\ Stack(E) \subseteq Stack(D) /\ Waiting(E) \subseteq Waiting(D)
         /\ Sending(E) \subseteq Sending(D) /\ <<>> \in Stack(D)
         /\ \A q \in Stack(E), w \in Writes :
              DOMAIN w \subseteq D => Append(q, w) \in Stack(D)
         /\ \A q \in Waiting(E), t \in UnsavedTransaction :
              OwnEntry(D, t) => Append(q, t) \in Waiting(D)
         /\ \A q \in Sending(E), t \in SentTransaction :
              (t.id # Foreign /\ DOMAIN t.writes \subseteq D) => Append(q, t) \in Sending(D)
         /\ \A q \in Waiting(E), t \in UnsavedTransaction :
              OwnEntry(D, t) => InsertOrReplace(q, t) \in Waiting(D)
<1>1. /\ Stack(E) \subseteq Stack(D) /\ Waiting(E) \subseteq Waiting(D)
      /\ Sending(E) \subseteq Sending(D)
  BY DEF Stack, Waiting, Sending, OwnEntry
<1>2. <<>> \in Stack(D)
  BY EmptySeq DEF Stack
<1>3. ASSUME NEW q \in Stack(E), NEW w \in Writes, DOMAIN w \subseteq D
      PROVE  Append(q, w) \in Stack(D)
  <2> DEFINE p == Append(q, w)
  <2>1. q \in Stack(D) /\ q \in Seq(Writes)
    BY <1>1 DEF Stack
  <2>2. p \in Seq(Writes) /\ \A j \in DOMAIN p : p[j] = w \/ \E k \in DOMAIN q : p[j] = q[k]
    BY <2>1, AppendElements
  <2> HIDE DEF p
  <2>3. p \in Stack(D)
    BY <1>3, <2>1, <2>2 DEF Stack
  <2> QED BY <2>3 DEF p
<1>4. ASSUME NEW q \in Waiting(E), NEW t \in UnsavedTransaction, OwnEntry(D, t)
      PROVE  Append(q, t) \in Waiting(D)
  <2> DEFINE p == Append(q, t)
  <2>1. q \in Waiting(D) /\ q \in Seq(UnsavedTransaction)
    BY <1>1 DEF Waiting
  <2>2. p \in Seq(UnsavedTransaction) /\ \A j \in DOMAIN p : p[j] = t \/ \E k \in DOMAIN q : p[j] = q[k]
    BY <2>1, AppendElements
  <2> HIDE DEF p
  <2>3. p \in Waiting(D)
    BY <1>4, <2>1, <2>2 DEF Waiting
  <2> QED BY <2>3 DEF p
<1>5. ASSUME NEW q \in Sending(E), NEW t \in SentTransaction, t.id # Foreign,
             DOMAIN t.writes \subseteq D
      PROVE  Append(q, t) \in Sending(D)
  <2> DEFINE p == Append(q, t)
  <2>1. q \in Sending(D) /\ q \in Seq(SentTransaction)
    BY <1>1 DEF Sending
  <2>2. p \in Seq(SentTransaction) /\ \A j \in DOMAIN p : p[j] = t \/ \E k \in DOMAIN q : p[j] = q[k]
    BY <2>1, AppendElements
  <2> HIDE DEF p
  <2>3. p \in Sending(D)
    BY <1>5, <2>1, <2>2 DEF Sending
  <2> QED BY <2>3 DEF p
<1>6. ASSUME NEW q \in Waiting(E), NEW t \in UnsavedTransaction, OwnEntry(D, t)
      PROVE  InsertOrReplace(q, t) \in Waiting(D)
  <2>1. q \in Waiting(D)
    BY <1>1
  <2>2. q \in Seq(UnsavedTransaction) /\ \A i \in DOMAIN q : OwnEntry(D, q[i])
    BY <2>1 DEF Waiting
  <2> DEFINE p == InsertOrReplace(q, t)
  <2>3. p \in Seq(UnsavedTransaction) /\ \A j \in DOMAIN p : p[j] = t \/ \E k \in DOMAIN q : p[j] = q[k]
    BY <2>2, InsertOrReplaceType
  <2> HIDE DEF p
  <2>4. p \in Waiting(D)
    BY <1>6, <2>2, <2>3 DEF Waiting
  <2> QED BY <2>4 DEF p
<1> QED
  BY <1>1, <1>2, <1>3, <1>4, <1>5, <1>6

(* Executing writes of cells that count as edited from now on.             *)
LEMMA OwnExecutionInv ==
  ASSUME IndInv, NEW w \in Writes,
         grid' = Overlay(grid, w), edited' \in SUBSET Cell,
         edited \subseteq edited', DOMAIN w \subseteq edited',
         unsaved_transactions' \in Waiting(edited'),
         async_transactions' \in Waiting(edited'),
         undo_stack' \in Stack(edited'), redo_stack' \in Stack(edited'),
         to_server' \in Sending(edited'), issued' \in Nat,
         UNCHANGED <<out_of_order_transactions, last_sequence_num, requests, netVars>>
  PROVE  IndInv'
<1>1. UNCHANGED <<log, broadcasts, replies, connected, joined, disconnects, must_reload>>
  BY DEF netVars
<1>2. TypeOK'
  <2>1. grid' \in Grid
    BY OverlayType DEF IndInv, TypeOK, ClientTypeOK
  <2>2. ClientTypeOK'
    BY <2>1 DEF IndInv, TypeOK, ClientTypeOK, Stack, Waiting, Sending
  <2> QED BY <1>1, <2>2 DEF IndInv, TypeOK
<1>3. OwnWorkIsEdited'
  BY <1>1 DEF IndInv, OwnWorkIsEdited, Stack, Waiting, Sending, OwnEntry, IsOwn
<1>4. InFlightIsLogged'
  BY <1>1 DEF IndInv, InFlightIsLogged
<1>5. StashMatchesLog'
  BY <1>1 DEF IndInv, StashMatchesLog
<1>6. UntouchedCellsFollowLog'
  BY <1>1 DEF IndInv, UntouchedCellsFollowLog, Overlay
<1> QED
  BY <1>2, <1>3, <1>4, <1>5, <1>6 DEF IndInv

(* The transactions that executing w makes.                                *)
LEMMA ExecutionsType ==
  ASSUME IndInv, NEW w \in Writes, NEW t \in Executions(w)
  PROVE  /\ t \in UnsavedTransaction /\ t.reverse \in Writes
         /\ DOMAIN t.reverse \subseteq DOMAIN w
         /\ OwnEntry(DOMAIN w, t)
         /\ [id |-> t.id, writes |-> t.forward] \in SentTransaction
<1>1. grid \in Grid /\ issued + 1 \in Nat /\ issued + 1 # 0
  BY DEF IndInv, TypeOK, ClientTypeOK
<1>2. PICK D \in Recorded(grid, w) :
        t = [id |-> issued + 1, forward |-> ForwardOf(w, D), reverse |-> ReverseOf(grid, D)]
  BY DEF Executions
<1> QED
  BY <1>1, <1>2, RecordedType DEF UnsavedTransaction, SentTransaction, TransactionId, OwnEntry,
     Foreign

(* An entry whose cells lie in E is one of any larger set.                 *)
LEMMA OwnEntryMonotone ==
  ASSUME NEW E, NEW D, E \subseteq D, NEW u, OwnEntry(E, u)
  PROVE  OwnEntry(D, u)
BY DEF OwnEntry

LEMMA EditInv ==
  ASSUME IndInv, NEW w \in Writes, UserTransaction(w), UNCHANGED netVars
  PROVE  IndInv'
<1>1. PICK t \in Executions(w) :
        KeepAndSend(t) /\ undo_stack' = Append(undo_stack, t.reverse)
  BY DEF UserTransaction
<1>2. grid' = Overlay(grid, w) /\ edited' = edited \cup DOMAIN w /\ redo_stack' = <<>>
      /\ issued' = issued + 1
      /\ UNCHANGED <<out_of_order_transactions, last_sequence_num, async_transactions, requests>>
  BY DEF UserTransaction
<1>3. edited' \in SUBSET Cell /\ edited \subseteq edited' /\ DOMAIN w \subseteq edited'
      /\ issued' \in Nat
  BY <1>2, WritesType DEF IndInv, TypeOK, ClientTypeOK
<1>4. t \in UnsavedTransaction /\ t.reverse \in Writes /\ DOMAIN t.reverse \subseteq edited'
      /\ OwnEntry(edited', t) /\ [id |-> t.id, writes |-> t.forward] \in SentTransaction
  BY <1>3, ExecutionsType, OwnEntryMonotone
<1>5. undo_stack' \in Stack(edited') /\ redo_stack' \in Stack(edited')
      /\ unsaved_transactions' \in Waiting(edited') /\ async_transactions' \in Waiting(edited')
  BY <1>1, <1>2, <1>3, <1>4, IndInvSequences, AppendOwn DEF KeepAndSend
<1>6. to_server' \in Sending(edited')
  BY <1>1, <1>3, <1>4, IndInvSequences, AppendOwn DEF KeepAndSend, OwnEntry
<1> QED
  BY <1>2, <1>3, <1>5, <1>6, OwnExecutionInv

LEMMA RunCodeInv ==
  ASSUME IndInv, NEW w \in Writes, StartAsyncTransaction(w), UNCHANGED netVars
  PROVE  IndInv'
<1>1. PICK t \in Executions(w) :
        /\ unsaved_transactions' = InsertOrReplace(unsaved_transactions, t)
        /\ async_transactions' = Append(async_transactions, t)
  BY DEF StartAsyncTransaction
<1>2. grid' = Overlay(grid, w) /\ edited' = edited \cup DOMAIN w /\ issued' = issued + 1
      /\ UNCHANGED <<out_of_order_transactions, last_sequence_num, undo_stack, redo_stack,
                     to_server, requests>>
  BY DEF StartAsyncTransaction
<1>3. edited' \in SUBSET Cell /\ edited \subseteq edited' /\ DOMAIN w \subseteq edited'
      /\ issued' \in Nat
  BY <1>2, WritesType DEF IndInv, TypeOK, ClientTypeOK
<1>4. t \in UnsavedTransaction /\ OwnEntry(edited', t)
  BY <1>3, ExecutionsType, OwnEntryMonotone
<1>5. undo_stack' \in Stack(edited') /\ redo_stack' \in Stack(edited')
      /\ unsaved_transactions' \in Waiting(edited') /\ async_transactions' \in Waiting(edited')
      /\ to_server' \in Sending(edited')
  BY <1>1, <1>2, <1>3, <1>4, IndInvSequences, AppendOwn
<1> QED
  BY <1>2, <1>3, <1>5, OwnExecutionInv

(* The transactions that a result makes of the k-th waiting one.           *)
LEMMA CompletionsType ==
  ASSUME IndInv, NEW k \in DOMAIN async_transactions, NEW r \in Writes,
         NEW t \in Completions(async_transactions[k], r)
  PROVE  /\ t \in UnsavedTransaction /\ t.reverse \in Writes
         /\ DOMAIN t.reverse \subseteq edited \cup DOMAIN r
         /\ OwnEntry(edited \cup DOMAIN r, t)
         /\ [id |-> t.id, writes |-> t.forward] \in SentTransaction
<1> DEFINE a == async_transactions[k]
<1>1. async_transactions \in Seq(UnsavedTransaction) /\ k \in 1..Len(async_transactions)
      /\ \A i \in DOMAIN async_transactions : OwnEntry(edited, async_transactions[i])
  BY IndInvSequences, LenProperties DEF Waiting
<1>2. a \in UnsavedTransaction /\ OwnEntry(edited, a)
  BY <1>1, ElementOfSeq
<1>3. PICK D \in Recorded(grid, r) :
        t = [id |-> a.id, forward |-> Merge(a.forward, ForwardOf(r, D)),
             reverse |-> Merge(a.reverse, ReverseOf(grid, D))]
  BY DEF Completions
<1>4. grid \in Grid
  BY DEF IndInv, TypeOK, ClientTypeOK
<1>5. /\ D \subseteq DOMAIN r
      /\ ForwardOf(r, D) \in Writes /\ DOMAIN ForwardOf(r, D) = D
      /\ ReverseOf(grid, D) \in Writes /\ DOMAIN ReverseOf(grid, D) = D
  BY <1>4, RecordedType
<1>6. a.forward \in Writes /\ a.reverse \in Writes /\ a.id \in TransactionId
  BY <1>2 DEF UnsavedTransaction
<1> DEFINE f == ForwardOf(r, D)
           b == ReverseOf(grid, D)
           af == a.forward
           ar == a.reverse
<1>7. /\ f \in Writes /\ DOMAIN f = D /\ b \in Writes /\ DOMAIN b = D
      /\ af \in Writes /\ ar \in Writes
  BY <1>5, <1>6
<1> HIDE DEF f, b, af, ar
<1>8. /\ Merge(af, f) \in Writes /\ DOMAIN Merge(af, f) = DOMAIN af \cup DOMAIN f
      /\ Merge(ar, b) \in Writes /\ DOMAIN Merge(ar, b) = DOMAIN ar \cup DOMAIN b
  BY <1>7, MergeType
<1>9. /\ t.forward \in Writes /\ DOMAIN t.forward = DOMAIN a.forward \cup D
      /\ t.reverse \in Writes /\ DOMAIN t.reverse = DOMAIN a.reverse \cup D
      /\ t.id = a.id
  BY <1>3, <1>7, <1>8 DEF f, b, af, ar
<1>10. /\ DOMAIN t.forward \subseteq edited \cup DOMAIN r
       /\ DOMAIN t.reverse \subseteq edited \cup DOMAIN r
       /\ a.id # Foreign
  BY <1>2, <1>5, <1>9 DEF OwnEntry
<1>11. t = [id |-> t.id, forward |-> t.forward, reverse |-> t.reverse]
  BY <1>3
<1> QED
  BY <1>6, <1>9, <1>10, <1>11 DEF UnsavedTransaction, SentTransaction, OwnEntry

LEMMA CodeCompletesInv ==
  ASSUME IndInv, NEW k, NEW r \in Writes, CalculationComplete(k, r), UNCHANGED netVars
  PROVE  IndInv'
<1> DEFINE a == async_transactions[k]
<1>1. PICK t \in Completions(a, r) :
        KeepAndSend(t) /\ undo_stack' = Append(undo_stack, t.reverse)
  BY DEF CalculationComplete
<1>2. grid' = Overlay(grid, r) /\ edited' = edited \cup DOMAIN r /\ redo_stack' = <<>>
      /\ k \in DOMAIN async_transactions
      /\ async_transactions' = WithoutIndex(async_transactions, k)
      /\ UNCHANGED <<out_of_order_transactions, last_sequence_num, issued, requests>>
  BY DEF CalculationComplete
<1>3. edited' \in SUBSET Cell /\ edited \subseteq edited' /\ DOMAIN r \subseteq edited'
      /\ issued' \in Nat
  BY <1>2, WritesType DEF IndInv, TypeOK, ClientTypeOK
<1>4. async_transactions \in Seq(UnsavedTransaction) /\ k \in 1..Len(async_transactions)
      /\ \A i \in DOMAIN async_transactions : OwnEntry(edited, async_transactions[i])
  BY <1>2, IndInvSequences, LenProperties DEF Waiting
<1>6. t \in UnsavedTransaction /\ t.reverse \in Writes /\ DOMAIN t.reverse \subseteq edited'
      /\ OwnEntry(edited', t) /\ [id |-> t.id, writes |-> t.forward] \in SentTransaction
  BY <1>1, <1>2, CompletionsType
<1>7. async_transactions' \in Waiting(edited')
  <2> DEFINE q == WithoutIndex(async_transactions, k)
  <2>1. /\ q \in Seq(UnsavedTransaction)
        /\ \A j \in DOMAIN q : \E i \in DOMAIN async_transactions : q[j] = async_transactions[i]
    BY <1>4, WithoutIndexType
  <2> HIDE DEF q
  <2>2. \A j \in DOMAIN q : OwnEntry(edited', q[j])
    BY <1>3, <1>4, <2>1, OwnEntryMonotone
  <2>3. q \in Waiting(edited')
    BY <2>1, <2>2 DEF Waiting
  <2> QED BY <1>2, <2>3 DEF q
<1>8. undo_stack' \in Stack(edited') /\ redo_stack' \in Stack(edited')
      /\ unsaved_transactions' \in Waiting(edited')
  BY <1>1, <1>2, <1>3, <1>6, IndInvSequences, AppendOwn DEF KeepAndSend
<1>9. to_server' \in Sending(edited')
  BY <1>1, <1>3, <1>6, IndInvSequences, AppendOwn DEF KeepAndSend, OwnEntry
<1> QED
  BY <1>2, <1>3, <1>7, <1>8, <1>9, OwnExecutionInv

LEMMA UndoInv ==
  ASSUME IndInv, Undo, UNCHANGED netVars
  PROVE  IndInv'
<1> DEFINE w == Top(undo_stack)
<1>1. PICK t \in Executions(w) :
        KeepAndSend(t) /\ redo_stack' = Append(redo_stack, t.reverse)
  BY DEF Undo
<1>2. grid' = Overlay(grid, w) /\ undo_stack' = Pop(undo_stack) /\ issued' = issued + 1
      /\ UNCHANGED <<out_of_order_transactions, last_sequence_num, async_transactions, requests,
                     edited>>
  BY DEF Undo
<1>3. w \in Writes /\ DOMAIN w \subseteq edited /\ Pop(undo_stack) \in Stack(edited)
  BY IndInvSequences, StackTopPop DEF Undo
<1>4. edited \in SUBSET Cell /\ issued' \in Nat
  BY <1>2 DEF IndInv, TypeOK, ClientTypeOK
<1> HIDE DEF w
<1>5. t \in UnsavedTransaction /\ t.reverse \in Writes /\ DOMAIN t.reverse \subseteq edited
      /\ OwnEntry(edited, t) /\ [id |-> t.id, writes |-> t.forward] \in SentTransaction
  BY <1>3, ExecutionsType, OwnEntryMonotone
<1>6. undo_stack' \in Stack(edited) /\ redo_stack' \in Stack(edited)
      /\ unsaved_transactions' \in Waiting(edited) /\ async_transactions' \in Waiting(edited)
  BY <1>1, <1>2, <1>3, <1>5, IndInvSequences, AppendOwn DEF KeepAndSend
<1>7. to_server' \in Sending(edited)
  BY <1>1, <1>5, IndInvSequences, AppendOwn DEF KeepAndSend, OwnEntry
<1> QED
  BY <1>2, <1>3, <1>4, <1>6, <1>7, OwnExecutionInv

LEMMA RedoInv ==
  ASSUME IndInv, Redo, UNCHANGED netVars
  PROVE  IndInv'
<1> DEFINE w == Top(redo_stack)
<1>1. PICK t \in Executions(w) :
        KeepAndSend(t) /\ undo_stack' = Append(undo_stack, t.reverse)
  BY DEF Redo
<1>2. grid' = Overlay(grid, w) /\ redo_stack' = Pop(redo_stack) /\ issued' = issued + 1
      /\ UNCHANGED <<out_of_order_transactions, last_sequence_num, async_transactions, requests,
                     edited>>
  BY DEF Redo
<1>3. w \in Writes /\ DOMAIN w \subseteq edited /\ Pop(redo_stack) \in Stack(edited)
  BY IndInvSequences, StackTopPop DEF Redo
<1>4. edited \in SUBSET Cell /\ issued' \in Nat
  BY <1>2 DEF IndInv, TypeOK, ClientTypeOK
<1> HIDE DEF w
<1>5. t \in UnsavedTransaction /\ t.reverse \in Writes /\ DOMAIN t.reverse \subseteq edited
      /\ OwnEntry(edited, t) /\ [id |-> t.id, writes |-> t.forward] \in SentTransaction
  BY <1>3, ExecutionsType, OwnEntryMonotone
<1>6. undo_stack' \in Stack(edited) /\ redo_stack' \in Stack(edited)
      /\ unsaved_transactions' \in Waiting(edited) /\ async_transactions' \in Waiting(edited)
  BY <1>1, <1>2, <1>3, <1>5, IndInvSequences, AppendOwn DEF KeepAndSend
<1>7. to_server' \in Sending(edited)
  BY <1>1, <1>5, IndInvSequences, AppendOwn DEF KeepAndSend, OwnEntry
<1> QED
  BY <1>2, <1>3, <1>4, <1>6, <1>7, OwnExecutionInv

-----------------------------------------------------------------------------
(* The server and the network.                                             *)

LEMMA CommitInv ==
  ASSUME IndInv, NEW t \in SentTransaction, t.id # Foreign => DOMAIN t.writes \subseteq edited,
         Commit(t), to_server' \in Sending(edited),
         UNCHANGED <<grid, unsaved_transactions, out_of_order_transactions, last_sequence_num,
                     async_transactions, undo_stack, redo_stack, issued, requests, edited,
                     replies, connected, joined, disconnects, must_reload>>
  PROVE  IndInv'
<1>1. log \in Seq(SentTransaction) /\ Len(log) \in Nat /\ DOMAIN log = 1..Len(log)
      /\ last_sequence_num \in Nat /\ last_sequence_num <= Len(log)
  BY LenProperties DEF IndInv, TypeOK, ClientTypeOK, InFlightIsLogged
<1>2. log' = Append(log, t)
  BY DEF Commit
<1>3. /\ log' \in Seq(SentTransaction) /\ Len(log') = Len(log) + 1
      /\ \A n \in 1..Len(log) : log'[n] = log[n]
      /\ log'[Len(log) + 1] = t
  BY <1>1, <1>2, AppendProperties
<1>4. DOMAIN log' = 1..(Len(log) + 1)
  BY <1>3, LenProperties
<1>5. broadcasts' \subseteq broadcasts \cup {Len(log) + 1}
  BY DEF Commit
<1>6. TypeOK'
  <2>1. broadcasts' \in SUBSET Nat
    BY <1>1, <1>5 DEF IndInv, TypeOK
  <2> QED BY <1>3, <2>1 DEF IndInv, TypeOK, ClientTypeOK, Sending
<1>7. OwnWorkIsEdited'
  <2>1. \A n \in DOMAIN log' : log'[n].id # Foreign => DOMAIN log'[n].writes \subseteq edited
    BY <1>1, <1>3, <1>4 DEF IndInv, OwnWorkIsEdited
  <2> QED BY <2>1 DEF IndInv, OwnWorkIsEdited, Sending, IsOwn
<1>8. InFlightIsLogged'
  <2>1. broadcasts' \subseteq DOMAIN log'
    BY <1>1, <1>4, <1>5 DEF IndInv, InFlightIsLogged
  <2>2. \A r \in replies : r.to <= Len(log) + 1
    BY <1>1 DEF IndInv, TypeOK, InFlightIsLogged, Reply
  <2> QED BY <1>1, <1>3, <2>1, <2>2 DEF IndInv, InFlightIsLogged
<1>9. StashMatchesLog'
  BY <1>1, <1>3, <1>4 DEF IndInv, StashMatchesLog
<1>10. UntouchedCellsFollowLog'
  <2>1. Replay(log', last_sequence_num) = Replay(log, last_sequence_num)
    BY <1>1, <1>2, ReplayAppend
  <2> QED BY <2>1 DEF IndInv, UntouchedCellsFollowLog
<1> QED
  BY <1>6, <1>7, <1>8, <1>9, <1>10 DEF IndInv

LEMMA SequenceInv == ASSUME IndInv, Sequence PROVE IndInv'
<1>1. to_server \in Seq(SentTransaction) /\ to_server # <<>>
      /\ DOMAIN to_server = 1..Len(to_server) /\ Len(to_server) \in Nat
      /\ \A i \in DOMAIN to_server :
           to_server[i].id # Foreign /\ DOMAIN to_server[i].writes \subseteq edited
  BY IndInvSequences, LenProperties DEF Sending, Sequence
<1>2. Len(to_server) # 0
  BY <1>1, EmptySeq
<1>3. Head(to_server) = to_server[1] /\ Head(to_server) \in SentTransaction
  BY <1>1, HeadTailProperties
<1>4. /\ Tail(to_server) \in Seq(SentTransaction) /\ Len(Tail(to_server)) = Len(to_server) - 1
      /\ \A i \in 1..Len(Tail(to_server)) : Tail(to_server)[i] = to_server[i + 1]
  BY <1>1, HeadTailProperties
<1>5. Tail(to_server) \in Sending(edited)
  <2>1. DOMAIN Tail(to_server) = 1..(Len(to_server) - 1)
    BY <1>4, LenProperties
  <2>2. \A i \in 1..(Len(to_server) - 1) :
          Tail(to_server)[i] = to_server[i + 1] /\ i + 1 \in 1..Len(to_server)
    BY <1>1, <1>2, <1>4
  <2> QED BY <1>1, <1>4, <2>1, <2>2 DEF Sending
<1>6. DOMAIN Head(to_server).writes \subseteq edited
  BY <1>1, <1>2, <1>3
<1> QED
  BY <1>3, <1>5, <1>6, CommitInv DEF Sequence

LEMMA RemoteCommitInv == ASSUME IndInv, RemoteCommit PROVE IndInv'
<1>1. PICK w \in RemoteEdits : Commit([id |-> Foreign, writes |-> w])
  BY DEF RemoteCommit
<1>2. [id |-> Foreign, writes |-> w] \in SentTransaction
  BY SessionAssumption DEF SentTransaction, TransactionId, Foreign
<1>3. UNCHANGED <<clientVars, replies, connected, joined, disconnects, must_reload>>
  BY DEF RemoteCommit
<1> QED
  BY <1>1, <1>2, <1>3, IndInvSequences, CommitInv DEF clientVars

LEMMA ServeRequestInv == ASSUME IndInv, NEW m \in requests, ServeRequest(m) PROVE IndInv'
<1>1. m \in Nat \ {0} /\ Len(log) \in Nat
  BY LenProperties DEF IndInv, TypeOK, ClientTypeOK, InFlightIsLogged
<1>2. /\ replies' \subseteq replies \cup {[from |-> m, to |-> Len(log)]}
      /\ requests' \subseteq requests
      /\ must_reload' \in BOOLEAN
      /\ UNCHANGED <<grid, unsaved_transactions, out_of_order_transactions, last_sequence_num,
                     async_transactions, undo_stack, redo_stack, issued, to_server, edited,
                     log, broadcasts, connected, joined, disconnects>>
  BY DEF ServeRequest, IndInv, TypeOK
<1>3. TypeOK'
  BY <1>1, <1>2 DEF IndInv, TypeOK, ClientTypeOK, Reply
<1>4. OwnWorkIsEdited' /\ StashMatchesLog' /\ UntouchedCellsFollowLog'
  BY <1>2 DEF IndInv, OwnWorkIsEdited, IsOwn, StashMatchesLog, UntouchedCellsFollowLog
<1>5. InFlightIsLogged'
  BY <1>1, <1>2 DEF IndInv, InFlightIsLogged
<1> QED
  BY <1>3, <1>4, <1>5 DEF IndInv

LEMMA ReceiveSequenceNumInv ==
  ASSUME IndInv, NEW k, ReceiveSequenceNum(k), UNCHANGED netVars PROVE IndInv'
<1>1. last_sequence_num + 1 \in Nat \ {0}
  BY DEF IndInv, TypeOK, ClientTypeOK
<1>2. /\ requests' \subseteq requests \cup {last_sequence_num + 1}
      /\ UNCHANGED <<grid, unsaved_transactions, out_of_order_transactions, last_sequence_num,
                     async_transactions, undo_stack, redo_stack, issued, to_server, edited,
                     log, broadcasts, replies, connected, joined, disconnects, must_reload>>
  BY DEF ReceiveSequenceNum, netVars
<1>3. TypeOK'
  BY <1>1, <1>2 DEF IndInv, TypeOK, ClientTypeOK
<1>4. OwnWorkIsEdited' /\ StashMatchesLog' /\ UntouchedCellsFollowLog'
  BY <1>2 DEF IndInv, OwnWorkIsEdited, IsOwn, StashMatchesLog, UntouchedCellsFollowLog
<1>5. InFlightIsLogged'
  BY <1>1, <1>2 DEF IndInv, InFlightIsLogged
<1> QED
  BY <1>3, <1>4, <1>5 DEF IndInv

LEMMA DisconnectInv == ASSUME IndInv, Disconnect PROVE IndInv'
<1>1. TypeOK'
  <2>1. to_server' \in Seq(SentTransaction)
    BY EmptySeq DEF Disconnect
  <2>2. requests' = {} /\ broadcasts' = {} /\ replies' = {} /\ connected' = FALSE
        /\ disconnects' \in Nat /\ joined' \in Nat
    BY LenProperties DEF Disconnect, IndInv, TypeOK
  <2>3. UNCHANGED <<grid, unsaved_transactions, out_of_order_transactions, last_sequence_num,
                    async_transactions, undo_stack, redo_stack, issued, edited, log, must_reload>>
    BY DEF Disconnect
  <2> QED BY <2>1, <2>2, <2>3 DEF IndInv, TypeOK, ClientTypeOK
<1>2. OwnWorkIsEdited' /\ StashMatchesLog' /\ UntouchedCellsFollowLog'
  BY EmptySeq DEF Disconnect, IndInv, OwnWorkIsEdited, IsOwn, StashMatchesLog,
     UntouchedCellsFollowLog
<1>3. InFlightIsLogged'
  BY DEF Disconnect, IndInv, InFlightIsLogged
<1> QED
  BY <1>1, <1>2, <1>3 DEF IndInv

LEMMA ReconnectInv == ASSUME IndInv, Reconnect PROVE IndInv'
<1>1. TypeOK'
  BY LenProperties DEF Reconnect, clientVars, IndInv, TypeOK, ClientTypeOK
<1>2. OwnWorkIsEdited' /\ StashMatchesLog' /\ UntouchedCellsFollowLog' /\ InFlightIsLogged'
  BY DEF Reconnect, clientVars, IndInv, OwnWorkIsEdited, IsOwn, StashMatchesLog,
     UntouchedCellsFollowLog, InFlightIsLogged
<1> QED
  BY <1>1, <1>2 DEF IndInv

LEMMA StutterInv == ASSUME IndInv, UNCHANGED vars PROVE IndInv'
BY DEF vars, clientVars, netVars, IndInv, TypeOK, ClientTypeOK, OwnWorkIsEdited, IsOwn,
   StashMatchesLog, UntouchedCellsFollowLog, InFlightIsLogged

-----------------------------------------------------------------------------

(* Every step keeps the invariant and never lowers the sequence number.    *)
LEMMA NextInv ==
  ASSUME IndInv, [Next]_vars
  PROVE  IndInv' /\ last_sequence_num' >= last_sequence_num
<1>1. last_sequence_num \in Nat
  BY DEF IndInv, TypeOK, ClientTypeOK
<1>2. CASE Edit
  <2>1. PICK w \in UserEdits : UserTransaction(w)
    BY <1>2 DEF Edit
  <2>2. last_sequence_num' = last_sequence_num
    BY <2>1 DEF UserTransaction
  <2> QED BY <1>1, <1>2, <2>1, <2>2, EditsAreWrites, EditInv DEF Edit
<1>3. CASE RunCode
  <2>1. PICK w \in CodeCells : StartAsyncTransaction(w)
    BY <1>3 DEF RunCode
  <2>2. last_sequence_num' = last_sequence_num
    BY <2>1 DEF StartAsyncTransaction
  <2> QED BY <1>1, <1>3, <2>1, <2>2, EditsAreWrites, RunCodeInv DEF RunCode
<1>4. CASE CodeCompletes
  <2>1. PICK k \in DOMAIN async_transactions, r \in CodeResults : CalculationComplete(k, r)
    BY <1>4 DEF CodeCompletes
  <2>2. last_sequence_num' = last_sequence_num
    BY <2>1 DEF CalculationComplete
  <2> QED BY <1>1, <1>4, <2>1, <2>2, EditsAreWrites, CodeCompletesInv DEF CodeCompletes
<1>5. CASE UndoLast
  <2>1. last_sequence_num' = last_sequence_num
    BY <1>5 DEF UndoLast, Undo
  <2> QED BY <1>1, <1>5, <2>1, UndoInv DEF UndoLast
<1>6. CASE RedoLast
  <2>1. last_sequence_num' = last_sequence_num
    BY <1>6 DEF RedoLast, Redo
  <2> QED BY <1>1, <1>6, <2>1, RedoInv DEF RedoLast
<1>7. CASE Sequence
  <2>1. last_sequence_num' = last_sequence_num
    BY <1>7 DEF Sequence
  <2> QED BY <1>1, <1>7, <2>1, SequenceInv
<1>8. CASE RemoteCommit
  <2>1. last_sequence_num' = last_sequence_num
    BY <1>8 DEF RemoteCommit, clientVars
  <2> QED BY <1>1, <1>8, <2>1, RemoteCommitInv
<1>9. CASE \E m \in requests : ServeRequest(m)
  <2>1. PICK m \in requests : ServeRequest(m)
    BY <1>9
  <2>2. last_sequence_num' = last_sequence_num
    BY <2>1 DEF ServeRequest
  <2> QED BY <1>1, <2>1, <2>2, ServeRequestInv
<1>10. CASE \E n \in broadcasts : ReceiveTransaction(n)
  BY <1>10, ReceiveTransactionInv
<1>11. CASE \E r \in replies : ReceiveTransactions(r)
  BY <1>11, ReceiveTransactionsInv
<1>12. CASE \E k \in Announced : ReceiveCurrentTransaction(k)
  <2>1. PICK k \in Announced : ReceiveSequenceNum(k) /\ UNCHANGED netVars
    BY <1>12 DEF ReceiveCurrentTransaction
  <2>2. last_sequence_num' = last_sequence_num
    BY <2>1 DEF ReceiveSequenceNum
  <2> QED BY <1>1, <2>1, <2>2, ReceiveSequenceNumInv
<1>13. CASE Disconnect
  <2>1. last_sequence_num' = last_sequence_num
    BY <1>13 DEF Disconnect
  <2> QED BY <1>1, <1>13, <2>1, DisconnectInv
<1>14. CASE Reconnect
  <2>1. last_sequence_num' = last_sequence_num
    BY <1>14 DEF Reconnect, clientVars
  <2> QED BY <1>1, <1>14, <2>1, ReconnectInv
<1>15. CASE UNCHANGED vars
  BY <1>1, <1>15, StutterInv DEF vars, clientVars
<1> QED
  BY <1>2, <1>3, <1>4, <1>5, <1>6, <1>7, <1>8, <1>9, <1>10, <1>11, <1>12, <1>13, <1>14, <1>15
     DEF Next

(* The inductive invariant holds of every reachable state, whatever the    *)
(* sets of edits, the bounds and the order of the messages.                *)
THEOREM Invariance == Spec => []IndInv
<1>1. Init => IndInv
  BY InitInv
<1>2. IndInv /\ [Next]_vars => IndInv'
  BY NextInv
<1> QED
  BY <1>1, <1>2, PTL DEF Spec

(* Every variable keeps its type.                                          *)
THEOREM TypeCorrect == Spec => []TypeOK
<1>1. IndInv => TypeOK
  BY DEF IndInv
<1> QED
  BY <1>1, Invariance, PTL

(* The cells the user has not written show exactly the transactions up to  *)
(* last_sequence_num, executed in order: through every reordering, loss,   *)
(* repetition, rollback and reapplication of client_apply_transaction and  *)
(* received_transactions.                                                  *)
THEOREM UntouchedCells == Spec => []UntouchedCellsFollowLog
<1>1. IndInv => UntouchedCellsFollowLog
  BY DEF IndInv
<1> QED
  BY <1>1, Invariance, PTL

(* out_of_order_transactions holds what the server numbered, under its     *)
(* number.                                                                 *)
THEOREM StashIsLogged == Spec => []StashMatchesLog
<1>1. IndInv => StashMatchesLog
  BY DEF IndInv
<1> QED
  BY <1>1, Invariance, PTL

(* last_sequence_num never falls and stays within the log.                 *)
THEOREM Advances == Spec => SequenceNumberAdvances
<1>1. IndInv /\ [Next]_vars =>
        [last_sequence_num' >= last_sequence_num /\ last_sequence_num' <= Len(log')]_vars
  <2> SUFFICES ASSUME IndInv, [Next]_vars
               PROVE  last_sequence_num' >= last_sequence_num /\ last_sequence_num' <= Len(log')
    OBVIOUS
  <2>1. IndInv' /\ last_sequence_num' >= last_sequence_num
    BY NextInv
  <2> QED BY <2>1 DEF IndInv, InFlightIsLogged
<1>2. [][IndInv /\ [Next]_vars]_vars =>
        [][last_sequence_num' >= last_sequence_num /\ last_sequence_num' <= Len(log')]_vars
  BY <1>1, PTL
<1> QED
  BY <1>1, Invariance, PTL DEF Spec, SequenceNumberAdvances

-----------------------------------------------------------------------------
(***************************************************************************)
(* A session never loses the user's work: a transaction that is waiting to *)
(* be sent, or for its code, is among the unsaved ones, whatever is        *)
(* received in the meantime.  The receiving functions delete the unsaved   *)
(* transaction that has the id they received; that it is never another's   *)
(* rests on every id being in one place only: with the code, on its way to *)
(* the server, or in the log.                                              *)
(***************************************************************************)

Ids(q) == {q[i].id : i \in DOMAIN q}

Distinct(q) == \A i, j \in DOMAIN q : q[i].id = q[j].id => i = j

(* Where the ids of the user's transactions are.                           *)
IdsInv ==
  /\ \A id \in Ids(to_server) \cup Ids(async_transactions) \cup Ids(log) : id <= issued
  /\ Distinct(to_server) /\ Distinct(async_transactions)
  /\ Ids(to_server) \cap Ids(async_transactions) = {}
  /\ Ids(to_server) \cap Ids(log) = {}
  /\ Ids(async_transactions) \cap Ids(log) = {}

(* UnsentIsUnsaved and AsyncIsUnsaved, of any sequence of entries.         *)
SentFrom(q, p) ==
  \A i \in DOMAIN p : \E u \in Entries(q) : u.id = p[i].id /\ u.forward = p[i].writes

OwnInv ==
  /\ IdsInv
  /\ SentFrom(unsaved_transactions, to_server)
  /\ Entries(async_transactions) \subseteq Entries(unsaved_transactions)

-----------------------------------------------------------------------------
(* Sequences of transactions.                                              *)

LEMMA IdsAppend ==
  ASSUME NEW S, NEW q \in Seq(S), NEW e \in S
  PROVE  /\ Ids(Append(q, e)) = Ids(q) \cup {e.id}
         /\ Entries(Append(q, e)) = Entries(q) \cup {e}
         /\ Distinct(q) /\ e.id \notin Ids(q) => Distinct(Append(q, e))
<1> DEFINE p == Append(q, e)
<1>1. Len(q) \in Nat /\ DOMAIN q = 1..Len(q)
  BY LenProperties
<1>2. /\ p \in Seq(S) /\ Len(p) = Len(q) + 1 /\ \A i \in 1..Len(q) : p[i] = q[i]
      /\ p[Len(q) + 1] = e
  BY AppendProperties
<1>3. DOMAIN p = 1..(Len(q) + 1)
  BY <1>2, LenProperties
<1> HIDE DEF p
<1>4. Ids(p) = Ids(q) \cup {e.id}
  BY <1>1, <1>2, <1>3 DEF Ids
<1>5. Entries(p) = Entries(q) \cup {e}
  BY <1>1, <1>2, <1>3 DEF Entries
<1>6. ASSUME Distinct(q), e.id \notin Ids(q) PROVE Distinct(p)
  BY <1>1, <1>2, <1>3, <1>6 DEF Distinct, Ids
<1> QED
  BY <1>4, <1>5, <1>6 DEF p

LEMMA IdsWithoutIndex ==
  ASSUME NEW S, NEW q \in Seq(S), NEW k \in DOMAIN q, Distinct(q)
  PROVE  /\ Ids(WithoutIndex(q, k)) \subseteq Ids(q) \ {q[k].id}
         /\ Entries(WithoutIndex(q, k)) \subseteq Entries(q)
         /\ Distinct(WithoutIndex(q, k))
<1> DEFINE p == WithoutIndex(q, k)
<1>1. Len(q) \in Nat /\ DOMAIN q = 1..Len(q)
  BY LenProperties
<1>2. DOMAIN p = 1..(Len(q) - 1)
      /\ \A j \in 1..(Len(q) - 1) : p[j] = IF j < k THEN q[j] ELSE q[j + 1]
  BY DEF WithoutIndex
<1>3. \A j \in 1..(Len(q) - 1) : j \in 1..Len(q) /\ j + 1 \in 1..Len(q)
  BY <1>1
<1> HIDE DEF p
<1>4. Entries(p) \subseteq Entries(q)
  BY <1>1, <1>2, <1>3 DEF Entries
<1>5. Ids(p) \subseteq Ids(q) \ {q[k].id}
  <2> SUFFICES ASSUME NEW j \in 1..(Len(q) - 1)
               PROVE  p[j].id \in Ids(q) /\ p[j].id # q[k].id
    BY <1>2 DEF Ids
  <2>1. CASE j < k
    BY <1>1, <1>2, <1>3, <2>1 DEF Ids, Distinct
  <2>2. CASE ~(j < k)
    <3>1. j + 1 # k
      BY <1>1, <2>2
    <3> QED BY <1>1, <1>2, <1>3, <2>2, <3>1 DEF Ids, Distinct
  <2> QED BY <2>1, <2>2
<1>6. Distinct(p)
  <2> SUFFICES ASSUME NEW i \in 1..(Len(q) - 1), NEW j \in 1..(Len(q) - 1), p[i].id = p[j].id
               PROVE  i = j
    BY <1>2 DEF Distinct
  <2> DEFINE m(a) == IF a < k THEN a ELSE a + 1
  <2>1. m(i) \in DOMAIN q /\ m(j) \in DOMAIN q /\ p[i] = q[m(i)] /\ p[j] = q[m(j)]
    BY <1>1, <1>2, <1>3
  <2>2. m(i) = m(j)
    <3> HIDE DEF m
    <3> QED BY <2>1 DEF Distinct
  <2> QED BY <1>1, <2>2
<1> QED
  BY <1>4, <1>5, <1>6 DEF p

LEMMA IdsTail ==
  ASSUME NEW S, NEW q \in Seq(S), q # <<>>, Distinct(q)
  PROVE  /\ Ids(Tail(q)) \subseteq Ids(q) \ {Head(q).id} /\ Head(q).id \in Ids(q)
         /\ Entries(Tail(q)) \subseteq Entries(q) /\ Distinct(Tail(q))
<1> DEFINE p == Tail(q)
<1>1. Len(q) \in Nat /\ DOMAIN q = 1..Len(q) /\ Len(q) # 0
  BY LenProperties, EmptySeq
<1>2. /\ Head(q) = q[1] /\ p \in Seq(S) /\ Len(p) = Len(q) - 1
      /\ \A i \in 1..Len(p) : p[i] = q[i + 1]
  BY HeadTailProperties
<1>3. DOMAIN p = 1..(Len(q) - 1) /\ 1 \in DOMAIN q
  BY <1>1, <1>2, LenProperties
<1> HIDE DEF p
<1>4. \A i \in 1..(Len(q) - 1) : i + 1 \in 1..Len(q) /\ i + 1 # 1 /\ p[i] = q[i + 1]
  BY <1>1, <1>2
<1>5. Entries(p) \subseteq Entries(q)
  BY <1>1, <1>3, <1>4 DEF Entries
<1>6. Ids(p) \subseteq Ids(q) \ {Head(q).id} /\ Head(q).id \in Ids(q)
  <2> SUFFICES ASSUME NEW j \in 1..(Len(q) - 1)
               PROVE  p[j].id \in Ids(q) /\ p[j].id # q[1].id
    BY <1>2, <1>3 DEF Ids
  <2>1. j + 1 \in DOMAIN q /\ j + 1 # 1 /\ p[j] = q[j + 1]
    BY <1>1, <1>4
  <2> QED BY <1>3, <2>1 DEF Ids, Distinct
<1>7. Distinct(p)
  <2> SUFFICES ASSUME NEW i \in 1..(Len(q) - 1), NEW j \in 1..(Len(q) - 1), p[i].id = p[j].id
               PROVE  i = j
    BY <1>3 DEF Distinct
  <2>1. i + 1 \in DOMAIN q /\ j + 1 \in DOMAIN q /\ q[i + 1].id = q[j + 1].id
    BY <1>1, <1>4
  <2>2. i + 1 = j + 1
    BY <2>1 DEF Distinct
  <2> QED BY <1>1, <2>2
<1> QED
  BY <1>5, <1>6, <1>7 DEF p

(* An entry that is inserted or replaced is there, and so are those with   *)
(* other ids.                                                              *)
LEMMA InsertOrReplaceKeeps ==
  ASSUME NEW q \in Seq(UnsavedTransaction), NEW e \in UnsavedTransaction
  PROVE  /\ e \in Entries(InsertOrReplace(q, e))
         /\ \A u \in Entries(q) : u.id # e.id => u \in Entries(InsertOrReplace(q, e))
<1>1. CASE Holds(q, e.id)
  <2> DEFINE p == [i \in DOMAIN q |-> IF q[i].id = e.id THEN e ELSE q[i]]
  <2>1. InsertOrReplace(q, e) = p
    BY <1>1 DEF InsertOrReplace
  <2>2. \A i \in DOMAIN q : p[i] = IF q[i].id = e.id THEN e ELSE q[i]
    OBVIOUS
  <2>3. DOMAIN p = DOMAIN q
    OBVIOUS
  <2> HIDE DEF p
  <2> QED BY <1>1, <2>1, <2>2, <2>3 DEF Entries, Holds
<1>2. CASE ~Holds(q, e.id)
  <2>1. InsertOrReplace(q, e) = Append(q, e)
    BY <1>2 DEF InsertOrReplace
  <2> QED BY <2>1, IdsAppend
<1> QED
  BY <1>1, <1>2

-----------------------------------------------------------------------------
(* The user's own transactions.                                            *)

LEMMA SequenceTypes ==
  ASSUME IndInv
  PROVE  /\ unsaved_transactions \in Seq(UnsavedTransaction)
         /\ async_transactions \in Seq(UnsavedTransaction)
         /\ to_server \in Seq(SentTransaction) /\ log \in Seq(SentTransaction)
         /\ issued \in Nat /\ Len(log) \in Nat /\ DOMAIN log = 1..Len(log)
         /\ \A id \in Ids(to_server) \cup Ids(async_transactions) \cup Ids(log) : id \in Nat
<1>1. /\ unsaved_transactions \in Seq(UnsavedTransaction)
      /\ async_transactions \in Seq(UnsavedTransaction)
      /\ to_server \in Seq(SentTransaction) /\ log \in Seq(SentTransaction)
      /\ issued \in Nat
  BY DEF IndInv, TypeOK, ClientTypeOK
<1>2. Len(log) \in Nat /\ DOMAIN log = 1..Len(log)
  BY <1>1, LenProperties
<1>3. /\ \A i \in DOMAIN to_server : to_server[i] \in SentTransaction
      /\ \A i \in DOMAIN log : log[i] \in SentTransaction
      /\ \A i \in DOMAIN async_transactions : async_transactions[i] \in UnsavedTransaction
  BY <1>1, ElementOfSeq, LenProperties
<1>4. \A id \in Ids(to_server) \cup Ids(async_transactions) \cup Ids(log) : id \in Nat
  BY <1>3 DEF Ids, SentTransaction, UnsavedTransaction, TransactionId
<1> QED
  BY <1>1, <1>2, <1>4

(* A transaction under a new id is finalized.                              *)
LEMMA NewSentOwn ==
  ASSUME IndInv, OwnInv, NEW t \in UnsavedTransaction, t.id = issued + 1,
         KeepAndSend(t), issued' = issued + 1, UNCHANGED <<async_transactions, log>>
  PROVE  OwnInv'
<1> DEFINE e == [id |-> t.id, writes |-> t.forward]
<1>1. e \in SentTransaction /\ e.id = issued + 1 /\ e.writes = t.forward
  BY DEF UnsavedTransaction, SentTransaction
<1>2. /\ to_server' = Append(to_server, e)
      /\ unsaved_transactions' = InsertOrReplace(unsaved_transactions, t)
  BY DEF KeepAndSend
<1> HIDE DEF e
<1>3. issued + 1 \notin Ids(to_server) \cup Ids(async_transactions) \cup Ids(log)
  BY SequenceTypes DEF OwnInv, IdsInv
<1>4. /\ Ids(to_server') = Ids(to_server) \cup {issued + 1} /\ Distinct(to_server')
      /\ Entries(to_server') = Entries(to_server) \cup {e}
  BY <1>1, <1>2, <1>3, SequenceTypes, IdsAppend DEF OwnInv, IdsInv
<1>5. IdsInv'
  BY <1>3, <1>4, SequenceTypes DEF OwnInv, IdsInv
<1>6. /\ t \in Entries(unsaved_transactions')
      /\ \A u \in Entries(unsaved_transactions) :
           u.id # issued + 1 => u \in Entries(unsaved_transactions')
  BY <1>2, SequenceTypes, InsertOrReplaceKeeps
<1>7. \A i \in DOMAIN to_server' :
        to_server'[i] = e \/ \E j \in DOMAIN to_server : to_server'[i] = to_server[j]
  BY <1>4 DEF Entries
<1>8. SentFrom(unsaved_transactions', to_server')
  BY <1>1, <1>3, <1>6, <1>7 DEF SentFrom, OwnInv, Ids
<1>9. Entries(async_transactions) \subseteq Entries(unsaved_transactions')
  BY <1>3, <1>6 DEF OwnInv, Entries, Ids
<1> QED
  BY <1>5, <1>8, <1>9 DEF OwnInv

(* The code of a transaction under a new id is started.                    *)
LEMMA NewAsyncOwn ==
  ASSUME IndInv, OwnInv, NEW t \in UnsavedTransaction, t.id = issued + 1,
         unsaved_transactions' = InsertOrReplace(unsaved_transactions, t),
         async_transactions' = Append(async_transactions, t),
         issued' = issued + 1, UNCHANGED <<to_server, log>>
  PROVE  OwnInv'
<1>1. issued + 1 \notin Ids(to_server) \cup Ids(async_transactions) \cup Ids(log)
  BY SequenceTypes DEF OwnInv, IdsInv
<1>2. /\ Ids(async_transactions') = Ids(async_transactions) \cup {issued + 1}
      /\ Distinct(async_transactions')
      /\ Entries(async_transactions') = Entries(async_transactions) \cup {t}
  BY <1>1, SequenceTypes, IdsAppend DEF OwnInv, IdsInv
<1>3. IdsInv'
  BY <1>1, <1>2, SequenceTypes DEF OwnInv, IdsInv
<1>4. /\ t \in Entries(unsaved_transactions')
      /\ \A u \in Entries(unsaved_transactions) :
           u.id # issued + 1 => u \in Entries(unsaved_transactions')
  BY SequenceTypes, InsertOrReplaceKeeps
<1>5. SentFrom(unsaved_transactions', to_server)
  BY <1>1, <1>4 DEF SentFrom, OwnInv, Ids
<1>6. Entries(async_transactions') \subseteq Entries(unsaved_transactions')
  BY <1>1, <1>2, <1>4 DEF OwnInv, Entries, Ids
<1> QED
  BY <1>3, <1>5, <1>6 DEF OwnInv

(* The k-th of the waiting ones gets its result.                           *)
LEMMA AsyncSentOwn ==
  ASSUME IndInv, OwnInv, NEW k \in DOMAIN async_transactions, NEW t \in UnsavedTransaction,
         t.id = async_transactions[k].id, KeepAndSend(t),
         async_transactions' = WithoutIndex(async_transactions, k), UNCHANGED <<issued, log>>
  PROVE  OwnInv'
<1> DEFINE e == [id |-> t.id, writes |-> t.forward]
<1>1. e \in SentTransaction /\ e.id = t.id /\ e.writes = t.forward
  BY DEF UnsavedTransaction, SentTransaction
<1>2. /\ to_server' = Append(to_server, e)
      /\ unsaved_transactions' = InsertOrReplace(unsaved_transactions, t)
  BY DEF KeepAndSend
<1> HIDE DEF e
<1>3. t.id \in Ids(async_transactions) /\ t.id \notin Ids(to_server) /\ t.id \notin Ids(log)
  BY DEF OwnInv, IdsInv, Ids
<1>4. /\ Ids(to_server') = Ids(to_server) \cup {t.id} /\ Distinct(to_server')
      /\ Entries(to_server') = Entries(to_server) \cup {e}
  BY <1>1, <1>2, <1>3, SequenceTypes, IdsAppend DEF OwnInv, IdsInv
<1>5. /\ Ids(async_transactions') \subseteq Ids(async_transactions) \ {t.id}
      /\ Entries(async_transactions') \subseteq Entries(async_transactions)
      /\ Distinct(async_transactions')
  BY SequenceTypes, IdsWithoutIndex DEF OwnInv, IdsInv
<1>6. IdsInv'
  BY <1>3, <1>4, <1>5 DEF OwnInv, IdsInv
<1>7. /\ t \in Entries(unsaved_transactions')
      /\ \A u \in Entries(unsaved_transactions) :
           u.id # t.id => u \in Entries(unsaved_transactions')
  BY <1>2, SequenceTypes, InsertOrReplaceKeeps
<1>8. \A i \in DOMAIN to_server' :
        to_server'[i] = e \/ \E j \in DOMAIN to_server : to_server'[i] = to_server[j]
  BY <1>4 DEF Entries
<1>9. SentFrom(unsaved_transactions', to_server')
  BY <1>1, <1>3, <1>7, <1>8 DEF SentFrom, OwnInv, Ids
<1>10. Entries(async_transactions') \subseteq Entries(unsaved_transactions')
  <2> SUFFICES ASSUME NEW u \in Entries(async_transactions')
               PROVE  u \in Entries(unsaved_transactions')
    OBVIOUS
  <2>1. u.id \in Ids(async_transactions')
    BY DEF Entries, Ids
  <2>2. u \in Entries(unsaved_transactions)
    BY <1>5 DEF OwnInv
  <2> QED BY <1>5, <1>7, <2>1, <2>2
<1> QED
  BY <1>6, <1>9, <1>10 DEF OwnInv

LEMMA NewExecution ==
  ASSUME NEW w, NEW t \in Executions(w) PROVE t.id = issued + 1
BY DEF Executions

-----------------------------------------------------------------------------
(* The server's transactions.                                              *)

(* A received transaction takes none of those that are not in the log.     *)
LEMMA ReceivedOwn ==
  ASSUME IndInv, OwnInv, NEW s, BecomesCore(s), Keeps(log, CoreState, s), UNCHANGED log
  PROVE  OwnInv'
<1>1. /\ unsaved_transactions' = s.unsaved
      /\ UNCHANGED <<async_transactions, to_server, issued>>
  BY DEF BecomesCore
<1>2. CoreState.unsaved = unsaved_transactions
  BY DEF CoreState
<1>3. \A u \in Entries(unsaved_transactions) :
        u.id \notin Ids(log) => u \in Entries(unsaved_transactions')
  BY <1>1, <1>2, SequenceTypes DEF Keeps, Ids
<1>4. IdsInv'
  BY <1>1 DEF OwnInv, IdsInv
<1>5. SentFrom(unsaved_transactions', to_server)
  BY <1>3 DEF OwnInv, IdsInv, SentFrom, Ids
<1>6. Entries(async_transactions) \subseteq Entries(unsaved_transactions')
  BY <1>3 DEF OwnInv, IdsInv, Entries, Ids
<1> QED
  BY <1>1, <1>4, <1>5, <1>6 DEF OwnInv

(* The server numbers the first transaction that was sent.                 *)
LEMMA SequenceOwn == ASSUME IndInv, OwnInv, Sequence PROVE OwnInv'
<1> DEFINE h == Head(to_server)
<1>1. /\ to_server # <<>> /\ log' = Append(log, h) /\ to_server' = Tail(to_server)
      /\ UNCHANGED <<unsaved_transactions, async_transactions, issued>>
  BY DEF Sequence, Commit
<1>2. h \in SentTransaction
  BY <1>1, SequenceTypes, HeadTailProperties
<1>3. /\ Ids(to_server') \subseteq Ids(to_server) \ {h.id} /\ h.id \in Ids(to_server)
      /\ Entries(to_server') \subseteq Entries(to_server) /\ Distinct(to_server')
  BY <1>1, SequenceTypes, IdsTail DEF OwnInv, IdsInv
<1>4. Ids(log') = Ids(log) \cup {h.id}
  BY <1>1, <1>2, SequenceTypes, IdsAppend
<1> HIDE DEF h
<1>5. IdsInv'
  BY <1>1, <1>3, <1>4 DEF OwnInv, IdsInv
<1>6. \A i \in DOMAIN to_server' : \E j \in DOMAIN to_server : to_server'[i] = to_server[j]
  BY <1>3 DEF Entries
<1>7. SentFrom(unsaved_transactions, to_server')
  BY <1>6 DEF OwnInv, SentFrom
<1> QED
  BY <1>1, <1>5, <1>7 DEF OwnInv

LEMMA RemoteCommitOwn == ASSUME IndInv, OwnInv, RemoteCommit PROVE OwnInv'
<1>1. PICK w \in RemoteEdits : log' = Append(log, [id |-> Foreign, writes |-> w])
  BY DEF RemoteCommit, Commit
<1>2. UNCHANGED <<unsaved_transactions, async_transactions, to_server, issued>>
  BY DEF RemoteCommit, clientVars
<1>3. [id |-> Foreign, writes |-> w] \in SentTransaction
  BY SessionAssumption DEF SentTransaction, TransactionId, Foreign
<1>4. Ids(log') = Ids(log) \cup {Foreign}
  BY <1>1, <1>3, SequenceTypes, IdsAppend
<1>5. Foreign \notin Ids(to_server) /\ Foreign \notin Ids(async_transactions)
  BY DEF IndInv, OwnWorkIsEdited, IsOwn, Ids
<1>6. Foreign <= issued
  BY SequenceTypes DEF Foreign
<1>7. IdsInv'
  BY <1>2, <1>4, <1>5, <1>6 DEF OwnInv, IdsInv
<1> QED
  BY <1>2, <1>7 DEF OwnInv

LEMMA DisconnectOwn == ASSUME IndInv, OwnInv, Disconnect PROVE OwnInv'
<1>1. to_server' = <<>> /\ DOMAIN <<>> = {}
      /\ UNCHANGED <<unsaved_transactions, async_transactions, issued, log>>
  BY EmptySeq DEF Disconnect
<1>2. Ids(to_server') = {} /\ Distinct(to_server')
  BY <1>1 DEF Ids, Distinct
<1>3. IdsInv'
  BY <1>1, <1>2 DEF OwnInv, IdsInv
<1> QED
  BY <1>1, <1>3 DEF OwnInv, SentFrom

LEMMA OwnNext ==
  ASSUME IndInv, OwnInv, [Next]_vars
  PROVE  OwnInv'
<1>0. ASSUME UNCHANGED <<unsaved_transactions, async_transactions, to_server, issued, log>>
      PROVE  OwnInv'
  BY <1>0 DEF OwnInv, IdsInv
<1>1. CASE Edit
  <2>1. PICK w \in UserEdits : UserTransaction(w)
    BY <1>1 DEF Edit
  <2>2. PICK t \in Executions(w) : KeepAndSend(t)
    BY <2>1 DEF UserTransaction
  <2>3. t \in UnsavedTransaction
    BY EditsAreWrites, ExecutionsType
  <2>4. issued' = issued + 1 /\ UNCHANGED <<async_transactions, log>>
    BY <1>1, <2>1 DEF Edit, UserTransaction, netVars
  <2> QED BY <2>2, <2>3, <2>4, NewExecution, NewSentOwn
<1>2. CASE RunCode
  <2>1. PICK w \in CodeCells : StartAsyncTransaction(w)
    BY <1>2 DEF RunCode
  <2>2. PICK t \in Executions(w) :
          /\ unsaved_transactions' = InsertOrReplace(unsaved_transactions, t)
          /\ async_transactions' = Append(async_transactions, t)
    BY <2>1 DEF StartAsyncTransaction
  <2>3. t \in UnsavedTransaction
    BY EditsAreWrites, ExecutionsType
  <2>4. issued' = issued + 1 /\ UNCHANGED <<to_server, log>>
    BY <1>2, <2>1 DEF RunCode, StartAsyncTransaction, netVars
  <2> QED BY <2>2, <2>3, <2>4, NewExecution, NewAsyncOwn
<1>3. CASE CodeCompletes
  <2>1. PICK k \in DOMAIN async_transactions, r \in CodeResults : CalculationComplete(k, r)
    BY <1>3 DEF CodeCompletes
  <2>2. PICK t \in Completions(async_transactions[k], r) : KeepAndSend(t)
    BY <2>1 DEF CalculationComplete
  <2>3. t.id = async_transactions[k].id
    BY <2>2 DEF Completions
  <2>4. t \in UnsavedTransaction
    BY <2>1, <2>2, CompletionsType, EditsAreWrites
  <2>5. /\ async_transactions' = WithoutIndex(async_transactions, k)
        /\ UNCHANGED <<issued, log>>
    BY <1>3, <2>1 DEF CodeCompletes, CalculationComplete, netVars
  <2> QED BY <2>2, <2>3, <2>4, <2>5, AsyncSentOwn
<1>4. CASE UndoLast
  <2>1. PICK t \in Executions(Top(undo_stack)) : KeepAndSend(t)
    BY <1>4 DEF UndoLast, Undo
  <2>2. Top(undo_stack) \in Writes
    BY <1>4, IndInvSequences, StackTopPop DEF UndoLast
  <2>3. t \in UnsavedTransaction
    BY <2>2, ExecutionsType
  <2>4. issued' = issued + 1 /\ UNCHANGED <<async_transactions, log>>
    BY <1>4 DEF UndoLast, Undo, netVars
  <2> QED BY <2>1, <2>3, <2>4, NewExecution, NewSentOwn
<1>5. CASE RedoLast
  <2>1. PICK t \in Executions(Top(redo_stack)) : KeepAndSend(t)
    BY <1>5 DEF RedoLast, Redo
  <2>2. Top(redo_stack) \in Writes
    BY <1>5, IndInvSequences, StackTopPop DEF RedoLast
  <2>3. t \in UnsavedTransaction
    BY <2>2, ExecutionsType
  <2>4. issued' = issued + 1 /\ UNCHANGED <<async_transactions, log>>
    BY <1>5 DEF RedoLast, Redo, netVars
  <2> QED BY <2>1, <2>3, <2>4, NewExecution, NewSentOwn
<1>6. CASE Sequence
  BY <1>6, SequenceOwn
<1>7. CASE RemoteCommit
  BY <1>7, RemoteCommitOwn
<1>8. CASE \E m \in requests : ServeRequest(m)
  BY <1>0, <1>8 DEF ServeRequest
<1>9. CASE \E n \in broadcasts : ReceiveTransaction(n)
  <2>1. PICK n \in broadcasts : ReceiveTransaction(n)
    BY <1>9
  <2> DEFINE s == ClientApply(CoreState, log[n].id, n, log[n].writes)
  <2>2. n \in 1..Len(log) /\ log \in Seq(SentTransaction)
    BY SequenceTypes DEF IndInv, InFlightIsLogged
  <2>3. Keeps(log, CoreState, s)
    BY <2>2, CoreStateIsSound, ClientApplySound
  <2>4. BecomesCore(s) /\ UNCHANGED log
    BY <2>1 DEF ReceiveTransaction, ReceivedTransaction
  <2> HIDE DEF s
  <2> QED BY <2>3, <2>4, ReceivedOwn
<1>10. CASE \E r \in replies : ReceiveTransactions(r)
  <2>1. PICK r \in replies : ReceiveTransactions(r)
    BY <1>10
  <2> DEFINE batch == SubSeq(log, r.from, r.to)
             s == ApplyBatch(CoreState, batch, r.from)
  <2>2. /\ batch \in Seq(SentTransaction) /\ r.from \in Nat /\ log \in Seq(SentTransaction)
        /\ \A i \in 1..Len(batch) :
             r.from + i - 1 \in 1..Len(log) /\ batch[i] = log[r.from + i - 1]
    BY RepliesAreLogged, SequenceTypes
  <2>3. Keeps(log, CoreState, s)
    <3> HIDE DEF batch
    <3> QED BY <2>2, CoreStateIsSound, ApplyBatchSound
  <2>4. BecomesCore(s) /\ UNCHANGED log
    BY <2>1 DEF ReceiveTransactions, ReceivedTransactions
  <2> HIDE DEF s
  <2> QED BY <2>3, <2>4, ReceivedOwn
<1>11. CASE \E k \in Announced : ReceiveCurrentTransaction(k)
  BY <1>0, <1>11 DEF ReceiveCurrentTransaction, ReceiveSequenceNum, netVars
<1>12. CASE Disconnect
  BY <1>12, DisconnectOwn
<1>13. CASE Reconnect
  BY <1>0, <1>13 DEF Reconnect, clientVars
<1>14. CASE UNCHANGED vars
  BY <1>0, <1>14 DEF vars, clientVars, netVars
<1> QED
  BY <1>1, <1>2, <1>3, <1>4, <1>5, <1>6, <1>7, <1>8, <1>9, <1>10, <1>11, <1>12, <1>13, <1>14
     DEF Next

LEMMA OwnInitially == Init => OwnInv
<1> SUFFICES ASSUME Init PROVE OwnInv
  OBVIOUS
<1>1. to_server = <<>> /\ async_transactions = <<>> /\ log = <<>> /\ DOMAIN <<>> = {}
  BY EmptySeq DEF Init, ClientInit
<1> QED
  BY <1>1 DEF OwnInv, IdsInv, SentFrom, Entries, Ids, Distinct

(* Every id is in one place, and what has it is unsaved until it is in the *)
(* log.                                                                    *)
THEOREM OwnInvariance == Spec => []OwnInv
<1>1. Init => OwnInv
  BY OwnInitially
<1>2. IndInv /\ OwnInv /\ [Next]_vars => OwnInv'
  BY OwnNext
<1> QED
  BY <1>1, <1>2, Invariance, PTL DEF Spec

(* A transaction that has not reached the server is among the unsaved ones *)
(* with the operations that will be sent.                                  *)
THEOREM UnsentStays == Spec => []UnsentIsUnsaved
<1>1. OwnInv => UnsentIsUnsaved
  BY DEF OwnInv, SentFrom, Entries, UnsentIsUnsaved
<1> QED
  BY <1>1, OwnInvariance, PTL

(* So is a transaction whose code is still running.                        *)
THEOREM AsyncStays == Spec => []AsyncIsUnsaved
<1>1. OwnInv => AsyncIsUnsaved
  BY DEF OwnInv, Entries, AsyncIsUnsaved
<1> QED
  BY <1>1, OwnInvariance, PTL
=============================================================================
