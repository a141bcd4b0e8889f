---------------------------- MODULE GridClient -----------------------------
(***************************************************************************)
(* The transaction engine of one client: the GridController of             *)
(* quadratic-core as it runs in the browser's core worker                  *)
(* (src/quadratic-core/src/controller).  It executes the user's own        *)
(* transactions at once, keeps them in unsaved_transactions until the      *)
(* multiplayer server sends them back with a sequence number, and executes *)
(* everybody's transactions in the order of those numbers, rolling its own *)
(* unsaved ones back and reapplying them around each.                      *)
(*                                                                         *)
(* The core worker is single-threaded and every entry point below runs to  *)
(* completion, so each of them is one action.  The module has no           *)
(* environment: MultiplayerSession composes it with the server and the     *)
(* network.                                                                *)
(***************************************************************************)
EXTENDS SheetWrites

CONSTANTS
  UserEdits,    \* what one edit of the user may write
  CodeCells,    \* what placing a code cell may write before its code has run
  CodeResults   \* what such a run may write when it completes

ASSUME EditsAreWrites ==
  UserEdits \subseteq Writes /\ CodeCells \subseteq Writes /\ CodeResults \subseteq Writes

VARIABLES
  grid,                       \* the sheets, as this client shows them
  unsaved_transactions,       \* own transactions without a sequence number yet
  out_of_order_transactions,  \* received transactions that are not next in order
  last_sequence_num,          \* the last sequence number applied locally
  async_transactions,         \* own transactions waiting for their code to run
  undo_stack, redo_stack,     \* the operations that undo or redo a transaction
  issued,                     \* own transactions created so far; the last one's id
  to_server,                  \* transactions given to the multiplayer worker to send
  requests,                   \* GetTransactions sent, by min_sequence_num
  edited                      \* history: the cells own transactions have written

clientVars == <<grid, unsaved_transactions, out_of_order_transactions,
                last_sequence_num, async_transactions, undo_stack, redo_stack,
                issued, to_server, requests, edited>>

(* Transaction ids are fresh uuids; the client only ever compares them     *)
(* with those of its own transactions, which it numbers here.  Every other *)
(* user's transaction has the id Foreign.                                  *)
Foreign == 0

TransactionId == Nat

UnsavedTransaction == [id : TransactionId, forward : Writes, reverse : Writes]
SentTransaction == [id : TransactionId, writes : Writes]
StashedTransaction == [id : TransactionId, sequence_num : Nat, writes : Writes]

(* What the receiving functions read and write.                            *)
Core == [grid : Grid, unsaved : Seq(UnsavedTransaction),
         stash : Seq(StashedTransaction), last : Nat]

ClientTypeOK ==
  /\ grid \in Grid
  /\ unsaved_transactions \in Seq(UnsavedTransaction)
  /\ out_of_order_transactions \in Seq(StashedTransaction)
  /\ last_sequence_num \in Nat
  /\ async_transactions \in Seq(UnsavedTransaction)
  /\ undo_stack \in Seq(Writes)
  /\ redo_stack \in Seq(Writes)
  /\ issued \in Nat
  /\ to_server \in Seq(SentTransaction)
  /\ requests \in SUBSET Nat
  /\ edited \in SUBSET Cell

(* A file that has just been created: nothing in it, no transaction yet.   *)
ClientInit ==
  /\ grid = BlankGrid
  /\ unsaved_transactions = <<>>
  /\ out_of_order_transactions = <<>>
  /\ last_sequence_num = 0
  /\ async_transactions = <<>>
  /\ undo_stack = <<>>
  /\ redo_stack = <<>>
  /\ issued = 0
  /\ to_server = <<>>
  /\ requests = {}
  /\ edited = {}

-----------------------------------------------------------------------------
(* Sequences of transactions.                                              *)

WithoutIndex(q, i) ==
  [j \in 1..(Len(q) - 1) |-> IF j < i THEN q[j] ELSE q[j + 1]]

WithEntryAt(q, i, e) ==
  [j \in 1..(Len(q) + 1) |-> IF j < i THEN q[j] ELSE IF j = i THEN e ELSE q[j - 1]]

Forwards(q) == [i \in DOMAIN q |-> q[i].forward]
Reverses(q) == [i \in DOMAIN q |-> q[i].reverse]

Holds(q, id) == \E i \in DOMAIN q : q[i].id = id

(* A bug: the oldest entry is taken for the one that was found.            *)
IndexOf_Oldest(q, id) == 1

IndexOf(q, id) == Least({i \in DOMAIN q : q[i].id = id})

(* A bug: an entry that is already there keeps its old operations.         *)
InsertOrReplace_KeepsOld(q, e) == IF Holds(q, e.id) THEN q ELSE Append(q, e)

InsertOrReplace(q, e) ==
  IF Holds(q, e.id) THEN [i \in DOMAIN q |-> IF q[i].id = e.id THEN e ELSE q[i]]
                    ELSE Append(q, e)

-----------------------------------------------------------------------------
(* The user's own transactions.                                            *)

(* The transactions that executing w on the present grid can make, under a *)
(* new id.                                                                 *)
Executions(w) ==
  {[id |-> issued + 1, forward |-> ForwardOf(w, D), reverse |-> ReverseOf(grid, D)]
     : D \in Recorded(grid, w)}

(* finalize_transaction for a user's, an undo or a redo transaction: the   *)
(* transaction is kept as unsaved and handed over for sending.             *)
KeepAndSend(t) ==
  /\ unsaved_transactions' = InsertOrReplace(unsaved_transactions, t)
  /\ to_server' = Append(to_server, [id |-> t.id, writes |-> t.forward])

(* An edit that needs no code to run.                                      *)
UserTransaction(w) ==
  /\ grid' = Overlay(grid, w)
  /\ \E t \in Executions(w) :
       KeepAndSend(t) /\ undo_stack' = Append(undo_stack, t.reverse)
  /\ redo_stack' = <<>>
  /\ issued' = issued + 1
  /\ edited' = edited \cup DOMAIN w
  /\ UNCHANGED <<out_of_order_transactions, last_sequence_num, async_transactions, requests>>

(* A code cell: its operations so far are executed and kept, but the       *)
(* transaction waits in async_transactions for the result of the run.      *)
StartAsyncTransaction(w) ==
  /\ grid' = Overlay(grid, w)
  /\ \E t \in Executions(w) :
       /\ unsaved_transactions' = InsertOrReplace(unsaved_transactions, t)
       /\ async_transactions' = Append(async_transactions, t)
  /\ issued' = issued + 1
  /\ edited' = edited \cup DOMAIN w
  /\ UNCHANGED <<out_of_order_transactions, last_sequence_num, undo_stack, redo_stack,
                 to_server, requests>>

(* A bug: only what the result overwrites can be undone.                   *)
Completions_ForgetStart(t, r) ==
  {[id |-> t.id, forward |-> Merge(t.forward, ForwardOf(r, D)), reverse |-> ReverseOf(grid, D)]
     : D \in Recorded(grid, r)}

(* The transaction t with the result of its code, r, executed on the       *)
(* present grid.                                                           *)
Completions(t, r) ==
  {[id |-> t.id, forward |-> Merge(t.forward, ForwardOf(r, D)),
    reverse |-> Merge(t.reverse, ReverseOf(grid, D))]
     : D \in Recorded(grid, r)}

(* The k-th waiting transaction gets the result of its code and is         *)
(* finalized.  A run writes its own data table, never a cell the           *)
(* transaction has already written.                                        *)
CalculationComplete(k, r) ==
  /\ k \in DOMAIN async_transactions
  /\ DOMAIN r \cap DOMAIN async_transactions[k].forward = {}
  /\ grid' = Overlay(grid, r)
  /\ \E t \in Completions(async_transactions[k], r) :
       KeepAndSend(t) /\ undo_stack' = Append(undo_stack, t.reverse)
  /\ redo_stack' = <<>>
  /\ async_transactions' = WithoutIndex(async_transactions, k)
  /\ edited' = edited \cup DOMAIN r
  /\ UNCHANGED <<out_of_order_transactions, last_sequence_num, issued, requests>>

Top(stack) == stack[Len(stack)]
Pop(stack) == SubSeq(stack, 1, Len(stack) - 1)

(* Undo executes the top of the undo stack as a transaction with an id of  *)
(* its own; what that transaction reverses becomes the next redo.          *)
Undo ==
  /\ undo_stack # <<>>
  /\ grid' = Overlay(grid, Top(undo_stack))
  /\ undo_stack' = Pop(undo_stack)
  /\ \E t \in Executions(Top(undo_stack)) :
       KeepAndSend(t) /\ redo_stack' = Append(redo_stack, t.reverse)
  /\ issued' = issued + 1
  /\ UNCHANGED <<out_of_order_transactions, last_sequence_num, async_transactions, requests,
                 edited>>

Redo ==
  /\ redo_stack # <<>>
  /\ grid' = Overlay(grid, Top(redo_stack))
  /\ redo_stack' = Pop(redo_stack)
  /\ \E t \in Executions(Top(redo_stack)) :
       KeepAndSend(t) /\ undo_stack' = Append(undo_stack, t.reverse)
  /\ issued' = issued + 1
  /\ UNCHANGED <<out_of_order_transactions, last_sequence_num, async_transactions, requests,
                 edited>>

-----------------------------------------------------------------------------
(* Receiving transactions (execution/receive_multiplayer.rs).  The         *)
(* receiving functions call one another on the same four parts of the      *)
(* state, gathered here in a record s of Core.                             *)

CoreState == [grid |-> grid, unsaved |-> unsaved_transactions,
              stash |-> out_of_order_transactions, last |-> last_sequence_num]

(* The reverse operations of the unsaved transactions, newest first: where *)
(* two of them wrote a cell, what the older one found there remains.       *)
Rollback(s) == [s EXCEPT !.grid = OverlayBackward(s.grid, Reverses(s.unsaved))]

(* A bug: they are not reapplied.                                          *)
Reapply_Skipped(s) == s

(* The forward operations of the unsaved transactions, newest first too.   *)
Reapply(s) == [s EXCEPT !.grid = OverlayBackward(s.grid, Forwards(s.unsaved))]

Applied(s, w) == [s EXCEPT !.grid = Overlay(s.grid, w)]

WithoutUnsaved(s, id) ==
  [s EXCEPT !.unsaved = WithoutIndex(s.unsaved, IndexOf(s.unsaved, id))]

(* One pass over the held transactions in their stored order: those that   *)
(* are next in sequence when they are met are executed, the others kept.   *)
DrainStep(s, t) ==
  IF t.sequence_num = s.last + 1
    THEN [s EXCEPT !.grid = Overlay(s.grid, t.writes), !.last = t.sequence_num]
    ELSE [s EXCEPT !.stash = Append(s.stash, t)]

Drain(s, q) ==
  LET run[i \in 0..Len(q)] == IF i = 0 THEN s ELSE DrainStep(run[i - 1], q[i])
  IN  run[Len(q)]

ApplyOutOfOrder(s, seq) == Drain([s EXCEPT !.last = seq, !.stash = <<>>], s.stash)

(* A transaction that is not next is held, in descending order of the      *)
(* sequence numbers, however often it is received.                         *)
StashIndex(q, seq) ==
  LET lower == {i \in DOMAIN q : q[i].sequence_num < seq}
  IN  IF lower = {} THEN Len(q) + 1 ELSE Least(lower)

Stashed(s, id, seq, w) ==
  [s EXCEPT !.stash = WithEntryAt(s.stash, StashIndex(s.stash, seq),
                                  [id |-> id, sequence_num |-> seq, writes |-> w])]

(* A bug: the oldest unsaved transaction is not deleted.                   *)
ApplyOldestOwn_KeepsIt(s, id, seq) == ApplyOutOfOrder(s, seq)

(* The transaction that is next in sequence: the oldest unsaved one (whose *)
(* effect is on the grid already), another unsaved one, or someone else's. *)
ApplyOldestOwn(s, id, seq) == ApplyOutOfOrder(WithoutUnsaved(s, id), seq)

ApplyNewerOwn(s, id, seq, w) ==
  Reapply(ApplyOutOfOrder(Applied(WithoutUnsaved(Rollback(s), id), w), seq))

ApplyForeign(s, seq, w) ==
  Reapply(ApplyOutOfOrder(Applied(Rollback(s), w), seq))

ApplyNext(s, id, seq, w) ==
  IF ~Holds(s.unsaved, id)             THEN ApplyForeign(s, seq, w)
  ELSE IF IndexOf(s.unsaved, id) = 1   THEN ApplyOldestOwn(s, id, seq)
  ELSE                                      ApplyNewerOwn(s, id, seq, w)

(* A bug: a gap in the sequence numbers goes unnoticed.                    *)
ClientApply_IgnoresGaps(s, id, seq, w) ==
  IF seq > s.last THEN ApplyNext(s, id, seq, w) ELSE s

(* A bug: a transaction that was applied before is applied again.          *)
ClientApply_TakesOld(s, id, seq, w) ==
  IF seq <= s.last + 1 THEN ApplyNext(s, id, seq, w) ELSE Stashed(s, id, seq, w)

(* client_apply_transaction; a number that was applied before is ignored.  *)
ClientApply(s, id, seq, w) ==
  IF seq = s.last + 1   THEN ApplyNext(s, id, seq, w)
  ELSE IF seq > s.last  THEN Stashed(s, id, seq, w)
  ELSE s

(* A bug: a batch is numbered from one too high.                           *)
ApplyBatch_OffByOne(s, batch, from) ==
  LET run[i \in 0..Len(batch)] ==
        IF i = 0 THEN Rollback(s)
                 ELSE ClientApply(run[i - 1], batch[i].id, from + i, batch[i].writes)
  IN  Reapply(run[Len(batch)])

(* received_transactions: a batch of consecutive transactions, the first   *)
(* one with the sequence number from.                                      *)
ApplyBatch(s, batch, from) ==
  LET run[i \in 0..Len(batch)] ==
        IF i = 0 THEN Rollback(s)
                 ELSE ClientApply(run[i - 1], batch[i].id, from + i - 1, batch[i].writes)
  IN  Reapply(run[Len(batch)])

BecomesCore(s) ==
  /\ grid' = s.grid
  /\ unsaved_transactions' = s.unsaved
  /\ out_of_order_transactions' = s.stash
  /\ last_sequence_num' = s.last
  /\ UNCHANGED <<async_transactions, undo_stack, redo_stack, issued, to_server, edited>>

ReceivedTransaction(id, seq, w) ==
  BecomesCore(ClientApply(CoreState, id, seq, w)) /\ UNCHANGED requests

ReceivedTransactions(batch, from) ==
  BecomesCore(ApplyBatch(CoreState, batch, from)) /\ UNCHANGED requests

(* A bug: a client that holds later transactions does not ask for those    *)
(* in between.                                                             *)
ReceiveSequenceNum_Waits(k) ==
  /\ requests' = IF k # last_sequence_num /\ out_of_order_transactions = <<>>
                  THEN requests \cup {last_sequence_num + 1} ELSE requests
  /\ UNCHANGED <<grid, unsaved_transactions, out_of_order_transactions, last_sequence_num,
                 async_transactions, undo_stack, redo_stack, issued, to_server, edited>>

(* A bug: the transactions asked for begin with the last one received.     *)
ReceiveSequenceNum_AsksAgain(k) ==
  /\ requests' = IF k # last_sequence_num THEN requests \cup {last_sequence_num}
                                          ELSE requests
  /\ UNCHANGED <<grid, unsaved_transactions, out_of_order_transactions, last_sequence_num,
                 async_transactions, undo_stack, redo_stack, issued, to_server, edited>>

(* receive_sequence_num.  last_get_transactions_time is never set, so the  *)
(* five seconds between two requests never apply.                          *)
ReceiveSequenceNum(k) ==
  /\ requests' = IF k # last_sequence_num THEN requests \cup {last_sequence_num + 1}
                                          ELSE requests
  /\ UNCHANGED <<grid, unsaved_transactions, out_of_order_transactions, last_sequence_num,
                 async_transactions, undo_stack, redo_stack, issued, to_server, edited>>
=============================================================================
