----------------------------- MODULE OfflinePage -----------------------------
(***************************************************************************)
(* A page that may be reloaded at any time.  What the user has done and    *)
(* the server has not returned yet is kept in the browser (IndexedDB,      *)
(* offline.ts); the next page loads the file of some checkpoint, executes  *)
(* what was kept on top of it, and sends it once more.                     *)
(*                                                                         *)
(* The page and its room are MultiplayerSession; every step of it that     *)
(* stores or removes a transaction does so here as well.                   *)
(***************************************************************************)
EXTENDS MultiplayerSession

CONSTANT MaxReloads   \* bound on the reloads of the page

VARIABLES
  stored,       \* the entries of the transactions store
  index,        \* this.index of offline.ts, for the next entry
  unapplied,    \* has the page still to apply what is stored?
  locked,       \* what the user has to wait for before the page shows the sheet
  leaving,      \* what pages before this one have sent and the server has not read
  checkpoint,   \* the sequence number of the file that is loaded next
  reloads,      \* how often the page has been reloaded
  finished,     \* history: the own transactions that have been finalized
  batched       \* history: has a batch brought back one that was unsaved?

offlineVars == <<stored, index, unapplied, locked, leaving, checkpoint, reloads,
                 finished, batched>>

OfflineEntry == [transactionId : TransactionId, transaction : Writes, index : Nat]

OfflineTypeOK ==
  /\ TypeOK
  /\ stored \in SUBSET OfflineEntry /\ IsFiniteSet(stored)
  /\ index \in Nat
  /\ unapplied \in BOOLEAN
  /\ locked \subseteq {"offline", "multiplayer"}
  /\ leaving \in Seq(SentTransaction)
  /\ checkpoint \in Nat
  /\ reloads \in Nat
  /\ finished \in SUBSET TransactionId
  /\ batched \in BOOLEAN

OfflineInit ==
  /\ Init
  /\ stored = {}
  /\ index = 0
  /\ unapplied = FALSE
  /\ locked = {}
  /\ leaving = <<>>
  /\ checkpoint = 0
  /\ reloads = 0
  /\ finished = {}
  /\ batched = FALSE

-----------------------------------------------------------------------------
(* The store.                                                              *)

(* A bug: the entry gets the id of the transaction that was made last.     *)
AddUnsentTransaction_LatestId(t) ==
  /\ stored' = stored \cup {[transactionId |-> issued', transaction |-> t.writes, index |-> index]}
  /\ index' = index + 1
  /\ finished' = finished \cup {t.id}
  /\ UNCHANGED <<unapplied, locked, leaving, checkpoint, reloads, batched>>

(* addUnsentTransaction, which the core calls when it keeps and sends a    *)
(* finalized transaction.                                                  *)
AddUnsentTransaction(t) ==
  /\ stored' = stored \cup {[transactionId |-> t.id, transaction |-> t.writes, index |-> index]}
  /\ index' = index + 1
  /\ finished' = finished \cup {t.id}
  /\ UNCHANGED <<unapplied, locked, leaving, checkpoint, reloads, batched>>

(* A bug: every entry older than the one that came back is removed, too.   *)
Unsent_Older(id) == {e \in stored : e.transactionId > id}

(* markTransactionSent: what remains when one entry of the transaction is  *)
(* removed, the first the cursor meets.                                    *)
Unsent(id) ==
  LET found == {e \in stored : e.transactionId = id}
  IN  stored \ {e \in found : \A f \in found : e.index <= f.index}

(* load: the entries by their index, those of the same index in any order. *)
LoadOrders ==
  {q \in [1..Cardinality(stored) -> stored] :
     \A i, j \in DOMAIN q : i < j => q[i] # q[j] /\ q[i].index <= q[j].index}

-----------------------------------------------------------------------------
(* The user's steps, once the page shows the sheet.                        *)

UserFinishes ==
  /\ locked = {}
  /\ Edit \/ CodeCompletes \/ UndoLast \/ RedoLast
  /\ AddUnsentTransaction(to_server'[Len(to_server')])

UserStartsCode ==
  /\ locked = {}
  /\ RunCode
  /\ UNCHANGED offlineVars

-----------------------------------------------------------------------------
(* Receiving.  A transaction that comes by itself is marked as sent,       *)
(* whosever it is; those of a batch are not.  A batch, or the number that  *)
(* the page has reached, tells it that it is synced.                       *)

PageReceivesTransaction(n) ==
  /\ ReceiveTransaction(n)
  /\ stored' = Unsent(log[n].id)
  /\ UNCHANGED <<index, unapplied, locked, leaving, checkpoint, reloads, finished, batched>>

PageReceivesTransactions(r) ==
  /\ ReceiveTransactions(r)
  /\ locked' = locked \ {"multiplayer"}
  /\ batched' = (batched \/ \E n \in r.from..r.to : Holds(unsaved_transactions, log[n].id))
  /\ UNCHANGED <<stored, index, unapplied, leaving, checkpoint, reloads, finished>>

PageReceivesCurrentTransaction(k) ==
  /\ ReceiveCurrentTransaction(k)
  /\ locked' = IF k = last_sequence_num THEN locked \ {"multiplayer"} ELSE locked
  /\ UNCHANGED <<stored, index, unapplied, leaving, checkpoint, reloads, finished, batched>>

(* A page that cannot connect, or no longer, does not keep the user        *)
(* waiting.                                                                *)
Unlock ==
  locked' = IF "multiplayer" \in locked THEN {} ELSE locked

PageDisconnects ==
  /\ Disconnect
  /\ Unlock
  /\ UNCHANGED <<stored, index, unapplied, leaving, checkpoint, reloads, finished, batched>>

ConnectionFails ==
  /\ ~connected
  /\ Unlock
  /\ UNCHANGED <<vars, stored, index, unapplied, leaving, checkpoint, reloads, finished, batched>>

-----------------------------------------------------------------------------
(* Reloading.                                                              *)

(* The page goes, and another one opens with the file as some checkpoint   *)
(* saved it.  Of what the old one has sent, some may reach the server yet. *)
Reload ==
  /\ reloads < MaxReloads
  /\ reloads' = reloads + 1
  /\ checkpoint' \in checkpoint..Len(log)
  /\ grid' = Replay(log, checkpoint')
  /\ last_sequence_num' = checkpoint'
  /\ unsaved_transactions' = <<>>
  /\ out_of_order_transactions' = <<>>
  /\ async_transactions' = <<>>
  /\ undo_stack' = <<>>
  /\ redo_stack' = <<>>
  /\ leaving' = IF connected THEN leaving \o to_server ELSE leaving
  /\ to_server' = <<>>
  /\ requests' = {}
  /\ broadcasts' = {}
  /\ replies' = {}
  /\ connected' = FALSE
  /\ joined' = Len(log)
  /\ must_reload' = FALSE
  /\ index' = 0
  /\ unapplied' = TRUE
  /\ locked' = {"offline", "multiplayer"}
  /\ UNCHANGED <<issued, edited, log, disconnects, stored, finished, batched>>

(* A bug: an entry that the page does not know is executed, not sent.      *)
ApplyOfflineUnsaved_Unsent(s, e) ==
  IF Holds(unsaved_transactions, e.transactionId)
    THEN {[s EXCEPT !.send = Append(@, [id |-> e.transactionId, writes |-> e.transaction])]}
    ELSE {[s EXCEPT !.grid = Overlay(@, e.transaction)]}

(* One entry: if the page has made it, it is sent again (sent_to_server is *)
(* never set while it is unsaved).  If not, it is executed as an Unsaved   *)
(* transaction: it can be undone and is sent, but is not kept among the    *)
(* unsaved ones.  s holds what this reads and writes.                      *)
ApplyOfflineUnsaved(s, e) ==
  IF Holds(unsaved_transactions, e.transactionId)
    THEN {[s EXCEPT !.send = Append(@, [id |-> e.transactionId, writes |-> e.transaction])]}
    ELSE {[grid |-> Overlay(s.grid, e.transaction),
           undo |-> Append(s.undo, ReverseOf(s.grid, D)),
           redo |-> <<>>,
           send |-> Append(s.send, [id |-> e.transactionId,
                                    writes |-> ForwardOf(e.transaction, D)])]
            : D \in Recorded(s.grid, e.transaction)}

(* What executing the entries q one after the other can make of s.         *)
ApplyAll(s, q) ==
  LET run[i \in 0..Len(q)] ==
        IF i = 0 THEN {s} ELSE UNION {ApplyOfflineUnsaved(p, q[i]) : p \in run[i - 1]}
  IN  run[Len(q)]

PageState == [grid |-> grid, undo |-> undo_stack, redo |-> redo_stack, send |-> to_server]

(* loadTransactions: one after the other.  The next entry will have the    *)
(* number of those there are for its index.                                *)
LoadTransactions ==
  /\ unapplied
  /\ \E q \in LoadOrders : \E s \in ApplyAll(PageState, q) :
       /\ grid' = s.grid
       /\ undo_stack' = s.undo
       /\ redo_stack' = s.redo
       /\ to_server' = s.send
  /\ index' = Cardinality(stored)
  /\ unapplied' = FALSE
  /\ locked' = locked \ {"offline"}
  /\ UNCHANGED <<unsaved_transactions, out_of_order_transactions, last_sequence_num,
                 async_transactions, issued, requests, edited, netVars, stored, leaving,
                 checkpoint, reloads, finished, batched>>

(* The server reads what an old page has sent, or its socket is closed     *)
(* before it does.                                                         *)
LateSequence ==
  /\ leaving # <<>>
  /\ Commit(Head(leaving))
  /\ leaving' = Tail(leaving)
  /\ UNCHANGED <<clientVars, replies, connected, joined, disconnects, must_reload,
                 stored, index, unapplied, locked, checkpoint, reloads, finished, batched>>

LateLoss ==
  /\ leaving # <<>>
  /\ leaving' = <<>>
  /\ UNCHANGED <<vars, stored, index, unapplied, locked, checkpoint, reloads, finished, batched>>

-----------------------------------------------------------------------------
RoomSteps ==
  /\ \/ Sequence
     \/ RemoteCommit
     \/ \E m \in requests : ServeRequest(m)
     \/ Reconnect
  /\ UNCHANGED offlineVars

OfflineNext ==
  \/ UserFinishes
  \/ UserStartsCode
  \/ RoomSteps
  \/ \E n \in broadcasts : PageReceivesTransaction(n)
  \/ \E r \in replies : PageReceivesTransactions(r)
  \/ \E k \in Announced : PageReceivesCurrentTransaction(k)
  \/ PageDisconnects
  \/ ConnectionFails
  \/ Reload
  \/ LoadTransactions
  \/ LateSequence
  \/ LateLoss

OfflineSpec == OfflineInit /\ [][OfflineNext]_<<vars, offlineVars>>

-----------------------------------------------------------------------------
(* Properties.                                                             *)

(* Nothing the user has finished is lost: the server has numbered it, or   *)
(* it is still stored, whatever connections and pages were lost meanwhile. *)
NothingFinishedIsLost ==
  \A id \in finished : Holds(log, id) \/ \E e \in stored : e.transactionId = id

(* What is stored and what is still under way from earlier pages is the    *)
(* user's own work, with ids the client has given.                         *)
WaitingIsOwn ==
  /\ \A e \in stored : e.transactionId \in 1..issued /\ DOMAIN e.transaction \subseteq edited
  /\ \A i \in DOMAIN leaving :
       leaving[i].id # Foreign /\ DOMAIN leaving[i].writes \subseteq edited

(* A transaction whose code runs is not stored yet, nor made twice.        *)
AsyncIsNotStored ==
  \A i \in DOMAIN async_transactions :
    /\ async_transactions[i].id \in 1..issued
    /\ \A e \in stored : e.transactionId # async_transactions[i].id
    /\ \A j \in DOMAIN async_transactions :
         async_transactions[i].id = async_transactions[j].id => i = j

(* A transaction has one entry, so the one that markTransactionSent        *)
(* removes is all there is of it, and load applies it once.                *)
StoredOnce ==
  \A e, f \in stored : e.transactionId = f.transactionId => e = f

(* The inductive invariant of the page: that of the session, which every   *)
(* reload and every load from the store keeps, and what the store holds.   *)
OfflineInv ==
  /\ OfflineTypeOK
  /\ IndInv
  /\ WaitingIsOwn
  /\ AsyncIsNotStored
  /\ StoredOnce
  /\ NothingFinishedIsLost

(* There are two exceptions to what follows: a batch that begins with the  *)
(* oldest unsaved transaction, which is rolled back and then only deleted, *)
(* and a lost connection, which may take the second copy of a transaction  *)
(* with it when the first has already taken it out of the store.           *)
Undisturbed == ~batched /\ disconnects = 0

(* What the server has, or will be sent by this page, an earlier or a      *)
(* later one.                                                              *)
Copies ==
  {log[n] : n \in DOMAIN log} \cup {to_server[i] : i \in DOMAIN to_server}
  \cup {leaving[i] : i \in DOMAIN leaving}
  \cup {[id |-> e.transactionId, writes |-> e.transaction] : e \in stored}

(* Whatever copy of an unsaved transaction is numbered first, its writes   *)
(* are those on the grid; of one whose code runs there is none.            *)
CopiesAgree ==
  \A t \in Copies :
    /\ t.id <= issued
    /\ \A i \in DOMAIN async_transactions : async_transactions[i].id # t.id
    /\ \A j \in DOMAIN unsaved_transactions :
         unsaved_transactions[j].id = t.id => unsaved_transactions[j].forward = t.writes

UnsavedAreApart ==
  \A i, j \in DOMAIN unsaved_transactions :
    LET u == unsaved_transactions[i]
        v == unsaved_transactions[j]
    IN  /\ u.id <= issued /\ DOMAIN u.reverse = DOMAIN u.forward
        /\ i # j => u.id # v.id /\ DOMAIN u.forward \cap DOMAIN v.forward = {}

HeldCameFirst ==
  \A n \in broadcasts, i \in DOMAIN out_of_order_transactions :
    out_of_order_transactions[i].sequence_num < n

(* A transaction that will be executed as somebody else's, because the     *)
(* page does not know it for its own, has yet to write c.                  *)
Awaited(c) ==
  \/ \E n \in (last_sequence_num + 1)..Len(log) :
       c \in DOMAIN log[n].writes /\ ~Holds(unsaved_transactions, log[n].id)
  \/ \E i \in DOMAIN to_server :
       c \in DOMAIN to_server[i].writes /\ ~Holds(unsaved_transactions, to_server[i].id)

(* Executing what was stored puts on the grid, before anybody else has it, *)
(* what is not among the unsaved transactions, so that nothing rolls it    *)
(* back.  A cell that therefore differs from the log with the unsaved ones *)
(* on top will be written again.                                           *)
ShownOrAwaited ==
  Undisturbed =>
    \A c \in Cell :
      \/ grid[c] = OverlayForward(Replay(log, last_sequence_num),
                                  Forwards(unsaved_transactions))[c]
      \/ Awaited(c)

(* With OfflineInv, the inductive invariant behind it.                     *)
PageInv ==
  Undisturbed =>
    CopiesAgree /\ UnsavedAreApart /\ AsyncIsUnsaved /\ HeldCameFirst /\ ShownOrAwaited

(* A page that has reached the end of the log, with nothing unsaved and    *)
(* nothing to send, shows what everybody does: what earlier pages did, and *)
(* this one executed from the store, leaves nothing behind, however often  *)
(* it was numbered and whatever of it is still under way.                  *)
SettledPageIsInSync ==
  (/\ Undisturbed /\ unsaved_transactions = <<>> /\ to_server = <<>>
   /\ last_sequence_num = Len(log))
    => grid = Replay(log, Len(log))
=============================================================================
