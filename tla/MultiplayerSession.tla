------------------------- MODULE MultiplayerSession -------------------------
(***************************************************************************)
(* One client's session in the room of a file: its GridClient, the         *)
(* multiplayer worker that talks for it (quadratic-client,                 *)
(* multiplayerServer.ts), the multiplayer server that gives every          *)
(* transaction its sequence number and returns it to everybody in the room *)
(* (quadratic-multiplayer, message/handle.rs), and the messages in between.*)
(* The other users are seen only through the transactions they commit.     *)
(*                                                                         *)
(* A page that was told to reload goes on until the browser does so, and   *)
(* what it does until then is in the model; the reload itself is not.      *)
(***************************************************************************)
EXTENDS GridClient, FiniteSets

CONSTANTS
  RemoteEdits,      \* what one transaction of another user may write
  Reorder,          \* may messages of the server overtake one another?
  LocalConflicts,   \* may the user write a cell of an unsaved transaction?
  MaxOwn,           \* bound on the transactions of this user
  MaxRemote,        \* bound on the transactions of the others
  MaxDisconnects,   \* bound on the losses of the connection
  MaxInFlight       \* bound on the requests and replies under way

ASSUME SessionAssumption ==
  /\ RemoteEdits \subseteq Writes
  /\ {Reorder, LocalConflicts} \subseteq BOOLEAN
  /\ {MaxOwn, MaxRemote, MaxDisconnects, MaxInFlight} \subseteq Nat

VARIABLES
  log,          \* the room's transactions: the n-th one has sequence_num n
  broadcasts,   \* Transaction messages to this client, by sequence_num
  replies,      \* Transactions messages to it: the log from .from to .to
  connected,    \* is the client's websocket open?
  joined,       \* the length of the log when the server read it for EnterRoom
  disconnects,  \* how often it has been lost
  must_reload   \* MissingTransactions has been received

netVars == <<log, broadcasts, replies, connected, joined, disconnects, must_reload>>
vars == <<clientVars, netVars>>

Reply == [from : Nat \ {0}, to : Nat]

TypeOK ==
  /\ ClientTypeOK
  /\ log \in Seq(SentTransaction)
  /\ broadcasts \in SUBSET Nat
  /\ replies \in SUBSET Reply
  /\ connected \in BOOLEAN
  /\ joined \in Nat
  /\ disconnects \in Nat
  /\ must_reload \in BOOLEAN

Init ==
  /\ ClientInit
  /\ log = <<>>
  /\ broadcasts = {}
  /\ replies = {}
  /\ connected = TRUE
  /\ joined = 0
  /\ disconnects = 0
  /\ must_reload = FALSE

-----------------------------------------------------------------------------
(* The user.                                                               *)

(* With LocalConflicts = FALSE the user waits for the server before        *)
(* touching again what a transaction of hers has written.                  *)
MayWrite(w) ==
  LocalConflicts \/ \A i \in DOMAIN unsaved_transactions :
                      DOMAIN w \cap DOMAIN unsaved_transactions[i].forward = {}

Edit ==
  /\ issued < MaxOwn
  /\ \E w \in UserEdits : MayWrite(w) /\ UserTransaction(w)
  /\ UNCHANGED netVars

RunCode ==
  /\ issued < MaxOwn
  /\ \E w \in CodeCells : MayWrite(w) /\ StartAsyncTransaction(w)
  /\ UNCHANGED netVars

CodeCompletes ==
  /\ \E k \in DOMAIN async_transactions, r \in CodeResults :
       MayWrite(r) /\ CalculationComplete(k, r)
  /\ UNCHANGED netVars

UndoLast ==
  /\ issued < MaxOwn
  /\ undo_stack # <<>> /\ MayWrite(Top(undo_stack))
  /\ Undo
  /\ UNCHANGED netVars

RedoLast ==
  /\ issued < MaxOwn
  /\ redo_stack # <<>> /\ MayWrite(Top(redo_stack))
  /\ Redo
  /\ UNCHANGED netVars

-----------------------------------------------------------------------------
(* The server.                                                             *)

(* It numbers a transaction and sends it to all users in the room, its     *)
(* author among them.                                                      *)
Commit(t) ==
  /\ log' = Append(log, t)
  /\ broadcasts' = IF connected THEN broadcasts \cup {Len(log) + 1} ELSE broadcasts

Sequence ==
  /\ connected
  /\ to_server # <<>>
  /\ Commit(Head(to_server))
  /\ to_server' = Tail(to_server)
  /\ UNCHANGED <<grid, unsaved_transactions, out_of_order_transactions, last_sequence_num,
                 async_transactions, undo_stack, redo_stack, issued, requests, edited,
                 replies, connected, joined, disconnects, must_reload>>

RemoteCommits == Cardinality({i \in DOMAIN log : log[i].id = Foreign})

RemoteCommit ==
  /\ RemoteCommits < MaxRemote
  /\ \E w \in RemoteEdits : Commit([id |-> Foreign, writes |-> w])
  /\ UNCHANGED <<clientVars, replies, connected, joined, disconnects, must_reload>>

(* GetTransactions: everything from m on, or, when the server has fewer    *)
(* than the one it expects at least, the error that reloads the page.      *)
ServeRequest(m) ==
  /\ m \in requests
  /\ requests' = requests \ {m}
  /\ \/ m <= Len(log) /\ replies' = replies \cup {[from |-> m, to |-> Len(log)]}
                      /\ UNCHANGED must_reload
     \/ m > Len(log)  /\ must_reload' = TRUE /\ UNCHANGED replies
  /\ UNCHANGED <<grid, unsaved_transactions, out_of_order_transactions, last_sequence_num,
                 async_transactions, undo_stack, redo_stack, issued, to_server, edited,
                 log, broadcasts, connected, joined, disconnects>>

-----------------------------------------------------------------------------
(* What reaches the client.                                                *)

ReceiveTransaction(n) ==
  /\ n \in broadcasts
  /\ Reorder \/ n = Least(broadcasts)
  /\ ReceivedTransaction(log[n].id, n, log[n].writes)
  /\ broadcasts' = broadcasts \ {n}
  /\ UNCHANGED <<log, replies, connected, joined, disconnects, must_reload>>

ReceiveTransactions(r) ==
  /\ r \in replies
  /\ Reorder \/ \A n \in broadcasts : r.to < n
  /\ ReceivedTransactions(SubSeq(log, r.from, r.to), r.from)
  /\ replies' = replies \ {r}
  /\ UNCHANGED <<log, broadcasts, connected, joined, disconnects, must_reload>>

(* The room's sequence number, in the answer to EnterRoom and in the       *)
(* background worker's announcements: as it was at some time since it was  *)
(* read for EnterRoom.                                                     *)
Announced ==
  IF Reorder THEN joined..Len(log)
  ELSE IF broadcasts = {} THEN {Len(log)} ELSE {Least(broadcasts) - 1}

ReceiveCurrentTransaction(k) ==
  /\ connected
  /\ k \in Announced
  /\ Cardinality(requests) + Cardinality(replies) < MaxInFlight
  /\ ReceiveSequenceNum(k)
  /\ UNCHANGED netVars

(* The websocket closes: what is under way is lost, in both directions.    *)
Disconnect ==
  /\ connected
  /\ disconnects < MaxDisconnects
  /\ connected' = FALSE
  /\ disconnects' = disconnects + 1
  /\ to_server' = <<>>
  /\ requests' = {}
  /\ broadcasts' = {}
  /\ replies' = {}
  /\ joined' = Len(log)
  /\ UNCHANGED <<grid, unsaved_transactions, out_of_order_transactions, last_sequence_num,
                 async_transactions, undo_stack, redo_stack, issued, edited, log, must_reload>>

(* Transactions of the meantime waited in waitingForConnection and are     *)
(* sent now.  The server reads the sequence number some time before the    *)
(* client is in the room and others' transactions are sent to it.          *)
Reconnect ==
  /\ ~connected
  /\ connected' = TRUE
  /\ joined' \in joined..Len(log)
  /\ UNCHANGED <<clientVars, log, broadcasts, replies, disconnects, must_reload>>

-----------------------------------------------------------------------------
Next ==
  \/ Edit
  \/ RunCode
  \/ CodeCompletes
  \/ UndoLast
  \/ RedoLast
  \/ Sequence
  \/ RemoteCommit
  \/ \E m \in requests : ServeRequest(m)
  \/ \E n \in broadcasts : ReceiveTransaction(n)
  \/ \E r \in replies : ReceiveTransactions(r)
  \/ \E k \in Announced : ReceiveCurrentTransaction(k)
  \/ Disconnect
  \/ Reconnect

Spec == Init /\ [][Next]_vars

(* What the code repeats until it has worked: the server's periodic        *)
(* announcement of the sequence number (background_worker.rs), its answers *)
(* and broadcasts, the client's attempts to reconnect.  Users need do      *)
(* nothing, and the code of a code cell need not end.  The fairness of     *)
(* receiving is stated by what is received, which leaves the channel (a    *)
(* loss of the connection may empty it, too).                              *)
Fairness ==
  /\ WF_requests(ReceiveCurrentTransaction(Len(log)))
  /\ WF_requests(\E m \in requests : ServeRequest(m))
  /\ WF_broadcasts(\E n \in broadcasts :
                     (Reorder \/ n = Least(broadcasts)) /\ broadcasts' = broadcasts \ {n})
  /\ WF_replies(\E r \in replies :
                  (Reorder \/ \A n \in broadcasts : r.to < n) /\ replies' = replies \ {r})
  /\ WF_vars(Sequence)
  /\ WF_vars(Reconnect)

FairSpec == Spec /\ Fairness

-----------------------------------------------------------------------------
(* Properties.                                                             *)

(* Whatever is delayed, reordered, lost or requested again, the cells the  *)
(* user has not written show exactly the transactions up to the last       *)
(* sequence number, executed in order: no transaction is skipped, repeated *)
(* or executed early, and rolling back and reapplying the user's own ones  *)
(* disturbs nothing else.                                                  *)
UntouchedCellsFollowLog ==
  \A c \in Cell \ edited : grid[c] = Replay(log, last_sequence_num)[c]

(* What the client holds for later is what the server has numbered, under  *)
(* the number the server gave it.                                          *)
StashMatchesLog ==
  \A i \in DOMAIN out_of_order_transactions :
    LET t == out_of_order_transactions[i]
    IN  /\ t.sequence_num \in DOMAIN log
        /\ log[t.sequence_num] = [id |-> t.id, writes |-> t.writes]

(* Own transactions have ids, and whatever is kept, sent, undone or logged *)
(* of them writes cells the user has written.                              *)
IsOwn(u) ==
  u.id # Foreign /\ DOMAIN u.forward \subseteq edited /\ DOMAIN u.reverse \subseteq edited

OwnWorkIsEdited ==
  /\ \A i \in DOMAIN unsaved_transactions : IsOwn(unsaved_transactions[i])
  /\ \A i \in DOMAIN async_transactions : IsOwn(async_transactions[i])
  /\ \A i \in DOMAIN to_server :
       to_server[i].id # Foreign /\ DOMAIN to_server[i].writes \subseteq edited
  /\ \A i \in DOMAIN undo_stack : DOMAIN undo_stack[i] \subseteq edited
  /\ \A i \in DOMAIN redo_stack : DOMAIN redo_stack[i] \subseteq edited
  /\ \A n \in DOMAIN log : log[n].id # Foreign => DOMAIN log[n].writes \subseteq edited

(* What is under way, and what the client has reached, is in the log.      *)
InFlightIsLogged ==
  /\ last_sequence_num <= Len(log)
  /\ broadcasts \subseteq DOMAIN log
  /\ \A r \in replies : r.to <= Len(log)
  /\ 0 \notin requests

(* The inductive invariant behind UntouchedCellsFollowLog.                 *)
IndInv ==
  /\ TypeOK
  /\ OwnWorkIsEdited
  /\ InFlightIsLogged
  /\ StashMatchesLog
  /\ UntouchedCellsFollowLog

(* A transaction that has not reached the server is still among the        *)
(* unsaved ones, with the very operations that will be sent: receiving     *)
(* other transactions never loses the user's work.                         *)
UnsentIsUnsaved ==
  \A i \in DOMAIN to_server : \E j \in DOMAIN unsaved_transactions :
    /\ unsaved_transactions[j].id = to_server[i].id
    /\ unsaved_transactions[j].forward = to_server[i].writes

(* So is a transaction whose code is still running: its operations are     *)
(* rolled back and reapplied with those of the others.                     *)
AsyncIsUnsaved ==
  \A i \in DOMAIN async_transactions : \E j \in DOMAIN unsaved_transactions :
    unsaved_transactions[j] = async_transactions[i]

(* The sequence number the client has reached never falls, and none is     *)
(* reached that the server has not given.                                  *)
SequenceNumberAdvances ==
  [][last_sequence_num' >= last_sequence_num /\ last_sequence_num' <= Len(log')]_vars

(* With messages in order and no connection lost, the grid is the log so   *)
(* far with the user's unsaved transactions on top.                        *)
ViewIsLogPlusUnsaved ==
  grid = OverlayForward(Replay(log, last_sequence_num), Forwards(unsaved_transactions))

(* A client that has no unsaved transaction and has reached the number the *)
(* server announces ("to ensure we're in sync") shows what everybody does. *)
InSync ==
  (last_sequence_num = Len(log) /\ unsaved_transactions = <<>>)
    => grid = Replay(log, Len(log))

(* The cells nobody else has written.                                      *)
OwnCells ==
  {c \in Cell : \A n \in DOMAIN log :
                  log[n].id = Foreign => c \notin DOMAIN log[n].writes}

(* Undoing everything there is to undo blanks the cells that only this     *)
(* user has written, whatever was undone, redone and received before; the  *)
(* cells of a transaction whose code still runs are not yet to be undone.  *)
UndoClearsOwnWork ==
  \A c \in OwnCells :
    (\A i \in DOMAIN async_transactions : c \notin DOMAIN async_transactions[i].forward)
      => OverlayBackward(grid, undo_stack)[c] = Blank

(* Only new work changes where undoing everything and redoing everything   *)
(* lead: an undo or a redo moves along the trail, and receiving the user's *)
(* own transactions back, or those of others, leaves it alone.             *)
TrailEnds(c) ==
  <<OverlayBackward(grid, undo_stack)[c], OverlayBackward(grid, redo_stack)[c]>>

UndoRedoRetrace ==
  [][Edit \/ RunCode \/ CodeCompletes
     \/ \A c \in OwnCells' : TrailEnds(c)' = TrailEnds(c)]_vars

(* The client keeps the promise of SharedSheet.                            *)
Shared == INSTANCE SharedSheet
            WITH OwnId <- 1..MaxOwn, Foreign <- Foreign,
                 history <- log, seen <- last_sequence_num, sheet <- grid,
                 mine <- [i \in DOMAIN unsaved_transactions |->
                           [id |-> unsaved_transactions[i].id,
                            writes |-> unsaved_transactions[i].forward]]

ImplementsSharedSheet == Shared!SharedSpec

(* The client reaches the end of the log and stays there.                  *)
CaughtUp == <>[](last_sequence_num = Len(log))

(* Every transaction that was sent is eventually saved.                    *)
OwnTransactionsSettle ==
  \A n \in 1..MaxOwn :
    (issued >= n /\ ~Holds(async_transactions, n)) ~> ~Holds(unsaved_transactions, n)
=============================================================================
