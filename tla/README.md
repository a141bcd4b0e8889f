# Quadratic: a verification project

TLA+ models of Quadratic, a collaborative spreadsheet, with TLC configurations
and TLAPS proofs. The first part is the protocol that keeps the sheets of
several users equal: every user's edits are executed at once on her own copy,
the multiplayer server gives each transaction a sequence number, and every
client executes all transactions in the order of these numbers, rolling its own
unconfirmed ones back and reapplying them around each. Around it are the server
that gives the numbers, the service that saves the file, and the page that is
reloaded. The second part is what a transaction does: the runs of code it waits
for, and the operations on cells and data tables it is made of.

Paths below are relative to `src/`.

## 1. The system

| part | state | operations | talks to |
|---|---|---|---|
| transaction engine, `quadratic-core/src/controller` (Rust, compiled to wasm, in the core worker) | grid, undo and redo stacks, `ActiveTransactions`: unsaved, out-of-order and waiting transactions, last sequence number | user transactions, code that completes later, undo, redo, `received_transaction(s)`, `receive_sequence_num`, `apply_offline_unsaved_transaction` | the core worker (TypeScript) by imported `js*` functions |
| core worker, `quadratic-client/.../quadraticCore/worker` | the `GridController`, the IndexedDB store of unsent transactions | loads the file, forwards messages to the engine, keeps and deletes offline entries | multiplayer worker, python and javascript workers, page |
| multiplayer worker, `quadratic-client/.../multiplayerWebWorker` | websocket, connection state, `waitingForConnection` | connect, reconnect, enter a room, send a transaction, ask for transactions, heartbeat | core worker by messages, server by websocket |
| multiplayer server, `quadratic-multiplayer` (Rust, tokio) | rooms with users and sequence number, connections | EnterRoom, LeaveRoom, Transaction, GetTransactions, UserUpdate, Heartbeat; a background worker that announces sequence numbers and removes stale users | clients, Redis streams, API |
| file service, `quadratic-files` | none of its own but a lock on the Redis connection | for each active channel: read the checkpoint, read the stream, apply, write the file, acknowledge, set the checkpoint; truncate streams | Redis, S3, API |
| API, `quadratic-api` | PostgreSQL: files, checkpoints, permissions | routes; of these `PUT /file/:uuid/checkpoint` takes part in the protocol | file service, multiplayer server, client |
| code runs: python and javascript workers, queries of the core worker | runs that wait, runs under way, the transaction a worker takes for the current one | run, ask for cells, return a result, restart | core worker |
| operations on cells and data tables, spills (`execute_operation`, `spills.rs`, `grid/sheet`) | cells and the ordered map of data tables of a sheet | one function per kind of operation, each recording forward and reverse operations | the engine |
| other grid data structures, formulas, A1 notation, file format | values | sequential functions | the engine |
| render worker, connection service, infrastructure | derived or none | drawing, SQL proxying, deployment | |

What is hard about it:

* *Order.* Each broadcast of the server is a task of its own (`message/mod.rs`),
  so a client can receive transactions in any order, twice (by broadcast and in
  a requested batch), or not at all (the socket closed).
* *Optimistic execution.* The client's own transactions are on the grid before
  they have a number. Everything received must be executed below them.
* *Suspension.* A transaction with a code cell stops in the middle and goes on
  when the code has run, while other transactions come and go.
* *Steps that are not atomic.* The server takes a number under one lock and
  pushes the transaction under another; a room is emptied under one and removed
  under another; the file service reads a checkpoint before it locks the stream.
* *Overlap.* A run goes on in its worker while the user changes the cell, deletes
  it or cancels; the workers let runs overlap where they await.
* *Derived state.* Spill errors follow from cells, tables and their order; only
  the client that makes a transaction computes them, the others are told.
* *Failure.* Connections close, a page is reloaded with transactions it has not
  sent, a push to Redis fails, the file service stops between two steps.

What makes each part correct:

* engine and session: the sheet is the log up to the last sequence number with
  the user's own unsaved transactions on top; none is lost, executed twice or
  out of order; the client catches up; undo and redo retrace the user's work.
* multiplayer server: a number names one transaction and every number has one;
  what is broadcast is in the stream; whoever has entered is in the room.
* file service: the file of a checkpoint is the replay of the stream up to its
  number; checkpoints never go back; every transaction gets into a checkpoint.
* offline store: what the user has finished has a number or is stored, through
  lost connections and reloads, and leaves nothing behind when it was sent twice.
* code runs: a transaction waits for exactly the run that is under way for it; an
  output is shown with the code that computed it; no run waits for ever.
* operations: the forward operations bring every other client to the same sheet,
  down to the order of the tables and their spill errors; undo leads back.

`PROJECT.json` lists every component, and under `hazards` the places in the code
where these things are at stake, with the properties that watch them.

## 2. Modules

| module | models |
|---|---|
| `SheetWrites` | cells, values, what a transaction writes, what executing, recording and replaying writes does |
| `GridClient` | the engine's state and one operator or action for each of its entry points; no environment |
| `MultiplayerSession` | one client (`GridClient`), its multiplayer worker, the room's log, the network, the other users; all properties of the session |
| `SharedSheet` | the abstract specification: one history, a user who learns it and has work of her own on top |
| `MCMultiplayerSession` | the sets of edits for TLC |
| `FileService` | the saving of one file: the publisher's two writes, the ticks and tasks of the file service, the API's checkpoint, object storage, truncation |
| `SavedFile` | the abstract specification of saving: a log, and a saved copy that is a prefix of it and only gets newer |
| `MCFileService` | the symmetry of the tasks for TLC |
| `MultiplayerServer` | the inside of the multiplayer server for one file: the room, the registered connections, the handlers of the sockets and the tasks next to them, each at its awaits, over a Redis stream |
| `MCMultiplayerServer` | which socket belongs to which session, for TLC |
| `OfflinePage` | `MultiplayerSession` composed with the store in the browser: storing, marking as sent, reloads, replaying and sending again |
| `MCOfflinePage` | its edits for TLC |
| `CodeRun` | cells with code, languages, the messages between the core and the workers |
| `CodeTransactions` | the core's side of running code: transactions that wait at one code cell after the other |
| `PythonWorker`, `JavascriptWorker` | the two workers, which differ in what they queue and when they go on |
| `CodeRuns` | the three composed, with the queries of the core, cancellation and restarts |
| `MCCodeRuns` | two cells, their languages and what they read, for TLC |
| `SheetTables` | a sheet of cells and data tables, and one operator for each kind of operation |
| `TableEditing` | users who edit such a sheet: the operations of each edit, undo, redo, and what the others receive |
| `MCTableEditing` | rows, results and the sheets to start from, for TLC |
| `GridClient_proofs` | lemmas about `SheetWrites` and `GridClient` |
| `MultiplayerSession_proofs`, `Editor_proofs`, `FileService_proofs`, `MultiplayerServer_proofs`, `OfflinePage_proofs`, `CodeRuns_proofs`, `TableEditing_proofs` | the theorems, each about the specification its name begins with; the second is about `MultiplayerSession` |

The parts of the protocol meet in the room's log: `MultiplayerSession` reads and
extends it as the clients see it, `MultiplayerServer` makes it, as `log`,
`FileService` has it as the Redis stream, `sent`, and `OfflinePage` loads a prefix
of it as a checkpoint. What each assumes of its neighbour is shown by the
neighbour's model, with one exception: the session's log has no gaps, and
`MultiplayerServer` shows that a number can be lost (see "What the models show
besides", in section 3). The file service allows gaps.

`CodeRuns` and `TableEditing` look into the transactions. What the session takes
for one write that comes later (`StartAsyncTransaction`, `CalculationComplete`)
is, in `CodeRuns`, a transaction with several runs; what it takes for net writes
is, in `TableEditing`, a list of operations.

### How the state corresponds to the code

| model | code |
|---|---|
| `grid` | `GridController.grid`, as a function from cells to values |
| `unsaved_transactions` | `ActiveTransactions.unsaved_transactions` with the forward and reverse operations of each as net writes |
| `out_of_order_transactions`, `last_sequence_num`, `async_transactions` | the fields of that name |
| `undo_stack`, `redo_stack` | the reverse operations of the `Transaction`s on them |
| `to_server` | `jsSendTransaction` calls not yet handled by the server: in `waitingForConnection` or on the socket |
| `requests`, `replies`, `broadcasts` | messages under way |
| `log` | the room's transactions in the order of `Room.sequence_num` (and of the Redis stream) |
| `joined` | the sequence number the server read for the answer to EnterRoom |
| `must_reload` | the client has received MissingTransactions |
| `issued`, `edited`, `disconnects` | history, not in the code: ids given out, cells own transactions wrote, a bound |

A *transaction is its net effect*, a partial function from cells to values: the
operations of one transaction are always executed together, and what they share
with others is only the cells they write. What a transaction *records* is less
than what it writes: an operation that changes nothing returns before it is
recorded (`execute_set_cell_values`), one that changes some cells is recorded
whole. How many operations a transaction has is left open, so `Recorded` allows
every set of cells that contains those that changed. A code cell's run writes a
data table, a location of its own, never a cell its transaction has written.

### How the actions correspond to the code

The core worker is single-threaded and no entry point of the engine awaits, so
each is one action: `UserTransaction` (`start_user_transaction` with
`finalize_transaction`), `StartAsyncTransaction` (the same up to
`add_async_transaction`), `CalculationComplete` (`calculation_complete`), `Undo`,
`Redo`, `ReceivedTransaction`, `ReceivedTransactions`, `ReceiveSequenceNum`.
The private functions of `receive_multiplayer.rs` are operators on a record of
the four parts of the state they change, one per function or branch: `Rollback`,
`Reapply`, `ApplyOutOfOrder`, `ApplyOldestOwn`, `ApplyNewerOwn`, `ApplyForeign`,
`Stashed`, `ClientApply`, `ApplyBatch`. They keep the code's peculiarities: that
`Reapply` goes through the unsaved transactions newest first, that the held
transactions are sorted in descending order and drained in one pass, that a
received transaction is held again however often it comes, that the throttle of
requests never applies because `last_get_transactions_time` is never set.

`Sequence` and `RemoteCommit` are the server's handler of Transaction, for this
client and for the others; here it numbers and broadcasts in one step, which is
what a client can see of it as long as no push fails or is refused (the steps
inside are in `MultiplayerServer`). `ServeRequest` is its handler of GetTransactions,
`ReceiveCurrentTransaction` the announcement by EnterRoom and by the background
worker. `Disconnect` loses everything under way in both directions; `Reconnect`
sends what has waited.

### The multiplayer server

| model | code |
|---|---|
| `exists`, `users`, `sequence_num` | the entry of the file in `State.rooms`; a user is the socket (`connection_id`) its session last entered by |
| `connections` | `State.connections` |
| `log`, `newest`, `checkpoint` | the file's stream, the largest id it took, the checkpoint the API answers |
| `broadcasts` | the Transaction messages spawned for the room (history) |
| `pc` of a socket | where `handle_socket` is: waiting for a message (`open`), at an await of a message, in `remove_connection` (`closing` and the places of leaving), ended |
| `pc` of a task | a spawned `broadcast` or a pass of the background worker |
| `leaving` | whom a handler or a task removes with `leave_room`, and who called it |
| `number`, `transaction` | locals of a handler between two awaits |
| `received`, `givenUp`, `faults` | a bound, what the browser has done to a socket, a bound |

The mutexes of rooms and connections are held for one statement each, so a
handler's steps are its statements under a lock. `EnterRoom` goes through
`GetFilePerms` (API, then Redis; the number read last is the larger one, so the
two are one step), `GetMaxSequenceNum` (the lock is held while the API is asked,
as the guard lives to the end of the `match`), `EnterRoom` (the statement under
the lock, which creates the room, and the registration inside it) and
`LookupRoom`. `Transaction` is `ReceiveTransaction` (the check that the session is
in the room), `TakeNumber`, and `Push`, `PushRefused` or `PushFails`; a
transaction that cannot be decoded ends like one whose push fails. `leave_room`
is `RemoveUser`, `CountUsers`, `RemoveRoom`, in that order and under three locks;
its four callers (LeaveRoom, the end of a socket, a stale user, a failed
broadcast) go on differently, by `AfterLeave` and `AfterError`. A broadcast or a
pass of the worker that removes several users is as many tasks here. The browser
opens a new socket for the same session when the old one is closed or given up
(`GiveUp`), which the server may learn much later (`NoticeClosed`).

### The file service

| model | code |
|---|---|
| `stream`, `newest`, `sent` | the Redis stream of the file: the numbers in it, the largest it ever held, all it ever held (the last is history) |
| `publishing` | `publish` is between its xadd and its zadd |
| `active` | the file is in the sorted set of active channels |
| `store` | the objects `FILE-NUMBER.grid`: how often each transaction was applied to the file as created |
| `checkpoint` | the largest `sequenceNumber` of the file's `FileCheckpoint` rows |
| `processed`, `clock` | the channel of processed transactions: entries with the key Redis gives them, in the order of time |
| `pc`, `base`, `batch`, `last` | a task of `process_queue_for_room`: the await it is at, `checkpoint_sequence_num`, `transactions`, `last_sequence_num` |
| `startedAt` | when the task was spawned, on the scale of `clock` |
| `faults` | a bound |

A task's steps are its awaits: `Tick` spawns it, `GetFileCheckpoint` asks the API
before the mutex is taken, `GetMessages` (or `NothingToDo`) takes the mutex and
reads the stream, `ProcessTransactions` loads and writes the object, `Ack` leaves
the active set and drops the mutex, `SetFileCheckpoint` is the API's PUT with its
refusal of a smaller number, `AddProcessedTransaction` takes the mutex again. The
mutex is held exactly at `holding` and `written`. The reading and the writing of
an object are one step, as no other task gets between them. Several tasks of one
file are in flight when one is slower than `FILE_CHECK_S`.

What fails: the request for the checkpoint (`read`), any other await of a task
(`task`), the file service as a whole (`crash`), the multiplayer server between
its two writes (`publish`). A transaction whose xadd fails leaves a gap in the
numbers; `AddToStream` may skip any. An entry of the processed channel may be
trimmed when it is `TRUNCATE_TRANSACTION_AGE_DAYS` old. Time is not in the model;
what the age achieves is: no task that has still to read the stream was spawned
before the entry was added (`Due`). A task that hangs for days breaks this; the
requests have no timeout, so it is an assumption about the deployment.

### The page and its store

| model | code |
|---|---|
| `stored` | the entries of the `transactions` store in IndexedDB for this file |
| `index` | `Offline.index`, the index of the next entry |
| `unapplied` | `loadTransactions` has not run yet |
| `locked` | what of "offline" and "multiplayer" the page waits for before the user may edit (`QuadraticApp.tsx`) |
| `leaving` | transactions a page that is gone has handed to its socket and the server has not read |
| `checkpoint` | the number of the file the next page loads |
| `reloads`, `finished`, `batched` | a bound; history |

Every step of the session is a step of the page, together with what it does to
the store: `finalize_transaction` stores the transaction it sends
(`AddUnsentTransaction`), a transaction that is received by itself is marked as
sent (`Unsent`, which removes one entry), one that comes in a batch is not.
`Reload` is a new page with a file of some checkpoint between the last one and
the end of the log; what the old one has sent may still arrive (`LateSequence`)
or not (`LateLoss`). `LoadTransactions` executes every entry as
`apply_offline_unsaved_transaction` does: as a transaction of source `Unsaved`,
which can be undone and is sent, but is not kept among the unsaved ones. The
loop over the entries does not await, so it is one step; entries that cannot be
decoded are left out. The id of a transaction is the same in every page. Code that runs while the page is reloaded
is gone: nothing of its transaction is stored until it is finalized.

### Code runs

| model | code |
|---|---|
| `code` | which transaction wrote the code a cell holds (`CellValue::Code`) |
| `table` | the cell's data table: the code it is labelled with, the code that computed it (history), `cells_accessed`, the transaction that stored it |
| `pending` | the `PendingTransaction`s: open in `async_transactions`, with `operations` (the ComputeCode ones), `waiting_for_async` and `current_sheet_pos` (as `current`), `has_async`, `cells_accessed` |
| `lastTransactionId` | that field of `corePython.ts`, `coreJavascript.ts`, `coreConnection.ts` |
| `pyInbox`, `pyOutbox`, `jsInbox`, `jsOutbox` | the message ports |
| `pyState`, `jsState`, `pyAwaiting`, `jsAwaiting`, `pyTransactionId`, `jsTransactionId` | the fields of `python.ts` and `javascript.ts` |
| `pyExecuting`, `jsExecuting` | calls of `runPython` and `run` that have not returned, by the await they are at |
| `pyNexts`, `jsNexts` | calls of `next` that are scheduled |
| `fetches` | queries under way, waiting for a token or for the answer |
| `restarting` | between the two messages that tell the core of a worker's restart, and before them |
| `interrupted`, `cancels` | history; a bound |

`start_transaction` runs the operations until one starts a run, or executes just one
while an answer is still awaited, as after a cancellation (`StartTransaction`);
`calculation_complete` and `connection_complete` take the transaction up again
(`CalculationComplete`, `ConnectionComplete`), with their refusals in the order
of the code. A result is a table: what was computed is represented by the code
that computed it. `Dependents` are taken from the tables' `cells_accessed`, in any
order, as `HashSet` gives them. The workers' handlers are cut at their awaits.

`interrupted` is what the properties except: a transaction that a cancellation, a
restart, or a query that failed or was refused has run over. That results of
Python and Javascript are never refused otherwise is part of `OneRunPerWait`. What happens to those
is in the model (a run that is posted to a worker that is gone is lost; a
cancellation goes on with the operations before it stores the message; a refused
result leaves the transaction nowhere) and is not a promise of the code.

### Cells and data tables

| model | code |
|---|---|
| `cells` of a sheet | one column of `Sheet.columns` |
| `tables` of a sheet | `Sheet.data_tables`, an `IndexMap`: tables in order, with anchor, values, kind, `show_name`, `show_columns`, `spill_error`, whether the value is a `Value::Single` (`single`), `last_modified` (`made`) |
| `forward`, `reverse` of a pending transaction | `forward_operations`, `reverse_operations` |
| `undo`, `redo` | the stacks, as lists of operations |
| `shared` | the transaction the others have still to receive |

One operator per operation (`ExecuteSetCellValues`, `ExecuteAddDataTable`, ...),
each with its order of changes, recordings, `check_deleted_data_tables` and
`check_all_spills`; a client that receives a transaction checks neither, as in
`data_table_operations`. The position in the `IndexMap` is kept by its own
functions, modelled from their documentation: `insert_before`, and
`insert_sorted`, whose result on a map that is not sorted depends on the probes
of the binary search. `TableEditing` has the users' edits and the operations
each becomes; users take turns, since crossing transactions are the session's
subject.

Whether the name and the column headings are shown when nobody has chosen
depends on the kind of the table and on what the code returned (`NameIsShown`,
`ColumnsAreShown`). `made` tells two runs with the same result apart, as
`DataTable`'s `PartialEq` does: `finalize_data_table` records nothing when the
very same table was there.

`Careful` is a constant: with it the users keep away from the few edits that are
not undone or not shared as they were made. Each of these is a guard in
`TableEditing` with a comment that says what happens without it:

| step | without the guard |
|---|---|
| `SetCell` right under a single value that was made a table | the value is taken from the sheet, `insert_row` refuses a `Value::Single`, nothing is recorded |
| `SetCell` right under a spilled table with one heading | the value becomes the first row, which undo cannot flatten back |
| `DeleteCell` on a heading, below another table | blanks a row of that table, and undo puts the heading there |
| `AddTable` over a table | undo brings the old one back with the new one's headings |
| `Flatten` of a spilled code table | replaces what is in its way for good |
| `DeleteRows` with a heading in the selection, or with all rows | the other rows are gone here only |
| `Undo`, `Redo` that set the very table others brought back at another index | the table moves in this client's order only, nothing is recorded |

## 3. Runs

| run | question | result |
|---|---|---|
| `any_order` | messages overtake one another, the connection is lost once, own transactions conflict; is what the client shows of others' work, holds and has still to send right? | holds (1.9 million states) |
| `editor` | messages in order, no loss, the user does not touch a cell of her own unsaved transaction: does the client implement `SharedSheet`, do undo and redo retrace, does every transaction settle? | holds (90 thousand states) |
| `catch_up` | does the client reach the end of the log, through reordering and a loss? | holds |
| `reapply_order` | is a client in sync by number in sync by content? | violated: two unsaved transactions on one cell are reapplied newest first |
| `file_saved` | two overlapping tasks, three transactions, two failures of any kind but `read`: is every object a prefix, is checkpoint and stream the whole file, is `SavedFile` implemented? | holds (370 thousand states) |
| `file_settles` | is everything in the stream of an active channel saved in the end; what is one unanswered request for the checkpoint worth? | holds: it is saved, and without loss while nothing was trimmed |
| `server` | a session that reconnects before the server knows: two handlers and a task at their awaits, one failure; is what is sent stored, is nobody shown who is gone, do empty rooms go away, does a session put out by mistake reconnect? | holds (600 thousand states) |
| `code_runs` | a query and a Javascript cell that reads it, one cancellation, failing queries: is every transaction waiting for the run that is under way for it, and every output shown with the code that computed it? | holds (750 thousand states) |
| `python_runs` | two Python cells, one restart: is no run lost, done twice or left waiting? | holds (77 thousand states) |
| `offline_page` | a lost connection and a reload: is nothing finished lost, nothing stored twice, and is what a page shows beside the log written again, and does a page that has settled show what everybody does? | holds (610 thousand states) |
| `tables` | careful users: do the forward operations lead everybody to the same sheet, are spill errors exact, do undo and redo lead back? | holds (170 thousand states) |
| `unshared_change` | do the forward operations lead everybody to the same sheet whatever the users do? | violated: deleting a heading, or the last of all rows, fails when the others have been deleted, which is not recorded |

The two violated runs are findings; each cites the comment the code departs
from. The first explains the bounds of `editor`: its properties are those the
protocol aims at, and they hold exactly where messages are in order, no
transaction conflicts with an unsaved one and no connection is lost
(`Reorder = FALSE`, `LocalConflicts = FALSE`, `MaxDisconnects = 0`). What holds
everywhere is in `any_order`.

What the models show besides, where no run promises more than the code does:

* A batch that begins with the oldest own transaction drops its effect, since
  everything has been rolled back before (`ApplyOldestOwn` in `ApplyBatch`).
* An own transaction that comes back early, is held, and is executed from the
  list stays unsaved (`ApplyOutOfOrder`).
* A transaction published between the reading of a stream and the removal of its
  channel is not saved until the next edit (`Ack`); `ActiveIsSaved` says what is.
* One unanswered request for the checkpoint after a truncation makes the next
  checkpoint lack what was trimmed (failure `read`, without which
  `LoadedFileIsComplete` holds and is proved).
* A number is taken before its transaction is pushed; when a larger one is pushed
  first, Redis refuses it, and the number stays a gap (`PushRefused`).
* The second copy of a transaction that was sent again after a reload can be lost
  with the connection after the first has taken it out of the store, and the page
  that has executed it shows what nobody else does: hence `disconnects = 0` in
  `Undisturbed`, the hypothesis of `ShownOrAwaited` and `SettledPageIsInSync`.
* A syntax error ends a Javascript run without a call of `next`: runs queued while
  the worker loaded wait until another run ends. Overlapping Javascript runs ask
  for cells in the name of whichever started last.
* Changes that only the client that makes them has, beside those of
  `unshared_change`: a value typed right under a single value that was made a table,
  and an undo that sets a table that is there already, at another index. `SheetsAgree`
  is violated in three and in four moves when these guards of `Careful` are dropped;
  the second takes more moves than `tables` has.

Bounds. Two cells are enough for transactions that agree in one cell and differ
in another; three values besides blank tell two own writes and a foreign one
apart. Two or three own and two foreign transactions give every branch of
`client_apply_transaction`: an own one first, an own one behind another, a
foreign one between them, held ones drained in the right and in the wrong order.
`MaxInFlight` bounds the requests under way, since a client repeats a request
with every announcement. `MaxOwn`, `MaxRemote` and `MaxDisconnects` bound the
length of a behaviour. No deadlock is ever reported: an announcement is always
possible while the client is connected, and a reconnection while it is not.

Two tasks are one slow one and one that overtakes it; with three numbers a batch
can begin behind the base, hold more than one transaction and leave one for the
next task. `MaxFaults` = 2 allows a failure of the repetition. `file_settles`
needs two numbers, one that is processed and one published meanwhile. The file service stops when `MaxNumber` is reached and all is done,
hence `CHECK_DEADLOCK FALSE` there.

In `server` one session with two sockets, one task and one failure are enough
for an old handler, a new one and a third who removes users to interleave in
`leave_room` and `enter_room`; one stored transaction and one new one make a
room with a stale counter possible. A browser has a last socket, so the server may stop:
`CHECK_DEADLOCK FALSE`.

In `code_runs` and `python_runs` two transactions over two cells of which one reads
the other are enough for a run to overlap, to wait behind another and to be made
obsolete, for a transaction to wait twice (the dependent cell) and for a result
to arrive after its cell has new code or none. One cancellation falls between
any two steps. `code_runs` has a query next to a Javascript cell, so all three
kinds of runs are in one of the two. In `offline_page` two own transactions, one
foreign, one lost connection and one reload make every order of storing,
sending, numbering, returning and replaying of two entries; messages are in
order. In `tables` eight rows hold two tables with their headings one below the
other; two users make three transactions of any kind, undo and redo included,
from an empty sheet and from one with an imported table above a code cell.
`unshared_change` needs two edits. Three moves do not show everything about undo:
random behaviours of up to six moves of every kind, with tables of up to three rows
and values typed in five (TLC's `-simulate`, 3.4 million states), violate no
property of `tables`; the guard `MovesNoTable` comes from them. In all of these the user's transactions are used up in the
end: `CHECK_DEADLOCK FALSE`.

Fairness of the workers (`python_runs`): the Python worker and the core handle what is
posted to them, code that runs ends, and a new worker loads (weak fairness of
`PythonSteps` and `CoreSteps`). Nothing is assumed of the user, of the queries or
of Javascript.

Fairness of the server: a handler goes on with what it has begun, a browser that
is there sends a heartbeat every ten seconds (`update`), and a socket that was
given up is found closed. Nothing is assumed of tasks, of the user or of the
background worker: a session that was put out of the room by mistake is saved by
its own heartbeat, whose error closes the socket.

Fairness of the file service: the interval ticks for ever, a task whose await is
answered goes on (weak), tokio's mutex is handed out in the order of asking, so a
tick, a task or an entry that waits for it again and again gets it (strong), and
a publication that was begun is finished. Nothing is assumed of the truncation.

Fairness (`catch_up`, `editor`) is weak fairness of what the code repeats until
it has worked: the background worker announces the number every few seconds,
the server answers what it has received, messages on an open socket arrive, the
multiplayer worker reconnects five seconds after each failure. No fairness is
assumed of users, of code runs, or of the loss of connections. The fairness of
receiving is stated by the message that leaves its channel.

## 4. Proofs

`MultiplayerSession_proofs` proves of `MultiplayerSession!Spec`, for every set of
cells and values, all sets of edits, any bounds and either value of `Reorder`
and `LocalConflicts`:

| theorem | says |
|---|---|
| `TypeCorrect` | `[]TypeOK` |
| `UntouchedCells` | `[]UntouchedCellsFollowLog`: cells the user has not written show the log up to `last_sequence_num`, executed in order |
| `StashIsLogged` | `[]StashMatchesLog` |
| `Advances` | `SequenceNumberAdvances` |
| `Invariance` | `[]IndInv`, the inductive invariant |

Assumptions: `BlankIsValue`, `EditsAreWrites`, `SessionAssumption` (types of the
constants), evaluated by TLC in every run.

The argument. `UntouchedCellsFollowLog` is not inductive: rolling back,
reapplying and a held transaction could disturb any cell. `IndInv` adds that
whatever is kept of own transactions (unsaved, waiting, on the stacks, under way
to the server, in the log) writes only `edited` cells (`OwnWorkIsEdited`), that
what is held or under way is in the log under its number (`StashMatchesLog`,
`InFlightIsLogged`), and the types. Then rolling back and reapplying leave the
untouched cells alone (`OverlayBackwardElsewhere`), and one more transaction
executed on the replay of n is the replay of n + 1 (`ReplayStep`). The functions
of `receive_multiplayer.rs` are proved to preserve a predicate `Sound` on the
record they work on (`GridClient_proofs`: `RollbackSound` to `ClientApplySound`,
`ApplyBatchSound`), by induction over the batch and over the held transactions;
since the induction theorems of the library cannot be instantiated, the steps of
such a loop are the members of a set of naturals and `InductionTo` is proved once
for such a set. TLC checks `IndInv` in `any_order`.

Of the same specification and under the same assumptions, that no work is lost:

| theorem | says |
|---|---|
| `UnsentStays` | `[]UnsentIsUnsaved` |
| `AsyncStays` | `[]AsyncIsUnsaved` |
| `OwnInvariance` | `[]OwnInv`, the inductive invariant |

The receiving functions delete the unsaved transaction that has the id they have
received, and `InsertOrReplace` overwrites by id; work would be lost if that were
another's. `IdsInv` says that every id of the user is in one place: with the code
that runs, on its way to the server, or in the log. What is received is in the
log, so whatever else there is stays, entry for entry (`Keeps`, which the lemmas
of `GridClient_proofs` carry through rollback, draining and the batch). Ids are no
longer in one place once a page has been reloaded and sends again, so this
invariant is of `Spec` and not part of `OfflinePage`'s.

`Editor_proofs` proves of the same specification what a user can rely on, for any
cells, values, edits and bounds:

| theorem | says |
|---|---|
| `ViewIsShown` | `[]ViewIsLogPlusUnsaved`: the screen is the log so far with her unsaved work on top |
| `UndoClears` | `[]UndoClearsOwnWork`: undoing everything leads back to a blank cell |
| `Retraces` | `UndoRedoRetrace`: undo and redo show what was there before |
| `Implements` | `ImplementsSharedSheet`: client and room together are a `SharedSheet` |
| `EditorInvariance` | `[]EditorInv`, the inductive invariant |

They assume, besides the types of the constants, `InOrder`: messages keep their order
(`~Reorder`), the connection lasts (`MaxDisconnects = 0`), and the user leaves alone
the cells of transactions of hers that have no number yet (`~LocalConflicts`). These
are the conditions of the run `editor`, and the code keeps these promises under no
weaker ones: `reapply_order` refutes the first theorem when she writes a cell
twice, and when a transaction can be held, what she does in the meantime is
recorded over what it has not yet written.

The argument. `OrderInv`: nothing is ever held or asked for, because the broadcasts
under way are exactly the transactions numbered `last_sequence_num + 1` to
`Len(log)`, and the first of them comes first. `UnsavedInv`: unsaved transactions
write different cells, each stays until it is received, and what is received
stays no longer. `ViewInv`: where transactions write different cells, executing
them on a grid gives one result in either order (`OverlayApart`), rolling them
back leaves every other cell alone, and so after `receive` the grid is one
entry of the log further with the rest of her work on top. `TrailInv` is about
the cells only she writes: following the undo stack down from what is in a cell
leads to a blank one, wherever one starts; a cell that running code has yet to
complete starts from what that code will put back. A redo keeps it because the
stack then has one more entry above what it undoes. The refinement maps the
log to the abstract history and each step to `Work`, `Publish`, `Learn` or a
stutter: what the server numbers is still among the unsaved transactions, with
the same writes, and what receiving drops from these is just what has been learnt.

`FileService_proofs` proves of `FileService!Spec`, for every set of tasks and every
bound:

| theorem | failures | says |
|---|---|---|
| `Prefixes` | all but `read` | `[]FilesArePrefixes` |
| `Loaded` | all but `read` | `[]LoadedFileIsComplete` |
| `Implements` | all but `read` | `ImplementsSavedFile`, the refinement of `SavedFile` |
| `UntrimmedPrefixes` | all | `[]UntrimmedFilesArePrefixes` |
| `TypeCorrect` | all | `[]TypeOK` |

Assumptions: `FileServiceAssumption`, and for the first three
`"read" \notin Faults`, without which `Loaded` is false (a checkpoint taken to be 0,
see section 3). The argument: what a task will apply must
be exactly what lies between the object it loads and the last number it read.
`WaitingInv` says that a task that waits for the mutex finds everything beyond
its base in the stream, because what was trimmed since belongs to an entry that
is not due; `HoldingInv` says what the batch is; `PrefixGrows` then makes the new
object a prefix. `TrimInv` (what was trimmed is in the checkpoint) closes the
circle with the processed channel. The mutex is not needed for any of this: it
saves work, not correctness. With `read` failures the two circles break, and what
is left is `UntrimmedInv`: a stream that has lost nothing (`stream = sent`, which
no later transaction restores) holds everything beyond any base, be it 0.
Liveness is only model-checked.

`MultiplayerServer_proofs` proves of `MultiplayerServer!Spec`, for every set of
sockets, sessions and tasks, all failures and every bound:

| theorem | says |
|---|---|
| `TypeCorrect` | `[]TypeOK` |
| `NoGhosts` | `[]NoGhostUsers` |
| `EmptyRoomsLeave` | `[]EmptyRoomsGoAway` |
| `BroadcastsAreStored` | `[]BroadcastIsStored` |
| `Invariance` | `[]IndInv`, the inductive invariant |

Assumption: `MultiplayerServerAssumption` (types of the constants). The argument:
a ghost would be a user whose socket somebody has removed from the connections
after the user entered by it. `LeavingInv` says that whoever removes a user does
so for a socket that is past entering, and that once the user is removed no user
of the session is that socket again: a socket enters once, and a new one is
another. So unregistering it takes nobody's connection.
An empty room cannot be overlooked, because the one who removed the last user
has still to count, and a count that finds the room not empty leaves it with
somebody in it. Transactions are sent by the step that stored them, under a
number above all others, so what is stored under a number never changes.

`OfflinePage_proofs` proves of `OfflinePage!OfflineSpec`, for every set of cells,
values and edits, all bounds, and with messages in any order:

| theorem | says |
|---|---|
| `OfflineInvariance` | `[]OfflineInv`, the inductive invariant |
| `FinishedWorkIsSafe` | `[]NothingFinishedIsLost` |
| `EntriesAreUnique` | `[]StoredOnce` |
| `UntouchedCellsAcrossReloads` | `[]UntouchedCellsFollowLog`, across reloads and what they replay |

and, where messages keep their order (`~Reorder`) and the user leaves alone the cells
of her unsaved transactions (`~LocalConflicts`):

| theorem | says |
|---|---|
| `PageInvariance` | `[]PageInv`, the inductive invariant, next to `OfflineInv` |
| `CellsAreShownOrAwaited` | `[]ShownOrAwaited`: a cell that is not the log with her unsaved work on top will be written again |
| `SettledPages` | `[]SettledPageIsInSync`: a page with nothing outstanding shows what everybody does |

Other assumptions: those of the session. The argument for the first four composes: every step of the page
that is a step of the session keeps `IndInv` by the session's own theorem
(`NextInv`); `Reload` and `LoadTransactions` keep it because a checkpoint is a
replay of the log and the stored transactions write only `edited` cells
(`WaitingIsOwn`, `ApplyAllLoading`). An entry leaves the store only when its
transaction is received, which `StashMatchesLog` and `InFlightIsLogged` put in the
log. Finishing makes one entry because the id is new or, for code that
completes, was not stored before (`AsyncIsNotStored`).

The last three say what becomes of a transaction that a page has executed from the
store. It is on the grid, not among the unsaved ones, so nothing rolls it back and what
is received meanwhile is executed on top of it: the grid is not the log with anything on
top, and no theorem of `Editor_proofs` carries over. What is still true is about one cell
at a time (`ShownOrAwaited`): either it shows the log with the unsaved transactions on
top, or a transaction that the page will take for somebody else's has yet to write it,
from the log beyond the last number or from what the page is still sending. That is
inductive with what makes a second copy harmless:

1. All copies of a transaction, in the log, on their way from this page or an earlier
   one, or in the store, have the writes the unsaved list has (`CopiesAgree`). So it
   does not matter which is numbered first; when an own transaction comes back and is
   only deleted from the list, its writes are those on the grid. This is what code that
   completes could break, and why ids of transactions whose code runs have no copy.
2. The engine is followed on two sets of states (`Bare`: unsaved transactions rolled
   back, `Settling`: reapplied) in which every cell outside the unsaved transactions is
   the log or still to come, where "to come" excludes the numbers that have been passed.
   `PageApplies` shows for each branch of `client_apply_transaction`, the draining of
   held transactions and a batch that they stay there: the number that is passed writes
   its cells with the value the log then has, and other cells do not notice.
3. What is held is older than anything that is still to come by itself
   (`HeldCameFirst`), so a transaction received in sequence has nothing held to execute
   after it, whosever it is. A batch can have; one that brings back an unsaved
   transaction is excepted (`batched`), since it drops its effect.
4. `Reload` starts with a replay of the log and nothing unsaved; `LoadTransactions`
   executes entries whose cells are then all awaited, because each is sent as well.

When the page has reached the end of the log with nothing unsaved or to send, no cell is
awaited, which is `SettledPageIsInSync`. `Undisturbed`, the hypothesis of all three
properties, excludes exactly the two ways out that section 3 describes, and the run shows
that they are not empty: it reloads and replays with `disconnects` 0, as a reload
closes its socket itself. TLC checks `PageInv` in `offline_page`.

`CodeRuns_proofs` proves of `CodeRuns!Spec`, for any set of transactions, any finite
set of cells, with code of any language and reading one another in any way, and any
number of cancellations:

| theorem | says |
|---|---|
| `RunInvariance` | `[]RunInv`, the inductive invariant |
| `TypeCorrect` | `[]TypeOK` |
| `OneRun` | `[]OneRunPerWait`: a transaction that nothing has run over waits for exactly the one run there is for it, of its cell and its code |
| `ResultsMatch` | `[]ResultIsOfItsCode`: an output was computed by the code it is labelled with |
| `PythonStrandsNoRun` | `[]NoRunIsStranded`: a run that waits in the Python worker is taken up |

Assumptions: `CellsAssumption`, the types of the constants (`Cells` is finite, as a
grid's code cells are, and `None` is none of the values it stands beside), and
`MaxCancelsAssumption`, a bound that is a number.

`OneRunPerWait` is not inductive. That a result is the only one its transaction waits
for must hold also of the counter (`hasAsync` is 1 while a transaction is open:
`Alone`), and also of transactions that were run over the status and the counter agree
(`Waits`), or a late result could leave one open with nothing to wait for. A run is held
by the worker of its language (`LanguagesMatch`), so that `calculation_complete` is
never given a query, nor `connection_complete` a run of Python; and of Javascript a
transaction is set while any run is past its check (`JsGood`). With that:

1. A step of a worker moves runs from the inbox to the queue, to what it executes, and
   to the outbox (`Keeps`): the number of runs of a transaction stays what it is where
   it is at most 1. The bound is needed: what a worker executes is a set, and two equal
   runs would become one.
2. A result that the core takes is the last one of its transaction (`ResultHandled`),
   and the transaction goes on with one run or completes (`Continues`), which is
   proved through `StartTransaction`, `FinalizeDataTable` and the outcomes of
   `CalculationComplete` and `ConnectionComplete`. What is sent reaches one worker or
   one query, or is lost to a worker that is being replaced, whose transaction then is
   in `interrupted` (`CoreSendsOne`, `CoreDoesKeeps`).
3. The table that is stored then is labelled with the code of the run that was waited
   for, which is the one that came back.

`PyInv`, for the last theorem, adds to `NoRunIsStranded` what the step at hand needs to
know of the worker's state; steps of the core, the queries and Javascript leave the
worker alone or replace it.

Of code runs, `RerunOrder` is only model-checked: `order_code_cells` is a loop over a
list that is put in order by what its cells have read, and what it computes for every
list is an induction over data. `PythonRunsEnd` is liveness.

`TableEditing_proofs` proves of the operations on cells and tables, and of
`TableEditing!Spec`, for any sheets, rows, values, kinds of edits, number of moves and of
users, careful or not:

| theorem | says |
|---|---|
| `OnePassIsEnough` | after `CheckAllSpills` every table has a spill error exactly when something is in its way (`Exact`) |
| `OwnTransactionSettles` | after a transaction users ask for, the sheet is `Exact`, or nothing is shared |
| `SpillErrors` | `TypeOK`, `SheetsAgree` and `UndoRestores` give `[]SpillsAreExact` |

Assumptions: `RowsAssumption` (rows are integers) and `FirstSheetsAssumption` (users start
with exact sheets); `None` is no table and no message, and, for the last, every user has
another. The argument:

1. The pass goes from the first table to the last, and whether a table is blocked
   depends on the cells and on what the tables before it show. Turning the flag of the
   k-th changes nothing for those before it, and the k-th itself is decided by what no
   later step touches; so the prefix that is exact grows with every step
   (`CheckSpillExtends`).
2. Every operation of a user's own transaction ends with this pass or leaves the
   sheet as it was (`Kept`), with one exception: a row operation that fails half-way
   leaves something else, and records nothing (`Refused`). Row operations come alone,
   so a transaction that shares anything has ended with a pass.
3. The others check nothing. `SpillInv` says, of a change that is on its way, that its
   user's sheet is exact, or that there is nothing to share and everybody else's is.
   When the others have executed it, all have the same sheet, by `SheetsAgree`. For a
   user who is alone with the sheet the second case proves nothing: what a failed row
   operation has left is then seen by nobody, hence the last assumption.
4. An undo restores the sheet it leads back to, flags included, by `UndoRestores`, and
   every transaction on a stack leads back to a sheet that was exact unless it was
   stale (`LeadsBack`). An undo on a sheet that others have changed since restores
   flags of another time; `stale` says so, and the stacks remember it.

The last step is out of the reach of three moves: an undo that brings back flags of
another time, the undo of what came after, its redo. With the bounds of `tables` changed
to five moves in one row (`Anchor` and `Typed` {3}, `Kinds` "cell", "delete" and "add")
TLC goes through 125 thousand states that include it, and forgetting `stale` when an
undo leads back to a sheet that was stale itself breaks the property there.

`TypeOK`, `SheetsAgree` and `UndoRestores` of `tables` are only model-checked. The last two
compare two executions, or an execution and its reverse, of lists of operations of any
length, each from the sheet the one before left; what is proved above follows one
execution.

Only model-checked of the session: liveness (`CaughtUp`, `OwnTransactionsSettle`),
which is out of the prover's reach.

## 5. Not modelled

Most of the source is not a subject for a model checker: of the lines of the
repository the greater part are formulas and their functions, A1 notation,
conversions of values, the file format and its migrations, rendering, user
interface, and request handlers of the API over a relational database. They are
sequential functions on large data, or input and output, and have no steps that
could come in another order. `PROJECT.json` lists them.

Of the parts that are modelled, left out is:

* session: row heights the renderer computes, cursors and presence, compression.
  The client that was told to reload goes on until the browser does it. That a
  client may be told to reload because its request raced the broadcast
  (`handle.rs:229`) is in the model and no property.
* page: two tabs that share one store, a store that fails, logging out.
* multiplayer server: viewers (who may not send transactions), tokens, the state
  of users, several files, which share only the locks.
* file service: several files (they share only the mutex and the processed
  channel, where trimming for one can drop an older entry of another that
  failed), several instances of the service, the image routes of its HTTP server,
  Redis or S3 losing what they acknowledged, the decoding of transactions (one
  that cannot be decoded is skipped by `flat_map`).
* code runs: what code computes, formulas (which run at once, inside the
  transaction), undo and redo of transactions with code, the proxy of Javascript
  requests.
* operations: 12 of the 52 kinds are modelled. Not: sorting and columns of
  tables, the first row as header, formats, borders, validations, sheets,
  inserting and deleting rows and columns of the sheet, moving, pasting. One
  column stands for the sheet: intervals meet in it as rectangles do. Not either:
  flattening a single value, which panics (`execute_data_table.rs:451`); code that
  returns a list of one value, which is no `Value::Single`; rows outside the table in
  a selection of rows to delete; a clock for each client (`GridToDataTable` makes
  each client's table with a time of its own; here they share one).
* `Contiguous2D` and the blocks of formats.

## 6. Plan

1. (done) `SheetWrites`, `GridClient`, `MultiplayerSession`, `SharedSheet`, the
   proofs of the session's safety.
2. (done) `FileService`, `SavedFile`, and the proof that the one implements the
   other.
3. (done) `MultiplayerServer` and the proof of its safety properties.
4. (done) `OfflinePage`: `MultiplayerSession` with IndexedDB and reloads, and the
   proof of its safety properties.
5. (done) `CodeRuns`: the core, both workers and the queries.
6. (done) `SheetTables` and `TableEditing`: cells, data tables, spills, undo.
7. More kinds of operations: sorting, columns and the header row of tables,
   inserting and deleting rows of the sheet.
8. `Contiguous`: the blocks of `Contiguous2D` as a function checked against a
   plain map.
9. (done) Proof of the refinement of `SharedSheet` under the assumptions of `editor`.
10. (done) Proof of `OneRunPerWait` and `ResultIsOfItsCode`.
11. (done) Proof of `SettledPageIsInSync`.
12. (done) Proof of `SpillsAreExact` from the agreement of the clients.
13. Proof of `SheetsAgree`: the forward operations, executed without checks, lead to the
    sheet the user's own execution led to.
