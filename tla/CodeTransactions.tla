-------------------------- MODULE CodeTransactions --------------------------
(***************************************************************************)
(* The core's side of running code: transactions that compute code cells   *)
(* one after another and wait, at each cell, for a worker's result.        *)
(*                                                                         *)
(* A user's change is a transaction with a list of operations; only the    *)
(* ComputeCode operations are kept here, as the cells they compute.        *)
(* start_transaction takes operations until one starts a run, which makes  *)
(* the transaction asynchronous; calculation_complete (connection_complete *)
(* for a database query) takes it up again with the result, stores the     *)
(* result in the cell's data table, appends the cells that had read it,    *)
(* and goes on.                                                            *)
(***************************************************************************)
EXTENDS CodeRun, SequencesExt

VARIABLES
    code,               \* the transaction that wrote the code a cell holds
    table,              \* the data table of a cell: what its last run left there
    pending,            \* the PendingTransaction of every transaction
    lastTransactionId   \* per language, the transaction of the last run sent

coreVars == <<code, table, pending, lastTransactionId>>

\* What a run leaves in a cell: the code the table is labelled with, the code
\* that computed it (None for the message that it was cancelled), the cells it is
\* recorded to have read, and the transaction that stored it. A value and an error
\* are stored alike.
Table == [code : Authors, ran : Authors \cup {None}, accessed : SUBSET Cells,
          by : Authors]

\* "open" transactions are those of async_transactions; a transaction that is
\* removed from there and then refused is "lost": it is neither finished nor
\* waiting.
Pending == [status : {"unused", "open", "complete", "lost"},
            operations : Seq(Cells),
            current : {None} \cup [cell : Cells, code : Authors],
            hasAsync : Nat,
            accessed : SUBSET Cells]

CoreTypeOK ==
    /\ code \in [Cells -> Authors \cup {None}]
    /\ table \in [Cells -> Table \cup {None}]
    /\ pending \in [Transactions -> Pending]
    /\ lastTransactionId \in [Languages -> Transactions \cup {None}]

\* A file has been opened whose cells hold code and what it computed.
CoreInit ==
    /\ code = [c \in Cells |-> Loaded]
    /\ table = [c \in Cells |-> [code |-> Loaded, ran |-> Loaded, accessed |-> Reads[c],
                                 by |-> Loaded]]
    /\ pending = [t \in Transactions |->
                    [status |-> "unused", operations |-> <<>>, current |-> None,
                     hasAsync |-> 0, accessed |-> {}]]
    /\ lastTransactionId = [l \in Languages |-> None]

-----------------------------------------------------------------------------
(* The cells whose table says that they read c: they are computed again when c
   changes, unless the transaction is about to compute them anyway. *)
Dependents(tables, c) ==
    {d \in Cells : tables[d] # None /\ c \in tables[d].accessed}

\* HashSet gives them in no particular order.
AddComputeOperations(operations, tables, c, skip) ==
    {operations \o s :
        s \in SetToSeqs((Dependents(tables, c) \ skip) \ ToSet(operations))}

(* Runs the operations of p until one of them starts a run: "sent" is that run,
   if any. A cell that no longer holds code is passed over, but a transaction that
   still waits for another result stops after one operation in any case. A query
   reads its cells before it is sent: their values are put into its text. *)
StartTransaction(t, p, codes) ==
    LET runnable == {i \in DOMAIN p.operations :
                        codes[p.operations[i]] # None /\ (p.hasAsync > 0 => i = 1)}
        left == IF p.hasAsync > 0 THEN SubSeq(p.operations, 2, Len(p.operations)) ELSE <<>>
    IN  IF runnable = {}
        THEN [p |-> [p EXCEPT !.operations = left], sent |-> <<>>]
        ELSE LET i == CHOOSE i \in runnable : \A j \in runnable : i <= j
                 c == p.operations[i]
                 reads == IF LanguageOf[c] = "Connection" THEN Reads[c] ELSE {}
             IN  [p |-> [p EXCEPT !.operations = SubSeq(@, i + 1, Len(@)),
                                  !.current = [cell |-> c, code |-> codes[c]],
                                  !.hasAsync = @ + 1,
                                  !.accessed = @ \cup reads],
                  sent |-> <<[transaction |-> t, cell |-> c, code |-> codes[c]]>>]

\* A transaction that waits is kept; one that has nothing to wait for is done.
FinalizeTransaction(p) ==
    [p EXCEPT !.status = IF p.hasAsync > 0 THEN "open" ELSE "complete"]

\* A bug: the result is taken off twice.
RemoveAwaitingAsync_Twice(p) == [p EXCEPT !.hasAsync = @ - 2]

\* One result is taken off what the transaction waits for.
RemoveAwaitingAsync(p) == [p EXCEPT !.hasAsync = @ - 1]

(* A result that is refused after RemoveAwaitingAsync: the transaction is still
   waiting if it waits for another result, and is nowhere otherwise. *)
Refused(p) == [p EXCEPT !.status = IF p.hasAsync > 0 THEN "open" ELSE "lost"]

(* finalize_data_table: what p is, and the operations it gets, once the result of
   its current cell is stored. Storing a table equal to the one that was there
   adds nothing; equal tables hold equal values here too or they do not. *)
FinalizeDataTable(p, tables, c, new) ==
    LET after == [tables EXCEPT ![c] = new]
        cleared == [p EXCEPT !.current = None, !.accessed = {}]
        changed == {[cleared EXCEPT !.operations = ops] :
                        ops \in AddComputeOperations(p.operations, after, c, {c})}
    IN  IF tables[c] # None /\ new # None
           /\ [tables[c] EXCEPT !.by = new.by] = new
        THEN changed \cup {cleared}
        ELSE changed

-----------------------------------------------------------------------------
(* What a step of the core does to a transaction: an outcome is the transaction p
   and the tables after the step, and the runs it hands over to the workers. *)

Refusal(p, sent) == {[p |-> Refused(p), tables |-> table, sent |-> sent]}

\* A bug: the result is labelled with the code that the cell holds by now.
CodeOfResult_HeldNow(p) == code[p.current.cell]

\* The code that the result of the current cell of p is labelled with.
CodeOfResult(p) == p.current.code

\* The result of the current cell of p is stored, and p goes on.
Stored(t, p, new, sent) ==
    LET c == p.current.cell
    IN  {LET s == StartTransaction(t, q, code)
         IN  [p |-> FinalizeTransaction(s.p), tables |-> [table EXCEPT ![c] = new],
              sent |-> sent \o s.sent] : q \in FinalizeDataTable(p, table, c, new)}

(* calculation_complete. A cancellation goes on with the operations of the
   transaction BEFORE it stores the result. The cell that gets the result is the
   one the transaction waits for now, whatever cell was run. *)
CalculationComplete(t, ran, cancel) ==
    LET p == RemoveAwaitingAsync(pending[t])
        s == IF cancel THEN StartTransaction(t, p, code) ELSE [p |-> p, sent |-> <<>>]
        new == [code |-> CodeOfResult(s.p), ran |-> ran,
                accessed |-> s.p.accessed, by |-> t]
    IN  IF pending[t].status # "open"
        THEN {[p |-> pending[t], tables |-> table, sent |-> <<>>]}
        ELSE IF s.p.current = None THEN Refusal(s.p, s.sent)
        ELSE IF LanguageOf[s.p.current.cell] \notin CodeLanguages THEN Refusal(s.p, s.sent)
        ELSE Stored(t, s.p, new, s.sent)

(* connection_complete: the table is labelled with the code that the cell holds by
   now. Data that does not parse, a cell without code, and a transaction that waits
   for nothing make it return after the transaction has been taken out. *)
ConnectionComplete(t, ran, parses) ==
    LET p == RemoveAwaitingAsync(pending[t])
        new == [code |-> code[p.current.cell], ran |-> ran,
                accessed |-> p.accessed, by |-> t]
    IN  IF pending[t].status # "open"
        THEN {[p |-> pending[t], tables |-> table, sent |-> <<>>]}
        ELSE IF ~parses \/ p.current = None THEN Refusal(p, <<>>)
        ELSE IF code[p.current.cell] = None THEN Refusal(p, <<>>)
        ELSE Stored(t, p, new, <<>>)

-----------------------------------------------------------------------------
(* The user's changes. Each is a new transaction: these are the cells' codes after
   it, and the outcomes for the transaction. *)

BeginUser(t, codes, tables, operations) ==
    LET s == StartTransaction(t, [pending[t] EXCEPT !.operations = operations], codes)
    IN  [p |-> FinalizeTransaction(s.p), tables |-> tables, sent |-> s.sent]

\* set_code_cell: the cell gets code, and is computed before the cells that read it.
SetCodeCell(t, c) ==
    {BeginUser(t, [code EXCEPT ![c] = t], table, ops) :
        ops \in AddComputeOperations(<<c>>, table, c, {})}

\* The cell is emptied: its table goes with it.
DeleteCodeCell(t, c) ==
    LET tables == [table EXCEPT ![c] = None]
    IN  {BeginUser(t, [code EXCEPT ![c] = None], tables, ops) :
            ops \in AddComputeOperations(<<>>, tables, c, {c})}

\* A bug: the cell is put before the one that it reads.
OrderRound_PutsBefore(s) ==
    LET later == {j \in (s.i + 1) .. Len(s.cells) :
                    s.cells[j] \in table[s.cells[s.i]].accessed}
    IN  IF s.i >= Len(s.cells) THEN s
        ELSE IF later = {} THEN [s EXCEPT !.i = @ + 1]
        ELSE LET j == CHOOSE j \in later : \A k \in later : j <= k
             IN  [s EXCEPT !.cells = InsertAt(RemoveAt(@, s.i), j - 1, s.cells[s.i]),
                           !.i = @ + 1]

(* order_code_cells: a cell that reads one further on is put behind the first such,
   until none is left. One round of its loop, then the loop itself. *)
OrderRound(s) ==
    LET later == {j \in (s.i + 1) .. Len(s.cells) :
                    s.cells[j] \in table[s.cells[s.i]].accessed}
    IN  IF s.i >= Len(s.cells) THEN s
        ELSE IF later = {} THEN [s EXCEPT !.i = @ + 1]
        ELSE LET j == CHOOSE j \in later : \A k \in later : j <= k
             IN  [s EXCEPT !.cells = InsertAt(RemoveAt(@, s.i), j, s.cells[s.i])]

\* The loop gives up after many rounds: enough here for every order without cycles.
MaxRounds == Cardinality(Cells) * Cardinality(Cells) * Cardinality(Cells)

OrderCodeCells(cells) ==
    LET round[n \in 0 .. MaxRounds] ==
            IF n = 0 THEN [cells |-> cells, i |-> 1] ELSE OrderRound(round[n - 1])
    IN  round[MaxRounds].cells

\* rerun_all_code_cells: every cell that has a table, in any order it is kept in.
RerunAllCodeCells(t) ==
    {BeginUser(t, code, table, OrderCodeCells(cells)) :
        cells \in SetToSeqs({c \in Cells : table[c] # None})}

-----------------------------------------------------------------------------
(* A question for the values of cells, asked in the name of transaction t by the
   code of cell c. It is answered, and noted as read, only when t waits at a cell
   that holds code and is not among the cells asked for. *)
MayReadCells(t, cells) ==
    /\ t # None
    /\ pending[t].status = "open"
    /\ pending[t].current # None
    /\ pending[t].current.cell \notin cells
    /\ code[pending[t].current.cell] # None

CalculationGetCells(t, cells) ==
    pending' = IF MayReadCells(t, cells)
               THEN [pending EXCEPT ![t].accessed = @ \cup cells]
               ELSE pending
=============================================================================
