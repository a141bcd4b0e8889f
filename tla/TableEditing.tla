---------------------------- MODULE TableEditing ----------------------------
(***************************************************************************)
(* Users who edit one sheet with tables, undo and redo (quadratic-core:    *)
(* controller/user_actions, controller/operations, control_transaction).   *)
(* A transaction is executed where it was made and its forward operations  *)
(* at the others, one transaction after the other: what happens when       *)
(* transactions cross is MultiplayerSession's subject.                     *)
(*                                                                         *)
(* Some edits are not undone, or not shared, as they were made.  Careful   *)
(* users keep away from them; each place where they do says why.           *)
(***************************************************************************)
EXTENDS SheetTables, FiniteSets, TLC

CONSTANTS
  User,
  Row,           \* the rows of the sheet
  Anchor,        \* the rows in which users start a table
  Typed,         \* the rows in which users type and delete
  Result,        \* what code returns and files contain: lists of values
  FirstSheets,   \* the sheets to start from
  MaxRows,       \* how many rows a table grows to
  MaxMoves,      \* how many transactions, undo and redo included
  Kinds,         \* the kinds of edits users make
  Careful        \* whether users are careful

(* Every table has a spill error exactly when something is in its way.     *)
Exact(s) == \A i \in DOMAIN s.tables : s.tables[i].spill = IsBlocked(s, i)

(* Rows are numbered, and users start with a sheet that edits lead to.     *)
ASSUME RowsAssumption == Row \cup Anchor \cup Typed \subseteq Int
ASSUME FirstSheetsAssumption == \A s \in FirstSheets : Exact(s)

VARIABLES
  sheet,         \* sheet[u]: what u's client has
  undo,          \* undo[u], redo[u]: the stacks of transactions
  redo,
  todo,          \* the transactions a user has asked for, in order
  shared,        \* what the last one sends: its user and forward operations
  stale,         \* a history variable: the spill flags may be out of date
  moves
vars == <<sheet, undo, redo, todo, shared, stale, moves>>

(* A transaction to execute.  For the properties one from a stack carries  *)
(* the sheet it starts from, the one it leads back to with what was stale  *)
(* then, and whether the transaction it takes back was itself executed     *)
(* where it was meant to be.                                               *)
Transaction(u, source, operations, from, to, exact) ==
  [by |-> u, source |-> source, operations |-> operations,
   from |-> from, to |-> to, exact |-> exact]

IsExact(t) == t.exact /\ t.from \in {None, sheet[t.by]}

---------------------------------------------------------------------------
Init ==
  /\ \E s \in FirstSheets : sheet = [u \in User |-> s]
  /\ undo = [u \in User |-> <<>>]
  /\ redo = [u \in User |-> <<>>]
  /\ todo = <<>>
  /\ shared = None
  /\ stale = FALSE
  /\ moves = 0

(* Users take turns: the next one starts when the last transaction is with *)
(* everybody.                                                              *)
Ask(transactions) ==
  /\ todo = <<>> /\ shared = None
  /\ moves < MaxMoves
  /\ moves' = moves + 1
  /\ todo' = transactions
  /\ UNCHANGED <<sheet, shared, stale>>

(* start_user_transaction, once or twice. *)
Commit(u, transactions) ==
  /\ Ask([k \in DOMAIN transactions |->
            Transaction(u, "User", transactions[k], None, None, TRUE)])
  /\ UNCHANGED <<undo, redo>>

(* Left out: deleting a row below the table makes its array one row lower  *)
(* but keeps all values, which no table here can hold.                     *)
RowsAreThere(s, operations) ==
  \A k \in DOMAIN operations :
    operations[k].op = "DeleteDataTableRows" /\ Within(s, operations[k].pos) # 0 =>
      LET t == s.tables[Within(s, operations[k].pos)]
      IN  \A index \in Range(operations[k].rows) : index < Height(t)

(* The last transaction of a stack is executed on the sheet as it is now,  *)
(* which others may have changed since.  When they have brought back the   *)
(* very table that it sets, but at another index, the table moves here     *)
(* only (FinalizeDataTable).                                               *)
MovesNoTable(s, operations) ==
  \A k \in DOMAIN operations :
    LET op == operations[k]
    IN  op.op = "SetDataTable" /\ op.table # None /\ TableAt(s, op.pos) = op.table =>
          IndexOf(s, op.pos) = op.index

Undo(u) ==
  /\ undo[u] # <<>>
  /\ Careful => MovesNoTable(sheet[u], Last(undo[u]).operations)
  /\ RowsAreThere(sheet[u], Last(undo[u]).operations)
  /\ Ask(<<Last(undo[u])>>)
  /\ undo' = [undo EXCEPT ![u] = Front(@)]
  /\ UNCHANGED redo

Redo(u) ==
  /\ redo[u] # <<>>
  /\ Careful => MovesNoTable(sheet[u], Last(redo[u]).operations)
  /\ RowsAreThere(sheet[u], Last(redo[u]).operations)
  /\ Ask(<<Last(redo[u])>>)
  /\ redo' = [redo EXCEPT ![u] = Front(@)]
  /\ UNCHANGED undo

(* start_transaction and finalize_transaction: what takes the transaction  *)
(* back, its reverse operations from the last to the first, goes to a      *)
(* stack; its forward operations go to the others.                         *)
Transact ==
  LET t == Head(todo)
      u == t.by
      T == Run(sheet[u], t.source, t.operations)
      Back(source) == Transaction(u, source, Reverse(T.reverse), T.sheet,
                                  [sheet |-> sheet[u], stale |-> stale], IsExact(t))
  IN  /\ todo # <<>> /\ shared = None
      /\ todo' = Tail(todo)
      /\ sheet' = [sheet EXCEPT ![u] = T.sheet]
      /\ shared' = [by |-> u, operations |-> T.forward]
      /\ undo' = IF t.source = "Undo" THEN undo
                 ELSE [undo EXCEPT ![u] = Append(@, Back("Undo"))]
      /\ redo' = CASE t.source = "User" -> [redo EXCEPT ![u] = <<>>]
                   [] t.source = "Undo" -> [redo EXCEPT ![u] = Append(@, Back("Redo"))]
                   [] t.source = "Redo" -> redo
      /\ stale' = IF t.source = "User" THEN stale /\ T.forward = <<>>
                  ELSE t.to.stale \/ ~ IsExact(t)
      /\ UNCHANGED moves

(* The others execute the forward operations as they come. *)
Receive ==
  /\ shared # None
  /\ shared' = None
  /\ sheet' = [w \in User |-> IF w = shared.by THEN sheet[w]
                ELSE Run(sheet[w], "Multiplayer", shared.operations).sheet]
  /\ UNCHANGED <<undo, redo, todo, stale, moves>>

---------------------------------------------------------------------------
(* What users do (controller/user_actions, controller/operations). *)

(* A clock that the users share. *)
Now == moves + 1

Tables(u) == {sheet[u].tables[i] : i \in DOMAIN sheet[u].tables}

(* The imported table that shows row p of u's sheet, or None. *)
ImportAt(u, p) ==
  LET i == Within(sheet[u], p)
  IN  IF i # 0 /\ sheet[u].tables[i].kind = Import THEN sheet[u].tables[i] ELSE None

DataRows(t) == t.pos + HeadRows(t) .. t.pos + Height(t) - 1

(* expand_rows: a value typed right under an imported table makes it one   *)
(* row longer.  A spilled table counts with the one cell it shows.         *)
Expanded(u, p) ==
  LET t == ImportAt(u, p - 1)
  IN  IF /\ t # None
         /\ p \notin Output(t)
         /\ sheet[u].cells[p] = Blank
         /\ Within(sheet[u], p) = 0
      THEN t ELSE None

(* set_cell_values: into a table's row, or into the cell.  Headings are    *)
(* renamed in another way, and a table with a spill error shows no rows.   *)
(* Right under a single value that was made a table, the row is refused    *)
(* once its value is taken: it is gone here and stays with the others.     *)
(* Under a spilled table with one heading the value becomes the first row, *)
(* which undo cannot put back into its cell.                               *)
SetCell(u, p, v) ==
  LET t == ImportAt(u, p)
      above == Expanded(u, p)
      longer == InsertDataTableRows(above.pos, <<[index |-> p - above.pos, value |-> None]>>, TRUE)
  IN  /\ "cell" \in Kinds
      /\ t # None => ~ t.spill /\ p \in DataRows(t)
      /\ above # None => Len(above.rows) < MaxRows
      /\ Careful /\ above # None => ~ above.single /\ p # above.pos + HeadRows(above)
      /\ Commit(u, IF t # None THEN << <<SetDataTableAt(p, v)>> >>
                   ELSE IF above # None THEN << <<SetCellValues(p, <<v>>)>>, <<longer>> >>
                   ELSE << <<SetCellValues(p, <<v>>)>> >>)

(* delete_cells on one cell.  On a heading it blanks, before the table     *)
(* goes, what another table shows as many rows above, and undo puts the    *)
(* heading there.                                                          *)
DeleteCell(u, p) ==
  LET i == Within(sheet[u], p)
      t == sheet[u].tables[i]
      cell == SetCellValues(p, <<Blank>>)
  IN  /\ "delete" \in Kinds
      /\ Careful /\ i # 0 =>
           p \in DataRows(t) \/ Within(sheet[u], p - HeadRows(t)) \in {0, i}
      /\ Commit(u, IF i = 0 THEN << <<cell>> >>
                   ELSE IF t.kind = Code \/ DataRows(t) = {p}
                     THEN << <<DeleteDataTable(t.pos), cell>> >>
                   ELSE << <<SetDataTableAt(p, Blank), cell>> >>)

(* set_code_cell. *)
SetCode(u, p, r) ==
  /\ "code" \in Kinds
  /\ Commit(u, << <<SetCellValues(p, <<Code>>), ComputeCode(p, r, Now)>> >>)

(* rerun_code_cell; a run that follows from dependencies is the same.      *)
RunCode(u, p, r) ==
  /\ "run" \in Kinds
  /\ sheet[u].cells[p] = Code
  /\ Commit(u, << <<ComputeCode(p, r, Now)>> >>)

(* add_data_table, import of a file.  On top of a table, undo brings that  *)
(* one back with the headings of the new one.                              *)
AddTable(u, p, r) ==
  /\ "add" \in Kinds
  /\ Careful => TableAt(sheet[u], p) = None
  /\ Commit(u, << <<AddDataTable(p, NewTable(p, r, Import, "shown", Now), Import, 0)>> >>)

(* flatten_data_table: the menu offers it for a code table with a spill    *)
(* error too, whose values then replace, for good, what is in their way.   *)
(* Left out: flattening a single value, which has no column headings,      *)
(* panics, and the client stops there.                                     *)
Flatten(u, t) ==
  /\ "flatten" \in Kinds
  /\ ~ t.single
  /\ t.spill => t.kind = Code /\ ~ Careful
  /\ Commit(u, << <<FlattenDataTable(t.pos)>> >>)

ToDataTable(u, t) ==
  /\ "convert" \in Kinds
  /\ t.kind = Code
  /\ Commit(u, << <<SwitchDataTableKind(t.pos, Import, Import)>> >>)

GridToTable(u, lo, hi) ==
  /\ "convert" \in Kinds
  /\ lo <= hi
  /\ Commit(u, << <<GridToDataTable(lo, hi, Now)>> >>)

ToggleName(u, t) ==
  /\ "meta" \in Kinds
  /\ LET name == IF NameIsShown(t) THEN "hidden" ELSE "shown"
     IN  Commit(u, << <<DataTableOptionMeta(t.pos, name, t.columns)>> >>)

(* insertTableRow: above or below the row of the cursor, a heading too. *)
InsertRow(u, t, index) ==
  /\ "rows" \in Kinds
  /\ t.kind = Import /\ ~ t.spill
  /\ Len(t.rows) < MaxRows
  /\ Commit(u, << <<InsertDataTableRows(t.pos, <<[index |-> index, value |-> None]>>, FALSE)>> >>)

(* removeTableRow: the rows of the selection, headings too (rows outside   *)
(* the table are left out).  Deleting all rows fails at the last one, and  *)
(* a heading cannot be deleted: the other rows are gone here, and neither  *)
(* undone nor shared.                                                      *)
DeleteRows(u, t, indexes) ==
  /\ "rows" \in Kinds
  /\ t.kind = Import /\ ~ t.spill
  /\ Careful => (\A k \in indexes : k >= HeadRows(t)) /\ Cardinality(indexes) < Len(t.rows)
  /\ Commit(u, << <<DeleteDataTableRows(t.pos, SetToSortSeq(indexes, <), FALSE)>> >>)

Edit(u) ==
  \/ \E p \in Typed :
       \/ \E v \in Value : SetCell(u, p, v)
       \/ DeleteCell(u, p)
  \/ \E p \in Anchor, r \in Result :
       \/ SetCode(u, p, r)
       \/ RunCode(u, p, r)
       \/ AddTable(u, p, r)
  \/ \E p, q \in Anchor : GridToTable(u, p, q)
  \/ \E t \in Tables(u) :
       \/ Flatten(u, t)
       \/ ToDataTable(u, t)
       \/ ToggleName(u, t)
       \/ \E index \in 0 .. Height(t) : InsertRow(u, t, index)
       \/ \E indexes \in SUBSET (0 .. Height(t) - 1) \ {{}} : DeleteRows(u, t, indexes)

Next ==
  \/ \E u \in User : Edit(u) \/ Undo(u) \/ Redo(u)
  \/ Transact
  \/ Receive

Spec == Init /\ [][Next]_vars

---------------------------------------------------------------------------
Cell == Value \cup {Blank, Code, Import, Heading}

Table ==
  [pos : Row, rows : Seq(Cell) \ {<<>>}, kind : {Code, Import},
   name : Shown, columns : Shown, spill : BOOLEAN, single : BOOLEAN, made : Nat]

(* Cells are values or anchors, every table fits the sheet, and no two are *)
(* anchored in the same cell.                                              *)
TypeOK ==
  /\ sheet \in [User -> [cells : [Row -> Cell], tables : Seq(Table)]]
  /\ \A u \in User :
       /\ \A t \in Tables(u) : FullOutput(t) \subseteq Row
       /\ IsInjective([i \in DOMAIN sheet[u].tables |-> sheet[u].tables[i].pos])
  /\ moves \in 0 .. MaxMoves
  /\ stale \in BOOLEAN

(* Executing the forward operations brings every other client to the same  *)
(* sheet, down to the order of the tables and their spill flags, although  *)
(* it checks neither spills nor deleted tables itself.                     *)
SheetsAgree == shared = None => \A u, w \in User : sheet[u] = sheet[w]

(* A table has a spill error exactly when a cell value or an earlier table *)
(* is in its way; one pass over the tables is enough to get there.  Undo   *)
(* on a sheet that others have changed restores flags of another time, and *)
(* undo of what came after brings them back; the next transaction of a     *)
(* user that changes something puts them right.                            *)
SpillsAreExact == shared = None /\ ~ stale => \A u \in User : Exact(sheet[u])

(* Undo and redo, on the sheet as the transaction they take back left it,  *)
(* lead to the sheet that was made on; so does undoing a redo, and so on.  *)
(* With spill errors of another time on that sheet two tables may show the *)
(* same cell, and an operation and its reverse find different ones there.  *)
UndoRestored ==
  LET t == Head(todo)
  IN  todo # <<>> /\ todo' = Tail(todo) /\ t.source # "User" /\ IsExact(t) /\ ~ t.to.stale =>
        sheet'[t.by] = t.to.sheet

UndoRestores == [][UndoRestored]_vars
=============================================================================
