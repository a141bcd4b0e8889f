---------------------------- MODULE SheetTables ----------------------------
(***************************************************************************)
(* A sheet with its cells and data tables, and the operations that change  *)
(* them (quadratic-core: grid/sheet, grid/data_table,                      *)
(* controller/execution/execute_operation, run_code, spills).              *)
(*                                                                         *)
(* The sheet is one column of rows: a table occupies an interval below its *)
(* anchor, the rows of its name and of its column headings first.  An      *)
(* operation maps a pending transaction, which is the sheet and the lists  *)
(* of forward and reverse operations, to the next one.                     *)
(***************************************************************************)
EXTENDS Integers, Sequences, SequencesExt

CONSTANTS
  Value,         \* what users type and code returns
  Blank,         \* an empty cell
  Code, Import,  \* the cell a code table and an imported one are anchored in
  Heading,       \* the text of a table's name or column heading
  None           \* no table, no value

Source == {"User", "Undo", "Redo", "Multiplayer"}

(* show_name and show_columns: set by the user, or left to the default. *)
Shown == {"default", "shown", "hidden"}

---------------------------------------------------------------------------
(* Tables. *)

(* DataTable::new.  One value that code returns is no array, and stays one *)
(* (Value::Single) when the table becomes an imported one; a list of one   *)
(* value, which is an array, is left out.  Nothing changes the time it was *)
(* made (last_modified), which tells it from the result of the next run.   *)
NewTable(p, rows, kind, option, time) ==
  [pos |-> p, rows |-> rows, kind |-> kind, name |-> option, columns |-> option,
   spill |-> FALSE, single |-> kind = Code /\ Len(rows) = 1, made |-> time]

(* The defaults are those of a file, and of a list that Python or          *)
(* Javascript returns.                                                     *)
NameIsShown(t) ==
  t.name = "shown" \/ (t.name = "default" /\ (t.kind = Import \/ ~ t.single))

ColumnsAreShown(t) == t.columns = "shown" \/ (t.columns = "default" /\ t.kind = Import)

(* y_adjustment: how many rows the name and the column headings take. *)
HeadRows(t) ==
  (IF NameIsShown(t) THEN 1 ELSE 0) + (IF ColumnsAreShown(t) THEN 1 ELSE 0)

Height(t) == HeadRows(t) + Len(t.rows)

(* output_rect, ignoring a spill error or not. *)
FullOutput(t) == t.pos .. t.pos + Height(t) - 1
Output(t) == IF t.spill THEN {t.pos} ELSE FullOutput(t)

IndexOf(s, p) == SelectInSeq(s.tables, LAMBDA t : t.pos = p)

TableAt(s, p) == IF IndexOf(s, p) = 0 THEN None ELSE s.tables[IndexOf(s, p)]

(* first_data_table_within: the index of the first table that shows p, or 0. *)
Within(s, p) == SelectInSeq(s.tables, LAMBDA t : p \in Output(t))

(* A bug: a key that is there is entered a second time.                    *)
InsertBefore_Twice(tables, index, t) == InsertAt(tables, index, t)

(* IndexMap: a key that is there moves; the entry at index stays after it. *)
InsertBefore(tables, index, t) ==
  LET old == SelectInSeq(tables, LAMBDA u : u.pos = t.pos)
  IN  IF old = 0 THEN InsertAt(tables, index, t)
      ELSE InsertAt(RemoveAt(tables, old), IF index > old THEN index - 1 ELSE index, t)

(* The standard library's binary search: where it ends in a list that is   *)
(* not sorted depends on the probes, which halve the interval.             *)
InsertSorted(tables, t) ==
  LET probe[size \in 0 .. Len(tables)] ==
        [base \in Nat |->
           IF size <= 1 THEN base
           ELSE LET half == size \div 2
                IN  probe[size - half]
                      [IF tables[base + half].pos > t.pos THEN base ELSE base + half]]
      i == probe[Len(tables)][1]
  IN  IF tables = <<>> THEN <<t>>
      ELSE IF tables[i].pos = t.pos THEN ReplaceAt(tables, i, t)
      ELSE InsertBefore(tables, IF tables[i].pos < t.pos THEN i + 1 ELSE i, t)

WithTable(s, i, t) == [s EXCEPT !.tables = ReplaceAt(@, i, t)]

WithoutTable(s, p) ==
  IF IndexOf(s, p) = 0 THEN s ELSE [s EXCEPT !.tables = RemoveAt(@, IndexOf(s, p))]

(* Cells from position lo on. *)
Cells(s, lo, n) == [k \in 1 .. n |-> s.cells[lo + k - 1]]

WithCells(s, lo, values) ==
  [s EXCEPT !.cells = [p \in DOMAIN @ |->
     IF p - lo + 1 \in DOMAIN values THEN values[p - lo + 1] ELSE @[p]]]

WithCell(s, p, v) == WithCells(s, p, <<v>>)

Blanks(n) == [k \in 1 .. n |-> Blank]

---------------------------------------------------------------------------
(* Transactions. *)

Pending(s) == [sheet |-> s, forward |-> <<>>, reverse |-> <<>>]

Record(T, forward, reverse) ==
  [T EXCEPT !.forward = @ \o forward, !.reverse = @ \o reverse]

OnSheet(T, s) == [T EXCEPT !.sheet = s]

SetCellValues(p, values) == [op |-> "SetCellValues", pos |-> p, values |-> values]
SetDataTable(p, t, index) == [op |-> "SetDataTable", pos |-> p, table |-> t, index |-> index]
AddDataTable(p, t, cell, index) ==
  [op |-> "AddDataTable", pos |-> p, table |-> t, cell |-> cell, index |-> index]
DeleteDataTable(p) == [op |-> "DeleteDataTable", pos |-> p]
SetDataTableAt(p, v) == [op |-> "SetDataTableAt", pos |-> p, value |-> v]
FlattenDataTable(p) == [op |-> "FlattenDataTable", pos |-> p]
SwitchDataTableKind(p, kind, cell) ==
  [op |-> "SwitchDataTableKind", pos |-> p, kind |-> kind, cell |-> cell]
(* In the code it names no time, and every client takes its own.           *)
GridToDataTable(lo, hi, time) ==
  [op |-> "GridToDataTable", pos |-> lo, hi |-> hi, time |-> time]
DataTableOptionMeta(p, name, columns) ==
  [op |-> "DataTableOptionMeta", pos |-> p, name |-> name, columns |-> columns]
InsertDataTableRows(p, rows, swallow) ==
  [op |-> "InsertDataTableRows", pos |-> p, rows |-> rows, swallow |-> swallow]
DeleteDataTableRows(p, rows, flatten) ==
  [op |-> "DeleteDataTableRows", pos |-> p, rows |-> rows, flatten |-> flatten]
(* What execute_compute_code brings about: the code at p ran. *)
ComputeCode(p, result, time) ==
  [op |-> "ComputeCode", pos |-> p, result |-> result, time |-> time]

---------------------------------------------------------------------------
(* Spills. *)

(* check_spill: a table of more than one cell is blocked by a value in its *)
(* output, except its own anchor's, and by what an earlier table shows.    *)
IsBlocked(s, i) ==
  LET t == s.tables[i]
  IN  /\ Height(t) > 1
      /\ \/ \E p \in FullOutput(t) \ {t.pos} : s.cells[p] # Blank
         \/ \E j \in 1 .. i - 1 : Output(s.tables[j]) \cap FullOutput(t) # {}

(* A bug: others are not told that a table's spill error came or went.     *)
ChangeSpill_Unshared(T, i) ==
  LET old == T.sheet.tables[i]
      new == [old EXCEPT !.spill = ~ @]
  IN  Record(OnSheet(T, WithTable(T.sheet, i, new)), <<>>, <<SetDataTable(old.pos, old, i)>>)

ChangeSpill(T, i) ==
  LET old == T.sheet.tables[i]
      new == [old EXCEPT !.spill = ~ @]
  IN  Record(OnSheet(T, WithTable(T.sheet, i, new)),
             <<SetDataTable(old.pos, new, i)>>, <<SetDataTable(old.pos, old, i)>>)

CheckSpill(T, i) ==
  IF IsBlocked(T.sheet, i) = T.sheet.tables[i].spill THEN T ELSE ChangeSpill(T, i)

(* A bug: the pass ends with the first table whose spill error changes.    *)
CheckAllSpills_UntilFirst(T) ==
  LET i == SelectInSeq([k \in DOMAIN T.sheet.tables |-> k],
                       LAMBDA k : IsBlocked(T.sheet, k) # T.sheet.tables[k].spill)
  IN  IF i = 0 THEN T ELSE ChangeSpill(T, i)

CheckAllSpills(T) == FoldLeftDomain(CheckSpill, T, T.sheet.tables)

(* data_table_operations: what was done is recorded, unless it came from   *)
(* another user; the user's own operations may change what spills.         *)
DataTableOperations(T, source, forward, reverse) ==
  IF source = "Multiplayer" THEN T
  ELSE LET R == Record(T, forward, reverse)
       IN  IF source = "User" THEN CheckAllSpills(R) ELSE R

---------------------------------------------------------------------------
(* Operations. *)

(* finalize_data_table: sets, replaces or (None) removes the table at p.   *)
(* Index 0 stands for none given.  Nothing is recorded when the very same  *)
(* table was there, even if it moves to another index.                     *)
FinalizeDataTable(T, source, p, table, index) ==
  LET s == T.sheet
      old == TableAt(s, p)
      new == IF None \in {old, table} THEN table
             ELSE [table EXCEPT !.name = old.name, !.columns = old.columns]
      at == IF index # 0 THEN index
            ELSE IF IndexOf(s, p) # 0 THEN IndexOf(s, p) ELSE Len(s.tables) + 1
      after == IF new = None THEN WithoutTable(s, p)
               ELSE [s EXCEPT !.tables =
                       InsertBefore(@, IF at > Len(@) THEN Len(@) + 1 ELSE at, new)]
  IN  IF old = new THEN OnSheet(T, after)
      ELSE DataTableOperations(OnSheet(T, after), source,
             <<SetDataTable(p, new, at)>>, <<SetDataTable(p, old, at)>>)

(* check_deleted_data_tables: a table goes when its anchor is overwritten, *)
(* but not by code, which keeps showing the old output until it ran.       *)
CheckDeletedDataTables(T, source, lo, hi) ==
  LET Goes(t) == t.pos \in lo .. hi /\ T.sheet.cells[t.pos] \notin {Code, Import}
  IN  FoldLeft(LAMBDA R, t : IF Goes(t) THEN FinalizeDataTable(R, source, t.pos, None, 0) ELSE R,
               T, T.sheet.tables)

ExecuteSetCellValues(T, source, op) ==
  LET old == Cells(T.sheet, op.pos, Len(op.values))
      set == OnSheet(T, WithCells(T.sheet, op.pos, op.values))
      forward == Record(set, <<op>>, <<>>)
      checked == IF source = "User"
                 THEN CheckAllSpills(CheckDeletedDataTables(forward, source,
                        op.pos, op.pos + Len(op.values) - 1))
                 ELSE forward
  IN  IF old = op.values \/ source = "Multiplayer" THEN set
      ELSE Record(checked, <<>>, <<SetCellValues(op.pos, old)>>)

(* The code cell may have gone before its turn.  The table is found in the *)
(* state after the run.                                                    *)
ExecuteComputeCode(T, source, op) ==
  IF source # "User" \/ T.sheet.cells[op.pos] # Code THEN T
  ELSE FinalizeDataTable(T, source, op.pos,
         NewTable(op.pos, op.result, Code, "default", op.time), 0)

ExecuteAddDataTable(T, source, op) ==
  LET s == T.sheet
      old == TableAt(s, op.pos)
      tables == IF op.index = 0 THEN InsertSorted(s.tables, op.table)
                ELSE InsertBefore(s.tables,
                       IF op.index > Len(s.tables) THEN Len(s.tables) + 1 ELSE op.index, op.table)
      after == [WithCell(s, op.pos, op.cell) EXCEPT !.tables = tables]
  IN  DataTableOperations(OnSheet(T, after), source, <<op>>,
        << SetCellValues(op.pos, <<s.cells[op.pos]>>),
           SetDataTable(op.pos, old, IndexOf(after, op.pos)) >>)

(* A bug: the table comes back where its position would put it.            *)
ExecuteDeleteDataTable_Unplaced(T, source, op) ==
  LET s == T.sheet
      i == Within(s, op.pos)
      t == s.tables[i]
  IN  IF i = 0 THEN T
      ELSE DataTableOperations(OnSheet(T, WithCell(WithoutTable(s, t.pos), t.pos, Blank)), source,
             <<op>>, <<AddDataTable(op.pos, t, s.cells[t.pos], 0)>>)

ExecuteDeleteDataTable(T, source, op) ==
  LET s == T.sheet
      i == Within(s, op.pos)
      t == s.tables[i]
  IN  IF i = 0 THEN T
      ELSE DataTableOperations(OnSheet(T, WithCell(WithoutTable(s, t.pos), t.pos, Blank)), source,
             <<op>>, <<AddDataTable(op.pos, t, s.cells[t.pos], i)>>)

(* The row is looked for above the heading rows, in whichever table is     *)
(* there; a table with a spill error takes no value, and a single value is *)
(* set and read whatever row is asked for.                                 *)
ExecuteSetDataTableAt(T, source, op) ==
  LET s == T.sheet
      i == Within(s, op.pos)
      t == s.tables[i]
      j == Within(s, op.pos - HeadRows(t))
      u == s.tables[j]
      row == IF u.single THEN 1 ELSE op.pos - HeadRows(t) - u.pos + 1
      after == IF j = 0 \/ u.spill \/ row \notin DOMAIN u.rows THEN s
               ELSE WithTable(s, j, [u EXCEPT !.rows[row] = op.value])
      own == op.pos - t.pos - HeadRows(t) + 1
      old == IF t.single THEN t.rows[1]
             ELSE IF t.spill THEN Blank
             ELSE IF own \in DOMAIN t.rows THEN t.rows[own] ELSE Heading
  IN  IF i = 0 \/ t.kind = Code THEN T
      ELSE DataTableOperations(OnSheet(T, after), source, <<op>>, <<SetDataTableAt(op.pos, old)>>)

(* The values of the whole table, an array, go into the cells, but what is *)
(* recorded to undo that clears only what the table showed.                *)
ExecuteFlattenDataTable(T, source, op) ==
  LET s == T.sheet
      i == Within(s, op.pos)
      t == s.tables[i]
      values == [k \in 1 .. HeadRows(t) |-> Heading] \o t.rows
      after == WithCells(WithoutTable(s, t.pos), t.pos, values)
      shown == IF t.spill THEN 1 ELSE Height(t)
  IN  IF i = 0 THEN T
      ELSE CheckDeletedDataTables(
             DataTableOperations(OnSheet(T, after), source, <<op>>,
               << AddDataTable(op.pos, t, s.cells[t.pos], i),
                  SetCellValues(t.pos, Blanks(shown)) >>),
             source, t.pos, t.pos + Len(values) - 1)

ExecuteSwitchDataTableKind(T, source, op) ==
  LET s == T.sheet
      i == Within(s, op.pos)
      t == s.tables[i]
  IN  IF i = 0 THEN T
      ELSE DataTableOperations(
             OnSheet(T, WithCell(WithTable(s, i, [t EXCEPT !.kind = op.kind]), t.pos, op.cell)),
             source, <<op>>, <<SwitchDataTableKind(op.pos, t.kind, s.cells[t.pos])>>)

ExecuteGridToDataTable(T, source, op) ==
  LET s == T.sheet
      old == Cells(s, op.pos, op.hi - op.pos + 1)
      t == NewTable(op.pos, old, Import, "shown", op.time)
      cleared == WithCell(WithCells(s, op.pos, Blanks(Len(old))), op.pos, Import)
      after == [cleared EXCEPT !.tables = InsertSorted(@, t)]
  IN  IF \E i \in DOMAIN s.tables : Output(s.tables[i]) \cap (op.pos .. op.hi) # {} THEN T
      ELSE DataTableOperations(OnSheet(T, after), source, <<op>>,
             <<SetCellValues(op.pos, old), DeleteDataTable(op.pos)>>)

ExecuteDataTableOptionMeta(T, source, op) ==
  LET s == T.sheet
      i == Within(s, op.pos)
      t == s.tables[i]
  IN  IF i = 0 THEN T
      ELSE DataTableOperations(
             OnSheet(T, WithTable(s, i, [t EXCEPT !.name = op.name, !.columns = op.columns])),
             source, <<op>>, <<DataTableOptionMeta(op.pos, t.name, t.columns)>>)

(* One row, at an index counted from the anchor of the i-th table.  What   *)
(* an operation that fails has done is neither undone nor recorded.  No    *)
(* row comes above the first one, where a row to swallow stays in its cell *)
(* (its formats are taken first, and that fails); a single value takes no  *)
(* rows, and a row to swallow has left its cell by then.  A row past the   *)
(* end leaves a blank one there.                                           *)
InsertOneRow(R, i, row, swallow) ==
  LET u == R.sheet.tables[i]
      cell == u.pos + row.index
      takes == swallow /\ row.value = None
      value == IF row.value # None THEN row.value
               ELSE IF takes THEN R.sheet.cells[cell] ELSE Blank
      taken == IF takes THEN WithCell(R.sheet, cell, Blank) ELSE R.sheet
      k == row.index - HeadRows(u) + 1
  IN  IF ~ R.ok THEN R
      ELSE IF k < 1 \/ (takes /\ R.sheet.cells[cell] \in {Code, Import})
        THEN [R EXCEPT !.ok = FALSE]
      ELSE IF u.single THEN [ok |-> FALSE, sheet |-> taken]
      ELSE [R EXCEPT !.sheet = WithTable(taken, i, [u EXCEPT !.rows =
              IF k <= Len(@) + 1 THEN InsertAt(@, k, value) ELSE Append(@, Blank)])]

InsertRows(s, i, rows, swallow) ==
  FoldLeft(LAMBDA R, row : InsertOneRow(R, i, row, swallow), [ok |-> TRUE, sheet |-> s], rows)

ExecuteInsertDataTableRows(T, source, op) ==
  LET i == Within(T.sheet, op.pos)
      done == InsertRows(T.sheet, i, op.rows, op.swallow)
      indexes == [k \in DOMAIN op.rows |-> op.rows[k].index]
  IN  IF i = 0 \/ op.rows = <<>> THEN T
      ELSE IF ~ done.ok THEN OnSheet(T, done.sheet)
      ELSE DataTableOperations(OnSheet(T, done.sheet), source, <<op>>,
             <<DeleteDataTableRows(op.pos, indexes, op.swallow)>>)

(* The rows go from the last to the first; a heading cannot be deleted,    *)
(* nor the last row that is left, and the others are gone by then, though  *)
(* not recorded.  Flattening reads all rows first and fails at a heading   *)
(* before any row goes; a single value has no row to delete.  A row that   *)
(* is flattened goes to the cell it was shown in, and all other cells      *)
(* below the table's first row are cleared.                                *)
ExecuteDeleteDataTableRows(T, source, op) ==
  LET s == T.sheet
      i == Within(s, op.pos)
      t == s.tables[i]
      gone == {index \in Range(op.rows) : index - HeadRows(t) + 1 \in DOMAIN t.rows}
      kept == SelectSeq([k \in DOMAIN t.rows |-> k], LAMBDA k : HeadRows(t) + k - 1 \notin gone)
      rows == [k \in DOMAIN kept |-> t.rows[kept[k]]]
      indexes == SetToSortSeq(gone, <)
      reverse == [k \in DOMAIN indexes |->
                    [index |-> indexes[k], value |-> t.rows[indexes[k] - HeadRows(t) + 1]]]
      \* the cells below the first row of the table
      lo == t.pos + HeadRows(t) + 1
      flat == [k \in 1 .. Len(t.rows) - 1 |->
                 IF HeadRows(t) + k \in gone THEN t.rows[k + 1] ELSE Blank]
      flattens == op.flatten /\ gone \ {HeadRows(t)} # {}
      deleted == WithTable(s, i, [t EXCEPT !.rows = rows])
      after == IF flattens THEN WithCells(deleted, lo, flat) ELSE deleted
      heading == \E index \in Range(op.rows) : index < HeadRows(t)
      left == IF rows = <<>> THEN <<t.rows[1]>> ELSE rows
  IN  IF i = 0 \/ op.rows = <<>> \/ t.single \/ (heading /\ op.flatten) THEN T
      ELSE IF heading \/ rows = <<>>
        THEN OnSheet(T, WithTable(s, i, [t EXCEPT !.rows = left]))
      ELSE DataTableOperations(OnSheet(T, after), source, <<op>>,
             <<InsertDataTableRows(op.pos, reverse, FALSE)>> \o
             (IF flattens THEN <<SetCellValues(lo, Cells(s, lo, Len(flat)))>> ELSE <<>>))

Execute(T, source, op) ==
  CASE op.op = "SetCellValues"       -> ExecuteSetCellValues(T, source, op)
    [] op.op = "ComputeCode"         -> ExecuteComputeCode(T, source, op)
    [] op.op = "SetDataTable"        -> FinalizeDataTable(T, source, op.pos, op.table, op.index)
    [] op.op = "AddDataTable"        -> ExecuteAddDataTable(T, source, op)
    [] op.op = "DeleteDataTable"     -> ExecuteDeleteDataTable(T, source, op)
    [] op.op = "SetDataTableAt"      -> ExecuteSetDataTableAt(T, source, op)
    [] op.op = "FlattenDataTable"    -> ExecuteFlattenDataTable(T, source, op)
    [] op.op = "SwitchDataTableKind" -> ExecuteSwitchDataTableKind(T, source, op)
    [] op.op = "GridToDataTable"     -> ExecuteGridToDataTable(T, source, op)
    [] op.op = "DataTableOptionMeta" -> ExecuteDataTableOptionMeta(T, source, op)
    [] op.op = "InsertDataTableRows" -> ExecuteInsertDataTableRows(T, source, op)
    [] op.op = "DeleteDataTableRows" -> ExecuteDeleteDataTableRows(T, source, op)

(* start_transaction: the operations in order. *)
Run(s, source, operations) ==
  FoldLeft(LAMBDA T, op : Execute(T, source, op), Pending(s), operations)
=============================================================================
