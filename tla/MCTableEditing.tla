--------------------------- MODULE MCTableEditing ---------------------------
(***************************************************************************)
(* Two users and a sheet of eight rows for TLC.  The sheets to start from  *)
(* are the empty one and one with an imported table above a code cell,     *)
(* which a user reaches with two edits.                                    *)
(***************************************************************************)
EXTENDS TableEditing

CONSTANTS v, r

EmptySheet == [cells |-> [p \in Row |-> Blank], tables |-> <<>>]

AllRows == 1 .. 8
Results == {<<r>>, <<r, r>>}

WithTables ==
  Run(Run(EmptySheet, "User", <<SetCellValues(4, <<Code>>), ComputeCode(4, <<r, r>>, 0)>>).sheet,
      "User", <<AddDataTable(1, NewTable(1, <<r>>, Import, "shown", 0), Import, 0)>>).sheet

Sheets == {EmptySheet, WithTables}
Users == Permutations(User)
=============================================================================
