---------------------------- MODULE SheetWrites ----------------------------
(***************************************************************************)
(* What an operation does to a sheet, as far as the transaction engine of  *)
(* quadratic-core can tell: it writes values into cells.  A Cell is any    *)
(* location an operation replaces as a whole (a cell of a sheet, the data  *)
(* table a code cell produces); a Value is its content and Blank its       *)
(* absence.  The operations of one transaction are always executed         *)
(* together, so a transaction is its net effect: a partial function from   *)
(* cells to values.                                                        *)
(***************************************************************************)
EXTENDS Naturals, Sequences

CONSTANTS
  Cell,   \* the locations an operation can write
  Value,  \* their contents
  Blank   \* the content of an empty cell

ASSUME BlankIsValue == Blank \in Value

Grid == [Cell -> Value]

Writes == UNION {[S -> Value] : S \in SUBSET Cell}

BlankGrid == [c \in Cell |-> Blank]

(* No operation at all: what a transaction that changed nothing records.   *)
NoWrites == [c \in {} |-> Blank]

(* Executing the writes w on the grid g (Sheet::merge_cell_values).        *)
Overlay(g, w) == [c \in Cell |-> IF c \in DOMAIN w THEN w[c] ELSE g[c]]

(* What executing w on g records.  An operation that changes nothing       *)
(* returns before it is recorded (execute_set_cell_values), one that       *)
(* changes some of its cells is recorded with all of them; how a           *)
(* transaction divides its cells among its operations is left open.        *)
Changed(g, w) == {c \in DOMAIN w : w[c] # g[c]}

Recorded(g, w) ==
  IF Changed(g, w) = {} THEN {{}} ELSE {D \in SUBSET DOMAIN w : Changed(g, w) \subseteq D}

ForwardOf(w, D) == [c \in D |-> w[c]]

(* A bug: undoing a write always empties the cell.                         *)
ReverseOf_Blank(g, D) == [c \in D |-> Blank]

ReverseOf(g, D) == [c \in D |-> g[c]]

(* Operations that w2 adds to those of w1, in cells w1 does not write.     *)
Merge(w1, w2) ==
  [c \in DOMAIN w1 \cup DOMAIN w2 |-> IF c \in DOMAIN w1 THEN w1[c] ELSE w2[c]]

(* The smallest and the largest member of a non-empty finite set of        *)
(* numbers.                                                                *)
Least(S) == CHOOSE i \in S : \A j \in S : i <= j
Greatest(S) == CHOOSE i \in S : \A j \in S : j <= i

(* The positions of the sequence ws whose writes cover the cell c.         *)
Covering(ws, c) == {i \in DOMAIN ws : c \in DOMAIN ws[i]}

(* Executing a sequence of writes from its last to its first element: in a *)
(* cell several of them cover, the first element is what remains.          *)
OverlayBackward(g, ws) ==
  [c \in Cell |-> IF Covering(ws, c) = {} THEN g[c]
                                          ELSE ws[Least(Covering(ws, c))][c]]

(* Executing them from first to last: the last one remains.                *)
OverlayForward(g, ws) ==
  [c \in Cell |-> IF Covering(ws, c) = {} THEN g[c]
                                          ELSE ws[Greatest(Covering(ws, c))][c]]

(* The sheet every user agrees on: the first n transactions of a log,      *)
(* executed in the order of their sequence numbers on a blank grid.        *)
Replay(log, n) == OverlayForward(BlankGrid, [i \in 1..n |-> log[i].writes])
=============================================================================
