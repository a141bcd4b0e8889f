------------------------------- MODULE CodeRun -------------------------------
(* What the core and the workers that run code have in common: the transactions,
   the cells that hold code, and a run of the code of a cell for a transaction. *)
EXTENDS Naturals, Sequences, FiniteSets

CONSTANTS
    Transactions,   \* the transactions the user may start
    Cells,          \* the positions that may hold code
    LanguageOf,     \* the language of the code a cell holds
    Reads,          \* the code cells that the code of a cell asks for
    Loaded,         \* the transaction that wrote the code the file was opened with
    None

Languages == {"Python", "Javascript", "Connection"}
CodeLanguages == {"Python", "Javascript"}

Authors == Transactions \cup {Loaded}

ASSUME CellsAssumption ==
    /\ IsFiniteSet(Cells)
    /\ LanguageOf \in [Cells -> Languages]
    /\ Reads \in [Cells -> SUBSET Cells]
    /\ \A c \in Cells : c \notin Reads[c]
    /\ Loaded \notin Transactions
    /\ None \notin Transactions \cup Cells \cup {Loaded} \cup [cell : Cells, code : Authors]

\* "code" names the text that is run, by the transaction that wrote it.
Run == [transaction : Transactions, cell : Cells, code : Authors]

\* What a worker posts to the core: the end of a run, with a value or an error, or a
\* question for the values of the cells it reads, asked in the name of a transaction.
Result == [type : {"result"}, run : Run]
Question == [type : {"cells"}, run : Run, transaction : Transactions]
=============================================================================
