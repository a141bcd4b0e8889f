----------------------- MODULE MCMultiplayerSession ------------------------
(***************************************************************************)
(* Small sessions for TLC.  The users of a session write two cells, one of *)
(* them or both in one transaction; a third one holds code results.        *)
(***************************************************************************)
EXTENDS MultiplayerSession

CONSTANTS a, b, x, y, z

Nothing == {}

EditOne == {[c \in {a} |-> x]}
EditTwo == {[c \in {a} |-> x], [c \in {a, b} |-> y]}
EditAndClear == {[c \in {a} |-> x], [c \in {a} |-> Blank], [c \in {a, b} |-> y]}

PlaceCode == {[c \in {b} |-> x]}
CodeOutput == {[c \in {a} |-> z]}

RemoteTwo == {[c \in {a} |-> z], [c \in {a, b} |-> x]}
RemoteApart == {[c \in {a} |-> z], [c \in {b} |-> z]}
=============================================================================
