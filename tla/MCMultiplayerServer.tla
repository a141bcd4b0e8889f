------------------------ MODULE MCMultiplayerServer ------------------------
(***************************************************************************)
(* Two sessions for TLC: one that reconnects, by the sockets a1 and a2,    *)
(* and one with the socket b1.                                             *)
(***************************************************************************)
EXTENDS MultiplayerServer

CONSTANTS a1, a2, b1, a, b

SessionOfSocket == [c \in Sockets |-> IF c = b1 THEN b ELSE a]
=============================================================================
