---------------------------- MODULE MCOfflinePage ----------------------------
EXTENDS OfflinePage

CONSTANTS a, b, x, y

Write(c, v) == [d \in {c} |-> v]

\* The user and the others write the same cell, and code writes another.
OfflineEdits == {Write(a, x)}
OfflineRemote == {Write(a, y)}
OfflineCode == {Write(b, x)}
OfflineResult == {Write(a, x)}
=============================================================================
