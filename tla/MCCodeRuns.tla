----------------------------- MODULE MCCodeRuns -----------------------------
EXTENDS CodeRuns

CONSTANTS a, b

\* Two cells that hold code; b asks for what a holds.
TwoCells == {a, b}
BReadsA == (a :> {}) @@ (b :> {a})

QueryAndJavascript == (a :> "Connection") @@ (b :> "Javascript")
TwoPython == (a :> "Python") @@ (b :> "Python")
=============================================================================
