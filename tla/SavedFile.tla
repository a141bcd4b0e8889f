----------------------------- MODULE SavedFile -----------------------------
(***************************************************************************)
(* What saving promises the users of one file.  Everything they did is a   *)
(* log of numbered transactions.  At any time a copy of the file is saved  *)
(* that holds exactly the transactions up to some number, each of them     *)
(* once; that number only grows.                                           *)
(***************************************************************************)
EXTENDS Integers

CONSTANT MaxNumber        \* the largest number a transaction can get

VARIABLES
  written,    \* the numbers of the transactions of the file
  savedUpTo,  \* the number the saved copy goes up to
  saved       \* the saved copy

savedVars == <<written, savedUpTo, saved>>

Numbers == 1..MaxNumber

(* A copy of the file tells how often each transaction was applied to the  *)
(* file its owner created.                                                 *)
Created == [n \in Numbers |-> 0]
Prefix(numbers, last) ==
  [n \in Numbers |-> IF n \in numbers /\ n <= last THEN 1 ELSE 0]

SavedInit ==
  /\ written = {}
  /\ savedUpTo = 0
  /\ saved = Created

(* A user's transaction is added behind all those there are.               *)
Write ==
  /\ \E n \in Numbers :
       /\ \A m \in written : m < n
       /\ savedUpTo < n
       /\ written' = written \cup {n}
  /\ UNCHANGED <<savedUpTo, saved>>

(* A newer copy replaces the saved one.                                    *)
Save ==
  /\ \E n \in written :
       /\ savedUpTo < n
       /\ savedUpTo' = n
       /\ saved' = Prefix(written, n)
  /\ UNCHANGED written

SavedNext == Write \/ Save

SavedSpec == SavedInit /\ [][SavedNext]_savedVars
=============================================================================
