---------------------------- MODULE SharedSheet ----------------------------
(***************************************************************************)
(* What the transaction engine promises its user.  There is one history of *)
(* the sheet, the same for everybody.  A user has learnt the first seen    *)
(* transactions of it and has work of her own, mine, that is not among     *)
(* them; her sheet is what she has learnt with her own work on top of it,  *)
(* and the one is never lost in favour of the other.                       *)
(***************************************************************************)
EXTENDS SheetWrites

CONSTANTS
  OwnId,     \* the ids of this user's transactions
  Foreign    \* stands for the id of anybody else's

VARIABLES
  history,   \* the transactions everybody agrees on
  seen,      \* how many of them this user has learnt
  mine,      \* her own transactions that she has not learnt back yet
  sheet      \* what she sees

sharedVars == <<history, seen, mine, sheet>>

OwnTransaction == [id : OwnId, writes : Writes]
Transaction == [id : OwnId \cup {Foreign}, writes : Writes]

(* The user's sheet, when she has learnt the first n transactions of h and *)
(* her own work is m.                                                      *)
View(h, n, m) == OverlayForward(Replay(h, n), [i \in DOMAIN m |-> m[i].writes])

AsSeen == sheet' = View(history', seen', mine')

SharedInit ==
  /\ history = <<>>
  /\ seen = 0
  /\ mine = <<>>
  /\ sheet = BlankGrid

Range(q) == {q[i] : i \in DOMAIN q}
Holds(q, id) == \E i \in DOMAIN q : q[i].id = id

(* New work, or more of the work of a transaction that is not finished.    *)
Work ==
  /\ \/ \E t \in OwnTransaction :
          ~Holds(mine, t.id) /\ ~Holds(history, t.id) /\ mine' = Append(mine, t)
     \/ \E i \in DOMAIN mine, w \in Writes :
          ~Holds(history, mine[i].id) /\ mine' = [mine EXCEPT ![i].writes = Merge(@, w)]
  /\ UNCHANGED <<history, seen>>
  /\ AsSeen

(* A transaction enters the history, at its end and only once.             *)
Publish ==
  /\ \E t \in Transaction :
       /\ t.id # Foreign => t \in Range(mine) /\ ~Holds(history, t.id)
       /\ history' = Append(history, t)
  /\ UNCHANGED <<seen, mine, sheet>>

(* p is what q holds at the positions kept, in the same order.             *)
IsRestOf(p, q, kept) ==
  \E n \in 0..Len(q) : \E f \in [1..n -> kept] :
    /\ \A i, j \in 1..n : i < j => f[i] < f[j]
    /\ \A k \in kept : \E i \in 1..n : f[i] = k
    /\ p = [i \in 1..n |-> q[f[i]]]

(* The user learns more of the history; her work that is part of what she  *)
(* has learnt is no longer hers alone.                                     *)
Learn ==
  /\ seen' \in (seen + 1)..Len(history)
  /\ IsRestOf(mine', mine,
              {i \in DOMAIN mine : \A n \in 1..seen' : history[n].id # mine[i].id})
  /\ UNCHANGED history
  /\ AsSeen

SharedNext == Work \/ Publish \/ Learn

SharedSpec == SharedInit /\ [][SharedNext]_sharedVars
=============================================================================
