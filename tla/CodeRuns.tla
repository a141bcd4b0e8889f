------------------------------ MODULE CodeRuns ------------------------------
(***************************************************************************)
(* Running code: the core and its transactions, the Python worker, the     *)
(* Javascript worker, the queries to databases (coreConnection.ts), the    *)
(* messages between them, and the user who changes cells and cancels runs. *)
(***************************************************************************)
EXTENDS CodeTransactions, PythonWorker, JavascriptWorker

CONSTANT MaxCancels     \* bound: how often the user cancels

ASSUME MaxCancelsAssumption == MaxCancels \in Nat

VARIABLES
    fetches,        \* the queries under way
    restarting,     \* per worker, what the core has still to be told of its restart
    cancels,        \* how often the user has cancelled
    interrupted     \* history: the transactions that a cancellation, a restart or a
                    \* query that failed or was refused has run over

runVars == <<fetches, restarting, cancels, interrupted>>
vars == <<coreVars, pyVars, jsVars, runVars>>

\* A query waits for a token, and then for the answer of the connection service.
Fetch == [run : Run, phase : {"token", "fetching"}]

TypeOK ==
    /\ CoreTypeOK
    /\ PyTypeOK
    /\ JsTypeOK
    /\ fetches \in SUBSET Fetch
    /\ restarting \in [CodeLanguages -> {"no", "cancel", "port"}]
    /\ cancels \in 0 .. MaxCancels
    /\ interrupted \in SUBSET Transactions

Init ==
    /\ CoreInit
    /\ PyInit
    /\ JsInit
    /\ fetches = {}
    /\ restarting = [l \in CodeLanguages |-> "no"]
    /\ cancels = 0
    /\ interrupted = {}

-----------------------------------------------------------------------------
(* Sending runs. sendRunPython and sendRunJavascript post the run to the worker,
   sendConnection starts a query; all of them note the transaction as the last one.
   Until the core is given the port of a restarted worker, it posts to the old one,
   where nobody reads. *)

\* A message makes the core send no more than two runs.
RunsIn(sent, l) ==
    LET run(i) == IF i \in DOMAIN sent /\ LanguageOf[sent[i].cell] = l THEN <<sent[i]>> ELSE <<>>
    IN  run(1) \o run(2)

RunsLost(sent) ==
    {sent[i].transaction : i \in {i \in DOMAIN sent :
        LanguageOf[sent[i].cell] \in CodeLanguages /\ restarting[LanguageOf[sent[i].cell]] # "no"}}

NewFetches(sent) ==
    {[run |-> sent[i], phase |-> "token"] :
        i \in {i \in DOMAIN sent : LanguageOf[sent[i].cell] = "Connection"}}

(* The core has handled a message, and "o" is the outcome for transaction t: the
   runs go out, and "gone" are the transactions that were run over. *)
CoreDoes(t, o, gone) ==
    /\ pending' = [pending EXCEPT ![t] = o.p]
    /\ table' = o.tables
    /\ pyInbox' = IF restarting["Python"] = "no" THEN pyInbox \o RunsIn(o.sent, "Python")
                  ELSE pyInbox
    /\ jsInbox' = IF restarting["Javascript"] = "no" THEN jsInbox \o RunsIn(o.sent, "Javascript")
                  ELSE jsInbox
    /\ interrupted' = interrupted \cup gone \cup RunsLost(o.sent)

\* The languages' last transactions, once those in "done" have been answered.
LastSentBut(sent, done) ==
    [l \in Languages |->
        IF RunsIn(sent, l) # <<>> THEN Last(RunsIn(sent, l)).transaction
        ELSE IF l \in done THEN None
        ELSE lastTransactionId[l]]

-----------------------------------------------------------------------------
(* The user *)

\* The user's messages come in order, and a cancellation is at once followed by the
\* port of the new worker.
NoPortToCome == \A l \in CodeLanguages : restarting[l] # "port"

UserBegins(t, codes, outcomes) ==
    /\ pending[t].status = "unused"
    /\ NoPortToCome
    /\ code' = codes
    /\ \E o \in outcomes :
         /\ CoreDoes(t, o, {})
         /\ fetches' = fetches \cup NewFetches(o.sent)
         /\ lastTransactionId' = LastSentBut(o.sent, {})
    /\ UNCHANGED <<pyOutbox, pyWorkerVars, jsOutbox, jsWorkerVars, restarting, cancels>>

UserSetsCode(t, c) == UserBegins(t, [code EXCEPT ![c] = t], SetCodeCell(t, c))

UserDeletesCode(t, c) ==
    /\ code[c] # None
    /\ UserBegins(t, [code EXCEPT ![c] = None], DeleteCodeCell(t, c))

UserReruns(t) ==
    /\ \E c \in Cells : table[c] # None
    /\ UserBegins(t, code, RerunAllCodeCells(t))

(* A worker is terminated and created again, and the core is told in two messages. *)
RestartedTransactions(inbox, awaiting, executing) ==
    {r.transaction : r \in ToSet(inbox) \cup ToSet(awaiting) \cup {e.run : e \in executing}}

UserCancelsWorker(l) ==
    /\ cancels < MaxCancels
    /\ cancels' = cancels + 1
    /\ restarting[l] = "no"
    /\ restarting' = [restarting EXCEPT ![l] = "cancel"]
    /\ IF l = "Python"
       THEN /\ PyRestart
            /\ interrupted' = interrupted
                  \cup RestartedTransactions(pyInbox, pyAwaiting, pyExecuting)
            /\ UNCHANGED jsVars
       ELSE /\ JsRestart
            /\ interrupted' = interrupted
                  \cup RestartedTransactions(jsInbox, jsAwaiting, jsExecuting)
            /\ UNCHANGED pyVars
    /\ UNCHANGED <<coreVars, fetches>>

\* corePython.cancelExecution: the last transaction is told that it was cancelled.
CoreCancels(l) ==
    /\ restarting[l] = "cancel"
    /\ NoPortToCome
    /\ restarting' = [restarting EXCEPT ![l] = "port"]
    /\ LET t == lastTransactionId[l]
       IN  IF t = None
           THEN UNCHANGED <<coreVars, pyInbox, jsInbox, fetches, interrupted>>
           ELSE \E o \in CalculationComplete(t, None, TRUE) :
                  /\ CoreDoes(t, o, {t})
                  /\ fetches' = fetches \cup NewFetches(o.sent)
                  /\ lastTransactionId' = [LastSentBut(o.sent, {}) EXCEPT ![l] = None]
                  /\ UNCHANGED code
    /\ UNCHANGED <<pyOutbox, pyWorkerVars, jsOutbox, jsWorkerVars, cancels>>

\* corePython.init: from here on runs reach the new worker.
CoreGetsPort(l) ==
    /\ restarting[l] = "port"
    /\ restarting' = [restarting EXCEPT ![l] = "no"]
    /\ UNCHANGED <<coreVars, pyVars, jsVars, fetches, cancels, interrupted>>

-----------------------------------------------------------------------------
(* Messages from the workers *)

HandleResult(l, m) ==
    LET t == m.run.transaction
    IN  \E o \in CalculationComplete(t, m.run.code, FALSE) :
          /\ CoreDoes(t, o, {})
          /\ fetches' = fetches \cup NewFetches(o.sent)
          /\ lastTransactionId' =
                LastSentBut(o.sent, IF lastTransactionId[l] = t THEN {l} ELSE {})
          /\ UNCHANGED code

CoreHandlesPython ==
    /\ pyOutbox # <<>>
    /\ pyOutbox' = Tail(pyOutbox)
    /\ LET m == Head(pyOutbox)
       IN  \/ /\ m.type = "result"
              /\ HandleResult("Python", m)
              /\ UNCHANGED <<pyWorkerVars, jsOutbox, jsWorkerVars, restarting, cancels>>
           \/ /\ m.type = "cells"
              /\ CalculationGetCells(m.transaction, Reads[m.run.cell])
              /\ PyAnswered(m.run)
              /\ UNCHANGED <<code, table, lastTransactionId, jsVars, runVars>>

CoreHandlesJavascript ==
    /\ jsOutbox # <<>>
    /\ jsOutbox' = Tail(jsOutbox)
    /\ LET m == Head(jsOutbox)
       IN  \/ /\ m.type = "result"
              /\ HandleResult("Javascript", m)
              /\ UNCHANGED <<jsWorkerVars, pyOutbox, pyWorkerVars, restarting, cancels>>
           \/ /\ m.type = "cells"
              /\ CalculationGetCells(m.transaction, Reads[m.run.cell])
              /\ JsAnswered(m.run)
              /\ UNCHANGED <<code, table, lastTransactionId, pyVars, runVars>>

-----------------------------------------------------------------------------
(* Queries, which run in the core's own worker *)

FetchTokenComes(f) ==
    /\ f.phase = "token"
    /\ fetches' = (fetches \ {f}) \cup {[f EXCEPT !.phase = "fetching"]}
    /\ UNCHANGED <<coreVars, pyVars, jsVars, restarting, cancels, interrupted>>

\* The query was answered, with data or an error; whatever query it was, no
\* transaction is the last one now.
FetchCompletes(f, parses) ==
    /\ f.phase = "fetching"
    /\ LET t == f.run.transaction
       IN  \E o \in ConnectionComplete(t, f.run.code, parses) :
             /\ CoreDoes(t, o, IF o.p.status = "lost" THEN {t} ELSE {})
             /\ fetches' = (fetches \ {f}) \cup NewFetches(o.sent)
             /\ lastTransactionId' = [LastSentBut(o.sent, {}) EXCEPT !["Connection"] = None]
             /\ UNCHANGED code
    /\ UNCHANGED <<pyOutbox, pyWorkerVars, jsOutbox, jsWorkerVars, restarting, cancels>>

\* The request fails, or its token does: that is logged, and nobody is told.
FetchFails(f) ==
    /\ fetches' = fetches \ {f}
    /\ interrupted' = interrupted \cup {f.run.transaction}
    /\ UNCHANGED <<coreVars, pyVars, jsVars, restarting, cancels>>

\* coreConnection.cancelExecution: the requests under way are aborted, and the last
\* transaction is told that it was cancelled.
UserCancelsConnection ==
    /\ cancels < MaxCancels
    /\ cancels' = cancels + 1
    /\ NoPortToCome
    /\ LET aborted == {f \in fetches : f.phase = "fetching"}
           gone == {f.run.transaction : f \in aborted}
           t == lastTransactionId["Connection"]
       IN  IF t = None
           THEN /\ fetches' = fetches \ aborted
                /\ interrupted' = interrupted \cup gone
                /\ UNCHANGED <<coreVars, pyInbox, jsInbox>>
           ELSE \E o \in ConnectionComplete(t, None, TRUE) :
                  /\ CoreDoes(t, o, gone \cup {t})
                  /\ fetches' = (fetches \ aborted) \cup NewFetches(o.sent)
                  /\ lastTransactionId' = [LastSentBut(o.sent, {}) EXCEPT !["Connection"] = None]
                  /\ UNCHANGED code
    /\ UNCHANGED <<pyOutbox, pyWorkerVars, jsOutbox, jsWorkerVars, restarting>>

-----------------------------------------------------------------------------
PythonSteps == PyStep /\ UNCHANGED <<coreVars, jsVars, runVars>>

JavascriptSteps == JsStep /\ UNCHANGED <<coreVars, pyVars, runVars>>

FetchSteps ==
    \E f \in fetches :
        \/ FetchTokenComes(f)
        \/ \E parses \in BOOLEAN : FetchCompletes(f, parses)
        \/ FetchFails(f)

CoreSteps ==
    \/ CoreHandlesPython
    \/ CoreHandlesJavascript
    \/ \E l \in CodeLanguages : CoreCancels(l) \/ CoreGetsPort(l)

UserSteps ==
    \/ \E t \in Transactions :
         \/ \E c \in Cells : UserSetsCode(t, c) \/ UserDeletesCode(t, c)
         \/ UserReruns(t)
    \/ \E l \in CodeLanguages : UserCancelsWorker(l)
    \/ UserCancelsConnection

Next == PythonSteps \/ JavascriptSteps \/ FetchSteps \/ CoreSteps \/ UserSteps

Spec == Init /\ [][Next]_vars

(* The workers and the core handle what is posted to them, code that runs ends, and
   a new worker loads: the event loops are fair. *)
FairSpec == Spec /\ WF_vars(PythonSteps) /\ WF_vars(CoreSteps)

-----------------------------------------------------------------------------
(* Properties *)

Number(q, S) == Cardinality({i \in DOMAIN q : q[i] \in S})

RunsOf(t) == {r \in Run : r.transaction = t}
ResultsOf(t) == {m \in Result : m.run.transaction = t}

\* The runs that were sent to a worker and whose results the core has not seen yet, and
\* how many there are for a transaction.
HeldRuns(inbox, awaiting, executing, outbox) ==
    ToSet(inbox) \cup ToSet(awaiting) \cup {e.run : e \in executing}
        \cup {m.run : m \in ToSet(outbox) \cap Result}
NumberHeld(t, inbox, awaiting, executing, outbox) ==
    Number(inbox, RunsOf(t)) + Number(awaiting, RunsOf(t))
        + Cardinality({e \in executing : e.run.transaction = t}) + Number(outbox, ResultsOf(t))

PyRuns == HeldRuns(pyInbox, pyAwaiting, pyExecuting, pyOutbox)
PyNumber(t) == NumberHeld(t, pyInbox, pyAwaiting, pyExecuting, pyOutbox)
JsRuns == HeldRuns(jsInbox, jsAwaiting, jsExecuting, jsOutbox)
JsNumber(t) == NumberHeld(t, jsInbox, jsAwaiting, jsExecuting, jsOutbox)
Queries == {f.run : f \in fetches}
QueryNumber(t) == Cardinality({f \in fetches : f.run.transaction = t})

(* A transaction that nothing has run over waits for exactly one run, and that run is
   of the cell and the code it waits for; one that does not wait has no run left, and
   is complete: no result was refused when it was taken out to continue.
   However runs overlap, queue and change places in the workers, none is lost or
   done twice: a result can be matched by its transaction alone. *)
OneRunPerWait ==
    \A t \in Transactions \ interrupted :
        LET p == pending[t]
        IN  /\ p.status # "lost"
            /\ PyNumber(t) + JsNumber(t) + QueryNumber(t) = IF p.status = "open" THEN 1 ELSE 0
            /\ \A r \in PyRuns \cup JsRuns \cup Queries :
                 r.transaction = t => /\ p.current # None
                                      /\ r.cell = p.current.cell
                                      /\ r.code = p.current.code

(* What a cell shows as the output of its code was computed by that code, even if the
   cell has been given other code while it ran. *)
ResultIsOfItsCode ==
    \A c \in Cells :
        (table[c] # None /\ LanguageOf[c] \in CodeLanguages /\ table[c].by \notin interrupted)
            => table[c].ran = table[c].code

(* A transaction that reruns all code cells computes none before one it reads, as far
   as what they read has no cycle. *)
ReadsThrough(n) ==
    LET reads[i \in 1 .. n] ==
            IF i = 1 THEN [c \in Cells |-> IF table[c] = None THEN {} ELSE table[c].accessed]
            ELSE [c \in Cells |-> reads[i - 1][c] \cup UNION {reads[1][d] : d \in reads[i - 1][c]}]
    IN  reads[n]

RerunOrder ==
    [][\A t \in Transactions :
        (/\ pending[t].status = "unused" /\ pending'[t].status = "open" /\ code' = code
         /\ \A c \in Cells : c \notin ReadsThrough(Cardinality(Cells))[c]) =>
            LET order == <<pending'[t].current.cell>> \o pending'[t].operations
            IN  \A i, j \in DOMAIN order : i < j => order[j] \notin table[order[i]].accessed]_vars

(* Python comes to the end of what it was given to run, again and again: it takes up
   every run, also those that it has put back. *)
PythonRunsEnd == []<>(pyInbox = <<>> /\ pyAwaiting = <<>> /\ pyExecuting = {} /\ pyOutbox = <<>>)
=============================================================================
