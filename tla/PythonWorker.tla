---------------------------- MODULE PythonWorker ----------------------------
(***************************************************************************)
(* The web worker that runs Python (python.ts, pythonCore.ts).             *)
(*                                                                         *)
(* It is meant to run one piece of code at a time: a run that arrives      *)
(* while another is under way waits in awaitingExecution. The end of a run *)
(* schedules next, which takes the first waiting run. Between the end and  *)
(* next the worker is free, and a run that arrives then starts at once:    *)
(* next no longer finds the worker free, puts the run it took at the END   *)
(* of the queue, and then clears the transaction of the run under way.     *)
(***************************************************************************)
EXTENDS CodeRun

VARIABLES
    pyInbox,          \* runs posted to the worker and not handled yet
    pyOutbox,         \* results and questions posted to the core, not handled yet
    pyState,          \* "loading" until Pyodide is there, then "ready" for ever
    pyTransactionId,  \* the transaction in whose name code asks for cells
    pyAwaiting,       \* awaitingExecution
    pyExecuting,      \* the runs under way, each with how far it is
    pyNexts           \* the calls of next that setTimeout has scheduled

pyWorkerVars == <<pyState, pyTransactionId, pyAwaiting, pyExecuting, pyNexts>>
pyVars == <<pyInbox, pyOutbox, pyWorkerVars>>

\* A run under way is "started" (its packages are loaded, then its code runs),
\* "asking" for cells, or has been "answered", with the cells or with an error.
PyExecution == [run : Run, phase : {"started", "asking", "answered"}]

PyTypeOK ==
    /\ pyInbox \in Seq(Run)
    /\ pyOutbox \in Seq(Result \cup Question)
    /\ pyState \in {"loading", "ready"}
    /\ pyTransactionId \in Transactions \cup {None}
    /\ pyAwaiting \in Seq(Run)
    /\ pyExecuting \in SUBSET PyExecution
    /\ pyNexts \in Nat

\* A worker that has just been created.
PyWorkerInit ==
    /\ pyState = "loading"
    /\ pyTransactionId = None
    /\ pyAwaiting = <<>>
    /\ pyExecuting = {}
    /\ pyNexts = 0

PyInit == PyWorkerInit /\ pyInbox = <<>> /\ pyOutbox = <<>>

\* A question is synchronous: Atomics.wait stops the thread of the worker, and all
\* that is under way in it, until the core has answered.
PyBlocked == \E e \in pyExecuting : e.phase = "asking"

-----------------------------------------------------------------------------
\* A bug: a run that finds the worker busy is dropped.
RunPython_DropsRuns(run, awaiting) ==
    /\ pyAwaiting' = awaiting
    /\ IF pyState = "ready" /\ pyTransactionId = None
       THEN /\ pyTransactionId' = run.transaction
            /\ pyExecuting' = pyExecuting \cup {[run |-> run, phase |-> "started"]}
       ELSE UNCHANGED <<pyTransactionId, pyExecuting>>

\* runPython: starts the run if the worker is free, and keeps it for later if not.
RunPython(run, awaiting) ==
    IF pyState = "ready" /\ pyTransactionId = None
    THEN /\ pyTransactionId' = run.transaction
         /\ pyExecuting' = pyExecuting \cup {[run |-> run, phase |-> "started"]}
         /\ pyAwaiting' = awaiting
    ELSE /\ pyAwaiting' = Append(awaiting, run)
         /\ UNCHANGED <<pyTransactionId, pyExecuting>>

\* A run arrives from the core.
PyReceive ==
    /\ ~PyBlocked
    /\ pyInbox # <<>>
    /\ pyInbox' = Tail(pyInbox)
    /\ RunPython(Head(pyInbox), pyAwaiting)
    /\ UNCHANGED <<pyOutbox, pyState, pyNexts>>

\* next: takes the first run that waits. When runPython starts it, next comes back
\* after the run has ended; when runPython puts it back, next goes on at once, and
\* clears the transaction.
PyNext ==
    /\ ~PyBlocked
    /\ pyNexts > 0
    /\ pyNexts' = pyNexts - 1
    /\ \/ /\ pyState # "ready" \/ pyAwaiting = <<>>
          /\ UNCHANGED <<pyTransactionId, pyAwaiting, pyExecuting>>
       \/ /\ pyState = "ready" /\ pyAwaiting # <<>>
          /\ pyTransactionId = None
          /\ RunPython(Head(pyAwaiting), Tail(pyAwaiting))
       \/ /\ pyState = "ready" /\ pyAwaiting # <<>>
          /\ pyTransactionId # None
          /\ pyAwaiting' = Append(Tail(pyAwaiting), Head(pyAwaiting))
          /\ pyTransactionId' = None
          /\ UNCHANGED pyExecuting
    /\ UNCHANGED <<pyInbox, pyOutbox, pyState>>

\* A bug: the worker that has loaded does not call next.
PyLoaded_TakesNothing ==
    /\ pyState = "loading"
    /\ pyState' = "ready"
    /\ pyTransactionId' = None
    /\ UNCHANGED <<pyExecuting, pyAwaiting, pyInbox, pyOutbox, pyNexts>>

\* The end of init: the worker is ready and calls next. (A load that fails is tried
\* again, and nothing runs until one succeeds.)
PyLoaded ==
    /\ pyState = "loading"
    /\ pyState' = "ready"
    /\ IF pyAwaiting # <<>>
       THEN /\ pyTransactionId' = Head(pyAwaiting).transaction
            /\ pyExecuting' = {[run |-> Head(pyAwaiting), phase |-> "started"]}
            /\ pyAwaiting' = Tail(pyAwaiting)
       ELSE /\ pyTransactionId' = None
            /\ UNCHANGED <<pyExecuting, pyAwaiting>>
    /\ UNCHANGED <<pyInbox, pyOutbox, pyNexts>>

Becomes(e, phase) ==
    pyExecuting' = (pyExecuting \ {e}) \cup {[e EXCEPT !.phase = phase]}

\* The code of a run asks for cells: getCellsA1 uses the transaction of the worker,
\* and raises an error in the code when there is none.
PyAsk(e) ==
    /\ ~PyBlocked
    /\ e.phase = "started"
    /\ Reads[e.run.cell] # {}
    /\ IF pyTransactionId # None
       THEN /\ Becomes(e, "asking")
            /\ pyOutbox' = Append(pyOutbox, [type |-> "cells", run |-> e.run,
                                             transaction |-> pyTransactionId])
       ELSE /\ Becomes(e, "answered")
            /\ UNCHANGED pyOutbox
    /\ UNCHANGED <<pyInbox, pyState, pyTransactionId, pyAwaiting, pyNexts>>

\* The core's answer to the question of a run, or its refusal.
PyAnswered(run) ==
    /\ pyExecuting' = {IF e.run = run /\ e.phase = "asking"
                       THEN [e EXCEPT !.phase = "answered"] ELSE e : e \in pyExecuting}
    /\ UNCHANGED <<pyInbox, pyState, pyTransactionId, pyAwaiting, pyNexts>>

\* A bug: the end of a run calls next only when the run was the worker's own one.
PyFinish_OwnRunOnly(e) ==
    /\ ~PyBlocked
    /\ pyOutbox' = Append(pyOutbox, [type |-> "result", run |-> e.run])
    /\ pyExecuting' = pyExecuting \ {e}
    /\ pyTransactionId' = None
    /\ pyNexts' = IF pyTransactionId = e.run.transaction THEN pyNexts + 1 ELSE pyNexts
    /\ UNCHANGED <<pyInbox, pyState, pyAwaiting>>

\* The code of a run has ended, in a value or in an error (which may come before
\* it has asked for anything).
PyFinish(e) ==
    /\ ~PyBlocked
    /\ pyOutbox' = Append(pyOutbox, [type |-> "result", run |-> e.run])
    /\ pyExecuting' = pyExecuting \ {e}
    /\ pyTransactionId' = None
    /\ pyNexts' = pyNexts + 1
    /\ UNCHANGED <<pyInbox, pyState, pyAwaiting>>

\* The user stops the worker and starts another: what the old one had is gone, but
\* what it has posted to the core is still delivered.
PyRestart ==
    /\ pyState' = "loading"
    /\ pyTransactionId' = None
    /\ pyAwaiting' = <<>>
    /\ pyExecuting' = {}
    /\ pyNexts' = 0
    /\ pyInbox' = <<>>
    /\ UNCHANGED pyOutbox

PyStep ==
    \/ PyReceive
    \/ PyNext
    \/ PyLoaded
    \/ \E e \in pyExecuting : PyAsk(e) \/ PyFinish(e)

-----------------------------------------------------------------------------
(* A run that waits in the worker will be taken up: the worker is still loading, or
   something is under way whose end calls next, or next is already scheduled. *)
NoRunIsStranded ==
    pyAwaiting # <<>> => pyState = "loading" \/ pyExecuting # {} \/ pyNexts > 0
=============================================================================
