-------------------------- MODULE JavascriptWorker --------------------------
(***************************************************************************)
(* The web worker that runs Javascript (javascript.ts, javascriptAPI.ts).  *)
(*                                                                         *)
(* Each run gets a runner, a worker of its own. Runs wait only while the   *)
(* worker is loading: nothing sets its state to anything but "ready"       *)
(* afterwards, so runs that arrive together run together, and the fields   *)
(* transactionId and withLineNumbers hold what the latest of them left.    *)
(***************************************************************************)
EXTENDS CodeRun

VARIABLES
    jsInbox,            \* runs posted to the worker and not handled yet
    jsOutbox,           \* results and questions posted to the core, not handled yet
    jsState,            \* "loading" until esbuild is there, then "ready" for ever
    jsTransactionId,    \* the transaction in whose name code asks for cells
    jsWithLineNumbers,  \* whether an error of a runner is worth a second try
    jsAwaiting,         \* awaitingExecution
    jsExecuting,        \* the runs under way, each with how far it is
    jsNexts             \* the calls of next that setTimeout has scheduled

jsWorkerVars == <<jsState, jsTransactionId, jsWithLineNumbers, jsAwaiting, jsExecuting, jsNexts>>
jsVars == <<jsInbox, jsOutbox, jsWorkerVars>>

\* A run under way is "checking" its syntax, "starting" (it waits for a token and
\* has no runner yet), "running" in its runner, "asking" for cells, or "answered".
JsExecution == [run : Run, phase : {"checking", "starting", "running", "asking", "answered"}]

JsTypeOK ==
    /\ jsInbox \in Seq(Run)
    /\ jsOutbox \in Seq(Result \cup Question)
    /\ jsState \in {"loading", "ready"}
    /\ jsTransactionId \in Transactions \cup {None}
    /\ jsWithLineNumbers \in BOOLEAN
    /\ jsAwaiting \in Seq(Run)
    /\ jsExecuting \in SUBSET JsExecution
    /\ jsNexts \in Nat

\* A worker that has just been created.
JsWorkerInit ==
    /\ jsState = "loading"
    /\ jsTransactionId = None
    /\ jsWithLineNumbers = TRUE
    /\ jsAwaiting = <<>>
    /\ jsExecuting = {}
    /\ jsNexts = 0

JsInit == JsWorkerInit /\ jsInbox = <<>> /\ jsOutbox = <<>>

JsBecomes(e, phase) ==
    jsExecuting' = (jsExecuting \ {e}) \cup {[e EXCEPT !.phase = phase]}

JsAnswer(run) ==
    jsOutbox' = Append(jsOutbox, [type |-> "result", run |-> run])

-----------------------------------------------------------------------------
\* A bug: a run that arrives before the worker has loaded is dropped.
RunJavascript_DropsEarlyRuns(run, awaiting) ==
    /\ jsExecuting' = IF jsState = "ready"
                      THEN jsExecuting \cup {[run |-> run, phase |-> "checking"]}
                      ELSE jsExecuting
    /\ jsAwaiting' = awaiting

\* run: begins with the check of the syntax if the worker has loaded.
RunJavascript(run, awaiting) ==
    IF jsState = "ready"
    THEN /\ jsExecuting' = jsExecuting \cup {[run |-> run, phase |-> "checking"]}
         /\ jsAwaiting' = awaiting
    ELSE /\ jsAwaiting' = Append(awaiting, run)
         /\ UNCHANGED jsExecuting

\* A run arrives from the core.
JsReceive ==
    /\ jsInbox # <<>>
    /\ jsInbox' = Tail(jsInbox)
    /\ RunJavascript(Head(jsInbox), jsAwaiting)
    /\ UNCHANGED <<jsOutbox, jsState, jsTransactionId, jsWithLineNumbers, jsNexts>>

\* next: takes the first run that waits.
JsNext ==
    /\ jsNexts > 0
    /\ jsNexts' = jsNexts - 1
    /\ IF jsState = "ready" /\ jsAwaiting # <<>>
       THEN RunJavascript(Head(jsAwaiting), Tail(jsAwaiting))
       ELSE UNCHANGED <<jsAwaiting, jsExecuting>>
    /\ UNCHANGED <<jsInbox, jsOutbox, jsState, jsTransactionId, jsWithLineNumbers>>

\* The end of init: the worker is ready and calls next.
JsLoaded ==
    /\ jsState = "loading"
    /\ jsState' = "ready"
    /\ IF jsAwaiting # <<>>
       THEN /\ jsExecuting' = {[run |-> Head(jsAwaiting), phase |-> "checking"]}
            /\ jsAwaiting' = Tail(jsAwaiting)
       ELSE UNCHANGED <<jsAwaiting, jsExecuting>>
    /\ UNCHANGED <<jsInbox, jsOutbox, jsTransactionId, jsWithLineNumbers, jsNexts>>

\* A syntax error ends the run, without a call of next.
JsSyntaxError(e) ==
    /\ e.phase = "checking"
    /\ jsExecuting' = jsExecuting \ {e}
    /\ JsAnswer(e.run)
    /\ UNCHANGED <<jsInbox, jsState, jsTransactionId, jsWithLineNumbers, jsAwaiting, jsNexts>>

\* The part of run after the check: the worker's fields are those of this run now.
JsStarting(e, withLineNumbers) ==
    /\ jsTransactionId' = e.run.transaction
    /\ jsWithLineNumbers' = withLineNumbers
    /\ JsBecomes(e, "starting")

JsChecked(e) ==
    /\ e.phase = "checking"
    /\ JsStarting(e, TRUE)
    /\ UNCHANGED <<jsInbox, jsOutbox, jsState, jsAwaiting, jsNexts>>

\* The token has come, and the runner is created.
JsStarted(e) ==
    /\ e.phase = "starting"
    /\ JsBecomes(e, "running")
    /\ UNCHANGED <<jsInbox, jsOutbox, jsState, jsTransactionId, jsWithLineNumbers, jsAwaiting,
                   jsNexts>>

\* The code of a run asks for cells: getCellsA1 uses the transaction of the worker.
JsAsk(e) ==
    /\ e.phase = "running"
    /\ Reads[e.run.cell] # {}
    /\ JsBecomes(e, "asking")
    /\ jsOutbox' = Append(jsOutbox, [type |-> "cells", run |-> e.run,
                                     transaction |-> jsTransactionId])
    /\ UNCHANGED <<jsInbox, jsState, jsTransactionId, jsWithLineNumbers, jsAwaiting, jsNexts>>

\* The core's answer, which goes to the run that asked (its message has an id).
JsAnswered(run) ==
    /\ jsExecuting' = {IF e.run = run /\ e.phase = "asking"
                       THEN [e EXCEPT !.phase = "answered"] ELSE e : e \in jsExecuting}
    /\ UNCHANGED <<jsInbox, jsState, jsTransactionId, jsWithLineNumbers, jsAwaiting, jsNexts>>

\* The run has ended: in its runner with a value or an error, or before it has one.
JsFinish(e) ==
    /\ e.phase \in {"starting", "running", "answered"}
    /\ jsExecuting' = jsExecuting \ {e}
    /\ JsAnswer(e.run)
    /\ jsNexts' = jsNexts + 1
    /\ UNCHANGED <<jsInbox, jsState, jsTransactionId, jsWithLineNumbers, jsAwaiting>>

\* onerror: the runner itself failed. The code is run again without line numbers,
\* unless the latest run already had none.
JsRunnerFails(e) ==
    /\ e.phase \in {"running", "answered"}
    /\ IF jsWithLineNumbers
       THEN JsStarting(e, FALSE) /\ UNCHANGED <<jsOutbox, jsNexts>>
       ELSE /\ jsExecuting' = jsExecuting \ {e}
            /\ JsAnswer(e.run)
            /\ jsNexts' = jsNexts + 1
            /\ UNCHANGED <<jsTransactionId, jsWithLineNumbers>>
    /\ UNCHANGED <<jsInbox, jsState, jsAwaiting>>

\* The user stops the worker and starts another: what the old one had is gone, but
\* what it has posted to the core is still delivered.
JsRestart ==
    /\ jsState' = "loading"
    /\ jsTransactionId' = None
    /\ jsWithLineNumbers' = TRUE
    /\ jsAwaiting' = <<>>
    /\ jsExecuting' = {}
    /\ jsNexts' = 0
    /\ jsInbox' = <<>>
    /\ UNCHANGED jsOutbox

JsStep ==
    \/ JsReceive
    \/ JsNext
    \/ JsLoaded
    \/ \E e \in jsExecuting :
         \/ JsSyntaxError(e) \/ JsChecked(e) \/ JsStarted(e) \/ JsAsk(e)
         \/ JsFinish(e) \/ JsRunnerFails(e)
=============================================================================
