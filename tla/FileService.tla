---------------------------- MODULE FileService ----------------------------
(***************************************************************************)
(* How one file is saved.  The multiplayer server puts every transaction   *)
(* of the file in a Redis stream, under its sequence number, and the file  *)
(* in a set of active channels.  The file service (quadratic-files) looks  *)
(* at that set every few seconds and spawns a task for each file in it.  A *)
(* task reads the number of the last checkpoint from the API, loads the    *)
(* file of that number from object storage, applies to it what the stream  *)
(* holds beyond that number, writes the result back under the number of    *)
(* the last transaction, takes the file out of the active set and tells    *)
(* the API about the new checkpoint.  Days later a second loop trims the   *)
(* stream up to a number that was processed.                               *)
(*                                                                         *)
(* Tasks of one file overlap: one that is slow meets those of later ticks. *)
(* The single connection to Redis is behind a mutex; a task holds it from  *)
(* the moment it reads the stream until it has left the active set, not    *)
(* while it talks to the API.                                              *)
(***************************************************************************)
EXTENDS Integers, FiniteSets

CONSTANTS
  Tasks,        \* the tasks that can be in flight for the file at one time
  MaxNumber,    \* bounds the sequence numbers
  Faults,       \* what can go wrong: a subset of FaultKinds
  MaxFaults     \* bounds how often it does

FaultKinds == {
  "read",       \* the API does not answer the request for the checkpoint
  "task",       \* another await of a task returns an error
  "crash",      \* the file service is restarted
  "publish"     \* the multiplayer server stops between its two writes
}

ASSUME FileServiceAssumption ==
  /\ MaxNumber \in Nat \ {0}
  /\ MaxFaults \in Nat
  /\ Faults \subseteq FaultKinds

VARIABLES
  stream,       \* the numbers of the transactions in the file's stream
  newest,       \* the largest number the stream ever held
  publishing,   \* the transaction is added, the channel not yet active
  active,       \* the file is in the set of active channels
  store,        \* the objects in storage: number |-> file
  checkpoint,   \* the largest checkpoint in the API's database
  processed,    \* the channel of processed transactions
  clock,        \* the key of its newest entry
  pc,           \* where a task is
  startedAt,    \* clock when it was spawned
  base,         \* the checkpoint it starts from
  batch,        \* the numbers it has read from the stream
  last,         \* the largest of them
  faults,       \* how often something went wrong
  sent          \* ghost: all numbers the stream ever held

redisVars == <<stream, newest, publishing, active, sent>>
savedVars == <<store, checkpoint, processed, clock>>
taskVars == <<pc, startedAt, base, batch, last>>
vars == <<redisVars, savedVars, taskVars, faults>>

(* The saved copies are those of the abstract specification: how often     *)
(* each transaction was applied.  The stream returns its entries in the    *)
(* order of their numbers, so the order in which a task applies its batch  *)
(* is the order of the numbers.                                            *)
Promise == INSTANCE SavedFile WITH
  written <- sent, savedUpTo <- checkpoint, saved <- store[checkpoint]

Numbers == Promise!Numbers
Files == [Numbers -> Nat]

ApplyTransactions(file, numbers) ==
  [n \in Numbers |-> file[n] + (IF n \in numbers THEN 1 ELSE 0)]

Put(objects, key, file) ==
  [k \in DOMAIN objects \cup {key} |-> IF k = key THEN file ELSE objects[k]]

Places == {"idle", "spawned", "waiting", "holding", "written", "acked", "saved"}

TypeOK ==
  /\ stream \subseteq Numbers
  /\ sent \subseteq Numbers
  /\ newest \in 0..MaxNumber
  /\ publishing \in BOOLEAN
  /\ active \in BOOLEAN
  /\ DOMAIN store \subseteq 0..MaxNumber
  /\ \A n \in DOMAIN store : store[n] \in Files
  /\ checkpoint \in 0..MaxNumber
  /\ processed \subseteq [key : Nat, number : Numbers]
  /\ clock \in Nat
  /\ pc \in [Tasks -> Places]
  /\ base \in [Tasks -> 0..MaxNumber]
  /\ startedAt \in [Tasks -> Nat]
  /\ batch \in [Tasks -> SUBSET Numbers]
  /\ last \in [Tasks -> 0..MaxNumber]
  /\ faults \in 0..MaxFaults

(* The file is created with its first object and its first checkpoint.     *)
Init ==
  /\ stream = {}
  /\ sent = {}
  /\ newest = 0
  /\ publishing = FALSE
  /\ active = FALSE
  /\ store = [n \in {0} |-> Promise!Created]
  /\ checkpoint = 0
  /\ processed = {}
  /\ clock = 0
  /\ pc = [t \in Tasks |-> "idle"]
  /\ base = [t \in Tasks |-> 0]
  /\ startedAt = [t \in Tasks |-> 0]
  /\ batch = [t \in Tasks |-> {}]
  /\ last = [t \in Tasks |-> 0]
  /\ faults = 0

(* The mutex around the file service's connection to Redis.                *)
Unlocked == \A t \in Tasks : pc[t] \notin {"holding", "written"}

Goto(t, place) == pc' = [pc EXCEPT ![t] = place]

Fault(kind) ==
  /\ kind \in Faults
  /\ faults < MaxFaults
  /\ faults' = faults + 1

-----------------------------------------------------------------------------
(* The multiplayer server.  It holds a mutex of its own from the first     *)
(* write of a publication to the second; the file service does not.        *)

(* The stream takes a number only if it is larger than all it ever took: a *)
(* transaction whose write failed leaves a gap.                            *)
AddToStream ==
  /\ ~publishing
  /\ \E n \in (newest + 1)..MaxNumber :
       /\ newest' = n
       /\ stream' = stream \cup {n}
       /\ sent' = sent \cup {n}
  /\ publishing' = TRUE
  /\ UNCHANGED <<active, savedVars, taskVars, faults>>

UpsertActiveChannel ==
  /\ publishing
  /\ publishing' = FALSE
  /\ active' = TRUE
  /\ UNCHANGED <<stream, newest, sent, savedVars, taskVars, faults>>

PublishFails ==
  /\ publishing
  /\ Fault("publish")
  /\ publishing' = FALSE
  /\ UNCHANGED <<stream, newest, active, sent, savedVars, taskVars>>

-----------------------------------------------------------------------------
(* The tasks of the file service.                                          *)

(* A tick lists the active channels, under the mutex, and spawns.          *)
Tick(t) ==
  /\ Unlocked
  /\ active
  /\ pc[t] = "idle"
  /\ Goto(t, "spawned")
  /\ startedAt' = [startedAt EXCEPT ![t] = clock]
  /\ UNCHANGED <<redisVars, savedVars, base, batch, last, faults>>

GetFileCheckpoint(t) ==
  /\ pc[t] = "spawned"
  /\ Goto(t, "waiting")
  /\ base' = [base EXCEPT ![t] = checkpoint]
  /\ UNCHANGED <<redisVars, savedVars, startedAt, batch, last, faults>>

(* Without an answer of the API the task starts from the created file.     *)
GetFileCheckpointFails(t) ==
  /\ pc[t] = "spawned"
  /\ Fault("read")
  /\ Goto(t, "waiting")
  /\ base' = [base EXCEPT ![t] = 0]
  /\ UNCHANGED <<redisVars, savedVars, startedAt, batch, last>>

(* A bug: the range begins with the checkpoint itself.                     *)
Beyond_Inclusive(number) == {n \in stream : n >= number}

(* A bug: the range begins one transaction late.                           *)
Beyond_TooLate(number) == {n \in stream : n >= number + 2}

Beyond(number) == {n \in stream : n >= number + 1}

(* The mutex is free and the stream holds something beyond the checkpoint: *)
(* the task keeps the mutex.                                               *)
GetMessages(t) ==
  /\ Unlocked
  /\ pc[t] = "waiting"
  /\ \E n \in Beyond(base[t]) :
       /\ \A m \in Beyond(base[t]) : m <= n
       /\ last' = [last EXCEPT ![t] = n]
  /\ batch' = [batch EXCEPT ![t] = Beyond(base[t])]
  /\ Goto(t, "holding")
  /\ UNCHANGED <<redisVars, savedVars, startedAt, base, faults>>

(* With nothing to do the task returns, and the channel stays active.      *)
NothingToDo(t) ==
  /\ Unlocked
  /\ pc[t] = "waiting"
  /\ Beyond(base[t]) = {}
  /\ Goto(t, "idle")
  /\ UNCHANGED <<redisVars, savedVars, startedAt, base, batch, last, faults>>

(* A bug: the file is loaded from the checkpoint there is by now.          *)
ProcessTransactions_Latest(t) ==
  /\ pc[t] = "holding"
  /\ store' = Put(store, last[t], ApplyTransactions(store[checkpoint], batch[t]))
  /\ Goto(t, "written")
  /\ UNCHANGED <<redisVars, checkpoint, processed, clock, startedAt, base, batch, last, faults>>

ProcessTransactions(t) ==
  /\ pc[t] = "holding"
  /\ base[t] \in DOMAIN store
  /\ store' = Put(store, last[t], ApplyTransactions(store[base[t]], batch[t]))
  /\ Goto(t, "written")
  /\ UNCHANGED <<redisVars, checkpoint, processed, clock, startedAt, base, batch, last, faults>>

(* Acknowledges, takes the file out of the active set, drops the mutex.    *)
Ack(t) ==
  /\ pc[t] = "written"
  /\ active' = FALSE
  /\ Goto(t, "acked")
  /\ UNCHANGED <<stream, newest, publishing, sent, savedVars, startedAt, base, batch, last, faults>>

(* A bug: the API takes whatever number it is told.                        *)
SetFileCheckpoint_Unchecked(t) ==
  /\ pc[t] = "acked"
  /\ checkpoint' = last[t]
  /\ Goto(t, "saved")
  /\ UNCHANGED <<redisVars, store, processed, clock, startedAt, base, batch, last, faults>>

(* A bug: the checkpoint is the number of the next transaction.            *)
SetFileCheckpoint_Next(t) ==
  /\ pc[t] = "acked"
  /\ checkpoint' = last[t] + 1
  /\ Goto(t, "saved")
  /\ UNCHANGED <<redisVars, store, processed, clock, startedAt, base, batch, last, faults>>

(* The API refuses a number smaller than its latest; the task ends then.   *)
SetFileCheckpoint(t) ==
  /\ pc[t] = "acked"
  /\ \/ /\ checkpoint <= last[t]
        /\ checkpoint' = last[t]
        /\ Goto(t, "saved")
     \/ /\ checkpoint > last[t]
        /\ Goto(t, "idle")
        /\ UNCHANGED checkpoint
  /\ UNCHANGED <<redisVars, store, processed, clock, startedAt, base, batch, last, faults>>

AddProcessedTransaction(t) ==
  /\ Unlocked
  /\ pc[t] = "saved"
  /\ clock' = clock + 1
  /\ processed' = processed \cup {[key |-> clock', number |-> last[t]]}
  /\ Goto(t, "idle")
  /\ UNCHANGED <<redisVars, store, checkpoint, startedAt, base, batch, last, faults>>

(* Any other await fails: the task ends and lets go of the mutex.          *)
TaskFails(t) ==
  /\ pc[t] # "idle"
  /\ Fault("task")
  /\ Goto(t, "idle")
  /\ UNCHANGED <<redisVars, savedVars, startedAt, base, batch, last>>

Crash ==
  /\ Fault("crash")
  /\ pc' = [t \in Tasks |-> "idle"]
  /\ UNCHANGED <<redisVars, savedVars, startedAt, base, batch, last>>

-----------------------------------------------------------------------------
(* The truncation.                                                         *)

(* A bug: the age of an entry is not looked at.                            *)
Due_AtOnce(entry) == TRUE

(* An entry of the processed channel is due when it is several days old:   *)
(* the tasks that have still to read the stream were spawned after it was  *)
(* added.                                                                  *)
Due(entry) == \A t \in Tasks :
  pc[t] \in {"spawned", "waiting"} => entry.key <= startedAt[t]

(* Trims the stream up to the number of a due entry, and the processed     *)
(* channel up to the entry, which stays.                                   *)
Truncate(entry) ==
  /\ Unlocked
  /\ Due(entry)
  /\ stream' = {n \in stream : n >= entry.number + 1}
  /\ processed' = {e \in processed : e.key >= entry.key}
  /\ UNCHANGED <<newest, publishing, active, sent, store, checkpoint, clock, taskVars, faults>>

-----------------------------------------------------------------------------
TaskNext(t) ==
  \/ Tick(t)
  \/ GetFileCheckpoint(t)
  \/ GetFileCheckpointFails(t)
  \/ GetMessages(t)
  \/ NothingToDo(t)
  \/ ProcessTransactions(t)
  \/ Ack(t)
  \/ SetFileCheckpoint(t)
  \/ AddProcessedTransaction(t)
  \/ TaskFails(t)

Next ==
  \/ AddToStream
  \/ UpsertActiveChannel
  \/ PublishFails
  \/ \E t \in Tasks : TaskNext(t)
  \/ Crash
  \/ \E entry \in processed : Truncate(entry)

Spec == Init /\ [][Next]_vars

(* The interval keeps ticking, a task that can go on does, and the mutex   *)
(* is handed out first come, first served: whoever waits for it again and  *)
(* again gets it.  A publication that was begun is finished.               *)
FairSpec ==
  /\ Spec
  /\ WF_vars(UpsertActiveChannel)
  /\ SF_vars(\E t \in Tasks : Tick(t))
  /\ \A t \in Tasks :
       /\ WF_vars(GetFileCheckpoint(t))
       /\ SF_vars(GetMessages(t) \/ NothingToDo(t))
       /\ WF_vars(ProcessTransactions(t))
       /\ WF_vars(Ack(t))
       /\ WF_vars(SetFileCheckpoint(t))
       /\ SF_vars(AddProcessedTransaction(t))

-----------------------------------------------------------------------------
(* Every object in storage is the file as it was at its number: all the    *)
(* transactions up to it, each of them once.  Objects are kept, so this    *)
(* also holds of the versions a user goes back to.                         *)
FilesArePrefixes == \A n \in DOMAIN store : store[n] = Promise!Prefix(sent, n)

(* While nothing was trimmed, a checkpoint the API did not tell is no loss: *)
(* the stream has all that is to be applied to the created file.           *)
UntrimmedFilesArePrefixes == (stream = sent) => FilesArePrefixes

(* Whoever opens the file loads its checkpoint, and gets what is beyond it *)
(* from the stream: together these are all the transactions, each once.    *)
LoadedFileIsComplete ==
  /\ checkpoint \in DOMAIN store
  /\ ApplyTransactions(store[checkpoint], Beyond(checkpoint)) = Promise!Prefix(sent, newest)

(* The saved copy never goes back, neither by number nor by content: it    *)
(* is always a newer prefix of everything the users did.                   *)
ImplementsSavedFile == Promise!SavedSpec

(* When the channel is active and nobody holds the mutex, everything in    *)
(* the stream will be in a checkpoint.                                     *)
ActiveIsSaved ==
  \A n \in Numbers : (n \in stream /\ active /\ Unlocked) ~> (checkpoint >= n)
=============================================================================
