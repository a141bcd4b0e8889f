------------------------ MODULE FileService_proofs -------------------------
(***************************************************************************)
(* However many tasks overlap and whatever else goes wrong, as long as the *)
(* API tells the checkpoint it is asked for, saving implements SavedFile.  *)
(* Where it does not, the objects are right as long as nothing is trimmed. *)
(***************************************************************************)
EXTENDS FileService, TLAPS

Prefix(n) == Promise!Prefix(sent, n)

(* Redis and the ghost.                                                    *)
StreamInv ==
  /\ stream \subseteq sent
  /\ \A n \in sent : n <= newest

(* What was trimmed is in the checkpoint.                                  *)
TrimInv ==
  /\ \A n \in sent : n \notin stream => n <= checkpoint
  /\ \A e \in processed : e.number <= checkpoint /\ e.key <= clock

(* The objects, and the one of the checkpoint among them.                  *)
StoreInv ==
  /\ \A n \in DOMAIN store : n <= newest /\ store[n] = Prefix(n)
  /\ checkpoint \in DOMAIN store

(* A task that has still to read the stream finds there all that is beyond *)
(* its base: what was trimmed since is due to an entry that is not due.    *)
WaitingInv(t) ==
  /\ pc[t] \in {"spawned", "waiting"} => startedAt[t] <= clock
  /\ pc[t] = "waiting" =>
       /\ base[t] \in DOMAIN store
       /\ \A n \in sent : n \notin stream => n <= base[t]
       /\ \A e \in processed : e.key <= startedAt[t] => e.number <= base[t]

(* A task with a batch has all the transactions between two numbers.       *)
HoldingInv(t) ==
  pc[t] = "holding" =>
    /\ base[t] \in DOMAIN store
    /\ base[t] < last[t]
    /\ last[t] \in sent
    /\ batch[t] = {n \in sent : base[t] < n /\ n <= last[t]}

WrittenInv(t) ==
  /\ pc[t] \in {"written", "acked", "saved"} => last[t] \in DOMAIN store /\ last[t] \in sent
  /\ pc[t] = "saved" => last[t] <= checkpoint

IndInv ==
  /\ TypeOK
  /\ StreamInv
  /\ TrimInv
  /\ StoreInv
  /\ \A t \in Tasks : WaitingInv(t) /\ HoldingInv(t) /\ WrittenInv(t)

-----------------------------------------------------------------------------
USE DEF Numbers, Promise!Numbers

(* Applying the transactions between two numbers to the prefix up to the   *)
(* smaller one gives the prefix up to the larger one.                      *)
LEMMA PrefixGrows ==
  ASSUME NEW numbers \in SUBSET Numbers, NEW m \in Nat, NEW n \in Nat, m <= n,
         NEW between, between = {k \in numbers : m < k /\ k <= n}
  PROVE  ApplyTransactions(Promise!Prefix(numbers, m), between) = Promise!Prefix(numbers, n)
BY DEF ApplyTransactions, Promise!Prefix

(* A transaction behind them all is in none of the prefixes.               *)
LEMMA PrefixStays ==
  ASSUME NEW numbers \in SUBSET Numbers, NEW m \in Nat, NEW n \in Numbers, m < n
  PROVE  Promise!Prefix(numbers \cup {n}, m) = Promise!Prefix(numbers, m)
BY DEF Promise!Prefix

LEMMA PrefixIsFile ==
  ASSUME NEW numbers, NEW m PROVE Promise!Prefix(numbers, m) \in Files
BY DEF Promise!Prefix, Files

-----------------------------------------------------------------------------
THEOREM InitIndInv == Init => IndInv
<1> SUFFICES ASSUME Init PROVE IndInv
  OBVIOUS
<1>1. Promise!Created \in Files
  BY DEF Promise!Created, Files
<1>2. TypeOK
  <2>1. DOMAIN store = {0} /\ store[0] = Promise!Created
    BY DEF Init
  <2>2. pc \in [Tasks -> Places]
    BY DEF Init, Places
  <2>3. batch \in [Tasks -> SUBSET Numbers]
    BY DEF Init
  <2>4. MaxNumber \in Nat /\ MaxFaults \in Nat
    BY FileServiceAssumption
  <2>5. base \in [Tasks -> 0..MaxNumber] /\ last \in [Tasks -> 0..MaxNumber]
    BY <2>4 DEF Init
  <2>6. startedAt \in [Tasks -> Nat]
    BY DEF Init
  <2>7. publishing \in BOOLEAN /\ active \in BOOLEAN
    BY DEF Init
  <2>8. DOMAIN store \subseteq 0..MaxNumber /\ \A n \in DOMAIN store : store[n] \in Files
    BY <1>1, <2>1, <2>4
  <2> QED
    BY <2>2, <2>3, <2>4, <2>5, <2>6, <2>7, <2>8 DEF Init, TypeOK
<1>3. Promise!Created = Promise!Prefix({}, 0)
  BY DEF Promise!Created, Promise!Prefix
<1>4. StoreInv
  BY <1>3 DEF Init, StoreInv, Prefix
<1>5. StreamInv /\ TrimInv
  BY DEF Init, StreamInv, TrimInv
<1>6. \A t \in Tasks : WaitingInv(t) /\ HoldingInv(t) /\ WrittenInv(t)
  BY DEF Init, WaitingInv, HoldingInv, WrittenInv
<1> QED
  BY <1>2, <1>4, <1>5, <1>6 DEF IndInv

-----------------------------------------------------------------------------
(* The steps, one lemma each for the steps that touch what the tasks share *)

LEMMA AddToStreamStep ==
  ASSUME IndInv, AddToStream
  PROVE  IndInv'
<1> USE DEF IndInv
<1>1. PICK n \in (newest + 1)..MaxNumber :
        newest' = n /\ stream' = stream \cup {n} /\ sent' = sent \cup {n}
  BY DEF AddToStream
<1>2. n \in Numbers /\ n \in Nat /\ newest \in Nat /\ newest < n
  BY FileServiceAssumption DEF TypeOK
<1>3. UNCHANGED <<active, store, checkpoint, processed, clock, taskVars, faults>>
  BY DEF AddToStream, savedVars
<1>4. TypeOK'
  BY <1>1, <1>2, <1>3 DEF TypeOK, AddToStream, taskVars
<1>5. StreamInv'
  BY <1>1, <1>2 DEF StreamInv, TypeOK
<1>6. TrimInv'
  BY <1>1, <1>3 DEF TrimInv
<1>7. StoreInv'
  <2>1. \A k \in DOMAIN store : k \in Nat /\ k <= newest /\ k < n
    BY <1>2 DEF StoreInv, TypeOK
  <2>2. \A k \in DOMAIN store : Promise!Prefix(sent', k) = Promise!Prefix(sent, k)
    BY <1>1, <1>2, <2>1, PrefixStays DEF TypeOK
  <2> QED
    BY <1>1, <1>2, <1>3, <2>1, <2>2 DEF StoreInv, Prefix
<1>8. ASSUME NEW t \in Tasks PROVE WaitingInv(t)' /\ HoldingInv(t)' /\ WrittenInv(t)'
  <2>1. \A k \in sent : k \in Nat /\ k < n
    BY <1>2 DEF StreamInv, TypeOK
  <2>2. WaitingInv(t)'
    BY <1>1, <1>3 DEF WaitingInv, taskVars
  <2>3. HoldingInv(t)'
    BY <1>1, <1>2, <1>3, <2>1 DEF HoldingInv, taskVars
  <2>4. WrittenInv(t)'
    BY <1>1, <1>3 DEF WrittenInv, taskVars
  <2> QED
    BY <2>2, <2>3, <2>4
<1> QED
  BY <1>4, <1>5, <1>6, <1>7, <1>8

LEMMA FaultStep ==
  ASSUME TypeOK, NEW kind, Fault(kind)
  PROVE  faults' \in 0..MaxFaults
BY FileServiceAssumption DEF TypeOK, Fault

LEMMA PublishStep ==
  ASSUME IndInv, UpsertActiveChannel \/ PublishFails
  PROVE  IndInv'
<1>1. UNCHANGED <<stream, newest, sent, savedVars, taskVars>>
  BY DEF UpsertActiveChannel, PublishFails
<1>2. TypeOK'
  <2>1. faults' \in 0..MaxFaults
    BY FaultStep DEF IndInv, TypeOK, UpsertActiveChannel, PublishFails
  <2>2. publishing' \in BOOLEAN /\ active' \in BOOLEAN
    BY DEF IndInv, TypeOK, UpsertActiveChannel, PublishFails
  <2> QED
    BY <1>1, <2>1, <2>2 DEF IndInv, TypeOK, savedVars, taskVars
<1> QED
  BY <1>1, <1>2 DEF IndInv, StreamInv, TrimInv, StoreInv, Prefix, WaitingInv, HoldingInv,
                    WrittenInv, savedVars, taskVars

(* A task that moves without a write to what is shared.                    *)
LEMMA PrivateStep ==
  ASSUME IndInv, UNCHANGED <<stream, newest, sent, savedVars>>, TypeOK',
         NEW t \in Tasks,
         \A u \in Tasks \ {t} : /\ pc'[u] = pc[u]
                                /\ startedAt'[u] = startedAt[u]
                                /\ base'[u] = base[u]
                                /\ batch'[u] = batch[u]
                                /\ last'[u] = last[u],
         WaitingInv(t)', HoldingInv(t)', WrittenInv(t)'
  PROVE  IndInv'
<1>1. StreamInv' /\ TrimInv' /\ StoreInv'
  BY DEF IndInv, StreamInv, TrimInv, StoreInv, Prefix, savedVars
<1>2. ASSUME NEW u \in Tasks \ {t} PROVE WaitingInv(u)' /\ HoldingInv(u)' /\ WrittenInv(u)'
  BY <1>2 DEF IndInv, WaitingInv, HoldingInv, WrittenInv, savedVars
<1> QED
  BY <1>1, <1>2 DEF IndInv

LEMMA TickStep ==
  ASSUME IndInv, NEW t \in Tasks, Tick(t)
  PROVE  IndInv'
<1>1. TypeOK'
  BY DEF IndInv, TypeOK, Tick, Goto, Places, redisVars, savedVars
<1>2. pc'[t] = "spawned" /\ startedAt'[t] = clock
  BY DEF IndInv, TypeOK, Tick, Goto
<1>3. WaitingInv(t)' /\ HoldingInv(t)' /\ WrittenInv(t)'
  BY <1>2 DEF IndInv, TypeOK, WaitingInv, HoldingInv, WrittenInv, Tick, savedVars
<1> QED
  BY <1>1, <1>3, PrivateStep DEF Tick, Goto, redisVars, IndInv, TypeOK

LEMMA GetFileCheckpointStep ==
  ASSUME IndInv, NEW t \in Tasks, GetFileCheckpoint(t)
  PROVE  IndInv'
<1>1. TypeOK'
  BY DEF IndInv, TypeOK, GetFileCheckpoint, Goto, Places, redisVars, savedVars
<1>2. pc'[t] = "waiting" /\ base'[t] = checkpoint /\ startedAt'[t] = startedAt[t]
  BY DEF IndInv, TypeOK, GetFileCheckpoint, Goto
<1>3. WaitingInv(t)' /\ HoldingInv(t)' /\ WrittenInv(t)'
  BY <1>2 DEF IndInv, WaitingInv, TrimInv, StoreInv, HoldingInv, WrittenInv, GetFileCheckpoint,
              redisVars, savedVars
<1> QED
  BY <1>1, <1>3, PrivateStep DEF GetFileCheckpoint, Goto, redisVars, IndInv, TypeOK

LEMMA GetMessagesStep ==
  ASSUME IndInv, NEW t \in Tasks, GetMessages(t)
  PROVE  IndInv'
<1>1. PICK n \in Beyond(base[t]) :
        (\A m \in Beyond(base[t]) : m <= n) /\ last' = [last EXCEPT ![t] = n]
  BY DEF GetMessages
<1>2. n \in stream /\ n \in Numbers /\ n \in Nat /\ base[t] \in Nat /\ base[t] < n
  BY FileServiceAssumption DEF Beyond, IndInv, TypeOK
<1>3. TypeOK'
  <2>1. Beyond(base[t]) \in SUBSET Numbers
    BY DEF Beyond, IndInv, TypeOK
  <2>2. batch' \in [Tasks -> SUBSET Numbers] /\ last' \in [Tasks -> 0..MaxNumber]
    BY <1>1, <1>2, <2>1, FileServiceAssumption DEF IndInv, TypeOK, GetMessages
  <2>3. pc' \in [Tasks -> Places]
    BY DEF IndInv, TypeOK, GetMessages, Goto, Places
  <2> QED
    BY <2>2, <2>3 DEF IndInv, TypeOK, GetMessages, redisVars, savedVars
<1>4. /\ pc'[t] = "holding" /\ last'[t] = n /\ base'[t] = base[t]
      /\ batch'[t] = Beyond(base[t])
  BY <1>1 DEF IndInv, TypeOK, GetMessages, Goto
<1>5. Beyond(base[t]) = {k \in sent : base[t] < k /\ k <= n}
  <2>1. \A k \in sent : k \in Nat /\ (base[t] < k => k \in stream)
    BY <1>2 DEF IndInv, TypeOK, WaitingInv, GetMessages
  <2>2. stream \subseteq sent
    BY DEF IndInv, StreamInv
  <2>3. \A k \in stream : k >= base[t] + 1 <=> base[t] < k
    BY <1>2, <2>1, <2>2
  <2>4. \A k \in sent : k \in Beyond(base[t]) <=> base[t] < k
    BY <2>1, <2>3 DEF Beyond
  <2>5. Beyond(base[t]) \subseteq sent
    BY <2>2 DEF Beyond
  <2> QED
    BY <1>1, <2>4, <2>5
<1>6. base[t] \in DOMAIN store /\ n \in sent
  BY <1>2 DEF IndInv, WaitingInv, StreamInv, GetMessages
<1>7. HoldingInv(t)' /\ WaitingInv(t)' /\ WrittenInv(t)'
  BY <1>2, <1>4, <1>5, <1>6 DEF HoldingInv, WaitingInv, WrittenInv, GetMessages, redisVars, savedVars
<1> QED
  BY <1>1, <1>3, <1>7, PrivateStep DEF GetMessages, Goto, redisVars, IndInv, TypeOK

LEMMA GivesUpStep ==
  ASSUME IndInv, NEW t \in Tasks, NothingToDo(t) \/ TaskFails(t)
  PROVE  IndInv'
<1>1. TypeOK'
  <2>1. faults' \in 0..MaxFaults
    BY FaultStep DEF IndInv, TypeOK, NothingToDo, TaskFails
  <2>2. pc' \in [Tasks -> Places]
    BY DEF IndInv, TypeOK, NothingToDo, TaskFails, Goto, Places
  <2> QED
    BY <2>1, <2>2 DEF IndInv, TypeOK, NothingToDo, TaskFails, redisVars, savedVars
<1>2. pc' = [pc EXCEPT ![t] = "idle"] /\ pc'[t] = "idle"
  BY DEF IndInv, TypeOK, NothingToDo, TaskFails, Goto
<1>3. WaitingInv(t)' /\ HoldingInv(t)' /\ WrittenInv(t)'
  BY <1>2 DEF WaitingInv, HoldingInv, WrittenInv
<1> QED
  BY <1>1, <1>2, <1>3, PrivateStep DEF NothingToDo, TaskFails, redisVars, IndInv, TypeOK

LEMMA AckStep ==
  ASSUME IndInv, NEW t \in Tasks, Ack(t)
  PROVE  IndInv'
<1>1. TypeOK'
  BY DEF IndInv, TypeOK, Ack, Goto, Places, savedVars
<1>2. pc[t] = "written" /\ pc' = [pc EXCEPT ![t] = "acked"] /\ pc'[t] = "acked"
  BY DEF IndInv, TypeOK, Ack, Goto
<1>3. WaitingInv(t)' /\ HoldingInv(t)' /\ WrittenInv(t)'
  BY <1>2 DEF IndInv, WaitingInv, HoldingInv, WrittenInv, Ack, savedVars
<1> QED
  BY <1>1, <1>2, <1>3, PrivateStep DEF Ack, IndInv, TypeOK

(* A new object is the prefix up to its number; no other object changes.   *)
LEMMA ProcessTransactionsStep ==
  ASSUME IndInv, NEW t \in Tasks, ProcessTransactions(t)
  PROVE  IndInv'
<1> DEFINE file == ApplyTransactions(store[base[t]], batch[t])
<1>1. /\ pc[t] = "holding" /\ base[t] \in DOMAIN store /\ last[t] \in sent
      /\ base[t] < last[t] /\ batch[t] = {n \in sent : base[t] < n /\ n <= last[t]}
  BY DEF IndInv, HoldingInv, ProcessTransactions
<1>2. last[t] \in Numbers /\ last[t] \in Nat /\ base[t] \in Nat /\ last[t] \in 0..MaxNumber
  BY <1>1, FileServiceAssumption DEF IndInv, TypeOK
<1>3. file = Prefix(last[t])
  <2>1. store[base[t]] = Promise!Prefix(sent, base[t])
    BY <1>1 DEF IndInv, StoreInv, Prefix
  <2> QED
    BY <1>1, <1>2, <2>1, PrefixGrows DEF Prefix, IndInv, TypeOK
<1>4. file \in Files
  BY <1>3, PrefixIsFile DEF Prefix
<1>5. /\ DOMAIN store' = DOMAIN store \cup {last[t]}
      /\ store'[last[t]] = file
      /\ \A n \in DOMAIN store : n # last[t] => store'[n] = store[n]
  <2> HIDE DEF file
  <2>1. store' = Put(store, last[t], file)
    BY DEF ProcessTransactions, file
  <2> QED
    BY <2>1 DEF Put
<1> HIDE DEF file
<1>6. /\ pc' = [pc EXCEPT ![t] = "written"]
      /\ UNCHANGED <<redisVars, checkpoint, processed, clock, startedAt, base, batch, last, faults>>
  BY DEF ProcessTransactions, Goto
<1>7. TypeOK'
  <2>1. pc' \in [Tasks -> Places]
    BY <1>6 DEF IndInv, TypeOK, Places
  <2>2. DOMAIN store' \subseteq 0..MaxNumber /\ \A n \in DOMAIN store' : store'[n] \in Files
    BY <1>2, <1>4, <1>5 DEF IndInv, TypeOK
  <2> QED
    BY <1>6, <2>1, <2>2 DEF IndInv, TypeOK, redisVars
<1>8. StreamInv' /\ TrimInv'
  BY <1>6 DEF IndInv, StreamInv, TrimInv, redisVars
<1>9. StoreInv'
  <2>1. \A n \in DOMAIN store' : n <= newest /\ store'[n] = Prefix(n)
    BY <1>1, <1>3, <1>5 DEF IndInv, StoreInv, StreamInv
  <2>2. newest' = newest /\ sent' = sent /\ checkpoint' = checkpoint
    BY <1>6 DEF redisVars
  <2>3. checkpoint \in DOMAIN store'
    BY <1>5 DEF IndInv, StoreInv
  <2> QED
    BY <2>1, <2>2, <2>3 DEF StoreInv, Prefix
<1>10. ASSUME NEW u \in Tasks PROVE WaitingInv(u)' /\ HoldingInv(u)' /\ WrittenInv(u)'
  <2>1. DOMAIN store \subseteq DOMAIN store' /\ last[t] \in DOMAIN store'
    BY <1>5
  <2>2. CASE u = t
    <3>1. pc'[u] = "written"
      BY <1>6, <2>2 DEF IndInv, TypeOK
    <3> QED
      BY <1>1, <1>6, <2>1, <2>2, <3>1 DEF WaitingInv, HoldingInv, WrittenInv, redisVars
  <2>3. CASE u # t
    <3>1. pc'[u] = pc[u]
      BY <1>6, <2>3 DEF IndInv, TypeOK
    <3> QED
      BY <1>6, <2>1, <3>1 DEF IndInv, WaitingInv, HoldingInv, WrittenInv, redisVars
  <2> QED
    BY <2>2, <2>3
<1> QED
  BY <1>7, <1>8, <1>9, <1>10 DEF IndInv

LEMMA SetFileCheckpointStep ==
  ASSUME IndInv, NEW t \in Tasks, SetFileCheckpoint(t)
  PROVE  IndInv'
<1>1. /\ pc[t] = "acked" /\ last[t] \in DOMAIN store /\ last[t] \in sent
      /\ last[t] \in 0..MaxNumber /\ checkpoint \in 0..MaxNumber
  BY DEF IndInv, TypeOK, WrittenInv, SetFileCheckpoint
<1>2. UNCHANGED <<redisVars, store, processed, clock, startedAt, base, batch, last, faults>>
  BY DEF SetFileCheckpoint
<1>3. /\ checkpoint <= checkpoint'
      /\ checkpoint' \in 0..MaxNumber
      /\ checkpoint' \in DOMAIN store
      /\ \/ pc' = [pc EXCEPT ![t] = "idle"]
         \/ pc' = [pc EXCEPT ![t] = "saved"] /\ checkpoint' = last[t]
  BY <1>1, FileServiceAssumption DEF SetFileCheckpoint, Goto, IndInv, StoreInv
<1>4. TypeOK'
  BY <1>2, <1>3 DEF IndInv, TypeOK, Places, redisVars
<1>5. StreamInv' /\ StoreInv'
  BY <1>2, <1>3 DEF IndInv, StreamInv, StoreInv, Prefix, redisVars
<1>6. TrimInv'
  <2>1. /\ \A n \in sent : n \in Nat
        /\ \A e \in processed : e.number \in Nat
        /\ checkpoint \in Nat /\ checkpoint' \in Nat
    BY <1>1, <1>3, FileServiceAssumption DEF IndInv, TypeOK
  <2> QED
    BY <1>2, <1>3, <2>1 DEF IndInv, TrimInv, redisVars
<1>7. ASSUME NEW u \in Tasks PROVE WaitingInv(u)' /\ HoldingInv(u)' /\ WrittenInv(u)'
  <2>1. CASE u = t
    <3>1. pc'[u] = "idle" \/ (pc'[u] = "saved" /\ checkpoint' = last[u])
      BY <1>3, <2>1 DEF IndInv, TypeOK
    <3> QED
      BY <1>1, <1>2, <2>1, <3>1 DEF WaitingInv, HoldingInv, WrittenInv, redisVars
  <2>2. CASE u # t
    <3>1. pc'[u] = pc[u] /\ last[u] \in Nat /\ checkpoint \in Nat /\ checkpoint' \in Nat
      BY <1>1, <1>3, <2>2, FileServiceAssumption DEF IndInv, TypeOK
    <3> QED
      BY <1>2, <1>3, <3>1 DEF IndInv, WaitingInv, HoldingInv, WrittenInv, redisVars
  <2> QED
    BY <2>1, <2>2
<1> QED
  BY <1>4, <1>5, <1>6, <1>7 DEF IndInv

(* The new entry is younger than every task in flight.                     *)
LEMMA AddProcessedTransactionStep ==
  ASSUME IndInv, NEW t \in Tasks, AddProcessedTransaction(t)
  PROVE  IndInv'
<1> DEFINE entry == [key |-> clock + 1, number |-> last[t]]
<1>1. /\ clock \in Nat /\ clock' = clock + 1 /\ processed' = processed \cup {entry}
      /\ pc' = [pc EXCEPT ![t] = "idle"] /\ pc'[t] = "idle"
      /\ UNCHANGED <<redisVars, store, checkpoint, startedAt, base, batch, last, faults>>
  BY DEF IndInv, TypeOK, AddProcessedTransaction, Goto
<1>2. last[t] \in Numbers /\ last[t] <= checkpoint
  BY DEF IndInv, TypeOK, WrittenInv, AddProcessedTransaction
<1>3. TypeOK'
  BY <1>1, <1>2 DEF IndInv, TypeOK, Places, redisVars
<1>4. StreamInv' /\ StoreInv'
  BY <1>1 DEF IndInv, StreamInv, StoreInv, Prefix, redisVars
<1>5. \A e \in processed : e.key \in Nat
  BY DEF IndInv, TypeOK
<1>6. TrimInv'
  BY <1>1, <1>2, <1>5 DEF IndInv, TrimInv, redisVars
<1>7. ASSUME NEW u \in Tasks PROVE WaitingInv(u)' /\ HoldingInv(u)' /\ WrittenInv(u)'
  <2>1. CASE u = t
    BY <1>1, <2>1 DEF WaitingInv, HoldingInv, WrittenInv
  <2>2. CASE u # t
    <3>1. pc'[u] = pc[u] /\ startedAt[u] \in Nat
      BY <1>1, <2>2 DEF IndInv, TypeOK
    <3>2. entry.key = clock + 1
      OBVIOUS
    <3> HIDE DEF entry
    <3>3. WaitingInv(u)'
      BY <1>1, <3>1, <3>2 DEF IndInv, WaitingInv, redisVars
    <3>4. HoldingInv(u)' /\ WrittenInv(u)'
      BY <1>1, <3>1 DEF IndInv, HoldingInv, WrittenInv, redisVars
    <3> QED
      BY <3>3, <3>4
  <2> QED
    BY <2>1, <2>2
<1> QED
  BY <1>3, <1>4, <1>6, <1>7 DEF IndInv

LEMMA CrashStep ==
  ASSUME IndInv, Crash
  PROVE  IndInv'
<1>1. TypeOK'
  <2>1. faults' \in 0..MaxFaults
    BY FaultStep DEF IndInv, Crash
  <2> QED
    BY <2>1 DEF IndInv, TypeOK, Crash, Places, redisVars, savedVars
<1>2. StreamInv' /\ TrimInv' /\ StoreInv'
  BY DEF IndInv, StreamInv, TrimInv, StoreInv, Prefix, Crash, redisVars, savedVars
<1>3. \A t \in Tasks : pc'[t] = "idle"
  BY DEF Crash
<1> QED
  BY <1>1, <1>2, <1>3 DEF IndInv, WaitingInv, HoldingInv, WrittenInv

(* What a due entry trims is in the base of every task that is to read.    *)
LEMMA TruncateStep ==
  ASSUME IndInv, NEW entry \in processed, Truncate(entry)
  PROVE  IndInv'
<1>1. /\ stream' = {n \in stream : n >= entry.number + 1}
      /\ processed' = {e \in processed : e.key >= entry.key}
      /\ UNCHANGED <<newest, publishing, active, sent, store, checkpoint, clock, taskVars, faults>>
  BY DEF Truncate
<1>2. entry.number \in Nat /\ entry.number <= checkpoint /\ \A n \in sent : n \in Nat
  BY DEF IndInv, TypeOK, TrimInv
<1>3. \A n \in sent : n \notin stream' => n \notin stream \/ n <= entry.number
  BY <1>1, <1>2
<1>4. TypeOK'
  BY <1>1 DEF IndInv, TypeOK, taskVars
<1>5. StreamInv' /\ StoreInv'
  BY <1>1 DEF IndInv, StreamInv, StoreInv, Prefix
<1>6. TrimInv'
  <2>1. checkpoint \in Nat
    BY FileServiceAssumption DEF IndInv, TypeOK
  <2> QED
    BY <1>1, <1>2, <1>3, <2>1 DEF IndInv, TrimInv
<1>7. ASSUME NEW t \in Tasks PROVE WaitingInv(t)' /\ HoldingInv(t)' /\ WrittenInv(t)'
  <2>1. WaitingInv(t)'
    <3>1. pc[t] = "waiting" => entry.number <= base[t]
      BY DEF IndInv, WaitingInv, Truncate, Due
    <3>2. base[t] \in Nat
      BY FileServiceAssumption DEF IndInv, TypeOK
    <3> QED
      BY <1>1, <1>2, <1>3, <3>1, <3>2 DEF IndInv, WaitingInv, taskVars
  <2>2. HoldingInv(t)' /\ WrittenInv(t)'
    BY <1>1 DEF IndInv, HoldingInv, WrittenInv, taskVars
  <2> QED
    BY <2>1, <2>2
<1> QED
  BY <1>4, <1>5, <1>6, <1>7 DEF IndInv

-----------------------------------------------------------------------------
(* A checkpoint the API does not tell is the one thing the invariant does  *)
(* not survive.                                                            *)
LEMMA NextIndInv ==
  ASSUME "read" \notin Faults, IndInv, [Next]_vars
  PROVE  IndInv'
<1>1. CASE AddToStream
  BY <1>1, AddToStreamStep
<1>2. CASE UpsertActiveChannel \/ PublishFails
  BY <1>2, PublishStep
<1>3. ASSUME NEW t \in Tasks, TaskNext(t) PROVE IndInv'
  <2>1. CASE Tick(t)
    BY <2>1, TickStep
  <2>2. CASE GetFileCheckpoint(t)
    BY <2>2, GetFileCheckpointStep
  <2>3. CASE GetFileCheckpointFails(t)
    BY <2>3 DEF GetFileCheckpointFails, Fault
  <2>4. CASE GetMessages(t)
    BY <2>4, GetMessagesStep
  <2>5. CASE NothingToDo(t) \/ TaskFails(t)
    BY <2>5, GivesUpStep
  <2>6. CASE ProcessTransactions(t)
    BY <2>6, ProcessTransactionsStep
  <2>7. CASE Ack(t)
    BY <2>7, AckStep
  <2>8. CASE SetFileCheckpoint(t)
    BY <2>8, SetFileCheckpointStep
  <2>9. CASE AddProcessedTransaction(t)
    BY <2>9, AddProcessedTransactionStep
  <2> QED
    BY <1>3, <2>1, <2>2, <2>3, <2>4, <2>5, <2>6, <2>7, <2>8, <2>9 DEF TaskNext
<1>4. CASE Crash
  BY <1>4, CrashStep
<1>5. ASSUME NEW entry \in processed, Truncate(entry) PROVE IndInv'
  BY <1>5, TruncateStep
<1>6. CASE UNCHANGED vars
  <2>1. TypeOK'
    BY <1>6 DEF IndInv, TypeOK, vars, redisVars, savedVars, taskVars
  <2> QED
    BY <1>6, <2>1 DEF IndInv, StreamInv, TrimInv, StoreInv, Prefix, WaitingInv, HoldingInv,
                      WrittenInv, vars, redisVars, savedVars, taskVars
<1> QED
  BY <1>1, <1>2, <1>3, <1>4, <1>5, <1>6 DEF Next

(* The inductive invariant of the file service.                            *)
THEOREM Invariance ==
  ASSUME "read" \notin Faults
  PROVE  Spec => []IndInv
<1>1. Init => IndInv
  BY InitIndInv
<1>2. IndInv /\ [Next]_vars => IndInv'
  BY NextIndInv
<1> QED
  BY <1>1, <1>2, PTL DEF Spec

(* Every object in storage is the file as it was at its number.            *)
THEOREM Prefixes ==
  ASSUME "read" \notin Faults
  PROVE  Spec => []FilesArePrefixes
<1>1. IndInv => FilesArePrefixes
  BY DEF IndInv, StoreInv, Prefix, FilesArePrefixes
<1> QED
  BY <1>1, Invariance, PTL

(* The checkpoint and what the stream holds beyond it are the whole file.  *)
THEOREM Loaded ==
  ASSUME "read" \notin Faults
  PROVE  Spec => []LoadedFileIsComplete
<1>1. ASSUME IndInv PROVE LoadedFileIsComplete
  <2>1. /\ checkpoint \in DOMAIN store /\ checkpoint \in Nat /\ newest \in Nat
        /\ checkpoint <= newest /\ store[checkpoint] = Promise!Prefix(sent, checkpoint)
    BY <1>1, FileServiceAssumption DEF IndInv, TypeOK, StoreInv, Prefix
  <2>2. \A k \in sent : k \in Nat /\ k <= newest /\ (checkpoint < k => k \in stream)
    BY <1>1, <2>1 DEF IndInv, TypeOK, StreamInv, TrimInv
  <2>3. stream \subseteq sent
    BY <1>1 DEF IndInv, StreamInv
  <2>4. Beyond(checkpoint) = {k \in sent : checkpoint < k /\ k <= newest}
    <3>1. \A k \in sent : k \in Beyond(checkpoint) <=> checkpoint < k
      BY <2>1, <2>2, <2>3 DEF Beyond
    <3>2. Beyond(checkpoint) \subseteq sent
      BY <2>3 DEF Beyond
    <3> QED
      BY <2>2, <3>1, <3>2
  <2>5. sent \in SUBSET Numbers
    BY <1>1 DEF IndInv, TypeOK
  <2> QED
    BY <2>1, <2>4, <2>5, PrefixGrows DEF LoadedFileIsComplete
<1> QED
  BY <1>1, Invariance, PTL

-----------------------------------------------------------------------------
(* Refinement.  A step of the file service is a step of SavedFile or       *)
(* leaves the saved copy as it is.                                         *)

LEMMA SavedInitially == Init => Promise!SavedInit
BY DEF Init, Promise!SavedInit

LEMMA SetFileCheckpointSaves ==
  ASSUME IndInv, NEW t \in Tasks, SetFileCheckpoint(t)
  PROVE  [Promise!SavedNext]_(Promise!savedVars)
<1>1. /\ last[t] \in DOMAIN store /\ last[t] \in sent /\ last[t] \in Numbers
      /\ last[t] \in Nat /\ checkpoint \in Nat
      /\ store[last[t]] = Promise!Prefix(sent, last[t])
  BY FileServiceAssumption
  DEF IndInv, TypeOK, StoreInv, Prefix, WrittenInv, SetFileCheckpoint
<1>2. UNCHANGED <<sent, store>>
  BY DEF SetFileCheckpoint, redisVars
<1>3. CASE checkpoint' = checkpoint
  BY <1>2, <1>3 DEF Promise!savedVars
<1>4. CASE checkpoint < last[t] /\ checkpoint' = last[t]
  BY <1>1, <1>2, <1>4 DEF Promise!SavedNext, Promise!Save
<1> QED
  BY <1>1, <1>3, <1>4 DEF SetFileCheckpoint

LEMMA SavedStep ==
  ASSUME "read" \notin Faults, IndInv, IndInv', [Next]_vars
  PROVE  [Promise!SavedNext]_(Promise!savedVars)
<1> DEFINE Stutter == UNCHANGED <<sent, checkpoint>> /\ store'[checkpoint] = store[checkpoint]
<1>1. ASSUME Stutter PROVE [Promise!SavedNext]_(Promise!savedVars)
  BY <1>1 DEF Promise!savedVars
<1>2. CASE AddToStream
  <2>1. PICK n \in (newest + 1)..MaxNumber : newest' = n /\ sent' = sent \cup {n}
    BY <1>2 DEF AddToStream
  <2>2. /\ n \in Numbers /\ newest \in Nat /\ newest < n
        /\ \A m \in sent : m \in Nat /\ m <= newest
        /\ checkpoint \in Nat /\ checkpoint <= newest
    BY <2>1, FileServiceAssumption DEF IndInv, TypeOK, StreamInv, StoreInv
  <2>3. \A m \in sent : m < n
    BY <2>2
  <2>4. UNCHANGED <<store, checkpoint>>
    BY <1>2 DEF AddToStream, savedVars
  <2> QED
    BY <2>1, <2>2, <2>3, <2>4 DEF Promise!SavedNext, Promise!Write
<1>3. CASE UpsertActiveChannel \/ PublishFails \/ Crash \/ UNCHANGED vars
  <2>1. Stutter
    BY <1>3 DEF UpsertActiveChannel, PublishFails, Crash, vars, redisVars, savedVars
  <2> QED
    BY <1>1, <2>1
<1>4. ASSUME NEW t \in Tasks, TaskNext(t) PROVE [Promise!SavedNext]_(Promise!savedVars)
  <2>1. CASE SetFileCheckpoint(t)
    BY <2>1, SetFileCheckpointSaves
  <2>2. CASE ProcessTransactions(t)
    <3>1. UNCHANGED <<sent, checkpoint>>
      BY <2>2 DEF ProcessTransactions, redisVars
    <3>2. store[checkpoint] = Promise!Prefix(sent, checkpoint)
      BY DEF IndInv, StoreInv, Prefix
    <3>3. store'[checkpoint'] = Promise!Prefix(sent', checkpoint')
      BY DEF IndInv, StoreInv, Prefix
    <3>4. Stutter
      BY <3>1, <3>2, <3>3
    <3> QED
      BY <1>1, <3>4
  <2>3. CASE GetFileCheckpointFails(t)
    BY <2>3 DEF GetFileCheckpointFails, Fault
  <2>4. CASE Tick(t) \/ GetFileCheckpoint(t) \/ GetMessages(t) \/ NothingToDo(t)
    <3>1. Stutter
      BY <2>4 DEF Tick, GetFileCheckpoint, GetMessages, NothingToDo, redisVars, savedVars
    <3> QED
      BY <1>1, <3>1
  <2>5. CASE Ack(t) \/ AddProcessedTransaction(t) \/ TaskFails(t)
    <3>1. Stutter
      BY <2>5 DEF Ack, AddProcessedTransaction, TaskFails, redisVars, savedVars
    <3> QED
      BY <1>1, <3>1
  <2> QED
    BY <1>4, <2>1, <2>2, <2>3, <2>4, <2>5 DEF TaskNext
<1>5. ASSUME NEW entry \in processed, Truncate(entry)
      PROVE  [Promise!SavedNext]_(Promise!savedVars)
  <2>1. Stutter
    BY <1>5 DEF Truncate
  <2> QED
    BY <1>1, <2>1
<1> QED
  BY <1>2, <1>3, <1>4, <1>5 DEF Next

(* Saving implements SavedFile: the saved copy is always a prefix of       *)
(* everything the users did, and always a newer one.                       *)
THEOREM Implements ==
  ASSUME "read" \notin Faults
  PROVE  Spec => ImplementsSavedFile
<1>1. Init => Promise!SavedInit
  BY SavedInitially
<1>2. IndInv /\ IndInv' /\ [Next]_vars => [Promise!SavedNext]_(Promise!savedVars)
  BY SavedStep
<1>3. Spec => []IndInv
  BY Invariance
<1> QED
  BY <1>1, <1>2, <1>3, PTL DEF Spec, ImplementsSavedFile, Promise!SavedSpec

-----------------------------------------------------------------------------
(* Whatever goes wrong, the API's missing answers included.                *)

KeptInv ==
  /\ TypeOK
  /\ StreamInv
  /\ \A n \in DOMAIN store : n <= newest
  /\ \A t \in Tasks : pc[t] \in {"holding", "written", "acked", "saved"} => last[t] \in sent

(* What a task holds is all there is between two numbers, if the stream    *)
(* has lost nothing.                                                       *)
BatchInv(t) ==
  pc[t] = "holding" =>
    /\ base[t] < last[t]
    /\ batch[t] = {n \in sent : base[t] < n /\ n <= last[t]}

UntrimmedInv ==
  /\ KeptInv
  /\ stream = sent => FilesArePrefixes /\ \A t \in Tasks : BatchInv(t)

LEMMA ApplyIsFile ==
  ASSUME NEW file \in Files, NEW numbers
  PROVE  ApplyTransactions(file, numbers) \in Files
<1>1. \A n \in Numbers : file[n] + (IF n \in numbers THEN 1 ELSE 0) \in Nat
  BY DEF Files
<1> QED
  BY <1>1 DEF ApplyTransactions, Files

LEMMA UntrimmedInitially == Init => UntrimmedInv
<1> SUFFICES ASSUME Init PROVE UntrimmedInv
  OBVIOUS
<1>1. TypeOK /\ StreamInv /\ StoreInv
  BY InitIndInv DEF IndInv
<1> QED
  BY <1>1 DEF Init, UntrimmedInv, KeptInv, StoreInv, Prefix, FilesArePrefixes, BatchInv

(* A step that touches neither the stream nor the objects.                 *)
LEMMA UntrimmedPrivateStep ==
  ASSUME UntrimmedInv, TypeOK', UNCHANGED <<stream, newest, sent, store>>,
         \A t \in Tasks :
           \/ pc'[t] \notin {"holding", "written", "acked", "saved"}
           \/ /\ pc'[t] = "holding" => pc[t] = "holding"
              /\ pc[t] \in {"holding", "written", "acked", "saved"}
              /\ base'[t] = base[t] /\ batch'[t] = batch[t] /\ last'[t] = last[t]
  PROVE  UntrimmedInv'
<1>1. KeptInv'
  BY DEF UntrimmedInv, KeptInv, StreamInv
<1>2. ASSUME stream' = sent', NEW t \in Tasks PROVE BatchInv(t)'
  BY <1>2 DEF UntrimmedInv, BatchInv
<1>3. FilesArePrefixes' <=> FilesArePrefixes
  BY DEF FilesArePrefixes
<1> QED
  BY <1>1, <1>2, <1>3 DEF UntrimmedInv

LEMMA UntrimmedAddToStream ==
  ASSUME UntrimmedInv, AddToStream
  PROVE  UntrimmedInv'
<1> USE DEF UntrimmedInv, KeptInv
<1>1. PICK n \in (newest + 1)..MaxNumber :
        newest' = n /\ stream' = stream \cup {n} /\ sent' = sent \cup {n}
  BY DEF AddToStream
<1>2. n \in Numbers /\ n \in Nat /\ newest \in Nat /\ newest < n
  BY FileServiceAssumption DEF TypeOK
<1>3. UNCHANGED <<active, store, checkpoint, processed, clock, taskVars, faults>>
  BY DEF AddToStream, savedVars
<1>4. TypeOK'
  BY <1>1, <1>2, <1>3 DEF TypeOK, AddToStream, taskVars
<1>5. StreamInv'
  BY <1>1, <1>2 DEF StreamInv, TypeOK
<1>6. \A k \in DOMAIN store : k \in Nat /\ k <= newest /\ k < n
  BY <1>2 DEF TypeOK
<1>7. KeptInv'
  BY <1>1, <1>2, <1>3, <1>4, <1>5, <1>6 DEF taskVars
<1>8. ASSUME stream' = sent'
      PROVE  FilesArePrefixes' /\ \A t \in Tasks : BatchInv(t)'
  <2>1. n \notin sent /\ n \notin stream
    BY <1>2 DEF StreamInv, TypeOK
  <2>2. stream = sent
    BY <1>1, <1>8, <2>1
  <2>3. \A k \in DOMAIN store : Promise!Prefix(sent', k) = Promise!Prefix(sent, k)
    BY <1>1, <1>2, <1>6, PrefixStays DEF TypeOK
  <2>4. FilesArePrefixes'
    BY <1>3, <2>2, <2>3 DEF FilesArePrefixes
  <2>5. ASSUME NEW t \in Tasks PROVE BatchInv(t)'
    <3>1. \A k \in sent : k \in Nat /\ k < n
      BY <1>2 DEF StreamInv, TypeOK
    <3>2. BatchInv(t)
      BY <2>2
    <3> QED
      BY <1>1, <1>2, <1>3, <3>1, <3>2 DEF BatchInv, taskVars
  <2> QED
    BY <2>4, <2>5
<1> QED
  BY <1>7, <1>8

LEMMA UntrimmedGetMessages ==
  ASSUME UntrimmedInv, NEW t \in Tasks, GetMessages(t)
  PROVE  UntrimmedInv'
<1> USE DEF UntrimmedInv, KeptInv
<1>1. PICK n \in Beyond(base[t]) :
        (\A m \in Beyond(base[t]) : m <= n) /\ last' = [last EXCEPT ![t] = n]
  BY DEF GetMessages
<1>2. n \in stream /\ n \in sent /\ n \in Numbers /\ n \in Nat /\ base[t] \in Nat /\ base[t] < n
  BY FileServiceAssumption DEF Beyond, StreamInv, TypeOK
<1>3. Beyond(base[t]) \in SUBSET Numbers
  BY DEF Beyond, TypeOK
<1>4. TypeOK'
  <2>1. batch' \in [Tasks -> SUBSET Numbers] /\ last' \in [Tasks -> 0..MaxNumber]
    BY <1>1, <1>2, <1>3, FileServiceAssumption DEF TypeOK, GetMessages
  <2>2. pc' \in [Tasks -> Places]
    BY DEF TypeOK, GetMessages, Goto, Places
  <2> QED
    BY <2>1, <2>2 DEF TypeOK, GetMessages, redisVars, savedVars
<1>5. /\ pc'[t] = "holding" /\ last'[t] = n /\ base'[t] = base[t]
      /\ batch'[t] = Beyond(base[t])
      /\ UNCHANGED <<stream, newest, sent, store>>
  BY <1>1 DEF TypeOK, GetMessages, Goto, redisVars, savedVars
<1>6. \A u \in Tasks \ {t} : /\ pc'[u] = pc[u] /\ last'[u] = last[u]
                             /\ base'[u] = base[u] /\ batch'[u] = batch[u]
  BY <1>1 DEF TypeOK, GetMessages, Goto
<1>7. KeptInv'
  BY <1>2, <1>4, <1>5, <1>6 DEF StreamInv
<1>8. ASSUME stream' = sent'
      PROVE  FilesArePrefixes' /\ \A u \in Tasks : BatchInv(u)'
  <2>1. stream = sent
    BY <1>5, <1>8
  <2>2. FilesArePrefixes'
    BY <1>5, <2>1 DEF FilesArePrefixes
  <2>3. Beyond(base[t]) = {k \in sent : base[t] < k /\ k <= n}
    <3>1. \A k \in sent : k \in Nat
      BY DEF TypeOK
    <3>2. \A k \in sent : k >= base[t] + 1 <=> base[t] < k
      BY <1>2, <3>1
    <3>3. \A k \in sent : k \in Beyond(base[t]) <=> base[t] < k
      BY <2>1, <3>2 DEF Beyond
    <3>4. Beyond(base[t]) \subseteq sent
      BY <2>1 DEF Beyond
    <3> QED
      BY <1>1, <3>3, <3>4
  <2>4. BatchInv(t)'
    BY <1>2, <1>5, <2>3 DEF BatchInv
  <2>5. ASSUME NEW u \in Tasks \ {t} PROVE BatchInv(u)'
    BY <1>5, <1>6, <2>1 DEF BatchInv
  <2> QED
    BY <2>2, <2>4, <2>5
<1> QED
  BY <1>7, <1>8

LEMMA UntrimmedProcessTransactions ==
  ASSUME UntrimmedInv, NEW t \in Tasks, ProcessTransactions(t)
  PROVE  UntrimmedInv'
<1> USE DEF UntrimmedInv, KeptInv
<1> DEFINE file == ApplyTransactions(store[base[t]], batch[t])
<1>1. pc[t] = "holding" /\ base[t] \in DOMAIN store /\ last[t] \in sent
  BY DEF ProcessTransactions
<1>2. /\ last[t] \in Numbers /\ last[t] \in Nat /\ base[t] \in Nat /\ last[t] \in 0..MaxNumber
      /\ last[t] <= newest
  BY <1>1, FileServiceAssumption DEF TypeOK, StreamInv
<1>3. store[base[t]] \in [Numbers -> Nat]
  BY <1>1 DEF TypeOK, Files
<1>4. file \in Files
  BY <1>3, ApplyIsFile DEF TypeOK, Files
<1>5. ASSUME stream = sent PROVE file = Promise!Prefix(sent, last[t])
  <2>1. store[base[t]] = Promise!Prefix(sent, base[t])
    BY <1>1, <1>5 DEF FilesArePrefixes
  <2>2. base[t] < last[t] /\ batch[t] = {n \in sent : base[t] < n /\ n <= last[t]}
    BY <1>1, <1>5 DEF BatchInv
  <2> QED
    BY <1>2, <2>1, <2>2, PrefixGrows DEF TypeOK
<1>6. /\ DOMAIN store' = DOMAIN store \cup {last[t]}
      /\ store'[last[t]] = file
      /\ \A n \in DOMAIN store : n # last[t] => store'[n] = store[n]
  <2> HIDE DEF file
  <2>1. store' = Put(store, last[t], file)
    BY DEF ProcessTransactions, file
  <2> QED
    BY <2>1 DEF Put
<1> HIDE DEF file
<1>7. /\ pc' = [pc EXCEPT ![t] = "written"]
      /\ UNCHANGED <<redisVars, checkpoint, processed, clock, startedAt, base, batch, last, faults>>
  BY DEF ProcessTransactions, Goto
<1>8. TypeOK'
  <2>1. pc' \in [Tasks -> Places]
    BY <1>7 DEF TypeOK, Places
  <2>2. DOMAIN store' \subseteq 0..MaxNumber /\ \A n \in DOMAIN store' : store'[n] \in Files
    BY <1>2, <1>4, <1>6 DEF TypeOK
  <2> QED
    BY <1>7, <2>1, <2>2 DEF TypeOK, redisVars
<1>9. \A u \in Tasks : pc'[u] = (IF u = t THEN "written" ELSE pc[u])
  BY <1>7 DEF TypeOK
<1>10. KeptInv'
  BY <1>1, <1>2, <1>6, <1>7, <1>8, <1>9 DEF StreamInv, redisVars
<1>11. ASSUME stream' = sent'
       PROVE  FilesArePrefixes' /\ \A u \in Tasks : BatchInv(u)'
  <2>1. stream = sent /\ sent' = sent
    BY <1>7, <1>11 DEF redisVars
  <2>2. FilesArePrefixes'
    BY <1>5, <1>6, <2>1 DEF FilesArePrefixes
  <2>3. ASSUME NEW u \in Tasks PROVE BatchInv(u)'
    BY <1>7, <1>9, <2>1 DEF BatchInv
  <2> QED
    BY <2>2, <2>3
<1> QED
  BY <1>10, <1>11

LEMMA UntrimmedTruncate ==
  ASSUME UntrimmedInv, NEW entry \in processed, Truncate(entry)
  PROVE  UntrimmedInv'
<1>1. /\ stream' = {n \in stream : n >= entry.number + 1}
      /\ processed' = {e \in processed : e.key >= entry.key}
      /\ UNCHANGED <<newest, publishing, active, sent, store, checkpoint, clock, taskVars, faults>>
  BY DEF Truncate
<1>2. KeptInv'
  <2>1. TypeOK'
    BY <1>1 DEF UntrimmedInv, KeptInv, TypeOK, taskVars
  <2> QED
    BY <1>1, <2>1 DEF UntrimmedInv, KeptInv, StreamInv, taskVars
<1>3. ASSUME stream' = sent' PROVE stream = sent
  BY <1>1, <1>3 DEF UntrimmedInv, KeptInv, StreamInv
<1>4. FilesArePrefixes => FilesArePrefixes'
  BY <1>1 DEF FilesArePrefixes
<1>5. \A t \in Tasks : BatchInv(t) => BatchInv(t)'
  BY <1>1 DEF BatchInv, taskVars
<1> QED
  BY <1>2, <1>3, <1>4, <1>5 DEF UntrimmedInv

LEMMA UntrimmedTask ==
  ASSUME UntrimmedInv, NEW t \in Tasks, TaskNext(t)
  PROVE  UntrimmedInv'
<1> USE DEF UntrimmedInv, KeptInv
<1>1. CASE GetMessages(t)
  BY <1>1, UntrimmedGetMessages
<1>2. CASE ProcessTransactions(t)
  BY <1>2, UntrimmedProcessTransactions
<1>3. CASE Tick(t)
  <2>1. TypeOK'
    BY <1>3 DEF TypeOK, Tick, Goto, Places, redisVars, savedVars
  <2> QED
    BY <1>3, <2>1, UntrimmedPrivateStep DEF TypeOK, Tick, Goto, redisVars, savedVars
<1>4. CASE GetFileCheckpoint(t) \/ GetFileCheckpointFails(t)
  <2>1. faults' \in 0..MaxFaults
    BY <1>4, FaultStep DEF TypeOK, GetFileCheckpoint, GetFileCheckpointFails
  <2>2. pc' \in [Tasks -> Places]
    BY <1>4 DEF TypeOK, GetFileCheckpoint, GetFileCheckpointFails, Goto, Places
  <2>3. base' \in [Tasks -> 0..MaxNumber]
    BY <1>4, FileServiceAssumption DEF TypeOK, GetFileCheckpoint, GetFileCheckpointFails
  <2>4. TypeOK'
    BY <1>4, <2>1, <2>2, <2>3
    DEF TypeOK, GetFileCheckpoint, GetFileCheckpointFails, redisVars, savedVars
  <2> QED
    BY <1>4, <2>4, UntrimmedPrivateStep
    DEF TypeOK, GetFileCheckpoint, GetFileCheckpointFails, Goto, redisVars, savedVars
<1>5. CASE NothingToDo(t) \/ TaskFails(t)
  <2>1. faults' \in 0..MaxFaults
    BY <1>5, FaultStep DEF TypeOK, NothingToDo, TaskFails
  <2>2. pc' \in [Tasks -> Places]
    BY <1>5 DEF TypeOK, NothingToDo, TaskFails, Goto, Places
  <2>3. TypeOK'
    BY <1>5, <2>1, <2>2 DEF TypeOK, NothingToDo, TaskFails, redisVars, savedVars
  <2> QED
    BY <1>5, <2>3, UntrimmedPrivateStep
    DEF TypeOK, NothingToDo, TaskFails, Goto, redisVars, savedVars
<1>6. CASE Ack(t)
  <2>1. TypeOK'
    BY <1>6 DEF TypeOK, Ack, Goto, Places, savedVars
  <2> QED
    BY <1>6, <2>1, UntrimmedPrivateStep DEF TypeOK, Ack, Goto, savedVars
<1>7. CASE SetFileCheckpoint(t)
  <2>1. last[t] \in 0..MaxNumber /\ pc[t] = "acked"
    BY <1>7 DEF TypeOK, SetFileCheckpoint
  <2>2. TypeOK'
    BY <1>7, <2>1 DEF TypeOK, SetFileCheckpoint, Goto, Places, redisVars
  <2> QED
    BY <1>7, <2>1, <2>2, UntrimmedPrivateStep DEF TypeOK, SetFileCheckpoint, Goto, redisVars
<1>8. CASE AddProcessedTransaction(t)
  <2>1. last[t] \in Numbers /\ pc[t] = "saved"
    BY <1>8 DEF TypeOK, AddProcessedTransaction
  <2>2. TypeOK'
    BY <1>8, <2>1 DEF TypeOK, AddProcessedTransaction, Goto, Places, redisVars
  <2> QED
    BY <1>8, <2>1, <2>2, UntrimmedPrivateStep
    DEF TypeOK, AddProcessedTransaction, Goto, redisVars
<1> QED
  BY <1>1, <1>2, <1>3, <1>4, <1>5, <1>6, <1>7, <1>8 DEF TaskNext

LEMMA UntrimmedNext ==
  ASSUME UntrimmedInv, [Next]_vars
  PROVE  UntrimmedInv'
<1> USE DEF UntrimmedInv, KeptInv
<1>1. CASE AddToStream
  BY <1>1, UntrimmedAddToStream
<1>2. CASE UpsertActiveChannel \/ PublishFails
  <2>1. faults' \in 0..MaxFaults
    BY <1>2, FaultStep DEF TypeOK, UpsertActiveChannel, PublishFails
  <2>2. publishing' \in BOOLEAN /\ active' \in BOOLEAN
    BY <1>2 DEF TypeOK, UpsertActiveChannel, PublishFails
  <2>3. UNCHANGED <<stream, newest, sent, savedVars, taskVars>>
    BY <1>2 DEF UpsertActiveChannel, PublishFails
  <2>4. TypeOK'
    BY <2>1, <2>2, <2>3 DEF TypeOK, savedVars, taskVars
  <2> QED
    BY <2>3, <2>4, UntrimmedPrivateStep DEF savedVars, taskVars
<1>3. ASSUME NEW t \in Tasks, TaskNext(t) PROVE UntrimmedInv'
  BY <1>3, UntrimmedTask
<1>4. CASE Crash
  <2>1. faults' \in 0..MaxFaults
    BY <1>4, FaultStep DEF Crash
  <2>2. TypeOK'
    BY <1>4, <2>1 DEF TypeOK, Crash, Places, redisVars, savedVars
  <2> QED
    BY <1>4, <2>2, UntrimmedPrivateStep DEF Crash, redisVars, savedVars
<1>5. ASSUME NEW entry \in processed, Truncate(entry) PROVE UntrimmedInv'
  BY <1>5, UntrimmedTruncate
<1>6. CASE UNCHANGED vars
  <2>1. TypeOK'
    BY <1>6 DEF TypeOK, vars, redisVars, savedVars, taskVars
  <2> QED
    BY <1>6, <2>1, UntrimmedPrivateStep DEF vars, redisVars, savedVars, taskVars
<1> QED
  BY <1>1, <1>2, <1>3, <1>4, <1>5, <1>6 DEF Next

(* The invariant that survives every fault.                                *)
THEOREM UntrimmedInvariance == Spec => []UntrimmedInv
<1>1. Init => UntrimmedInv
  BY UntrimmedInitially
<1>2. UntrimmedInv /\ [Next]_vars => UntrimmedInv'
  BY UntrimmedNext
<1> QED
  BY <1>1, <1>2, PTL DEF Spec

(* Every variable of the file service keeps its type.                      *)
THEOREM TypeCorrect == Spec => []TypeOK
<1>1. UntrimmedInv => TypeOK
  BY DEF UntrimmedInv, KeptInv
<1> QED
  BY <1>1, UntrimmedInvariance, PTL

(* As long as nothing was trimmed every object is the file as it was at    *)
(* its number, whatever the API does not tell.                             *)
THEOREM UntrimmedPrefixes == Spec => []UntrimmedFilesArePrefixes
<1>1. UntrimmedInv => UntrimmedFilesArePrefixes
  BY DEF UntrimmedInv, UntrimmedFilesArePrefixes
<1> QED
  BY <1>1, UntrimmedInvariance, PTL
=============================================================================
