------------------------- MODULE MultiplayerServer -------------------------
(***************************************************************************)
(* The inside of the multiplayer server (quadratic-multiplayer), for one   *)
(* file.  The users who have the file open are in its room, which exists   *)
(* as long as somebody is in it and counts the transactions of the file.   *)
(* Every socket has a handler that processes its messages one after the    *)
(* other; handlers of different sockets interleave wherever one awaits.    *)
(* Rooms and connections are behind a mutex each, held for a statement:    *)
(* what a handler does in several statements is several steps here.        *)
(*                                                                         *)
(* A browser keeps its session when it reconnects, with a new socket.  The *)
(* server may find the old one closed only later, so that two handlers     *)
(* work for one session.  Next to the handlers there are tasks: those that *)
(* send a message to everybody in the room, and those of the background    *)
(* worker, which removes the users who have long been silent.              *)
(***************************************************************************)
EXTENDS Integers, FiniteSets

CONSTANTS
  Sockets,          \* the websockets, each opened at most once
  Sessions,         \* the sessions of the browsers
  SessionOf,        \* the session a socket is opened for
  NoSocket,         \* the session is not in the room
  Tasks,            \* the tasks that can be under way at one time
  Stored,           \* how many transactions the stream holds at the start
  MaxTransactions,  \* bounds the transactions the server receives
  Faults,           \* what can go wrong: a subset of FaultKinds
  MaxFaults         \* bounds how often it does

FaultKinds == {
  "api",            \* the API refuses or does not answer
  "redis",          \* Redis does not answer
  "crash"           \* the server is restarted
}

ASSUME MultiplayerServerAssumption ==
  /\ SessionOf \in [Sockets -> Sessions]
  /\ NoSocket \notin Sockets
  /\ Sockets \cap Tasks = {}
  /\ Stored \in Nat
  /\ MaxTransactions \in Nat
  /\ MaxFaults \in Nat
  /\ Faults \subseteq FaultKinds

VARIABLES
  exists,           \* the room of the file exists
  users,            \* its users: session |-> the socket it entered by
  sequence_num,     \* its counter
  connections,      \* the sockets registered with a session and a file
  log,              \* the file's stream: number |-> transaction
  newest,           \* the largest number the stream ever held
  checkpoint,       \* the checkpoint in the API's database
  broadcasts,       \* the transactions sent to the room, with their numbers
  pc,               \* where a handler or a task is
  leaving,          \* the user it removes, by the socket, and why
  number,           \* the sequence number a handler holds
  transaction,      \* the transaction a handler holds
  received,         \* how many transactions were received
  givenUp,          \* the sockets the browser has given up
  faults            \* how often something went wrong

roomVars == <<exists, users, sequence_num>>
streamVars == <<log, newest, checkpoint, broadcasts>>
handlerVars == <<number, transaction, received>>
vars == <<roomVars, connections, streamVars, pc, leaving, handlerVars, givenUp, faults>>

Actors == Sockets \cup Tasks

Leaving == {"remove", "count", "drop", "unregister"}
SocketPlaces == Leaving \cup
  {"unused", "entering", "permitted", "joining", "lookup", "open", "checked", "numbered", "closing", "closed"}
TaskPlaces == Leaving \cup {"idle", "sending"}
Departures == [socket : Sockets, reason : {"message", "close", "stale", "broadcast"}]
NotLeaving == [socket |-> NoSocket, reason |-> "none"]

RoomTypeOK ==
  /\ exists \in BOOLEAN
  /\ users \in [Sessions -> Sockets \cup {NoSocket}]
  /\ sequence_num \in Nat
  /\ connections \subseteq Sockets

StreamTypeOK ==
  /\ newest \in Nat
  /\ DOMAIN log \subseteq 1..newest
  /\ \A n \in DOMAIN log : log[n] \in 0..MaxTransactions
  /\ checkpoint \in 0..newest
  /\ broadcasts \subseteq [number : Nat, transaction : 0..MaxTransactions]

(* A handler that removes a user knows which, and so does a task that is   *)
(* under way.                                                              *)
PlacesOK ==
  /\ pc \in [Actors -> SocketPlaces \cup TaskPlaces]
  /\ leaving \in [Actors -> Departures \cup {NotLeaving}]
  /\ \A c \in Sockets :
       /\ pc[c] \in SocketPlaces
       /\ pc[c] \in Leaving => leaving[c].socket = c /\ leaving[c].reason \in {"message", "close"}
  /\ \A t \in Tasks :
       /\ pc[t] \in TaskPlaces
       /\ pc[t] # "idle" => leaving[t].socket \in Sockets /\ leaving[t].reason \in {"stale", "broadcast"}

HandlersTypeOK ==
  /\ number \in [Sockets -> Nat]
  /\ transaction \in [Sockets -> 0..MaxTransactions]
  /\ received \in 0..MaxTransactions
  /\ givenUp \subseteq Sockets
  /\ faults \in 0..MaxFaults

TypeOK == RoomTypeOK /\ StreamTypeOK /\ PlacesOK /\ HandlersTypeOK

Nobody == [s \in Sessions |-> NoSocket]

(* The server starts with the stream it left when it was stopped; the      *)
(* transactions in there are all called 0.                                 *)
Init ==
  /\ exists = FALSE
  /\ users = Nobody
  /\ sequence_num = 0
  /\ connections = {}
  /\ log = [n \in 1..Stored |-> 0]
  /\ newest = Stored
  /\ checkpoint \in 0..Stored
  /\ broadcasts = {}
  /\ pc = [a \in Actors |-> IF a \in Sockets THEN "unused" ELSE "idle"]
  /\ leaving = [a \in Actors |-> NotLeaving]
  /\ number = [c \in Sockets |-> 0]
  /\ transaction = [c \in Sockets |-> 0]
  /\ received = 0
  /\ givenUp = {}
  /\ faults = 0

Larger(m, n) == IF m >= n THEN m ELSE n

Goto(a, place) == pc' = [pc EXCEPT ![a] = place]

Fault(kind) ==
  /\ kind \in Faults
  /\ faults < MaxFaults
  /\ faults' = faults + 1

(* The check of every message but EnterRoom: the room exists and somebody  *)
(* of this session is in it, by this socket or another.                    *)
InRoom(c) == exists /\ users[SessionOf[c]] # NoSocket

-----------------------------------------------------------------------------
(* Entering.  The browser opens a socket when its last one was closed or   *)
(* given up, and sends EnterRoom at once.                                  *)
Connect(c) ==
  /\ pc[c] = "unused"
  /\ \A d \in Sockets \ {c} :
       SessionOf[d] = SessionOf[c] => pc[d] \in {"unused", "closed"} \/ d \in givenUp
  /\ Goto(c, "entering")
  /\ UNCHANGED <<roomVars, connections, streamVars, leaving, handlerVars, givenUp, faults>>

(* The checkpoint comes with the permissions, the last number from Redis.  *)
GetFilePerms(c) ==
  /\ pc[c] = "entering"
  /\ number' = [number EXCEPT ![c] = Larger(checkpoint, newest)]
  /\ Goto(c, "permitted")
  /\ UNCHANGED <<roomVars, connections, streamVars, leaving, transaction, received, givenUp, faults>>

(* Without Redis the checkpoint has to do.                                 *)
GetFilePermsOnly(c) ==
  /\ pc[c] = "entering"
  /\ Fault("redis")
  /\ number' = [number EXCEPT ![c] = checkpoint]
  /\ Goto(c, "permitted")
  /\ UNCHANGED <<roomVars, connections, streamVars, leaving, transaction, received, givenUp>>

(* An API that refuses closes the socket; one that cannot be reached does  *)
(* not.  It is asked a second time only when there is no room.             *)
EnterFails(c) ==
  /\ pc[c] = "entering" \/ (pc[c] = "permitted" /\ ~exists)
  /\ Fault("api")
  /\ number' = [number EXCEPT ![c] = 0]
  /\ Goto(c, "closing") \/ Goto(c, "open")
  /\ UNCHANGED <<roomVars, connections, streamVars, leaving, transaction, received, givenUp>>

(* The room's number, or the checkpoint, if that is larger.                *)
GetMaxSequenceNum(c) ==
  /\ pc[c] = "permitted"
  /\ number' = [number EXCEPT ![c] = Larger(@, IF exists THEN sequence_num ELSE checkpoint)]
  /\ Goto(c, "joining")
  /\ UNCHANGED <<roomVars, connections, streamVars, leaving, transaction, received, givenUp, faults>>

(* A bug: the connection is registered only when the session is new.       *)
EnterRoom_RegistersNew(c) ==
  LET s == SessionOf[c] IN
  /\ pc[c] = "joining"
  /\ exists' = TRUE
  /\ sequence_num' = IF exists THEN sequence_num ELSE number[c]
  /\ users' = [users EXCEPT ![s] = c]
  /\ connections' = IF users[s] = NoSocket THEN connections \cup {c} ELSE connections
  /\ number' = [number EXCEPT ![c] = 0]
  /\ Goto(c, IF users[s] = NoSocket THEN "lookup" ELSE "open")
  /\ UNCHANGED <<streamVars, leaving, transaction, received, givenUp, faults>>

(* Enters the room by this socket, also if the session is there already; a *)
(* room that does not exist is created with the number computed before.    *)
EnterRoom(c) ==
  LET s == SessionOf[c] IN
  /\ pc[c] = "joining"
  /\ exists' = TRUE
  /\ sequence_num' = IF exists THEN sequence_num ELSE number[c]
  /\ users' = [users EXCEPT ![s] = c]
  /\ connections' = connections \cup {c}
  /\ number' = [number EXCEPT ![c] = 0]
  /\ Goto(c, IF users[s] = NoSocket THEN "lookup" ELSE "open")
  /\ UNCHANGED <<streamVars, leaving, transaction, received, givenUp, faults>>

(* A copy of the room for the broadcast of its users; without a room the   *)
(* socket is closed.                                                       *)
LookupRoom(c) ==
  /\ pc[c] = "lookup"
  /\ Goto(c, IF exists THEN "open" ELSE "closing")
  /\ UNCHANGED <<roomVars, connections, streamVars, leaving, handlerVars, givenUp, faults>>

-----------------------------------------------------------------------------
(* Transactions.                                                           *)

ReceiveTransaction(c) ==
  /\ pc[c] = "open"
  /\ InRoom(c)
  /\ received < MaxTransactions
  /\ received' = received + 1
  /\ transaction' = [transaction EXCEPT ![c] = received']
  /\ Goto(c, "checked")
  /\ UNCHANGED <<roomVars, connections, streamVars, leaving, number, givenUp, faults>>

(* The transaction gets the room's next number, under the lock.            *)
TakeNumber(c) ==
  /\ pc[c] = "checked"
  /\ exists
  /\ sequence_num' = sequence_num + 1
  /\ number' = [number EXCEPT ![c] = sequence_num']
  /\ Goto(c, "numbered")
  /\ UNCHANGED <<exists, users, connections, streamVars, leaving, transaction, received, givenUp, faults>>

RoomIsGone(c) ==
  /\ pc[c] = "checked"
  /\ ~exists
  /\ transaction' = [transaction EXCEPT ![c] = 0]
  /\ Goto(c, "closing")
  /\ UNCHANGED <<roomVars, connections, streamVars, leaving, number, received, givenUp, faults>>

(* Redis refuses a number that is not larger than all it ever took.        *)
AddToStream(c) ==
  /\ number[c] > newest
  /\ newest' = number[c]
  /\ log' = [n \in DOMAIN log \cup {number[c]} |-> IF n = number[c] THEN transaction[c] ELSE log[n]]

Sent(c) == [number |-> number[c], transaction |-> transaction[c]]

(* The message is done with, and with it what the handler held.            *)
Done(c) ==
  /\ number' = [number EXCEPT ![c] = 0]
  /\ transaction' = [transaction EXCEPT ![c] = 0]
  /\ Goto(c, "open")
  /\ UNCHANGED <<roomVars, connections, checkpoint, leaving, received, givenUp>>

(* Stores the transaction, under the mutex of the connection to Redis, and *)
(* spawns the broadcast of it with its number to all users.                *)
Push(c) ==
  /\ pc[c] = "numbered"
  /\ AddToStream(c)
  /\ broadcasts' = broadcasts \cup {Sent(c)}
  /\ Done(c)
  /\ UNCHANGED faults

(* A bug: the transaction is sent to the room all the same.                *)
PushRefused_Broadcasts(c) ==
  /\ pc[c] = "numbered"
  /\ number[c] <= newest
  /\ broadcasts' = broadcasts \cup {Sent(c)}
  /\ Done(c)
  /\ UNCHANGED <<log, newest, faults>>

(* The browser gets an error, which it logs; the socket stays open.        *)
PushRefused(c) ==
  /\ pc[c] = "numbered"
  /\ number[c] <= newest
  /\ Done(c)
  /\ UNCHANGED <<log, newest, broadcasts, faults>>

(* Either of the two writes fails: the stream, or the active channels.     *)
PushFails(c) ==
  /\ pc[c] = "numbered"
  /\ Fault("redis")
  /\ AddToStream(c) \/ UNCHANGED <<log, newest>>
  /\ Done(c)
  /\ UNCHANGED broadcasts

(* External: the file service saves the file.                              *)
Checkpoint ==
  /\ \E n \in DOMAIN log : n > checkpoint /\ checkpoint' = n
  /\ UNCHANGED <<roomVars, connections, log, newest, broadcasts, pc, leaving, handlerVars, givenUp, faults>>

-----------------------------------------------------------------------------
(* Leaving.  Four callers remove a user, each by the session: the message  *)
(* LeaveRoom, the end of a socket, the background worker and a broadcast   *)
(* whose sending fails.  What they do next depends on who they are.        *)
AfterLeave == [message |-> "lookup", close |-> "unregister", stale |-> "unregister", broadcast |-> "idle"]
AfterError == [message |-> "closing", close |-> "unregister", stale |-> "idle", broadcast |-> "idle"]

StartLeaving(a, c, why, place) ==
  /\ leaving' = [leaving EXCEPT ![a] = [socket |-> c, reason |-> why]]
  /\ Goto(a, place)

Continue(a, place) ==
  /\ leaving' = [leaving EXCEPT ![a] = IF place \in Leaving THEN @ ELSE NotLeaving]
  /\ Goto(a, place)

(* A bug: nobody looks whether the room is empty now.                      *)
RemoveUser_LeavesRoom(a) ==
  /\ pc[a] = "remove"
  /\ \/ /\ exists
        /\ users' = [users EXCEPT ![SessionOf[leaving[a].socket]] = NoSocket]
        /\ Continue(a, AfterLeave[leaving[a].reason])
     \/ /\ ~exists
        /\ Continue(a, AfterError[leaving[a].reason])
        /\ UNCHANGED users
  /\ UNCHANGED <<exists, sequence_num, connections, streamVars, handlerVars, givenUp, faults>>

RemoveUser(a) ==
  /\ pc[a] = "remove"
  /\ \/ /\ exists
        /\ users' = [users EXCEPT ![SessionOf[leaving[a].socket]] = NoSocket]
        /\ Continue(a, "count")
     \/ /\ ~exists
        /\ Continue(a, AfterError[leaving[a].reason])
        /\ UNCHANGED users
  /\ UNCHANGED <<exists, sequence_num, connections, streamVars, handlerVars, givenUp, faults>>

CountUsers(a) ==
  /\ pc[a] = "count"
  /\ \/ exists /\ users = Nobody /\ Continue(a, "drop")
     \/ exists /\ users # Nobody /\ Continue(a, AfterLeave[leaving[a].reason])
     \/ ~exists /\ Continue(a, AfterError[leaving[a].reason])
  /\ UNCHANGED <<roomVars, connections, streamVars, handlerVars, givenUp, faults>>

NoRoom ==
  /\ exists' = FALSE
  /\ users' = Nobody
  /\ sequence_num' = 0

(* The room is removed, whoever has entered it meanwhile.                  *)
RemoveRoom(a) ==
  /\ pc[a] = "drop"
  /\ NoRoom
  /\ Continue(a, AfterLeave[leaving[a].reason])
  /\ UNCHANGED <<connections, streamVars, handlerVars, givenUp, faults>>

Unregister(a) ==
  /\ pc[a] = "unregister"
  /\ connections' = connections \ {leaving[a].socket}
  /\ Continue(a, IF a \in Sockets THEN "closed" ELSE "idle")
  /\ UNCHANGED <<roomVars, streamVars, handlerVars, givenUp, faults>>

LeaveStep(a) == RemoveUser(a) \/ CountUsers(a) \/ RemoveRoom(a) \/ Unregister(a)

LeaveRoom(c) ==
  /\ pc[c] = "open"
  /\ InRoom(c)
  /\ StartLeaving(c, c, "message", "remove")
  /\ UNCHANGED <<roomVars, connections, streamVars, handlerVars, givenUp, faults>>

(* A bug: the error that the session is not in the room is only reported.  *)
Heartbeat_Reported(c) ==
  /\ pc[c] = "open"
  /\ ~InRoom(c)
  /\ UNCHANGED vars

(* A heartbeat, like every other message, ends the socket when the session *)
(* is not in the room.                                                     *)
Heartbeat(c) ==
  /\ pc[c] = "open"
  /\ ~InRoom(c)
  /\ Goto(c, "closing")
  /\ UNCHANGED <<roomVars, connections, streamVars, leaving, handlerVars, givenUp, faults>>

(* The browser closes the socket, loses the network or is gone; it may be  *)
(* back with a new socket before the server knows.                         *)
GiveUp(c) ==
  /\ pc[c] \notin {"unused", "closed"}
  /\ c \notin givenUp
  /\ givenUp' = givenUp \cup {c}
  /\ UNCHANGED <<roomVars, connections, streamVars, pc, leaving, handlerVars, faults>>

(* A bug: the handler leaves the room without its connection.              *)
NoticeClosed_Leaves(c) ==
  /\ pc[c] = "open"
  /\ c \in givenUp
  /\ Goto(c, "remove")
  /\ UNCHANGED <<roomVars, connections, streamVars, leaving, handlerVars, givenUp, faults>>

NoticeClosed(c) ==
  /\ pc[c] = "open"
  /\ c \in givenUp
  /\ Goto(c, "closing")
  /\ UNCHANGED <<roomVars, connections, streamVars, leaving, handlerVars, givenUp, faults>>

(* The handler ends: it removes its connection, if it is registered.       *)
RemoveConnection(c) ==
  /\ pc[c] = "closing"
  /\ \/ c \in connections /\ StartLeaving(c, c, "close", "remove")
     \/ c \notin connections /\ Continue(c, "closed")
  /\ UNCHANGED <<roomVars, connections, streamVars, handlerVars, givenUp, faults>>

-----------------------------------------------------------------------------
(* The tasks.  Each works on a copy of the room's users and removes one of *)
(* them; a task of the code that removes several is several of these.      *)

(* Silent for longer than the timeout: the browser is gone or asleep, or   *)
(* its heartbeats wait behind a message whose handler awaits an answer.    *)
RemoveStaleUser(t) ==
  /\ pc[t] = "idle"
  /\ exists
  /\ \E s \in Sessions :
       /\ users[s] # NoSocket
       /\ StartLeaving(t, users[s], "stale", "remove")
  /\ UNCHANGED <<roomVars, connections, streamVars, handlerVars, givenUp, faults>>

Broadcast(t) ==
  /\ pc[t] = "idle"
  /\ exists
  /\ \E s \in Sessions :
       /\ users[s] # NoSocket
       /\ StartLeaving(t, users[s], "broadcast", "sending")
  /\ UNCHANGED <<roomVars, connections, streamVars, handlerVars, givenUp, faults>>

SendFails(t) ==
  /\ pc[t] = "sending"
  /\ leaving[t].socket \in givenUp \/ pc[leaving[t].socket] = "closed"
  /\ Goto(t, "remove")
  /\ UNCHANGED <<roomVars, connections, streamVars, leaving, handlerVars, givenUp, faults>>

SendSucceeds(t) ==
  /\ pc[t] = "sending"
  /\ pc[leaving[t].socket] # "closed"
  /\ Continue(t, "idle")
  /\ UNCHANGED <<roomVars, connections, streamVars, handlerVars, givenUp, faults>>

(* Rooms, connections and sockets are gone; the stream and the API stay.   *)
Crash ==
  /\ Fault("crash")
  /\ NoRoom
  /\ connections' = {}
  /\ pc' = [a \in Actors |-> IF a \in Tasks THEN "idle" ELSE IF pc[a] = "unused" THEN "unused" ELSE "closed"]
  /\ leaving' = [a \in Actors |-> NotLeaving]
  /\ number' = [c \in Sockets |-> 0]
  /\ transaction' = [c \in Sockets |-> 0]
  /\ UNCHANGED <<streamVars, received, givenUp>>

-----------------------------------------------------------------------------
EnterStep(c) ==
  \/ GetFilePerms(c)
  \/ GetFilePermsOnly(c)
  \/ EnterFails(c)
  \/ GetMaxSequenceNum(c)
  \/ EnterRoom(c)
  \/ LookupRoom(c)

TransactionStep(c) ==
  \/ TakeNumber(c)
  \/ RoomIsGone(c)
  \/ Push(c)
  \/ PushRefused(c)
  \/ PushFails(c)

(* What a handler does without waiting for the browser to want something:  *)
(* it goes on with what it has begun, gets the heartbeats of a browser     *)
(* that is there, and learns at last that a socket was given up.           *)
HandlerStep(c) ==
  \/ EnterStep(c)
  \/ TransactionStep(c)
  \/ LeaveStep(c)
  \/ RemoveConnection(c)
  \/ NoticeClosed(c)
  \/ Heartbeat(c)

TaskStep(t) == SendFails(t) \/ SendSucceeds(t) \/ LeaveStep(t)

Next ==
  \/ \E c \in Sockets :
       \/ Connect(c)
       \/ ReceiveTransaction(c)
       \/ LeaveRoom(c)
       \/ GiveUp(c)
       \/ HandlerStep(c)
  \/ \E t \in Tasks :
       \/ RemoveStaleUser(t)
       \/ Broadcast(t)
       \/ TaskStep(t)
  \/ Checkpoint
  \/ Crash

Spec == Init /\ [][Next]_vars

FairSpec == Spec /\ \A c \in Sockets : WF_vars(HandlerStep(c))

-----------------------------------------------------------------------------
(* A number names one transaction: what the users were sent under a number *)
(* is what the stream holds under it, so that those who ask for it later   *)
(* get the same.  Rooms are created with numbers that were used; that the  *)
(* transaction is stored before it is sent is what saves it.               *)
BroadcastIsStored ==
  \A b \in broadcasts : b.number \in DOMAIN log /\ log[b.number] = b.transaction

(* Nobody is shown in the room whose socket is closed: whichever socket of *)
(* the session closes, and whoever removes it, in any order.               *)
NoGhostUsers ==
  \A s \in Sessions : users[s] # NoSocket =>
    users[s] \in connections /\ pc[users[s]] # "closed"

(* A room nobody is in is about to be removed: of several who leave at     *)
(* once, and some who come, one sees that the room is empty.               *)
EmptyRoomsGoAway ==
  (exists /\ users = Nobody) => \E a \in Actors : pc[a] \in {"count", "drop"}

(* A browser whose socket is open and is not the one the room sends to is  *)
(* cut off from what the others do; it comes back, or finds its socket     *)
(* closed and opens another.                                               *)
CutOffReconnects ==
  \A c \in Sockets :
    (pc[c] = "open" /\ users[SessionOf[c]] # c) ~> (pc[c] = "closed" \/ users[SessionOf[c]] = c)
=============================================================================
