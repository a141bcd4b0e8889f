---------------------- MODULE MultiplayerServer_proofs ----------------------
(***************************************************************************)
(* However many sockets, sessions and tasks there are and whatever fails,  *)
(* what the room was sent is in the stream, the room shows nobody whose    *)
(* socket is closed, and it goes away when the last one has left.          *)
(***************************************************************************)
EXTENDS MultiplayerServer, TLAPS

(* Where a handler is before it has entered the room; it enters once.      *)
Entering == {"unused", "entering", "permitted", "joining"}

(* The user of a session entered by a socket of that session, which is     *)
(* registered and whose handler has not ended.                             *)
UserInv ==
  /\ ~exists => users = Nobody
  /\ \A s \in Sessions : users[s] # NoSocket =>
       /\ SessionOf[users[s]] = s
       /\ users[s] \in connections
       /\ pc[users[s]] \notin Entering \cup {"closed"}

(* Whoever is to be removed has entered, and stays removed.                *)
LeavingInv ==
  \A a \in Actors : pc[a] \in Leaving \cup {"sending"} =>
    /\ pc[leaving[a].socket] \notin Entering
    /\ pc[a] \in {"count", "drop", "unregister"} =>
         users[SessionOf[leaving[a].socket]] # leaving[a].socket

RoomInv == UserInv /\ LeavingInv /\ EmptyRoomsGoAway

IndInv == TypeOK /\ BroadcastIsStored /\ RoomInv

-----------------------------------------------------------------------------
LEMMA InitInv == Init => IndInv
<1> SUFFICES ASSUME Init PROVE IndInv
  OBVIOUS
<1> USE MultiplayerServerAssumption DEF Init
<1>1. RoomTypeOK
  BY DEF RoomTypeOK, Nobody
<1>2. StreamTypeOK
  BY DEF StreamTypeOK
<1>3. PlacesOK
  BY DEF PlacesOK, Actors, SocketPlaces, TaskPlaces, Leaving
<1>4. HandlersTypeOK
  BY DEF HandlersTypeOK
<1>5. BroadcastIsStored
  BY DEF BroadcastIsStored
<1>6. UserInv
  BY DEF UserInv, Nobody
<1>7. LeavingInv
  BY DEF LeavingInv, Actors, Leaving
<1>8. EmptyRoomsGoAway
  BY DEF EmptyRoomsGoAway
<1> QED
  BY <1>1, <1>2, <1>3, <1>4, <1>5, <1>6, <1>7, <1>8 DEF IndInv, TypeOK, RoomInv

-----------------------------------------------------------------------------
(* Places.                                                                 *)

(* A handler goes to a place where it removes nobody.                      *)
LEMMA HandlerMoves ==
  ASSUME PlacesOK, NEW c \in Sockets, NEW place \in SocketPlaces \ Leaving,
         Goto(c, place), UNCHANGED leaving
  PROVE  PlacesOK'
BY MultiplayerServerAssumption DEF PlacesOK, Goto, Actors

LEMMA StartsLeaving ==
  ASSUME PlacesOK, NEW a \in Actors, NEW c \in Sockets,
         NEW why \in {"message", "close", "stale", "broadcast"}, NEW place,
         StartLeaving(a, c, why, place),
         a \in Sockets => c = a /\ why \in {"message", "close"} /\ place = "remove",
         a \in Tasks => why \in {"stale", "broadcast"} /\ place \in {"remove", "sending"}
  PROVE  PlacesOK'
<1> DEFINE departure == [socket |-> c, reason |-> why]
<1>1. departure \in Departures /\ departure.socket = c /\ departure.reason = why
  BY DEF Departures
<1> HIDE DEF departure
<1>2. /\ leaving' = [leaving EXCEPT ![a] = departure]
      /\ pc' = [pc EXCEPT ![a] = place]
  BY DEF StartLeaving, Goto, departure
<1> QED
  BY <1>1, <1>2, MultiplayerServerAssumption
  DEF PlacesOK, Actors, SocketPlaces, TaskPlaces, Leaving

(* Going on, to the next step of leaving or to the end of it.              *)
LEMMA Continues ==
  ASSUME PlacesOK, NEW a \in Actors, NEW place, Continue(a, place),
         place \in Leaving => pc[a] \in Leaving,
         a \in Sockets => place \in SocketPlaces,
         a \in Tasks => place \in Leaving \cup {"idle"}
  PROVE  PlacesOK'
<1>1. /\ leaving' = [leaving EXCEPT ![a] = IF place \in Leaving THEN leaving[a] ELSE NotLeaving]
      /\ pc' = [pc EXCEPT ![a] = place]
  BY DEF Continue, Goto, PlacesOK
<1>2. "idle" \notin Leaving
  BY DEF Leaving
<1> QED
  BY <1>1, <1>2, MultiplayerServerAssumption DEF PlacesOK, Actors, SocketPlaces, TaskPlaces

(* What comes after leaving, for those who leave.                          *)
LEMMA AfterLeaving ==
  ASSUME PlacesOK, NEW a \in Actors, pc[a] \in Leaving,
         NEW place \in {AfterLeave[leaving[a].reason], AfterError[leaving[a].reason]}
  PROVE  /\ a \in Sockets => place \in {"lookup", "closing", "unregister"}
         /\ a \in Tasks => place \in {"idle", "unregister"}
<1>1. CASE a \in Sockets
  BY <1>1, MultiplayerServerAssumption DEF PlacesOK, AfterLeave, AfterError
<1>2. CASE a \in Tasks
  <2>1. leaving[a].reason \in {"stale", "broadcast"}
    BY <1>2 DEF PlacesOK, Leaving
  <2> QED
    BY <2>1, <1>2, MultiplayerServerAssumption DEF AfterLeave, AfterError
<1> QED
  BY <1>1, <1>2 DEF Actors

-----------------------------------------------------------------------------
(* The room.                                                               *)

(* A step that leaves the room and the connections alone.                  *)
LEMMA RoomUntouched ==
  ASSUME PlacesOK, PlacesOK', RoomInv, NEW a \in Actors, NEW place,
         Goto(a, place), UNCHANGED <<exists, users, connections>>,
         \A b \in Actors \ {a} : leaving'[b] = leaving[b],
         place \in Entering => pc[a] \in Entering,
         place = "closed" => a \notin connections,
         pc[a] \in {"count", "drop"} /\ exists /\ users = Nobody => place = "drop",
         place \in Leaving \cup {"sending"} =>
           /\ leaving'[a].socket = a \/ pc[leaving'[a].socket] \notin Entering
           /\ place \in {"count", "drop", "unregister"} =>
                users[SessionOf[leaving'[a].socket]] # leaving'[a].socket
  PROVE  RoomInv'
<1>1. /\ pc' = [pc EXCEPT ![a] = place]
      /\ pc'[a] = place
      /\ \A b : b \in Actors /\ b # a => pc'[b] = pc[b]
  BY DEF Goto, PlacesOK
<1>2. Nobody' = Nobody
  BY DEF Nobody
<1>3. UserInv'
  <2>1. ~exists' => users' = Nobody
    BY DEF RoomInv, UserInv
  <2>2. ASSUME NEW s \in Sessions, users'[s] # NoSocket
        PROVE  /\ SessionOf[users'[s]] = s
               /\ users'[s] \in connections'
               /\ pc'[users'[s]] \notin Entering \cup {"closed"}
    <3>1. /\ SessionOf[users[s]] = s
          /\ users[s] \in connections
          /\ pc[users[s]] \notin Entering \cup {"closed"}
      BY <2>2 DEF RoomInv, UserInv
    <3>2. CASE users[s] = a
      BY <3>1, <3>2, <1>1
    <3>3. CASE users[s] # a
      <4>1. pc'[users[s]] = pc[users[s]]
        BY <1>1, <3>3, PlacesOK DEF PlacesOK
      <4> QED
        BY <4>1, <3>1
    <3> QED
      BY <3>2, <3>3
  <2> QED
    BY <2>1, <2>2, <1>2 DEF UserInv
<1>4. LeavingInv'
  <2> SUFFICES ASSUME NEW b \in Actors, pc'[b] \in Leaving \cup {"sending"}
               PROVE  /\ pc'[leaving'[b].socket] \notin Entering
                      /\ pc'[b] \in {"count", "drop", "unregister"} =>
                           users'[SessionOf[leaving'[b].socket]] # leaving'[b].socket
    BY DEF LeavingInv
  <2>1. place \in Entering => pc[a] \in Entering
    OBVIOUS
  <2>2. CASE b = a
    <3>1. /\ leaving'[a].socket = a \/ pc[leaving'[a].socket] \notin Entering
          /\ place \in {"count", "drop", "unregister"} =>
               users[SessionOf[leaving'[a].socket]] # leaving'[a].socket
      BY <2>2, <1>1
    <3>2. place \notin Entering
      BY <2>2, <1>1 DEF Leaving, Entering
    <3> QED
      BY <3>1, <3>2, <2>2, <1>1
  <2>3. CASE b # a
    <3>1. pc[b] \in Leaving \cup {"sending"} /\ pc'[b] = pc[b] /\ leaving'[b] = leaving[b]
      BY <2>3, <1>1
    <3>2. /\ pc[leaving[b].socket] \notin Entering
          /\ pc[b] \in {"count", "drop", "unregister"} =>
               users[SessionOf[leaving[b].socket]] # leaving[b].socket
      BY <3>1 DEF RoomInv, LeavingInv
    <3>3. pc'[leaving[b].socket] \notin Entering
      BY <3>2, <2>1, <1>1, PlacesOK DEF PlacesOK
    <3> QED
      BY <3>1, <3>2, <3>3
  <2> QED
    BY <2>2, <2>3
<1>5. EmptyRoomsGoAway'
  BY <1>1, <1>2 DEF RoomInv, EmptyRoomsGoAway
<1> QED
  BY <1>3, <1>4, <1>5 DEF RoomInv

(* A handler that neither enters nor leaves.                               *)
LEMMA QuietStep ==
  ASSUME PlacesOK, RoomInv, NEW c \in Sockets,
         NEW place \in SocketPlaces \ (Leaving \cup {"closed"}),
         Goto(c, place), UNCHANGED <<exists, users, connections, leaving>>,
         place \in Entering => pc[c] \in Entering,
         pc[c] \notin Leaving
  PROVE  PlacesOK' /\ RoomInv'
<1>1. PlacesOK'
  BY HandlerMoves
<1>2. c \in Actors
  BY DEF Actors
<1>3. pc[c] \notin {"count", "drop"} /\ place \notin Leaving \cup {"sending"} /\ place # "closed"
  BY DEF Leaving, SocketPlaces
<1> QED
  BY <1>1, <1>2, <1>3, RoomUntouched

-----------------------------------------------------------------------------
(* Leaving.                                                                *)

LEMMA StartsLeavingRoom ==
  ASSUME PlacesOK, RoomInv, NEW a \in Actors, NEW c \in Sockets,
         NEW why \in {"message", "close", "stale", "broadcast"}, NEW place,
         StartLeaving(a, c, why, place), UNCHANGED <<exists, users, connections>>,
         pc[a] \notin {"count", "drop"},
         a \in Sockets => c = a /\ why \in {"message", "close"} /\ place = "remove",
         a \in Tasks => why \in {"stale", "broadcast"} /\ place \in {"remove", "sending"},
         c = a \/ pc[c] \notin Entering
  PROVE  PlacesOK' /\ RoomInv'
<1>1. PlacesOK'
  BY StartsLeaving
<1>2. place \in {"remove", "sending"}
  BY DEF Actors
<1>3. /\ Goto(a, place)
      /\ leaving'[a].socket = c
      /\ \A b \in Actors \ {a} : leaving'[b] = leaving[b]
  BY DEF StartLeaving, PlacesOK
<1>4. place \notin Entering /\ place \notin {"closed", "count", "drop", "unregister"}
  BY <1>2 DEF Entering
<1> QED
  BY <1>1, <1>3, <1>4, RoomUntouched

LEMMA LeaverHasEntered ==
  ASSUME PlacesOK, RoomInv, NEW a \in Actors, pc[a] \in Leaving \cup {"sending"}
  PROVE  leaving[a].socket \in Sockets /\ pc[leaving[a].socket] \notin Entering
<1>1. CASE a \in Sockets
  <2>1. pc[a] \in Leaving
    BY <1>1 DEF PlacesOK, SocketPlaces, Leaving
  <2> QED
    BY <1>1, <2>1 DEF PlacesOK, Entering, Leaving
<1>2. CASE a \in Tasks
  <2>1. pc[a] # "idle"
    BY DEF Leaving
  <2> QED
    BY <1>2, <2>1 DEF PlacesOK, RoomInv, LeavingInv
<1> QED
  BY <1>1, <1>2 DEF Actors

LEMMA RemoveUserInv ==
  ASSUME IndInv, NEW a \in Actors, RemoveUser(a)
  PROVE  PlacesOK' /\ RoomInv' /\ RoomTypeOK'
<1> DEFINE c == leaving[a].socket
           after == AfterError[leaving[a].reason]
<1>1. PlacesOK /\ RoomInv /\ RoomTypeOK
  BY DEF IndInv, TypeOK
<1>2. pc[a] \in Leaving /\ pc[a] = "remove"
  BY DEF RemoveUser, Leaving
<1>3. c \in Sockets /\ pc[c] \notin Entering
  BY <1>1, <1>2, LeaverHasEntered
<1>4. CASE exists /\ users' = [users EXCEPT ![SessionOf[c]] = NoSocket] /\ Continue(a, "count")
  <2>0. UNCHANGED <<exists, sequence_num, connections>>
    BY DEF RemoveUser
  <2>1. PlacesOK'
    BY <1>1, <1>2, <1>4, Continues DEF SocketPlaces, Leaving
  <2>2. SessionOf[c] \in Sessions
    BY <1>3, MultiplayerServerAssumption
  <2>3. /\ users' \in [Sessions -> Sockets \cup {NoSocket}]
        /\ users'[SessionOf[c]] = NoSocket
        /\ \A s \in Sessions : users'[s] \in {users[s], NoSocket}
    BY <1>1, <1>4, <2>2 DEF RoomTypeOK
  <2>4. /\ pc' = [pc EXCEPT ![a] = "count"]
        /\ leaving' = [leaving EXCEPT ![a] = leaving[a]]
    BY <1>1, <1>4 DEF Continue, Goto, Leaving, PlacesOK
  <2>5. /\ pc'[a] = "count"
        /\ leaving' = leaving
        /\ \A b \in Actors : b # a => pc'[b] = pc[b]
    BY <1>1, <2>4 DEF PlacesOK
  <2>6. RoomTypeOK'
    BY <1>1, <2>0, <2>3 DEF RoomTypeOK
  <2>7. UserInv'
    <3> SUFFICES ASSUME NEW s \in Sessions, users'[s] # NoSocket
                 PROVE  /\ SessionOf[users'[s]] = s
                        /\ users'[s] \in connections'
                        /\ pc'[users'[s]] \notin Entering \cup {"closed"}
      BY <1>4, <2>0 DEF UserInv
    <3>1. users'[s] = users[s]
      BY <2>3
    <3>2. /\ SessionOf[users[s]] = s
          /\ users[s] \in connections
          /\ pc[users[s]] \notin Entering \cup {"closed"}
      BY <1>1, <3>1 DEF RoomInv, UserInv
    <3>3. pc'[users[s]] \in {pc[users[s]], "count"}
      BY <2>4, <1>1 DEF PlacesOK
    <3> QED
      BY <3>1, <3>2, <3>3, <2>0 DEF Entering
  <2>8. LeavingInv'
    <3> SUFFICES ASSUME NEW b \in Actors, pc'[b] \in Leaving \cup {"sending"}
                 PROVE  /\ pc'[leaving[b].socket] \notin Entering
                        /\ pc'[b] \in {"count", "drop", "unregister"} =>
                             users'[SessionOf[leaving[b].socket]] # leaving[b].socket
      BY <2>5 DEF LeavingInv
    <3>0. pc[b] \in Leaving \cup {"sending"}
      BY <1>2, <2>5
    <3>1. leaving[b].socket \in Sockets /\ pc[leaving[b].socket] \notin Entering
      BY <1>1, <3>0, LeaverHasEntered
    <3>2. pc'[leaving[b].socket] \notin Entering
      BY <3>1, <2>5 DEF Entering, Actors
    <3>3. SessionOf[leaving[b].socket] \in Sessions /\ leaving[b].socket # NoSocket
      BY <3>1, MultiplayerServerAssumption
    <3>4. CASE b = a
      BY <3>2, <3>3, <3>4, <2>3
    <3>5. CASE b # a
      BY <3>2, <3>3, <3>5, <2>3, <2>5, <1>1 DEF RoomInv, LeavingInv
    <3> QED
      BY <3>4, <3>5
  <2>9. EmptyRoomsGoAway'
    BY <2>5 DEF EmptyRoomsGoAway
  <2> QED
    BY <2>1, <2>6, <2>7, <2>8, <2>9 DEF RoomInv
<1>5. CASE ~exists /\ Continue(a, after) /\ UNCHANGED users
  <2>0. UNCHANGED <<exists, users, sequence_num, connections>>
    BY <1>5 DEF RemoveUser
  <2>1. /\ a \in Sockets => after \in {"lookup", "closing", "unregister"}
        /\ a \in Tasks => after \in {"idle", "unregister"}
    BY <1>1, <1>2, AfterLeaving
  <2>2. /\ after \notin Entering \cup {"closed", "sending"}
        /\ after \in Leaving => after = "unregister"
        /\ a \in Sockets => after \in SocketPlaces
        /\ a \in Tasks => after \in Leaving \cup {"idle"}
    BY <2>1 DEF Entering, SocketPlaces, Leaving, Actors
  <2> HIDE DEF after
  <2>3. PlacesOK'
    BY <1>1, <1>2, <1>5, <2>2, Continues
  <2>4. /\ Goto(a, after)
        /\ \A b \in Actors \ {a} : leaving'[b] = leaving[b]
        /\ after = "unregister" => leaving'[a] = leaving[a]
    BY <1>1, <1>5, <2>2 DEF Continue, PlacesOK, Leaving
  <2>5. users[SessionOf[c]] # c
    <3>1. users = Nobody /\ SessionOf[c] \in Sessions /\ c # NoSocket
      BY <1>1, <1>3, <1>5, MultiplayerServerAssumption DEF RoomInv, UserInv
    <3> QED
      BY <3>1 DEF Nobody
  <2>6. after \in Leaving \cup {"sending"} =>
           /\ leaving'[a].socket = a \/ pc[leaving'[a].socket] \notin Entering
           /\ after \in {"count", "drop", "unregister"} =>
                users[SessionOf[leaving'[a].socket]] # leaving'[a].socket
    BY <1>3, <2>2, <2>4, <2>5
  <2>7. RoomInv'
    BY <1>1, <1>2, <2>0, <2>2, <2>3, <2>4, <2>6, RoomUntouched
  <2> QED
    BY <1>1, <2>0, <2>3, <2>7 DEF RoomTypeOK
<1> QED
  BY <1>4, <1>5 DEF RemoveUser

LEMMA CountUsersInv ==
  ASSUME IndInv, NEW a \in Actors, CountUsers(a)
  PROVE  PlacesOK' /\ RoomInv'
<1> DEFINE c == leaving[a].socket
<1>1. /\ PlacesOK /\ RoomInv
      /\ pc[a] = "count" /\ pc[a] \in Leaving
      /\ UNCHANGED <<exists, users, connections>>
  BY DEF IndInv, TypeOK, CountUsers, Leaving, roomVars
<1>2. /\ c \in Sockets /\ pc[c] \notin Entering
      /\ users[SessionOf[c]] # c
  <2>1. c \in Sockets /\ pc[c] \notin Entering
    BY <1>1, LeaverHasEntered
  <2>2. users[SessionOf[c]] # c
    BY <1>1 DEF RoomInv, LeavingInv
  <2> QED
    BY <2>1, <2>2
<1>3. PICK place \in {"drop", AfterLeave[leaving[a].reason], AfterError[leaving[a].reason]} :
        /\ Continue(a, place)
        /\ exists /\ users = Nobody => place = "drop"
  BY DEF CountUsers
<1>4. /\ a \in Sockets => place \in {"drop", "lookup", "closing", "unregister"}
      /\ a \in Tasks => place \in {"drop", "idle", "unregister"}
  BY <1>1, AfterLeaving
<1>5. /\ place \notin Entering \cup {"closed", "sending"}
      /\ a \in Sockets => place \in SocketPlaces
      /\ a \in Tasks => place \in Leaving \cup {"idle"}
  BY <1>4 DEF Entering, SocketPlaces, Leaving, Actors
<1>6. PlacesOK'
  BY <1>1, <1>3, <1>5, Continues
<1>7. /\ Goto(a, place)
      /\ \A b \in Actors \ {a} : leaving'[b] = leaving[b]
      /\ place \in Leaving => leaving'[a] = leaving[a]
  BY <1>1, <1>3 DEF Continue, PlacesOK
<1>8. place \in Leaving \cup {"sending"} =>
        /\ leaving'[a].socket = a \/ pc[leaving'[a].socket] \notin Entering
        /\ place \in {"count", "drop", "unregister"} =>
             users[SessionOf[leaving'[a].socket]] # leaving'[a].socket
  BY <1>2, <1>5, <1>7
<1>9. RoomInv'
  BY <1>1, <1>3, <1>5, <1>6, <1>7, <1>8, RoomUntouched
<1> QED
  BY <1>6, <1>9

LEMMA RemoveRoomInv ==
  ASSUME IndInv, NEW a \in Actors, RemoveRoom(a)
  PROVE  PlacesOK' /\ RoomInv' /\ RoomTypeOK'
<1> DEFINE place == AfterLeave[leaving[a].reason]
<1>1. /\ PlacesOK /\ RoomInv /\ RoomTypeOK
      /\ pc[a] = "drop" /\ pc[a] \in Leaving
      /\ exists' = FALSE /\ users' = Nobody /\ sequence_num' = 0
      /\ Continue(a, place)
      /\ UNCHANGED connections
  BY DEF IndInv, TypeOK, RemoveRoom, NoRoom, Leaving
<1>2. /\ a \in Sockets => place \in {"lookup", "closing", "unregister"}
      /\ a \in Tasks => place \in {"idle", "unregister"}
  BY <1>1, AfterLeaving
<1>3. /\ place \notin Entering \cup {"sending"}
      /\ place \in Leaving => place = "unregister"
      /\ a \in Sockets => place \in SocketPlaces
      /\ a \in Tasks => place \in Leaving \cup {"idle"}
  BY <1>2 DEF Entering, SocketPlaces, Leaving, Actors
<1> HIDE DEF place
<1>4. PlacesOK'
  BY <1>1, <1>3, Continues
<1>5. RoomTypeOK'
  BY <1>1 DEF RoomTypeOK, Nobody
<1>6. UserInv' /\ EmptyRoomsGoAway'
  BY <1>1 DEF UserInv, EmptyRoomsGoAway, Nobody
<1>7. LeavingInv'
  <2>1. /\ pc' = [pc EXCEPT ![a] = place]
        /\ leaving' = [leaving EXCEPT ![a] = IF place \in Leaving THEN leaving[a] ELSE NotLeaving]
    BY <1>1 DEF Continue, Goto, PlacesOK
  <2> SUFFICES ASSUME NEW b \in Actors, pc'[b] \in Leaving \cup {"sending"}
               PROVE  /\ pc'[leaving'[b].socket] \notin Entering
                      /\ users'[SessionOf[leaving'[b].socket]] # leaving'[b].socket
    BY DEF LeavingInv
  <2>2. pc[b] \in Leaving \cup {"sending"} /\ leaving'[b] = leaving[b]
    BY <1>1, <1>3, <2>1 DEF PlacesOK
  <2>3. leaving[b].socket \in Sockets /\ pc[leaving[b].socket] \notin Entering
    BY <1>1, <2>2, LeaverHasEntered
  <2>4. pc'[leaving[b].socket] \notin Entering
    BY <1>1, <1>3, <2>1, <2>3 DEF PlacesOK
  <2>5. users'[SessionOf[leaving[b].socket]] # leaving[b].socket
    BY <1>1, <2>3, MultiplayerServerAssumption DEF Nobody
  <2> QED
    BY <2>2, <2>4, <2>5
<1> QED
  BY <1>4, <1>5, <1>6, <1>7 DEF RoomInv

LEMMA UnregisterInv ==
  ASSUME IndInv, NEW a \in Actors, Unregister(a)
  PROVE  PlacesOK' /\ RoomInv' /\ RoomTypeOK'
<1> DEFINE c == leaving[a].socket
           place == IF a \in Sockets THEN "closed" ELSE "idle"
<1>1. /\ PlacesOK /\ RoomInv /\ RoomTypeOK
      /\ pc[a] = "unregister" /\ pc[a] \in Leaving
      /\ connections' = connections \ {c}
      /\ Continue(a, place)
      /\ UNCHANGED <<exists, users, sequence_num>>
  BY DEF IndInv, TypeOK, Unregister, Leaving, roomVars
<1>2. /\ c \in Sockets /\ users[SessionOf[c]] # c
      /\ a \in Sockets => c = a
  BY <1>1, LeaverHasEntered DEF RoomInv, LeavingInv, PlacesOK
<1>3. /\ place \notin Leaving \cup Entering \cup {"sending"}
      /\ a \in Sockets => place = "closed" /\ place \in SocketPlaces
      /\ a \in Tasks => place \in Leaving \cup {"idle"}
  BY MultiplayerServerAssumption DEF Leaving, Entering, SocketPlaces
<1> HIDE DEF place
<1>4. PlacesOK'
  BY <1>1, <1>3, Continues
<1>5. RoomTypeOK'
  BY <1>1 DEF RoomTypeOK
<1>6. /\ pc' = [pc EXCEPT ![a] = place]
      /\ pc'[a] = place
      /\ \A b \in Actors : b # a => pc'[b] = pc[b] /\ leaving'[b] = leaving[b]
  BY <1>1 DEF Continue, Goto, PlacesOK
<1>7. UserInv'
  <2> SUFFICES ASSUME NEW s \in Sessions, users[s] # NoSocket
               PROVE  /\ SessionOf[users[s]] = s
                      /\ users[s] \in connections'
                      /\ pc'[users[s]] \notin Entering \cup {"closed"}
    BY <1>1 DEF UserInv, RoomInv, Nobody
  <2>1. /\ SessionOf[users[s]] = s
        /\ users[s] \in connections
        /\ pc[users[s]] \notin Entering \cup {"closed"}
    BY <1>1 DEF RoomInv, UserInv
  <2>2. users[s] # c /\ users[s] \in Sockets
    BY <1>1, <1>2, <2>1 DEF RoomTypeOK
  <2>3. users[s] # a
    BY <1>2, <2>2
  <2> QED
    BY <1>1, <1>6, <2>1, <2>2, <2>3 DEF Actors
<1>8. LeavingInv'
  <2> SUFFICES ASSUME NEW b \in Actors, pc'[b] \in Leaving \cup {"sending"}
               PROVE  /\ pc'[leaving'[b].socket] \notin Entering
                      /\ pc'[b] \in {"count", "drop", "unregister"} =>
                           users[SessionOf[leaving'[b].socket]] # leaving'[b].socket
    BY <1>1 DEF LeavingInv
  <2>1. b # a /\ pc[b] = pc'[b] /\ leaving'[b] = leaving[b]
    BY <1>3, <1>6
  <2>2. leaving[b].socket \in Sockets /\ pc[leaving[b].socket] \notin Entering
    BY <1>1, <2>1, LeaverHasEntered
  <2>3. pc'[leaving[b].socket] \notin Entering
    BY <1>3, <1>6, <2>2 DEF Actors
  <2> QED
    BY <1>1, <2>1, <2>3 DEF RoomInv, LeavingInv
<1>9. EmptyRoomsGoAway'
  <2>1. Nobody' = Nobody
    BY DEF Nobody
  <2> QED
    BY <1>1, <1>6, <2>1 DEF RoomInv, EmptyRoomsGoAway
<1> QED
  BY <1>4, <1>5, <1>7, <1>8, <1>9 DEF RoomInv

(* The end of a handler.                                                   *)
LEMMA RemoveConnectionInv ==
  ASSUME IndInv, NEW c \in Sockets, RemoveConnection(c)
  PROVE  PlacesOK' /\ RoomInv'
<1>1. /\ PlacesOK /\ RoomInv
      /\ c \in Actors /\ pc[c] = "closing"
      /\ UNCHANGED <<exists, users, connections>>
  BY DEF IndInv, TypeOK, RemoveConnection, Actors, roomVars
<1>2. CASE StartLeaving(c, c, "close", "remove")
  BY <1>1, <1>2, MultiplayerServerAssumption, StartsLeavingRoom
<1>3. CASE c \notin connections /\ Continue(c, "closed")
  <2>1. "closed" \in SocketPlaces \ (Leaving \cup Entering \cup {"sending"})
    BY DEF SocketPlaces, Leaving, Entering
  <2>2. PlacesOK'
    BY <1>1, <1>3, <2>1, MultiplayerServerAssumption, Continues
  <2>3. Goto(c, "closed") /\ \A b \in Actors \ {c} : leaving'[b] = leaving[b]
    BY <1>1, <1>3 DEF Continue, PlacesOK
  <2>4. RoomInv'
    BY <1>1, <1>3, <2>1, <2>2, <2>3, RoomUntouched
  <2> QED
    BY <2>2, <2>4
<1> QED
  BY <1>2, <1>3 DEF RemoveConnection

(* The tasks that remove a user of the room.                               *)
LEMMA TaskStartsInv ==
  ASSUME IndInv, NEW t \in Tasks, RemoveStaleUser(t) \/ Broadcast(t)
  PROVE  PlacesOK' /\ RoomInv'
<1>1. /\ PlacesOK /\ RoomInv /\ RoomTypeOK
      /\ t \in Actors /\ t \notin Sockets /\ pc[t] = "idle"
      /\ givenUp \subseteq Sockets
      /\ UNCHANGED <<exists, users, connections>>
  BY MultiplayerServerAssumption
  DEF IndInv, TypeOK, HandlersTypeOK, RemoveStaleUser, Broadcast, Actors, roomVars
<1>2. PICK s \in Sessions, why \in {"stale", "broadcast"}, place \in {"remove", "sending"} :
        /\ users[s] \in Sockets
        /\ StartLeaving(t, users[s], why, place)
  <2>1. ASSUME NEW s \in Sessions, users[s] # NoSocket
        PROVE  users[s] \in Sockets
    BY <1>1, <2>1 DEF RoomTypeOK
  <2> QED
    BY <1>1, <2>1 DEF RemoveStaleUser, Broadcast
<1>3. pc[users[s]] \notin Entering
  BY <1>1, <1>2, MultiplayerServerAssumption DEF RoomInv, UserInv
<1> QED
  BY <1>1, <1>2, <1>3, StartsLeavingRoom

LEMMA SendInv ==
  ASSUME IndInv, NEW t \in Tasks, SendFails(t) \/ SendSucceeds(t)
  PROVE  PlacesOK' /\ RoomInv'
<1>1. /\ PlacesOK /\ RoomInv
      /\ t \in Actors /\ t \notin Sockets /\ pc[t] = "sending"
      /\ UNCHANGED <<exists, users, connections>>
  BY MultiplayerServerAssumption DEF IndInv, TypeOK, SendFails, SendSucceeds, Actors, roomVars
<1>2. pc[leaving[t].socket] \notin Entering
  BY <1>1, LeaverHasEntered
<1>3. CASE SendFails(t)
  <2>1. Goto(t, "remove") /\ UNCHANGED leaving
    BY <1>3 DEF SendFails
  <2>2. PlacesOK'
    BY <1>1, <2>1, MultiplayerServerAssumption DEF PlacesOK, Goto, Actors, TaskPlaces, Leaving
  <2>3. "remove" \notin Entering
    BY DEF Entering
  <2> QED
    BY <1>1, <1>2, <2>1, <2>2, <2>3, RoomUntouched
<1>4. CASE SendSucceeds(t)
  <2>1. Continue(t, "idle") /\ "idle" \notin Leaving \cup Entering \cup {"sending"}
    BY <1>4 DEF SendSucceeds, Leaving, Entering
  <2>2. PlacesOK'
    BY <1>1, <2>1, Continues
  <2>3. Goto(t, "idle") /\ \A b \in Actors \ {t} : leaving'[b] = leaving[b]
    BY <1>1, <2>1 DEF Continue, PlacesOK
  <2> QED
    BY <1>1, <2>1, <2>2, <2>3, RoomUntouched
<1> QED
  BY <1>3, <1>4

-----------------------------------------------------------------------------
(* Entering, and the restart of the server.                                *)

(* A handler whose socket has not entered is nobody's user and nobody      *)
(* removes it; it becomes the user of its session.                         *)
LEMMA EnterRoomInv ==
  ASSUME IndInv, NEW c \in Sockets, EnterRoom(c)
  PROVE  PlacesOK' /\ RoomInv' /\ RoomTypeOK'
<1> DEFINE place == IF users[SessionOf[c]] = NoSocket THEN "lookup" ELSE "open"
<1>1. /\ PlacesOK /\ RoomInv /\ RoomTypeOK /\ HandlersTypeOK
      /\ c \in Actors /\ pc[c] = "joining" /\ pc[c] \in Entering
      /\ exists' = TRUE
      /\ sequence_num' = IF exists THEN sequence_num ELSE number[c]
      /\ users' = [users EXCEPT ![SessionOf[c]] = c]
      /\ connections' = connections \cup {c}
      /\ Goto(c, place)
      /\ UNCHANGED leaving
  BY DEF IndInv, TypeOK, EnterRoom, Actors, Entering
<1>2. place \in SocketPlaces \ (Leaving \cup Entering \cup {"closed", "sending"})
  BY DEF SocketPlaces, Leaving, Entering
<1> HIDE DEF place
<1>3. PlacesOK'
  BY <1>1, <1>2, HandlerMoves
<1>4. SessionOf[c] \in Sessions /\ c # NoSocket
  BY MultiplayerServerAssumption
<1>5. RoomTypeOK'
  BY <1>1, <1>4 DEF RoomTypeOK, HandlersTypeOK
<1>6. /\ pc'[c] = place
      /\ \A b \in Actors : b # c => pc'[b] = pc[b]
      /\ users'[SessionOf[c]] = c
      /\ \A s \in Sessions : s # SessionOf[c] => users'[s] = users[s]
  BY <1>1, <1>4 DEF Goto, PlacesOK, RoomTypeOK
<1>7. UserInv'
  <2> SUFFICES ASSUME NEW s \in Sessions, users'[s] # NoSocket
               PROVE  /\ SessionOf[users'[s]] = s
                      /\ users'[s] \in connections'
                      /\ pc'[users'[s]] \notin Entering \cup {"closed"}
    BY <1>1 DEF UserInv
  <2>1. CASE s = SessionOf[c]
    BY <2>1, <1>1, <1>2, <1>6
  <2>2. CASE s # SessionOf[c]
    <3>1. /\ users'[s] = users[s]
          /\ SessionOf[users[s]] = s
          /\ users[s] \in connections
          /\ pc[users[s]] \notin Entering \cup {"closed"}
      BY <2>2, <1>1, <1>6 DEF RoomInv, UserInv
    <3>2. users[s] # c /\ users[s] \in Actors
      BY <2>2, <3>1, <1>1 DEF RoomTypeOK, Actors
    <3> QED
      BY <3>1, <3>2, <1>1, <1>6
  <2> QED
    BY <2>1, <2>2
<1>8. LeavingInv'
  <2> SUFFICES ASSUME NEW b \in Actors, pc'[b] \in Leaving \cup {"sending"}
               PROVE  /\ pc'[leaving[b].socket] \notin Entering
                      /\ pc'[b] \in {"count", "drop", "unregister"} =>
                           users'[SessionOf[leaving[b].socket]] # leaving[b].socket
    BY <1>1 DEF LeavingInv
  <2>1. pc[b] = pc'[b]
    BY <1>2, <1>6
  <2>2. leaving[b].socket \in Sockets /\ pc[leaving[b].socket] \notin Entering
    BY <1>1, <2>1, LeaverHasEntered
  <2>3. leaving[b].socket # c
    BY <1>1, <2>2
  <2>4. pc'[leaving[b].socket] \notin Entering
    BY <1>6, <2>2, <2>3 DEF Actors
  <2>5. SessionOf[leaving[b].socket] \in Sessions
    BY <2>2, MultiplayerServerAssumption
  <2>6. pc'[b] \in {"count", "drop", "unregister"} =>
          users[SessionOf[leaving[b].socket]] # leaving[b].socket
    BY <1>1, <2>1 DEF RoomInv, LeavingInv
  <2> QED
    BY <1>6, <2>3, <2>4, <2>5, <2>6
<1>9. EmptyRoomsGoAway'
  BY <1>4, <1>6 DEF EmptyRoomsGoAway, Nobody
<1> QED
  BY <1>3, <1>5, <1>7, <1>8, <1>9 DEF RoomInv

LEMMA CrashInv ==
  ASSUME IndInv, Crash
  PROVE  PlacesOK' /\ RoomInv' /\ RoomTypeOK'
<1>1. /\ PlacesOK
      /\ exists' = FALSE /\ users' = Nobody /\ sequence_num' = 0 /\ connections' = {}
      /\ leaving' = [a \in Actors |-> NotLeaving]
      /\ pc' = [a \in Actors |-> IF a \in Tasks THEN "idle" ELSE IF pc[a] = "unused" THEN "unused" ELSE "closed"]
  BY DEF IndInv, TypeOK, Crash, NoRoom
<1>2. \A a \in Actors : /\ pc'[a] \in {"idle", "unused", "closed"}
                        /\ a \in Tasks => pc'[a] = "idle"
                        /\ a \in Sockets => pc'[a] \in {"unused", "closed"}
  BY <1>1, MultiplayerServerAssumption DEF Actors
<1>3. PlacesOK'
  <2>1. /\ pc' \in [Actors -> SocketPlaces \cup TaskPlaces]
        /\ leaving' \in [Actors -> Departures \cup {NotLeaving}]
    BY <1>1, <1>2 DEF SocketPlaces, TaskPlaces
  <2> QED
    BY <1>2, <2>1 DEF PlacesOK, Actors, SocketPlaces, TaskPlaces, Leaving
<1>4. RoomInv'
  <2>1. UserInv'
    BY <1>1 DEF UserInv, Nobody
  <2>2. LeavingInv'
    BY <1>2 DEF LeavingInv, Leaving
  <2>3. EmptyRoomsGoAway'
    BY <1>1 DEF EmptyRoomsGoAway
  <2> QED
    BY <2>1, <2>2, <2>3 DEF RoomInv
<1> QED
  BY <1>1, <1>3, <1>4 DEF RoomTypeOK, Nobody

-----------------------------------------------------------------------------
(* The other steps of a handler: from a place outside the room to another. *)

LEMMA QuietHandlerInv ==
  ASSUME IndInv, NEW c \in Sockets,
         \/ Connect(c) \/ GetFilePerms(c) \/ GetFilePermsOnly(c) \/ EnterFails(c)
         \/ GetMaxSequenceNum(c) \/ LookupRoom(c)
         \/ ReceiveTransaction(c) \/ TransactionStep(c)
         \/ Heartbeat(c) \/ NoticeClosed(c)
  PROVE  PlacesOK' /\ RoomInv'
<1>1. PlacesOK /\ RoomInv
  BY DEF IndInv, TypeOK
<1>2. PICK place \in {"entering", "permitted", "joining", "open", "closing", "checked", "numbered"} :
        /\ Goto(c, place)
        /\ place \in Entering => pc[c] \in Entering
        /\ pc[c] \notin Leaving
        /\ UNCHANGED <<exists, users, connections, leaving>>
  <2>1. CASE Connect(c)
    BY <2>1 DEF Connect, Entering, Leaving, roomVars
  <2>2. CASE GetFilePerms(c)
    BY <2>2 DEF GetFilePerms, Entering, Leaving, roomVars
  <2>3. CASE GetFilePermsOnly(c)
    BY <2>3 DEF GetFilePermsOnly, Entering, Leaving, roomVars
  <2>4. CASE EnterFails(c)
    BY <2>4 DEF EnterFails, Entering, Leaving, roomVars
  <2>5. CASE GetMaxSequenceNum(c)
    BY <2>5 DEF GetMaxSequenceNum, Entering, Leaving, roomVars
  <2>6. CASE LookupRoom(c)
    BY <2>6 DEF LookupRoom, Entering, Leaving, roomVars
  <2>7. CASE ReceiveTransaction(c)
    BY <2>7 DEF ReceiveTransaction, Entering, Leaving, roomVars
  <2>8. CASE TakeNumber(c)
    BY <2>8 DEF TakeNumber, Entering, Leaving, roomVars
  <2>9. CASE RoomIsGone(c)
    BY <2>9 DEF RoomIsGone, Entering, Leaving, roomVars
  <2>10. CASE Push(c) \/ PushRefused(c) \/ PushFails(c)
    BY <2>10 DEF Push, PushRefused, PushFails, Done, Entering, Leaving, roomVars
  <2>11. CASE Heartbeat(c) \/ NoticeClosed(c)
    BY <2>11 DEF Heartbeat, NoticeClosed, Entering, Leaving, roomVars
  <2> QED
    BY <2>1, <2>2, <2>3, <2>4, <2>5, <2>6, <2>7, <2>8, <2>9, <2>10, <2>11 DEF TransactionStep
<1>3. place \in SocketPlaces \ (Leaving \cup {"closed"})
  BY DEF SocketPlaces, Leaving
<1> QED
  BY <1>1, <1>2, <1>3, QuietStep

LEMMA LeaveRoomInv ==
  ASSUME IndInv, NEW c \in Sockets, LeaveRoom(c)
  PROVE  PlacesOK' /\ RoomInv'
<1>1. /\ PlacesOK /\ RoomInv
      /\ c \in Actors /\ c \notin Tasks /\ pc[c] = "open"
      /\ StartLeaving(c, c, "message", "remove")
      /\ UNCHANGED <<exists, users, connections>>
  BY MultiplayerServerAssumption DEF IndInv, TypeOK, LeaveRoom, Actors, roomVars
<1> QED
  BY <1>1, StartsLeavingRoom

LEMMA PlacesUnchanged ==
  ASSUME IndInv, UNCHANGED <<roomVars, connections, pc, leaving>>
  PROVE  PlacesOK' /\ RoomInv' /\ RoomTypeOK'
BY DEF IndInv, TypeOK, RoomTypeOK, PlacesOK, RoomInv, UserInv, LeavingInv, EmptyRoomsGoAway,
       Nobody, roomVars

(* Every step keeps the room as it should be.                              *)
LEMMA RoomStep ==
  ASSUME IndInv, [Next]_vars
  PROVE  PlacesOK' /\ RoomInv' /\ RoomTypeOK'
<1>0. RoomTypeOK
  BY DEF IndInv, TypeOK
<1>1. CASE UNCHANGED vars \/ Checkpoint
  BY <1>1, PlacesUnchanged DEF vars, Checkpoint
<1>2. CASE Crash
  BY <1>2, CrashInv
<1>3. ASSUME NEW a \in Actors, LeaveStep(a)
      PROVE  PlacesOK' /\ RoomInv' /\ RoomTypeOK'
  <2>1. CASE RemoveUser(a)
    BY <2>1, RemoveUserInv
  <2>2. CASE CountUsers(a)
    BY <2>2, <1>0, CountUsersInv DEF CountUsers, RoomTypeOK, roomVars
  <2>3. CASE RemoveRoom(a)
    BY <2>3, RemoveRoomInv
  <2>4. CASE Unregister(a)
    BY <2>4, UnregisterInv
  <2> QED
    BY <1>3, <2>1, <2>2, <2>3, <2>4 DEF LeaveStep
<1>4. ASSUME NEW c \in Sockets,
             \/ Connect(c) \/ EnterStep(c) \/ ReceiveTransaction(c) \/ TransactionStep(c)
             \/ LeaveRoom(c) \/ Heartbeat(c) \/ GiveUp(c) \/ NoticeClosed(c) \/ RemoveConnection(c)
      PROVE  PlacesOK' /\ RoomInv' /\ RoomTypeOK'
  <2>1. CASE EnterRoom(c)
    BY <2>1, EnterRoomInv
  <2>2. CASE GiveUp(c)
    BY <2>2, PlacesUnchanged DEF GiveUp
  <2>3. CASE LeaveRoom(c)
    BY <2>3, <1>0, LeaveRoomInv DEF LeaveRoom, RoomTypeOK, roomVars
  <2>4. CASE RemoveConnection(c)
    BY <2>4, <1>0, RemoveConnectionInv DEF RemoveConnection, RoomTypeOK, roomVars
  <2>5. CASE TakeNumber(c)
    <3>1. PlacesOK' /\ RoomInv'
      BY <2>5, QuietHandlerInv DEF TransactionStep
    <3>2. RoomTypeOK'
      BY <2>5, <1>0 DEF TakeNumber, RoomTypeOK
    <3> QED
      BY <3>1, <3>2
  <2>6. CASE \/ Connect(c) \/ GetFilePerms(c) \/ GetFilePermsOnly(c) \/ EnterFails(c)
             \/ GetMaxSequenceNum(c) \/ LookupRoom(c)
             \/ ReceiveTransaction(c) \/ RoomIsGone(c) \/ Push(c) \/ PushRefused(c) \/ PushFails(c)
             \/ Heartbeat(c) \/ NoticeClosed(c)
    <3>1. UNCHANGED <<roomVars, connections>>
      BY <2>6 DEF Connect, GetFilePerms, GetFilePermsOnly, EnterFails, GetMaxSequenceNum, LookupRoom,
                  ReceiveTransaction, RoomIsGone, Push, PushRefused, PushFails, Done,
                  Heartbeat, NoticeClosed
    <3>2. RoomTypeOK'
      BY <3>1, <1>0 DEF RoomTypeOK, roomVars
    <3> QED
      BY <2>6, <3>2, QuietHandlerInv DEF TransactionStep
  <2> QED
    BY <1>4, <2>1, <2>2, <2>3, <2>4, <2>5, <2>6 DEF EnterStep, TransactionStep
<1>5. ASSUME NEW t \in Tasks, RemoveStaleUser(t) \/ Broadcast(t) \/ SendFails(t) \/ SendSucceeds(t)
      PROVE  PlacesOK' /\ RoomInv' /\ RoomTypeOK'
  <2>1. UNCHANGED <<roomVars, connections>>
    BY <1>5 DEF RemoveStaleUser, Broadcast, SendFails, SendSucceeds
  <2>2. RoomTypeOK'
    BY <2>1, <1>0 DEF RoomTypeOK, roomVars
  <2> QED
    BY <1>5, <2>2, TaskStartsInv, SendInv
<1> QED
  BY <1>1, <1>2, <1>3, <1>4, <1>5 DEF Next, HandlerStep, TaskStep, Actors

-----------------------------------------------------------------------------
(* The stream.                                                             *)

(* What the stream holds stays, and gets the transaction under a new       *)
(* number.                                                                 *)
LEMMA StreamGrows ==
  ASSUME IndInv, NEW c \in Sockets, AddToStream(c)
  PROVE  /\ newest' \in Nat /\ newest < newest'
         /\ DOMAIN log' = DOMAIN log \cup {number[c]}
         /\ DOMAIN log' \subseteq 1..newest'
         /\ \A n \in DOMAIN log' : log'[n] \in 0..MaxTransactions
         /\ log'[number[c]] = transaction[c]
         /\ \A n \in DOMAIN log : log'[n] = log[n]
<1>1. /\ newest \in Nat
      /\ DOMAIN log \subseteq 1..newest
      /\ \A n \in DOMAIN log : log[n] \in 0..MaxTransactions
      /\ number[c] \in Nat /\ transaction[c] \in 0..MaxTransactions
  BY DEF IndInv, TypeOK, StreamTypeOK, HandlersTypeOK
<1>2. /\ number[c] > newest /\ newest' = number[c]
      /\ log' = [n \in DOMAIN log \cup {number[c]} |-> IF n = number[c] THEN transaction[c] ELSE log[n]]
  BY DEF AddToStream
<1>3. number[c] \notin DOMAIN log
  BY <1>1, <1>2
<1> QED
  BY <1>1, <1>2, <1>3

(* What is sent is what was stored by the same step.                       *)
LEMMA StreamStep ==
  ASSUME IndInv, [Next]_vars
  PROVE  StreamTypeOK' /\ BroadcastIsStored'
<1>1. /\ StreamTypeOK /\ BroadcastIsStored
      /\ number \in [Sockets -> Nat] /\ transaction \in [Sockets -> 0..MaxTransactions]
  BY DEF IndInv, TypeOK, HandlersTypeOK
<1>2. CASE UNCHANGED streamVars
  BY <1>1, <1>2 DEF StreamTypeOK, BroadcastIsStored, streamVars
<1>3. CASE Checkpoint
  <2>1. checkpoint' \in DOMAIN log
    BY <1>3 DEF Checkpoint
  <2>2. checkpoint' \in 0..newest
    BY <1>1, <2>1 DEF StreamTypeOK
  <2>3. UNCHANGED <<log, newest, broadcasts>>
    BY <1>3 DEF Checkpoint
  <2> QED
    BY <1>1, <2>2, <2>3 DEF StreamTypeOK, BroadcastIsStored
<1>4. ASSUME NEW c \in Sockets, AddToStream(c), UNCHANGED checkpoint,
             broadcasts' = broadcasts \/ broadcasts' = broadcasts \cup {Sent(c)}
      PROVE  StreamTypeOK' /\ BroadcastIsStored'
  <2>1. /\ newest' \in Nat /\ newest < newest'
        /\ DOMAIN log' = DOMAIN log \cup {number[c]}
        /\ DOMAIN log' \subseteq 1..newest'
        /\ \A n \in DOMAIN log' : log'[n] \in 0..MaxTransactions
        /\ log'[number[c]] = transaction[c]
        /\ \A n \in DOMAIN log : log'[n] = log[n]
    BY <1>4, StreamGrows
  <2>2. /\ Sent(c) \in [number : Nat, transaction : 0..MaxTransactions]
        /\ Sent(c).number = number[c] /\ Sent(c).transaction = transaction[c]
    BY <1>1, <1>4 DEF Sent
  <2>3. checkpoint' \in 0..newest'
    BY <1>1, <1>4, <2>1 DEF StreamTypeOK
  <2>4. broadcasts' \subseteq [number : Nat, transaction : 0..MaxTransactions]
    BY <1>1, <1>4, <2>2 DEF StreamTypeOK
  <2>5. ASSUME NEW b \in broadcasts'
        PROVE  b.number \in DOMAIN log' /\ log'[b.number] = b.transaction
    <3>1. CASE b \in broadcasts
      BY <1>1, <2>1, <3>1 DEF BroadcastIsStored
    <3>2. CASE b = Sent(c)
      BY <2>1, <2>2, <3>2
    <3> QED
      BY <1>4, <3>1, <3>2
  <2> QED
    BY <2>1, <2>3, <2>4, <2>5 DEF StreamTypeOK, BroadcastIsStored
<1>5. ASSUME NEW c \in Sockets, Push(c) \/ PushRefused(c) \/ PushFails(c)
      PROVE  StreamTypeOK' /\ BroadcastIsStored'
  <2>1. CASE Push(c)
    BY <2>1, <1>4 DEF Push, Done
  <2>2. CASE PushRefused(c)
    BY <2>2, <1>2 DEF PushRefused, Done, streamVars
  <2>3. CASE PushFails(c)
    BY <2>3, <1>2, <1>4 DEF PushFails, Done, streamVars
  <2> QED
    BY <1>5, <2>1, <2>2, <2>3
<1>6. CASE Crash
  BY <1>6, <1>2 DEF Crash
<1>7. ASSUME NEW c \in Sockets,
             \/ Connect(c) \/ EnterStep(c) \/ ReceiveTransaction(c) \/ TakeNumber(c) \/ RoomIsGone(c)
             \/ LeaveRoom(c) \/ Heartbeat(c) \/ GiveUp(c) \/ NoticeClosed(c) \/ RemoveConnection(c)
      PROVE  UNCHANGED streamVars
  <2>1. CASE EnterStep(c)
    BY <2>1 DEF EnterStep, GetFilePerms, GetFilePermsOnly, EnterFails, GetMaxSequenceNum, EnterRoom, LookupRoom
  <2>2. CASE \/ Connect(c) \/ ReceiveTransaction(c) \/ TakeNumber(c) \/ RoomIsGone(c) \/ LeaveRoom(c)
             \/ Heartbeat(c) \/ GiveUp(c) \/ NoticeClosed(c) \/ RemoveConnection(c)
    BY <2>2 DEF Connect, ReceiveTransaction, TakeNumber, RoomIsGone, LeaveRoom, Heartbeat, GiveUp,
                NoticeClosed, RemoveConnection
  <2> QED
    BY <1>7, <2>1, <2>2
<1>8. ASSUME NEW a \in Actors, LeaveStep(a)
      PROVE  UNCHANGED streamVars
  BY <1>8 DEF LeaveStep, RemoveUser, CountUsers, RemoveRoom, Unregister
<1>9. ASSUME NEW t \in Tasks, RemoveStaleUser(t) \/ Broadcast(t) \/ SendFails(t) \/ SendSucceeds(t)
      PROVE  UNCHANGED streamVars
  BY <1>9 DEF RemoveStaleUser, Broadcast, SendFails, SendSucceeds
<1> QED
  BY <1>2, <1>3, <1>5, <1>6, <1>7, <1>8, <1>9 DEF Next, HandlerStep, TransactionStep, TaskStep, Actors, vars

(* What the handlers hold.                                                 *)
LEMMA HandlersStep ==
  ASSUME IndInv, [Next]_vars
  PROVE  HandlersTypeOK'
<1> USE MultiplayerServerAssumption
<1>1. RoomTypeOK /\ StreamTypeOK /\ HandlersTypeOK
  BY DEF IndInv, TypeOK
<1>2. CASE UNCHANGED <<handlerVars, givenUp, faults>>
  BY <1>1, <1>2 DEF HandlersTypeOK, handlerVars
<1>3. ASSUME NEW kind, Fault(kind)
      PROVE  faults' \in 0..MaxFaults
  BY <1>1, <1>3 DEF HandlersTypeOK, Fault
<1>4. CASE Crash
  BY <1>1, <1>3, <1>4 DEF HandlersTypeOK, Crash
<1>5. ASSUME NEW c \in Sockets,
             number' = [number EXCEPT ![c] = 0] \/ UNCHANGED number,
             transaction' = [transaction EXCEPT ![c] = 0] \/ UNCHANGED transaction,
             faults' \in 0..MaxFaults, UNCHANGED <<received, givenUp>>
      PROVE  HandlersTypeOK'
  BY <1>1, <1>5 DEF HandlersTypeOK
<1>6. ASSUME NEW c \in Sockets, EnterStep(c)
      PROVE  HandlersTypeOK'
  <2>1. ASSUME NEW n \in Nat, number' = [number EXCEPT ![c] = n],
               faults' \in 0..MaxFaults, UNCHANGED <<transaction, received, givenUp>>
        PROVE  HandlersTypeOK'
    BY <1>1, <2>1 DEF HandlersTypeOK
  <2>2. \A m \in Nat, n \in Nat : Larger(m, n) \in Nat
    BY DEF Larger
  <2>3. checkpoint \in Nat /\ newest \in Nat /\ sequence_num \in Nat /\ faults \in 0..MaxFaults
    BY <1>1 DEF StreamTypeOK, RoomTypeOK, HandlersTypeOK
  <2>4. CASE GetFilePerms(c)
    <3>1. number' = [number EXCEPT ![c] = Larger(checkpoint, newest)]
      BY <2>4 DEF GetFilePerms
    <3> QED
      BY <2>1, <2>2, <2>3, <2>4, <3>1 DEF GetFilePerms
  <2>5. CASE GetFilePermsOnly(c)
    BY <2>1, <2>3, <2>5, <1>3 DEF GetFilePermsOnly
  <2>6. CASE EnterFails(c)
    BY <2>1, <2>6, <1>3 DEF EnterFails
  <2>7. CASE GetMaxSequenceNum(c)
    <3> DEFINE n == Larger(number[c], IF exists THEN sequence_num ELSE checkpoint)
    <3>1. number[c] \in Nat /\ number' = [number EXCEPT ![c] = n]
      BY <2>7, <1>1 DEF GetMaxSequenceNum, HandlersTypeOK
    <3>2. n \in Nat
      BY <2>2, <2>3, <3>1
    <3> HIDE DEF n
    <3> QED
      BY <2>1, <2>3, <2>7, <3>1, <3>2 DEF GetMaxSequenceNum
  <2>8. CASE EnterRoom(c)
    BY <2>1, <2>3, <2>8 DEF EnterRoom
  <2>9. CASE LookupRoom(c)
    BY <1>2, <2>9 DEF LookupRoom
  <2> QED
    BY <1>6, <2>4, <2>5, <2>6, <2>7, <2>8, <2>9 DEF EnterStep
<1>7. ASSUME NEW c \in Sockets, ReceiveTransaction(c)
      PROVE  HandlersTypeOK'
  <2>1. received' = received + 1 /\ received' \in 0..MaxTransactions
    BY <1>1, <1>7 DEF ReceiveTransaction, HandlersTypeOK
  <2>2. /\ transaction' = [transaction EXCEPT ![c] = received']
        /\ UNCHANGED <<number, givenUp, faults>>
    BY <1>7 DEF ReceiveTransaction
  <2> QED
    BY <1>1, <2>1, <2>2 DEF HandlersTypeOK
<1>8. ASSUME NEW c \in Sockets, TransactionStep(c)
      PROVE  HandlersTypeOK'
  <2>0. faults \in 0..MaxFaults
    BY <1>1 DEF HandlersTypeOK
  <2>1. CASE TakeNumber(c)
    <3>1. number' = [number EXCEPT ![c] = sequence_num + 1] /\ sequence_num + 1 \in Nat
      BY <1>1, <2>1 DEF TakeNumber, RoomTypeOK
    <3>2. UNCHANGED <<transaction, received, givenUp, faults>>
      BY <2>1 DEF TakeNumber
    <3> QED
      BY <1>1, <3>1, <3>2 DEF HandlersTypeOK
  <2>2. CASE RoomIsGone(c)
    BY <2>0, <2>2, <1>5 DEF RoomIsGone
  <2>3. CASE Push(c) \/ PushRefused(c)
    BY <2>0, <2>3, <1>5 DEF Push, PushRefused, Done
  <2>4. CASE PushFails(c)
    BY <2>4, <1>3, <1>5 DEF PushFails, Done
  <2> QED
    BY <1>8, <2>1, <2>2, <2>3, <2>4 DEF TransactionStep
<1>9. ASSUME NEW c \in Sockets, GiveUp(c)
      PROVE  HandlersTypeOK'
  BY <1>1, <1>9 DEF GiveUp, HandlersTypeOK, handlerVars
<1>10. ASSUME NEW c \in Sockets,
              Connect(c) \/ LeaveRoom(c) \/ Heartbeat(c) \/ NoticeClosed(c) \/ RemoveConnection(c)
       PROVE  HandlersTypeOK'
  BY <1>2, <1>10 DEF Connect, LeaveRoom, Heartbeat, NoticeClosed, RemoveConnection
<1>11. ASSUME NEW a \in Actors, LeaveStep(a)
       PROVE  HandlersTypeOK'
  BY <1>2, <1>11 DEF LeaveStep, RemoveUser, CountUsers, RemoveRoom, Unregister
<1>12. ASSUME NEW t \in Tasks, RemoveStaleUser(t) \/ Broadcast(t) \/ SendFails(t) \/ SendSucceeds(t)
       PROVE  HandlersTypeOK'
  BY <1>2, <1>12 DEF RemoveStaleUser, Broadcast, SendFails, SendSucceeds
<1>13. CASE Checkpoint \/ UNCHANGED vars
  BY <1>2, <1>13 DEF Checkpoint, vars
<1> QED
  BY <1>4, <1>6, <1>7, <1>8, <1>9, <1>10, <1>11, <1>12, <1>13 DEF Next, HandlerStep, TaskStep, Actors

-----------------------------------------------------------------------------
(* The invariant is inductive: it holds in every state of the server.      *)
THEOREM Invariance == Spec => []IndInv
<1>1. ASSUME IndInv, [Next]_vars
      PROVE  IndInv'
  BY <1>1, RoomStep, StreamStep, HandlersStep DEF IndInv, TypeOK
<1> QED
  BY <1>1, InitInv, PTL DEF Spec

(* Type correctness: the values of the variables, and that whoever removes *)
(* a user knows which user and why.                                        *)
THEOREM TypeCorrect == Spec => []TypeOK
BY Invariance, PTL DEF IndInv

(* A number names one transaction: what was sent to the room is stored     *)
(* under the number it was sent with, although rooms come and go with      *)
(* counters that lag behind (process_message of SendTransaction).          *)
THEOREM BroadcastsAreStored == Spec => []BroadcastIsStored
BY Invariance, PTL DEF IndInv

(* Nobody is shown in the room whose socket is closed, however the handler *)
(* of an old socket, the one of a new socket, the background worker and    *)
(* broadcasts that fail interleave (enter_room, leave_room).               *)
THEOREM NoGhosts == Spec => []NoGhostUsers
<1>1. IndInv => NoGhostUsers
  BY DEF IndInv, RoomInv, UserInv, NoGhostUsers
<1> QED
  BY <1>1, Invariance, PTL

(* A room nobody is in is about to be removed, although the users are      *)
(* removed and counted in separate statements (leave_room).                *)
THEOREM EmptyRoomsLeave == Spec => []EmptyRoomsGoAway
<1>1. IndInv => EmptyRoomsGoAway
  BY DEF IndInv, RoomInv
<1> QED
  BY <1>1, Invariance, PTL

=============================================================================
