----------------------------- MODULE LobbyProofs ------------------------------
(* Proofs about LobbyUse, for every number of slots and rooms and every set  *)
(* of sockets and nicknames: what MCLobby checks on three of each.           *)
EXTENDS LobbyUse, LobbyLemmas

\* The promises need each other: player_count stays in its range because the
\* slots in use are counted, and a free slot is known to be in no room because the
\* two tables agree.  How many threads are on their way does not matter.
IInv == TypeOK /\ SeatsMatchPlayers /\ SlotsAreCounted

-----------------------------------------------------------------------------
LEMMA TypedRooms == ASSUME TypeOK PROVE RoomsTyped
BY DEF TypeOK, EntriesOK, RoomsTyped

\* A player who leaves its room, removed or not, leaves both tables in agreement.
LEMMA LeavingKeepsTables ==
  ASSUME TypeOK, SeatsMatchPlayers,
         NEW p \in Slot, room_id[p] # None,
         remove_player_from_room(room_id[p], p),
         state' = [state EXCEPT ![p] = "LOBBY"],
         room_id' = [room_id EXCEPT ![p] = None]
  PROVE  RoomsTyped' /\ SeatsMatchPlayers'
<1>1. RoomsTyped /\ (\A q \in Room : RoomAgrees(q)) /\ (\A q \in Slot : PlayerAgrees(q))
  BY TypedRooms, AgreementByParts
<1>2. room_id[p] \in Room
  BY DEF TypeOK, EntriesOK
<1>3. /\ RoomsTyped' /\ \A q \in Room : RoomAgrees(q)'
      /\ \A q \in Slot : PlayerAgrees(q)'
  BY <1>1, <1>2, LeavingAgrees
<1>4. QED BY <1>3, AgreementAfterStep

-----------------------------------------------------------------------------
(* Each call keeps the invariant *)

\* A free slot is in no room, so add_player changes no state and no room.
LEMMA AcceptKeeps ==
  ASSUME IInv, NEW s \in Socket, NEW p \in Slot, Accept(s, p)
  PROVE  IInv'
<1> USE NoneIsNobody, LobbyAssumption
<1>1. /\ p \in FreeSlot /\ player_count < MAX_PLAYERS
      /\ socket' = [socket EXCEPT ![p] = s]
      /\ nickname' = [nickname EXCEPT ![p] = None]
      /\ player_count' = player_count + 1
      /\ UNCHANGED rooms
  BY DEF Accept, add_player, First
<1>2. state[p] = "LOBBY" /\ room_id[p] = None
  BY <1>1 DEF FreeSlot, IInv, SeatsMatchPlayers, TypeOK, EntriesOK
<1>3. UNCHANGED <<state, room_id>>
  BY <1>2 DEF Accept, add_player, IInv, TypeOK, EntriesOK
<1>4. TypeOK'
  BY <1>1, <1>3 DEF IInv, TypeOK, EntriesOK, rooms
<1>5. SeatsMatchPlayers'
  BY <1>1, <1>3 DEF IInv, SeatsMatchPlayers, rooms
<1>6. Occupied' \subseteq Occupied \cup {p}
  BY <1>1, <1>3 DEF Occupied, FreeSlot, IInv, TypeOK, EntriesOK
<1>7. SlotsAreCounted'
  <2>1. SlotsAreCounted /\ player_count \in Nat
    BY DEF IInv, TypeOK, EntriesOK
  <2>2. QED BY <1>1, <1>6, <2>1, OneMoreOccupied
<1>8. QED BY <1>4, <1>5, <1>7 DEF IInv

LEMMA LoginKeeps ==
  ASSUME IInv, NEW p \in Slot, NEW n \in Nickname, Login(p, n)
  PROVE  IInv'
<1> USE NoneIsNobody
<1>1. TypeOK'
  BY DEF Login, IInv, TypeOK, EntriesOK, rooms
<1>2. SeatsMatchPlayers'
  BY DEF Login, IInv, SeatsMatchPlayers, rooms
<1>3. Occupied' = Occupied
  BY DEF Login, Occupied, FreeSlot
<1>4. SlotsAreCounted'
  BY <1>3, FewerOccupied DEF Login, IInv, TypeOK, EntriesOK
<1>5. QED BY <1>1, <1>2, <1>4 DEF IInv

\* A slot that loses its socket is no more in use than before.
LEMMA DisconnectKeeps ==
  ASSUME IInv, NEW q \in Slot, handle_player_disconnect(q)
  PROVE  IInv'
<1>1. TypeOK'
  BY DEF handle_player_disconnect, IInv, TypeOK, EntriesOK, rooms
<1>2. SeatsMatchPlayers'
  BY DEF handle_player_disconnect, IInv, SeatsMatchPlayers, rooms
<1>3. Occupied' \subseteq Occupied
  BY DEF handle_player_disconnect, Occupied, FreeSlot, IInv, TypeOK, EntriesOK
<1>4. UNCHANGED <<nickname, player_count>>
  BY DEF handle_player_disconnect
<1>5. SlotsAreCounted'
  BY <1>3, <1>4, FewerOccupied DEF IInv, TypeOK, EntriesOK
<1>6. QED BY <1>1, <1>2, <1>5 DEF IInv

\* The slot adopted was in use already, its player being in a game.
LEMMA AdoptKeeps ==
  ASSUME IInv, NEW p \in Slot, NEW n \in Nickname, NEW q \in Slot, Adopt(p, n, q)
  PROVE  IInv'
<1>1. /\ state[q] = "IN_GAME"
      /\ socket' = [socket EXCEPT ![q] = socket[p]]
      /\ UNCHANGED <<nickname, state, room_id, rooms, player_count>>
  BY DEF Adopt, find_disconnected_player, First, Disconnected
<1>2. TypeOK'
  BY <1>1 DEF IInv, TypeOK, EntriesOK, rooms
<1>3. SeatsMatchPlayers'
  BY <1>1 DEF IInv, SeatsMatchPlayers, rooms
<1>4. Occupied' \subseteq Occupied
  BY <1>1 DEF Occupied, FreeSlot, IInv, TypeOK, EntriesOK
<1>5. SlotsAreCounted'
  BY <1>1, <1>4, FewerOccupied DEF IInv, TypeOK, EntriesOK
<1>6. QED BY <1>2, <1>3, <1>5 DEF IInv

LEMMA RemoveKeeps ==
  ASSUME IInv, NEW p \in Slot, remove_player(p), socket[p] # None
  PROVE  IInv'
<1> USE NoneIsNobody, LobbyAssumption
<1>1. /\ IF room_id[p] # None THEN remove_player_from_room(room_id[p], p)
                              ELSE UNCHANGED rooms
      /\ socket' = [socket EXCEPT ![p] = None]
      /\ state' = [state EXCEPT ![p] = "LOBBY"]
      /\ room_id' = [room_id EXCEPT ![p] = None]
      /\ player_count' = player_count - 1
      /\ UNCHANGED nickname
  BY DEF remove_player, removed_from
<1>2. RoomsTyped' /\ SeatsMatchPlayers'
  <2>1. CASE room_id[p] # None
    BY <1>1, <2>1, LeavingKeepsTables DEF IInv
  <2>2. CASE room_id[p] = None
    <3>1. UNCHANGED <<state, room_id>>
      BY <1>1, <2>2 DEF IInv, TypeOK, EntriesOK, SeatsMatchPlayers
    <3>2. QED BY <1>1, <2>2, <3>1
          DEF IInv, TypeOK, EntriesOK, RoomsTyped, SeatsMatchPlayers, rooms
  <2>3. QED BY <2>1, <2>2
<1>3. p \in Occupied /\ Occupied' \subseteq Occupied \ {p}
  BY <1>1 DEF Occupied, FreeSlot, IInv, TypeOK, EntriesOK
<1>4. SlotsAreCounted' /\ player_count' \in Nat
  BY <1>1, <1>3, OneLessOccupied DEF IInv, TypeOK, EntriesOK
<1>5. TypeOK'
  BY <1>1, <1>2, <1>4 DEF IInv, TypeOK, EntriesOK, RoomsTyped
<1>6. QED BY <1>2, <1>4, <1>5 DEF IInv

\* The player sat nowhere, so the seat it takes is the first free one.
LEMMA JoinKeeps ==
  ASSUME IInv, NEW r \in Room, NEW p \in Slot, JoinRoom(r, p)
  PROVE  IInv'
<1> USE SeatSet, NoneIsNobody
<1>1. /\ state[p] = "LOBBY" /\ socket[p] # None
      /\ takes_seat(r, p) /\ seat_count[r] < MAX_PLAYERS_PER_ROOM
  BY DEF JoinRoom, join_room, CanJoin, Connected
<1>2. RoomsTyped /\ SeatsMatchPlayers /\ room_id[p] = None
  BY <1>1, TypedRooms DEF IInv, SeatsMatchPlayers, TypeOK, EntriesOK
<1>3. RoomsTyped' /\ UNCHANGED <<socket, nickname, player_count>>
  BY <1>1, <1>2, JoinTyped
<1>4. TypeOK'
  BY <1>3 DEF IInv, TypeOK, EntriesOK, RoomsTyped
<1>5. SeatsMatchPlayers'
  <2>1. (\A q \in Room : RoomAgrees(q)) /\ (\A q \in Slot : PlayerAgrees(q))
    BY <1>2, AgreementByParts
  <2>2. (\A q \in Room : RoomAgrees(q)') /\ (\A q \in Slot : PlayerAgrees(q)')
    BY <1>1, <1>2, <2>1, JoinAgrees
  <2>3. QED BY <2>2, AgreementAfterStep
<1>6. Occupied' \subseteq Occupied
  BY <1>1 DEF takes_seat, Occupied, FreeSlot, IInv, TypeOK, EntriesOK
<1>7. SlotsAreCounted /\ player_count \in Nat
  BY LobbyAssumption DEF IInv, TypeOK
<1>8. SlotsAreCounted'
  BY <1>3, <1>6, <1>7, FewerOccupied
<1>9. QED BY <1>4, <1>5, <1>8 DEF IInv

LEMMA LeaveKeeps ==
  ASSUME IInv, NEW p \in Slot, LeaveRoom(p)
  PROVE  IInv'
<1>1. /\ room_id[p] # None
      /\ remove_player_from_room(room_id[p], p)
      /\ state' = [state EXCEPT ![p] = "LOBBY"]
      /\ room_id' = [room_id EXCEPT ![p] = None]
      /\ UNCHANGED <<socket, nickname, player_count>>
  BY DEF LeaveRoom, leave_room, CanLeave, leaves
<1>2. RoomsTyped' /\ SeatsMatchPlayers'
  BY <1>1, LeavingKeepsTables DEF IInv
<1>3. TypeOK'
  BY <1>1, <1>2 DEF IInv, TypeOK, EntriesOK, RoomsTyped
<1>4. Occupied' \subseteq Occupied
  BY <1>1 DEF Occupied, FreeSlot, IInv, TypeOK, EntriesOK
<1>5. SlotsAreCounted /\ player_count \in Nat
  BY LobbyAssumption DEF IInv, TypeOK, EntriesOK
<1>6. SlotsAreCounted'
  BY <1>1, <1>4, <1>5, FewerOccupied
<1>7. QED BY <1>2, <1>3, <1>6 DEF IInv

\* Neither table names the other by a room's state.
LEMMA SetStateKeeps ==
  ASSUME IInv, NEW r \in Room,
         NEW s \in {"IN_PROGRESS", "PAUSED", "ABORTED"}, set_room_state(r, s)
  PROVE  IInv'
<1>1. /\ room_state' = [room_state EXCEPT ![r] = s]
      /\ UNCHANGED <<socket, nickname, state, room_id, seat, seat_count, player_count>>
  BY DEF set_room_state, players
<1>2. TypeOK' /\ SeatsMatchPlayers'
  BY <1>1 DEF IInv, TypeOK, EntriesOK, SeatsMatchPlayers
<1>3. Occupied' \subseteq Occupied
  BY <1>1 DEF Occupied, FreeSlot
<1>4. SlotsAreCounted /\ player_count \in Nat
  BY LobbyAssumption DEF IInv, TypeOK, EntriesOK
<1>5. SlotsAreCounted'
  BY <1>1, <1>3, <1>4, FewerOccupied
<1>6. QED BY <1>2, <1>5 DEF IInv

\* Everybody of the room leaves it at once, and nobody of another room does.
LEMMA ResetKeeps ==
  ASSUME IInv, NEW r \in Room, ResetRoom(r)
  PROVE  IInv'
<1> USE SeatSet, NoneIsNobody
<1>1. /\ state' = [p \in Slot |-> IF p \in Seated(r) THEN "LOBBY" ELSE state[p]]
      /\ room_id' = [p \in Slot |-> IF p \in Seated(r) THEN None ELSE room_id[p]]
      /\ room_state' = [room_state EXCEPT ![r] = "WAITING"]
      /\ seat_count' = [seat_count EXCEPT ![r] = 0]
      /\ seat' = [seat EXCEPT ![r] = [i \in Seat |-> None]]
      /\ UNCHANGED <<socket, nickname, player_count>>
  BY DEF ResetRoom
<1>2. \A p \in Slot : p \in Seated(r) <=> room_id[p] = r
  BY DEF Seated, IInv, TypeOK, EntriesOK, SeatsMatchPlayers
<1>3. TypeOK'
  BY <1>1 DEF IInv, TypeOK, EntriesOK
<1>4. ASSUME NEW q \in Room, NEW i \in Seat
      PROVE  /\ (seat'[q][i] # None) = (i < seat_count'[q])
             /\ seat'[q][i] # None =>
                  /\ state'[seat'[q][i]] = "IN_GAME"
                  /\ room_id'[seat'[q][i]] = q
                  /\ \A j \in Seat : seat'[q][j] = seat'[q][i] => j = i
  <2>1. CASE q = r
    BY <1>1, <2>1 DEF IInv, TypeOK, EntriesOK
  <2>2. CASE q # r
    <3>1. seat'[q] = seat[q] /\ seat_count'[q] = seat_count[q]
      BY <1>1, <2>2 DEF IInv, TypeOK, EntriesOK
    <3>2. seat[q][i] # None =>
            /\ seat[q][i] \in Slot /\ room_id[seat[q][i]] = q
            /\ state[seat[q][i]] = "IN_GAME"
      BY DEF IInv, TypeOK, EntriesOK, SeatsMatchPlayers
    <3>3. seat[q][i] # None =>
            state'[seat[q][i]] = "IN_GAME" /\ room_id'[seat[q][i]] = q
      BY <1>1, <1>2, <2>2, <3>2
    <3>4. QED BY <3>1, <3>3 DEF IInv, SeatsMatchPlayers
  <2>3. QED BY <2>1, <2>2
<1>5. ASSUME NEW p \in Slot
      PROVE  /\ state'[p] = "IN_GAME" => room_id'[p] # None
             /\ room_id'[p] # None => \E i \in Seat : seat'[room_id'[p]][i] = p
  <2>1. CASE room_id[p] = r
    BY <1>1, <1>2, <2>1
  <2>2. CASE room_id[p] # r
    <3>1. state'[p] = state[p] /\ room_id'[p] = room_id[p]
      BY <1>1, <1>2, <2>2
    <3>2. room_id[p] # None => seat'[room_id[p]] = seat[room_id[p]]
      BY <1>1, <2>2 DEF IInv, TypeOK, EntriesOK
    <3>3. QED BY <3>1, <3>2 DEF IInv, SeatsMatchPlayers
  <2>3. QED BY <2>1, <2>2
<1>6. SeatsMatchPlayers'
  BY <1>4, <1>5 DEF SeatsMatchPlayers
<1>7. Occupied' \subseteq Occupied
  BY <1>1 DEF Occupied, FreeSlot, IInv, TypeOK, EntriesOK
<1>8. SlotsAreCounted /\ player_count \in Nat
  BY LobbyAssumption DEF IInv, TypeOK
<1>9. SlotsAreCounted'
  BY <1>1, <1>7, <1>8, FewerOccupied
<1>10. QED BY <1>3, <1>6, <1>9 DEF IInv

-----------------------------------------------------------------------------
(* The invariant and what follows from it *)

LEMMA InitInvariant == Init => IInv
<1> SUFFICES ASSUME init_lobby PROVE IInv
  BY DEF Init
<1> USE SeatSet, NoneIsNobody, LobbyAssumption
<1>1. TypeOK /\ SeatsMatchPlayers
  BY DEF init_lobby, TypeOK, EntriesOK, SeatsMatchPlayers
<1>2. Occupied = {}
  BY DEF init_lobby, Occupied, FreeSlot
<1>3. SlotsAreCounted
  BY <1>2, FS_EmptySet DEF SlotsAreCounted, init_lobby
<1>4. QED BY <1>1, <1>3 DEF IInv

LEMMA StutterKeeps ==
  ASSUME IInv, UNCHANGED tables
  PROVE  IInv'
BY DEF IInv, TypeOK, EntriesOK, SeatsMatchPlayers, SlotsAreCounted, Occupied, FreeSlot,
       tables, players, rooms

LEMMA NextInvariant == IInv /\ [Next]_use => IInv'
<1> SUFFICES ASSUME IInv, [Next]_use PROVE IInv'
  OBVIOUS
<1>1. ASSUME NEW p \in Slot, PlayerCall(p) PROVE IInv'
  <2>1. ASSUME NEW s \in Socket, Accept(s, p) PROVE IInv'
    BY <2>1, AcceptKeeps
  <2>2. ASSUME NEW n \in Nickname, Login(p, n) PROVE IInv'
    BY <2>2, LoginKeeps
  <2>3. ASSUME NEW n \in Nickname, Kick(n, p) PROVE IInv'
    BY <2>3, DisconnectKeeps DEF Kick
  <2>4. ASSUME NEW n \in Nickname, NEW q \in Slot, Adopt(p, n, q) PROVE IInv'
    BY <2>4, AdoptKeeps
  <2>5. CASE RemovePlayer(p)
    <3>1. CASE socket[p] = None
      BY <2>5, <3>1, StutterKeeps DEF RemovePlayer, remove_player
    <3>2. CASE socket[p] # None
      BY <2>5, <3>2, RemoveKeeps DEF RemovePlayer
    <3>3. QED BY <3>1, <3>2
  <2>6. ASSUME NEW r \in Room, JoinRoom(r, p) PROVE IInv'
    BY <2>6, JoinKeeps
  <2>7. CASE LeaveRoom(p)
    BY <2>7, LeaveKeeps
  <2>8. QED BY <1>1, <2>1, <2>2, <2>3, <2>4, <2>5, <2>6, <2>7 DEF PlayerCall
<1>2. ASSUME NEW r \in Room, RoomCall(r) PROVE IInv'
  <2>1. ASSUME NEW i \in Seat, LosePlayer(r, i) PROVE IInv'
    <3>1. seat[r][i] \in Slot /\ handle_player_disconnect(seat[r][i])
      BY <2>1, NoneIsNobody DEF LosePlayer, IInv, TypeOK, EntriesOK, SeatsMatchPlayers
    <3>2. QED BY <3>1, DisconnectKeeps
  <2>2. CASE Look(r)
    BY <2>2, StutterKeeps DEF Look
  <2>3. CASE Pause(r) \/ IdleBack(r)
    BY <2>3, SetStateKeeps DEF Pause, IdleBack
  <2>4. CASE Resume(r) \/ Abort(r)
    BY <2>4, SetStateKeeps DEF Resume, Abort, Answer
  <2>5. CASE ResetRoom(r)
    BY <2>5, ResetKeeps
  <2>6. QED BY <1>2, <2>1, <2>2, <2>3, <2>4, <2>5 DEF RoomCall
<1>3. CASE UNCHANGED use
  BY <1>3, StutterKeeps DEF use
<1>4. QED BY <1>1, <1>2, <1>3 DEF Next

\* Whatever order the calls come in, the tables keep the invariant.
THEOREM Invariant == Spec => []IInv
BY InitInvariant, NextInvariant, PTL DEF Spec

\* The tables hold what their types allow, player_count between 0 and MAX_PLAYERS
\* included: no disconnection, adoption or removal is counted twice (lobby.c:107-133).
THEOREM TypeCorrect == Spec => []TypeOK
<1>1. IInv => TypeOK
  BY DEF IInv
<1>2. QED BY <1>1, Invariant, PTL

\* players[].room_id and rooms[].players agree whatever players and rooms there
\* are: the seats of a room, counted from 0, hold its players (lobby.c:224-275).
THEOREM SeatsAgree == Spec => []SeatsMatchPlayers
<1>1. IInv => SeatsMatchPlayers
  BY DEF IInv
<1>2. QED BY <1>1, Invariant, PTL

\* The slots in use never exceed player_count, which add_player tests against
\* MAX_PLAYERS (lobby.c:89).
THEOREM CountCovers == Spec => []SlotsAreCounted
<1>1. IInv => SlotsAreCounted
  BY DEF IInv
<1>2. QED BY <1>1, Invariant, PTL

\* The part of ReservedSlotsKept a step must satisfy.
Kept(p) == socket[p] = None /\ state[p] = "IN_GAME" /\ socket'[p] # None
             => state'[p] = "IN_GAME" /\ nickname'[p] = nickname[p]

\* Only two calls give a slot a socket: Accept, which takes a free slot, and Adopt,
\* which changes nothing else.
LEMMA StepKeepsSlots ==
  ASSUME TypeOK, [Next]_use, NEW p \in Slot
  PROVE  Kept(p)
<1>1. ASSUME NEW q \in Slot, PlayerCall(q) PROVE Kept(p)
  <2>1. ASSUME NEW s \in Socket, Accept(s, q) PROVE Kept(p)
    BY <2>1 DEF Accept, add_player, First, FreeSlot, TypeOK, EntriesOK, Kept
  <2>2. ASSUME NEW n \in Nickname, Login(q, n) PROVE Kept(p)
    BY <2>2 DEF Login, Kept
  <2>3. ASSUME NEW n \in Nickname, Kick(n, q) PROVE Kept(p)
    BY <2>3 DEF Kick, handle_player_disconnect, TypeOK, EntriesOK, Kept
  <2>4. ASSUME NEW n \in Nickname, NEW k \in Slot, Adopt(q, n, k) PROVE Kept(p)
    BY <2>4 DEF Adopt, Kept
  <2>5. CASE RemovePlayer(q)
    BY <2>5 DEF RemovePlayer, remove_player, removed_from, tables, players, TypeOK, EntriesOK, Kept
  <2>6. ASSUME NEW r \in Room, JoinRoom(r, q) PROVE Kept(p)
    BY <2>6 DEF JoinRoom, join_room, takes_seat, Kept
  <2>7. CASE LeaveRoom(q)
    BY <2>7 DEF LeaveRoom, leave_room, leaves, Kept
  <2>8. QED BY <1>1, <2>1, <2>2, <2>3, <2>4, <2>5, <2>6, <2>7 DEF PlayerCall
<1>2. ASSUME NEW r \in Room, RoomCall(r) PROVE Kept(p)
  <2>1. ASSUME NEW i \in Seat, LosePlayer(r, i) PROVE Kept(p)
    BY <2>1 DEF LosePlayer, handle_player_disconnect, TypeOK, EntriesOK, Kept
  <2>2. CASE Pause(r) \/ IdleBack(r) \/ Resume(r) \/ Abort(r)
    BY <2>2 DEF Pause, IdleBack, Resume, Abort, Answer, set_room_state, players, Kept
  <2>3. CASE ResetRoom(r)
    BY <2>3 DEF ResetRoom, Kept
  <2>4. CASE Look(r)
    BY <2>4 DEF Look, tables, players, Kept
  <2>5. QED BY <1>2, <2>1, <2>2, <2>3, <2>4 DEF RoomCall
<1>3. CASE UNCHANGED use
  BY <1>3 DEF use, tables, players, Kept
<1>4. QED BY <1>1, <1>2, <1>3 DEF Next

\* A slot kept for a player who lost its connection goes to nobody else, however
\* many connections come and go meanwhile (lobby.c:96-98, 190-203).
THEOREM SlotsStayReserved == Spec => ReservedSlotsKept
<1>1. TypeOK /\ [Next]_use =>
        [\A p \in Slot :
           socket[p] = None /\ state[p] = "IN_GAME" /\ socket'[p] # None
             => state'[p] = "IN_GAME" /\ nickname'[p] = nickname[p]]_use
  BY StepKeepsSlots DEF Kept
<1>2. QED BY <1>1, TypeCorrect, PTL DEF Spec, ReservedSlotsKept
=============================================================================
