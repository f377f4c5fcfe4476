---------------------------- MODULE PeopleProofs -----------------------------
(* The tables implement People, for every number of slots and rooms and      *)
(* every set of sockets and nicknames: every call of LobbyUse is a step that *)
(* people can see, or one they cannot.                                       *)
EXTENDS LobbyProofs

LEMMA PlacesDiffer == InLobby \notin Room /\ None \notin Room /\ InLobby # None
BY NoneIsNobody, LobbyAssumption DEF InLobby, None, Room

\* Who is in a game has a room and nobody else has, so a room_id is a place.
LEMMA PlaceIs ==
  ASSUME IInv, NEW p \in Slot
  PROVE  /\ state[p] \in {"LOBBY", "IN_GAME"} /\ room_id[p] \in Room \cup {None}
         /\ state[p] = "IN_GAME" <=> room_id[p] # None
         /\ \A r \in Room : Where[p] = r <=> room_id[p] = r
<1>1. state[p] \in {"LOBBY", "IN_GAME"} /\ room_id[p] \in Room \cup {None}
  BY DEF IInv, TypeOK, EntriesOK
<1>2. state[p] = "IN_GAME" <=> room_id[p] # None
  BY <1>1, NoneIsNobody DEF IInv, SeatsMatchPlayers
<1>3. Where[p] = IF state[p] = "IN_GAME" THEN room_id[p]
                 ELSE IF socket[p] = None THEN None ELSE InLobby
  BY DEF Where
<1>4. \A r \in Room : Where[p] = r <=> room_id[p] = r
  BY <1>1, <1>2, <1>3, PlacesDiffer
<1> QED BY <1>1, <1>2, <1>4

LEMMA InIs ==
  ASSUME IInv, NEW r \in Room
  PROVE  ThePeople!In(r) = {p \in Slot : room_id[p] = r}
BY PlaceIs DEF ThePeople!In

\* How many people a room has is what seat_count says.
LEMMA PeopleAreCounted ==
  ASSUME IInv, NEW r \in Room
  PROVE  /\ seat_count[r] \in {0, 1, 2}
         /\ \A i \in Seat : i < seat_count[r] => /\ seat[r][i] \in Slot
                                                 /\ room_id[seat[r][i]] = r
         /\ \A p \in Slot : room_id[p] = r =>
              \E i \in Seat : i < seat_count[r] /\ seat[r][i] = p
         /\ seat_count[r] = 2 => seat[r][0] # seat[r][1]
<1> USE NoneIsNobody, SeatSet DEF IInv
<1>1. seat_count[r] \in {0, 1, 2} /\ \A i \in Seat : seat[r][i] \in Slot \cup {None}
  BY DEF TypeOK, EntriesOK
<1>2. \A i \in Seat : i < seat_count[r] => seat[r][i] \in Slot /\ room_id[seat[r][i]] = r
  BY <1>1 DEF SeatsMatchPlayers
<1>3. ASSUME NEW p \in Slot, room_id[p] = r
      PROVE  \E i \in Seat : i < seat_count[r] /\ seat[r][i] = p
  BY <1>3 DEF SeatsMatchPlayers
<1>4. seat_count[r] = 2 => seat[r][0] # seat[r][1]
  BY DEF SeatsMatchPlayers
<1> QED BY <1>1, <1>2, <1>3, <1>4

LEMMA FullIs ==
  ASSUME IInv, NEW r \in Room
  PROVE  ThePeople!Full(r) <=> seat_count[r] = 2
<1> USE SeatSet
<1>1. CASE seat_count[r] = 2
  <2>1. /\ seat[r][0] \in ThePeople!In(r) /\ seat[r][1] \in ThePeople!In(r)
        /\ seat[r][0] # seat[r][1]
    BY <1>1, PeopleAreCounted, InIs
  <2> QED BY <1>1, <2>1 DEF ThePeople!Full
<1>2. CASE seat_count[r] # 2
  <2>1. \A p \in ThePeople!In(r) : p = seat[r][0]
    BY <1>2, PeopleAreCounted, InIs
  <2> QED BY <1>2, <2>1 DEF ThePeople!Full
<1> QED BY <1>1, <1>2

LEMMA EmptyIs ==
  ASSUME IInv, NEW r \in Room
  PROVE  ThePeople!In(r) = {} <=> seat_count[r] = 0
<1> USE SeatSet
<1>1. CASE seat_count[r] = 0
  BY <1>1, PeopleAreCounted, InIs
<1>2. CASE seat_count[r] # 0
  <2>1. seat[r][0] \in ThePeople!In(r)
    BY <1>2, PeopleAreCounted, InIs
  <2> QED BY <1>2, <2>1
<1> QED BY <1>1, <1>2

\* A player is the last one in its room if seat_count is 1.
LEMMA LastInRoom ==
  ASSUME IInv, NEW r \in Room, NEW p \in Slot, room_id[p] = r
  PROVE  ThePeople!In(r) = {p} <=> seat_count[r] = 1
<1> USE SeatSet
<1>1. PICK i \in Seat : i < seat_count[r] /\ seat[r][i] = p
  BY PeopleAreCounted
<1>2. CASE seat_count[r] = 1
  <2>1. \A q \in ThePeople!In(r) : q = seat[r][0]
    BY <1>2, PeopleAreCounted, InIs
  <2>2. p \in ThePeople!In(r)
    BY InIs
  <2> QED BY <1>2, <2>1, <2>2
<1>3. CASE seat_count[r] = 2
  <2>1. seat[r][1 - i] \in ThePeople!In(r) /\ seat[r][1 - i] # p
    BY <1>1, <1>3, PeopleAreCounted, InIs
  <2> QED BY <1>3, <2>1
<1>4. seat_count[r] \in {1, 2}
  BY <1>1, PeopleAreCounted
<1> QED BY <1>2, <1>3, <1>4

\* What people see change, for a step that concerns one slot.
LEMMA WhereChanges ==
  ASSUME NEW p \in Slot,
         \A q \in Slot : q # p => /\ socket'[q] = socket[q]
                                  /\ state'[q] = state[q] /\ room_id'[q] = room_id[q],
         NEW v, v = IF state'[p] = "IN_GAME" THEN room_id'[p]
                    ELSE IF socket'[p] = None THEN None ELSE InLobby
  PROVE  /\ Where' = [Where EXCEPT ![p] = v]
         /\ Connected' = IF socket'[p] = None THEN Connected \ {p} ELSE Connected \cup {p}
<1>1. Where' = [Where EXCEPT ![p] = v]
  BY DEF Where
<1>2. Connected' = IF socket'[p] = None THEN Connected \ {p} ELSE Connected \cup {p}
  BY DEF Connected
<1> QED BY <1>1, <1>2

-----------------------------------------------------------------------------
(* What people see of each call *)

Unseen == UNCHANGED ThePeople!people

LEMMA NothingSeen ==
  ASSUME UNCHANGED <<socket, state, room_id, room_state, games, returns>>
  PROVE  Unseen
BY DEF Unseen, ThePeople!people, Where, Connected

LEMMA AcceptSeen ==
  ASSUME IInv, NEW s \in Socket, NEW p \in Slot, Accept(s, p)
  PROVE  ThePeople!Arrive(p)
<1>1. /\ socket[p] = None /\ state[p] = "LOBBY"
      /\ socket' = [socket EXCEPT ![p] = s] /\ state' = [state EXCEPT ![p] = "LOBBY"]
      /\ room_id' = [room_id EXCEPT ![p] = None]
      /\ UNCHANGED <<room_state, games, returns>>
  BY DEF Accept, add_player, First, FreeSlot, rooms, calls
<1>2. /\ socket'[p] = s /\ s # None /\ state'[p] = "LOBBY"
      /\ \A q \in Slot : q # p => /\ socket'[q] = socket[q]
                                  /\ state'[q] = state[q] /\ room_id'[q] = room_id[q]
  BY <1>1, NoneIsNobody DEF IInv, TypeOK, EntriesOK
<1>3. Where' = [Where EXCEPT ![p] = InLobby] /\ Connected' = Connected \cup {p}
  BY <1>2, WhereChanges
<1>4. Where[p] = None
  BY <1>1 DEF Where
<1> QED BY <1>1, <1>3, <1>4 DEF ThePeople!Arrive

LEMMA DisconnectSeen ==
  ASSUME IInv, NEW q \in Slot, socket[q] # None, handle_player_disconnect(q),
         UNCHANGED calls
  PROVE  ThePeople!Lose(q)
<1>1. /\ socket'[q] = None /\ UNCHANGED <<state, room_id, room_state, games, returns>>
      /\ \A p \in Slot : p # q => socket'[p] = socket[p]
  BY DEF handle_player_disconnect, IInv, TypeOK, EntriesOK, rooms, calls
<1>2. ThePeople!InRoom(q) <=> state[q] = "IN_GAME"
  BY PlaceIs, PlacesDiffer DEF ThePeople!InRoom, Where
<1>3. /\ Where' = [Where EXCEPT ![q] = IF state[q] = "IN_GAME" THEN room_id[q] ELSE None]
      /\ Connected' = Connected \ {q}
  BY <1>1, WhereChanges
<1>4. state[q] = "IN_GAME" => Where[q] = room_id[q]
  BY DEF Where
<1>5. q \in Connected
  BY DEF Connected
<1> QED BY <1>1, <1>2, <1>3, <1>4, <1>5 DEF ThePeople!Lose

LEMMA AdoptSeen ==
  ASSUME IInv, NEW p \in Slot, NEW n \in Nickname, NEW q \in Slot, Adopt(p, n, q)
  PROVE  ThePeople!Return(q)
<1>1. /\ socket[p] # None /\ socket[q] = None /\ state[q] = "IN_GAME"
      /\ socket' = [socket EXCEPT ![q] = socket[p]]
      /\ returns' = Plus(returns, room_id[q])
      /\ UNCHANGED <<state, room_id, room_state, games>>
  BY DEF Adopt, Connected, find_disconnected_player, First, Disconnected, rooms
<1>2. socket'[q] # None /\ \A k \in Slot : k # q => socket'[k] = socket[k]
  BY <1>1 DEF IInv, TypeOK, EntriesOK
<1>3. Connected' = Connected \cup {q} /\ q \notin Connected
  BY <1>1, <1>2 DEF Connected
<1>4. Where' = Where /\ Where[q] = room_id[q] /\ ThePeople!InRoom(q)
  <2>1. Where' = Where
    BY <1>1, <1>2 DEF Where
  <2>2. Where[q] = room_id[q] /\ room_id[q] \in Room
    BY <1>1, PlaceIs DEF Where
  <2> QED BY <2>1, <2>2 DEF ThePeople!InRoom
<1> QED BY <1>1, <1>3, <1>4 DEF ThePeople!Return, Plus

LEMMA RemoveSeen ==
  ASSUME IInv, NEW p \in Slot, remove_player(p), socket[p] # None, UNCHANGED calls
  PROVE  ThePeople!Depart(p)
<1>1. /\ IF room_id[p] # None THEN remove_player_from_room(room_id[p], p)
                              ELSE UNCHANGED room_state
      /\ socket'[p] = None /\ state'[p] = "LOBBY" /\ UNCHANGED <<games, returns>>
      /\ \A q \in Slot : q # p => /\ socket'[q] = socket[q]
                                  /\ state'[q] = state[q] /\ room_id'[q] = room_id[q]
  BY DEF remove_player, removed_from, rooms, calls, IInv, TypeOK, EntriesOK
<1>2. /\ Where' = [Where EXCEPT ![p] = None] /\ Connected' = Connected \ {p}
      /\ p \in Connected
  BY <1>1, WhereChanges DEF Connected
<1>3. room_state' = ThePeople!Vacated(p)
  <2>1. CASE room_id[p] = None
    <3>1. ~ThePeople!InRoom(p)
      BY <2>1, PlaceIs, PlacesDiffer DEF ThePeople!InRoom, Where
    <3> QED BY <1>1, <2>1, <3>1 DEF ThePeople!Vacated
  <2>2. CASE room_id[p] # None
    <3> DEFINE r == room_id[p]
    <3>1. r \in Room /\ Where[p] = r
      BY <2>2, PlaceIs
    <3>2. room_state' = [room_state EXCEPT ![r] = IF seat_count[r] = 1 THEN "WAITING" ELSE @]
      <4>1. RoomsTyped /\ RoomAgrees(r) /\ PlayerAgrees(p)
        BY <3>1, TypedRooms, AgreementByParts DEF IInv
      <4> QED BY <1>1, <2>2, <3>1, <4>1, RoomShifts
    <3>3. ThePeople!In(r) = {p} <=> seat_count[r] = 1
      BY <3>1, LastInRoom
    <3>4. room_state \in [Room -> {"WAITING", "IN_PROGRESS", "PAUSED", "ABORTED"}]
      BY DEF IInv, TypeOK, EntriesOK
    <3> HIDE DEF r
    <3> QED BY <3>1, <3>2, <3>3, <3>4 DEF ThePeople!Vacated, ThePeople!InRoom
  <2> QED BY <2>1, <2>2
<1> QED BY <1>1, <1>2, <1>3 DEF ThePeople!Depart

LEMMA JoinSeen ==
  ASSUME IInv, NEW r \in Room, NEW p \in Slot, JoinRoom(r, p)
  PROVE  ThePeople!Enter(p, r)
<1>1. /\ socket[p] # None /\ state[p] = "LOBBY"
      /\ room_state[r] # "IN_PROGRESS" /\ seat_count[r] < MAX_PLAYERS_PER_ROOM
      /\ takes_seat(r, p) /\ UNCHANGED <<games, returns>>
  BY DEF JoinRoom, join_room, CanJoin, Connected
<1>2. /\ socket' = socket /\ state'[p] = "IN_GAME" /\ room_id'[p] = r
      /\ seat_count'[r] = seat_count[r] + 1
      /\ \A q \in Slot : q # p => state'[q] = state[q] /\ room_id'[q] = room_id[q]
  BY <1>1, TypedRooms, JoinTyped DEF IInv
<1>3. /\ Where' = [Where EXCEPT ![p] = r] /\ Connected' = Connected
      /\ Where[p] = InLobby /\ p \in Connected
  <2>1. Where' = [Where EXCEPT ![p] = r]
    BY <1>2, WhereChanges
  <2> QED BY <1>1, <1>2, <2>1 DEF Connected, Where
<1>4. seat_count[r] \in {0, 1}
  BY <1>1, SeatSet, PeopleAreCounted
<1>5. ~ThePeople!Full(r)
  BY <1>4, FullIs
<1>6. room_state' = [room_state EXCEPT ![r] =
                       IF ThePeople!In(r) # {} THEN "IN_PROGRESS" ELSE @]
  <2>1. seat_count'[r] = MAX_PLAYERS_PER_ROOM <=> seat_count[r] # 0
    BY <1>2, <1>4, SeatSet
  <2>2. room_state' = [room_state EXCEPT ![r] =
                         IF seat_count'[r] = MAX_PLAYERS_PER_ROOM THEN "IN_PROGRESS" ELSE @]
    BY <1>1 DEF takes_seat
  <2> QED BY <2>1, <2>2, EmptyIs
<1> QED BY <1>1, <1>3, <1>5, <1>6 DEF ThePeople!Enter

LEMMA LeaveSeen ==
  ASSUME IInv, NEW p \in Slot, LeaveRoom(p)
  PROVE  ThePeople!Leave(p)
<1> DEFINE r == room_id[p]
<1>1. /\ state[p] = "IN_GAME" /\ r # None /\ room_state[r] = "WAITING"
      /\ leaves(r, p) /\ UNCHANGED calls
  BY DEF LeaveRoom, leave_room, CanLeave
<1>2. /\ remove_player_from_room(r, p) /\ socket' = socket /\ state'[p] = "LOBBY"
      /\ \A q \in Slot : q # p => state'[q] = state[q] /\ room_id'[q] = room_id[q]
  BY <1>1 DEF leaves, IInv, TypeOK, EntriesOK
<1>3. r \in Room /\ Where[p] = r
  BY <1>1, PlaceIs
<1> HIDE DEF r
<1>4. /\ Where' = [Where EXCEPT ![p] = IF p \in Connected THEN InLobby ELSE None]
      /\ Connected' = Connected
  <2>1. Where' = [Where EXCEPT ![p] = IF socket[p] = None THEN None ELSE InLobby]
    BY <1>2, WhereChanges
  <2>2. p \in Connected <=> socket[p] # None
    BY DEF Connected
  <2> QED BY <1>2, <2>1, <2>2 DEF Connected
<1>5. room_state' = room_state
  <2>1. room_state \in [Room -> {"WAITING", "IN_PROGRESS", "PAUSED", "ABORTED"}]
    BY DEF IInv, TypeOK, EntriesOK
  <2> QED BY <1>1, <1>2, <2>1 DEF remove_player_from_room
<1> QED BY <1>1, <1>3, <1>4, <1>5 DEF ThePeople!Leave, ThePeople!InRoom, calls

LEMMA LookSeen ==
  ASSUME IInv, NEW r \in Room, Look(r)
  PROVE  ThePeople!Begin(r) \/ Unseen
<1>1. UNCHANGED <<socket, state, room_id, room_state, returns>>
  BY DEF Look, tables, players, rooms
<1>2. CASE seat_count[r] = MAX_PLAYERS_PER_ROOM
  <2>1. ThePeople!Full(r) /\ games' = [games EXCEPT ![r] = @ + 1]
    BY <1>2, SeatSet, FullIs DEF Look, Plus
  <2>2. Where' = Where /\ Connected' = Connected
    BY <1>1 DEF Where, Connected
  <2> QED BY <1>1, <2>1, <2>2 DEF ThePeople!Begin
<1>3. CASE seat_count[r] # MAX_PLAYERS_PER_ROOM
  BY <1>1, <1>3, NothingSeen DEF Look
<1> QED BY <1>2, <1>3

LEMMA SetStateSeen ==
  ASSUME NEW r \in Room, NEW s, set_room_state(r, s)
  PROVE  /\ room_state' = [room_state EXCEPT ![r] = s]
         /\ Where' = Where /\ Connected' = Connected
BY DEF set_room_state, players, Where, Connected

LEMMA ChangeSeen ==
  ASSUME NEW r \in Room, NEW s, set_room_state(r, s), games[r] > 0, UNCHANGED calls
  PROVE  ThePeople!Change(r, s)
BY SetStateSeen DEF ThePeople!Change, calls

LEMMA AnswerSeen ==
  ASSUME NEW r \in Room, NEW s, Answer(r, s)
  PROVE  ThePeople!Answer(r, s)
BY SetStateSeen DEF Answer, Less, ThePeople!Answer

LEMMA ResetSeen ==
  ASSUME IInv, NEW r \in Room, ResetRoom(r)
  PROVE  ThePeople!Finish(r)
<1>1. /\ games[r] > 0 /\ socket' = socket /\ returns' = returns
      /\ games' = [games EXCEPT ![r] = @ - 1]
      /\ room_state' = [room_state EXCEPT ![r] = "WAITING"]
      /\ \A p \in Slot : p \in Seated(r) => state'[p] = "LOBBY"
      /\ \A p \in Slot : p \notin Seated(r) => state'[p] = state[p] /\ room_id'[p] = room_id[p]
  BY DEF ResetRoom, Less
<1>2. ASSUME NEW p \in Slot
      PROVE  p \in Seated(r) <=> room_id[p] = r
  <2>1. p \in Seated(r) <=> \E i \in Seat : seat[r][i] = p
    BY NoneIsNobody DEF Seated
  <2>2. \A i \in Seat : seat[r][i] = p => room_id[p] = r
    BY NoneIsNobody DEF IInv, SeatsMatchPlayers
  <2>3. room_id[p] = r => \E i \in Seat : seat[r][i] = p
    BY NoneIsNobody DEF IInv, SeatsMatchPlayers
  <2> QED BY <2>1, <2>2, <2>3
<1>3. Connected' = Connected
  BY <1>1 DEF Connected
<1>4. ASSUME NEW p \in Slot
      PROVE  Where'[p] = IF Where[p] # r THEN Where[p]
                         ELSE IF p \in Connected THEN InLobby ELSE None
  <2>1. Where'[p] = IF state'[p] = "IN_GAME" THEN room_id'[p]
                    ELSE IF socket'[p] = None THEN None ELSE InLobby
    BY DEF Where
  <2>2. CASE Where[p] = r
    <3>1. state'[p] = "LOBBY"
      BY <1>1, <1>2, <2>2, PlaceIs
    <3>2. p \in Connected <=> socket'[p] # None
      BY <1>1 DEF Connected
    <3> QED BY <2>1, <2>2, <3>1, <3>2
  <2>3. CASE Where[p] # r
    <3>1. state'[p] = state[p] /\ room_id'[p] = room_id[p] /\ socket'[p] = socket[p]
      BY <1>1, <1>2, <2>3, PlaceIs
    <3> QED BY <2>1, <2>3, <3>1 DEF Where
  <2> QED BY <2>2, <2>3
<1>5. Where' = [p \in Slot |-> IF Where[p] # r THEN Where[p]
                               ELSE IF p \in Connected THEN InLobby ELSE None]
  <2>1. Where' = [p \in Slot |-> Where'[p]]
    BY DEF Where
  <2> QED BY <1>4, <2>1
<1> QED BY <1>1, <1>3, <1>5 DEF ThePeople!Finish

-----------------------------------------------------------------------------
(* The refinement *)

LEMMA InitSeen == Init => ThePeople!Init
<1> SUFFICES ASSUME Init PROVE ThePeople!Init
  OBVIOUS
<1>1. Where = [p \in Slot |-> None] /\ Connected = {}
  BY DEF Init, init_lobby, Where, Connected
<1> QED BY <1>1 DEF Init, ThePeople!Init, init_lobby

LEMMA NextSeen == IInv /\ [Next]_use => [ThePeople!Next]_(ThePeople!people)
<1> SUFFICES ASSUME IInv, [Next]_use, ~Unseen PROVE ThePeople!Next
  BY DEF Unseen
<1>1. ASSUME NEW p \in Slot, PlayerCall(p) PROVE ThePeople!Next
  <2>1. ASSUME NEW s \in Socket, Accept(s, p) PROVE ThePeople!Next
    BY <2>1, AcceptSeen DEF ThePeople!Next
  <2>2. ~ \E n \in Nickname : Login(p, n)
    BY NothingSeen DEF Login, rooms, calls
  <2>3. ASSUME NEW n \in Nickname, Kick(n, p) PROVE ThePeople!Next
    <3>1. socket[p] # None /\ handle_player_disconnect(p) /\ UNCHANGED calls
      BY <2>3 DEF Kick, find_active_player_by_nickname, First, Active
    <3> QED BY <3>1, DisconnectSeen DEF ThePeople!Next
  <2>4. ASSUME NEW n \in Nickname, NEW q \in Slot, Adopt(p, n, q) PROVE ThePeople!Next
    BY <2>4, AdoptSeen DEF ThePeople!Next
  <2>5. CASE RemovePlayer(p)
    <3>1. socket[p] # None
      BY <2>5, NothingSeen DEF RemovePlayer, remove_player, tables, players, rooms, calls
    <3> QED BY <2>5, <3>1, RemoveSeen DEF RemovePlayer, ThePeople!Next
  <2>6. ASSUME NEW r \in Room, JoinRoom(r, p) PROVE ThePeople!Next
    BY <2>6, JoinSeen DEF ThePeople!Next
  <2>7. CASE LeaveRoom(p)
    BY <2>7, LeaveSeen DEF ThePeople!Next
  <2> QED BY <1>1, <2>1, <2>2, <2>3, <2>4, <2>5, <2>6, <2>7 DEF PlayerCall
<1>2. ASSUME NEW r \in Room, RoomCall(r) PROVE ThePeople!Next
  <2>1. ASSUME NEW i \in Seat, LosePlayer(r, i) PROVE ThePeople!Next
    <3> DEFINE q == seat[r][i]
    <3>1. q \in Slot /\ handle_player_disconnect(q) /\ UNCHANGED calls
      BY <2>1 DEF LosePlayer, IInv, TypeOK, EntriesOK
    <3>2. socket[q] # None
      <4>1. ASSUME socket[q] = None
            PROVE  UNCHANGED <<socket, state, room_id, room_state, games, returns>>
        BY <3>1, <4>1 DEF handle_player_disconnect, rooms, calls, IInv, TypeOK, EntriesOK
      <4> QED BY <4>1, NothingSeen
    <3> QED BY <3>1, <3>2, DisconnectSeen DEF ThePeople!Next
  <2>2. CASE Look(r)
    BY <2>2, LookSeen DEF ThePeople!Next
  <2>3. CASE Pause(r) \/ IdleBack(r)
    BY <2>3, ChangeSeen DEF Pause, IdleBack, ThePeople!Next
  <2>4. CASE Resume(r) \/ Abort(r)
    BY <2>4, AnswerSeen DEF Resume, Abort, ThePeople!Next
  <2>5. CASE ResetRoom(r)
    BY <2>5, ResetSeen DEF ThePeople!Next
  <2> QED BY <1>2, <2>1, <2>2, <2>3, <2>4, <2>5 DEF RoomCall
<1>3. ~UNCHANGED use
  BY NothingSeen DEF use, tables, players, rooms, calls
<1> QED BY <1>1, <1>2, <1>3 DEF Next

\* However many slots, rooms and threads there are, the tables keep what the lobby
\* promises to people: who loses a connection in a room keeps the place and can come
\* back to it, nobody is moved by another's call, and people in a room are released only
\* by the end of a game that was begun there (lobby.c:117-290, server.c:153-177, 867).
THEOREM ImplementsPeople == Spec => PeopleSpec
BY Invariant, InitSeen, NextSeen, PTL DEF Spec, PeopleSpec, ThePeople!Spec
=============================================================================
