------------------------------ MODULE LobbyUse ------------------------------
(* The tables under every sequence of calls the server's threads make, each  *)
(* caller's own test and the call that follows taken together.  What happens *)
(* when the threads come between a test and its call is module Server.       *)
(* Three counters stand for the threads: what a thread may do to a room does *)
(* not depend on the room's state, only on the thread being there.           *)
EXTENDS Lobby, FiniteSetsExt

CONSTANT MaxPending     \* bound for TLC on their sum

ASSUME UseAssumption == MaxPending \in Nat

VARIABLES
  entering,             \* per room: players who joined and have yet to look whether it is full
  games,                \* per room: game threads that run
  returns               \* per room: players who came back and have yet to answer

calls == <<entering, games, returns>>
use   == <<tables, calls>>

\* One more may be on its way.
MoreMayCome ==
  MapThenSumSet(LAMBDA r : entering[r] + games[r] + returns[r], Room) < MaxPending
Plus(f, r) == [f EXCEPT ![r] = @ + 1]
Less(f, r) == [f EXCEPT ![r] = @ - 1]

Init ==
  /\ init_lobby
  /\ entering = [r \in Room |-> 0]
  /\ games = [r \in Room |-> 0]
  /\ returns = [r \in Room |-> 0]

Connected == {p \in Slot : socket[p] # None}
Idle(s)   == \A p \in Slot : socket[p] # s

\* run_server: a connection is accepted and given a slot (server.c:1184-1209).
Accept(s, p) == Idle(s) /\ add_player(s, p) /\ UNCHANGED calls

\* The nickname of a new player is written (803).  Nobody else had it when the tables
\* were searched (703, 725), but another login may have written it since.
Login(p, n) ==
  /\ p \in Connected /\ state[p] = "LOBBY" /\ nickname[p] = None
  /\ nickname' = [nickname EXCEPT ![p] = n]
  /\ UNCHANGED <<socket, state, room_id, rooms, player_count, calls>>

\* A nickname in use: the session that has it is invalidated (703-716).
Kick(n, q) ==
  /\ find_active_player_by_nickname(n, q)
  /\ handle_player_disconnect(q)
  /\ UNCHANGED calls

\* A disconnected player's slot takes the new connection over (725-734); the
\* slot p it came in with is given up by a RemovePlayer.
Adopt(p, n, q) ==
  /\ p \in Connected /\ state[p] = "LOBBY" /\ nickname[p] = None
  /\ find_disconnected_player(n, q) /\ MoreMayCome
  /\ socket' = [socket EXCEPT ![q] = socket[p]]
  /\ returns' = Plus(returns, room_id[q])
  /\ UNCHANGED <<nickname, state, room_id, rooms, player_count, entering, games>>

\* Every way a client thread ends: EXIT, a lost connection, an invalid command;
\* a thread whose player was kicked removes it a second time.
RemovePlayer(p) == remove_player(p) /\ UNCHANGED calls

\* A command from the lobby (848-863, 883-886).
JoinRoom(r, p) ==
  /\ p \in Connected /\ state[p] = "LOBBY" /\ nickname[p] # None
  /\ join_room(r, p) /\ MoreMayCome
  /\ entering' = Plus(entering, r)
  /\ UNCHANGED <<games, returns>>

LeaveRoom(p) == CanLeave(p) /\ leave_room(p) /\ UNCHANGED calls

\* Who has joined finds the room full, or not: a game thread is started (867-869).
Look(r) ==
  /\ entering[r] > 0
  /\ entering' = Less(entering, r)
  /\ games' = IF seat_count[r] = MAX_PLAYERS_PER_ROOM THEN Plus(games, r) ELSE games
  /\ UNCHANGED <<tables, returns>>

\* The game thread marks a player lost (142, 301, 343, 397) ...
LosePlayer(r, i) ==
  /\ games[r] > 0 /\ seat[r][i] # None
  /\ handle_player_disconnect(seat[r][i])
  /\ UNCHANGED calls

\* ... the room PAUSED (147, 502), or IN_PROGRESS when the idle player is back (387).
Pause(r)    == games[r] > 0 /\ set_room_state(r, "PAUSED") /\ UNCHANGED calls
IdleBack(r) == games[r] > 0 /\ set_room_state(r, "IN_PROGRESS") /\ UNCHANGED calls

Answer(r, s) ==
  /\ returns[r] > 0 /\ set_room_state(r, s)
  /\ returns' = Less(returns, r) /\ UNCHANGED <<entering, games>>

\* A player who came back sends RESUME (760-764), or gives the game up (776-780,
\* 790-793), whatever has become of the room.
Resume(r) == Answer(r, "IN_PROGRESS")
Abort(r)  == Answer(r, "ABORTED")

\* reset_room_after_game (153-177), the last thing a game thread does.
ResetRoom(r) ==
  /\ games[r] > 0
  /\ state' = [p \in Slot |-> IF p \in Seated(r) THEN "LOBBY" ELSE state[p]]
  /\ room_id' = [p \in Slot |-> IF p \in Seated(r) THEN None ELSE room_id[p]]
  /\ room_state' = [room_state EXCEPT ![r] = "WAITING"]
  /\ seat_count' = [seat_count EXCEPT ![r] = 0]
  /\ seat' = [seat EXCEPT ![r] = [i \in Seat |-> None]]
  /\ games' = Less(games, r)
  /\ UNCHANGED <<socket, nickname, player_count, entering, returns>>

PlayerCall(p) ==
  \/ \E s \in Socket : Accept(s, p)
  \/ \E n \in Nickname : Login(p, n) \/ Kick(n, p) \/ \E q \in Slot : Adopt(p, n, q)
  \/ RemovePlayer(p)
  \/ \E r \in Room : JoinRoom(r, p)
  \/ LeaveRoom(p)

RoomCall(r) ==
  \/ \E i \in Seat : LosePlayer(r, i)
  \/ Look(r) \/ Pause(r) \/ IdleBack(r) \/ Resume(r) \/ Abort(r) \/ ResetRoom(r)

Next == (\E p \in Slot : PlayerCall(p)) \/ (\E r \in Room : RoomCall(r))

Spec == Init /\ [][Next]_use

-----------------------------------------------------------------------------
(* Beside the promises of the tables themselves (TypeOK, SeatsMatchPlayers,  *)
(* SlotsAreCounted), which every caller here keeps:                          *)

\* A slot that is kept for a player who lost its connection goes to nobody else:
\* it gets a socket again only under the nickname it had (lobby.c:96-98, 190-203).
ReservedSlotsKept ==
  [][\A p \in Slot :
       socket[p] = None /\ state[p] = "IN_GAME" /\ socket'[p] # None
         => state'[p] = "IN_GAME" /\ nickname'[p] = nickname[p]]_use

InLobby == -2                      \* a place that is no room

\* Where the person behind each slot is, as the tables have it.
Where ==
  [p \in Slot |-> IF state[p] = "IN_GAME" THEN room_id[p]
                  ELSE IF socket[p] = None THEN None ELSE InLobby]

ThePeople == INSTANCE People WITH
  Person <- Slot, Away <- None, Lobby <- InLobby,
  where <- Where, online <- Connected, game <- room_state,
  running <- games, pending <- returns

\* The tables keep what the lobby promises to people: a place in a room is kept
\* through a lost connection and given to the person who comes back, nobody is moved
\* by what another does, the second person to come opens a game, and a room is taken
\* from the people in it only by a game that two of them began (server.c:153-177, 867).
PeopleSpec == ThePeople!Spec
=============================================================================
