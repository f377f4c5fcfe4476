------------------------------- MODULE Lobby --------------------------------
(* The player and room tables of lobby.c and its functions, each an effect   *)
(* on all the tables.  A function holds lobby_mutex from its first line to   *)
(* its last, so no other function comes in between.  A function that leaves  *)
(* a room or takes a seat in one first looks the room up and then writes it: *)
(* the second half has an operator of its own (removed_from, leaves,         *)
(* takes_seat), because code that does without lobby_mutex may come between  *)
(* the two.  Broadcasts, logging and read_buffer's contents are left out.    *)
EXTENDS Integers, FiniteSets

CONSTANTS MAX_PLAYERS, MAX_ROOMS,  \* sizes of the two tables
          Socket,                  \* descriptors a connection can have
          Nickname                 \* names players log in with

None == -1                         \* NULL, or no socket, or no room

ASSUME LobbyAssumption ==
  /\ MAX_PLAYERS \in Nat \ {0}
  /\ MAX_ROOMS \in Nat \ {0}
  /\ None \notin Socket
  /\ None \notin Nickname

MAX_PLAYERS_PER_ROOM == 2
Slot == 0 .. MAX_PLAYERS - 1
Room == 0 .. MAX_ROOMS - 1
Seat == 0 .. MAX_PLAYERS_PER_ROOM - 1

VARIABLES
  socket, nickname, state, room_id,  \* players[p]
  room_state, seat, seat_count,      \* rooms[r].state, .players and .player_count
  player_count                       \* connections counted against MAX_PLAYERS

players == <<socket, nickname, state, room_id>>
rooms   == <<room_state, seat, seat_count>>
tables  == <<players, rooms, player_count>>

init_lobby ==
  /\ socket = [p \in Slot |-> None]
  /\ nickname = [p \in Slot |-> None]
  /\ state = [p \in Slot |-> "LOBBY"]
  /\ room_id = [p \in Slot |-> None]
  /\ room_state = [r \in Room |-> "WAITING"]
  /\ seat = [r \in Room |-> [i \in Seat |-> None]]
  /\ seat_count = [r \in Room |-> 0]
  /\ player_count = 0

\* The first p of S, as a scan of the table from 0 finds it.
First(p, S) == p \in S /\ \A q \in S : p <= q

-----------------------------------------------------------------------------
(* Players *)

SlotWithoutSocket == {p \in Slot : socket[p] = None}

\* A slot whose socket is None while IN_GAME is kept for a reconnection.
FreeSlot == {p \in Slot : socket[p] = None /\ state[p] = "LOBBY"}

\* A new connection s gets slot p, if the count and the table have one for it.
add_player(s, p) ==
  /\ player_count < MAX_PLAYERS
  /\ First(p, FreeSlot)
  /\ socket' = [socket EXCEPT ![p] = s]
  /\ nickname' = [nickname EXCEPT ![p] = None]
  /\ state' = [state EXCEPT ![p] = "LOBBY"]
  /\ room_id' = [room_id EXCEPT ![p] = None]
  /\ player_count' = player_count + 1
  /\ UNCHANGED rooms

\* The index at which p sits in r, if it does.
SeatsOf(r, p) == {i \in Seat : i < seat_count[r] /\ seat[r][i] = p}

leaves_gap(r, p) ==
  [i \in Seat |-> IF i \in SeatsOf(r, p) THEN None ELSE seat[r][i]]

\* The seats of r after p left: those behind p move up.
seats_without(r, p) ==
  IF SeatsOf(r, p) = {} THEN seat[r]
  ELSE LET i == CHOOSE i \in Seat : First(i, SeatsOf(r, p))
       IN  [j \in Seat |-> IF j = seat_count[r] - 1 THEN None
                           ELSE IF j < i \/ j >= seat_count[r] THEN seat[r][j]
                           ELSE seat[r][j + 1]]

\* A room that is left empty is WAITING again, whatever it was.
remove_player_from_room(r, p) ==
  /\ seat' = [seat EXCEPT ![r] = seats_without(r, p)]
  /\ seat_count' = [seat_count EXCEPT ![r] = IF SeatsOf(r, p) = {} THEN @ ELSE @ - 1]
  /\ room_state' = [room_state EXCEPT ![r] = IF seat_count'[r] = 0 THEN "WAITING" ELSE @]

\* p leaves room r, if it was in one, and the server.
removed_from(r, p) ==
  /\ IF r # None THEN remove_player_from_room(r, p) ELSE UNCHANGED rooms
  /\ socket' = [socket EXCEPT ![p] = None]
  /\ state' = [state EXCEPT ![p] = "LOBBY"]
  /\ room_id' = [room_id EXCEPT ![p] = None]
  /\ player_count' = player_count - 1
  /\ UNCHANGED nickname

removes_twice(p) == removed_from(room_id[p], p)

\* Does nothing for a slot that has no socket.
remove_player(p) ==
  IF socket[p] = None THEN UNCHANGED tables ELSE removed_from(room_id[p], p)

gives_up_its_share(p) ==
  /\ socket' = [socket EXCEPT ![p] = None]
  /\ player_count' = player_count - 1
  /\ UNCHANGED <<nickname, state, room_id, rooms>>

forgets_the_game(p) ==
  /\ socket' = [socket EXCEPT ![p] = None]
  /\ state' = [state EXCEPT ![p] = "LOBBY"]
  /\ room_id' = [room_id EXCEPT ![p] = None]
  /\ UNCHANGED <<nickname, rooms, player_count>>

\* The slot keeps its state, its room and its share of player_count.
handle_player_disconnect(p) ==
  /\ socket' = [socket EXCEPT ![p] = None]
  /\ UNCHANGED <<nickname, state, room_id, rooms, player_count>>

Active(n) == {p \in Slot : socket[p] # None /\ nickname[p] = n}

Disconnected(n) ==
  {p \in Slot : socket[p] = None /\ state[p] = "IN_GAME" /\ nickname[p] = n}

find_active_player_by_nickname(n, p) == First(p, Active(n))
find_disconnected_player(n, p) == First(p, Disconnected(n))

-----------------------------------------------------------------------------
(* Rooms *)

JoinsFullRoom(r, p) == room_state[r] # "IN_PROGRESS" /\ SeatsOf(r, p) = {}

\* Only IN_PROGRESS and full rooms refuse: a PAUSED or ABORTED room that has
\* lost a player takes another one.
CanJoin(r, p) ==
  /\ room_state[r] # "IN_PROGRESS"
  /\ seat_count[r] < MAX_PLAYERS_PER_ROOM
  /\ SeatsOf(r, p) = {}

takes_seat(r, p) ==
  /\ seat' = [seat EXCEPT ![r][seat_count[r]] = p]
  /\ seat_count' = [seat_count EXCEPT ![r] = @ + 1]
  /\ state' = [state EXCEPT ![p] = "IN_GAME"]
  /\ room_id' = [room_id EXCEPT ![p] = r]
  /\ room_state' = [room_state EXCEPT ![r] =
       IF seat_count'[r] = MAX_PLAYERS_PER_ROOM THEN "IN_PROGRESS" ELSE @]
  /\ UNCHANGED <<socket, nickname, player_count>>

join_room(r, p) == CanJoin(r, p) /\ takes_seat(r, p)

CanLeave(p) ==
  state[p] = "IN_GAME" /\ room_id[p] # None /\ room_state[room_id[p]] = "WAITING"

leaves(r, p) ==
  /\ remove_player_from_room(r, p)
  /\ state' = [state EXCEPT ![p] = "LOBBY"]
  /\ room_id' = [room_id EXCEPT ![p] = None]
  /\ UNCHANGED <<socket, nickname, player_count>>

\* Refused, without effect, once the room is no longer WAITING.
leave_room(p) == IF ~CanLeave(p) THEN UNCHANGED tables ELSE leaves(room_id[p], p)

set_room_state(r, s) ==
  /\ room_state' = [room_state EXCEPT ![r] = s]
  /\ UNCHANGED <<players, seat, seat_count, player_count>>

Seated(r) == {seat[r][i] : i \in Seat} \ {None}

-----------------------------------------------------------------------------
(* What the tables promise.  LobbyUse and Server say under which callers.    *)

EntriesOK ==
  /\ socket \in [Slot -> Socket \cup {None}]
  /\ nickname \in [Slot -> Nickname \cup {None}]
  /\ state \in [Slot -> {"LOBBY", "IN_GAME"}]
  /\ room_id \in [Slot -> Room \cup {None}]
  /\ room_state \in [Room -> {"WAITING", "IN_PROGRESS", "PAUSED", "ABORTED"}]
  /\ seat \in [Room -> [Seat -> Slot \cup {None}]]
  /\ seat_count \in [Room -> 0 .. MAX_PLAYERS_PER_ROOM]

TypeOK == EntriesOK /\ player_count \in 0 .. MAX_PLAYERS

\* The two tables tell the same story: a player IN_GAME sits on exactly one
\* seat, in the room its room_id names, and nobody else sits anywhere.  The
\* callers read seats by index and never check them for NULL (server.c:31-32).
SeatsMatchPlayers ==
  /\ \A r \in Room, i \in Seat :
       /\ (seat[r][i] # None) = (i < seat_count[r])
       /\ seat[r][i] # None =>
            /\ state[seat[r][i]] = "IN_GAME"
            /\ room_id[seat[r][i]] = r
            /\ \A j \in Seat : seat[r][j] = seat[r][i] => j = i
  /\ \A p \in Slot :
       /\ state[p] = "IN_GAME" => room_id[p] # None
       /\ room_id[p] # None => \E i \in Seat : seat[room_id[p]][i] = p

Occupied == Slot \ FreeSlot

\* player_count never falls behind the slots in use (disconnections keep a slot's share
\* and two removals of one slot must not both subtract it), so that a connection that
\* is let in finds a slot and no more than MAX_PLAYERS are (lobby.c:86, 96-108, 133).
SlotsAreCounted == Cardinality(Occupied) <= player_count
=============================================================================
