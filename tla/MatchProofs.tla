---------------------------- MODULE MatchProofs ------------------------------
(* A game under way, for every number of slots, rooms, names, sockets and    *)
(* threads.  What module Server keeps is kept from here too; that nobody     *)
(* waits for a game, or is kept for one, that is not there needs that nobody *)
(* joins any more (MaxJoins = 0).                                            *)
EXTENDS Match, ServerProofs

\* Nobody is about to take a seat.
NobodyJoins == \A t \in Client : ct[t].pc # "joining"

\* Whoever is in a game has a game thread in its room.
GameThere(r) == \E g \in Game : gt[g].pc # "none" /\ gt[g].room = r

GamesRun == \A p \in Slot : state[p] = "IN_GAME" => GameThere(room_id[p])

\* A thread that is about to wait for the end of a game, or looks after the wait whether
\* it is over, has its player's room in mind.
KnowsRoom(c) == c.pc \in Waits /\ state[c.slot] = "IN_GAME" => c.room = room_id[c.slot]

WaitersKnow == \A t \in Client : KnowsRoom(ct[t])

NobodyWaitsInVain == \A t \in Client : ct[t].pc = "condwait" => GameThere(ct[t].room)

Underway ==
  /\ Sound
  /\ NobodyJoins
  /\ WaitersKnow
  /\ ~clash => Consistent /\ GamesRun /\ NobodyWaitsInVain

-----------------------------------------------------------------------------
(* The state it starts from *)

LEMMA Constants ==
  /\ 0 \in Slot /\ 1 \in Slot /\ 0 \in Room /\ 3 \in Socket /\ 4 \in Socket
  /\ 1 \in Client /\ 2 \in Client /\ 1 \in Game
  /\ MAX_PLAYERS \in Nat /\ 2 <= MAX_PLAYERS
<1>1. MAX_PLAYERS \in Nat /\ 2 <= MAX_PLAYERS /\ MAX_ROOMS \in Nat /\ MAX_ROOMS # 0
  BY LobbyAssumption, MatchAssumption
<1>2. 0 \in Slot /\ 1 \in Slot /\ 0 \in Room
  BY <1>1 DEF Slot, Room
<1> QED BY <1>1, <1>2, MatchAssumption

LEMMA EstablishedTables ==
  ASSUME Established
  PROVE  /\ socket = [p \in Slot |-> IF p \in {0, 1} THEN p + 3 ELSE None]
         /\ nickname = [p \in Slot |-> IF p = 0 THEN Ann ELSE IF p = 1 THEN Ben ELSE None]
         /\ state = [p \in Slot |-> IF p \in {0, 1} THEN "IN_GAME" ELSE "LOBBY"]
         /\ room_id = [p \in Slot |-> IF p \in {0, 1} THEN 0 ELSE None]
         /\ room_state = [r \in Room |-> IF r = 0 THEN "IN_PROGRESS" ELSE "WAITING"]
         /\ seat = [r \in Room |-> [i \in Seat |-> IF r = 0 THEN i ELSE None]]
         /\ seat_count = [r \in Room |-> IF r = 0 THEN 2 ELSE 0]
         /\ player_count = 2
<1>1. /\ socket = [p \in Slot |-> IF p \in {0, 1} THEN p + 3 ELSE None]
      /\ player_count = 2
  BY Zenon DEF Established
<1>2. /\ nickname = [p \in Slot |-> IF p = 0 THEN Ann ELSE IF p = 1 THEN Ben ELSE None]
      /\ state = [p \in Slot |-> IF p \in {0, 1} THEN "IN_GAME" ELSE "LOBBY"]
      /\ room_id = [p \in Slot |-> IF p \in {0, 1} THEN 0 ELSE None]
  BY Zenon DEF Established
<1>3. /\ room_state = [r \in Room |-> IF r = 0 THEN "IN_PROGRESS" ELSE "WAITING"]
      /\ seat = [r \in Room |-> [i \in Seat |-> IF r = 0 THEN i ELSE None]]
  BY Zenon DEF Established
<1>4. seat_count = [r \in Room |-> IF r = 0 THEN 2 ELSE 0]
  BY SeatSet, Zenon DEF Established
<1> QED BY <1>1, <1>2, <1>3, <1>4

LEMMA EstablishedThreads ==
  ASSUME Established
  PROVE  /\ open = {3, 4} /\ connections = 0 /\ joins = 0 /\ crashed = FALSE
         /\ clash = FALSE /\ revived = FALSE
         /\ ct = [t \in Client |-> ct[t]]
         /\ \A t \in Client : t \notin {1, 2} => ct[t] = NoClient
         /\ \A t \in {1, 2} : ct[t] = [NoClient EXCEPT !.pc = "condwait", !.slot = t - 1,
                                                       !.fd = t + 2, !.room = 0]
         /\ gt = [g \in Game |-> gt[g]]
         /\ \A g \in Game : g # 1 => gt[g] = NoGame
         /\ gt[1] = [NoGame EXCEPT !.pc = "select", !.room = 0, !.fds = [i \in Seat |-> i + 3]]
<1>1. /\ open = {3, 4} /\ connections = 0 /\ joins = 0 /\ crashed = FALSE
      /\ clash = FALSE /\ revived = FALSE
  <2>1. open = {p + 3 : p \in {0, 1}}
    BY Zenon DEF Established
  <2>2. connections = 0 /\ joins = 0 /\ crashed = FALSE /\ clash = FALSE /\ revived = FALSE
    BY Zenon DEF Established
  <2> QED BY <2>1, <2>2
<1>2. /\ ct = [t \in Client |-> ct[t]]
      /\ \A t \in Client : t \notin {1, 2} => ct[t] = NoClient
  <2>1. ct = [t \in Client |-> IF t \notin {1, 2} THEN NoClient
                ELSE [NoClient EXCEPT !.pc = "condwait", !.slot = t - 1,
                                      !.fd = t - 1 + 3, !.room = 0]]
    BY Zenon DEF Established
  <2>2. ct = [t \in Client |-> ct[t]]
    BY <2>1, Zenon
  <2>3. \A t \in Client : t \notin {1, 2} => ct[t] = NoClient
    BY <2>1, Zenon
  <2> QED BY <2>2, <2>3
<1>3. ASSUME NEW t \in {1, 2}
      PROVE  ct[t] = [NoClient EXCEPT !.pc = "condwait", !.slot = t - 1, !.fd = t + 2, !.room = 0]
  <2>1. t - 1 + 3 = t + 2 /\ t \in Client
    BY Constants
  <2>2. ct[t] = [NoClient EXCEPT !.pc = "condwait", !.slot = t - 1, !.fd = t - 1 + 3, !.room = 0]
    BY <2>1, Zenon DEF Established
  <2> QED BY <2>1, <2>2
<1>4. /\ gt = [g \in Game |-> gt[g]]
      /\ \A g \in Game : g # 1 => gt[g] = NoGame
      /\ gt[1] = [NoGame EXCEPT !.pc = "select", !.room = 0, !.fds = [i \in Seat |-> i + 3]]
  <2>1. gt = [g \in Game |-> IF g # 1 THEN NoGame
                ELSE [NoGame EXCEPT !.pc = "select", !.room = 0, !.fds = [i \in Seat |-> i + 3]]]
    BY Zenon DEF Established
  <2>2. gt = [g \in Game |-> gt[g]]
    BY <2>1, Zenon
  <2>3. \A g \in Game : g # 1 => gt[g] = NoGame
    BY <2>1, Zenon
  <2>4. gt[1] = [NoGame EXCEPT !.pc = "select", !.room = 0, !.fds = [i \in Seat |-> i + 3]]
    BY <2>1, Constants, Zenon
  <2> QED BY <2>2, <2>3, <2>4
<1> QED BY <1>1, <1>2, <1>3, <1>4

\* Where the threads are.
LEMMA EstablishedPoints ==
  ASSUME Established
  PROVE  /\ \A g \in Game : gt[g].pc = (IF g = 1 THEN "select" ELSE "none")
         /\ gt[1].room = 0
         /\ \A t \in Client : ct[t].pc \in {"none", "condwait"}
         /\ \A t \in Client : ct[t].pc = "condwait" =>
              t \in {1, 2} /\ ct[t].room = 0 /\ ct[t].slot = t - 1
<1>1. gt[1].pc = "select" /\ gt[1].room = 0
  <2>1. gt[1] = [NoGame EXCEPT !.pc = "select", !.room = 0, !.fds = [i \in Seat |-> i + 3]]
    BY EstablishedThreads
  <2> QED BY <2>1 DEF NoGame
<1>2. ASSUME NEW g \in Game, g # 1
      PROVE  gt[g].pc = "none"
  <2>1. gt[g] = NoGame
    BY <1>2, EstablishedThreads
  <2> QED BY <2>1 DEF NoGame
<1>3. ASSUME NEW t \in Client, t \notin {1, 2}
      PROVE  ct[t].pc = "none"
  <2>1. ct[t] = NoClient
    BY <1>3, EstablishedThreads
  <2> QED BY <2>1 DEF NoClient
<1>4. ASSUME NEW t \in {1, 2}
      PROVE  ct[t].pc = "condwait" /\ ct[t].room = 0 /\ ct[t].slot = t - 1
  <2>1. ct[t] = [NoClient EXCEPT !.pc = "condwait", !.slot = t - 1, !.fd = t + 2, !.room = 0]
    BY EstablishedThreads
  <2> QED BY <2>1 DEF NoClient
<1> QED BY <1>1, <1>2, <1>3, <1>4

LEMMA EstablishedSound == Established => Sound
<1> SUFFICES ASSUME Established PROVE Sound
  OBVIOUS
<1>1. TablesTyped
  <2>1. player_count \in Int /\ player_count <= MAX_PLAYERS
    BY EstablishedTables, Constants
  <2>2. nickname \in [Slot -> Nickname \cup {None}]
    <3>1. Ann \in Nickname /\ Ben \in Nickname
      BY MatchAssumption
    <3> QED BY <3>1, EstablishedTables
  <2>3. socket \in [Slot -> Socket \cup {None}]
    BY EstablishedTables, Constants
  <2>4. RoomsTyped
    BY EstablishedTables, Constants, SeatSet DEF RoomsTyped
  <2> QED BY <2>1, <2>2, <2>3, <2>4 DEF TablesTyped
<1>2. NetTyped
  <2>1. 0 \in 0 .. MaxConnections /\ 0 \in 0 .. MaxJoins
    BY ONLY ThreadAssumption
  <2> QED BY <2>1, EstablishedThreads, Constants DEF NetTyped
<1>3. Clients(ct)
  <2>1. ASSUME NEW t \in Client
        PROVE  ct[t] \in ClientRecord /\ ClientDefined(ct[t])
    <3>1. CASE t \notin {1, 2}
      <4>1. ct[t] = NoClient
        BY <3>1, EstablishedThreads
      <4> QED BY <4>1, NoneIsNobody
              DEF NoClient, ClientRecord, ClientPC, InLobbyCall, ClientDefined, UsesName, UsesPeer,
                  UsesOther, UsesRoom, Adopting
    <3>2. CASE t \in {1, 2}
      <4>1. ct[t] = [NoClient EXCEPT !.pc = "condwait", !.slot = t - 1, !.fd = t + 2, !.room = 0]
        BY <3>2, EstablishedThreads
      <4>2. t - 1 \in Slot /\ t + 2 \in Socket
        BY <3>2, Constants
      <4> QED BY <4>1, <4>2, Constants
              DEF NoClient, ClientRecord, ClientPC, InLobbyCall, ClientDefined, UsesName, UsesPeer,
                  UsesOther, UsesRoom, Adopting
    <3> QED BY <3>1, <3>2
  <2> QED BY <2>1, EstablishedThreads DEF Clients
<1>4. Games(gt)
  <2>1. ASSUME NEW g \in Game
        PROVE  gt[g] \in GameRecord /\ GameDefined(gt[g])
    <3>1. CASE g # 1
      <4>1. gt[g] = NoGame
        BY <3>1, EstablishedThreads
      <4> QED BY <4>1, SeatSet
              DEF NoGame, GameRecord, GamePC, InReset, GameDefined, UsesReady, UsesWho
    <3>2. CASE g = 1
      <4> DEFINE fds == [i \in Seat |-> i + 3]
      <4>1. gt[g] = [NoGame EXCEPT !.pc = "select", !.room = 0, !.fds = fds]
        BY <3>2, EstablishedThreads
      <4>2. fds \in [Seat -> Socket \cup {None}]
        BY Constants, SeatSet
      <4> HIDE DEF fds
      <4>3. NoGame \in GameRecord
        BY SeatSet DEF NoGame, GameRecord, GamePC, InReset
      <4>4. gt[g] \in GameRecord
        BY <4>1, <4>2, <4>3, Constants DEF GameRecord, GamePC
      <4>5. gt[g].pc = "select" /\ gt[g].room = 0
        BY <4>1, <4>3 DEF GameRecord
      <4> QED BY <4>4, <4>5, Constants DEF GameDefined, UsesReady, UsesWho
    <3> QED BY <3>1, <3>2
  <2> QED BY <2>1, EstablishedThreads DEF Games
<1>5. Locked
  BY EstablishedPoints DEF Locked, Fits, Calling, Holding, InLobbyCall, InReset
<1> QED BY <1>1, <1>2, <1>3, <1>4, <1>5 DEF Sound

LEMMA EstablishedServed == Established => AllServed
<1> SUFFICES ASSUME Established, NEW p \in Slot, socket[p] # None
             PROVE  \E t \in Client : Serves(ct[t], p, socket[p])
  BY DEF AllServed, Serves
<1>1. p \in {0, 1} /\ socket[p] = p + 3
  BY EstablishedTables
<1>2. PICK t \in {1, 2} : t = p + 1
  BY <1>1
<1>3. t \in Client /\ t - 1 = p /\ t + 2 = p + 3
  BY <1>1, <1>2, Constants
<1>4. ct[t] = [NoClient EXCEPT !.pc = "condwait", !.slot = t - 1, !.fd = t + 2, !.room = 0]
  BY EstablishedThreads
<1>5. ct[t].slot = p /\ ct[t].fd = p + 3
  BY <1>3, <1>4 DEF NoClient
<1> QED BY <1>1, <1>3, <1>5 DEF Serves

LEMMA EstablishedUnderway == Established => Underway
<1> SUFFICES ASSUME Established PROVE Underway
  OBVIOUS
<1>1. Sound
  BY EstablishedSound
<1>2. /\ \A p \in Slot : /\ state[p] = IF p \in {0, 1} THEN "IN_GAME" ELSE "LOBBY"
                         /\ room_id[p] = IF p \in {0, 1} THEN 0 ELSE None
      /\ \A r \in Room : /\ seat_count[r] = IF r = 0 THEN 2 ELSE 0
                         /\ \A i \in Seat : seat[r][i] = IF r = 0 THEN i ELSE None
  BY EstablishedTables
<1>3. Consistent
  <2>1. \A g \in Game : gt[g].pc \notin InReset
    BY EstablishedPoints DEF InReset
  <2>2. \A t \in Client : ~Calling(t)
    BY EstablishedPoints DEF Calling, InLobbyCall
  <2>3. \A r \in Room : RoomAgrees(r)
    BY <1>2, Constants, SeatSet, NoneIsNobody DEF RoomAgrees
  <2>4. \A p \in Slot : PlayerAgrees(p)
    <3>1. ASSUME NEW p \in Slot, room_id[p] # None
          PROVE  p \in Seat /\ room_id[p] = 0 /\ seat[0][p] = p
      BY <1>2, <3>1, Constants, SeatSet
    <3>2. \A p \in Slot : state[p] = "IN_GAME" => room_id[p] # None
      BY <1>2, NoneIsNobody, Constants
    <3> QED BY <3>1, <3>2 DEF PlayerAgrees
  <2> QED BY <2>1, <2>2, <2>3, <2>4 DEF Consistent
<1>4. GameThere(0)
  BY EstablishedPoints, Constants DEF GameThere
<1>5. GamesRun
  BY <1>2, <1>4 DEF GamesRun
<1>6. WaitersKnow
  <2>1. ASSUME NEW t \in Client, ct[t].pc \in Waits
        PROVE  ct[t].room = 0 /\ room_id[ct[t].slot] = 0
    <3>1. ct[t].pc = "condwait"
      BY <2>1, EstablishedPoints DEF Waits
    <3>2. ct[t].slot \in {0, 1} /\ ct[t].slot \in Slot /\ ct[t].room = 0
      BY <3>1, EstablishedPoints, Constants
    <3> QED BY <1>2, <3>2
  <2> QED BY <2>1 DEF WaitersKnow, KnowsRoom
<1>7. NobodyWaitsInVain /\ NobodyJoins
  BY <1>4, EstablishedPoints DEF NobodyWaitsInVain, NobodyJoins
<1> QED BY <1>1, <1>3, <1>5, <1>6, <1>7 DEF Underway

LEMMA EstablishedCounted == Established => Counted
<1> SUFFICES ASSUME Established PROVE Counted
  OBVIOUS
<1>1. Occupied = 0 .. 1
  BY EstablishedTables, Constants, NoneIsNobody DEF Occupied, FreeSlot, None
<1>2. Cardinality(0 .. 1) = 2
  <2>1. 0 \in Int /\ 1 \in Int
    OBVIOUS
  <2>2. Cardinality(0 .. 1) = IF 0 > 1 THEN 0 ELSE 1 - 0 + 1
    BY <2>1, FS_Interval, Zenon
  <2> QED BY <2>2
<1> QED BY <1>1, <1>2, EstablishedTables DEF Counted, SlotsAreCounted

-----------------------------------------------------------------------------
(* Nobody joins a room *)

LEMMA NoJoin ==
  ASSUME MaxJoins = 0, Sound, NEW t \in Client
  PROVE  ~JoinRoom(t)
<1>1. joins \in 0 .. 0
  BY DEF Sound, NetTyped
<1> QED BY <1>1 DEF JoinRoom

LEMMA StepJoins ==
  ASSUME MaxJoins = 0, Sound, NobodyJoins, [Next]_vars
  PROVE  NobodyJoins'
<1>1. CASE UNCHANGED vars
  BY <1>1 DEF vars, NobodyJoins
<1>2. ASSUME NEW t \in Client, Accept(t)
      PROVE  NobodyJoins'
  <2>1. PICK s, p :
          ct' = [ct EXCEPT ![t] = [NoClient EXCEPT !.pc = "login", !.slot = p, !.fd = s]]
    BY <1>2 DEF Accept
  <2> QED BY <2>1 DEF NobodyJoins, NoClient, Sound, Clients
<1>3. ASSUME NEW t \in Client, ClientRuns(t) \/ ClientInput(t)
      PROVE  NobodyJoins'
  <2>1. CASE ct' = ct
    BY <2>1 DEF NobodyJoins
  <2>2. CASE ct' # ct
    <3>1. Lands(t)
      BY <1>3, <2>2, ClientLands
    <3>2. ct'[t].pc # "joining"
      BY <3>1, NoJoin DEF Lands
    <3>3. ASSUME NEW u \in Client \ {t}, ct'[u].pc = "joining"
          PROVE  FALSE
      BY <1>3, <3>3, ClientCallsStay DEF NobodyJoins, Calling, InLobbyCall
    <3> QED BY <3>2, <3>3 DEF NobodyJoins
  <2> QED BY <2>1, <2>2
<1>4. ASSUME NEW g \in Game, GameRuns(g) \/ GameInput(g)
      PROVE  NobodyJoins'
  BY <1>4, GameCallsStay DEF NobodyJoins, CallsStay, Calling, InLobbyCall
<1> QED BY <1>1, <1>2, <1>3, <1>4 DEF Next

\* Whoever is in a game after the step was in it before, in the same room.
NobodyEnters ==
  \A p \in Slot : state'[p] = "IN_GAME" => state[p] = "IN_GAME" /\ room_id'[p] = room_id[p]

LEMMA ReleasedEnters ==
  ASSUME Sound, NEW p, state' = [state EXCEPT ![p] = "LOBBY"],
         room_id' = [room_id EXCEPT ![p] = None]
  PROVE  NobodyEnters
BY DEF NobodyEnters, Sound, TablesTyped, RoomsTyped

LEMMA ClientEnters ==
  ASSUME Sound, NobodyJoins, NEW t \in Client, ClientRuns(t) \/ ClientInput(t)
  PROVE  NobodyEnters
<1>1. UNCHANGED <<state, room_id>> => NobodyEnters
  BY DEF NobodyEnters
<1>2. UNCHANGED tables => NobodyEnters
  BY DEF NobodyEnters, tables, players
<1>3. CASE RemovePlayer(t)
  <2>1. UNCHANGED tables \/ remove_player(ct[t].slot)
    BY <1>3, Zenon DEF RemovePlayer
  <2> QED BY <1>2, <2>1, ReleasedEnters DEF remove_player, removed_from
<1>4. CASE Removed(t)
  BY <1>4, ReleasedEnters DEF Removed, removed_from
<1>5. CASE Left(t)
  BY <1>5, ReleasedEnters DEF Left, leaves
<1>6. CASE TakesSeat(t)
  BY <1>6 DEF TakesSeat, At, NobodyJoins
<1>7. CASE Kicked(t) \/ Adopt(t) \/ TakeNickname(t) \/ Resume(t) \/ RefuseResume(t)
  <2>1. UNCHANGED <<state, room_id>>
    BY <1>7, Zenon
       DEF Kicked, Adopt, TakeNickname, Resume, RefuseResume, handle_player_disconnect,
           set_room_state, players
  <2> QED BY <1>1, <2>1
<1>8. CASE ~(\/ RemovePlayer(t) \/ Removed(t) \/ Left(t) \/ TakesSeat(t)
             \/ Kicked(t) \/ Adopt(t) \/ TakeNickname(t) \/ Resume(t) \/ RefuseResume(t))
  <2>1. UNCHANGED tables
    BY <1>8, Zenon
       DEF ClientRuns, ClientInput, FindActive, Kick, FindDisconnected, Rejoin, Resumed, EnterLoop,
           Loop, Joined, WakeOpponent, EnterWait, LeaveAndDrop, Woken, ReceiveLogin, LobbyInput,
           JoinRoom, WaitTimesOut, RoomInput, LeaveRoom, Crash
  <2> QED BY <1>2, <2>1
<1> QED BY <1>3, <1>4, <1>5, <1>6, <1>7, <1>8

LEMMA GameEnters ==
  ASSUME Sound, NEW g \in Game, GameRuns(g) \/ GameInput(g)
  PROVE  NobodyEnters
<1>1. CASE UNCHANGED <<state, room_id>>
  BY <1>1 DEF NobodyEnters
<1>2. CASE ReleaseSeat(g)
  <2>1. \/ UNCHANGED tables
        \/ \E p : /\ state' = [state EXCEPT ![p] = "LOBBY"]
                  /\ room_id' = [room_id EXCEPT ![p] = None]
    BY <1>2, Zenon DEF ReleaseSeat, Crash
  <2> QED BY <1>1, <2>1, ReleasedEnters DEF tables, players
<1>3. CASE VacateRoom(g) \/ ClearSeats(g)
  BY <1>1, <1>3, Zenon DEF VacateRoom, ClearSeats, players
<1>4. CASE ~(ReleaseSeat(g) \/ VacateRoom(g) \/ ClearSeats(g))
  BY <1>1, <1>4, GameKeepsRooms DEF sitting
<1> QED BY <1>2, <1>3, <1>4

LEMMA StepEnters ==
  ASSUME Sound, NobodyJoins, [Next]_vars
  PROVE  NobodyEnters
<1>1. CASE UNCHANGED vars
  BY <1>1 DEF vars, tables, players, NobodyEnters
<1>2. ASSUME NEW t \in Client, Accept(t)
      PROVE  NobodyEnters
  BY <1>2, ReleasedEnters DEF Accept, add_player
<1> QED BY <1>1, <1>2, ClientEnters, GameEnters DEF Next

-----------------------------------------------------------------------------
(* Games run on *)

\* The games that are run before the step are run after it, in their rooms, but for one
\* that is over: then its waiters are woken, and its room is left.
GamesGoOn == \A r : GameThere(r) => GameThere(r)'

LEMMA ClientGoesOn ==
  ASSUME Sound, NEW t \in Client, ClientRuns(t) \/ ClientInput(t)
  PROVE  GamesGoOn
BY ClientGames DEF GamesGoOn, GameThere

LEMMA GameGoesOn ==
  ASSUME Sound, NEW g \in Game, GameRuns(g) \/ GameInput(g), ~ClearSeats(g)
  PROVE  GamesGoOn
<1>1. CASE gt' = gt
  BY <1>1 DEF GamesGoOn, GameThere
<1>2. CASE gt' # gt
  <2>1. Remains(g) /\ \A h \in Game \ {g} : gt'[h] = gt[h]
    BY <1>2, GamePlays DEF GameLands, Plays
  <2> QED BY <2>1 DEF GamesGoOn, GameThere, Remains
<1> QED BY <1>1, <1>2

LEMMA RunOn ==
  ASSUME GamesRun, NobodyEnters, GamesGoOn
  PROVE  GamesRun'
BY DEF GamesRun, NobodyEnters, GamesGoOn

\* Nobody is in a room any more when its seats are cleared.
LEMMA ClearRunsOn ==
  ASSUME Sound, Consistent, GamesRun, NEW g \in Game, ClearSeats(g)
  PROVE  /\ GamesRun'
         /\ \A r : r # RoomOf(g) => (GameThere(r) => GameThere(r)')
<1>1. gt[g].pc = "clear" /\ UNCHANGED <<state, room_id>>
  BY DEF ClearSeats, GameAt, players
<1>2. \A h \in Game \ {g} : gt'[h] = gt[h]
  BY DEF ClearSeats, Sound, Games
<1>3. \A p \in Slot : room_id[p] # gt[g].room
  BY <1>1 DEF Consistent, ResetAgrees, InReset
<1>4. \A r : r # RoomOf(g) => (GameThere(r) => GameThere(r)')
  BY <1>2 DEF GameThere, RoomOf
<1> QED BY <1>1, <1>3, <1>4 DEF GamesRun, RoomOf

-----------------------------------------------------------------------------
(* Waiters *)

\* How a client thread comes to wait: it looks up its player's room, or finds in the
\* room it has in mind that its player's game is on.
LooksUp(t) ==
  /\ ct'[t] = [ct[t] EXCEPT !.pc = "in_room", !.room = room_id[ct[t].slot]]
  /\ UNCHANGED <<state, room_id>>

WaitsOn(t) ==
  /\ ct[t].pc \in {"in_room", "woken"} /\ state[ct[t].slot] = "IN_GAME"
  /\ ct'[t] = [ct[t] EXCEPT !.pc = "condwait"]
  /\ UNCHANGED <<state, room_id>>

LEMMA ClientWaits ==
  ASSUME Sound, NEW t \in Client, ClientRuns(t) \/ ClientInput(t), ct' # ct, ct'[t].pc \in Waits
  PROVE  LooksUp(t) \/ WaitsOn(t)
<1>1. Clients(ct) /\ ct \in [Client -> ClientRecord]
  BY DEF Sound, Clients
<1>2. Loop(t) \/ EnterWait(t) \/ Woken(t)
  BY ClientLands DEF Lands
<1>3. UNCHANGED <<state, room_id>> /\ ct[t].pc # "none"
  BY <1>2 DEF Loop, EnterWait, Woken, At, tables, players
<1>4. ~Exit(t) /\ ~ToLoop(t) /\ ~Goto(t, "lobby") /\ ~Goto(t, "timedwait")
  <2>1. Exit(t) => ct'[t].pc = "none"
    BY <1>1, ExitProceeds
  <2>2. ToLoop(t) => ct'[t].pc = "loop"
    BY <1>1, <1>3, ToLoopProceeds
  <2>3. \A pc \in {"lobby", "timedwait"} : Goto(t, pc) => ct'[t].pc = pc
    BY <1>1 DEF Goto, ClientRecord
  <2> QED BY <2>1, <2>2, <2>3 DEF Waits
<1>5. CASE Loop(t)
  <2>1. ct' = [ct EXCEPT ![t].pc = "in_room", ![t].room = room_id[ct[t].slot]]
    BY <1>4, <1>5, Zenon DEF Loop
  <2>2. ct'[t] = [ct[t] EXCEPT !.pc = "in_room", !.room = room_id[ct[t].slot]]
    BY <1>1, <2>1
  <2> QED BY <1>3, <2>2 DEF LooksUp
<1>6. CASE EnterWait(t) \/ Woken(t)
  <2>1. /\ ct[t].pc \in {"in_room", "woken"} /\ state[ct[t].slot] = "IN_GAME"
        /\ Goto(t, "condwait")
    <3>1. CASE EnterWait(t)
      BY <1>4, <3>1, Zenon DEF EnterWait, At
    <3>2. CASE Woken(t)
      BY <1>4, <3>2, Zenon DEF Woken, At
    <3> QED BY <1>6, <3>1, <3>2
  <2>2. ct'[t] = [ct[t] EXCEPT !.pc = "condwait"]
    BY <1>1, <2>1 DEF Goto
  <2> QED BY <1>3, <2>1, <2>2 DEF WaitsOn
<1> QED BY <1>2, <1>5, <1>6

\* A thread that does not move, or is only signalled, knows its room still.
LEMMA FollowerKnows ==
  ASSUME Sound, NobodyEnters, NEW u \in Client, KnowsRoom(ct[u]), Follows(ct[u], ct'[u])
  PROVE  KnowsRoom(ct[u])'
<1> DEFINE c == ct[u]
           d == ct'[u]
<1>1. c \in ClientRecord /\ ClientDefined(c)
  BY DEF Sound, Clients
<1>2. /\ d.slot = c.slot /\ (c.pc # "timedwait" => d.room = c.room)
      /\ d.pc # c.pc => c.pc \in {"timedwait", "condwait"}
      /\ c.pc = "timedwait" /\ d.pc # c.pc => d.pc = "loop"
  <2>1. c.pc = "timedwait" => Signalled(c).pc = "loop"
    BY <1>1 DEF Signalled, ClientRecord
  <2> QED BY <1>1, <2>1, FollowsKeeps DEF Follows
<1>3. d.pc \in Waits => c.pc \in Waits
  BY <1>2 DEF Waits
<1>4. ASSUME d.pc \in Waits, state'[d.slot] = "IN_GAME"
      PROVE  d.room = room_id'[d.slot]
  <2>1. c.pc \in Waits /\ c.slot \in Slot /\ d.room = c.room
    BY <1>1, <1>2, <1>3, <1>4 DEF Waits, ClientDefined
  <2> QED BY <1>2, <1>4, <2>1 DEF KnowsRoom, NobodyEnters
<1> QED BY <1>4 DEF KnowsRoom

LEMMA StepKnows ==
  ASSUME Sound, WaitersKnow, NobodyEnters, [Next]_vars
  PROVE  WaitersKnow'
<1> SUFFICES ASSUME NEW u \in Client PROVE KnowsRoom(ct[u])'
  BY DEF WaitersKnow
<1>1. KnowsRoom(ct[u]) /\ ct[u] \in ClientRecord
  BY DEF WaitersKnow, Sound, Clients
<1>2. CASE Follows(ct[u], ct'[u])
  BY <1>1, <1>2, FollowerKnows
<1>3. CASE ct'[u].pc \notin Waits
  BY <1>3 DEF KnowsRoom
<1>4. CASE ct' = ct
  BY <1>2, <1>4 DEF Follows
<1>5. ASSUME NEW t \in Client, Accept(t)
      PROVE  KnowsRoom(ct[u])'
  <2>1. PICK s, p :
          ct' = [ct EXCEPT ![t] = [NoClient EXCEPT !.pc = "login", !.slot = p, !.fd = s]]
    BY <1>5 DEF Accept
  <2>2. ct'[u] = ct[u] \/ ct'[u].pc = "login"
    BY <2>1 DEF NoClient, Sound, Clients
  <2> QED BY <1>2, <1>3, <2>2 DEF Follows, Waits
<1>6. ASSUME NEW t \in Client, ClientRuns(t) \/ ClientInput(t), ct' # ct
      PROVE  KnowsRoom(ct[u])'
  <2>1. CASE u # t
    BY <1>2, <1>6, <2>1, ClientLands DEF Lands, Proceeds, Moves
  <2>2. CASE u = t /\ ct'[u].pc \in Waits
    <3>1. LooksUp(t) \/ WaitsOn(t)
      BY <1>6, <2>2, ClientWaits
    <3>2. CASE LooksUp(t)
      BY <1>1, <2>2, <3>2 DEF LooksUp, KnowsRoom, ClientRecord
    <3>3. CASE WaitsOn(t)
      BY <1>1, <2>2, <3>3 DEF WaitsOn, KnowsRoom, ClientRecord, Waits
    <3> QED BY <3>1, <3>2, <3>3
  <2> QED BY <1>3, <2>1, <2>2
<1>7. ASSUME NEW g \in Game, GameRuns(g) \/ GameInput(g)
      PROVE  KnowsRoom(ct[u])'
  BY <1>2, <1>7, GameLeaves
<1> QED BY <1>4, <1>5, <1>6, <1>7 DEF Next, vars

\* Who waits on, or is not signalled, waits for a game that is there.
LEMMA FollowerWaits ==
  ASSUME Sound, NobodyWaitsInVain, NEW u \in Client, Follows(ct[u], ct'[u]),
         ct'[u].pc = "condwait"
  PROVE  ct'[u] = ct[u] /\ GameThere(ct[u].room)
<1>1. ct[u] \in ClientRecord
  BY DEF Sound, Clients
<1>2. ct'[u] = ct[u]
  BY <1>1, FollowsKeeps
<1> QED BY <1>2 DEF NobodyWaitsInVain

LEMMA ClientWaitsForGame ==
  ASSUME Sound, WaitersKnow, GamesRun, NobodyWaitsInVain,
         NEW t \in Client, ClientRuns(t) \/ ClientInput(t)
  PROVE  NobodyWaitsInVain'
<1>1. GamesGoOn
  BY ClientGoesOn
<1>2. ASSUME NEW u \in Client, ct'[u].pc = "condwait"
      PROVE  GameThere(ct'[u].room)
  <2>1. ct[u] \in ClientRecord /\ ClientDefined(ct[u])
    BY DEF Sound, Clients
  <2>2. CASE Follows(ct[u], ct'[u])
    BY <1>2, <2>2, FollowerWaits
  <2>3. CASE u = t /\ ct' # ct
    <3>1. WaitsOn(t)
      <4>1. ct'[t].pc \in Waits
        BY <1>2, <2>3 DEF Waits
      <4>2. ~LooksUp(t)
        BY <1>2, <2>1, <2>3 DEF LooksUp, ClientRecord
      <4> QED BY <2>3, <4>1, <4>2, ClientWaits
    <3>2. ct[t].slot \in Slot /\ ct'[t].room = ct[t].room /\ ct[t].room = room_id[ct[t].slot]
      BY <2>1, <2>3, <3>1 DEF WaitsOn, WaitersKnow, KnowsRoom, ClientRecord, ClientDefined, Waits
    <3> QED BY <2>3, <3>1, <3>2 DEF WaitsOn, GamesRun
  <2>4. CASE u # t /\ ct' # ct
    BY <2>2, <2>4, ClientLands DEF Lands, Proceeds, Moves
  <2>5. CASE ct' = ct
    BY <2>2, <2>5 DEF Follows
  <2> QED BY <2>3, <2>4, <2>5
<1> QED BY <1>1, <1>2 DEF NobodyWaitsInVain, GamesGoOn

\* The game that ends wakes whoever waits in its room.
LEMMA GameWaitsForGame ==
  ASSUME Sound, Consistent, GamesRun, NobodyWaitsInVain, NEW g \in Game,
         GameRuns(g) \/ GameInput(g)
  PROVE  NobodyWaitsInVain'
<1>1. ASSUME NEW u \in Client, ct'[u].pc = "condwait"
      PROVE  ct'[u] = ct[u] /\ GameThere(ct[u].room)
  BY <1>1, GameLeaves, FollowerWaits
<1>2. CASE ClearSeats(g)
  <2>1. ASSUME NEW u \in Client, ct'[u].pc = "condwait"
        PROVE  ct'[u].room # RoomOf(g)
    <3>1. ct'[u] = IF Waiting(RoomOf(g), ct[u]) THEN Signalled(ct[u]) ELSE ct[u]
      BY <1>2 DEF ClearSeats, Broadcast
    <3>2. ct[u].pc = "condwait" /\ ct[u] \in ClientRecord
      BY <1>1, <2>1 DEF Sound, Clients
    <3>3. Signalled(ct[u]).pc = "woken"
      BY <3>2 DEF Signalled, ClientRecord
    <3> QED BY <1>1, <2>1, <3>1, <3>2, <3>3 DEF Waiting
  <2> QED BY <1>1, <1>2, <2>1, ClearRunsOn DEF NobodyWaitsInVain
<1>3. CASE ~ClearSeats(g)
  BY <1>1, <1>3, GameGoesOn DEF NobodyWaitsInVain, GamesGoOn
<1> QED BY <1>2, <1>3

LEMMA AcceptWaitsForGame ==
  ASSUME Sound, NobodyWaitsInVain, NEW t \in Client, Accept(t)
  PROVE  NobodyWaitsInVain'
<1>1. PICK s, p :
        ct' = [ct EXCEPT ![t] = [NoClient EXCEPT !.pc = "login", !.slot = p, !.fd = s]]
  BY DEF Accept
<1>2. \A u \in Client : ct'[u].pc = "condwait" => ct'[u] = ct[u]
  BY <1>1 DEF NoClient, Sound, Clients
<1> QED BY <1>2 DEF Accept, NobodyWaitsInVain, GameThere

-----------------------------------------------------------------------------
(* What holds as long as nobody joins *)

LEMMA StepUnderway ==
  ASSUME MaxJoins = 0, Underway, [Next]_vars
  PROVE  Underway'
<1>1. Sound /\ NobodyJoins /\ NobodyEnters
  BY StepEnters DEF Underway
<1>2. Sound' /\ NobodyJoins' /\ WaitersKnow'
  BY <1>1, StepSound, StepJoins, StepKnows DEF Underway
<1>3. ASSUME ~clash'
      PROVE  Consistent' /\ GamesRun' /\ NobodyWaitsInVain'
  <2>1. Consistent /\ GamesRun /\ NobodyWaitsInVain
    BY <1>1, <1>3, HistoryGrows DEF Underway
  <2>2. Consistent'
    BY <1>1, <1>3, <2>1, StepConsistent
  <2>3. GamesRun'
    <3>1. CASE UNCHANGED vars
      BY <2>1, <3>1 DEF vars, tables, players, GamesRun, GameThere
    <3>2. ASSUME NEW t \in Client, Accept(t)
          PROVE  GamesRun'
      <4>1. GamesGoOn
        BY <3>2 DEF Accept, GamesGoOn, GameThere
      <4> QED BY <1>1, <2>1, <4>1, RunOn
    <3>3. ASSUME NEW t \in Client, ClientRuns(t) \/ ClientInput(t)
          PROVE  GamesRun'
      BY <1>1, <2>1, <3>3, ClientGoesOn, RunOn
    <3>4. ASSUME NEW g \in Game, GameRuns(g) \/ GameInput(g)
          PROVE  GamesRun'
      BY <1>1, <2>1, <3>4, GameGoesOn, RunOn, ClearRunsOn
    <3> QED BY <3>1, <3>2, <3>3, <3>4 DEF Next
  <2>4. NobodyWaitsInVain'
    <3>1. CASE UNCHANGED vars
      BY <2>1, <3>1 DEF vars, NobodyWaitsInVain, GameThere
    <3> QED BY <1>1, <2>1, <3>1, AcceptWaitsForGame, ClientWaitsForGame, GameWaitsForGame
            DEF Next, Underway
  <2> QED BY <2>2, <2>3, <2>4
<1> QED BY <1>2, <1>3 DEF Underway

\* While nobody joins, and no reset overlaps with a call of lobby.c on its room, everybody
\* in a game has a game thread in its room, and every thread that waits for the end of one
\* waits in a room that has one, whatever connections are lost, kicked or come back
\* (server.c:932-1130, 28-515).
THEOREM MatchUnderway ==
  ASSUME MaxJoins = 0
  PROVE  MatchSpec => []Underway
<1>1. Established => Underway
  BY EstablishedUnderway
<1>2. Underway /\ [Next]_vars => Underway'
  BY StepUnderway
<1> QED BY <1>1, <1>2, PTL DEF MatchSpec

\* The wait at server.c:1115 has no time-out.  It is entered only while the thread's
\* player is in a game, under the room's mutex; the game's thread exists then, and
\* before it is gone it wakes whoever waits in its room (server.c:173-176).
THEOREM MatchWaitersHaveGame ==
  ASSUME MaxJoins = 0
  PROVE  MatchSpec => []WaitersHaveGame
<1>1. Underway => WaitersHaveGame
  BY DEF Underway, NobodyWaitsInVain, GameThere, WaitersHaveGame, At
<1> QED BY <1>1, MatchUnderway, PTL

\* A slot is kept for a lost player only while a game thread is there that will release
\* it, unless the reset overlaps with a removal (server.c:159-167).
THEOREM MatchLostHaveGame ==
  ASSUME MaxJoins = 0
  PROVE  MatchSpec => []LostHaveGame
<1>1. Underway => LostHaveGame
  BY DEF Underway, GamesRun, GameThere, LostHaveGame
<1> QED BY <1>1, MatchUnderway, PTL

-----------------------------------------------------------------------------
(* What module Server keeps, from the middle of a game *)

\* Through the pauses and the end of a game nothing but a reset that overlaps with a call
\* on its room sets the tables at odds (server.c:153-177; lobby.c:126-178, 226-296).
THEOREM MatchTablesAgree == MatchSpec => []TablesAgree
<1> DEFINE Inv == Sound /\ (~clash => Consistent)
<1>1. Established => Inv
  BY EstablishedUnderway DEF Underway
<1>2. Inv /\ [Next]_vars => Inv'
  BY StepSound, StepConsistent
<1>3. Inv => TablesAgree
  BY ConsistentAgree
<1> QED BY <1>1, <1>2, <1>3, PTL DEF MatchSpec

\* Every socket in the table is known to a thread that has it, from the middle of a game
\* too (server.c:610-613).
THEOREM MatchServed == MatchSpec => []Served
<1> DEFINE Inv == Sound /\ AllServed
<1>1. Established => Inv
  BY EstablishedSound, EstablishedServed
<1>2. Inv /\ [Next]_vars => Inv'
  BY StepSound, StepServes
<1>3. Inv => Served
  BY ServesIsServed
<1> QED BY <1>1, <1>2, <1>3, PTL DEF MatchSpec

\* A game's losses, kicks and reconnections keep the count of the slots in use, until a
\* slot is adopted that was given up after it was found (server.c:725-735).
THEOREM MatchCounts == MatchSpec => []SlotsStayCounted
<1> DEFINE Inv == Sound /\ (~revived => Counted)
<1>1. Established => Inv
  BY EstablishedSound, EstablishedCounted
<1>2. Inv /\ [Next]_vars => Inv'
  BY StepSound, StepCounted
<1>3. Inv => SlotsStayCounted
  BY DEF Counted, SlotsStayCounted
<1> QED BY <1>1, <1>2, <1>3, PTL DEF MatchSpec

\* Types, and player_count between 0 and MAX_PLAYERS until such an adoption.
THEOREM MatchTyped == MatchSpec => []ServerTypeOK
<1> DEFINE Inv == Sound /\ (~revived => Counted)
<1>1. Established => Inv
  BY EstablishedSound, EstablishedCounted
<1>2. Inv /\ [Next]_vars => Inv'
  BY StepSound, StepCounted
<1>3. Inv => ServerTypeOK
  BY TypesFromParts
<1> QED BY <1>1, <1>2, <1>3, PTL DEF MatchSpec
=============================================================================
