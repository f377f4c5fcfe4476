----------------------------- MODULE LobbyLemmas ------------------------------
(* What the functions of lobby.c do to the tables, one room at a time, for   *)
(* whoever calls them: facts that the proofs about LobbyUse and about Server *)
(* rest on.                                                                  *)
EXTENDS Lobby, FiniteSetTheorems, TLAPS

-----------------------------------------------------------------------------
(* Constants and counting *)

LEMMA SeatSet == Seat = {0, 1} /\ MAX_PLAYERS_PER_ROOM = 2
BY DEF Seat, MAX_PLAYERS_PER_ROOM

LEMMA NoneIsNobody ==
  None \notin Slot /\ None \notin Room /\ None \notin Seat
    /\ None \notin Socket /\ None \notin Nickname
BY LobbyAssumption, SeatSet DEF None, Slot, Room

LEMMA SlotsFinite == IsFiniteSet(Slot) /\ Cardinality(Slot) = MAX_PLAYERS
<1>1. MAX_PLAYERS - 1 \in Int /\ 0 \in Int
  BY LobbyAssumption
<1>2. QED BY <1>1, FS_Interval, LobbyAssumption DEF Slot

LEMMA OccupiedFinite == IsFiniteSet(Occupied) /\ Cardinality(Occupied) \in Nat
<1>1. Occupied \in SUBSET Slot
  BY DEF Occupied
<1>2. QED BY <1>1, SlotsFinite, FS_Subset, FS_CardinalityType

\* No step that takes no slot into use needs a count.
LEMMA FewerOccupied ==
  ASSUME SlotsAreCounted, Occupied' \subseteq Occupied, UNCHANGED player_count,
         player_count \in Nat
  PROVE  SlotsAreCounted'
<1>1. Occupied' \in SUBSET Occupied
  OBVIOUS
<1>2. Cardinality(Occupied') <= Cardinality(Occupied) /\ IsFiniteSet(Occupied')
  BY <1>1, OccupiedFinite, FS_Subset
<1>3. Cardinality(Occupied') \in Nat
  BY <1>2, FS_CardinalityType
<1>4. Cardinality(Occupied') = Cardinality(Occupied)'
  OBVIOUS
<1>5. QED BY <1>2, <1>3, <1>4, OccupiedFinite DEF SlotsAreCounted

LEMMA OneMoreOccupied ==
  ASSUME SlotsAreCounted, NEW p, Occupied' \subseteq Occupied \cup {p},
         player_count \in Nat, player_count' = player_count + 1
  PROVE  SlotsAreCounted'
<1>1. /\ IsFiniteSet(Occupied \cup {p})
      /\ Cardinality(Occupied \cup {p}) <= Cardinality(Occupied) + 1
      /\ Cardinality(Occupied \cup {p}) \in Nat
  <2>1. /\ IsFiniteSet(Occupied \cup {p})
        /\ Cardinality(Occupied \cup {p}) =
             IF p \in Occupied THEN Cardinality(Occupied) ELSE Cardinality(Occupied) + 1
    BY OccupiedFinite, FS_AddElement
  <2>2. QED BY <2>1, OccupiedFinite
<1>2. Occupied' \in SUBSET (Occupied \cup {p})
  OBVIOUS
<1>3. Cardinality(Occupied') <= Cardinality(Occupied \cup {p}) /\ IsFiniteSet(Occupied')
  BY <1>1, <1>2, FS_Subset
<1>4. Cardinality(Occupied') \in Nat
  BY <1>3, FS_CardinalityType
<1>5. Cardinality(Occupied') = Cardinality(Occupied)'
  OBVIOUS
<1>6. QED BY <1>1, <1>3, <1>4, <1>5, OccupiedFinite DEF SlotsAreCounted

LEMMA OneLessOccupied ==
  ASSUME SlotsAreCounted, NEW p \in Occupied, Occupied' \subseteq Occupied \ {p},
         player_count \in Nat, player_count' = player_count - 1
  PROVE  SlotsAreCounted' /\ player_count' \in Nat
<1>1. /\ IsFiniteSet(Occupied \ {p})
      /\ Cardinality(Occupied \ {p}) = Cardinality(Occupied) - 1
      /\ Cardinality(Occupied \ {p}) \in Nat
  BY OccupiedFinite, FS_RemoveElement, FS_CardinalityType
<1>2. Occupied' \in SUBSET (Occupied \ {p})
  OBVIOUS
<1>3. Cardinality(Occupied') <= Cardinality(Occupied \ {p}) /\ IsFiniteSet(Occupied')
  BY <1>1, <1>2, FS_Subset
<1>4. Cardinality(Occupied') \in Nat
  BY <1>3, FS_CardinalityType
<1>5. Cardinality(Occupied') = Cardinality(Occupied)'
  OBVIOUS
<1>6. QED BY <1>1, <1>3, <1>4, <1>5, OccupiedFinite DEF SlotsAreCounted

\* The part of EntriesOK that a change of rooms can disturb.
RoomsTyped ==
  /\ state \in [Slot -> {"LOBBY", "IN_GAME"}]
  /\ room_id \in [Slot -> Room \cup {None}]
  /\ room_state \in [Room -> {"WAITING", "IN_PROGRESS", "PAUSED", "ABORTED"}]
  /\ seat \in [Room -> [Seat -> Slot \cup {None}]]
  /\ seat_count \in [Room -> 0 .. MAX_PLAYERS_PER_ROOM]

\* SeatsMatchPlayers, room by room and player by player.
RoomAgrees(r) ==
  \A i \in Seat :
    /\ (seat[r][i] # None) = (i < seat_count[r])
    /\ seat[r][i] # None =>
         /\ state[seat[r][i]] = "IN_GAME"
         /\ room_id[seat[r][i]] = r
         /\ \A j \in Seat : seat[r][j] = seat[r][i] => j = i

PlayerAgrees(p) ==
  /\ state[p] = "IN_GAME" => room_id[p] # None
  /\ room_id[p] # None => \E i \in Seat : seat[room_id[p]][i] = p

LEMMA AgreementByParts ==
  SeatsMatchPlayers <=> (\A r \in Room : RoomAgrees(r)) /\ (\A p \in Slot : PlayerAgrees(p))
BY DEF SeatsMatchPlayers, RoomAgrees, PlayerAgrees

LEMMA AgreementAfterStep ==
  (\A r \in Room : RoomAgrees(r)') /\ (\A p \in Slot : PlayerAgrees(p)') <=> SeatsMatchPlayers'
BY DEF SeatsMatchPlayers, RoomAgrees, PlayerAgrees

-----------------------------------------------------------------------------
(* remove_player_from_room *)

\* The seats keep their types also where the tables do not agree.
LEMMA RemovalTyped ==
  ASSUME RoomsTyped, NEW r \in Room, NEW p \in Slot, remove_player_from_room(r, p)
  PROVE  /\ room_state' \in [Room -> {"WAITING", "IN_PROGRESS", "PAUSED", "ABORTED"}]
         /\ seat' \in [Room -> [Seat -> Slot \cup {None}]]
         /\ seat_count' \in [Room -> 0 .. MAX_PLAYERS_PER_ROOM]
<1> USE SeatSet
<1>1. seats_without(r, p) \in [Seat -> Slot \cup {None}]
  <2>1. CASE SeatsOf(r, p) = {}
    BY <2>1 DEF seats_without, RoomsTyped
  <2>2. CASE SeatsOf(r, p) # {}
    <3> DEFINE i == CHOOSE i \in Seat : First(i, SeatsOf(r, p))
               s(j) == IF j = seat_count[r] - 1 THEN None
                       ELSE IF j < i \/ j >= seat_count[r] THEN seat[r][j]
                       ELSE seat[r][j + 1]
    <3>1. seat[r] \in [Seat -> Slot \cup {None}] /\ seat_count[r] \in 0 .. 2
      BY DEF RoomsTyped
    <3>2. i \in Seat
      <4>1. SeatsOf(r, p) \subseteq {0, 1}
        BY DEF SeatsOf
      <4>2. \E k \in Seat : First(k, SeatsOf(r, p))
        <5>1. CASE 0 \in SeatsOf(r, p)
          BY <4>1, <5>1 DEF First
        <5>2. CASE 0 \notin SeatsOf(r, p)
          <6>1. SeatsOf(r, p) = {1}
            BY <2>2, <4>1, <5>2
          <6> QED BY <6>1 DEF First
        <5> QED BY <5>1, <5>2
      <4> QED BY <4>2
    <3> HIDE DEF i
    <3>3. \A j \in Seat : s(j) \in Slot \cup {None}
      BY <3>1, <3>2
    <3>4. seats_without(r, p) = [j \in Seat |-> s(j)]
      BY <2>2 DEF seats_without, i
    <3> QED BY <3>3, <3>4
  <2> QED BY <2>1, <2>2
<1>2. SeatsOf(r, p) # {} => seat_count[r] \in 1 .. 2
  BY DEF SeatsOf, RoomsTyped
<1> QED BY <1>1, <1>2 DEF remove_player_from_room, RoomsTyped

\* The other player of the room, if there is one, is on seat 0 afterwards.
LEMMA RoomShifts ==
  ASSUME RoomsTyped, NEW r \in Room, NEW p \in Slot, room_id[p] = r,
         RoomAgrees(r), PlayerAgrees(p), remove_player_from_room(r, p)
  PROVE  \E i \in Seat :
           /\ seat[r][i] = p /\ i < seat_count[r]
           /\ seat' = [seat EXCEPT ![r] =
                         [j \in Seat |-> IF j = 0 THEN seat[r][1 - i] ELSE None]]
           /\ seat_count' = [seat_count EXCEPT ![r] = @ - 1]
           /\ room_state' = [room_state EXCEPT ![r] =
                               IF seat_count[r] = 1 THEN "WAITING" ELSE @]
<1> USE SeatSet, NoneIsNobody
<1>1. PICK i \in Seat : seat[r][i] = p
  BY DEF PlayerAgrees
<1>2. i < seat_count[r] /\ seat_count[r] \in 0 .. 2 /\ seat[r][1 - i] # p
  BY <1>1 DEF RoomAgrees, RoomsTyped
<1>3. SeatsOf(r, p) = {i}
  BY <1>1, <1>2 DEF SeatsOf
<1>4. (CHOOSE k \in Seat : First(k, SeatsOf(r, p))) = i
  <2>1. \A k : First(k, SeatsOf(r, p)) <=> k = i
    BY <1>3 DEF First
  <2>2. QED BY <2>1
<1>5. seats_without(r, p) = [j \in Seat |-> IF j = 0 THEN seat[r][1 - i] ELSE None]
  <2>1. seats_without(r, p) =
          [j \in Seat |-> IF j = seat_count[r] - 1 THEN None
                          ELSE IF j < i \/ j >= seat_count[r] THEN seat[r][j]
                          ELSE seat[r][j + 1]]
    BY <1>3, <1>4 DEF seats_without
  <2>2. seat_count[r] = 1 => i = 0 /\ seat[r][1] = None
    BY <1>2 DEF RoomAgrees
  <2>3. \A j \in Seat :
          (IF j = seat_count[r] - 1 THEN None
             ELSE IF j < i \/ j >= seat_count[r] THEN seat[r][j] ELSE seat[r][j + 1])
          = (IF j = 0 THEN seat[r][1 - i] ELSE None)
    BY <1>2, <2>2
  <2>4. QED BY <2>1, <2>3
<1>6. seat_count' = [seat_count EXCEPT ![r] = @ - 1]
  BY <1>3 DEF remove_player_from_room
<1>7. room_state' = [room_state EXCEPT ![r] = IF seat_count[r] = 1 THEN "WAITING" ELSE @]
  <2>1. (seat_count')[r] = seat_count[r] - 1
    BY <1>6 DEF RoomsTyped
  <2>2. (seat_count')[r] = 0 <=> seat_count[r] = 1
    BY <2>1, <1>2
  <2>3. QED BY <2>2 DEF remove_player_from_room
<1>8. QED BY <1>1, <1>2, <1>5, <1>6, <1>7 DEF remove_player_from_room

\* A player who leaves its room, removed or not, leaves every room that agreed with
\* its players in agreement with them.
LEMMA LeavingAgrees ==
  ASSUME RoomsTyped, NEW p \in Slot, room_id[p] # None,
         RoomAgrees(room_id[p]), \A q \in Slot : PlayerAgrees(q),
         remove_player_from_room(room_id[p], p),
         state' = [state EXCEPT ![p] = "LOBBY"],
         room_id' = [room_id EXCEPT ![p] = None]
  PROVE  /\ RoomsTyped'
         /\ \A r \in Room : RoomAgrees(r) => RoomAgrees(r)'
         /\ \A q \in Slot : PlayerAgrees(q)'
<1> USE SeatSet, NoneIsNobody
<1> DEFINE r == room_id[p]
<1>1. r \in Room
  BY DEF RoomsTyped
<1>2. PICK i \in Seat :
        /\ seat[r][i] = p /\ i < seat_count[r]
        /\ seat' = [seat EXCEPT ![r] =
                      [j \in Seat |-> IF j = 0 THEN seat[r][1 - i] ELSE None]]
        /\ seat_count' = [seat_count EXCEPT ![r] = @ - 1]
        /\ room_state' = [room_state EXCEPT ![r] =
                            IF seat_count[r] = 1 THEN "WAITING" ELSE @]
  BY <1>1, RoomShifts
<1> HIDE DEF r
<1>3. seat_count[r] \in {1, 2} /\ 1 - i \in Seat
  BY <1>1, <1>2 DEF RoomsTyped
<1>4. RoomsTyped'
  BY <1>1, <1>2, <1>3 DEF RoomsTyped
<1>5. ASSUME NEW q \in Room, RoomAgrees(q)
      PROVE  RoomAgrees(q)'
  <2>1. CASE q # r
    <3>1. seat'[q] = seat[q] /\ seat_count'[q] = seat_count[q]
      BY <1>1, <1>2, <2>1 DEF RoomsTyped
    <3>2. \A j \in Seat : seat[q][j] # p
      BY <1>5, <2>1 DEF RoomAgrees, r
    <3>3. \A j \in Seat : seat[q][j] # None => seat[q][j] \in Slot
      BY DEF RoomsTyped
    <3>4. QED BY <1>5, <3>1, <3>2, <3>3 DEF RoomAgrees, RoomsTyped
  <2>2. CASE q = r
    <3>1. /\ seat'[r] = [k \in Seat |-> IF k = 0 THEN seat[r][1 - i] ELSE None]
          /\ seat_count'[r] = seat_count[r] - 1
      BY <1>1, <1>2 DEF RoomsTyped
    <3>2. (seat[r][1 - i] # None) = (seat_count[r] = 2)
      BY <1>2, <1>3 DEF RoomAgrees, r
    <3>3. seat[r][1 - i] # p /\ seat[r][1 - i] \in Slot \cup {None}
      BY <1>1, <1>2, <1>3 DEF RoomAgrees, RoomsTyped, r
    <3>4. seat[r][1 - i] # None =>
            state'[seat[r][1 - i]] = "IN_GAME" /\ room_id'[seat[r][1 - i]] = r
      BY <1>1, <1>3, <3>3 DEF RoomAgrees, RoomsTyped, r
    <3>5. QED BY <1>3, <2>2, <3>1, <3>2, <3>4 DEF RoomAgrees
  <2>3. QED BY <2>1, <2>2
<1>6. ASSUME NEW q \in Slot
      PROVE  PlayerAgrees(q)'
  <2>1. CASE q = p
    BY <2>1 DEF RoomsTyped, PlayerAgrees
  <2>2. CASE q # p
    <3>1. state'[q] = state[q] /\ room_id'[q] = room_id[q]
      BY <2>2 DEF RoomsTyped
    <3>2. ASSUME room_id[q] # None
          PROVE  \E j \in Seat : seat'[room_id[q]][j] = q
      <4>1. PICK j \in Seat : seat[room_id[q]][j] = q
        BY <3>2 DEF PlayerAgrees
      <4>2. CASE room_id[q] # r
        BY <1>2, <4>1, <4>2, <3>2, <1>1 DEF RoomsTyped
      <4>3. CASE room_id[q] = r
        <5>1. j = 1 - i
          BY <1>2, <2>2, <4>1, <4>3
        <5>2. seat'[r][0] = q
          BY <1>1, <1>2, <4>1, <4>3, <5>1 DEF RoomsTyped
        <5>3. QED BY <4>3, <5>2
      <4>4. QED BY <4>2, <4>3
    <3>3. QED BY <3>1, <3>2 DEF PlayerAgrees
  <2>3. QED BY <2>1, <2>2
<1>7. QED BY <1>4, <1>5, <1>6

-----------------------------------------------------------------------------
(* The second half of join_room *)

LEMMA JoinTyped ==
  ASSUME RoomsTyped, NEW r \in Room, NEW p \in Slot, takes_seat(r, p),
         seat_count[r] < MAX_PLAYERS_PER_ROOM
  PROVE  /\ RoomsTyped'
         /\ socket' = socket /\ nickname' = nickname /\ player_count' = player_count
         /\ seat_count[r] \in {0, 1}
         /\ seat'[r] = [seat[r] EXCEPT ![seat_count[r]] = p]
         /\ seat_count'[r] = seat_count[r] + 1
         /\ \A q \in Room : q # r => seat'[q] = seat[q] /\ seat_count'[q] = seat_count[q]
         /\ \A q \in Slot : q # p => state'[q] = state[q] /\ room_id'[q] = room_id[q]
         /\ state'[p] = "IN_GAME" /\ room_id'[p] = r
<1> USE SeatSet, NoneIsNobody
<1> DEFINE k == seat_count[r]
<1>1. /\ k \in {0, 1}
      /\ seat' = [seat EXCEPT ![r][k] = p]
      /\ seat_count' = [seat_count EXCEPT ![r] = @ + 1]
      /\ state' = [state EXCEPT ![p] = "IN_GAME"]
      /\ room_id' = [room_id EXCEPT ![p] = r]
      /\ UNCHANGED <<socket, nickname, player_count>>
  BY DEF takes_seat, RoomsTyped
<1>2. room_state' \in [Room -> {"WAITING", "IN_PROGRESS", "PAUSED", "ABORTED"}]
  BY DEF takes_seat, RoomsTyped
<1> HIDE DEF k
<1>3. seat_count' \in [Room -> 0 .. 2] /\ seat_count'[r] = k + 1
  BY <1>1 DEF RoomsTyped, k
<1>4. /\ seat' \in [Room -> [Seat -> Slot \cup {None}]]
      /\ seat'[r] = [seat[r] EXCEPT ![k] = p]
  BY <1>1 DEF RoomsTyped
<1>5. RoomsTyped'
  BY <1>1, <1>2, <1>3, <1>4 DEF RoomsTyped
<1>6. \A q \in Room : q # r => seat'[q] = seat[q] /\ seat_count'[q] = seat_count[q]
  BY <1>1 DEF RoomsTyped
<1>7. /\ \A q \in Slot : q # p => state'[q] = state[q] /\ room_id'[q] = room_id[q]
      /\ state'[p] = "IN_GAME" /\ room_id'[p] = r
  BY <1>1 DEF RoomsTyped
<1> QED BY <1>1, <1>3, <1>4, <1>5, <1>6, <1>7 DEF k

\* A player that was in no room sat nowhere, so it gets the first free seat of the
\* room it joins, and no other room is concerned.
LEMMA JoinAgrees ==
  ASSUME RoomsTyped, NEW r \in Room, NEW p \in Slot, room_id[p] = None,
         RoomAgrees(r), \A q \in Slot : PlayerAgrees(q), takes_seat(r, p),
         seat_count[r] < MAX_PLAYERS_PER_ROOM
  PROVE  /\ \A q \in Room : RoomAgrees(q) => RoomAgrees(q)'
         /\ \A q \in Slot : PlayerAgrees(q)'
<1> USE SeatSet, NoneIsNobody
<1> DEFINE k == seat_count[r]
<1>0. /\ seat_count[r] \in {0, 1}
      /\ seat'[r] = [seat[r] EXCEPT ![seat_count[r]] = p]
      /\ seat_count'[r] = seat_count[r] + 1
      /\ \A q \in Room : q # r => seat'[q] = seat[q] /\ seat_count'[q] = seat_count[q]
      /\ \A q \in Slot : q # p => state'[q] = state[q] /\ room_id'[q] = room_id[q]
      /\ state'[p] = "IN_GAME" /\ room_id'[p] = r
  BY ONLY JoinTyped, RoomsTyped, takes_seat(r, p), r \in Room, p \in Slot,
          seat_count[r] < MAX_PLAYERS_PER_ROOM
<1>1. k \in {0, 1} /\ seat_count'[r] = k + 1
  BY <1>0
<1>2. \A j \in Seat : seat'[r][j] = IF j = k THEN p ELSE seat[r][j]
  BY <1>0, <1>1 DEF RoomsTyped
<1>3. /\ \A q \in Room : q # r => seat'[q] = seat[q] /\ seat_count'[q] = seat_count[q]
      /\ \A q \in Slot : q # p => state'[q] = state[q] /\ room_id'[q] = room_id[q]
      /\ state'[p] = "IN_GAME" /\ room_id'[p] = r
  BY <1>0
<1> HIDE DEF k
<1>4. ASSUME NEW q \in Room, RoomAgrees(q)
      PROVE  RoomAgrees(q)'
  <2>1. \A j \in Seat : seat[q][j] \in Slot \cup {None} /\ seat[q][j] # p
    BY <1>4 DEF RoomsTyped, RoomAgrees
  <2>2. CASE q # r
    BY <1>3, <1>4, <2>1, <2>2 DEF RoomAgrees
  <2>3. CASE q = r
    <3>1. (seat[r][0] # None) = (0 < k) /\ (seat[r][1] # None) = (1 < k)
      BY DEF RoomAgrees, k
    <3>2. ASSUME NEW i \in Seat
          PROVE  /\ (seat'[r][i] # None) = (i < seat_count'[r])
                 /\ seat'[r][i] # None =>
                      /\ state'[seat'[r][i]] = "IN_GAME"
                      /\ room_id'[seat'[r][i]] = r
                      /\ \A j \in Seat : seat'[r][j] = seat'[r][i] => j = i
      <4>1. CASE i = k
        <5>1. seat'[r][i] = p /\ i < k + 1
          BY <1>1, <1>2, <4>1
        <5>2. \A j \in Seat : seat'[r][j] = p => j = i
          BY <1>2, <2>1, <2>3, <4>1
        <5>3. QED BY <1>1, <1>3, <5>1, <5>2
      <4>2. CASE i # k
        <5>1. seat'[r][i] = seat[r][i] /\ (seat[r][i] # None) = (i < k)
          BY <1>2, <3>1, <4>2
        <5>2. seat[r][i] # None =>
                state'[seat[r][i]] = "IN_GAME" /\ room_id'[seat[r][i]] = r
          BY <1>3, <2>1, <2>3 DEF RoomAgrees
        <5>3. seat[r][i] # None => \A j \in Seat : seat'[r][j] = seat[r][i] => j = i
          BY <1>2, <2>1, <2>3 DEF RoomAgrees
        <5>4. (i < k) = (i < k + 1)
          BY <1>1, <4>2
        <5>5. QED BY <1>1, <5>1, <5>2, <5>3, <5>4
      <4>3. QED BY <4>1, <4>2
    <3>3. QED BY <2>3, <3>2 DEF RoomAgrees
  <2>4. QED BY <2>2, <2>3
<1>5. ASSUME NEW q \in Slot
      PROVE  PlayerAgrees(q)'
  <2>1. CASE q = p
    <3>1. seat'[r][k] = p /\ k \in Seat
      BY <1>1, <1>2
    <3> QED BY <1>3, <2>1, <3>1 DEF PlayerAgrees
  <2>2. CASE q # p
    <3>1. state'[q] = state[q] /\ room_id'[q] = room_id[q]
      BY <1>3, <2>2
    <3>2. ASSUME room_id[q] # None
          PROVE  \E i \in Seat : seat'[room_id[q]][i] = q
      <4>1. PICK i \in Seat : seat[room_id[q]][i] = q
        BY <3>2 DEF PlayerAgrees
      <4>2. room_id[q] \in Room
        BY <3>2 DEF RoomsTyped
      <4>3. room_id[q] = r => i # k
        <5>1. (seat[r][i] # None) = (i < k)
          BY DEF RoomAgrees, k
        <5>2. k \in Int
          BY <1>1
        <5> QED BY <4>1, <5>1, <5>2
      <4>4. seat'[room_id[q]][i] = q
        BY <1>2, <1>3, <4>1, <4>2, <4>3
      <4>5. QED BY <4>4
    <3>3. QED BY <3>1, <3>2 DEF PlayerAgrees
  <2>3. QED BY <2>1, <2>2
<1>6. QED BY <1>4, <1>5
=============================================================================
