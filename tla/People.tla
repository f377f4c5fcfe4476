------------------------------- MODULE People --------------------------------
(* What the lobby promises to people, who know rooms and nothing of slots,   *)
(* sockets and seats: where everybody is, who is connected, and what goes on *)
(* in each room.  A person who loses the connection in a room stays there    *)
(* and can come back to it; nobody is moved otherwise than by an own command *)
(* or by the end of a game, and a game begins only in a full room.           *)
EXTENDS Naturals

CONSTANTS Person, Room,
          Lobby, Away          \* the places that are not rooms

VARIABLES where,               \* the place of each person
          online,              \* persons with a connection
          game,                \* what each room says of itself
          running,             \* per room: games that have begun and not ended
          pending              \* per room: persons who returned and have yet to answer

people == <<where, online, game, running, pending>>

In(r)     == {n \in Person : where[n] = r}
InRoom(n) == where[n] \in Room

Init ==
  /\ where = [n \in Person |-> Away]
  /\ online = {}
  /\ game = [r \in Room |-> "WAITING"]
  /\ running = [r \in Room |-> 0]
  /\ pending = [r \in Room |-> 0]

Arrive(n) ==
  /\ where[n] = Away
  /\ where' = [where EXCEPT ![n] = Lobby]
  /\ online' = online \cup {n}
  /\ UNCHANGED <<game, running, pending>>

\* Two persons are a full room.
Full(r) == \E a, b \in In(r) : a # b

\* The second person to come opens the game; a game that goes on takes nobody in.
Enter(n, r) ==
  /\ where[n] = Lobby /\ n \in online
  /\ game[r] # "IN_PROGRESS" /\ ~Full(r)
  /\ where' = [where EXCEPT ![n] = r]
  /\ game' = [game EXCEPT ![r] = IF In(r) # {} THEN "IN_PROGRESS" ELSE @]
  /\ UNCHANGED <<online, running, pending>>

\* The room that n was in is WAITING again when nobody is left in it.
Vacated(n) ==
  IF InRoom(n) /\ In(where[n]) = {n} THEN [game EXCEPT ![where[n]] = "WAITING"] ELSE game

\* Only a room that waits is left like this.
Leave(n) ==
  /\ InRoom(n) /\ game[where[n]] = "WAITING"
  /\ where' = [where EXCEPT ![n] = IF n \in online THEN Lobby ELSE Away]
  /\ UNCHANGED <<online, game, running, pending>>

\* The place in a room is kept for a person who has lost the connection.
Lose(n) ==
  /\ n \in online
  /\ online' = online \ {n}
  /\ where' = [where EXCEPT ![n] = IF InRoom(n) THEN @ ELSE Away]
  /\ UNCHANGED <<game, running, pending>>

Return(n) ==
  /\ InRoom(n) /\ n \notin online
  /\ online' = online \cup {n}
  /\ pending' = [pending EXCEPT ![where[n]] = @ + 1]
  /\ UNCHANGED <<where, game, running>>

Depart(n) ==
  /\ n \in online
  /\ online' = online \ {n}
  /\ where' = [where EXCEPT ![n] = Away]
  /\ game' = Vacated(n)
  /\ UNCHANGED <<running, pending>>

Begin(r) ==
  /\ Full(r)
  /\ running' = [running EXCEPT ![r] = @ + 1]
  /\ UNCHANGED <<where, online, game, pending>>

\* A game is paused or goes on.
Change(r, s) ==
  /\ running[r] > 0
  /\ game' = [game EXCEPT ![r] = s]
  /\ UNCHANGED <<where, online, running, pending>>

\* A person who returned goes on with the game, or gives it up.
Answer(r, s) ==
  /\ pending[r] > 0
  /\ game' = [game EXCEPT ![r] = s]
  /\ pending' = [pending EXCEPT ![r] = @ - 1]
  /\ UNCHANGED <<where, online, running>>

\* A game is over: who is connected is in the lobby, who is not is gone.
Finish(r) ==
  /\ running[r] > 0
  /\ where' = [n \in Person |-> IF where[n] # r THEN where[n]
                                ELSE IF n \in online THEN Lobby ELSE Away]
  /\ game' = [game EXCEPT ![r] = "WAITING"]
  /\ running' = [running EXCEPT ![r] = @ - 1]
  /\ UNCHANGED <<online, pending>>

Next ==
  \/ \E n \in Person :
       \/ Arrive(n) \/ Leave(n) \/ Lose(n) \/ Return(n) \/ Depart(n)
       \/ \E r \in Room : Enter(n, r)
  \/ \E r \in Room :
       \/ Begin(r) \/ Finish(r)
       \/ \E s \in {"IN_PROGRESS", "PAUSED"} : Change(r, s)
       \/ \E s \in {"IN_PROGRESS", "ABORTED"} : Answer(r, s)

Spec == Init /\ [][Next]_people
=============================================================================
