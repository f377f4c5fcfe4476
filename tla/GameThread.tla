----------------------------- MODULE GameThread -----------------------------
(* game_thread_func, handle_game_input and reset_room_after_game             *)
(* (server.c:28-515).  Dice and scores are PigGame's: here a command in the  *)
(* game changes nothing, wins or quits.  Clock readings are choices.         *)
EXTENDS ServerState

GoTo(g, pc) == gt' = [gt EXCEPT ![g].pc = pc]

RoomOf(g) == gt[g].room
Sitting(g, i) == seat[RoomOf(g)][i]

\* There is a player on seat i of g's room, and it has a socket.
Present(g, i) == Sitting(g, i) # None /\ socket[Sitting(g, i)] # None

\* init_game and broadcast_game_start follow both seats' pointers.
StartGame(g) ==
  /\ GameAt(g, "start")
  /\ \/ (\E i \in Seat : Sitting(g, i) = None) /\ Crash
     \/ /\ \A i \in Seat : Sitting(g, i) # None
        /\ gt' = [gt EXCEPT ![g].pc = "top",
                            ![g].fds = [i \in Seat |-> socket[Sitting(g, i)]]]
        /\ UNCHANGED <<tables, net, ct, crashed>>

\* The idle seat at the head of a pause is the last one silent for too long: d,
\* idle when the room was paused, still is on the socket it had.
IdleSeat(g) ==
  LET d == gt[g].idle
      still == d # None /\ Present(g, d) /\ socket[Sitting(g, d)] = gt[g].fds[d]
  IN  IF still THEN {i \in Seat : Present(g, i) /\ d <= i}
               ELSE {i \in Seat : Present(g, i)} \cup {None}

\* Head of the loop: is the room paused, and is it because of a lost player?
LoopHead(g) ==
  /\ GameAt(g, "top") /\ RoomFree(RoomOf(g))
  /\ \/ /\ room_state[RoomOf(g)] # "PAUSED"
        /\ gt' = [gt EXCEPT ![g].pc = "sync", ![g].idle = None]
     \/ /\ room_state[RoomOf(g)] = "PAUSED"
        /\ \E i \in IdleSeat(g) :
             gt' = [gt EXCEPT ![g].pc = "paused", ![g].idle = i,
                      ![g].disc = \E j \in Seat : Sitting(g, j) # None /\ ~Present(g, j)]
  /\ UNCHANGED <<tables, net, ct, crashed>>

-----------------------------------------------------------------------------
(* The pause.  The room's state is read under its mutex, the rest is not.    *)

StillPaused(g) ==
  GameAt(g, "paused") /\ RoomFree(RoomOf(g)) /\ room_state[RoomOf(g)] = "PAUSED"

PauseEnds(g) ==
  /\ GameAt(g, "paused") /\ RoomFree(RoomOf(g))
  /\ room_state[RoomOf(g)] # "PAUSED"
  /\ gt' = [gt EXCEPT ![g].pc = "sync", ![g].disc = FALSE, ![g].idle = None]
  /\ UNCHANGED <<tables, net, ct, crashed>>

PauseExpires(g) ==
  /\ StillPaused(g)
  /\ GoTo(g, "timeout")
  /\ UNCHANGED <<tables, net, ct, crashed>>

\* Which of the two branches is taken for both seats is decided once.
PollBegins(g) ==
  /\ StillPaused(g)
  /\ gt' = [gt EXCEPT ![g].pc = "poll", ![g].at = 0, ![g].lost = gt[g].disc]
  /\ UNCHANGED <<tables, net, ct, crashed>>

\* g with this seat polled.
NextSeat(c) ==
  IF c.at = 0 THEN [c EXCEPT !.pc = "poll", !.at = 1]
  ELSE [c EXCEPT !.pc = "paused", !.at = 0, !.lost = FALSE]

\* A seat is read if select reports it; in the branch for a lost player not if it is
\* known to be lost.
PollSeat(g) ==
  LET i == gt[g].at
  IN  /\ GameAt(g, "poll")
      /\ \/ gt' = [gt EXCEPT ![g] = NextSeat(@)]
         \/ /\ Present(g, i) /\ (gt[g].lost => gt[g].fds[i] # None)
            /\ GoTo(g, "read")
      /\ UNCHANGED <<tables, net, ct, crashed>>

\* A second may have passed since: the player read, and the one lost when the read
\* fails, is whoever sits there by now.
PollReads(g) ==
  LET p == Sitting(g, gt[g].at)
  IN  /\ GameAt(g, "read")
      /\ \/ p = None /\ Crash
         \/ /\ p # None
            /\ \/ gt' = [gt EXCEPT ![g] = NextSeat(@)]
               \/ ~gt[g].lost /\ gt[g].idle = gt[g].at /\ GoTo(g, "back")
               \/ gt' = [gt EXCEPT ![g].pc = "lose", ![g].who = p]
            /\ UNCHANGED <<tables, net, ct, crashed>>

\* A message from the idle player.
IdleBack(g) ==
  /\ GameAt(g, "back") /\ RoomFree(RoomOf(g))
  /\ set_room_state(RoomOf(g), "IN_PROGRESS")
  /\ gt' = [gt EXCEPT ![g] = NextSeat(@)]
  /\ UNCHANGED <<net, ct, crashed>>

PollLoses(g) ==
  /\ GameAt(g, "lose") /\ LobbyFree
  /\ handle_player_disconnect(gt[g].who)
  /\ gt' = [gt EXCEPT ![g] = [NextSeat(@) EXCEPT !.fds[gt[g].at] = None, !.disc = TRUE,
                                                 !.who = None]]
  /\ UNCHANGED <<net, ct, crashed>>

\* The winner of a pause that lasted RECONNECT_TIMEOUT: the first seat with a
\* socket when somebody was lost, the other seat when somebody was idle.
TimeoutWinner(g) ==
  IF gt[g].disc THEN
    IF \E i \in Seat : Present(g, i)
      THEN CHOOSE i \in Seat : First(i, {j \in Seat : Present(g, j)})
      ELSE None
  ELSE IF gt[g].idle # None THEN 1 - gt[g].idle ELSE None

TimesOutWithoutEnding(g) ==
  /\ GameAt(g, "timeout") /\ RoomFree(RoomOf(g))
  /\ gt' = [gt EXCEPT ![g].pc = "sync", ![g].winner = TimeoutWinner(g),
              ![g].over = TimeoutWinner(g) # None, ![g].disc = FALSE, ![g].idle = None]
  /\ UNCHANGED <<tables, net, ct, crashed>>

\* The other seat, if it still has a socket, is disconnected with the mutex held.
Timeout(g) ==
  LET w == TimeoutWinner(g)
      expels == w # None /\ Present(g, 1 - w)
  IN  /\ GameAt(g, "timeout") /\ RoomFree(RoomOf(g))
      /\ gt' = [gt EXCEPT ![g].pc = IF expels THEN "expel" ELSE "sync", ![g].over = TRUE,
                  ![g].winner = w, ![g].disc = FALSE, ![g].idle = None,
                  ![g].who = IF expels THEN Sitting(g, 1 - w) ELSE None]
      /\ UNCHANGED <<tables, net, ct, crashed>>

\* GAME_LOSE goes to whoever sits there afterwards.
Expel(g) ==
  LET loser == 1 - gt[g].winner
  IN  /\ GameAt(g, "expel") /\ LobbyFree
      /\ IF Sitting(g, loser) = None THEN Crash
         ELSE /\ handle_player_disconnect(gt[g].who)
              /\ gt' = [gt EXCEPT ![g].pc = "sync", ![g].fds[loser] = None, ![g].who = None]
              /\ UNCHANGED <<net, ct, crashed>>

-----------------------------------------------------------------------------
(* Playing *)

\* Sockets changed by a reconnection are picked up; an aborted game is over.
Sync(g) ==
  LET fds == [i \in Seat |-> IF Sitting(g, i) = None THEN gt[g].fds[i]
                             ELSE socket[Sitting(g, i)]]
      over == gt[g].over \/ room_state[RoomOf(g)] = "ABORTED"
  IN  /\ GameAt(g, "sync")
      /\ gt' = [gt EXCEPT ![g].fds = fds, ![g].over = over,
           ![g].pc = IF over THEN "reset"
                     ELSE IF \A i \in Seat : fds[i] = None THEN "top" ELSE "select"]
      /\ UNCHANGED <<tables, net, ct, crashed>>

\* select reports at least one seat.  FD_ISSET on the -1 of a seat that is gone
\* reads a bit outside the ones set, so that seat may be taken for ready too.
SelectReady(g) ==
  /\ GameAt(g, "select")
  /\ \E R \in SUBSET Seat :
       /\ \E i \in R : gt[g].fds[i] # None
       /\ gt' = [gt EXCEPT ![g].pc = "input", ![g].ready = R]
  /\ UNCHANGED <<tables, net, ct, crashed>>

\* Nothing within the second, or a descriptor that is closed.
SelectNothing(g) ==
  /\ GameAt(g, "select")
  /\ GoTo(g, "top")
  /\ UNCHANGED <<tables, net, ct, crashed>>

\* Nothing within the second, and seat i has been silent for too long.
SelectFindsIdle(g) ==
  /\ GameAt(g, "select") /\ RoomFree(RoomOf(g))
  /\ \E i \in Seat :
       /\ Present(g, i)
       /\ gt' = [gt EXCEPT ![g].pc = "top", ![g].idle = i]
  /\ set_room_state(RoomOf(g), "PAUSED")
  /\ UNCHANGED <<net, ct, crashed>>

InputSeat(g) == CHOOSE i \in Seat : First(i, gt[g].ready)

\* g with this seat's input handled.
Handled(g) ==
  LET rest == gt[g].ready \ {InputSeat(g)}
  IN  [gt[g] EXCEPT !.pc = IF rest = {} THEN "top" ELSE "input", !.ready = rest,
                    !.who = None, !.opp = None]

\* handle_game_input looks both players up, then reads.
InputBegins(g) ==
  LET i == InputSeat(g)
  IN  /\ GameAt(g, "input")
      /\ IF Sitting(g, i) = None THEN Crash
         ELSE /\ gt' = [gt EXCEPT ![g].pc = "reading", ![g].who = Sitting(g, i),
                                  ![g].opp = Sitting(g, 1 - i)]
              /\ UNCHANGED <<tables, net, ct, crashed>>

\* The state of the game is sent to both seats, a disconnection to the opponent.
InputCrashes(g) ==
  /\ GameAt(g, "reading")
  /\ gt[g].opp = None \/ \E i \in Seat : Sitting(g, i) = None
  /\ Crash

\* A roll, a hold, a command that changes nothing, or nothing yet.
InputPlays(g) ==
  /\ GameAt(g, "reading")
  /\ gt' = [gt EXCEPT ![g] = Handled(g)]
  /\ UNCHANGED <<tables, net, ct, crashed>>

\* A winning roll, or QUIT in favour of the other seat.
InputEnds(g) ==
  /\ GameAt(g, "reading") /\ \A i \in Seat : Sitting(g, i) # None
  /\ \E w \in Seat :
       gt' = [gt EXCEPT ![g] = [Handled(g) EXCEPT !.pc = "reset", !.ready = {},
                                                  !.over = TRUE, !.winner = w]]
  /\ UNCHANGED <<tables, net, ct, crashed>>

\* The player looked up before the read is lost, whoever has the seat by now.
InputFails(g) ==
  /\ GameAt(g, "reading") /\ LobbyFree /\ gt[g].opp # None
  /\ handle_player_disconnect(gt[g].who)
  /\ gt' = [gt EXCEPT ![g].pc = "pause", ![g].fds[InputSeat(g)] = None]
  /\ UNCHANGED <<net, ct, crashed>>

\* The room is marked only now, under its own mutex.
PauseRoom(g) ==
  /\ GameAt(g, "pause") /\ RoomFree(RoomOf(g))
  /\ set_room_state(RoomOf(g), "PAUSED")
  /\ gt' = [gt EXCEPT ![g] = Handled(g)]
  /\ UNCHANGED <<net, ct, crashed>>

-----------------------------------------------------------------------------
(* reset_room_after_game: the room's mutex is held from ResetBegins to       *)
(* ClearSeats, lobby_mutex is not, so the lobby's calls come between.        *)

ResetBegins(g) ==
  /\ GameAt(g, "reset") /\ RoomFree(RoomOf(g))
  /\ gt' = [gt EXCEPT ![g] = [NoGame EXCEPT !.pc = "pass", !.room = RoomOf(g), !.over = TRUE]]
  /\ clashes_if(InCall(RoomOf(g)))
  /\ UNCHANGED <<tables, open, connections, joins, revived, ct, crashed>>

NextPass(c) ==
  IF c.at = 0 THEN [c EXCEPT !.pc = "pass", !.at = 1] ELSE [c EXCEPT !.pc = "vacate", !.at = 0]

ResetPasses(g) ==
  /\ GameAt(g, "pass")
  /\ IF Sitting(g, gt[g].at) = None THEN gt' = [gt EXCEPT ![g] = NextPass(@)]
     ELSE GoTo(g, "release")
  /\ UNCHANGED <<tables, net, ct, crashed>>

ResetsConnectedOnly(g) ==
  LET p == Sitting(g, gt[g].at)
  IN  /\ GameAt(g, "release")
      /\ IF p = None THEN Crash
         ELSE /\ state' = [state EXCEPT ![p] = IF socket[p] = None THEN @ ELSE "LOBBY"]
              /\ room_id' = [room_id EXCEPT ![p] = IF socket[p] = None THEN @ ELSE None]
              /\ gt' = [gt EXCEPT ![g] = NextPass(@)]
              /\ UNCHANGED <<socket, nickname, rooms, player_count, net, ct, crashed>>

\* The seat was taken when it was looked at.
ReleaseSeat(g) ==
  LET p == Sitting(g, gt[g].at)
  IN  /\ GameAt(g, "release")
      /\ IF p = None THEN Crash
         ELSE /\ state' = [state EXCEPT ![p] = "LOBBY"]
              /\ room_id' = [room_id EXCEPT ![p] = None]
              /\ gt' = [gt EXCEPT ![g] = NextPass(@)]
              /\ UNCHANGED <<socket, nickname, rooms, player_count, net, ct, crashed>>

VacateRoom(g) ==
  /\ GameAt(g, "vacate")
  /\ room_state' = [room_state EXCEPT ![RoomOf(g)] = "WAITING"]
  /\ seat_count' = [seat_count EXCEPT ![RoomOf(g)] = 0]
  /\ GoTo(g, "clear")
  /\ UNCHANGED <<players, seat, player_count, net, ct, crashed>>

ClearsWithoutWaking(g) ==
  /\ GameAt(g, "clear")
  /\ seat' = [seat EXCEPT ![RoomOf(g)] = [i \in Seat |-> None]]
  /\ gt' = [gt EXCEPT ![g] = NoGame]
  /\ UNCHANGED <<players, room_state, seat_count, player_count, net, ct, crashed>>

ClearSeats(g) ==
  /\ GameAt(g, "clear")
  /\ seat' = [seat EXCEPT ![RoomOf(g)] = [i \in Seat |-> None]]
  /\ ct' = Broadcast(RoomOf(g), ct)
  /\ gt' = [gt EXCEPT ![g] = NoGame]
  /\ UNCHANGED <<players, room_state, seat_count, player_count, net, crashed>>

\* What the thread does by itself, and what its clients and the clock let it do.
GameRuns(g) ==
  \/ StartGame(g) \/ LoopHead(g) \/ PauseEnds(g) \/ PollBegins(g) \/ PollSeat(g)
  \/ PollReads(g) \/ IdleBack(g) \/ PollLoses(g) \/ Timeout(g) \/ Expel(g) \/ Sync(g)
  \/ SelectNothing(g) \/ InputBegins(g) \/ InputCrashes(g) \/ InputPlays(g) \/ PauseRoom(g)
  \/ ResetBegins(g) \/ ResetPasses(g) \/ ReleaseSeat(g) \/ VacateRoom(g) \/ ClearSeats(g)

GameInput(g) ==
  \/ PauseExpires(g) \/ SelectReady(g) \/ SelectFindsIdle(g) \/ InputEnds(g) \/ InputFails(g)
=============================================================================
