---------------------------- MODULE ClientThread ----------------------------
(* client_handler_thread (server.c:614-1131), one action per stretch of code *)
(* between two points where another thread can come in: the lobby's calls,   *)
(* the room's mutex and condition variable, and reads that block.            *)
(* What a client sends is any input, also after its descriptor was closed,   *)
(* because a line may be in the buffer already; commands that change nothing *)
(* (PING, LIST_ROOMS, refused ones) are the action that goes round the loop. *)
EXTENDS ServerState

Goto(t, pc) == ct' = [ct EXCEPT ![t].pc = pc]
Exit(t) == ct' = [ct EXCEPT ![t] = NoClient]

\* Into or round handle_main_loop: the locals of what came before are dropped.
InLoop(t) == [NoClient EXCEPT !.pc = "loop", !.slot = ct[t].slot, !.fd = ct[t].fd]
ToLoop(t) == ct' = [ct EXCEPT ![t] = InLoop(t)]

\* About to end its connection, or to run its main loop.
Ending(t)  == [InLoop(t) EXCEPT !.pc = "drop"]
ToDrop(t)  == ct' = [ct EXCEPT ![t] = Ending(t)]
ToEnter(t) == ct' = [ct EXCEPT ![t] = [InLoop(t) EXCEPT !.pc = "enter"]]

\* Inside lobby.c, about to change room r.
InCallOn(t, pc, r) ==
  ct' = [ct EXCEPT ![t].pc = pc, ![t].room = r, ![t].caller = ct[t].pc]

-----------------------------------------------------------------------------
(* remove_player, which ends a login, a game given up or a connection        *)

\* What the caller does next: the connection ends with its thread; or inside
\* handle_lobby_command only, which then goes round the loop; or a slot is given up
\* for the one that the thread has adopted.
AfterRemoval(t, caller) ==
  CASE caller = "drop"         -> Exit(t) /\ open' = open \ {ct[t].fd}
    [] caller = "drop_command" -> ToLoop(t) /\ open' = open \ {ct[t].sock}
    [] caller = "adopted"      -> /\ ct' = [ct EXCEPT ![t] =
                                       [NoClient EXCEPT !.pc = "rejoin", !.fd = ct[t].fd,
                                                        !.slot = ct[t].peer]]
                                  /\ UNCHANGED open

ReturnsWithoutRemoving(t) ==
  /\ \E pc \in {"drop", "drop_command", "adopted"} : At(t, pc)
  /\ LobbyFree
  /\ AfterRemoval(t, ct[t].pc)
  /\ UNCHANGED <<tables, connections, joins, history, gt, crashed>>

\* A player in a room has it looked up here and is taken from it by Removed.
RemovePlayer(t) ==
  LET p == ct[t].slot
  IN  /\ \E pc \in {"drop", "drop_command", "adopted"} : At(t, pc)
      /\ LobbyFree
      /\ IF socket[p] # None /\ room_id[p] # None
           THEN /\ InCallOn(t, "removing", room_id[p])
                /\ clashes_if(BeingReset(room_id[p]))
                /\ UNCHANGED <<tables, open, revived>>
           ELSE /\ remove_player(p)
                /\ AfterRemoval(t, ct[t].pc)
                /\ UNCHANGED history
      /\ UNCHANGED <<connections, joins, gt, crashed>>

Removed(t) ==
  /\ At(t, "removing")
  /\ removed_from(ct[t].room, ct[t].slot)
  /\ AfterRemoval(t, ct[t].caller)
  /\ UNCHANGED <<connections, joins, history, gt, crashed>>

-----------------------------------------------------------------------------
(* handle_login_and_reconnect *)

ReceiveLogin(t) ==
  /\ At(t, "login")
  /\ \/ ToDrop(t)
     \/ \E n \in Nickname : ct' = [ct EXCEPT ![t].pc = "find_active", ![t].nick = n]
  /\ UNCHANGED <<tables, net, gt, crashed>>

FindActive(t) ==
  /\ At(t, "find_active") /\ LobbyFree
  /\ \/ /\ Active(ct[t].nick) = {}
        /\ Goto(t, "find_disconnected")
     \/ \E q \in Slot :
          /\ find_active_player_by_nickname(ct[t].nick, q)
          /\ ct' = [ct EXCEPT ![t].pc = "kick", ![t].peer = q]
  /\ UNCHANGED <<tables, net, gt, crashed>>

\* The socket of the session found is shut down and closed here ...
Kick(t) ==
  /\ At(t, "kick")
  /\ LET s == socket[ct[t].peer]
     IN  IF s = None THEN ToDrop(t) /\ UNCHANGED net
         ELSE Goto(t, "kicked") /\ close(s)
  /\ UNCHANGED <<tables, gt, crashed>>

\* ... and whatever the slot holds by now is taken from it here; the connection
\* that asked is refused as well.
Kicked(t) ==
  /\ At(t, "kicked") /\ LobbyFree
  /\ handle_player_disconnect(ct[t].peer)
  /\ ToDrop(t)
  /\ UNCHANGED <<net, gt, crashed>>

FindDisconnected(t) ==
  /\ At(t, "find_disconnected") /\ LobbyFree
  /\ \/ /\ Disconnected(ct[t].nick) = {}
        /\ Goto(t, "new_name")
     \/ \E q \in Slot :
          /\ find_disconnected_player(ct[t].nick, q)
          /\ ct' = [ct EXCEPT ![t].pc = "adopt", ![t].peer = q]
  /\ UNCHANGED <<tables, net, gt, crashed>>

\* The nickname was free when it was looked for, twice.
TakeNickname(t) ==
  /\ At(t, "new_name")
  /\ nickname' = [nickname EXCEPT ![ct[t].slot] = ct[t].nick]
  /\ ToEnter(t)
  /\ UNCHANGED <<socket, state, room_id, rooms, player_count, net, gt, crashed>>

\* The slot was a lost player's when it was looked for.  The one the connection came
\* in with is given up next (RemovePlayer).
Adopt(t) ==
  /\ At(t, "adopt")
  /\ socket' = [socket EXCEPT ![ct[t].peer] = ct[t].fd]
  /\ Goto(t, "adopted")
  /\ revives_if(ct[t].peer \in FreeSlot)
  /\ UNCHANGED <<nickname, state, room_id, rooms, player_count, open, connections, joins,
                 clash, gt, crashed>>

\* The room is looked up unguarded: a player whose room was reset meanwhile has none.
Rejoin(t) ==
  LET q == ct[t].slot  r == room_id[q]
  IN  /\ At(t, "rejoin")
      /\ IF r = None THEN Crash
         ELSE /\ ct' = [ct EXCEPT ![t].pc = "resume", ![t].room = r,
                                  ![t].other = IF seat[r][0] = q THEN 1 ELSE 0]
              /\ UNCHANGED <<tables, net, gt, crashed>>

Resume(t) ==
  /\ At(t, "resume") /\ RoomFree(ct[t].room)
  /\ set_room_state(ct[t].room, "IN_PROGRESS")
  /\ ct' = Broadcast(ct[t].room, [ct EXCEPT ![t].pc = "resumed"])
  /\ UNCHANGED <<net, gt, crashed>>

\* Anything but RESUME, or nothing any more: the game is given up.
RefuseResume(t) ==
  /\ At(t, "resume") /\ RoomFree(ct[t].room)
  /\ set_room_state(ct[t].room, "ABORTED")
  /\ ct' \in SignalOne(ct[t].room, [ct EXCEPT ![t] = Ending(t)])
  /\ UNCHANGED <<net, gt, crashed>>

\* OPPONENT_RECONNECTED goes to whoever has the other seat, unguarded.
Resumed(t) ==
  /\ At(t, "resumed")
  /\ \/ seat[ct[t].room][ct[t].other] = None /\ Crash
     \/ /\ seat[ct[t].room][ct[t].other] # None
        /\ ToEnter(t)
        /\ UNCHANGED <<tables, net, gt, crashed>>

-----------------------------------------------------------------------------
(* handle_main_loop and handle_lobby_command *)

\* The main loop takes whatever descriptor the slot has now for its own.
EnterLoop(t) ==
  LET s == socket[ct[t].slot]
  IN  /\ At(t, "enter")
      /\ IF s = None THEN Exit(t)
         ELSE ct' = [ct EXCEPT ![t] = [InLoop(t) EXCEPT !.fd = s]]
      /\ UNCHANGED <<tables, net, gt, crashed>>

\* An obsolete thread ends without closing its descriptor.
Loop(t) ==
  LET p == ct[t].slot
  IN  /\ At(t, "loop")
      /\ \/ (socket[p] = None \/ socket[p] # ct[t].fd) /\ Exit(t)
         \/ /\ socket[p] = ct[t].fd
            /\ \/ state[p] = "LOBBY" /\ Goto(t, "lobby")
               \/ /\ state[p] = "IN_GAME" /\ room_id[p] # None
                  /\ ct' = [ct EXCEPT ![t].pc = "in_room", ![t].room = room_id[p]]
      /\ UNCHANGED <<tables, net, gt, crashed>>

\* The read, or the idle timeout, ends the connection, or nothing comes of it.
\* EXIT, an unknown command, JOIN_ROOM without a room: the connection is closed
\* inside handle_lobby_command, under the descriptor the slot had when the command
\* came, and the loop goes on.
LobbyInput(t) ==
  /\ At(t, "lobby")
  /\ \/ ToDrop(t)
     \/ ct' = [ct EXCEPT ![t].pc = "drop_command", ![t].sock = socket[ct[t].slot]]
     \/ ToLoop(t)
  /\ UNCHANGED <<tables, net, gt, crashed>>

\* join_room finds the room open, and takes a seat in it with TakesSeat.
JoinRoom(t) ==
  /\ At(t, "lobby") /\ LobbyFree /\ joins < MaxJoins
  /\ \E r \in Room :
       /\ CanJoin(r, ct[t].slot)
       /\ InCallOn(t, "joining", r)
       /\ clashes_if(BeingReset(r) \/ room_id[ct[t].slot] # None)
  /\ joins' = joins + 1
  /\ UNCHANGED <<tables, open, connections, revived, gt, crashed>>

TakesSeat(t) ==
  /\ At(t, "joining")
  /\ takes_seat(ct[t].room, ct[t].slot)
  /\ revives_if(ct[t].slot \in FreeSlot)
  /\ ct' = [ct EXCEPT ![t].pc = "joined", ![t].caller = "none"]
  /\ UNCHANGED <<open, connections, joins, clash, gt, crashed>>

\* Whoever finds the room full starts its game, if the system has a thread for it:
\* what pthread_create says is not looked at.
Joined(t) ==
  /\ At(t, "joined")
  /\ IF seat_count[ct[t].room] # MAX_PLAYERS_PER_ROOM THEN ToLoop(t) /\ UNCHANGED gt
     ELSE /\ Goto(t, "wake")
          /\ IF \A g \in Game : gt[g].pc # "none" THEN UNCHANGED gt
             ELSE \E g \in Game :
                    /\ gt[g].pc = "none"
                    /\ gt' = [gt EXCEPT ![g] =
                         [NoGame EXCEPT !.pc = "start", !.room = ct[t].room]]
  /\ UNCHANGED <<tables, net, crashed>>

WakeOpponent(t) ==
  /\ At(t, "wake") /\ RoomFree(ct[t].room)
  /\ ct' = Broadcast(ct[t].room, [ct EXCEPT ![t] = InLoop(t)])
  /\ UNCHANGED <<tables, net, gt, crashed>>

\* Under the room's mutex: wait for an opponent, or for the end of the game.
EnterWait(t) ==
  /\ At(t, "in_room") /\ RoomFree(ct[t].room)
  /\ \/ room_state[ct[t].room] = "WAITING" /\ Goto(t, "timedwait")
     \/ /\ room_state[ct[t].room] # "WAITING"
        /\ IF state[ct[t].slot] = "IN_GAME" THEN Goto(t, "condwait") ELSE ToLoop(t)
  /\ UNCHANGED <<tables, net, gt, crashed>>

\* One second without a signal; the mutex is released before the input is read.
WaitTimesOut(t) ==
  /\ At(t, "timedwait") /\ RoomFree(ct[t].room)
  /\ ct' = [ct EXCEPT ![t] = [InLoop(t) EXCEPT !.pc = "timedout"]]
  /\ UNCHANGED <<tables, net, gt, crashed>>

\* The connection failed or was idle too long, or nothing comes of the input.
RoomInput(t) ==
  /\ At(t, "timedout")
  /\ Goto(t, "leave") \/ ToLoop(t)
  /\ UNCHANGED <<tables, net, gt, crashed>>

\* leave_room finds the player in a room that waits, and takes it out with Left.
FindsRoom(t) ==
  LET p == ct[t].slot
  IN  /\ CanLeave(p)
      /\ InCallOn(t, "leaving", room_id[p])
      /\ clashes_if(BeingReset(room_id[p]))

\* LEAVE_ROOM, which the lobby knows too: another thread may have the same player.
LeaveRoom(t) ==
  /\ At(t, "timedout") \/ At(t, "lobby")
  /\ LobbyFree
  /\ FindsRoom(t)
  /\ UNCHANGED <<tables, open, connections, joins, revived, gt, crashed>>

\* leave_room comes before remove_player when the connection ends in a waiting room.
LeaveAndDrop(t) ==
  /\ At(t, "leave") /\ LobbyFree
  /\ IF CanLeave(ct[t].slot) THEN FindsRoom(t) ELSE ToDrop(t) /\ UNCHANGED clash
  /\ UNCHANGED <<tables, open, connections, joins, revived, gt, crashed>>

Left(t) ==
  /\ At(t, "leaving")
  /\ leaves(ct[t].room, ct[t].slot)
  /\ ct' = [ct EXCEPT ![t] =
              IF ct[t].caller = "leave" THEN Ending(t) ELSE InLoop(t)]
  /\ UNCHANGED <<net, gt, crashed>>

\* Behind pthread_cond_wait: obsolete, still in the game, or released by its end.
Woken(t) ==
  LET p == ct[t].slot
  IN  /\ At(t, "woken") /\ RoomFree(ct[t].room)
      /\ IF socket[p] # ct[t].fd THEN Exit(t)
         ELSE IF state[p] = "IN_GAME" THEN Goto(t, "condwait") ELSE ToLoop(t)
      /\ UNCHANGED <<tables, net, gt, crashed>>

\* What the thread does by itself, and what it does when its client lets it.
ClientRuns(t) ==
  \/ RemovePlayer(t) \/ Removed(t) \/ FindActive(t) \/ Kick(t) \/ Kicked(t)
  \/ FindDisconnected(t) \/ TakeNickname(t) \/ Adopt(t) \/ Rejoin(t) \/ Resumed(t)
  \/ EnterLoop(t) \/ Loop(t) \/ TakesSeat(t) \/ Joined(t) \/ WakeOpponent(t)
  \/ EnterWait(t) \/ LeaveAndDrop(t) \/ Left(t) \/ Woken(t)

ClientInput(t) ==
  \/ ReceiveLogin(t) \/ Resume(t) \/ RefuseResume(t) \/ LobbyInput(t) \/ JoinRoom(t)
  \/ WaitTimesOut(t) \/ RoomInput(t) \/ LeaveRoom(t)
=============================================================================
