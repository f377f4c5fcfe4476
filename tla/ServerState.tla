---------------------------- MODULE ServerState -----------------------------
(* What the server's threads share beside the tables of the lobby, and the   *)
(* record each of them keeps.  ClientThread and GameThread are the threads.  *)
EXTENDS Lobby

CONSTANTS Client,        \* client handler threads that can run at once
          Game,          \* game threads that can run at once
          MaxConnections, MaxJoins  \* bounds for TLC: how many connections are
                                    \* accepted and rooms joined in a behaviour

ASSUME ThreadAssumption ==
  /\ Client \subseteq Nat
  /\ Socket \subseteq Nat
  /\ MaxConnections \in Nat /\ MaxJoins \in Nat

VARIABLES
  open,                  \* descriptors that are open
  connections, joins,    \* connections accepted and rooms joined so far
  clash, revived,        \* history, for the properties only: see below
  ct,                    \* client_handler_thread: one record per thread
  gt,                    \* game_thread_func: one record per thread
  crashed                \* a NULL pointer was followed: the process is gone

\* clash: a call of lobby.c and a reset of the room it works on overlapped, or a player
\* joined who was in a room.  revived: a slot that had been given up, or never taken,
\* was used without add_player.  Nothing in the code looks at either.
history == <<clash, revived>>
net     == <<open, connections, joins, history>>
vars    == <<tables, net, ct, gt, crashed>>

\* fd is client_socket, nick the name of the LOGIN, peer a slot found under that
\* name, room the room whose condition variable or mutex is used or that a call of
\* lobby.c works on, caller the point such a call was made from, other the opponent's
\* seat as computed before RESUME, sock client_socket of handle_lobby_command.
NoClient == [pc |-> "none", slot |-> None, fd |-> None, nick |-> None, peer |-> None,
             room |-> None, caller |-> "none", other |-> None, sock |-> None]

\* Inside lobby.c, between looking a room up and changing it.
InLobbyCall == {"joining", "leaving", "removing"}

ClientPC == InLobbyCall \cup
  {"none", "login", "find_active", "kick", "kicked", "find_disconnected", "new_name",
   "adopt", "adopted", "rejoin", "resume", "resumed", "enter", "loop", "lobby",
   "drop_command", "joined", "wake", "in_room", "timedwait", "timedout", "leave",
   "condwait", "woken", "drop"}

ClientRecord ==
  [pc : ClientPC, slot : Slot \cup {None}, fd : Socket \cup {None},
   nick : Nickname \cup {None}, peer : Slot \cup {None}, room : Room \cup {None},
   caller : ClientPC, other : Seat \cup {None}, sock : Socket \cup {None}]

\* fds is game.player_fds, over and winner the end of the game, disc and idle
\* has_disconnected_player and idle_player_idx, lost the value of disc that a round
\* of polling began with, at the index of a loop over the seats, who and opp players
\* looked up before a call, ready the seats whose input is still to be handled.
NoGame == [pc |-> "none", room |-> None, fds |-> [i \in Seat |-> None], over |-> FALSE,
           winner |-> None, disc |-> FALSE, idle |-> None, lost |-> FALSE, at |-> 0,
           who |-> None, opp |-> None, ready |-> {}]

\* Inside reset_room_after_game.
InReset == {"pass", "release", "vacate", "clear"}

GamePC == InReset \cup
  {"none", "start", "top", "paused", "poll", "read", "back", "lose", "timeout", "expel",
   "sync", "select", "input", "reading", "pause", "reset"}

GameRecord ==
  [pc : GamePC, room : Room \cup {None}, fds : [Seat -> Socket \cup {None}],
   over : BOOLEAN, winner : Seat \cup {None}, disc : BOOLEAN,
   idle : Seat \cup {None}, lost : BOOLEAN, at : Seat,
   who : Slot \cup {None}, opp : Slot \cup {None}, ready : SUBSET Seat]

-----------------------------------------------------------------------------
(* The mutexes, where a thread keeps one from one step to the next.  All     *)
(* other critical sections are one step.                                     *)

\* lobby_mutex, and the mutex of room r.
LobbyFree   == \A t \in Client : ct[t].pc \notin InLobbyCall
RoomFree(r) == \A g \in Game : gt[g].pc \in InReset \cup {"expel"} => gt[g].room # r

BeingReset(r) == \E g \in Game : gt[g].pc \in InReset /\ gt[g].room = r
InCall(r)     == \E t \in Client : ct[t].pc \in InLobbyCall /\ ct[t].room = r

clashes_if(b) == clash' = (clash \/ b)
revives_if(b) == revived' = (revived \/ b)

Waiting(r, c) == c.room = r /\ c.pc \in {"timedwait", "condwait"}

\* A waiter that was signalled: pthread_cond_timedwait returns to the main loop,
\* pthread_cond_wait to the checks behind it.
Signalled(c) ==
  IF c.pc = "timedwait" THEN [c EXCEPT !.pc = "loop", !.room = None]
                        ELSE [c EXCEPT !.pc = "woken"]

\* pthread_cond_broadcast and pthread_cond_signal on the threads cs.
Broadcast(r, cs) == [u \in Client |-> IF Waiting(r, cs[u]) THEN Signalled(cs[u]) ELSE cs[u]]

SignalOne(r, cs) ==
  LET W == {u \in Client : Waiting(r, cs[u])}
  IN  IF W = {} THEN {cs} ELSE {[cs EXCEPT ![u] = Signalled(@)] : u \in W}

close(s) == open' = open \ {s} /\ UNCHANGED <<connections, joins, history>>

Crash == crashed' = TRUE /\ UNCHANGED <<tables, net, ct, gt>>

\* A thread is at a point of its code, and the process is still there.
At(t, pc)     == ct[t].pc = pc /\ ~crashed
GameAt(g, pc) == gt[g].pc = pc /\ ~crashed

\* Type invariant, the lobby's tables included.  player_count can leave its range once
\* a slot was revived, because a slot that was not counted is given up.
ServerTypeOK ==
  /\ EntriesOK
  /\ player_count <= MAX_PLAYERS
  /\ ~revived => player_count >= 0
  /\ open \subseteq Socket
  /\ connections \in 0 .. MaxConnections
  /\ joins \in 0 .. MaxJoins
  /\ history \in BOOLEAN \X BOOLEAN
  /\ ct \in [Client -> ClientRecord]
  /\ gt \in [Game -> GameRecord]
  /\ crashed \in BOOLEAN
=============================================================================
