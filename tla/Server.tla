------------------------------- MODULE Server -------------------------------
(* The whole server: the accept loop, the client threads and the game        *)
(* threads on the lobby's tables, in every order the mutexes allow.          *)
(* MaxConnections and MaxJoins bound the behaviours TLC looks at.            *)
EXTENDS ClientThread, GameThread

Init ==
  /\ init_lobby
  /\ open = {}
  /\ connections = 0
  /\ joins = 0
  /\ clash = FALSE
  /\ revived = FALSE
  /\ ct = [t \in Client |-> NoClient]
  /\ gt = [g \in Game |-> NoGame]
  /\ crashed = FALSE

\* run_server: the lowest free descriptor, a slot and a thread for a connection.
\* A connection that finds the server full changes nothing.
Accept(t) ==
  /\ connections < MaxConnections /\ LobbyFree
  /\ First(t, {u \in Client : At(u, "none")})
  /\ \E s \in Socket, p \in Slot :
       /\ First(s, Socket \ open)
       /\ add_player(s, p)
       /\ open' = open \cup {s}
       /\ connections' = connections + 1
       /\ ct' = [ct EXCEPT ![t] = [NoClient EXCEPT !.pc = "login", !.slot = p, !.fd = s]]
  /\ UNCHANGED <<joins, history, gt, crashed>>

Next ==
  \/ \E t \in Client : Accept(t) \/ ClientRuns(t) \/ ClientInput(t)
  \/ \E g \in Game : GameRuns(g) \/ GameInput(g)

Spec == Init /\ [][Next]_vars

-----------------------------------------------------------------------------
\* The tables of the lobby agree whenever no room is being reset, as lobby_mutex, which
\* protects both (dokumentace.md:261), would have it.
TablesMatch == (\A r \in Room : ~BeingReset(r)) => SeatsMatchPlayers

\* Nothing but an overlap of a reset, which does without lobby_mutex (server.c:153-177),
\* with a call on the same room sets the tables at odds: not what threads looked up
\* before the other threads' last steps, nor kicks, adoptions, time-outs, two game
\* threads of one room or the order of their resets.
TablesAgree == ~clash => TablesMatch

\* Slots in use stay counted through kicks, losses, logins that overlap, two adoptions
\* of one slot and removals by two threads, unless one of them uses a slot that was given
\* up since it was found (server.c:725-730, 863; lobby.c:133).
SlotsStayCounted == ~revived => SlotsAreCounted

\* A slot that has a socket is served by a thread that knows it by that socket, so
\* what its player sends, and its end, are noticed; the game thread reads it only
\* while that thread waits (server.c:610-613).
Served ==
  \A p \in Slot : socket[p] # None =>
    \E t \in Client : ct[t].fd = socket[p] /\ (ct[t].slot = p \/ ct[t].peer = p)

\* One game thread per active game (server.c:180): no two of them run one room.
OneGamePerRoom ==
  \A g, h \in Game : g # h /\ gt[g].pc # "none" /\ gt[h].pc # "none"
                       => gt[g].room # gt[h].room

\* A player found disconnected in a room is one whose game still waits for it
\* (lobby.c:188-189): some game thread will see it come back, or release its slot.
\* A reset that overlaps with a call on its room can miss the player on a seat.
LostHaveGame ==
  ~clash => \A p \in Slot : socket[p] = None /\ state[p] = "IN_GAME" =>
    \E g \in Game : gt[g].pc # "none" /\ gt[g].room = room_id[p]

\* One thread per player: a thread whose slot went to another connection exits by the
\* socket # client_socket checks (server.c:610-613), so no two of them take one slot's
\* connection for theirs.
OneThreadPerPlayer ==
  \A t, u \in Client :
    ct[t].slot = ct[u].slot /\ ct[t].slot # None
      /\ ct[t].fd = socket[ct[t].slot] /\ ct[u].fd = socket[ct[u].slot] => t = u

\* No thread follows a NULL pointer, whatever happens between its looking a room
\* or a player up and its using it ("thread-safe server", dokumentace.md:435).
NoCrash == ~crashed
=============================================================================
