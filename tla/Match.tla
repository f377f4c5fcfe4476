------------------------------- MODULE Match --------------------------------
(* The server from the moment a game is under way: what lost connections,    *)
(* idle players, reconnections and the timeout of a pause make of it.        *)
(* The state it starts from is one that module Server reaches: two players   *)
(* have connected, logged in and joined room 0, both client threads wait for *)
(* the end of the game, and the game thread is in its first select.          *)
(* connections and joins count from here.                                    *)
EXTENDS Server

CONSTANTS Ann, Ben                 \* the players' nicknames

ASSUME MatchAssumption ==
  /\ {Ann, Ben} \subseteq Nickname /\ Ann # Ben
  /\ MAX_PLAYERS >= 2
  /\ {1, 2} \subseteq Client /\ 1 \in Game /\ {3, 4} \subseteq Socket

Established ==
  LET P == {0, 1}
      Fd(p) == p + 3               \* 0 to 2 are standard I/O
  IN  /\ socket = [p \in Slot |-> IF p \in P THEN Fd(p) ELSE None]
      /\ nickname = [p \in Slot |-> IF p = 0 THEN Ann ELSE IF p = 1 THEN Ben ELSE None]
      /\ state = [p \in Slot |-> IF p \in P THEN "IN_GAME" ELSE "LOBBY"]
      /\ room_id = [p \in Slot |-> IF p \in P THEN 0 ELSE None]
      /\ room_state = [r \in Room |-> IF r = 0 THEN "IN_PROGRESS" ELSE "WAITING"]
      /\ seat = [r \in Room |-> [i \in Seat |-> IF r = 0 THEN i ELSE None]]
      /\ seat_count = [r \in Room |-> IF r = 0 THEN MAX_PLAYERS_PER_ROOM ELSE 0]
      /\ player_count = 2
      /\ open = {Fd(p) : p \in P}
      /\ connections = 0
      /\ joins = 0
      /\ clash = FALSE
      /\ revived = FALSE
      /\ ct = [t \in Client |-> IF t \notin {1, 2} THEN NoClient
                 ELSE [NoClient EXCEPT !.pc = "condwait", !.slot = t - 1,
                                       !.fd = Fd(t - 1), !.room = 0]]
      /\ gt = [g \in Game |-> IF g # 1 THEN NoGame
                 ELSE [NoGame EXCEPT !.pc = "select", !.room = 0,
                                     !.fds = [i \in Seat |-> Fd(i)]]]
      /\ crashed = FALSE

InPause(g) == gt[g].pc \in {"paused", "poll", "read", "back", "lose"}

\* Threads are scheduled, and the clock runs: a game thread does not stay in a
\* pause for ever without finding RECONNECT_TIMEOUT expired (server.c:250).
\* Nothing is assumed of clients, of select or of the idle clock.
Fairness ==
  /\ \A t \in Client : WF_vars(ClientRuns(t))
  /\ \A g \in Game :
       /\ WF_vars(GameRuns(g))
       /\ []<>~InPause(g) \/ []<><<PauseExpires(g)>>_vars

MatchSpec == Established /\ [][Next]_vars /\ Fairness

-----------------------------------------------------------------------------
\* A client thread that waits for the end of its game has a game thread that
\* will reach it: the wait at server.c:1115 is for a broadcast of that thread.  Who is
\* missed by a reset that overlaps with a call on its room waits again, for nothing.
WaitersHaveGame ==
  ~clash => \A t \in Client : At(t, "condwait") =>
    \E g \in Game : gt[g].pc # "none" /\ gt[g].room = ct[t].room

\* A pause ends, by itself if nobody comes back (server.c:236-253).
PauseIsBounded ==
  \A r \in Room : room_state[r] = "PAUSED" ~> (room_state[r] # "PAUSED" \/ crashed)

\* The end of a game releases every client thread that waits for it, the player's
\* own and those that a reconnection left behind (server.c:173-175, 1118-1125).
EndReleasesWaiters ==
  \A g \in Game, t \in Client :
    (gt[g].over /\ ct[t].pc = "condwait") ~> (ct[t].pc # "condwait" \/ crashed)

\* The winner of a pause that timed out is a player who stayed (server.c:259), not
\* one who reconnected and has yet to send RESUME.
WinnerStayed ==
  \A g \in Game : GameAt(g, "sync") /\ gt[g].winner # None =>
    ~\E t \in Client : At(t, "resume") /\ ct[t].slot = Sitting(g, gt[g].winner)

\* A player who lost its connection has 20 seconds to come back (dokumentace.md:56):
\* in the end it is back, or its slot has been released.
LostPlayersSettled ==
  \A p \in Slot :
    (socket[p] = None /\ state[p] = "IN_GAME")
      ~> (socket[p] # None \/ state[p] = "LOBBY" \/ crashed)
=============================================================================
