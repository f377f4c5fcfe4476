---------------------------- MODULE ServerProofs -----------------------------
(* The threads on the tables, for every number of slots, rooms, sockets,     *)
(* names, client threads and game threads, and for all their interleavings.  *)
EXTENDS Server, LobbyLemmas

-----------------------------------------------------------------------------
(* Types, and the locals that a thread has at each point of its code         *)

TablesTyped ==
  /\ socket \in [Slot -> Socket \cup {None}]
  /\ nickname \in [Slot -> Nickname \cup {None}]
  /\ RoomsTyped
  /\ player_count \in Int /\ player_count <= MAX_PLAYERS

NetTyped ==
  /\ open \subseteq Socket
  /\ connections \in 0 .. MaxConnections
  /\ joins \in 0 .. MaxJoins
  /\ clash \in BOOLEAN /\ revived \in BOOLEAN
  /\ crashed \in BOOLEAN

\* A client thread at work has a slot and a descriptor, and wherever it uses another
\* player, a room or a seat it has one.
UsesName  == {"find_active", "find_disconnected", "new_name"}
UsesPeer  == {"kick", "kicked", "adopt", "adopted"}
UsesOther == {"resume", "resumed"}
UsesRoom  == InLobbyCall \cup
  {"resume", "resumed", "joined", "wake", "in_room", "timedwait", "condwait", "woken"}
Removers  == {"drop", "drop_command", "adopted"}

\* A thread that gives up the slot it came in with, having adopted another.
Adopting(c) == c.pc = "adopted" \/ (c.pc = "removing" /\ c.caller = "adopted")

ClientDefined(c) ==
  /\ c.pc = "none" => c = NoClient
  /\ c.pc # "none" => c.slot \in Slot /\ c.fd \in Socket
  /\ c.pc \in UsesName => c.nick \in Nickname
  /\ c.pc \in UsesPeer \/ Adopting(c) => c.peer \in Slot
  /\ c.pc \in UsesOther => c.other \in Seat
  /\ c.pc \in UsesRoom => c.room \in Room
  /\ c.pc = "removing" => c.caller \in Removers

\* A game thread at work has a room, after select a seat to read from, and wherever it
\* disconnects a player, one that it has looked up.
UsesReady == {"input", "reading", "pause"}
UsesWho   == {"lose", "expel", "reading", "pause"}

GameDefined(g) ==
  /\ g.pc # "none" => g.room \in Room
  /\ g.pc \in UsesReady => g.ready # {}
  /\ g.pc \in UsesWho => g.who \in Slot
  /\ g.pc = "expel" => g.winner \in Seat

Clients(cs) == cs \in [Client -> ClientRecord] /\ \A t \in Client : ClientDefined(cs[t])
Games(gs)   == gs \in [Game -> GameRecord] /\ \A g \in Game : GameDefined(gs[g])

\* One thread at a time is inside lobby.c, and what it found there still holds: the room
\* has a seat to take, the slot to remove has a socket.  One game thread at a time holds a
\* room's mutex.
Calling(t) == ct[t].pc \in InLobbyCall
Holding(g) == gt[g].pc \in InReset \cup {"expel"}

Fits(t) ==
  /\ ct[t].pc = "joining" => seat_count[ct[t].room] < MAX_PLAYERS_PER_ROOM
  /\ ct[t].pc = "removing" => socket[ct[t].slot] # None

Locked ==
  /\ \A t, u \in Client : Calling(t) /\ Calling(u) => t = u
  /\ \A t \in Client : Fits(t)
  /\ \A g, h \in Game : Holding(g) /\ Holding(h) /\ gt[g].room = gt[h].room => g = h

Sound == TablesTyped /\ NetTyped /\ Clients(ct) /\ Games(gt) /\ Locked

-----------------------------------------------------------------------------
(* The tables keep their types *)

LEMMA AddTyped ==
  ASSUME TablesTyped, NEW s \in Socket, NEW p \in Slot, add_player(s, p)
  PROVE  TablesTyped'
BY NoneIsNobody, LobbyAssumption DEF add_player, TablesTyped, RoomsTyped, rooms

LEMMA DisconnectTyped ==
  ASSUME TablesTyped, NEW p, handle_player_disconnect(p)
  PROVE  TablesTyped'
BY DEF handle_player_disconnect, TablesTyped, RoomsTyped, rooms

LEMMA SameTables ==
  ASSUME TablesTyped, UNCHANGED tables
  PROVE  TablesTyped'
BY DEF tables, players, rooms, TablesTyped, RoomsTyped

LEMMA RemovedTyped ==
  ASSUME TablesTyped, NEW r \in Room \cup {None}, NEW p \in Slot, removed_from(r, p)
  PROVE  TablesTyped'
<1>1. /\ IF r # None THEN remove_player_from_room(r, p) ELSE UNCHANGED rooms
      /\ socket' = [socket EXCEPT ![p] = None]
      /\ state' = [state EXCEPT ![p] = "LOBBY"]
      /\ room_id' = [room_id EXCEPT ![p] = None]
      /\ player_count' = player_count - 1
      /\ nickname' = nickname
  BY DEF removed_from
<1>2. CASE r = None
  BY <1>1, <1>2, LobbyAssumption DEF TablesTyped, RoomsTyped, rooms
<1>3. CASE r # None
  <2>1. /\ room_state' \in [Room -> {"WAITING", "IN_PROGRESS", "PAUSED", "ABORTED"}]
        /\ seat' \in [Room -> [Seat -> Slot \cup {None}]]
        /\ seat_count' \in [Room -> 0 .. MAX_PLAYERS_PER_ROOM]
    BY <1>1, <1>3, RemovalTyped DEF TablesTyped
  <2> QED BY <1>1, <2>1, LobbyAssumption DEF TablesTyped, RoomsTyped
<1> QED BY <1>2, <1>3

LEMMA RemoveTyped ==
  ASSUME TablesTyped, NEW p \in Slot, remove_player(p)
  PROVE  TablesTyped'
<1>1. room_id[p] \in Room \cup {None}
  BY DEF TablesTyped, RoomsTyped
<1> QED BY <1>1, RemovedTyped, SameTables DEF remove_player

LEMMA LeaveTyped ==
  ASSUME TablesTyped, NEW r \in Room, NEW p \in Slot, leaves(r, p)
  PROVE  TablesTyped'
<1>1. /\ remove_player_from_room(r, p)
      /\ state' = [state EXCEPT ![p] = "LOBBY"]
      /\ room_id' = [room_id EXCEPT ![p] = None]
      /\ socket' = socket /\ nickname' = nickname /\ player_count' = player_count
  BY DEF leaves
<1>2. /\ room_state' \in [Room -> {"WAITING", "IN_PROGRESS", "PAUSED", "ABORTED"}]
      /\ seat' \in [Room -> [Seat -> Slot \cup {None}]]
      /\ seat_count' \in [Room -> 0 .. MAX_PLAYERS_PER_ROOM]
  BY <1>1, RemovalTyped DEF TablesTyped
<1> QED BY <1>1, <1>2 DEF TablesTyped, RoomsTyped

LEMMA JoinKeepsTypes ==
  ASSUME TablesTyped, NEW r \in Room, NEW p \in Slot, takes_seat(r, p),
         seat_count[r] < MAX_PLAYERS_PER_ROOM
  PROVE  TablesTyped'
BY JoinTyped DEF TablesTyped

LEMMA SetStateTyped ==
  ASSUME TablesTyped, NEW r, NEW s \in {"WAITING", "IN_PROGRESS", "PAUSED", "ABORTED"},
         set_room_state(r, s)
  PROVE  TablesTyped'
BY DEF set_room_state, players, TablesTyped, RoomsTyped

-----------------------------------------------------------------------------
(* Threads: one of them moves, or a signal moves those that wait for it      *)

\* Where a thread waits it is moved by a signal, to a point with the same locals.
Follows(c, d) == d = c \/ (c.pc \in {"timedwait", "condwait"} /\ d = Signalled(c))

LEMMA FollowsKeeps ==
  ASSUME NEW c \in ClientRecord, NEW d, Follows(c, d)
  PROVE  /\ d \in ClientRecord
         /\ ClientDefined(c) => ClientDefined(d)
         /\ d.slot = c.slot /\ d.fd = c.fd /\ d.peer = c.peer /\ d.caller = c.caller
         /\ d.pc # c.pc => c.pc \in {"timedwait", "condwait"} /\ d.pc \in {"loop", "woken"}
         /\ c.pc # "timedwait" => d.room = c.room
         /\ d.pc = c.pc => d = c
<1>1. CASE d = c
  BY <1>1
<1>2. CASE c.pc = "timedwait" /\ d = [c EXCEPT !.pc = "loop", !.room = None]
  BY <1>2 DEF ClientRecord, ClientPC, InLobbyCall, ClientDefined, UsesName, UsesPeer,
              UsesOther, UsesRoom, Adopting
<1>3. CASE c.pc = "condwait" /\ d = [c EXCEPT !.pc = "woken"]
  BY <1>3 DEF ClientRecord, ClientPC, InLobbyCall, ClientDefined, UsesName, UsesPeer,
              UsesOther, UsesRoom, Adopting
<1> QED BY <1>1, <1>2, <1>3 DEF Follows, Signalled, ClientRecord

LEMMA BroadcastFollows ==
  ASSUME NEW r, NEW cs \in [Client -> ClientRecord]
  PROVE  /\ Broadcast(r, cs) = [u \in Client |-> Broadcast(r, cs)[u]]
         /\ \A u \in Client : /\ Follows(cs[u], Broadcast(r, cs)[u])
                              /\ ~Waiting(r, Broadcast(r, cs)[u])
<1>1. ASSUME NEW u \in Client
      PROVE  /\ Follows(cs[u], Broadcast(r, cs)[u])
             /\ ~Waiting(r, Broadcast(r, cs)[u])
  <2>1. CASE Waiting(r, cs[u])
    <3>1. Broadcast(r, cs)[u] = Signalled(cs[u])
      BY <2>1 DEF Broadcast
    <3>2. Signalled(cs[u]).pc \in {"loop", "woken"}
      BY <2>1 DEF Signalled, Waiting, ClientRecord
    <3> QED BY <2>1, <3>1, <3>2 DEF Follows, Waiting
  <2>2. CASE ~Waiting(r, cs[u])
    BY <2>2 DEF Broadcast, Follows
  <2> QED BY <2>1, <2>2
<1> QED BY <1>1 DEF Broadcast

LEMMA SignalFollows ==
  ASSUME NEW r, NEW cs \in [Client -> ClientRecord], NEW ds \in SignalOne(r, cs)
  PROVE  /\ ds = [u \in Client |-> ds[u]]
         /\ \A u \in Client : Follows(cs[u], ds[u])
<1> DEFINE W == {u \in Client : Waiting(r, cs[u])}
<1>1. ds = cs \/ \E u \in W : ds = [cs EXCEPT ![u] = Signalled(@)]
  BY DEF SignalOne
<1>2. CASE ds = cs
  BY <1>2 DEF Follows
<1>3. ASSUME NEW u \in W, ds = [cs EXCEPT ![u] = Signalled(@)]
      PROVE  /\ ds = [v \in Client |-> ds[v]]
             /\ \A v \in Client : Follows(cs[v], ds[v])
  BY <1>3 DEF Follows, Waiting
<1> QED BY <1>1, <1>2, <1>3

\* Each thread's move in isolation.
Moves(t, c) ==
  /\ ct' = [u \in Client |-> ct'[u]]
  /\ ct'[t] = c
  /\ \A u \in Client \ {t} : Follows(ct[u], ct'[u])

LEMMA MovesSound ==
  ASSUME Clients(ct), NEW t \in Client, NEW c \in ClientRecord, ClientDefined(c), Moves(t, c)
  PROVE  Clients(ct')
<1>1. \A u \in Client : ct'[u] \in ClientRecord /\ ClientDefined(ct'[u])
  BY FollowsKeeps DEF Moves, Clients
<1> QED BY <1>1 DEF Moves, Clients

LEMMA UpdateMoves ==
  ASSUME Clients(ct), NEW t \in Client, NEW c, ct' = [ct EXCEPT ![t] = c]
  PROVE  Moves(t, c)
BY DEF Clients, Moves, Follows

LEMMA BroadcastMoves ==
  ASSUME Clients(ct), NEW t \in Client, NEW c \in ClientRecord, NEW r,
         ~Waiting(r, c), ct' = Broadcast(r, [ct EXCEPT ![t] = c])
  PROVE  Moves(t, c)
<1> DEFINE cs == [ct EXCEPT ![t] = c]
<1>1. /\ cs \in [Client -> ClientRecord] /\ ct' = Broadcast(r, cs)
      /\ cs[t] = c /\ \A u \in Client \ {t} : cs[u] = ct[u]
  BY DEF Clients
<1> HIDE DEF cs
<1>2. /\ ct' = [u \in Client |-> ct'[u]]
      /\ \A u \in Client : Follows(cs[u], ct'[u])
  <2>1. cs \in [Client -> ClientRecord]
    BY <1>1
  <2>2. /\ Broadcast(r, cs) = [u \in Client |-> Broadcast(r, cs)[u]]
        /\ \A u \in Client : Follows(cs[u], Broadcast(r, cs)[u])
    BY <2>1, BroadcastFollows, ZenonT(40)
  <2>3. ct' = Broadcast(r, cs)
    BY <1>1
  <2> QED BY <2>2, <2>3, Zenon
<1>3. ct'[t] = c
  BY <1>1 DEF Broadcast
<1> QED BY <1>1, <1>2, <1>3 DEF Moves

LEMMA SignalMoves ==
  ASSUME Clients(ct), NEW t \in Client, NEW c \in ClientRecord, NEW r,
         ~Waiting(r, c), ct' \in SignalOne(r, [ct EXCEPT ![t] = c])
  PROVE  Moves(t, c)
<1> DEFINE cs == [ct EXCEPT ![t] = c]
<1>1. /\ cs \in [Client -> ClientRecord] /\ ct' \in SignalOne(r, cs)
      /\ cs[t] = c /\ \A u \in Client \ {t} : cs[u] = ct[u]
  BY DEF Clients
<1> HIDE DEF cs
<1>2. /\ ct' = [u \in Client |-> ct'[u]]
      /\ \A u \in Client : Follows(cs[u], ct'[u])
  BY <1>1, SignalFollows
<1>3. ct'[t] = c
  BY <1>1 DEF SignalOne
<1> QED BY <1>1, <1>2, <1>3 DEF Moves

-----------------------------------------------------------------------------
(* The client threads keep theirs *)

\* What a move has to be: one thread's own, to a point where its locals are defined.
Proceeds(t)  == Moves(t, ct'[t]) /\ ct'[t] \in ClientRecord /\ ClientDefined(ct'[t])
KeepsSlot(t) == ct'[t].slot = ct[t].slot /\ ct'[t].fd = ct[t].fd

LEMMA Proceeding ==
  ASSUME Clients(ct), NEW t \in Client, NEW c \in ClientRecord, ClientDefined(c),
         ct' = [ct EXCEPT ![t] = c]
  PROVE  Proceeds(t) /\ ct'[t] = c
BY UpdateMoves DEF Proceeds, Moves

\* A record keeps its type when some of its fields change.
LEMMA ClientUpdates ==
  ASSUME NEW c \in ClientRecord, NEW pc \in ClientPC
  PROVE  /\ \A r \in Room : [c EXCEPT !.pc = pc, !.room = r] \in ClientRecord
         /\ \A s \in Socket \cup {None} : [c EXCEPT !.pc = pc, !.sock = s] \in ClientRecord
         /\ \A r \in Room, o \in Seat :
              [c EXCEPT !.pc = pc, !.room = r, !.other = o] \in ClientRecord
BY DEF ClientRecord

\* A thread that goes on needs nothing but what the point it goes to uses.
LEMMA GotoProceeds ==
  ASSUME Clients(ct), NEW t \in Client, ct[t].pc # "none",
         NEW pc \in ClientPC \ (InLobbyCall \cup {"none"}), Goto(t, pc),
         pc \in UsesName => ct[t].nick \in Nickname,
         pc \in UsesPeer => ct[t].peer \in Slot,
         pc \in UsesOther => ct[t].other \in Seat,
         pc \in UsesRoom => ct[t].room \in Room
  PROVE  /\ Proceeds(t) /\ KeepsSlot(t)
         /\ ct'[t].pc = pc /\ ct'[t].room = ct[t].room /\ ct'[t].peer = ct[t].peer
<1> DEFINE c == [ct[t] EXCEPT !.pc = pc]
<1>1. ct[t] \in ClientRecord /\ ClientDefined(ct[t])
  BY DEF Clients
<1>2. c \in ClientRecord
  BY <1>1 DEF ClientRecord
<1>3. /\ c.pc = pc /\ c.slot = ct[t].slot /\ c.fd = ct[t].fd /\ c.peer = ct[t].peer
      /\ c.other = ct[t].other /\ c.room = ct[t].room /\ c.nick = ct[t].nick
  BY <1>1 DEF ClientRecord
<1>4. ct' = [ct EXCEPT ![t] = c]
  BY DEF Goto
<1> HIDE DEF c
<1>5. ClientDefined(c)
  BY <1>1, <1>3 DEF ClientDefined, InLobbyCall, UsesPeer, Adopting
<1> QED BY <1>2, <1>3, <1>4, <1>5, Proceeding DEF KeepsSlot

LEMMA ExitProceeds ==
  ASSUME Clients(ct), NEW t \in Client, Exit(t)
  PROVE  Proceeds(t) /\ ct'[t].pc = "none"
<1>1. NoClient \in ClientRecord
  BY NoneIsNobody DEF NoClient, ClientRecord, ClientPC
<1>2. ClientDefined(NoClient) /\ NoClient.pc = "none"
  BY DEF NoClient, ClientDefined, InLobbyCall, UsesName, UsesPeer, UsesOther, UsesRoom, Adopting
<1> QED BY <1>1, <1>2, Proceeding DEF Exit

\* Points at which a thread uses nothing but its slot and its descriptor.
Fresh(pc, p, s) == [NoClient EXCEPT !.pc = pc, !.slot = p, !.fd = s]

LEMMA FreshDefined ==
  ASSUME NEW p \in Slot, NEW s \in Socket,
         NEW pc \in {"login", "enter", "loop", "drop", "timedout", "rejoin"}
  PROVE  /\ Fresh(pc, p, s) \in ClientRecord /\ ClientDefined(Fresh(pc, p, s))
         /\ Fresh(pc, p, s).pc = pc /\ Fresh(pc, p, s).slot = p /\ Fresh(pc, p, s).fd = s
BY DEF Fresh, NoClient, ClientRecord, ClientPC, InLobbyCall, ClientDefined, UsesName,
       UsesPeer, UsesOther, UsesRoom, Adopting

LEMMA InLoopIsFresh ==
  ASSUME Clients(ct), NEW t \in Client, ct[t].pc # "none"
  PROVE  /\ ct[t].slot \in Slot /\ ct[t].fd \in Socket
         /\ InLoop(t) = Fresh("loop", ct[t].slot, ct[t].fd)
         /\ \A s : [InLoop(t) EXCEPT !.fd = s] = Fresh("loop", ct[t].slot, s)
         /\ \A pc : [InLoop(t) EXCEPT !.pc = pc] = Fresh(pc, ct[t].slot, ct[t].fd)
<1>1. ct[t].slot \in Slot /\ ct[t].fd \in Socket
  BY DEF Clients, ClientDefined
<1> QED BY <1>1 DEF InLoop, Fresh, NoClient

LEMMA FreshProceeds ==
  ASSUME Clients(ct), NEW t \in Client, ct[t].pc # "none", NEW p \in Slot, NEW s \in Socket,
         NEW pc \in {"login", "enter", "loop", "drop", "timedout", "rejoin"},
         ct' = [ct EXCEPT ![t] = Fresh(pc, p, s)]
  PROVE  Proceeds(t) /\ ct'[t].pc = pc /\ ct'[t].slot = p /\ ct'[t].fd = s
<1>1. Fresh(pc, p, s) \in ClientRecord /\ ClientDefined(Fresh(pc, p, s))
  BY FreshDefined
<1>2. Proceeds(t) /\ ct'[t] = Fresh(pc, p, s)
  BY <1>1, Proceeding
<1> QED BY <1>2, FreshDefined

LEMMA ToLoopProceeds ==
  ASSUME Clients(ct), NEW t \in Client, ct[t].pc # "none", ToLoop(t)
  PROVE  Proceeds(t) /\ KeepsSlot(t) /\ ct'[t].pc = "loop"
<1>1. /\ ct' = [ct EXCEPT ![t] = Fresh("loop", ct[t].slot, ct[t].fd)]
      /\ ct[t].slot \in Slot /\ ct[t].fd \in Socket
  BY InLoopIsFresh DEF ToLoop
<1>2. /\ Proceeds(t) /\ ct'[t].pc = "loop"
      /\ ct'[t].slot = ct[t].slot /\ ct'[t].fd = ct[t].fd
  BY <1>1, FreshProceeds
<1> QED BY <1>2 DEF KeepsSlot

LEMMA ToDropProceeds ==
  ASSUME Clients(ct), NEW t \in Client, ct[t].pc # "none", ToDrop(t)
  PROVE  Proceeds(t) /\ KeepsSlot(t) /\ ct'[t].pc = "drop"
<1>1. /\ ct' = [ct EXCEPT ![t] = Fresh("drop", ct[t].slot, ct[t].fd)]
      /\ ct[t].slot \in Slot /\ ct[t].fd \in Socket
  BY InLoopIsFresh DEF ToDrop, Ending
<1>2. /\ Proceeds(t) /\ ct'[t].pc = "drop"
      /\ ct'[t].slot = ct[t].slot /\ ct'[t].fd = ct[t].fd
  BY <1>1, FreshProceeds
<1> QED BY <1>2 DEF KeepsSlot

LEMMA ToEnterProceeds ==
  ASSUME Clients(ct), NEW t \in Client, ct[t].pc # "none", ToEnter(t)
  PROVE  Proceeds(t) /\ KeepsSlot(t) /\ ct'[t].pc = "enter"
<1>1. /\ ct' = [ct EXCEPT ![t] = Fresh("enter", ct[t].slot, ct[t].fd)]
      /\ ct[t].slot \in Slot /\ ct[t].fd \in Socket
  BY InLoopIsFresh DEF ToEnter
<1>2. /\ Proceeds(t) /\ ct'[t].pc = "enter"
      /\ ct'[t].slot = ct[t].slot /\ ct'[t].fd = ct[t].fd
  BY <1>1, FreshProceeds
<1> QED BY <1>2 DEF KeepsSlot

LEMMA InCallProceeds ==
  ASSUME Clients(ct), NEW t \in Client, ct[t].pc # "none", NEW pc \in InLobbyCall,
         NEW r \in Room, InCallOn(t, pc, r), pc = "removing" => ct[t].pc \in Removers
  PROVE  /\ Proceeds(t) /\ KeepsSlot(t) /\ ct'[t].pc = pc /\ ct'[t].room = r
         /\ ct'[t].caller = ct[t].pc /\ ct'[t].peer = ct[t].peer
<1> DEFINE c == [ct[t] EXCEPT !.pc = pc, !.room = r, !.caller = ct[t].pc]
<1>1. ct[t] \in ClientRecord /\ ClientDefined(ct[t])
  BY DEF Clients
<1>2. c \in ClientRecord
  BY <1>1 DEF ClientRecord, ClientPC
<1>3. /\ c.pc = pc /\ c.slot = ct[t].slot /\ c.fd = ct[t].fd /\ c.peer = ct[t].peer
      /\ c.room = r /\ c.caller = ct[t].pc
  BY <1>1 DEF ClientRecord
<1>4. ct' = [ct EXCEPT ![t] = c]
  BY <1>1 DEF InCallOn, ClientRecord, Clients
<1> HIDE DEF c
<1>5. ClientDefined(c)
  BY <1>1, <1>3 DEF ClientDefined, InLobbyCall, UsesName, UsesPeer, UsesOther, Adopting
<1> QED BY <1>2, <1>3, <1>4, <1>5, Proceeding DEF KeepsSlot

\* What comes after a removal.
LEMMA AfterRemovalProceeds ==
  ASSUME Clients(ct), NEW t \in Client, ct[t].pc # "none", NEW k \in Removers,
         k = "adopted" => ct[t].peer \in Slot, AfterRemoval(t, k)
  PROVE  /\ Proceeds(t) /\ ct'[t].pc \in {"none", "loop", "rejoin"}
         /\ k = "drop" => ct'[t].pc = "none"
         /\ k = "drop_command" => ct'[t].pc = "loop" /\ KeepsSlot(t)
         /\ k = "adopted" => /\ ct'[t].pc = "rejoin"
                             /\ ct'[t].slot = ct[t].peer /\ ct'[t].fd = ct[t].fd
<1>1. CASE k = "drop"
  BY <1>1, ExitProceeds DEF AfterRemoval
<1>2. CASE k = "drop_command"
  BY <1>2, ToLoopProceeds DEF AfterRemoval
<1>3. CASE k = "adopted"
  <2>1. ct' = [ct EXCEPT ![t] = Fresh("rejoin", ct[t].peer, ct[t].fd)]
    BY <1>3 DEF AfterRemoval, Fresh, NoClient
  <2>2. ct[t].peer \in Slot /\ ct[t].fd \in Socket
    BY <1>3 DEF Clients, ClientDefined
  <2> QED BY <1>3, <2>1, <2>2, FreshProceeds
<1> QED BY <1>1, <1>2, <1>3 DEF Removers

\* Apart from giving a slot up, entering the main loop and exiting, a thread keeps its
\* slot and its descriptor; it goes inside lobby.c only if nobody is there; and it comes to
\* wait for the end of a game from the main loop only, or from an earlier wait.
MayChangeSlot(t) == RemovePlayer(t) \/ Removed(t) \/ EnterLoop(t) \/ Loop(t) \/ Woken(t)
Calls(t)         == JoinRoom(t) \/ RemovePlayer(t) \/ LeaveRoom(t) \/ LeaveAndDrop(t)

Waits            == {"in_room", "condwait", "woken"}

Lands(t) ==
  /\ Proceeds(t)
  /\ Calling(t)' => Calls(t) /\ LobbyFree /\ Fits(t)'
  /\ ct'[t].pc = "joining" => JoinRoom(t)
  /\ ct'[t].pc \in Waits => Loop(t) \/ EnterWait(t) \/ Woken(t)
  /\ ~MayChangeSlot(t) => KeepsSlot(t) /\ ~Adopting(ct[t])

LEMMA ClientLands ==
  ASSUME Sound, NEW t \in Client, ClientRuns(t) \/ ClientInput(t), ct' # ct
  PROVE  Lands(t)
<1> DEFINE c == ct[t]
<1>0. /\ Clients(ct) /\ c \in ClientRecord /\ ClientDefined(c)
      /\ c.pc # "none" => c.slot \in Slot /\ c.fd \in Socket
  BY DEF Sound, Clients, ClientDefined
<1>g. ASSUME Proceeds(t), KeepsSlot(t), ct'[t].pc \notin InLobbyCall,
             ct'[t].pc \in Waits => EnterWait(t),
             ct[t].pc \notin {"adopted", "removing"}
      PROVE  Lands(t)
  BY <1>g DEF Lands, Calling, Adopting, InLobbyCall
<1>f. ASSUME Proceeds(t), KeepsSlot(t), Calls(t), LobbyFree, Fits(t)',
             ct'[t].pc \in InLobbyCall, ct'[t].pc = "joining" => JoinRoom(t),
             ct[t].pc \notin {"adopted", "removing"}
      PROVE  Lands(t)
  BY <1>f DEF Lands, Adopting, InLobbyCall, Waits
<1>s. ASSUME Proceeds(t), ct'[t].pc \notin InLobbyCall, MayChangeSlot(t),
             ct'[t].pc \in Waits => Loop(t) \/ Woken(t)
      PROVE  Lands(t)
  BY <1>s DEF Lands, Calling, InLobbyCall
<1> USE DEF Waits, ClientPC, InLobbyCall, UsesName, UsesPeer, UsesOther, UsesRoom, Adopting
<1>1. CASE ReceiveLogin(t)
  <2>1. c.pc = "login"
    BY <1>1 DEF ReceiveLogin, At
  <2>2. CASE ToDrop(t)
    BY <1>0, <1>g, <2>1, <2>2, ToDropProceeds
  <2>3. ASSUME NEW n \in Nickname,
               ct' = [ct EXCEPT ![t].pc = "find_active", ![t].nick = n]
        PROVE  Lands(t)
    <3> DEFINE d == [c EXCEPT !.pc = "find_active", !.nick = n]
    <3>1. /\ d \in ClientRecord /\ ct' = [ct EXCEPT ![t] = d]
          /\ d.pc = "find_active" /\ d.slot = c.slot /\ d.fd = c.fd /\ d.nick = n
      BY <1>0, <2>1, <2>3 DEF ClientRecord
    <3> HIDE DEF d
    <3>2. ClientDefined(d)
      BY <1>0, <2>1, <3>1 DEF ClientDefined
    <3> QED BY <1>0, <1>g, <2>1, <3>1, <3>2, Proceeding DEF KeepsSlot
  <2> QED BY <1>1, <2>2, <2>3 DEF ReceiveLogin
<1>2. CASE FindActive(t) \/ FindDisconnected(t)
  <2>1. c.pc \in {"find_active", "find_disconnected"} /\ c.nick \in Nickname
    BY <1>0, <1>2, ZenonT(40) DEF FindActive, FindDisconnected, At, ClientDefined
  <2>2. ASSUME NEW pc \in {"find_disconnected", "new_name"}, Goto(t, pc)
        PROVE  Lands(t)
    BY <1>0, <1>g, <2>1, <2>2, GotoProceeds
  <2>3. ASSUME NEW q \in Slot, NEW pc \in {"kick", "adopt"},
               ct' = [ct EXCEPT ![t].pc = pc, ![t].peer = q]
        PROVE  Lands(t)
    <3> DEFINE d == [c EXCEPT !.pc = pc, !.peer = q]
    <3>1. /\ d \in ClientRecord /\ ct' = [ct EXCEPT ![t] = d]
          /\ d.pc = pc /\ d.slot = c.slot /\ d.fd = c.fd /\ d.peer = q
      BY <1>0, <2>1, <2>3 DEF ClientRecord
    <3> HIDE DEF d
    <3>2. ClientDefined(d)
      BY <1>0, <2>1, <3>1 DEF ClientDefined
    <3> QED BY <1>0, <1>g, <2>1, <3>1, <3>2, Proceeding DEF KeepsSlot
  <2> QED BY <1>2, <2>2, <2>3, ZenonT(40) DEF FindActive, FindDisconnected
<1>3. CASE Kick(t)
  <2>1. c.pc = "kick" /\ c.peer \in Slot
    BY <1>0, <1>3 DEF Kick, At, ClientDefined
  <2>2. ToDrop(t) \/ Goto(t, "kicked")
    BY <1>3, Zenon DEF Kick
  <2> QED BY <1>0, <1>g, <2>1, <2>2, GotoProceeds, ToDropProceeds
<1>4. CASE Kicked(t)
  BY <1>0, <1>g, <1>4, ToDropProceeds DEF Kicked, At
<1>5. CASE TakeNickname(t)
  BY <1>0, <1>g, <1>5, ToEnterProceeds DEF TakeNickname, At
<1>6. CASE Adopt(t)
  BY <1>0, <1>g, <1>6, GotoProceeds DEF Adopt, At, ClientDefined
<1>7. CASE RemovePlayer(t)
  <2>1. c.pc \in Removers /\ LobbyFree
    BY <1>7 DEF RemovePlayer, At, Removers
  <2>2. c.pc # "none" /\ c.pc \notin InLobbyCall /\ MayChangeSlot(t)
    BY <1>7, <2>1 DEF Removers, MayChangeSlot
  <2>3. CASE InCallOn(t, "removing", room_id[c.slot]) /\ room_id[c.slot] # None
    <3>1. room_id[c.slot] \in Room
      BY <1>0, <2>2, <2>3 DEF Sound, TablesTyped, RoomsTyped
    <3>2. /\ Proceeds(t) /\ ct'[t].pc = "removing" /\ ct'[t].slot = c.slot
      BY <1>0, <2>1, <2>2, <2>3, <3>1, InCallProceeds DEF KeepsSlot
    <3>3. socket[c.slot] # None /\ socket' = socket
      <4>1. CASE socket[c.slot] # None
        BY <1>7, <2>3, <4>1, Zenon DEF RemovePlayer, tables, players
      <4>2. CASE socket[c.slot] = None
        <5>1. AfterRemoval(t, c.pc)
          BY <1>7, <4>2, Zenon DEF RemovePlayer
        <5>2. c.pc = "adopted" => c.peer \in Slot
          BY <1>0 DEF ClientDefined
        <5>3. ct'[t].pc # "removing"
          BY <1>0, <2>1, <2>2, <5>1, <5>2, AfterRemovalProceeds
        <5> QED BY <3>2, <5>3
      <4> QED BY <4>1, <4>2
    <3> QED BY <1>7, <2>1, <2>2, <3>2, <3>3 DEF Lands, Fits, Calls
  <2>4. CASE AfterRemoval(t, c.pc)
    <3>1. c.pc = "adopted" => c.peer \in Slot
      BY <1>0 DEF ClientDefined
    <3>2. Proceeds(t) /\ ct'[t].pc \in {"none", "loop", "rejoin"}
      BY <1>0, <2>1, <2>2, <2>4, <3>1, AfterRemovalProceeds
    <3> QED BY <1>s, <2>2, <3>2
  <2> QED BY <1>7, <2>3, <2>4 DEF RemovePlayer
<1>8. CASE Removed(t)
  <2>1. c.pc = "removing" /\ c.caller \in Removers /\ AfterRemoval(t, c.caller)
    BY <1>0, <1>8 DEF Removed, At, ClientDefined
  <2>2. c.caller = "adopted" => c.peer \in Slot
    BY <1>0, <2>1 DEF ClientDefined
  <2>3. Proceeds(t) /\ ct'[t].pc \in {"none", "loop", "rejoin"}
    BY <1>0, <2>1, <2>2, AfterRemovalProceeds
  <2> QED BY <1>8, <1>s, <2>3 DEF MayChangeSlot
<1>9. CASE Rejoin(t)
  <2> DEFINE r == room_id[c.slot]
             o == IF seat[r][0] = c.slot THEN 1 ELSE 0
             d == [c EXCEPT !.pc = "resume", !.room = r, !.other = o]
  <2>1. c.pc = "rejoin" /\ c.slot \in Slot
    BY <1>0, <1>9 DEF Rejoin, At
  <2>2. r # None /\ ct' = [ct EXCEPT ![t].pc = "resume", ![t].room = r, ![t].other = o]
    BY <1>9 DEF Rejoin, Crash
  <2>3. r \in Room /\ o \in Seat
    BY <2>1, <2>2, SeatSet DEF Sound, TablesTyped, RoomsTyped
  <2> HIDE DEF r, o
  <2>4. /\ d \in ClientRecord /\ ct' = [ct EXCEPT ![t] = d]
        /\ d.pc = "resume" /\ d.slot = c.slot /\ d.fd = c.fd /\ d.room = r /\ d.other = o
    <3>1. ct' = [ct EXCEPT ![t] = d]
      BY <2>2, Zenon
    <3>2. /\ d \in ClientRecord
          /\ d.pc = "resume" /\ d.slot = c.slot /\ d.fd = c.fd /\ d.room = r /\ d.other = o
      <4>1. d \in ClientRecord
        BY <1>0, <2>3, ClientUpdates
      <4> QED BY <1>0, <4>1, Zenon DEF ClientRecord
    <3> QED BY <3>1, <3>2
  <2> HIDE DEF d
  <2>5. ClientDefined(d)
    BY <1>0, <2>1, <2>3, <2>4 DEF ClientDefined
  <2> QED BY <1>0, <1>g, <2>1, <2>4, <2>5, Proceeding DEF KeepsSlot
<1>10. CASE Resume(t)
  <2> DEFINE d == [c EXCEPT !.pc = "resumed"]
  <2>1. c.pc = "resume" /\ ct' = Broadcast(c.room, [ct EXCEPT ![t] = d])
    BY <1>10 DEF Resume, At
  <2>2. /\ d \in ClientRecord /\ d.pc = "resumed" /\ d.slot = c.slot /\ d.fd = c.fd
        /\ d.room = c.room /\ d.other = c.other
    BY <1>0, <2>1 DEF ClientRecord
  <2> HIDE DEF d
  <2>3. ClientDefined(d) /\ ~Waiting(c.room, d)
    BY <1>0, <2>1, <2>2 DEF ClientDefined, Waiting
  <2>4. Moves(t, d)
    BY <1>0, <2>1, <2>2, <2>3, BroadcastMoves
  <2> QED BY <1>g, <2>1, <2>2, <2>3, <2>4 DEF Moves, Proceeds, KeepsSlot
<1>11. CASE RefuseResume(t)
  <2>1. c.pc = "resume" /\ ct' \in SignalOne(c.room, [ct EXCEPT ![t] = Ending(t)])
    BY <1>11 DEF RefuseResume, At
  <2>2. Ending(t) = Fresh("drop", c.slot, c.fd) /\ c.slot \in Slot /\ c.fd \in Socket
    BY <1>0, <2>1, InLoopIsFresh DEF Ending
  <2>3. /\ Ending(t) \in ClientRecord /\ ClientDefined(Ending(t)) /\ Ending(t).pc = "drop"
        /\ Ending(t).slot = c.slot /\ Ending(t).fd = c.fd
    BY <2>2, FreshDefined
  <2>4. Moves(t, Ending(t))
    <3>1. ~Waiting(c.room, Ending(t))
      BY <2>3 DEF Waiting
    <3> QED BY <1>0, <2>1, <2>3, <3>1, SignalMoves
  <2> QED BY <1>g, <2>1, <2>3, <2>4 DEF Moves, Proceeds, KeepsSlot
<1>12. CASE Resumed(t)
  BY <1>0, <1>g, <1>12, ToEnterProceeds DEF Resumed, At, Crash
<1>13. CASE EnterLoop(t)
  <2>1. c.pc = "enter" /\ MayChangeSlot(t) /\ c.slot \in Slot
    BY <1>0, <1>13 DEF EnterLoop, At, MayChangeSlot
  <2>2. CASE Exit(t)
    BY <1>0, <1>s, <2>1, <2>2, ExitProceeds
  <2>3. CASE /\ socket[c.slot] # None
             /\ ct' = [ct EXCEPT ![t] = [InLoop(t) EXCEPT !.fd = socket[c.slot]]]
    <3>1. socket[c.slot] \in Socket
      BY <2>1, <2>3 DEF Sound, TablesTyped
    <3>2. ct' = [ct EXCEPT ![t] = Fresh("loop", c.slot, socket[c.slot])]
      BY <1>0, <2>1, <2>3, InLoopIsFresh
    <3> QED BY <1>0, <1>s, <2>1, <3>1, <3>2, FreshProceeds
  <2> QED BY <1>13, <2>2, <2>3 DEF EnterLoop
<1>14. CASE Loop(t)
  <2>1. c.pc = "loop" /\ c.slot \in Slot /\ MayChangeSlot(t)
    BY <1>0, <1>14 DEF Loop, At, MayChangeSlot
  <2>2. CASE Exit(t)
    BY <1>0, <1>s, <2>1, <2>2, ExitProceeds
  <2>3. CASE Goto(t, "lobby")
    BY <1>0, <1>s, <2>1, <2>3, GotoProceeds
  <2>4. ASSUME room_id[c.slot] # None,
               ct' = [ct EXCEPT ![t].pc = "in_room", ![t].room = room_id[c.slot]]
        PROVE  Lands(t)
    <3> DEFINE r == room_id[c.slot]
               d == [c EXCEPT !.pc = "in_room", !.room = r]
    <3>1. r \in Room
      BY <2>1, <2>4 DEF Sound, TablesTyped, RoomsTyped
    <3>2. ct' = [ct EXCEPT ![t].pc = "in_room", ![t].room = r]
      BY <2>4
    <3> HIDE DEF r
    <3>3. /\ d \in ClientRecord /\ ct' = [ct EXCEPT ![t] = d]
          /\ d.pc = "in_room" /\ d.slot = c.slot /\ d.fd = c.fd /\ d.room = r
      <4>1. ct' = [ct EXCEPT ![t] = d]
        BY <3>2, Zenon
      <4>2. d \in ClientRecord
        BY <1>0, <3>1, ClientUpdates
      <4> QED BY <1>0, <4>1, <4>2, Zenon DEF ClientRecord
    <3> HIDE DEF d
    <3>4. ClientDefined(d)
      BY <1>0, <2>1, <3>1, <3>3 DEF ClientDefined
    <3> QED BY <1>0, <1>14, <1>s, <2>1, <3>3, <3>4, Proceeding
  <2> QED BY <1>14, <2>2, <2>3, <2>4, Zenon DEF Loop
<1>15. CASE LobbyInput(t)
  <2>1. c.pc = "lobby" /\ c.slot \in Slot
    BY <1>0, <1>15 DEF LobbyInput, At
  <2>2. CASE ToDrop(t) \/ ToLoop(t)
    BY <1>0, <1>g, <2>1, <2>2, ToDropProceeds, ToLoopProceeds
  <2>3. CASE ct' = [ct EXCEPT ![t].pc = "drop_command", ![t].sock = socket[c.slot]]
    <3> DEFINE s == socket[c.slot]
               d == [c EXCEPT !.pc = "drop_command", !.sock = s]
    <3>1. s \in Socket \cup {None}
      BY <2>1 DEF Sound, TablesTyped
    <3>2. ct' = [ct EXCEPT ![t].pc = "drop_command", ![t].sock = s]
      BY <2>3
    <3> HIDE DEF s
    <3>3. /\ d \in ClientRecord /\ ct' = [ct EXCEPT ![t] = d]
          /\ d.pc = "drop_command" /\ d.slot = c.slot /\ d.fd = c.fd
      <4>1. ct' = [ct EXCEPT ![t] = d]
        BY <3>2, Zenon
      <4>2. d \in ClientRecord
        BY <1>0, <3>1, ClientUpdates
      <4> QED BY <1>0, <4>1, <4>2, Zenon DEF ClientRecord
    <3> HIDE DEF d
    <3>4. ClientDefined(d)
      BY <1>0, <2>1, <3>3 DEF ClientDefined
    <3> QED BY <1>0, <1>g, <2>1, <3>3, <3>4, Proceeding DEF KeepsSlot
  <2> QED BY <1>15, <2>2, <2>3 DEF LobbyInput
<1>16. CASE JoinRoom(t)
  <2>1. c.pc = "lobby" /\ LobbyFree
    BY <1>16 DEF JoinRoom, At
  <2>2. PICK r \in Room : CanJoin(r, c.slot) /\ InCallOn(t, "joining", r)
    BY <1>16, Zenon DEF JoinRoom
  <2>3. Proceeds(t) /\ KeepsSlot(t) /\ ct'[t].pc = "joining" /\ ct'[t].room = r
    BY <1>0, <2>1, <2>2, InCallProceeds
  <2>4. seat_count' = seat_count /\ seat_count[r] < MAX_PLAYERS_PER_ROOM
    BY <1>16, <2>2 DEF JoinRoom, CanJoin, tables, rooms
  <2>5. Fits(t)'
    BY <2>3, <2>4 DEF Fits
  <2> QED BY <1>16, <1>f, <2>1, <2>3, <2>5 DEF Calls
<1>17. CASE TakesSeat(t)
  <2> DEFINE d == [c EXCEPT !.pc = "joined", !.caller = "none"]
  <2>1. c.pc = "joining" /\ ct' = [ct EXCEPT ![t].pc = "joined", ![t].caller = "none"]
    BY <1>17 DEF TakesSeat, At
  <2>2. /\ d \in ClientRecord /\ ct' = [ct EXCEPT ![t] = d]
        /\ d.pc = "joined" /\ d.slot = c.slot /\ d.fd = c.fd /\ d.room = c.room
    BY <1>0, <2>1 DEF ClientRecord
  <2> HIDE DEF d
  <2>3. ClientDefined(d)
    BY <1>0, <2>1, <2>2 DEF ClientDefined
  <2> QED BY <1>0, <1>g, <2>1, <2>2, <2>3, Proceeding DEF KeepsSlot
<1>18. CASE Joined(t)
  <2>1. c.pc = "joined" /\ c.room \in Room
    BY <1>0, <1>18 DEF Joined, At, ClientDefined
  <2>2. Goto(t, "wake") \/ ToLoop(t)
    BY <1>18, Zenon DEF Joined
  <2> QED BY <1>0, <1>g, <2>1, <2>2, GotoProceeds, ToLoopProceeds
<1>19. CASE WakeOpponent(t)
  <2>1. c.pc = "wake" /\ ct' = Broadcast(c.room, [ct EXCEPT ![t] = InLoop(t)])
    BY <1>19 DEF WakeOpponent, At
  <2>2. InLoop(t) = Fresh("loop", c.slot, c.fd) /\ c.slot \in Slot /\ c.fd \in Socket
    BY <1>0, <2>1, InLoopIsFresh
  <2>3. /\ InLoop(t) \in ClientRecord /\ ClientDefined(InLoop(t)) /\ InLoop(t).pc = "loop"
        /\ InLoop(t).slot = c.slot /\ InLoop(t).fd = c.fd
    BY <2>2, FreshDefined
  <2>4. Moves(t, InLoop(t))
    <3>1. ~Waiting(c.room, InLoop(t))
      BY <2>3 DEF Waiting
    <3> QED BY <1>0, <2>1, <2>3, <3>1, BroadcastMoves
  <2> QED BY <1>g, <2>1, <2>3, <2>4 DEF Moves, Proceeds, KeepsSlot
<1>20. CASE EnterWait(t)
  <2>1. c.pc = "in_room" /\ c.room \in Room
    BY <1>0, <1>20 DEF EnterWait, At, ClientDefined
  <2>2. ToLoop(t) \/ \E pc \in {"timedwait", "condwait"} : Goto(t, pc)
    BY <1>20, Zenon DEF EnterWait
  <2> QED BY <1>0, <1>20, <1>g, <2>1, <2>2, GotoProceeds, ToLoopProceeds
<1>21. CASE WaitTimesOut(t)
  <2>1. c.pc = "timedwait" /\ ct' = [ct EXCEPT ![t] = [InLoop(t) EXCEPT !.pc = "timedout"]]
    BY <1>21 DEF WaitTimesOut, At
  <2>2. /\ ct' = [ct EXCEPT ![t] = Fresh("timedout", c.slot, c.fd)]
        /\ c.slot \in Slot /\ c.fd \in Socket
    BY <1>0, <2>1, InLoopIsFresh
  <2>3. /\ Proceeds(t) /\ ct'[t].pc = "timedout"
        /\ ct'[t].slot = c.slot /\ ct'[t].fd = c.fd
    <3>1. c.pc # "none"
      BY <2>1
    <3> QED BY <1>0, <2>2, <3>1, FreshProceeds
  <2> QED BY <1>g, <2>1, <2>3 DEF KeepsSlot
<1>22. CASE RoomInput(t)
  BY <1>0, <1>g, <1>22, GotoProceeds, ToLoopProceeds DEF RoomInput, At
<1>23. CASE LeaveRoom(t) \/ LeaveAndDrop(t)
  <2>1. c.pc \in {"timedout", "lobby", "leave"} /\ LobbyFree
    BY <1>23 DEF LeaveRoom, LeaveAndDrop, At
  <2>2. CASE FindsRoom(t)
    <3>1. room_id[c.slot] \in Room
      BY <1>0, <2>1, <2>2 DEF FindsRoom, CanLeave, Sound, TablesTyped, RoomsTyped
    <3>2. Proceeds(t) /\ KeepsSlot(t) /\ ct'[t].pc = "leaving"
      BY <1>0, <2>1, <2>2, <3>1, InCallProceeds DEF FindsRoom
    <3> QED BY <1>23, <1>f, <2>1, <3>2 DEF Fits, Calls
  <2>3. CASE ToDrop(t)
    BY <1>0, <1>g, <2>1, <2>3, ToDropProceeds
  <2> QED BY <1>23, <2>2, <2>3 DEF LeaveRoom, LeaveAndDrop
<1>24. CASE Left(t)
  <2>1. c.pc = "leaving" /\ (ToDrop(t) \/ ToLoop(t))
    BY <1>24, Zenon DEF Left, At, ToDrop, ToLoop
  <2> QED BY <1>0, <1>g, <2>1, ToDropProceeds, ToLoopProceeds
<1>25. CASE Woken(t)
  <2>1. c.pc = "woken" /\ c.room \in Room /\ MayChangeSlot(t)
    BY <1>0, <1>25 DEF Woken, At, ClientDefined, MayChangeSlot
  <2>2. Exit(t) \/ Goto(t, "condwait") \/ ToLoop(t)
    BY <1>25, Zenon DEF Woken
  <2> QED BY <1>0, <1>25, <1>s, <2>1, <2>2, GotoProceeds, ToLoopProceeds, ExitProceeds
<1> QED
  BY <1>1, <1>2, <1>3, <1>4, <1>5, <1>6, <1>7, <1>8, <1>9, <1>10, <1>11, <1>12, <1>13, <1>14,
     <1>15, <1>16, <1>17, <1>18, <1>19, <1>20, <1>21, <1>22, <1>23, <1>24, <1>25, Zenon
     DEF ClientRuns, ClientInput

LEMMA ClientTables ==
  ASSUME Sound, NEW t \in Client, ClientRuns(t) \/ ClientInput(t)
  PROVE  TablesTyped' /\ NetTyped'
<1> DEFINE c == ct[t]
<1>0. /\ TablesTyped /\ NetTyped /\ ClientDefined(c) /\ c \in ClientRecord
      /\ c.pc # "none" => c.slot \in Slot /\ c.fd \in Socket
      /\ c.pc \in UsesRoom => c.room \in Room
  BY DEF Sound, Clients, ClientDefined
<1>n. ASSUME UNCHANGED tables, UNCHANGED <<open, connections, joins, crashed>>,
             clash' \in BOOLEAN, revived' \in BOOLEAN
      PROVE  TablesTyped' /\ NetTyped'
  BY <1>0, <1>n, SameTables DEF NetTyped
<1>u. ASSUME UNCHANGED tables, UNCHANGED net, crashed' \in BOOLEAN
      PROVE  TablesTyped' /\ NetTyped'
  BY <1>0, <1>u, SameTables DEF NetTyped, net, history
<1>1. CASE \/ ReceiveLogin(t) \/ FindActive(t) \/ FindDisconnected(t) \/ EnterLoop(t) \/ Loop(t)
           \/ LobbyInput(t) \/ Joined(t) \/ WakeOpponent(t) \/ EnterWait(t) \/ WaitTimesOut(t)
           \/ RoomInput(t) \/ Woken(t)
  <2>1. UNCHANGED tables /\ UNCHANGED net /\ crashed' = crashed
    BY <1>1, Zenon DEF ReceiveLogin, FindActive, FindDisconnected, EnterLoop, Loop, LobbyInput,
                       Joined, WakeOpponent, EnterWait, WaitTimesOut, RoomInput, Woken
  <2> QED BY <1>0, <1>u, <2>1 DEF NetTyped
<1>2. CASE Rejoin(t) \/ Resumed(t)
  <2>1. UNCHANGED tables /\ UNCHANGED net /\ (crashed' = crashed \/ crashed' = TRUE)
    BY <1>2, Zenon DEF Rejoin, Resumed, Crash
  <2> QED BY <1>0, <1>u, <2>1 DEF NetTyped
<1>3. CASE Kick(t)
  <2>1. UNCHANGED tables /\ UNCHANGED <<connections, joins, history, crashed>>
          /\ (open' = open \/ \E s : open' = open \ {s})
    BY <1>3, Zenon DEF Kick, net, close
  <2> QED BY <1>0, <2>1, SameTables DEF NetTyped, history
<1>4. CASE Kicked(t)
  <2>1. handle_player_disconnect(c.peer) /\ UNCHANGED net /\ crashed' = crashed
    BY <1>4 DEF Kicked
  <2> QED BY <1>0, <2>1, DisconnectTyped DEF NetTyped, net, history
<1>5. CASE TakeNickname(t)
  <2>1. /\ c.nick \in Nickname /\ nickname' = [nickname EXCEPT ![c.slot] = c.nick]
        /\ UNCHANGED <<socket, state, room_id, rooms, player_count, net, crashed>>
    BY <1>0, <1>5 DEF TakeNickname, At, ClientDefined, UsesName
  <2> QED BY <1>0, <2>1 DEF NetTyped, net, history, TablesTyped, RoomsTyped, rooms
<1>6. CASE Adopt(t)
  <2>1. /\ c.fd \in Socket /\ socket' = [socket EXCEPT ![c.peer] = c.fd]
        /\ UNCHANGED <<nickname, state, room_id, rooms, player_count, open, connections, joins,
                       clash, crashed>>
        /\ revived' \in BOOLEAN
    BY <1>0, <1>6 DEF Adopt, At, revives_if, NetTyped
  <2> QED BY <1>0, <2>1 DEF NetTyped, TablesTyped, RoomsTyped, rooms
<1>7. CASE RemovePlayer(t)
  <2>1. c.slot \in Slot /\ c.pc \in Removers
    BY <1>0, <1>7 DEF RemovePlayer, At, Removers
  <2>2. UNCHANGED <<connections, joins, crashed>>
    BY <1>7, Zenon DEF RemovePlayer
  <2>3. CASE UNCHANGED <<tables, open, revived>> /\ clashes_if(BeingReset(room_id[c.slot]))
    BY <1>0, <1>n, <2>2, <2>3 DEF clashes_if, NetTyped
  <2>4. CASE remove_player(c.slot) /\ AfterRemoval(t, c.pc) /\ UNCHANGED history
    <3>1. open' \subseteq open
      BY <2>1, <2>4 DEF AfterRemoval, Removers
    <3> QED BY <1>0, <2>1, <2>2, <2>4, <3>1, RemoveTyped DEF NetTyped, history
  <2> QED BY <1>7, <2>3, <2>4, Zenon DEF RemovePlayer
<1>8. CASE Removed(t)
  <2>1. c.slot \in Slot /\ c.room \in Room /\ c.caller \in Removers
    BY <1>0, <1>8 DEF Removed, At, ClientDefined, UsesRoom, InLobbyCall
  <2>2. /\ removed_from(c.room, c.slot) /\ AfterRemoval(t, c.caller)
        /\ UNCHANGED <<connections, joins, history, crashed>>
    BY <1>8 DEF Removed
  <2>3. open' \subseteq open
    BY <2>1, <2>2 DEF AfterRemoval, Removers
  <2> QED BY <1>0, <2>1, <2>2, <2>3, RemovedTyped DEF NetTyped, history
<1>9. CASE Resume(t) \/ RefuseResume(t)
  <2>1. UNCHANGED net /\ crashed' = crashed
          /\ \E s \in {"IN_PROGRESS", "ABORTED"} : set_room_state(c.room, s)
    BY <1>9, Zenon DEF Resume, RefuseResume
  <2> QED BY <1>0, <2>1, SetStateTyped DEF NetTyped, net, history
<1>10. CASE JoinRoom(t)
  <2>1. /\ joins < MaxJoins /\ joins' = joins + 1 /\ clash' \in BOOLEAN
        /\ UNCHANGED <<tables, open, connections, revived, crashed>>
    BY <1>0, <1>10 DEF JoinRoom, clashes_if, NetTyped
  <2> QED BY <1>0, <2>1, SameTables, ThreadAssumption DEF NetTyped
<1>11. CASE TakesSeat(t)
  <2>1. /\ c.slot \in Slot /\ c.room \in Room /\ takes_seat(c.room, c.slot)
        /\ UNCHANGED <<open, connections, joins, clash, crashed>> /\ revived' \in BOOLEAN
    BY <1>0, <1>11 DEF TakesSeat, At, UsesRoom, InLobbyCall, revives_if, NetTyped
  <2>2. seat_count[c.room] < MAX_PLAYERS_PER_ROOM
    BY <1>11 DEF TakesSeat, At, Sound, Locked, Fits
  <2> QED BY <1>0, <2>1, <2>2, JoinKeepsTypes DEF NetTyped
<1>12. CASE LeaveRoom(t) \/ LeaveAndDrop(t)
  <2>1. /\ UNCHANGED <<tables, open, connections, joins, revived, crashed>>
        /\ clash' = clash \/ \E b \in BOOLEAN : clash' = (clash \/ b)
    <3>1. BeingReset(room_id[c.slot]) \in BOOLEAN
      BY DEF BeingReset
    <3> QED BY <1>12, <3>1, Zenon DEF LeaveRoom, LeaveAndDrop, FindsRoom, clashes_if
  <2> QED BY <1>0, <1>n, <2>1 DEF NetTyped
<1>13. CASE Left(t)
  <2>1. /\ c.slot \in Slot /\ c.room \in Room /\ leaves(c.room, c.slot)
        /\ UNCHANGED net /\ crashed' = crashed
    BY <1>0, <1>13 DEF Left, At, UsesRoom, InLobbyCall
  <2> QED BY <1>0, <2>1, LeaveTyped DEF NetTyped, net, history
<1> QED
  BY <1>1, <1>2, <1>3, <1>4, <1>5, <1>6, <1>7, <1>8, <1>9, <1>10, <1>11, <1>12, <1>13, Zenon
     DEF ClientRuns, ClientInput

\* A thread that is not inside lobby.c counts no seat and, while another one is, takes no
\* socket away.
LEMMA ClientOutsideLobby ==
  ASSUME Sound, NEW t \in Client, ClientRuns(t) \/ ClientInput(t), ~Calling(t)
  PROVE  /\ seat_count' = seat_count
         /\ ~LobbyFree => \A p \in Slot : socket[p] # None => socket'[p] # None
<1> DEFINE c == ct[t]
<1>u. ASSUME UNCHANGED <<seat_count, socket>>
      PROVE  /\ seat_count' = seat_count
             /\ ~LobbyFree => \A p \in Slot : socket[p] # None => socket'[p] # None
  BY <1>u
<1>f. ASSUME seat_count' = seat_count, LobbyFree
      PROVE  /\ seat_count' = seat_count
             /\ ~LobbyFree => \A p \in Slot : socket[p] # None => socket'[p] # None
  BY <1>f
<1>t. UNCHANGED tables => UNCHANGED <<seat_count, socket>>
  BY DEF tables, players, rooms
<1>1. CASE \/ ReceiveLogin(t) \/ FindActive(t) \/ FindDisconnected(t) \/ EnterLoop(t) \/ Loop(t)
           \/ LobbyInput(t) \/ Joined(t) \/ WakeOpponent(t) \/ EnterWait(t) \/ WaitTimesOut(t)
           \/ RoomInput(t) \/ Woken(t) \/ Rejoin(t) \/ Resumed(t) \/ Kick(t) \/ JoinRoom(t)
           \/ LeaveRoom(t) \/ LeaveAndDrop(t)
  <2>1. UNCHANGED tables
    BY <1>1, Zenon DEF ReceiveLogin, FindActive, FindDisconnected, EnterLoop, Loop, LobbyInput,
         Joined, WakeOpponent, EnterWait, WaitTimesOut, RoomInput, Woken, Rejoin, Resumed, Kick,
         JoinRoom, LeaveRoom, LeaveAndDrop, Crash
  <2> QED BY <1>u, <1>t, <2>1
<1>2. CASE Kicked(t)
  BY <1>f, <1>2 DEF Kicked, handle_player_disconnect, rooms
<1>3. CASE TakeNickname(t)
  BY <1>u, <1>3 DEF TakeNickname, rooms
<1>4. CASE Adopt(t)
  <2>1. c.fd \in Socket /\ socket' = [socket EXCEPT ![c.peer] = c.fd] /\ seat_count' = seat_count
    BY <1>4 DEF Adopt, At, rooms, Sound, Clients, ClientDefined
  <2> QED BY <2>1, NoneIsNobody DEF Sound, TablesTyped
<1>5. CASE RemovePlayer(t)
  <2>1. LobbyFree /\ (UNCHANGED tables \/ (remove_player(c.slot) /\ (socket[c.slot] = None
                                                                 \/ room_id[c.slot] = None)))
    BY <1>5, Zenon DEF RemovePlayer
  <2>2. seat_count' = seat_count
    BY <1>t, <2>1 DEF remove_player, removed_from, rooms
  <2> QED BY <1>f, <2>1, <2>2
<1>6. CASE Resume(t) \/ RefuseResume(t)
  BY <1>u, <1>6, Zenon DEF Resume, RefuseResume, set_room_state, players
<1>7. CASE Removed(t) \/ TakesSeat(t) \/ Left(t)
  BY <1>7 DEF Removed, TakesSeat, Left, At, Calling, InLobbyCall
<1> QED
  BY <1>1, <1>2, <1>3, <1>4, <1>5, <1>6, <1>7, Zenon DEF ClientRuns, ClientInput

\* A game thread's step is its own, to a record in which the locals it uses are defined.
LEMMA GameProceeding ==
  ASSUME Games(gt), NEW g \in Game, NEW d \in GameRecord, GameDefined(d), gt' = [gt EXCEPT ![g] = d]
  PROVE  Games(gt') /\ gt'[g] = d /\ \A h \in Game \ {g} : gt'[h] = gt[h]
BY DEF Games

\* A client thread starts a game thread, at most.
LEMMA ClientGames ==
  ASSUME Sound, NEW t \in Client, ClientRuns(t) \/ ClientInput(t)
  PROVE  /\ Games(gt')
         /\ \A g \in Game : gt'[g] = gt[g] \/ (gt[g].pc = "none" /\ gt'[g].pc = "start")
<1>1. CASE gt' = gt
  BY <1>1 DEF Sound
<1>2. CASE Joined(t)
  <2>1. ct[t].room \in Room
    BY <1>2 DEF Joined, At, Sound, Clients, ClientDefined, UsesRoom
  <2>2. ASSUME NEW g \in Game, gt[g].pc = "none",
               gt' = [gt EXCEPT ![g] = [NoGame EXCEPT !.pc = "start", !.room = ct[t].room]]
        PROVE  /\ Games(gt')
               /\ \A h \in Game : gt'[h] = gt[h] \/ (gt[h].pc = "none" /\ gt'[h].pc = "start")
    <3> DEFINE d == [NoGame EXCEPT !.pc = "start", !.room = ct[t].room]
    <3>1. d \in GameRecord /\ GameDefined(d) /\ d.pc = "start"
      BY <2>1, SeatSet DEF NoGame, GameRecord, GamePC, InReset, GameDefined, UsesReady, UsesWho
    <3> HIDE DEF d
    <3>2. gt' = [gt EXCEPT ![g] = d]
      BY <2>2 DEF d
    <3> QED BY <2>2, <3>1, <3>2, GameProceeding DEF Sound
  <2> QED BY <1>1, <1>2, <2>2, Zenon DEF Joined
<1>3. CASE ~Joined(t)
  <2>1. gt' = gt
    BY <1>3, Zenon
       DEF ClientRuns, ClientInput, FindActive, Kick, Kicked, FindDisconnected, Adopt,
           RemovePlayer, Removed, TakeNickname, Rejoin, Resumed, EnterLoop, Loop, TakesSeat,
           WakeOpponent, EnterWait, LeaveAndDrop, Left, Woken, ReceiveLogin, Resume,
           RefuseResume, LobbyInput, JoinRoom, WaitTimesOut, RoomInput, LeaveRoom, Crash
  <2> QED BY <1>1, <2>1
<1> QED BY <1>2, <1>3

\* Whoever is inside lobby.c is not moved by others.
LEMMA CallersStay ==
  ASSUME Clients(ct), NEW t \in Client, Moves(t, ct'[t]), NEW u \in Client \ {t}
  PROVE  /\ Calling(u)' <=> Calling(u)
         /\ Calling(u) => ct'[u] = ct[u]
<1>1. ct[u] \in ClientRecord /\ Follows(ct[u], ct'[u])
  BY DEF Clients, Moves
<1>2. /\ ct'[u].pc # ct[u].pc => ct[u].pc \in {"timedwait", "condwait"}
                                   /\ ct'[u].pc \in {"loop", "woken"}
      /\ ct'[u].pc = ct[u].pc => ct'[u] = ct[u]
  BY <1>1, FollowsKeeps
<1> QED BY <1>2 DEF Calling, InLobbyCall

LEMMA ClientLocked ==
  ASSUME Sound, NEW t \in Client, ClientRuns(t) \/ ClientInput(t), ct' # ct
  PROVE  Locked'
<1>1. Lands(t) /\ Clients(ct) /\ Locked
  BY ClientLands DEF Sound
<1>2. ASSUME NEW u \in Client \ {t}
      PROVE  (Calling(u)' <=> Calling(u)) /\ (Calling(u) => ct'[u] = ct[u])
  BY <1>1, CallersStay DEF Lands, Proceeds
<1>3. ASSUME NEW u \in Client, NEW v \in Client, Calling(u)', Calling(v)'
      PROVE  u = v
  BY <1>1, <1>2, <1>3 DEF Lands, LobbyFree, Calling, Locked
<1>4. ASSUME NEW u \in Client
      PROVE  Fits(u)'
  <2>1. CASE ~Calling(u)'
    BY <2>1 DEF Fits, Calling, InLobbyCall
  <2>2. CASE Calling(u)' /\ u = t
    BY <1>1, <2>2 DEF Lands
  <2>3. CASE Calling(u)' /\ u # t
    <3>1. Calling(u) /\ ct'[u] = ct[u] /\ ~Calling(t) /\ ~LobbyFree /\ Fits(u)
      BY <1>1, <1>2, <2>3 DEF Locked, LobbyFree, Calling
    <3>2. /\ seat_count' = seat_count
          /\ \A p \in Slot : socket[p] # None => socket'[p] # None
      BY <3>1, ClientOutsideLobby
    <3>3. ct[u].slot \in Slot
      BY <1>1, <3>1 DEF Clients, ClientDefined, Calling, InLobbyCall
    <3> QED BY <3>1, <3>2, <3>3 DEF Fits
  <2> QED BY <2>1, <2>2, <2>3
<1>5. ASSUME NEW g \in Game, NEW h \in Game, Holding(g)', Holding(h)', gt'[g].room = gt'[h].room
      PROVE  g = h
  <2>1. gt'[g] = gt[g] /\ gt'[h] = gt[h]
    BY <1>5, ClientGames DEF Holding, InReset
  <2> QED BY <1>1, <1>5, <2>1 DEF Holding, Locked
<1> QED BY <1>3, <1>4, <1>5 DEF Locked

LEMMA AcceptSound ==
  ASSUME Sound, NEW t \in Client, Accept(t)
  PROVE  Sound'
<1>1. PICK s \in Socket, p \in Slot :
        /\ add_player(s, p)
        /\ open' = open \cup {s}
        /\ connections' = connections + 1
        /\ ct' = [ct EXCEPT ![t] = [NoClient EXCEPT !.pc = "login", !.slot = p, !.fd = s]]
  BY Zenon DEF Accept
<1>2. connections < MaxConnections /\ LobbyFree /\ UNCHANGED <<joins, clash, revived, gt, crashed>>
  BY DEF Accept, history
<1>3. TablesTyped'
  BY <1>1, AddTyped DEF Sound
<1>4. NetTyped'
  BY <1>1, <1>2, ThreadAssumption DEF Sound, NetTyped
<1> DEFINE d == Fresh("login", p, s)
<1>5. d \in ClientRecord /\ ClientDefined(d) /\ d.pc = "login" /\ ct' = [ct EXCEPT ![t] = d]
  <2>1. ct' = [ct EXCEPT ![t] = d]
    BY <1>1 DEF Fresh
  <2>2. d \in ClientRecord /\ ClientDefined(d) /\ d.pc = "login"
    BY FreshDefined
  <2> QED BY <2>1, <2>2
<1> HIDE DEF d
<1>6. Clients(ct')
  BY <1>5 DEF Sound, Clients
<1>7. Locked'
  <2>1. \A u \in Client : ct'[u].pc \notin InLobbyCall
    BY <1>2, <1>5 DEF LobbyFree, Sound, Clients, InLobbyCall
  <2>2. \A u \in Client : ~Calling(u)' /\ Fits(u)'
    BY <2>1 DEF Calling, Fits, InLobbyCall
  <2> QED BY <1>2, <2>2 DEF Sound, Locked, Holding
<1> QED BY <1>2, <1>3, <1>4, <1>6, <1>7 DEF Sound

-----------------------------------------------------------------------------
(* The game threads keep theirs *)

LEMMA SittingIsSlot ==
  ASSUME Sound, NEW g \in Game, gt[g].pc # "none", NEW i \in Seat
  PROVE  /\ RoomOf(g) \in Room
         /\ Sitting(g, i) \in Slot \cup {None}
         /\ Present(g, i) => Sitting(g, i) \in Slot /\ socket[Sitting(g, i)] \in Socket
BY DEF Sound, Games, GameDefined, RoomOf, Sitting, Present, TablesTyped, RoomsTyped

LEMMA WinnerIsSeat ==
  ASSUME NEW g \in Game, gt[g] \in GameRecord
  PROVE  /\ TimeoutWinner(g) \in Seat \cup {None}
         /\ TimeoutWinner(g) \in Seat => 1 - TimeoutWinner(g) \in Seat
<1> DEFINE P == {j \in Seat : Present(g, j)}
<1>1. ASSUME \E i \in Seat : Present(g, i)
      PROVE  (CHOOSE i \in Seat : First(i, P)) \in Seat
  <2>1. \E i \in Seat : First(i, P)
    BY <1>1, SeatSet DEF First
  <2> QED BY <2>1
<1>2. gt[g].idle # None => 1 - gt[g].idle \in Seat
  BY SeatSet DEF GameRecord
<1>3. TimeoutWinner(g) \in Seat \cup {None}
  BY <1>1, <1>2 DEF TimeoutWinner
<1> HIDE DEF P
<1> QED BY <1>3, SeatSet

\* What a game thread's move has to be: its own, in the same room, and to a point that
\* needs the room's mutex only if nobody else holds it.
Plays(g) ==
  /\ Games(gt')
  /\ \A h \in Game \ {g} : gt'[h] = gt[h]
  /\ Holding(g)' => gt'[g].room = RoomOf(g) /\ (Holding(g) \/ RoomFree(RoomOf(g)))

LEMMA Playing ==
  ASSUME Games(gt), NEW g \in Game, NEW d \in GameRecord, GameDefined(d),
         gt' = [gt EXCEPT ![g] = d],
         d.pc \in InReset \cup {"expel"} =>
           d.room = RoomOf(g) /\ (Holding(g) \/ RoomFree(RoomOf(g)))
  PROVE  Plays(g) /\ gt'[g] = d
BY GameProceeding DEF Plays, Holding

\* A game thread's record with another point, and whatever else, but in its room.
LEMMA PlaysOn ==
  ASSUME Games(gt), NEW g \in Game, gt[g].pc # "none", NEW d \in GameRecord,
         gt' = [gt EXCEPT ![g] = d], d.room = gt[g].room,
         d.pc \notin UsesReady \cup UsesWho \cup InReset
  PROVE  Plays(g) /\ gt'[g] = d
<1>1. gt[g].room \in Room
  BY DEF Games, GameDefined
<1>2. GameDefined(d)
  BY <1>1 DEF GameDefined, UsesWho
<1> QED BY <1>2, Playing DEF UsesWho

LEMMA GoToPlays ==
  ASSUME Games(gt), NEW g \in Game, gt[g].pc # "none",
         NEW pc \in GamePC \ (UsesReady \cup UsesWho \cup InReset), GoTo(g, pc)
  PROVE  Plays(g) /\ gt'[g].pc = pc /\ gt'[g].room = gt[g].room
<1> DEFINE d == [gt[g] EXCEPT !.pc = pc]
<1>1. d \in GameRecord /\ d.pc = pc /\ d.room = gt[g].room
  BY DEF Games, GameRecord
<1>2. gt' = [gt EXCEPT ![g] = d]
  BY DEF GoTo
<1> HIDE DEF d
<1> QED BY <1>1, <1>2, PlaysOn

\* The next seat of a round of polling.
LEMMA NextSeatTyped ==
  ASSUME NEW c \in GameRecord
  PROVE  /\ NextSeat(c) \in GameRecord /\ NextSeat(c).pc \in {"poll", "paused"}
         /\ NextSeat(c).room = c.room
<1>1. CASE c.at = 0
  <2>1. NextSeat(c) = [c EXCEPT !.pc = "poll", !.at = 1] /\ "poll" \in GamePC /\ 1 \in Seat
    BY <1>1, SeatSet DEF NextSeat, GamePC
  <2> QED BY <2>1 DEF GameRecord
<1>2. CASE c.at # 0
  <2>1. /\ NextSeat(c) = [c EXCEPT !.pc = "paused", !.at = 0, !.lost = FALSE]
        /\ "paused" \in GamePC /\ 0 \in Seat
    BY <1>2, SeatSet DEF NextSeat, GamePC
  <2> QED BY <2>1 DEF GameRecord
<1> QED BY <1>1, <1>2

LEMMA NextPassTyped ==
  ASSUME NEW c \in GameRecord
  PROVE  /\ NextPass(c) \in GameRecord /\ NextPass(c).pc \in {"pass", "vacate"}
         /\ NextPass(c).room = c.room
         /\ NextPass(c).at = IF c.at = 0 THEN 1 ELSE 0
         /\ NextPass(c).pc = IF c.at = 0 THEN "pass" ELSE "vacate"
<1>1. CASE c.at = 0
  <2>1. NextPass(c) = [c EXCEPT !.pc = "pass", !.at = 1] /\ "pass" \in GamePC /\ 1 \in Seat
    BY <1>1, SeatSet DEF NextPass, GamePC, InReset
  <2> QED BY <1>1, <2>1 DEF GameRecord
<1>2. CASE c.at # 0
  <2>1. /\ NextPass(c) = [c EXCEPT !.pc = "vacate", !.at = 0]
        /\ "vacate" \in GamePC /\ 0 \in Seat
    BY <1>2, SeatSet DEF NextPass, GamePC, InReset
  <2> QED BY <1>2, <2>1 DEF GameRecord
<1> QED BY <1>1, <1>2

LEMMA HandledTyped ==
  ASSUME NEW g \in Game, gt[g] \in GameRecord
  PROVE  /\ Handled(g) \in GameRecord /\ Handled(g).pc \in {"top", "input"}
         /\ Handled(g).room = gt[g].room
         /\ Handled(g).pc = "input" => Handled(g).ready # {}
<1> DEFINE rest == gt[g].ready \ {InputSeat(g)}
           pc == IF rest = {} THEN "top" ELSE "input"
<1>1. rest \in SUBSET Seat /\ pc \in {"top", "input"} /\ (pc = "input" => rest # {})
  BY DEF GameRecord
<1>2. Handled(g) = [gt[g] EXCEPT !.pc = pc, !.ready = rest, !.who = None, !.opp = None]
  BY DEF Handled
<1> HIDE DEF rest, pc
<1> QED BY <1>1, <1>2 DEF GameRecord, GamePC

\* A game thread stays in its room until it has cleared its seats.
Remains(g) == gt[g].pc # "none" /\ gt'[g].pc # "none" /\ gt'[g].room = gt[g].room
Resets(g)  == ResetBegins(g) \/ ResetPasses(g) \/ ReleaseSeat(g) \/ VacateRoom(g) \/ ClearSeats(g)

GameLands(g) ==
  /\ Plays(g)
  /\ ~ClearSeats(g) => Remains(g)
  /\ ~Resets(g) => gt[g].pc \notin InReset /\ gt'[g].pc \notin InReset

LEMMA GamePlays ==
  ASSUME Sound, NEW g \in Game, GameRuns(g) \/ GameInput(g), gt' # gt
  PROVE  GameLands(g)
<1> DEFINE h == gt[g]
<1>0. /\ Games(gt) /\ h \in GameRecord /\ GameDefined(h) /\ RoomOf(g) = h.room
      /\ h.pc # "none" => h.room \in Room
  BY DEF Sound, Games, GameDefined, RoomOf
<1>p. /\ {"none", "start", "top", "paused", "poll", "read", "back", "lose", "timeout", "expel",
          "sync", "select", "input", "reading", "pause", "reset"} \subseteq GamePC
      /\ {"pass", "release", "vacate", "clear"} \subseteq GamePC
  BY DEF GamePC, InReset
<1>k. ASSUME NEW d \in GameRecord, gt' = [gt EXCEPT ![g] = d], d.room = h.room,
             d.pc \notin UsesReady \cup UsesWho \cup InReset \cup {"none"},
             h.pc \notin InReset \cup {"none"}
      PROVE  GameLands(g)
  <2>1. Plays(g) /\ gt'[g] = d
    BY <1>0, <1>k, PlaysOn
  <2> QED BY <1>k, <2>1 DEF GameLands, Remains
<1>w. ASSUME NEW d \in GameRecord, gt' = [gt EXCEPT ![g] = d], d.room = h.room, GameDefined(d),
             d.pc \notin InReset \cup {"none", "expel"}, h.pc \notin InReset \cup {"none"}
      PROVE  GameLands(g)
  <2>1. Plays(g) /\ gt'[g] = d
    BY <1>0, <1>w, Playing
  <2> QED BY <1>w, <2>1 DEF GameLands, Remains
<1>o. ASSUME NEW pc \in GamePC, GoTo(g, pc),
             pc \notin UsesReady \cup UsesWho \cup InReset \cup {"none"},
             h.pc \notin InReset \cup {"none"}
      PROVE  GameLands(g)
  <2>1. Plays(g) /\ gt'[g].pc = pc /\ gt'[g].room = h.room
    BY <1>0, <1>o, GoToPlays
  <2> QED BY <1>o, <2>1 DEF GameLands, Remains
<1>r. ASSUME NEW d \in GameRecord, gt' = [gt EXCEPT ![g] = d], d.room = h.room, Resets(g),
             d.pc \in InReset, h.pc # "none", Holding(g) \/ RoomFree(RoomOf(g))
      PROVE  GameLands(g)
  <2>1. d.room \in Room /\ d.pc # "none" /\ GameDefined(d)
    BY <1>0, <1>r DEF GameDefined, UsesReady, UsesWho, InReset
  <2>2. Plays(g) /\ gt'[g] = d
    BY <1>0, <1>r, <2>1, Playing
  <2> QED BY <1>r, <2>1, <2>2 DEF GameLands, Remains
<1> USE DEF UsesReady, UsesWho, InReset
<1>1. CASE StartGame(g)
  <2> DEFINE fds == [i \in Seat |-> socket[Sitting(g, i)]]
             d == [h EXCEPT !.pc = "top", !.fds = fds]
  <2>1. /\ h.pc = "start" /\ gt' = [gt EXCEPT ![g] = d]
        /\ \A i \in Seat : Sitting(g, i) # None
    BY <1>1 DEF StartGame, GameAt, Crash
  <2>2. \A i \in Seat : Sitting(g, i) \in Slot
    BY <2>1, SittingIsSlot
  <2>3. fds \in [Seat -> Socket \cup {None}]
    BY <2>2 DEF Sound, TablesTyped
  <2> HIDE DEF fds
  <2>4. d \in GameRecord /\ d.pc = "top" /\ d.room = h.room
    BY <1>0, <1>p, <2>3 DEF GameRecord
  <2> HIDE DEF d
  <2> QED BY <1>k, <2>1, <2>4
<1>2. CASE LoopHead(g)
  <2>1. h.pc = "top"
    BY <1>2, Zenon DEF LoopHead, GameAt
  <2>2. CASE gt' = [gt EXCEPT ![g].pc = "sync", ![g].idle = None]
    <3> DEFINE d == [h EXCEPT !.pc = "sync", !.idle = None]
    <3>1. d \in GameRecord /\ d.pc = "sync" /\ d.room = h.room /\ gt' = [gt EXCEPT ![g] = d]
      BY <1>0, <1>p, <2>2 DEF GameRecord
    <3> HIDE DEF d
    <3> QED BY <1>k, <2>1, <3>1
  <2>3. ASSUME NEW i \in IdleSeat(g), NEW b \in BOOLEAN,
               gt' = [gt EXCEPT ![g].pc = "paused", ![g].idle = i, ![g].disc = b]
        PROVE  GameLands(g)
    <3> DEFINE d == [h EXCEPT !.pc = "paused", !.idle = i, !.disc = b]
    <3>1. i \in Seat \cup {None}
      BY DEF IdleSeat
    <3>2. d \in GameRecord /\ d.pc = "paused" /\ d.room = h.room /\ gt' = [gt EXCEPT ![g] = d]
      BY <1>0, <1>p, <2>3, <3>1 DEF GameRecord
    <3> HIDE DEF d
    <3> QED BY <1>k, <2>1, <3>2
  <2>4. \/ gt' = [gt EXCEPT ![g].pc = "sync", ![g].idle = None]
        \/ \E i \in IdleSeat(g) :
             gt' = [gt EXCEPT ![g].pc = "paused", ![g].idle = i,
                      ![g].disc = \E j \in Seat : Sitting(g, j) # None /\ ~Present(g, j)]
    BY <1>2, Zenon DEF LoopHead
  <2>5. (\E j \in Seat : Sitting(g, j) # None /\ ~Present(g, j)) \in BOOLEAN
    OBVIOUS
  <2> QED BY <2>2, <2>3, <2>4, <2>5, Zenon
<1>3. CASE PauseEnds(g)
  <2> DEFINE d == [h EXCEPT !.pc = "sync", !.disc = FALSE, !.idle = None]
  <2>1. h.pc = "paused" /\ gt' = [gt EXCEPT ![g] = d]
    BY <1>3 DEF PauseEnds, GameAt
  <2>2. d \in GameRecord /\ d.pc = "sync" /\ d.room = h.room
    BY <1>0, <1>p DEF GameRecord
  <2> HIDE DEF d
  <2> QED BY <1>k, <2>1, <2>2
<1>4. CASE PauseExpires(g) \/ SelectNothing(g)
  BY <1>4, <1>o, <1>p DEF PauseExpires, SelectNothing, StillPaused, GameAt
<1>5. CASE PollBegins(g)
  <2> DEFINE d == [h EXCEPT !.pc = "poll", !.at = 0, !.lost = h.disc]
  <2>1. h.pc = "paused" /\ gt' = [gt EXCEPT ![g] = d]
    BY <1>5 DEF PollBegins, StillPaused, GameAt
  <2>2. d \in GameRecord /\ d.pc = "poll" /\ d.room = h.room
    BY <1>0, <1>p, SeatSet DEF GameRecord
  <2> HIDE DEF d
  <2> QED BY <1>k, <2>1, <2>2
<1>n. ASSUME gt' = [gt EXCEPT ![g] = NextSeat(@)], h.pc \in {"poll", "read", "back"}
      PROVE  GameLands(g)
  BY <1>0, <1>k, <1>n, NextSeatTyped
<1>6. CASE PollSeat(g)
  <2>1. h.pc = "poll" /\ (gt' = [gt EXCEPT ![g] = NextSeat(@)] \/ GoTo(g, "read"))
    BY <1>6, Zenon DEF PollSeat, GameAt
  <2> QED BY <1>n, <1>o, <1>p, <2>1
<1>7. CASE PollReads(g)
  <2> DEFINE p == Sitting(g, h.at)
             d == [h EXCEPT !.pc = "lose", !.who = p]
  <2>1. h.pc = "read" /\ h.at \in Seat
    BY <1>0, <1>7 DEF PollReads, GameAt, GameRecord
  <2>2. p # None /\ \/ gt' = [gt EXCEPT ![g] = NextSeat(@)] \/ GoTo(g, "back")
                    \/ gt' = [gt EXCEPT ![g].pc = "lose", ![g].who = p]
    BY <1>7, Zenon DEF PollReads, Crash
  <2>3. p \in Slot
    BY <2>1, <2>2, SittingIsSlot
  <2> HIDE DEF p
  <2>4. CASE gt' = [gt EXCEPT ![g].pc = "lose", ![g].who = p]
    <3>1. /\ d \in GameRecord /\ d.pc = "lose" /\ d.room = h.room /\ d.who = p
          /\ gt' = [gt EXCEPT ![g] = d]
      BY <1>0, <1>p, <2>3, <2>4 DEF GameRecord
    <3> HIDE DEF d
    <3>2. GameDefined(d)
      BY <1>0, <2>1, <2>3, <3>1 DEF GameDefined
    <3> QED BY <1>w, <2>1, <3>1, <3>2
  <2> QED BY <1>n, <1>o, <1>p, <2>1, <2>2, <2>4
<1>8. CASE IdleBack(g)
  BY <1>8, <1>n DEF IdleBack, GameAt
<1>9. CASE PollLoses(g)
  <2> DEFINE d == [NextSeat(h) EXCEPT !.fds[h.at] = None, !.disc = TRUE, !.who = None]
  <2>1. h.pc = "lose" /\ gt' = [gt EXCEPT ![g] = d]
    BY <1>9 DEF PollLoses, GameAt
  <2>2. /\ NextSeat(h) \in GameRecord /\ NextSeat(h).pc \in {"poll", "paused"}
        /\ NextSeat(h).room = h.room
    BY <1>0, NextSeatTyped
  <2>3. d \in GameRecord /\ d.pc \in {"poll", "paused"} /\ d.room = h.room
    BY <2>2 DEF GameRecord
  <2> HIDE DEF d
  <2> QED BY <1>k, <2>1, <2>3
<1>10. CASE Timeout(g)
  <2> DEFINE w == TimeoutWinner(g)
             expels == w # None /\ Present(g, 1 - w)
             pc == IF expels THEN "expel" ELSE "sync"
             who == IF expels THEN Sitting(g, 1 - w) ELSE None
             d == [h EXCEPT !.pc = pc, !.over = TRUE, !.winner = w, !.disc = FALSE,
                            !.idle = None, !.who = who]
  <2>1. h.pc = "timeout" /\ RoomFree(RoomOf(g))
    BY <1>10 DEF Timeout, GameAt
  <2>2. gt' = [gt EXCEPT ![g].pc = pc, ![g].over = TRUE, ![g].winner = w, ![g].disc = FALSE,
                         ![g].idle = None, ![g].who = who]
    BY <1>10, Zenon DEF Timeout
  <2>3. w \in Seat \cup {None} /\ (w \in Seat => 1 - w \in Seat)
    BY <1>0, WinnerIsSeat
  <2>4. /\ pc \in {"expel", "sync"} /\ who \in Slot \cup {None}
        /\ pc = "expel" => who \in Slot /\ w \in Seat
    BY <2>1, <2>3, SittingIsSlot
  <2> HIDE DEF w, expels, pc, who
  <2>5. gt' = [gt EXCEPT ![g] = d]
    BY <2>2, Zenon
  <2>6. d \in GameRecord
    BY <1>0, <1>p, <2>3, <2>4 DEF GameRecord
  <2>7. d.pc = pc /\ d.room = h.room /\ d.who = who /\ d.winner = w
    BY <1>0 DEF GameRecord
  <2> HIDE DEF d
  <2>8. GameDefined(d)
    BY <1>0, <2>1, <2>4, <2>7 DEF GameDefined
  <2>9. Plays(g) /\ gt'[g] = d
    BY <1>0, <2>1, <2>4, <2>5, <2>6, <2>7, <2>8, Playing
  <2> QED BY <2>1, <2>4, <2>7, <2>9 DEF GameLands, Remains
<1>11. CASE Expel(g)
  <2> DEFINE o == 1 - h.winner
             d == [h EXCEPT !.pc = "sync", !.fds[o] = None, !.who = None]
  <2>1. h.pc = "expel" /\ gt' = [gt EXCEPT ![g].pc = "sync", ![g].fds[o] = None, ![g].who = None]
    BY <1>11, Zenon DEF Expel, GameAt, Crash
  <2> HIDE DEF o
  <2>2. gt' = [gt EXCEPT ![g] = d]
    BY <2>1, Zenon
  <2>3. d \in GameRecord /\ d.pc = "sync" /\ d.room = h.room
    BY <1>0, <1>p DEF GameRecord
  <2> HIDE DEF d
  <2> QED BY <1>k, <2>1, <2>2, <2>3
<1>12. CASE Sync(g)
  <2> DEFINE fds == [i \in Seat |-> IF Sitting(g, i) = None THEN h.fds[i]
                                   ELSE socket[Sitting(g, i)]]
             over == h.over \/ room_state[RoomOf(g)] = "ABORTED"
             pc == IF over THEN "reset"
                   ELSE IF \A i \in Seat : fds[i] = None THEN "top" ELSE "select"
             d == [h EXCEPT !.fds = fds, !.over = over, !.pc = pc]
  <2>1. h.pc = "sync" /\ gt' = [gt EXCEPT ![g] = d]
    BY <1>12, Zenon DEF Sync, GameAt
  <2>2. \A i \in Seat : Sitting(g, i) \in Slot \cup {None}
    BY <2>1, SittingIsSlot
  <2>3. fds \in [Seat -> Socket \cup {None}] /\ over \in BOOLEAN
    BY <1>0, <2>2 DEF Sound, TablesTyped, GameRecord
  <2>4. pc \in {"reset", "top", "select"}
    OBVIOUS
  <2> HIDE DEF fds, over, pc
  <2>5. d \in GameRecord /\ d.pc = pc /\ d.room = h.room
    BY <1>0, <1>p, <2>3, <2>4 DEF GameRecord
  <2> HIDE DEF d
  <2> QED BY <1>k, <2>1, <2>4, <2>5
<1>13. CASE SelectReady(g)
  <2>1. PICK R \in SUBSET Seat :
          /\ \E i \in R : h.fds[i] # None
          /\ gt' = [gt EXCEPT ![g].pc = "input", ![g].ready = R]
    BY <1>13, Zenon DEF SelectReady
  <2> DEFINE d == [h EXCEPT !.pc = "input", !.ready = R]
  <2>2. h.pc = "select" /\ gt' = [gt EXCEPT ![g] = d]
    BY <1>13, <2>1, Zenon DEF SelectReady, GameAt
  <2>3. d \in GameRecord /\ d.pc = "input" /\ d.room = h.room /\ d.ready = R
    BY <1>0, <1>p DEF GameRecord
  <2> HIDE DEF d
  <2>4. GameDefined(d)
    BY <1>0, <2>1, <2>2, <2>3 DEF GameDefined
  <2> QED BY <1>w, <2>2, <2>3, <2>4
<1>14. CASE SelectFindsIdle(g)
  <2>1. PICK i \in Seat : gt' = [gt EXCEPT ![g].pc = "top", ![g].idle = i]
    BY <1>14, Zenon DEF SelectFindsIdle
  <2> DEFINE d == [h EXCEPT !.pc = "top", !.idle = i]
  <2>2. h.pc = "select" /\ gt' = [gt EXCEPT ![g] = d]
    BY <1>14, <2>1, Zenon DEF SelectFindsIdle, GameAt
  <2>3. d \in GameRecord /\ d.pc = "top" /\ d.room = h.room
    BY <1>0, <1>p DEF GameRecord
  <2> HIDE DEF d
  <2> QED BY <1>k, <2>2, <2>3
<1>15. CASE InputBegins(g)
  <2> DEFINE p == Sitting(g, InputSeat(g))
             o == Sitting(g, 1 - InputSeat(g))
             d == [h EXCEPT !.pc = "reading", !.who = p, !.opp = o]
  <2>1. /\ h.pc = "input" /\ h.ready # {} /\ p # None
        /\ gt' = [gt EXCEPT ![g].pc = "reading", ![g].who = p, ![g].opp = o]
    BY <1>0, <1>15 DEF InputBegins, GameAt, Crash, GameDefined
  <2>2. InputSeat(g) \in Seat /\ 1 - InputSeat(g) \in Seat
    <3>1. h.ready \in SUBSET Seat
      BY <1>0 DEF GameRecord
    <3>2. \E i \in Seat : First(i, h.ready)
      BY <2>1, <3>1, SeatSet DEF First
    <3> QED BY <3>2, SeatSet DEF InputSeat
  <2>3. p \in Slot /\ o \in Slot \cup {None}
    BY <2>1, <2>2, SittingIsSlot
  <2> HIDE DEF p, o
  <2>4. gt' = [gt EXCEPT ![g] = d]
    BY <2>1, Zenon
  <2>5. d \in GameRecord
    BY <1>0, <1>p, <2>3 DEF GameRecord
  <2>6. d.pc = "reading" /\ d.room = h.room /\ d.who = p /\ d.ready = h.ready
    BY <1>0 DEF GameRecord
  <2> HIDE DEF d
  <2>7. GameDefined(d)
    BY <1>0, <2>1, <2>3, <2>6 DEF GameDefined
  <2> QED BY <1>w, <2>1, <2>4, <2>5, <2>6, <2>7
<1>16. CASE InputCrashes(g)
  BY <1>16 DEF InputCrashes, Crash
<1>17. CASE InputPlays(g) \/ PauseRoom(g)
  <2>1. h.pc \in {"reading", "pause"} /\ gt' = [gt EXCEPT ![g] = Handled(g)]
    BY <1>17 DEF InputPlays, PauseRoom, GameAt
  <2>2. /\ Handled(g) \in GameRecord /\ Handled(g).pc \in {"top", "input"}
        /\ Handled(g).room = h.room
        /\ Handled(g).pc = "input" => Handled(g).ready # {}
    BY <1>0, HandledTyped
  <2>3. GameDefined(Handled(g))
    BY <1>0, <2>1, <2>2 DEF GameDefined
  <2> QED BY <1>w, <2>1, <2>2, <2>3
<1>18. CASE InputEnds(g)
  <2>1. PICK w \in Seat :
          gt' = [gt EXCEPT ![g] = [Handled(g) EXCEPT !.pc = "reset", !.ready = {},
                                                     !.over = TRUE, !.winner = w]]
    BY <1>18, Zenon DEF InputEnds
  <2> DEFINE d == [Handled(g) EXCEPT !.pc = "reset", !.ready = {}, !.over = TRUE, !.winner = w]
  <2>2. h.pc = "reading" /\ gt' = [gt EXCEPT ![g] = d]
    BY <1>18, <2>1, Zenon DEF InputEnds, GameAt
  <2>3. d \in GameRecord /\ d.pc = "reset" /\ d.room = h.room
    <3>1. Handled(g) \in GameRecord /\ Handled(g).room = h.room
      BY <1>0, HandledTyped
    <3> QED BY <1>p, <3>1 DEF GameRecord
  <2> HIDE DEF d
  <2> QED BY <1>k, <2>2, <2>3
<1>19. CASE InputFails(g)
  <2> DEFINE i == InputSeat(g)
             d == [h EXCEPT !.pc = "pause", !.fds[i] = None]
  <2>1. h.pc = "reading" /\ gt' = [gt EXCEPT ![g].pc = "pause", ![g].fds[i] = None]
    BY <1>19, Zenon DEF InputFails, GameAt
  <2> HIDE DEF i
  <2>2. gt' = [gt EXCEPT ![g] = d]
    BY <2>1, Zenon
  <2>3. d \in GameRecord /\ d.pc = "pause" /\ d.room = h.room /\ d.who = h.who /\ d.ready = h.ready
    BY <1>0, <1>p DEF GameRecord
  <2> HIDE DEF d
  <2>4. GameDefined(d)
    BY <1>0, <2>1, <2>3 DEF GameDefined
  <2> QED BY <1>w, <2>1, <2>2, <2>3, <2>4
<1>20. CASE ResetBegins(g)
  <2> DEFINE d == [NoGame EXCEPT !.pc = "pass", !.room = h.room, !.over = TRUE]
  <2>1. h.pc = "reset" /\ RoomFree(RoomOf(g)) /\ gt' = [gt EXCEPT ![g] = d]
    BY <1>20 DEF ResetBegins, GameAt, RoomOf
  <2>2. d \in GameRecord /\ d.pc = "pass" /\ d.room = h.room
    <3>1. NoGame \in GameRecord /\ h.room \in Room
      BY <1>0, <1>p, <2>1, SeatSet DEF NoGame, GameRecord
    <3> QED BY <1>p, <3>1 DEF GameRecord
  <2> HIDE DEF d
  <2> QED BY <1>20, <1>r, <2>1, <2>2 DEF Resets
<1>21. CASE ResetPasses(g) \/ ReleaseSeat(g)
  <2>1. /\ h.pc \in {"pass", "release"} /\ Resets(g) /\ Holding(g)
        /\ gt' = [gt EXCEPT ![g] = NextPass(@)] \/ GoTo(g, "release")
    BY <1>21 DEF ResetPasses, ReleaseSeat, GameAt, Resets, Holding, Crash
  <2>2. CASE gt' = [gt EXCEPT ![g] = NextPass(@)]
    BY <1>0, <1>r, <2>1, <2>2, NextPassTyped
  <2>3. CASE GoTo(g, "release")
    <3> DEFINE d == [h EXCEPT !.pc = "release"]
    <3>1. d \in GameRecord /\ d.pc = "release" /\ d.room = h.room /\ gt' = [gt EXCEPT ![g] = d]
      BY <1>0, <1>p, <2>3 DEF GameRecord, GoTo
    <3> HIDE DEF d
    <3> QED BY <1>r, <2>1, <3>1
  <2> QED BY <2>1, <2>2, <2>3
<1>22. CASE VacateRoom(g)
  <2> DEFINE d == [h EXCEPT !.pc = "clear"]
  <2>1. h.pc = "vacate" /\ Resets(g) /\ Holding(g) /\ gt' = [gt EXCEPT ![g] = d]
    BY <1>22 DEF VacateRoom, GoTo, GameAt, Resets, Holding
  <2>2. d \in GameRecord /\ d.pc = "clear" /\ d.room = h.room
    BY <1>0, <1>p DEF GameRecord
  <2> HIDE DEF d
  <2> QED BY <1>r, <2>1, <2>2
<1>23. CASE ClearSeats(g)
  <2>1. NoGame \in GameRecord /\ GameDefined(NoGame) /\ NoGame.pc = "none"
    BY <1>p, SeatSet DEF NoGame, GameRecord, GameDefined
  <2>2. gt' = [gt EXCEPT ![g] = NoGame]
    BY <1>23 DEF ClearSeats
  <2>3. Plays(g)
    BY <1>0, <2>1, <2>2, Playing
  <2> QED BY <1>23, <2>3 DEF GameLands, Resets
<1> QED
  BY <1>1, <1>2, <1>3, <1>4, <1>5, <1>6, <1>7, <1>8, <1>9, <1>10, <1>11, <1>12, <1>13, <1>14,
     <1>15, <1>16, <1>17, <1>18, <1>19, <1>20, <1>21, <1>22, <1>23, Zenon DEF GameRuns, GameInput


\* Who is thrown out by a game thread, loses a socket; a reset takes rooms and seats away.
LEMMA GameTables ==
  ASSUME Sound, NEW g \in Game, GameRuns(g) \/ GameInput(g)
  PROVE  TablesTyped' /\ NetTyped'
<1>0. TablesTyped /\ NetTyped /\ (gt[g].pc # "none" => RoomOf(g) \in Room)
  BY DEF Sound, Games, GameDefined, RoomOf
<1>n. UNCHANGED net /\ crashed' \in BOOLEAN => NetTyped'
  BY <1>0 DEF NetTyped, net, history
<1>t. UNCHANGED tables => TablesTyped'
  BY <1>0, SameTables
<1>1. CASE \/ StartGame(g) \/ LoopHead(g) \/ PauseEnds(g) \/ PollBegins(g) \/ PollSeat(g)
           \/ PollReads(g) \/ Timeout(g) \/ Sync(g) \/ SelectNothing(g) \/ InputBegins(g)
           \/ InputCrashes(g) \/ InputPlays(g) \/ ResetPasses(g) \/ PauseExpires(g)
           \/ SelectReady(g) \/ InputEnds(g)
  <2>1. UNCHANGED tables /\ UNCHANGED net /\ (crashed' = crashed \/ crashed' = TRUE)
    BY <1>1, Zenon DEF StartGame, LoopHead, PauseEnds, PollBegins, PollSeat, PollReads, Timeout,
       Sync, SelectNothing, InputBegins, InputCrashes, InputPlays, ResetPasses, PauseExpires,
       SelectReady, InputEnds, Crash
  <2> QED BY <1>0, <1>n, <1>t, <2>1 DEF NetTyped
<1>2. CASE IdleBack(g) \/ SelectFindsIdle(g) \/ PauseRoom(g)
  <2>1. UNCHANGED net /\ crashed' = crashed
          /\ \E s \in {"IN_PROGRESS", "PAUSED"} : set_room_state(RoomOf(g), s)
    BY <1>2, Zenon DEF IdleBack, SelectFindsIdle, PauseRoom
  <2> QED BY <1>0, <1>n, <2>1, SetStateTyped DEF NetTyped
<1>3. CASE PollLoses(g) \/ InputFails(g) \/ Expel(g)
  <2>1. CASE Crash
    BY <1>0, <1>n, <1>t, <2>1 DEF Crash
  <2>2. CASE ~Crash
    <3>1. UNCHANGED net /\ crashed' = crashed /\ \E p : handle_player_disconnect(p)
      BY <1>3, <2>2, Zenon DEF PollLoses, InputFails, Expel
    <3> QED BY <1>0, <1>n, <3>1, DisconnectTyped DEF NetTyped
  <2> QED BY <2>1, <2>2
<1>4. CASE ResetBegins(g)
  <2>1. UNCHANGED <<tables, open, connections, joins, revived, crashed>>
          /\ clash' = (clash \/ InCall(RoomOf(g)))
    BY <1>4 DEF ResetBegins, clashes_if
  <2> QED BY <1>0, <1>t, <2>1 DEF NetTyped
<1>5. CASE ReleaseSeat(g)
  <2>1. CASE Crash
    BY <1>0, <1>n, <1>t, <2>1 DEF Crash
  <2>2. CASE ~Crash
    <3> DEFINE p == Sitting(g, gt[g].at)
    <3>1. /\ state' = [state EXCEPT ![p] = "LOBBY"] /\ room_id' = [room_id EXCEPT ![p] = None]
          /\ UNCHANGED <<socket, nickname, rooms, player_count, net, crashed>>
      BY <1>5, <2>2, Zenon DEF ReleaseSeat
    <3> HIDE DEF p
    <3>2. TablesTyped'
      BY <1>0, <3>1 DEF TablesTyped, RoomsTyped, rooms
    <3> QED BY <1>0, <1>n, <3>1, <3>2 DEF NetTyped
  <2> QED BY <2>1, <2>2
<1>6. CASE VacateRoom(g)
  <2>1. /\ room_state' = [room_state EXCEPT ![RoomOf(g)] = "WAITING"]
        /\ seat_count' = [seat_count EXCEPT ![RoomOf(g)] = 0]
        /\ UNCHANGED <<players, seat, player_count, net, crashed>>
    BY <1>6 DEF VacateRoom
  <2>2. seat_count' \in [Room -> 0 .. MAX_PLAYERS_PER_ROOM]
    <3>1. seat_count \in [Room -> 0 .. MAX_PLAYERS_PER_ROOM]
      BY <1>0 DEF TablesTyped, RoomsTyped
    <3>2. 0 \in 0 .. MAX_PLAYERS_PER_ROOM
      BY SeatSet
    <3>3. seat_count' = [seat_count EXCEPT ![RoomOf(g)] = 0]
      BY <2>1
    <3> QED BY <3>1, <3>2, <3>3, Zenon
  <2>3. TablesTyped'
    BY <1>0, <2>1, <2>2 DEF TablesTyped, RoomsTyped, players
  <2> QED BY <1>0, <1>n, <2>1, <2>3 DEF NetTyped
<1>7. CASE ClearSeats(g)
  <2>1. /\ seat' = [seat EXCEPT ![RoomOf(g)] = [i \in Seat |-> None]]
        /\ UNCHANGED <<players, room_state, seat_count, player_count, net, crashed>>
    BY <1>7 DEF ClearSeats
  <2>2. TablesTyped'
    BY <1>0, <2>1 DEF TablesTyped, RoomsTyped, players
  <2> QED BY <1>0, <1>n, <2>1, <2>2 DEF NetTyped
<1> QED
  BY <1>1, <1>2, <1>3, <1>4, <1>5, <1>6, <1>7, Zenon DEF GameRuns, GameInput

\* A game thread's steps take sockets from players, and give none; client threads notice
\* them only by a signal.  A socket is taken with lobby_mutex, and seats are only counted
\* down.
LEMMA GameLeaves ==
  ASSUME Sound, NEW g \in Game, GameRuns(g) \/ GameInput(g)
  PROVE  /\ \A p \in Slot : socket'[p] \in {socket[p], None}
         /\ ~LobbyFree => socket' = socket
         /\ \A r \in Room : seat_count'[r] <= seat_count[r]
         /\ ct' = [u \in Client |-> ct'[u]]
         /\ \A u \in Client : Follows(ct[u], ct'[u])
         /\ player_count' = player_count /\ nickname' = nickname
<1>0. /\ ct = [u \in Client |-> ct[u]] /\ ct \in [Client -> ClientRecord]
      /\ seat_count \in [Room -> 0 .. MAX_PLAYERS_PER_ROOM]
  BY DEF Sound, Clients, TablesTyped, RoomsTyped
<1>t. UNCHANGED tables =>
        UNCHANGED <<socket, seat_count, player_count, nickname>>
  BY DEF tables, players, rooms
<1>u. ASSUME UNCHANGED <<socket, seat_count, player_count, nickname, ct>>
      PROVE  /\ \A p \in Slot : socket'[p] \in {socket[p], None}
             /\ ~LobbyFree => socket' = socket
             /\ \A r \in Room : seat_count'[r] <= seat_count[r]
             /\ ct' = [u \in Client |-> ct'[u]]
             /\ \A u \in Client : Follows(ct[u], ct'[u])
             /\ player_count' = player_count /\ nickname' = nickname
  BY <1>0, <1>u, SeatSet DEF Follows
<1>1. CASE \/ StartGame(g) \/ LoopHead(g) \/ PauseEnds(g) \/ PollBegins(g) \/ PollSeat(g)
           \/ PollReads(g) \/ Timeout(g) \/ Sync(g) \/ SelectNothing(g) \/ InputBegins(g)
           \/ InputCrashes(g) \/ InputPlays(g) \/ ResetBegins(g) \/ ResetPasses(g)
           \/ PauseExpires(g) \/ SelectReady(g) \/ InputEnds(g)
  <2>1. UNCHANGED <<tables, ct>>
    BY <1>1, Zenon DEF StartGame, LoopHead, PauseEnds, PollBegins, PollSeat, PollReads, Timeout,
       Sync, SelectNothing, InputBegins, InputCrashes, InputPlays, ResetBegins, ResetPasses,
       PauseExpires, SelectReady, InputEnds, Crash
  <2> QED BY <1>t, <1>u, <2>1
<1>2. CASE IdleBack(g) \/ SelectFindsIdle(g) \/ PauseRoom(g)
  BY <1>2, <1>u, Zenon DEF IdleBack, SelectFindsIdle, PauseRoom, set_room_state, players
<1>3. CASE PollLoses(g) \/ InputFails(g) \/ Expel(g)
  <2>1. CASE Crash
    BY <1>t, <1>u, <2>1 DEF Crash
  <2>2. CASE ~Crash
    <3>1. ct' = ct /\ LobbyFree /\ \E p : handle_player_disconnect(p)
      BY <1>3, <2>2, Zenon DEF PollLoses, InputFails, Expel
    <3>2. \A p \in Slot : socket'[p] \in {socket[p], None}
      BY <3>1 DEF handle_player_disconnect, Sound, TablesTyped
    <3>3. UNCHANGED <<seat_count, player_count, nickname>>
      BY <3>1 DEF handle_player_disconnect, rooms
    <3> QED BY <1>0, <3>1, <3>2, <3>3, SeatSet DEF Follows
  <2> QED BY <2>1, <2>2
<1>4. CASE ReleaseSeat(g)
  BY <1>4, <1>t, <1>u, Zenon DEF ReleaseSeat, Crash, rooms
<1>5. CASE VacateRoom(g)
  <2>1. UNCHANGED <<players, player_count, ct>> /\ seat_count' = [seat_count EXCEPT ![RoomOf(g)] = 0]
    BY <1>5 DEF VacateRoom
  <2>2. \A r \in Room : seat_count'[r] <= seat_count[r]
    BY <1>0, <2>1, SeatSet
  <2> QED BY <1>0, <2>1, <2>2 DEF Follows, players
<1>6. CASE ClearSeats(g)
  <2>1. UNCHANGED <<players, seat_count, player_count>> /\ ct' = Broadcast(RoomOf(g), ct)
    BY <1>6 DEF ClearSeats
  <2>2. /\ ct' = [u \in Client |-> ct'[u]]
        /\ \A u \in Client : Follows(ct[u], ct'[u])
    BY <1>0, <2>1, BroadcastFollows
  <2> QED BY <1>0, <2>1, <2>2, SeatSet DEF players
<1> QED
  BY <1>1, <1>2, <1>3, <1>4, <1>5, <1>6, Zenon DEF GameRuns, GameInput

LEMMA GameSound ==
  ASSUME Sound, NEW g \in Game, GameRuns(g) \/ GameInput(g)
  PROVE  Sound'
<1>1. TablesTyped' /\ NetTyped'
  BY GameTables
<1>2. /\ \A p \in Slot : socket'[p] \in {socket[p], None}
      /\ ~LobbyFree => socket' = socket
      /\ \A r \in Room : seat_count'[r] <= seat_count[r]
      /\ ct' = [u \in Client |-> ct'[u]]
      /\ \A u \in Client : Follows(ct[u], ct'[u])
  BY GameLeaves
<1>3. ASSUME NEW u \in Client
      PROVE  /\ ct'[u] \in ClientRecord /\ ClientDefined(ct'[u])
             /\ (Calling(u)' <=> Calling(u)) /\ (Calling(u) => ct'[u] = ct[u])
  <2>1. ct[u] \in ClientRecord /\ ClientDefined(ct[u]) /\ Follows(ct[u], ct'[u])
    BY <1>2 DEF Sound, Clients
  <2>2. /\ ct'[u] \in ClientRecord /\ ClientDefined(ct'[u])
        /\ ct'[u].pc # ct[u].pc => /\ ct[u].pc \in {"timedwait", "condwait"}
                                   /\ ct'[u].pc \in {"loop", "woken"}
        /\ ct'[u].pc = ct[u].pc => ct'[u] = ct[u]
    BY <2>1, FollowsKeeps
  <2> QED BY <2>2 DEF Calling, InLobbyCall
<1>4. Clients(ct')
  BY <1>2, <1>3 DEF Clients
<1>5. Games(gt') /\ \A h, k \in Game : Holding(h)' /\ Holding(k)' /\ gt'[h].room = gt'[k].room => h = k
  <2>1. CASE gt' = gt
    BY <2>1 DEF Sound, Locked, Holding
  <2>2. CASE gt' # gt
    <3>1. Plays(g)
      BY <2>2, GamePlays DEF GameLands
    <3>2. ASSUME NEW h \in Game, h # g, Holding(h)', Holding(g)', gt'[h].room = gt'[g].room
          PROVE  FALSE
      <4>1. Holding(h) /\ gt'[h] = gt[h] /\ gt[h].room = RoomOf(g)
        BY <3>1, <3>2 DEF Plays, Holding
      <4>2. Holding(g) \/ RoomFree(RoomOf(g))
        BY <3>1, <3>2 DEF Plays
      <4>3. ~RoomFree(RoomOf(g))
        BY <4>1 DEF RoomFree, Holding
      <4> QED BY <3>2, <4>1, <4>2, <4>3 DEF Sound, Locked, RoomOf
    <3>3. ASSUME NEW h \in Game, NEW k \in Game, h # g, k # g, Holding(h)', Holding(k)',
                 gt'[h].room = gt'[k].room
          PROVE  h = k
      <4>1. gt'[h] = gt[h] /\ gt'[k] = gt[k]
        BY <3>1, <3>3 DEF Plays
      <4> QED BY <3>3, <4>1 DEF Sound, Locked, Holding
    <3> QED BY <3>1, <3>2, <3>3 DEF Plays
  <2> QED BY <2>1, <2>2
<1>6. ASSUME NEW u \in Client
      PROVE  Fits(u)'
  <2>1. CASE ~Calling(u)
    BY <1>3, <2>1 DEF Fits, Calling, InLobbyCall
  <2>2. CASE Calling(u)
    <3>1. /\ ct'[u] = ct[u] /\ socket' = socket /\ Fits(u)
          /\ ct[u].slot \in Slot /\ ct[u].room \in Room
      BY <1>2, <1>3, <2>2
         DEF LobbyFree, Calling, Sound, Locked, Clients, ClientDefined, UsesRoom, InLobbyCall
    <3>2. seat_count'[ct[u].room] \in Int /\ seat_count[ct[u].room] \in Int
      BY <1>1, <3>1, SeatSet DEF TablesTyped, RoomsTyped, Sound
    <3> QED BY <1>2, <3>1, <3>2, SeatSet DEF Fits
  <2> QED BY <2>1, <2>2
<1>7. Locked'
  BY <1>3, <1>5, <1>6 DEF Locked, Sound
<1> QED BY <1>1, <1>4, <1>5, <1>7 DEF Sound

-----------------------------------------------------------------------------
LEMMA InitSound == Init => Sound
<1> SUFFICES ASSUME Init PROVE Sound
  OBVIOUS
<1> USE NoneIsNobody, ThreadAssumption, LobbyAssumption, SeatSet
<1>1. TablesTyped
  BY DEF Init, init_lobby, TablesTyped, RoomsTyped
<1>2. NetTyped
  <2>1. 0 \in 0 .. MaxConnections /\ 0 \in 0 .. MaxJoins
    BY ONLY ThreadAssumption
  <2> QED BY <2>1, Zenon DEF Init, NetTyped
<1>3. NoClient \in ClientRecord /\ ClientDefined(NoClient) /\ NoClient.pc = "none"
  BY DEF NoClient, ClientRecord, ClientPC, InLobbyCall, ClientDefined, UsesName, UsesPeer,
         UsesOther, UsesRoom, Adopting
<1>4. NoGame \in GameRecord /\ GameDefined(NoGame) /\ NoGame.pc = "none"
  BY DEF NoGame, GameRecord, GamePC, InReset, GameDefined, UsesReady, UsesWho
<1>5. Clients(ct) /\ Games(gt)
  BY <1>3, <1>4 DEF Init, Clients, Games
<1>6. (\A t \in Client : ct[t] = NoClient) /\ (\A g \in Game : gt[g] = NoGame)
  BY DEF Init
<1>7. Locked
  BY <1>3, <1>4, <1>6, Zenon DEF Locked, Calling, Holding, Fits, InLobbyCall, InReset
<1> QED BY <1>1, <1>2, <1>5, <1>7 DEF Sound

\* A call of lobby.c ends with the step that changes the room.
LEMMA CallEnds ==
  ASSUME Sound, NEW t \in Client, ClientRuns(t) \/ ClientInput(t), Calling(t)
  PROVE  (Removed(t) \/ TakesSeat(t) \/ Left(t)) /\ ct' # ct /\ ~Calling(t)'
<1> DEFINE c == ct[t]
<1>0. /\ Clients(ct) /\ c \in ClientRecord /\ ClientDefined(c)
      /\ c.pc \in {"joining", "leaving", "removing"}
  BY DEF Sound, Clients, Calling, InLobbyCall
<1>1. Removed(t) \/ TakesSeat(t) \/ Left(t)
  <2>1. \A pc \in {"login", "find_active", "kick", "kicked", "find_disconnected", "new_name",
                   "adopt", "adopted", "rejoin", "resume", "resumed", "enter", "loop", "lobby",
                   "drop_command", "joined", "wake", "in_room", "timedwait", "timedout", "leave",
                   "woken", "drop"} : ~At(t, pc)
    BY <1>0 DEF At
  <2> QED BY <2>1, ZenonT(60)
       DEF ClientRuns, ClientInput, FindActive, Kick, Kicked, FindDisconnected, Adopt,
           RemovePlayer, TakeNickname, Rejoin, Resumed, EnterLoop, Loop,
           WakeOpponent, EnterWait, LeaveAndDrop, Woken, ReceiveLogin, Resume,
           RefuseResume, LobbyInput, JoinRoom, Joined, WaitTimesOut, RoomInput, LeaveRoom
<1>2. ct'[t].pc \in {"none", "loop", "rejoin", "joined", "drop"}
  <2>1. CASE Removed(t)
    <3>1. c.pc = "removing" /\ c.caller \in Removers /\ AfterRemoval(t, c.caller)
      BY <1>0, <2>1 DEF Removed, At, ClientDefined
    <3>2. c.caller = "adopted" => c.peer \in Slot
      BY <1>0, <3>1 DEF ClientDefined, Adopting
    <3> QED BY <1>0, <3>1, <3>2, AfterRemovalProceeds
  <2>2. CASE TakesSeat(t)
    BY <1>0, <2>2 DEF TakesSeat, Clients, ClientRecord
  <2>3. CASE Left(t)
    <3>1. ToDrop(t) \/ ToLoop(t)
      BY <2>3, Zenon DEF Left, ToDrop, ToLoop
    <3> QED BY <1>0, <3>1, ToDropProceeds, ToLoopProceeds
  <2> QED BY <1>1, <2>1, <2>2, <2>3
<1> QED BY <1>0, <1>1, <1>2 DEF Calling, InLobbyCall

LEMMA StepSound ==
  ASSUME Sound, [Next]_vars
  PROVE  Sound'
<1>1. CASE UNCHANGED vars
  BY <1>1 DEF vars, net, history, tables, players, rooms, Sound, TablesTyped, RoomsTyped,
     NetTyped, Locked, Calling, Holding, Fits
<1>2. ASSUME NEW t \in Client, Accept(t)
      PROVE  Sound'
  BY <1>2, AcceptSound
<1>3. ASSUME NEW t \in Client, ClientRuns(t) \/ ClientInput(t)
      PROVE  Sound'
  <2>0. TablesTyped' /\ NetTyped'
    BY <1>3, ClientTables
  <2>1. CASE ct' = ct
    <3>1. ~Calling(t)
      BY <1>3, <2>1, CallEnds
    <3>2. Games(gt') /\ \A g \in Game : gt'[g] = gt[g] \/ (gt[g].pc = "none" /\ gt'[g].pc = "start")
      BY <1>3, ClientGames
    <3>3. /\ seat_count' = seat_count
          /\ ~LobbyFree => \A p \in Slot : socket[p] # None => socket'[p] # None
      BY <1>3, <3>1, ClientOutsideLobby
    <3>4. Locked'
      <4>1. \A u, v \in Client : Calling(u)' /\ Calling(v)' => u = v
        BY <2>1 DEF Sound, Locked, Calling
      <4>2. ASSUME NEW u \in Client PROVE Fits(u)'
        <5>1. CASE ~Calling(u)
          BY <2>1, <5>1 DEF Fits, Calling, InLobbyCall
        <5>2. CASE Calling(u)
          BY <2>1, <3>3, <5>2 DEF Fits, Sound, Locked, LobbyFree, Calling, Clients, ClientDefined,
             InLobbyCall
        <5> QED BY <5>1, <5>2
      <4>3. ASSUME NEW g \in Game, NEW h \in Game, Holding(g)', Holding(h)',
                   gt'[g].room = gt'[h].room
            PROVE  g = h
        <5>1. gt'[g] = gt[g] /\ gt'[h] = gt[h]
          BY <3>2, <4>3 DEF Holding, InReset
        <5> QED BY <4>3, <5>1 DEF Sound, Locked, Holding
      <4> QED BY <4>1, <4>2, <4>3 DEF Locked
    <3> QED BY <2>0, <2>1, <3>2, <3>4 DEF Sound
  <2>2. CASE ct' # ct
    <3>1. Clients(ct')
      BY <1>3, <2>2, ClientLands, MovesSound DEF Lands, Proceeds, Sound
    <3>2. Games(gt') /\ Locked'
      BY <1>3, <2>2, ClientGames, ClientLocked
    <3> QED BY <2>0, <3>1, <3>2 DEF Sound
  <2> QED BY <2>1, <2>2
<1>4. ASSUME NEW g \in Game, GameRuns(g) \/ GameInput(g)
      PROVE  Sound'
  BY <1>4, GameSound
<1> QED BY <1>1, <1>2, <1>3, <1>4 DEF Next

\* Every thread has, at each point of its code, the slot, descriptor, room, seat or
\* other player that the code uses there, within the bounds of the tables: players[]
\* and rooms[] are never indexed with the -1 that stands for nothing (server.c:614-1131).
THEOREM SpecSound == Spec => []Sound
BY InitSound, StepSound, PTL DEF Spec

-----------------------------------------------------------------------------
(* Every socket of the table has a thread                                    *)

\* A thread knows the slot it came in with, or has adopted, by its descriptor; it knows
\* the slot it adopts only from giving it the descriptor to leaving its own
\* (server.c:728-735).
Serves(c, p, s) == c.fd = s /\ (c.slot = p \/ (Adopting(c) /\ c.peer = p))

AllServed ==
  \A p \in Slot : socket[p] # None => \E t \in Client : Serves(ct[t], p, socket[p])

\* A thread that is moved by a signal serves whom it served.
LEMMA FollowsServes ==
  ASSUME NEW c \in ClientRecord, NEW d, Follows(c, d), NEW p, NEW s, Serves(c, p, s)
  PROVE  Serves(d, p, s)
BY FollowsKeeps DEF Serves, Adopting

\* Sockets are lost, or are given to the thread that moves; and what that thread
\* stops serving has lost its socket.
LEMMA StillServed ==
  ASSUME Clients(ct), AllServed, NEW t \in Client, Moves(t, ct'[t]),
         \A p \in Slot : socket'[p] # None /\ socket'[p] # socket[p] => Serves(ct'[t], p, socket'[p]),
         \A p \in Slot : socket'[p] # None /\ Serves(ct[t], p, socket'[p])
                           => Serves(ct'[t], p, socket'[p])
  PROVE  AllServed'
<1> SUFFICES ASSUME NEW p \in Slot, socket'[p] # None
             PROVE  \E u \in Client : Serves(ct'[u], p, socket'[p])
  BY DEF AllServed, Serves, Adopting
<1>1. CASE socket'[p] # socket[p]
  BY <1>1
<1>2. CASE socket'[p] = socket[p]
  <2>1. PICK u \in Client : Serves(ct[u], p, socket[p])
    BY <1>2 DEF AllServed
  <2>2. CASE u = t
    BY <1>2, <2>1, <2>2
  <2>3. CASE u # t
    <3>1. Follows(ct[u], ct'[u]) /\ ct[u] \in ClientRecord
      BY <2>3 DEF Moves, Clients
    <3>2. Serves(ct'[u], p, socket[p])
      BY <2>1, <3>1, FollowsServes
    <3> QED BY <1>2, <3>2
  <2> QED BY <2>2, <2>3
<1> QED BY <1>1, <1>2

LEMMA DisconnectSockets ==
  ASSUME TablesTyped, NEW p, handle_player_disconnect(p)
  PROVE  \A q \in Slot : socket'[q] \in {socket[q], None}
BY DEF handle_player_disconnect, TablesTyped

\* Most moves keep the thread's slot and descriptor.
LEMMA KeptServed ==
  ASSUME Clients(ct), AllServed, NEW t \in Client, Moves(t, ct'[t]), KeepsSlot(t),
         Adopting(ct[t]) => Adopting(ct'[t]) /\ ct'[t].peer = ct[t].peer,
         \A p \in Slot : socket'[p] \in {socket[p], None}
  PROVE  AllServed'
BY StillServed DEF Serves, KeepsSlot

\* A thread can go when its slot has not its descriptor any more.
LEMMA LeftServed ==
  ASSUME Clients(ct), AllServed, NEW t \in Client, Moves(t, ct'[t]), ~Adopting(ct[t]),
         socket'[ct[t].slot] = None \/ socket'[ct[t].slot] # ct[t].fd,
         \A p \in Slot : socket'[p] \in {socket[p], None}
  PROVE  AllServed'
BY StillServed DEF Serves

\* What a removed slot's thread serves afterwards is the slot it has adopted, if any.
LEMMA RemovalServed ==
  ASSUME Clients(ct), AllServed, NEW t \in Client, NEW k \in Removers,
         ct[t].pc = k \/ (ct[t].pc = "removing" /\ ct[t].caller = k), AfterRemoval(t, k),
         socket'[ct[t].slot] = None, \A q \in Slot : q # ct[t].slot => socket'[q] = socket[q]
  PROVE  AllServed'
<1> DEFINE c == ct[t]
<1>1. /\ c.pc # "none" /\ (k = "adopted" <=> Adopting(c)) /\ (k = "adopted" => c.peer \in Slot)
      /\ c.slot \in Slot
  <2>1. ClientDefined(c)
    BY DEF Clients
  <2>2. c.pc # "none" /\ (k = "adopted" <=> Adopting(c))
    BY DEF Removers, Adopting
  <2> QED BY <2>1, <2>2 DEF ClientDefined
<1>2. /\ Proceeds(t)
      /\ k = "drop_command" => KeepsSlot(t)
      /\ k = "adopted" => ct'[t].slot = c.peer /\ ct'[t].fd = c.fd
  BY <1>1, AfterRemovalProceeds
<1>3. Moves(t, ct'[t])
  BY <1>2 DEF Proceeds
<1>4. ASSUME NEW p \in Slot, socket'[p] # None, Serves(c, p, socket'[p])
      PROVE  Serves(ct'[t], p, socket'[p])
  <2>1. p # c.slot /\ Adopting(c) /\ c.peer = p /\ c.fd = socket'[p]
    BY <1>4 DEF Serves
  <2> QED BY <1>1, <1>2, <2>1 DEF Serves
<1>5. \A p \in Slot : socket'[p] # None /\ socket'[p] # socket[p] => Serves(ct'[t], p, socket'[p])
  OBVIOUS
<1> QED BY <1>3, <1>4, <1>5, StillServed

LEMMA RemovedSockets ==
  ASSUME TablesTyped, NEW p \in Slot, NEW r, removed_from(r, p) \/ remove_player(p)
  PROVE  socket'[p] = None /\ \A q \in Slot : q # p => socket'[q] = socket[q]
BY DEF remove_player, removed_from, tables, players, TablesTyped

LEMMA ClientServes ==
  ASSUME Sound, AllServed, NEW t \in Client, ClientRuns(t) \/ ClientInput(t)
  PROVE  AllServed'
<1> DEFINE c == ct[t]
<1>0. /\ Clients(ct) /\ TablesTyped /\ c \in ClientRecord /\ ClientDefined(c)
      /\ c.pc # "none" => c.slot \in Slot /\ c.fd \in Socket
  BY DEF Sound, Clients, ClientDefined
<1>u. CASE UNCHANGED <<ct, socket>>
  BY <1>u DEF AllServed
<1>1. ct' # ct => Moves(t, ct'[t]) /\ (~MayChangeSlot(t) => KeepsSlot(t) /\ ~Adopting(c))
  BY ClientLands DEF Lands, Proceeds
<1>2. CASE Adopt(t)
  <2>1. /\ c.pc = "adopt" /\ c.peer \in Slot /\ c.slot \in Slot
        /\ socket' = [socket EXCEPT ![c.peer] = c.fd] /\ Goto(t, "adopted")
    BY <1>0, <1>2 DEF Adopt, At, ClientDefined, UsesPeer
  <2>2. /\ Proceeds(t) /\ KeepsSlot(t) /\ ct'[t].pc = "adopted" /\ ct'[t].peer = c.peer
    BY <1>0, <2>1, GotoProceeds DEF ClientPC, InLobbyCall, UsesName, UsesOther, UsesRoom
  <2>3. \A p \in Slot : socket'[p] = IF p = c.peer THEN c.fd ELSE socket[p]
    BY <1>0, <2>1 DEF TablesTyped
  <2>4. \A p \in Slot : socket'[p] # None /\ socket'[p] # socket[p]
                           => Serves(ct'[t], p, socket'[p])
    BY <2>2, <2>3 DEF Serves, Adopting, KeepsSlot
  <2>5. \A p \in Slot : Serves(c, p, socket'[p]) => Serves(ct'[t], p, socket'[p])
    BY <2>1, <2>2 DEF Serves, Adopting, KeepsSlot
  <2> QED BY <1>0, <2>2, <2>4, <2>5, StillServed DEF Proceeds
<1>3. CASE RemovePlayer(t)
  <2>1. c.pc \in Removers /\ c.pc # "none" /\ c.slot \in Slot
    BY <1>0, <1>3 DEF RemovePlayer, At, Removers
  <2>2. CASE InCallOn(t, "removing", room_id[c.slot]) /\ UNCHANGED tables
             /\ room_id[c.slot] # None
    <3>1. room_id[c.slot] \in Room
      BY <1>0, <2>1, <2>2 DEF TablesTyped, RoomsTyped
    <3>2. /\ Proceeds(t) /\ KeepsSlot(t) /\ ct'[t].pc = "removing" /\ ct'[t].caller = c.pc
          /\ ct'[t].peer = c.peer
      BY <1>0, <2>1, <2>2, <3>1, InCallProceeds DEF InLobbyCall
    <3>3. Adopting(c) => Adopting(ct'[t]) /\ ct'[t].peer = c.peer
      BY <2>1, <3>2 DEF Adopting, Removers
    <3>4. \A p \in Slot : socket'[p] \in {socket[p], None}
      BY <2>2 DEF tables, players
    <3> QED BY <1>0, <3>2, <3>3, <3>4, KeptServed DEF Proceeds
  <2>3. CASE remove_player(c.slot) /\ AfterRemoval(t, c.pc)
    <3>1. socket'[c.slot] = None /\ \A q \in Slot : q # c.slot => socket'[q] = socket[q]
      BY <1>0, <2>1, <2>3, RemovedSockets
    <3> QED BY <1>0, <2>1, <2>3, <3>1, RemovalServed
  <2> QED BY <1>3, <2>2, <2>3, Zenon DEF RemovePlayer
<1>4. CASE Removed(t)
  <2>1. /\ c.pc = "removing" /\ c.caller \in Removers /\ c.slot \in Slot
        /\ removed_from(c.room, c.slot) /\ AfterRemoval(t, c.caller)
    BY <1>0, <1>4 DEF Removed, At, ClientDefined
  <2>2. socket'[c.slot] = None /\ \A q \in Slot : q # c.slot => socket'[q] = socket[q]
    BY <1>0, <2>1, RemovedSockets
  <2> QED BY <1>0, <2>1, <2>2, RemovalServed
<1>5. CASE EnterLoop(t)
  <2>1. c.pc = "enter" /\ c.slot \in Slot /\ socket' = socket
    BY <1>0, <1>5 DEF EnterLoop, At, tables, players
  <2>2. CASE socket[c.slot] = None
    <3>1. Moves(t, ct'[t])
      BY <1>0, <1>5, <2>2, ExitProceeds DEF EnterLoop, Proceeds
    <3> QED BY <1>0, <2>1, <2>2, <3>1, LeftServed DEF Adopting
  <2>3. CASE socket[c.slot] # None
    <3>1. socket[c.slot] \in Socket
      BY <1>0, <2>1, <2>3 DEF TablesTyped
    <3>2. ct' = [ct EXCEPT ![t] = Fresh("loop", c.slot, socket[c.slot])]
      BY <1>0, <1>5, <2>1, <2>3, InLoopIsFresh DEF EnterLoop
    <3>3. Proceeds(t) /\ ct'[t].slot = c.slot /\ ct'[t].fd = socket[c.slot]
      <4>1. c.pc # "none"
        BY <2>1
      <4> QED BY <1>0, <2>1, <3>1, <3>2, <4>1, FreshProceeds
    <3>4. \A p \in Slot : Serves(c, p, socket'[p]) => Serves(ct'[t], p, socket'[p])
      BY <2>1, <3>3 DEF Serves, Adopting
    <3> QED BY <1>0, <2>1, <3>3, <3>4, StillServed DEF Proceeds
  <2> QED BY <2>2, <2>3
<1>6. CASE Loop(t)
  <2>1. c.pc = "loop" /\ c.slot \in Slot /\ socket' = socket
    BY <1>0, <1>6 DEF Loop, At, tables, players
  <2>2. CASE Exit(t) /\ (socket[c.slot] = None \/ socket[c.slot] # c.fd)
    <3>1. Moves(t, ct'[t])
      BY <1>0, <2>2, ExitProceeds DEF Proceeds
    <3> QED BY <1>0, <2>1, <2>2, <3>1, LeftServed DEF Adopting
  <2>3. CASE \/ Goto(t, "lobby")
             \/ ct' = [ct EXCEPT ![t].pc = "in_room", ![t].room = room_id[c.slot]]
    <3>1. ct'[t].slot = c.slot /\ ct'[t].fd = c.fd /\ ct'[t].pc # "loop"
      BY <1>0, <2>3 DEF Goto, Clients, ClientRecord
    <3>2. Moves(t, ct'[t])
      BY <1>1, <2>1, <3>1
    <3> QED BY <1>0, <2>1, <3>1, <3>2, KeptServed DEF KeepsSlot, Adopting
  <2> QED BY <1>6, <2>2, <2>3 DEF Loop
<1>7. CASE Woken(t)
  <2>1. c.pc = "woken" /\ c.slot \in Slot /\ socket' = socket
    BY <1>0, <1>7 DEF Woken, At, tables, players
  <2>2. CASE socket[c.slot] # c.fd
    <3>1. Moves(t, ct'[t])
      BY <1>0, <1>7, <2>2, ExitProceeds DEF Woken, Proceeds
    <3> QED BY <1>0, <2>1, <2>2, <3>1, LeftServed DEF Adopting
  <2>3. CASE socket[c.slot] = c.fd
    <3>1. Goto(t, "condwait") \/ ToLoop(t)
      BY <1>7, <2>3 DEF Woken
    <3>2. c.room \in Room /\ c.pc # "none"
      BY <1>0, <2>1 DEF ClientDefined, UsesRoom
    <3>3. Proceeds(t) /\ KeepsSlot(t)
      BY <1>0, <3>1, <3>2, GotoProceeds, ToLoopProceeds
         DEF ClientPC, InLobbyCall, UsesName, UsesPeer, UsesOther
    <3> QED BY <1>0, <2>1, <3>3, KeptServed DEF Proceeds, Adopting
  <2> QED BY <2>2, <2>3
<1>8. CASE ~Adopt(t) /\ ~MayChangeSlot(t)
  <2>1. \A p \in Slot : socket'[p] \in {socket[p], None}
    <3>1. CASE socket' = socket
      BY <3>1
    <3>2. CASE Kicked(t)
      BY <1>0, <3>2, DisconnectSockets DEF Kicked
    <3>3. CASE ~Kicked(t)
      <4>1. UNCHANGED tables \/ socket' = socket
        BY <1>8, <3>3, Zenon
           DEF ClientRuns, ClientInput, MayChangeSlot, FindActive, Kick, FindDisconnected,
               TakeNickname, Rejoin, Resumed, TakesSeat, Joined, WakeOpponent, EnterWait,
               LeaveAndDrop, Left, ReceiveLogin, Resume, RefuseResume, LobbyInput, JoinRoom,
               WaitTimesOut, RoomInput, LeaveRoom, Crash, players, set_room_state, takes_seat,
               leaves
      <4> QED BY <3>1, <4>1 DEF tables, players
    <3> QED BY <3>2, <3>3
  <2>2. CASE ct' # ct
    BY <1>0, <1>1, <1>8, <2>1, <2>2, KeptServed
  <2>3. CASE ct' = ct
    BY <2>1, <2>3 DEF AllServed
  <2> QED BY <2>2, <2>3
<1> QED BY <1>2, <1>3, <1>4, <1>5, <1>6, <1>7, <1>8 DEF MayChangeSlot

LEMMA GameServes ==
  ASSUME Sound, AllServed, NEW g \in Game, GameRuns(g) \/ GameInput(g)
  PROVE  AllServed'
<1>1. /\ \A p \in Slot : socket'[p] \in {socket[p], None}
      /\ \A u \in Client : Follows(ct[u], ct'[u])
  BY GameLeaves
<1>2. \A u \in Client, p \in Slot :
        Serves(ct[u], p, socket[p]) => Serves(ct'[u], p, socket[p])
  BY <1>1, FollowsServes DEF Sound, Clients
<1>3. ASSUME NEW p \in Slot, socket'[p] # None
      PROVE  \E u \in Client : Serves(ct'[u], p, socket'[p])
  BY <1>1, <1>2, <1>3 DEF AllServed
<1> QED BY <1>3 DEF AllServed, Serves, Adopting

LEMMA AcceptServes ==
  ASSUME Sound, AllServed, NEW t \in Client, Accept(t)
  PROVE  AllServed'
<1>1. PICK s \in Socket, p \in Slot :
        /\ socket' = [socket EXCEPT ![p] = s]
        /\ ct' = [ct EXCEPT ![t] = [NoClient EXCEPT !.pc = "login", !.slot = p, !.fd = s]]
  BY DEF Accept, add_player
<1>2. ct[t] = NoClient /\ Clients(ct) /\ socket \in [Slot -> Socket \cup {None}]
  BY DEF Accept, First, At, Sound, Clients, ClientDefined, TablesTyped
<1>3. /\ Proceeds(t) /\ ct'[t] = Fresh("login", p, s) /\ Fresh("login", p, s).slot = p
      /\ Fresh("login", p, s).fd = s
  <2>1. /\ Fresh("login", p, s) \in ClientRecord /\ ClientDefined(Fresh("login", p, s))
        /\ Fresh("login", p, s).slot = p /\ Fresh("login", p, s).fd = s
    BY FreshDefined
  <2>2. ct' = [ct EXCEPT ![t] = Fresh("login", p, s)]
    BY <1>1 DEF Fresh
  <2> QED BY <1>2, <2>1, <2>2, Proceeding
<1>4. \A q \in Slot : socket'[q] = IF q = p THEN s ELSE socket[q]
  BY <1>1, <1>2
<1>5. \A q \in Slot : ~Serves(ct[t], q, socket'[q]) \/ socket'[q] = None
  BY <1>2 DEF Serves, NoClient
<1>6. \A q \in Slot : socket'[q] # None /\ socket'[q] # socket[q]
                        => Serves(ct'[t], q, socket'[q])
  BY <1>3, <1>4 DEF Serves
<1> QED BY <1>2, <1>3, <1>5, <1>6, StillServed DEF Proceeds

LEMMA StepServes ==
  ASSUME Sound, AllServed, [Next]_vars
  PROVE  AllServed'
<1>1. CASE UNCHANGED vars
  BY <1>1 DEF vars, tables, players, AllServed
<1> QED BY <1>1, AcceptServes, ClientServes, GameServes DEF Next

LEMMA InitServes == Init => AllServed
BY DEF Init, init_lobby, AllServed

LEMMA ServesIsServed == AllServed => Served
BY DEF AllServed, Served, Serves

\* No slot with a socket is left without a thread, through kicks, losses, adoptions,
\* removals, and descriptors that one thread closes and another connection gets
\* (server.c:610-613, 676-706, 725-735, 1127-1130).
THEOREM SpecServed == Spec => []Served
BY InitSound, StepSound, InitServes, StepServes, ServesIsServed, PTL DEF Spec

-----------------------------------------------------------------------------
(* The history variables only ever become true                               *)

LEMMA HistoryGrows ==
  ASSUME Sound, [Next]_vars
  PROVE  (clash => clash') /\ (revived => revived')
<1> DEFINE grows == (clash => clash') /\ (revived => revived')
<1>n. UNCHANGED net => grows
  BY DEF net, history
<1>h. UNCHANGED history => grows
  BY DEF history
<1>1. ASSUME NEW t \in Client, Accept(t)
      PROVE  grows
  BY <1>1, <1>h DEF Accept
<1>2. ASSUME NEW t \in Client, ClientRuns(t) \/ ClientInput(t)
      PROVE  grows
  <2>1. CASE Adopt(t) \/ TakesSeat(t) \/ JoinRoom(t) \/ LeaveRoom(t) \/ LeaveAndDrop(t)
    <3>1. CASE Adopt(t) \/ TakesSeat(t)
      <4>1. clash' = clash /\ \E b : revives_if(b)
        BY <3>1, Zenon DEF Adopt, TakesSeat
      <4> QED BY <4>1, Zenon DEF revives_if
    <3>2. CASE JoinRoom(t)
      BY <3>2 DEF JoinRoom, clashes_if
    <3>3. CASE LeaveRoom(t)
      BY <3>3 DEF LeaveRoom, FindsRoom, clashes_if
    <3>4. CASE LeaveAndDrop(t)
      BY <3>4 DEF LeaveAndDrop, FindsRoom, clashes_if
    <3> QED BY <2>1, <3>1, <3>2, <3>3, <3>4
  <2>2. CASE RemovePlayer(t) \/ Removed(t) \/ Kick(t)
    BY <1>h, <1>n, <2>2, Zenon DEF RemovePlayer, Removed, Kick, close, clashes_if
  <2> QED BY <1>2, <1>n, <2>1, <2>2, Zenon
       DEF ClientRuns, ClientInput, FindActive, Kicked, FindDisconnected, TakeNickname, Rejoin,
           Resumed, EnterLoop, Loop, Joined, WakeOpponent, EnterWait, Left, Woken, ReceiveLogin,
           Resume, RefuseResume, LobbyInput, WaitTimesOut, RoomInput, Crash
<1>3. ASSUME NEW g \in Game, GameRuns(g) \/ GameInput(g)
      PROVE  grows
  <2>1. CASE ResetBegins(g)
    BY <2>1 DEF ResetBegins, clashes_if
  <2> QED BY <1>3, <1>n, <2>1, Zenon
       DEF GameRuns, GameInput, StartGame, LoopHead, PauseEnds, PollBegins, PollSeat, PollReads,
           IdleBack, PollLoses, Timeout, Expel, Sync, SelectNothing, InputBegins, InputCrashes,
           InputPlays, PauseRoom, ResetPasses, ReleaseSeat, VacateRoom, ClearSeats, PauseExpires,
           SelectReady, SelectFindsIdle, InputEnds, InputFails, Crash
<1>4. CASE UNCHANGED vars
  BY <1>4, <1>n DEF vars
<1> QED BY <1>1, <1>2, <1>3, <1>4 DEF Next

-----------------------------------------------------------------------------
(* The tables agree                                                          *)

\* In a room that is being reset the seats behind the one the loop is at agree as before,
\* and the players in front of it have left; then nobody is in it.
ResetAgrees(g) ==
  LET r == gt[g].room
  IN  /\ gt[g].pc \in {"pass", "release"} =>
           /\ \A p \in Slot : room_id[p] = r => \E i \in Seat : i >= gt[g].at /\ seat[r][i] = p
           /\ \A i \in Seat : i >= gt[g].at /\ seat[r][i] # None =>
                /\ state[seat[r][i]] = "IN_GAME"
                /\ room_id[seat[r][i]] = r
                /\ \A j \in Seat : seat[r][j] = seat[r][i] => j = i
      /\ gt[g].pc \in {"vacate", "clear"} => \A p \in Slot : room_id[p] # r
      /\ gt[g].pc = "clear" => seat_count[r] = 0

\* The room a call of lobby.c works on is the one its player is in, or is to be in, and
\* nobody resets it.
CallAgrees(t) ==
  /\ ~BeingReset(ct[t].room)
  /\ ct[t].pc \in {"leaving", "removing"} => ct[t].room = room_id[ct[t].slot]
  /\ ct[t].pc = "joining" => room_id[ct[t].slot] = None

Consistent ==
  /\ \A r \in Room : ~BeingReset(r) => RoomAgrees(r)
  /\ \A p \in Slot : PlayerAgrees(p)
  /\ \A g \in Game : gt[g].pc \in InReset => ResetAgrees(g)
  /\ \A t \in Client : Calling(t) => CallAgrees(t)

sitting == <<state, room_id, seat, seat_count>>

\* No reset begins, goes on or ends, and no call of lobby.c begins.
ResetsStay == \A g \in Game :
  gt[g].pc \in InReset \/ gt'[g].pc \in InReset => gt'[g] = gt[g]
CallsStay  == \A u \in Client : Calling(u)' => Calling(u) /\ ct'[u] = ct[u]
NoCalls    == \A u \in Client : ~Calling(u)

LEMMA SameResets == ResetsStay => \A r : BeingReset(r)' <=> BeingReset(r)
BY DEF ResetsStay, BeingReset

LEMMA SameAgreement ==
  ASSUME Consistent, UNCHANGED sitting, ResetsStay, CallsStay
  PROVE  Consistent'
<1>0. \A r : BeingReset(r)' <=> BeingReset(r)
  BY SameResets
<1>1. \A r \in Room : ~BeingReset(r)' => RoomAgrees(r)'
  BY <1>0 DEF Consistent, RoomAgrees, sitting
<1>2. \A p \in Slot : PlayerAgrees(p)'
  BY DEF Consistent, PlayerAgrees, sitting
<1>3. \A g \in Game : gt'[g].pc \in InReset => ResetAgrees(g)'
  BY DEF Consistent, ResetAgrees, sitting, ResetsStay
<1>4. \A t \in Client : Calling(t)' => CallAgrees(t)'
  BY <1>0 DEF Consistent, CallsStay, CallAgrees, sitting
<1> QED BY <1>1, <1>2, <1>3, <1>4 DEF Consistent

\* Who is in no room sits on no seat that counts, and who is in one is IN_GAME.
LEMMA InRoomIsInGame ==
  ASSUME Sound, Consistent, NEW p \in Slot
  PROVE  /\ room_id[p] # None => state[p] = "IN_GAME"
         /\ \A r \in Room : room_id[p] # r /\ ~BeingReset(r) => \A i \in Seat : seat[r][i] # p
<1>1. p # None
  BY NoneIsNobody
<1>2. ASSUME NEW r \in Room, room_id[p] # r, ~BeingReset(r), NEW i \in Seat
      PROVE  seat[r][i] # p
  BY <1>1, <1>2 DEF Consistent, RoomAgrees
<1>3. ASSUME room_id[p] # None
      PROVE  state[p] = "IN_GAME"
  <2>1. room_id[p] \in Room
    BY <1>3 DEF Sound, TablesTyped, RoomsTyped
  <2>2. CASE ~BeingReset(room_id[p])
    BY <1>1, <1>3, <2>1, <2>2 DEF Consistent, PlayerAgrees, RoomAgrees
  <2>3. CASE BeingReset(room_id[p])
    <3>1. PICK g \in Game : gt[g].pc \in InReset /\ gt[g].room = room_id[p]
      BY <2>3 DEF BeingReset
    <3> QED BY <1>1, <3>1 DEF Consistent, ResetAgrees, InReset
  <2> QED BY <2>2, <2>3
<1> QED BY <1>2, <1>3

\* A player's own change does not concern a reset of a room that it is not in.
LEMMA ResetUntouched ==
  ASSUME Sound, Consistent, ResetsStay, NEW g \in Game, gt[g].pc \in InReset, NEW p \in Slot,
         room_id[p] # gt[g].room, room_id'[p] # gt[g].room,
         seat'[gt[g].room] = seat[gt[g].room], seat_count'[gt[g].room] = seat_count[gt[g].room],
         \A q \in Slot : q # p => state'[q] = state[q] /\ room_id'[q] = room_id[q]
  PROVE  ResetAgrees(g)'
<1> DEFINE r == gt[g].room
<1>1. gt'[g] = gt[g] /\ ResetAgrees(g) /\ r \in Room
  BY DEF ResetsStay, Consistent, Sound, Games, GameDefined, InReset
<1>2. \A i \in Seat : seat[r][i] # None => seat[r][i] \in Slot
  BY <1>1 DEF Sound, TablesTyped, RoomsTyped
<1>3. \A i \in Seat : seat'[r][i] = seat[r][i]
  OBVIOUS
<1>4. \A q \in Slot : room_id'[q] = r <=> room_id[q] = r
  OBVIOUS
<1> HIDE DEF r
<1>5. ASSUME gt[g].pc \in {"pass", "release"}, NEW i \in Seat, i >= gt[g].at, seat[r][i] # None
      PROVE  /\ state'[seat[r][i]] = "IN_GAME"
             /\ room_id'[seat[r][i]] = r
             /\ \A j \in Seat : seat[r][j] = seat[r][i] => j = i
  BY <1>1, <1>2, <1>5 DEF ResetAgrees, r
<1>6. ASSUME gt[g].pc \in {"pass", "release"}, NEW q \in Slot, room_id'[q] = r
      PROVE  \E i \in Seat : i >= gt[g].at /\ seat[r][i] = q
  BY <1>1, <1>4, <1>6 DEF ResetAgrees, r
<1>7. /\ gt[g].pc \in {"vacate", "clear"} => \A q \in Slot : room_id'[q] # r
      /\ gt[g].pc = "clear" => seat_count'[r] = 0
  BY <1>1, <1>4 DEF ResetAgrees, r
<1> QED BY <1>1, <1>3, <1>5, <1>6, <1>7 DEF ResetAgrees, r

\* How a change of one player's room keeps all in agreement.
LEMMA OneMovesConsistent ==
  ASSUME Sound, Consistent, ResetsStay, NoCalls', NEW p \in Slot,
         \A r \in Room : ~BeingReset(r) => RoomAgrees(r)',
         \A q \in Slot : PlayerAgrees(q)',
         ~BeingReset(room_id[p]), ~BeingReset(room_id'[p]),
         \A r \in Room : BeingReset(r) => seat'[r] = seat[r] /\ seat_count'[r] = seat_count[r],
         \A q \in Slot : q # p => state'[q] = state[q] /\ room_id'[q] = room_id[q]
  PROVE  Consistent'
<1>1. \A r \in Room : ~BeingReset(r)' => RoomAgrees(r)'
  BY SameResets
<1>2. ASSUME NEW g \in Game, gt'[g].pc \in InReset
      PROVE  ResetAgrees(g)'
  <2>1. gt'[g] = gt[g] /\ gt[g].pc \in InReset /\ gt[g].room \in Room /\ BeingReset(gt[g].room)
    BY <1>2 DEF ResetsStay, Sound, Games, GameDefined, InReset, BeingReset
  <2> QED BY <2>1, ResetUntouched
<1> QED BY <1>1, <1>2 DEF Consistent, NoCalls

LEMMA NobodyResetsNone == Sound => ~BeingReset(None)
BY NoneIsNobody DEF Sound, Games, GameDefined, BeingReset, InReset

LEMMA AddConsistent ==
  ASSUME Sound, Consistent, ResetsStay, NoCalls', NEW s, NEW p \in Slot, add_player(s, p)
  PROVE  Consistent'
<1> USE SeatSet, NoneIsNobody
<1>1. /\ state' = [state EXCEPT ![p] = "LOBBY"] /\ room_id' = [room_id EXCEPT ![p] = None]
      /\ UNCHANGED rooms /\ state[p] = "LOBBY"
  BY DEF add_player, First, FreeSlot
<1>2. room_id[p] = None
  BY <1>1, InRoomIsInGame
<1>3. /\ state' = state /\ room_id' = room_id /\ seat' = seat /\ seat_count' = seat_count
  BY <1>1, <1>2 DEF rooms, Sound, TablesTyped, RoomsTyped
<1>4. CallsStay
  BY DEF CallsStay, NoCalls
<1> QED BY <1>3, <1>4, SameAgreement DEF sitting

LEMMA RemoveConsistent ==
  ASSUME Sound, Consistent, ResetsStay, NoCalls', NEW p \in Slot, remove_player(p),
         socket[p] = None \/ room_id[p] = None
  PROVE  Consistent'
<1> USE SeatSet, NoneIsNobody
<1>0. CallsStay
  BY DEF CallsStay, NoCalls
<1>1. CASE socket[p] = None
  BY <1>0, <1>1, SameAgreement DEF remove_player, tables, players, rooms, sitting
<1>2. CASE socket[p] # None
  <2>1. /\ state' = [state EXCEPT ![p] = "LOBBY"] /\ room_id' = [room_id EXCEPT ![p] = None]
        /\ UNCHANGED rooms /\ room_id[p] = None
    BY <1>2 DEF remove_player, removed_from
  <2>2. state[p] # "IN_GAME" /\ state[p] \in {"LOBBY", "IN_GAME"}
    BY <2>1 DEF Consistent, PlayerAgrees, Sound, TablesTyped, RoomsTyped
  <2>3. /\ state' = state /\ room_id' = room_id /\ seat' = seat /\ seat_count' = seat_count
    BY <2>1, <2>2 DEF rooms, Sound, TablesTyped, RoomsTyped
  <2> QED BY <1>0, <2>3, SameAgreement DEF sitting
<1> QED BY <1>1, <1>2

\* Who leaves a room, with or without the server.
LEMMA LeavingConsistent ==
  ASSUME Sound, Consistent, ResetsStay, NoCalls', NEW p \in Slot, NEW r \in Room,
         room_id[p] = r, ~BeingReset(r), remove_player_from_room(r, p),
         state' = [state EXCEPT ![p] = "LOBBY"], room_id' = [room_id EXCEPT ![p] = None]
  PROVE  Consistent'
<1>0. RoomsTyped /\ r # None /\ ~BeingReset(None)
  BY NobodyResetsNone, NoneIsNobody DEF Sound, TablesTyped
<1>1. /\ \A q \in Room : RoomAgrees(q) => RoomAgrees(q)'
      /\ \A q \in Slot : PlayerAgrees(q)'
  <2>1. RoomAgrees(r) /\ \A q \in Slot : PlayerAgrees(q)
    BY DEF Consistent
  <2> QED BY <1>0, <2>1, LeavingAgrees
<1>2. \A q \in Room : q # r => seat'[q] = seat[q] /\ seat_count'[q] = seat_count[q]
  BY <1>0 DEF remove_player_from_room, RoomsTyped
<1>3. /\ room_id'[p] = None
      /\ \A q \in Slot : q # p => state'[q] = state[q] /\ room_id'[q] = room_id[q]
  BY <1>0 DEF RoomsTyped
<1>4. \A q \in Room : ~BeingReset(q) => RoomAgrees(q)'
  BY <1>1 DEF Consistent
<1>5. \A q \in Room : BeingReset(q) => seat'[q] = seat[q] /\ seat_count'[q] = seat_count[q]
  BY <1>2
<1> QED BY <1>0, <1>1, <1>3, <1>4, <1>5, OneMovesConsistent

LEMMA JoiningConsistent ==
  ASSUME Sound, Consistent, ResetsStay, NoCalls', NEW p \in Slot, NEW r \in Room,
         room_id[p] = None, ~BeingReset(r), takes_seat(r, p), seat_count[r] < MAX_PLAYERS_PER_ROOM
  PROVE  Consistent'
<1>0. RoomsTyped /\ ~BeingReset(None)
  BY NobodyResetsNone DEF Sound, TablesTyped
<1>1. /\ \A q \in Room : RoomAgrees(q) => RoomAgrees(q)'
      /\ \A q \in Slot : PlayerAgrees(q)'
  <2>1. RoomAgrees(r) /\ \A q \in Slot : PlayerAgrees(q)
    BY DEF Consistent
  <2> QED BY <1>0, <2>1, JoinAgrees
<1>2. /\ \A q \in Room : q # r => seat'[q] = seat[q] /\ seat_count'[q] = seat_count[q]
      /\ room_id'[p] = r
      /\ \A q \in Slot : q # p => state'[q] = state[q] /\ room_id'[q] = room_id[q]
  BY <1>0, JoinTyped
<1>4. \A q \in Room : ~BeingReset(q) => RoomAgrees(q)'
  BY <1>1 DEF Consistent
<1>5. \A q \in Room : BeingReset(q) => seat'[q] = seat[q] /\ seat_count'[q] = seat_count[q]
  BY <1>2
<1> QED BY <1>0, <1>1, <1>2, <1>4, <1>5, OneMovesConsistent

LEMMA ClientResetsStay ==
  ASSUME Sound, NEW t \in Client, ClientRuns(t) \/ ClientInput(t)
  PROVE  ResetsStay
BY ClientGames DEF ResetsStay, InReset

\* The thread that moves apart, calls of lobby.c go on as they were.
LEMMA ClientCallsStay ==
  ASSUME Sound, NEW t \in Client, ClientRuns(t) \/ ClientInput(t)
  PROVE  /\ \A u \in Client \ {t} : Calling(u)' => Calling(u) /\ ct'[u] = ct[u]
         /\ ~Calling(t)' => CallsStay
         /\ (LobbyFree \/ Calling(t)) /\ ~Calling(t)' => NoCalls'
<1>1. ASSUME NEW u \in Client \ {t}, Calling(u)'
      PROVE  Calling(u) /\ ct'[u] = ct[u]
  <2>1. CASE ct' = ct
    BY <1>1, <2>1 DEF Calling
  <2>2. CASE ct' # ct
    BY <1>1, <2>2, ClientLands, CallersStay DEF Lands, Proceeds, Sound
  <2> QED BY <2>1, <2>2
<1>2. ~Calling(t)' => CallsStay
  BY <1>1 DEF CallsStay
<1>3. (LobbyFree \/ Calling(t)) /\ ~Calling(t)' => NoCalls'
  BY <1>1 DEF NoCalls, LobbyFree, Calling, Sound, Locked
<1> QED BY <1>1, <1>2, <1>3

\* A call begins.
LEMMA CallBegins ==
  ASSUME Sound, Consistent, NEW t \in Client, ClientRuns(t) \/ ClientInput(t), ct[t].pc # "none",
         UNCHANGED tables, NEW pc \in InLobbyCall, NEW r \in Room, InCallOn(t, pc, r),
         pc = "removing" => ct[t].pc \in Removers,
         ~BeingReset(r), pc \in {"leaving", "removing"} => r = room_id[ct[t].slot],
         pc = "joining" => room_id[ct[t].slot] = None
  PROVE  Consistent'
<1>1. ct'[t].pc = pc /\ ct'[t].room = r /\ ct'[t].slot = ct[t].slot
  BY InCallProceeds DEF Sound, KeepsSlot
<1>2. UNCHANGED sitting /\ ResetsStay
  BY ClientResetsStay DEF tables, players, rooms, sitting
<1>3. \A q : BeingReset(q)' <=> BeingReset(q)
  BY <1>2, SameResets
<1>4. ASSUME NEW u \in Client, Calling(u)'
      PROVE  CallAgrees(u)'
  <2>1. CASE u = t
    BY <1>1, <1>2, <1>3, <2>1 DEF CallAgrees, sitting
  <2>2. CASE u # t
    <3>1. Calling(u) /\ ct'[u] = ct[u]
      BY <1>4, <2>2, ClientCallsStay
    <3> QED BY <1>2, <1>3, <3>1 DEF Consistent, CallAgrees, sitting
  <2> QED BY <2>1, <2>2
<1>5. \A q \in Room : ~BeingReset(q)' => RoomAgrees(q)'
  BY <1>2, <1>3 DEF Consistent, RoomAgrees, sitting
<1>6. \A p \in Slot : PlayerAgrees(p)'
  BY <1>2 DEF Consistent, PlayerAgrees, sitting
<1>7. \A g \in Game : gt'[g].pc \in InReset => ResetAgrees(g)'
  BY <1>2 DEF Consistent, ResetAgrees, sitting, ResetsStay
<1> QED BY <1>4, <1>5, <1>6, <1>7 DEF Consistent


LEMMA ClientConsistent ==
  ASSUME Sound, Consistent, NEW t \in Client, ClientRuns(t) \/ ClientInput(t), ~clash'
  PROVE  Consistent'
<1> DEFINE c == ct[t]
<1>0. /\ Clients(ct) /\ RoomsTyped /\ c \in ClientRecord /\ ClientDefined(c) /\ ResetsStay
      /\ c.pc # "none" => c.slot \in Slot
  BY ClientResetsStay DEF Sound, Clients, ClientDefined, TablesTyped
<1>1. CASE JoinRoom(t)
  <2>1. PICK r \in Room :
          /\ InCallOn(t, "joining", r)
          /\ clashes_if(BeingReset(r) \/ room_id[c.slot] # None)
    BY <1>1, Zenon DEF JoinRoom
  <2>2. UNCHANGED tables /\ c.pc = "lobby"
    BY <1>1 DEF JoinRoom, At
  <2>3. ~BeingReset(r) /\ room_id[c.slot] = None
    BY <2>1 DEF clashes_if
  <2> QED BY <1>0, <2>1, <2>2, <2>3, CallBegins DEF InLobbyCall
<1>2. CASE FindsRoom(t) /\ UNCHANGED tables /\ c.pc \in {"timedout", "lobby", "leave"}
  <2>1. InCallOn(t, "leaving", room_id[c.slot]) /\ CanLeave(c.slot) /\ ~BeingReset(room_id[c.slot])
    BY <1>2 DEF FindsRoom, clashes_if
  <2>2. room_id[c.slot] \in Room /\ c.pc # "none"
    BY <1>0, <1>2, <2>1 DEF CanLeave, RoomsTyped
  <2> QED BY <1>0, <1>2, <2>1, <2>2, CallBegins DEF InLobbyCall
<1>3. CASE RemovePlayer(t)
  <2>1. c.pc \in Removers /\ c.pc # "none" /\ c.pc \notin InLobbyCall /\ c.slot \in Slot /\ LobbyFree
    BY <1>0, <1>3 DEF RemovePlayer, At, Removers, InLobbyCall
  <2>2. CASE /\ InCallOn(t, "removing", room_id[c.slot]) /\ UNCHANGED tables
             /\ clashes_if(BeingReset(room_id[c.slot])) /\ room_id[c.slot] # None
    <3>1. room_id[c.slot] \in Room /\ ~BeingReset(room_id[c.slot])
      BY <1>0, <2>1, <2>2 DEF RoomsTyped, clashes_if
    <3> QED BY <1>0, <2>1, <2>2, <3>1, CallBegins DEF InLobbyCall
  <2>3. CASE /\ remove_player(c.slot) /\ AfterRemoval(t, c.pc)
             /\ (socket[c.slot] = None \/ room_id[c.slot] = None)
    <3>1. c.pc = "adopted" => c.peer \in Slot
      BY <1>0 DEF ClientDefined, UsesPeer
    <3>2. ct'[t].pc \in {"none", "loop", "rejoin"}
      BY <1>0, <2>1, <2>3, <3>1, AfterRemovalProceeds
    <3>3. NoCalls'
      BY <2>1, <3>2, ClientCallsStay DEF Calling, InLobbyCall
    <3> QED BY <1>0, <2>1, <2>3, <3>3, RemoveConsistent
  <2>4. \/ /\ InCallOn(t, "removing", room_id[c.slot]) /\ UNCHANGED tables
           /\ clashes_if(BeingReset(room_id[c.slot])) /\ room_id[c.slot] # None
        \/ /\ remove_player(c.slot) /\ AfterRemoval(t, c.pc)
           /\ (socket[c.slot] = None \/ room_id[c.slot] = None)
    BY <1>3, Zenon DEF RemovePlayer
  <2> QED BY <2>2, <2>3, <2>4
<1>4. CASE Calling(t)
  <2>1. (Removed(t) \/ TakesSeat(t) \/ Left(t)) /\ ~Calling(t)'
    BY <1>4, CallEnds
  <2>2. NoCalls' /\ CallAgrees(t) /\ c.slot \in Slot /\ c.room \in Room
    BY <1>0, <1>4, <2>1, ClientCallsStay DEF Consistent, Calling, InLobbyCall, ClientDefined, UsesRoom
  <2>3. CASE Removed(t)
    <3>1. c.pc = "removing" /\ removed_from(c.room, c.slot)
      BY <2>3 DEF Removed, At
    <3>2. /\ remove_player_from_room(c.room, c.slot)
          /\ state' = [state EXCEPT ![c.slot] = "LOBBY"]
          /\ room_id' = [room_id EXCEPT ![c.slot] = None]
      BY <2>2, <3>1, NoneIsNobody DEF removed_from
    <3> QED BY <1>0, <2>2, <3>1, <3>2, LeavingConsistent DEF CallAgrees
  <2>4. CASE TakesSeat(t)
    <3>1. c.pc = "joining" /\ takes_seat(c.room, c.slot)
      BY <2>4 DEF TakesSeat, At
    <3>2. seat_count[c.room] < MAX_PLAYERS_PER_ROOM
      BY <3>1 DEF Sound, Locked, Fits
    <3> QED BY <1>0, <2>2, <3>1, <3>2, JoiningConsistent DEF CallAgrees
  <2>5. CASE Left(t)
    <3>1. c.pc = "leaving" /\ leaves(c.room, c.slot)
      BY <2>5 DEF Left, At
    <3> QED BY <1>0, <2>2, <3>1, LeavingConsistent DEF CallAgrees, leaves
  <2> QED BY <2>1, <2>3, <2>4, <2>5
<1>5. CASE ~Calling(t) /\ ~JoinRoom(t) /\ ~RemovePlayer(t) /\ ~LeaveRoom(t) /\ ~LeaveAndDrop(t)
  <2>1. ~Removed(t) /\ ~TakesSeat(t) /\ ~Left(t)
    BY <1>5 DEF Removed, TakesSeat, Left, At, Calling, InLobbyCall
  <2>2. UNCHANGED sitting
    <3>1. UNCHANGED tables => UNCHANGED sitting
      BY DEF tables, players, rooms, sitting
    <3>2. CASE Kicked(t) \/ TakeNickname(t) \/ Adopt(t)
      BY <3>2, Zenon DEF Kicked, TakeNickname, Adopt, handle_player_disconnect, rooms, sitting
    <3>3. CASE Resume(t) \/ RefuseResume(t)
      BY <3>3, Zenon DEF Resume, RefuseResume, set_room_state, players, sitting
    <3> QED BY <1>5, <2>1, <3>1, <3>2, <3>3, Zenon
         DEF ClientRuns, ClientInput, FindActive, Kick, FindDisconnected, Rejoin, Resumed,
             EnterLoop, Loop, Joined, WakeOpponent, EnterWait, Woken, ReceiveLogin, LobbyInput,
             WaitTimesOut, RoomInput, Crash
  <2>3. ~Calling(t)'
    <3>1. CASE ct' = ct
      BY <1>5, <3>1 DEF Calling
    <3>2. CASE ct' # ct
      BY <1>5, <3>2, ClientLands DEF Lands, Calls
    <3> QED BY <3>1, <3>2
  <2> QED BY <1>0, <2>2, <2>3, ClientCallsStay, SameAgreement
<1>6. CASE LeaveRoom(t) \/ LeaveAndDrop(t)
  <2>1. UNCHANGED tables /\ c.pc \in {"timedout", "lobby", "leave"} /\ (FindsRoom(t) \/ ToDrop(t))
    BY <1>6 DEF LeaveRoom, LeaveAndDrop, At
  <2>2. CASE ToDrop(t)
    <3>1. c.pc # "none"
      BY <2>1
    <3>2. ~Calling(t)'
      BY <1>0, <2>2, <3>1, ToDropProceeds DEF Calling, InLobbyCall
    <3>3. UNCHANGED sitting
      BY <2>1 DEF tables, players, rooms, sitting
    <3> QED BY <1>0, <3>2, <3>3, ClientCallsStay, SameAgreement
  <2> QED BY <1>2, <2>1, <2>2
<1> QED BY <1>1, <1>3, <1>4, <1>5, <1>6

-----------------------------------------------------------------------------
\* A game thread outside the reset takes nobody's room or seat.
LEMMA GameKeepsRooms ==
  ASSUME NEW g \in Game, GameRuns(g) \/ GameInput(g),
         ~ReleaseSeat(g), ~VacateRoom(g), ~ClearSeats(g)
  PROVE  UNCHANGED sitting
<1>1. UNCHANGED tables => UNCHANGED sitting
  BY DEF tables, players, rooms, sitting
<1>2. ASSUME NEW r, NEW s, set_room_state(r, s)
      PROVE  UNCHANGED sitting
  BY <1>2 DEF set_room_state, players, sitting
<1>3. ASSUME NEW p, handle_player_disconnect(p)
      PROVE  UNCHANGED sitting
  BY <1>3 DEF handle_player_disconnect, rooms, sitting
<1>4. CASE IdleBack(g) \/ SelectFindsIdle(g) \/ PauseRoom(g)
  BY <1>2, <1>4, Zenon DEF IdleBack, SelectFindsIdle, PauseRoom
<1>5. CASE PollLoses(g) \/ InputFails(g) \/ Expel(g)
  BY <1>1, <1>3, <1>5, Zenon DEF PollLoses, InputFails, Expel, Crash
<1>6. CASE ~(\/ IdleBack(g) \/ SelectFindsIdle(g) \/ PauseRoom(g)
             \/ PollLoses(g) \/ InputFails(g) \/ Expel(g))
  <2>1. UNCHANGED tables
    BY <1>6, Zenon
       DEF GameRuns, GameInput, StartGame, LoopHead, PauseEnds, PollBegins, PollSeat, PollReads,
           Timeout, Sync, SelectNothing, InputBegins, InputCrashes, InputPlays, ResetBegins,
           ResetPasses, PauseExpires, SelectReady, InputEnds, Crash
  <2> QED BY <1>1, <2>1
<1> QED BY <1>4, <1>5, <1>6

LEMMA GameCallsStay ==
  ASSUME Sound, NEW g \in Game, GameRuns(g) \/ GameInput(g)
  PROVE  CallsStay
<1>1. \A u \in Client : ct[u] \in ClientRecord /\ Follows(ct[u], ct'[u])
  BY GameLeaves DEF Sound, Clients
<1>2. ASSUME NEW u \in Client, Calling(u)'
      PROVE  Calling(u) /\ ct'[u] = ct[u]
  <2>1. /\ ct'[u].pc # ct[u].pc => ct'[u].pc \in {"loop", "woken"}
        /\ ct'[u].pc = ct[u].pc => ct'[u] = ct[u]
    BY <1>1, FollowsKeeps
  <2> QED BY <1>2, <2>1 DEF Calling, InLobbyCall
<1> QED BY <1>2 DEF CallsStay

\* The other rooms, and the other game threads' resets, when one's reset goes on in r.
LEMMA OtherResets ==
  ASSUME Sound, NEW g \in Game, Plays(g), Holding(g) \/ RoomFree(RoomOf(g)),
         NEW h \in Game, h # g, gt[h].pc \in InReset
  PROVE  gt'[h] = gt[h] /\ gt[h].room # RoomOf(g)
BY DEF Plays, RoomFree, RoomOf, Holding, Sound, Locked

\* What a step of the reset of r does: it keeps r's state of being reset, or begins it.
LEMMA ResetGoesOn ==
  ASSUME Sound, NEW g \in Game, GameLands(g), gt'[g].pc \in InReset
  PROVE  /\ gt'[g].room = RoomOf(g) /\ RoomOf(g) \in Room
         /\ Holding(g) \/ RoomFree(RoomOf(g))
         /\ \A q : BeingReset(q)' <=> q = RoomOf(g) \/ BeingReset(q)
<1>1. Plays(g) /\ (Holding(g) \/ RoomFree(RoomOf(g))) /\ gt'[g].room = RoomOf(g)
  BY DEF GameLands, Plays, Holding
<1>2. RoomOf(g) \in Room
  BY <1>1 DEF Plays, Games, GameDefined, InReset
<1>3. gt[g].pc \in InReset => BeingReset(RoomOf(g))
  BY DEF BeingReset, RoomOf
<1> QED BY <1>1, <1>2, <1>3 DEF BeingReset, Plays, RoomOf

LEMMA ResetBeginsConsistent ==
  ASSUME Sound, Consistent, NEW g \in Game, ResetBegins(g), ~clash'
  PROVE  Consistent'
<1> DEFINE r == RoomOf(g)
<1>1. /\ gt[g].pc = "reset" /\ RoomFree(r) /\ ~InCall(r)
      /\ gt' = [gt EXCEPT ![g] = [NoGame EXCEPT !.pc = "pass", !.room = r, !.over = TRUE]]
      /\ UNCHANGED <<tables, ct>>
  BY DEF ResetBegins, GameAt, clashes_if
<1>2. GameLands(g) /\ gt'[g].pc = "pass" /\ gt'[g].at = 0
  <2>1. gt'[g].pc = "pass" /\ gt'[g].at = 0
    BY <1>1 DEF NoGame, Sound, Games
  <2>2. gt' # gt
    BY <1>1, <2>1
  <2> QED BY <2>1, <2>2, GamePlays DEF GameRuns
<1>3. /\ gt'[g].room = r /\ r \in Room
      /\ \A q : BeingReset(q)' <=> q = r \/ BeingReset(q)
  BY <1>2, ResetGoesOn DEF InReset
<1>4. UNCHANGED sitting
  BY <1>1 DEF tables, players, rooms, sitting
<1> HIDE DEF r
<1>5. ~BeingReset(r)
  BY <1>1 DEF RoomFree, BeingReset
<1>6. ResetAgrees(g)'
  <2>1. RoomAgrees(r) /\ \A p \in Slot : PlayerAgrees(p)
    BY <1>3, <1>5 DEF Consistent
  <2>2. ASSUME NEW p \in Slot, room_id[p] = r
        PROVE  \E i \in Seat : i >= 0 /\ seat[r][i] = p
    BY <1>3, <2>1, <2>2, NoneIsNobody, SeatSet DEF PlayerAgrees
  <2>3. ASSUME NEW i \in Seat, seat[r][i] # None
        PROVE  /\ state[seat[r][i]] = "IN_GAME" /\ room_id[seat[r][i]] = r
               /\ \A j \in Seat : seat[r][j] = seat[r][i] => j = i
    BY <2>1, <2>3 DEF RoomAgrees
  <2> QED BY <1>2, <1>3, <1>4, <2>2, <2>3 DEF ResetAgrees, sitting
<1>7. ASSUME NEW h \in Game, h # g, gt'[h].pc \in InReset
      PROVE  ResetAgrees(h)'
  <2>1. gt'[h] = gt[h]
    BY <1>1, <1>7 DEF Sound, Games
  <2> QED BY <1>4, <1>7, <2>1 DEF Consistent, ResetAgrees, sitting
<1>8. ASSUME NEW t \in Client, Calling(t)'
      PROVE  CallAgrees(t)'
  <2>1. Calling(t) /\ ct' = ct /\ ct[t].room # r
    BY <1>1, <1>8 DEF Calling, InCall
  <2> QED BY <1>3, <1>4, <2>1 DEF Consistent, CallAgrees, sitting
<1>9. /\ \A q \in Room : ~BeingReset(q)' => RoomAgrees(q)'
      /\ \A p \in Slot : PlayerAgrees(p)'
  BY <1>3, <1>4 DEF Consistent, RoomAgrees, PlayerAgrees, sitting
<1> QED BY <1>6, <1>7, <1>8, <1>9 DEF Consistent


\* The reset passes a seat, releasing it if there is a player on it.
LEMMA ResetPassesConsistent ==
  ASSUME Sound, Consistent, NEW g \in Game, ResetPasses(g) \/ ReleaseSeat(g), gt' # gt
  PROVE  Consistent'
<1> USE SeatSet, NoneIsNobody
<1> DEFINE r == RoomOf(g)
           i == gt[g].at
           p == seat[r][i]
<1>1. /\ gt[g] \in GameRecord /\ gt[g].pc \in {"pass", "release"} /\ gt[g].room = r /\ r \in Room
      /\ i \in Seat /\ ResetAgrees(g) /\ p \in Slot \cup {None} /\ BeingReset(r)
  BY DEF ResetPasses, ReleaseSeat, GameAt, RoomOf, Sound, Games, GameDefined, GameRecord,
         Consistent, InReset, TablesTyped, RoomsTyped, BeingReset
<1>2. GameLands(g) /\ CallsStay /\ Plays(g) /\ Holding(g)
  BY <1>1, GamePlays, GameCallsStay DEF GameRuns, GameLands, Holding, InReset
<1>3. \/ GoTo(g, "release") /\ UNCHANGED sitting
      \/ gt' = [gt EXCEPT ![g] = NextPass(@)] /\ p = None /\ UNCHANGED sitting
      \/ /\ gt' = [gt EXCEPT ![g] = NextPass(@)] /\ p \in Slot
         /\ state' = [state EXCEPT ![p] = "LOBBY"] /\ room_id' = [room_id EXCEPT ![p] = None]
         /\ seat' = seat /\ seat_count' = seat_count
  <2>1. UNCHANGED tables => UNCHANGED sitting
    BY DEF tables, players, rooms, sitting
  <2>2. CASE ResetPasses(g)
    BY <2>1, <2>2, Zenon DEF ResetPasses, Sitting
  <2>3. CASE ReleaseSeat(g)
    BY <1>1, <2>3, Zenon DEF ReleaseSeat, Sitting, Crash, rooms
  <2> QED BY <2>2, <2>3
<1>4. /\ gt'[g].pc \in InReset /\ gt'[g].room = r
      /\ GoTo(g, "release") => gt'[g].pc = "release" /\ gt'[g].at = i
      /\ gt' = [gt EXCEPT ![g] = NextPass(@)] =>
           IF i = 0 THEN gt'[g].pc = "pass" /\ gt'[g].at = 1 ELSE gt'[g].pc = "vacate"
  <2>1. CASE GoTo(g, "release")
    <3>1. gt'[g] = [gt[g] EXCEPT !.pc = "release"]
      BY <2>1 DEF GoTo, Sound, Games
    <3>2. gt'[g].pc = "release" /\ gt'[g].at = i /\ gt'[g].room = r
      BY <1>1, <3>1 DEF GameRecord
    <3>3. gt' # [gt EXCEPT ![g] = NextPass(@)]
      <4>1. NextPass(gt[g]).pc # "release"
        BY <1>1, NextPassTyped
      <4> QED BY <3>2, <4>1 DEF Sound, Games
    <3> QED BY <3>2, <3>3 DEF InReset
  <2>2. CASE gt' = [gt EXCEPT ![g] = NextPass(@)]
    <3>1. gt'[g] = NextPass(gt[g])
      BY <2>2 DEF Sound, Games
    <3>2. /\ NextPass(gt[g]).room = r
          /\ NextPass(gt[g]).pc = IF i = 0 THEN "pass" ELSE "vacate"
          /\ NextPass(gt[g]).at = IF i = 0 THEN 1 ELSE 0
      BY <1>1, NextPassTyped
    <3>3. CASE GoTo(g, "release")
      BY <2>1, <3>3
    <3>4. CASE ~GoTo(g, "release")
      BY <3>1, <3>2, <3>4 DEF InReset
    <3> QED BY <3>3, <3>4
  <2> QED BY <1>3, <2>1, <2>2
<1>5. \A q : BeingReset(q)' <=> BeingReset(q)
  <2>1. \A q : BeingReset(q)' <=> q = r \/ BeingReset(q)
    BY <1>2, <1>4, ResetGoesOn
  <2> QED BY <1>1, <2>1
<1>6. \A h \in Game : h # g /\ gt'[h].pc \in InReset =>
        gt'[h] = gt[h] /\ gt[h].room # r /\ gt[h].room \in Room /\ ResetAgrees(h)
  <2>1. ASSUME NEW h \in Game, h # g, gt'[h].pc \in InReset
        PROVE  gt'[h] = gt[h] /\ gt[h].room # r /\ gt[h].room \in Room /\ ResetAgrees(h)
    <3>1. gt'[h] = gt[h] /\ gt[h].pc \in InReset
      BY <1>2, <2>1 DEF Plays
    <3>2. gt[h].room # r
      BY <1>2, <2>1, <3>1, OtherResets
    <3> QED BY <3>1, <3>2 DEF Consistent, Sound, Games, GameDefined, InReset
  <2> QED BY <2>1
<1> HIDE DEF r
<1>r. ASSUME NEW j \in Seat, j >= i, seat[r][j] # None
      PROVE  /\ seat[r][j] \in Slot /\ state[seat[r][j]] = "IN_GAME" /\ room_id[seat[r][j]] = r
             /\ \A k \in Seat : seat[r][k] = seat[r][j] => k = j
  BY <1>1, <1>r DEF ResetAgrees, Sound, TablesTyped, RoomsTyped
<1>s. ASSUME NEW q \in Slot, room_id[q] = r
      PROVE  \E j \in Seat : j >= i /\ seat[r][j] = q
  BY <1>1, <1>s DEF ResetAgrees
<1>7. CASE UNCHANGED sitting
  <2>1. ResetAgrees(g)'
    <3>1. CASE GoTo(g, "release")
      BY <1>1, <1>4, <1>7, <3>1 DEF ResetAgrees, sitting
    <3>2. CASE gt' = [gt EXCEPT ![g] = NextPass(@)] /\ p = None
      <4>1. \A q \in Slot : room_id[q] = r => i = 0 /\ seat[r][1] = q
        BY <1>1, <1>s, <3>2
      <4>2. CASE i = 0
        <5>1. gt'[g].pc = "pass" /\ gt'[g].at = 1 /\ gt'[g].room = r
          BY <1>4, <3>2, <4>2
        <5>2. \A j \in Seat : j >= 1 => j >= i
          BY <4>2
        <5> QED BY <1>7, <1>r, <4>1, <5>1, <5>2 DEF ResetAgrees, sitting
      <4>3. CASE i # 0
        <5>1. gt'[g].pc = "vacate" /\ gt'[g].room = r
          BY <1>4, <3>2, <4>3
        <5> QED BY <1>7, <4>1, <4>3, <5>1 DEF ResetAgrees, sitting
      <4> QED BY <4>2, <4>3
    <3>3. CASE p \in Slot /\ state' = [state EXCEPT ![p] = "LOBBY"]
      <4>1. state[p] = "IN_GAME" /\ state'[p] = "LOBBY"
        BY <1>1, <1>r, <3>3 DEF Sound, TablesTyped, RoomsTyped
      <4> QED BY <1>7, <4>1 DEF sitting
    <3> QED BY <1>3, <3>1, <3>2, <3>3
  <2>2. \A h \in Game : gt'[h].pc \in InReset => ResetAgrees(h)'
    BY <1>6, <1>7, <2>1 DEF ResetAgrees, sitting
  <2> QED BY <1>2, <1>5, <1>7, <2>2
       DEF Consistent, RoomAgrees, PlayerAgrees, CallAgrees, CallsStay, sitting
<1>8. CASE /\ gt' = [gt EXCEPT ![g] = NextPass(@)] /\ p \in Slot
           /\ state' = [state EXCEPT ![p] = "LOBBY"] /\ room_id' = [room_id EXCEPT ![p] = None]
           /\ seat' = seat /\ seat_count' = seat_count
  <2>1. /\ room_id[p] = r /\ \A k \in Seat : seat[r][k] = p => k = i
        /\ i \in Int /\ i >= i
    BY <1>1, <1>8, <1>r
  <2> HIDE DEF p
  <2>2. \A q \in Slot : /\ state'[q] = IF q = p THEN "LOBBY" ELSE state[q]
                        /\ room_id'[q] = IF q = p THEN None ELSE room_id[q]
    BY <1>8 DEF Sound, TablesTyped, RoomsTyped
  <2>3. \A q \in Room, k \in Seat : q # r /\ ~BeingReset(q) => seat[q][k] # p
    BY <1>8, <2>1, InRoomIsInGame
  <2>4. \A q \in Room, k \in Seat : seat[q][k] # None => seat[q][k] \in Slot
    BY DEF Sound, TablesTyped, RoomsTyped
  <2>5. ASSUME NEW q \in Room, ~BeingReset(q)'
        PROVE  RoomAgrees(q)'
    <3>1. q # r /\ ~BeingReset(q) /\ RoomAgrees(q)
      BY <1>1, <1>5, <2>5 DEF Consistent
    <3> QED BY <1>8, <2>2, <2>3, <2>4, <3>1 DEF RoomAgrees
  <2>6. ASSUME NEW q \in Slot
        PROVE  PlayerAgrees(q)'
    BY <1>8, <2>2 DEF Consistent, PlayerAgrees
  <2>7. ResetAgrees(g)'
    <3>1. \A q \in Slot : room_id'[q] = r => i = 0 /\ seat[r][1] = q
      <4>1. ASSUME NEW q \in Slot, room_id'[q] = r
            PROVE  i = 0 /\ seat[r][1] = q
        <5>1. q # p /\ room_id[q] = r
          BY <1>1, <2>2, <4>1
        <5>2. PICK j \in Seat : j >= i /\ seat[r][j] = q
          BY <1>s, <5>1
        <5>3. j # i
          BY <5>1, <5>2 DEF p
        <5> QED BY <1>1, <5>2, <5>3
      <4> QED BY <4>1
    <3>2. CASE i = 0
      <4>1. gt'[g].pc = "pass" /\ gt'[g].at = 1 /\ gt'[g].room = r
        BY <1>4, <1>8, <3>2
      <4>2. ASSUME NEW j \in Seat, j >= 1, seat[r][j] # None
            PROVE  /\ state'[seat[r][j]] = "IN_GAME" /\ room_id'[seat[r][j]] = r
                   /\ \A k \in Seat : seat[r][k] = seat[r][j] => k = j
        <5>1. seat[r][j] # p
          BY <2>1, <3>2, <4>2
        <5>2. j >= i
          BY <3>2, <4>2
        <5>3. /\ seat[r][j] \in Slot /\ state[seat[r][j]] = "IN_GAME" /\ room_id[seat[r][j]] = r
              /\ \A k \in Seat : seat[r][k] = seat[r][j] => k = j
          BY <1>r, <4>2, <5>2
        <5> QED BY <2>2, <5>1, <5>3
      <4>3. \A q \in Slot : room_id'[q] = r => \E j \in Seat : j >= 1 /\ seat[r][j] = q
        BY <3>1
      <4> QED BY <1>8, <4>1, <4>2, <4>3 DEF ResetAgrees
    <3>3. CASE i # 0
      <4>1. gt'[g].pc = "vacate" /\ gt'[g].room = r
        BY <1>4, <1>8, <3>3
      <4> QED BY <3>1, <3>3, <4>1 DEF ResetAgrees
    <3> QED BY <3>2, <3>3
  <2>8. ASSUME NEW h \in Game, h # g, gt'[h].pc \in InReset
        PROVE  ResetAgrees(h)'
    <3> DEFINE q == gt[h].room
    <3>1. gt'[h] = gt[h] /\ q # r /\ q \in Room /\ ResetAgrees(h) /\ q # None
      BY <1>6, <2>8
    <3> HIDE DEF q
    <3>2. \A u \in Slot : room_id'[u] = q <=> room_id[u] = q
      BY <2>1, <2>2, <3>1
    <3>3. ASSUME gt[h].pc \in {"pass", "release"}, NEW j \in Seat, j >= gt[h].at, seat[q][j] # None
          PROVE  /\ state'[seat[q][j]] = "IN_GAME" /\ room_id'[seat[q][j]] = q
                 /\ \A k \in Seat : seat[q][k] = seat[q][j] => k = j
      <4>1. /\ state[seat[q][j]] = "IN_GAME" /\ room_id[seat[q][j]] = q
            /\ \A k \in Seat : seat[q][k] = seat[q][j] => k = j
        BY <3>1, <3>3 DEF ResetAgrees, q
      <4>2. seat[q][j] \in Slot /\ seat[q][j] # p
        BY <2>1, <2>4, <3>1, <3>3, <4>1
      <4> QED BY <2>2, <4>1, <4>2
    <3>4. ASSUME gt[h].pc \in {"pass", "release"}, NEW u \in Slot, room_id'[u] = q
          PROVE  \E j \in Seat : j >= gt[h].at /\ seat[q][j] = u
      BY <3>1, <3>2, <3>4 DEF ResetAgrees, q
    <3>5. /\ gt[h].pc \in {"vacate", "clear"} => \A u \in Slot : room_id'[u] # q
          /\ gt[h].pc = "clear" => seat_count'[q] = 0
      BY <1>8, <3>1, <3>2 DEF ResetAgrees, q
    <3> QED BY <1>8, <3>1, <3>3, <3>4, <3>5 DEF ResetAgrees, q
  <2>9. ASSUME NEW t \in Client, Calling(t)'
        PROVE  CallAgrees(t)'
    <3>1. Calling(t) /\ ct'[t] = ct[t] /\ CallAgrees(t) /\ ct[t].slot \in Slot /\ ct[t].room \in Room
      BY <1>2, <2>9 DEF CallsStay, Consistent, Sound, Clients, ClientDefined, Calling, InLobbyCall,
         UsesRoom
    <3>2. ~BeingReset(ct[t].room) /\ ct[t].room # r
      BY <1>1, <3>1 DEF CallAgrees
    <3>3. CASE ct[t].slot = p
      <4>1. ct[t].pc = "leaving" \/ ct[t].pc = "removing" => FALSE
        BY <2>1, <3>1, <3>2, <3>3 DEF CallAgrees
      <4>2. ct[t].pc # "joining"
        BY <1>1, <2>1, <3>1, <3>3 DEF CallAgrees
      <4> QED BY <3>1, <4>1, <4>2 DEF Calling, InLobbyCall
    <3>4. CASE ct[t].slot # p
      BY <1>5, <2>2, <3>1, <3>2, <3>4 DEF CallAgrees
    <3> QED BY <3>3, <3>4
  <2> QED BY <2>5, <2>6, <2>7, <2>8, <2>9 DEF Consistent
<1> QED BY <1>3, <1>7, <1>8

\* The room is empty before its counter and its seats say so.
LEMMA VacateConsistent ==
  ASSUME Sound, Consistent, NEW g \in Game, VacateRoom(g)
  PROVE  Consistent'
<1> DEFINE r == RoomOf(g)
<1>1. /\ gt[g].pc = "vacate" /\ gt[g].room = r /\ ResetAgrees(g) /\ gt[g] \in GameRecord
      /\ seat_count' = [seat_count EXCEPT ![r] = 0] /\ GoTo(g, "clear")
      /\ UNCHANGED <<state, room_id, seat>> /\ r \in Room
  BY DEF VacateRoom, GameAt, RoomOf, Consistent, InReset, players, Sound, Games, GameDefined
<1>2. gt'[g].pc = "clear" /\ gt'[g].room = r
  BY <1>1 DEF GoTo, Sound, Games, GameRecord
<1>3. GameLands(g) /\ CallsStay /\ Plays(g) /\ Holding(g)
  <2>1. gt' # gt
    BY <1>1, <1>2
  <2> QED BY <1>1, <2>1, GamePlays, GameCallsStay DEF GameRuns, GameLands, Holding, InReset
<1>4. BeingReset(r) /\ \A q : BeingReset(q)' <=> BeingReset(q)
  <2>1. \A q : BeingReset(q)' <=> q = r \/ BeingReset(q)
    BY <1>2, <1>3, ResetGoesOn DEF InReset
  <2>2. BeingReset(r)
    BY <1>1 DEF BeingReset, InReset
  <2> QED BY <2>1, <2>2
<1>5. \A q \in Room : seat_count'[q] = IF q = r THEN 0 ELSE seat_count[q]
  BY <1>1 DEF Sound, TablesTyped, RoomsTyped
<1>6. ASSUME NEW h \in Game, gt'[h].pc \in InReset
      PROVE  ResetAgrees(h)'
  <2>1. CASE h = g
    BY <1>1, <1>2, <1>5, <2>1 DEF ResetAgrees
  <2>2. CASE h # g
    <3>1. gt'[h] = gt[h] /\ gt[h].pc \in InReset /\ ResetAgrees(h) /\ gt[h].room \in Room
      BY <1>3, <1>6, <2>2 DEF Plays, Consistent, Sound, Games, GameDefined, InReset
    <3>2. gt[h].room # r
      BY <1>3, <2>2, <3>1, OtherResets
    <3>3. seat_count'[gt[h].room] = seat_count[gt[h].room]
      BY <1>5, <3>1, <3>2
    <3> QED BY <1>1, <3>1, <3>3 DEF ResetAgrees
  <2> QED BY <2>1, <2>2
<1>7. ASSUME NEW q \in Room, ~BeingReset(q)'
      PROVE  RoomAgrees(q)'
  BY <1>1, <1>4, <1>5, <1>7 DEF Consistent, RoomAgrees
<1>8. \A p \in Slot : PlayerAgrees(p)'
  BY <1>1 DEF Consistent, PlayerAgrees
<1>9. \A t \in Client : Calling(t)' => CallAgrees(t)'
  BY <1>1, <1>3, <1>4 DEF Consistent, CallAgrees, CallsStay
<1> QED BY <1>6, <1>7, <1>8, <1>9 DEF Consistent

LEMMA ClearConsistent ==
  ASSUME Sound, Consistent, NEW g \in Game, ClearSeats(g)
  PROVE  Consistent'
<1> USE NoneIsNobody
<1> DEFINE r == RoomOf(g)
<1>1. /\ r \in Room /\ gt[g].pc = "clear" /\ gt[g].room = r /\ ResetAgrees(g)
      /\ UNCHANGED <<state, room_id, seat_count>>
      /\ seat' = [seat EXCEPT ![r] = [i \in Seat |-> None]]
  BY DEF ClearSeats, GameAt, RoomOf, Sound, Games, GameDefined, players, Consistent, InReset
<1>2. \A h \in Game : gt'[h] = IF h = g THEN NoGame ELSE gt[h]
  BY DEF ClearSeats, Sound, Games
<1>3. CallsStay
  BY GameCallsStay DEF GameRuns
<1>4. ASSUME NEW h \in Game, h # g, gt[h].pc \in InReset
      PROVE  gt[h].room # r
  BY <1>1, <1>4 DEF Sound, Locked, Holding, InReset
<1> HIDE DEF r
<1>5. BeingReset(r) /\ \A q : BeingReset(q)' <=> q # r /\ BeingReset(q)
  <2>1. NoGame.pc \notin InReset
    BY DEF NoGame, InReset
  <2> QED BY <1>1, <1>2, <1>4, <2>1 DEF BeingReset, InReset
<1>6. seat_count[r] = 0 /\ \A p \in Slot : room_id[p] # r
  BY <1>1 DEF ResetAgrees
<1>7. \A q \in Room, i \in Seat : seat'[q][i] = IF q = r THEN None ELSE seat[q][i]
  BY <1>1 DEF Sound, TablesTyped, RoomsTyped
<1>8. ASSUME NEW q \in Room, ~BeingReset(q)'
      PROVE  RoomAgrees(q)'
  <2>1. CASE q = r
    BY <1>1, <1>6, <1>7, <2>1, SeatSet DEF RoomAgrees
  <2>2. CASE q # r
    <3>1. RoomAgrees(q)
      BY <1>5, <1>8, <2>2 DEF Consistent
    <3> QED BY <1>1, <1>7, <2>2, <3>1 DEF RoomAgrees
  <2> QED BY <2>1, <2>2
<1>9. ASSUME NEW p \in Slot
      PROVE  PlayerAgrees(p)'
  <2>1. room_id[p] # None => room_id[p] \in Room /\ room_id[p] # r
    BY <1>6 DEF Sound, TablesTyped, RoomsTyped
  <2> QED BY <1>1, <1>7, <2>1 DEF Consistent, PlayerAgrees
<1>10. ASSUME NEW h \in Game, gt'[h].pc \in InReset
       PROVE  ResetAgrees(h)'
  <2>1. h # g /\ gt'[h] = gt[h]
    BY <1>2, <1>10 DEF NoGame, InReset
  <2>2. gt[h].room # r /\ gt[h].room \in Room /\ ResetAgrees(h)
    BY <1>4, <1>10, <2>1 DEF Consistent, Sound, Games, GameDefined, InReset
  <2>3. \A i \in Seat : seat'[gt[h].room][i] = seat[gt[h].room][i]
    BY <1>7, <2>2
  <2> QED BY <1>1, <2>1, <2>2, <2>3 DEF ResetAgrees
<1>11. ASSUME NEW t \in Client, Calling(t)'
       PROVE  CallAgrees(t)'
  BY <1>1, <1>3, <1>5, <1>11 DEF Consistent, CallAgrees, CallsStay
<1> QED BY <1>8, <1>9, <1>10, <1>11 DEF Consistent

LEMMA GameConsistent ==
  ASSUME Sound, Consistent, NEW g \in Game, GameRuns(g) \/ GameInput(g), ~clash'
  PROVE  Consistent'
<1>1. CASE ResetBegins(g)
  BY <1>1, ResetBeginsConsistent
<1>2. CASE ResetPasses(g) \/ ReleaseSeat(g)
  <2>1. CASE gt' = gt
    <3>1. UNCHANGED sitting
      <4>1. ASSUME gt' = [gt EXCEPT ![g] = NextPass(@)], gt[g].pc \in {"pass", "release"}
            PROVE  FALSE
        <5>1. gt[g] \in GameRecord /\ gt[g] = NextPass(gt[g])
          BY <2>1, <4>1 DEF Sound, Games
        <5>2. (gt[g].at = 0 => gt[g].at = 1) /\ (gt[g].at # 0 => gt[g].at = 0)
          BY <5>1, NextPassTyped
        <5> QED BY <5>2
      <4>2. UNCHANGED tables => UNCHANGED sitting
        BY DEF tables, players, rooms, sitting
      <4> QED BY <1>2, <4>1, <4>2 DEF ResetPasses, ReleaseSeat, Crash, GameAt
    <3>2. ResetsStay /\ CallsStay
      BY <1>2, <2>1, GameCallsStay DEF ResetsStay, GameRuns
    <3> QED BY <3>1, <3>2, SameAgreement
  <2> QED BY <1>2, <2>1, ResetPassesConsistent
<1>3. CASE VacateRoom(g)
  BY <1>3, VacateConsistent
<1>4. CASE ClearSeats(g)
  BY <1>4, ClearConsistent
<1>5. CASE ~Resets(g)
  <2>1. UNCHANGED sitting
    BY <1>5, GameKeepsRooms DEF Resets
  <2>2. ResetsStay
    <3>1. CASE gt' = gt
      BY <3>1 DEF ResetsStay
    <3>2. CASE gt' # gt
      <4>1. GameLands(g)
        BY <3>2, GamePlays
      <4> QED BY <1>5, <4>1 DEF GameLands, Plays, ResetsStay
    <3> QED BY <3>1, <3>2
  <2> QED BY <2>1, <2>2, GameCallsStay, SameAgreement
<1> QED BY <1>1, <1>2, <1>3, <1>4, <1>5 DEF Resets

LEMMA AcceptConsistent ==
  ASSUME Sound, Consistent, NEW t \in Client, Accept(t)
  PROVE  Consistent'
<1>1. PICK s \in Socket, p \in Slot :
        /\ add_player(s, p)
        /\ ct' = [ct EXCEPT ![t] = [NoClient EXCEPT !.pc = "login", !.slot = p, !.fd = s]]
  BY DEF Accept
<1>2. LobbyFree /\ gt' = gt
  BY DEF Accept
<1>3. ResetsStay /\ NoCalls'
  <2>1. \A u \in Client : ct'[u].pc \notin InLobbyCall
    BY <1>1, <1>2 DEF LobbyFree, Sound, Clients, InLobbyCall, NoClient
  <2> QED BY <1>2, <2>1 DEF ResetsStay, NoCalls, Calling
<1> QED BY <1>1, <1>3, AddConsistent

LEMMA StepConsistent ==
  ASSUME Sound, ~clash => Consistent, [Next]_vars
  PROVE  ~clash' => Consistent'
<1> SUFFICES ASSUME ~clash' PROVE Consistent'
  OBVIOUS
<1>1. Consistent
  BY HistoryGrows
<1>2. CASE UNCHANGED vars
  <2>1. UNCHANGED sitting /\ ResetsStay /\ CallsStay
    BY <1>2 DEF vars, tables, players, rooms, sitting, ResetsStay, CallsStay, Calling
  <2> QED BY <1>1, <2>1, SameAgreement
<1> QED BY <1>1, <1>2, AcceptConsistent, ClientConsistent, GameConsistent DEF Next

LEMMA ConsistentAgree == (~clash => Consistent) => TablesAgree
BY AgreementByParts DEF Consistent, TablesAgree, TablesMatch

LEMMA InitConsistent == Init => Consistent
<1> SUFFICES ASSUME Init PROVE Consistent
  OBVIOUS
<1>1. /\ \A g \in Game : gt[g].pc = "none"
      /\ \A t \in Client : ct[t].pc = "none"
  BY DEF Init, NoGame, NoClient
<1>2. \A r \in Room, i \in Seat : seat[r][i] = None /\ seat_count[r] = 0
  BY DEF Init, init_lobby
<1>3. \A p \in Slot : state[p] = "LOBBY" /\ room_id[p] = None
  BY DEF Init, init_lobby
<1> QED BY <1>1, <1>2, <1>3, SeatSet
     DEF Consistent, RoomAgrees, PlayerAgrees, Calling, InLobbyCall, InReset

\* As long as no reset overlaps with a call of lobby.c on its room and nobody joins a room
\* while in one, the tables agree whatever else the threads do, and in whatever order: the
\* functions of lobby.c and reset_room_after_game need no other care from their callers
\* (lobby.c:126-178, 226-296, server.c:153-177).
THEOREM SpecTablesAgree == Spec => []TablesAgree
<1>1. Init => (~clash => Consistent)
  BY InitConsistent
<1> QED BY <1>1, InitSound, StepSound, StepConsistent, ConsistentAgree, PTL DEF Spec

-----------------------------------------------------------------------------
(* The count of players                                                      *)

Counted == SlotsAreCounted /\ player_count \in Nat

\* Most steps take no slot into use: who has a socket or a game afterwards had one.
LEMMA CountKept ==
  ASSUME Counted, player_count' = player_count,
         \A p \in Slot : socket'[p] # None \/ state'[p] # "LOBBY" => p \in Occupied
  PROVE  Counted'
<1>1. Occupied' \subseteq Occupied
  BY DEF Occupied, FreeSlot
<1> QED BY <1>1, FewerOccupied DEF Counted

LEMMA SameCount ==
  ASSUME Counted, UNCHANGED <<socket, state, player_count>>
  PROVE  Counted'
BY CountKept DEF Occupied, FreeSlot

\* A slot that is given up had a socket.
LEMMA RemovedCounted ==
  ASSUME Sound, Counted, NEW p \in Slot, NEW r, removed_from(r, p), socket[p] # None
  PROVE  Counted'
<1>1. /\ socket' = [socket EXCEPT ![p] = None]
      /\ state' = [state EXCEPT ![p] = "LOBBY"]
      /\ player_count' = player_count - 1
  BY DEF removed_from
<1>2. p \in Occupied
  BY DEF Occupied, FreeSlot
<1>3. \A q \in Slot : /\ socket'[q] = IF q = p THEN None ELSE socket[q]
                      /\ state'[q] = IF q = p THEN "LOBBY" ELSE state[q]
  BY <1>1 DEF Sound, TablesTyped, RoomsTyped
<1>4. Occupied' \subseteq Occupied \ {p}
  BY <1>3 DEF Occupied, FreeSlot
<1> QED BY <1>1, <1>2, <1>4, OneLessOccupied DEF Counted

LEMMA RemoveCounted ==
  ASSUME Sound, Counted, NEW p \in Slot, remove_player(p)
  PROVE  Counted'
<1>1. CASE socket[p] = None
  BY <1>1, SameCount DEF remove_player, tables, players
<1>2. CASE socket[p] # None
  BY <1>2, RemovedCounted DEF remove_player
<1> QED BY <1>1, <1>2

LEMMA DisconnectCounted ==
  ASSUME Sound, Counted, NEW p, handle_player_disconnect(p)
  PROVE  Counted'
<1>1. \A q \in Slot : socket'[q] \in {socket[q], None}
  BY DisconnectSockets DEF Sound
<1>2. state' = state /\ player_count' = player_count
  BY DEF handle_player_disconnect
<1> QED BY <1>1, <1>2, CountKept DEF Occupied, FreeSlot

LEMMA LeavesCounted ==
  ASSUME Sound, Counted, NEW r, NEW p \in Slot, leaves(r, p)
  PROVE  Counted'
<1>1. /\ state' = [state EXCEPT ![p] = "LOBBY"]
      /\ UNCHANGED <<socket, player_count>>
  BY DEF leaves
<1> QED BY <1>1, CountKept DEF Occupied, FreeSlot, Sound, TablesTyped, RoomsTyped

LEMMA TakesSeatCounted ==
  ASSUME Sound, Counted, NEW r, NEW p \in Occupied, takes_seat(r, p)
  PROVE  Counted'
<1>1. /\ state' = [state EXCEPT ![p] = "IN_GAME"]
      /\ UNCHANGED <<socket, player_count>>
  BY DEF takes_seat
<1> QED BY <1>1, CountKept DEF Occupied, FreeSlot, Sound, TablesTyped, RoomsTyped

LEMMA AddCounted ==
  ASSUME Sound, Counted, NEW s, NEW p \in Slot, add_player(s, p)
  PROVE  Counted'
<1>1. \A q \in Slot : q # p => socket'[q] = socket[q] /\ state'[q] = state[q]
  BY DEF add_player, Sound, TablesTyped, RoomsTyped
<1>2. Occupied' \subseteq Occupied \cup {p}
  BY <1>1 DEF Occupied, FreeSlot
<1>3. player_count' = player_count + 1
  BY DEF add_player
<1>4. SlotsAreCounted'
  BY <1>2, <1>3, OneMoreOccupied DEF Counted
<1> QED BY <1>3, <1>4 DEF Counted

LEMMA ClientCounted ==
  ASSUME Sound, Counted, NEW t \in Client, ClientRuns(t) \/ ClientInput(t), ~revived'
  PROVE  Counted'
<1> DEFINE c == ct[t]
<1>0. c.pc # "none" => c.slot \in Slot
  BY DEF Sound, Clients, ClientDefined
<1>t. UNCHANGED tables => UNCHANGED <<socket, state, player_count>>
  BY DEF tables, players
<1>1. CASE UNCHANGED <<socket, state, player_count>>
  BY <1>1, SameCount
<1>2. CASE Kicked(t)
  BY <1>2, DisconnectCounted DEF Kicked
<1>3. CASE Adopt(t)
  <2>1. /\ c.pc = "adopt" /\ revives_if(c.peer \in FreeSlot)
        /\ socket' = [socket EXCEPT ![c.peer] = c.fd]
        /\ UNCHANGED <<state, player_count>>
    BY <1>3, Zenon DEF Adopt, At
  <2>2. c.peer \in Slot
    BY <2>1 DEF Sound, Clients, ClientDefined, UsesPeer
  <2>3. c.peer \in Occupied
    BY <2>1, <2>2 DEF revives_if, Occupied
  <2> QED BY <2>1, <2>3, CountKept DEF Occupied, FreeSlot, Sound, TablesTyped
<1>4. CASE TakesSeat(t)
  <2>1. c.pc = "joining" /\ revives_if(c.slot \in FreeSlot) /\ takes_seat(c.room, c.slot)
    BY <1>4, Zenon DEF TakesSeat, At
  <2>2. c.slot \in Occupied
    BY <1>0, <2>1 DEF revives_if, Occupied
  <2> QED BY <2>1, <2>2, TakesSeatCounted
<1>5. CASE RemovePlayer(t)
  <2>1. c.pc \in Removers /\ (UNCHANGED tables \/ remove_player(c.slot))
    BY <1>5, Zenon DEF RemovePlayer, At, Removers
  <2> QED BY <1>0, <1>t, <1>1, <2>1, RemoveCounted DEF Removers
<1>6. CASE Removed(t)
  <2>1. c.pc = "removing" /\ removed_from(c.room, c.slot)
    BY <1>6 DEF Removed, At
  <2>2. socket[c.slot] # None
    BY <2>1 DEF Sound, Locked, Fits
  <2> QED BY <1>0, <2>1, <2>2, RemovedCounted
<1>7. CASE Left(t)
  <2>1. c.pc = "leaving" /\ leaves(c.room, c.slot)
    BY <1>7 DEF Left, At
  <2> QED BY <1>0, <2>1, LeavesCounted
<1>8. CASE Resume(t) \/ RefuseResume(t) \/ TakeNickname(t)
  <2>1. UNCHANGED <<socket, state, player_count>>
    BY <1>8, Zenon DEF Resume, RefuseResume, TakeNickname, set_room_state, players
  <2> QED BY <1>1, <2>1
<1>9. CASE ~(Kicked(t) \/ Adopt(t) \/ TakesSeat(t) \/ RemovePlayer(t) \/ Removed(t) \/ Left(t)
             \/ Resume(t) \/ RefuseResume(t) \/ TakeNickname(t))
  <2>1. UNCHANGED tables
    BY <1>9, Zenon
       DEF ClientRuns, ClientInput, FindActive, Kick, FindDisconnected, Rejoin, Resumed, EnterLoop,
           Loop, Joined, WakeOpponent, EnterWait, LeaveAndDrop, Woken, ReceiveLogin, LobbyInput,
           JoinRoom, WaitTimesOut, RoomInput, LeaveRoom, Crash
  <2> QED BY <1>t, <1>1, <2>1
<1> QED BY <1>2, <1>3, <1>4, <1>5, <1>6, <1>7, <1>8, <1>9

LEMMA GameCounted ==
  ASSUME Sound, Counted, NEW g \in Game, GameRuns(g) \/ GameInput(g)
  PROVE  Counted'
<1>1. (\A p \in Slot : socket'[p] \in {socket[p], None}) /\ player_count' = player_count
  BY GameLeaves
<1>2. \A p \in Slot : state'[p] \in {state[p], "LOBBY"}
  <2>1. CASE ReleaseSeat(g)
    <3>1. state' = state \/ \E p : state' = [state EXCEPT ![p] = "LOBBY"]
      BY <2>1, Zenon DEF ReleaseSeat, Crash, tables, players
    <3> QED BY <3>1 DEF Sound, TablesTyped, RoomsTyped
  <2>2. CASE VacateRoom(g) \/ ClearSeats(g)
    BY <2>2, Zenon DEF VacateRoom, ClearSeats, players
  <2>3. CASE ~(ReleaseSeat(g) \/ VacateRoom(g) \/ ClearSeats(g))
    BY <2>3, GameKeepsRooms DEF sitting
  <2> QED BY <2>1, <2>2, <2>3
<1> QED BY <1>1, <1>2, CountKept DEF Occupied, FreeSlot

LEMMA StepCounted ==
  ASSUME Sound, ~revived => Counted, [Next]_vars
  PROVE  ~revived' => Counted'
<1> SUFFICES ASSUME ~revived' PROVE Counted'
  OBVIOUS
<1>1. Counted
  BY HistoryGrows
<1>2. CASE UNCHANGED vars
  BY <1>1, <1>2, SameCount DEF vars, tables, players
<1>3. ASSUME NEW t \in Client, Accept(t)
      PROVE  Counted'
  BY <1>1, <1>3, AddCounted DEF Accept
<1> QED BY <1>1, <1>2, <1>3, ClientCounted, GameCounted DEF Next

LEMMA InitCounted == Init => Counted
<1> SUFFICES ASSUME Init PROVE Counted
  OBVIOUS
<1>1. Occupied = {}
  BY DEF Init, init_lobby, Occupied, FreeSlot
<1> QED BY <1>1, FS_EmptySet DEF Init, init_lobby, Counted, SlotsAreCounted

LEMMA TypesFromParts == Sound /\ (~revived => Counted) => ServerTypeOK
BY LobbyAssumption DEF Sound, Counted, TablesTyped, RoomsTyped, NetTyped, Clients, Games,
   ServerTypeOK, EntriesOK, history

\* player_count covers the slots in use, so that no more than MAX_PLAYERS connections
\* are let in, as long as no slot is used that was given up after it was found
\* (lobby.c:41-66, 101-124, server.c:725-735, 863).
THEOREM SpecCounts == Spec => []SlotsStayCounted
<1>1. Init => (~revived => Counted)
  BY InitCounted
<1>2. (~revived => Counted) => SlotsStayCounted
  BY DEF Counted, SlotsStayCounted
<1> QED BY <1>1, <1>2, InitSound, StepSound, StepCounted, PTL DEF Spec

\* The tables and the threads' locals keep their types in every behaviour; and until a
\* slot is used that was given up, player_count does not go below zero.
THEOREM SpecTyped == Spec => []ServerTypeOK
<1>1. Init => (~revived => Counted)
  BY InitCounted
<1> QED BY <1>1, InitSound, StepSound, StepCounted, TypesFromParts, PTL DEF Spec

=============================================================================
