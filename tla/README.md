# Pig game server: a TLA+ development

The repository is a server, in C with one POSIX thread per client and one per game, on which
two players at a time play the dice game Pig over TCP (`src/server`), with its documentation
(`src/docs`, in Czech). This directory holds its TLA+ model, what TLC checks of it and what
TLAPS proves. Line numbers are those of `src/server/src`, unless another file is named.

## 1. Inventory

| Part | State | Operations | Where |
|---|---|---|---|
| Game rules | `game_state`: banked scores, points at risk, last roll, player to move, end and winner | `init_game`, `handle_roll`, `handle_hold`, `switch_player` | `game.c` |
| Player and room tables | `players[]`: socket, nickname, state, room; `rooms[]`: state, seats, count; `player_count` | add, remove, disconnect and find players; join and leave rooms | `lobby.c`, under `lobby_mutex` |
| Accept loop | the listening socket | accept, take a slot, start a thread | `server.c` 1133-1225 |
| Client threads | their point in the code, own descriptor, own slot | login, kick, reconnection, lobby commands, waiting room, wait for the end of the game | `server.c` 614-1131 |
| Game threads | `game_state` and the two descriptors they read | play, lose a player, pause, resume, time out, reset the room | `server.c` 28-515 |
| Line protocol | `read_buffer` and `buffer_len` of each player | fill the buffer, take a line out of it, parse it; move what is left to another slot | `protocol.c`, `parser.c`, `server.c` 732-734 |
| Logger, start-up | files, limits | write, read the command line | `logger.c`, `main.c` |

How they interact. A client thread owns a *slot* of `players[]` and reads its socket, until it
sits in a room that plays: then the game thread of the room reads both sockets and the client
threads wait on `room->cond`. `lobby_mutex` covers each function of `lobby.c` and nothing in
between two of them; `room->mutex` covers most, not all, writes of `room->state`;
`reset_room_after_game` holds only the latter. A player that loses its connection keeps its slot
with socket -1; a new connection that logs in with the same nickname *adopts* the slot and must
send RESUME. A login with a nickname in use *kicks* that session and is itself refused.

What is hard here: a thread looks a slot or a room up, releases the mutex and uses it later; a
reconnection races the end of the game and its time-outs; two threads can have the same player;
descriptors are reused; waiting threads have no time-out of their own. `PROJECT.json` lists these
hazards line by line, with the properties aimed at them.

What would make each part correct:

- rules: no win is missed and none is given early, nothing at risk crosses a change of turn;
- tables: players and rooms name each other, slots are counted, reserved slots are kept, a place
  in a room outlives a lost connection;
- client threads: every socket is served, nobody waits for ever, nothing stale is followed;
- game threads: one per room, every pause ends, the right player wins, the end releases everybody;
- protocol: the commands read are the lines sent, however TCP cuts them; the string in a buffer
  ends where `buffer_len` says; a line in a buffer is not left there.

## 2. Modules

| Module | Models |
|---|---|
| `PigTurns` | what a game promises: a game of turns, without dice |
| `PigGame` | `game.c` and the commands and outside ends of a game |
| `PigGameProofs` | theorems about `PigGame`, for every target |
| `Lobby` | the tables and every function of `lobby.c` as an operator, those that look a room up before they change it in two halves; what the tables promise |
| `LobbyUse` | the tables under every order of the calls the threads make, one call at a time |
| `People` | what the lobby promises to people: where everybody is, who is connected, what goes on in each room; no sockets or seats |
| `LobbyLemmas` | what each function of `lobby.c` does to the tables, as lemmas: types, agreement, the slots in use |
| `LobbyProofs` | theorems about `LobbyUse`, for every number of players, rooms, names and sockets |
| `PeopleProofs` | the theorem that `LobbyUse` implements `People`, for the same |
| `LineReader` | a read buffer and the pieces of `receive_command` |
| `Parser` | `parse_command`, `get_command_arg` |
| `Session` | one client's connections: bytes arriving, the code that reads them, the moves of the session between login, lobby, waiting room, game and a slot that is kept |
| `SessionProofs` | theorems about `Session`, for every size of the buffers and of the window, and every set of lines |
| `ServerState` | what threads share beside the tables; the records of the threads; mutexes and condition variables |
| `ClientThread` | `client_handler_thread` and what it calls |
| `GameThread` | `game_thread_func`, `handle_game_input`, `reset_room_after_game` |
| `Server` | accept loop and all threads together, from start-up |
| `ServerProofs` | theorems about `Server`, for every number of slots, rooms, names, sockets, client and game threads |
| `Match` | the same server from a game under way, with fairness |
| `MatchProofs` | theorems about `Match`, for the same |
| `MCLobby`, `MCServer`, `MCSession` | symmetry and messages for TLC |

**How state and actions correspond.** Structures become functions by field: `players[p].socket`
is `socket[p]`, `rooms[r].players[i]` is `seat[r][i]`, `rooms[r].player_count` is `seat_count[r]`.
-1 and NULL are `None`. A thread is a record with its point in the code (`pc`) and the locals that
are used across a point where another thread can come in. An action is a stretch of code between
two such points: a call of `lobby.c`, a lock of a room's mutex, a wait, a read or `select` that can
block, a second look at something shared. So `Kick` closes the socket of the session found, `Kicked`
marks the slot it then is, and other threads may act in between, as in lines 709-715; `PollSeat`
finds a seat taken, `PollReads` reads from whoever sits there a second later, or follows NULL.

**The two kinds of mutex.** `lobby_mutex` keeps the functions of `lobby.c` apart from each other,
and a room's mutex keeps apart those who lock it; neither keeps the one kind from the other.
`reset_room_after_game` rewrites players and seats with the room's mutex only. So it is a step for each
seat it looks at (`ResetPasses`) and each player it releases (`ReleaseSeat`), one for the room's state and count
(`VacateRoom`) and one for the seats and the broadcast (`ClearSeats`). And the functions of `lobby.c`
that work on a room and its players in several writes are two steps each: `RemovePlayer`,
`JoinRoom`, `FindsRoom` look the room up, `Removed`, `TakesSeat`, `Left` change it, `lobby_mutex` being held from the one
to the other (`LobbyFree`). The steps of a reset come before, between and after them. Within one of
these steps the writes are taken together: the two of a player (164-165), the two of a room
(168-169), the two seats (170-171), the shift of the seats with the writes that follow it. The
room's mutex is held over several steps by the reset and by the time-out that disconnects a player
(`RoomFree`).

A read returns a command, fails, or brings nothing, at any time: that the descriptor was closed does
not help, because a line can be in the buffer already. Commands that change nothing are the branch that
goes on. The clock is not modelled: where the code compares times, both outcomes are possible,
except that a player found idle is still idle when nothing was read from it since (`IdleSeat`). A
NULL pointer that is followed ends the process (`crashed`); nothing happens after it. `FD_ISSET` with
-1 (line 472) is undefined and may report the seat as ready. Descriptors are the lowest free number, as
in Unix, so they are reused. A game thread the system has no room for is not started, and nobody
notices (869). `rand_r` is a choice.

**History variables.** Two variables are in no line of the code, no guard reads them, and they
never become false again. `clash` becomes true when a reset of a room and a call of `lobby.c` on that
room overlap, or when a player joins who is in a room (another thread of the same player may have
joined it). `revived` becomes true when a slot is used that was given up since it was found: adopted
at line 728 or seated at 164 without having come from `add_player`. Both things happen in the code;
the first breaks the agreement of the tables, the second the count of slots, and section 3 shows how.
`TablesAgree`, `SlotsStayCounted`, `WaitersHaveGame` and `LostHaveGame` speak of what happens while the one they
name is false, and in the theorems they say that nothing else breaks them.

**The line protocol** is modelled apart from the threads. `Session` follows one client. A word of a
command is one byte long: words have no structure the parser looks at, only the separators, the
line's end, CR and NUL have. `read` brings any part of what is on the wire, at most what the
buffer has room for; five seconds without a byte give -3. The buffer is an array with
`buffer_len` beside it, as in C: what `strchr` finds is decided by the array, what is moved by
`buffer_len`. Where a command takes the session (`NextPhase`) is decided as the code decides it,
and what depends on other players is a choice: a join may be refused, wait or start a game, a roll
may win; games begin and end, and another login may kick the session, at any time it is not
inside `receive_command`. `heard` is what the server made of each line, `starts` remembers how many
bytes were said before each message, for the properties only. `Meaning` says of a line, without
any buffer, which command it is; the messages TLC runs carry the commands `dokumentace.md` (66-75)
gives them, and TLC checks that the two agree (`MessageAssumption`). A blank line means the end of the
session there, because that is what the code makes of it.

**LobbyUse and People.** `LobbyUse` lets a caller test and call in one step, and nobody come between.
What a thread does to a room's state is guarded by nothing in the code but the thread being where it
is, so it is guarded by nothing else here: three counters say how many threads are on their way.
`games[r]` counts game threads (`Look` starts one, `ResetRoom` ends it; `Pause` and `IdleBack` need one),
`returns[r]` players who adopted a slot in r and have yet to answer, with RESUME or without (`Resume`,
`Abort`), `entering[r]` players who joined r and have yet to look whether it is full. So a RESUME makes a
waiting room with one person IN_PROGRESS when that person was kicked there and came back, and an
answer that comes late marks a room that was reset, even an empty one. `Where` says of every slot where the
tables have the person behind it: away, in the lobby or in a room. Under this mapping each call is
one of the things people can see (`Arrive`, `Enter`, `Leave`, `Lose`, `Return`, `Depart`, `Begin`, `Change`,
`Answer`, `Finish`) or nothing at all: a nickname and the shifting of seats are invisible. What `People`
promises is that a place in a room outlasts the connection and goes back to the same person, that
nobody is moved but by an own command or by the end of a game, that a room's state is changed
only by a game that two people began, by a person who came back to it, or by the coming and going of the
people in it, and that rooms empty as their people leave.

**Mutated forms.** A definition whose name tells a mistake (`leaves_gap`, `ClearsWithoutWaking`,
...) stands before the definition it is a broken form of and is used nowhere. `PROJECT.json`
("mutants") says which property fails when it takes the original's place; each property of a
passing run has one.

## 3. Runs

| Run | Bounds | States | What it shows |
|---|---|---|---|
| `game` (`PigGame.cfg`) | target 30, as in `config.h`; every die, every order of commands | 4 thousand | `TypeOK`, `BankedBelowTarget`, `ReachingWins`, `TurnStartsClean`; refinement `TurnsSpec` |
| `lobby` (`MCLobby.cfg`) | 3 slots, 2 rooms, 3 sockets, 2 nicknames, 2 threads on their way: a full room, a player outside it and a second room | 704 thousand | `TypeOK`, `SeatsMatchPlayers`, `SlotsAreCounted`, `ReservedSlotsKept`; refinement `PeopleSpec` |
| `server` (`MCServer.cfg`) | 2 slots, 1 room, 2 connections, 2 joins, 2 game threads | 2.5 million | `TablesAgree`, `Served`, from accept to the end of games |
| `match` (`Match.cfg`) | 3 slots, 1 room, a game under way, 1 more connection, no more joins | 45 thousand | `ServerTypeOK`, `TablesAgree`, `SlotsStayCounted`, `WaitersHaveGame`, `LostHaveGame`, `Served`; under fairness `PauseIsBounded`, `EndReleasesWaiters` |
| `protocol` (`Session.cfg`) | buffer of 12 bytes, commands of less than 6, 1 argument, 4 messages over 2 connections, 11 bytes on the wire | PROTO | `TypeOK`, `HeardInOrder`, `NothingLost`, `BufferTerminated`, `OverrunsOnlyOnTakeover`; under fairness `LinesAreHeard` |
| `server_one_game` | as `server` | | violation: both joiners see the room full and start a game thread |
| `match_tables` | as `match` | | violation: a reset skips a player because another one is removed while it runs |
| `match_crash` | as `match` | | violation: a reconnection or a removal that overlaps with the game makes a thread follow NULL |
| `match_winner` | as `match` | | violation: the time-out rewards a player who left |
| `match_lost_player` | as `match`, under fairness | | violation: a lost player's 20 seconds never end |
| `match_one_thread` | as `match`, 2 more connections | | violation: a kicked player's old thread serves a newcomer that has its descriptor's number |
| `protocol_reconnect` | as `protocol` | | violation: a line left in a kept slot's buffer is found behind the bytes that were received |

Why the bounds are enough. A room has two seats and a race here is between the two players of a
room, its game thread and a newcomer: three client threads and one room show them. In `server` the
two connections are spent on the two players; what reconnections do is `match`'s. There a player can
be lost or kicked by a newcomer's login, and the newcomer can come back for a lost player, while the
game pauses, times out, is aborted or ends. `match` starts where `server` gets to: two players logged
in and joined, both client threads waiting, the game thread in `select` (`Established`); the way there,
with everything that goes wrong on it, is `server`'s. The safety properties of `match` were also checked
on larger instances, too slow to keep: with two more connections 1.7 million states (a kick
and the reconnection that follows it), with a fourth client thread 4 million (logins that overlap), and
all but `WaitersHaveGame` and `LostHaveGame` with one join. Two adoptions of one slot need four slots;
the theorems cover them. Behaviours stop where a bound is used up, a process crashed or a game is
over, so deadlock is not checked.

In `protocol` the buffer is twice the command's size, as in the code (`MSG_MAX_LEN * 2`), and the
messages are a login, a command with an argument, one without, RESUME, a blank line, a line with
too many arguments, one as long as the command's buffer and one that never ends; some end in CR
LF. Four of them over two connections reach every phase, a buffer with several lines in it, and a
return to a kept slot with bytes left in it. The window holds as much as the buffer, so one
read can fill it to the last byte. No message holds a NUL byte.

What the passing runs leave to the history variables:

- *Overlap of a reset and a call* (`clash`). `match_tables` is such a behaviour, and it needs no join: a
  lost player comes back and sends something else than RESUME (778), its thread enters `remove_player`
  (781) and reads the room, the reset releases that player in its first pass, the shift moves the
  opponent to the first seat, and the second pass finds the second seat empty. The opponent stays
  IN_GAME in a room that was cleared; when it is woken it waits again (1115), for a game thread that is
  gone. A join has the same effect: whom `join_room` seats after line 169 is erased by 170-171. And a
  player who joins while in a room is on the seats of two. After these `TablesMatch`, `WaitersHaveGame` and
  `LostHaveGame` are false of the code. An overlap alone breaks nothing yet, but the properties make no finer
  distinction.
- *Use of a slot that was given up* (`revived`). Two reconnections find one lost slot (725); the first takes
  it, sends no RESUME and is removed, which lowers `player_count`; the second takes the slot then (730),
  which is not counted any more, and lowers the count once more when it leaves. With four slots, four
  client threads and two more connections TLC finds `SlotsAreCounted` false in `Match` this way.
- *Joins after the game* (`MaxJoins = 0` in `match`). A player who joins a waiting room has no game thread
  yet, so `WaitersHaveGame` and `LostHaveGame` speak of a game under way only: a player kicked in the
  waiting room is lost without a game, its slot stays until an opponent joins, and a RESUME before that
  waits for an end that has no beginning (`Session`'s phase `"stuck"`).

Two logins with one new nickname can both find it unused (703, 725) and both take it (803). Nothing in the
code is against it, so uniqueness of nicknames is no property here; `TakeNickname` and `LobbyUse!Login`
allow it, and no other property or proof assumes that nicknames are unique. `LinesAreHeard` lets
a line wait in a game when it came together with another: the game thread asks `select` before it
looks into the buffer.

Seen while modelling, and shown by no run: a session kicked in the lobby never gives its share of
`player_count` back (`lobby.c` 280), which is why `SlotsAreCounted` is an inequality. A roll
that reaches the target wins at once (`game.c` 38), where `docs/pig_gameplay.md` decides at the
hold. ABORTED can be overwritten by the game thread's late PAUSED (`server.c` 147, 778); the game is
then paused instead of ended. A reconnection that answers after its room was reset leaves an empty
room ABORTED or IN_PROGRESS; IN_PROGRESS, nobody can join it any more (`lobby.c` 145).

What the violations are about. `match_lost_player`: the simplest way is a kick. The login that kicks a player
of the game writes -1 to its socket (715), lines 415-418 copy it, and nobody pauses the room, so no
time-out runs; a message of an idle player (387) or a RESUME (761) while the other player is lost
ends a pause with the same effect. `match_crash`: a removal of a player whose game still runs
(781, 794) empties a seat that the game thread follows without a test (31-32), and a reconnection
whose game ended meanwhile follows the room -1 (744-745). `match_one_thread`: a kick closes the
descriptor, slot and number are used again, and the old thread passes the test of line 1118.

**Fairness** (`Match!Fairness`). Each thread that can take a step by itself does so eventually
(`WF` of `ClientRuns(t)`, `GameRuns(g)`): they are preemptively scheduled threads. Mutexes are held
for finitely many steps, and a thread that waits for one is assumed to get it only if it stays free
for good (weak, not strong fairness), which is less than POSIX schedulers give. `select` returns
after a second, so leaving it without input is a step of the thread. And a game thread does not stay
in a pause for ever without reading a clock 20 seconds later (line 253): either it is outside the
pause again and again, or `PauseExpires` happens again and again. That last assumption is not a weak
fairness condition, since the loop visits several points and the expiry is enabled at one of them
only. Nothing is assumed of clients, of arriving input or of idle players. `match_lost_player` is refuted
under the same fairness.

`Session!Fairness` is weak fairness of the thread that reads the connection, spelt out: it does not
stay able to take a step for ever without taking one. Of the client, the other players and the
clock nothing is assumed; in particular games need not end, nor clients close.

## 4. Proofs

`PigGameProofs`, for every `WINNING_SCORE` of at least 1. The inductive invariant is `TypeOK`,
`BankedBelowTarget`, `ReachingWins` and `TurnStartsClean` together. `BankedBelowTarget` is not
inductive alone: `handle_hold` banks without a test, and keeps the bound only because a running
game never has a winning total on the table, which is `ReachingWins`; that in turn needs
`TurnStartsClean` when the turn passes to a player whose banked score is below the target.
`ImplementsTurns` shows that the dice game implements `PigTurns`: rolls are stutters, a bust is
a turn worth 0, a hold a turn worth `turn_score`, a winning roll `Win`; it needs the invariant to
know that what is held is below the target and is not 1.

`LobbyProofs`, for every `MAX_PLAYERS` and `MAX_ROOMS` of at least 1 and every set of sockets and
nicknames that `None` is not in (`LobbyAssumption`); the bound `MaxPending` is any number. The inductive
invariant is `TypeOK`, `SeatsMatchPlayers` and `SlotsAreCounted` together; there is one lemma per call,
and each part leans on others. What a call does to the tables, whoever makes it, is in `LobbyLemmas`,
one room and one player at a time; `ServerProofs` uses it too.

- `player_count` stays in its range because of `SlotsAreCounted`: `remove_player` subtracts only
  for a slot with a socket, so one that was counted. `OneMoreOccupied`, `OneLessOccupied` and
  `FewerOccupied` are the three ways a call changes the slots in use.
- `RoomShifts` says what the shifting loop of `remove_player_from_room` leaves: the other
  player, if any, on seat 0. It needs the room to agree with its players, without which the player
  might sit nowhere or twice, and `LeavingAgrees` derives the agreement from it for
  `remove_player` and `leave_room` alike.
- What the threads on their way do to a room's state (`SetStateKeeps`) needs no proviso: the agreement
  does not depend on that state, which is why it survives a RESUME in the wrong room.
- `SlotsStayReserved` follows from `TypeOK` step by step: `Accept` takes only free slots, and
  `Adopt` changes nothing but the socket.

`PeopleProofs`, under the same assumption. `ImplementsPeople` needs the invariant of `LobbyProofs` and nothing
more; nicknames play no part in it. `InIs` and `PeopleAreCounted` turn seats into persons and back, with
`SeatsMatchPlayers`; `FullIs`, `EmptyIs` and `LastInRoom` follow from them and say when a room is full,
when it is empty and when it empties. Then there is one lemma per call, saying what people see of it.

`ServerProofs`, under `LobbyAssumption` and `ThreadAssumption` (threads and sockets are numbers, the
bounds are natural), for any number of each. In `LobbyUse` a caller's test and its call are one step;
here threads come between the two, and keep in their locals what they found before. The invariants, each
on top of the first:

- `Sound` is inductive alone: the tables have their types, except that `player_count` may be any
  number up to `MAX_PLAYERS`; a thread at each point of its code has the locals that are used there
  (`ClientDefined`, `GameDefined`); one thread at most is inside `lobby.c` and one holds a room's mutex
  (`Locked`), and a seat that is about to be taken is still there (`Fits`: while a thread is inside
  `join_room` nobody else can fill the room). So no table is indexed with -1 whatever the interleaving
  (`SpecSound`); the rooms and seats that are followed through NULL pointers are where the model crashes.
  A signal moves other threads than the one that acts: `Moves` and `Follows` say how, and each
  action's proof is about its own thread.
- `AllServed` gives `Served` (`SpecServed`): a thread knows its slot by its descriptor, and from the
  assignment of line 730 to the return of its own slot it stands for two.
- `~clash => Consistent` gives `TablesAgree` (`SpecTablesAgree`). `TablesAgree` says nothing of a room while it is
  being reset, so it is not inductive. `Consistent` says of every other room that it agrees with its players
  (`RoomAgrees`), of every player that it agrees with its room (`PlayerAgrees`), of a reset under way how far
  it has come (`ResetAgrees`: players before its index have left, seats behind it still agree), and of a thread
  inside `lobby.c` that what it looked up is still so (`CallAgrees`). Where a reset meets a call, `clash` is true
  and there is nothing to keep; that no other pair of steps needs this is what the proof shows.
- `~revived => Counted` gives `SlotsStayCounted` (`SpecCounts`) and the rest of the types (`SpecTyped`). A
  removal lowers the count for a slot with a socket, which is in use and no longer is; an adoption of
  a slot in use changes nothing.
- `HistoryGrows`: neither history variable becomes false again, so the two implications are about
  all that came before.

The theorems have no premise but the assumptions on the constants.

`MatchProofs`, with `MatchAssumption` (the players, threads and descriptors of the game under way exist),
for the same numbers. `Established` satisfies the invariants of `ServerProofs`, so `MatchServed`,
`MatchTablesAgree`, `MatchCounts` and `MatchTyped` follow from their steps, for any number of joins. The
other three assume `MaxJoins = 0`, as `match` has it. The invariant is `Underway`: `Sound`, that nobody is
inside `join_room` (`NobodyJoins`), and

- `WaitersKnow`: a thread on its way into the wait, or out of it, has its player's room in mind,
  if the player is still in a game. Without it a thread could wait for another room's game.
- while `clash` is false, `Consistent`;
- while `clash` is false, `GamesRun`: whoever is in a game has a game thread in its room. This is
  stronger than `LostHaveGame`, which speaks of players without a socket only: a player with one can
  lose it in the next step. The last step of a reset keeps it because by then, by `Consistent`, nobody has
  the room any more; hence a second game thread would not matter.
- while `clash` is false, `NobodyWaitsInVain`: a thread in the wait has a game thread in its room. It
  gets there holding the room's mutex with its player in a game (lines 1113-1115), so by the others
  there is one; and the thread that clears the seats wakes everybody in the same step.

`SessionProofs`, for every `READ_SIZE` of at least 2, every `OUT_SIZE`, `Window` and bound, and every
set of messages that are one line without NUL, or as long as the buffer (`BufferAssumption`,
`SessionAssumption`, `MessageAssumption`). Two invariants:

- `IInv` adds to `TypeOK` and `BufferTerminated` that nothing on the wire is NUL, that the bytes before
  `buffer_len` are none either, also in a slot just taken over (`Started`), that only some phases read
  (`ReadersServe`), and that a kept slot is not the connection's own (`KeptIsOther`).
  `FilledIsSound` needs the space `receive_command` leaves for the NUL; `RemovedIsSound` needs the
  newline to lie before `buffer_len`, which `NoOverrun` derives from `BufferTerminated`. Hence
  `OverrunNeedsTakeover`: the unterminated copy of line 733 is the only way to an overrun.
- `InStep` adds what was said: `Divided` says how `starts` divides it, `Pending` that what is not heard
  is in the buffer and behind it on the wire, byte by byte, and `HeardWhatWasSaid` that the rest was
  heard for what it meant. `ReadKeepsOrder`, `RemovedKeepsOrder` and `CopiedKeepsOrder` say where the
  byte at each place goes in the three operations on buffers. `LineIsMessage` is the point where the
  two meet: the first newline in the buffer ends the first message that is pending, because a
  message has no newline before its end, and one without an end does not fit. `LineMeans` then
  finds that the code's `cmd_len` and the meaning of the line agree, and `FullMeans` that a full
  buffer without a newline (`NewlineIsFound`) is the beginning of an overlong message.
  `HeardInOrder` is not inductive without `Pending`: what is heard next is what is in the buffer.
  What a command means is `parse_command` on both sides; the proof is about the framing, and
  whether the parser finds the documented commands is checked by TLC.

Only model-checked: all liveness (TLAPS proves none under fairness), `OneGamePerRoom` and the other
properties that fail, and the parser, which folds over data.

## 5. Not modelled

Two threads inside `receive_command` for one player at once (a reconnection that waits for RESUME
and the game thread): a data race on the buffer, whose outcomes are any. The line protocol and
the threads are not composed: in `Server` and `Match` a read brings a command, fails or brings
nothing, and `protocol` says when it does which. Messages sent and their contents, the logger,
start-up and its errors, and the rollback when the accept loop cannot create a thread are left out. The
Java client is not in the repository. Sends are taken not to block. Memory accesses that race are
taken to be atomic in the order of the code, and those that section 2 names are taken together.

## 6. Plan

1. `GameThread` with `PigGame` inside it: the winner the lobby hears of is the game's, turns are
   not played while a room is paused.
2. A finer `clash`: which overlaps of a reset and a call are harmless, and that the others are exactly
   those that break the tables.
3. `People` under the threads: what `Server` keeps of it when tests and calls are apart, nicknames of
   interleaved logins included.
4. Proofs: that a pause always has a deadline set (the safety half of `PauseIsBounded`).
