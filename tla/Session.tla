------------------------------- MODULE Session -------------------------------
(* One client's side of the line protocol: bytes arrive cut anywhere,        *)
(* receive_command makes lines of them, parse_command makes commands of the  *)
(* lines, and what comes of a command decides who reads next, a client       *)
(* thread or the game thread.  The client may lose its connection, or be     *)
(* kicked, and come back to the slot that was kept for it.                   *)
(* Every other player and every clock is part of the environment.            *)
EXTENDS LineReader, Parser

CONSTANTS Message,                     \* what a client says: [text, means]
          Window,                      \* bytes that can be on the wire, unread
          MaxMessages, MaxConnections  \* bounds for TLC

ASSUME SessionAssumption ==
  /\ \A m \in Message : m.text \in Seq(Byte \ {NUL})
  /\ Window \in Nat /\ MaxMessages \in Nat /\ MaxConnections \in Nat
  /\ MAX_ARGS \in Nat

Slot == {1, 2}
None == 0

VARIABLES
  buf,          \* read_buffer and buffer_len of two slots
  me,           \* the slot the connection has
  kept,         \* the slot that is kept for the client while it is away, or None
  playing,      \* there is a game, and a game thread, for the client's seat
  phase,        \* where the server's code is that reads this connection
  reading,      \* inside receive_command
  wire, closed, \* bytes the server has not read; the client has closed
  said, heard,  \* messages of this connection, and what the server made of them
  starts,       \* how many bytes were said before each message, and in all
  messages, connections,
  crashed       \* memmove ran over the end of memory: the process is gone

net  == <<wire, closed, said, starts, messages, connections>>
vars == <<buf, me, kept, playing, phase, reading, heard, crashed, net>>

\* "stuck" is the wait for the end of a game that never began: nobody reads.
Phase == {"none", "login", "resume", "lobby", "waiting", "game", "stuck"}

\* Results of receive_command that are not a command: 0 for a blank line, -2, and
\* 0 or -1 for a connection that is gone.
Failure(why) == [type |-> why, args |-> << >>]
Blank    == Failure("BLANK")
Overlong == Failure("TOO LONG")
Gone     == Failure("GONE")

\* What a client means by a line: the command before its end, CR LF or LF, unless it
\* is longer than the server takes.
Meaning(text) ==
  LET n == Len(text)
      body == IF n > 1 /\ text[n - 1] = CR THEN n - 2 ELSE n - 1
  IN  IF text[n] # LF \/ n >= READ_SIZE \/ body >= OUT_SIZE THEN Overlong
      ELSE IF body = 0 THEN Blank
      ELSE parse_command(SubSeq(text, 1, body))

\* A message is one line, or so long that no end is waited for.
ASSUME MessageAssumption ==
  \A m \in Message :
    /\ m.text # << >>
    /\ \A i \in 1 .. Len(m.text) : m.text[i] = LF => i = Len(m.text)
    /\ m.text[Len(m.text)] = LF \/ Len(m.text) >= READ_SIZE - 1
    /\ m.means = Meaning(m.text)

HasArgument(cmd, type, key) == cmd.type = type /\ HasArg(cmd, key)

Init ==
  /\ buf = [p \in Slot |-> [bytes |-> [i \in Index |-> NUL], len |-> 0]]
  /\ me = 1 /\ kept = None /\ playing = FALSE
  /\ phase = "none" /\ reading = FALSE
  /\ wire = << >> /\ closed = FALSE
  /\ said = << >> /\ heard = << >> /\ starts = <<0>>
  /\ messages = 0 /\ connections = 0
  /\ crashed = FALSE

-----------------------------------------------------------------------------
(* The client and the network *)

\* A connection gets the first slot that is not kept, its buffer emptied; the
\* second slot is left to others meanwhile.
Connect ==
  /\ phase = "none" /\ ~crashed /\ connections < MaxConnections
  /\ connections' = connections + 1
  /\ me' = CHOOSE p \in Slot : p # kept /\ \A q \in Slot : q # kept => p <= q
  /\ buf' = [buf EXCEPT ![me'] = Cleared(@)]
  /\ phase' = "login"
  /\ wire' = << >> /\ closed' = FALSE /\ said' = << >> /\ heard' = << >> /\ starts' = <<0>>
  /\ UNCHANGED <<kept, playing, reading, messages, crashed>>

Say(m) ==
  /\ phase # "none" /\ ~closed /\ messages < MaxMessages
  /\ Len(wire) + Len(m.text) <= Window
  /\ wire' = wire \o m.text
  /\ said' = Append(said, m)
  /\ starts' = Append(starts, starts[Len(starts)] + Len(m.text))
  /\ messages' = messages + 1
  /\ UNCHANGED <<buf, me, kept, playing, phase, reading, heard, crashed, closed, connections>>

Hangup ==
  /\ phase # "none" /\ ~closed
  /\ closed' = TRUE
  /\ UNCHANGED <<buf, me, kept, playing, phase, reading, heard, crashed, wire, said,
                 starts, messages, connections>>

-----------------------------------------------------------------------------
(* The threads that read *)

Buf == buf[me]

\* select finds bytes, or the end of the connection.
Readable == wire # << >> \/ closed

asks_select_only == phase \in {"login", "resume"}
                    \/ (phase \in {"lobby", "waiting", "game"} /\ Readable)

\* When receive_command is called: at once for LOGIN and RESUME; with a line in the
\* buffer or something to read in lobby and waiting room; in a game only with
\* something to read.
Called ==
  \/ phase \in {"login", "resume"}
  \/ phase \in {"lobby", "waiting"} /\ ((Buf.len > 0 /\ HasLine(Buf)) \/ Readable)
  \/ phase = "game" /\ Readable

Call ==
  /\ ~reading /\ Called
  /\ reading' = TRUE
  /\ UNCHANGED <<buf, me, kept, playing, phase, heard, crashed, net>>

\* One call of read: any part of what has arrived.
Read ==
  /\ reading /\ ~HasLine(Buf) /\ ~IsFull(Buf)
  /\ \E k \in 1 .. Space(Buf) :
       /\ k <= Len(wire)
       /\ buf' = [buf EXCEPT ![me] = Filled(@, SubSeq(wire, 1, k))]
       /\ wire' = SubSeq(wire, k + 1, Len(wire))
  /\ UNCHANGED <<me, kept, playing, phase, reading, heard, crashed, closed, said,
                 starts, messages, connections>>

\* SO_RCVTIMEO: nothing for five seconds, -3.
ReadTimesOut ==
  /\ reading /\ ~HasLine(Buf) /\ ~IsFull(Buf)
  /\ wire = << >> /\ ~closed
  /\ reading' = FALSE
  /\ UNCHANGED <<buf, me, kept, playing, phase, heard, crashed, net>>

\* The connection is over.  A player who has a seat keeps its slot if the game
\* thread was the one to notice; everywhere else the slot is given up, and with a
\* RESUME that does not come the game.
End(why) ==
  /\ heard' = Append(heard, why)
  /\ phase' = "none" /\ reading' = FALSE
  /\ kept' = IF phase = "game" THEN me ELSE kept
  /\ playing' = (playing /\ phase # "resume")

ReadFails ==
  /\ reading /\ ~HasLine(Buf) /\ ~IsFull(Buf)
  /\ wire = << >> /\ closed
  /\ End(Gone)
  /\ UNCHANGED <<buf, me, crashed, net>>

\* A buffer full of bytes without a newline is thrown away.
Overflow ==
  /\ reading /\ IsFull(Buf)
  /\ buf' = [buf EXCEPT ![me] = Cleared(@)]
  /\ End(Overlong)
  /\ UNCHANGED <<me, crashed, net>>

\* Where a command takes the connection, by the code that reads it: "none" where the
\* server closes.
AfterLogin(cmd) ==
  IF ~HasArgument(cmd, "LOGIN", "nick") THEN {"none"}
  ELSE IF kept = None THEN {"lobby"} ELSE {"resume"}

AfterResume(cmd) ==
  IF cmd.type # "RESUME" THEN {"none"} ELSE IF playing THEN {"game"} ELSE {"stuck"}

InLobby(cmd) ==
  IF HasArgument(cmd, "JOIN_ROOM", "room") THEN {"lobby", "waiting", "game"}
  ELSE IF cmd.type \in {"LIST_ROOMS", "LEAVE_ROOM", "PING"} THEN {"lobby"} ELSE {"none"}

InWaitingRoom(cmd) == IF cmd.type = "LEAVE_ROOM" THEN {"lobby"} ELSE {"waiting"}

\* A roll may win, and in a pause QUIT is not listened to.
InGame(cmd) == IF cmd.type \in {"ROLL", "QUIT"} THEN {"game", "lobby"} ELSE {"game"}

NextPhase(cmd) ==
  CASE phase = "login"   -> AfterLogin(cmd)
    [] phase = "resume"  -> AfterResume(cmd)
    [] phase = "lobby"   -> InLobby(cmd)
    [] phase = "waiting" -> InWaitingRoom(cmd)
    [] phase = "game"    -> InGame(cmd)

Obey(cmd) ==
  /\ heard' = Append(heard, cmd)
  /\ phase' \in NextPhase(cmd)
  /\ playing' = (phase' = "game" \/ (phase = "login" /\ playing))
  /\ reading' = FALSE

\* A line is in the buffer: it is taken out and obeyed.  A LOGIN under the nickname
\* of a slot that is kept moves the connection, and the bytes behind the LOGIN, there.
TakeLine ==
  /\ reading /\ HasLine(Buf)
  /\ IF Overruns(Buf)
       THEN /\ crashed' = TRUE
            /\ phase' = "none" /\ reading' = FALSE /\ kept' = None /\ playing' = FALSE
            /\ UNCHANGED <<buf, me, heard>>
       ELSE /\ UNCHANGED crashed
            /\ IF TooLong(Buf) \/ CommandLength(Buf) = 0
                 THEN /\ buf' = [buf EXCEPT ![me] = Removed(@)]
                      /\ End(IF TooLong(Buf) THEN Overlong ELSE Blank)
                      /\ UNCHANGED me
                 ELSE /\ Obey(parse_command(Command(Buf)))
                      /\ IF phase = "login" /\ phase' = "resume"
                           THEN /\ buf' = [buf EXCEPT ![me] = Removed(@),
                                             ![kept] = CopiedOver(@, Removed(Buf))]
                                /\ me' = kept /\ kept' = None
                           ELSE /\ buf' = [buf EXCEPT ![me] = Removed(@)]
                                /\ UNCHANGED <<me, kept>>
  /\ UNCHANGED net

-----------------------------------------------------------------------------
(* The other players, and the clock *)

Elsewhere == UNCHANGED <<buf, me, reading, heard, crashed, net>>

\* A game begins, also with a player who is away.
OpponentJoins ==
  /\ (phase = "waiting" /\ ~reading) \/ (kept # None /\ ~playing)
  /\ phase' = IF phase = "waiting" THEN "game" ELSE phase
  /\ playing' = TRUE
  /\ UNCHANGED kept
  /\ Elsewhere

\* Won or given up by the opponent, or a pause that lasted too long; the slot of a
\* client that is away is given up with it.
GameEnds ==
  /\ playing /\ phase # "resume" /\ ~(phase = "game" /\ reading)
  /\ phase' = IF phase = "game" THEN "lobby" ELSE phase
  /\ playing' = FALSE /\ kept' = None
  /\ Elsewhere

\* Another connection logs in under the nickname and is refused: a player with a
\* seat keeps its slot, one in the lobby loses it.
Kicked ==
  /\ phase \in {"lobby", "waiting", "game", "stuck"} /\ ~reading
  /\ phase' = "none"
  /\ kept' = IF phase = "lobby" THEN kept ELSE me
  /\ UNCHANGED playing
  /\ Elsewhere

ThreadStep == Call \/ Read \/ ReadTimesOut \/ ReadFails \/ Overflow \/ TakeLine

Next ==
  \/ Connect \/ (\E m \in Message : Say(m)) \/ Hangup
  \/ ThreadStep
  \/ OpponentJoins \/ GameEnds \/ Kicked

Spec == Init /\ [][Next]_vars

\* The thread that reads goes on while it can: weak fairness of ThreadStep, its
\* condition spelt out.
CanStep == reading \/ Called

Fairness == []<>~CanStep \/ []<><<ThreadStep>>_vars

FairSpec == Spec /\ Fairness

-----------------------------------------------------------------------------
TypeOK ==
  /\ buf \in [Slot -> Buffer]
  /\ me \in Slot /\ kept \in Slot \cup {None} /\ playing \in BOOLEAN
  /\ phase \in Phase /\ reading \in BOOLEAN
  /\ wire \in Seq(Byte) /\ closed \in BOOLEAN
  /\ said \in Seq(Message) /\ starts \in Seq(Nat) /\ starts # << >>
  /\ messages \in 0 .. MaxMessages /\ connections \in 0 .. MaxConnections
  /\ crashed \in BOOLEAN

\* However TCP cuts or joins what the client sends, the server makes of the k-th
\* message what the client meant by it: no line is skipped, split, merged with
\* another or taken twice (protocol.c:7-8).
HeardInOrder ==
  \A i \in DOMAIN heard : heard[i] = Gone \/ heard[i] = said[i].means

\* The i-th byte that was received or is on the wire and was not taken yet.
Unread(i) == IF i <= Buf.len THEN Buf.bytes[i - 1] ELSE wire[i - Buf.len]

\* What was said and is not heard yet, and nothing else, is in the buffer and on the
\* wire, message by message in order, also behind a LOGIN that moved the connection to
\* another slot (protocol.c:97-101, 144-148, server.c:732-734).
NothingLost ==
  phase # "none" =>
    LET first == Len(heard) + 1
    IN  /\ first \in DOMAIN starts
        /\ Buf.len + Len(wire) = starts[Len(starts)] - starts[first]
        /\ \A i \in first .. Len(said) : \A k \in 1 .. Len(said[i].text) :
             Unread(starts[i] - starts[first] + k) = said[i].text[k]

\* buffer_len is the length of the string in the buffer, which every part of
\* receive_command relies on; a slot that was just taken over is the exception.
BufferTerminated == phase \notin {"none", "resume"} => LengthIsContents(Buf)

\* So the lines of a connection never overrun the buffer, unless it is the first line
\* read from a slot that was taken over.
OverrunsOnlyOnTakeover == [][crashed' => crashed \/ phase = "resume"]_vars

\* No newline is found behind the bytes that were received, where removing the line
\* would make buffer_len negative (lobby.h:33, protocol.c:146).
NeverOverruns == ~crashed

\* The server keeps up with its client: again and again everything said is heard, or
\* the connection is over, or a game goes on and nothing is left to read.  (In a game
\* a line that came together with another one waits in the buffer for more to come.)
CaughtUp == Len(heard) = Len(said) \/ phase \in {"none", "stuck"}

LinesAreHeard == []<>(CaughtUp \/ (phase = "game" /\ wire = << >>))
=============================================================================
