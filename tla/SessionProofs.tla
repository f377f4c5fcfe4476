---------------------------- MODULE SessionProofs ----------------------------
(* The read buffer is safe, and what goes through it is heard in order and   *)
(* whole, for every size of it, of the caller's buffer and of the network's  *)
(* window, and for every set of messages that are lines without NUL bytes:   *)
(* theorems about Session.                                                   *)
EXTENDS Session, SequenceTheorems, WellFoundedInduction, TLAPS

\* The bytes that count are no NULs: true also of a slot that was just taken over,
\* whose string may go on behind them.
NoNulInside(b) == \A i \in Index : i < b.len => b.bytes[i] # NUL

Started == phase # "none" => NoNulInside(Buf)

\* Nobody reads a connection that is not there, or in the wait for the end of a game.
ReadersServe == reading => phase \in Phase \ {"none", "stuck"}

\* The slot that is kept is not the one the connection came in with.
KeptIsOther == phase # "none" => kept # me

WireText == wire \in Seq(Byte \ {NUL})

IInv == TypeOK /\ WireText /\ Started /\ ReadersServe /\ KeptIsOther /\ BufferTerminated

-----------------------------------------------------------------------------
(* The operations on a buffer *)

LEMMA Indices ==
  /\ 0 \in Index /\ READ_SIZE \in Nat
  /\ \A i \in Index : i \in Nat /\ i < READ_SIZE
  /\ \A i \in Int : 0 <= i /\ i < READ_SIZE => i \in Index
  /\ NUL \in Byte /\ LF \in Byte /\ LF # NUL
BY BufferAssumption DEF Index, Byte, LF, NUL, CR

\* A newline that is found is the one Newline names.
LEMMA NewlineFound ==
  ASSUME NEW b \in Buffer, HasLine(b)
  PROVE  Newline(b) \in Index /\ NewlineAt(b, Newline(b))
BY DEF HasLine, Newline

\* receive_command clears a full buffer and leaves an empty string (85-88).
LEMMA ClearedIsSound ==
  ASSUME NEW b \in Buffer
  PROVE  Cleared(b) \in Buffer /\ LengthIsContents(Cleared(b))
BY Indices DEF Cleared, Buffer, LengthIsContents

\* A read within the space that is left terminates what it brought (97-101).
LEMMA FilledIsSound ==
  ASSUME NEW b \in Buffer, NoNulInside(b),
         NEW s \in Seq(Byte \ {NUL}), Len(s) <= Space(b)
  PROVE  Filled(b, s) \in Buffer /\ LengthIsContents(Filled(b, s))
<1>1. Len(s) \in Nat /\ \A i \in 1 .. Len(s) : s[i] \in Byte /\ s[i] # NUL
  OBVIOUS
<1>2. b.len \in Index /\ b.len \in Nat /\ b.len + Len(s) \in Index
  BY <1>1, Indices DEF Buffer, Space
<1>3. ASSUME NEW i \in Index
      PROVE  /\ b.bytes[i] \in Byte
             /\ b.len <= i /\ i < b.len + Len(s)
                  => s[i - b.len + 1] \in Byte /\ s[i - b.len + 1] # NUL
  <2>1. b.bytes[i] \in Byte
    BY DEF Buffer
  <2>2. ASSUME b.len <= i, i < b.len + Len(s)
        PROVE  i - b.len + 1 \in 1 .. Len(s)
    <3>1. i \in Nat /\ b.len \in Nat /\ Len(s) \in Nat
      BY <1>1, <1>2, Indices
    <3> QED BY <2>2, <3>1
  <2> QED BY <1>1, <2>1, <2>2
<1>4. Filled(b, s) \in Buffer
  BY <1>2, <1>3, Indices DEF Filled, Buffer
<1>5. LengthIsContents(Filled(b, s))
  BY <1>1, <1>2, <1>3, Indices DEF Filled, LengthIsContents, NoNulInside
<1> QED BY <1>4, <1>5

\* Removing a line that lies within the received bytes leaves the rest of them,
\* terminated (146-148).
LEMMA RemovedIsSound ==
  ASSUME NEW b \in Buffer, NoNulInside(b), HasLine(b), ~Overruns(b)
  PROVE  Removed(b) \in Buffer /\ LengthIsContents(Removed(b))
<1> DEFINE k == Newline(b)
           n == b.len - (k + 1)
<1>1. k \in Index /\ k < b.len /\ b.len \in Index
  <2>1. k \in Index /\ b.len \in Index
    BY NewlineFound DEF Buffer
  <2> QED BY <2>1, Indices DEF Overruns
<1> HIDE DEF k
<1>2. n \in Index
  BY <1>1, Indices
<1>3. \A i \in Index : b.bytes[i] \in Byte
  BY DEF Buffer
<1>4. \A i \in Index : i < n => /\ i + k + 1 \in Index
                                /\ b.bytes[i + k + 1] \in Byte \ {NUL}
  BY <1>1, <1>3, Indices DEF NoNulInside
<1>5. Removed(b) = [bytes |-> [i \in Index |-> IF i < n THEN b.bytes[i + k + 1]
                                               ELSE IF i = n THEN NUL ELSE b.bytes[i]],
                    len |-> n]
  BY DEF Removed, k
<1> HIDE DEF n
<1> QED BY <1>2, <1>3, <1>4, <1>5, Indices DEF Buffer, LengthIsContents

\* The bytes behind a LOGIN are laid over a kept slot's (server.c:733-734).
LEMMA CopiedOverIsSound ==
  ASSUME NEW b \in Buffer, NEW from \in Buffer, LengthIsContents(from)
  PROVE  CopiedOver(b, from) \in Buffer /\ NoNulInside(CopiedOver(b, from))
BY Indices DEF CopiedOver, Buffer, LengthIsContents, NoNulInside

\* In a buffer whose string ends at buffer_len no line is found behind it.
LEMMA NoOverrun ==
  ASSUME NEW b \in Buffer, LengthIsContents(b), HasLine(b)
  PROVE  ~Overruns(b)
<1>1. Newline(b) \in Index /\ NewlineAt(b, Newline(b)) /\ b.len \in Index
  BY NewlineFound DEF Buffer
<1>2. CASE Newline(b) = b.len
  BY <1>1, <1>2, Indices DEF NewlineAt, LengthIsContents
<1>3. CASE b.len < Newline(b)
  BY <1>1, <1>3 DEF NewlineAt, LengthIsContents
<1>4. CASE Newline(b) < b.len
  BY <1>1, <1>4, Indices DEF Overruns
<1> QED BY <1>1, <1>2, <1>3, <1>4, Indices

\* What ends at buffer_len has no NUL before it.
LEMMA TerminatedHasNoNul ==
  ASSUME NEW b, LengthIsContents(b)
  PROVE  NoNulInside(b)
BY DEF LengthIsContents, NoNulInside

-----------------------------------------------------------------------------
(* The steps *)

\* The server starts with empty slots and no connection.
LEMMA InitInv == Init => IInv
<1> SUFFICES ASSUME Init PROVE IInv
  OBVIOUS
<1>1. buf \in [Slot -> Buffer]
  BY Indices DEF Init, Buffer
<1>2. TypeOK
  <2>1. wire \in Seq(Byte) /\ said \in Seq(Message) /\ starts \in Seq(Nat) /\ starts # << >>
    BY EmptySeq DEF Init
  <2>2. messages \in 0 .. MaxMessages /\ connections \in 0 .. MaxConnections
    BY SessionAssumption DEF Init
  <2> QED BY <1>1, <2>1, <2>2 DEF Init, TypeOK, Slot, None, Phase
<1>3. WireText /\ Started /\ ReadersServe /\ KeptIsOther /\ BufferTerminated
  BY EmptySeq DEF Init, WireText, Started, ReadersServe, KeptIsOther, BufferTerminated
<1> QED BY <1>2, <1>3 DEF IInv

\* A step that leaves the buffer and what is on the wire alone keeps the invariant if
\* it begins no phase in which somebody reads.
LEMMA Quiet ==
  ASSUME IInv,
         buf' = buf, me' = me, wire' = wire, said' = said, starts' = starts,
         crashed' = crashed,
         messages' = messages, connections' = connections,
         kept' \in Slot \cup {None}, playing' \in BOOLEAN, closed' \in BOOLEAN,
         reading' \in BOOLEAN, phase' \in Phase,
         phase' # "none" => phase # "none" /\ kept' # me,
         phase' \notin {"none", "resume"} => phase \notin {"none", "resume"},
         reading' => phase' \in Phase \ {"none", "stuck"}
  PROVE  IInv'
BY DEF IInv, TypeOK, WireText, Started, ReadersServe, KeptIsOther,
             BufferTerminated, Buf

LEMMA ConnectInv == ASSUME IInv, Connect PROVE IInv'
<1>1. me' \in Slot /\ kept' # me'
  <2>1. kept \in {0, 1, 2}
    BY DEF IInv, TypeOK, Slot, None
  <2>2. \E p \in Slot : p # kept /\ \A q \in Slot : q # kept => p <= q
    BY <2>1 DEF Slot
  <2> QED BY <2>2 DEF Connect
<1>2. /\ buf' \in [Slot -> Buffer] /\ buf'[me'] = Cleared(buf[me'])
      /\ buf[me'] \in Buffer /\ Cleared(buf[me']) \in Buffer
  BY <1>1, ClearedIsSound DEF Connect, IInv, TypeOK
<1>3. LengthIsContents(buf'[me']) /\ NoNulInside(buf'[me'])
  BY <1>2, ClearedIsSound, TerminatedHasNoNul
<1>4. TypeOK'
  <2>1. connections' \in 0 .. MaxConnections
    BY SessionAssumption DEF Connect, IInv, TypeOK
  <2>2. /\ wire' \in Seq(Byte) /\ said' \in Seq(Message) /\ phase' \in Phase
        /\ closed' \in BOOLEAN
    BY EmptySeq DEF Connect, Phase
  <2>3. starts' \in Seq(Nat) /\ starts' # << >>
    <3>1. <<0>> \in Seq(Nat) /\ <<0>> # << >>
      OBVIOUS
    <3> QED BY <3>1 DEF Connect
  <2> QED BY <1>1, <1>2, <2>1, <2>2, <2>3 DEF Connect, IInv, TypeOK
<1>5. WireText' /\ Started' /\ ReadersServe' /\ KeptIsOther' /\ BufferTerminated'
  BY <1>1, <1>3, EmptySeq
     DEF Connect, IInv, WireText, Started, ReadersServe, KeptIsOther,
             BufferTerminated, Buf, Phase
<1> QED BY <1>4, <1>5 DEF IInv

LEMMA SayInv == ASSUME IInv, NEW m \in Message, Say(m) PROVE IInv'
<1>1. m.text \in Seq(Byte \ {NUL})
  BY SessionAssumption, BufferAssumption
<1>2. wire' \in Seq(Byte \ {NUL}) /\ wire' \in Seq(Byte)
  BY <1>1 DEF Say, IInv, WireText
<1>3. said' \in Seq(Message) /\ starts' \in Seq(Nat) /\ starts' # << >>
  <2>1. starts \in Seq(Nat) /\ Len(starts) \in 1 .. Len(starts)
    BY EmptySeq DEF IInv, TypeOK
  <2>2. starts[Len(starts)] + Len(m.text) \in Nat
    BY <1>1, <2>1
  <2>3. starts' \in Seq(Nat) /\ starts' # << >>
    BY <2>1, <2>2, AppendProperties DEF Say
  <2> QED BY <2>3 DEF Say, IInv, TypeOK
<1>4. messages' \in 0 .. MaxMessages
  BY SessionAssumption DEF Say, IInv, TypeOK
<1>5. TypeOK'
  BY <1>2, <1>3, <1>4 DEF Say, IInv, TypeOK
<1>6. WireText' /\ Started' /\ ReadersServe' /\ KeptIsOther' /\ BufferTerminated'
  BY <1>2 DEF Say, IInv, WireText, Started, ReadersServe, KeptIsOther,
             BufferTerminated, Buf
<1> QED BY <1>5, <1>6 DEF IInv

LEMMA ReadInv == ASSUME IInv, Read PROVE IInv'
<1>1. PICK k \in 1 .. Space(Buf) :
        /\ k <= Len(wire)
        /\ buf' = [buf EXCEPT ![me] = Filled(@, SubSeq(wire, 1, k))]
        /\ wire' = SubSeq(wire, k + 1, Len(wire))
  BY DEF Read
<1>2. Buf \in Buffer /\ NoNulInside(Buf) /\ Space(Buf) \in Int
  BY Indices, SMTT(30) DEF IInv, TypeOK, Started, ReadersServe, Read, Buf, Space, Buffer
<1> DEFINE s == SubSeq(wire, 1, k)
<1>3. s \in Seq(Byte \ {NUL}) /\ Len(s) = k
  BY <1>1, <1>2 DEF IInv, WireText
<1>4. wire' \in Seq(Byte \ {NUL}) /\ wire' \in Seq(Byte)
  BY <1>1, <1>2 DEF IInv, WireText
<1> HIDE DEF s
<1>5. Filled(Buf, s) \in Buffer /\ LengthIsContents(Filled(Buf, s))
  BY <1>1, <1>2, <1>3, FilledIsSound
<1>6. buf' \in [Slot -> Buffer] /\ buf'[me'] = Filled(Buf, s)
  BY <1>1, <1>5 DEF Read, IInv, TypeOK, Buf, s
<1>7. TypeOK'
  BY <1>4, <1>6 DEF Read, IInv, TypeOK
<1>8. WireText' /\ Started' /\ ReadersServe' /\ KeptIsOther' /\ BufferTerminated'
  BY <1>4, <1>5, <1>6, TerminatedHasNoNul
     DEF Read, IInv, WireText, Started, ReadersServe, KeptIsOther,
             BufferTerminated, Buf
<1> QED BY <1>7, <1>8 DEF IInv

LEMMA OverflowInv == ASSUME IInv, Overflow PROVE IInv'
<1>1. buf' \in [Slot -> Buffer]
  BY ClearedIsSound DEF Overflow, IInv, TypeOK
<1>2. TypeOK'
  BY <1>1 DEF Overflow, End, IInv, TypeOK, Phase, net
<1>3. WireText' /\ Started' /\ ReadersServe' /\ KeptIsOther' /\ BufferTerminated'
  BY DEF Overflow, End, IInv, WireText, Started, ReadersServe, KeptIsOther,
             BufferTerminated, net
<1> QED BY <1>2, <1>3 DEF IInv

\* Where a command may take the connection from where somebody reads.
LEMMA NextPhases ==
  ASSUME phase \in Phase \ {"none", "stuck"}, NEW cmd, phase' \in NextPhase(cmd)
  PROVE  /\ phase' \in Phase
         /\ phase' = "resume" => phase = "login" /\ kept # None
BY DEF NextPhase, AfterLogin, AfterResume, InLobby, InWaitingRoom, InGame, Phase

LEMMA TakeLineInv == ASSUME IInv, TakeLine PROVE IInv'
<1>1. CASE Overruns(Buf)
  <2>1. TypeOK'
    BY <1>1 DEF TakeLine, IInv, TypeOK, Phase, net
  <2> QED BY <1>1, <2>1
      DEF TakeLine, IInv, WireText, Started, ReadersServe, KeptIsOther,
             BufferTerminated, net
<1>2. CASE ~Overruns(Buf)
  <2>1. /\ Buf \in Buffer /\ NoNulInside(Buf) /\ HasLine(Buf)
        /\ phase \in Phase \ {"none", "stuck"}
    BY DEF TakeLine, IInv, TypeOK, Started, ReadersServe, Buf
  <2>2. Removed(Buf) \in Buffer /\ LengthIsContents(Removed(Buf))
    BY <1>2, <2>1, RemovedIsSound
  <2>3. CASE TooLong(Buf) \/ CommandLength(Buf) = 0
    <3>1. buf' = [buf EXCEPT ![me] = Removed(@)] /\ me' = me /\ crashed' = crashed
      BY <1>2, <2>3 DEF TakeLine
    <3>2. buf' \in [Slot -> Buffer]
      BY <2>2, <3>1 DEF IInv, TypeOK, Buf
    <3>3. \E why : End(why)
      BY <1>2, <2>3 DEF TakeLine
    <3>4. TypeOK'
      BY <3>1, <3>2, <3>3 DEF TakeLine, End, IInv, TypeOK, Phase, net
    <3> QED BY <3>3, <3>4
        DEF TakeLine, End, IInv, WireText, Started, ReadersServe, KeptIsOther,
             BufferTerminated, net
  <2>4. CASE ~(TooLong(Buf) \/ CommandLength(Buf) = 0)
    <3>1. PICK cmd : Obey(cmd)
      BY <1>2, <2>4 DEF TakeLine
    <3>2. /\ phase' \in Phase /\ reading' = FALSE /\ playing' \in BOOLEAN
          /\ phase' = "resume" => phase = "login" /\ kept # None
      BY <2>1, <3>1, NextPhases DEF Obey, IInv, TypeOK
    <3>3. CASE phase' = "resume"
      <4>1. /\ kept \in Slot /\ kept # me /\ me \in Slot /\ me' = kept /\ kept' = None
            /\ buf' = [buf EXCEPT ![me] = Removed(@),
                                  ![kept] = CopiedOver(@, Removed(Buf))]
        BY <1>2, <2>4, <3>2, <3>3 DEF TakeLine, IInv, TypeOK, KeptIsOther
      <4>2. buf \in [Slot -> Buffer] /\ Buf = buf[me]
        BY DEF IInv, TypeOK, Buf
      <4>3. /\ CopiedOver(buf[kept], Removed(Buf)) \in Buffer
            /\ NoNulInside(CopiedOver(buf[kept], Removed(Buf)))
        BY <2>2, <4>1, <4>2, CopiedOverIsSound
      <4>4. buf'[kept] = CopiedOver(buf[kept], Removed(Buf))
        BY <4>1, <4>2
      <4>5. buf' \in [Slot -> Buffer] /\ NoNulInside(buf'[me'])
        BY <2>2, <4>1, <4>2, <4>3, <4>4
      <4>6. TypeOK'
        BY <1>2, <3>2, <4>1, <4>5 DEF TakeLine, IInv, TypeOK, net
      <4> QED BY <3>2, <3>3, <4>1, <4>5, <4>6
          DEF TakeLine, IInv, WireText, Started, ReadersServe, KeptIsOther,
             BufferTerminated, Buf, net
    <3>4. CASE phase' # "resume"
      <4>1. buf' = [buf EXCEPT ![me] = Removed(@)] /\ me' = me /\ kept' = kept
        BY <1>2, <2>4, <3>4 DEF TakeLine
      <4>2. buf' \in [Slot -> Buffer] /\ buf'[me'] = Removed(Buf)
        BY <2>2, <4>1 DEF IInv, TypeOK, Buf
      <4>3. TypeOK'
        BY <1>2, <3>2, <4>1, <4>2 DEF TakeLine, IInv, TypeOK, net
      <4> QED BY <2>1, <2>2, <3>2, <4>1, <4>2, <4>3, TerminatedHasNoNul
          DEF TakeLine, IInv, WireText, Started, ReadersServe, KeptIsOther,
             BufferTerminated, Buf, net
    <3> QED BY <3>3, <3>4
  <2> QED BY <2>3, <2>4
<1> QED BY <1>1, <1>2

LEMMA StepInv == ASSUME IInv, [Next]_vars PROVE IInv'
<1>1. CASE Connect
  BY <1>1, ConnectInv
<1>2. ASSUME NEW m \in Message, Say(m) PROVE IInv'
  BY <1>2, SayInv
<1>3. CASE Hangup
  BY <1>3, Quiet DEF Hangup, IInv, TypeOK, ReadersServe, KeptIsOther
<1>4. CASE Call
  BY <1>4, Quiet DEF Call, Called, net, IInv, TypeOK, Phase, KeptIsOther
<1>5. CASE Read
  BY <1>5, ReadInv
<1>6. CASE ReadTimesOut
  BY <1>6, Quiet DEF ReadTimesOut, net, IInv, TypeOK, KeptIsOther
<1>7. CASE ReadFails
  BY <1>7, Quiet DEF ReadFails, End, net, IInv, TypeOK, Phase, KeptIsOther
<1>8. CASE Overflow
  BY <1>8, OverflowInv
<1>9. CASE TakeLine
  BY <1>9, TakeLineInv
<1>10. CASE OpponentJoins
  BY <1>10, Quiet
     DEF OpponentJoins, Elsewhere, net, IInv, TypeOK, ReadersServe, Phase, KeptIsOther
<1>11. CASE GameEnds
  <2>1. /\ kept' = None /\ playing' = FALSE
        /\ phase' = IF phase = "game" THEN "lobby" ELSE phase
        /\ phase = "game" => ~reading
    BY <1>11 DEF GameEnds
  <2>2. /\ phase' \in Phase /\ reading' \in BOOLEAN /\ closed' \in BOOLEAN
        /\ reading' => phase' \in Phase \ {"none", "stuck"}
    BY <1>11, <2>1 DEF GameEnds, Elsewhere, net, IInv, TypeOK, ReadersServe, Phase
  <2>3. kept' # me
    BY <2>1 DEF IInv, TypeOK, Slot, None
  <2> QED BY <1>11, <2>1, <2>2, <2>3, Quiet DEF GameEnds, Elsewhere, net
<1>12. CASE Kicked
  BY <1>12, Quiet DEF Kicked, Elsewhere, net, IInv, TypeOK, Phase, KeptIsOther
<1>13. CASE UNCHANGED vars
  BY <1>13, Quiet DEF vars, net, IInv, TypeOK, ReadersServe, KeptIsOther
<1> QED
  BY <1>1, <1>2, <1>3, <1>4, <1>5, <1>6, <1>7, <1>8, <1>9, <1>10, <1>11, <1>12, <1>13
     DEF Next, ThreadStep

LEMMA Invariance == Spec => []IInv
<1>1. Init => IInv
  BY InitInv
<1>2. IInv /\ [Next]_vars => IInv'
  BY StepInv
<1> QED BY <1>1, <1>2, PTL DEF Spec

-----------------------------------------------------------------------------
\* The buffer stays in its bounds: buffer_len leaves room for the NUL, and no index
\* of receive_command is outside, for every size of the buffers (protocol.c:83-100).
THEOREM TypeCorrect == Spec => []TypeOK
BY Invariance, PTL DEF IInv

\* Outside a login and a takeover buffer_len is the length of the string in the
\* buffer (lobby.h:32-33, protocol.c:100, 148).
THEOREM ContentsTerminated == Spec => []BufferTerminated
BY Invariance, PTL DEF IInv

\* Only the first line read from a slot that was taken over can be one behind the
\* received bytes (protocol.c:146, server.c:733).
THEOREM OverrunNeedsTakeover == Spec => OverrunsOnlyOnTakeover
<1>1. IInv /\ [Next]_vars => (crashed' => crashed \/ phase = "resume")
  <2> SUFFICES ASSUME IInv, [Next]_vars, crashed', ~crashed PROVE phase = "resume"
    OBVIOUS
  <2>1. TakeLine /\ Overruns(Buf)
    BY DEF Next, ThreadStep, vars, net, Connect, Say, Hangup, Call, Read, ReadTimesOut,
           ReadFails, Overflow, TakeLine, OpponentJoins, GameEnds, Kicked, Elsewhere
  <2>2. Buf \in Buffer /\ HasLine(Buf) /\ phase # "none"
    BY <2>1 DEF TakeLine, IInv, TypeOK, ReadersServe, Buf
  <2>3. ~LengthIsContents(Buf)
    BY <2>1, <2>2, NoOverrun
  <2> QED BY <2>2, <2>3 DEF IInv, BufferTerminated
<1> QED BY <1>1, Invariance, PTL DEF Spec, OverrunsOnlyOnTakeover

-----------------------------------------------------------------------------
(* Nothing is lost, and every line is heard for what it was meant            *)

\* The i-th of the bytes in b with those of w behind them.
ByteAt(b, w, i) == IF i <= b.len THEN b.bytes[i - 1] ELSE w[i - b.len]

\* The messages after the n-th, one behind the other, are what b and w hold.
Pending(b, w, n) ==
  /\ n + 1 \in 1 .. Len(starts)
  /\ b.len + Len(w) = starts[Len(starts)] - starts[n + 1]
  /\ \A i \in n + 1 .. Len(said) : \A k \in 1 .. Len(said[i].text) :
       ByteAt(b, w, starts[i] - starts[n + 1] + k) = said[i].text[k]

\* How starts divides what was said.
Divided ==
  /\ Len(starts) = Len(said) + 1
  /\ \A i \in 1 .. Len(said) : starts[i + 1] = starts[i] + Len(said[i].text)
  /\ \A i, j \in 1 .. Len(starts) : i <= j => starts[i] <= starts[j]

\* HeardInOrder, and that nothing is heard that was not said.
HeardWhatWasSaid ==
  \A i \in 1 .. Len(heard) :
    heard[i] = Gone \/ (i <= Len(said) /\ heard[i] = said[i].means)

HeardTyped == \E S : heard \in Seq(S)

InStep ==
  /\ IInv /\ Divided /\ HeardTyped /\ HeardWhatWasSaid
  /\ phase # "none" => Pending(Buf, wire, Len(heard))

LEMMA ByteInBuffer == ASSUME NEW b, NEW w, NEW i, i <= b.len
                      PROVE  ByteAt(b, w, i) = b.bytes[i - 1]
BY DEF ByteAt

LEMMA ByteOnWire == ASSUME NEW b, NEW w, NEW i \in Int, b.len \in Int, b.len < i
                    PROVE  ByteAt(b, w, i) = w[i - b.len]
BY DEF ByteAt

\* What a read takes from the wire it puts behind the bytes in the buffer (97-101).
LEMMA ReadKeepsOrder ==
  ASSUME NEW b \in Buffer, NEW w \in Seq(Byte), NEW k \in 1 .. Space(b), k <= Len(w)
  PROVE  /\ Filled(b, SubSeq(w, 1, k)).len + Len(SubSeq(w, k + 1, Len(w))) = b.len + Len(w)
         /\ \A i \in 1 .. b.len + Len(w) :
              ByteAt(Filled(b, SubSeq(w, 1, k)), SubSeq(w, k + 1, Len(w)), i) = ByteAt(b, w, i)
<1> DEFINE s == SubSeq(w, 1, k)
           v == SubSeq(w, k + 1, Len(w))
           c == Filled(b, s)
<1>0. b.len \in Nat /\ Len(w) \in Nat /\ k \in Nat /\ 1 <= k /\ b.len + k < READ_SIZE
  BY Indices DEF Buffer, Space
<1>1. /\ Len(s) = k /\ \A i \in 1 .. k : s[i] = w[i]
      /\ Len(v) = Len(w) - k /\ \A i \in 1 .. Len(w) - k : v[i] = w[i + k]
  BY <1>0
<1> HIDE DEF s, v
<1>2. c.len = b.len + k
  BY <1>1 DEF Filled
<1>3. ASSUME NEW i \in 1 .. b.len + Len(w)
      PROVE  ByteAt(c, v, i) = ByteAt(b, w, i)
  <2>1. CASE i <= b.len + k
    <3>1. i - 1 \in Index
      BY <1>0, <2>1, Indices
    <3>2. c.bytes[i - 1] = IF b.len <= i - 1 THEN s[i - 1 - b.len + 1] ELSE b.bytes[i - 1]
      BY <1>0, <1>1, <2>1, <3>1 DEF Filled
    <3>3. CASE i <= b.len
      BY <1>0, <1>2, <2>1, <3>2, <3>3 DEF ByteAt
    <3>4. CASE b.len < i
      <4>1. i - 1 - b.len + 1 = i - b.len /\ i - b.len \in 1 .. k
        BY <1>0, <2>1, <3>4
      <4> QED BY <1>0, <1>1, <1>2, <2>1, <3>2, <3>4, <4>1 DEF ByteAt
    <3> QED BY <1>0, <3>3, <3>4
  <2>2. CASE b.len + k < i
    <3>1. i - (b.len + k) \in 1 .. Len(w) - k /\ i - (b.len + k) + k = i - b.len
      BY <1>0, <2>2
    <3> HIDE DEF c
    <3> QED BY <1>0, <1>1, <1>2, <2>2, <3>1 DEF ByteAt
  <2> QED BY <1>0, <2>1, <2>2
<1> HIDE DEF c
<1>4. c.len + Len(v) = b.len + Len(w)
  <2>1. b.len \in Int /\ Len(w) \in Int /\ k \in Int /\ Len(v) = Len(w) - k
    BY <1>0, <1>1
  <2> QED BY <1>2, <2>1
<1> QED BY <1>3, <1>4 DEF c, s, v

\* What is behind a line that is removed moves up by its length (144-148).
LEMMA RemovedKeepsOrder ==
  ASSUME NEW b \in Buffer, HasLine(b), ~Overruns(b), NEW w, Len(w) \in Nat
  PROVE  /\ Newline(b) + 1 \in 1 .. b.len
         /\ Removed(b).len = b.len - (Newline(b) + 1)
         /\ \A i \in 1 .. Removed(b).len + Len(w) :
              ByteAt(Removed(b), w, i) = ByteAt(b, w, i + (Newline(b) + 1))
<1> DEFINE k == Newline(b)
           n == b.len - (k + 1)
<1>1. k \in Nat /\ k < b.len /\ b.len \in Nat /\ b.len < READ_SIZE /\ READ_SIZE \in Nat
  <2>1. k \in Index /\ b.len \in Index
    BY NewlineFound DEF Buffer
  <2> QED BY <2>1, Indices DEF Overruns
<1>2. Removed(b) = [bytes |-> [i \in Index |-> IF i < n THEN b.bytes[i + k + 1]
                                               ELSE IF i = n THEN NUL ELSE b.bytes[i]],
                    len |-> n]
  BY DEF Removed
<1> HIDE DEF k
<1>3. n \in Nat /\ n + (k + 1) = b.len /\ n < READ_SIZE /\ k + 1 \in 1 .. b.len
  BY <1>1
<1>4. /\ Removed(b).len = n
      /\ \A i \in Index : i < n => Removed(b).bytes[i] = b.bytes[i + k + 1]
  BY <1>2
<1> HIDE DEF n
<1>5. ASSUME NEW i \in 1 .. n + Len(w)
      PROVE  ByteAt(Removed(b), w, i) = ByteAt(b, w, i + (k + 1))
  <2>1. i \in Nat /\ 1 <= i
    BY <1>3
  <2>2. CASE i <= n
    <3>1. i - 1 \in Index /\ i - 1 < n
      BY <1>3, <2>1, <2>2, Indices
    <3>2. i + (k + 1) <= b.len /\ (i - 1) + k + 1 = (i + (k + 1)) - 1
      BY <1>1, <1>3, <2>1, <2>2
    <3>3. ByteAt(Removed(b), w, i) = b.bytes[(i - 1) + k + 1]
      BY <1>4, <2>2, <3>1 DEF ByteAt
    <3>4. ByteAt(b, w, i + (k + 1)) = b.bytes[(i + (k + 1)) - 1]
      BY <1>1, <2>1, <3>2 DEF ByteAt
    <3> QED BY <3>2, <3>3, <3>4
  <2>3. CASE n < i
    <3>1. k \in Int /\ b.len \in Int /\ n \in Int /\ i \in Int /\ n + (k + 1) = b.len
      BY <1>1, <1>3, <2>1
    <3>2. ~(i <= n) /\ b.len < i + (k + 1) /\ i + (k + 1) \in Int
      BY <3>1, <2>3
    <3>3. (i + (k + 1)) - b.len = i - n
      BY <3>1
    <3>4. ByteAt(Removed(b), w, i) = w[i - n]
      BY <1>4, <3>2 DEF ByteAt
    <3>5. ByteAt(b, w, i + (k + 1)) = w[(i + (k + 1)) - b.len]
      BY <3>1, <3>2, ByteOnWire
    <3> QED BY <3>3, <3>4, <3>5
  <2> QED BY <1>3, <2>1, <2>2, <2>3
<1>6. Removed(b).len = b.len - (k + 1)
  BY <1>4 DEF n
<1> QED BY <1>3, <1>4, <1>5, <1>6 DEF k

\* The bytes behind a LOGIN are in the kept slot's buffer what they were (server.c:733).
LEMMA CopiedKeepsOrder ==
  ASSUME NEW b \in Buffer, NEW from \in Buffer, NEW w, Len(w) \in Nat
  PROVE  /\ CopiedOver(b, from).len = from.len
         /\ \A i \in 1 .. from.len + Len(w) :
              ByteAt(CopiedOver(b, from), w, i) = ByteAt(from, w, i)
<1>1. CopiedOver(b, from).len = from.len /\ from.len \in Index
  BY DEF CopiedOver, Buffer
<1>2. ASSUME NEW i \in 1 .. from.len, i <= from.len
      PROVE  CopiedOver(b, from).bytes[i - 1] = from.bytes[i - 1]
  <2>1. i - 1 \in Index /\ i - 1 < from.len
    BY <1>1, Indices
  <2> QED BY <2>1 DEF CopiedOver
<1> QED BY <1>1, <1>2, Indices DEF ByteAt

\* A newline among the bytes that count is found: there is a first one.
LEMMA NewlineIsFound ==
  ASSUME NEW b \in Buffer, NoNulInside(b), NEW i \in Index, i < b.len, b.bytes[i] = LF
  PROVE  HasLine(b)
<1> DEFINE T == {j \in Nat : j < b.len /\ b.bytes[j] = LF}
           R == {pair \in Nat \X Nat : pair[1] < pair[2]}
<1>1. i \in T /\ T \subseteq Nat
  BY Indices
<1>2. IsWellFoundedOn(R, Nat)
  BY NatLessThanWellFounded DEF OpToRel
<1>3. PICK k \in T : \A j \in T : ~ (<<j, k>> \in R)
  <2> HIDE DEF T, R
  <2> QED BY <1>1, <1>2, WFMin
<1>4. k \in Nat /\ b.len \in Index /\ b.len \in Nat /\ k < b.len /\ b.bytes[k] = LF
  BY Indices DEF Buffer
<1>5. k \in Index
  BY <1>4, Indices
<1>6. ASSUME NEW j \in Index, j < k PROVE b.bytes[j] \notin {LF, NUL}
  <2>1. j \in Nat /\ j < b.len
    BY <1>4, <1>6, Indices
  <2>2. b.bytes[j] # NUL
    BY <2>1 DEF NoNulInside
  <2>3. b.bytes[j] # LF
    <3>1. <<j, k>> \in R
      BY <1>4, <1>6, <2>1
    <3> QED BY <1>3, <2>1, <3>1
  <2> QED BY <2>2, <2>3
<1> QED BY <1>4, <1>5, <1>6 DEF HasLine, NewlineAt

\* The line in the buffer is what its bytes were meant to be (127-142).
LEMMA LineMeans ==
  ASSUME NEW m \in Message, NEW b \in Buffer, HasLine(b), ~Overruns(b),
         Len(m.text) = Newline(b) + 1,
         \A i \in 1 .. Len(m.text) : b.bytes[i - 1] = m.text[i]
  PROVE  m.means = IF TooLong(b) THEN Overlong
                   ELSE IF CommandLength(b) = 0 THEN Blank
                   ELSE parse_command(Command(b))
<1> DEFINE t == m.text
           k == Newline(b)
           body == CommandLength(b)
<1>1. /\ k \in Nat /\ k < b.len /\ b.len \in Nat /\ b.len < READ_SIZE /\ READ_SIZE \in Nat
      /\ b.bytes[k] = LF /\ t \in Seq(Byte) /\ Len(t) = k + 1
  <2>1. k \in Index /\ b.len \in Index /\ b.bytes[k] = LF
    BY NewlineFound DEF Buffer, NewlineAt
  <2>2. t \in Seq(Byte \ {NUL})
    BY SessionAssumption
  <2> QED BY <2>1, <2>2, Indices DEF Overruns
<1>2. m.means = Meaning(t)
  BY MessageAssumption
<1> HIDE DEF t
<1>3. \A i \in 1 .. k + 1 : b.bytes[i - 1] = t[i]
  BY <1>1 DEF t
<1> HIDE DEF k
<1>4. t[Len(t)] = LF /\ Len(t) < READ_SIZE
  <2>1. k + 1 \in 1 .. k + 1 /\ (k + 1) - 1 = k
    BY <1>1
  <2> QED BY <1>1, <1>3, <2>1
<1>5. /\ body = IF Len(t) > 1 /\ t[Len(t) - 1] = CR THEN Len(t) - 2 ELSE Len(t) - 1
      /\ body \in 0 .. k
  <2>1. body = IF k > 0 /\ b.bytes[k - 1] = CR THEN k - 1 ELSE k
    BY DEF CommandLength, k
  <2>2. k > 0 => b.bytes[k - 1] = t[k]
    BY <1>1, <1>3
  <2>3. Len(t) - 1 = k /\ Len(t) - 2 = k - 1
    BY <1>1
  <2> QED BY <1>1, <2>1, <2>2, <2>3
<1> HIDE DEF body
<1>6. SubSeq(t, 1, body) = [i \in 1 .. body |-> b.bytes[i - 1]]
  <2>1. SubSeq(t, 1, body) = [i \in 1 .. body |-> t[i]]
    BY <1>1, <1>5, SubSeqRestrict DEF Restrict
  <2>2. \A i \in 1 .. body : b.bytes[i - 1] = t[i]
    BY <1>1, <1>3, <1>5
  <2> QED BY <2>1, <2>2
<1>7. Command(b) = SubSeq(t, 1, body)
  BY <1>6 DEF Command, body
<1>8. Meaning(t) = IF body >= OUT_SIZE THEN Overlong ELSE IF body = 0 THEN Blank
                   ELSE parse_command(SubSeq(t, 1, body))
  <2>1. ~(t[Len(t)] # LF) /\ ~(Len(t) >= READ_SIZE)
    BY <1>1, <1>4
  <2> QED BY <1>5, <2>1 DEF Meaning
<1> QED BY <1>2, <1>7, <1>8 DEF TooLong, body

SaidTyped == said \in Seq(Message) /\ starts \in Seq(Nat) /\ Divided

LEMMA SaidTypes ==
  ASSUME SaidTyped
  PROVE  /\ Len(said) \in Nat /\ Len(starts) = Len(said) + 1
         /\ \A i \in 1 .. Len(starts) : starts[i] \in Nat
         /\ \A i \in 1 .. Len(said) : said[i] \in Message /\ Len(said[i].text) \in Nat \ {0}
BY SessionAssumption, MessageAssumption DEF SaidTyped, Divided

\* A byte of a message that is pending is one of the bytes that are.
LEMMA ByteIsPending ==
  ASSUME SaidTyped, NEW i \in 1 .. Len(said), NEW k \in 1 .. Len(said[i].text),
         NEW n \in 1 .. i
  PROVE  starts[i] - starts[n] + k \in 1 .. starts[Len(starts)] - starts[n]
<1>1. /\ i \in Nat /\ n \in Nat /\ Len(said) \in Nat /\ Len(starts) = Len(said) + 1
      /\ n \in 1 .. Len(starts) /\ i \in 1 .. Len(starts) /\ i + 1 \in 1 .. Len(starts)
      /\ Len(starts) \in 1 .. Len(starts) /\ n <= i /\ i + 1 <= Len(starts)
  BY SaidTypes
<1>2. /\ starts[n] <= starts[i] /\ starts[i + 1] <= starts[Len(starts)]
      /\ starts[i + 1] = starts[i] + Len(said[i].text)
  BY <1>1 DEF SaidTyped, Divided
<1>3. /\ starts[n] \in Nat /\ starts[i] \in Nat /\ starts[Len(starts)] \in Nat
      /\ Len(said[i].text) \in Nat /\ k \in Nat /\ 1 <= k /\ k <= Len(said[i].text)
  BY <1>1, SaidTypes
<1>4. \A a, e, x, l \in Nat : \A j \in Nat :
        a <= x /\ x + l <= e /\ 1 <= j /\ j <= l => x - a + j \in 1 .. e - a
  OBVIOUS
<1>5. starts[i] + Len(said[i].text) <= starts[Len(starts)]
  BY <1>2
<1> QED BY <1>2, <1>3, <1>4, <1>5

\* The same bytes elsewhere are the same messages.
LEMMA PendingKept ==
  ASSUME SaidTyped, NEW b, NEW w, NEW c, NEW v, NEW n \in Nat, Pending(b, w, n),
         c.len + Len(v) = b.len + Len(w),
         \A i \in 1 .. b.len + Len(w) : ByteAt(c, v, i) = ByteAt(b, w, i)
  PROVE  Pending(c, v, n)
<1>1. n + 1 \in 1 .. Len(starts) /\ c.len + Len(v) = starts[Len(starts)] - starts[n + 1]
  BY DEF Pending
<1>2. ASSUME NEW i \in n + 1 .. Len(said), NEW k \in 1 .. Len(said[i].text)
      PROVE  ByteAt(c, v, starts[i] - starts[n + 1] + k) = said[i].text[k]
  <2>1. i \in 1 .. Len(said) /\ n + 1 \in 1 .. i
    BY SaidTypes
  <2>2. starts[i] - starts[n + 1] + k \in 1 .. b.len + Len(w)
    BY <2>1, ByteIsPending DEF Pending
  <2>3. ByteAt(b, w, starts[i] - starts[n + 1] + k) = said[i].text[k]
    BY DEF Pending
  <2> QED BY <2>2, <2>3
<1> QED BY <1>1, <1>2 DEF Pending

\* Bytes in the buffer belong to a message that was said and not heard.
LEMMA SomethingPending ==
  ASSUME SaidTyped, NEW b \in Buffer, NEW w \in Seq(Byte), NEW n \in Nat, Pending(b, w, n),
         b.len > 0
  PROVE  /\ n + 1 \in 1 .. Len(said)
         /\ \A k \in 1 .. Len(said[n + 1].text) : ByteAt(b, w, k) = said[n + 1].text[k]
<1>1. /\ b.len \in Nat /\ Len(w) \in Nat /\ n + 1 \in 1 .. Len(starts)
      /\ b.len + Len(w) = starts[Len(starts)] - starts[n + 1]
  BY Indices DEF Buffer, Pending
<1>2. /\ Len(starts) = Len(said) + 1 /\ Len(said) \in Nat
      /\ starts[n + 1] \in Nat /\ starts[Len(starts)] \in Nat
  BY <1>1, SaidTypes
<1>3. n + 1 \in 1 .. Len(said)
  <2>1. n + 1 # Len(starts)
    BY <1>1, <1>2
  <2>2. n + 1 \in 1 .. Len(said) + 1 /\ n + 1 # Len(said) + 1
    BY <1>1, <1>2, <2>1
  <2> QED BY <1>2, <2>2
<1>4. ASSUME NEW k \in 1 .. Len(said[n + 1].text)
      PROVE  ByteAt(b, w, k) = said[n + 1].text[k]
  <2>1. ByteAt(b, w, starts[n + 1] - starts[n + 1] + k) = said[n + 1].text[k]
    <3>1. n + 1 \in n + 1 .. Len(said)
      BY <1>3
    <3> QED BY <3>1 DEF Pending
  <2>2. starts[n + 1] - starts[n + 1] + k = k
    <3>1. k \in Int
      BY <1>3, SaidTypes
    <3> QED BY <1>2, <3>1
  <2> QED BY <2>1, <2>2
<1> QED BY <1>3, <1>4

\* The line that is found is the first message that was not heard, all of it.
LEMMA LineIsMessage ==
  ASSUME SaidTyped, NEW b \in Buffer, NEW w \in Seq(Byte), NEW n \in Nat, Pending(b, w, n),
         HasLine(b), ~Overruns(b)
  PROVE  /\ n + 1 \in 1 .. Len(said)
         /\ Len(said[n + 1].text) = Newline(b) + 1
         /\ \A i \in 1 .. Len(said[n + 1].text) : b.bytes[i - 1] = said[n + 1].text[i]
<1> DEFINE k == Newline(b)
           m == said[n + 1]
           L == Len(m.text)
<1>1. /\ k \in Nat /\ k < b.len /\ b.len \in Nat /\ b.len < READ_SIZE /\ READ_SIZE \in Nat
      /\ b.bytes[k] = LF /\ \A j \in Index : j < k => b.bytes[j] # LF
  <2>1. k \in Index /\ b.len \in Index
    BY NewlineFound DEF Buffer
  <2> QED BY <2>1, NewlineFound, Indices DEF Overruns, NewlineAt
<1>2. /\ n + 1 \in 1 .. Len(said)
      /\ \A i \in 1 .. L : ByteAt(b, w, i) = m.text[i]
  <2>1. b.len > 0
    BY <1>1
  <2> QED BY <2>1, SomethingPending
<1>3. m \in Message /\ L \in Nat /\ 1 <= L
  BY <1>2, SaidTypes
<1>4. /\ \A i \in 1 .. L : m.text[i] = LF => i = L
      /\ m.text[L] = LF \/ L >= READ_SIZE - 1
  BY <1>3, MessageAssumption
<1> HIDE DEF k, m, L
<1>5. \A i \in 1 .. L : i <= b.len => b.bytes[i - 1] = m.text[i]
  BY <1>2, ByteInBuffer
<1>6. ~(k + 1 < L)
  <2> SUFFICES ASSUME k + 1 < L PROVE FALSE
    OBVIOUS
  <2>1. k + 1 \in 1 .. L /\ k + 1 <= b.len /\ (k + 1) - 1 = k
    <3>1. k \in Nat /\ b.len \in Nat /\ k < b.len /\ L \in Nat
      BY <1>1, <1>3
    <3> QED BY <3>1
  <2>2. m.text[k + 1] = LF
    BY <1>1, <1>5, <2>1
  <2> QED BY <1>1, <1>3, <1>4, <2>1, <2>2
<1>7. ~(L < k + 1)
  <2> SUFFICES ASSUME L < k + 1 PROVE FALSE
    OBVIOUS
  <2>1. L \in 1 .. L /\ L <= b.len /\ L - 1 \in Index /\ L - 1 < k
    BY <1>1, <1>3, Indices
  <2>2. m.text[L] # LF
    BY <1>1, <1>5, <2>1
  <2>3. L >= READ_SIZE - 1
    BY <1>4, <2>2
  <2> QED BY <1>1, <1>3, <2>3
<1>8. L = k + 1
  BY <1>1, <1>3, <1>6, <1>7
<1>9. \A i \in 1 .. L : b.bytes[i - 1] = m.text[i]
  <2>1. \A i \in 1 .. L : i <= b.len
    BY <1>1, <1>3, <1>8
  <2> QED BY <1>5, <2>1
<1> QED BY <1>2, <1>8, <1>9 DEF k, m, L

\* When it is removed the messages behind it are pending.
LEMMA RestIsPending ==
  ASSUME SaidTyped, NEW b \in Buffer, NEW w \in Seq(Byte), NEW n \in Nat, Pending(b, w, n),
         HasLine(b), ~Overruns(b)
  PROVE  Pending(Removed(b), w, n + 1)
<1> DEFINE l == Newline(b) + 1
<1>1. n + 1 \in 1 .. Len(said) /\ Len(said[n + 1].text) = l
  BY LineIsMessage
<1>2. /\ l \in 1 .. b.len /\ Removed(b).len = b.len - l
      /\ \A i \in 1 .. Removed(b).len + Len(w) : ByteAt(Removed(b), w, i) = ByteAt(b, w, i + l)
  BY RemovedKeepsOrder
<1> HIDE DEF l
<1>3. /\ b.len \in Nat /\ l \in Nat /\ Len(w) \in Nat /\ Len(said) \in Nat
      /\ Len(starts) = Len(said) + 1
      /\ b.len + Len(w) = starts[Len(starts)] - starts[n + 1]
  BY <1>2, SaidTypes, Indices DEF Buffer, Pending
<1>4. /\ (n + 1) + 1 \in 1 .. Len(starts) /\ n + 1 \in 1 .. Len(starts)
      /\ Len(starts) \in 1 .. Len(starts)
  BY <1>1, <1>3
<1>5. /\ starts[(n + 1) + 1] = starts[n + 1] + l
      /\ starts[n + 1] \in Nat /\ starts[(n + 1) + 1] \in Nat /\ starts[Len(starts)] \in Nat
  BY <1>1, <1>4, SaidTypes DEF SaidTyped, Divided
<1>6. Removed(b).len + Len(w) = starts[Len(starts)] - starts[(n + 1) + 1]
  <2>1. PICK x \in Nat, y \in Nat, z \in Nat, a \in Nat :
          x = b.len /\ y = Len(w) /\ z = starts[Len(starts)] /\ a = starts[n + 1]
    BY <1>3, <1>5
  <2>2. (x - l) + y = z - (a + l)
    <3>1. x + y = z - a /\ l \in Nat
      BY <1>3, <2>1
    <3> QED BY <3>1
  <2>3. Removed(b).len = b.len - l
    BY <1>2
  <2> QED BY <1>5, <2>1, <2>2, <2>3
<1>7. ASSUME NEW i \in (n + 1) + 1 .. Len(said), NEW k \in 1 .. Len(said[i].text)
      PROVE  ByteAt(Removed(b), w, starts[i] - starts[(n + 1) + 1] + k) = said[i].text[k]
  <2>1. i \in 1 .. Len(said) /\ (n + 1) + 1 \in 1 .. i /\ i \in n + 1 .. Len(said)
    BY <1>3
  <2>2. starts[i] - starts[(n + 1) + 1] + k \in 1 .. Removed(b).len + Len(w)
    BY <1>6, <2>1, ByteIsPending
  <2>3. (starts[i] - starts[(n + 1) + 1] + k) + l = starts[i] - starts[n + 1] + k
    <3>1. starts[i] \in Nat /\ k \in Nat
      BY <1>3, <2>1, SaidTypes
    <3>2. \A x, a, c, j \in Nat : (x - (a + c) + j) + c = x - a + j
      OBVIOUS
    <3> QED BY <1>3, <1>5, <3>1, <3>2, SMTT(30)
  <2>4. ByteAt(b, w, starts[i] - starts[n + 1] + k) = said[i].text[k]
    BY <2>1 DEF Pending
  <2> QED BY <1>2, <2>2, <2>3, <2>4
<1> QED BY <1>4, <1>6, <1>7 DEF Pending

\* A full buffer is the beginning of a message that is too long (85-88).
LEMMA FullMeans ==
  ASSUME SaidTyped, NEW b \in Buffer, NEW w \in Seq(Byte), NEW n \in Nat, Pending(b, w, n),
         NoNulInside(b), IsFull(b)
  PROVE  n + 1 \in 1 .. Len(said) /\ said[n + 1].means = Overlong
<1> DEFINE m == said[n + 1]
           L == Len(m.text)
<1>1. b.len \in Nat /\ b.len = READ_SIZE - 1 /\ READ_SIZE \in Nat /\ b.len > 0 /\ ~HasLine(b)
  BY Indices, BufferAssumption DEF Buffer, IsFull
<1>2. /\ n + 1 \in 1 .. Len(said)
      /\ \A i \in 1 .. L : ByteAt(b, w, i) = m.text[i]
  BY <1>1, SomethingPending
<1>3. m \in Message /\ L \in Nat /\ 1 <= L /\ m.means = Meaning(m.text)
  BY <1>2, SaidTypes, MessageAssumption
<1> HIDE DEF m, L
<1>4. m.text[L] # LF \/ L >= READ_SIZE
  <2>1. CASE L <= b.len
    <3>1. L \in 1 .. L /\ L - 1 \in Index /\ L - 1 < b.len
      BY <1>1, <1>3, <2>1, Indices
    <3>2. b.bytes[L - 1] = m.text[L]
      BY <1>2, <2>1, <3>1, ByteInBuffer
    <3>3. b.bytes[L - 1] # LF
      BY <1>1, <3>1, NewlineIsFound
    <3> QED BY <3>2, <3>3
  <2>2. CASE b.len < L
    BY <1>1, <1>3, <2>2
  <2> QED BY <1>1, <1>3, <2>1, <2>2
<1>5. Meaning(m.text) = Overlong
  BY <1>4 DEF Meaning, L
<1> QED BY <1>2, <1>3, <1>5 DEF m

-----------------------------------------------------------------------------
LEMMA InStepTypes ==
  ASSUME InStep
  PROVE  /\ SaidTyped /\ Buf \in Buffer /\ wire \in Seq(Byte) /\ Len(heard) \in Nat
         /\ me \in Slot /\ buf \in [Slot -> Buffer]
BY DEF InStep, IInv, TypeOK, SaidTyped, HeardTyped, Buf

\* What is heard next is what was said next, or that the connection is gone.
LEMMA HearsNext ==
  ASSUME HeardTyped, HeardWhatWasSaid, NEW x, heard' = Append(heard, x), said' = said,
         x = Gone \/ (Len(heard) + 1 \in 1 .. Len(said) /\ x = said[Len(heard) + 1].means)
  PROVE  HeardTyped' /\ HeardWhatWasSaid' /\ Len(heard') = Len(heard) + 1
<1>1. PICK S : heard \in Seq(S)
  BY DEF HeardTyped
<1>2. heard \in Seq(S \cup {x}) /\ x \in S \cup {x}
  BY <1>1, SeqMonotonic
<1>3. /\ heard' \in Seq(S \cup {x}) /\ Len(heard') = Len(heard) + 1
      /\ heard'[Len(heard) + 1] = x
      /\ \A i \in 1 .. Len(heard) : heard'[i] = heard[i]
  BY <1>2, AppendProperties
<1>4. ASSUME NEW i \in 1 .. Len(heard')
      PROVE  heard'[i] = Gone \/ (i <= Len(said) /\ heard'[i] = said[i].means)
  <2>1. Len(heard) \in Nat
    BY <1>1
  <2>2. CASE i = Len(heard) + 1
    BY <1>3, <2>1, <2>2
  <2>3. CASE i # Len(heard) + 1
    <3>1. i \in 1 .. Len(heard)
      BY <1>3, <2>1, <2>3
    <3> QED BY <1>3, <3>1 DEF HeardWhatWasSaid
  <2> QED BY <2>2, <2>3
<1> QED BY <1>3, <1>4 DEF HeardTyped, HeardWhatWasSaid

LEMMA InitInStep == Init => InStep
<1> SUFFICES ASSUME Init PROVE InStep
  OBVIOUS
<1>1. said = << >> /\ heard = << >> /\ starts = <<0>> /\ phase = "none"
  BY DEF Init
<1>2. HeardTyped
  <2>1. heard \in Seq({})
    BY <1>1, EmptySeq
  <2> QED BY <2>1 DEF HeardTyped
<1> QED BY <1>1, <1>2, InitInv DEF InStep, Divided, HeardWhatWasSaid

\* A step that neither hears nor says nor moves a byte.
LEMMA Undisturbed ==
  ASSUME InStep, IInv', buf' = buf, me' = me, wire' = wire, said' = said, starts' = starts,
         heard' = heard, phase' # "none" => phase # "none"
  PROVE  InStep'
BY DEF InStep, Divided, HeardTyped, HeardWhatWasSaid, Pending, ByteAt, Buf

\* A connection that comes has said nothing, and its buffer is empty.
LEMMA ConnectInStep == ASSUME InStep, IInv', Connect PROVE InStep'
<1>1. said' = << >> /\ heard' = << >> /\ starts' = <<0>> /\ wire' = << >>
  BY DEF Connect
<1>2. Buf'.len = 0
  <2>1. me' \in Slot
    BY DEF IInv, TypeOK
  <2> QED BY <2>1, InStepTypes DEF Connect, Buf, Cleared
<1>3. HeardTyped'
  <2>1. heard' \in Seq({})
    BY <1>1, EmptySeq
  <2> QED BY <2>1 DEF HeardTyped
<1>4. Divided' /\ HeardWhatWasSaid'
  BY <1>1 DEF Divided, HeardWhatWasSaid
<1>5. Pending(Buf, wire, Len(heard))'
  BY <1>1, <1>2 DEF Pending
<1> QED BY <1>3, <1>4, <1>5 DEF InStep

LEMMA ReadInStep == ASSUME InStep, IInv', Read PROVE InStep'
<1>1. PICK k \in 1 .. Space(Buf) :
        /\ k <= Len(wire)
        /\ buf' = [buf EXCEPT ![me] = Filled(@, SubSeq(wire, 1, k))]
        /\ wire' = SubSeq(wire, k + 1, Len(wire))
  BY DEF Read
<1>2. UNCHANGED <<me, phase, said, heard, starts>> /\ phase # "none"
  BY DEF Read, InStep, IInv, ReadersServe
<1>3. Buf' = Filled(Buf, SubSeq(wire, 1, k))
  BY <1>1, <1>2, InStepTypes DEF Buf
<1>4. /\ Buf'.len + Len(wire') = Buf.len + Len(wire)
      /\ \A i \in 1 .. Buf.len + Len(wire) : ByteAt(Buf', wire', i) = ByteAt(Buf, wire, i)
  BY <1>1, <1>3, InStepTypes, ReadKeepsOrder
<1>5. Pending(Buf, wire, Len(heard))
  BY <1>2 DEF InStep
<1>6. Pending(Buf', wire', Len(heard))
  BY <1>4, <1>5, InStepTypes, PendingKept
<1>7. Pending(Buf, wire, Len(heard))'
  BY <1>2, <1>6 DEF Pending
<1> QED BY <1>2, <1>7 DEF InStep, Divided, HeardTyped, HeardWhatWasSaid

\* What is said is divided after it as before it.
LEMMA SayDivides ==
  ASSUME SaidTyped, NEW m \in Message,
         said' = Append(said, m), starts' = Append(starts, starts[Len(starts)] + Len(m.text))
  PROVE  /\ Divided' /\ Len(said') = Len(said) + 1 /\ Len(starts') = Len(starts) + 1
         /\ \A i \in 1 .. Len(said) : said'[i] = said[i]
         /\ said'[Len(said) + 1] = m
         /\ \A i \in 1 .. Len(starts) : starts'[i] = starts[i]
         /\ starts'[Len(starts) + 1] = starts[Len(starts)] + Len(m.text)
<1> DEFINE N == Len(said)
           e == starts[Len(starts)] + Len(m.text)
<1>1. /\ N \in Nat /\ Len(starts) = N + 1 /\ Len(m.text) \in Nat
      /\ \A i \in 1 .. N + 1 : starts[i] \in Nat
  BY SaidTypes, SessionAssumption
<1>2. /\ e \in Nat /\ starts[N + 1] \in Nat /\ e = starts[N + 1] + Len(m.text)
      /\ starts[N + 1] <= e /\ N \in Nat
  <2>1. N + 1 \in 1 .. N + 1 /\ Len(m.text) \in Nat
    BY <1>1
  <2>2. starts[N + 1] \in Nat /\ e = starts[N + 1] + Len(m.text)
    BY <1>1, <2>1
  <2>3. N \in Nat
    BY <1>1
  <2>4. \A x, y \in Nat : x + y \in Nat /\ x <= x + y
    OBVIOUS
  <2> HIDE DEF e, N
  <2> QED BY <2>1, <2>2, <2>3, <2>4
<1>3. /\ Len(said') = N + 1 /\ said'[N + 1] = m
      /\ \A i \in 1 .. N : said'[i] = said[i]
  BY AppendProperties DEF SaidTyped
<1>4. /\ Len(starts') = (N + 1) + 1 /\ starts'[(N + 1) + 1] = e
      /\ \A i \in 1 .. N + 1 : starts'[i] = starts[i]
  BY <1>1, <1>2, AppendProperties DEF SaidTyped
<1> HIDE DEF N, e
<1>5. ASSUME NEW i \in 1 .. Len(said') PROVE starts'[i + 1] = starts'[i] + Len(said'[i].text)
  <2>1. CASE i \in 1 .. N
    <3>1. i \in 1 .. N + 1 /\ i + 1 \in 1 .. N + 1
      BY <1>1, <2>1
    <3> QED BY <1>3, <1>4, <2>1, <3>1 DEF SaidTyped, Divided, N
  <2>2. CASE i = N + 1
    <3>1. N + 1 \in 1 .. N + 1
      BY <1>1
    <3> QED BY <1>2, <1>3, <1>4, <2>2, <3>1
  <2> QED BY <1>1, <1>3, <2>1, <2>2, SMTT(30)
<1>6. ASSUME NEW i \in 1 .. Len(starts'), NEW j \in 1 .. Len(starts'), i <= j
      PROVE  starts'[i] <= starts'[j]
  <2>1. CASE j \in 1 .. N + 1
    <3>1. i \in 1 .. N + 1
      BY <1>1, <1>6, <2>1
    <3> QED BY <1>1, <1>4, <1>6, <2>1, <3>1 DEF SaidTyped, Divided
  <2>2. CASE j = (N + 1) + 1 /\ i \in 1 .. N + 1
    <3>1. starts[i] <= starts[N + 1] /\ starts[i] \in Nat
      <4>1. N + 1 \in 1 .. Len(starts) /\ i \in 1 .. Len(starts) /\ i <= N + 1
        BY <1>1, <2>2
      <4> QED BY <1>1, <4>1 DEF SaidTyped, Divided
    <3>2. starts[i] <= e
      <4>1. \A x, y, z \in Nat : x <= y /\ y <= z => x <= z
        OBVIOUS
      <4> QED BY <1>2, <3>1, <4>1
    <3>3. starts'[i] = starts[i] /\ starts'[j] = e
      BY <1>4, <2>2
    <3> QED BY <3>2, <3>3
  <2>3. CASE j = (N + 1) + 1 /\ i = (N + 1) + 1
    <3>1. starts'[i] = e /\ starts'[j] = e
      BY <1>4, <2>3
    <3>2. e <= e
      BY <1>2
    <3> QED BY <3>1, <3>2
  <2>4. i \in 1 .. (N + 1) + 1 /\ j \in 1 .. (N + 1) + 1
    BY <1>4
  <2>5. \/ j \in 1 .. N + 1
        \/ j = (N + 1) + 1 /\ (i \in 1 .. N + 1 \/ i = (N + 1) + 1)
    BY <1>2, <2>4
  <2> QED BY <2>1, <2>2, <2>3, <2>5
<1> QED BY <1>1, <1>3, <1>4, <1>5, <1>6 DEF Divided, N, e

\* What is said is the last of what is pending.
LEMMA SayIsPending ==
  ASSUME SaidTyped, NEW m \in Message, NEW b \in Buffer, NEW w \in Seq(Byte), NEW n \in Nat,
         said' = Append(said, m), starts' = Append(starts, starts[Len(starts)] + Len(m.text)),
         Pending(b, w, n)
  PROVE  /\ n + 1 \in 1 .. Len(starts')
         /\ b.len + Len(w \o m.text) = starts'[Len(starts')] - starts'[n + 1]
         /\ \A i \in n + 1 .. Len(said') : \A k \in 1 .. Len(said'[i].text) :
              ByteAt(b, w \o m.text, starts'[i] - starts'[n + 1] + k) = said'[i].text[k]
<1> DEFINE N == Len(said)
           t == m.text
           s == starts[n + 1]
           e == starts[Len(starts)]
<1>1. /\ N \in Nat /\ Len(starts) = N + 1 /\ n + 1 \in 1 .. N + 1 /\ N + 1 \in 1 .. N + 1
      /\ s \in Nat /\ e \in Nat /\ b.len \in Nat /\ Len(w) \in Nat
      /\ b.len + Len(w) = e - s
  <2>1. n + 1 \in 1 .. Len(starts) /\ b.len + Len(w) = e - s
    BY DEF Pending
  <2>2. N \in Nat /\ Len(starts) = N + 1
    BY SaidTypes
  <2> QED BY <2>1, <2>2, SaidTypes, Indices DEF Buffer
<1>2. /\ Len(said') = N + 1 /\ Len(starts') = (N + 1) + 1
      /\ \A i \in 1 .. N : said'[i] = said[i]
      /\ said'[N + 1] = m
      /\ \A i \in 1 .. N + 1 : starts'[i] = starts[i]
      /\ starts'[(N + 1) + 1] = e + Len(t)
  BY <1>1, SayDivides
<1>3. t \in Seq(Byte) /\ Len(t) \in Nat
  BY SessionAssumption
<1>4. /\ Len(w \o t) = Len(w) + Len(t)
      /\ \A i \in 1 .. Len(w) : (w \o t)[i] = w[i]
      /\ \A i \in 1 .. Len(t) : (w \o t)[Len(w) + i] = t[i]
  <2> HIDE DEF t
  <2>1. /\ Len(w \o t) = Len(w) + Len(t)
        /\ \A i \in 1 .. Len(w) + Len(t) :
             (w \o t)[i] = IF i <= Len(w) THEN w[i] ELSE t[i - Len(w)]
    BY <1>3, ConcatProperties
  <2>2. Len(w) \in Nat /\ Len(t) \in Nat
    BY <1>1, <1>3
  <2>3. ASSUME NEW i \in 1 .. Len(w) PROVE (w \o t)[i] = w[i]
    <3>1. i \in 1 .. Len(w) + Len(t) /\ i <= Len(w)
      BY <2>2
    <3> QED BY <2>1, <3>1
  <2>4. ASSUME NEW i \in 1 .. Len(t) PROVE (w \o t)[Len(w) + i] = t[i]
    <3>1. /\ Len(w) + i \in 1 .. Len(w) + Len(t) /\ ~(Len(w) + i <= Len(w))
          /\ (Len(w) + i) - Len(w) = i
      BY <2>2
    <3> QED BY <2>1, <3>1
  <2> QED BY <2>1, <2>3, <2>4
<1>5. starts'[n + 1] = s /\ starts'[N + 1] = e
  BY <1>1, <1>2
<1> HIDE DEF N, t, s, e
<1>6. PICK x \in Nat, y \in Nat, l \in Nat :
        x = b.len /\ y = Len(w) /\ l = Len(t) /\ x + y = e - s /\ e \in Nat /\ s \in Nat
  BY <1>1, <1>3
<1>7. n + 1 \in 1 .. Len(starts') /\ b.len + Len(w \o t) = starts'[Len(starts')] - starts'[n + 1]
  <2>1. b.len + (Len(w) + Len(t)) = (e + Len(t)) - s
    <3>1. x + (y + l) = (e + l) - s
      <4>1. \A a, c \in Nat : x + y = a - c => x + (y + l) = (a + l) - c
        OBVIOUS
      <4> QED BY <1>6, <4>1
    <3> QED BY <1>6, <3>1
  <2>2. n + 1 \in 1 .. (N + 1) + 1
    BY <1>1
  <2> QED BY <1>2, <1>4, <1>5, <2>1, <2>2
<1>8. ASSUME NEW i \in n + 1 .. Len(said'), NEW k \in 1 .. Len(said'[i].text)
      PROVE  ByteAt(b, w \o t, starts'[i] - starts'[n + 1] + k) = said'[i].text[k]
  <2>1. i \in Nat /\ i \in n + 1 .. N + 1
    BY <1>1, <1>2
  <2>2. CASE i <= N
    <3>1. i \in 1 .. N /\ i \in n + 1 .. N /\ i \in 1 .. N + 1 /\ n + 1 \in 1 .. i
      BY <1>1, <2>1, <2>2
    <3>2. said'[i] = said[i] /\ starts'[i] = starts[i] /\ k \in 1 .. Len(said[i].text)
      BY <1>2, <3>1
    <3>3. PICK p \in Int : p = starts[i] - s + k /\ p \in 1 .. x + y
      <4>1. starts[i] - s + k \in 1 .. e - s
        BY <3>1, <3>2, ByteIsPending DEF N, s, e
      <4>2. \A q \in 1 .. e - s : q \in Int
        BY <1>6
      <4> QED BY <1>6, <4>1, <4>2
    <3>4. ByteAt(b, w, p) = said[i].text[k]
      BY <3>1, <3>2, <3>3 DEF Pending, N, s
    <3>5. ByteAt(b, w \o t, p) = ByteAt(b, w, p)
      <4>1. CASE p <= b.len
        BY <4>1 DEF ByteAt
      <4>2. CASE b.len < p
        <5>1. p - x \in 1 .. y /\ x \in Int
          <6>1. p <= x + y /\ x < p
            BY <1>6, <3>3, <4>2
          <6> QED BY <6>1
        <5>2. /\ ByteAt(b, w, p) = w[p - b.len]
              /\ ByteAt(b, w \o t, p) = (w \o t)[p - b.len]
          BY <1>6, <4>2, <5>1, ByteOnWire
        <5> QED BY <1>4, <1>6, <5>1, <5>2
      <4>3. p <= x \/ x < p
        OBVIOUS
      <4> QED BY <1>6, <4>1, <4>2, <4>3
    <3> QED BY <1>5, <3>2, <3>3, <3>4, <3>5
  <2>3. CASE i = N + 1
    <3>1. said'[i].text = t /\ starts'[i] = e /\ k \in 1 .. Len(t)
      BY <1>2, <1>3, <1>5, <2>3 DEF t
    <3>2. k \in Int /\ 1 <= k
      BY <1>3, <3>1
    <3>3. PICK p \in Int : p = e - s + k
      BY <1>6, <3>2
    <3>4. x < p /\ p - x = y + k /\ 1 <= k
      <4>1. p = (x + y) + k
        BY <1>6, <3>3
      <4> QED BY <3>2, <4>1
    <3>5. ByteAt(b, w \o t, p) = (w \o t)[p - b.len]
      <4>1. b.len \in Int /\ b.len < p
        BY <1>6, <3>4
      <4> QED BY <4>1, ByteOnWire
    <3> QED BY <1>4, <1>5, <1>6, <3>1, <3>3, <3>4, <3>5
  <2>4. i <= N \/ i = N + 1
    <3>1. i \in n + 1 .. N + 1 /\ N \in Nat
      BY <1>1, <2>1
    <3> QED BY <3>1
  <2> QED BY <2>2, <2>3, <2>4
<1> QED BY <1>7, <1>8 DEF t

LEMMA SayInStep == ASSUME InStep, IInv', NEW m \in Message, Say(m) PROVE InStep'
<1>1. /\ said' = Append(said, m) /\ starts' = Append(starts, starts[Len(starts)] + Len(m.text))
      /\ wire' = wire \o m.text /\ UNCHANGED <<buf, me, phase, heard>> /\ phase # "none"
  BY DEF Say
<1>2. /\ Divided' /\ Len(said') = Len(said) + 1
      /\ \A i \in 1 .. Len(said) : said'[i] = said[i]
  BY <1>1, InStepTypes, SayDivides
<1>3. HeardTyped' /\ HeardWhatWasSaid'
  <2>1. \A i \in 1 .. Len(heard) : i <= Len(said) => i <= Len(said') /\ said'[i] = said[i]
    BY <1>2, InStepTypes, SaidTypes
  <2> QED BY <1>1, <2>1 DEF InStep, HeardTyped, HeardWhatWasSaid
<1>4. Pending(Buf, wire, Len(heard))
  BY <1>1 DEF InStep
<1>5. /\ Len(heard) + 1 \in 1 .. Len(starts')
      /\ Buf.len + Len(wire') = starts'[Len(starts')] - starts'[Len(heard) + 1]
      /\ \A i \in Len(heard) + 1 .. Len(said') : \A k \in 1 .. Len(said'[i].text) :
           ByteAt(Buf, wire', starts'[i] - starts'[Len(heard) + 1] + k) = said'[i].text[k]
  BY <1>1, <1>4, InStepTypes, SayIsPending, ZenonT(40)
<1>6. Buf' = Buf /\ Len(heard') = Len(heard)
  BY <1>1 DEF Buf
<1>7. Pending(Buf, wire, Len(heard))'
  BY <1>5, <1>6 DEF Pending
<1> QED BY <1>2, <1>3, <1>7 DEF InStep

LEMMA ReadFailsInStep == ASSUME InStep, IInv', ReadFails PROVE InStep'
<1>1. heard' = Append(heard, Gone) /\ phase' = "none" /\ UNCHANGED <<said, starts>>
  BY DEF ReadFails, End, net
<1>2. HeardTyped' /\ HeardWhatWasSaid'
  BY <1>1, HearsNext DEF InStep
<1> QED BY <1>1, <1>2 DEF InStep, Divided

LEMMA OverflowInStep == ASSUME InStep, IInv', Overflow PROVE InStep'
<1>1. /\ heard' = Append(heard, Overlong) /\ phase' = "none" /\ UNCHANGED <<said, starts>>
      /\ IsFull(Buf) /\ phase # "none"
  BY DEF Overflow, End, net, InStep, IInv, ReadersServe
<1>2. Pending(Buf, wire, Len(heard)) /\ NoNulInside(Buf)
  BY <1>1 DEF InStep, IInv, Started
<1>3. Len(heard) + 1 \in 1 .. Len(said) /\ said[Len(heard) + 1].means = Overlong
  BY <1>1, <1>2, InStepTypes, FullMeans
<1>4. HeardTyped' /\ HeardWhatWasSaid'
  BY <1>1, <1>3, HearsNext DEF InStep
<1> QED BY <1>1, <1>4 DEF InStep, Divided

LEMMA TakeLineInStep == ASSUME InStep, IInv', TakeLine PROVE InStep'
<1>1. HasLine(Buf) /\ phase # "none" /\ UNCHANGED <<wire, said, starts>>
  BY DEF TakeLine, net, InStep, IInv, ReadersServe
<1>2. CASE Overruns(Buf)
  <2>1. phase' = "none" /\ heard' = heard
    BY <1>2 DEF TakeLine
  <2> QED BY <1>1, <2>1 DEF InStep, Divided, HeardTyped, HeardWhatWasSaid
<1>3. CASE ~Overruns(Buf)
  <2> DEFINE n == Len(heard)
             what == IF TooLong(Buf) THEN Overlong
                     ELSE IF CommandLength(Buf) = 0 THEN Blank
                     ELSE parse_command(Command(Buf))
  <2>1. Pending(Buf, wire, n)
    BY <1>1 DEF InStep
  <2>2. /\ n + 1 \in 1 .. Len(said)
        /\ Len(said[n + 1].text) = Newline(Buf) + 1
        /\ \A i \in 1 .. Len(said[n + 1].text) : Buf.bytes[i - 1] = said[n + 1].text[i]
    BY <1>1, <1>3, <2>1, InStepTypes, LineIsMessage
  <2>3. said[n + 1].means = what
    <3>1. said[n + 1] \in Message
      BY <2>2, InStepTypes, SaidTypes
    <3> QED BY <1>1, <1>3, <2>2, <3>1, InStepTypes, LineMeans
  <2>4. heard' = Append(heard, what)
    BY <1>3 DEF TakeLine, End, Obey
  <2> HIDE DEF what
  <2>5. HeardTyped' /\ HeardWhatWasSaid' /\ Len(heard') = n + 1
    BY <1>1, <2>2, <2>3, <2>4, HearsNext DEF InStep
  <2>6. Pending(Removed(Buf), wire, n + 1)
    BY <1>1, <1>3, <2>1, InStepTypes, RestIsPending
  <2>7. Divided'
    BY <1>1 DEF InStep, Divided
  <2>8. CASE phase = "login" /\ phase' = "resume"
    <3>1. ~(TooLong(Buf) \/ CommandLength(Buf) = 0)
      BY <1>3, <2>8 DEF TakeLine, End
    <3>2. /\ me' = kept /\ buf' = [buf EXCEPT ![me] = Removed(@),
                                             ![kept] = CopiedOver(@, Removed(Buf))]
      BY <1>3, <2>8, <3>1 DEF TakeLine
    <3>3. kept \in Slot /\ kept # me /\ me \in Slot /\ buf \in [Slot -> Buffer]
      BY <1>1, <3>2 DEF InStep, IInv, TypeOK, KeptIsOther
    <3>4. Buf' = CopiedOver(buf[kept], Removed(Buf))
      BY <3>2, <3>3 DEF Buf
    <3>5. /\ buf[kept] \in Buffer /\ Removed(Buf) \in Buffer
          /\ wire \in Seq(Byte) /\ Len(wire) \in Nat
      BY <1>1, <1>3, <3>3, InStepTypes, RemovedIsSound DEF InStep, IInv, Started
    <3>6. Pending(Buf', wire, n + 1)
      <4>1. /\ Buf'.len = Removed(Buf).len
            /\ \A i \in 1 .. Removed(Buf).len + Len(wire) :
                 ByteAt(Buf', wire, i) = ByteAt(Removed(Buf), wire, i)
        BY <3>4, <3>5, CopiedKeepsOrder
      <4> QED BY <2>6, <4>1, InStepTypes, PendingKept
    <3>7. Pending(Buf, wire, Len(heard))'
      BY <1>1, <2>5, <3>6 DEF Pending
    <3> QED BY <2>5, <2>7, <3>7 DEF InStep
  <2>9. CASE ~(phase = "login" /\ phase' = "resume")
    <3>1. buf' = [buf EXCEPT ![me] = Removed(@)] /\ me' = me
      BY <1>3, <2>9 DEF TakeLine
    <3>2. Buf' = Removed(Buf)
      BY <3>1, InStepTypes DEF Buf
    <3>3. Pending(Buf, wire, Len(heard))'
      BY <1>1, <2>5, <2>6, <3>2 DEF Pending
    <3> QED BY <2>5, <2>7, <3>3 DEF InStep
  <2> QED BY <2>8, <2>9
<1> QED BY <1>2, <1>3

LEMMA StepInStep == ASSUME InStep, [Next]_vars PROVE InStep'
<1>1. IInv'
  BY StepInv DEF InStep
<1>2. CASE Connect
  BY <1>1, <1>2, ConnectInStep
<1>3. ASSUME NEW m \in Message, Say(m) PROVE InStep'
  BY <1>1, <1>3, SayInStep
<1>4. CASE Hangup
  BY <1>1, <1>4, Undisturbed DEF Hangup
<1>5. CASE Call
  BY <1>1, <1>5, Undisturbed DEF Call, net
<1>6. CASE Read
  BY <1>1, <1>6, ReadInStep
<1>7. CASE ReadTimesOut
  BY <1>1, <1>7, Undisturbed DEF ReadTimesOut, net
<1>8. CASE ReadFails
  BY <1>1, <1>8, ReadFailsInStep
<1>9. CASE Overflow
  BY <1>1, <1>9, OverflowInStep
<1>10. CASE TakeLine
  BY <1>1, <1>10, TakeLineInStep
<1>11. CASE OpponentJoins
  BY <1>1, <1>11, Undisturbed DEF OpponentJoins, Elsewhere, net
<1>12. CASE GameEnds
  BY <1>1, <1>12, Undisturbed DEF GameEnds, Elsewhere, net
<1>13. CASE Kicked
  BY <1>1, <1>13, Undisturbed DEF Kicked, Elsewhere, net
<1>14. CASE UNCHANGED vars
  BY <1>1, <1>14, Undisturbed DEF vars, net
<1> QED
  BY <1>2, <1>3, <1>4, <1>5, <1>6, <1>7, <1>8, <1>9, <1>10, <1>11, <1>12, <1>13, <1>14
     DEF Next, ThreadStep

LEMMA AlwaysInStep == Spec => []InStep
<1>1. Init => InStep
  BY InitInStep
<1>2. InStep /\ [Next]_vars => InStep'
  BY StepInStep
<1> QED BY <1>1, <1>2, PTL DEF Spec

-----------------------------------------------------------------------------
\* However the bytes are cut, joined and buffered, whatever the sizes of the buffers,
\* the server hears the client's lines in order, each as it was meant, and nothing
\* that was not said (protocol.c:7-8, 75-149).
THEOREM LinesHeardInOrder == Spec => []HeardInOrder
<1>1. InStep => HeardInOrder
  <2> SUFFICES ASSUME InStep, NEW i \in DOMAIN heard
               PROVE  heard[i] = Gone \/ heard[i] = said[i].means
    BY DEF HeardInOrder
  <2>1. i \in 1 .. Len(heard)
    BY DEF InStep, HeardTyped
  <2> QED BY <2>1 DEF InStep, HeardWhatWasSaid
<1> QED BY <1>1, AlwaysInStep, PTL

\* While the connection lasts every byte that was said and not heard is in the buffer
\* or on the wire, in its place, also after the buffer's rest moved to the slot that
\* was taken over (protocol.c:97-101, 144-148, server.c:732-734).
THEOREM NoByteLost == Spec => []NothingLost
<1>1. InStep => NothingLost
  <2> SUFFICES ASSUME InStep, phase # "none" PROVE NothingLost
    BY DEF NothingLost
  <2>1. Pending(Buf, wire, Len(heard)) /\ SaidTyped
    BY InStepTypes DEF InStep
  <2>2. DOMAIN starts = 1 .. Len(starts)
    BY <2>1 DEF SaidTyped
  <2>3. \A i : ByteAt(Buf, wire, i) = Unread(i)
    BY DEF ByteAt, Unread
  <2> QED BY <2>1, <2>2, <2>3 DEF NothingLost, Pending
<1> QED BY <1>1, AlwaysInStep, PTL

=============================================================================
