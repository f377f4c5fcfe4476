----------------------------- MODULE LineReader ------------------------------
(* The read buffer of one player_t and what receive_command (protocol.c)     *)
(* does to it between two calls of read.  A buffer is a record: the bytes of *)
(* read_buffer and buffer_len.  The C string in it ends at the first NUL,    *)
(* which is not bound to be at buffer_len.                                   *)
EXTENDS Integers, Sequences

CONSTANTS READ_SIZE,               \* sizeof(read_buffer)
          OUT_SIZE,                \* size of the caller's command buffer
          Text                     \* bytes other than the line's end and NUL

LF  == "\n"
CR  == "\r"
NUL == "NUL"

ASSUME BufferAssumption ==
  /\ READ_SIZE \in Nat /\ READ_SIZE >= 2
  /\ OUT_SIZE \in Nat \ {0}
  /\ Text \cap {LF, CR, NUL} = {}

Byte   == Text \cup {LF, CR, NUL}
Index  == 0 .. READ_SIZE - 1
Buffer == [bytes : [Index -> Byte], len : Index]

\* strchr(read_buffer, '\n') = k: a newline before the end of the string.
NewlineAt(b, k) ==
  b.bytes[k] = LF /\ \A j \in Index : j < k => b.bytes[j] \notin {LF, NUL}

HasLine(b) == \E k \in Index : NewlineAt(b, k)
Newline(b) == CHOOSE k \in Index : NewlineAt(b, k)

\* No newline, and no room for another byte and its NUL.
IsFull(b) == ~HasLine(b) /\ b.len >= READ_SIZE - 1

Cleared(b) == [bytes |-> [b.bytes EXCEPT ![0] = NUL], len |-> 0]

FillsToTheBrim(b) == READ_SIZE - b.len

\* How many bytes one read may bring.
Space(b) == READ_SIZE - 1 - b.len

unterminated(b, s) ==
  [bytes |-> [i \in Index |-> IF b.len <= i /\ i < b.len + Len(s) THEN s[i - b.len + 1]
                              ELSE b.bytes[i]],
   len |-> b.len + Len(s)]

\* read brought the bytes s, at most Space(b) of them.
Filled(b, s) ==
  [bytes |-> [i \in Index |-> IF b.len <= i /\ i < b.len + Len(s) THEN s[i - b.len + 1]
                              ELSE IF i = b.len + Len(s) THEN NUL ELSE b.bytes[i]],
   len |-> b.len + Len(s)]

keeps_carriage_return(b) == Newline(b)

\* cmd_len: a carriage return before the newline is not part of the command.
CommandLength(b) ==
  LET k == Newline(b)
  IN  IF k > 0 /\ b.bytes[k - 1] = CR THEN k - 1 ELSE k

TooLong(b) == CommandLength(b) >= OUT_SIZE

Command(b) == [i \in 1 .. CommandLength(b) |-> b.bytes[i - 1]]

\* The newline is beyond buffer_len: size_t wraps around in line 146, and memmove
\* is asked to move nearly the whole address space.
Overruns(b) == Newline(b) >= b.len

leaves_newline(b) ==
  LET k == Newline(b)  n == b.len - k
  IN  [bytes |-> [i \in Index |-> IF i < n THEN b.bytes[i + k] ELSE IF i = n THEN NUL
                                  ELSE b.bytes[i]],
       len |-> n]

\* The command and its newline are removed, what follows moves to the front.
Removed(b) ==
  LET k == Newline(b)  n == b.len - (k + 1)
  IN  [bytes |-> [i \in Index |-> IF i < n THEN b.bytes[i + k + 1]
                                  ELSE IF i = n THEN NUL ELSE b.bytes[i]],
       len |-> n]

\* The bytes of from, without their NUL, laid over those of b (server.c:733-734).
CopiedOver(b, from) ==
  [bytes |-> [i \in Index |-> IF i < from.len THEN from.bytes[i] ELSE b.bytes[i]],
   len |-> from.len]

\* The string in read_buffer is buffer_len bytes long (lobby.h:32-33), which is
\* what every other line of receive_command takes for granted.
LengthIsContents(b) ==
  b.bytes[b.len] = NUL /\ \A i \in Index : i < b.len => b.bytes[i] # NUL
=============================================================================
