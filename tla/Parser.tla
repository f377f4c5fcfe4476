------------------------------- MODULE Parser --------------------------------
(* parse_command and get_command_arg (parser.c) on lines whose words are one *)
(* byte long: a word stands for itself, and only the separators have a       *)
(* meaning of their own.                                                     *)
EXTENDS Integers, SequencesExt

CONSTANT MAX_ARGS                  \* arguments a command can have

Bar   == "|"
Colon == ":"

Verb == {"LOGIN", "RESUME", "LIST_ROOMS", "JOIN_ROOM", "LEAVE_ROOM", "ROLL", "HOLD",
         "GAME_STATE_REQUEST", "QUIT", "EXIT", "PING"}

\* The pieces of s between separators d, as strtok_r finds them: none is empty.
Tokens(s, d) ==
  SelectSeq(FoldLeft(LAMBDA ts, b : IF b = d THEN Append(ts, << >>)
                                    ELSE [ts EXCEPT ![Len(ts)] = Append(@, b)],
                     << << >> >>, s),
            LAMBDA t : t # << >>)

get_command_type(verb) == IF verb \in {<<v>> : v \in Verb} THEN verb[1] ELSE "UNKNOWN"

\* What is no command.
Malformed == [type |-> "MALFORMED", args |-> << >>]

\* An argument is a key and a value; what follows a second colon is dropped.
parse_command(line) ==
  LET tokens == Tokens(line, Bar)
      pieces == [i \in 1 .. Len(tokens) - 1 |-> Tokens(tokens[i + 1], Colon)]
  IN  IF \/ tokens = << >>
         \/ Len(pieces) > MAX_ARGS
         \/ \E i \in DOMAIN pieces : Len(pieces[i]) < 2
        THEN Malformed
        ELSE [type |-> get_command_type(tokens[1]),
              args |-> [i \in DOMAIN pieces |-> <<pieces[i][1], pieces[i][2]>>]]

\* get_command_arg finds a value.
HasArg(cmd, key) == \E i \in DOMAIN cmd.args : cmd.args[i][1] = <<key>>
=============================================================================
