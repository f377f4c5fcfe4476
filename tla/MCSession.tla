----------------------------- MODULE MCSession ------------------------------
EXTENDS Session

Words == Verb \cup {Bar, Colon, "nick", "room", "al", "0", "x"}

\* A command as dokumentace.md:66-75 has it, and what is meant by it.
Argument(a) == <<Bar, a[1][1], Colon, a[2][1]>>
Command_line(verb, args, end) ==
  [text  |-> <<verb>> \o FlattenSeq([i \in DOMAIN args |-> Argument(args[i])]) \o end,
   means |-> [type |-> verb, args |-> args]]

Garbage(n) == [i \in 1 .. n |-> "x"]

Login  == Command_line("LOGIN", << << <<"nick">>, <<"al">> >> >>, <<LF>>)
Join   == Command_line("JOIN_ROOM", << << <<"room">>, <<"0">> >> >>, <<CR, LF>>)
Roll   == Command_line("ROLL", << >>, <<LF>>)
Resume == Command_line("RESUME", << >>, <<CR, LF>>)
Empty  == [text |-> <<LF>>, means |-> Blank]
TwoMany == [text |-> <<"ROLL", Bar, "x", Bar, "0", LF>>, means |-> Malformed]
LongLine == [text |-> Garbage(OUT_SIZE) \o <<LF>>, means |-> Overlong]
Endless  == [text |-> Garbage(READ_SIZE - 1), means |-> Overlong]

Messages == {Login, Join, Roll, Resume, Empty, TwoMany, LongLine, Endless}
=============================================================================
