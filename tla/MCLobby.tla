------------------------------ MODULE MCLobby -------------------------------
(* LobbyUse on three slots and two rooms.  Slots and rooms are ordered (the  *)
(* scans of the table take the first), sockets and nicknames are not.        *)
EXTENDS LobbyUse, TLC

Interchangeable == Permutations(Socket) \cup Permutations(Nickname)
=============================================================================
