SPECIFICATION Spec
CONSTANTS
  MAX_PLAYERS = 2
  MAX_ROOMS = 1
  Nickname = {n1, n2}
  Socket = {3, 4}
  Client = {1, 2}
  Game = {1, 2}
  MaxConnections = 2
  MaxJoins = 2
INVARIANT OneGamePerRoom
CHECK_DEADLOCK FALSE
