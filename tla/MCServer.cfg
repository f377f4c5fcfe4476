SPECIFICATION Spec
CONSTANTS
  MAX_PLAYERS = 2
  MAX_ROOMS = 1
  Nickname = {n1}
  Socket = {3, 4}
  Client = {1, 2}
  Game = {g1, g2}
  MaxConnections = 2
  MaxJoins = 2
INVARIANTS TablesAgree Served
CHECK_DEADLOCK FALSE
SYMMETRY Interchangeable
