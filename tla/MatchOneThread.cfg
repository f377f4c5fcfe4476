SPECIFICATION MatchSpec
CONSTANTS
  MAX_PLAYERS = 3
  MAX_ROOMS = 1
  Nickname = {n1, n2}
  Socket = {3, 4, 5, 6}
  Client = {1, 2, 3, 4}
  Game = {1}
  MaxConnections = 2
  MaxJoins = 0
  Ann = n1
  Ben = n2
INVARIANT OneThreadPerPlayer
CHECK_DEADLOCK FALSE
