SPECIFICATION MatchSpec
CONSTANTS
  MAX_PLAYERS = 3
  MAX_ROOMS = 1
  Nickname = {n1, n2}
  Socket = {3, 4, 5, 6}
  Client = {1, 2, 3}
  Game = {1}
  MaxConnections = 1
  MaxJoins = 0
  Ann = n1
  Ben = n2
PROPERTY LostPlayersSettled
CHECK_DEADLOCK FALSE
