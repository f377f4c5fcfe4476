SPECIFICATION Spec
CONSTANTS
  MAX_PLAYERS = 3
  MAX_ROOMS = 2
  Socket = {s1, s2}
  Nickname = {n1, n2}
  MaxPending = 2
INVARIANTS TypeOK SeatsMatchPlayers SlotsAreCounted
PROPERTIES ReservedSlotsKept PeopleSpec
CHECK_DEADLOCK FALSE
SYMMETRY Interchangeable
