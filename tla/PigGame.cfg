SPECIFICATION Spec
CONSTANT WINNING_SCORE = 30
INVARIANTS TypeOK BankedBelowTarget ReachingWins TurnStartsClean
PROPERTY TurnsSpec
\* A game that is over takes no more commands.
CHECK_DEADLOCK FALSE
