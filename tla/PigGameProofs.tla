--------------------------- MODULE PigGameProofs ----------------------------
(* Proofs about PigGame, for every target.  One inductive invariant carries  *)
(* all of them: the reachable scores are bounded by the target because the   *)
(* roll that would pass it ends the game before it can be held.              *)
EXTENDS PigGame, TLAPS

\* BankedBelowTarget is not inductive by itself: a hold keeps it only because a
\* running game never has a winning total on the table.
IInv == TypeOK /\ BankedBelowTarget /\ ReachingWins /\ TurnStartsClean

\* init_game establishes the invariant, the target being at least 1.
LEMMA InitInvariant == init_game => IInv
<1> SUFFICES ASSUME init_game PROVE IInv
  OBVIOUS
<1> USE WinningScoreAssumption DEF init_game, Player
<1>1. TypeOK
  BY DEF TypeOK
<1>2. BankedBelowTarget
  BY DEF BankedBelowTarget
<1>3. ReachingWins
  BY DEF ReachingWins
<1>4. TurnStartsClean
  BY DEF TurnStartsClean
<1>5. QED BY <1>1, <1>2, <1>3, <1>4 DEF IInv

\* Every command and every end of the game keeps it.
LEMMA NextInvariant == IInv /\ [Next]_vars => IInv'
<1> SUFFICES ASSUME IInv, [Next]_vars PROVE IInv'
  OBVIOUS
<1> USE WinningScoreAssumption DEF Player, Die, IInv, TypeOK, BankedBelowTarget
<1> DEFINE total == scores[current_player] + turn_score
<1>1. total \in Nat /\ (game_over = 0 => total < WINNING_SCORE)
  BY DEF ReachingWins
<1>2. CASE \E i \in Player, roll \in Die : Roll(i, roll)
  <2>1. PICK i \in Player, roll \in Die : Roll(i, roll)
    BY <1>2
  <2>2. CASE roll = 1
    <3>1. /\ scores' = scores /\ current_player' = 1 - current_player
          /\ turn_score' = 0 /\ roll_result' = 1
          /\ game_over = 0 /\ UNCHANGED <<game_over, game_winner>>
      BY <2>1, <2>2 DEF Roll, handle_roll, bust, switch_player
    <3>2. TypeOK' /\ BankedBelowTarget'
      BY <3>1
    <3>3. ReachingWins'
      BY <3>1 DEF ReachingWins
    <3>4. TurnStartsClean'
      BY <3>1 DEF TurnStartsClean
    <3>5. QED BY <3>2, <3>3, <3>4
  <2>3. CASE roll # 1
    <3>1. /\ scores' = scores /\ current_player' = current_player
          /\ turn_score' = turn_score + roll /\ roll_result' = roll /\ game_over = 0
          /\ IF total + roll >= WINNING_SCORE
               THEN game_over' = 1 /\ game_winner' = current_player
               ELSE UNCHANGED <<game_over, game_winner>>
      BY <2>1, <2>3 DEF Roll, handle_roll, reaches_target
    <3>2. TypeOK' /\ BankedBelowTarget'
      BY <3>1
    <3>3. ReachingWins'
      BY <3>1, <1>1 DEF ReachingWins
    <3>4. TurnStartsClean'
      BY <3>1, <2>3 DEF TurnStartsClean
    <3>5. QED BY <3>2, <3>3, <3>4
  <2>4. QED BY <2>2, <2>3
<1>3. CASE \E i \in Player : Hold(i)
  <2>1. /\ scores' = [scores EXCEPT ![current_player] = total]
        /\ current_player' = 1 - current_player /\ turn_score' = 0 /\ roll_result' = 0
        /\ game_over = 0 /\ UNCHANGED <<game_over, game_winner>>
    BY <1>3 DEF Hold, handle_hold, switch_player
  <2>2. TypeOK'
    BY <2>1, <1>1
  <2>3. BankedBelowTarget'
    BY <2>1, <1>1
  <2>4. ReachingWins'
    BY <2>1, <2>2, <2>3 DEF ReachingWins
  <2>5. TurnStartsClean'
    BY <2>1 DEF TurnStartsClean
  <2>6. QED BY <2>2, <2>3, <2>4, <2>5
<1>4. CASE \E i \in Player : Quit(i)
  BY <1>1, <1>4 DEF Quit, ReachingWins, TurnStartsClean
<1>5. CASE \E w \in Player \cup {-1} : PauseTimeout(w)
  BY <1>1, <1>5 DEF PauseTimeout, ReachingWins, TurnStartsClean
<1>6. CASE RoomAborted
  BY <1>1, <1>6 DEF RoomAborted, ReachingWins, TurnStartsClean
<1>7. CASE UNCHANGED vars
  BY <1>7 DEF vars, ReachingWins, TurnStartsClean
<1>8. QED BY <1>2, <1>3, <1>4, <1>5, <1>6, <1>7 DEF Next

LEMMA Invariant == Spec => []IInv
<1>1. QED BY InitInvariant, NextInvariant, PTL DEF Spec

\* The variables keep their types (game.h:7-17).
THEOREM TypeCorrect == Spec => []TypeOK
<1>1. IInv => TypeOK BY DEF IInv
<1>2. QED BY <1>1, Invariant, PTL

\* However the game is played, no banked score reaches the target, so the
\* missing check of handle_hold is never missed.
THEOREM BankedStaysBelow == Spec => []BankedBelowTarget
<1>1. IInv => BankedBelowTarget BY DEF IInv
<1>2. QED BY <1>1, Invariant, PTL

\* A winning total belongs to the declared winner of a game that is over, and
\* overshoots the target by less than one die.
THEOREM ReachingIsWinning == Spec => []ReachingWins
<1>1. IInv => ReachingWins BY DEF IInv
<1>2. QED BY <1>1, Invariant, PTL

\* Every turn starts with nothing at risk.
THEOREM CleanTurns == Spec => []TurnStartsClean
<1>1. IInv => TurnStartsClean BY DEF IInv
<1>2. QED BY <1>1, Invariant, PTL

-----------------------------------------------------------------------------
(* The dice game implements the game of turns. *)

LEMMA InitRefines == init_game => Turns!Init
BY DEF init_game, Turns!Init, Turns!Side, Turns!Playing, Player

LEMMA NextRefines == IInv /\ [Next]_vars => [Turns!Next]_(Turns!tvars)
<1> SUFFICES ASSUME IInv, [Next]_vars PROVE [Turns!Next]_(Turns!tvars)
  OBVIOUS
<1> USE WinningScoreAssumption
    DEF IInv, TypeOK, Player, Turns!tvars, Turns!Side, Turns!Playing
<1>1. CASE \E i \in Player, roll \in Die : Roll(i, roll)
  <2>1. PICK i \in Player, roll \in Die : Roll(i, roll)
    BY <1>1
  <2>2. CASE roll = 1
    <3>1. Turns!Take(0)
      BY <2>1, <2>2 DEF Roll, handle_roll, bust, switch_player, Turns!Take,
                        BankedBelowTarget
    <3>2. QED BY <3>1 DEF Turns!Next
  <2>3. CASE roll # 1 /\ game_over' = 0
    BY <2>1, <2>3 DEF Roll, handle_roll, Turns!tvars
  <2>4. CASE roll # 1 /\ game_over' # 0
    <3>1. Turns!Win
      BY <2>1, <2>4 DEF Roll, handle_roll, Turns!Win
    <3>2. QED BY <3>1 DEF Turns!Next
  <2>5. QED BY <2>2, <2>3, <2>4
<1>2. CASE \E i \in Player : Hold(i)
  <2>1. turn_score \in 0 .. WINNING_SCORE - 1
    BY <1>2 DEF Hold, ReachingWins
  <2>2. Turns!Take(turn_score)
    BY <1>2, <2>1 DEF Hold, handle_hold, switch_player, Turns!Take,
                      ReachingWins, TurnStartsClean
  <2>3. QED BY <2>1, <2>2 DEF Turns!Next
<1>3. CASE \E i \in Player : Quit(i)
  <2>1. PICK i \in Player : Quit(i)
    BY <1>3
  <2>2. Turns!Forfeit(i)
    BY <2>1 DEF Quit, Turns!Forfeit
  <2>3. QED BY <2>2 DEF Turns!Next
<1>4. CASE \E w \in Player \cup {-1} : PauseTimeout(w)
  <2>1. PICK w \in Player \cup {-1} : PauseTimeout(w)
    BY <1>4
  <2>2. CASE w = -1
    <3>1. Turns!Abandon
      BY <2>1, <2>2 DEF PauseTimeout, Turns!Abandon
    <3>2. QED BY <3>1 DEF Turns!Next
  <2>3. CASE w \in Player
    <3>1. 1 - w \in Player /\ Turns!Forfeit(1 - w)
      BY <2>1, <2>3 DEF PauseTimeout, Turns!Forfeit
    <3>2. QED BY <3>1 DEF Turns!Next
  <2>4. QED BY <2>2, <2>3
<1>5. CASE RoomAborted
  <2>1. Turns!Abandon
    BY <1>5 DEF RoomAborted, Turns!Abandon, ReachingWins
  <2>2. QED BY <2>1 DEF Turns!Next
<1>6. CASE UNCHANGED vars
  BY <1>6 DEF vars
<1>7. QED BY <1>1, <1>2, <1>3, <1>4, <1>5, <1>6 DEF Next

\* Every play of the dice game is, rolls hidden, a play of the game of turns.
THEOREM ImplementsTurns == Spec => TurnsSpec
<1>1. QED BY InitRefines, NextRefines, Invariant, PTL DEF Spec, TurnsSpec, Turns!Spec
=============================================================================
