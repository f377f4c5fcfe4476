------------------------------ MODULE PigGame -------------------------------
(* The rules of one game: game.c, driven by the commands handle_game_input   *)
(* accepts from the two seats (server.c:28-128) and by the two ways the game *)
(* thread ends a game from outside (server.c:253-311 and 422-427).           *)
(* rand_r is a choice of a die face.  Sending the state is left out.         *)
(*                                                                           *)
(* A definition whose name tells a mistake (forgets_to_wrap, ...) is the     *)
(* mutated form of the definition after it and is used nowhere: the README   *)
(* says which property notices it.  The other modules follow this too.       *)
EXTENDS Integers

CONSTANT WINNING_SCORE

ASSUME WinningScoreAssumption == WINNING_SCORE \in Nat \ {0}

VARIABLES scores, current_player, turn_score, roll_result, game_over, game_winner

vars == <<scores, current_player, turn_score, roll_result, game_over, game_winner>>

Player == {0, 1}
Die    == 1 .. 6

-----------------------------------------------------------------------------
(* game.c *)

init_game ==
  /\ scores = [i \in Player |-> 0]
  /\ current_player \in Player
  /\ turn_score = 0
  /\ roll_result = 0
  /\ game_over = 0
  /\ game_winner = -1

forgets_to_wrap == current_player' = current_player + 1

switch_player == current_player' = 1 - current_player

misses_exact_total(total) == total > WINNING_SCORE

\* The win test of a roll, on banked and risked points together (game.c:38).
reaches_target(total) == total >= WINNING_SCORE

keeps_turn_score == switch_player /\ UNCHANGED turn_score

\* A 1 costs the points of the turn and the turn.
bust == switch_player /\ turn_score' = 0

\* A roll that reaches the target wins at once, without being banked.
handle_roll(roll) ==
  /\ roll_result' = roll
  /\ UNCHANGED scores
  /\ \/ roll = 1 /\ bust /\ UNCHANGED <<game_over, game_winner>>
     \/ /\ roll # 1
        /\ turn_score' = turn_score + roll
        /\ UNCHANGED current_player
        /\ IF reaches_target(scores[current_player] + turn_score + roll)
             THEN game_over' = 1 /\ game_winner' = current_player
             ELSE UNCHANGED <<game_over, game_winner>>

holds_after_switching ==
  /\ switch_player
  /\ scores' = [scores EXCEPT ![1 - current_player] = @ + turn_score]
  /\ turn_score' = 0
  /\ roll_result' = 0
  /\ UNCHANGED <<game_over, game_winner>>

\* Banking is not checked against the target.
handle_hold ==
  /\ scores' = [scores EXCEPT ![current_player] = @ + turn_score]
  /\ turn_score' = 0
  /\ roll_result' = 0
  /\ switch_player
  /\ UNCHANGED <<game_over, game_winner>>

-----------------------------------------------------------------------------
(* handle_game_input: a command from seat i, while the game is not over *)

Roll(i, roll) == game_over = 0 /\ i = current_player /\ handle_roll(roll)

Hold(i) == game_over = 0 /\ i = current_player /\ handle_hold

\* QUIT is taken from either seat at any time.
Quit(i) ==
  /\ game_over = 0
  /\ game_over' = 1
  /\ game_winner' = 1 - i
  /\ UNCHANGED <<scores, current_player, turn_score, roll_result>>

\* The pause lasted RECONNECT_TIMEOUT: the winner is a seat, or there is none.
PauseTimeout(winner) ==
  /\ game_over = 0
  /\ game_over' = 1
  /\ game_winner' = winner
  /\ UNCHANGED <<scores, current_player, turn_score, roll_result>>

\* The room was marked ABORTED: the game is over and the winner is left unset.
RoomAborted ==
  /\ game_over = 0
  /\ game_over' = 1
  /\ UNCHANGED <<scores, current_player, turn_score, roll_result, game_winner>>

Next ==
  \/ \E i \in Player, roll \in Die : Roll(i, roll)
  \/ \E i \in Player : Hold(i)
  \/ \E i \in Player : Quit(i)
  \/ \E w \in Player \cup {-1} : PauseTimeout(w)
  \/ RoomAborted

Spec == init_game /\ [][Next]_vars

-----------------------------------------------------------------------------
TypeOK ==
  /\ scores \in [Player -> Nat]
  /\ current_player \in Player
  /\ turn_score \in Nat
  /\ roll_result \in 0 .. 6
  /\ game_over \in {0, 1}
  /\ game_winner \in Player \cup {-1}

\* handle_hold banks without looking at the target (game.c:46-53), so a player
\* who banked 30 would play on unrewarded: no banked score ever gets there.
BankedBelowTarget == \A i \in Player : scores[i] < WINNING_SCORE

\* Whoever has the points for a win, banked and at risk, has already been
\* declared the winner: the check of game.c:38 is made for the player who rolled
\* and not for the one the turn has passed to.  Only a win overshoots, and by
\* less than one die.  A running game has no winner.
ReachingWins ==
  LET total == scores[current_player] + turn_score
  IN  /\ total >= WINNING_SCORE => game_over = 1 /\ game_winner = current_player
      /\ game_over = 0 => game_winner = -1
      /\ total < WINNING_SCORE + 6

\* The points at risk belong to the player to move: after a 1 or a hold nothing
\* is carried into the opponent's turn, and what the clients are shown as the
\* last roll agrees with it.  A turn is never worth exactly one point.
TurnStartsClean ==
  /\ turn_score = 0 <=> roll_result \in {0, 1}
  /\ turn_score # 1

\* The part of the state a pair of clients can rely on, as a game of turns.
Turns == INSTANCE PigTurns WITH
  Target  <- WINNING_SCORE,
  score   <- scores,
  mover   <- current_player,
  verdict <- IF game_over = 1 THEN game_winner ELSE 2

\* The dice game implements the game of turns (dokumentace.md:44-52): the rolls
\* of one turn together are one step, and nothing else moves a banked score.
TurnsSpec == Turns!Spec
=============================================================================
