------------------------------ MODULE PigTurns ------------------------------
(* What a game of Pig promises its two players, turn by turn: a turn adds    *)
(* points to the score of the player who took it, or nothing, and passes on; *)
(* the turn that takes a player to the target ends the game in that player's *)
(* favour; a game may also end by forfeit, or without a winner.  Dice, the   *)
(* points at risk during a turn and the order of rolls are not visible.      *)
EXTENDS Integers

CONSTANT Target          \* points needed to win, a positive number

VARIABLES
  score,                 \* points each player has banked
  mover,                 \* whose turn it is
  verdict                \* Playing, or the winner, or -1: ended with no winner

tvars == <<score, mover, verdict>>

Side    == {0, 1}
Playing == 2

Init ==
  /\ score = [i \in Side |-> 0]
  /\ mover \in Side
  /\ verdict = Playing

\* A turn worth n points that does not win; 1 cannot be a turn's worth.
Take(n) ==
  /\ verdict = Playing
  /\ n # 1
  /\ score[mover] + n < Target
  /\ score' = [score EXCEPT ![mover] = @ + n]
  /\ mover' = 1 - mover
  /\ UNCHANGED verdict

\* The mover's turn reaches the target.
Win ==
  /\ verdict = Playing
  /\ verdict' = mover
  /\ UNCHANGED <<score, mover>>

\* One player gives up or is timed out: the other wins, whoever's turn it is.
Forfeit(loser) ==
  /\ verdict = Playing
  /\ verdict' = 1 - loser
  /\ UNCHANGED <<score, mover>>

\* The game ends with nobody the winner.
Abandon ==
  /\ verdict = Playing
  /\ verdict' = -1
  /\ UNCHANGED <<score, mover>>

Next ==
  \/ \E n \in 0 .. Target - 1 : Take(n)
  \/ Win
  \/ \E i \in Side : Forfeit(i)
  \/ Abandon

Spec == Init /\ [][Next]_tvars
=============================================================================
