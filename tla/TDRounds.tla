------------------------------ MODULE TDRounds ------------------------------
(***************************************************************************)
(* What the tower-defense engine promises the program that plays it: it    *)
(* waits until it has been told to place the towers of a round and play,   *)
(* plays the round to its end, and waits again, until a side has lost.     *)
(***************************************************************************)
EXTENDS Naturals

VARIABLES stage,  \* what writeState shows: waiting, playing, finished; or failed
          round,  \* GameState.round
          owed    \* are there towers of this round still to be placed?

vars == <<stage, round, owed>>

Init == stage = "waiting" /\ round = 1 /\ owed = TRUE

\* message: the round message places all the towers of a round, once.
Placed == /\ stage = "waiting" /\ owed
          /\ owed' = FALSE
          /\ UNCHANGED <<stage, round>>

\* startRound: not before both sides have placed.
Start == /\ stage = "waiting" /\ ~owed
         /\ stage' = "playing"
         /\ UNCHANGED <<round, owed>>

\* endRound.
End == /\ stage = "playing"
       /\ stage' = "waiting" /\ round' = round + 1 /\ owed' = TRUE

\* The loop of main ends.
Finish == /\ stage \in {"waiting", "playing"} /\ round > 1
          /\ stage' = "finished"
          /\ UNCHANGED <<round, owed>>

\* A round message without positions.
Fail == /\ stage = "waiting" /\ owed
        /\ stage' = "failed"
        /\ UNCHANGED <<round, owed>>

Next == Placed \/ Start \/ End \/ Finish \/ Fail

Spec == Init /\ [][Next]_vars
=============================================================================
