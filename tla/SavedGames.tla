----------------------------- MODULE SavedGames -----------------------------
(***************************************************************************)
(* What saving promises to the player: a restore brings back the whole of  *)
(* the state that was saved, or leaves the present one alone, or stops the *)
(* interpreter.                                                            *)
(***************************************************************************)
CONSTANTS
  Start,     \* states a game may be in
  Other,     \* states it may come to otherwise
  NoGame

VARIABLES
  game,      \* the state of the game
  slot,      \* the state in the saved file, or NoGame
  halted

vars == <<game, slot, halted>>

Init == game \in Start /\ slot = NoGame /\ halted = FALSE

Play == game' \in Other /\ UNCHANGED <<slot, halted>>

(* The file may be spoiled later, or not be written to its end.            *)
Save == slot' \in {game, NoGame} /\ UNCHANGED <<game, halted>>

Restore == slot # NoGame /\ game' = slot /\ UNCHANGED <<slot, halted>>

(* os_fatal.                                                               *)
Halt == halted' = TRUE /\ UNCHANGED <<game, slot>>

Next == ~halted /\ (Play \/ Save \/ Restore \/ Halt)

Spec == Init /\ [][Next]_vars
=============================================================================
