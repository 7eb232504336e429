------------------------------ MODULE MCZStack ------------------------------
(***************************************************************************)
(* Instances of ZStack and of Variables for TLC: the frames of routines,   *)
(* and the values within one routine.  One of the two runs, the other      *)
(* stays where it starts.                                                  *)
(*                                                                         *)
(* The two addresses lie on both sides of a 512-byte boundary, so that the *)
(* halves of a saved pc are told apart; 10 words hold two frames.          *)
(***************************************************************************)
EXTENDS ZStack

CONSTANT Parts

VARIABLES
  part,                                                  \* which part runs
  release, words, top, globals, user_stack, answer, ops  \* of Variables

MCPC == {511, 512}
MCRoutines == {510}
MCWord == {1}

V == INSTANCE Variables WITH
  h_version <- release, stack <- words, sp <- top, table <- user_stack,
  WORD <- 4, STACK_SIZE <- 4, NumLocals <- 2, Globals <- {16}, Capacity <- 2, MaxOps <- 4

ASSUME V!VariablesAssumption

stackvars == vars
values == <<release, words, top, globals, user_stack, answer, ops>>

MCInit == part \in Parts /\ Init /\ V!Init /\ (part # "values" => release = 4)
MCNext ==
  \/ part = "frames" /\ Next /\ UNCHANGED <<part, values>>
  \/ part = "values" /\ V!Next /\ UNCHANGED <<part, stackvars>>
MCSpec == MCInit /\ [][MCNext]_<<part, stackvars, values>>
-----------------------------------------------------------------------------
(* The stack and the memory of the globals cannot be told from separate    *)
(* variables and stacks.                                                   *)
ImplementsValues == V!ImplementsValues
=============================================================================
