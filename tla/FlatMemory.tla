----------------------------- MODULE FlatMemory -----------------------------
(***************************************************************************)
(* What demand paging promises to the interpreter: a memory that simply    *)
(* holds the image it starts with.  Loads and stores are all there is;     *)
(* where a page comes from, and when, cannot be told.                      *)
(***************************************************************************)
CONSTANTS Page, Offset, Zero, Value, Image

VARIABLES
  memory,      \* the contents of every page
  register     \* what the last load returned

Load(v, i) == register' = memory[v][i] /\ UNCHANGED memory

Store(v, i, value) ==
  /\ memory' = [memory EXCEPT ![v][i] = value]
  /\ UNCHANGED register

Init == memory = Image /\ register = Zero

Next == \E v \in Page, i \in Offset :
          Load(v, i) \/ \E value \in Value : Store(v, i, value)

Spec == Init /\ [][Next]_<<memory, register>>
=============================================================================
