----------------------------- MODULE Allocator -----------------------------
(***************************************************************************)
(* What malloc promises: blocks of memory, apart from one another, that    *)
(* keep their contents until they are freed.                               *)
(***************************************************************************)
EXTENDS Integers, FiniteSets

CONSTANTS
  HeapBase, HeapMax,      \* the addresses of the heap
  Alignment

VARIABLE blocks           \* from the address of a block to its bytes, and
                          \* whether they are what the program put there

Init == blocks = <<>>

Apart(a, b) ==
  a + blocks[a].bytes <= b \/ b + blocks[b].bytes <= a

Good ==
  \A a \in DOMAIN blocks :
    /\ blocks[a].intact
    /\ a % Alignment = 0 /\ a >= HeapBase /\ a + blocks[a].bytes <= HeapMax
    /\ \A b \in DOMAIN blocks \ {a} : Apart(a, b)

Same(A) == \A a \in A : blocks'[a] = blocks[a]

(* One or more new blocks; the others stay.                                *)
Allocate ==
  /\ DOMAIN blocks \subseteq DOMAIN blocks' /\ DOMAIN blocks # DOMAIN blocks'
  /\ Same(DOMAIN blocks)
  /\ Good'

Free ==
  /\ DOMAIN blocks' \subseteq DOMAIN blocks /\ DOMAIN blocks # DOMAIN blocks'
  /\ Same(DOMAIN blocks')
  /\ Good'

(* A block gets a new size, where it is or elsewhere.                      *)
Reallocate ==
  \E a \in DOMAIN blocks, b \in DOMAIN blocks' :
    /\ DOMAIN blocks' = (DOMAIN blocks \ {a}) \cup {b}
    /\ Same(DOMAIN blocks \ {a})
    /\ Good'

Next == Allocate \/ Free \/ Reallocate
Spec == Init /\ [][Next]_blocks
=============================================================================
