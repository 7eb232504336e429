-------------------------------- MODULE Line --------------------------------
(***************************************************************************)
(* What an editor of one line promises to the player: a text, a cursor     *)
(* in it or at its end, and keys that change the text where the cursor is. *)
(* A key that needs a character where there is none promises nothing, and  *)
(* the text is only known again when the whole line has been erased.       *)
(***************************************************************************)
EXTENDS Naturals, Sequences, SequencesExt

CONSTANTS Char, Size

VARIABLES
  known,       \* FALSE: the player cannot say what the text is
  text, pos    \* the characters before the cursor are text[1..pos]

vars == <<known, text, pos>>

Init == known = TRUE /\ text = <<>> /\ pos = 0

Edited(t, p) == known /\ known' = TRUE /\ text' = t /\ pos' = p
Unknown == known' = FALSE /\ text' = <<>> /\ pos' = 0

(* A letter replaces the one at the cursor, as long as there is room.      *)
Type(c) ==
  IF pos >= Size - 1 THEN Edited(text, pos)
  ELSE Edited([i \in 1..(IF pos = Len(text) THEN pos + 1 ELSE Len(text)) |->
                 IF i = pos + 1 THEN c ELSE text[i]],
              pos + 1)

DeleteBefore == pos > 0 /\ Edited(RemoveAt(text, pos), pos - 1)
DeleteAfter  == pos < Len(text) /\ Edited(RemoveAt(text, pos + 1), pos)
EraseAfter   == Edited(SubSeq(text, 1, pos), pos)
EraseAll     == known' = TRUE /\ text' = <<>> /\ pos' = 0
Move         == \E p \in 0..Len(text) : Edited(text, p)
Swap ==
  /\ pos \in 1..(Len(text) - 1)
  /\ Edited([text EXCEPT ![pos] = text[pos + 1], ![pos + 1] = text[pos]], pos + 1)

Misuse == (pos = Len(text) \/ pos = 0) /\ Unknown

(* A new line starts with what the game has put there; one that was        *)
(* interrupted goes on with the same text.                                 *)
Start == \E n \in 0..Size : \E t \in [1..n -> Char] : 
           known' = TRUE /\ text' = t /\ pos' = n
Continue == Edited(text, Len(text))

Next ==
  \/ \E c \in Char : Type(c)
  \/ DeleteBefore \/ DeleteAfter \/ EraseAfter \/ EraseAll \/ Move \/ Swap
  \/ Misuse
  \/ ~known /\ Unknown
  \/ Start \/ Continue

Spec == Init /\ [][Next]_vars
=============================================================================
