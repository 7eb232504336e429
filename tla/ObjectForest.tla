---------------------------- MODULE ObjectForest ----------------------------
(***************************************************************************)
(* What the object table promises to the game: every object has an ordered *)
(* list of children, the one put there last first, an object is in one     *)
(* list at most, and has a set of attributes.                              *)
(***************************************************************************)
EXTENDS Naturals, Sequences, SequencesExt

CONSTANTS Object, Attribute

VARIABLES children, attributes

vars == <<children, attributes>>

Init ==
  /\ children \in [Object -> Seq(Object)]
  /\ attributes \in [Object -> SUBSET Attribute]

(* What becomes of the lists when o is taken out of all of them, or is     *)
(* then put first into one.                                                *)
Without(o) == [p \in Object |-> RemoveFirst(children[p], o)]

Moved(o) ==
  LET lists == Without(o)
  IN  {lists} \cup {[lists EXCEPT ![d] = <<o>> \o @] : d \in Object}

Move ==
  /\ UNCHANGED attributes
  /\ \E o \in Object : children' \in Moved(o)

SetAttribute ==
  /\ UNCHANGED children
  /\ \E o \in Object, a \in Attribute :
       attributes' \in {[attributes EXCEPT ![o] = @ \cup {a}],
                        [attributes EXCEPT ![o] = @ \ {a}]}

Next == Move \/ SetAttribute

Spec == Init /\ [][Next]_vars
=============================================================================
