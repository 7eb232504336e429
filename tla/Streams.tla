------------------------------ MODULE Streams ------------------------------
(***************************************************************************)
(* What text output promises to the game: what is printed goes at once and *)
(* in full to the innermost open table, or to all the selected streams if  *)
(* no table is open; in the order in which it is printed.  Characters are  *)
(* told by their number in this order.                                     *)
(***************************************************************************)
EXTENDS Naturals, Sequences

CONSTANTS Table

VARIABLES
  count,     \* characters printed so far
  on,        \* the selected streams
  screen, script,
  open,      \* the open tables, the innermost last
  stored,    \* the text in each table
  defined    \* FALSE once the tables were nested too deeply, or a word was
             \* too long: what follows is undefined

text == <<count, screen, script, stored>>
vars == <<text, on, open, defined>>

Init ==
  /\ count = 0 /\ on = [screen |-> TRUE, script |-> FALSE]
  /\ screen = <<>> /\ script = <<>>
  /\ open = <<>> /\ stored = [t \in Table |-> <<>>]
  /\ defined = TRUE

PutChar ==
  /\ count' = count + 1
  /\ IF open # <<>>
     THEN /\ stored' = [stored EXCEPT ![open[Len(open)]] = Append(@, count')]
          /\ UNCHANGED <<screen, script>>
     ELSE /\ screen' = IF on.screen THEN Append(screen, count') ELSE screen
          /\ script' = IF on.script THEN Append(script, count') ELSE script
          /\ UNCHANGED stored
  /\ UNCHANGED <<on, open, defined>>

Select == on' \in [screen : BOOLEAN, script : BOOLEAN] /\ UNCHANGED <<text, open, defined>>

Open(t) ==
  /\ open' = Append(open, t)
  /\ stored' = [stored EXCEPT ![t] = <<>>]
  /\ UNCHANGED <<count, screen, script, on, defined>>

Close ==
  /\ open # <<>>
  /\ open' = SubSeq(open, 1, Len(open) - 1)
  /\ UNCHANGED <<text, on, defined>>

Lost == defined' = FALSE

Next ==
  \/ defined /\ (PutChar \/ Select \/ (\E t \in Table : Open(t)) \/ Close)
  \/ Lost

Spec == Init /\ [][Next]_vars
=============================================================================
