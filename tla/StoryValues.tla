---------------------------- MODULE StoryValues ----------------------------
(***************************************************************************)
(* The values of a routine, as a story sees them: its locals and the       *)
(* global variables, the game stack, whose top can be read and written as  *)
(* variable 0, and stacks of its own that the story keeps in memory.       *)
(***************************************************************************)
EXTENDS Integers, Sequences

CONSTANTS WORD, Variable, Capacity

VARIABLES variable, game, user, answer

vars == <<variable, game, user, answer>>

zword == 0..(WORD - 1)
Branch(taken) == IF taken THEN <<1>> ELSE <<0>>
Signed(w) == IF 2 * w >= WORD THEN w - WORD ELSE w

Init ==
  /\ variable \in [Variable -> zword] /\ game \in Seq(zword)
  /\ user = <<>> /\ answer = <<>>

Top == game # <<>>
Value(v) == IF v = 0 THEN Head(game) ELSE variable[v]
Readable(v) == v = 0 => Top

(* One variable is given a value; the game stack is as deep as before.     *)
Assign(v, x) ==
  /\ Readable(v)
  /\ variable' = IF v = 0 THEN variable ELSE [variable EXCEPT ![v] = x]
  /\ game' = IF v = 0 THEN <<x>> \o Tail(game) ELSE game
  /\ UNCHANGED user

Step(v, by) == LET x == (Value(v) + by) % WORD IN Assign(v, x)
Count(v, by) ==
  /\ Step(v, by)
  /\ \/ answer' = <<>>
     \/ \E limit \in zword :
          LET new == Signed((Value(v) + by) % WORD)
          IN  answer' = Branch(IF by = 1 THEN new > Signed(limit) ELSE new < Signed(limit))
Load(v) == Readable(v) /\ answer' = <<Value(v)>> /\ UNCHANGED <<variable, game, user>>
Store(v, x) == Assign(v, x) /\ answer' = <<>>

Push(x) == game' = <<x>> \o game /\ answer' = <<>> /\ UNCHANGED <<variable, user>>
Pop(n) ==
  /\ Len(game) >= n /\ game' = SubSeq(game, n + 1, Len(game)) /\ answer' = <<>>
  /\ UNCHANGED <<variable, user>>
Pull ==
  /\ Top /\ game' = Tail(game) /\ answer' = <<Head(game)>> /\ UNCHANGED <<variable, user>>
(* Pulled into the stack, the value replaces the one below it.             *)
PullInto(v) ==
  /\ Top /\ answer' = <<>> /\ UNCHANGED user
  /\ IF v = 0 THEN Len(game) > 1 /\ game' = <<Head(game)>> \o Tail(Tail(game)) /\ UNCHANGED variable
     ELSE game' = Tail(game) /\ variable' = [variable EXCEPT ![v] = Head(game)]

(* A full stack stays as it is.  The answer tells whether there is room    *)
(* for the next value.                                                     *)
UserPush(x) ==
  /\ user' = IF Len(user) < Capacity THEN <<x>> \o user ELSE user
  /\ answer' = Branch(Len(user') < Capacity)
  /\ UNCHANGED <<variable, game>>
UserPull ==
  /\ user # <<>> /\ user' = Tail(user) /\ answer' = <<Head(user)>>
  /\ UNCHANGED <<variable, game>>
UserPop(n) ==
  /\ Len(user) >= n /\ user' = SubSeq(user, n + 1, Len(user)) /\ answer' = <<>>
  /\ UNCHANGED <<variable, game>>

Next ==
  \/ \E v \in Variable \cup {0} :
       \/ Count(v, 1) \/ Count(v, -1) \/ Load(v) \/ PullInto(v)
       \/ \E x \in zword : Store(v, x)
  \/ Pull \/ UserPull
  \/ \E x \in zword : Push(x) \/ UserPush(x)
  \/ \E n \in 0..Len(game) : Pop(n)
  \/ \E n \in 0..Len(user) : UserPop(n)

Spec == Init /\ [][Next]_vars
=============================================================================
