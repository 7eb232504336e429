------------------------------ MODULE StdFiles ------------------------------
(***************************************************************************)
(* What the callers of stdio.c expect of an open file: a sequence of bytes *)
(* and a position in it.  Reading returns the bytes from the position on,  *)
(* writing puts bytes there, and the file grows when they reach beyond it. *)
(***************************************************************************)
EXTENDS Integers, Sequences

CONSTANTS Handle, Files, Byte, MaxBytes, EOF, NULL, BEYOND

VARIABLES open, answer, crashed

Closed == [bytes |-> <<>>, pos |-> 0, writes |-> FALSE, open |-> FALSE]
Reading(f) == [bytes |-> Files[f], pos |-> 0, writes |-> FALSE, open |-> TRUE]
Writing == [bytes |-> <<>>, pos |-> 0, writes |-> TRUE, open |-> TRUE]

Init == open = [h \in Handle |-> Closed] /\ answer = <<NULL>> /\ crashed = FALSE

AtMost(n, limit) == IF n <= limit THEN n ELSE limit
Rest(s) == SubSeq(s.bytes, s.pos + 1, Len(s.bytes))
Written(s, new) ==
  [s EXCEPT !.bytes = SubSeq(s.bytes, 1, s.pos) \o new
                      \o SubSeq(s.bytes, s.pos + Len(new) + 1, Len(s.bytes)),
            !.pos = s.pos + Len(new)]

Open(h) ==
  /\ ~open[h].open
  /\ \/ answer' = <<NULL>> /\ UNCHANGED open
     \/ \E s \in {Writing} \cup {Reading(f) : f \in DOMAIN Files} :
          answer' = <<h>> /\ open' = [open EXCEPT ![h] = s]
  /\ UNCHANGED crashed

Close(h) == open' = [open EXCEPT ![h] = Closed] /\ answer' = <<0>> /\ UNCHANGED crashed

(* At the end there may be one byte more, which is not the file's.         *)
Get(h) ==
  LET s == open[h]
  IN  /\ IF s.pos < Len(s.bytes)
         THEN answer' = <<s.bytes[s.pos + 1]>> /\ open' = [open EXCEPT ![h].pos = @ + 1]
         ELSE answer' \in {<<EOF>>, <<BEYOND>>} /\ UNCHANGED open
      /\ UNCHANGED crashed

Unget(h) ==
  /\ \/ answer' = <<EOF>> /\ UNCHANGED open
     \/ answer' \in {<<c>> : c \in Byte} /\ open[h].pos > 0
        /\ open' = [open EXCEPT ![h].pos = @ - 1]
     \/ answer' \in {<<c>> : c \in Byte} /\ open[h].pos = Len(open[h].bytes) /\ UNCHANGED open
  /\ UNCHANGED crashed

(* Reading on after the end, where that byte more was taken, is fatal.     *)
Read(h, n) ==
  LET got == SubSeq(Rest(open[h]), 1, AtMost(n, Len(Rest(open[h]))))
  IN  \/ /\ answer' = got /\ open' = [open EXCEPT ![h].pos = @ + Len(got)]
         /\ UNCHANGED crashed
      \/ open[h].pos = Len(open[h].bytes) /\ crashed' = TRUE /\ UNCHANGED <<open, answer>>

(* The items that were written, each of size bytes, or the character.      *)
Put(h, new, done, refused) ==
  /\ IF open[h].writes
     THEN open' = [open EXCEPT ![h] = Written(@, new)] /\ answer' = <<done>>
     ELSE answer' = <<refused>> /\ UNCHANGED open
  /\ UNCHANGED crashed
Write(h, size, nmemb) ==
  \E new \in [1..size * nmemb -> Byte] : Put(h, new, nmemb, 0)
PutChar(h, c) == Put(h, <<c>>, c, EOF)

Seek(h) ==
  /\ \/ answer' = <<-1>> /\ UNCHANGED open
     \/ answer' = <<0>> /\ \E p \in 0..Len(open[h].bytes) : open' = [open EXCEPT ![h].pos = p]
  /\ UNCHANGED crashed

Next ==
  \E h \in Handle :
    \/ Open(h)
    \/ open[h].open
       /\ \/ Close(h) \/ Get(h) \/ Unget(h) \/ Seek(h)
          \/ \E n \in 0..MaxBytes : Read(h, n)
          \/ \E size \in 1..MaxBytes : \E nmemb \in 0..(MaxBytes \div size) : Write(h, size, nmemb)
          \/ \E c \in Byte : PutChar(h, c)

Spec == Init /\ [][Next]_<<open, answer, crashed>>
=============================================================================
