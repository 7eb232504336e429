-------------------------- MODULE LineEditorProofs --------------------------
(***************************************************************************)
(* The line editor: each key does to the text in the buffer what Line says, *)
(* for every size of the buffer, every text that the game puts there, all  *)
(* characters, and whatever bytes lie behind the zero.                     *)
(*                                                                         *)
(* The first part is about buffers: where the first zero is after each of  *)
(* the operations on bytes, and which text stands before it.  The second   *)
(* has a lemma for each key.  The mapping shows the text only while it is  *)
(* known, that is, while no key was used where there was nothing to change; *)
(* what such a key leaves in the buffer is still a buffer that ends.       *)
(***************************************************************************)
EXTENDS LineEditor, SequenceTheorems, WellFoundedInduction, TLAPS

TextOf(b) == [n \in 1..strlen(b) |-> b[n - 1]]

(* The inductive invariant: the buffer always ends, the cursor is in it,   *)
(* and in a known line the text fits and the cursor is not beyond its end. *)
IInv ==
  /\ at \in {"game", "line", "aside"} /\ known \in BOOLEAN
  /\ buf \in Junk /\ i \in 0..LineMax
  /\ known => strlen(buf) <= LineMax
  /\ known /\ at = "line" => i <= strlen(buf)
-----------------------------------------------------------------------------
LEMMA Sizes == LineMax \in Nat \ {0} /\ Preload \in 0..LineMax /\ 0 \notin Char
BY LineEditorAssumption, Zenon DEF LineEditorAssumption

(* Every buffer ends: there is a first zero at or after any place in it.   *)
LEMMA TerminatorFacts ==
  ASSUME NEW b \in Junk, NEW from \in 0..(LineMax + 2)
  PROVE  /\ Terminator(b, from) \in from..(LineMax + 2) /\ b[Terminator(b, from)] = 0
         /\ \A m \in from..(Terminator(b, from) - 1) : b[m] # 0
<1> DEFINE T == {n \in from..(LineMax + 2) : b[n] = 0}
<1>1. LineMax + 2 \in T /\ T \subseteq Nat
  BY Sizes DEF Junk
<1>2. PICK n \in T : \A m \in T : ~(<<m, n>> \in OpToRel(<, Nat))
  <2> HIDE DEF T
  <2> QED BY <1>1, WFMin, NatLessThanWellFounded, Zenon
<1>3. \A m \in T : n <= m
  <2> SUFFICES ASSUME NEW m \in T, ~(n <= m) PROVE FALSE
    OBVIOUS
  <2>1. m \in Nat /\ n \in Nat /\ m < n
    BY <1>1
  <2>2. <<m, n>> \in OpToRel(<, Nat)
    BY <2>1 DEF OpToRel
  <2> QED BY <1>2, <2>2
<1>4. n \in from..(LineMax + 2) /\ b[n] = 0 /\ \A m \in from..(n - 1) : b[m] # 0
  <2>1. n \in from..(LineMax + 2) /\ b[n] = 0
    OBVIOUS
  <2>2. ASSUME NEW m \in from..(n - 1), b[m] = 0 PROVE FALSE
    <3>1. m \in from..(LineMax + 2) /\ ~(n <= m)
      BY <2>1, Sizes
    <3>2. m \in T
      BY <3>1, <2>2
    <3> QED BY <3>1, <3>2, <1>3
  <2> QED BY <2>1, <2>2
<1> QED BY <1>4, Zenon DEF Terminator

LEMMA TerminatorIs ==
  ASSUME NEW b \in Junk, NEW from \in 0..(LineMax + 2), NEW t \in from..(LineMax + 2),
         b[t] = 0, \A m \in from..(t - 1) : b[m] # 0
  PROVE  Terminator(b, from) = t
<1>1. PICK u \in from..(LineMax + 2) : u = Terminator(b, from)
  BY TerminatorFacts, Zenon
<1>2. b[u] = 0 /\ \A m \in from..(u - 1) : b[m] # 0
  BY <1>1, TerminatorFacts, Zenon
<1>3. ~(u < t) /\ ~(t < u)
  BY <1>2, Sizes
<1> QED BY <1>1, <1>3, Sizes

(* The length of the text, and the text.                                   *)
LEMMA LengthFacts ==
  ASSUME NEW b \in Junk
  PROVE  /\ strlen(b) \in 0..(LineMax + 2) /\ b[strlen(b)] = 0
         /\ \A m \in 0..(strlen(b) - 1) : b[m] \in Char
<1>1. 0 \in 0..(LineMax + 2)
  BY Sizes
<1>2. PICK s \in 0..(LineMax + 2) : s = strlen(b)
  BY <1>1, TerminatorFacts, Zenon DEF strlen
<1>3. b[s] = 0 /\ \A m \in 0..(s - 1) : b[m] # 0
  BY <1>1, <1>2, TerminatorFacts, Zenon DEF strlen
<1>4. \A m \in 0..(s - 1) : b[m] \in Char
  BY <1>3, Sizes DEF Junk, Index, Byte
<1> QED BY <1>2, <1>3, <1>4, Zenon

LEMMA LengthIs ==
  ASSUME NEW b \in Junk, NEW t \in 0..(LineMax + 2), b[t] = 0, \A m \in 0..(t - 1) : b[m] # 0
  PROVE  strlen(b) = t
BY TerminatorIs, Sizes DEF strlen

LEMMA TextFacts ==
  ASSUME NEW b \in Junk
  PROVE  /\ TextOf(b) \in Seq(Char) /\ Len(TextOf(b)) = strlen(b)
         /\ \A n \in 1..strlen(b) : TextOf(b)[n] = b[n - 1]
         /\ DOMAIN TextOf(b) = 1..strlen(b)
<1>1. PICK s \in Nat : s = strlen(b)
  BY LengthFacts
<1>2. \A n \in 1..s : b[n - 1] \in Char
  BY <1>1, LengthFacts
<1> QED BY <1>1, <1>2 DEF TextOf

LEMMA TextIs ==
  ASSUME NEW b \in Junk, NEW t \in Seq(Char), Len(t) = strlen(b),
         \A n \in 1..strlen(b) : t[n] = b[n - 1]
  PROVE  TextOf(b) = t
<1>1. TextOf(b) \in Seq(Char) /\ Len(TextOf(b)) = strlen(b)
      /\ \A n \in 1..strlen(b) : TextOf(b)[n] = b[n - 1]
  BY TextFacts
<1>2. Len(TextOf(b)) = Len(t) /\ \A n \in 1..Len(TextOf(b)) : TextOf(b)[n] = t[n]
  BY <1>1
<1> QED BY <1>1, <1>2, SeqEqual
-----------------------------------------------------------------------------
(* A buffer stays one, wherever a key is used.                             *)
LEMMA ByteSet ==
  ASSUME NEW b \in Junk, NEW n \in -1..(LineMax + 1), NEW v \in Byte
  PROVE  [b EXCEPT ![n] = v] \in Junk
BY Sizes DEF Junk, Index

LEMMA ByteRead ==
  ASSUME NEW b \in Junk, NEW n \in -1..(LineMax + 2)
  PROVE  b[n] \in Byte
BY Sizes DEF Junk, Index

LEMMA TypedJunk ==
  ASSUME NEW b \in Junk, NEW n \in 0..LineMax, NEW c \in Char
  PROVE  WithLetter(b, n, c) \in Junk
<1>1. [b EXCEPT ![n] = c] \in Junk
  BY ByteSet, Sizes DEF Byte
<1>2. [b EXCEPT ![n + 1] = 0] \in Junk
  BY ByteSet, Sizes DEF Byte
<1>3. \A d \in Junk : [d EXCEPT ![n] = c] \in Junk
  BY ByteSet, Sizes DEF Byte
<1>4. [b EXCEPT ![n + 1] = 0, ![n] = c] = [[b EXCEPT ![n + 1] = 0] EXCEPT ![n] = c]
  OBVIOUS
<1> QED BY <1>1, <1>2, <1>3, <1>4, Zenon DEF WithLetter

LEMMA SwappedJunk ==
  ASSUME NEW b \in Junk, NEW n \in 0..LineMax
  PROVE  Swapped(b, n) \in Junk
<1>1. b[n] \in Byte /\ b[n - 1] \in Byte
  BY ByteRead, Sizes
<1>2. [b EXCEPT ![n] = b[n - 1]] \in Junk
  BY <1>1, ByteSet, Sizes
<1>3. \A d \in Junk : [d EXCEPT ![n - 1] = b[n]] \in Junk
  BY <1>1, ByteSet, Sizes
<1>4. Swapped(b, n) = [[b EXCEPT ![n] = b[n - 1]] EXCEPT ![n - 1] = b[n]]
  BY DEF Swapped
<1> QED BY <1>2, <1>3, <1>4, Zenon

LEMMA ErasedJunk ==
  ASSUME NEW b \in Junk, NEW n \in 0..LineMax
  PROVE  Erased(b, n) \in Junk
<1>1. \A k \in Index : (IF k \in n..(LineMax - 1) THEN 0 ELSE b[k]) \in Byte
  BY DEF Junk, Byte
<1>2. LineMax + 2 \in Index /\ LineMax + 2 \notin n..(LineMax - 1)
  BY Sizes DEF Index
<1> QED BY <1>1, <1>2 DEF Erased, Junk

LEMMA DroppedJunk ==
  ASSUME NEW b \in Junk, NEW n \in 0..LineMax
  PROVE  Dropped(b, n) \in Junk
<1>1. PICK t \in (n + 1)..(LineMax + 2) : t = Terminator(b, n + 1)
  BY TerminatorFacts, Sizes
<1>2. \A k \in Index : (IF k \in n..(t - 1) THEN b[k + 1] ELSE b[k]) \in Byte
  BY Sizes DEF Junk, Byte, Index
<1>3. LineMax + 2 \in Index /\ LineMax + 2 \notin n..(t - 1)
  BY Sizes DEF Index
<1>4. [k \in Index |-> IF k \in n..(t - 1) THEN b[k + 1] ELSE b[k]] \in Junk
  BY <1>2, <1>3 DEF Junk
<1> QED BY <1>1, <1>4, Zenon DEF Dropped
-----------------------------------------------------------------------------
(* Within the text, the operations on the buffer are those of Line.        *)
LEMMA TypedText ==
  ASSUME NEW b \in Junk, NEW n \in 0..(LineMax - 2), n <= strlen(b), NEW c \in Char
  PROVE  /\ strlen(WithLetter(b, n, c)) = IF n = strlen(b) THEN n + 1 ELSE strlen(b)
         /\ TextOf(WithLetter(b, n, c)) =
              [k \in 1..(IF n = Len(TextOf(b)) THEN n + 1 ELSE Len(TextOf(b))) |->
                IF k = n + 1 THEN c ELSE TextOf(b)[k]]
<1>1. PICK s \in 0..(LineMax + 2) : s = strlen(b)
  BY LengthFacts, Zenon
<1>2. b[s] = 0 /\ \A m \in 0..(s - 1) : b[m] \in Char
  BY <1>1, LengthFacts, Zenon
<1>3. Len(TextOf(b)) = s /\ \A k \in 1..s : TextOf(b)[k] = b[k - 1]
  BY <1>1, TextFacts
<1>4. PICK d \in Junk : d = WithLetter(b, n, c)
  BY TypedJunk, Sizes
<1>5. PICK l \in Nat : l = IF n = s THEN n + 1 ELSE s
  OBVIOUS
<1>6. (b[n] = 0) <=> (n = s)
  BY <1>1, <1>2, Sizes
<1>7. /\ \A m \in 0..(l - 1) : d[m] = IF m = n THEN c ELSE b[m]
      /\ d[l] = 0 /\ l \in 0..(LineMax + 2)
  <2>0. DOMAIN b = Index /\ n \in Index /\ n + 1 \in Index
    BY Sizes DEF Junk, Index
  <2>1. CASE n = s
    <3>1. d = [b EXCEPT ![n + 1] = 0, ![n] = c]
      BY <2>1, <1>4, <1>6 DEF WithLetter
    <3>2. l = n + 1
      BY <2>1, <1>5
    <3> QED BY <2>0, <2>1, <3>1, <3>2, <1>1, Sizes DEF Index
  <2>2. CASE n # s
    <3>1. d = [b EXCEPT ![n] = c]
      BY <2>2, <1>4, <1>6 DEF WithLetter
    <3>2. l = s /\ s \in Index
      BY <2>2, <1>5, Sizes DEF Index
    <3> QED BY <2>0, <2>2, <3>1, <3>2, <1>1, <1>2, Sizes DEF Index
  <2> QED BY <2>1, <2>2
<1>8. \A m \in 0..(l - 1) : d[m] \in Char
  BY <1>2, <1>5, <1>7, <1>1, Sizes
<1>9. strlen(d) = l
  BY <1>7, <1>8, LengthIs, Sizes
<1>10. TextOf(d) = [k \in 1..l |-> IF k = n + 1 THEN c ELSE TextOf(b)[k]]
  <2>1. \A k \in 1..l : d[k - 1] = IF k = n + 1 THEN c ELSE TextOf(b)[k]
    BY <1>1, <1>3, <1>5, <1>7, Sizes
  <2> QED BY <2>1, <1>9 DEF TextOf
<1> QED BY <1>1, <1>3, <1>4, <1>5, <1>9, <1>10, Zenon

LEMMA SwappedText ==
  ASSUME NEW b \in Junk, NEW n \in 1..LineMax, n < strlen(b)
  PROVE  /\ strlen(Swapped(b, n)) = strlen(b)
         /\ TextOf(Swapped(b, n)) =
              [TextOf(b) EXCEPT ![n] = TextOf(b)[n + 1], ![n + 1] = TextOf(b)[n]]
<1>1. PICK s \in 0..(LineMax + 2) : s = strlen(b)
  BY LengthFacts, Zenon
<1>2. b[s] = 0 /\ \A m \in 0..(s - 1) : b[m] \in Char
  BY <1>1, LengthFacts, Zenon
<1>3. PICK t \in Seq(Char) : t = TextOf(b)
  BY TextFacts
<1>4. Len(t) = s /\ (\A k \in 1..s : t[k] = b[k - 1]) /\ DOMAIN t = 1..s
  BY <1>1, <1>3, TextFacts
<1>5. PICK d \in Junk : d = Swapped(b, n)
  BY SwappedJunk
<1>6. \A m \in 0..s : d[m] = IF m = n THEN b[n - 1] ELSE IF m = n - 1 THEN b[n] ELSE b[m]
  BY <1>5, Sizes DEF Swapped, Junk, Index
<1>7. d[s] = 0 /\ \A m \in 0..(s - 1) : d[m] \in Char
  BY <1>1, <1>2, <1>6
<1>8. strlen(d) = s
  BY <1>7, LengthIs, Sizes
<1>9. TextOf(d) = [t EXCEPT ![n] = t[n + 1], ![n + 1] = t[n]]
  <2>1. \A k \in 1..s : d[k - 1] = IF k = n THEN t[n + 1] ELSE IF k = n + 1 THEN t[n] ELSE t[k]
    BY <1>1, <1>4, <1>6
  <2>2. [t EXCEPT ![n] = t[n + 1], ![n + 1] = t[n]] =
        [k \in 1..s |-> IF k = n THEN t[n + 1] ELSE IF k = n + 1 THEN t[n] ELSE t[k]]
    BY <1>1, <1>4
  <2> QED BY <2>1, <2>2, <1>8 DEF TextOf
<1> QED BY <1>1, <1>3, <1>5, <1>8, <1>9, Zenon

LEMMA ErasedText ==
  ASSUME NEW b \in Junk, NEW n \in 0..LineMax, n <= strlen(b), strlen(b) <= LineMax
  PROVE  /\ strlen(Erased(b, n)) = n
         /\ TextOf(Erased(b, n)) = SubSeq(TextOf(b), 1, n)
<1>1. PICK s \in 0..LineMax : s = strlen(b)
  BY LengthFacts
<1>2. b[s] = 0 /\ \A m \in 0..(s - 1) : b[m] \in Char
  BY <1>1, LengthFacts, Zenon
<1>3. PICK t \in Seq(Char) : t = TextOf(b)
  BY TextFacts
<1>4. Len(t) = s /\ (\A k \in 1..s : t[k] = b[k - 1])
  BY <1>1, <1>3, TextFacts
<1>5. PICK d \in Junk : d = Erased(b, n)
  BY ErasedJunk
<1>6. d[n] = 0 /\ \A m \in 0..(n - 1) : d[m] = b[m]
  BY <1>1, <1>2, <1>5, Sizes DEF Erased, Index
<1>7. strlen(d) = n
  <2>1. \A m \in 0..(n - 1) : d[m] \in Char
    BY <1>1, <1>2, <1>6
  <2> QED BY <2>1, <1>6, LengthIs, Sizes
<1>8. /\ SubSeq(t, 1, n) \in Seq(Char) /\ Len(SubSeq(t, 1, n)) = n
      /\ \A k \in 1..n : SubSeq(t, 1, n)[k] = t[k]
  <2>1. \A k \in 1..n : t[k] \in Char
    BY <1>1, <1>4, ElementOfSeq
  <2> QED BY <2>1, SubSeqProperties
<1>9. \A k \in 1..n : SubSeq(t, 1, n)[k] = d[k - 1]
  BY <1>1, <1>4, <1>6, <1>8
<1>10. TextOf(d) = SubSeq(t, 1, n)
  BY <1>7, <1>8, <1>9, TextIs
<1> QED BY <1>3, <1>5, <1>7, <1>10, Zenon

LEMMA PartFacts ==
  ASSUME NEW S, NEW t \in Seq(S), NEW a \in Nat \ {0}, NEW z \in 0..Len(t), a <= z + 1
  PROVE  /\ SubSeq(t, a, z) \in Seq(S)
         /\ Len(SubSeq(t, a, z)) = (z + 1) - a
         /\ \A k \in 1..((z + 1) - a) : SubSeq(t, a, z)[k] = t[(a + k) - 1]
<1>1. a \in Int /\ z \in Int /\ Len(t) \in Nat
  BY LenProperties
<1>2. \A k \in a..z : t[k] \in S
  BY <1>1, ElementOfSeq
<1>3. /\ SubSeq(t, a, z) \in Seq(S)
      /\ Len(SubSeq(t, a, z)) = IF a <= z THEN z - a + 1 ELSE 0
      /\ \A k \in 1..(z - a + 1) : SubSeq(t, a, z)[k] = t[a + k - 1]
  BY <1>1, <1>2, SubSeqProperties
<1> QED BY <1>1, <1>3

LEMMA RemoveAtFacts ==
  ASSUME NEW S, NEW t \in Seq(S), NEW n \in 1..Len(t)
  PROVE  /\ Editor!RemoveAt(t, n) \in Seq(S)
         /\ Len(Editor!RemoveAt(t, n)) = Len(t) - 1
         /\ \A k \in 1..(Len(t) - 1) :
              Editor!RemoveAt(t, n)[k] = IF k < n THEN t[k] ELSE t[k + 1]
<1>1. PICK l \in Nat : l = Len(t)
  BY LenProperties
<1>2. n \in 1..l
  BY <1>1
<1>3. PICK x : x = SubSeq(t, 1, n - 1)
  OBVIOUS
<1>4. x \in Seq(S) /\ Len(x) = n - 1 /\ \A k \in 1..(n - 1) : x[k] = t[k]
  <2>1. PICK z \in 0..l : z = n - 1
    BY <1>2
  <2>2. x \in Seq(S) /\ Len(x) = (z + 1) - 1 /\ \A k \in 1..((z + 1) - 1) : x[k] = t[(1 + k) - 1]
    BY <1>1, <1>3, <2>1, PartFacts
  <2> QED BY <2>1, <2>2
<1>5. PICK y : y = SubSeq(t, n + 1, l)
  OBVIOUS
<1>6. y \in Seq(S) /\ Len(y) = l - n /\ \A k \in 1..(l - n) : y[k] = t[n + k]
  <2>1. PICK a \in Nat \ {0} : a = n + 1
    BY <1>2
  <2>2. y \in Seq(S) /\ Len(y) = (l + 1) - a /\ \A k \in 1..((l + 1) - a) : y[k] = t[(a + k) - 1]
    BY <1>1, <1>2, <1>5, <2>1, PartFacts
  <2> QED BY <2>1, <2>2, <1>2
<1>7. PICK r : r = x \o y
  OBVIOUS
<1>8. /\ r \in Seq(S) /\ Len(r) = Len(x) + Len(y)
      /\ \A k \in 1..(Len(x) + Len(y)) : r[k] = IF k <= Len(x) THEN x[k] ELSE y[k - Len(x)]
  BY <1>4, <1>6, <1>7, ConcatProperties, Zenon
<1>9. /\ r \in Seq(S) /\ Len(r) = l - 1
      /\ \A k \in 1..(l - 1) : r[k] = IF k < n THEN t[k] ELSE t[k + 1]
  BY <1>2, <1>4, <1>6, <1>8
<1> QED BY <1>1, <1>3, <1>5, <1>7, <1>9, Zenon DEF Editor!RemoveAt

LEMMA DroppedText ==
  ASSUME NEW b \in Junk, NEW n \in 0..LineMax, n < strlen(b)
  PROVE  /\ strlen(Dropped(b, n)) = strlen(b) - 1
         /\ TextOf(Dropped(b, n)) = Editor!RemoveAt(TextOf(b), n + 1)
<1>1. PICK s \in 0..(LineMax + 2) : s = strlen(b)
  BY LengthFacts, Zenon
<1>2. b[s] = 0 /\ \A m \in 0..(s - 1) : b[m] \in Char
  BY <1>1, LengthFacts, Zenon
<1>3. PICK t \in Seq(Char) : t = TextOf(b)
  BY TextFacts
<1>4. Len(t) = s /\ (\A k \in 1..s : t[k] = b[k - 1])
  BY <1>1, <1>3, TextFacts
<1>5. PICK d \in Junk : d = Dropped(b, n)
  BY DroppedJunk
<1>6. Terminator(b, n + 1) = s
  <2>1. \A m \in (n + 1)..(s - 1) : b[m] # 0
    BY <1>2, Sizes
  <2> QED BY <1>1, <1>2, <2>1, TerminatorIs, Sizes
<1>7. \A m \in 0..(s - 1) : d[m] = IF m < n THEN b[m] ELSE b[m + 1]
  <2>1. d = [k \in Index |-> IF k \in n..(s - 1) THEN b[k + 1] ELSE b[k]]
    BY <1>5, <1>6 DEF Dropped
  <2> QED BY <2>1, <1>1, Sizes DEF Index
<1>8. d[s - 1] = 0 /\ \A m \in 0..(s - 2) : d[m] \in Char
  <2>1. d[s - 1] = 0
    <3>1. s - 1 \in 0..(s - 1) /\ ~(s - 1 < n) /\ (s - 1) + 1 = s
      BY <1>1
    <3> QED BY <3>1, <1>2, <1>7
  <2>2. ASSUME NEW m \in 0..(s - 2) PROVE d[m] \in Char
    <3>1. m \in 0..(s - 1) /\ m + 1 \in 0..(s - 1)
      BY <1>1
    <3> QED BY <3>1, <1>2, <1>7
  <2> QED BY <2>1, <2>2
<1>9. strlen(d) = s - 1
  BY <1>1, <1>8, LengthIs, Sizes
<1>10. PICK r \in Seq(Char) :
         /\ r = Editor!RemoveAt(t, n + 1) /\ Len(r) = s - 1
         /\ \A k \in 1..(s - 1) : r[k] = IF k < n + 1 THEN t[k] ELSE t[k + 1]
  <2>1. PICK m \in 1..Len(t) : m = n + 1
    BY <1>1, <1>4
  <2>2. /\ Editor!RemoveAt(t, m) \in Seq(Char)
        /\ Len(Editor!RemoveAt(t, m)) = Len(t) - 1
        /\ \A k \in 1..(Len(t) - 1) :
             Editor!RemoveAt(t, m)[k] = IF k < m THEN t[k] ELSE t[k + 1]
    BY RemoveAtFacts, Zenon
  <2> QED BY <2>1, <2>2, <1>4, Zenon
<1>11. TextOf(d) = r
  <2>1. ASSUME NEW k \in 1..(s - 1) PROVE r[k] = d[k - 1]
    <3>1. PICK j \in 0..(s - 2) : j = k - 1 /\ k = j + 1 /\ k + 1 \in 1..s /\ (k + 1) - 1 = k
      BY <1>1
    <3>2. t[k] = b[j] /\ t[k + 1] = b[k]
      <4>1. t[k + 1] = b[(k + 1) - 1] /\ t[k] = b[k - 1]
        BY <3>1, <1>4
      <4> QED BY <4>1, <3>1, Zenon
    <3>3. d[j] = IF j < n THEN b[j] ELSE b[k]
      BY <3>1, <1>7
    <3>4. r[k] = IF j < n THEN t[k] ELSE t[k + 1]
      BY <3>1, <1>1, <1>10
    <3> QED BY <3>1, <3>2, <3>3, <3>4, Zenon
  <2>2. \A k \in 1..strlen(d) : r[k] = d[k - 1]
    BY <2>1, <1>9, Zenon
  <2> QED BY <2>2, <1>9, <1>10, TextIs, Zenon
<1> QED BY <1>1, <1>3, <1>5, <1>9, <1>10, <1>11, Zenon
-----------------------------------------------------------------------------
(* What Line sees of the state.                                            *)
Seen == IF known THEN Text ELSE <<>>
Position == IF ~known THEN 0 ELSE IF at = "aside" THEN strlen(buf) ELSE i

(* A step keeps the invariant, and is one of Line or leaves it alone.      *)
Steps == IInv' /\ (Editor!Next \/ UNCHANGED <<known, Seen, Position>>)

LEMMA TextNow == Text = TextOf(buf)
BY Zenon DEF Text, TextOf
LEMMA TextNext == Text' = TextOf(buf')
BY Zenon DEF Text, TextOf, strlen, Terminator

(* A key that changes the text, and one after which it is not known.       *)
LEMMA Known ==
  ASSUME IInv, known, known' = TRUE, NEW b \in Junk, NEW n \in 0..strlen(b),
         strlen(b) <= LineMax, Redraw(b, n)
  PROVE  IInv' /\ Seen' = TextOf(b) /\ Position' = n /\ Seen = TextOf(buf) /\ Position = i
<1>1. PICK s \in 0..LineMax : s = strlen(b)
  BY LengthFacts
<1>2. n \in 0..LineMax /\ (n > LineMax - 1 => n = LineMax)
  BY <1>1, Sizes
<1>3. i' = n
  BY <1>2 DEF Redraw
<1>4. buf' = b /\ at = "line" /\ at' = "line"
  BY DEF Redraw
<1>5. strlen(buf') = s /\ n <= s
  BY <1>1, <1>4
<1>6. strlen(buf)' = strlen(buf')
  BY Zenon DEF strlen, Terminator
<1>7. IInv'
  BY <1>1, <1>2, <1>3, <1>4, <1>5, <1>6 DEF IInv
<1>8. "line" # "aside"
  OBVIOUS
<1> QED BY <1>3, <1>4, <1>7, <1>8, TextNow, TextNext, Zenon DEF Seen, Position

LEMMA Unknown ==
  ASSUME IInv, known' = FALSE, NEW b \in Junk, NEW n \in Nat, Redraw(b, n),
         known => i = 0 \/ i = strlen(buf)
  PROVE  Steps
<1>1. i' \in 0..LineMax /\ buf' = b /\ at = "line" /\ at' = "line"
  BY Sizes DEF Redraw
<1>2. IInv'
  BY <1>1 DEF IInv
<1>3. Seen' = <<>> /\ Position' = 0
  BY Zenon DEF Seen, Position
<1>4. Editor!Unknown
  BY <1>3, Zenon DEF Editor!Unknown, Seen, Position
<1>5. CASE ~known
  BY <1>2, <1>4, <1>5, Zenon DEF Editor!Next, Steps
<1>6. CASE known
  <2>1. Len(Text) = strlen(buf)
    BY TextNow, TextFacts DEF IInv
  <2>2. "line" # "aside"
    OBVIOUS
  <2>3. Seen = Text /\ Position = i
    BY <1>1, <1>6, <2>2, Zenon DEF Seen, Position
  <2>4. Editor!Misuse
    BY <1>4, <1>6, <2>1, <2>3, Zenon DEF Editor!Misuse, Seen, Position
  <2> QED BY <1>2, <2>4, Zenon DEF Editor!Next, Steps
<1> QED BY <1>5, <1>6

(* One lemma per key.                                                      *)
LEMMA TypeStep ==
  ASSUME IInv, NEW c \in Char, Type(c) PROVE Steps
<1>0. i \in 0..LineMax /\ buf \in Junk /\ i \in Nat /\ i + 1 \in Nat
  BY Sizes DEF IInv
<1>1. CASE ~known
  <2>1. CASE i < LineMax - 1
    <3>1. Redraw(WithLetter(buf, i, c), i + 1) /\ known' = FALSE
      BY <1>1, <2>1 DEF Type, Within, IInv
    <3>2. PICK b \in Junk : b = WithLetter(buf, i, c)
      BY <1>0, TypedJunk
    <3> QED BY <1>0, <1>1, <3>1, <3>2, Unknown
  <2>2. CASE ~(i < LineMax - 1)
    <3>1. Redraw(buf, i) /\ known' = FALSE
      BY <1>1, <2>2 DEF Type, Within, IInv
    <3> QED BY <1>0, <1>1, <3>1, Unknown
  <2> QED BY <2>1, <2>2
<1>2. CASE known
  <2>0. /\ known' = TRUE /\ at = "line" /\ i <= strlen(buf) /\ strlen(buf) <= LineMax
        /\ strlen(buf) \in Nat
    <3>1. at = "line" /\ known' = TRUE
      BY <1>2, Zenon DEF Type, Redraw, Within, IInv
    <3> QED BY <3>1, <1>2, <1>0, LengthFacts, Sizes DEF IInv
  <2>1. CASE i < LineMax - 1
    <3>1. Redraw(WithLetter(buf, i, c), i + 1)
      BY <2>1 DEF Type
    <3>2. PICK b \in Junk : b = WithLetter(buf, i, c)
      BY <1>0, TypedJunk
    <3>3. /\ strlen(b) = IF i = strlen(buf) THEN i + 1 ELSE strlen(buf)
          /\ TextOf(b) = [k \in 1..(IF i = Len(TextOf(buf)) THEN i + 1 ELSE Len(TextOf(buf))) |->
                           IF k = i + 1 THEN c ELSE TextOf(buf)[k]]
      BY <1>0, <2>0, <2>1, <3>2, TypedText, Sizes
    <3>4. i + 1 \in 0..strlen(b) /\ strlen(b) <= LineMax
      BY <1>0, <2>0, <2>1, <3>3, Sizes
    <3>5. IInv' /\ Seen' = TextOf(b) /\ Position' = i + 1 /\ Seen = TextOf(buf) /\ Position = i
      BY <1>2, <2>0, <3>1, <3>2, <3>4, Known
    <3>6. ~(Position >= LineMax - 1)
      BY <2>1, <3>5, <1>0, Sizes
    <3>7. Editor!Edited([k \in 1..(IF Position = Len(Seen) THEN Position + 1 ELSE Len(Seen)) |->
                          IF k = Position + 1 THEN c ELSE Seen[k]], Position + 1)
      BY <1>2, <2>0, <3>3, <3>5, Zenon DEF Editor!Edited, Seen, Position
    <3>8. Editor!Type(c)
      BY <3>6, <3>7, Zenon DEF Editor!Type, Seen, Position
    <3> QED BY <3>5, <3>8, Zenon DEF Editor!Next, Steps
  <2>2. CASE ~(i < LineMax - 1)
    <3>1. Redraw(buf, i)
      BY <2>2 DEF Type
    <3>2. IInv' /\ Seen' = TextOf(buf) /\ Position' = i /\ Seen = TextOf(buf) /\ Position = i
      BY <1>0, <1>2, <2>0, <3>1, Known
    <3> QED BY <2>0, <1>2, <3>2, Zenon DEF Steps
  <2> QED BY <2>1, <2>2
<1> QED BY <1>1, <1>2

(* What a key finds, where the text is known.                              *)
LEMMA Found ==
  ASSUME IInv, known, at = "line"
  PROVE  /\ buf \in Junk /\ strlen(buf) \in 0..LineMax /\ i \in 0..strlen(buf)
         /\ Len(TextOf(buf)) = strlen(buf)
         /\ (buf[i] = 0 <=> i = strlen(buf))
<1>1. buf \in Junk /\ strlen(buf) <= LineMax /\ i <= strlen(buf) /\ i \in 0..LineMax
  BY DEF IInv
<1>2. PICK s \in Nat : s = strlen(buf)
  BY <1>1, LengthFacts
<1>3. buf[s] = 0 /\ \A m \in 0..(s - 1) : buf[m] \in Char
  BY <1>1, <1>2, LengthFacts
<1>4. i \in 0..s /\ (buf[i] = 0 <=> i = s)
  BY <1>1, <1>2, <1>3, Sizes
<1> QED BY <1>1, <1>2, <1>4, TextFacts, Sizes

(* The keys that only move the cursor.                                     *)
LEMMA MoveStep ==
  ASSUME IInv, known' = known, NEW n \in Nat, Redraw(buf, n),
         known => n <= strlen(buf)
  PROVE  Steps
<1>0. buf \in Junk
  BY DEF IInv
<1>1. CASE ~known
  BY <1>0, <1>1, Unknown DEF IInv
<1>2. CASE known
  <2>0. at = "line" /\ known' = TRUE
    BY <1>2 DEF Redraw, IInv
  <2>1. n \in 0..strlen(buf) /\ strlen(buf) <= LineMax
    BY <1>2, <2>0, Found
  <2>2. IInv' /\ Seen' = TextOf(buf) /\ Position' = n /\ Seen = TextOf(buf) /\ Position = i
    BY <1>0, <1>2, <2>0, <2>1, Known
  <2>3. n \in 0..Len(Seen)
    BY <1>2, <2>0, <2>1, <2>2, Found
  <2>4. Editor!Edited(Seen, n)
    BY <1>2, <2>0, <2>2, Zenon DEF Editor!Edited, Seen, Position
  <2>5. Editor!Move
    BY <2>3, <2>4, Zenon DEF Editor!Move, Seen
  <2> QED BY <2>2, <2>5, Zenon DEF Editor!Next, Steps
<1> QED BY <1>1, <1>2

LEMMA MovesStep ==
  ASSUME IInv, Start \/ End \/ Left \/ Right \/ Other PROVE Steps
<1>0. i \in 0..LineMax /\ buf \in Junk /\ strlen(buf) \in Nat
  BY LengthFacts DEF IInv
<1>1. CASE Start
  BY <1>0, <1>1, MoveStep DEF Start, Within
<1>2. CASE End
  BY <1>0, <1>2, MoveStep DEF End, Within
<1>3. CASE Left
  <2>1. at = "line"
    BY <1>3 DEF Left, Redraw
  <2>2. PICK n \in Nat : n = (IF i > 0 THEN i - 1 ELSE i) /\ n <= i
    BY <1>0
  <2>3. known => n <= strlen(buf)
    BY <1>0, <2>1, <2>2, Found
  <2> QED BY <1>3, <2>2, <2>3, MoveStep DEF Left, Within
<1>4. CASE Right
  <2>1. at = "line"
    BY <1>4 DEF Right, Redraw
  <2>2. PICK n \in Nat : n = IF buf[i] # 0 THEN i + 1 ELSE i
    BY <1>0
  <2>3. known => n <= strlen(buf)
    BY <1>0, <2>1, <2>2, Found
  <2> QED BY <1>4, <2>2, <2>3, MoveStep DEF Right, Within
<1>5. CASE Other
  <2>1. at = "line"
    BY <1>5 DEF Other, Redraw
  <2>2. known => i <= strlen(buf)
    BY <2>1 DEF IInv
  <2> QED BY <1>0, <1>5, <2>2, MoveStep DEF Other, Within
<1> QED BY <1>1, <1>2, <1>3, <1>4, <1>5

LEMMA BackspaceStep ==
  ASSUME IInv, Backspace PROVE Steps
<1>0. i \in 0..LineMax /\ i \in Nat /\ buf \in Junk /\ at = "line" /\ known' = known
  BY Sizes DEF IInv, Backspace, Redraw, Within
<1>1. CASE ~(i > 0)
  <2>1. known => i <= strlen(buf)
    BY <1>0 DEF IInv
  <2> QED BY <1>0, <1>1, <2>1, MoveStep DEF Backspace
<1>2. CASE i > 0
  <2>1. PICK n \in 0..LineMax : n \in Nat /\ n = i - 1 /\ i = n + 1
    BY <1>0, <1>2, Sizes
  <2>2. PICK b \in Junk : b = Dropped(buf, n)
    BY <1>0, DroppedJunk
  <2>3. Redraw(b, n)
    BY <1>2, <2>1, <2>2 DEF Backspace
  <2>4. CASE ~known
    <3>1. known' = FALSE
      BY <1>0, <2>4 DEF IInv
    <3> QED BY <1>0, <2>1, <2>3, <2>4, <3>1, Unknown
  <2>5. CASE known
    <3>1. n < strlen(buf) /\ strlen(buf) \in 0..LineMax /\ known' = TRUE
      BY <1>0, <2>1, <2>5, Found, Sizes DEF IInv
    <3>2. strlen(b) = strlen(buf) - 1 /\ TextOf(b) = Editor!RemoveAt(TextOf(buf), i)
      BY <1>0, <2>1, <2>2, <3>1, DroppedText
    <3>3. n \in 0..strlen(b) /\ strlen(b) <= LineMax
      BY <2>1, <3>1, <3>2, Sizes
    <3>4. IInv' /\ Seen' = TextOf(b) /\ Position' = n /\ Seen = TextOf(buf) /\ Position = i
      BY <2>3, <2>5, <3>1, <3>3, Known
    <3>5. Editor!Edited(Editor!RemoveAt(Seen, Position), Position - 1)
      BY <2>1, <2>5, <3>1, <3>2, <3>4, Zenon DEF Editor!Edited, Seen, Position
    <3>6. Position > 0
      BY <1>2, <3>4
    <3>7. Editor!DeleteBefore
      BY <3>5, <3>6, Zenon DEF Editor!DeleteBefore, Seen, Position
    <3> QED BY <3>4, <3>7, Zenon DEF Editor!Next, Steps
  <2> QED BY <2>4, <2>5
<1> QED BY <1>1, <1>2

LEMMA DeleteStep ==
  ASSUME IInv, Delete PROVE Steps
<1>0. i \in 0..LineMax /\ i \in Nat /\ buf \in Junk /\ at = "line"
  BY Sizes DEF IInv, Delete, Redraw
<1>1. PICK b \in Junk : b = Dropped(buf, i) /\ Redraw(b, i)
  BY <1>0, DroppedJunk DEF Delete
<1>2. CASE ~known
  <2>1. known' = FALSE
    BY <1>2 DEF Delete, Within, Beyond, IInv
  <2> QED BY <1>0, <1>1, <1>2, <2>1, Unknown
<1>3. CASE known /\ ~(i < strlen(buf))
  <2>1. known' = FALSE /\ i = strlen(buf)
    BY <1>0, <1>3, Found DEF Delete, Beyond
  <2> QED BY <1>0, <1>1, <2>1, Unknown
<1>4. CASE known /\ i < strlen(buf)
  <2>1. strlen(buf) \in 0..LineMax /\ known' = TRUE /\ Len(TextOf(buf)) = strlen(buf)
    BY <1>0, <1>4, Found DEF IInv, Delete, Within
  <2>2. strlen(b) = strlen(buf) - 1 /\ TextOf(b) = Editor!RemoveAt(TextOf(buf), i + 1)
    BY <1>0, <1>1, <1>4, DroppedText
  <2>3. i \in 0..strlen(b) /\ strlen(b) <= LineMax
    BY <1>0, <1>4, <2>1, <2>2, Sizes
  <2>4. IInv' /\ Seen' = TextOf(b) /\ Position' = i /\ Seen = TextOf(buf) /\ Position = i
    BY <1>1, <1>4, <2>1, <2>3, Known
  <2>5. Editor!Edited(Editor!RemoveAt(Seen, Position + 1), Position)
    BY <1>4, <2>1, <2>2, <2>4, Zenon DEF Editor!Edited, Seen, Position
  <2>6. Position < Len(Seen)
    BY <1>4, <2>1, <2>4, Zenon
  <2>7. Editor!DeleteAfter
    BY <2>5, <2>6, Zenon DEF Editor!DeleteAfter, Seen, Position
  <2> QED BY <2>4, <2>7, Zenon DEF Editor!Next, Steps
<1> QED BY <1>2, <1>3, <1>4

LEMMA TransposeStep ==
  ASSUME IInv, Transpose PROVE Steps
<1>0. i \in 0..LineMax /\ buf \in Junk /\ at = "line" /\ i + 1 \in Nat
  BY DEF IInv, Transpose, Redraw
<1>1. PICK b \in Junk : b = Swapped(buf, i) /\ Redraw(b, i + 1)
  BY <1>0, SwappedJunk DEF Transpose
<1>2. CASE ~known
  <2>1. known' = FALSE
    BY <1>2 DEF Transpose, Within, Beyond, IInv
  <2> QED BY <1>0, <1>1, <1>2, <2>1, Unknown
<1>3. CASE known /\ i \notin 1..(strlen(buf) - 1)
  <2>1. known' = FALSE /\ (i = 0 \/ i = strlen(buf))
    BY <1>0, <1>3, Found DEF Transpose, Beyond
  <2> QED BY <1>0, <1>1, <2>1, Unknown
<1>4. CASE known /\ i \in 1..(strlen(buf) - 1)
  <2>1. strlen(buf) \in 0..LineMax /\ known' = TRUE /\ Len(TextOf(buf)) = strlen(buf)
    BY <1>0, <1>4, Found DEF IInv, Transpose, Within
  <2>2. /\ strlen(b) = strlen(buf)
        /\ TextOf(b) = [TextOf(buf) EXCEPT ![i] = TextOf(buf)[i + 1], ![i + 1] = TextOf(buf)[i]]
    <3>1. i \in 1..LineMax /\ i < strlen(buf)
      BY <1>0, <1>4, <2>1
    <3> QED BY <1>0, <1>1, <3>1, SwappedText
  <2>3. i + 1 \in 0..strlen(b) /\ strlen(b) <= LineMax
    BY <1>0, <1>4, <2>1, <2>2, Sizes
  <2>4. IInv' /\ Seen' = TextOf(b) /\ Position' = i + 1 /\ Seen = TextOf(buf) /\ Position = i
    BY <1>1, <1>4, <2>1, <2>3, Known
  <2>5. Editor!Edited([Seen EXCEPT ![Position] = Seen[Position + 1],
                                   ![Position + 1] = Seen[Position]], Position + 1)
    BY <1>4, <2>1, <2>2, <2>4, Zenon DEF Editor!Edited, Seen, Position
  <2>6. Position \in 1..(Len(Seen) - 1)
    BY <1>4, <2>1, <2>4, Zenon
  <2>7. Editor!Swap
    BY <2>5, <2>6, Zenon DEF Editor!Swap, Seen, Position
  <2> QED BY <2>4, <2>7, Zenon DEF Editor!Next, Steps
<1> QED BY <1>2, <1>3, <1>4

LEMMA KillStep ==
  ASSUME IInv, Kill PROVE Steps
<1>0. i \in 0..LineMax /\ i \in Nat /\ buf \in Junk /\ at = "line" /\ known' = known
  BY Sizes DEF IInv, Kill, Redraw, Within
<1>1. PICK b \in Junk : b = Erased(buf, i) /\ Redraw(b, i)
  BY <1>0, ErasedJunk DEF Kill
<1>2. CASE ~known
  <2>1. known' = FALSE
    BY <1>0, <1>2 DEF IInv
  <2> QED BY <1>0, <1>1, <1>2, <2>1, Unknown
<1>3. CASE known
  <2>1. strlen(buf) \in 0..LineMax /\ known' = TRUE /\ i <= strlen(buf)
    BY <1>0, <1>3, Found DEF IInv
  <2>2. strlen(b) = i /\ TextOf(b) = SubSeq(TextOf(buf), 1, i)
    BY <1>0, <1>1, <2>1, ErasedText
  <2>3. i \in 0..strlen(b) /\ strlen(b) <= LineMax
    BY <1>0, <2>2
  <2>4. IInv' /\ Seen' = TextOf(b) /\ Position' = i /\ Seen = TextOf(buf) /\ Position = i
    BY <1>1, <1>3, <2>1, <2>3, Known
  <2>5. Editor!EraseAfter
    BY <1>3, <2>1, <2>2, <2>4, Zenon DEF Editor!EraseAfter, Editor!Edited, Seen, Position
  <2> QED BY <2>4, <2>5, Zenon DEF Editor!Next, Steps
<1> QED BY <1>2, <1>3

(* The whole line erased, by ^u or at its end.                             *)
LEMMA EmptyText ==
  ASSUME NEW b \in Junk, strlen(b) = 0 PROVE TextOf(b) = <<>>
BY TextFacts, EmptySeq

LEMMA ResetStep ==
  ASSUME IInv, Reset PROVE Steps
<1>0. buf \in Junk /\ 0 \in 0..LineMax
  BY Sizes DEF IInv
<1>1. PICK b \in Junk : b = Erased(buf, 0) /\ Redraw(b, 0) /\ known' = TRUE
  BY <1>0, ErasedJunk DEF Reset
<1>2. strlen(b) = 0
  <2>1. b[0] = 0
    BY <1>1, Sizes DEF Erased, Index
  <2> QED BY <2>1, LengthIs, Sizes
<1>3. i' = 0 /\ buf' = b /\ at' = "line" /\ known' = TRUE
  BY <1>1, Sizes DEF Redraw
<1>4. strlen(buf)' = strlen(buf')
  BY Zenon DEF strlen, Terminator
<1>5. IInv'
  BY <1>2, <1>3, <1>4, Sizes DEF IInv
<1>6. "line" # "aside"
  OBVIOUS
<1>7. Seen' = <<>> /\ Position' = 0
  BY <1>2, <1>3, <1>6, EmptyText, TextNext, Zenon DEF Seen, Position
<1>8. Editor!EraseAll
  BY <1>3, <1>7, Zenon DEF Editor!EraseAll, Seen, Position
<1> QED BY <1>5, <1>8, Zenon DEF Editor!Next, Steps

LEMMA BlankFacts == Blank \in Junk /\ strlen(Blank) = 0
<1>1. Blank \in Junk
  BY Sizes DEF Blank, Junk, Index, Byte
<1>2. Blank[0] = 0
  BY Sizes DEF Blank, Index
<1> QED BY <1>1, <1>2, LengthIs, Sizes

LEMMA AwayStep ==
  ASSUME IInv, Away PROVE Steps
<1>1. at' = "game" /\ buf' = Blank /\ i' = 0 /\ known' = TRUE
  BY DEF Away
<1>2. strlen(buf)' = strlen(buf')
  BY Zenon DEF strlen, Terminator
<1>3. IInv'
  BY <1>1, <1>2, BlankFacts, Sizes DEF IInv
<1>4. "game" # "aside"
  OBVIOUS
<1>5. Seen' = <<>> /\ Position' = 0
  BY <1>1, <1>4, BlankFacts, EmptyText, TextNext, Zenon DEF Seen, Position
<1>6. Editor!EraseAll
  BY <1>1, <1>5, Zenon DEF Editor!EraseAll, Seen, Position
<1> QED BY <1>3, <1>6, Zenon DEF Editor!Next, Steps

LEMMA ReadStep ==
  ASSUME IInv, Read PROVE Steps
<1>0. at = "game" /\ at' = "line" /\ known' = known
  BY DEF Read
<1>1. PICK old \in Junk, n \in 0..Preload : \E text \in [0..(n - 1) -> Char] :
        /\ buf' = [b \in Index |-> IF b \in 0..(n - 1) THEN text[b] ELSE IF b = n THEN 0 ELSE old[b]]
        /\ i' = n
  BY DEF Read
<1>2. PICK text \in [0..(n - 1) -> Char] :
        buf' = [b \in Index |-> IF b \in 0..(n - 1) THEN text[b] ELSE IF b = n THEN 0 ELSE old[b]]
  BY <1>1
<1>3. i' = n
  BY <1>1
<1>4. n \in 0..LineMax /\ n \in Nat
  BY Sizes
<1>5. PICK d : d = buf'
  OBVIOUS
<1>6. d \in Junk
  <2>1. \A b \in Index : (IF b \in 0..(n - 1) THEN text[b] ELSE IF b = n THEN 0 ELSE old[b]) \in Byte
    BY DEF Junk, Byte
  <2>2. LineMax + 2 \in Index /\ LineMax + 2 \notin 0..(n - 1) /\ old[LineMax + 2] = 0
    BY <1>4, Sizes DEF Index, Junk
  <2>3. [b \in Index |-> IF b \in 0..(n - 1) THEN text[b] ELSE IF b = n THEN 0 ELSE old[b]] \in Junk
    BY <2>1, <2>2 DEF Junk
  <2> QED BY <1>2, <1>5, <2>3, Zenon
<1>7. d[n] = 0 /\ \A m \in 0..(n - 1) : d[m] = text[m] /\ d[m] # 0
  <2>1. d = [b \in Index |-> IF b \in 0..(n - 1) THEN text[b] ELSE IF b = n THEN 0 ELSE old[b]]
    BY <1>2, <1>5, Zenon
  <2>2. n \in Index /\ n \notin 0..(n - 1) /\ \A m \in 0..(n - 1) : m \in Index
    BY <1>4, Sizes DEF Index
  <2>3. \A m \in 0..(n - 1) : text[m] \in Char
    OBVIOUS
  <2> QED BY <2>1, <2>2, <2>3, Sizes
<1>8. strlen(d) = n
  BY <1>4, <1>6, <1>7, LengthIs, Sizes
<1>9. TextOf(d) \in [1..n -> Char]
  <2>1. TextOf(d) \in Seq(Char) /\ Len(TextOf(d)) = n
    BY <1>6, <1>8, TextFacts
  <2> QED BY <2>1, LenProperties
<1>10. strlen(buf)' = strlen(buf')
  BY Zenon DEF strlen, Terminator
<1>11. CASE known
  <2>1. IInv'
    BY <1>0, <1>3, <1>4, <1>5, <1>6, <1>8, <1>10 DEF IInv
  <2>2. "line" # "aside"
    OBVIOUS
  <2>3. Seen' = TextOf(d) /\ Position' = n /\ known' = TRUE
    <3>1. known' = TRUE
      BY <1>0, <1>11 DEF IInv
    <3> QED BY <3>1, <1>0, <1>3, <1>5, <2>2, TextNext, Zenon DEF Seen, Position
  <2>4. Editor!Start
    BY <1>4, <1>9, <2>3, Zenon DEF Editor!Start, Seen, Position
  <2> QED BY <2>1, <2>4, Zenon DEF Editor!Next, Steps
<1>12. CASE ~known
  <2>1. IInv'
    BY <1>0, <1>3, <1>4, <1>5, <1>6, <1>12 DEF IInv
  <2>2. Seen' = <<>> /\ Position' = 0 /\ known' = FALSE
    <3>1. known' = FALSE
      BY <1>0, <1>12 DEF IInv
    <3> QED BY <3>1, Zenon DEF Seen, Position
  <2>3. Editor!Unknown
    BY <2>2, Zenon DEF Editor!Unknown, Seen, Position
  <2> QED BY <1>12, <2>1, <2>3, Zenon DEF Editor!Next, Steps
<1> QED BY <1>11, <1>12

(* A line that is interrupted, and taken up again.                         *)
LEMMA AsideStep ==
  ASSUME IInv, Interrupt \/ Continue PROVE Steps
<1>0. buf' = buf /\ known' = known
  BY DEF Interrupt, Continue
<1>1. strlen(buf)' = strlen(buf)
  BY <1>0, Zenon DEF strlen, Terminator
<1>2. PICK s \in Nat : s = strlen(buf)
  BY LengthFacts DEF IInv
<1>3. IInv'
  <2>1. CASE Interrupt
    BY <2>1, <1>0, <1>1 DEF Interrupt, IInv
  <2>2. CASE Continue
    <3>1. i' = s /\ at' = "line" /\ i' \in 0..LineMax
      BY <2>2, <1>2, Sizes DEF Continue, Followed
    <3> QED BY <3>1, <1>0, <1>1, <1>2 DEF IInv
  <2> QED BY <2>1, <2>2
<1>4. CASE ~known
  <2>1. known = FALSE /\ known' = FALSE
    BY <1>0, <1>4 DEF IInv
  <2>2. Editor!Unknown
    BY <2>1, Zenon DEF Editor!Unknown, Seen, Position
  <2> QED BY <1>3, <1>4, <2>2, Zenon DEF Editor!Next, Steps
<1>5. CASE known
  <2>1. known = TRUE /\ known' = TRUE
    BY <1>0, <1>5 DEF IInv
  <2>2. Seen = TextOf(buf) /\ Seen' = TextOf(buf)
    BY <1>0, <2>1, TextNow, TextNext, Zenon DEF Seen
  <2>3. Len(Seen) = s
    BY <1>2, <2>2, TextFacts DEF IInv
  <2>4. Position' = s
    <3>1. "line" # "aside"
      OBVIOUS
    <3>2. CASE Interrupt
      <4>1. at' = "aside"
        BY <3>2, Zenon DEF Interrupt
      <4> QED BY <4>1, <1>1, <1>2, <2>1, Zenon DEF Position
    <3>3. CASE Continue
      <4>1. at' = "line" /\ i' = s
        BY <3>3, <1>2, Zenon DEF Continue
      <4> QED BY <4>1, <3>1, <2>1, Zenon DEF Position
    <3> QED BY <3>2, <3>3
  <2>5. Editor!Continue
    BY <1>5, <2>1, <2>2, <2>3, <2>4, Zenon DEF Editor!Continue, Editor!Edited, Seen, Position
  <2> QED BY <1>3, <2>5, Zenon DEF Editor!Next, Steps
<1> QED BY <1>4, <1>5
-----------------------------------------------------------------------------
LEMMA Initially == Init => IInv /\ Editor!Init
<1> SUFFICES ASSUME Init PROVE IInv /\ Editor!Init
  OBVIOUS
<1>1. at = "game" /\ buf = Blank /\ i = 0 /\ known = TRUE
  BY DEF Init
<1>2. IInv
  BY <1>1, BlankFacts, Sizes DEF IInv
<1>3. "game" # "aside"
  OBVIOUS
<1>4. Seen = <<>> /\ Position = 0
  BY <1>1, <1>3, BlankFacts, EmptyText, TextNow, Zenon DEF Seen, Position
<1>5. Editor!Init
  BY <1>1, <1>4, Zenon DEF Editor!Init, Seen, Position
<1> QED BY <1>2, <1>5

LEMMA EveryStep ==
  ASSUME IInv, [Next]_vars PROVE Steps
<1>1. ASSUME NEW c \in Char, Type(c) PROVE Steps
  BY <1>1, TypeStep, Zenon
<1>2. CASE Read
  BY <1>2, ReadStep, Zenon
<1>3. CASE Backspace \/ Delete \/ Transpose \/ Kill \/ Reset
  BY <1>3, BackspaceStep, DeleteStep, TransposeStep, KillStep, ResetStep, Zenon
<1>4. CASE Start \/ End \/ Left \/ Right \/ Other
  BY <1>4, MovesStep, Zenon
<1>5. CASE Finish \/ Abandon
  BY <1>5, AwayStep, Zenon DEF Finish, Abandon
<1>6. CASE Interrupt \/ Continue
  BY <1>6, AsideStep, Zenon
<1>7. CASE UNCHANGED vars
  <2>1. /\ at' = at /\ buf' = buf /\ i' = i /\ known' = known
    BY <1>7 DEF vars
  <2>2. strlen(buf)' = strlen(buf)
    BY <2>1, Zenon DEF strlen, Terminator
  <2>3. IInv'
    BY <2>1, <2>2, Zenon DEF IInv
  <2>4. Seen' = Seen /\ Position' = Position
    BY <2>1, <2>2, TextNow, TextNext, Zenon DEF Seen, Position
  <2> QED BY <2>1, <2>3, <2>4, Zenon DEF Steps
<1> QED BY <1>1, <1>2, <1>3, <1>4, <1>5, <1>6, <1>7, Zenon DEF Next

(* os_read_line, with the interruptions of console_read_input, implements  *)
(* Line: letters, ^a ^b ^d ^e ^f ^k ^t ^u, backspace and the end of a line, *)
(* and a line that a timeout or a hot key interrupted goes on as it was.   *)
THEOREM EditorImplementsLine == Spec => ImplementsLine
<1>1. IInv /\ [Next]_vars => IInv'
  BY EveryStep, Zenon DEF Steps
<1>2. IInv /\ [Next]_vars => Editor!Next \/ UNCHANGED <<known, Seen, Position>>
  BY EveryStep, Zenon DEF Steps
<1>3. IInv /\ [Next]_vars => [Editor!Next]_(Editor!vars)
  BY <1>2, Zenon DEF Editor!vars, Seen, Position
<1> QED BY <1>1, <1>3, Initially, PTL DEF Spec, ImplementsLine, Editor!Spec
=============================================================================
