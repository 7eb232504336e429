--------------------------- MODULE KeyboardProofs ---------------------------
(***************************************************************************)
(* The keyboard queue, for every size: no code that isr_keyboard put into  *)
(* the ring is lost, overwritten or taken twice, wherever get_key is       *)
(* interrupted; and while none is dropped, get_key returns the keys that   *)
(* were pressed.                                                           *)
(*                                                                         *)
(* The first part is arithmetic of the ring.  In the second, the invariant *)
(* is that a sequence of decoder states exists, one before each code sent  *)
(* and one after the last: get_key is at one of them, and the keyboard at  *)
(* the last.                                                               *)
(***************************************************************************)
EXTENDS Keyboard, SequenceTheorems, TLAPS

(* What the keyboard sends.                                                *)
Sendable == {Prefix} \cup [kind : {"make", "break"}, code : {"shift", "letter", "pad8"}]

(* TypeOK, and every code is one that the keyboard sends.                  *)
Types ==
  /\ KeyboardAssumption /\ TypeOK
  /\ wire \in Seq(Sendable) /\ keyqueue \in [0..(SIZE - 1) -> Sendable]
  /\ scancode \in Sendable /\ accepted \in Seq(Sendable)
-----------------------------------------------------------------------------
(* Indices of the ring: how far it is from one to the other, and where a   *)
(* sum of two is.                                                          *)
Index == 0..(SIZE - 1)
Wrap(x) == IF x < SIZE THEN x ELSE x - SIZE
Distance(i, j) == IF j >= i THEN j - i ELSE SIZE + j - i
Ahead(i) == Distance(i, kqback)

LEMMA Modulo ==
  ASSUME KeyboardAssumption, NEW x \in Nat, x < 2 * SIZE
  PROVE  x % SIZE = Wrap(x)
<1>1. SIZE \in Nat /\ SIZE > 1
  BY DEF KeyboardAssumption
<1>2. CASE x < SIZE
  <2>1. x % SIZE = x
    BY <1>1, <1>2
  <2> QED BY <1>2, <2>1 DEF Wrap
<1>3. CASE x >= SIZE
  <2>1. PICK y \in Nat : x = y + SIZE /\ y < SIZE
    BY <1>1, <1>3
  <2>2. (y + SIZE) % SIZE = y
    BY <1>1, <2>1
  <2> QED BY <1>1, <1>3, <2>1, <2>2 DEF Wrap
<1> QED BY <1>1, <1>2, <1>3

LEMMA NextWraps ==
  ASSUME KeyboardAssumption, NEW i \in 0..(SIZE - 1)
  PROVE  /\ NextIndex(i) = IF i = SIZE - 1 THEN 0 ELSE i + 1
         /\ NextIndex(i) \in 0..(SIZE - 1)
<1>1. SIZE \in Nat /\ SIZE > 1
  BY DEF KeyboardAssumption
<1>2. (i + 1) % SIZE = Wrap(i + 1)
  BY <1>1, Modulo
<1> QED BY <1>1, <1>2 DEF NextIndex, Wrap

LEMMA Distances ==
  ASSUME KeyboardAssumption
  PROVE  \A i, j \in Index :
         /\ Distance(i, j) \in Index /\ Distance(i, j) \in Int
         /\ NextIndex(j) # i => /\ Distance(i, j) < SIZE - 1
                                /\ Distance(i, NextIndex(j)) = Distance(i, j) + 1
         /\ i # j => /\ Distance(i, j) > 0
                     /\ Distance(NextIndex(i), j) = Distance(i, j) - 1
<1>1. SIZE \in Nat /\ SIZE > 1
  BY DEF KeyboardAssumption
<1> SUFFICES ASSUME NEW i \in Index, NEW j \in Index
             PROVE  /\ Distance(i, j) \in Index /\ Distance(i, j) \in Int
                    /\ NextIndex(j) # i => /\ Distance(i, j) < SIZE - 1
                                           /\ Distance(i, NextIndex(j)) = Distance(i, j) + 1
                    /\ i # j => /\ Distance(i, j) > 0
                                /\ Distance(NextIndex(i), j) = Distance(i, j) - 1
  OBVIOUS
<1>2. NextIndex(j) = IF j = SIZE - 1 THEN 0 ELSE j + 1
  BY NextWraps DEF Index
<1>3. NextIndex(i) = IF i = SIZE - 1 THEN 0 ELSE i + 1
  BY NextWraps DEF Index
<1>4. Distance(i, j) \in Index /\ Distance(i, j) \in Int
  BY <1>1 DEF Index, Distance
<1>5. NextIndex(j) # i => /\ Distance(i, j) < SIZE - 1
                          /\ Distance(i, NextIndex(j)) = Distance(i, j) + 1
  BY <1>1, <1>2 DEF Index, Distance
<1>6. i # j => Distance(i, j) > 0 /\ Distance(NextIndex(i), j) = Distance(i, j) - 1
  BY <1>1, <1>3 DEF Index, Distance
<1> QED BY <1>4, <1>5, <1>6

LEMMA NotSame ==
  ASSUME KeyboardAssumption
  PROVE  \A i, j, k \in Index : i # j /\ Distance(i, k) <= Distance(j, k) => Distance(i, k) < Distance(j, k)
BY DEF KeyboardAssumption, Index, Distance

LEMMA Positions ==
  ASSUME KeyboardAssumption
  PROVE  \A i, j \in Index :
         /\ Wrap(i + Distance(i, j)) = j
         /\ \A n \in Nat : n < Distance(i, j) => Wrap(i + n) # j /\ Wrap(i + n) \in Index
BY DEF KeyboardAssumption, Index, Distance, Wrap

LEMMA NextPositions ==
  ASSUME KeyboardAssumption
  PROVE  \A i, n \in Index : n < SIZE - 1 => Wrap(NextIndex(i) + n) = Wrap(i + (n + 1))
<1>1. SIZE \in Nat /\ SIZE > 1
  BY DEF KeyboardAssumption
<1> SUFFICES ASSUME NEW i \in Index, NEW n \in Index, n < SIZE - 1
             PROVE  Wrap(NextIndex(i) + n) = Wrap(i + (n + 1))
  OBVIOUS
<1>2. NextIndex(i) = IF i = SIZE - 1 THEN 0 ELSE i + 1
  BY NextWraps DEF Index
<1> QED BY <1>1, <1>2 DEF Wrap, Index
-----------------------------------------------------------------------------
LEMMA CodesSendable ==
  ASSUME NEW key \in Keys, NEW kind \in {"make", "break"}
  PROVE  Codes(key, kind) \in Seq(Sendable) /\ Len(Codes(key, kind)) <= 2
<1>1. Prefix \in Sendable
  BY DEF Sendable
<1>2. Code(key) \in {"shift", "letter", "pad8"}
  BY DEF Code, Keys
<1>3. [kind |-> kind, code |-> Code(key)] \in Sendable
  BY <1>2 DEF Sendable
<1>4. CASE key = "up"
  <2>1. Codes(key, kind) = <<Prefix, [kind |-> kind, code |-> Code(key)]>>
    BY <1>4, Zenon DEF Codes
  <2> QED BY <1>1, <1>3, <2>1
<1>5. CASE key # "up"
  <2>1. Codes(key, kind) = <<[kind |-> kind, code |-> Code(key)]>>
    BY <1>5, Zenon DEF Codes
  <2> QED BY <1>3, <2>1
<1> QED BY <1>4, <1>5

LEMMA InitTypes == KeyboardAssumption /\ Init => Types
BY DEF KeyboardAssumption, Init, Types, TypeOK, Sendable, Scancodes, Reports, Prefix, Keys

LEMMA Wider == Sendable \subseteq Scancodes
BY DEF Sendable, Scancodes, Prefix

LEMMA PressTypes ==
  ASSUME Types, NEW key \in Keys, Press(key)
  PROVE  Types'
<1>1. wire' = Codes(key, "make") /\ wire' \in Seq(Sendable) /\ Len(wire') <= 2
  BY CodesSendable DEF Press
<1>2. wire' \in Seq(Scancodes)
  BY <1>1, Wider
<1>3. down' \subseteq Keys /\ presses' \in 0..MaxPresses
  BY DEF KeyboardAssumption, Press, Types, TypeOK
<1>4. typed' \in Seq(Reports)
  <2>1. [key |-> key, shift |-> "shift" \in down] \in Reports
    BY DEF Reports
  <2> QED BY <2>1 DEF Press, Types, TypeOK
<1> QED BY <1>1, <1>2, <1>3, <1>4 DEF Press, Types, TypeOK, queue, decoder

LEMMA ReleaseTypes ==
  ASSUME Types, NEW key \in Keys, Release(key)
  PROVE  Types'
<1>1. wire' = Codes(key, "break") /\ wire' \in Seq(Sendable) /\ Len(wire') <= 2
  BY CodesSendable DEF Release
<1>2. wire' \in Seq(Scancodes)
  BY <1>1, Wider
<1>3. down' \subseteq Keys
  BY DEF Release, Types, TypeOK
<1> QED BY <1>1, <1>2, <1>3 DEF Release, Types, TypeOK, queue, decoder

LEMMA InterruptTypes ==
  ASSUME Types, Interrupt
  PROVE  Types'
<1>1. wire \in Seq(Sendable) /\ wire \in Seq(Scancodes) /\ wire # <<>> /\ Len(wire) <= 2
  BY DEF Types, TypeOK, Interrupt
<1>2. Head(wire) \in Sendable /\ Head(wire) \in Scancodes
  BY <1>1, Wider
<1>3. Tail(wire) \in Seq(Sendable) /\ Tail(wire) \in Seq(Scancodes) /\ Len(Tail(wire)) <= 2
  BY <1>1
<1>4. NextIndex(kqback) \in 0..(SIZE - 1)
  BY NextWraps DEF Types, TypeOK
<1>5. CASE Full
  BY <1>3, <1>5 DEF Interrupt, Types, TypeOK, decoder
<1>6. CASE ~Full
  <2>1. accepted' \in Seq(Sendable) /\ accepted' \in Seq(Scancodes)
    <3>1. accepted' = Append(accepted, Head(wire))
      BY <1>6 DEF Interrupt
    <3>2. accepted \in Seq(Sendable) /\ accepted \in Seq(Scancodes)
      BY DEF Types, TypeOK
    <3> QED BY <1>2, <3>1, <3>2
  <2>2. /\ keyqueue' \in [0..(SIZE - 1) -> Sendable]
        /\ keyqueue' \in [0..(SIZE - 1) -> Scancodes]
    BY <1>2, <1>6 DEF Interrupt, Types, TypeOK
  <2> QED BY <1>3, <1>4, <1>6, <2>1, <2>2 DEF Interrupt, Types, TypeOK, decoder
<1> QED BY <1>5, <1>6

LEMMA ReaderTypes ==
  ASSUME Types, GetKey \/ Empty \/ Take
  PROVE  Types'
<1>1. SIZE \in Nat /\ SIZE > 1 /\ 0 \in 0..(SIZE - 1)
  BY DEF KeyboardAssumption, Types
<1>2. CASE GetKey
  BY <1>2 DEF GetKey, Types, TypeOK, keyboard, queue, decoder
<1>3. CASE Empty
  BY <1>1, <1>3 DEF Empty, Leave, Types, TypeOK, keyboard, queue, decoder
<1>4. CASE Take
  <2>1. front \in 0..(SIZE - 1) /\ NextIndex(front) \in 0..(SIZE - 1)
    BY NextWraps DEF Types, TypeOK
  <2>2. keyqueue[front] \in Sendable /\ keyqueue[front] \in Scancodes
    BY <2>1, Wider DEF Types
  <2> QED BY <1>4, <2>1, <2>2 DEF Take, Types, TypeOK, keyboard, queue, decoder
<1> QED BY <1>2, <1>3, <1>4

(* What decode does with the three kinds of codes.                         *)
Waits == phase' = "test" /\ UNCHANGED <<kqfront, front, back>>
DecodePrefix ==
  scancode.kind = "e0" /\ extended' = TRUE /\ Waits /\ UNCHANGED <<depressed, returned>>
DecodeBreak ==
  /\ scancode.kind = "break" /\ depressed' = depressed \ {scancode.code} /\ extended' = FALSE
  /\ Waits /\ UNCHANGED returned
DecodeMake ==
  /\ scancode.kind = "make" /\ depressed' = depressed \cup {scancode.code}
  /\ UNCHANGED extended
  /\ \/ Meaning = "none" /\ Waits /\ UNCHANGED returned
     \/ /\ Meaning # "none" /\ Leave
        /\ returned' = Append(returned, [key |-> Meaning, shift |-> Shifted])

LEMMA SendableFacts ==
  ASSUME NEW c \in Sendable
  PROVE  \/ c.kind = "e0" /\ c.code = "none"
         \/ c.kind \in {"make", "break"} /\ c.code \in {"shift", "letter", "pad8"}
BY DEF Sendable, Prefix

LEMMA DecodeCases ==
  ASSUME Types, Decode
  PROVE  /\ phase = "decode" /\ scancode' = Prefix /\ UNCHANGED <<keyboard, queue, taken>>
         /\ DecodePrefix \/ DecodeBreak \/ DecodeMake
<1>1. scancode.kind \in {"e0", "make", "break"}
  BY SendableFacts DEF Types
<1>2. phase = "decode" /\ scancode' = Prefix /\ UNCHANGED <<keyboard, queue, taken>>
  BY DEF Decode
<1>3. CASE scancode.kind = "e0"
  <2>1. DecodePrefix
    BY <1>3 DEF Decode, DecodePrefix, Waits
  <2> QED BY <1>2, <2>1
<1>4. CASE scancode.kind = "break"
  <2>1. DecodeBreak
    BY <1>4 DEF Decode, DecodeBreak, Waits, Lift, ExtendedAfterBreak
  <2> QED BY <1>2, <2>1
<1>5. CASE scancode.kind = "make"
  <2>1. DecodeMake
    BY <1>5 DEF Decode, DecodeMake, Waits
  <2> QED BY <1>2, <2>1
<1> QED BY <1>1, <1>3, <1>4, <1>5

LEMMA DecodeTypes ==
  ASSUME Types, Decode
  PROVE  Types'
<1>1. SIZE \in Nat /\ SIZE > 1 /\ 0 \in 0..(SIZE - 1)
  BY DEF KeyboardAssumption, Types
<1>2. Prefix \in Sendable /\ Prefix \in Scancodes
  BY Wider DEF Sendable
<1>3. /\ UNCHANGED <<keyboard, queue, taken>> /\ scancode' = Prefix
      /\ DecodePrefix \/ DecodeBreak \/ DecodeMake
  BY DecodeCases
<1>4. /\ phase' \in {"test", "idle"}
      /\ kqfront' \in {kqfront, front} /\ front' \in {front, 0} /\ back' \in {back, 0}
  BY <1>3 DEF DecodePrefix, DecodeBreak, DecodeMake, Waits, Leave
<1>5. scancode.kind = "e0" \/ scancode.code \in {"shift", "letter", "pad8"}
  BY SendableFacts DEF Types
<1>6. depressed' \subseteq {"shift", "letter", "pad8"} /\ extended' \in BOOLEAN
  <2>1. depressed \subseteq {"shift", "letter", "pad8"} /\ extended \in BOOLEAN
    BY DEF Types, TypeOK
  <2>2. CASE DecodePrefix
    BY <2>1, <2>2 DEF DecodePrefix
  <2>3. CASE DecodeBreak
    BY <2>1, <2>3 DEF DecodeBreak
  <2>4. CASE DecodeMake
    <3>1. scancode.kind # "e0"
      BY <2>4 DEF DecodeMake
    <3> QED BY <1>5, <2>1, <2>4, <3>1 DEF DecodeMake
  <2> QED BY <1>3, <2>2, <2>3, <2>4
<1>7. returned' \in Seq(Reports)
  <2>1. returned \in Seq(Reports)
    BY DEF Types, TypeOK
  <2>2. CASE returned' = returned
    BY <2>1, <2>2
  <2>3. CASE DecodeMake /\ Meaning # "none" /\ returned' # returned
    <3>1. Meaning \in Keys
      BY <1>5, <2>3 DEF DecodeMake, Meaning, Keys
    <3>2. [key |-> Meaning, shift |-> Shifted] \in Reports
      BY <3>1 DEF Reports, Shifted
    <3>3. returned' = Append(returned, [key |-> Meaning, shift |-> Shifted])
      BY <2>3 DEF DecodeMake
    <3> QED BY <2>1, <3>2, <3>3
  <2> QED BY <1>3, <2>2, <2>3 DEF DecodePrefix, DecodeBreak, DecodeMake
<1> QED BY <1>1, <1>2, <1>3, <1>4, <1>6, <1>7 DEF Types, TypeOK, keyboard, queue

LEMMA TypesStep ==
  ASSUME Types, [Next]_vars
  PROVE  Types'
<1>1. CASE UNCHANGED vars
  BY <1>1 DEF vars, keyboard, queue, decoder, Types, TypeOK
<1> QED BY <1>1, PressTypes, ReleaseTypes, InterruptTypes, ReaderTypes, DecodeTypes
        DEF Next, Reader
-----------------------------------------------------------------------------
(* The ring.                                                               *)
Indices ==
  /\ Len(accepted) - taken = Ahead(Reached)
  /\ Ahead(Reached) <= Ahead(kqfront)
  /\ phase # "idle" => Ahead(back) <= Ahead(front)

Contents ==
  /\ \A i \in 1..(Len(accepted) - taken) :
       keyqueue[Wrap(Reached + i - 1)] = accepted[taken + i]
  /\ phase = "decode" => taken > 0 /\ scancode = accepted[taken]

Ring == Indices /\ Contents

LEMMA RingTypes ==
  ASSUME Types
  PROVE  /\ KeyboardAssumption /\ SIZE \in Nat /\ SIZE > 1
         /\ kqfront \in Index /\ kqback \in Index /\ front \in Index /\ back \in Index
         /\ Reached \in Index
         /\ taken \in Nat /\ accepted \in Seq(Sendable) /\ Len(accepted) \in Nat
         /\ keyqueue \in [Index -> Sendable]
BY DEF KeyboardAssumption, Types, TypeOK, Reached, Index

LEMMA AheadRange ==
  ASSUME Types
  PROVE  \A i \in Index : Ahead(i) \in Int /\ Ahead(i) \in Index
BY RingTypes, Distances DEF Ahead

LEMMA InitRing == KeyboardAssumption /\ Init => Ring
<1> SUFFICES ASSUME KeyboardAssumption, Init PROVE Ring
  OBVIOUS
<1>1. /\ SIZE \in Nat /\ kqfront = 0 /\ kqback = 0 /\ accepted = <<>> /\ taken = 0
      /\ phase = "idle"
  BY DEF KeyboardAssumption, Init
<1> QED BY <1>1 DEF Ring, Indices, Contents, Ahead, Distance, Reached

(* What changes neither the queue nor the reader.                          *)
LEMMA RingKept ==
  ASSUME Ring, UNCHANGED <<keyqueue, kqback, accepted, kqfront, phase, front, back, scancode, taken>>
  PROVE  Ring'
BY DEF Ring, Indices, Contents, Ahead, Wrap, Reached

LEMMA InterruptRing ==
  ASSUME Types, Ring, Interrupt
  PROVE  Ring'
<1>1. CASE Full
  <2>1. UNCHANGED <<keyqueue, kqback, accepted, kqfront, phase, front, back, scancode, taken>>
    BY <1>1 DEF Interrupt
  <2> QED BY <2>1, RingKept
<1>2. CASE ~Full
  <2>1. /\ kqback' = NextIndex(kqback) /\ kqback' # kqfront
        /\ accepted' = Append(accepted, Head(wire))
        /\ keyqueue' = [keyqueue EXCEPT ![kqback] = Head(wire)]
        /\ UNCHANGED <<kqfront, phase, front, back, scancode, taken>>
    BY <1>2 DEF Interrupt, Full
  <2>2. Reached' = Reached
    BY <2>1 DEF Reached
  <2>3. /\ Len(accepted') = Len(accepted) + 1
        /\ \A j \in 1..Len(accepted) : accepted'[j] = accepted[j]
        /\ accepted'[Len(accepted) + 1] = Head(wire)
    BY <2>1, RingTypes
  <2>4. /\ Ahead(kqfront) \in Int /\ Ahead(Reached) \in Int /\ Ahead(Reached) >= 0
        /\ Ahead(front) \in Int /\ Ahead(back) \in Int
    BY AheadRange, RingTypes DEF Index
  <2>5. \A i \in Index : i # kqback' => Ahead(i)' = Ahead(i) + 1 /\ Ahead(i) < SIZE - 1
    BY <2>1, RingTypes, Distances, Zenon DEF Ahead
  <2>6. ASSUME NEW i \in Index, Ahead(i) <= Ahead(kqfront)
        PROVE  Ahead(i)' = Ahead(i) + 1 /\ Ahead(i) < SIZE - 1
    <3>1. Ahead(kqfront) < SIZE - 1
      BY <2>1, <2>5, RingTypes
    <3>2. Ahead(kqback') = SIZE - 1
      <4>1. kqback' \in Index /\ kqback' = IF kqback = SIZE - 1 THEN 0 ELSE kqback + 1
        BY <2>1, RingTypes, NextWraps DEF Index
      <4> QED BY <4>1, RingTypes DEF Ahead, Distance, Index
    <3>3. Ahead(i) \in Int
      BY AheadRange
    <3>4. i # kqback'
      BY <2>4, <2>6, <3>1, <3>2, <3>3, RingTypes
    <3> QED BY <2>5, <3>4
  <2>7. Ahead(kqfront)' = Ahead(kqfront) + 1 /\ Ahead(Reached)' = Ahead(Reached) + 1
        /\ Ahead(Reached) < SIZE - 1 /\ Ahead(Reached) <= Ahead(kqfront)
    <3>1. Ahead(kqfront)' = Ahead(kqfront) + 1
      BY <2>1, <2>4, <2>6, RingTypes
    <3>2. Ahead(Reached) <= Ahead(kqfront)
      BY DEF Ring, Indices
    <3> QED BY <2>2, <2>6, <3>1, <3>2, RingTypes
  <2>8. Len(accepted) - taken = Ahead(Reached)
    BY DEF Ring, Indices
  <2>9. Indices'
    <3>1. phase' # "idle" => Ahead(back)' <= Ahead(front)'
      <4> SUFFICES ASSUME phase' # "idle" PROVE Ahead(back)' <= Ahead(front)'
        OBVIOUS
      <4>1. Ahead(back) <= Ahead(front) /\ Ahead(front) <= Ahead(kqfront)
        BY <2>1 DEF Ring, Indices, Reached
      <4>2. Ahead(back) <= Ahead(kqfront)
        BY <2>4, <4>1
      <4>3. Ahead(back)' = Ahead(back) + 1 /\ Ahead(front)' = Ahead(front) + 1
        BY <2>1, <2>6, <4>1, <4>2, RingTypes
      <4> QED BY <2>4, <4>1, <4>3
    <3>2. Len(accepted') - taken' = Ahead(Reached)'
      <4>1. taken' = taken
        BY <2>1
      <4> QED BY <2>3, <2>4, <2>7, <2>8, <4>1, RingTypes
    <3>3. Ahead(Reached)' <= Ahead(kqfront)'
      BY <2>4, <2>7
    <3> QED BY <3>1, <3>2, <3>3 DEF Indices
  <2>10. ASSUME NEW i \in 1..(Len(accepted') - taken')
         PROVE  keyqueue'[Wrap(Reached' + i - 1)] = accepted'[taken' + i]
    <3>1. PICK n \in Nat : n = i - 1 /\ i = n + 1
      BY RingTypes
    <3>2. taken' = taken
      BY <2>1
    <3>3. i <= Ahead(Reached) + 1 /\ n <= Ahead(Reached)
      BY <2>3, <2>4, <2>8, <3>1, <3>2, RingTypes
    <3>4. CASE n = Ahead(Reached)
      <4>1. Wrap(Reached + n) = kqback
        BY <3>4, RingTypes, Positions DEF Ahead
      <4>2. taken + i = Len(accepted) + 1
        BY <2>4, <2>8, <3>1, <3>4, RingTypes
      <4>3. keyqueue'[kqback] = Head(wire)
        BY <2>1, RingTypes
      <4> QED BY <2>2, <2>3, <3>1, <3>2, <4>1, <4>2, <4>3, Zenon
    <3>5. CASE n < Ahead(Reached)
      <4>1. i \in 1..(Len(accepted) - taken) /\ taken + i \in 1..Len(accepted)
        BY <2>4, <2>8, <3>1, <3>5, RingTypes
      <4>2. Wrap(Reached + n) # kqback /\ Wrap(Reached + n) \in Index
        BY <3>5, RingTypes, Positions DEF Ahead
      <4>3. keyqueue'[Wrap(Reached + n)] = keyqueue[Wrap(Reached + n)]
        BY <2>1, <4>2, RingTypes
      <4>4. keyqueue[Wrap(Reached + i - 1)] = accepted[taken + i]
        BY <4>1, Zenon DEF Ring, Contents
      <4> QED BY <2>2, <2>3, <3>1, <3>2, <4>1, <4>3, <4>4, Zenon
    <3> QED BY <2>4, <3>3, <3>4, <3>5
  <2>11. phase' = "decode" => taken' > 0 /\ scancode' = accepted'[taken']
    <3>1. taken \in 0..Len(accepted)
      BY <2>4, <2>8, RingTypes
    <3> QED BY <2>1, <2>3, <3>1 DEF Ring, Contents
  <2> QED BY <2>9, <2>10, <2>11 DEF Ring, Contents, Wrap
<1> QED BY <1>1, <1>2

LEMMA GetKeyRing ==
  ASSUME Types, Ring, GetKey
  PROVE  Ring'
<1>1. /\ phase = "idle" /\ phase' = "test" /\ front' = kqfront /\ back' = kqback
      /\ UNCHANGED <<keyqueue, kqback, accepted, kqfront, taken>>
  BY DEF GetKey, queue
<1>2. Reached = kqfront /\ Reached' = kqfront
  BY <1>1 DEF Reached
<1>3. Indices'
  <2>1. Ahead(kqfront) \in Int /\ Ahead(kqfront) >= 0
    BY AheadRange, RingTypes DEF Index
  <2>2. Len(accepted) - taken = Ahead(kqfront)
    BY <1>2 DEF Ring, Indices
  <2>3. Ahead(Reached)' = Ahead(kqfront) /\ Ahead(kqfront)' = Ahead(kqfront)
    BY <1>1, <1>2 DEF Ahead
  <2>4. Ahead(back)' = 0 /\ Ahead(front)' = Ahead(kqfront)
    BY <1>1, RingTypes DEF Ahead, Distance, Index
  <2> QED BY <1>1, <2>1, <2>2, <2>3, <2>4 DEF Indices
<1>4. Contents'
  BY <1>1, <1>2 DEF Ring, Contents, Wrap
<1> QED BY <1>3, <1>4 DEF Ring

(* get_key returns: what it has reached is where the queue begins.         *)
LEMMA LeaveRing ==
  ASSUME Types, Ring, Leave, phase # "idle",
         UNCHANGED <<keyqueue, kqback, accepted, taken>>
  PROVE  Ring'
<1>1. phase' = "idle" /\ kqfront' = front
  BY DEF Leave
<1>2. Reached = front /\ Reached' = front
  BY <1>1 DEF Reached
<1>3. Indices'
  BY <1>1, <1>2, AheadRange, RingTypes DEF Ring, Indices, Ahead
<1>4. Contents'
  BY <1>1, <1>2 DEF Ring, Contents, Wrap
<1> QED BY <1>3, <1>4 DEF Ring

LEMMA TakeRing ==
  ASSUME Types, Ring, Take
  PROVE  Ring'
<1>1. /\ phase = "test" /\ back # front /\ scancode' = keyqueue[front]
      /\ front' = NextIndex(front) /\ taken' = taken + 1 /\ phase' = "decode"
      /\ UNCHANGED <<keyqueue, kqback, accepted, kqfront, back>>
  BY DEF Take, queue
<1>2. Reached = front /\ Reached' = front'
  BY <1>1 DEF Reached
<1>3. /\ Ahead(kqfront) \in Int /\ Ahead(front) \in Int /\ Ahead(back) \in Int
      /\ Ahead(back) >= 0 /\ Ahead(front) < SIZE
  BY AheadRange, RingTypes DEF Index
<1>4. Ahead(back) < Ahead(front)
  <2>1. Ahead(back) <= Ahead(front)
    BY <1>1 DEF Ring, Indices
  <2> QED BY <1>1, <2>1, RingTypes, NotSame DEF Ahead
<1>5. Ahead(front)' = Ahead(front) - 1
  <2>1. front # kqback
    BY <1>3, <1>4, RingTypes DEF Ahead, Distance, Index
  <2> QED BY <1>1, <2>1, RingTypes, Distances DEF Ahead
<1>6. Len(accepted) - taken = Ahead(front) /\ Ahead(front) <= Ahead(kqfront)
  BY <1>2 DEF Ring, Indices
<1>7. Indices'
  <2>1. Ahead(back)' = Ahead(back) /\ Ahead(kqfront)' = Ahead(kqfront)
    BY <1>1 DEF Ahead
  <2>2. Len(accepted') - taken' = Ahead(front)'
    BY <1>1, <1>3, <1>5, <1>6, RingTypes
  <2>3. Ahead(front)' <= Ahead(kqfront)' /\ Ahead(back)' <= Ahead(front)'
    BY <1>3, <1>4, <1>5, <1>6, <2>1
  <2>4. Ahead(Reached)' = Ahead(front)'
    BY <1>2 DEF Ahead
  <2> QED BY <2>2, <2>3, <2>4 DEF Indices
<1>8. ASSUME NEW i \in 1..(Len(accepted') - taken')
      PROVE  keyqueue'[Wrap(Reached' + i - 1)] = accepted'[taken' + i]
  <2>1. PICK n \in Nat : i = n + 1 /\ n = i - 1
    BY RingTypes
  <2>2. i + 1 \in 1..(Len(accepted) - taken) /\ taken' + i = taken + (i + 1)
    <3>1. taken' = taken + 1 /\ accepted' = accepted
      BY <1>1
    <3>2. i \in 1..(Len(accepted) - (taken + 1))
      BY <3>1
    <3> QED BY <3>1, <3>2, RingTypes
  <2>3. n < SIZE - 1 /\ n \in Index
    <3>1. Len(accepted) - taken < SIZE /\ SIZE \in Nat /\ Len(accepted) - taken \in Int
      BY <1>3, <1>6, RingTypes
    <3>2. n + 2 <= Len(accepted) - taken
      BY <2>1, <2>2
    <3> QED BY <2>1, <3>1, <3>2 DEF Index
  <2>4. Wrap(front' + n) = Wrap(front + (n + 1))
    BY <1>1, <2>3, RingTypes, NextPositions
  <2>5. keyqueue[Wrap(front + (i + 1) - 1)] = accepted[taken + (i + 1)]
    BY <1>2, <2>2, Zenon DEF Ring, Contents
  <2>6. front + (i + 1) - 1 = front + (n + 1) /\ Reached' + i - 1 = front' + n
    BY <1>2, <2>1
  <2> QED BY <1>1, <2>2, <2>4, <2>5, <2>6
<1>9. taken' > 0 /\ scancode' = accepted'[taken']
  <2>1. 1 \in 1..(Len(accepted) - taken) /\ Wrap(front + 1 - 1) = front
    BY <1>3, <1>4, <1>6, RingTypes DEF Wrap, Index
  <2> QED BY <1>1, <1>2, <2>1, RingTypes DEF Ring, Contents
<1> QED BY <1>7, <1>8, <1>9 DEF Ring, Contents, Wrap

LEMMA RingStep ==
  ASSUME Types, Ring, [Next]_vars
  PROVE  Ring'
<1>1. CASE UNCHANGED vars
  BY <1>1, RingKept DEF vars, queue
<1>2. ASSUME NEW key \in Keys, Press(key) \/ Release(key) PROVE Ring'
  BY <1>2, RingKept DEF Press, Release, queue
<1>3. CASE Empty
  BY <1>3, LeaveRing DEF Empty, queue
<1>4. CASE Decode
  <2>1. phase # "idle" /\ UNCHANGED <<queue, taken>>
    BY <1>4, DecodeCases
  <2>2. Leave \/ Waits
    BY <1>4, DecodeCases DEF DecodePrefix, DecodeBreak, DecodeMake
  <2>3. CASE Waits
    <3>1. phase = "decode" /\ phase' = "test"
      BY <1>4, <2>3, DecodeCases DEF Waits
    <3> QED BY <2>1, <2>3, <3>1 DEF Waits, Ring, Indices, Contents, queue, Ahead, Wrap, Reached
  <2> QED BY <2>1, <2>2, <2>3, LeaveRing DEF queue
<1> QED BY <1>1, <1>2, <1>3, <1>4, InterruptRing, GetKeyRing, TakeRing DEF Next, Reader
-----------------------------------------------------------------------------
(* The decoder, as a function of its state and the next code.              *)
State == [depressed : SUBSET {"shift", "letter", "pad8"}, extended : BOOLEAN, count : Nat]
Start == [depressed |-> {}, extended |-> FALSE, count |-> 0]

KeyIn(d, c) ==
  IF c.kind # "make" THEN "none"
  ELSE IF d.extended THEN IF c.code = "pad8" THEN "up" ELSE "none"
  ELSE IF c.code = "shift" THEN "none" ELSE c.code

Decoded(d, c) ==
  [depressed |-> IF c.kind = "make" THEN d.depressed \cup {c.code}
                 ELSE IF c.kind = "break" THEN d.depressed \ {c.code} ELSE d.depressed,
   extended  |-> IF c.kind = "e0" THEN TRUE ELSE IF c.kind = "break" THEN FALSE ELSE d.extended,
   count     |-> IF KeyIn(d, c) = "none" THEN d.count ELSE d.count + 1]

(* All codes the keyboard has sent, if none was dropped.                   *)
Sent == accepted \o wire
Now == IF phase = "decode" THEN taken - 1 ELSE taken
Current == [depressed |-> depressed, extended |-> extended, count |-> Len(returned)]

(* From d to e with the code c: its key is the one that was typed.         *)
Decoding(d, c, e, t) ==
  /\ e = Decoded(d, c)
  /\ d.count <= e.count /\ e.count <= Len(t)
  /\ KeyIn(d, c) # "none" =>
       t[d.count + 1] = [key |-> KeyIn(d, c), shift |-> "shift" \in d.depressed]

(* The states of the decoder before each code of sent and after the last.  *)
Follows(d, sent, t) ==
  /\ d \in Seq(State) /\ sent \in Seq(Sendable) /\ t \in Seq(Reports)
  /\ Len(d) = Len(sent) + 1
  /\ \A i \in 1..Len(sent) : Decoding(d[i], sent[i], d[i + 1], t)

(* The last state is that of the keys that are down.                       *)
Matches(state, t, keys) ==
  /\ state.count = Len(t)
  /\ "shift" \in state.depressed <=> "shift" \in keys
  /\ state.extended => "up" \in keys

Decodes(d) ==
  /\ Follows(d, Sent, typed)
  /\ Matches(d[Len(Sent) + 1], typed, down)
  /\ d[Now + 1] = Current
  /\ \A i \in 1..Len(returned) : returned[i] = typed[i]

HasDecoding == ~dropped => \E d : Decodes(d)

IInv == Types /\ Ring /\ HasDecoding

LEMMA DecodedState ==
  ASSUME NEW d \in State, NEW c \in Sendable
  PROVE  Decoded(d, c) \in State /\ d.count <= Decoded(d, c).count
<1>1. d.depressed \subseteq {"shift", "letter", "pad8"} /\ d.extended \in BOOLEAN /\ d.count \in Nat
  BY DEF State
<1>2. (IF KeyIn(d, c) = "none" THEN d.count ELSE d.count + 1) \in Nat
  BY <1>1
<1>3. (IF c.kind = "make" THEN d.depressed \cup {c.code}
       ELSE IF c.kind = "break" THEN d.depressed \ {c.code} ELSE d.depressed)
      \in SUBSET {"shift", "letter", "pad8"}
  BY <1>1, SendableFacts
<1>4. (IF c.kind = "e0" THEN TRUE ELSE IF c.kind = "break" THEN FALSE ELSE d.extended) \in BOOLEAN
  BY <1>1
<1> DEFINE held == IF c.kind = "make" THEN d.depressed \cup {c.code}
                   ELSE IF c.kind = "break" THEN d.depressed \ {c.code} ELSE d.depressed
           ext == IF c.kind = "e0" THEN TRUE ELSE IF c.kind = "break" THEN FALSE ELSE d.extended
           n == IF KeyIn(d, c) = "none" THEN d.count ELSE d.count + 1
<1>5. Decoded(d, c) = [depressed |-> held, extended |-> ext, count |-> n]
  BY Zenon DEF Decoded
<1>6. held \in SUBSET {"shift", "letter", "pad8"} /\ ext \in BOOLEAN /\ n \in Nat
  BY <1>2, <1>3, <1>4, Zenon
<1>7. d.count <= n
  BY <1>1
<1> HIDE DEF held, ext, n
<1> QED BY <1>5, <1>6, <1>7 DEF State

(* One more code, and the key in it.                                       *)
Lengthens(t, u) == Len(t) <= Len(u) /\ \A j \in 1..Len(t) : u[j] = t[j]

Continues(d, sent, t, c, e, u) ==
  /\ Follows(d, sent, t) /\ c \in Sendable /\ u \in Seq(Reports) /\ Lengthens(t, u)
  /\ e = Decoded(d[Len(sent) + 1], c) /\ Decoding(d[Len(sent) + 1], c, e, u)

Longer(d, sent, c, e, u) ==
  /\ Follows(Append(d, e), Append(sent, c), u)
  /\ Len(Append(sent, c)) = Len(sent) + 1
  /\ Append(d, e)[Len(sent) + 2] = e
  /\ \A i \in 1..(Len(sent) + 1) : Append(d, e)[i] = d[i]

LEMMA FollowsOn ==
  ASSUME NEW d, NEW sent, NEW t, NEW c, NEW e, NEW u, Continues(d, sent, t, c, e, u)
  PROVE  Longer(d, sent, c, e, u)
<1>0. /\ Follows(d, sent, t) /\ c \in Sendable /\ u \in Seq(Reports) /\ Lengthens(t, u)
      /\ e = Decoded(d[Len(sent) + 1], c) /\ Decoding(d[Len(sent) + 1], c, e, u)
  BY Zenon DEF Continues
<1>1. /\ d \in Seq(State) /\ sent \in Seq(Sendable) /\ t \in Seq(Reports)
      /\ Len(d) = Len(sent) + 1 /\ Len(sent) \in Nat /\ Len(t) \in Nat /\ Len(u) \in Nat
  BY <1>0 DEF Follows
<1>2. e = Decoded(d[Len(sent) + 1], c) /\ Decoding(d[Len(sent) + 1], c, e, u)
  BY <1>0
<1>3. d[Len(sent) + 1] \in State /\ e \in State
  BY <1>0, <1>1, <1>2, DecodedState
<1>4. /\ Append(d, e) \in Seq(State) /\ Len(Append(d, e)) = Len(sent) + 2
      /\ Append(d, e)[Len(sent) + 2] = e
      /\ \A i \in 1..(Len(sent) + 1) : Append(d, e)[i] = d[i]
  BY <1>1, <1>3
<1>5. /\ Append(sent, c) \in Seq(Sendable) /\ Len(Append(sent, c)) = Len(sent) + 1
      /\ Append(sent, c)[Len(sent) + 1] = c
      /\ \A i \in 1..Len(sent) : Append(sent, c)[i] = sent[i]
  BY <1>0, <1>1
<1>6. ASSUME NEW i \in 1..(Len(sent) + 1)
      PROVE  Decoding(Append(d, e)[i], Append(sent, c)[i], Append(d, e)[i + 1], u)
  <2>1. CASE i = Len(sent) + 1
    <3>1. i + 1 = Len(sent) + 2
      BY <1>1, <2>1
    <3> QED BY <1>2, <1>4, <1>5, <2>1, <3>1
  <2>2. CASE i \in 1..Len(sent)
    <3>1. i + 1 \in 1..(Len(sent) + 1) /\ i \in 1..(Len(sent) + 1)
      BY <1>1, <2>2
    <3>2. Decoding(d[i], sent[i], d[i + 1], t)
      BY <1>0, <2>2 DEF Follows
    <3>3. d[i] \in State /\ d[i + 1] \in State /\ d[i].count \in Nat /\ d[i + 1].count \in Nat
      <4>1. d[i] \in State /\ d[i + 1] \in State
        BY <1>1, <3>1
      <4>2. \A x \in State : x.count \in Nat
        BY DEF State
      <4> QED BY <4>1, <4>2
    <3>4. Decoding(d[i], sent[i], d[i + 1], u)
      <4>1. d[i + 1].count <= Len(u)
        BY <1>0, <1>1, <3>2, <3>3 DEF Decoding, Lengthens
      <4>2. KeyIn(d[i], sent[i]) # "none" => d[i].count + 1 \in 1..Len(t)
        <5> SUFFICES ASSUME KeyIn(d[i], sent[i]) # "none" PROVE d[i].count + 1 \in 1..Len(t)
          OBVIOUS
        <5>1. d[i + 1].count = d[i].count + 1
          BY <3>2 DEF Decoding, Decoded
        <5> QED BY <1>1, <3>2, <3>3, <5>1 DEF Decoding
      <4> QED BY <1>0, <3>2, <4>1, <4>2 DEF Decoding, Lengthens
    <3> QED BY <1>4, <1>5, <2>2, <3>1, <3>4
  <2> QED BY <1>1, <2>1, <2>2
<1> QED BY <1>0, <1>4, <1>5, <1>6 DEF Follows, Longer

LEMMA DecodesBounds ==
  ASSUME Types, Ring, NEW d, Decodes(d)
  PROVE  /\ Len(accepted) \in Nat /\ taken \in 0..Len(accepted)
         /\ phase = "decode" => taken \in 1..Len(accepted)
         /\ Now + 1 \in 1..(Len(accepted) + 1)
         /\ Sent \in Seq(Sendable) /\ Len(Sent) = Len(accepted) + Len(wire) /\ Len(wire) \in Nat
         /\ \A i \in 1..Len(accepted) : Sent[i] = accepted[i]
         /\ Len(returned) \in Nat /\ Len(typed) \in Nat /\ Len(returned) <= Len(typed)
<1>1. /\ accepted \in Seq(Sendable) /\ wire \in Seq(Sendable) /\ taken \in Nat
      /\ Len(accepted) \in Nat /\ Len(wire) \in Nat /\ Len(returned) \in Nat /\ Len(typed) \in Nat
  BY DEF Types, TypeOK
<1>2. taken <= Len(accepted)
  <2>1. Len(accepted) - taken = Ahead(Reached) /\ Ahead(Reached) \in 0..(SIZE - 1)
    BY AheadRange, RingTypes DEF Ring, Indices, Index
  <2> QED BY <1>1, <2>1
<1>3. phase = "decode" => taken > 0
  BY DEF Ring, Contents
<1>4. Now + 1 \in 1..(Len(accepted) + 1)
  BY <1>1, <1>2, <1>3 DEF Now
<1>5. /\ Sent \in Seq(Sendable) /\ Len(Sent) = Len(accepted) + Len(wire)
      /\ \A i \in 1..Len(accepted) : Sent[i] = accepted[i]
  BY <1>1, ConcatProperties DEF Sent
<1>6. Len(returned) <= Len(typed)
  <2>1. d[Now + 1].count = Len(returned)
    BY DEF Decodes, Current
  <2>2. CASE Now + 1 = Len(Sent) + 1
    BY <1>1, <2>1, <2>2 DEF Decodes, Matches
  <2>3. CASE Now + 1 # Len(Sent) + 1
    <3>1. Now + 1 \in 1..Len(Sent)
      BY <1>1, <1>4, <1>5, <2>3
    <3>2. Decoding(d[Now + 1], Sent[Now + 1], d[Now + 1 + 1], typed)
      BY <3>1 DEF Decodes, Follows
    <3>3. d[Now + 1 + 1].count \in Nat
      <4>1. Now + 1 + 1 \in 1..Len(d)
        BY <3>1, <1>1, <1>5 DEF Decodes, Follows
      <4>2. d[Now + 1 + 1] \in State
        BY <4>1 DEF Decodes, Follows
      <4> QED BY <4>2 DEF State
    <3> QED BY <1>1, <2>1, <3>2, <3>3 DEF Decoding
  <2> QED BY <2>2, <2>3
<1> QED BY <1>1, <1>2, <1>3, <1>4, <1>5, <1>6

(* The keyboard has sent codes that the decoder has not seen.              *)
LEMMA Sending ==
  ASSUME Types, Ring, NEW d, Decodes(d), NEW e,
         UNCHANGED <<accepted, phase, taken, depressed, extended, returned>>,
         Follows(e, Sent', typed'), Matches(e[Len(Sent') + 1], typed', down'),
         Lengthens(typed, typed'), \A i \in 1..(Len(accepted) + 1) : e[i] = d[i]
  PROVE  Decodes(e)'
<1>1. Now' = Now /\ Current' = Current /\ returned' = returned
  BY DEF Now, Current
<1>2. e[Now' + 1] = Current'
  BY <1>1, DecodesBounds DEF Decodes
<1>3. \A i \in 1..Len(returned') : returned'[i] = typed'[i]
  <2>1. \A i \in 1..Len(returned) : returned[i] = typed[i] /\ i \in 1..Len(typed)
    BY DecodesBounds DEF Decodes
  <2> QED BY <1>1, <2>1 DEF Lengthens
<1> QED BY <1>2, <1>3, Zenon DEF Decodes

LEMMA SendOne ==
  ASSUME Types, Ring, NEW d, Decodes(d), wire = <<>>,
         UNCHANGED <<accepted, phase, taken, depressed, extended, returned>>,
         NEW c \in Sendable, wire' = <<c>>, typed' \in Seq(Reports), Lengthens(typed, typed'),
         Decoding(d[Len(accepted) + 1], c, Decoded(d[Len(accepted) + 1], c), typed'),
         Matches(Decoded(d[Len(accepted) + 1], c), typed', down')
  PROVE  \E e : Decodes(e)'
<1>1. accepted \in Seq(Sendable) /\ Len(accepted) \in Nat
  BY RingTypes
<1>2. Sent = accepted /\ Sent' = Append(accepted, c)
  BY <1>1 DEF Sent
<1>3. PICK x : x = Decoded(d[Len(accepted) + 1], c)
  OBVIOUS
<1>4. PICK s, t, u : s = accepted /\ t = typed /\ u = typed'
  OBVIOUS
<1>5. /\ Follows(Append(d, x), Append(accepted, c), typed')
      /\ Len(Append(accepted, c)) = Len(accepted) + 1
      /\ Append(d, x)[Len(accepted) + 2] = x
      /\ \A i \in 1..(Len(accepted) + 1) : Append(d, x)[i] = d[i]
  <2>1. Continues(d, s, t, c, x, u)
    BY <1>2, <1>3, <1>4, Zenon DEF Decodes, Continues
  <2>2. Longer(d, s, c, x, u)
    BY <2>1, FollowsOn, Zenon
  <2> QED BY <1>4, <2>2, Zenon DEF Longer
<1>6. Len(Sent') + 1 = Len(accepted) + 2
  BY <1>1, <1>2, <1>5
<1> QED BY <1>2, <1>3, <1>5, <1>6, Sending, Zenon

LEMMA SendTwo ==
  ASSUME Types, Ring, NEW d, Decodes(d), wire = <<>>,
         UNCHANGED <<accepted, phase, taken, depressed, extended, returned>>,
         NEW c \in Sendable, NEW b \in Sendable, wire' = <<b, c>>,
         typed' \in Seq(Reports), Lengthens(typed, typed'),
         NEW mid, mid = Decoded(d[Len(accepted) + 1], b),
         Decoding(d[Len(accepted) + 1], b, mid, typed),
         Decoding(mid, c, Decoded(mid, c), typed'),
         Matches(Decoded(mid, c), typed', down')
  PROVE  \E e : Decodes(e)'
<1>1. accepted \in Seq(Sendable) /\ Len(accepted) \in Nat
  BY RingTypes
<1>2. Sent = accepted /\ Sent' = Append(Append(accepted, b), c)
  BY <1>1 DEF Sent
<1>3. Follows(d, accepted, typed)
  BY <1>2 DEF Decodes
<1>4. PICK e : e = Append(d, mid)
  OBVIOUS
<1>5. PICK r, s, t, u : r = accepted /\ s = Append(accepted, b) /\ t = typed /\ u = typed'
  OBVIOUS
<1>6. typed \in Seq(Reports) /\ Lengthens(typed, typed)
  BY DEF Types, TypeOK, Lengthens
<1>7. /\ Follows(e, s, typed) /\ Len(s) = Len(accepted) + 1
      /\ e[Len(accepted) + 2] = mid
      /\ \A i \in 1..(Len(accepted) + 1) : e[i] = d[i]
  <2>1. Continues(d, r, t, b, mid, t)
    BY <1>3, <1>5, <1>6, Zenon DEF Continues
  <2>2. Longer(d, r, b, mid, t)
    BY <2>1, FollowsOn, Zenon
  <2> QED BY <1>4, <1>5, <2>2, Zenon DEF Longer
<1>8. e[Len(s) + 1] = mid /\ Len(s) + 2 = Len(accepted) + 3
  <2>1. Len(s) + 1 = Len(accepted) + 2 /\ Len(s) + 2 = Len(accepted) + 3
    BY <1>1, <1>7
  <2> QED BY <1>7, <2>1
<1>9. PICK f : f = Append(e, Decoded(mid, c))
  OBVIOUS
<1>10. /\ Follows(f, Append(s, c), typed') /\ Len(Append(s, c)) = Len(s) + 1
       /\ f[Len(s) + 2] = Decoded(mid, c)
       /\ \A i \in 1..(Len(s) + 1) : f[i] = e[i]
  <2>1. Continues(e, s, t, c, Decoded(mid, c), u)
    BY <1>5, <1>7, <1>8, Zenon DEF Continues
  <2>2. Longer(e, s, c, Decoded(mid, c), u)
    BY <2>1, FollowsOn, Zenon
  <2> QED BY <1>5, <1>9, <2>2, Zenon DEF Longer
<1>11. \A i \in 1..(Len(accepted) + 1) : f[i] = d[i]
  <2>1. \A i \in 1..(Len(accepted) + 1) : i \in 1..(Len(s) + 1)
    BY <1>1, <1>7
  <2> QED BY <1>7, <1>10, <2>1
<1>12. Sent' = Append(s, c) /\ Len(Sent') + 1 = Len(s) + 2
  BY <1>1, <1>2, <1>5, <1>7, <1>10
<1> QED BY <1>10, <1>11, <1>12, Sending

(* What the state after all codes says of a code that follows.             *)
LEMMA LastState ==
  ASSUME Types, Ring, NEW d, Decodes(d), wire = <<>>
  PROVE  LET last == d[Len(accepted) + 1]
         IN  /\ last \in State /\ Matches(last, typed, down)
             /\ last.count = Len(typed) /\ Len(typed) \in Nat
<1>1. accepted \in Seq(Sendable) /\ Len(accepted) \in Nat /\ Len(typed) \in Nat
  BY RingTypes DEF Types, TypeOK
<1>2. Sent = accepted
  BY <1>1 DEF Sent
<1>3. d \in Seq(State) /\ Len(d) = Len(accepted) + 1
  BY <1>2 DEF Decodes, Follows
<1>4. d[Len(accepted) + 1] \in State
  BY <1>1, <1>3
<1> QED BY <1>1, <1>2, <1>4 DEF Decodes, Matches

LEMMA PressDecodes ==
  ASSUME Types, Ring, Types', ~Overlap, NEW d, Decodes(d), NEW key \in Keys, Press(key)
  PROVE  \E e : Decodes(e)'
<1> DEFINE last == d[Len(accepted) + 1]
           report == [key |-> key, shift |-> "shift" \in down]
<1>1. /\ wire = <<>> /\ wire' = Codes(key, "make") /\ down' = down \cup {key}
      /\ typed' = IF key = "shift" THEN typed ELSE Append(typed, report)
      /\ "up" \notin down \/ key = "up"
      /\ UNCHANGED <<accepted, phase, taken, depressed, extended, returned>>
  BY DEF Press, queue, decoder
<1>2. last \in State /\ Matches(last, typed, down) /\ last.count = Len(typed) /\ Len(typed) \in Nat
  BY <1>1, LastState
<1>3. typed \in Seq(Reports) /\ typed' \in Seq(Reports)
  BY DEF Types, TypeOK
<1>4. Lengthens(typed, typed')
  BY <1>1, <1>3 DEF Lengthens
<1>5. key # "shift" => Len(typed') = Len(typed) + 1 /\ typed'[Len(typed) + 1] = report
  BY <1>1, <1>3
<1>6. key = "shift" => Len(typed') = Len(typed)
  BY <1>1
<1> HIDE DEF last
<1>7. CASE key # "up"
  <2> DEFINE c == [kind |-> "make", code |-> key]
  <2>1. wire' = <<c>> /\ c \in Sendable
    BY <1>1, <1>7 DEF Codes, Code, Sendable, Keys
  <2>2. ~last.extended /\ ("shift" \in last.depressed <=> "shift" \in down)
    BY <1>1, <1>2, <1>7 DEF Matches
  <2>3. KeyIn(last, c) = IF key = "shift" THEN "none" ELSE key
    BY <2>2 DEF KeyIn
  <2>4. /\ Decoded(last, c).count = Len(typed')
        /\ Decoded(last, c).depressed = last.depressed \cup {key}
        /\ Decoded(last, c).extended = last.extended
    <3>1. Decoded(last, c).count = IF KeyIn(last, c) = "none" THEN last.count ELSE last.count + 1
      BY DEF Decoded
    <3>2. Decoded(last, c).count = Len(typed')
      BY <1>2, <1>5, <1>6, <2>3, <3>1 DEF Keys
    <3> QED BY <3>2 DEF Decoded
  <2>5. Decoding(last, c, Decoded(last, c), typed')
    <3>1. last.count <= Len(typed')
      BY <1>2, <1>5, <1>6
    <3>2. KeyIn(last, c) # "none" =>
            typed'[last.count + 1] = [key |-> KeyIn(last, c), shift |-> "shift" \in last.depressed]
      BY <1>2, <1>5, <2>2, <2>3
    <3>3. Len(typed') \in Nat
      BY <1>3
    <3> QED BY <2>4, <3>1, <3>2, <3>3 DEF Decoding
  <2>6. Matches(Decoded(last, c), typed', down')
    BY <1>1, <2>2, <2>4 DEF Matches
  <2> HIDE DEF c
  <2> QED BY <1>1, <1>3, <1>4, <2>1, <2>5, <2>6, SendOne DEF last
<1>8. CASE key = "up"
  <2> DEFINE c == [kind |-> "make", code |-> "pad8"]
             mid == Decoded(last, Prefix)
  <2>1. wire' = <<Prefix, c>> /\ c \in Sendable /\ Prefix \in Sendable
    BY <1>1, <1>8 DEF Codes, Code, Sendable
  <2>2. "shift" \in last.depressed <=> "shift" \in down
    BY <1>2 DEF Matches
  <2>3. /\ mid.count = last.count /\ mid.extended = TRUE /\ mid.depressed = last.depressed
        /\ KeyIn(last, Prefix) = "none"
    BY DEF Decoded, KeyIn, Prefix
  <2>4. Decoding(last, Prefix, mid, typed)
    BY <1>2, <2>3 DEF Decoding
  <2> HIDE DEF mid
  <2>5. KeyIn(mid, c) = "up"
    BY <2>3 DEF KeyIn
  <2>6. /\ Decoded(mid, c).count = Len(typed')
        /\ Decoded(mid, c).depressed = last.depressed \cup {"pad8"}
    BY <1>2, <1>5, <1>8, <2>3, <2>5 DEF Decoded
  <2>7. Decoding(mid, c, Decoded(mid, c), typed')
    BY <1>2, <1>5, <1>8, <2>2, <2>3, <2>5, <2>6 DEF Decoding
  <2>8. Matches(Decoded(mid, c), typed', down')
    BY <1>1, <1>8, <2>2, <2>6 DEF Matches
  <2>9. mid = Decoded(last, Prefix)
    BY DEF mid
  <2> HIDE DEF c
  <2> QED BY <1>1, <1>3, <1>4, <2>1, <2>4, <2>7, <2>8, <2>9, SendTwo DEF last
<1> QED BY <1>7, <1>8

LEMMA ReleaseDecodes ==
  ASSUME Types, Ring, Types', NEW d, Decodes(d), NEW key \in Keys, Release(key)
  PROVE  \E e : Decodes(e)'
<1> DEFINE last == d[Len(accepted) + 1]
<1>1. /\ wire = <<>> /\ wire' = Codes(key, "break") /\ down' = down \ {key} /\ typed' = typed
      /\ UNCHANGED <<accepted, phase, taken, depressed, extended, returned>>
  BY DEF Release, queue, decoder
<1>2. last \in State /\ Matches(last, typed, down) /\ last.count = Len(typed) /\ Len(typed) \in Nat
  BY <1>1, LastState
<1>3. typed \in Seq(Reports) /\ typed' \in Seq(Reports) /\ Lengthens(typed, typed')
  BY <1>1 DEF Types, TypeOK, Lengthens
<1>4. "shift" \in last.depressed <=> "shift" \in down
  BY <1>2 DEF Matches
<1> HIDE DEF last
<1>5. ASSUME NEW state \in State, NEW c, c.kind = "break", c.code = Code(key),
             state.count = Len(typed), state.depressed = last.depressed
      PROVE  /\ Decoding(state, c, Decoded(state, c), typed')
             /\ Matches(Decoded(state, c), typed', down')
  <2>1. KeyIn(state, c) = "none"
    BY <1>5 DEF KeyIn
  <2>2. /\ Decoded(state, c).count = Len(typed)
        /\ Decoded(state, c).depressed = last.depressed \ {Code(key)}
        /\ ~Decoded(state, c).extended
    BY <1>5, <2>1 DEF Decoded
  <2>3. Code(key) = "shift" <=> key = "shift"
    BY DEF Code, Keys
  <2> QED BY <1>1, <1>2, <1>4, <1>5, <2>1, <2>2, <2>3 DEF Decoding, Matches
<1>6. CASE key # "up"
  <2> DEFINE c == [kind |-> "break", code |-> key]
  <2>1. wire' = <<c>> /\ c \in Sendable /\ c.kind = "break" /\ c.code = Code(key)
    BY <1>1, <1>6 DEF Codes, Code, Sendable, Keys
  <2> HIDE DEF c
  <2>2. Decoding(last, c, Decoded(last, c), typed') /\ Matches(Decoded(last, c), typed', down')
    BY <1>2, <1>5, <2>1
  <2> QED BY <1>1, <1>3, <2>1, <2>2, SendOne DEF last
<1>7. CASE key = "up"
  <2> DEFINE c == [kind |-> "break", code |-> "pad8"]
             mid == Decoded(last, Prefix)
  <2>1. /\ wire' = <<Prefix, c>> /\ c \in Sendable /\ Prefix \in Sendable
        /\ c.kind = "break" /\ c.code = Code(key)
    BY <1>1, <1>7 DEF Codes, Code, Sendable
  <2>2. /\ mid.count = last.count /\ mid.depressed = last.depressed
        /\ KeyIn(last, Prefix) = "none"
    BY DEF Decoded, KeyIn, Prefix
  <2>3. Decoding(last, Prefix, mid, typed)
    BY <1>2, <2>2 DEF Decoding
  <2>4. mid \in State
    BY <1>2, <2>1, DecodedState
  <2> HIDE DEF mid, c
  <2>5. Decoding(mid, c, Decoded(mid, c), typed') /\ Matches(Decoded(mid, c), typed', down')
    BY <1>2, <1>5, <2>1, <2>2, <2>4
  <2>6. mid = Decoded(last, Prefix)
    BY DEF mid
  <2> QED BY <1>1, <1>3, <2>1, <2>3, <2>5, <2>6, SendTwo DEF last
<1> QED BY <1>6, <1>7

(* isr_keyboard moves a code from the wire to the queue, or drops it.      *)
LEMMA InterruptDecodes ==
  ASSUME Types, Ring, NEW d, Decodes(d), Interrupt, ~dropped'
  PROVE  Decodes(d)'
<1>1. /\ ~Full /\ wire # <<>> /\ wire' = Tail(wire) /\ accepted' = Append(accepted, Head(wire))
      /\ UNCHANGED <<down, typed, phase, taken, depressed, extended, returned>>
  BY DEF Interrupt, decoder
<1>2. accepted \in Seq(Sendable) /\ wire \in Seq(Sendable)
  BY DEF Types
<1>3. Sent' = Sent
  BY <1>1, <1>2 DEF Sent
<1>4. Now' = Now /\ Current' = Current
  BY <1>1 DEF Now, Current
<1> QED BY <1>1, <1>3, <1>4 DEF Decodes

(* Reading indices and codes changes nothing of the decoder.               *)
LEMMA ReadDecodes ==
  ASSUME Types, NEW d, Decodes(d), GetKey \/ Empty \/ Take
  PROVE  Decodes(d)'
<1>1. UNCHANGED <<down, typed, wire, accepted, depressed, extended, returned>>
  BY DEF GetKey, Empty, Take, keyboard, queue, decoder
<1>2. Sent' = Sent /\ Current' = Current
  BY <1>1 DEF Sent, Current
<1>3. Now' = Now
  BY RingTypes DEF GetKey, Empty, Take, Leave, Now
<1> QED BY <1>1, <1>2, <1>3 DEF Decodes

LEMMA SameState ==
  ASSUME NEW d, NEW c, depressed' = Decoded(d, c).depressed,
         extended' = Decoded(d, c).extended, Len(returned') = Decoded(d, c).count
  PROVE  Current' = Decoded(d, c)
<1>1. Decoded(d, c) = [depressed |-> Decoded(d, c).depressed,
                       extended |-> Decoded(d, c).extended, count |-> Decoded(d, c).count]
  BY Zenon DEF Decoded
<1> QED BY <1>1, Zenon DEF Current

LEMMA DecodeDecodes ==
  ASSUME Types, Types', Ring, NEW d, Decodes(d), Decode
  PROVE  Decodes(d)'
<1>1. /\ phase = "decode" /\ UNCHANGED <<down, typed, wire, accepted, taken>>
      /\ DecodePrefix \/ DecodeBreak \/ DecodeMake
  BY DecodeCases DEF keyboard, queue
<1>2. Sent' = Sent
  BY <1>1 DEF Sent
<1>3. Now = taken - 1 /\ Now' = taken
  BY <1>1 DEF Now, DecodePrefix, DecodeBreak, DecodeMake, Waits, Leave
<1>4. taken \in 1..Len(accepted) /\ taken \in 1..Len(Sent) /\ Sent[taken] = scancode
  BY <1>1, DecodesBounds DEF Ring, Contents
<1>5. d[taken] = Current
  <2>1. Now + 1 = taken
    BY <1>3, <1>4
  <2> QED BY <2>1 DEF Decodes
<1>6. Decoding(Current, scancode, d[taken + 1], typed)
  BY <1>4, <1>5 DEF Decodes, Follows
<1>7. /\ d[taken + 1] = Decoded(Current, scancode)
      /\ Current.depressed = depressed /\ Current.extended = extended
      /\ Current.count = Len(returned)
  BY <1>6 DEF Decoding, Current
<1>8. returned \in Seq(Reports) /\ typed \in Seq(Reports)
  BY DEF Types, TypeOK
<1>9. scancode.kind = "make" => KeyIn(Current, scancode) = Meaning
  BY <1>7 DEF KeyIn, Meaning
<1>10. /\ Current' = d[taken + 1]
       /\ \A i \in 1..Len(returned') : returned'[i] = typed[i]
  <2> DEFINE key == [key |-> Meaning, shift |-> Shifted]
  <2>1. \A i \in 1..Len(returned) : returned[i] = typed[i]
    BY DEF Decodes
  <2>2. CASE returned' = returned /\ KeyIn(Current, scancode) = "none"
    <3>1. Len(returned') = Len(returned)
      BY <2>2
    <3>2. depressed' = Decoded(Current, scancode).depressed
      BY <1>1, <1>7, <2>2 DEF Decoded, DecodePrefix, DecodeBreak, DecodeMake
    <3>3. extended' = Decoded(Current, scancode).extended
      BY <1>1, <1>7, <2>2 DEF Decoded, DecodePrefix, DecodeBreak, DecodeMake
    <3>4. Len(returned') = Decoded(Current, scancode).count
      BY <1>7, <2>2 DEF Decoded
    <3> QED BY <1>7, <2>1, <2>2, <3>2, <3>3, <3>4, SameState
  <2>3. CASE DecodeMake /\ Meaning # "none" /\ returned' = Append(returned, key)
    <3>1. KeyIn(Current, scancode) = Meaning
      BY <1>9, <2>3 DEF DecodeMake
    <3>2. typed[Len(returned) + 1] = key
      BY <1>6, <1>7, <2>3, <3>1 DEF Decoding, Shifted
    <3>3. Len(returned') = Len(returned) + 1
      BY <1>8, <2>3
    <3>4. \A i \in 1..Len(returned) : returned'[i] = returned[i]
      BY <1>8, <2>3
    <3>5. returned'[Len(returned) + 1] = key
      BY <1>8, <2>3
    <3>6. \A i \in 1..Len(returned') : returned'[i] = typed[i]
      BY <1>8, <2>1, <3>2, <3>3, <3>4, <3>5
    <3>7. depressed' = Decoded(Current, scancode).depressed
      BY <1>7, <2>3 DEF Decoded, DecodeMake
    <3>8. extended' = Decoded(Current, scancode).extended
      BY <1>7, <2>3 DEF Decoded, DecodeMake
    <3>9. Len(returned') = Decoded(Current, scancode).count
      BY <1>7, <2>3, <3>1, <3>3 DEF Decoded
    <3> QED BY <1>7, <3>6, <3>7, <3>8, <3>9, SameState
  <2> QED BY <1>1, <1>9, <2>2, <2>3 DEF DecodePrefix, DecodeBreak, DecodeMake, KeyIn
<1> QED BY <1>1, <1>2, <1>3, <1>10 DEF Decodes

LEMMA InitDecodes == Init => HasDecoding
<1> SUFFICES ASSUME Init PROVE \E d : Decodes(d)
  BY DEF HasDecoding
<1>1. /\ accepted = <<>> /\ wire = <<>> /\ typed = <<>> /\ returned = <<>> /\ down = {}
      /\ depressed = {} /\ extended = FALSE /\ phase = "idle" /\ taken = 0
  BY DEF Init
<1>2. PICK d : d = <<Start>>
  OBVIOUS
<1>3. Start \in State
  BY DEF Start, State
<1>4. d \in Seq(State) /\ Len(d) = 1 /\ d[1] = Start
  BY <1>2, <1>3
<1>5. Sent = <<>> /\ Len(Sent) = 0 /\ Now = 0
  BY <1>1 DEF Sent, Now
<1>6. Follows(d, Sent, typed)
  BY <1>1, <1>4, <1>5 DEF Follows
<1>7. Matches(Start, typed, down)
  BY <1>1 DEF Matches, Start
<1>8. Current = Start
  BY <1>1 DEF Current, Start
<1> QED BY <1>1, <1>4, <1>5, <1>6, <1>7, <1>8 DEF Decodes

LEMMA StutterDecodes ==
  ASSUME NEW d, Decodes(d), UNCHANGED vars
  PROVE  Decodes(d)'
BY DEF vars, keyboard, queue, decoder, Decodes, Sent, Now, Current

LEMMA DecodingStep ==
  ASSUME Types, Types', Ring, HasDecoding, [Next]_vars, ~Overlap
  PROVE  HasDecoding'
<1> SUFFICES ASSUME ~dropped' PROVE \E d : Decodes(d)'
  BY DEF HasDecoding
<1>1. ~dropped
  BY DEF Next, vars, Press, Release, Interrupt, Reader, GetKey, Empty, Take, Decode, queue
<1>2. PICK d : Decodes(d)
  BY <1>1 DEF HasDecoding
<1>3. CASE UNCHANGED vars
  BY <1>2, <1>3, StutterDecodes
<1>4. CASE Interrupt
  BY <1>2, <1>4, InterruptDecodes
<1>5. CASE GetKey \/ Empty \/ Take
  BY <1>2, <1>5, ReadDecodes
<1>6. CASE Decode
  BY <1>2, <1>6, DecodeDecodes
<1>7. ASSUME NEW key \in Keys, Press(key) PROVE \E e : Decodes(e)'
  BY <1>2, <1>7, PressDecodes
<1>8. ASSUME NEW key \in Keys, Release(key) PROVE \E e : Decodes(e)'
  BY <1>2, <1>8, ReleaseDecodes
<1> QED BY <1>3, <1>4, <1>5, <1>6, <1>7, <1>8 DEF Next, Reader
-----------------------------------------------------------------------------
LEMMA CodesKept == Types /\ Ring => CodesInOrder
<1> SUFFICES ASSUME Types, Ring PROVE CodesInOrder
  OBVIOUS
<1>1. TypeOK
  BY DEF Types
<1>2. phase = "idle" => Len(accepted) - taken = (SIZE + kqback - kqfront) % SIZE
  <2> SUFFICES ASSUME phase = "idle" PROVE Len(accepted) - taken = (SIZE + kqback - kqfront) % SIZE
    OBVIOUS
  <2>1. Len(accepted) - taken = Ahead(kqfront)
    BY DEF Ring, Indices, Reached
  <2>2. PICK x \in Nat : x = SIZE + kqback - kqfront /\ x < 2 * SIZE
    BY RingTypes DEF Index
  <2>3. x % SIZE = Wrap(x)
    BY <2>2, RingTypes, Modulo
  <2>4. Wrap(x) = Ahead(kqfront)
    <3>1. kqfront \in 0..(SIZE - 1) /\ kqback \in 0..(SIZE - 1) /\ SIZE \in Nat
      BY RingTypes DEF Index
    <3> QED BY <2>2, <3>1 DEF Wrap, Ahead, Distance
  <2> QED BY <2>1, <2>2, <2>3, <2>4, Zenon
<1>3. ASSUME NEW i \in 1..(Len(accepted) - taken)
      PROVE  keyqueue[(Reached + i - 1) % SIZE] = accepted[taken + i]
  <2>1. i \in Nat /\ i >= 1 /\ i < SIZE
    <3>1. Len(accepted) - taken = Ahead(Reached)
      BY DEF Ring, Indices
    <3>2. Ahead(Reached) \in 0..(SIZE - 1) /\ SIZE \in Nat
      BY AheadRange, RingTypes DEF Index
    <3> QED BY <3>1, <3>2
  <2>2. PICK x \in Nat : x = Reached + i - 1 /\ x < 2 * SIZE
    <3>1. Reached \in 0..(SIZE - 1) /\ SIZE \in Nat
      BY RingTypes DEF Index
    <3> QED BY <2>1, <3>1
  <2>3. x % SIZE = Wrap(x)
    BY <2>2, RingTypes, Modulo
  <2>4. keyqueue[Wrap(Reached + i - 1)] = accepted[taken + i]
    BY <1>3 DEF Ring, Contents
  <2> QED BY <2>2, <2>3, <2>4, Zenon
<1> QED BY <1>1, <1>2, <1>3, Zenon DEF CodesInOrder, SizeIsDifference

LEMMA KeysKept == Types /\ Ring /\ HasDecoding => KeysInOrder
<1> SUFFICES ASSUME Types, Ring, HasDecoding, ~dropped
             PROVE  /\ Len(returned) <= Len(typed)
                    /\ \A i \in 1..Len(returned) : returned[i] = typed[i]
  BY DEF KeysInOrder
<1>1. PICK d : Decodes(d)
  BY DEF HasDecoding
<1> QED BY <1>1, DecodesBounds DEF Decodes

(* The ring queue of isr_keyboard and get_key loses, overwrites or repeats *)
(* no code that it took, for every size of the queue, however the two      *)
(* interleave.                                                             *)
THEOREM CodesComeInOrder ==
  ASSUME KeyboardAssumption
  PROVE  Spec => []CodesInOrder
<1>1. Init => Types /\ Ring
  BY InitTypes, InitRing
<1>2. Types /\ Ring /\ [Next]_vars => (Types /\ Ring)'
  BY TypesStep, RingStep
<1>3. Types /\ Ring => CodesInOrder
  BY CodesKept
<1> QED BY <1>1, <1>2, <1>3, PTL DEF Spec

(* As long as no code is dropped, get_key returns the keys that were       *)
(* pressed, in order, each with the shift state it was pressed in, for     *)
(* every size of the queue, if no other key is pressed while an extended   *)
(* one is held down.                                                       *)
THEOREM KeysComeInOrder ==
  ASSUME KeyboardAssumption, ~Overlap
  PROVE  Spec => []KeysInOrder
<1>1. Init => IInv
  BY InitTypes, InitRing, InitDecodes DEF IInv
<1>2. IInv /\ [Next]_vars => IInv'
  BY TypesStep, RingStep, DecodingStep DEF IInv
<1>3. IInv => KeysInOrder
  BY KeysKept DEF IInv
<1> QED BY <1>1, <1>2, <1>3, PTL DEF Spec
=============================================================================
