---------------------------- MODULE Arithmetic ----------------------------
(***************************************************************************)
(* Numbers: arithmetic and branches, which have no state, and after them   *)
(* the generator of random numbers, which has.                             *)
(*                                                                         *)
(* What the opcodes of math.c store and branch on, and where branch() of   *)
(* process.c goes.  A zword has 16 bits; (short) of it is signed; C's      *)
(* division rounds towards zero and its right shift of a negative number   *)
(* towards minus infinity.  A division by zero faults on this machine, and *)
(* a shift by more than 15 is not legal: neither has a value here.         *)
(***************************************************************************)
EXTENDS Integers, Bitwise

zword == 0..65535
Word(i) == i % 65536
short(w) == IF w >= 32768 THEN w - 65536 ELSE w
Abs(i) == IF i < 0 THEN -i ELSE i

Quotient(a, b) ==
  IF (a < 0) = (b < 0) THEN Abs(a) \div Abs(b) ELSE -(Abs(a) \div Abs(b))
Remainder(a, b) == IF a < 0 THEN -(Abs(a) % Abs(b)) ELSE a % Abs(b)

z_add(a, b) == Word(short(a) + short(b))
z_sub(a, b) == Word(short(a) - short(b))
z_mul(a, b) == Word(short(a) * short(b))
z_div(a, b) == Word(Quotient(short(a), short(b)))
z_mod(a, b) == Word(Remainder(short(a), short(b)))
z_and(a, b) == a & b
z_or(a, b)  == a | b
z_not(a)    == 65535 - a

z_log_shift(a, n) ==
  IF short(n) > 0 THEN Word(a * 2 ^ short(n)) ELSE a \div 2 ^ (-short(n))
z_art_shift(a, n) ==
  IF short(n) > 0 THEN Word(short(a) * 2 ^ short(n))
  ELSE Word(short(a) \div 2 ^ (-short(n)))

z_jl(a, b) == short(a) < short(b)
z_jg(a, b) == short(a) > short(b)
z_jz(a) == short(a) = 0
z_je(a, others) == \E b \in others : a = b
z_test(a, mask) == (a & mask) = mask
-----------------------------------------------------------------------------
(* branch() at pc with the bytes that follow the opcode: it goes on after  *)
(* them, jumps, or returns 0 or 1 from the routine.                        *)
Extended(off1) == IF off1 >= 32 THEN off1 + 192 ELSE off1

branch(flag, bytes, pc) ==
  LET specifier == bytes[1]
      off1      == specifier % 64
      long      == (specifier \div 64) % 2 = 0
      offset    == IF long THEN 256 * Extended(off1) + bytes[2] ELSE off1
      next      == pc + (IF long THEN 2 ELSE 1)
  IN  IF flag # (specifier >= 128) THEN [to |-> "next", pc |-> next]
      ELSE IF offset > 1 THEN [to |-> "jump", pc |-> next + short(offset) - 2]
      ELSE [to |-> "return", pc |-> offset]
z_jump(pc, offset) == pc + short(offset) - 2

(* The operands that the type bytes of a variable opcode announce, two     *)
(* bits for each, up to the first that is 3.                               *)
Types(specifier) == [i \in 1..4 |-> (specifier \div 4 ^ (4 - i)) % 4]
operands(specifier) ==
  LET missing == {i \in 1..4 : Types(specifier)[i] = 3}
      first   == CHOOSE i \in missing \cup {5} : \A j \in missing : i <= j
  IN  [i \in 1..(first - 1) |-> Types(specifier)[i]]
-----------------------------------------------------------------------------
(* What the Z-machine means by all this, for operands a and b.             *)

(* Signed 16-bit numbers wrap around; quotient and remainder belong        *)
(* together, with the remainder's sign that of the dividend, whatever the  *)
(* signs are, -32768 divided by -1 included; a comparison sees the sign.   *)
Signed(a, b) ==
  /\ z_add(z_sub(a, b), b) = a
  /\ z_mul(a, b) = Word(256 * Word(a * (b \div 256)) + a * (b % 256))
  /\ b # 0 =>
       LET q == z_div(a, b)
           r == short(z_mod(a, b))
       IN  /\ z_add(z_mul(q, b), Word(r)) = a
           /\ Abs(r) < Abs(short(b))
           /\ r # 0 => (r < 0) = (short(a) < 0)
  /\ z_jl(a, b) <=> (a # b /\ z_sub(a, 32768) < z_sub(b, 32768))
  /\ z_jg(a, b) <=> ~z_jl(a, b) /\ ~z_je(a, {b})

(* A shift by n and back loses the bits that left the word and no other;   *)
(* an arithmetic shift to the right copies the sign.                       *)
Shifts(a, n) ==
  /\ z_log_shift(z_log_shift(a, n), Word(-n)) = a % 2 ^ (16 - n)
  /\ z_log_shift(z_log_shift(a, Word(-n)), n) = a - (a % 2 ^ n)
  /\ LET r == z_art_shift(a, Word(-n))
     IN  /\ z_log_shift(r, n) = a - (a % 2 ^ n)
         /\ (short(r) < 0) = (short(a) < 0)
  /\ z_art_shift(a, n) = z_log_shift(a, n)

(* How a compiler writes a branch over a distance from the first byte      *)
(* after it, 0 and 1 of which mean to return.                              *)
Encoded(distance, on, short_form) ==
  LET sense == IF on THEN 128 ELSE 0
      bits  == distance % 16384
  IN  IF short_form THEN <<sense + 64 + distance>>
      ELSE <<sense + bits \div 256, bits % 256>>

(* A branch that is taken goes where it was meant to go, backwards and at  *)
(* the largest distances too, and where a jump over that distance goes;    *)
(* one that is not goes on after it.                                       *)
Branches(distance, on, short_form, flag) ==
  LET bytes == Encoded(distance, on, short_form)
      pc    == 40000
      end   == pc + (IF short_form THEN 1 ELSE 2)
  IN  branch(flag, bytes, pc) =
        IF flag # on THEN [to |-> "next", pc |-> end]
        ELSE IF distance \in {0, 1} THEN [to |-> "return", pc |-> distance]
        ELSE [to |-> "jump", pc |-> z_jump(end, Word(distance))]
-----------------------------------------------------------------------------
(***************************************************************************)
(* The generator of random.c.  In standard mode its numbers come from the  *)
(* multiplication of A, any 15 bits here; seeded with a small number it    *)
(* counts up to that number instead, so that a game can be tested.         *)
(***************************************************************************)
CONSTANTS
  Seed,         \* values of seed_random, from z_random, a hot key or a restart
  Limit,        \* ranges that are asked for
  Draw          \* numbers of the standard mode, a subset of 0..32767

RandomAssumption == Seed \subseteq Nat /\ Limit \subseteq 1..32767 /\ Draw \subseteq 0..32767

VARIABLES interval, counter,
          result,      \* what z_random stored, 0 for a seed
          drawn        \* how many numbers since the last seed

vars == <<interval, counter, result, drawn>>

SPECIAL == 1000

Init == interval = 0 /\ counter = 0 /\ result = 0 /\ drawn = 0

CounterKept(value) == counter                                        \* faulty
StartOf(value) == IF 0 < value /\ value < SPECIAL THEN 0 ELSE counter

seed_random(value) ==
  /\ interval' = IF value < SPECIAL THEN value ELSE 0
  /\ counter' = StartOf(value)
  /\ result' = 0
  /\ drawn' = 0

InRange(number, range) == (number % range) + 1

z_random(range) ==
  /\ drawn' = drawn + 1
  /\ UNCHANGED interval
  /\ IF interval # 0
     THEN /\ counter' = IF counter + 1 = interval THEN 0 ELSE counter + 1
          /\ result' = InRange(counter, range)
     ELSE /\ \E number \in Draw : result' = InRange(number, range)
          /\ UNCHANGED counter

MaxDrawn == 2 * interval + 1       \* bound: twice around

Next ==
  \/ \E value \in Seed : seed_random(value)
  \/ \E range \in Limit : drawn < MaxDrawn /\ z_random(range)

Spec == Init /\ [][Next]_vars
-----------------------------------------------------------------------------
(* A number is never outside of its range, and after a small seed, from    *)
(* any state of the generator, the numbers are 1, 2, ..., the seed, over   *)
(* and over, taken into the range.                                         *)
Predictable ==
  [][\A range \in Limit : z_random(range) =>
       /\ result' \in 1..range
       /\ interval # 0 => result' = ((drawn % interval) % range) + 1]_vars
=============================================================================
