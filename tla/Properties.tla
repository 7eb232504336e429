---------------------------- MODULE Properties ----------------------------
(***************************************************************************)
(* The property lists of object.c in the bytes of the story's memory.  An  *)
(* object's list follows its name and has the numbers in descending order; *)
(* a property is a number and a length in one byte, or two from version 4  *)
(* on if it is long, and its data.  The list ends with a zero.             *)
(*                                                                         *)
(* Operands are legal: only a property that is there, of one or two bytes, *)
(* is put.  (The report that there is no such property does nothing in     *)
(* this build, and the put would go to the next one of the list; into one  *)
(* with two size bytes it would go to the second of them.)                 *)
(***************************************************************************)
EXTENDS Integers, Sequences, SequencesExt, FiniteSetsExt, TLC

CONSTANTS
  Version,       \* versions of the story file
  Lists(_),      \* the lists of the objects of a version, [number, length] each
  Value          \* values that are put

VARIABLES h_version, memory

vars == <<h_version, memory>>

Early == h_version <= 3
Object == DOMAIN Lists(h_version)
mask == IF Early THEN 32 ELSE 64

h_objects == 1000                 \* where the default values are
object_name(o) == 200 * o
NAME == <<1, 148, 165>>           \* a name of one word

(* How a compiler writes a list.                                           *)
Size(p) ==
  IF Early THEN <<32 * (p.length - 1) + p.number>>
  ELSE IF p.length <= 2 THEN <<64 * (p.length - 1) + p.number>>
  ELSE <<128 + p.number, 128 + (p.length % 64)>>
Data(p) == [i \in 1..p.length |-> p.number]
Encoded(o) ==
  NAME \o FlattenSeq([i \in DOMAIN Lists(h_version)[o] |->
     Size(Lists(h_version)[o][i]) \o Data(Lists(h_version)[o][i])]) \o <<0>>
Default(n) == <<n, n + 100>>

LOW_WORD(m, a) == 256 * m[a] + m[a + 1]

Init ==
  /\ h_version \in Version
  /\ memory =
       LET lists   == [o \in Object |-> Encoded(o)]
           at(o)   == object_name(o)..(object_name(o) + Len(lists[o]) - 1)
           list(o) == [a \in at(o) |-> lists[o][a - object_name(o) + 1]]
           default == [a \in h_objects..(h_objects + 2 * (mask - 1) - 1) |->
                         Default((a - h_objects) \div 2 + 1)[((a - h_objects) % 2) + 1]]
       IN  FoldSet(LAMBDA o, m : list(o) @@ m, default, Object)
-----------------------------------------------------------------------------
first_property(o) == object_name(o) + 1 + 2 * memory[object_name(o)]

next_property(a) ==
  LET value == memory[a]
      long  == memory[a + 1] % 64
  IN  IF Early THEN a + value \div 32 + 2
      ELSE IF value < 128 THEN a + value \div 64 + 2
      ELSE a + 2 + (IF long = 0 THEN 64 ELSE long)

Number(a) == memory[a] % mask

(* The loops over a list: the first property from a on whose number is at  *)
(* most n.                                                                 *)
Scan(o, n) ==
  LET scan[a \in DOMAIN memory] == IF Number(a) <= n THEN a ELSE scan[next_property(a)]
  IN  scan[first_property(o)]

ByteSized(a) == memory[a] < (IF Early THEN 32 ELSE 64)

z_get_prop(o, n) ==
  LET a == Scan(o, n)
  IN  IF Number(a) # n THEN LOW_WORD(memory, h_objects + 2 * (n - 1))
      ELSE IF ByteSized(a) THEN memory[a + 1] ELSE LOW_WORD(memory, a + 1)

z_get_prop_addr(o, n) ==
  LET a == Scan(o, n)
  IN  IF Number(a) # n THEN 0
      ELSE IF ~Early /\ memory[a] >= 128 THEN a + 2 ELSE a + 1

z_get_prop_len(addr) ==
  LET value == memory[addr - 1]
      long  == value % 64
  IN  IF Early THEN value \div 32 + 1
      ELSE IF value < 128 THEN value \div 64 + 1
      ELSE IF long = 0 THEN 64 ELSE long

(* The property after n, or the first if n is 0; n is in the list.         *)
z_get_next_prop(o, n) ==
  IF n = 0 THEN Number(first_property(o)) ELSE Number(next_property(Scan(o, n)))

Put(o, n, v) ==
  LET a == Scan(o, n)
  IN  IF ByteSized(a) THEN [memory EXCEPT ![a + 1] = v % 256]
      ELSE [memory EXCEPT ![a + 1] = v \div 256, ![a + 2] = v % 256]

z_put_prop(o, n, v) == memory' = Put(o, n, v) /\ UNCHANGED h_version

Listed(o) == Lists(h_version)[o]

Next ==
  \E o \in Object : \E i \in DOMAIN Listed(o) : \E v \in Value :
    /\ Listed(o)[i].length <= 2
    /\ z_put_prop(o, Listed(o)[i].number, v)

Spec == Init /\ [][Next]_vars
-----------------------------------------------------------------------------
Numbers(o) == [i \in DOMAIN Listed(o) |-> Listed(o)[i].number]

(* After any puts, the list is the one the compiler wrote: walked with     *)
(* z_get_next_prop it has the same numbers in the same order and ends; the *)
(* lengths are the same, up to 64 bytes, and every other number is absent. *)
ListKept ==
  \A o \in Object :
    /\ LET ns == Numbers(o)
       IN  \A i \in 0..Len(ns) :
             z_get_next_prop(o, IF i = 0 THEN 0 ELSE ns[i]) =
               IF i = Len(ns) THEN 0 ELSE ns[i + 1]
    /\ \A i \in DOMAIN Listed(o) :
         z_get_prop_len(z_get_prop_addr(o, Listed(o)[i].number)) = Listed(o)[i].length
    /\ \A n \in 1..(mask - 1) : n \notin ToSet(Numbers(o)) =>
         /\ z_get_prop_addr(o, n) = 0
         /\ z_get_prop(o, n) = 256 * Default(n)[1] + Default(n)[2]

Contents(o, n) ==
  LET a == z_get_prop_addr(o, n)
  IN  [i \in 1..z_get_prop_len(a) |-> memory[a + i - 1]]

(* A put changes one property of one object, and it is what z_get_prop     *)
(* then gives: all of it, or its low byte if the property has one.         *)
PutChangesOne ==
  [][\E o \in Object : \E i \in DOMAIN Listed(o) : \E v \in Value :
       LET n == Listed(o)[i].number
       IN  /\ z_get_prop(o, n)' = IF Listed(o)[i].length = 1 THEN v % 256 ELSE v
           /\ \A o2 \in Object : \A j \in DOMAIN Listed(o2) :
                <<o2, j>> # <<o, i>> =>
                  Contents(o2, Listed(o2)[j].number)' = Contents(o2, Listed(o2)[j].number)]_vars
=============================================================================
