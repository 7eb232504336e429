---------------------------- MODULE ObjectsProofs ----------------------------
(***************************************************************************)
(* The object table, in both of its formats and for every set of objects:  *)
(* the lists that unlink_object searches are whole, so that no search runs *)
(* out of the table; and the bytes implement ordered lists of children and *)
(* sets of attributes.                                                     *)
(*                                                                         *)
(* The first part is about bytes: which of them a link or an attribute is, *)
(* and that writing one changes no other.  The second is about links: they *)
(* form a tree with the lists L when the list of each object begins at its *)
(* first child, goes from sibling to sibling, and holds the objects that   *)
(* name it as their parent, each once; taking an object out and putting it *)
(* first into a list give such trees again.  The third follows the steps.  *)
(*                                                                         *)
(* No variable holds the lists.  The invariant says that they exist, and   *)
(* that memory has them or, during a search, that it would have them again *)
(* with the two links of the object that is being moved put back.          *)
(***************************************************************************)
EXTENDS Objects, SequenceTheorems, FiniteSetTheorems, WellFoundedInduction, TLAPS

(* The bytes of a link: two of a later format, one of an early one.        *)
Memory == [Entries(Object) -> 0..255]
Fields == {"parent", "sibling", "child"}
Rank(f) == IF f = "parent" THEN 0 ELSE IF f = "sibling" THEN 1 ELSE 2
Place(o, f) == object_address(o) + Field[f]

Known == h_version \in Version
-----------------------------------------------------------------------------
LEMMA Ranges ==
  ASSUME Known
  PROVE  /\ Object \subseteq 1..(IF Early THEN 255 ELSE 2000)
         /\ Attribute \subseteq 0..(IF Early THEN 31 ELSE 47)
         /\ Links \subseteq 0..(IF Early THEN 255 ELSE 2000)
<1>1. \A v \in Version :
        /\ ObjectOf(v) \subseteq 1..(IF v <= EARLY THEN 255 ELSE 2000)
        /\ AttributeOf(v) \subseteq 0..(IF v <= EARLY THEN 31 ELSE 47)
  BY ObjectsAssumption, Zenon DEF ObjectsAssumption
<1>2. /\ Object \subseteq 1..(IF Early THEN 255 ELSE 2000)
      /\ Attribute \subseteq 0..(IF Early THEN 31 ELSE 47)
  BY <1>1 DEF Known, Object, Attribute, Early
<1> QED BY <1>2 DEF Links

LEMMA Naturals ==
  ASSUME Known PROVE Object \subseteq Nat \ {0} /\ Links \subseteq Nat /\ 0 \notin Object
BY Ranges

LEMMA Places ==
  ASSUME Known, NEW o \in Object, NEW f \in Fields
  PROVE  /\ Rank(f) \in 0..2
         /\ Early => Place(o, f) = 9 * o + 57 + Rank(f)
         /\ ~Early => Place(o, f) = 14 * o + 118 + 2 * Rank(f)
<1>1. o \in Nat
  BY Naturals
<1>2. CASE f = "parent"
  BY <1>1, <1>2 DEF Place, object_address, Field, Rank
<1>3. CASE f = "sibling"
  BY <1>1, <1>3 DEF Place, object_address, Field, Rank
<1>4. CASE f = "child"
  BY <1>1, <1>4 DEF Place, object_address, Field, Rank
<1> QED BY <1>2, <1>3, <1>4 DEF Fields

LEMMA FieldsByRank ==
  ASSUME NEW f \in Fields, NEW g \in Fields, Rank(f) = Rank(g) PROVE f = g
BY DEF Fields, Rank

LEMMA InEntries ==
  ASSUME NEW o \in Object, NEW a \in object_address(o)..(object_address(o) + SIZE - 1)
  PROVE  a \in Entries(Object)
BY Zenon DEF Entries

LEMMA Addresses ==
  ASSUME Known, NEW o \in Object
  PROVE  /\ Early => object_address(o) = 9 * o + 53 /\ SIZE = 9
         /\ ~Early => object_address(o) = 14 * o + 112 /\ SIZE = 14
BY Naturals DEF object_address, SIZE

LEMMA PlaceInEntries ==
  ASSUME Known, NEW o \in Object, NEW f \in Fields
  PROVE  /\ Place(o, f) \in Entries(Object) /\ Place(o, f) \in Nat
         /\ ~Early => Place(o, f) + 1 \in Entries(Object)
<1>0. o \in Nat /\ Rank(f) \in 0..2
  BY Naturals, Places
<1>1. CASE Early
  <2>1. Place(o, f) \in object_address(o)..(object_address(o) + SIZE - 1) /\ Place(o, f) \in Nat
    BY <1>0, <1>1, Places, Addresses
  <2> QED BY <1>1, <2>1, InEntries
<1>2. CASE ~Early
  <2>1. /\ Place(o, f) \in object_address(o)..(object_address(o) + SIZE - 1)
        /\ Place(o, f) + 1 \in object_address(o)..(object_address(o) + SIZE - 1)
        /\ Place(o, f) \in Nat
    BY <1>0, <1>2, Places, Addresses
  <2> QED BY <2>1, InEntries
<1> QED BY <1>1, <1>2

LEMMA Apart ==
  ASSUME Known, NEW o \in Object, NEW f \in Fields, NEW p \in Object, NEW g \in Fields,
         o # p \/ f # g
  PROVE  /\ Place(o, f) # Place(p, g)
         /\ ~Early => Place(o, f) + 1 # Place(p, g) /\ Place(o, f) # Place(p, g) + 1
<1>0. o \in Nat /\ p \in Nat /\ Rank(f) \in 0..2 /\ Rank(g) \in 0..2
  BY Naturals, Places
<1>1. o # p \/ Rank(f) # Rank(g)
  BY FieldsByRank
<1>2. CASE Early
  BY <1>0, <1>1, <1>2, Places
<1>3. CASE ~Early
  BY <1>0, <1>1, <1>3, Places
<1> QED BY <1>2, <1>3

(* A link that is set is read again, and no other one changes.             *)
LEMMA LinkSet ==
  ASSUME Known, NEW m \in Memory, NEW o \in Object, NEW f \in Fields, NEW v \in Links
  PROVE  /\ SetLink(m, o, f, v) \in Memory
         /\ Link(SetLink(m, o, f, v), o, f) = v
<1>0. v \in 0..(IF Early THEN 255 ELSE 2000) /\ v \in Nat
  BY Ranges
<1>1. PICK a \in Nat : a = Place(o, f) /\ a \in Entries(Object)
  BY PlaceInEntries
<1>2. CASE Early
  <2>1. v % 256 = v /\ v % 256 \in 0..255
    BY <1>0, <1>2
  <2>2. SetLink(m, o, f, v) = [m EXCEPT ![a] = v % 256]
    BY <1>1, <1>2, Zenon DEF SetLink, Place
  <2>3. \A n : Link(n, o, f) = n[a]
    BY <1>1, <1>2, Zenon DEF Link, Place
  <2>4. PICK w \in 0..255 : w = v % 256 /\ w = v
    BY <2>1
  <2>5. [m EXCEPT ![a] = w] \in Memory /\ [m EXCEPT ![a] = w][a] = w
    BY <1>1 DEF Memory
  <2> QED BY <2>2, <2>3, <2>4, <2>5, Zenon
<1>3. CASE ~Early
  <2>1. v \div 256 \in 0..255 /\ v % 256 \in 0..255 /\ 256 * (v \div 256) + (v % 256) = v
    BY <1>0, <1>3
  <2>2. SetLink(m, o, f, v) = [m EXCEPT ![a] = v \div 256, ![a + 1] = v % 256]
    BY <1>1, <1>3, Zenon DEF SetLink, Place
  <2>3. \A n : Link(n, o, f) = 256 * n[a] + n[a + 1]
    BY <1>1, <1>3, Zenon DEF Link, Place
  <2>4. a + 1 \in Entries(Object) /\ a # a + 1
    BY <1>1, <1>3, PlaceInEntries
  <2>5. PICK hi, lo : hi = v \div 256 /\ lo = v % 256
    OBVIOUS
  <2>6. SetLink(m, o, f, v)[a] = hi /\ SetLink(m, o, f, v)[a + 1] = lo /\ SetLink(m, o, f, v) \in Memory
    <3>1. SetLink(m, o, f, v) = [m EXCEPT ![a] = hi, ![a + 1] = lo]
      BY <2>2, <2>5, Zenon
    <3>2. hi \in 0..255 /\ lo \in 0..255
      BY <2>1, <2>5
    <3>3. DOMAIN m = Entries(Object)
      BY DEF Memory
    <3>4. PICK b : b = a + 1
      OBVIOUS
    <3>5. [m EXCEPT ![a] = hi, ![b] = lo][a] = hi /\ [m EXCEPT ![a] = hi, ![b] = lo][b] = lo
      BY <1>1, <2>4, <3>3, <3>4
    <3>6. [m EXCEPT ![a] = hi, ![b] = lo] \in Memory
      BY <1>1, <2>4, <3>2, <3>4 DEF Memory
    <3> QED BY <3>1, <3>4, <3>5, <3>6, Zenon
  <2>7. Link(SetLink(m, o, f, v), o, f) = 256 * hi + lo
    BY <2>3, <2>6, Zenon
  <2>8. 256 * hi + lo = v
    BY <2>1, <2>5
  <2> QED BY <2>6, <2>7, <2>8, Zenon
<1> QED BY <1>2, <1>3

LEMMA OthersKept ==
  ASSUME Known, NEW m \in Memory, NEW o \in Object, NEW f \in Fields, NEW v,
         NEW p \in Object, NEW g \in Fields, o # p \/ f # g
  PROVE  Link(SetLink(m, o, f, v), p, g) = Link(m, p, g)
<1>1. PICK a \in Nat : a = Place(o, f)
  BY PlaceInEntries
<1>2. PICK b \in Nat : b = Place(p, g)
  BY PlaceInEntries
<1>3. a # b
  BY <1>1, <1>2, Apart
<1>4. CASE Early
  <2>1. SetLink(m, o, f, v) = [m EXCEPT ![a] = v % 256]
    BY <1>1, <1>4, Zenon DEF SetLink, Place
  <2>2. \A n : Link(n, p, g) = n[b]
    BY <1>2, <1>4, Zenon DEF Link, Place
  <2>3. SetLink(m, o, f, v)[b] = m[b]
    BY <2>1, <1>3, <1>2, <1>4, PlaceInEntries DEF Memory
  <2> QED BY <2>2, <2>3, Zenon
<1>5. CASE ~Early
  <2>1. SetLink(m, o, f, v) = [m EXCEPT ![a] = v \div 256, ![a + 1] = v % 256]
    BY <1>1, <1>5, Zenon DEF SetLink, Place
  <2>2. \A n : Link(n, p, g) = 256 * n[b] + n[b + 1]
    BY <1>2, <1>5, Zenon DEF Link, Place
  <2>3. a + 1 # b /\ a # b + 1 /\ a + 1 # b + 1
    BY <1>1, <1>2, <1>3, <1>5, Apart
  <2>4. b \in Entries(Object) /\ b + 1 \in Entries(Object)
    BY <1>2, <1>5, PlaceInEntries
  <2>5. SetLink(m, o, f, v)[b] = m[b] /\ SetLink(m, o, f, v)[b + 1] = m[b + 1]
    BY <2>1, <1>3, <2>3, <2>4 DEF Memory
  <2> QED BY <2>2, <2>5, Zenon
<1> QED BY <1>4, <1>5
-----------------------------------------------------------------------------
(* Attributes are bits: adding or taking the one of an attribute changes   *)
(* no other bit of the byte, and the byte stays one.                       *)
Powers == {1, 2, 4, 8, 16, 32, 64, 128}

LEMMA BitSet ==
  ASSUME NEW b \in 0..255, NEW x \in Powers, (b \div x) % 2 = 0
  PROVE  b + x \in 0..255 /\ ((b + x) \div x) % 2 = 1
BY DEF Powers

LEMMA BitCleared ==
  ASSUME NEW b \in 0..255, NEW x \in Powers, (b \div x) % 2 = 1
  PROVE  b - x \in 0..255 /\ ((b - x) \div x) % 2 = 0
BY DEF Powers

LEMMA OtherBits ==
  ASSUME NEW b \in 0..255, NEW x \in Powers, NEW y \in Powers, x # y, (b \div x) % 2 = 0
  PROVE  ((b + x) \div y) % 2 = (b \div y) % 2
<1>1. CASE x = 1
  BY <1>1, SMTT(60) DEF Powers
<1>2. CASE x = 2
  BY <1>2, SMTT(60) DEF Powers
<1>3. CASE x = 4
  BY <1>3, SMTT(60) DEF Powers
<1>4. CASE x = 8
  BY <1>4, SMTT(60) DEF Powers
<1>5. CASE x = 16
  BY <1>5, SMTT(60) DEF Powers
<1>6. CASE x = 32
  BY <1>6, SMTT(60) DEF Powers
<1>7. CASE x = 64
  BY <1>7, SMTT(60) DEF Powers
<1>8. CASE x = 128
  BY <1>8, SMTT(60) DEF Powers
<1> QED BY <1>1, <1>2, <1>3, <1>4, <1>5, <1>6, <1>7, <1>8 DEF Powers

LEMMA Bits ==
  ASSUME NEW a \in Nat
  PROVE  /\ Bit(a) \in Powers
         /\ \A b \in Nat : Bit(a) = Bit(b) => a % 8 = b % 8
<1>1. \A k \in 0..7 : <<128, 64, 32, 16, 8, 4, 2, 1>>[1 + k] \in Powers
  BY DEF Powers
<1>2. \A k, l \in 0..7 : <<128, 64, 32, 16, 8, 4, 2, 1>>[1 + k] =
                         <<128, 64, 32, 16, 8, 4, 2, 1>>[1 + l] => k = l
  OBVIOUS
<1>3. \A b \in Nat : b % 8 \in 0..7
  OBVIOUS
<1> QED BY <1>1, <1>2, <1>3, Zenon DEF Bit

LEMMA AttributePlace ==
  ASSUME Known, NEW o \in Object, NEW a \in Attribute
  PROVE  /\ a \in Nat /\ a \div 8 \in 0..(IF Early THEN 3 ELSE 5)
         /\ AttributeByte(o, a) \in Entries(Object) /\ AttributeByte(o, a) \in Nat
         /\ Early => AttributeByte(o, a) = 9 * o + 53 + a \div 8
         /\ ~Early => AttributeByte(o, a) = 14 * o + 112 + a \div 8
<1>1. a \in 0..(IF Early THEN 31 ELSE 47) /\ o \in Nat
  BY Ranges, Naturals
<1>2. a \in Nat /\ a \div 8 \in 0..(IF Early THEN 3 ELSE 5)
  BY <1>1
<1>3. /\ AttributeByte(o, a) \in object_address(o)..(object_address(o) + SIZE - 1)
      /\ AttributeByte(o, a) \in Nat
  BY <1>1, <1>2, Addresses DEF AttributeByte
<1>4. /\ Early => AttributeByte(o, a) = 9 * o + 53 + a \div 8
      /\ ~Early => AttributeByte(o, a) = 14 * o + 112 + a \div 8
  BY <1>1, <1>2, Addresses DEF AttributeByte
<1> QED BY <1>2, <1>3, <1>4, InEntries

LEMMA AttributeApart ==
  ASSUME Known, NEW o \in Object, NEW a \in Attribute, NEW p \in Object
  PROVE  /\ \A f \in Fields : /\ AttributeByte(o, a) # Place(p, f)
                              /\ ~Early => AttributeByte(o, a) # Place(p, f) + 1
         /\ \A b \in Attribute : AttributeByte(o, a) = AttributeByte(p, b)
                                   => o = p /\ a \div 8 = b \div 8
<1>0. o \in Nat /\ p \in Nat /\ a \in Nat /\ a \div 8 \in 0..(IF Early THEN 3 ELSE 5)
  BY Naturals, AttributePlace
<1>1. ASSUME NEW f \in Fields
      PROVE  AttributeByte(o, a) # Place(p, f) /\ (~Early => AttributeByte(o, a) # Place(p, f) + 1)
  BY <1>0, AttributePlace, Places
<1>2. ASSUME NEW b \in Attribute, AttributeByte(o, a) = AttributeByte(p, b)
      PROVE  o = p /\ a \div 8 = b \div 8
  <2>1. b \in Nat /\ b \div 8 \in 0..(IF Early THEN 3 ELSE 5)
    BY AttributePlace
  <2>2. PICK k \in Nat, l \in Nat : k = a \div 8 /\ l = b \div 8
    BY <1>0, <2>1
  <2>3. /\ Early => AttributeByte(o, a) = 9 * o + 53 + k
        /\ ~Early => AttributeByte(o, a) = 14 * o + 112 + k
        /\ Early => AttributeByte(p, b) = 9 * p + 53 + l
        /\ ~Early => AttributeByte(p, b) = 14 * p + 112 + l
    BY <2>2, AttributePlace
  <2> QED BY <1>0, <1>2, <2>1, <2>2, <2>3
<1> QED BY <1>1, <1>2

LEMMA AttributesKept ==
  ASSUME Known, NEW m \in Memory, NEW o \in Object, NEW f \in Fields, NEW v,
         NEW p \in Object, NEW a \in Attribute
  PROVE  IsSet(SetLink(m, o, f, v), p, a) <=> IsSet(m, p, a)
<1>1. PICK x \in Nat : x = Place(o, f)
  BY PlaceInEntries
<1>2. PICK b \in Entries(Object) : b = AttributeByte(p, a)
  BY AttributePlace
<1>3. b # x /\ (~Early => b # x + 1)
  BY <1>1, <1>2, AttributeApart
<1>4. SetLink(m, o, f, v)[b] = m[b]
  <2>1. CASE Early
    <3>1. SetLink(m, o, f, v) = [m EXCEPT ![x] = v % 256]
      BY <1>1, <2>1, Zenon DEF SetLink, Place
    <3> QED BY <3>1, <1>3 DEF Memory
  <2>2. CASE ~Early
    <3>1. SetLink(m, o, f, v) = [m EXCEPT ![x] = v \div 256, ![x + 1] = v % 256]
      BY <1>1, <2>2, Zenon DEF SetLink, Place
    <3> QED BY <3>1, <2>2, <1>3 DEF Memory
  <2> QED BY <2>1, <2>2
<1> QED BY <1>2, <1>4, Zenon DEF IsSet

LEMMA AttributeWritten ==
  ASSUME Known, memory \in Memory, NEW o \in Object, NEW a \in Attribute, NEW on \in BOOLEAN
  PROVE  /\ WithAttribute(o, a, on) \in Memory
         /\ \A p \in Object, f \in Fields :
              Link(WithAttribute(o, a, on), p, f) = Link(memory, p, f)
         /\ \A p \in Object, b \in Attribute :
              IsSet(WithAttribute(o, a, on), p, b)
                <=> IF p = o /\ b = a THEN on ELSE IsSet(memory, p, b)
<1> DEFINE W == WithAttribute(o, a, on)
<1>0. PICK m \in Memory : m = memory
  OBVIOUS
<1>1. PICK x \in Entries(Object) : x = AttributeByte(o, a)
  BY AttributePlace
<1>2. m[x] \in 0..255
  BY DEF Memory
<1>3. PICK q \in Powers : q = Bit(a)
  BY AttributePlace, Bits
<1>4. PICK new \in 0..255 :
        /\ W = [m EXCEPT ![x] = new]
        /\ ((new \div q) % 2 = 1) <=> on
        /\ \A r \in Powers : r # q => (new \div r) % 2 = (m[x] \div r) % 2
  <2>0. IsSet(memory, o, a) <=> (m[x] \div q) % 2 = 1
    BY <1>0, <1>1, <1>3, Zenon DEF IsSet
  <2>1. CASE on /\ ~IsSet(memory, o, a)
    <3>1. W = [m EXCEPT ![x] = m[x] + q]
      BY <2>1, <1>0, <1>1, <1>3 DEF WithAttribute
    <3>2. (m[x] \div q) % 2 = 0
      BY <2>0, <2>1, <1>2 DEF Powers
    <3>3. m[x] + q \in 0..255 /\ ((m[x] + q) \div q) % 2 = 1
      BY <3>2, <1>2, BitSet
    <3>4. \A r \in Powers : r # q => ((m[x] + q) \div r) % 2 = (m[x] \div r) % 2
      BY <3>2, <1>2, OtherBits
    <3> QED BY <2>1, <3>1, <3>3, <3>4, Zenon
  <2>2. CASE ~on /\ IsSet(memory, o, a)
    <3>1. W = [m EXCEPT ![x] = m[x] - q]
      BY <2>2, <1>0, <1>1, <1>3 DEF WithAttribute
    <3>2. (m[x] \div q) % 2 = 1
      BY <2>0, <2>2
    <3>3. m[x] - q \in 0..255 /\ ((m[x] - q) \div q) % 2 = 0 /\ m[x] = (m[x] - q) + q
      <4>1. q \in Nat
        BY DEF Powers
      <4>2. PICK c \in 0..255 : c = m[x]
        BY <1>2
      <4>3. c - q \in 0..255 /\ ((c - q) \div q) % 2 = 0
        BY <3>2, <4>2, BitCleared
      <4>4. c = (c - q) + q
        BY <4>1
      <4> QED BY <4>2, <4>3, <4>4, Zenon
    <3>4. PICK d \in 0..255 : d = m[x] - q /\ (d \div q) % 2 = 0 /\ m[x] = d + q
      BY <3>3, Zenon
    <3>5. \A r \in Powers : r # q => ((d + q) \div r) % 2 = (d \div r) % 2
      BY <3>4, OtherBits
    <3>6. \A r \in Powers : r # q => (d \div r) % 2 = (m[x] \div r) % 2
      BY <3>4, <3>5, Zenon
    <3>7. ~((d \div q) % 2 = 1)
      BY <3>4
    <3> QED BY <2>2, <3>1, <3>4, <3>6, <3>7, Zenon
  <2>3. CASE ~(on /\ ~IsSet(memory, o, a)) /\ ~(~on /\ IsSet(memory, o, a))
    <3>1. W = m
      BY <2>3, <1>0 DEF WithAttribute
    <3>2. W = [m EXCEPT ![x] = m[x]]
      BY <3>1 DEF Memory
    <3> QED BY <2>0, <2>3, <3>2, <1>2, Zenon
  <2> QED BY <2>1, <2>2, <2>3
<1> HIDE DEF W
<1>5. W \in Memory
  BY <1>4 DEF Memory
<1>6. \A y \in Entries(Object) : W[y] = IF y = x THEN new ELSE m[y]
  BY <1>4 DEF Memory
<1>7. ASSUME NEW p \in Object, NEW f \in Fields
      PROVE  Link(W, p, f) = Link(memory, p, f)
  <2>1. PICK b \in Nat : b = Place(p, f)
    BY PlaceInEntries
  <2>2. b # x /\ (~Early => b + 1 # x)
    BY <1>1, <2>1, AttributeApart
  <2>3. b \in Entries(Object) /\ (~Early => b + 1 \in Entries(Object))
    BY <2>1, PlaceInEntries
  <2>4. W[b] = m[b] /\ (~Early => W[b + 1] = m[b + 1])
    BY <1>6, <2>2, <2>3, Zenon
  <2> QED BY <1>0, <2>1, <2>4, Zenon DEF Link, Place
<1>8. ASSUME NEW p \in Object, NEW b \in Attribute
      PROVE  IsSet(W, p, b) <=> IF p = o /\ b = a THEN on ELSE IsSet(memory, p, b)
  <2>1. PICK y \in Entries(Object) : y = AttributeByte(p, b)
    BY AttributePlace
  <2>2. PICK r \in Powers : r = Bit(b)
    BY AttributePlace, Bits
  <2>3. IsSet(W, p, b) <=> (W[y] \div r) % 2 = 1
    BY <2>1, <2>2, Zenon DEF IsSet
  <2>4. IsSet(memory, p, b) <=> (m[y] \div r) % 2 = 1
    BY <1>0, <2>1, <2>2, Zenon DEF IsSet
  <2>5. CASE p = o /\ b = a
    <3>1. y = x /\ r = q
      BY <2>5, <1>1, <1>3, <2>1, <2>2, Zenon
    <3> QED BY <2>5, <3>1, <2>3, <1>4, <1>6, Zenon
  <2>6. CASE ~(p = o /\ b = a) /\ y = x
    <3>1. p = o /\ b \div 8 = a \div 8 /\ b # a
      <4>1. AttributeByte(p, b) = AttributeByte(o, a)
        BY <2>6, <1>1, <2>1, Zenon
      <4>2. p = o /\ b \div 8 = a \div 8
        BY <4>1, AttributeApart
      <4> QED BY <2>6, <4>2, Zenon
    <3>2. a \in Nat /\ b \in Nat
      BY AttributePlace
    <3>3. a % 8 # b % 8
      BY <3>1, <3>2
    <3>4. r # q
      BY <3>2, <3>3, <1>3, <2>2, Bits
    <3> QED BY <2>6, <3>4, <2>3, <2>4, <1>4, <1>6, Zenon
  <2>7. CASE ~(p = o /\ b = a) /\ y # x
    BY <2>7, <2>3, <2>4, <1>6, Zenon
  <2> QED BY <2>5, <2>6, <2>7
<1> QED BY <1>5, <1>7, <1>8 DEF W
-----------------------------------------------------------------------------
(* What it means that parents p, siblings s and first children c form a    *)
(* tree with the lists L.                                                  *)
Parents(m)  == [o \in Object |-> Link(m, o, "parent")]
Siblings(m) == [o \in Object |-> Link(m, o, "sibling")]
Firsts(m)   == [o \in Object |-> Link(m, o, "child")]

At(s, k) == IF k \in 1..Len(s) THEN s[k] ELSE 0

Typed(p, s, c, L) ==
  /\ p \in [Object -> Links] /\ s \in [Object -> Links] /\ c \in [Object -> Links]
  /\ L \in [Object -> Seq(Object)]
Once(L) == \A o \in Object : \A j, k \in 1..Len(L[o]) : L[o][j] = L[o][k] => j = k
Chained(p, s, c, L) ==
  \A o \in Object :
    /\ c[o] = At(L[o], 1)
    /\ \A k \in 1..Len(L[o]) : p[L[o][k]] = o /\ s[L[o][k]] = At(L[o], k + 1)
Everywhere(p, s, L) ==
  \A o \in Object :
    /\ p[o] = 0 => s[o] = 0
    /\ p[o] # 0 => \E k \in 1..Len(L[p[o]]) : L[p[o]][k] = o

Forest(p, s, c, L) ==
  Typed(p, s, c, L) /\ Once(L) /\ Chained(p, s, c, L) /\ Everywhere(p, s, L)

LEMMA Maps ==
  ASSUME Known, NEW m \in Memory, NEW o \in Object, NEW v \in Links
  PROVE  /\ /\ Parents(SetLink(m, o, "parent", v)) = [Parents(m) EXCEPT ![o] = v]
            /\ Siblings(SetLink(m, o, "parent", v)) = Siblings(m)
            /\ Firsts(SetLink(m, o, "parent", v)) = Firsts(m)
         /\ /\ Parents(SetLink(m, o, "sibling", v)) = Parents(m)
            /\ Siblings(SetLink(m, o, "sibling", v)) = [Siblings(m) EXCEPT ![o] = v]
            /\ Firsts(SetLink(m, o, "sibling", v)) = Firsts(m)
         /\ /\ Parents(SetLink(m, o, "child", v)) = Parents(m)
            /\ Siblings(SetLink(m, o, "child", v)) = Siblings(m)
            /\ Firsts(SetLink(m, o, "child", v)) = [Firsts(m) EXCEPT ![o] = v]
<1>1. "parent" \in Fields /\ "sibling" \in Fields /\ "child" \in Fields
  BY DEF Fields
<1>2. \A f \in Fields : Link(SetLink(m, o, f, v), o, f) = v
  BY LinkSet
<1>3. \A f, g \in Fields, p \in Object :
        o # p \/ f # g => Link(SetLink(m, o, f, v), p, g) = Link(m, p, g)
  BY OthersKept
<1>4. /\ Parents(SetLink(m, o, "parent", v)) = [Parents(m) EXCEPT ![o] = v]
      /\ Siblings(SetLink(m, o, "parent", v)) = Siblings(m)
      /\ Firsts(SetLink(m, o, "parent", v)) = Firsts(m)
  BY <1>1, <1>2, <1>3 DEF Parents, Siblings, Firsts
<1>5. /\ Parents(SetLink(m, o, "sibling", v)) = Parents(m)
      /\ Siblings(SetLink(m, o, "sibling", v)) = [Siblings(m) EXCEPT ![o] = v]
      /\ Firsts(SetLink(m, o, "sibling", v)) = Firsts(m)
  BY <1>1, <1>2, <1>3 DEF Parents, Siblings, Firsts
<1>6. /\ Parents(SetLink(m, o, "child", v)) = Parents(m)
      /\ Siblings(SetLink(m, o, "child", v)) = Siblings(m)
      /\ Firsts(SetLink(m, o, "child", v)) = [Firsts(m) EXCEPT ![o] = v]
  BY <1>1, <1>2, <1>3 DEF Parents, Siblings, Firsts
<1> QED BY <1>4, <1>5, <1>6

(* A piece of a sequence, and a sequence without one of its elements.      *)
LEMMA PartFacts ==
  ASSUME NEW S, NEW t \in Seq(S), NEW a \in Nat \ {0}, NEW z \in 0..Len(t), a <= z + 1
  PROVE  /\ SubSeq(t, a, z) \in Seq(S)
         /\ Len(SubSeq(t, a, z)) = (z + 1) - a
         /\ \A k \in 1..((z + 1) - a) : SubSeq(t, a, z)[k] = t[(a + k) - 1]
<1>1. a \in Int /\ z \in Int /\ Len(t) \in Nat
  BY LenProperties
<1>2. \A k \in a..z : t[k] \in S
  BY <1>1, ElementOfSeq
<1>3. /\ SubSeq(t, a, z) \in Seq(S)
      /\ Len(SubSeq(t, a, z)) = IF a <= z THEN z - a + 1 ELSE 0
      /\ \A k \in 1..(z - a + 1) : SubSeq(t, a, z)[k] = t[a + k - 1]
  BY <1>1, <1>2, SubSeqProperties
<1> QED BY <1>1, <1>3

LEMMA RemoveAtFacts ==
  ASSUME NEW S, NEW t \in Seq(S), NEW n \in 1..Len(t)
  PROVE  /\ RemoveAt(t, n) \in Seq(S)
         /\ Len(RemoveAt(t, n)) = Len(t) - 1
         /\ \A k \in 1..(Len(t) - 1) : RemoveAt(t, n)[k] = IF k < n THEN t[k] ELSE t[k + 1]
<1>1. PICK l \in Nat : l = Len(t)
  BY LenProperties
<1>2. n \in 1..l
  BY <1>1
<1>3. PICK x : x = SubSeq(t, 1, n - 1)
  OBVIOUS
<1>4. x \in Seq(S) /\ Len(x) = n - 1 /\ \A k \in 1..(n - 1) : x[k] = t[k]
  <2>1. PICK z \in 0..l : z = n - 1
    BY <1>2
  <2>2. x \in Seq(S) /\ Len(x) = (z + 1) - 1 /\ \A k \in 1..((z + 1) - 1) : x[k] = t[(1 + k) - 1]
    BY <1>1, <1>3, <2>1, PartFacts
  <2> QED BY <2>1, <2>2
<1>5. PICK y : y = SubSeq(t, n + 1, l)
  OBVIOUS
<1>6. y \in Seq(S) /\ Len(y) = l - n /\ \A k \in 1..(l - n) : y[k] = t[n + k]
  <2>1. PICK a \in Nat \ {0} : a = n + 1
    BY <1>2
  <2>2. y \in Seq(S) /\ Len(y) = (l + 1) - a /\ \A k \in 1..((l + 1) - a) : y[k] = t[(a + k) - 1]
    BY <1>1, <1>2, <1>5, <2>1, PartFacts
  <2>3. (l + 1) - a = l - n
    BY <1>2, <2>1
  <2>4. \A k \in 1..(l - n) : (a + k) - 1 = n + k
    BY <1>2, <2>1
  <2> QED BY <2>2, <2>3, <2>4
<1>7. PICK r : r = x \o y
  OBVIOUS
<1>8. /\ r \in Seq(S) /\ Len(r) = Len(x) + Len(y)
      /\ \A k \in 1..(Len(x) + Len(y)) : r[k] = IF k <= Len(x) THEN x[k] ELSE y[k - Len(x)]
  BY <1>4, <1>6, <1>7, ConcatProperties, Zenon
<1>9. /\ r \in Seq(S) /\ Len(r) = l - 1
      /\ \A k \in 1..(l - 1) : r[k] = IF k < n THEN t[k] ELSE t[k + 1]
  BY <1>2, <1>4, <1>6, <1>8
<1> QED BY <1>1, <1>3, <1>5, <1>7, <1>9, Zenon DEF RemoveAt

LEMMA PutFirst ==
  ASSUME NEW S, NEW t \in Seq(S), NEW e \in S
  PROVE  /\ <<e>> \o t \in Seq(S)
         /\ Len(<<e>> \o t) = Len(t) + 1
         /\ (<<e>> \o t)[1] = e
         /\ \A k \in 1..Len(t) : (<<e>> \o t)[k + 1] = t[k]
<1>1. <<e>> \in Seq(S) /\ Len(<<e>>) = 1 /\ <<e>>[1] = e /\ Len(t) \in Nat
  BY LenProperties
<1>2. PICK r : r = <<e>> \o t
  OBVIOUS
<1>3. /\ r \in Seq(S) /\ Len(r) = Len(<<e>>) + Len(t)
      /\ \A k \in 1..(Len(<<e>>) + Len(t)) :
           r[k] = IF k <= Len(<<e>>) THEN <<e>>[k] ELSE t[k - Len(<<e>>)]
  BY <1>1, <1>2, ConcatProperties, Zenon
<1>4. Len(r) = Len(t) + 1 /\ r[1] = e /\ \A k \in 1..Len(t) : r[k + 1] = t[k]
  BY <1>1, <1>3
<1> QED BY <1>2, <1>3, <1>4, Zenon

LEMMA ListFacts ==
  ASSUME Known, NEW L \in [Object -> Seq(Object)], NEW d \in Object
  PROVE  L[d] \in Seq(Object) /\ Len(L[d]) \in Nat /\ \A k \in 1..Len(L[d]) : L[d][k] \in Object
BY LenProperties, ElementOfSeq

(* An object is taken out of a list, ...                                   *)
LEMMA Removing ==
  ASSUME Known, NEW p, NEW s, NEW c, NEW L, Forest(p, s, c, L),
         NEW d \in Object, NEW k \in 1..Len(L[d]), NEW o, o = L[d][k],
         NEW s2, s2 = IF k = 1 THEN [s EXCEPT ![o] = 0]
                      ELSE [[s EXCEPT ![o] = 0] EXCEPT ![L[d][k - 1]] = s[o]],
         NEW c2, c2 = IF k = 1 THEN [c EXCEPT ![d] = s[o]] ELSE c
  PROVE  Forest([p EXCEPT ![o] = 0], s2, c2, [L EXCEPT ![d] = RemoveAt(L[d], k)])
<1>1. PICK l \in Seq(Object) : l = L[d]
  BY ListFacts DEF Forest, Typed
<1>2. PICK n \in Nat : n = Len(l)
  BY LenProperties
<1>3. PICK r \in Seq(Object) :
        /\ r = RemoveAt(l, k) /\ Len(r) = n - 1
        /\ \A i \in 1..(n - 1) : r[i] = IF i < k THEN l[i] ELSE l[i + 1]
  BY <1>1, <1>2, RemoveAtFacts
<1>4. k \in 1..n /\ o = l[k] /\ o \in Object /\ (\A i \in 1..n : l[i] \in Object)
  BY <1>1, <1>2, ElementOfSeq
<1>5. \A i, j \in 1..n : l[i] = l[j] => i = j
  <2>1. Once(L)
    BY Zenon DEF Forest
  <2>2. \A i, j \in 1..Len(L[d]) : L[d][i] = L[d][j] => i = j
    BY <2>1, Zenon DEF Once
  <2> QED BY <1>1, <1>2, <2>2
<1>6. /\ c[d] = At(l, 1)
      /\ \A i \in 1..n : p[l[i]] = d /\ s[l[i]] = At(l, i + 1)
  BY <1>1, <1>2, Zenon DEF Forest, Chained
<1>7. /\ p \in [Object -> Links] /\ s \in [Object -> Links] /\ c \in [Object -> Links]
      /\ L \in [Object -> Seq(Object)]
  BY Zenon DEF Forest, Typed
<1>8. d # 0 /\ 0 \in Links
  BY Naturals DEF Links
<1>9. PICK p2 : p2 = [p EXCEPT ![o] = 0]
  OBVIOUS
<1>10. PICK L2 : L2 = [L EXCEPT ![d] = r]
  OBVIOUS
<1>11. /\ p2 \in [Object -> Links] /\ s2 \in [Object -> Links] /\ c2 \in [Object -> Links]
       /\ L2 \in [Object -> Seq(Object)]
  <2>1. p2 \in [Object -> Links] /\ L2 \in [Object -> Seq(Object)]
    BY <1>7, <1>8, <1>9, <1>10
  <2>2. s[o] \in Links
    BY <1>4, <1>7
  <2>3. c2 \in [Object -> Links]
    BY <1>7, <2>2
  <2>4. s2 \in [Object -> Links]
    BY <1>7, <1>8, <2>2
  <2> QED BY <2>1, <2>3, <2>4
<1>12. /\ \A x \in Object : p2[x] = IF x = o THEN 0 ELSE p[x]
       /\ L2[d] = r /\ \A e \in Object : e # d => L2[e] = L[e]
       /\ \A e \in Object : e # d => c2[e] = c[e]
       /\ c2[d] = IF k = 1 THEN s[o] ELSE c[d]
  BY <1>7, <1>9, <1>10
<1>13. \A x \in Object : s2[x] = IF k # 1 /\ x = l[k - 1] THEN s[o] ELSE IF x = o THEN 0 ELSE s[x]
  <2>1. CASE k = 1
    BY <2>1, <1>7
  <2>2. CASE k # 1
    <3>1. l[k - 1] \in Object /\ l[k - 1] = L[d][k - 1]
      BY <2>2, <1>1, <1>2, <1>4
    <3>2. PICK y \in Object : y = l[k - 1]
      BY <3>1
    <3>3. s2 = [[s EXCEPT ![o] = 0] EXCEPT ![y] = s[o]]
      BY <2>2, <3>1, <3>2
    <3>4. \A x \in Object : s2[x] = IF x = y THEN s[o] ELSE IF x = o THEN 0 ELSE s[x]
      BY <3>3, <1>7
    <3> QED BY <2>2, <3>2, <3>4
  <2> QED BY <2>1, <2>2
<1>14. Typed(p2, s2, c2, L2)
  BY <1>11, Zenon DEF Typed
<1>15. Once(L2)
  <2> SUFFICES ASSUME NEW e \in Object, NEW i \in 1..Len(L2[e]), NEW j \in 1..Len(L2[e]),
                      L2[e][i] = L2[e][j]
               PROVE  i = j
    BY DEF Once
  <2>1. CASE e # d
    <3>1. L2[e] = L[e]
      BY <2>1, <1>12, Zenon
    <3>2. \A a, b \in 1..Len(L[e]) : L[e][a] = L[e][b] => a = b
      BY Zenon DEF Forest, Once
    <3>3. i \in 1..Len(L[e]) /\ j \in 1..Len(L[e]) /\ L[e][i] = L[e][j]
      BY <3>1, Zenon
    <3> QED BY <3>2, <3>3, Zenon
  <2>2. CASE e = d
    <3>1. i \in 1..(n - 1) /\ j \in 1..(n - 1) /\ r[i] = r[j]
      BY <2>2, <1>3, <1>12
    <3>2. PICK a \in 1..n : a = IF i < k THEN i ELSE i + 1
      BY <3>1, <1>2, <1>4
    <3>3. PICK b \in 1..n : b = IF j < k THEN j ELSE j + 1
      BY <3>1, <1>2, <1>4
    <3>4. r[i] = l[a] /\ r[j] = l[b]
      BY <3>1, <3>2, <3>3, <1>3
    <3>5. a = b
      BY <3>1, <3>4, <1>5
    <3> QED BY <3>1, <3>2, <3>3, <3>5, <1>2, <1>4
  <2> QED BY <2>1, <2>2
<1>16. Chained(p2, s2, c2, L2)
  <2> SUFFICES ASSUME NEW e \in Object
               PROVE  /\ c2[e] = At(L2[e], 1)
                      /\ \A i \in 1..Len(L2[e]) : /\ p2[L2[e][i]] = e
                                                  /\ s2[L2[e][i]] = At(L2[e], i + 1)
    BY DEF Chained
  <2>1. CASE e # d
    <3>1. L2[e] = L[e] /\ c2[e] = c[e]
      BY <2>1, <1>12
    <3>2. c[e] = At(L[e], 1) /\ \A i \in 1..Len(L[e]) : p[L[e][i]] = e /\ s[L[e][i]] = At(L[e], i + 1)
      BY Zenon DEF Forest, Chained
    <3>3. ASSUME NEW i \in 1..Len(L[e])
          PROVE  p2[L[e][i]] = e /\ s2[L[e][i]] = At(L[e], i + 1)
      <4>1. PICK x \in Object : x = L[e][i]
        BY <1>7, ListFacts
      <4>2. p[x] = e /\ s[x] = At(L[e], i + 1)
        BY <3>2, <4>1, Zenon
      <4>3. x # o /\ (k # 1 => x # l[k - 1])
        BY <4>2, <2>1, <1>2, <1>4, <1>6
      <4>4. p2[x] = p[x] /\ s2[x] = s[x]
        BY <4>3, <1>12, <1>13
      <4> QED BY <4>1, <4>2, <4>4, Zenon
    <3> QED BY <3>1, <3>2, <3>3, Zenon
  <2>2. CASE e = d
    <3>1. L2[e] = r /\ Len(r) = n - 1
      BY <2>2, <1>3, <1>12, Zenon
    <3>2. c2[d] = At(r, 1)
      <4>1. CASE k = 1
        <5>1. c2[d] = At(l, 2)
          BY <4>1, <1>2, <1>4, <1>6, <1>12
        <5>2. CASE n = 1
          <6>1. 2 \notin 1..Len(l) /\ 1 \notin 1..Len(r)
            <7>1. Len(l) = 1 /\ Len(r) = 0
              BY <5>2, <1>2, <1>3
            <7> QED BY <7>1
          <6>2. At(l, 2) = 0 /\ At(r, 1) = 0
            BY <6>1, Zenon DEF At
          <6> QED BY <5>1, <6>2, Zenon
        <5>3. CASE n # 1
          <6>1. At(l, 2) = l[2] /\ At(r, 1) = r[1]
            BY <5>3, <1>2, <1>3, <1>4 DEF At
          <6>2. r[1] = l[2]
            BY <4>1, <5>3, <1>2, <1>3, <1>4
          <6> QED BY <5>1, <6>1, <6>2, Zenon
        <5> QED BY <5>2, <5>3
      <4>2. CASE k # 1
        <5>1. 1 \in 1..(n - 1) /\ 1 < k
          BY <4>2, <1>2, <1>4
        <5>2. At(l, 1) = l[1] /\ At(r, 1) = r[1]
          BY <5>1, <1>2, <1>3 DEF At
        <5>3. r[1] = l[1]
          BY <5>1, <1>3
        <5>4. c2[d] = c[d]
          BY <4>2, <1>12
        <5> QED BY <5>2, <5>3, <5>4, <1>6, Zenon
      <4> QED BY <4>1, <4>2
    <3>3. ASSUME NEW i \in 1..(n - 1)
          PROVE  p2[r[i]] = d /\ s2[r[i]] = At(r, i + 1)
      <4>1. PICK j \in 1..n : r[i] = l[j] /\ j = (IF i < k THEN i ELSE i + 1) /\ j # k
        BY <1>2, <1>3, <1>4
      <4>2. PICK x \in Object : x = r[i] /\ x = l[j] /\ x # o
        BY <4>1, <1>4, <1>5
      <4>3. p2[x] = d
        BY <4>2, <1>6, <1>12
      <4>4. s[x] = At(l, j + 1)
        BY <4>2, <1>6
      <4>5. CASE k # 1 /\ j = k - 1
        <5>1. s2[x] = s[o]
          BY <4>2, <4>5, <1>13
        <5>2. s[o] = At(l, k + 1)
          BY <1>4, <1>6
        <5>3. At(l, k + 1) = At(r, i + 1)
          BY <4>1, <4>5, <1>2, <1>3, <1>4, SMTT(60) DEF At
        <5> QED BY <4>2, <4>3, <5>1, <5>2, <5>3, Zenon
      <4>6. CASE ~(k # 1 /\ j = k - 1)
        <5>1. k # 1 => x # l[k - 1]
          <6>1. k # 1 => k - 1 \in 1..n
            BY <1>2, <1>4
          <6> QED BY <6>1, <4>2, <4>6, <1>5
        <5>2. s2[x] = s[x]
          BY <4>2, <5>1, <1>13
        <5>3. At(l, j + 1) = At(r, i + 1)
          BY <4>1, <4>6, <1>2, <1>3, <1>4, SMTT(60) DEF At
        <5> QED BY <4>2, <4>3, <4>4, <5>2, <5>3, Zenon
      <4> QED BY <4>5, <4>6
    <3> QED BY <2>2, <3>1, <3>2, <3>3
  <2> QED BY <2>1, <2>2
<1>17. Everywhere(p2, s2, L2)
  <2> SUFFICES ASSUME NEW x \in Object
               PROVE  /\ p2[x] = 0 => s2[x] = 0
                      /\ p2[x] # 0 => \E i \in 1..Len(L2[p2[x]]) : L2[p2[x]][i] = x
    BY DEF Everywhere
  <2>0. /\ p[x] = 0 => s[x] = 0
        /\ p[x] # 0 => \E i \in 1..Len(L[p[x]]) : L[p[x]][i] = x
    BY Zenon DEF Forest, Everywhere
  <2>1. k # 1 => k - 1 \in 1..n /\ l[k - 1] # o /\ p[l[k - 1]] = d
    <3>1. k # 1 => k - 1 \in 1..n /\ k - 1 # k
      BY <1>2, <1>4
    <3> QED BY <3>1, <1>4, <1>5, <1>6
  <2>2. CASE x = o
    BY <2>1, <2>2, <1>12, <1>13
  <2>3. CASE x # o
    <3>1. p2[x] = p[x]
      BY <2>3, <1>12
    <3>2. p[x] = 0 => s2[x] = 0
      BY <2>0, <2>1, <2>3, <1>8, <1>13
    <3>3. ASSUME p[x] # 0 PROVE \E i \in 1..Len(L2[p[x]]) : L2[p[x]][i] = x
      <4>1. PICK e \in Object : e = p[x]
        BY <3>3, <1>7 DEF Links
      <4>2. PICK j \in 1..Len(L[e]) : L[e][j] = x
        BY <2>0, <3>3, <4>1
      <4>3. CASE e # d
        BY <4>1, <4>2, <4>3, <1>12
      <4>4. CASE e = d
        <5>1. j \in 1..n /\ l[j] = x /\ j # k
          BY <4>2, <4>4, <2>3, <1>1, <1>2, <1>4
        <5>2. PICK i \in 1..(n - 1) : i = IF j < k THEN j ELSE j - 1
          BY <5>1, <1>2, <1>4
        <5>3. r[i] = IF i < k THEN l[i] ELSE l[i + 1]
          BY <5>2, <1>3, Zenon
        <5>4. IF i < k THEN i = j ELSE i + 1 = j
          BY <5>1, <5>2, <1>2, <1>4
        <5>5. r[i] = x
          BY <5>1, <5>3, <5>4
        <5> QED BY <4>1, <4>4, <5>5, <1>3, <1>12
      <4> QED BY <4>3, <4>4
    <3> QED BY <3>1, <3>2, <3>3, Zenon
  <2> QED BY <2>2, <2>3
<1>18. Forest(p2, s2, c2, L2)
  BY <1>14, <1>15, <1>16, <1>17, Zenon DEF Forest
<1> QED BY <1>18, <1>1, <1>3, <1>9, <1>10, Zenon

(* ... and put first into one.                                             *)
LEMMA Inserting ==
  ASSUME Known, NEW p, NEW s, NEW c, NEW L, Forest(p, s, c, L),
         NEW d \in Object, NEW o \in Object, p[o] = 0
  PROVE  Forest([p EXCEPT ![o] = d], [s EXCEPT ![o] = c[d]], [c EXCEPT ![d] = o],
                [L EXCEPT ![d] = <<o>> \o L[d]])
<1>1. PICK l \in Seq(Object) : l = L[d]
  BY ListFacts DEF Forest, Typed
<1>2. PICK n \in Nat : n = Len(l)
  BY LenProperties
<1>3. PICK r \in Seq(Object) :
        /\ r = <<o>> \o l /\ Len(r) = n + 1 /\ r[1] = o
        /\ \A i \in 1..n : r[i + 1] = l[i]
  <2>1. PICK r : r = <<o>> \o l
    OBVIOUS
  <2>2. /\ <<o>> \o l \in Seq(Object) /\ Len(<<o>> \o l) = Len(l) + 1
        /\ (<<o>> \o l)[1] = o
        /\ \A i \in 1..Len(l) : (<<o>> \o l)[i + 1] = l[i]
    BY PutFirst
  <2> QED BY <1>2, <2>1, <2>2
<1>4. \A i \in 1..n : l[i] \in Object
  BY <1>1, <1>2, ElementOfSeq
<1>5. \A i, j \in 1..n : l[i] = l[j] => i = j
  <2>1. Once(L)
    BY Zenon DEF Forest
  <2>2. \A i, j \in 1..Len(L[d]) : L[d][i] = L[d][j] => i = j
    BY <2>1, Zenon DEF Once
  <2> QED BY <1>1, <1>2, <2>2
<1>6. /\ c[d] = At(l, 1)
      /\ \A i \in 1..n : p[l[i]] = d /\ s[l[i]] = At(l, i + 1)
  BY <1>1, <1>2, Zenon DEF Forest, Chained
<1>7. /\ p \in [Object -> Links] /\ s \in [Object -> Links] /\ c \in [Object -> Links]
      /\ L \in [Object -> Seq(Object)]
  BY Zenon DEF Forest, Typed
<1>8. d # 0 /\ o # 0 /\ d \in Links /\ o \in Links /\ 0 \notin Object
  BY Naturals DEF Links
<1>9. PICK p2 : p2 = [p EXCEPT ![o] = d]
  OBVIOUS
<1>10. PICK s2 : s2 = [s EXCEPT ![o] = c[d]]
  OBVIOUS
<1>11. PICK c2 : c2 = [c EXCEPT ![d] = o]
  OBVIOUS
<1>12. PICK L2 : L2 = [L EXCEPT ![d] = r]
  OBVIOUS
<1>13. Typed(p2, s2, c2, L2)
  <2>1. c[d] \in Links
    BY <1>7
  <2> QED BY <2>1, <1>7, <1>8, <1>9, <1>10, <1>11, <1>12 DEF Typed
<1>14. /\ \A x \in Object : p2[x] = IF x = o THEN d ELSE p[x]
       /\ \A x \in Object : s2[x] = IF x = o THEN c[d] ELSE s[x]
       /\ \A e \in Object : c2[e] = IF e = d THEN o ELSE c[e]
       /\ L2[d] = r /\ \A e \in Object : e # d => L2[e] = L[e]
  BY <1>7, <1>9, <1>10, <1>11, <1>12
<1>15. \A i \in 1..n : l[i] # o
  BY <1>6, <1>8
<1>16. Once(L2)
  <2> SUFFICES ASSUME NEW e \in Object, NEW i \in 1..Len(L2[e]), NEW j \in 1..Len(L2[e]),
                      L2[e][i] = L2[e][j]
               PROVE  i = j
    BY DEF Once
  <2>1. CASE e # d
    <3>1. L2[e] = L[e]
      BY <2>1, <1>14, Zenon
    <3>2. \A a, b \in 1..Len(L[e]) : L[e][a] = L[e][b] => a = b
      BY Zenon DEF Forest, Once
    <3>3. i \in 1..Len(L[e]) /\ j \in 1..Len(L[e]) /\ L[e][i] = L[e][j]
      BY <3>1, Zenon
    <3> QED BY <3>2, <3>3, Zenon
  <2>2. CASE e = d
    <3>1. i \in 1..(n + 1) /\ j \in 1..(n + 1) /\ r[i] = r[j]
      BY <2>2, <1>3, <1>14
    <3>2. \A a \in 1..(n + 1) : a # 1 => \E b \in 1..n : a = b + 1 /\ r[a] = l[b] /\ r[a] # o
      <4> SUFFICES ASSUME NEW a \in 1..(n + 1), a # 1
                   PROVE  \E b \in 1..n : a = b + 1 /\ r[a] = l[b] /\ r[a] # o
        OBVIOUS
      <4>1. PICK b \in 1..n : a = b + 1
        <5>1. a - 1 \in 1..n /\ a = (a - 1) + 1
          BY <1>2
        <5> QED BY <5>1
      <4>2. r[a] = l[b] /\ l[b] # o
        BY <4>1, <1>3, <1>15
      <4> QED BY <4>1, <4>2
    <3>3. CASE i = 1 \/ j = 1
      BY <3>1, <3>2, <3>3, <1>3
    <3>4. CASE i # 1 /\ j # 1
      <4>1. PICK a \in 1..n : i = a + 1 /\ r[i] = l[a]
        BY <3>1, <3>2, <3>4
      <4>2. PICK b \in 1..n : j = b + 1 /\ r[j] = l[b]
        BY <3>1, <3>2, <3>4
      <4>3. a = b
        BY <3>1, <4>1, <4>2, <1>5
      <4> QED BY <4>1, <4>2, <4>3
    <3> QED BY <3>3, <3>4
  <2> QED BY <2>1, <2>2
<1>17. Chained(p2, s2, c2, L2)
  <2> SUFFICES ASSUME NEW e \in Object
               PROVE  /\ c2[e] = At(L2[e], 1)
                      /\ \A i \in 1..Len(L2[e]) : /\ p2[L2[e][i]] = e
                                                  /\ s2[L2[e][i]] = At(L2[e], i + 1)
    BY DEF Chained
  <2>1. CASE e # d
    <3>1. L2[e] = L[e] /\ c2[e] = c[e]
      BY <2>1, <1>14
    <3>2. c[e] = At(L[e], 1) /\ \A i \in 1..Len(L[e]) : p[L[e][i]] = e /\ s[L[e][i]] = At(L[e], i + 1)
      BY Zenon DEF Forest, Chained
    <3>3. ASSUME NEW i \in 1..Len(L[e])
          PROVE  p2[L[e][i]] = e /\ s2[L[e][i]] = At(L[e], i + 1)
      <4>1. PICK x \in Object : x = L[e][i]
        BY <1>7, ListFacts
      <4>2. p[x] = e /\ s[x] = At(L[e], i + 1)
        BY <3>2, <4>1, Zenon
      <4>3. x # o
        BY <4>2, <1>8
      <4>4. p2[x] = p[x] /\ s2[x] = s[x]
        BY <4>3, <1>14
      <4> QED BY <4>1, <4>2, <4>4, Zenon
    <3> QED BY <3>1, <3>2, <3>3, Zenon
  <2>2. CASE e = d
    <3>1. L2[e] = r /\ Len(r) = n + 1
      BY <2>2, <1>3, <1>14, Zenon
    <3>2. c2[d] = At(r, 1)
      <4>1. 1 \in 1..Len(r)
        BY <1>2, <1>3
      <4>2. At(r, 1) = o
        BY <4>1, <1>3, Zenon DEF At
      <4> QED BY <4>2, <1>14
    <3>3. \A i \in 1..n : At(r, i + 1) = l[i]
      <4> SUFFICES ASSUME NEW i \in 1..n PROVE At(r, i + 1) = l[i]
        OBVIOUS
      <4>1. i + 1 \in 1..Len(r)
        BY <1>2, <1>3
      <4> QED BY <4>1, <1>3, Zenon DEF At
    <3>4. At(r, n + 2) = 0 /\ At(l, n + 1) = 0
      <4>1. n + 2 \notin 1..Len(r) /\ n + 1 \notin 1..Len(l)
        BY <1>2, <1>3
      <4> QED BY <4>1, Zenon DEF At
    <3>5. \A i \in 1..n : At(l, i) = l[i]
      BY <1>2, Zenon DEF At
    <3>6. \A i \in 1..(n + 1) : At(r, i + 1) = At(l, i)
      <4> SUFFICES ASSUME NEW i \in 1..(n + 1) PROVE At(r, i + 1) = At(l, i)
        OBVIOUS
      <4>1. CASE i \in 1..n
        BY <4>1, <3>3, <3>5
      <4>2. CASE i \notin 1..n
        <5>1. i = n + 1 /\ i + 1 = n + 2
          BY <4>2, <1>2
        <5> QED BY <5>1, <3>4
      <4> QED BY <4>1, <4>2
    <3>7. ASSUME NEW i \in 1..(n + 1)
          PROVE  p2[r[i]] = d /\ s2[r[i]] = At(r, i + 1)
      <4>1. CASE i = 1
        <5>1. p2[o] = d /\ s2[o] = c[d]
          BY <1>14
        <5>2. At(r, i + 1) = At(l, 1)
          BY <4>1, <3>6
        <5> QED BY <4>1, <5>1, <5>2, <1>3, <1>6, Zenon
      <4>2. CASE i # 1
        <5>1. PICK j \in 1..n : i = j + 1
          <6>1. i - 1 \in 1..n /\ i = (i - 1) + 1
            BY <4>2, <1>2
          <6> QED BY <6>1
        <5>2. PICK x \in Object : x = l[j] /\ x = r[i] /\ x # o
          BY <5>1, <1>3, <1>4, <1>15
        <5>3. p2[x] = p[x] /\ s2[x] = s[x]
          BY <5>2, <1>14
        <5>4. p[x] = d /\ s[x] = At(l, j + 1)
          BY <5>2, <1>6
        <5>5. At(l, j + 1) = At(r, i + 1)
          BY <5>1, <3>6
        <5> QED BY <5>2, <5>3, <5>4, <5>5, Zenon
      <4> QED BY <4>1, <4>2
    <3> QED BY <2>2, <3>1, <3>2, <3>7, Zenon
  <2> QED BY <2>1, <2>2
<1>18. Everywhere(p2, s2, L2)
  <2> SUFFICES ASSUME NEW x \in Object
               PROVE  /\ p2[x] = 0 => s2[x] = 0
                      /\ p2[x] # 0 => \E i \in 1..Len(L2[p2[x]]) : L2[p2[x]][i] = x
    BY DEF Everywhere
  <2>0. /\ p[x] = 0 => s[x] = 0
        /\ p[x] # 0 => \E i \in 1..Len(L[p[x]]) : L[p[x]][i] = x
    BY Zenon DEF Forest, Everywhere
  <2>1. CASE x = o
    <3>1. p2[x] = d /\ L2[d] = r /\ d # 0
      BY <2>1, <1>8, <1>14
    <3>2. 1 \in 1..Len(r) /\ r[1] = x
      BY <2>1, <1>2, <1>3
    <3> QED BY <3>1, <3>2, Zenon
  <2>2. CASE x # o
    <3>1. p2[x] = p[x] /\ s2[x] = s[x]
      BY <2>2, <1>14
    <3>2. ASSUME p[x] # 0 PROVE \E i \in 1..Len(L2[p[x]]) : L2[p[x]][i] = x
      <4>1. PICK e \in Object : e = p[x]
        BY <3>2, <1>7 DEF Links
      <4>2. PICK j \in 1..Len(L[e]) : L[e][j] = x
        BY <2>0, <3>2, <4>1
      <4>3. CASE e # d
        BY <4>1, <4>2, <4>3, <1>14
      <4>4. CASE e = d
        <5>1. j \in 1..n /\ l[j] = x
          BY <4>2, <4>4, <1>1, <1>2
        <5>2. PICK i \in 1..Len(r) : i = j + 1
          BY <5>1, <1>2, <1>3
        <5>3. r[i] = x
          BY <5>1, <5>2, <1>3
        <5> QED BY <4>1, <4>4, <5>3, <1>14
      <4> QED BY <4>3, <4>4
    <3> QED BY <2>0, <3>1, <3>2, Zenon
  <2> QED BY <2>1, <2>2
<1>19. Forest(p2, s2, c2, L2)
  BY <1>13, <1>16, <1>17, <1>18, Zenon DEF Forest
<1> QED BY <1>19, <1>1, <1>3, <1>9, <1>10, <1>11, <1>12, Zenon
-----------------------------------------------------------------------------
(* The tree in memory.                                                     *)
Tree(m, L) == m \in Memory /\ Forest(Parents(m), Siblings(m), Firsts(m), L)

LEMMA TreeLinks ==
  ASSUME Known, NEW m, NEW L, Tree(m, L), NEW o \in Object
  PROVE  /\ Link(m, o, "parent") \in Links /\ Link(m, o, "parent") = Parents(m)[o]
         /\ Link(m, o, "sibling") \in Links /\ Link(m, o, "sibling") = Siblings(m)[o]
         /\ Link(m, o, "child") \in Links /\ Link(m, o, "child") = Firsts(m)[o]
<1>1. /\ Parents(m) \in [Object -> Links] /\ Siblings(m) \in [Object -> Links]
      /\ Firsts(m) \in [Object -> Links]
  BY Zenon DEF Tree, Forest, Typed
<1>2. Link(m, o, "parent") = Parents(m)[o]
  BY DEF Parents
<1>3. Link(m, o, "sibling") = Siblings(m)[o]
  BY DEF Siblings
<1>4. Link(m, o, "child") = Firsts(m)[o]
  BY DEF Firsts
<1>5. \A x \in [Object -> Links] : x[o] \in Links
  OBVIOUS
<1> QED BY <1>1, <1>2, <1>3, <1>4, <1>5, Zenon

(* z_insert_obj links an object that is nowhere into the list it goes to.  *)
Put(L, o, d) == IF d = 0 THEN L ELSE [L EXCEPT ![d] = <<o>> \o L[d]]

LEMMA LinkedTree ==
  ASSUME Known, NEW m, NEW L, Tree(m, L), NEW o \in Object, Link(m, o, "parent") = 0,
         NEW d \in Links
  PROVE  Tree(Linked(m, o, d), Put(L, o, d))
<1>1. CASE d = 0
  BY <1>1, Zenon DEF Linked, Put
<1>2. CASE d # 0
  <2>1. d \in Object /\ o \in Links
    BY <1>2 DEF Links
  <2>2. m \in Memory
    BY DEF Tree
  <2>3. PICK a \in Memory :
          /\ a = SetLink(m, o, "parent", d)
          /\ Parents(a) = [Parents(m) EXCEPT ![o] = d]
          /\ Siblings(a) = Siblings(m) /\ Firsts(a) = Firsts(m)
    <3>1. SetLink(m, o, "parent", d) \in Memory
      BY <2>1, <2>2, LinkSet DEF Fields
    <3> QED BY <3>1, <2>1, <2>2, Maps
  <2>4. PICK v \in Links : v = Link(a, d, "child") /\ v = Firsts(m)[d]
    <3>1. Link(a, d, "child") = Firsts(a)[d]
      BY <2>1 DEF Firsts
    <3>2. Firsts(m)[d] \in Links
      BY <2>1, TreeLinks
    <3> QED BY <3>1, <3>2, <2>3
  <2>5. PICK b \in Memory :
          /\ b = SetLink(a, d, "child", o)
          /\ Parents(b) = Parents(a) /\ Siblings(b) = Siblings(a)
          /\ Firsts(b) = [Firsts(a) EXCEPT ![d] = o]
    <3>1. SetLink(a, d, "child", o) \in Memory
      BY <2>1, LinkSet DEF Fields
    <3> QED BY <3>1, <2>1, Maps
  <2>6. PICK e \in Memory :
          /\ e = SetLink(b, o, "sibling", v)
          /\ Parents(e) = Parents(b) /\ Firsts(e) = Firsts(b)
          /\ Siblings(e) = [Siblings(b) EXCEPT ![o] = v]
    <3>1. SetLink(b, o, "sibling", v) \in Memory
      BY LinkSet DEF Fields
    <3> QED BY <3>1, Maps
  <2>7. Linked(m, o, d) = e
    BY <1>2, <2>3, <2>4, <2>5, <2>6, Zenon DEF Linked
  <2>8. PICK p, s, c : p = Parents(m) /\ s = Siblings(m) /\ c = Firsts(m)
    OBVIOUS
  <2>9. p[o] = 0 /\ v = c[d]
    BY <2>4, <2>8, TreeLinks
  <2>10. Forest([p EXCEPT ![o] = d], [s EXCEPT ![o] = c[d]], [c EXCEPT ![d] = o],
                [L EXCEPT ![d] = <<o>> \o L[d]])
    <3>1. Forest(p, s, c, L)
      BY <2>8, Zenon DEF Tree
    <3> QED BY <3>1, <2>1, <2>9, Inserting
  <2>11. Forest(Parents(e), Siblings(e), Firsts(e), [L EXCEPT ![d] = <<o>> \o L[d]])
    BY <2>3, <2>5, <2>6, <2>8, <2>9, <2>10, Zenon
  <2> QED BY <1>2, <2>7, <2>11, Zenon DEF Tree, Put
<1> QED BY <1>1, <1>2

(* The first child is cut from its list.                                   *)
LEMMA FirstCut ==
  ASSUME Known, NEW L, Tree(memory, L), NEW o \in Object, NEW p \in Object,
         p = Link(memory, o, "parent"), Link(memory, p, "child") = o,
         NEW m, m = SetLink(Detached(o), p, "child", Link(memory, o, "sibling"))
  PROVE  /\ 1 \in 1..Len(L[p]) /\ L[p][1] = o
         /\ Tree(m, [L EXCEPT ![p] = RemoveAt(L[p], 1)])
         /\ Link(m, o, "parent") = 0
         /\ \A x \in Object, a \in Attribute : IsSet(m, x, a) <=> IsSet(memory, x, a)
<1>1. PICK z \in Memory : z = memory
  BY DEF Tree
<1>2. 0 \in Links /\ 0 \notin Object /\ o \in Links
  BY Naturals DEF Links
<1>3. PICK v \in Links : v = Link(z, o, "sibling") /\ v = Siblings(z)[o]
  BY <1>1, TreeLinks
<1>4. PICK a \in Memory :
        /\ a = SetLink(z, o, "parent", 0)
        /\ Parents(a) = [Parents(z) EXCEPT ![o] = 0]
        /\ Siblings(a) = Siblings(z) /\ Firsts(a) = Firsts(z)
  <2>1. SetLink(z, o, "parent", 0) \in Memory
    BY <1>2, LinkSet DEF Fields
  <2> QED BY <2>1, <1>2, Maps
<1>5. PICK b \in Memory :
        /\ b = SetLink(a, o, "sibling", 0)
        /\ Parents(b) = Parents(a) /\ Firsts(b) = Firsts(a)
        /\ Siblings(b) = [Siblings(a) EXCEPT ![o] = 0]
  <2>1. SetLink(a, o, "sibling", 0) \in Memory
    BY <1>2, LinkSet DEF Fields
  <2> QED BY <2>1, <1>2, Maps
<1>6. PICK e \in Memory :
        /\ e = SetLink(b, p, "child", v)
        /\ Parents(e) = Parents(b) /\ Siblings(e) = Siblings(b)
        /\ Firsts(e) = [Firsts(b) EXCEPT ![p] = v]
  <2>1. SetLink(b, p, "child", v) \in Memory
    BY LinkSet DEF Fields
  <2> QED BY <2>1, Maps
<1>7. m = e
  BY <1>1, <1>3, <1>4, <1>5, <1>6, Zenon DEF Detached
<1>8. Link(m, o, "parent") = 0
  <2>1. Link(e, o, "parent") = Parents(e)[o]
    BY DEF Parents
  <2>2. Parents(z)  \in [Object -> Links]
    BY <1>1, Zenon DEF Tree, Forest, Typed
  <2>3. Parents(e)[o] = 0
    BY <1>4, <1>5, <1>6, <2>2
  <2> QED BY <1>7, <2>1, <2>3
<1>9. ASSUME NEW x \in Object, NEW y \in Attribute PROVE IsSet(m, x, y) <=> IsSet(memory, x, y)
  <2>1. IsSet(a, x, y) <=> IsSet(z, x, y)
    BY <1>4, AttributesKept DEF Fields
  <2>2. IsSet(b, x, y) <=> IsSet(a, x, y)
    BY <1>5, AttributesKept DEF Fields
  <2>3. IsSet(e, x, y) <=> IsSet(b, x, y)
    BY <1>6, AttributesKept DEF Fields
  <2> QED BY <1>1, <1>7, <2>1, <2>2, <2>3, Zenon
<1>10. PICK q, s, c : q = Parents(z) /\ s = Siblings(z) /\ c = Firsts(z)
  OBVIOUS
<1>11. Forest(q, s, c, L)
  BY <1>1, <1>10, Zenon DEF Tree
<1>12. 1 \in 1..Len(L[p]) /\ L[p][1] = o
  <2>1. c[p] = o
    BY <1>1, <1>10, TreeLinks
  <2>2. c[p] = At(L[p], 1)
    BY <1>11, Zenon DEF Forest, Chained
  <2> QED BY <2>1, <2>2, <1>2, Zenon DEF At
<1>13. Forest([q EXCEPT ![o] = 0], [s EXCEPT ![o] = 0], [c EXCEPT ![p] = s[o]],
              [L EXCEPT ![p] = RemoveAt(L[p], 1)])
  <2>1. PICK k \in 1..Len(L[p]) : k = 1 /\ o = L[p][k]
    BY <1>12
  <2>2. PICK s2 : s2 = IF k = 1 THEN [s EXCEPT ![o] = 0]
                       ELSE [[s EXCEPT ![o] = 0] EXCEPT ![L[p][k - 1]] = s[o]]
    OBVIOUS
  <2>3. PICK c2 : c2 = IF k = 1 THEN [c EXCEPT ![p] = s[o]] ELSE c
    OBVIOUS
  <2>4. Forest([q EXCEPT ![o] = 0], s2, c2, [L EXCEPT ![p] = RemoveAt(L[p], k)])
    BY <2>1, <2>2, <2>3, <1>11, Removing
  <2>5. s2 = [s EXCEPT ![o] = 0] /\ c2 = [c EXCEPT ![p] = s[o]]
    BY <2>1, <2>2, <2>3, Zenon
  <2> QED BY <2>1, <2>4, <2>5, Zenon
<1>14. Tree(m, [L EXCEPT ![p] = RemoveAt(L[p], 1)])
  <2>1. Forest(Parents(e), Siblings(e), Firsts(e), [L EXCEPT ![p] = RemoveAt(L[p], 1)])
    BY <1>3, <1>4, <1>5, <1>6, <1>10, <1>13, Zenon
  <2> QED BY <1>7, <2>1, Zenon DEF Tree
<1> QED BY <1>8, <1>9, <1>12, <1>14

(* An object that is not the first child: the search for it begins, ...    *)
LEMMA SearchBegun ==
  ASSUME Known, NEW L, Tree(memory, L), NEW o \in Object, NEW p \in Object,
         p = Link(memory, o, "parent"), NEW v, v = Link(memory, o, "sibling"),
         NEW e, e = Detached(o),
         NEW z, z = SetLink(SetLink(e, o, "parent", p), o, "sibling", v)
  PROVE  /\ e \in Memory /\ v \in Links /\ Tree(z, L)
         /\ Link(e, o, "parent") = 0 /\ Link(e, o, "sibling") = 0
         /\ \A x \in Object, a \in Attribute : IsSet(e, x, a) <=> IsSet(memory, x, a)
         /\ Link(memory, p, "child") # o =>
              \E k \in 1..Len(L[p]) :
                /\ 1 < k /\ L[p][k] = o
                /\ 1 \in 1..Len(L[p]) /\ Link(memory, p, "child") = L[p][1]
<1>1. PICK m \in Memory : m = memory
  BY DEF Tree
<1>2. 0 \in Links /\ 0 \notin Object /\ p \in Links
  BY Naturals DEF Links
<1>3. v \in Links /\ v = Siblings(m)[o] /\ p = Parents(m)[o]
  BY <1>1, TreeLinks
<1>4. PICK a \in Memory :
        /\ a = SetLink(m, o, "parent", 0)
        /\ Parents(a) = [Parents(m) EXCEPT ![o] = 0]
        /\ Siblings(a) = Siblings(m) /\ Firsts(a) = Firsts(m)
  <2>1. SetLink(m, o, "parent", 0) \in Memory
    BY <1>2, LinkSet DEF Fields
  <2> QED BY <2>1, <1>2, Maps
<1>5. PICK b \in Memory :
        /\ b = SetLink(a, o, "sibling", 0)
        /\ Parents(b) = Parents(a) /\ Firsts(b) = Firsts(a)
        /\ Siblings(b) = [Siblings(a) EXCEPT ![o] = 0]
  <2>1. SetLink(a, o, "sibling", 0) \in Memory
    BY <1>2, LinkSet DEF Fields
  <2> QED BY <2>1, <1>2, Maps
<1>6. e = b
  BY <1>1, <1>4, <1>5, Zenon DEF Detached
<1>7. PICK c \in Memory :
        /\ c = SetLink(b, o, "parent", p)
        /\ Parents(c) = [Parents(b) EXCEPT ![o] = p]
        /\ Siblings(c) = Siblings(b) /\ Firsts(c) = Firsts(b)
  <2>1. SetLink(b, o, "parent", p) \in Memory
    BY <1>2, LinkSet DEF Fields
  <2> QED BY <2>1, <1>2, Maps
<1>8. PICK d \in Memory :
        /\ d = SetLink(c, o, "sibling", v)
        /\ Parents(d) = Parents(c) /\ Firsts(d) = Firsts(c)
        /\ Siblings(d) = [Siblings(c) EXCEPT ![o] = v]
  <2>1. SetLink(c, o, "sibling", v) \in Memory
    BY <1>3, LinkSet DEF Fields
  <2> QED BY <2>1, <1>3, Maps
<1>9. z = d
  BY <1>6, <1>7, <1>8, Zenon
<1>10. Parents(m) \in [Object -> Links] /\ Siblings(m) \in [Object -> Links]
  BY <1>1, Zenon DEF Tree, Forest, Typed
<1>11. Parents(d) = Parents(m) /\ Siblings(d) = Siblings(m) /\ Firsts(d) = Firsts(m)
  <2>1. \A f \in [Object -> Links] : [[f EXCEPT ![o] = 0] EXCEPT ![o] = f[o]] = f
    OBVIOUS
  <2>2. Parents(d) = [[Parents(m) EXCEPT ![o] = 0] EXCEPT ![o] = Parents(m)[o]]
    BY <1>3, <1>4, <1>5, <1>7, <1>8, Zenon
  <2>3. Siblings(d) = [[Siblings(m) EXCEPT ![o] = 0] EXCEPT ![o] = Siblings(m)[o]]
    BY <1>3, <1>4, <1>5, <1>7, <1>8, Zenon
  <2>4. Firsts(d) = Firsts(m)
    BY <1>4, <1>5, <1>7, <1>8, Zenon
  <2> QED BY <2>1, <2>2, <2>3, <2>4, <1>10, Zenon
<1>12. Tree(z, L)
  <2>1. Forest(Parents(m), Siblings(m), Firsts(m), L)
    BY <1>1, Zenon DEF Tree
  <2> QED BY <2>1, <1>9, <1>11, Zenon DEF Tree
<1>13. Link(e, o, "parent") = 0 /\ Link(e, o, "sibling") = 0
  <2>1. Link(b, o, "parent") = Parents(b)[o] /\ Link(b, o, "sibling") = Siblings(b)[o]
    BY DEF Parents, Siblings
  <2>2. Parents(b)[o] = 0 /\ Siblings(b)[o] = 0
    BY <1>4, <1>5, <1>10
  <2> QED BY <1>6, <2>1, <2>2
<1>14. ASSUME NEW x \in Object, NEW y \in Attribute PROVE IsSet(e, x, y) <=> IsSet(memory, x, y)
  <2>1. IsSet(a, x, y) <=> IsSet(m, x, y)
    BY <1>4, AttributesKept DEF Fields
  <2>2. IsSet(b, x, y) <=> IsSet(a, x, y)
    BY <1>5, AttributesKept DEF Fields
  <2> QED BY <1>1, <1>6, <2>1, <2>2, Zenon
<1>15. ASSUME Link(memory, p, "child") # o
       PROVE  \E k \in 1..Len(L[p]) :
                /\ 1 < k /\ L[p][k] = o
                /\ 1 \in 1..Len(L[p]) /\ Link(memory, p, "child") = L[p][1]
  <2>1. PICK k \in 1..Len(L[p]) : L[p][k] = o
    <3>1. Parents(m)[o] # 0
      BY <1>2, <1>3
    <3>2. \E k \in 1..Len(L[p]) : L[p][k] = o
      BY <1>1, <1>3, <3>1, Zenon DEF Tree, Forest, Everywhere
    <3> QED BY <3>2
  <2>2. Firsts(m)[p] = Link(memory, p, "child")
    BY <1>1, TreeLinks
  <2>3. Firsts(m)[p] = At(L[p], 1)
    BY <1>1, Zenon DEF Tree, Forest, Chained
  <2>4. Len(L[p]) \in Nat
    BY <1>1, ListFacts DEF Tree, Forest, Typed
  <2>5. 1 \in 1..Len(L[p])
    BY <2>1, <2>4
  <2>6. At(L[p], 1) = L[p][1]
    BY <2>5, Zenon DEF At
  <2>7. k # 1
    BY <1>15, <2>1, <2>2, <2>3, <2>6
  <2>8. 1 < k
    BY <2>1, <2>4, <2>7
  <2> QED BY <2>1, <2>2, <2>3, <2>5, <2>6, <2>8
<1> QED BY <1>3, <1>6, <1>12, <1>13, <1>14, <1>15

(* ... which, at any object before it, ...                                 *)
Searching(e, o, p, v, z, L) ==
  /\ e \in Memory /\ o \in Object /\ p \in Object /\ v \in Links
  /\ Link(e, o, "parent") = 0 /\ Link(e, o, "sibling") = 0
  /\ z = SetLink(SetLink(e, o, "parent", p), o, "sibling", v)
  /\ Tree(z, L)

LEMMA SearchLinks ==
  ASSUME Known, NEW e, NEW o, NEW p, NEW v, NEW z, NEW L, Searching(e, o, p, v, z, L)
  PROVE  /\ Parents(e) = [Parents(z) EXCEPT ![o] = 0]
         /\ Siblings(e) = [Siblings(z) EXCEPT ![o] = 0]
         /\ Siblings(z)[o] = v /\ Parents(z)[o] = p
         /\ Firsts(e) = Firsts(z)
         /\ \A x \in Object, a \in Attribute : IsSet(z, x, a) <=> IsSet(e, x, a)
<1>1. /\ e \in Memory /\ o \in Object /\ p \in Object /\ v \in Links
      /\ Link(e, o, "parent") = 0 /\ Link(e, o, "sibling") = 0
      /\ z = SetLink(SetLink(e, o, "parent", p), o, "sibling", v)
  BY Zenon DEF Searching
<1>2. p \in Links
  BY <1>1 DEF Links
<1>3. PICK c \in Memory :
        /\ c = SetLink(e, o, "parent", p)
        /\ Parents(c) = [Parents(e) EXCEPT ![o] = p]
        /\ Siblings(c) = Siblings(e) /\ Firsts(c) = Firsts(e)
  <2>1. SetLink(e, o, "parent", p) \in Memory
    BY <1>1, <1>2, LinkSet DEF Fields
  <2> QED BY <2>1, <1>1, <1>2, Maps
<1>4. /\ Parents(z) = Parents(c) /\ Firsts(z) = Firsts(c)
      /\ Siblings(z) = [Siblings(c) EXCEPT ![o] = v]
  BY <1>1, <1>3, Maps
<1>5. Parents(e)[o] = 0 /\ Siblings(e)[o] = 0
  BY <1>1 DEF Parents, Siblings
<1>6. DOMAIN Parents(e) = Object /\ DOMAIN Siblings(e) = Object
  BY DEF Parents, Siblings
<1>7. \A x \in Object, a \in Attribute : IsSet(z, x, a) <=> IsSet(e, x, a)
  <2> SUFFICES ASSUME NEW x \in Object, NEW y \in Attribute
               PROVE  IsSet(z, x, y) <=> IsSet(e, x, y)
    OBVIOUS
  <2>1. IsSet(c, x, y) <=> IsSet(e, x, y)
    BY <1>1, <1>3, AttributesKept DEF Fields
  <2>2. IsSet(z, x, y) <=> IsSet(c, x, y)
    BY <1>1, <1>3, AttributesKept DEF Fields
  <2> QED BY <2>1, <2>2, Zenon
<1>8. PICK f, g : f = Parents(e) /\ g = Siblings(e)
  OBVIOUS
<1>9. f = [o1 \in Object |-> f[o1]] /\ g = [o1 \in Object |-> g[o1]]
  BY <1>8 DEF Parents, Siblings
<1>10. /\ [[f EXCEPT ![o] = p] EXCEPT ![o] = 0] = f /\ [f EXCEPT ![o] = p][o] = p
       /\ [[g EXCEPT ![o] = v] EXCEPT ![o] = 0] = g /\ [g EXCEPT ![o] = v][o] = v
  BY <1>1, <1>5, <1>6, <1>8, <1>9
<1>11. /\ Parents(z) = [f EXCEPT ![o] = p] /\ Siblings(z) = [g EXCEPT ![o] = v]
       /\ Firsts(e) = Firsts(z)
  BY <1>3, <1>4, <1>8, Zenon
<1> QED BY <1>7, <1>8, <1>10, <1>11, Zenon

LEMMA SearchAhead ==
  ASSUME Known, NEW e, NEW o, NEW p, NEW v, NEW z, NEW L, Searching(e, o, p, v, z, L),
         NEW k \in 1..Len(L[p]), L[p][k] = o, NEW j \in 1..Len(L[p]), j < k
  PROVE  /\ L[p][j] \in Object
         /\ j + 1 \in 1..Len(L[p]) /\ j + 1 <= k
         /\ Link(e, L[p][j], "sibling") = L[p][j + 1]
         /\ L[p][j + 1] = o <=> j + 1 = k
<1>1. o \in Object /\ p \in Object /\ Tree(z, L)
  BY Zenon DEF Searching
<1>2. Forest(Parents(z), Siblings(z), Firsts(z), L)
  BY <1>1, Zenon DEF Tree
<1>3. L[p] \in Seq(Object) /\ Len(L[p]) \in Nat /\ \A i \in 1..Len(L[p]) : L[p][i] \in Object
  BY <1>1, <1>2, ListFacts DEF Forest, Typed
<1>4. PICK y \in Object : y = L[p][j]
  BY <1>3
<1>5. \A a, b \in 1..Len(L[p]) : L[p][a] = L[p][b] => a = b
  BY <1>1, <1>2, Zenon DEF Forest, Once
<1>6. y # o
  BY <1>3, <1>4, <1>5
<1>7. Siblings(z)[y] = At(L[p], j + 1)
  BY <1>1, <1>2, <1>4, Zenon DEF Forest, Chained
<1>8. j + 1 \in 1..Len(L[p]) /\ j + 1 <= k
  BY <1>3
<1>9. At(L[p], j + 1) = L[p][j + 1]
  BY <1>8, Zenon DEF At
<1>10. Link(e, y, "sibling") = Siblings(z)[y]
  <2>1. Link(e, y, "sibling") = Siblings(e)[y]
    BY DEF Siblings
  <2>2. Siblings(e) = [Siblings(z) EXCEPT ![o] = 0]
    BY SearchLinks
  <2>3. Siblings(z) \in [Object -> Links]
    BY <1>2, Zenon DEF Forest, Typed
  <2>4. Siblings(e)[y] = Siblings(z)[y]
    BY <1>6, <2>2, <2>3
  <2> QED BY <2>1, <2>4
<1>11. L[p][j + 1] = o <=> j + 1 = k
  BY <1>5, <1>8
<1> QED BY <1>4, <1>7, <1>8, <1>9, <1>10, <1>11

(* ... goes on to the next one, until the object is cut out.               *)
LEMMA LaterCut ==
  ASSUME Known, NEW e, NEW o, NEW p, NEW v, NEW z, NEW L, Searching(e, o, p, v, z, L),
         NEW k \in 1..Len(L[p]), L[p][k] = o, k # 1,
         NEW m, m = SetLink(e, L[p][k - 1], "sibling", v)
  PROVE  /\ Tree(m, [L EXCEPT ![p] = RemoveAt(L[p], k)])
         /\ Link(m, o, "parent") = 0
         /\ \A x \in Object, a \in Attribute : IsSet(m, x, a) <=> IsSet(e, x, a)
<1>1. /\ e \in Memory /\ o \in Object /\ p \in Object /\ v \in Links
      /\ Link(e, o, "parent") = 0 /\ Tree(z, L)
  BY Zenon DEF Searching
<1>2. PICK q, s, c : q = Parents(z) /\ s = Siblings(z) /\ c = Firsts(z)
  OBVIOUS
<1>3. Forest(q, s, c, L)
  BY <1>1, <1>2, Zenon DEF Tree
<1>4. L[p] \in Seq(Object) /\ Len(L[p]) \in Nat /\ \A i \in 1..Len(L[p]) : L[p][i] \in Object
  BY <1>1, <1>3, ListFacts DEF Forest, Typed
<1>5. PICK y \in Object : y = L[p][k - 1]
  <2>1. k - 1 \in 1..Len(L[p])
    BY <1>4
  <2> QED BY <2>1, <1>4
<1>6. /\ m \in Memory /\ Parents(m) = Parents(e) /\ Firsts(m) = Firsts(e)
      /\ Siblings(m) = [Siblings(e) EXCEPT ![y] = v]
  <2>1. m = SetLink(e, y, "sibling", v)
    BY <1>5, Zenon
  <2>2. m \in Memory
    BY <2>1, <1>1, LinkSet DEF Fields
  <2> QED BY <2>1, <2>2, <1>1, Maps
<1>7. /\ Parents(e) = [q EXCEPT ![o] = 0]
      /\ Siblings(e) = [s EXCEPT ![o] = 0]
      /\ s[o] = v /\ Firsts(e) = c
  <2>1. /\ Parents(e) = [Parents(z) EXCEPT ![o] = 0]
        /\ Siblings(e) = [Siblings(z) EXCEPT ![o] = 0]
        /\ Siblings(z)[o] = v /\ Firsts(e) = Firsts(z)
    BY SearchLinks
  <2> QED BY <1>2, <2>1, Zenon
<1>8. PICK s2 : s2 = IF k = 1 THEN [s EXCEPT ![o] = 0]
                     ELSE [[s EXCEPT ![o] = 0] EXCEPT ![L[p][k - 1]] = s[o]]
  OBVIOUS
<1>9. PICK c2 : c2 = IF k = 1 THEN [c EXCEPT ![p] = s[o]] ELSE c
  OBVIOUS
<1>10. Forest([q EXCEPT ![o] = 0], s2, c2, [L EXCEPT ![p] = RemoveAt(L[p], k)])
  BY <1>1, <1>3, <1>8, <1>9, Removing
<1>11. s2 = Siblings(m) /\ c2 = Firsts(m)
  BY <1>5, <1>6, <1>7, <1>8, <1>9, Zenon
<1>12. Tree(m, [L EXCEPT ![p] = RemoveAt(L[p], k)])
  BY <1>6, <1>7, <1>10, <1>11, Zenon DEF Tree
<1>13. Link(m, o, "parent") = 0
  <2>1. Link(m, o, "parent") = Parents(m)[o] /\ Link(e, o, "parent") = Parents(e)[o]
    BY <1>1 DEF Parents
  <2> QED BY <1>1, <1>6, <2>1
<1>14. \A x \in Object, a \in Attribute : IsSet(m, x, a) <=> IsSet(e, x, a)
  <2> SUFFICES ASSUME NEW x \in Object, NEW b \in Attribute
               PROVE  IsSet(m, x, b) <=> IsSet(e, x, b)
    OBVIOUS
  <2> QED BY <1>1, <1>5, AttributesKept DEF Fields
<1> QED BY <1>12, <1>13, <1>14

LEMMA LinkedAttributes ==
  ASSUME Known, NEW m \in Memory, NEW o \in Object, NEW d \in Links
  PROVE  \A x \in Object, a \in Attribute : IsSet(Linked(m, o, d), x, a) <=> IsSet(m, x, a)
<1> SUFFICES ASSUME NEW x \in Object, NEW y \in Attribute
             PROVE  IsSet(Linked(m, o, d), x, y) <=> IsSet(m, x, y)
  OBVIOUS
<1>1. CASE d = 0
  BY <1>1, Zenon DEF Linked
<1>2. CASE d # 0
  <2>1. d \in Object /\ o \in Links
    BY <1>2 DEF Links
  <2>2. PICK a \in Memory : a = SetLink(m, o, "parent", d)
    <3>1. SetLink(m, o, "parent", d) \in Memory
      BY <2>1, LinkSet DEF Fields
    <3> QED BY <3>1
  <2>3. PICK b \in Memory : b = SetLink(a, d, "child", o)
    <3>1. SetLink(a, d, "child", o) \in Memory
      BY <2>1, LinkSet DEF Fields
    <3> QED BY <3>1
  <2>4. PICK v : v = Link(a, d, "child")
    OBVIOUS
  <2>5. Linked(m, o, d) = SetLink(b, o, "sibling", v)
    BY <1>2, <2>2, <2>3, <2>4, Zenon DEF Linked
  <2>6. IsSet(a, x, y) <=> IsSet(m, x, y)
    BY <2>2, AttributesKept DEF Fields
  <2>7. IsSet(b, x, y) <=> IsSet(a, x, y)
    BY <2>1, <2>3, AttributesKept DEF Fields
  <2>8. IsSet(SetLink(b, o, "sibling", v), x, y) <=> IsSet(b, x, y)
    BY AttributesKept DEF Fields
  <2> QED BY <2>5, <2>6, <2>7, <2>8, Zenon
<1> QED BY <1>1, <1>2
-----------------------------------------------------------------------------
(* A walk along the links gives the lists.                                 *)
LEMMA SameRecursion ==
  \A n \in Nat : \A f, g :
    f[1] = g[1] /\ (\A k \in 2..n : f[k - 1] = g[k - 1] => f[k] = g[k])
      => \A k \in 1..n : f[k] = g[k]
<1> SUFFICES ASSUME NEW n \in Nat, NEW f, NEW g, f[1] = g[1],
                    \A k \in 2..n : f[k - 1] = g[k - 1] => f[k] = g[k]
             PROVE  \A k \in 1..n : f[k] = g[k]
  OBVIOUS
<1> DEFINE T == {k \in 1..n : f[k] # g[k]}
<1> SUFFICES ASSUME T # {} PROVE FALSE
  OBVIOUS
<1>1. T \subseteq Nat
  OBVIOUS
<1>2. PICK k \in T : \A l \in T : ~(<<l, k>> \in OpToRel(<, Nat))
  BY <1>1, WFMin, NatLessThanWellFounded
<1>3. k # 1 /\ k \in 2..n /\ k - 1 \in 1..n /\ k \in Nat /\ k - 1 \in Nat
  OBVIOUS
<1>4. <<k - 1, k>> \in OpToRel(<, Nat)
  BY <1>3 DEF OpToRel
<1>5. k - 1 \notin T
  BY <1>2, <1>4
<1> QED BY <1>3, <1>5

LEMMA Counted ==
  ASSUME Known
  PROVE  IsFiniteSet(Object) /\ Cardinality(Object) \in Nat
<1>1. PICK K \in Nat : Object \subseteq 1..K
  BY Ranges
<1>2. IsFiniteSet(1..K)
  BY FS_Interval
<1> QED BY <1>1, <1>2, FS_Subset, FS_CardinalityType

LEMMA ListsFit ==
  ASSUME Known, NEW l \in Seq(Object), \A j, k \in 1..Len(l) : l[j] = l[k] => j = k
  PROVE  Len(l) <= Cardinality(Object)
<1>1. PICK n \in Nat : n = Len(l)
  BY LenProperties
<1>2. l \in [1..n -> Object] /\ DOMAIN l = 1..n
  BY <1>1, LenProperties
<1>3. l \in Injection(1..n, Object)
  BY <1>1, <1>2 DEF Injection, IsInjective
<1>4. Cardinality(1..n) <= Cardinality(Object)
  BY <1>3, Counted, FS_Injection
<1>5. Cardinality(1..n) = n
  BY FS_Interval
<1> QED BY <1>1, <1>4, <1>5

LEMMA ChildrenAre ==
  ASSUME Known, NEW m, NEW L, Tree(m, L), NEW o \in Object
  PROVE  Children(m, o) = L[o]
<1>1. Forest(Parents(m), Siblings(m), Firsts(m), L)
  BY Zenon DEF Tree
<1>2. PICK l \in Seq(Object) : l = L[o]
  BY <1>1, ListFacts DEF Forest, Typed
<1>3. PICK n \in Nat : n = Len(l)
  BY LenProperties
<1>4. PICK N \in Nat : N = Cardinality(Object)
  BY Counted
<1>5. n <= N
  <2>1. \A j, k \in 1..Len(l) : l[j] = l[k] => j = k
    BY <1>1, <1>2, Zenon DEF Forest, Once
  <2> QED BY <2>1, <1>3, <1>4, ListsFit
<1>6. PICK g : g = [i \in 1..(N + 1) |-> At(l, i)]
  OBVIOUS
<1>7. /\ \A i \in 1..(N + 1) : g[i] = At(l, i)
      /\ \A i \in 1..n : i \in 1..(N + 1) /\ At(l, i) = l[i] /\ l[i] \in Object /\ l[i] # 0
      /\ \A i \in 1..(N + 1) : i \notin 1..n => At(l, i) = 0
  <2>1. \A i \in 1..n : l[i] \in Object /\ l[i] # 0
    BY <1>3, ElementOfSeq, Naturals
  <2>2. \A i \in 1..n : i \in 1..(N + 1)
    BY <1>5
  <2> QED BY <2>1, <2>2, <1>3, <1>6 DEF At
<1>8. g[1] = Link(m, o, "child")
  <2>1. Firsts(m)[o] = At(L[o], 1)
    BY <1>1, Zenon DEF Forest, Chained
  <2>2. Firsts(m)[o] = Link(m, o, "child")
    BY TreeLinks
  <2>3. 1 \in 1..(N + 1)
    OBVIOUS
  <2> QED BY <1>2, <1>7, <2>1, <2>2, <2>3, Zenon
<1>9. \A i \in 2..(N + 1) : g[i] = IF g[i - 1] = 0 THEN 0 ELSE Link(m, g[i - 1], "sibling")
  <2> SUFFICES ASSUME NEW i \in 2..(N + 1)
               PROVE  g[i] = IF g[i - 1] = 0 THEN 0 ELSE Link(m, g[i - 1], "sibling")
    OBVIOUS
  <2>1. PICK j \in 1..(N + 1) : j = i - 1 /\ i = j + 1 /\ i \in 1..(N + 1)
    <3>1. i - 1 \in 1..(N + 1) /\ i = (i - 1) + 1 /\ i \in 1..(N + 1)
      OBVIOUS
    <3> QED BY <3>1
  <2>2. CASE j \in 1..n
    <3>1. g[j] = l[j] /\ l[j] \in Object /\ l[j] # 0
      BY <2>1, <2>2, <1>7
    <3>2. Siblings(m)[l[j]] = At(l, j + 1)
      BY <2>2, <1>1, <1>2, <1>3, Zenon DEF Forest, Chained
    <3>3. Siblings(m)[l[j]] = Link(m, l[j], "sibling")
      BY <3>1, TreeLinks
    <3>4. g[i] = At(l, j + 1)
      BY <2>1, <1>7
    <3> QED BY <2>1, <3>1, <3>2, <3>3, <3>4, Zenon
  <2>3. CASE j \notin 1..n
    <3>1. i \notin 1..n
      BY <2>1, <2>3
    <3>2. g[j] = 0 /\ g[i] = 0
      BY <2>1, <2>3, <3>1, <1>7
    <3> QED BY <2>1, <3>2, Zenon
  <2> QED BY <2>2, <2>3
<1>10. PICK w : w = Walk(m, o)
  OBVIOUS
<1>11. w = [i \in 1..(N + 1) |->
              IF i = 1 THEN Link(m, o, "child")
              ELSE IF w[i - 1] = 0 THEN 0 ELSE Link(m, w[i - 1], "sibling")]
  <2>1. \A i \in 1..(N + 1) :
          g[i] = IF i = 1 THEN Link(m, o, "child")
                 ELSE IF g[i - 1] = 0 THEN 0 ELSE Link(m, g[i - 1], "sibling")
    <3>1. \A i \in 1..(N + 1) : i # 1 => i \in 2..(N + 1)
      OBVIOUS
    <3> QED BY <3>1, <1>8, <1>9, Zenon
  <2>2. g = [i \in 1..(Cardinality(Object) + 1) |->
               IF i = 1 THEN Link(m, o, "child")
               ELSE IF g[i - 1] = 0 THEN 0 ELSE Link(m, g[i - 1], "sibling")]
    BY <2>1, <1>4, <1>6, Zenon
  <2>3. w = [i \in 1..(Cardinality(Object) + 1) |->
               IF i = 1 THEN Link(m, o, "child")
               ELSE IF w[i - 1] = 0 THEN 0 ELSE Link(m, w[i - 1], "sibling")]
    BY <2>2, <1>10, Zenon DEF Walk
  <2> QED BY <2>3, <1>4, Zenon
<1>12. /\ DOMAIN w = 1..(N + 1) /\ w[1] = Link(m, o, "child")
       /\ \A i \in 2..(N + 1) :
            w[i] = IF w[i - 1] = 0 THEN 0 ELSE Link(m, w[i - 1], "sibling")
  <2>1. 1 \in 1..(N + 1) /\ \A i \in 2..(N + 1) : i \in 1..(N + 1) /\ i # 1
    OBVIOUS
  <2> QED BY <2>1, <1>11, Zenon
<1>13. \A i \in 1..(N + 1) : w[i] = g[i]
  <2>1. \A i \in 2..(N + 1) : w[i - 1] = g[i - 1] => w[i] = g[i]
    BY <1>9, <1>12, Zenon
  <2>2. PICK M \in Nat : M = N + 1
    OBVIOUS
  <2>3. \A i \in 2..M : w[i - 1] = g[i - 1] => w[i] = g[i]
    BY <2>1, <2>2, Zenon
  <2>4. w[1] = g[1]
    BY <1>8, <1>12, Zenon
  <2>5. \A i \in 1..M : w[i] = g[i]
    <3>1. \A f, h : f[1] = h[1] /\ (\A k \in 2..M : f[k - 1] = h[k - 1] => f[k] = h[k])
                    => \A k \in 1..M : f[k] = h[k]
      BY SameRecursion, Zenon
    <3> QED BY <2>3, <2>4, <3>1, ZenonT(60)
  <2> QED BY <2>2, <2>5, Zenon
<1>14. {i \in DOMAIN w : w[i] # 0} = 1..n
  BY <1>7, <1>12, <1>13
<1>15. Cardinality({i \in DOMAIN w : w[i] # 0}) = n
  <2>1. Cardinality(1..n) = n
    BY FS_Interval
  <2> QED BY <2>1, <1>14
<1>16. SubSeq(w, 1, n) = l
  <2>1. l = [i \in 1..n |-> l[i]]
    BY <1>3, LenProperties
  <2>2. \A i \in 1..n : w[i] = l[i]
    BY <1>7, <1>13
  <2>3. \A i \in 1..n : 1 + i - 1 = i
    OBVIOUS
  <2>4. SubSeq(w, 1, n) = [i \in 1..n |-> w[i]]
    BY <2>3
  <2> QED BY <2>1, <2>2, <2>4
<1> QED BY <1>2, <1>10, <1>15, <1>16, Zenon DEF Children
-----------------------------------------------------------------------------
(* The version stays what it is, and with it all that depends on it.       *)
LEMMA Steady ==
  ASSUME h_version' = h_version
  PROVE  /\ Object' = Object /\ Attribute' = Attribute /\ Links' = Links
         /\ Early' = Early /\ Known' = Known /\ Field' = Field
BY Zenon DEF Object, Attribute, Links, Early, Known, Field

LEMMA SteadyEntries ==
  ASSUME h_version' = h_version
  PROVE  Entries(Object)' = Entries(Object) /\ Memory' = Memory
<1>1. Object' = Object /\ Early' = Early
  BY Steady
<1>2. SIZE' = SIZE /\ \A o : object_address(o)' = object_address(o)
  BY <1>1, Zenon DEF SIZE, object_address
<1>3. Entries(Object)' = Entries(Object)
  BY <1>1, <1>2, Zenon DEF Entries
<1> QED BY <1>3, Zenon DEF Memory

LEMMA SteadyLinks ==
  ASSUME h_version' = h_version, NEW m, NEW o, NEW f
  PROVE  Link(m, o, f)' = Link(m, o, f)
<1>1. Early' = Early /\ Field' = Field
  BY Steady
<1>2. object_address(o)' = object_address(o)
  BY <1>1, Zenon DEF object_address
<1> QED BY <1>1, <1>2, Zenon DEF Link

LEMMA SteadySets ==
  ASSUME h_version' = h_version, NEW m, NEW o, NEW f, NEW v
  PROVE  SetLink(m, o, f, v)' = SetLink(m, o, f, v)
<1>1. Early' = Early /\ Field' = Field
  BY Steady
<1>2. object_address(o)' = object_address(o)
  BY <1>1, Zenon DEF object_address
<1> QED BY <1>1, <1>2, Zenon DEF SetLink

LEMMA SteadyBits ==
  ASSUME h_version' = h_version, NEW m, NEW o, NEW a
  PROVE  IsSet(m, o, a)' = IsSet(m, o, a)
<1>1. Early' = Early
  BY Steady
<1>2. object_address(o)' = object_address(o)
  BY <1>1, Zenon DEF object_address
<1> QED BY <1>2, Zenon DEF IsSet, AttributeByte

LEMMA NextLinks ==
  ASSUME h_version' = h_version, NEW m, m = memory', NEW o, NEW f
  PROVE  Link(memory, o, f)' = Link(m, o, f)
<1>1. Early' = Early /\ Field' = Field
  BY Steady
<1>2. object_address(o)' = object_address(o)
  BY <1>1, Zenon DEF object_address
<1> QED BY <1>1, <1>2, Zenon DEF Link

LEMMA NextBits ==
  ASSUME h_version' = h_version, NEW m, m = memory', NEW o, NEW a
  PROVE  IsSet(memory, o, a)' = IsSet(m, o, a)
<1>1. Early' = Early
  BY Steady
<1>2. object_address(o)' = object_address(o)
  BY <1>1, Zenon DEF object_address
<1> QED BY <1>2, Zenon DEF IsSet, AttributeByte

LEMMA NextForest ==
  ASSUME h_version' = h_version, NEW p, NEW s, NEW c, NEW L
  PROVE  Forest(p, s, c, L)' <=> Forest(p, s, c, L)
<1>1. Object' = Object /\ Links' = Links
  BY Steady
<1> QED BY <1>1, Zenon DEF Forest, Typed, Once, Chained, Everywhere, At

LEMMA NextTree ==
  ASSUME h_version' = h_version, NEW m, m = memory', NEW L
  PROVE  Tree(memory, L)' <=> Tree(m, L)
<1>1. Object' = Object /\ Memory' = Memory
  BY Steady, SteadyEntries
<1>2. \A o, f : Link(memory, o, f)' = Link(m, o, f)
  BY NextLinks
<1>3. /\ Parents(memory)' = Parents(m) /\ Siblings(memory)' = Siblings(m)
      /\ Firsts(memory)' = Firsts(m)
  BY <1>1, <1>2, Zenon DEF Parents, Siblings, Firsts
<1>4. PICK p, s, c : p = Parents(m) /\ s = Siblings(m) /\ c = Firsts(m)
  OBVIOUS
<1>5. Forest(Parents(memory), Siblings(memory), Firsts(memory), L)' <=> Forest(p, s, c, L)
  <2>1. Forest(p, s, c, L)' <=> Forest(p, s, c, L)
    BY NextForest
  <2>2. Forest(Parents(memory), Siblings(memory), Firsts(memory), L)' <=> Forest(p, s, c, L)'
    BY <1>3, <1>4, Zenon
  <2> QED BY <2>1, <2>2, Zenon
<1> QED BY <1>1, <1>4, <1>5, Zenon DEF Tree

(* The lists that the game has are in memory, or will be again.            *)
Before(o, p, y, L) ==
  \E k, j \in 1..Len(L[p]) : j < k /\ L[p][k] = o /\ L[p][j] = y

Underway(z, L) ==
  /\ at = "search"
  /\ Searching(memory, object, parent, older_sibling, z, L)
  /\ Before(object, parent, younger_sibling, L)

Ready(L) == at = "idle" /\ Tree(memory, L)

Present(L) == Ready(L) \/ \E z : Underway(z, L)

(* The inductive invariant.                                                *)
IInv ==
  /\ Known
  /\ {object, destination, parent, older_sibling, younger_sibling} \subseteq Links
  /\ \E L : Present(L)

LEMMA NextUnderway ==
  ASSUME h_version' = h_version, at' = "search",
         NEW e, e = memory', NEW o, o = object', NEW p, p = parent', NEW v, v = older_sibling',
         NEW y, y = younger_sibling', NEW z, NEW L,
         Searching(e, o, p, v, z, L), Before(o, p, y, L)
  PROVE  Underway(z, L)'
<1>1. Object' = Object /\ Links' = Links /\ Memory' = Memory
  BY Steady, SteadyEntries
<1>2. Tree(z, L)' <=> Tree(z, L)
  <2>1. \A x, f : Link(z, x, f)' = Link(z, x, f)
    BY SteadyLinks
  <2>2. Parents(z)' = Parents(z) /\ Siblings(z)' = Siblings(z) /\ Firsts(z)' = Firsts(z)
    BY <1>1, <2>1, Zenon DEF Parents, Siblings, Firsts
  <2>3. PICK q, s, c : q = Parents(z) /\ s = Siblings(z) /\ c = Firsts(z)
    OBVIOUS
  <2>4. Forest(q, s, c, L)' <=> Forest(q, s, c, L)
    BY NextForest
  <2>5. Forest(Parents(z), Siblings(z), Firsts(z), L)' <=> Forest(q, s, c, L)'
    BY <2>2, <2>3, Zenon
  <2> QED BY <1>1, <2>3, <2>4, <2>5, Zenon DEF Tree
<1>3. Link(memory, o, "parent")' = Link(e, o, "parent")
      /\ Link(memory, o, "sibling")' = Link(e, o, "sibling")
  BY NextLinks
<1>4. Link(memory, object, "parent")' = Link(memory, o, "parent")'
      /\ Link(memory, object, "sibling")' = Link(memory, o, "sibling")'
  BY Zenon
<1>5. SetLink(SetLink(memory, object, "parent", parent), object, "sibling", older_sibling)'
        = SetLink(SetLink(e, o, "parent", p), o, "sibling", v)
  <2>1. Early' = Early /\ Field' = Field
    BY Steady
  <2>2. object_address(object)' = object_address(o)
    BY <2>1, Zenon DEF object_address
  <2>3. PICK a : a = SetLink(e, o, "parent", p)
    OBVIOUS
  <2>4. SetLink(memory, object, "parent", parent)' = a
    <3>1. SetLink(memory, object, "parent", parent)' = SetLink(e, o, "parent", p)
      BY <2>1, <2>2, ZenonT(60) DEF SetLink
    <3> QED BY <2>3, <3>1, Zenon
  <2>5. SetLink(a, object, "sibling", older_sibling)' = SetLink(a, o, "sibling", v)
    BY <2>1, <2>2, ZenonT(60) DEF SetLink
  <2> QED BY <2>3, <2>4, <2>5, Zenon
<1>6. Searching(memory, object, parent, older_sibling, z, L)'
  BY <1>1, <1>2, <1>3, <1>4, <1>5, Zenon DEF Searching
<1>7. Before(object, parent, younger_sibling, L)'
  BY Zenon DEF Before
<1> QED BY <1>6, <1>7, Zenon DEF Underway
-----------------------------------------------------------------------------
(* The lists without an object.                                            *)
LEMMA NothingFirst ==
  ASSUME NEW S, NEW t \in Seq(S), NEW e, \A i \in 1..Len(t) : t[i] # e
  PROVE  RemoveFirst(t, e) = t
BY Zenon DEF RemoveFirst

LEMMA FirstRemoved ==
  ASSUME NEW S, NEW t \in Seq(S), NEW k \in 1..Len(t), NEW e, t[k] = e,
         \A i, j \in 1..Len(t) : t[i] = t[j] => i = j
  PROVE  RemoveFirst(t, e) = RemoveAt(t, k)
<1>1. {i \in 1..Len(t) : t[i] = e} = {k}
  BY Zenon
<1>2. k \in Int
  BY LenProperties
<1>3. Min({k}) = k
  <2>1. \E x \in {k} : \A y \in {k} : x <= y
    BY <1>2
  <2>2. Min({k}) \in {k}
    BY <2>1, Zenon DEF Min
  <2> QED BY <2>2
<1>4. SelectInSeq(t, LAMBDA v : v = e) = k
  BY <1>1, <1>3, Zenon DEF SelectInSeq
<1>5. \E i \in 1..Len(t) : t[i] = e
  OBVIOUS
<1> QED BY <1>4, <1>5, Zenon DEF RemoveFirst

Taken(L, o) == [e \in Object |-> RemoveFirst(L[e], o)]

LEMMA TakenNowhere ==
  ASSUME Known, NEW m, NEW L, Tree(m, L), NEW o \in Object, Link(m, o, "parent") = 0
  PROVE  Taken(L, o) = L
<1>1. Forest(Parents(m), Siblings(m), Firsts(m), L)
  BY Zenon DEF Tree
<1>2. L \in [Object -> Seq(Object)]
  BY <1>1, Zenon DEF Forest, Typed
<1>3. Parents(m)[o] = 0
  BY DEF Parents
<1>4. ASSUME NEW e \in Object PROVE RemoveFirst(L[e], o) = L[e]
  <2>1. L[e] \in Seq(Object)
    BY <1>2
  <2>2. \A i \in 1..Len(L[e]) : Parents(m)[L[e][i]] = e
    BY <1>1, Zenon DEF Forest, Chained
  <2>3. e # 0
    BY Naturals
  <2>4. \A i \in 1..Len(L[e]) : L[e][i] # o
    BY <2>2, <2>3, <1>3
  <2> QED BY <2>1, <2>4, NothingFirst
<1>5. Taken(L, o) = [e \in Object |-> L[e]]
  BY <1>4, Zenon DEF Taken
<1> QED BY <1>2, <1>5

LEMMA TakenSomewhere ==
  ASSUME Known, NEW m, NEW L, Tree(m, L), NEW o \in Object,
         NEW p \in Object, NEW k \in 1..Len(L[p]), L[p][k] = o
  PROVE  Taken(L, o) = [L EXCEPT ![p] = RemoveAt(L[p], k)]
<1>1. Forest(Parents(m), Siblings(m), Firsts(m), L)
  BY Zenon DEF Tree
<1>2. L \in [Object -> Seq(Object)]
  BY <1>1, Zenon DEF Forest, Typed
<1>3. Parents(m)[o] = p
  BY <1>1, Zenon DEF Forest, Chained
<1>4. ASSUME NEW e \in Object, e # p PROVE RemoveFirst(L[e], o) = L[e]
  <2>1. L[e] \in Seq(Object)
    BY <1>2
  <2>2. \A i \in 1..Len(L[e]) : Parents(m)[L[e][i]] = e
    BY <1>1, Zenon DEF Forest, Chained
  <2>3. \A i \in 1..Len(L[e]) : L[e][i] # o
    BY <2>2, <1>3, <1>4
  <2> QED BY <2>1, <2>3, NothingFirst
<1>5. RemoveFirst(L[p], o) = RemoveAt(L[p], k)
  <2>1. L[p] \in Seq(Object)
    BY <1>2
  <2>2. \A i, j \in 1..Len(L[p]) : L[p][i] = L[p][j] => i = j
    BY <1>1, Zenon DEF Forest, Once
  <2> QED BY <2>1, <2>2, FirstRemoved
<1>6. Taken(L, o) = [e \in Object |-> IF e = p THEN RemoveAt(L[p], k) ELSE L[e]]
  BY <1>4, <1>5, Zenon DEF Taken
<1>7. PICK r : r = RemoveAt(L[p], k)
  OBVIOUS
<1>8. [L EXCEPT ![p] = r] = [e \in Object |-> IF e = p THEN r ELSE L[e]]
  BY <1>2
<1> QED BY <1>6, <1>7, <1>8, Zenon
-----------------------------------------------------------------------------
(* The steps.                                                              *)
LEMMA NextReady ==
  ASSUME h_version' = h_version, at' = "idle", NEW m, m = memory', NEW L, Tree(m, L)
  PROVE  Ready(L)'
<1>1. Tree(memory, L)'
  BY NextTree
<1> QED BY <1>1, Zenon DEF Ready

LEMMA IdleFacts ==
  ASSUME NEW m, Idle(m)
  PROVE  /\ h_version' = h_version /\ at' = "idle" /\ memory' = m
         /\ object' = 0 /\ destination' = 0
         /\ parent' = 0 /\ older_sibling' = 0 /\ younger_sibling' = 0
BY Zenon DEF Idle

AttributesSame == \A x \in Object, a \in Attribute : IsSet(memory, x, a)' <=> IsSet(memory, x, a)

LEMMA MoveStep ==
  ASSUME Known, NEW L, Ready(L), NEW o \in Object, NEW d \in Links, Move(o, d)
  PROVE  /\ h_version' = h_version
         /\ {object', destination', parent', older_sibling', younger_sibling'} \subseteq Links
         /\ \/ \E z : Underway(z, L)'
            \/ \E K : K = Put(Taken(L, o), o, d) /\ Ready(K)'
         /\ AttributesSame
<1>1. Tree(memory, L) /\ at = "idle"
  BY Zenon DEF Ready
<1>2. 0 \in Links /\ 0 \notin Object
  BY Naturals DEF Links
<1>3. PICK p \in Links : p = Link(memory, o, "parent")
  BY <1>1, TreeLinks
<1>4. PICK v \in Links : v = Link(memory, o, "sibling")
  BY <1>1, TreeLinks
<1>5. memory \in Memory
  BY <1>1, Zenon DEF Tree
<1>6. PICK lists : lists = Put(Taken(L, o), o, d)
  OBVIOUS
<1>7. CASE p = 0
  <2>1. PICK m : m = Linked(memory, o, d)
    OBVIOUS
  <2>2. Idle(m)
    BY <1>3, <1>7, <2>1, Zenon DEF Move
  <2>3. Tree(m, lists)
    <3>1. Taken(L, o) = L
      BY <1>1, <1>3, <1>7, TakenNowhere
    <3>2. Tree(Linked(memory, o, d), Put(L, o, d))
      BY <1>1, <1>3, <1>7, LinkedTree
    <3> QED BY <1>6, <2>1, <3>1, <3>2, Zenon
  <2>4. \A x \in Object, a \in Attribute : IsSet(m, x, a) <=> IsSet(memory, x, a)
    BY <1>5, <2>1, LinkedAttributes
  <2>5. /\ h_version' = h_version /\ at' = "idle" /\ memory' = m
        /\ {object', destination', parent', older_sibling', younger_sibling'} \subseteq Links
    BY <1>2, <2>2, IdleFacts
  <2>6. Ready(lists)'
    BY <2>3, <2>5, NextReady
  <2>7. AttributesSame
    BY <2>4, <2>5, NextBits DEF AttributesSame
  <2> QED BY <1>6, <2>5, <2>6, <2>7, Zenon
<1>8. CASE p # 0 /\ Link(memory, p, "child") = o
  <2>0. p \in Object
    BY <1>8 DEF Links
  <2>1. PICK c : c = SetLink(Detached(o), p, "child", v)
    OBVIOUS
  <2>2. /\ 1 \in 1..Len(L[p]) /\ L[p][1] = o
        /\ Tree(c, [L EXCEPT ![p] = RemoveAt(L[p], 1)])
        /\ Link(c, o, "parent") = 0
        /\ \A x \in Object, a \in Attribute : IsSet(c, x, a) <=> IsSet(memory, x, a)
    BY <1>1, <1>3, <1>4, <1>8, <2>0, <2>1, FirstCut
  <2>3. PICK m : m = Linked(c, o, d)
    OBVIOUS
  <2>4. Idle(m)
    BY <1>3, <1>4, <1>8, <2>1, <2>3, Zenon DEF Move
  <2>5. Tree(m, lists)
    <3>1. Taken(L, o) = [L EXCEPT ![p] = RemoveAt(L[p], 1)]
      BY <1>1, <2>0, <2>2, TakenSomewhere
    <3>2. PICK K : K = [L EXCEPT ![p] = RemoveAt(L[p], 1)]
      OBVIOUS
    <3>3. Tree(c, K)
      BY <2>2, <3>2, Zenon
    <3>4. Tree(Linked(c, o, d), Put(K, o, d))
      BY <2>2, <3>3, LinkedTree
    <3> QED BY <1>6, <2>3, <3>1, <3>2, <3>4, Zenon
  <2>6. \A x \in Object, a \in Attribute : IsSet(m, x, a) <=> IsSet(memory, x, a)
    <3>1. c \in Memory
      BY <2>2, Zenon DEF Tree
    <3>2. \A x \in Object, a \in Attribute : IsSet(m, x, a) <=> IsSet(c, x, a)
      BY <2>3, <3>1, LinkedAttributes
    <3> QED BY <2>2, <3>2, Zenon
  <2>7. /\ h_version' = h_version /\ at' = "idle" /\ memory' = m
        /\ {object', destination', parent', older_sibling', younger_sibling'} \subseteq Links
    BY <1>2, <2>4, IdleFacts
  <2>8. Ready(lists)'
    BY <2>5, <2>7, NextReady
  <2>9. AttributesSame
    BY <2>6, <2>7, NextBits DEF AttributesSame
  <2> QED BY <1>6, <2>7, <2>8, <2>9, Zenon
<1>9. CASE p # 0 /\ Link(memory, p, "child") # o
  <2>0. p \in Object
    BY <1>9 DEF Links
  <2>1. PICK e : e = Detached(o)
    OBVIOUS
  <2>2. PICK z : z = SetLink(SetLink(e, o, "parent", p), o, "sibling", v)
    OBVIOUS
  <2>3. /\ e \in Memory /\ Tree(z, L)
        /\ Link(e, o, "parent") = 0 /\ Link(e, o, "sibling") = 0
        /\ \A x \in Object, a \in Attribute : IsSet(e, x, a) <=> IsSet(memory, x, a)
        /\ \E k \in 1..Len(L[p]) :
             /\ 1 < k /\ L[p][k] = o
             /\ 1 \in 1..Len(L[p]) /\ Link(memory, p, "child") = L[p][1]
    BY <1>1, <1>3, <1>4, <1>9, <2>0, <2>1, <2>2, SearchBegun
  <2>4. PICK y \in Links : y = Link(memory, p, "child")
    BY <1>1, <2>0, TreeLinks
  <2>5. /\ h_version' = h_version /\ at' = "search" /\ memory' = e
        /\ object' = o /\ destination' = d
        /\ parent' = p /\ older_sibling' = v /\ younger_sibling' = y
    BY <1>3, <1>4, <1>9, <2>1, <2>4, Zenon DEF Move
  <2>6. o \in Links
    BY DEF Links
  <2>7. Searching(e, o, p, v, z, L)
    BY <1>4, <2>0, <2>2, <2>3, Zenon DEF Searching
  <2>8. Before(o, p, y, L)
    BY <2>3, <2>4, Zenon DEF Before
  <2>9. Underway(z, L)'
    BY <2>5, <2>7, <2>8, NextUnderway
  <2>10. AttributesSame
    BY <2>3, <2>5, NextBits DEF AttributesSame
  <2> QED BY <2>5, <2>6, <2>9, <2>10
<1> QED BY <1>7, <1>8, <1>9

LEMMA SearchStep ==
  ASSUME Known, NEW L, NEW z, Underway(z, L),
         {object, destination, parent, older_sibling, younger_sibling} \subseteq Links, Search
  PROVE  /\ h_version' = h_version
         /\ {object', destination', parent', older_sibling', younger_sibling'} \subseteq Links
         /\ \/ Underway(z, L)'
            \/ \E K : K = Put(Taken(L, object), object, destination) /\ Ready(K)'
         /\ AttributesSame
<1>1. PICK e, o, p, v, y, d :
        /\ e = memory /\ o = object /\ p = parent
        /\ v = older_sibling /\ y = younger_sibling /\ d = destination
  OBVIOUS
<1>2. Searching(e, o, p, v, z, L) /\ Before(o, p, y, L)
  BY <1>1, Zenon DEF Underway
<1>3. e \in Memory /\ o \in Object /\ p \in Object /\ v \in Links /\ d \in Links /\ Tree(z, L)
  BY <1>1, <1>2 DEF Searching
<1>4. PICK k \in 1..Len(L[p]), j \in 1..Len(L[p]) : j < k /\ L[p][k] = o /\ L[p][j] = y
  BY <1>2, Zenon DEF Before
<1>5. /\ y \in Object
      /\ j + 1 \in 1..Len(L[p]) /\ j + 1 <= k
      /\ Link(e, y, "sibling") = L[p][j + 1]
      /\ L[p][j + 1] = o <=> j + 1 = k
  BY <1>2, <1>4, SearchAhead
<1>6. j \in Nat /\ k \in Nat
  BY <1>5
<1>7. PICK w : w = Link(e, y, "sibling")
  OBVIOUS
<1>8. 0 \in Links
  BY DEF Links
<1>9. CASE w = o
  <2>1. PICK c : c = SetLink(e, y, "sibling", v)
    OBVIOUS
  <2>2. k # 1 /\ y = L[p][k - 1]
    <3>1. j + 1 = k
      BY <1>5, <1>7, <1>9
    <3>2. k # 1 /\ k - 1 = j
      BY <3>1, <1>4, <1>6
    <3> QED BY <3>2, <1>4
  <2>3. /\ Tree(c, [L EXCEPT ![p] = RemoveAt(L[p], k)])
        /\ Link(c, o, "parent") = 0
        /\ \A x \in Object, a \in Attribute : IsSet(c, x, a) <=> IsSet(e, x, a)
    <3>1. c = SetLink(e, L[p][k - 1], "sibling", v)
      BY <2>1, <2>2, Zenon
    <3> QED BY <3>1, <2>2, <1>2, <1>4, LaterCut
  <2>4. PICK m : m = Linked(c, o, d)
    OBVIOUS
  <2>5. Idle(m)
    BY <1>1, <1>5, <1>7, <1>9, <2>1, <2>4, Zenon DEF Search
  <2>6. PICK lists : lists = Put(Taken(L, o), o, d)
    OBVIOUS
  <2>7. Tree(m, lists)
    <3>1. Taken(L, o) = [L EXCEPT ![p] = RemoveAt(L[p], k)]
      BY <1>3, <1>4, TakenSomewhere
    <3>2. PICK K : K = [L EXCEPT ![p] = RemoveAt(L[p], k)]
      OBVIOUS
    <3>3. Tree(c, K)
      BY <2>3, <3>2, Zenon
    <3>4. Tree(Linked(c, o, d), Put(K, o, d))
      BY <1>3, <2>3, <3>3, LinkedTree
    <3> QED BY <2>4, <2>6, <3>1, <3>2, <3>4, Zenon
  <2>8. \A x \in Object, a \in Attribute : IsSet(m, x, a) <=> IsSet(e, x, a)
    <3>1. c \in Memory
      BY <2>3, Zenon DEF Tree
    <3>2. \A x \in Object, a \in Attribute : IsSet(m, x, a) <=> IsSet(c, x, a)
      BY <1>3, <2>4, <3>1, LinkedAttributes
    <3> QED BY <2>3, <3>2, Zenon
  <2>9. /\ h_version' = h_version /\ at' = "idle" /\ memory' = m
        /\ {object', destination', parent', older_sibling', younger_sibling'} \subseteq Links
    BY <1>8, <2>5, IdleFacts
  <2>10. Ready(lists)'
    BY <2>7, <2>9, NextReady
  <2>11. AttributesSame
    BY <1>1, <2>8, <2>9, NextBits DEF AttributesSame
  <2> QED BY <1>1, <2>6, <2>9, <2>10, <2>11, Zenon
<1>10. CASE w # o
  <2>1. /\ h_version' = h_version /\ memory' = e /\ at' = at
        /\ object' = o /\ destination' = d /\ parent' = p /\ older_sibling' = v
        /\ younger_sibling' = w
    BY <1>1, <1>5, <1>7, <1>10, Zenon DEF Search
  <2>2. at' = "search"
    BY <2>1, Zenon DEF Underway
  <2>3. j + 1 # k /\ j + 1 < k
    BY <1>5, <1>6, <1>7, <1>10
  <2>4. Before(o, p, w, L)
    BY <1>4, <1>5, <1>7, <2>3 DEF Before
  <2>5. Underway(z, L)'
    BY <1>2, <2>1, <2>2, <2>4, NextUnderway
  <2>6. w \in Links
    <3>1. L \in [Object -> Seq(Object)]
      BY <1>3, Zenon DEF Tree, Forest, Typed
    <3>2. L[p][j + 1] \in Object
      BY <1>3, <1>5, <3>1, ListFacts
    <3> QED BY <3>2, <1>5, <1>7 DEF Links
  <2>7. AttributesSame
    BY <1>1, <2>1, NextBits DEF AttributesSame
  <2>8. {object', destination', parent', older_sibling', younger_sibling'} \subseteq Links
    BY <1>1, <2>1, <2>6
  <2> QED BY <2>1, <2>5, <2>7, <2>8
<1> QED BY <1>9, <1>10

LEMMA AttributeStep ==
  ASSUME Known, NEW L, Ready(L), NEW o \in Object, NEW a \in Attribute, NEW on \in BOOLEAN,
         ChangeAttr(o, a, on)
  PROVE  /\ h_version' = h_version
         /\ {object', destination', parent', older_sibling', younger_sibling'} \subseteq Links
         /\ Ready(L)'
         /\ \A x \in Object, b \in Attribute :
              IsSet(memory, x, b)' <=> IF x = o /\ b = a THEN on ELSE IsSet(memory, x, b)
<1>1. Tree(memory, L)
  BY Zenon DEF Ready
<1>2. memory \in Memory
  BY <1>1, Zenon DEF Tree
<1>3. PICK m : m = WithAttribute(o, a, on)
  OBVIOUS
<1>4. /\ m \in Memory
      /\ \A p \in Object, f \in Fields : Link(m, p, f) = Link(memory, p, f)
      /\ \A x \in Object, b \in Attribute :
           IsSet(m, x, b) <=> IF x = o /\ b = a THEN on ELSE IsSet(memory, x, b)
  BY <1>2, <1>3, AttributeWritten
<1>5. /\ h_version' = h_version /\ at' = "idle" /\ memory' = m
      /\ {object', destination', parent', older_sibling', younger_sibling'} \subseteq Links
  <2>1. Idle(m)
    BY <1>3, Zenon DEF ChangeAttr
  <2>2. 0 \in Links
    BY DEF Links
  <2> QED BY <2>1, <2>2, IdleFacts
<1>6. Parents(m) = Parents(memory) /\ Siblings(m) = Siblings(memory) /\ Firsts(m) = Firsts(memory)
  BY <1>4, Zenon DEF Parents, Siblings, Firsts, Fields
<1>7. Tree(m, L)
  BY <1>1, <1>4, <1>6, Zenon DEF Tree
<1>8. Ready(L)'
  BY <1>5, <1>7, NextReady
<1>9. \A x \in Object, b \in Attribute :
        IsSet(memory, x, b)' <=> IF x = o /\ b = a THEN on ELSE IsSet(memory, x, b)
  BY <1>4, <1>5, NextBits
<1> QED BY <1>5, <1>8, <1>9

(* The tables begin without children, and every step keeps the invariant.  *)
LEMMA InvariantInit == Init => IInv
<1> SUFFICES ASSUME Init PROVE IInv
  OBVIOUS
<1>1. Known
  BY Zenon DEF Init, Known
<1>2. PICK m : m = [a \in Entries(Object) |-> 0]
  OBVIOUS
<1>3. memory = m /\ m \in Memory
  BY <1>2 DEF Init, Memory
<1>4. 0 \in Links
  BY DEF Links
<1>5. \A o \in Object, f \in Fields : Link(m, o, f) = 0
  <2> SUFFICES ASSUME NEW o \in Object, NEW f \in Fields PROVE Link(m, o, f) = 0
    OBVIOUS
  <2>1. PICK a \in Nat : a = Place(o, f)
    BY <1>1, PlaceInEntries
  <2>2. a \in Entries(Object) /\ (~Early => a + 1 \in Entries(Object))
    BY <1>1, <2>1, PlaceInEntries
  <2>3. m[a] = 0 /\ (~Early => m[a + 1] = 0)
    BY <1>2, <2>2
  <2>4. Link(m, o, f) = IF Early THEN m[a] ELSE 256 * m[a] + m[a + 1]
    BY <2>1, Zenon DEF Link, Place
  <2> QED BY <2>3, <2>4
<1>6. PICK p : p = [o \in Object |-> 0]
  OBVIOUS
<1>7. Parents(m) = p /\ Siblings(m) = p /\ Firsts(m) = p
  BY <1>5, <1>6, Zenon DEF Parents, Siblings, Firsts, Fields
<1>8. PICK L : L = [o \in Object |-> <<>>]
  OBVIOUS
<1>9. \A o \in Object : L[o] = <<>> /\ Len(L[o]) = 0 /\ p[o] = 0
  BY <1>6, <1>8
<1>10. Typed(p, p, p, L)
  BY <1>4, <1>6, <1>8 DEF Typed
<1>11. Once(L) /\ Everywhere(p, p, L) /\ Chained(p, p, p, L)
  BY <1>9 DEF Once, Everywhere, Chained, At
<1>12. Tree(m, L)
  BY <1>3, <1>7, <1>10, <1>11, Zenon DEF Tree, Forest
<1>13. Present(L)
  BY <1>3, <1>12, Zenon DEF Present, Ready, Init
<1>14. {object, destination, parent, older_sibling, younger_sibling} \subseteq Links
  BY <1>4 DEF Init
<1> QED BY <1>1, <1>13, <1>14, Zenon DEF IInv

(* An opcode begins when the lists are whole.                              *)
LEMMA ReadyWhenIdle ==
  ASSUME NEW L, Present(L), at = "idle" PROVE Ready(L)
BY DEF Present, Underway

LEMMA InvariantNext ==
  ASSUME Known, h_version' = h_version, NEW L, Present(L)',
         {object', destination', parent', older_sibling', younger_sibling'} \subseteq Links
  PROVE  IInv'
<1>1. Known' /\ Links' = Links
  BY Steady
<1>2. {object, destination, parent, older_sibling, younger_sibling}' \subseteq Links'
  BY <1>1
<1> QED BY <1>1, <1>2 DEF IInv

LEMMA MoveInvariant ==
  ASSUME IInv, NEW o \in Object, NEW d \in Links, Move(o, d) PROVE IInv'
<1>1. Known
  BY Zenon DEF IInv
<1>2. PICK L : Ready(L)
  BY ReadyWhenIdle DEF IInv, Move
<1>3. /\ h_version' = h_version
      /\ {object', destination', parent', older_sibling', younger_sibling'} \subseteq Links
      /\ \/ \E z : Underway(z, L)'
         \/ \E K : K = Put(Taken(L, o), o, d) /\ Ready(K)'
  BY <1>1, <1>2, MoveStep
<1>4. PICK K : Present(K)'
  <2>1. CASE \E z : Underway(z, L)'
    BY <2>1, Zenon DEF Present
  <2>2. CASE \E K : K = Put(Taken(L, o), o, d) /\ Ready(K)'
    BY <2>2, Zenon DEF Present
  <2> QED BY <1>3, <2>1, <2>2
<1> QED BY <1>1, <1>3, <1>4, InvariantNext

LEMMA SearchInvariant ==
  ASSUME IInv, Search PROVE IInv'
<1>1. /\ Known
      /\ {object, destination, parent, older_sibling, younger_sibling} \subseteq Links
  BY Zenon DEF IInv
<1>2. PICK L, z : Underway(z, L)
  BY DEF IInv, Present, Ready, Search
<1>3. /\ h_version' = h_version
      /\ {object', destination', parent', older_sibling', younger_sibling'} \subseteq Links
      /\ \/ Underway(z, L)'
         \/ \E K : K = Put(Taken(L, object), object, destination) /\ Ready(K)'
  BY <1>1, <1>2, SearchStep
<1>4. PICK K : Present(K)'
  <2>1. CASE Underway(z, L)'
    BY <2>1, Zenon DEF Present
  <2>2. CASE \E K : K = Put(Taken(L, object), object, destination) /\ Ready(K)'
    BY <2>2, Zenon DEF Present
  <2> QED BY <1>3, <2>1, <2>2
<1> QED BY <1>1, <1>3, <1>4, InvariantNext

LEMMA AttributeInvariant ==
  ASSUME IInv, NEW o \in Object, NEW a \in Attribute, NEW on \in BOOLEAN, ChangeAttr(o, a, on)
  PROVE  IInv'
<1>1. Known
  BY Zenon DEF IInv
<1>2. PICK L : Ready(L)
  BY ReadyWhenIdle DEF IInv, ChangeAttr
<1>3. /\ h_version' = h_version /\ Ready(L)'
      /\ {object', destination', parent', older_sibling', younger_sibling'} \subseteq Links
  BY <1>1, <1>2, AttributeStep
<1>4. Present(L)'
  BY <1>3, Zenon DEF Present
<1> QED BY <1>1, <1>3, <1>4, InvariantNext

LEMMA StutterPresent ==
  ASSUME NEW L, Present(L), UNCHANGED vars PROVE Present(L)'
<1>1. /\ h_version' = h_version /\ memory' = memory /\ at' = at
      /\ object' = object /\ destination' = destination /\ parent' = parent
      /\ older_sibling' = older_sibling /\ younger_sibling' = younger_sibling
  BY DEF vars, locals
<1>2. CASE Ready(L)
  <2>1. at' = "idle" /\ Tree(memory, L)
    BY <1>1, <1>2, Zenon DEF Ready
  <2>2. Ready(L)'
    BY <1>1, <2>1, NextReady
  <2> QED BY <2>2, Zenon DEF Present
<1>3. CASE \E z : Underway(z, L)
  <2>1. PICK z : Underway(z, L)
    BY <1>3
  <2>2. PICK e, o, p, v, y :
          /\ e = memory /\ o = object /\ p = parent /\ v = older_sibling /\ y = younger_sibling
    OBVIOUS
  <2>3. at' = "search" /\ Searching(e, o, p, v, z, L) /\ Before(o, p, y, L)
    BY <1>1, <2>1, <2>2, Zenon DEF Underway
  <2>4. Underway(z, L)'
    BY <1>1, <2>2, <2>3, NextUnderway
  <2> QED BY <2>4, Zenon DEF Present
<1> QED BY <1>2, <1>3 DEF Present

LEMMA InvariantStep ==
  ASSUME IInv, [Next]_vars PROVE IInv'
<1>1. ASSUME NEW o \in Object, z_remove_obj(o) PROVE IInv'
  <2>1. 0 \in Links /\ Move(o, 0)
    BY <1>1 DEF Links, z_remove_obj
  <2> QED BY <2>1, MoveInvariant
<1>2. ASSUME NEW o \in Object, NEW d \in Object, z_insert_obj(o, d) PROVE IInv'
  <2>1. d \in Links /\ Move(o, d)
    BY <1>2 DEF Links, z_insert_obj
  <2> QED BY <2>1, MoveInvariant
<1>3. ASSUME NEW o \in Object, NEW a \in Attribute, z_set_attr(o, a) \/ z_clear_attr(o, a)
      PROVE  IInv'
  <2>1. PICK on \in BOOLEAN : ChangeAttr(o, a, on)
    BY <1>3 DEF z_set_attr, z_clear_attr
  <2> QED BY <2>1, AttributeInvariant
<1>4. CASE Search
  BY <1>4, SearchInvariant
<1>5. CASE UNCHANGED vars
  <2>1. /\ Known /\ h_version' = h_version
        /\ {object', destination', parent', older_sibling', younger_sibling'} \subseteq Links
    BY <1>5 DEF IInv, vars, locals
  <2>2. PICK L : Present(L)
    BY Zenon DEF IInv
  <2>3. Present(L)'
    BY <1>5, <2>2, StutterPresent
  <2> QED BY <2>1, <2>3, InvariantNext
<1> QED BY <1>1, <1>2, <1>3, <1>4, <1>5 DEF Next
-----------------------------------------------------------------------------
LEMMA FieldNames == DOMAIN Field = Fields
<1>1. CASE Early
  BY <1>1 DEF Field, Fields
<1>2. CASE ~Early
  BY <1>2 DEF Field, Fields
<1> QED BY <1>1, <1>2

LEMMA Typing ==
  ASSUME IInv PROVE TypeOK
<1>1. /\ Known
      /\ {object, destination, parent, older_sibling, younger_sibling} \subseteq Links
  BY Zenon DEF IInv
<1>2. PICK L : Present(L)
  BY Zenon DEF IInv
<1>3. CASE Ready(L)
  <2>1. Tree(memory, L) /\ at = "idle"
    BY <1>3, Zenon DEF Ready
  <2>2. \A o \in Object, f \in Fields : Link(memory, o, f) \in Links
    BY <1>1, <2>1, TreeLinks DEF Fields
  <2>3. memory \in [Entries(Object) -> 0..255]
    BY <2>1, Zenon DEF Tree, Memory
  <2>4. \A o \in Object, f \in DOMAIN Field : Link(memory, o, f) \in Links
    BY <2>2, FieldNames, Zenon
  <2> QED BY <1>1, <2>1, <2>3, <2>4 DEF TypeOK, Known
<1>4. CASE \E z : Underway(z, L)
  <2>1. PICK z : Underway(z, L)
    BY <1>4
  <2>2. PICK e, o, p, v : /\ e = memory /\ o = object /\ p = parent /\ v = older_sibling
    OBVIOUS
  <2>3. at = "search" /\ Searching(e, o, p, v, z, L)
    BY <2>1, <2>2, Zenon DEF Underway
  <2>4. e \in Memory /\ o \in Object /\ Tree(z, L)
    BY <2>3, Zenon DEF Searching
  <2>5. /\ Parents(e) = [Parents(z) EXCEPT ![o] = 0]
        /\ Siblings(e) = [Siblings(z) EXCEPT ![o] = 0]
        /\ Firsts(e) = Firsts(z)
    BY <1>1, <2>3, SearchLinks
  <2>6. /\ Parents(z) \in [Object -> Links] /\ Siblings(z) \in [Object -> Links]
        /\ Firsts(z) \in [Object -> Links]
    BY <2>4, Zenon DEF Tree, Forest, Typed
  <2>7. 0 \in Links
    BY DEF Links
  <2>8. \A x \in Object : Parents(e)[x] \in Links /\ Siblings(e)[x] \in Links /\ Firsts(e)[x] \in Links
    BY <2>5, <2>6, <2>7
  <2>9. \A x \in Object, f \in Fields : Link(e, x, f) \in Links
    BY <2>8 DEF Fields, Parents, Siblings, Firsts
  <2>10. \A x \in Object, f \in DOMAIN Field : Link(memory, x, f) \in Links
    BY <2>2, <2>9, FieldNames, Zenon
  <2>11. memory \in [Entries(Object) -> 0..255]
    BY <2>2, <2>4, Zenon DEF Memory
  <2> QED BY <1>1, <2>3, <2>10, <2>11 DEF TypeOK, Known
<1> QED BY <1>2, <1>3, <1>4 DEF Present

LEMMA Completeness ==
  ASSUME IInv PROVE ListsComplete
<1>1. TypeOK
  BY Typing
<1>2. ASSUME at = "idle", NEW o \in Object
      PROVE  /\ IsInjective(Children(memory, o))
             /\ ToSet(Children(memory, o)) = {c \in Object : z_jin(c, o)}
             /\ z_get_parent(o) = 0 => z_get_sibling(o) = 0
  <2>1. Known
    BY Zenon DEF IInv
  <2>2. PICK L : Tree(memory, L)
    BY <1>2, ReadyWhenIdle DEF IInv, Ready
  <2>3. Forest(Parents(memory), Siblings(memory), Firsts(memory), L)
    BY <2>2, Zenon DEF Tree
  <2>4. PICK l \in Seq(Object) : l = L[o] /\ l = Children(memory, o)
    <3>1. L[o] \in Seq(Object)
      BY <2>1, <2>3, ListFacts DEF Forest, Typed
    <3>2. Children(memory, o) = L[o]
      BY <2>1, <2>2, ChildrenAre
    <3> QED BY <3>1, <3>2
  <2>5. DOMAIN l = 1..Len(l) /\ \A i \in 1..Len(l) : l[i] \in Object
    BY LenProperties, ElementOfSeq
  <2>6. IsInjective(l)
    <3>1. \A j, k \in 1..Len(l) : l[j] = l[k] => j = k
      BY <2>3, <2>4, Zenon DEF Forest, Once
    <3> QED BY <3>1, <2>5, Zenon DEF IsInjective
  <2>7. \A c \in Object : z_jin(c, o) <=> Parents(memory)[c] = o
    BY <2>1, Naturals DEF z_jin, Parents
  <2>8. \A i \in 1..Len(l) : Parents(memory)[l[i]] = o
    BY <2>3, <2>4, Zenon DEF Forest, Chained
  <2>9. \A c \in Object : Parents(memory)[c] = o => \E i \in 1..Len(l) : l[i] = c
    <3>1. o # 0
      BY <2>1, Naturals
    <3>2. Everywhere(Parents(memory), Siblings(memory), L)
      BY <2>3, Zenon DEF Forest
    <3>3. \A c \in Object : Parents(memory)[c] # 0 =>
            \E i \in 1..Len(L[Parents(memory)[c]]) : L[Parents(memory)[c]][i] = c
      BY <3>2, Zenon DEF Everywhere
    <3> QED BY <3>1, <3>3, <2>4, Zenon
  <2>10. ToSet(l) = {c \in Object : z_jin(c, o)}
    BY <2>5, <2>7, <2>8, <2>9 DEF ToSet
  <2>11. z_get_parent(o) = 0 => z_get_sibling(o) = 0
    <3>1. z_get_parent(o) = Parents(memory)[o] /\ z_get_sibling(o) = Siblings(memory)[o]
      BY <2>1, Naturals DEF z_get_parent, z_get_sibling, Parents, Siblings
    <3>2. Parents(memory)[o] = 0 => Siblings(memory)[o] = 0
      BY <2>3, Zenon DEF Forest, Everywhere
    <3> QED BY <3>1, <3>2, Zenon
  <2> QED BY <2>4, <2>6, <2>10, <2>11, Zenon
<1> QED BY <1>1, <1>2, Zenon DEF ListsComplete

(* For every set of objects, in both formats and after any sequence of     *)
(* z_insert_obj, z_remove_obj, z_set_attr and z_clear_attr: the list that  *)
(* unlink_object searches ends and holds exactly the objects that name its *)
(* owner as their parent, and every link names an object, also while a     *)
(* search is under way (at is never "astray").                             *)
THEOREM ObjectLists == Spec => []ListsComplete
<1>1. Init => IInv
  BY InvariantInit
<1>2. IInv /\ [Next]_vars => IInv'
  BY InvariantStep
<1>3. IInv => ListsComplete
  BY Completeness
<1> QED BY <1>1, <1>2, <1>3, PTL DEF Spec
-----------------------------------------------------------------------------
(* What the refinement takes for the lists and for the attributes.         *)
Numbers == Union(ObjectOf)
GameChildren ==
  [o \in Numbers |-> IF o \in Object THEN Children(Settled, o) ELSE <<>>]
GameAttributes ==
  [o \in Numbers |-> {a \in Attribute : o \in Object /\ z_test_attr(o, a)}]

GameWithout(o) == [p \in Numbers |-> RemoveFirst(GameChildren[p], o)]

LEMMA NumbersUsed ==
  ASSUME Known
  PROVE  Object \subseteq Numbers /\ Attribute \subseteq Union(AttributeOf)
<1>1. PICK v \in Version : v = h_version
  BY DEF Known
<1>2. Object = ObjectOf(v) /\ Attribute = AttributeOf(v)
  BY <1>1 DEF Object, Attribute
<1> QED BY <1>2 DEF Numbers, Union

LEMMA GameStutter ==
  ASSUME GameChildren' = GameChildren, GameAttributes' = GameAttributes
  PROVE  UNCHANGED Game!vars
BY Zenon DEF Game!vars, GameChildren, GameAttributes, Numbers

LEMMA GameMove ==
  ASSUME NEW o \in Numbers, GameAttributes' = GameAttributes,
         \/ GameChildren' = GameWithout(o)
         \/ \E d \in Numbers :
              GameChildren' = [GameWithout(o) EXCEPT ![d] = <<o>> \o GameWithout(o)[d]]
  PROVE  Game!Next
<1>1. Game!Without(o) = GameWithout(o)
  <2>1. \A t : Game!RemoveFirst(t, o) = RemoveFirst(t, o)
    BY Zenon DEF Game!RemoveFirst, Game!RemoveAt, Game!SelectInSeq, Game!Min,
                 RemoveFirst, RemoveAt, SelectInSeq, Min
  <2> QED BY <2>1, Zenon DEF Game!Without, GameWithout, GameChildren, Numbers
<1>2. GameChildren' \in Game!Moved(o)
  <2>1. PICK lists : lists = GameWithout(o)
    OBVIOUS
  <2>2. Game!Moved(o) = {lists} \cup {[lists EXCEPT ![d] = <<o>> \o lists[d]] : d \in Numbers}
    BY <1>1, <2>1, Zenon DEF Game!Moved, Numbers
  <2>3. \/ GameChildren' = lists
        \/ \E d \in Numbers : GameChildren' = [lists EXCEPT ![d] = <<o>> \o lists[d]]
    BY <2>1, Zenon
  <2> QED BY <2>2, <2>3
<1>3. Game!Move
  BY <1>2, Zenon DEF Game!Move, GameChildren, GameAttributes, Numbers
<1> QED BY <1>3, Zenon DEF Game!Next

LEMMA GameSetAttribute ==
  ASSUME NEW o \in Numbers, NEW a \in Union(AttributeOf), GameChildren' = GameChildren,
         \/ GameAttributes' = [GameAttributes EXCEPT ![o] = GameAttributes[o] \cup {a}]
         \/ GameAttributes' = [GameAttributes EXCEPT ![o] = GameAttributes[o] \ {a}]
  PROVE  Game!Next
<1>1. GameAttributes' \in {[GameAttributes EXCEPT ![o] = GameAttributes[o] \cup {a}],
                           [GameAttributes EXCEPT ![o] = GameAttributes[o] \ {a}]}
  BY Zenon
<1>2. Game!SetAttribute
  BY <1>1, Zenon DEF Game!SetAttribute, GameChildren, GameAttributes, Numbers
<1> QED BY <1>2, Zenon DEF Game!Next

(* The lists that the game has are the ones in memory, or to be again.     *)
Shown(L) == [o \in Numbers |-> IF o \in Object THEN L[o] ELSE <<>>]

Showing == \A L : Known /\ Present(L) => GameChildren = Shown(L)

LEMMA ChildrenShown == Showing
<1> SUFFICES ASSUME NEW L, Known, Present(L) PROVE GameChildren = Shown(L)
  BY Zenon DEF Showing
<1>1. PICK m : m = Settled
  OBVIOUS
<1>2. Tree(m, L)
  <2>1. CASE Ready(L)
    BY <2>1, <1>1, Zenon DEF Ready, Settled
  <2>2. CASE \E z : Underway(z, L)
    <3>1. PICK z : Underway(z, L)
      BY <2>2
    <3>2. at # "idle"
      BY <3>1 DEF Underway
    <3>3. z = m /\ Tree(z, L)
      BY <1>1, <3>1, <3>2, Zenon DEF Underway, Searching, Settled
    <3> QED BY <3>3, Zenon
  <2> QED BY <2>1, <2>2 DEF Present
<1>3. \A o \in Object : Children(m, o) = L[o]
  BY <1>2, ChildrenAre
<1> QED BY <1>1, <1>3, Zenon DEF GameChildren, Shown

LEMMA ChildrenShownAfter ==
  ASSUME Known, h_version' = h_version, NEW K, Present(K)'
  PROVE  GameChildren' = Shown(K)
<1>1. Showing'
  BY ChildrenShown, PTL
<1>2. Known' /\ Object' = Object
  BY Steady
<1>3. Shown(K)' = Shown(K)
  BY <1>2, Zenon DEF Shown, Numbers
<1> QED BY <1>1, <1>2, <1>3, Zenon DEF Showing

(* An object is taken out of all lists, and put first into one.            *)
LEMMA ShownTaken ==
  ASSUME Known, NEW L, GameChildren = Shown(L), NEW o \in Object
  PROVE  GameWithout(o) = Shown(Taken(L, o))
<1>1. \A p \in Object : p \in Numbers /\ Taken(L, o)[p] = RemoveFirst(L[p], o)
  BY NumbersUsed DEF Taken
<1>2. RemoveFirst(<<>>, o) = <<>>
  <2>1. PICK t \in Seq(Object) : t = <<>> /\ \A i \in 1..Len(t) : t[i] # o
    <3>1. <<>> \in Seq(Object) /\ \A i \in 1..Len(<<>>) : <<>>[i] # o
      OBVIOUS
    <3> QED BY <3>1, Zenon
  <2>2. RemoveFirst(t, o) = t
    BY <2>1, NothingFirst
  <2> QED BY <2>1, <2>2, Zenon
<1>3. \A p \in Numbers : GameChildren[p] = IF p \in Object THEN L[p] ELSE <<>>
  BY Zenon DEF Shown
<1>4. \A p \in Numbers :
        RemoveFirst(GameChildren[p], o) = IF p \in Object THEN Taken(L, o)[p] ELSE <<>>
  BY <1>1, <1>2, <1>3, Zenon
<1> QED BY <1>4, Zenon DEF GameWithout, Shown

LEMMA ShownPut ==
  ASSUME Known, NEW T, DOMAIN T = Object, NEW o \in Object, NEW d \in Object
  PROVE  Shown(Put(T, o, d)) = [Shown(T) EXCEPT ![d] = <<o>> \o Shown(T)[d]]
<1>1. d # 0 /\ d \in Numbers
  BY Naturals, NumbersUsed
<1>2. PICK r : r = <<o>> \o T[d]
  OBVIOUS
<1>3. PICK K : K = [T EXCEPT ![d] = r]
  OBVIOUS
<1>4. Put(T, o, d) = K
  BY <1>1, <1>2, <1>3, Zenon DEF Put
<1>5. \A p \in Object : K[p] = IF p = d THEN r ELSE T[p]
  BY <1>3
<1>6. PICK S : S = Shown(T)
  OBVIOUS
<1>7. S = [p \in Numbers |-> IF p \in Object THEN T[p] ELSE <<>>]
  BY <1>6, Zenon DEF Shown
<1>8. S[d] = T[d]
  BY <1>1, <1>7
<1>9. [S EXCEPT ![d] = r] = [p \in Numbers |-> IF p = d THEN r ELSE S[p]]
  BY <1>7
<1>10. \A p \in Numbers :
         (IF p = d THEN r ELSE S[p]) = (IF p \in Object THEN K[p] ELSE <<>>)
  BY <1>5, <1>7
<1>11. Shown(K) = [S EXCEPT ![d] = r]
  BY <1>9, <1>10, Zenon DEF Shown
<1> QED BY <1>2, <1>4, <1>6, <1>8, <1>11, Zenon

Refines == Game!Next \/ UNCHANGED Game!vars

LEMMA SameAttributes ==
  ASSUME Known, h_version' = h_version, AttributesSame
  PROVE  GameAttributes' = GameAttributes
<1>1. Object' = Object /\ Attribute' = Attribute
  BY Steady
<1>2. ASSUME NEW o \in Numbers
      PROVE  {a \in Attribute : o \in Object /\ z_test_attr(o, a)}'
               = {a \in Attribute : o \in Object /\ z_test_attr(o, a)}
  <2>1. \A a \in Attribute : o \in Object => (z_test_attr(o, a)' <=> z_test_attr(o, a))
    BY Zenon DEF AttributesSame, z_test_attr
  <2> QED BY <1>1, <2>1
<1> QED BY <1>1, <1>2, Zenon DEF GameAttributes, Numbers

LEMMA MoveRefines ==
  ASSUME Known, NEW L, Present(L), h_version' = h_version, AttributesSame,
         NEW o \in Object, NEW d \in Links,
         \/ Present(L)'
         \/ \E K : K = Put(Taken(L, o), o, d) /\ Ready(K)'
  PROVE  Refines
<1>1. GameChildren = Shown(L)
  BY ChildrenShown, Zenon DEF Showing
<1>2. GameAttributes' = GameAttributes
  BY SameAttributes
<1>3. CASE Present(L)'
  <2>1. GameChildren' = Shown(L)
    BY <1>3, ChildrenShownAfter
  <2>2. UNCHANGED Game!vars
    BY <1>1, <1>2, <2>1, GameStutter
  <2> QED BY <2>2, Zenon DEF Refines
<1>4. CASE \E K : K = Put(Taken(L, o), o, d) /\ Ready(K)'
  <2>1. PICK K : K = Put(Taken(L, o), o, d) /\ Ready(K)'
    BY <1>4
  <2>2. Present(K)'
    BY <2>1, Zenon DEF Present
  <2>3. GameChildren' = Shown(K)
    BY <2>2, ChildrenShownAfter
  <2>4. GameWithout(o) = Shown(Taken(L, o))
    BY <1>1, ShownTaken
  <2>5. o \in Numbers
    BY NumbersUsed
  <2>6. CASE d = 0
    <3>1. GameChildren' = GameWithout(o)
      BY <2>1, <2>3, <2>4, <2>6, Zenon DEF Put
    <3> QED BY <1>2, <2>5, <3>1, GameMove DEF Refines
  <2>7. CASE d # 0
    <3>1. d \in Object /\ d \in Numbers
      BY <2>7, NumbersUsed DEF Links
    <3>2. PICK T : T = Taken(L, o)
      OBVIOUS
    <3>3. DOMAIN T = Object
      BY <3>2 DEF Taken
    <3>4. Shown(Put(T, o, d)) = [Shown(T) EXCEPT ![d] = <<o>> \o Shown(T)[d]]
      BY <3>1, <3>3, ShownPut
    <3>5. GameChildren' = [GameWithout(o) EXCEPT ![d] = <<o>> \o GameWithout(o)[d]]
      BY <2>1, <2>3, <2>4, <3>2, <3>4, Zenon
    <3> QED BY <1>2, <2>5, <3>1, <3>5, GameMove DEF Refines
  <2> QED BY <2>6, <2>7
<1> QED BY <1>3, <1>4

(* An attribute is put into a set, or taken out of it.                     *)
LEMMA AttributeRefines ==
  ASSUME IInv, NEW o \in Object, NEW a \in Attribute, NEW on \in BOOLEAN, ChangeAttr(o, a, on)
  PROVE  Refines
<1>1. Known
  BY Zenon DEF IInv
<1>2. PICK L : Ready(L)
  BY ReadyWhenIdle DEF IInv, ChangeAttr
<1>3. /\ h_version' = h_version /\ Ready(L)'
      /\ \A x \in Object, b \in Attribute :
           IsSet(memory, x, b)' <=> IF x = o /\ b = a THEN on ELSE IsSet(memory, x, b)
  BY <1>1, <1>2, AttributeStep
<1>4. Present(L) /\ Present(L)'
  BY <1>2, <1>3, Zenon DEF Present
<1>5. GameChildren' = GameChildren
  <2>1. GameChildren = Shown(L)
    BY <1>1, <1>4, ChildrenShown, Zenon DEF Showing
  <2>2. GameChildren' = Shown(L)
    BY <1>1, <1>3, <1>4, ChildrenShownAfter
  <2> QED BY <2>1, <2>2, Zenon
<1>6. Object' = Object /\ Attribute' = Attribute
  BY <1>3, Steady
<1>7. o \in Numbers /\ a \in Union(AttributeOf) /\ Object \subseteq Numbers /\ 0 \notin Object
  BY <1>1, NumbersUsed, Naturals
<1>8. \A x \in Numbers : GameAttributes[x] =
        {b \in Attribute : x \in Object /\ z_test_attr(x, b)}
  BY Zenon DEF GameAttributes
<1>9. GameAttributes' = [x \in Numbers |->
        {b \in Attribute : x \in Object /\ z_test_attr(x, b)'}]
  BY <1>6, Zenon DEF GameAttributes, Numbers
<1>10. \A x \in Object, b \in Attribute :
         z_test_attr(x, b)' <=> IF x = o /\ b = a THEN on ELSE z_test_attr(x, b)
  BY <1>3, <1>7, Zenon DEF z_test_attr
<1>11. PICK B : B = IF on THEN GameAttributes[o] \cup {a} ELSE GameAttributes[o] \ {a}
  OBVIOUS
<1>12. \A x \in Numbers :
         {b \in Attribute : x \in Object /\ z_test_attr(x, b)'}
           = IF x = o THEN B ELSE GameAttributes[x]
  <2> SUFFICES ASSUME NEW x \in Numbers
               PROVE  {b \in Attribute : x \in Object /\ z_test_attr(x, b)'}
                        = IF x = o THEN B ELSE GameAttributes[x]
    OBVIOUS
  <2>1. CASE x = o
    <3>1. \A b \in Attribute : z_test_attr(o, b)' <=> IF b = a THEN on ELSE z_test_attr(o, b)
      BY <1>10, Zenon
    <3>2. GameAttributes[o] = {b \in Attribute : o \in Object /\ z_test_attr(o, b)}
      BY <1>7, <1>8, Zenon
    <3> QED BY <2>1, <3>1, <3>2, <1>11
  <2>2. CASE x # o
    BY <2>2, <1>8, <1>10
  <2> QED BY <2>1, <2>2
<1>13. DOMAIN GameAttributes = Numbers
  BY DEF GameAttributes
<1>14. GameAttributes = [x \in Numbers |-> GameAttributes[x]]
  BY Zenon DEF GameAttributes
<1>15. GameAttributes' = [GameAttributes EXCEPT ![o] = B]
  <2>1. PICK G : G = GameAttributes
    OBVIOUS
  <2>2. [G EXCEPT ![o] = B] = [x \in Numbers |-> IF x = o THEN B ELSE G[x]]
    BY <2>1, <1>13, <1>14
  <2>3. GameAttributes' = [x \in Numbers |-> IF x = o THEN B ELSE G[x]]
    BY <2>1, <1>9, <1>12, Zenon
  <2> QED BY <2>1, <2>2, <2>3, Zenon
<1>16. \/ GameAttributes' = [GameAttributes EXCEPT ![o] = GameAttributes[o] \cup {a}]
       \/ GameAttributes' = [GameAttributes EXCEPT ![o] = GameAttributes[o] \ {a}]
  BY <1>11, <1>15, Zenon
<1>17. Game!Next
  BY <1>5, <1>7, <1>16, GameSetAttribute
<1> QED BY <1>17, Zenon DEF Refines

LEMMA StartRefines ==
  ASSUME Init PROVE Game!Init
<1>1. IInv
  BY InvariantInit
<1>2. Known /\ at = "idle"
  BY <1>1 DEF IInv, Init
<1>3. PICK L : Ready(L) /\ Present(L)
  BY <1>1, <1>2, ReadyWhenIdle DEF IInv
<1>4. L \in [Object -> Seq(Object)]
  BY <1>3, Zenon DEF Ready, Tree, Forest, Typed
<1>5. GameChildren = Shown(L)
  BY <1>2, <1>3, ChildrenShown, Zenon DEF Showing
<1>6. Object \subseteq Numbers /\ Attribute \subseteq Union(AttributeOf)
  BY <1>2, NumbersUsed
<1>7. Shown(L) \in [Numbers -> Seq(Numbers)]
  <2>1. \A o \in Object : L[o] \in Seq(Numbers)
    <3> SUFFICES ASSUME NEW o \in Object PROVE L[o] \in Seq(Numbers)
      OBVIOUS
    <3>1. L[o] \in Seq(Object)
      BY <1>4
    <3> QED BY <3>1, <1>6
  <2>2. <<>> \in Seq(Numbers)
    OBVIOUS
  <2> QED BY <2>1, <2>2 DEF Shown
<1>8. GameAttributes \in [Numbers -> SUBSET Union(AttributeOf)]
  BY <1>6 DEF GameAttributes
<1>9. GameChildren \in [Numbers -> Seq(Numbers)]
  BY <1>5, <1>7, Zenon
<1> QED BY <1>8, <1>9, Zenon DEF Game!Init, GameChildren, GameAttributes, Numbers

LEMMA StepRefines ==
  ASSUME IInv, [Next]_vars PROVE Refines
<1>1. /\ Known
      /\ {object, destination, parent, older_sibling, younger_sibling} \subseteq Links
  BY Zenon DEF IInv
<1>2. ASSUME NEW o \in Object, NEW d \in Links, Move(o, d) PROVE Refines
  <2>1. PICK L : Ready(L) /\ Present(L)
    BY <1>2, ReadyWhenIdle DEF IInv, Move
  <2>2. /\ h_version' = h_version /\ AttributesSame
        /\ \/ \E z : Underway(z, L)'
           \/ \E K : K = Put(Taken(L, o), o, d) /\ Ready(K)'
    BY <1>1, <1>2, <2>1, MoveStep
  <2>3. \/ Present(L)'
        \/ \E K : K = Put(Taken(L, o), o, d) /\ Ready(K)'
    BY <2>2, Zenon DEF Present
  <2> QED BY <1>1, <2>1, <2>2, <2>3, MoveRefines
<1>3. ASSUME NEW o \in Object, z_remove_obj(o) PROVE Refines
  <2>1. 0 \in Links /\ Move(o, 0)
    BY <1>3 DEF Links, z_remove_obj
  <2> QED BY <2>1, <1>2
<1>4. ASSUME NEW o \in Object, NEW d \in Object, z_insert_obj(o, d) PROVE Refines
  <2>1. d \in Links /\ Move(o, d)
    BY <1>4 DEF Links, z_insert_obj
  <2> QED BY <2>1, <1>2
<1>5. ASSUME NEW o \in Object, NEW a \in Attribute, z_set_attr(o, a) \/ z_clear_attr(o, a)
      PROVE  Refines
  <2>1. PICK on \in BOOLEAN : ChangeAttr(o, a, on)
    BY <1>5 DEF z_set_attr, z_clear_attr
  <2> QED BY <2>1, AttributeRefines
<1>6. CASE Search
  <2>1. PICK L, z : Underway(z, L) /\ Present(L)
    BY <1>6 DEF IInv, Present, Ready, Search
  <2>2. PICK o \in Object, d \in Links : o = object /\ d = destination
    <3>1. object \in Object
      BY <2>1, Zenon DEF Underway, Searching
    <3> QED BY <1>1, <3>1
  <2>3. /\ h_version' = h_version /\ AttributesSame
        /\ \/ Underway(z, L)'
           \/ \E K : K = Put(Taken(L, object), object, destination) /\ Ready(K)'
    BY <1>1, <1>6, <2>1, SearchStep
  <2>4. \/ Present(L)'
        \/ \E K : K = Put(Taken(L, o), o, d) /\ Ready(K)'
    BY <2>2, <2>3, Zenon DEF Present
  <2> QED BY <1>1, <2>1, <2>3, <2>4, MoveRefines
<1>7. CASE UNCHANGED vars
  <2>1. PICK L : Present(L)
    BY Zenon DEF IInv
  <2>2. h_version' = h_version /\ memory' = memory
    BY <1>7 DEF vars
  <2>3. Present(L)'
    BY <1>7, <2>1, StutterPresent
  <2>4. GameChildren = Shown(L)
    BY <1>1, <2>1, ChildrenShown, Zenon DEF Showing
  <2>5. GameChildren' = Shown(L)
    BY <1>1, <2>2, <2>3, ChildrenShownAfter
  <2>6. PICK m : m = memory
    OBVIOUS
  <2>7. AttributesSame
    BY <2>2, <2>6, NextBits DEF AttributesSame
  <2>8. GameAttributes' = GameAttributes
    BY <1>1, <2>2, <2>7, SameAttributes
  <2>9. UNCHANGED Game!vars
    BY <2>4, <2>5, <2>8, GameStutter
  <2> QED BY <2>9, Zenon DEF Refines
<1> QED BY <1>3, <1>4, <1>5, <1>6, <1>7 DEF Next

(* The opcodes for objects do to the bytes of the table what ObjectForest  *)
(* does to lists of children and sets of attributes: z_insert_obj makes an *)
(* object the first child of another one and leaves the order of all other *)
(* children, z_remove_obj takes it out, whatever the turns of the search,  *)
(* and neither changes an attribute.                                       *)
THEOREM ForestImplemented == Spec => ImplementsForest
<1>1. Init => IInv /\ Game!Init
  BY InvariantInit, StartRefines
<1>2. IInv /\ [Next]_vars => IInv' /\ [Game!Next]_(Game!vars)
  <2>1. ASSUME IInv, [Next]_vars PROVE IInv' /\ [Game!Next]_(Game!vars)
    <3>1. IInv'
      BY <2>1, InvariantStep
    <3>2. Refines
      BY <2>1, StepRefines
    <3> QED BY <3>1, <3>2, Zenon DEF Refines
  <2> QED BY <2>1
<1> QED BY <1>1, <1>2, PTL DEF Spec, ImplementsForest, Game!Spec
=============================================================================
