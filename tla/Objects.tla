------------------------------ MODULE Objects ------------------------------
(***************************************************************************)
(* The object table of object.c: a tree in three links per object, and     *)
(* attributes, in the bytes of the story's memory.  Up to version 3 an     *)
(* object has 9 bytes and links of a byte; later it has 14 and links of    *)
(* two.  An opcode is one action, but for the search for an object among   *)
(* its siblings in unlink_object, which is a loop.                         *)
(*                                                                         *)
(* Operands are legal, or 0, with which the opcodes do nothing; but an     *)
(* object may be put into itself or into what it holds.  Reports of errors *)
(* do nothing in this build, and the monitoring of objects is off.         *)
(***************************************************************************)
EXTENDS Integers, Sequences, FiniteSets, SequencesExt

CONSTANTS
  Version,       \* versions of the story file
  ObjectOf(_),   \* object numbers that are used in a version
  AttributeOf(_) \* attributes that are used

EARLY == 3                                     \* V3
ASSUME ObjectsAssumption ==
  \A v \in Version :
    /\ ObjectOf(v) \subseteq 1..(IF v <= EARLY THEN 255 ELSE 2000)
    /\ AttributeOf(v) \subseteq 0..(IF v <= EARLY THEN 31 ELSE 47)

VARIABLES
  h_version,
  memory,                  \* the bytes of the table, from h_objects on
  at,                      \* "idle", "search", or "astray" out of the table
  object, destination,     \* the operands while an opcode searches
  parent, older_sibling, younger_sibling

locals == <<object, destination, parent, older_sibling, younger_sibling>>
vars == <<h_version, memory, at, locals>>

Early == h_version <= EARLY
Object == ObjectOf(h_version)
Attribute == AttributeOf(h_version)

(* The layout of an object.                                                *)
Field ==
  IF Early THEN [parent |-> 4, sibling |-> 5, child |-> 6]
  ELSE [parent |-> 6, sibling |-> 8, child |-> 10]
SIZE == IF Early THEN 9 ELSE 14
object_address(obj) == IF Early THEN (obj - 1) * 9 + 62 ELSE (obj - 1) * 14 + 126
Entries(objects) == UNION {object_address(o)..(object_address(o) + SIZE - 1) : o \in objects}

(* LOW_BYTE or LOW_WORD, SET_BYTE or SET_WORD, of a link.                  *)
Link(m, o, field) ==
  LET a == object_address(o) + Field[field]
  IN  IF Early THEN m[a] ELSE 256 * m[a] + m[a + 1]

SetLink(m, o, field, value) ==
  LET a == object_address(o) + Field[field]
  IN  IF Early THEN [m EXCEPT ![a] = value % 256]
      ELSE [m EXCEPT ![a] = value \div 256, ![a + 1] = value % 256]

Init ==
  /\ h_version \in Version
  /\ memory = [a \in Entries(Object) |-> 0]
  /\ at = "idle"
  /\ object = 0 /\ destination = 0
  /\ parent = 0 /\ older_sibling = 0 /\ younger_sibling = 0
-----------------------------------------------------------------------------
(* unlink_object, and z_insert_obj, which makes the object the first child *)
(* of its destination; destination 0 stands for z_remove_obj.              *)
ChildReadLate(m, o, d) ==                      \* faulty: o follows itself
  IF d = 0 THEN m
  ELSE LET placed == SetLink(SetLink(m, o, "parent", d), d, "child", o)
       IN  SetLink(placed, o, "sibling", Link(placed, d, "child"))
ChildForgotten(m, o, d) ==                     \* faulty: the list is cut off
  IF d = 0 THEN m ELSE SetLink(SetLink(m, o, "parent", d), d, "child", o)
Linked(m, o, d) ==
  IF d = 0 THEN m
  ELSE LET placed == SetLink(m, o, "parent", d)
       IN  SetLink(SetLink(placed, d, "child", o), o, "sibling", Link(placed, d, "child"))

SiblingKept(o) == SetLink(memory, o, "parent", 0)                    \* faulty
Detached(o) == SetLink(SetLink(memory, o, "parent", 0), o, "sibling", 0)

Idle(m) ==
  /\ memory' = m /\ at' = "idle"
  /\ object' = 0 /\ destination' = 0
  /\ parent' = 0 /\ older_sibling' = 0 /\ younger_sibling' = 0
  /\ UNCHANGED h_version

Move(o, d) ==
  LET p     == Link(memory, o, "parent")
      older == Link(memory, o, "sibling")
      first == Link(memory, p, "child")
  IN  /\ at = "idle"
      /\ IF p = 0 THEN Idle(Linked(memory, o, d))
         ELSE IF first = o
         THEN Idle(Linked(SetLink(Detached(o), p, "child", older), o, d))
         ELSE /\ memory' = Detached(o)
              /\ at' = "search"
              /\ object' = o /\ destination' = d
              /\ parent' = p /\ older_sibling' = older /\ younger_sibling' = first
              /\ UNCHANGED h_version

z_insert_obj(o, d) == Move(o, d)
z_remove_obj(o) == Move(o, 0)

(* One turn of the loop; object 0 lies before the first entry.             *)
Search ==
  /\ at = "search"
  /\ IF younger_sibling \notin Object
     THEN at' = "astray" /\ UNCHANGED <<h_version, memory, locals>>
     ELSE LET next == Link(memory, younger_sibling, "sibling")
          IN  IF next = object
              THEN Idle(Linked(SetLink(memory, younger_sibling, "sibling", older_sibling),
                               object, destination))
              ELSE /\ younger_sibling' = next
                   /\ UNCHANGED <<h_version, memory, at, object, destination, parent,
                                  older_sibling>>
-----------------------------------------------------------------------------
(* What the questions store or branch on, for objects and for 0.          *)
z_get_parent(o)  == IF o = 0 THEN 0 ELSE Link(memory, o, "parent")
z_get_sibling(o) == IF o = 0 THEN 0 ELSE Link(memory, o, "sibling")
z_get_child(o)   == IF o = 0 THEN 0 ELSE Link(memory, o, "child")
z_jin(o, d)      == IF o = 0 THEN d = 0 ELSE Link(memory, o, "parent") = d

(* Attribute a is bit 0x80 >> (a & 7) of byte a / 8.                       *)
Bit(a) == <<128, 64, 32, 16, 8, 4, 2, 1>>[1 + (a % 8)]
AttributeByte(o, a) == object_address(o) + a \div 8
IsSet(m, o, a) == (m[AttributeByte(o, a)] \div Bit(a)) % 2 = 1

WithAttribute(o, a, on) ==
  LET b == AttributeByte(o, a)
  IN  CASE on /\ ~IsSet(memory, o, a) -> [memory EXCEPT ![b] = @ + Bit(a)]
        [] ~on /\ IsSet(memory, o, a) -> [memory EXCEPT ![b] = @ - Bit(a)]
        [] OTHER -> memory

ChangeAttr(o, a, on) == at = "idle" /\ Idle(WithAttribute(o, a, on))
z_set_attr(o, a)   == ChangeAttr(o, a, TRUE)
z_clear_attr(o, a) == ChangeAttr(o, a, FALSE)
z_test_attr(o, a)  == o # 0 /\ IsSet(memory, o, a)

Next ==
  \/ \E o \in Object :
       \/ z_remove_obj(o)
       \/ \E d \in Object : z_insert_obj(o, d)
       \/ \E a \in Attribute : z_set_attr(o, a) \/ z_clear_attr(o, a)
  \/ Search

(* An opcode runs to its end.                                              *)
Spec == Init /\ [][Next]_vars /\ WF_vars(Search)
-----------------------------------------------------------------------------
Links == Object \cup {0}

(* Every byte is a byte, and every link names an object.                   *)
TypeOK ==
  /\ h_version \in Version
  /\ memory \in [Entries(Object) -> 0..255]
  /\ \A o \in Object, f \in DOMAIN Field : Link(memory, o, f) \in Links
  /\ at \in {"idle", "search"}
  /\ {object, destination, parent, older_sibling, younger_sibling} \subseteq Links

(* The list of o's children, as the game walks it with z_get_child and     *)
(* z_get_sibling, up to one more than there are objects.                   *)
Walk(m, o) ==
  LET step[i \in 1..(Cardinality(Object) + 1)] ==
        IF i = 1 THEN Link(m, o, "child")
        ELSE IF step[i - 1] = 0 THEN 0 ELSE Link(m, step[i - 1], "sibling")
  IN  step
Children(m, o) ==
  LET walk == Walk(m, o)
  IN  SubSeq(walk, 1, Cardinality({i \in DOMAIN walk : walk[i] # 0}))

(* unlink_object ends because the list that starts at an object's child    *)
(* visits all the objects that name it as their parent, each once, and     *)
(* comes to an end: after any insertions, into an object itself or what it *)
(* holds included.  Every link names an object, also on the way.           *)
ListsComplete ==
  /\ TypeOK
  /\ at = "idle" =>
       /\ \A o \in Object :
            LET list == Children(memory, o)
            IN  /\ IsInjective(list)
                /\ ToSet(list) = {c \in Object : z_jin(c, o)}
       /\ \A o \in Object : z_get_parent(o) = 0 => z_get_sibling(o) = 0

(* Every insertion and removal ends.                                       *)
MoveEnds == at = "search" ~> at = "idle"
-----------------------------------------------------------------------------
(***************************************************************************)
(* Objects implements ObjectForest.  While an object is searched for, its  *)
(* move has not happened yet: its links are those it had.                  *)
(***************************************************************************)

Settled ==
  IF at = "idle" THEN memory
  ELSE SetLink(SetLink(memory, object, "parent", parent), object, "sibling", older_sibling)

Union(Of(_)) == UNION {Of(v) : v \in Version}

Game == INSTANCE ObjectForest WITH
  Object     <- Union(ObjectOf),
  Attribute  <- Union(AttributeOf),
  children   <- [o \in Union(ObjectOf) |-> IF o \in Object THEN Children(Settled, o) ELSE <<>>],
  attributes <- [o \in Union(ObjectOf) |->
                   {a \in Attribute : o \in Object /\ z_test_attr(o, a)}]

(* The bytes cannot be told from ordered lists and sets: no opcode changes *)
(* a link or an attribute of an object it is not about.                    *)
ImplementsForest == Game!Spec
=============================================================================
