----------------------------- MODULE UndoProofs -----------------------------
(***************************************************************************)
(* Undo keeps its list intact and implements the history of snapshots, for *)
(* any memory, any number of blocks and slots, and any answers of malloc.  *)
(*                                                                         *)
(* The list and the snapshots are in no variable: the blocks are chained   *)
(* by pointers, and the memories by differences.  The inductive invariant  *)
(* therefore says that there are two sequences, the blocks from first_undo *)
(* to last_undo and the snapshots a restore can still bring back, which    *)
(* the variables encode; every step of the code is shown to turn them into *)
(* two others.                                                             *)
(***************************************************************************)
EXTENDS Undo, SequenceTheorems, FiniteSetTheorems, WellFoundedInduction, TLAPS

Front(c) == SubSeq(c, 1, Len(c) - 1)

(* The k-th block of c, NULL being the zeroth.                             *)
Pointer(c, k) == IF k = 0 THEN NULL ELSE c[k]

(* c goes through the members of L, each once.                             *)
Enumerates(c, L) ==
  /\ c \in Seq(L)
  /\ \A b \in L : \E k \in 1..Len(c) : c[k] = b
  /\ \A j, k \in 1..Len(c) : c[j] = c[k] => j = k

(* The blocks of c are chained by their pointers.                          *)
Linked(c, blocks) ==
  /\ \A k \in 1..Len(c) : blocks[c[k]].prev = Pointer(c, k - 1)
  /\ \A k \in 1..(Len(c) - 1) : blocks[c[k]].next = c[k + 1]

(* s are the snapshots of the first blocks of c, of which latest is the    *)
(* memory of the last.                                                     *)
Snapshots(s, c, blocks, latest) ==
  /\ s \in Seq([memory : Memory, regs : Regs])
  /\ Len(s) <= Len(c)
  /\ \A i \in 1..Len(s) : s[i].regs = blocks[c[i]].regs
  /\ Len(s) > 0 => s[Len(s)].memory = latest
  /\ \A i \in 1..(Len(s) - 1) :
       s[i].memory = Xor(s[i + 1].memory, blocks[c[i + 1]].diff)

Saving == {"trim", "room", "alloc", "failed"}

Listed(c) ==
  /\ Enumerates(c, live) /\ Linked(c, block)
  /\ undo_count = Len(c) /\ last_undo = Pointer(c, Len(c))
  /\ Len(c) > 0 => first_undo = c[1]

(* save_undo cuts the list: until it is done, its end is not marked.       *)
Ended(c) ==
  /\ Len(c) = 0 => first_undo = NULL
  /\ Len(c) > 0 => block[last_undo].next = NULL

Encoded(c, s) ==
  /\ Listed(c) /\ (mode # "trim" => Ended(c))
  /\ Snapshots(s, c, block, LatestMemory)
  /\ curr_undo = Pointer(c, Len(s))

(* Where save_undo is.                                                     *)
Phase(c, s) ==
  /\ Len(c) <= undo_slots
  /\ mode \in Saving => undo_slots = SLOTS /\ SLOTS # 0
  /\ mode \in {"room", "alloc", "failed"} => Len(s) = Len(c)
  /\ mode \in {"alloc", "failed"} => prev_zmp = zmp /\ Len(c) < undo_slots
  /\ mode = "failed" => MallocFails

Witness(c, s) == Encoded(c, s) /\ Phase(c, s)

IInv == TypeOK /\ \E c, s : Witness(c, s)
-----------------------------------------------------------------------------
(* Sequences: what Front and Pointer give.                                 *)
LEMMA FrontFacts ==
  ASSUME NEW S, NEW c \in Seq(S), c # <<>>
  PROVE  /\ Front(c) \in Seq(S)
         /\ Len(c) \in Nat \ {0} /\ Len(Front(c)) = Len(c) - 1
         /\ \A k \in 1..(Len(c) - 1) : Front(c)[k] = c[k]
<1>1. PICK n \in Nat : n = Len(c)
  BY LenProperties, Zenon
<1>2. n # 0
  BY <1>1, EmptySeq
<1>3. \A i \in 1..(n - 1) : c[i] \in S
  BY <1>1, <1>2, LenProperties
<1>4. /\ SubSeq(c, 1, n - 1) \in Seq(S)
      /\ Len(SubSeq(c, 1, n - 1)) = IF 1 <= n - 1 THEN (n - 1) - 1 + 1 ELSE 0
      /\ \A i \in 1..((n - 1) - 1 + 1) : SubSeq(c, 1, n - 1)[i] = c[1 + i - 1]
  BY <1>1, <1>2, <1>3, SubSeqProperties
<1> QED BY <1>1, <1>2, <1>4 DEF Front

LEMMA TailFacts ==
  ASSUME NEW S, NEW c \in Seq(S), c # <<>>
  PROVE  /\ Tail(c) \in Seq(S)
         /\ Len(c) \in Nat \ {0} /\ Len(Tail(c)) = Len(c) - 1
         /\ \A k \in 1..(Len(c) - 1) : Tail(c)[k] = c[k + 1]
BY HeadTailProperties, EmptySeq, LenProperties

LEMMA AppendFacts ==
  ASSUME NEW S, NEW c \in Seq(S), NEW p \in S
  PROVE  /\ Len(c) \in Nat /\ Len(Append(c, p)) = Len(c) + 1
         /\ Append(c, p)[Len(c) + 1] = p
         /\ \A k \in 1..Len(c) : Append(c, p)[k] = c[k]
BY AppendProperties, LenProperties

LEMMA PointerType ==
  ASSUME NEW L, NEW c \in Seq(L), NEW k \in 0..Len(c)
  PROVE  Pointer(c, k) \in L \cup {NULL}
BY LenProperties DEF Pointer

(* Different places of the list are different pointers.                    *)
LEMMA PointerInjective ==
  ASSUME NEW L \in SUBSET Block, NEW c, Enumerates(c, L),
         NEW j \in 0..Len(c), NEW k \in 0..Len(c),
         Pointer(c, j) = Pointer(c, k)
  PROVE  j = k
<1>1. /\ c \in Seq(L) /\ Len(c) \in Nat
      /\ \A i \in 1..Len(c) : c[i] \in L
      /\ \A i, h \in 1..Len(c) : c[i] = c[h] => i = h
  BY LenProperties DEF Enumerates
<1>2. \A i \in 1..Len(c) : c[i] # NULL
  BY <1>1, UndoAssumption DEF UndoAssumption
<1> QED BY <1>1, <1>2 DEF Pointer
-----------------------------------------------------------------------------
(* Lists: a block taken off either end, a block added at the end.          *)
LEMMA TailEnumerates ==
  ASSUME NEW L, NEW c, Enumerates(c, L), c # <<>>
  PROVE  Enumerates(Tail(c), L \ {c[1]})
<1> DEFINE t == Tail(c)  M == L \ {c[1]}
<1>1. PICK n \in Nat \ {0} : n = Len(c) /\ Len(t) = n - 1
  BY TailFacts, Zenon DEF Enumerates
<1>2. \A k \in 1..(n - 1) : t[k] = c[k + 1]
  BY <1>1, TailFacts DEF Enumerates
<1>3. \A j, k \in 1..n : c[j] = c[k] => j = k
  BY <1>1 DEF Enumerates
<1>4. c \in [1..n -> L] /\ t \in Seq(L)
  BY <1>1, TailFacts, LenProperties, Zenon DEF Enumerates
<1>5. \A k \in 1..(n - 1) : t[k] \in M
  BY <1>2, <1>3, <1>4
<1>6. t \in Seq(M)
  <2>1. t \in [1..(n - 1) -> L]
    BY <1>1, <1>4, LenProperties, Zenon
  <2>2. t \in [1..(n - 1) -> M]
    BY <2>1, <1>5
  <2>3. n - 1 \in Nat
    BY <1>1
  <2> QED BY <2>2, <2>3, SeqDef
<1>7. \A b \in M : \E k \in 1..(n - 1) : t[k] = b
  <2> SUFFICES ASSUME NEW b \in M PROVE \E k \in 1..(n - 1) : t[k] = b
    OBVIOUS
  <2>1. PICK k \in 1..n : c[k] = b
    BY <1>1 DEF Enumerates
  <2>2. k # 1
    BY <2>1
  <2>3. k - 1 \in 1..(n - 1) /\ (k - 1) + 1 = k
    BY <2>2, <1>1
  <2>4. t[k - 1] = b
    BY <2>1, <2>3, <1>2
  <2> QED BY <2>3, <2>4
<1>8. \A j, k \in 1..(n - 1) : t[j] = t[k] => j = k
  <2>1. \A k \in 1..(n - 1) : k + 1 \in 1..n
    BY <1>1
  <2> QED BY <2>1, <1>1, <1>2, <1>3
<1> HIDE DEF t, M
<1>9. Enumerates(t, M)
  BY <1>1, <1>6, <1>7, <1>8, Zenon DEF Enumerates
<1> QED BY <1>9 DEF t, M

LEMMA FrontEnumerates ==
  ASSUME NEW L, NEW c, Enumerates(c, L), c # <<>>
  PROVE  Enumerates(Front(c), L \ {c[Len(c)]})
<1> DEFINE t == Front(c)  M == L \ {c[Len(c)]}
<1>1. PICK n \in Nat \ {0} : n = Len(c) /\ Len(t) = n - 1
  BY FrontFacts, Zenon DEF Enumerates
<1>2. \A k \in 1..(n - 1) : t[k] = c[k]
  BY <1>1, FrontFacts DEF Enumerates
<1>3. \A j, k \in 1..n : c[j] = c[k] => j = k
  BY <1>1 DEF Enumerates
<1>4. c \in [1..n -> L] /\ t \in Seq(L)
  BY <1>1, FrontFacts, LenProperties, Zenon DEF Enumerates
<1>5. \A k \in 1..(n - 1) : t[k] \in M
  BY <1>1, <1>2, <1>3, <1>4
<1>6. t \in Seq(M)
  <2>1. t \in [1..(n - 1) -> L]
    BY <1>1, <1>4, LenProperties, Zenon
  <2>2. t \in [1..(n - 1) -> M]
    BY <2>1, <1>5
  <2>3. n - 1 \in Nat
    BY <1>1
  <2> QED BY <2>2, <2>3, SeqDef
<1>7. \A b \in M : \E k \in 1..(n - 1) : t[k] = b
  <2> SUFFICES ASSUME NEW b \in M PROVE \E k \in 1..(n - 1) : t[k] = b
    OBVIOUS
  <2>1. PICK k \in 1..n : c[k] = b
    BY <1>1 DEF Enumerates
  <2>2. k # n
    BY <2>1, <1>1
  <2> QED BY <2>1, <2>2, <1>1, <1>2
<1>8. \A j, k \in 1..(n - 1) : t[j] = t[k] => j = k
  BY <1>1, <1>2, <1>3
<1> HIDE DEF t, M
<1>9. Enumerates(t, M)
  BY <1>1, <1>6, <1>7, <1>8, Zenon DEF Enumerates
<1> QED BY <1>9 DEF t, M

LEMMA AppendEnumerates ==
  ASSUME NEW L, NEW c, Enumerates(c, L), NEW p, p \notin L
  PROVE  Enumerates(Append(c, p), L \cup {p})
<1> DEFINE t == Append(c, p)  M == L \cup {p}
<1>1. PICK n \in Nat : n = Len(c)
  BY LenProperties, Zenon DEF Enumerates
<1>2. c \in [1..n -> L] /\ c \in Seq(L)
  BY <1>1, LenProperties, Zenon DEF Enumerates
<1>3. c \in Seq(M)
  BY <1>2, SeqMonotonic
<1>4. /\ t \in Seq(M) /\ Len(t) = n + 1 /\ t[n + 1] = p
      /\ \A k \in 1..n : t[k] = c[k]
  BY <1>1, <1>3, AppendProperties
<1>5. \A k \in 1..n : t[k] # p
  BY <1>2, <1>4
<1>6. \A j, k \in 1..n : c[j] = c[k] => j = k
  BY <1>1 DEF Enumerates
<1>7. \A b \in M : \E k \in 1..(n + 1) : t[k] = b
  <2> SUFFICES ASSUME NEW b \in M PROVE \E k \in 1..(n + 1) : t[k] = b
    OBVIOUS
  <2>1. CASE b = p
    BY <2>1, <1>4
  <2>2. CASE b # p
    <3>1. PICK k \in 1..n : c[k] = b
      BY <2>2, <1>1 DEF Enumerates
    <3> QED BY <3>1, <1>4
  <2> QED BY <2>1, <2>2
<1>8. \A j, k \in 1..(n + 1) : t[j] = t[k] => j = k
  <2>1. \A k \in 1..(n + 1) : k \in 1..n \/ k = n + 1
    OBVIOUS
  <2> QED BY <2>1, <1>4, <1>5, <1>6, Zenon
<1> HIDE DEF t, M
<1>9. Enumerates(t, M)
  BY <1>4, <1>7, <1>8, Zenon DEF Enumerates
<1> QED BY <1>9 DEF t, M

(* There are as many members as places.                                    *)
LEMMA Counted ==
  ASSUME NEW L, NEW c, Enumerates(c, L)
  PROVE  IsFiniteSet(L) /\ Cardinality(L) = Len(c)
<1>1. PICK n \in Nat : n = Len(c)
  BY LenProperties, Zenon DEF Enumerates
<1>2. c \in [1..n -> L]
  BY <1>1, LenProperties, Zenon DEF Enumerates
<1>3. c \in Bijection(1..n, L)
  BY <1>1, <1>2 DEF Enumerates, Bijection, Injection, Surjection, IsInjective
<1>4. ExistsBijection(1..n, L)
  BY <1>3 DEF ExistsBijection
<1>5. IsFiniteSet(1..n) /\ Cardinality(1..n) = n
  <2>1. 1 \in Int /\ n \in Int
    OBVIOUS
  <2>2. IsFiniteSet(1..n)
    BY <2>1, FS_Interval, Zenon
  <2>3. Cardinality(1..n) = IF 1 > n THEN 0 ELSE n - 1 + 1
    BY <2>1, FS_Interval, Zenon
  <2> QED BY <2>2, <2>3
<1> QED BY <1>1, <1>4, <1>5, FS_Bijection
-----------------------------------------------------------------------------
(* The chain, when a block is taken off its front or its end, or added.    *)
LEMMA TailLinked ==
  ASSUME NEW L, NEW c \in Seq(L), c # <<>>, NEW b, NEW b2, Linked(c, b),
         \A k \in 2..Len(c) : /\ b2[c[k]].next = b[c[k]].next
                             /\ b2[c[k]].prev = IF k = 2 THEN NULL ELSE b[c[k]].prev
  PROVE  Linked(Tail(c), b2)
<1> DEFINE t == Tail(c)
<1>1. PICK n \in Nat \ {0} : n = Len(c) /\ Len(t) = n - 1
  BY TailFacts, Zenon
<1>2. \A k \in 1..(n - 1) : t[k] = c[k + 1]
  BY <1>1, TailFacts
<1>3. \A k \in 1..(n - 1) : b2[t[k]].prev = Pointer(t, k - 1)
  <2> SUFFICES ASSUME NEW k \in 1..(n - 1) PROVE b2[t[k]].prev = Pointer(t, k - 1)
    OBVIOUS
  <2>1. k + 1 \in 2..n /\ k + 1 \in 1..n /\ (k + 1) - 1 = k
    BY <1>1
  <2>2. b2[c[k + 1]].prev = IF k + 1 = 2 THEN NULL ELSE b[c[k + 1]].prev
    BY <2>1, <1>1
  <2>3. b[c[k + 1]].prev = c[k]
    <3>1. b[c[k + 1]].prev = Pointer(c, k)
      BY <2>1, <1>1 DEF Linked
    <3> QED BY <3>1 DEF Pointer
  <2>4. k # 1 => k - 1 \in 1..(n - 1) /\ (k - 1) + 1 = k
    BY <1>1
  <2>5. k # 1 => t[k - 1] = c[k]
    BY <2>4, <1>2
  <2> HIDE DEF t
  <2> QED BY <2>2, <2>3, <2>5, <1>2 DEF Pointer
<1>4. \A k \in 1..(n - 1 - 1) : b2[t[k]].next = t[k + 1]
  <2> SUFFICES ASSUME NEW k \in 1..(n - 1 - 1) PROVE b2[t[k]].next = t[k + 1]
    OBVIOUS
  <2>1. k + 1 \in 2..n /\ k + 1 \in 1..(n - 1) /\ k \in 1..(n - 1)
    BY <1>1
  <2>2. t[k] = c[k + 1] /\ t[k + 1] = c[k + 1 + 1]
    BY <2>1, <1>2
  <2>3. b[c[k + 1]].next = c[k + 1 + 1]
    BY <2>1, <1>1 DEF Linked
  <2> QED BY <2>1, <2>2, <2>3, <1>1
<1> HIDE DEF t
<1>5. Linked(t, b2)
  BY <1>1, <1>3, <1>4, Zenon DEF Linked
<1> QED BY <1>5 DEF t

LEMMA FrontLinked ==
  ASSUME NEW L, NEW c \in Seq(L), c # <<>>, NEW b, NEW b2, Linked(c, b),
         \A k \in 1..(Len(c) - 1) : b2[c[k]] = b[c[k]]
  PROVE  Linked(Front(c), b2)
<1> DEFINE t == Front(c)
<1>1. PICK n \in Nat \ {0} : n = Len(c) /\ Len(t) = n - 1
  BY FrontFacts, Zenon
<1>2. \A k \in 1..(n - 1) : t[k] = c[k]
  BY <1>1, FrontFacts
<1> HIDE DEF t
<1>3. \A k \in 1..(n - 1) : b2[t[k]].prev = Pointer(t, k - 1)
  <2> SUFFICES ASSUME NEW k \in 1..(n - 1) PROVE b2[t[k]].prev = Pointer(t, k - 1)
    OBVIOUS
  <2>1. k \in 1..n /\ (k # 1 => k - 1 \in 1..(n - 1))
    BY <1>1
  <2>2. b2[t[k]] = b[c[k]] /\ b[c[k]].prev = Pointer(c, k - 1)
    BY <2>1, <1>1, <1>2 DEF Linked
  <2>3. Pointer(t, k - 1) = Pointer(c, k - 1)
    BY <2>1, <1>2 DEF Pointer
  <2> QED BY <2>2, <2>3, Zenon
<1>4. \A k \in 1..(n - 1 - 1) : b2[t[k]].next = t[k + 1]
  <2> SUFFICES ASSUME NEW k \in 1..(n - 1 - 1) PROVE b2[t[k]].next = t[k + 1]
    OBVIOUS
  <2>1. k \in 1..(n - 1) /\ k + 1 \in 1..(n - 1)
    BY <1>1
  <2>2. t[k] = c[k] /\ t[k + 1] = c[k + 1] /\ b2[c[k]] = b[c[k]]
    BY <2>1, <1>1, <1>2
  <2>3. b[c[k]].next = c[k + 1]
    BY <2>1, <1>1 DEF Linked
  <2> QED BY <2>2, <2>3, Zenon
<1>5. Linked(t, b2)
  BY <1>1, <1>3, <1>4, Zenon DEF Linked
<1> QED BY <1>5 DEF t

LEMMA AppendLinked ==
  ASSUME NEW L, NEW c \in Seq(L), NEW p, NEW b, NEW b2, Linked(c, b),
         b2[p].prev = Pointer(c, Len(c)),
         \A k \in 1..Len(c) : /\ b2[c[k]].prev = b[c[k]].prev
                             /\ b2[c[k]].next = IF k = Len(c) THEN p ELSE b[c[k]].next
  PROVE  Linked(Append(c, p), b2)
<1> DEFINE t == Append(c, p)
<1>1. PICK n \in Nat : n = Len(c)
  BY LenProperties, Zenon
<1>2. Len(t) = n + 1 /\ t[n + 1] = p /\ \A k \in 1..n : t[k] = c[k]
  <2>1. c \in Seq(L \cup {p})
    BY SeqMonotonic
  <2> QED BY <2>1, <1>1, AppendProperties
<1> HIDE DEF t
<1>3. \A k \in 1..(n + 1) : b2[t[k]].prev = Pointer(t, k - 1)
  BY <1>1, <1>2 DEF Linked, Pointer
<1>4. \A k \in 1..(n + 1 - 1) : b2[t[k]].next = t[k + 1]
  <2> SUFFICES ASSUME NEW k \in 1..n PROVE b2[t[k]].next = t[k + 1]
    BY <1>1
  <2>1. t[k] = c[k] /\ b2[c[k]].next = IF k = n THEN p ELSE b[c[k]].next
    BY <1>1, <1>2
  <2>2. CASE k = n
    BY <2>1, <2>2, <1>2
  <2>3. CASE k # n
    <3>1. k \in 1..(n - 1) /\ k + 1 \in 1..n
      BY <2>3, <1>1
    <3>2. b[c[k]].next = c[k + 1]
      BY <3>1, <1>1 DEF Linked
    <3> QED BY <2>1, <2>3, <3>1, <3>2, <1>2
  <2> QED BY <2>2, <2>3
<1>5. /\ \A k \in 1..Len(t) : b2[t[k]].prev = Pointer(t, k - 1)
      /\ \A k \in 1..(Len(t) - 1) : b2[t[k]].next = t[k + 1]
  BY <1>2, <1>3, <1>4
<1>6. Linked(t, b2)
  BY <1>5, Zenon DEF Linked
<1> QED BY <1>6 DEF t
-----------------------------------------------------------------------------
(* The snapshots, when the list changes, and when one is undone or saved.  *)
LEMMA SnapshotsKept ==
  ASSUME NEW s, NEW c, NEW b, NEW b2, NEW latest, Snapshots(s, c, b, latest),
         \A k \in 1..Len(s) : b2[c[k]].regs = b[c[k]].regs /\ b2[c[k]].diff = b[c[k]].diff
  PROVE  Snapshots(s, c, b2, latest)
<1>1. PICK n \in Nat : n = Len(s)
  BY LenProperties, Zenon DEF Snapshots
<1>2. \A i \in 1..(n - 1) : i + 1 \in 1..n
  BY <1>1
<1> QED BY <1>1, <1>2, Zenon DEF Snapshots

LEMMA SnapshotsCut ==
  ASSUME NEW L, NEW c \in Seq(L), NEW s, NEW b, NEW latest, Snapshots(s, c, b, latest),
         Len(s) < Len(c)
  PROVE  Snapshots(s, Front(c), b, latest)
<1> DEFINE t == Front(c)
<1>1. PICK n \in Nat : n = Len(s)
  BY LenProperties, Zenon DEF Snapshots
<1>2. c # <<>>
  BY <1>1, EmptySeq
<1>3. PICK m \in Nat \ {0} : m = Len(c) /\ Len(t) = m - 1
  BY <1>2, FrontFacts, Zenon
<1>4. \A k \in 1..(m - 1) : t[k] = c[k]
  BY <1>2, <1>3, FrontFacts
<1>5. n <= m - 1
  BY <1>1, <1>3
<1>6. \A i \in 1..n : t[i] = c[i]
  BY <1>4, <1>5
<1>7. \A i \in 1..(n - 1) : t[i + 1] = c[i + 1]
  BY <1>6
<1> HIDE DEF t
<1>8. Snapshots(s, t, b, latest)
  BY <1>1, <1>3, <1>5, <1>6, <1>7, Zenon DEF Snapshots
<1> QED BY <1>8 DEF t

LEMMA SnapshotsTail ==
  ASSUME NEW L, NEW c \in Seq(L), NEW s, NEW b, NEW latest, Snapshots(s, c, b, latest),
         s # <<>>
  PROVE  Snapshots(Tail(s), Tail(c), b, latest)
<1> DEFINE t == Tail(c)  u == Tail(s)  T == [memory : Memory, regs : Regs]
<1>1. s \in Seq(T)
  BY DEF Snapshots
<1>2. PICK n \in Nat \ {0} : n = Len(s) /\ Len(u) = n - 1
  BY <1>1, TailFacts, Zenon
<1>3. u \in Seq(T) /\ \A k \in 1..(n - 1) : u[k] = s[k + 1]
  BY <1>1, <1>2, TailFacts
<1>4. c # <<>>
  BY <1>2, EmptySeq DEF Snapshots
<1>5. PICK m \in Nat \ {0} : m = Len(c) /\ Len(t) = m - 1
  BY <1>4, TailFacts, Zenon
<1>6. \A k \in 1..(m - 1) : t[k] = c[k + 1]
  BY <1>4, <1>5, TailFacts
<1>7. n <= m
  BY <1>2, <1>5 DEF Snapshots
<1>8. /\ \A i \in 1..n : s[i].regs = b[c[i]].regs
      /\ s[n].memory = latest
      /\ \A i \in 1..(n - 1) : s[i].memory = Xor(s[i + 1].memory, b[c[i + 1]].diff)
  BY <1>2 DEF Snapshots
<1> HIDE DEF t, u, T
<1>9. \A i \in 1..(n - 1) : u[i].regs = b[t[i]].regs
  BY <1>3, <1>6, <1>7, <1>8
<1>10. n - 1 > 0 => u[n - 1].memory = latest
  BY <1>3, <1>8
<1>11. \A i \in 1..(n - 1 - 1) : u[i].memory = Xor(u[i + 1].memory, b[t[i + 1]].diff)
  <2> SUFFICES ASSUME NEW i \in 1..(n - 1 - 1)
               PROVE  u[i].memory = Xor(u[i + 1].memory, b[t[i + 1]].diff)
    OBVIOUS
  <2>1. i + 1 \in 1..(n - 1) /\ i \in 1..(n - 1) /\ i + 1 \in 1..(m - 1)
    BY <1>7
  <2>2. u[i] = s[i + 1] /\ u[i + 1] = s[i + 1 + 1] /\ t[i + 1] = c[i + 1 + 1]
    BY <2>1, <1>3, <1>6
  <2>3. s[i + 1].memory = Xor(s[i + 1 + 1].memory, b[c[i + 1 + 1]].diff)
    BY <2>1, <1>8
  <2> QED BY <2>2, <2>3
<1>12. n - 1 <= m - 1
  BY <1>7
<1>13. Snapshots(u, t, b, latest)
  BY <1>2, <1>3, <1>5, <1>9, <1>10, <1>11, <1>12, Zenon DEF Snapshots, T
<1> QED BY <1>13 DEF t, u

LEMMA SnapshotsUndone ==
  ASSUME NEW L, NEW c \in Seq(L), NEW s, NEW b, NEW latest, Snapshots(s, c, b, latest),
         s # <<>>
  PROVE  Snapshots(Front(s), c, b, Xor(latest, b[c[Len(s)]].diff))
<1> DEFINE u == Front(s)  T == [memory : Memory, regs : Regs]
<1>1. s \in Seq(T)
  BY DEF Snapshots
<1>2. PICK n \in Nat \ {0} : n = Len(s) /\ Len(u) = n - 1
  BY <1>1, FrontFacts, Zenon
<1>3. u \in Seq(T) /\ \A k \in 1..(n - 1) : u[k] = s[k]
  BY <1>1, <1>2, FrontFacts
<1>4. n - 1 <= Len(c)
  <2>1. PICK m \in Nat : m = Len(c)
    BY LenProperties, Zenon
  <2>2. n <= m
    BY <2>1, <1>2 DEF Snapshots
  <2> QED BY <2>1, <2>2
<1>5. /\ \A i \in 1..n : s[i].regs = b[c[i]].regs
      /\ s[n].memory = latest
      /\ \A i \in 1..(n - 1) : s[i].memory = Xor(s[i + 1].memory, b[c[i + 1]].diff)
  BY <1>2 DEF Snapshots
<1> HIDE DEF u, T
<1>6. \A i \in 1..(n - 1) : u[i].regs = b[c[i]].regs
  <2>1. \A i \in 1..(n - 1) : i \in 1..n
    BY <1>2
  <2> QED BY <2>1, <1>3, <1>5, Zenon
<1>7. n - 1 > 0 => u[n - 1].memory = Xor(latest, b[c[n]].diff)
  <2> SUFFICES ASSUME n - 1 > 0 PROVE u[n - 1].memory = Xor(latest, b[c[n]].diff)
    OBVIOUS
  <2>1. n - 1 \in 1..(n - 1) /\ (n - 1) + 1 = n
    BY <1>2
  <2>2. s[n - 1].memory = Xor(s[n].memory, b[c[n]].diff)
    BY <2>1, <1>5
  <2> QED BY <2>1, <2>2, <1>3, <1>5
<1>8. \A i \in 1..(n - 1 - 1) : u[i].memory = Xor(u[i + 1].memory, b[c[i + 1]].diff)
  <2> SUFFICES ASSUME NEW i \in 1..(n - 1 - 1)
               PROVE  u[i].memory = Xor(u[i + 1].memory, b[c[i + 1]].diff)
    OBVIOUS
  <2>1. i \in 1..(n - 1) /\ i + 1 \in 1..(n - 1)
    BY <1>2
  <2>2. s[i].memory = Xor(s[i + 1].memory, b[c[i + 1]].diff)
    BY <2>1, <1>5
  <2>3. u[i] = s[i] /\ u[i + 1] = s[i + 1]
    BY <2>1, <1>3
  <2> QED BY <2>2, <2>3, Zenon
<1>9. /\ Len(u) <= Len(c)
      /\ Len(u) > 0 => u[Len(u)].memory = Xor(latest, b[c[Len(s)]].diff)
  BY <1>2, <1>4, <1>7
<1>10. /\ \A i \in 1..Len(u) : u[i].regs = b[c[i]].regs
       /\ \A i \in 1..(Len(u) - 1) : u[i].memory = Xor(u[i + 1].memory, b[c[i + 1]].diff)
  BY <1>2, <1>6, <1>8, Zenon
<1>11. Snapshots(u, c, b, Xor(latest, b[c[Len(s)]].diff))
  BY <1>3, <1>9, <1>10, Zenon DEF Snapshots, T
<1> QED BY <1>11 DEF u

LEMMA SnapshotsSaved ==
  ASSUME NEW L, NEW c \in Seq(L), NEW s, NEW b, NEW latest, Snapshots(s, c, b, latest),
         Len(s) = Len(c), NEW p, NEW r \in [memory : Memory, regs : Regs],
         r.regs = b[p].regs, latest = Xor(r.memory, b[p].diff)
  PROVE  Snapshots(Append(s, r), Append(c, p), b, r.memory)
<1> DEFINE u == Append(s, r)  t == Append(c, p)  T == [memory : Memory, regs : Regs]
<1>1. s \in Seq(T)
  BY DEF Snapshots
<1>2. PICK n \in Nat : n = Len(s) /\ n = Len(c)
  BY <1>1, LenProperties, Zenon
<1>3. /\ u \in Seq(T) /\ Len(u) = n + 1 /\ u[n + 1] = r
      /\ \A k \in 1..n : u[k] = s[k]
  BY <1>1, <1>2, AppendProperties
<1>4. Len(t) = n + 1 /\ t[n + 1] = p /\ \A k \in 1..n : t[k] = c[k]
  <2>1. c \in Seq(L \cup {p})
    BY SeqMonotonic
  <2> QED BY <2>1, <1>2, AppendProperties
<1>5. /\ \A i \in 1..n : s[i].regs = b[c[i]].regs
      /\ n > 0 => s[n].memory = latest
      /\ \A i \in 1..(n - 1) : s[i].memory = Xor(s[i + 1].memory, b[c[i + 1]].diff)
  BY <1>2 DEF Snapshots
<1> HIDE DEF u, t, T
<1>6. \A i \in 1..(n + 1) : u[i].regs = b[t[i]].regs
  <2> SUFFICES ASSUME NEW i \in 1..(n + 1) PROVE u[i].regs = b[t[i]].regs
    OBVIOUS
  <2>1. CASE i = n + 1
    BY <2>1, <1>3, <1>4
  <2>2. CASE i # n + 1
    BY <2>2, <1>2, <1>3, <1>4, <1>5
  <2> QED BY <2>1, <2>2
<1>7. \A i \in 1..(n + 1 - 1) : u[i].memory = Xor(u[i + 1].memory, b[t[i + 1]].diff)
  <2> SUFFICES ASSUME NEW i \in 1..n
               PROVE  u[i].memory = Xor(u[i + 1].memory, b[t[i + 1]].diff)
    BY <1>2
  <2>1. CASE i = n
    <3>1. u[i].memory = latest
      BY <2>1, <1>3, <1>5
    <3>2. u[i + 1] = r /\ t[i + 1] = p
      BY <2>1, <1>3, <1>4
    <3> QED BY <3>1, <3>2
  <2>2. CASE i # n
    <3>1. i \in 1..(n - 1) /\ i + 1 \in 1..n
      BY <2>2, <1>2
    <3>2. u[i] = s[i] /\ u[i + 1] = s[i + 1] /\ t[i + 1] = c[i + 1]
      BY <3>1, <1>3, <1>4
    <3>3. s[i].memory = Xor(s[i + 1].memory, b[c[i + 1]].diff)
      BY <3>1, <1>5
    <3> QED BY <3>2, <3>3
  <2> QED BY <2>1, <2>2
<1>8. Len(u) <= Len(t) /\ u[Len(u)].memory = r.memory
  BY <1>2, <1>3, <1>4
<1>9. /\ \A i \in 1..Len(u) : u[i].regs = b[t[i]].regs
      /\ \A i \in 1..(Len(u) - 1) : u[i].memory = Xor(u[i + 1].memory, b[t[i + 1]].diff)
  BY <1>3, <1>6, <1>7
<1>10. Snapshots(u, t, b, r.memory)
  BY <1>3, <1>8, <1>9, Zenon DEF Snapshots, T
<1> QED BY <1>10 DEF u, t
-----------------------------------------------------------------------------
(* What a step does to the history: the actions of UndoHistory, where s    *)
(* and s2 are the snapshots before and after.                              *)
Transition(s, s2) ==
  \/ zmp' \in Memory /\ regs' \in Regs /\ s2 = s
  \/ /\ Len(s) < SLOTS
     /\ s2 = Append(s, [memory |-> zmp, regs |-> regs])
     /\ UNCHANGED <<zmp, regs>>
  \/ /\ s # <<>> /\ (Len(s) = SLOTS \/ MallocFails)
     /\ s2 = Tail(s)
     /\ UNCHANGED <<zmp, regs>>
  \/ /\ s # <<>>
     /\ zmp' = Restarted(s[Len(s)].memory) /\ regs' = s[Len(s)].regs
     /\ s2 = Front(s)
  \/ s2 = <<>> /\ UNCHANGED <<zmp, regs>>

LEMMA XorFacts ==
  ASSUME NEW a \in Memory, NEW b \in Memory
  PROVE  /\ Xor(a, b) \in Memory /\ Restarted(a) \in Memory
         /\ Xor(a, {}) = a /\ Xor(a, Xor(a, b)) = b
BY UndoAssumption DEF UndoAssumption, Memory, Xor, Restarted

(* What a pair of witnesses says of the pointers.                          *)
LEMMA WitnessFacts ==
  ASSUME TypeOK, NEW c, NEW s, Encoded(c, s)
  PROVE  /\ c \in Seq(live) /\ c \in Seq(Block) /\ Len(c) \in Nat
         /\ \A k \in 1..Len(c) : c[k] \in live /\ c[k] \in Block /\ c[k] # NULL
         /\ s \in Seq([memory : Memory, regs : Regs]) /\ Len(s) \in Nat /\ Len(s) <= Len(c)
         /\ (s = <<>> <=> Len(s) = 0) /\ (c = <<>> <=> Len(c) = 0)
         /\ live \in SUBSET Block
<1>1. c \in Seq(live) /\ live \in SUBSET Block
  BY Zenon DEF TypeOK, Encoded, Listed, Enumerates
<1>2. c \in Seq(Block)
  BY <1>1, SeqMonotonic
<1>3. /\ Len(c) \in Nat
      /\ \A k \in 1..Len(c) : c[k] \in live
  BY <1>1, LenProperties
<1>4. \A k \in 1..Len(c) : c[k] \in Block /\ c[k] # NULL
  BY <1>1, <1>3, UndoAssumption DEF UndoAssumption
<1>5. /\ s \in Seq([memory : Memory, regs : Regs]) /\ Len(s) <= Len(c)
  BY Zenon DEF Encoded, Snapshots
<1>6. Len(s) \in Nat
  BY <1>5, LenProperties, Zenon
<1>7. (s = <<>> <=> Len(s) = 0) /\ (c = <<>> <=> Len(c) = 0)
  BY <1>1, <1>5, EmptySeq
<1> QED BY <1>1, <1>2, <1>3, <1>4, <1>5, <1>6, <1>7, Zenon

(* A step that leaves the list alone.                                      *)
LEMMA EncodedKept ==
  ASSUME NEW c, NEW s, Encoded(c, s), UNCHANGED list,
         LatestMemory' = LatestMemory \/ s = <<>>,
         mode' # "trim" => mode # "trim"
  PROVE  Encoded(c, s)'
<1>1. /\ live' = live /\ block' = block /\ first_undo' = first_undo
      /\ last_undo' = last_undo /\ curr_undo' = curr_undo /\ undo_count' = undo_count
  BY Zenon DEF list
<1>2. Listed(c)'
  BY <1>1, Zenon DEF Encoded, Listed
<1>3. (mode # "trim" => Ended(c))'
  BY <1>1, Zenon DEF Encoded, Ended
<1>4. Snapshots(s, c, block', LatestMemory')
  <2>1. CASE LatestMemory' = LatestMemory
    BY <2>1, <1>1, Zenon DEF Encoded
  <2>2. CASE s = <<>>
    <3>1. Snapshots(s, c, block, LatestMemory)
      BY Zenon DEF Encoded
    <3>2. Len(s) = 0
      BY <2>2, EmptySeq
    <3> QED BY <3>1, <3>2, <1>1 DEF Snapshots
  <2> QED BY <2>1, <2>2
<1>5. (curr_undo = Pointer(c, Len(s)))'
  BY <1>1, Zenon DEF Encoded
<1> QED BY <1>2, <1>3, <1>4, <1>5, Zenon DEF Encoded

(* free_undo(1), when the newest block is current.                         *)
LEMMA FreeFirstFrees ==
  ASSUME TypeOK, NEW c, NEW s, Encoded(c, s), mode # "trim", Len(s) = Len(c), Len(c) > 0,
         FreeFirst
  PROVE  /\ Listed(Tail(c))' /\ Ended(Tail(c))'
         /\ Snapshots(Tail(s), Tail(c), block', LatestMemory)
         /\ curr_undo' = Pointer(Tail(c), Len(Tail(s)))
         /\ Len(Tail(c)) = Len(c) - 1 /\ Len(Tail(s)) = Len(c) - 1
<1>1. /\ c \in Seq(live) /\ c # <<>> /\ s # <<>> /\ Len(c) \in Nat
      /\ \A k \in 1..Len(c) : c[k] \in Block /\ c[k] # NULL
  <2>1. Len(c) # 0 /\ Len(s) # 0
    BY WitnessFacts
  <2> QED BY <2>1, WitnessFacts, Zenon
<1>0. PICK t : t = Tail(c)
  OBVIOUS
<1>2. PICK n \in Nat \ {0} : n = Len(c) /\ Len(t) = n - 1
  BY <1>0, <1>1, TailFacts, Zenon
<1>3. \A k \in 1..(n - 1) : t[k] = c[k + 1]
  BY <1>0, <1>1, <1>2, TailFacts, Zenon
<1>4. Len(Tail(s)) = n - 1
  <2>1. s \in Seq([memory : Memory, regs : Regs])
    BY Zenon DEF Encoded, Snapshots
  <2> QED BY <2>1, <1>1, <1>2, TailFacts
<1>5. first_undo = c[1] /\ undo_count = n /\ last_undo = c[n] /\ curr_undo = c[n]
  BY <1>2 DEF Encoded, Listed, Pointer
<1>6. \A j, k \in 1..n : c[j] = c[k] => j = k
  BY <1>2 DEF Encoded, Listed, Enumerates
<1>7. PICK next : next = block[first_undo].next
  OBVIOUS
<1>8. next = IF n = 1 THEN NULL ELSE c[2]
  <2>1. CASE n = 1
    BY <2>1, <1>2, <1>5, <1>7 DEF Encoded, Ended
  <2>2. CASE n # 1
    <3>1. 1 \in 1..(n - 1)
      BY <2>2
    <3>2. block[c[1]].next = c[1 + 1]
      BY <3>1, <1>2 DEF Encoded, Listed, Linked
    <3> QED BY <3>2, <2>2, <1>5, <1>7
  <2> QED BY <2>1, <2>2
<1>9. next = NULL <=> n = 1
  BY <1>1, <1>2, <1>8
<1>10. curr_undo' = IF n = 1 THEN NULL ELSE c[n]
  <2>1. curr_undo' = IF curr_undo = first_undo THEN next ELSE curr_undo
    BY <1>7, Zenon DEF FreeFirst, FreeFirstWith
  <2>2. c[n] = c[1] <=> n = 1
    BY <1>6
  <2> QED BY <2>1, <2>2, <1>5, <1>8
<1>11. live' = live \ {c[1]} /\ first_undo' = next /\ undo_count' = n - 1
  BY <1>5, <1>7 DEF FreeFirst, FreeFirstWith
<1>12. last_undo' = IF n = 1 THEN NULL ELSE c[n]
  BY <1>5, <1>7, <1>9 DEF FreeFirst, FreeFirstWith
<1>13. block \in [Block -> [diff : Memory, regs : Regs,
                           next : Block \cup {NULL}, prev : Block \cup {NULL}]]
  BY Zenon DEF TypeOK
<1>14. \A k \in 2..n :
         /\ block'[c[k]].next = block[c[k]].next
         /\ block'[c[k]].prev = IF k = 2 THEN NULL ELSE block[c[k]].prev
         /\ block'[c[k]].regs = block[c[k]].regs
         /\ block'[c[k]].diff = block[c[k]].diff
  <2> SUFFICES ASSUME NEW k \in 2..n
               PROVE  /\ block'[c[k]].next = block[c[k]].next
                      /\ block'[c[k]].prev = IF k = 2 THEN NULL ELSE block[c[k]].prev
                      /\ block'[c[k]].regs = block[c[k]].regs
                      /\ block'[c[k]].diff = block[c[k]].diff
    OBVIOUS
  <2>1. n # 1 /\ 2 \in 1..n /\ 1 \in 1..n /\ k \in 1..n
    OBVIOUS
  <2>2. next = c[2] /\ next # NULL /\ c[k] \in Block /\ c[2] \in Block /\ c[k] # c[1]
        /\ c[2] # c[1] /\ (c[k] = c[2] <=> k = 2)
    BY <2>1, <1>1, <1>2, <1>6, <1>8
  <2>3. block' = [[block EXCEPT ![c[1]] = EmptyBlock] EXCEPT ![c[2]].prev = NULL]
    BY <2>2, <1>5, <1>7, Zenon DEF FreeFirst, FreeFirstWith
  <2> QED BY <2>2, <2>3, <1>13
<1>15. Enumerates(t, live')
  BY <1>0, <1>1, <1>11, TailEnumerates, Zenon DEF Encoded, Listed
<1>16. Linked(t, block')
  <2>1. Linked(c, block)
    BY Zenon DEF Encoded, Listed
  <2>2. \A k \in 2..Len(c) :
          /\ block'[c[k]].next = block[c[k]].next
          /\ block'[c[k]].prev = IF k = 2 THEN NULL ELSE block[c[k]].prev
    BY <1>2, <1>14, Zenon
  <2> QED BY <2>1, <2>2, <1>0, <1>1, TailLinked, Zenon
<1>17. Snapshots(Tail(s), t, block', LatestMemory)
  <2>1. Snapshots(Tail(s), t, block, LatestMemory)
    BY <1>0, <1>1, SnapshotsTail, Zenon DEF Encoded
  <2>2. \A k \in 1..(n - 1) : /\ block'[t[k]].regs = block[t[k]].regs
                             /\ block'[t[k]].diff = block[t[k]].diff
    <3> SUFFICES ASSUME NEW k \in 1..(n - 1)
                 PROVE  /\ block'[t[k]].regs = block[t[k]].regs
                        /\ block'[t[k]].diff = block[t[k]].diff
      OBVIOUS
    <3>1. k + 1 \in 2..n
      BY <1>2
    <3> QED BY <3>1, <1>3, <1>14
  <2> QED BY <2>1, <2>2, <1>4, SnapshotsKept, Zenon
<1>18. n # 1 => t[1] = c[2] /\ t[n - 1] = c[n]
  <2> SUFFICES ASSUME n # 1 PROVE t[1] = c[2] /\ t[n - 1] = c[n]
    OBVIOUS
  <2>1. 1 \in 1..(n - 1) /\ n - 1 \in 1..(n - 1) /\ (n - 1) + 1 = n
    OBVIOUS
  <2> QED BY <2>1, <1>3
<1>19. /\ Pointer(t, n - 1) = IF n = 1 THEN NULL ELSE c[n]
  BY <1>18 DEF Pointer
<1>20. n # 1 => block'[c[n]].next = NULL
  BY <1>2, <1>5, <1>14 DEF Encoded, Ended
<1>21. Listed(t)'
  <2>1. /\ undo_count' = Len(t) /\ last_undo' = Pointer(t, Len(t))
        /\ Len(t) > 0 => first_undo' = t[1]
    BY <1>2, <1>8, <1>11, <1>12, <1>18, <1>19
  <2> QED BY <2>1, <1>15, <1>16, Zenon DEF Listed
<1>22. Ended(t)'
  BY <1>2, <1>8, <1>11, <1>12, <1>20 DEF Ended
<1>23. curr_undo' = Pointer(t, Len(Tail(s)))
  BY <1>4, <1>10, <1>19, Zenon
<1> QED BY <1>2, <1>4, <1>17, <1>21, <1>22, <1>23, <1>0, Zenon
-----------------------------------------------------------------------------
(* The steps, one after the other.  Each has its lemma.                    *)
LEMMA NoSnapshots ==
  ASSUME NEW b, NEW latest
  PROVE  Enumerates(<<>>, {}) /\ Linked(<<>>, b) /\ Snapshots(<<>>, <<>>, b, latest)
<1>1. Len(<<>>) = 0 /\ <<>> \in Seq({}) /\ <<>> \in Seq([memory : Memory, regs : Regs])
  BY EmptySeq
<1> QED BY <1>1 DEF Enumerates, Linked, Snapshots

LEMMA RunStep ==
  ASSUME TypeOK, NEW c, NEW s, Witness(c, s), Run
  PROVE  \E c2, s2 : Witness(c2, s2)' /\ Transition(s, s2)
<1>1. /\ mode = "run" /\ mode' = "run" /\ UNCHANGED list
      /\ undo_slots' = undo_slots /\ zmp' \in Memory /\ regs' \in Regs
  BY Zenon DEF Run
<1>2. LatestMemory' = LatestMemory
  BY <1>1 DEF Run, LatestMemory
<1>3. Encoded(c, s)'
  BY <1>1, <1>2, EncodedKept, Zenon DEF Witness
<1>4. Phase(c, s)'
  BY <1>1 DEF Witness, Phase, Saving
<1>5. Transition(s, s)
  BY <1>1, Zenon DEF Transition
<1> QED BY <1>3, <1>4, <1>5, Zenon DEF Witness

LEMMA Stuttering ==
  ASSUME TypeOK, NEW s, UNCHANGED <<zmp, regs>>
  PROVE  Transition(s, s)
BY Zenon DEF TypeOK, Transition

LEMMA BeginSaveStep ==
  ASSUME TypeOK, NEW c, NEW s, Witness(c, s), BeginSave
  PROVE  \E c2, s2 : Witness(c2, s2)' /\ Transition(s, s2)
<1>1. /\ mode = "run" /\ mode' = "trim" /\ UNCHANGED list
      /\ undo_slots' = undo_slots /\ undo_slots # 0 /\ UNCHANGED <<zmp, regs>>
  BY Zenon DEF BeginSave
<1>2. LatestMemory' = LatestMemory
  BY <1>1 DEF BeginSave, LatestMemory
<1>3. Encoded(c, s)'
  BY <1>1, <1>2, EncodedKept, Zenon DEF Witness
<1>4. Phase(c, s)'
  BY <1>1 DEF Witness, Phase, Saving, TypeOK
<1>5. Transition(s, s)
  BY <1>1, Stuttering, Zenon
<1> QED BY <1>3, <1>4, <1>5, Zenon DEF Witness

LEMMA DropUndoneStep ==
  ASSUME TypeOK, NEW c, NEW s, Witness(c, s), DropUndone
  PROVE  \E c2, s2 : Witness(c2, s2)' /\ Transition(s, s2)
<1>1. Encoded(c, s)
  BY Zenon DEF Witness
<1>2. PICK n \in Nat, m \in Nat : n = Len(c) /\ m = Len(s) /\ m <= n
  BY <1>1, WitnessFacts, Zenon
<1>3. last_undo = Pointer(c, n) /\ curr_undo = Pointer(c, m) /\ undo_count = n
  BY <1>1, <1>2, Zenon DEF Encoded, Listed
<1>4. m < n
  <2>1. m # n
    BY <1>3, Zenon DEF DropUndone
  <2> QED BY <2>1, <1>2
<1>5. /\ c \in Seq(live) /\ c # <<>> /\ Enumerates(c, live)
      /\ \A k \in 1..n : c[k] \in Block
  <2>1. n # 0
    BY <1>4
  <2> QED BY <2>1, <1>1, <1>2, WitnessFacts, Zenon DEF Encoded, Listed
<1>6. PICK t : t = Front(c)
  OBVIOUS
<1>7. Len(t) = n - 1 /\ \A k \in 1..(n - 1) : t[k] = c[k]
  BY <1>2, <1>5, <1>6, FrontFacts, Zenon
<1>8. last_undo = c[n] /\ n \in 1..n
  BY <1>3, <1>4 DEF Pointer
<1>9. /\ live' = live \ {c[n]} /\ undo_count' = n - 1
      /\ block' = [block EXCEPT ![c[n]] = EmptyBlock]
      /\ last_undo' = block[c[n]].prev
      /\ first_undo' = first_undo /\ curr_undo' = curr_undo
      /\ mode = "trim" /\ mode' = "trim" /\ undo_slots' = undo_slots
      /\ prev_zmp' = prev_zmp /\ undo_diff' = undo_diff /\ UNCHANGED <<zmp, regs>>
  BY <1>3, <1>8, Zenon DEF DropUndone
<1>10. \A j, k \in 1..n : c[j] = c[k] => j = k
  BY <1>2, <1>5, Zenon DEF Enumerates
<1>11. \A k \in 1..(n - 1) : block'[c[k]] = block[c[k]]
  <2> SUFFICES ASSUME NEW k \in 1..(n - 1) PROVE block'[c[k]] = block[c[k]]
    OBVIOUS
  <2>1. k \in 1..n /\ k # n /\ n \in 1..n
    BY <1>2, <1>8
  <2>2. c[k] # c[n] /\ c[k] \in Block /\ c[n] \in Block
    BY <2>1, <1>5, <1>10, Zenon
  <2>3. block \in [Block -> [diff : Memory, regs : Regs,
                             next : Block \cup {NULL}, prev : Block \cup {NULL}]]
    BY Zenon DEF TypeOK
  <2> QED BY <2>2, <2>3, <1>9
<1>12. last_undo' = Pointer(t, n - 1)
  <2>1. block[c[n]].prev = Pointer(c, n - 1)
    BY <1>1, <1>2, <1>8, Zenon DEF Encoded, Listed, Linked
  <2>2. n - 1 # 0 => n - 1 \in 1..(n - 1)
    BY <1>4
  <2> QED BY <2>1, <2>2, <1>7, <1>9, Zenon DEF Pointer
<1>13. Enumerates(t, live')
  BY <1>2, <1>5, <1>6, <1>9, FrontEnumerates, Zenon
<1>14. Linked(t, block')
  <2>1. Linked(c, block)
    BY <1>1, Zenon DEF Encoded, Listed
  <2>2. \A k \in 1..(Len(c) - 1) : block'[c[k]] = block[c[k]]
    BY <1>2, <1>11, Zenon
  <2>3. c \in Seq(live) /\ c # <<>>
    BY <1>5
  <2>4. Linked(Front(c), block')
    BY <2>1, <2>2, <2>3, FrontLinked
  <2> QED BY <2>4, <1>6, Zenon
<1>15. Len(t) > 0 => first_undo' = t[1]
  <2> SUFFICES ASSUME n - 1 > 0 PROVE first_undo' = t[1]
    BY <1>7, Zenon
  <2>1. first_undo = c[1] /\ 1 \in 1..(n - 1)
    BY <1>1, <1>2 DEF Encoded, Listed
  <2> QED BY <2>1, <1>7, <1>9, Zenon
<1>16. Listed(t)'
  BY <1>7, <1>9, <1>12, <1>13, <1>14, <1>15, Zenon DEF Listed
<1>17. LatestMemory' = LatestMemory
  BY <1>9, Zenon DEF LatestMemory
<1>18. Snapshots(s, t, block', LatestMemory)
  <2>1. Snapshots(s, t, block, LatestMemory)
    BY <1>1, <1>2, <1>4, <1>5, <1>6, SnapshotsCut, Zenon DEF Encoded
  <2>2. \A k \in 1..m : k \in 1..(n - 1)
    BY <1>4
  <2>3. \A k \in 1..m : block'[t[k]] = block[t[k]]
    BY <2>2, <1>7, <1>11
  <2> QED BY <2>1, <2>3, <1>2, SnapshotsKept, Zenon
<1>19. curr_undo' = Pointer(t, Len(s))
  <2>1. m # 0 => m \in 1..(n - 1)
    BY <1>4
  <2> QED BY <2>1, <1>2, <1>3, <1>7, <1>9, Zenon DEF Pointer
<1>20. Encoded(t, s)'
  BY <1>9, <1>16, <1>17, <1>18, <1>19, Zenon DEF Encoded
<1>21. Phase(t, s)'
  <2>1. n <= undo_slots /\ undo_slots = SLOTS /\ SLOTS \in Nat /\ SLOTS # 0
    BY <1>2, <1>9, UndoAssumption DEF Witness, Phase, Saving, UndoAssumption
  <2>2. Len(t) <= undo_slots'
    BY <2>1, <1>7, <1>9
  <2> QED BY <2>1, <2>2, <1>9 DEF Phase
<1>22. Transition(s, s)
  BY <1>9, Stuttering, Zenon
<1> QED BY <1>20, <1>21, <1>22, Zenon DEF Witness

LEMMA EndTrimStep ==
  ASSUME TypeOK, NEW c, NEW s, Witness(c, s), EndTrim
  PROVE  \E c2, s2 : Witness(c2, s2)' /\ Transition(s, s2)
<1>1. Encoded(c, s)
  BY Zenon DEF Witness
<1>2. PICK n \in Nat, m \in Nat : n = Len(c) /\ m = Len(s) /\ m <= n
  BY <1>1, WitnessFacts, Zenon
<1>3. /\ last_undo = Pointer(c, n) /\ curr_undo = Pointer(c, m) /\ undo_count = n
      /\ live \in SUBSET Block /\ Enumerates(c, live) /\ Linked(c, block)
      /\ \A k \in 1..n : c[k] \in Block /\ c[k] # NULL
  BY <1>1, <1>2, WitnessFacts, Zenon DEF Encoded, Listed
<1>4. /\ live' = live /\ undo_count' = n /\ last_undo' = last_undo
      /\ curr_undo' = curr_undo /\ last_undo = curr_undo
      /\ mode = "trim" /\ mode' = "room" /\ undo_slots' = undo_slots
      /\ prev_zmp' = prev_zmp /\ undo_diff' = undo_diff /\ UNCHANGED <<zmp, regs>>
  BY <1>3, Zenon DEF EndTrim
<1>5. m = n
  <2>1. m \in 0..Len(c) /\ n \in 0..Len(c)
    BY <1>2
  <2> QED BY <2>1, <1>3, <1>4, PointerInjective, Zenon
<1>6. CASE n = 0
  <2>1. last_undo = NULL
    BY <1>3, <1>6, Zenon DEF Pointer
  <2>2. first_undo' = NULL /\ block' = block
    BY <2>1, Zenon DEF EndTrim
  <2>3. Listed(c)' /\ Ended(c)'
    <3>1. ~(Len(c) > 0)
      BY <1>2, <1>6
    <3> QED BY <3>1, <2>2, <1>2, <1>3, <1>4, Zenon DEF Listed, Ended
  <2>4. LatestMemory' = LatestMemory
    BY <1>4 DEF LatestMemory
  <2>5. Encoded(c, s)'
    BY <2>2, <2>3, <2>4, <1>1, <1>4, Zenon DEF Encoded
  <2>6. Phase(c, s)'
    BY <1>2, <1>4, <1>5 DEF Witness, Phase, Saving
  <2>7. Transition(s, s)
    BY <1>4, Stuttering, Zenon
  <2> QED BY <2>5, <2>6, <2>7, Zenon DEF Witness
<1>7. CASE n # 0
  <2>1. last_undo = c[n] /\ n \in 1..n /\ c[n] \in Block /\ c[n] # NULL /\ Len(c) > 0
    BY <1>2, <1>3, <1>7 DEF Pointer
  <2>2. first_undo' = first_undo /\ block' = [block EXCEPT ![c[n]].next = NULL]
    BY <2>1, Zenon DEF EndTrim
  <2>3. block \in [Block -> [diff : Memory, regs : Regs,
                             next : Block \cup {NULL}, prev : Block \cup {NULL}]]
    BY Zenon DEF TypeOK
  <2>4. \A k \in 1..n :
          /\ block'[c[k]].prev = block[c[k]].prev
          /\ block'[c[k]].next = IF k = n THEN NULL ELSE block[c[k]].next
          /\ block'[c[k]].regs = block[c[k]].regs
          /\ block'[c[k]].diff = block[c[k]].diff
    <3>1. \A j, k \in 1..n : c[j] = c[k] => j = k
      BY <1>2, <1>3, Zenon DEF Enumerates
    <3> QED BY <3>1, <2>1, <2>2, <2>3, <1>3
  <2>5. Linked(c, block')
    <3>1. \A k \in 1..(n - 1) : k \in 1..n /\ k # n
      BY <1>2
    <3>2. \A k \in 1..n : block[c[k]].prev = Pointer(c, k - 1)
      BY <1>2, <1>3, Zenon DEF Linked
    <3>3. \A k \in 1..(n - 1) : block[c[k]].next = c[k + 1]
      BY <1>2, <1>3, Zenon DEF Linked
    <3>4. \A k \in 1..n : block'[c[k]].prev = Pointer(c, k - 1)
      BY <3>2, <2>4, Zenon
    <3>5. \A k \in 1..(n - 1) : block'[c[k]].next = c[k + 1]
      BY <3>1, <3>3, <2>4
    <3> QED BY <3>4, <3>5, <1>2, Zenon DEF Linked
  <2>6. Listed(c)' /\ Ended(c)'
    <3>1. first_undo = c[1]
      BY <2>1, <1>1, Zenon DEF Encoded, Listed
    <3>2. block'[c[n]].next = NULL
      BY <2>1, <2>4
    <3>3. Len(c) # 0
      BY <1>2, <1>7
    <3> QED BY <3>1, <3>2, <3>3, <2>1, <2>2, <2>5, <1>2, <1>3, <1>4, Zenon DEF Listed, Ended
  <2>7. LatestMemory' = LatestMemory
    BY <1>4 DEF LatestMemory
  <2>8. Snapshots(s, c, block', LatestMemory)
    <3>1. Snapshots(s, c, block, LatestMemory)
      BY <1>1, Zenon DEF Encoded
    <3>2. \A k \in 1..Len(s) : /\ block'[c[k]].regs = block[c[k]].regs
                              /\ block'[c[k]].diff = block[c[k]].diff
      BY <2>4, <1>2, <1>5
    <3> QED BY <3>1, <3>2, SnapshotsKept, Zenon
  <2>9. Encoded(c, s)'
    BY <2>6, <2>7, <2>8, <1>1, <1>4, Zenon DEF Encoded
  <2>10. Phase(c, s)'
    BY <1>2, <1>4, <1>5 DEF Witness, Phase, Saving
  <2>11. Transition(s, s)
    BY <1>4, Stuttering, Zenon
  <2> QED BY <2>9, <2>10, <2>11, Zenon DEF Witness
<1> QED BY <1>6, <1>7

LEMMA MakeDiffStep ==
  ASSUME TypeOK, NEW c, NEW s, Witness(c, s), MakeDiff
  PROVE  \E c2, s2 : Witness(c2, s2)' /\ Transition(s, s2)
<1>1. Encoded(c, s)
  BY Zenon DEF Witness
<1>2. PICK n \in Nat : n = Len(c) /\ n = Len(s)
  <2>1. Len(s) = Len(c)
    BY DEF Witness, Phase, MakeDiff
  <2> QED BY <2>1, <1>1, WitnessFacts, Zenon
<1>3. /\ mode = "room" /\ mode' = "alloc" /\ undo_slots' = undo_slots
      /\ prev_zmp' = zmp /\ zmp' = zmp /\ UNCHANGED <<zmp, regs>>
      /\ undo_diff' = Xor(zmp, prev_zmp)
  BY Zenon DEF MakeDiff
<1>4. /\ undo_count = n /\ undo_slots = SLOTS /\ n <= undo_slots /\ SLOTS \in Nat
      /\ undo_slots # 0
  BY <1>1, <1>2, <1>3, UndoAssumption
     DEF Witness, Phase, Saving, Encoded, Listed, UndoAssumption
<1>5. LatestMemory' = LatestMemory
  <2>1. LatestMemory = prev_zmp
    BY <1>3 DEF LatestMemory
  <2>2. LatestMemory' = Xor(zmp, Xor(zmp, prev_zmp))
    BY <1>3 DEF LatestMemory
  <2>3. zmp \in Memory /\ prev_zmp \in Memory
    BY Zenon DEF TypeOK
  <2> QED BY <2>1, <2>2, <2>3, XorFacts, Zenon
<1>6. CASE n = undo_slots
  <2>1. FreeFirst
    BY <1>4, <1>6, Zenon DEF MakeDiff, Full
  <2>2. Len(s) = Len(c) /\ Len(c) > 0 /\ mode # "trim"
    BY <1>2, <1>3, <1>4, <1>6
  <2>3. /\ Listed(Tail(c))' /\ Ended(Tail(c))'
        /\ Snapshots(Tail(s), Tail(c), block', LatestMemory)
        /\ curr_undo' = Pointer(Tail(c), Len(Tail(s)))
        /\ Len(Tail(c)) = n - 1 /\ Len(Tail(s)) = n - 1
    BY <2>1, <2>2, <1>1, <1>2, FreeFirstFrees, Zenon
  <2>4. Encoded(Tail(c), Tail(s))'
    BY <2>3, <1>5, Zenon DEF Encoded
  <2>5. Phase(Tail(c), Tail(s))'
    BY <2>3, <1>3, <1>4 DEF Phase
  <2>6. s # <<>>
    BY <2>2, EmptySeq
  <2>7. Len(s) = SLOTS
    BY <1>2, <1>4, <1>6
  <2>8. Transition(s, Tail(s))
    BY <2>6, <2>7, <1>3, Zenon DEF Transition
  <2> QED BY <2>4, <2>5, <2>8, Zenon DEF Witness
<1>7. CASE n # undo_slots
  <2>1. UNCHANGED list
    BY <1>4, <1>7, Zenon DEF MakeDiff, Full
  <2>2. mode # "trim"
    BY <1>3
  <2>3. Encoded(c, s)'
    BY <2>1, <2>2, <1>1, <1>5, EncodedKept, Zenon
  <2>4. Phase(c, s)'
    BY <1>2, <1>3, <1>4, <1>7 DEF Phase
  <2>5. Transition(s, s)
    BY <1>3, Stuttering, Zenon
  <2> QED BY <2>3, <2>4, <2>5, Zenon DEF Witness
<1> QED BY <1>6, <1>7

LEMMA AllocFailsStep ==
  ASSUME TypeOK, NEW c, NEW s, Witness(c, s), AllocFails
  PROVE  \E c2, s2 : Witness(c2, s2)' /\ Transition(s, s2)
<1>1. /\ mode = "alloc" /\ mode' = "failed" /\ MallocFails /\ UNCHANGED list
      /\ undo_slots' = undo_slots /\ zmp' = zmp /\ prev_zmp' = prev_zmp
      /\ undo_diff' = undo_diff /\ UNCHANGED <<zmp, regs>>
  BY Zenon DEF AllocFails
<1>2. LatestMemory' = LatestMemory
  BY <1>1 DEF LatestMemory
<1>3. mode # "trim"
  BY <1>1
<1>4. Encoded(c, s)'
  BY <1>1, <1>2, <1>3, EncodedKept, Zenon DEF Witness
<1>5. Phase(c, s)'
  BY <1>1 DEF Witness, Phase, Saving
<1>6. Transition(s, s)
  BY <1>1, Stuttering, Zenon
<1> QED BY <1>4, <1>5, <1>6, Zenon DEF Witness

LEMMA AllocAgainStep ==
  ASSUME TypeOK, NEW c, NEW s, Witness(c, s), AllocAgain
  PROVE  \E c2, s2 : Witness(c2, s2)' /\ Transition(s, s2)
<1>1. Encoded(c, s)
  BY Zenon DEF Witness
<1>2. PICK n \in Nat : n = Len(c) /\ n = Len(s)
  <2>1. Len(s) = Len(c)
    BY DEF Witness, Phase, AllocAgain
  <2> QED BY <2>1, <1>1, WitnessFacts, Zenon
<1>3. /\ mode = "failed" /\ undo_slots' = undo_slots
      /\ prev_zmp' = prev_zmp /\ zmp' = zmp /\ UNCHANGED <<zmp, regs>>
  BY Zenon DEF AllocAgain
<1>4. /\ undo_count = n /\ undo_slots = SLOTS /\ n < undo_slots /\ SLOTS \in Nat
      /\ prev_zmp = zmp /\ MallocFails
  BY <1>1, <1>2, <1>3, UndoAssumption
     DEF Witness, Phase, Saving, Encoded, Listed, UndoAssumption
<1>5. CASE n > 0
  <2>1. FreeFirst
    BY <1>4, <1>5, Zenon DEF AllocAgain
  <2>2. Len(s) = Len(c) /\ Len(c) > 0 /\ mode # "trim"
    BY <1>2, <1>3, <1>5
  <2>3. PICK t, u : t = Tail(c) /\ u = Tail(s)
    OBVIOUS
  <2>4. /\ Listed(t)' /\ Ended(t)'
        /\ Snapshots(u, t, block', LatestMemory)
        /\ curr_undo' = Pointer(t, Len(u))
        /\ Len(t) = n - 1 /\ Len(u) = n - 1
    BY <2>1, <2>2, <2>3, <1>1, <1>2, FreeFirstFrees, Zenon
  <2>5. /\ GiveUp <=> n - 1 = 0
        /\ GiveUp => mode' = "run" /\ undo_diff' = {}
        /\ ~GiveUp => mode' = "alloc" /\ undo_diff' = undo_diff
    <3>1. undo_count' = n - 1
      BY <2>4, Zenon DEF Listed
    <3> QED BY <3>1, Zenon DEF AllocAgain, GiveUp
  <2>6. Encoded(t, u)'
    <3>1. CASE n - 1 = 0
      <4>1. Snapshots(u, t, block', LatestMemory')
        <5>1. ~(Len(u) > 0)
          BY <3>1, <2>4
        <5> QED BY <5>1, <2>4 DEF Snapshots
      <4> QED BY <4>1, <2>4, Zenon DEF Encoded
    <3>2. CASE n - 1 # 0
      <4>1. LatestMemory' = LatestMemory
        BY <3>2, <2>5, <1>3 DEF LatestMemory
      <4> QED BY <4>1, <2>4, Zenon DEF Encoded
    <3> QED BY <3>1, <3>2
  <2>7. Phase(t, u)'
    <3>1. Len(t) <= undo_slots' /\ Len(t) < undo_slots'
      BY <2>4, <1>3, <1>4
    <3> QED BY <3>1, <2>4, <2>5, <1>3, <1>4 DEF Phase
  <2>8. s # <<>>
    BY <2>2, EmptySeq
  <2>9. Transition(s, u)
    BY <2>3, <2>8, <1>3, <1>4, Zenon DEF Transition
  <2> QED BY <2>6, <2>7, <2>9, Zenon DEF Witness
<1>6. CASE n = 0
  <2>1. /\ UNCHANGED list /\ undo_count' = 0
    BY <1>4, <1>6 DEF AllocAgain, list
  <2>2. mode' = "run"
    BY <2>1, Zenon DEF AllocAgain, GiveUp
  <2>3. s = <<>> /\ mode # "trim"
    <3>1. mode # "trim"
      BY <1>3
    <3>2. Len(s) = 0
      BY <1>2, <1>6
    <3>3. s = <<>>
      BY <3>2, <1>1, WitnessFacts
    <3> QED BY <3>1, <3>3
  <2>4. Encoded(c, s)'
    BY <2>1, <2>3, <1>1, EncodedKept, Zenon
  <2>5. Phase(c, s)'
    BY <2>2, <1>2, <1>3, <1>4 DEF Phase, Saving
  <2>6. Transition(s, s)
    BY <1>3, Stuttering, Zenon
  <2> QED BY <2>4, <2>5, <2>6, Zenon DEF Witness
<1> QED BY <1>5, <1>6

LEMMA AllocStep ==
  ASSUME TypeOK, NEW c, NEW s, Witness(c, s), NEW p \in Block, Alloc(p)
  PROVE  \E c2, s2 : Witness(c2, s2)' /\ Transition(s, s2)
<1>1. Encoded(c, s)
  BY Zenon DEF Witness
<1>2. PICK n \in Nat : n = Len(c) /\ n = Len(s)
  <2>1. Len(s) = Len(c)
    BY DEF Witness, Phase, Alloc
  <2> QED BY <2>1, <1>1, WitnessFacts, Zenon
<1>3. /\ mode = "alloc" /\ mode' = "run" /\ undo_slots' = undo_slots
      /\ prev_zmp' = prev_zmp /\ UNCHANGED <<zmp, regs>> /\ undo_diff' = {}
      /\ last_undo' = p /\ curr_undo' = p /\ live' = live \cup {p} /\ p \notin live
      /\ undo_count' = undo_count + 1
  BY Zenon DEF Alloc
<1>4. /\ undo_count = n /\ undo_slots = SLOTS /\ n < undo_slots /\ SLOTS \in Nat
      /\ prev_zmp = zmp /\ last_undo = Pointer(c, n)
  BY <1>1, <1>2, <1>3, UndoAssumption
     DEF Witness, Phase, Saving, Encoded, Listed, UndoAssumption
<1>5. /\ c \in Seq(live) /\ Enumerates(c, live) /\ Linked(c, block)
      /\ \A k \in 1..n : c[k] \in live /\ c[k] \in Block /\ c[k] # NULL
      /\ s \in Seq([memory : Memory, regs : Regs])
  BY <1>1, <1>2, WitnessFacts, Zenon DEF Encoded, Listed
<1>6. first_undo = NULL <=> n = 0
  <2>1. n = 0 => first_undo = NULL
    BY <1>1, <1>2, <1>3 DEF Encoded, Ended
  <2>2. n # 0 => first_undo = c[1] /\ 1 \in 1..n
    BY <1>1, <1>2 DEF Encoded, Listed
  <2> QED BY <2>1, <2>2, <1>5
<1>7. PICK new : new = [diff |-> undo_diff, regs |-> regs, next |-> NULL,
                        prev |-> IF first_undo = NULL THEN NULL ELSE last_undo]
  OBVIOUS
<1>8. new.prev = Pointer(c, n) /\ new.next = NULL /\ new.diff = undo_diff /\ new.regs = regs
  BY <1>4, <1>6, <1>7 DEF Pointer
<1>9. block \in [Block -> [diff : Memory, regs : Regs,
                          next : Block \cup {NULL}, prev : Block \cup {NULL}]]
  BY Zenon DEF TypeOK
<1>10. block'[p] = new
  <2>1. CASE n = 0
    BY <2>1, <1>6, <1>7, <1>9 DEF Alloc
  <2>2. CASE n # 0
    <3>1. block' = [block EXCEPT ![p] = new, ![c[n]].next = p]
      BY <2>2, <1>4, <1>6, <1>7, Zenon DEF Alloc, Pointer
    <3>2. c[n] # p /\ c[n] \in Block
      BY <2>2, <1>3, <1>5
    <3> QED BY <3>1, <3>2, <1>9
  <2> QED BY <2>1, <2>2
<1>11. \A k \in 1..n :
         /\ block'[c[k]].prev = block[c[k]].prev
         /\ block'[c[k]].next = IF k = n THEN p ELSE block[c[k]].next
         /\ block'[c[k]].regs = block[c[k]].regs
         /\ block'[c[k]].diff = block[c[k]].diff
  <2> SUFFICES ASSUME NEW k \in 1..n
               PROVE  /\ block'[c[k]].prev = block[c[k]].prev
                      /\ block'[c[k]].next = IF k = n THEN p ELSE block[c[k]].next
                      /\ block'[c[k]].regs = block[c[k]].regs
                      /\ block'[c[k]].diff = block[c[k]].diff
    OBVIOUS
  <2>1. n # 0 /\ n \in 1..n
    OBVIOUS
  <2>2. block' = [block EXCEPT ![p] = new, ![c[n]].next = p]
    BY <2>1, <1>4, <1>6, <1>7, Zenon DEF Alloc, Pointer
  <2>3. c[n] # p /\ c[k] # p /\ c[n] \in Block /\ c[k] \in Block
    BY <2>1, <1>3, <1>5
  <2>4. c[k] = c[n] => k = n
    BY <2>1, <1>2, <1>5, Zenon DEF Enumerates
  <2> QED BY <2>2, <2>3, <2>4, <1>9
<1>12. PICK t, u : t = Append(c, p) /\ u = Append(s, [memory |-> zmp, regs |-> regs])
  OBVIOUS
<1>13. Len(t) = n + 1 /\ t[n + 1] = p /\ (n # 0 => t[1] = c[1])
  <2>1. c \in Seq(Block)
    BY <1>1, WitnessFacts, Zenon
  <2>2. /\ Len(Append(c, p)) = n + 1 /\ Append(c, p)[n + 1] = p
        /\ \A k \in 1..n : Append(c, p)[k] = c[k]
    <3>1. p \in Block
      OBVIOUS
    <3>2. /\ Len(Append(c, p)) = Len(c) + 1 /\ Append(c, p)[Len(c) + 1] = p
          /\ \A k \in 1..Len(c) : Append(c, p)[k] = c[k]
      BY <2>1, <3>1, AppendFacts
    <3> QED BY <3>2, <1>2, Zenon
  <2>3. n # 0 => 1 \in 1..n
    BY <1>2
  <2> QED BY <2>2, <2>3, <1>12, Zenon
<1>14. zmp \in Memory /\ regs \in Regs /\ prev_zmp \in Memory /\ undo_diff \in Memory
  BY Zenon DEF TypeOK
<1>15. PICK r \in [memory : Memory, regs : Regs] :
          r = [memory |-> zmp, regs |-> regs] /\ r.memory = zmp /\ r.regs = regs
  <2>1. [memory |-> zmp, regs |-> regs] \in [memory : Memory, regs : Regs]
    BY <1>14
  <2> QED BY <2>1, Zenon
<1>16. Len(u) = n + 1 /\ u = Append(s, r)
  <2>1. Len(Append(s, r)) = n + 1
    BY <1>2, <1>5, AppendProperties
  <2> QED BY <2>1, <1>12, <1>15, Zenon
<1>17. Enumerates(t, live')
  BY <1>3, <1>5, <1>12, AppendEnumerates, Zenon
<1>18. Linked(t, block')
  <2>1. block'[p].prev = Pointer(c, Len(c))
    BY <1>2, <1>8, <1>10, Zenon
  <2>2. \A k \in 1..Len(c) : /\ block'[c[k]].prev = block[c[k]].prev
                            /\ block'[c[k]].next = IF k = Len(c) THEN p ELSE block[c[k]].next
    BY <1>2, <1>11, Zenon
  <2>3. Linked(Append(c, p), block')
    BY <2>1, <2>2, <1>5, AppendLinked
  <2> QED BY <2>3, <1>12, Zenon
<1>19. Listed(t)'
  <2>1. undo_count' = Len(t)
    BY <1>3, <1>4, <1>13, Zenon
  <2>2. last_undo' = Pointer(t, Len(t))
    BY <1>3, <1>13 DEF Pointer
  <2>3. first_undo' = t[1]
    <3>1. CASE n = 0
      <4>1. first_undo' = p
        BY <3>1, <1>6, Zenon DEF Alloc
      <4>2. t[1] = p
        BY <3>1, <1>13
      <4> QED BY <4>1, <4>2
    <3>2. CASE n # 0
      <4>1. first_undo = c[1]
        BY <3>2, <1>1, <1>2 DEF Encoded, Listed
      <4>2. first_undo' = first_undo
        BY <3>2, <1>6, Zenon DEF Alloc
      <4> QED BY <4>1, <4>2, <3>2, <1>13, Zenon
    <3> QED BY <3>1, <3>2
  <2> QED BY <2>1, <2>2, <2>3, <1>17, <1>18, Zenon DEF Listed
<1>20. Ended(t)'
  BY <1>3, <1>8, <1>10, <1>13 DEF Ended
<1>21. Snapshots(u, t, block', LatestMemory')
  <2>1. Snapshots(s, c, block', LatestMemory)
    <3>1. \A k \in 1..Len(s) : /\ block'[c[k]].regs = block[c[k]].regs
                              /\ block'[c[k]].diff = block[c[k]].diff
      BY <1>2, <1>11, Zenon
    <3>2. Snapshots(s, c, block, LatestMemory)
      BY <1>1, Zenon DEF Encoded
    <3> QED BY <3>1, <3>2, SnapshotsKept, Zenon
  <2>2. LatestMemory = Xor(zmp, undo_diff)
    BY <1>3, <1>4 DEF LatestMemory
  <2>3. r.regs = block'[p].regs /\ LatestMemory = Xor(r.memory, block'[p].diff)
    BY <2>2, <1>8, <1>10, <1>15, Zenon
  <2>4. Len(s) = Len(c)
    BY <1>2, Zenon
  <2>5. Snapshots(Append(s, r), Append(c, p), block', r.memory)
    BY <2>1, <2>3, <2>4, <1>5, SnapshotsSaved
  <2>6. LatestMemory' = zmp
    BY <1>3, <1>4 DEF LatestMemory
  <2> QED BY <2>5, <2>6, <1>12, <1>15, <1>16, Zenon
<1>22. curr_undo' = Pointer(t, Len(u))
  BY <1>3, <1>13, <1>16 DEF Pointer
<1>23. Encoded(t, u)'
  BY <1>19, <1>20, <1>21, <1>22, Zenon DEF Encoded
<1>24. Phase(t, u)'
  BY <1>3, <1>4, <1>13 DEF Phase, Saving
<1>25. Transition(s, u)
  <2>1. Len(s) < SLOTS
    BY <1>2, <1>4
  <2> QED BY <2>1, <1>3, <1>12, Zenon DEF Transition
<1> QED BY <1>23, <1>24, <1>25, Zenon DEF Witness

LEMMA RestoreStep ==
  ASSUME TypeOK, NEW c, NEW s, Witness(c, s), Restore
  PROVE  \E c2, s2 : Witness(c2, s2)' /\ Transition(s, s2)
<1>1. Encoded(c, s)
  BY Zenon DEF Witness
<1>2. PICK n \in Nat, m \in Nat : n = Len(c) /\ m = Len(s) /\ m <= n
  BY <1>1, WitnessFacts, Zenon
<1>3. /\ undo_slots' = undo_slots /\ live' = live /\ block' = block
      /\ first_undo' = first_undo /\ last_undo' = last_undo /\ undo_count' = undo_count
      /\ undo_diff' = undo_diff /\ mode = "run"
  BY Zenon DEF Restore
<1>4. /\ curr_undo = Pointer(c, m) /\ s \in Seq([memory : Memory, regs : Regs])
      /\ \A k \in 1..n : c[k] # NULL /\ c[k] \in Block
      /\ c \in Seq(live) /\ Snapshots(s, c, block, LatestMemory)
  BY <1>1, <1>2, WitnessFacts, Zenon DEF Encoded
<1>5. LatestMemory = prev_zmp
  BY <1>3 DEF LatestMemory
<1>6. CASE m = 0
  <2>1. curr_undo = NULL
    BY <1>4, <1>6, Zenon DEF Pointer
  <2>2. mode' = "fault" /\ UNCHANGED <<zmp, regs, prev_zmp, curr_undo>>
    BY <2>1, Zenon DEF Restore
  <2>3. UNCHANGED list
    BY <2>2, <1>3, Zenon DEF list
  <2>4. mode # "trim" /\ s = <<>>
    <3>1. mode # "trim"
      BY <1>3
    <3>2. Len(s) = 0
      BY <1>2, <1>6
    <3>3. s = <<>>
      BY <3>2, <1>1, WitnessFacts
    <3> QED BY <3>1, <3>3
  <2>5. Encoded(c, s)'
    BY <2>3, <2>4, <1>1, EncodedKept, Zenon
  <2>6. Phase(c, s)'
    BY <2>2, <1>2, <1>3 DEF Witness, Phase, Saving
  <2>7. Transition(s, s)
    BY <2>2, Stuttering, Zenon
  <2> QED BY <2>5, <2>6, <2>7, Zenon DEF Witness
<1>7. CASE m # 0
  <2>1. m \in 1..n /\ m \in 1..m /\ Len(s) > 0
    BY <1>2, <1>7
  <2>2. curr_undo = c[m] /\ curr_undo # NULL
    BY <2>1, <1>4, <1>7, Zenon DEF Pointer
  <2>3. /\ zmp' = Restarted(prev_zmp) /\ regs' = block[c[m]].regs
        /\ prev_zmp' = Xor(prev_zmp, block[c[m]].diff)
        /\ curr_undo' = block[c[m]].prev /\ mode' = "run"
    BY <2>2, <1>3, Zenon DEF Restore, EarlierMemory
  <2>4. s # <<>>
    BY <1>1, <1>2, <1>7, WitnessFacts, Zenon
  <2>5. PICK u : u = Front(s)
    OBVIOUS
  <2>6. Len(u) = m - 1
    BY <2>4, <2>5, <1>2, <1>4, FrontFacts, Zenon
  <2>7. block[c[m]].prev = Pointer(c, m - 1)
    BY <2>1, <1>1, <1>2, Zenon DEF Encoded, Listed, Linked
  <2>8. Snapshots(u, c, block', LatestMemory')
    <3>1. LatestMemory' = prev_zmp'
      BY <2>3 DEF LatestMemory
    <3>2. Snapshots(Front(s), c, block, Xor(LatestMemory, block[c[Len(s)]].diff))
      BY <2>4, <1>4, SnapshotsUndone
    <3> QED BY <3>1, <3>2, <2>3, <2>5, <1>2, <1>3, <1>5, Zenon
  <2>9. Listed(c)' /\ Ended(c)'
    <3>1. Listed(c) /\ Ended(c)
      BY <1>1, <1>3 DEF Encoded
    <3> QED BY <3>1, <1>3, Zenon DEF Listed, Ended
  <2>10. Encoded(c, u)'
    BY <2>3, <2>6, <2>7, <2>8, <2>9, Zenon DEF Encoded
  <2>11. Phase(c, u)'
    BY <2>3, <1>3 DEF Witness, Phase, Saving
  <2>12. s[m].memory = prev_zmp /\ s[m].regs = block[c[m]].regs
    BY <2>1, <1>2, <1>4, <1>5, Zenon DEF Snapshots
  <2>13. Transition(s, u)
    BY <2>3, <2>4, <2>5, <2>12, <1>2, Zenon DEF Transition
  <2> QED BY <2>10, <2>11, <2>13, Zenon DEF Witness
<1> QED BY <1>6, <1>7

LEMMA ResetStep ==
  ASSUME TypeOK, NEW c, NEW s, Witness(c, s), Reset
  PROVE  \E c2, s2 : Witness(c2, s2)' /\ Transition(s, s2)
<1>1. /\ live' = {} /\ first_undo' = NULL /\ last_undo' = NULL /\ undo_count' = 0
      /\ curr_undo' = NULL /\ mode' = "closed" /\ undo_slots' = undo_slots
      /\ UNCHANGED <<zmp, regs>>
  BY Zenon DEF Reset
<1>2. Len(<<>>) = 0
  BY EmptySeq
<1>3. Listed(<<>>)' /\ Ended(<<>>)'
  BY <1>1, <1>2, NoSnapshots DEF Listed, Ended, Pointer
<1>4. Encoded(<<>>, <<>>)'
  BY <1>1, <1>2, <1>3, NoSnapshots, Zenon DEF Encoded, Pointer
<1>5. Phase(<<>>, <<>>)'
  BY <1>1, <1>2, UndoAssumption DEF Phase, Saving, TypeOK, UndoAssumption
<1>6. Transition(s, <<>>)
  BY <1>1, Zenon DEF Transition
<1> QED BY <1>4, <1>5, <1>6, Zenon DEF Witness
-----------------------------------------------------------------------------
(* Types.  Those of the pointers come from the witnesses.                  *)
BlockType == [diff : Memory, regs : Regs,
              next : Block \cup {NULL}, prev : Block \cup {NULL}]

LEMMA BlockKept ==
  ASSUME TypeOK, Next
  PROVE  block' \in [Block -> BlockType]
<1>1. block \in [Block -> BlockType] /\ undo_diff \in Memory /\ regs \in Regs
  BY Zenon DEF TypeOK, BlockType
<1>2. EmptyBlock \in BlockType
  <2>1. (CHOOSE r \in Regs : TRUE) \in Regs
    BY <1>1
  <2> QED BY <2>1 DEF EmptyBlock, BlockType, Memory
<1>3. ASSUME NEW f \in [Block -> BlockType], NEW x, NEW y \in BlockType
      PROVE  [f EXCEPT ![x] = y] \in [Block -> BlockType]
  OBVIOUS
<1>4. ASSUME NEW f \in [Block -> BlockType], NEW x, NEW y \in Block \cup {NULL}
      PROVE  /\ [f EXCEPT ![x].next = y] \in [Block -> BlockType]
             /\ [f EXCEPT ![x].prev = y] \in [Block -> BlockType]
  BY DEF BlockType
<1>5. ASSUME FreeFirst PROVE block' \in [Block -> BlockType]
  <2>1. PICK freed \in [Block -> BlockType] : freed = [block EXCEPT ![first_undo] = EmptyBlock]
    BY <1>1, <1>2, <1>3, Zenon
  <2>2. block' = freed \/ block' = [freed EXCEPT ![block[first_undo].next].prev = NULL]
    BY <1>5, <2>1, Zenon DEF FreeFirst, FreeFirstWith
  <2>3. [freed EXCEPT ![block[first_undo].next].prev = NULL] \in [Block -> BlockType]
    BY <1>4
  <2> QED BY <2>2, <2>3, Zenon
<1>6. CASE Run
  BY <1>1, <1>6, Zenon DEF Run, list
<1>7. CASE BeginSave
  BY <1>1, <1>7, Zenon DEF BeginSave, list
<1>8. CASE DropUndone
  BY <1>1, <1>2, <1>3, <1>8, Zenon DEF DropUndone
<1>9. CASE EndTrim
  <2>1. [block EXCEPT ![last_undo].next = NULL] \in [Block -> BlockType]
    BY <1>1, <1>4
  <2> QED BY <2>1, <1>1, <1>9, Zenon DEF EndTrim
<1>10. CASE MakeDiff
  BY <1>1, <1>5, <1>10, Zenon DEF MakeDiff, list
<1>11. CASE AllocFails
  BY <1>1, <1>11, Zenon DEF AllocFails, list
<1>12. CASE AllocAgain
  BY <1>1, <1>5, <1>12, Zenon DEF AllocAgain, list
<1>13. ASSUME NEW p \in Block, Alloc(p) PROVE block' \in [Block -> BlockType]
  <2>1. PICK new : new = [diff |-> undo_diff, regs |-> regs, next |-> NULL,
                          prev |-> IF first_undo = NULL THEN NULL ELSE last_undo]
    OBVIOUS
  <2>2. new \in BlockType
    <3>1. (IF first_undo = NULL THEN NULL ELSE last_undo) \in Block \cup {NULL}
      BY Zenon DEF TypeOK
    <3> QED BY <2>1, <3>1, <1>1 DEF BlockType
  <2>3. PICK added \in [Block -> BlockType] : added = [block EXCEPT ![p] = new]
    BY <2>2, <1>1, <1>3, Zenon
  <2>4. block' = added \/ block' = [block EXCEPT ![p] = new, ![last_undo].next = p]
    BY <1>13, <2>1, <2>3, Zenon DEF Alloc
  <2>5. [block EXCEPT ![p] = new, ![last_undo].next = p] = [added EXCEPT ![last_undo].next = p]
    BY <2>3, Zenon
  <2>6. [added EXCEPT ![last_undo].next = p] \in [Block -> BlockType]
    BY <1>4
  <2> QED BY <2>4, <2>5, <2>6, Zenon
<1>14. CASE Restore
  BY <1>1, <1>14, Zenon DEF Restore
<1>15. CASE Reset
  BY <1>2, <1>15 DEF Reset
<1> QED BY <1>6, <1>7, <1>8, <1>9, <1>10, <1>11, <1>12, <1>13, <1>14, <1>15, Zenon
        DEF Next, SaveStep

LEMMA MemoryKept ==
  ASSUME TypeOK, Next
  PROVE  zmp' \in Memory /\ prev_zmp' \in Memory /\ undo_diff' \in Memory /\ regs' \in Regs
<1>1. zmp \in Memory /\ prev_zmp \in Memory /\ undo_diff \in Memory /\ regs \in Regs
  BY Zenon DEF TypeOK
<1>2. {} \in Memory /\ Xor(zmp, prev_zmp) \in Memory
  BY <1>1, XorFacts DEF Memory
<1>3. CASE Run
  BY <1>1, <1>3, Zenon DEF Run
<1>4. CASE BeginSave
  BY <1>1, <1>4, Zenon DEF BeginSave
<1>5. CASE DropUndone
  BY <1>1, <1>5, Zenon DEF DropUndone
<1>6. CASE EndTrim
  BY <1>1, <1>6, Zenon DEF EndTrim
<1>7. CASE MakeDiff
  BY <1>1, <1>2, <1>7, Zenon DEF MakeDiff
<1>8. CASE AllocFails
  BY <1>1, <1>8, Zenon DEF AllocFails
<1>9. CASE AllocAgain
  BY <1>1, <1>2, <1>9, Zenon DEF AllocAgain
<1>10. ASSUME NEW p \in Block, Alloc(p)
       PROVE  /\ zmp' \in Memory /\ prev_zmp' \in Memory
              /\ undo_diff' \in Memory /\ regs' \in Regs
  BY <1>1, <1>2, <1>10, Zenon DEF Alloc
<1>11. CASE Restore
  <2>1. CASE curr_undo = NULL
    BY <2>1, <1>1, <1>11, Zenon DEF Restore
  <2>2. CASE curr_undo # NULL
    <3>1. PICK b \in Block : b = curr_undo
      BY <2>2 DEF TypeOK
    <3>2. block[b].diff \in Memory /\ block[b].regs \in Regs
      <4>1. block \in [Block -> BlockType]
        BY Zenon DEF TypeOK, BlockType
      <4> QED BY <4>1 DEF BlockType
    <3>3. Restarted(prev_zmp) \in Memory /\ Xor(prev_zmp, block[b].diff) \in Memory
      BY <3>2, <1>1, XorFacts, Zenon
    <3>4. zmp' = Restarted(prev_zmp) /\ prev_zmp' = Xor(prev_zmp, block[b].diff)
          /\ regs' = block[b].regs /\ undo_diff' = undo_diff
      BY <2>2, <3>1, <1>11, Zenon DEF Restore, EarlierMemory
    <3> QED BY <3>2, <3>3, <3>4, <1>1, Zenon
  <2> QED BY <2>1, <2>2
<1>12. CASE Reset
  BY <1>1, <1>12, Zenon DEF Reset
<1> QED BY <1>3, <1>4, <1>5, <1>6, <1>7, <1>8, <1>9, <1>10, <1>11, <1>12, Zenon
        DEF Next, SaveStep

LEMMA ModeKept ==
  ASSUME TypeOK, Next
  PROVE  /\ undo_slots' = undo_slots /\ live' \in SUBSET Block
         /\ mode' \in {"run", "trim", "room", "alloc", "failed", "closed", "fault"}
         /\ mode' = "trim" => first_undo' = first_undo
<1>1. live \in SUBSET Block
  BY Zenon DEF TypeOK
<1>2. ASSUME FreeFirst PROVE live' \in SUBSET Block
  BY <1>1, <1>2 DEF FreeFirst, FreeFirstWith
<1>3. CASE Run
  BY <1>1, <1>3 DEF Run, list
<1>4. CASE BeginSave
  BY <1>1, <1>4 DEF BeginSave, list
<1>5. CASE DropUndone
  BY <1>1, <1>5 DEF DropUndone
<1>6. CASE EndTrim
  BY <1>1, <1>6 DEF EndTrim
<1>7. CASE MakeDiff
  BY <1>1, <1>2, <1>7 DEF MakeDiff, list
<1>8. CASE AllocFails
  BY <1>1, <1>8 DEF AllocFails, list
<1>9. CASE AllocAgain
  BY <1>1, <1>2, <1>9 DEF AllocAgain, list
<1>10. ASSUME NEW p \in Block, Alloc(p)
       PROVE  undo_slots' = undo_slots /\ live' \in SUBSET Block /\ mode' = "run"
  BY <1>1, <1>10 DEF Alloc
<1>11. CASE Restore
  BY <1>1, <1>11 DEF Restore
<1>12. CASE Reset
  BY <1>12 DEF Reset
<1> QED BY <1>3, <1>4, <1>5, <1>6, <1>7, <1>8, <1>9, <1>10, <1>11, <1>12
        DEF Next, SaveStep

LEMMA TypeKept ==
  ASSUME TypeOK, Next, NEW c, NEW s, Witness(c, s)'
  PROVE  TypeOK'
<1>1. /\ block' \in [Block -> BlockType]
      /\ zmp' \in Memory /\ prev_zmp' \in Memory /\ undo_diff' \in Memory /\ regs' \in Regs
  BY BlockKept, MemoryKept, Zenon
<1>2. /\ undo_slots' = undo_slots /\ live' \in SUBSET Block
      /\ mode' \in {"run", "trim", "room", "alloc", "failed", "closed", "fault"}
      /\ mode' = "trim" => first_undo' = first_undo
  BY ModeKept, Zenon
<1>3. /\ c \in Seq(live') /\ s \in Seq([memory : Memory, regs : Regs])
      /\ Len(s) <= Len(c) /\ undo_count' = Len(c) /\ Len(c) <= undo_slots'
      /\ last_undo' = Pointer(c, Len(c)) /\ curr_undo' = Pointer(c, Len(s))
  BY Zenon DEF Witness, Phase, Encoded, Listed, Enumerates, Snapshots
<1>4. PICK n \in Nat, m \in Nat : n = Len(c) /\ m = Len(s)
  BY <1>3, LenProperties, Zenon
<1>5. \A k \in 1..n : c[k] \in Block
  BY <1>2, <1>3, <1>4, LenProperties
<1>6. last_undo' \in Block \cup {NULL} /\ curr_undo' \in Block \cup {NULL}
  BY <1>3, <1>4, <1>5 DEF Pointer
<1>7. first_undo' \in Block \cup {NULL}
  <2>1. CASE mode' = "trim"
    BY <2>1, <1>2 DEF TypeOK
  <2>2. CASE mode' # "trim" /\ n = 0
    BY <2>2, <1>4 DEF Witness, Encoded, Ended
  <2>3. CASE mode' # "trim" /\ n # 0
    <3>1. 1 \in 1..n /\ Len(c) > 0
      BY <2>3, <1>4
    <3>2. first_undo' = c[1]
      BY <3>1, Zenon DEF Witness, Encoded, Listed
    <3> QED BY <3>1, <3>2, <1>5, Zenon
  <2> QED BY <2>1, <2>2, <2>3
<1>8. undo_slots' \in {0, SLOTS}
  BY <1>2 DEF TypeOK
<1>9. undo_count' \in 0..SLOTS
  BY <1>3, <1>4, <1>8, UndoAssumption DEF UndoAssumption
<1> QED BY <1>1, <1>2, <1>6, <1>7, <1>8, <1>9 DEF TypeOK, BlockType
-----------------------------------------------------------------------------
(* The invariant holds at the start, and every step turns the witnesses    *)
(* into others as the history says.                                        *)
LEMMA InitWitness ==
  ASSUME Init
  PROVE  TypeOK /\ Witness(<<>>, <<>>)
<1>1. zmp \in Memory /\ regs \in Regs /\ prev_zmp \in Memory /\ undo_slots \in {0, SLOTS}
  BY DEF Init, Memory
<1>2. /\ live = {} /\ block = [b \in Block |-> EmptyBlock]
      /\ first_undo = NULL /\ last_undo = NULL /\ curr_undo = NULL
      /\ undo_count = 0 /\ undo_diff = {} /\ mode = "run"
  BY Zenon DEF Init
<1>3. EmptyBlock \in BlockType
  <2>1. (CHOOSE r \in Regs : TRUE) \in Regs
    BY <1>1
  <2> QED BY <2>1 DEF EmptyBlock, BlockType, Memory
<1>4. block \in [Block -> BlockType]
  BY <1>2, <1>3
<1>5. SLOTS \in Nat
  BY UndoAssumption DEF UndoAssumption
<1>6. TypeOK
  BY <1>1, <1>2, <1>4, <1>5 DEF TypeOK, BlockType, Memory
<1>7. Len(<<>>) = 0
  BY EmptySeq
<1>8. Listed(<<>>) /\ Ended(<<>>)
  BY <1>2, <1>7, NoSnapshots DEF Listed, Ended, Pointer
<1>9. Encoded(<<>>, <<>>)
  BY <1>2, <1>7, <1>8, NoSnapshots, Zenon DEF Encoded, Pointer
<1>10. Phase(<<>>, <<>>)
  BY <1>1, <1>2, <1>5, <1>7 DEF Phase, Saving
<1> QED BY <1>6, <1>9, <1>10, Zenon DEF Witness

LEMMA StepWitness ==
  ASSUME TypeOK, NEW c, NEW s, Witness(c, s), Next
  PROVE  TypeOK' /\ \E c2, s2 : Witness(c2, s2)' /\ Transition(s, s2)
<1>1. \E c2, s2 : Witness(c2, s2)' /\ Transition(s, s2)
  BY RunStep, BeginSaveStep, DropUndoneStep, EndTrimStep, MakeDiffStep, AllocFailsStep,
     AllocAgainStep, AllocStep, RestoreStep, ResetStep, Zenon DEF Next, SaveStep
<1> QED BY <1>1, TypeKept, Zenon

(* The list and the snapshots are encoded at all times.                    *)
THEOREM Invariance == Spec => []IInv
<1>1. Init => IInv
  BY InitWitness, Zenon DEF IInv
<1>2. ASSUME IInv, Next PROVE IInv'
  <2>1. PICK c, s : Witness(c, s)
    BY <1>2, Zenon DEF IInv
  <2>2. TypeOK
    BY <1>2, Zenon DEF IInv
  <2> QED BY <2>1, <2>2, <1>2, StepWitness, Zenon DEF IInv
<1>3. ASSUME IInv, UNCHANGED vars PROVE IInv'
  <2>1. PICK c, s : Witness(c, s)
    BY <1>3, Zenon DEF IInv
  <2>2. Witness(c, s)'
    BY <2>1, <1>3, Zenon DEF vars, list, Witness, Encoded, Listed, Ended, Phase, LatestMemory
  <2>3. TypeOK'
    BY <1>3, Zenon DEF IInv, TypeOK, vars, list
  <2> QED BY <2>2, <2>3, Zenon DEF IInv
<1> QED BY <1>1, <1>2, <1>3, PTL DEF Spec
-----------------------------------------------------------------------------
(* Two functions that follow the same recursion from the same start are    *)
(* equal: there is no smallest argument where they differ.                 *)
LEMMA SameRecursion ==
  ASSUME NEW n \in Nat, NEW a \in Nat, NEW f, NEW g,
         f[a] = g[a],
         \A k \in (a + 1)..n : f[k - 1] = g[k - 1] => f[k] = g[k]
  PROVE  \A k \in a..n : f[k] = g[k]
<1> DEFINE T == {k \in a..n : f[k] # g[k]}
<1> SUFFICES ASSUME T # {} PROVE FALSE
  OBVIOUS
<1>1. T \subseteq Nat
  OBVIOUS
<1>2. PICK x \in T : \A y \in T : ~(<<y, x>> \in OpToRel(<, Nat))
  BY <1>1, WFMin, NatLessThanWellFounded
<1>3. x # a /\ x \in (a + 1)..n /\ x - 1 \in a..n /\ x \in Nat /\ x - 1 \in Nat
  OBVIOUS
<1>4. <<x - 1, x>> \in OpToRel(<, Nat)
  BY <1>3 DEF OpToRel
<1>5. x - 1 \notin T
  BY <1>2, <1>4
<1> QED BY <1>3, <1>5

(* Following the pointers from first_undo meets the blocks of the list in  *)
(* order, and then the end.                                                *)
LEMMA NthFollows ==
  ASSUME TypeOK, NEW c, NEW s, Witness(c, s), mode # "trim"
  PROVE  \A k \in 1..Len(c) : Nth[k] = c[k]
<1>1. Encoded(c, s) /\ Listed(c) /\ Ended(c) /\ Linked(c, block)
  BY Zenon DEF Witness, Encoded, Listed
<1>2. PICK n \in Nat : n = Len(c) /\ \A k \in 1..n : c[k] # NULL
  BY <1>1, WitnessFacts, Zenon
<1>3. n <= SLOTS /\ SLOTS \in Nat
  BY <1>2, UndoAssumption DEF Witness, Phase, TypeOK, UndoAssumption
<1>4. /\ n = 0 => first_undo = NULL
      /\ n # 0 => first_undo = c[1] /\ block[c[n]].next = NULL
      /\ \A k \in 1..(n - 1) : block[c[k]].next = c[k + 1]
  BY <1>1, <1>2 DEF Listed, Ended, Linked, Pointer
<1>5. PICK g : g = [k \in 1..SLOTS |-> IF k <= n THEN c[k] ELSE NULL]
  OBVIOUS
<1>6. At(NULL).next = NULL /\ \A b : b # NULL => At(b).next = block[b].next
  BY DEF At, EmptyBlock
<1>7. \A k \in 1..SLOTS : g[k] = IF k = 1 THEN first_undo ELSE At(g[k - 1]).next
  <2> SUFFICES ASSUME NEW k \in 1..SLOTS
               PROVE  g[k] = IF k = 1 THEN first_undo ELSE At(g[k - 1]).next
    OBVIOUS
  <2>1. CASE k = 1
    BY <2>1, <1>2, <1>3, <1>4, <1>5
  <2>2. CASE k # 1
    <3>1. k - 1 \in 1..SLOTS /\ (k - 1) + 1 = k
      BY <2>2, <1>3
    <3>2. CASE k <= n
      <4>1. k - 1 \in 1..(n - 1) /\ k - 1 \in 1..n
        BY <3>1, <3>2, <1>2
      <4>2. g[k - 1] = c[k - 1] /\ g[k] = c[k]
        BY <4>1, <3>1, <3>2, <1>5
      <4>3. block[c[k - 1]].next = c[k]
        BY <4>1, <3>1, <1>4
      <4>4. At(g[k - 1]).next = c[k]
        BY <4>1, <4>2, <4>3, <1>2, <1>6, Zenon
      <4> QED BY <4>2, <4>4, <2>2
    <3>3. CASE k - 1 = n
      <4>1. n \in 1..n /\ ~(k <= n) /\ n # 0
        BY <3>1, <3>3, <1>2
      <4>2. g[k - 1] = c[n] /\ g[k] = NULL
        BY <4>1, <3>1, <3>3, <1>5
      <4>3. At(g[k - 1]).next = NULL
        BY <4>1, <4>2, <1>2, <1>4, <1>6, Zenon
      <4> QED BY <4>2, <4>3, <2>2
    <3>4. CASE k - 1 > n
      <4>1. g[k - 1] = NULL /\ g[k] = NULL
        BY <3>1, <3>4, <1>2, <1>5
      <4> QED BY <4>1, <2>2, <1>6
    <3> QED BY <3>2, <3>3, <3>4, <1>2
  <2> QED BY <2>1, <2>2
<1>8. g = [k \in 1..SLOTS |-> IF k = 1 THEN first_undo ELSE At(g[k - 1]).next]
  BY <1>5, <1>7, Zenon
<1>9. Nth = [k \in 1..SLOTS |-> IF k = 1 THEN first_undo ELSE At(Nth[k - 1]).next]
  BY <1>8, Zenon DEF Nth
<1>10. \A k \in 1..SLOTS : Nth[k] = IF k = 1 THEN first_undo ELSE At(Nth[k - 1]).next
  BY <1>9, Zenon
<1>11. CASE n = 0
  BY <1>2, <1>11
<1>12. CASE n # 0
  <2>1. 1 \in 1..SLOTS
    BY <1>3, <1>12
  <2>2. Nth[1] = g[1]
    BY <2>1, <1>7, <1>10
  <2>3. \A k \in (1 + 1)..SLOTS : Nth[k - 1] = g[k - 1] => Nth[k] = g[k]
    <3> SUFFICES ASSUME NEW k \in (1 + 1)..SLOTS, Nth[k - 1] = g[k - 1] PROVE Nth[k] = g[k]
      OBVIOUS
    <3>1. k \in 1..SLOTS /\ k # 1
      BY <1>3
    <3> QED BY <3>1, <1>7, <1>10, Zenon
  <2>4. 1 \in Nat
    OBVIOUS
  <2>5. \A k \in 1..SLOTS : Nth[k] = g[k]
    BY <2>2, <2>3, <2>4, <1>3, SameRecursion
  <2>6. \A k \in 1..n : k \in 1..SLOTS /\ g[k] = c[k]
    BY <1>3, <1>5
  <2> QED BY <2>5, <2>6, <1>2, Zenon
<1> QED BY <1>11, <1>12

(* The blocks in use are those of the list, chained both ways, and none of *)
(* the pointers dangles, whatever was saved, undone, freed or failed.      *)
THEOREM ListStaysIntact == Spec => []ListIntact
<1>1. IInv => ListIntact
  <2> SUFFICES ASSUME IInv PROVE ListIntact
    OBVIOUS
  <2>1. TypeOK
    BY Zenon DEF IInv
  <2>2. PICK c, s : Witness(c, s)
    BY Zenon DEF IInv
  <2>3. /\ Encoded(c, s) /\ Listed(c) /\ Enumerates(c, live) /\ Linked(c, block)
        /\ undo_count = Len(c) /\ last_undo = Pointer(c, Len(c)) /\ curr_undo = Pointer(c, Len(s))
    BY <2>2, Zenon DEF Witness, Encoded, Listed
  <2>4. PICK n \in Nat, m \in Nat :
          /\ n = Len(c) /\ m = Len(s) /\ m <= n
          /\ \A k \in 1..n : c[k] \in live /\ c[k] # NULL
    BY <2>1, <2>3, WitnessFacts, Zenon
  <2>5. {last_undo, curr_undo} \subseteq live \cup {NULL}
    BY <2>3, <2>4 DEF Pointer
  <2>6. undo_count = Cardinality(live)
    BY <2>3, Counted, Zenon
  <2>7. ASSUME mode # "trim"
        PROVE  /\ {Nth[k] : k \in 1..undo_count} = live
               /\ first_undo = NULL <=> undo_count = 0
               /\ last_undo = IF undo_count = 0 THEN NULL ELSE Nth[undo_count]
               /\ At(last_undo).next = NULL
               /\ \A k \in 1..undo_count :
                    block[Nth[k]].prev = IF k = 1 THEN NULL ELSE Nth[k - 1]
    <3>1. \A k \in 1..n : Nth[k] = c[k]
      BY <2>1, <2>2, <2>4, <2>7, NthFollows, Zenon
    <3>2. \A b \in live : \E k \in 1..n : c[k] = b
      BY <2>3, <2>4, Zenon DEF Enumerates
    <3>3. {Nth[k] : k \in 1..undo_count} = live
      BY <3>1, <3>2, <2>3, <2>4
    <3>4. n # 0 => 1 \in 1..n /\ n \in 1..n /\ Len(c) > 0
      BY <2>4
    <3>5. Ended(c)
      BY <2>2, <2>7, Zenon DEF Witness, Encoded
    <3>6. first_undo = NULL <=> undo_count = 0
      <4>1. n = 0 => first_undo = NULL
        BY <3>5, <2>4, Zenon DEF Ended
      <4>2. n # 0 => first_undo = c[1]
        BY <3>4, <2>3, Zenon DEF Listed
      <4> QED BY <4>1, <4>2, <3>4, <2>3, <2>4, Zenon
    <3>7. last_undo = IF n = 0 THEN NULL ELSE c[n]
      BY <2>3, <2>4, Zenon DEF Pointer
    <3>8. last_undo = IF undo_count = 0 THEN NULL ELSE Nth[undo_count]
      BY <3>1, <3>4, <3>7, <2>3, <2>4
    <3>9. At(last_undo).next = NULL
      <4>1. CASE n = 0
        BY <4>1, <3>7 DEF At, EmptyBlock
      <4>2. CASE n # 0
        <5>1. block[last_undo].next = NULL
          BY <4>2, <3>4, <3>5, Zenon DEF Ended
        <5> QED BY <5>1, <4>2, <3>4, <3>7, <2>4 DEF At
      <4> QED BY <4>1, <4>2
    <3>10. \A k \in 1..undo_count :
             block[Nth[k]].prev = IF k = 1 THEN NULL ELSE Nth[k - 1]
      <4> SUFFICES ASSUME NEW k \in 1..n
                   PROVE  block[Nth[k]].prev = IF k = 1 THEN NULL ELSE Nth[k - 1]
        BY <2>3, <2>4, Zenon
      <4>1. block[c[k]].prev = Pointer(c, k - 1)
        BY <2>3, <2>4, Zenon DEF Linked
      <4>2. k # 1 => k - 1 \in 1..n /\ k - 1 # 0
        BY <2>4
      <4> QED BY <4>1, <4>2, <3>1 DEF Pointer
    <3> QED BY <3>3, <3>6, <3>8, <3>9, <3>10, Zenon
  <2> QED BY <2>1, <2>5, <2>6, <2>7, Zenon DEF ListIntact
<1> QED BY <1>1, Invariance, PTL
-----------------------------------------------------------------------------
(* Going back from curr_undo meets the blocks of the snapshots, the latest *)
(* first, and then the end.                                                *)
LEMMA BackFollows ==
  ASSUME TypeOK, NEW c, NEW s, Witness(c, s)
  PROVE  \A k \in 0..SLOTS : Back[k] = IF k <= Len(s) THEN Pointer(c, Len(s) - k) ELSE NULL
<1>1. Encoded(c, s) /\ Linked(c, block)
  BY Zenon DEF Witness, Encoded, Listed
<1>2. PICK n \in Nat, m \in Nat : /\ n = Len(c) /\ m = Len(s) /\ m <= n
                               /\ \A k \in 1..n : c[k] # NULL
  BY <1>1, WitnessFacts, Zenon
<1>3. SLOTS \in Nat
  BY UndoAssumption DEF UndoAssumption
<1>4. curr_undo = Pointer(c, m)
  BY <1>1, <1>2, Zenon DEF Encoded
<1>5. PICK g : g = [k \in 0..SLOTS |-> IF k <= m THEN Pointer(c, m - k) ELSE NULL]
  OBVIOUS
<1>6. At(NULL).prev = NULL /\ \A b : b # NULL => At(b).prev = block[b].prev
  BY DEF At, EmptyBlock
<1>7. \A k \in 0..SLOTS : g[k] = IF k = 0 THEN curr_undo ELSE At(g[k - 1]).prev
  <2> SUFFICES ASSUME NEW k \in 0..SLOTS
               PROVE  g[k] = IF k = 0 THEN curr_undo ELSE At(g[k - 1]).prev
    OBVIOUS
  <2>1. CASE k = 0
    BY <2>1, <1>2, <1>3, <1>4, <1>5
  <2>2. CASE k # 0
    <3>1. k - 1 \in 0..SLOTS
      BY <2>2, <1>3
    <3>2. CASE k <= m
      <4>1. PICK i \in 1..n : i = m - (k - 1) /\ i - 1 = m - k /\ i # 0
        <5>1. m - (k - 1) \in 1..n /\ (m - (k - 1)) - 1 = m - k /\ m - (k - 1) # 0
          BY <2>2, <3>2, <1>2
        <5> QED BY <5>1, Zenon
      <4>2. g[k - 1] = Pointer(c, i) /\ g[k] = Pointer(c, i - 1)
        BY <3>1, <3>2, <4>1, <1>2, <1>5
      <4>3. block[c[i]].prev = Pointer(c, i - 1) /\ Pointer(c, i) = c[i] /\ c[i] # NULL
        BY <4>1, <1>1, <1>2, Zenon DEF Linked, Pointer
      <4>4. At(g[k - 1]).prev = Pointer(c, i - 1)
        BY <4>2, <4>3, <1>6, Zenon
      <4> QED BY <4>2, <4>4, <2>2
    <3>3. CASE ~(k <= m)
      <4>1. g[k] = NULL
        BY <3>3, <1>5
      <4>2. g[k - 1] = NULL
        BY <3>1, <3>3, <1>2, <1>5 DEF Pointer
      <4> QED BY <4>1, <4>2, <2>2, <1>6
    <3> QED BY <3>2, <3>3
  <2> QED BY <2>1, <2>2
<1>8. g = [k \in 0..SLOTS |-> IF k = 0 THEN curr_undo ELSE At(g[k - 1]).prev]
  BY <1>5, <1>7, Zenon
<1>9. Back = [k \in 0..SLOTS |-> IF k = 0 THEN curr_undo ELSE At(Back[k - 1]).prev]
  BY <1>8, Zenon DEF Back
<1>10. \A k \in 0..SLOTS : Back[k] = IF k = 0 THEN curr_undo ELSE At(Back[k - 1]).prev
  BY <1>9, Zenon
<1>11. Back[0] = g[0]
  <2>1. 0 \in 0..SLOTS
    BY <1>3
  <2> QED BY <2>1, <1>7, <1>10
<1>12. \A k \in (0 + 1)..SLOTS : Back[k - 1] = g[k - 1] => Back[k] = g[k]
  <2> SUFFICES ASSUME NEW k \in (0 + 1)..SLOTS, Back[k - 1] = g[k - 1] PROVE Back[k] = g[k]
    OBVIOUS
  <2>1. k \in 0..SLOTS /\ k # 0
    BY <1>3
  <2> QED BY <2>1, <1>7, <1>10, Zenon
<1>13. \A k \in 0..SLOTS : Back[k] = g[k]
  BY <1>3, <1>11, <1>12, SameRecursion
<1> QED BY <1>2, <1>5, <1>13

(* Applying the differences one after the other gives the memories of the  *)
(* snapshots, the latest first.                                            *)
LEMMA MemoryFollows ==
  ASSUME TypeOK, NEW c, NEW s, Witness(c, s)
  PROVE  \A k \in 0..(Len(s) - 1) : MemoryAt[k] = s[Len(s) - k].memory
<1>1. Encoded(c, s) /\ Snapshots(s, c, block, LatestMemory)
  BY Zenon DEF Witness, Encoded
<1>2. PICK n \in Nat, m \in Nat : /\ n = Len(c) /\ m = Len(s) /\ m <= n
                               /\ \A k \in 1..n : c[k] # NULL
  BY <1>1, WitnessFacts, Zenon
<1>3. SLOTS \in Nat /\ n <= SLOTS
  BY <1>2, UndoAssumption DEF Witness, Phase, TypeOK, UndoAssumption
<1>4. /\ m # 0 => s[m].memory = LatestMemory
      /\ \A i \in 1..(m - 1) : s[i].memory = Xor(s[i + 1].memory, block[c[i + 1]].diff)
  BY <1>1, <1>2 DEF Snapshots
<1>5. PICK last : last = IF m = 0 THEN LatestMemory ELSE Xor(s[1].memory, block[c[1]].diff)
  OBVIOUS
<1>6. PICK g : g = [k \in 0..SLOTS |-> IF k < m THEN s[m - k].memory ELSE last]
  OBVIOUS
<1>7. /\ At(NULL).diff = {} /\ \A b : b # NULL => At(b).diff = block[b].diff
  BY DEF At, EmptyBlock
<1>8. Xor(last, {}) = last
  BY DEF Xor
<1>9. \A k \in 0..SLOTS : Back[k] = IF k <= m THEN Pointer(c, m - k) ELSE NULL
  BY <1>2, BackFollows, Zenon
<1>10. \A k \in 0..SLOTS :
         g[k] = IF k = 0 THEN LatestMemory ELSE Xor(g[k - 1], At(Back[k - 1]).diff)
  <2> SUFFICES ASSUME NEW k \in 0..SLOTS
               PROVE  g[k] = IF k = 0 THEN LatestMemory ELSE Xor(g[k - 1], At(Back[k - 1]).diff)
    OBVIOUS
  <2>1. CASE k = 0
    BY <2>1, <1>2, <1>3, <1>4, <1>5, <1>6
  <2>2. CASE k # 0
    <3>1. k - 1 \in 0..SLOTS
      BY <2>2, <1>3
    <3>2. CASE k <= m
      <4>1. PICK i \in 1..n : i = m - (k - 1) /\ i - 1 = m - k /\ i # 0 /\ i \in 1..m
        <5>1. /\ m - (k - 1) \in 1..n /\ (m - (k - 1)) - 1 = m - k /\ m - (k - 1) # 0
              /\ m - (k - 1) \in 1..m
          BY <2>2, <3>2, <1>2
        <5> QED BY <5>1, Zenon
      <4>2. Back[k - 1] = c[i] /\ c[i] # NULL
        <5>1. k - 1 <= m
          BY <3>2, <1>2
        <5>2. Back[k - 1] = Pointer(c, m - (k - 1))
          BY <3>1, <5>1, <1>9
        <5> QED BY <5>2, <4>1, <1>2, Zenon DEF Pointer
      <4>3. At(Back[k - 1]).diff = block[c[i]].diff
        BY <4>2, <1>7, Zenon
      <4>4. g[k - 1] = s[i].memory
        BY <3>1, <3>2, <4>1, <1>2, <1>6
      <4>5. g[k] = Xor(s[i].memory, block[c[i]].diff)
        <5>1. CASE k = m
          <6>1. i = 1 /\ g[k] = last
            BY <5>1, <4>1, <1>2, <1>6
          <6> QED BY <6>1, <5>1, <2>2, <1>5
        <5>2. CASE k # m
          <6>1. k < m /\ i - 1 \in 1..(m - 1) /\ (i - 1) + 1 = i
            <7>1. k \in Nat /\ k < m
              BY <5>2, <3>2, <1>2, <1>3
            <7>2. i \in Nat /\ i <= m /\ i - 1 = m - k
              BY <4>1, <1>2
            <7> QED BY <7>1, <7>2, <1>2
          <6>2. g[k] = s[m - k].memory
            BY <6>1, <1>6
          <6>3. g[k] = s[i - 1].memory
            BY <6>2, <4>1, Zenon
          <6> QED BY <6>1, <6>3, <1>4
        <5> QED BY <5>1, <5>2
      <4> QED BY <4>3, <4>4, <4>5, <2>2
    <3>3. CASE ~(k <= m)
      <4>1. g[k] = last /\ g[k - 1] = last
        BY <3>1, <3>3, <1>2, <1>6
      <4>2. Back[k - 1] = NULL
        BY <3>1, <3>3, <1>2, <1>9 DEF Pointer
      <4> QED BY <4>1, <4>2, <2>2, <1>7, <1>8
    <3> QED BY <3>2, <3>3
  <2> QED BY <2>1, <2>2
<1>11. g = [k \in 0..SLOTS |->
              IF k = 0 THEN LatestMemory ELSE Xor(g[k - 1], At(Back[k - 1]).diff)]
  BY <1>6, <1>10, Zenon
<1>12. MemoryAt = [k \in 0..SLOTS |->
                     IF k = 0 THEN LatestMemory
                     ELSE Xor(MemoryAt[k - 1], At(Back[k - 1]).diff)]
  BY <1>11, Zenon DEF MemoryAt
<1>13. \A k \in 0..SLOTS :
         MemoryAt[k] = IF k = 0 THEN LatestMemory
                       ELSE Xor(MemoryAt[k - 1], At(Back[k - 1]).diff)
  BY <1>12, Zenon
<1>14. MemoryAt[0] = g[0]
  <2>1. 0 \in 0..SLOTS
    BY <1>3
  <2> QED BY <2>1, <1>10, <1>13
<1>15. \A k \in (0 + 1)..SLOTS : MemoryAt[k - 1] = g[k - 1] => MemoryAt[k] = g[k]
  <2> SUFFICES ASSUME NEW k \in (0 + 1)..SLOTS, MemoryAt[k - 1] = g[k - 1]
               PROVE  MemoryAt[k] = g[k]
    OBVIOUS
  <2>1. k \in 0..SLOTS /\ k # 0
    BY <1>3
  <2> QED BY <2>1, <1>10, <1>13, Zenon
<1>16. \A k \in 0..SLOTS : MemoryAt[k] = g[k]
  BY <1>3, <1>14, <1>15, SameRecursion
<1>17. \A k \in 0..(m - 1) : k \in 0..SLOTS /\ g[k] = s[m - k].memory
  BY <1>2, <1>3, <1>6
<1> QED BY <1>2, <1>16, <1>17

(* What the refinement takes for the history is what the variables encode. *)
Saved == [i \in 1..Depth |-> Snapshot(Depth - i)]

LEMMA SavedIsEncoded ==
  \A c, s : TypeOK /\ Witness(c, s) => Saved = s
<1> SUFFICES ASSUME NEW c, NEW s, TypeOK, Witness(c, s) PROVE Saved = s
  OBVIOUS
<1>1. Encoded(c, s) /\ Snapshots(s, c, block, LatestMemory)
  BY Zenon DEF Witness, Encoded
<1>2. PICK n \in Nat, m \in Nat : /\ n = Len(c) /\ m = Len(s) /\ m <= n
                               /\ \A k \in 1..n : c[k] # NULL
  BY <1>1, WitnessFacts, Zenon
<1>3. SLOTS \in Nat /\ n <= SLOTS
  BY <1>2, UndoAssumption DEF Witness, Phase, TypeOK, UndoAssumption
<1>4. \A k \in 0..SLOTS : Back[k] = IF k <= m THEN Pointer(c, m - k) ELSE NULL
  BY <1>2, BackFollows, Zenon
<1>5. \A k \in 0..(m - 1) : MemoryAt[k] = s[m - k].memory
  BY <1>2, MemoryFollows, Zenon
<1>6. Depth = m
  <2>1. \A k \in 0..SLOTS : Back[k] # NULL <=> k \in 0..(m - 1)
    BY <1>2, <1>3, <1>4 DEF Pointer
  <2>2. {k \in 0..SLOTS : Back[k] # NULL} = 0..(m - 1)
    BY <2>1, <1>2, <1>3
  <2>3. Cardinality(0..(m - 1)) = m
    <3>1. 0 \in Int /\ m - 1 \in Int
      OBVIOUS
    <3>2. Cardinality(0..(m - 1)) = IF 0 > m - 1 THEN 0 ELSE (m - 1) - 0 + 1
      BY <3>1, FS_Interval, Zenon
    <3> QED BY <3>2
  <2> QED BY <2>2, <2>3, Zenon DEF Depth
<1>7. s \in [1..m -> [memory : Memory, regs : Regs]]
  BY <1>1, <1>2, LenProperties, Zenon DEF Snapshots
<1>8. \A i \in 1..m : Snapshot(m - i) = s[i]
  <2> SUFFICES ASSUME NEW i \in 1..m PROVE Snapshot(m - i) = s[i]
    OBVIOUS
  <2>1. m - i \in 0..(m - 1) /\ m - i \in 0..SLOTS /\ m - (m - i) = i /\ m - i <= m /\ i # 0
    BY <1>2, <1>3
  <2>2. MemoryAt[m - i] = s[i].memory
    BY <2>1, <1>5
  <2>3. Back[m - i] = c[i]
    BY <2>1, <1>4 DEF Pointer
  <2>4. s[i].regs = block[c[i]].regs
    BY <1>1, <1>2, Zenon DEF Snapshots
  <2>5. s[i] \in [memory : Memory, regs : Regs]
    BY <1>7
  <2>6. Snapshot(m - i) = [memory |-> s[i].memory, regs |-> s[i].regs]
    BY <2>2, <2>3, <2>4, Zenon DEF Snapshot
  <2> QED BY <2>5, <2>6
<1>9. Saved = [i \in 1..m |-> s[i]]
  BY <1>6, <1>8, Zenon DEF Saved
<1> QED BY <1>7, <1>9

LEMMA SavedIsEncodedNext ==
  (\A c, s : TypeOK /\ Witness(c, s) => Saved = s)'
BY SavedIsEncoded, PTL

(* A transition of the snapshots is a step of the history.                 *)
LEMMA HistoryStep ==
  ASSUME NEW s, NEW s2, Saved = s, Saved' = s2, Transition(s, s2)
  PROVE  History!Next
<1>1. /\ Saved = [i \in 1..Depth |-> Snapshot(Depth - i)]
      /\ Saved' = [i \in 1..Depth |-> Snapshot(Depth - i)]'
  BY Zenon DEF Saved
<1>2. CASE zmp' \in Memory /\ regs' \in Regs /\ s2 = s
  <2>1. History!Run
    BY <1>1, <1>2, Zenon DEF History!Run
  <2> QED BY <2>1, Zenon DEF History!Next
<1>3. CASE /\ Len(s) < SLOTS
           /\ s2 = Append(s, [memory |-> zmp, regs |-> regs])
           /\ UNCHANGED <<zmp, regs>>
  <2>1. History!Save
    BY <1>1, <1>3, Zenon DEF History!Save
  <2> QED BY <2>1, Zenon DEF History!Next
<1>4. CASE /\ s # <<>> /\ (Len(s) = SLOTS \/ MallocFails)
           /\ s2 = Tail(s)
           /\ UNCHANGED <<zmp, regs>>
  <2>1. History!Forget
    BY <1>1, <1>4, Zenon DEF History!Forget
  <2> QED BY <2>1, Zenon DEF History!Next
<1>5. CASE /\ s # <<>>
           /\ zmp' = Restarted(s[Len(s)].memory) /\ regs' = s[Len(s)].regs
           /\ s2 = Front(s)
  <2>1. History!Restore
    BY <1>1, <1>5, Zenon DEF History!Restore, Front
  <2> QED BY <2>1, Zenon DEF History!Next
<1>6. CASE s2 = <<>> /\ UNCHANGED <<zmp, regs>>
  <2>1. History!Close
    BY <1>1, <1>6, Zenon DEF History!Close
  <2> QED BY <2>1, Zenon DEF History!Next
<1> QED BY <1>2, <1>3, <1>4, <1>5, <1>6, Zenon DEF Transition

(* Undo keeps the promise of UndoHistory: each restore brings back the     *)
(* state of the latest save not undone yet, and only the oldest are        *)
(* forgotten, when the list is full or memory short.                       *)
THEOREM UndoImplementsHistory == Spec => ImplementsHistory
<1>1. Init => History!Init
  <2> SUFFICES ASSUME Init PROVE History!Init
    OBVIOUS
  <2>1. Saved = <<>>
    BY InitWitness, SavedIsEncoded, Zenon
  <2>2. zmp \in Memory /\ regs \in Regs
    BY Zenon DEF Init
  <2> QED BY <2>1, <2>2, Zenon DEF History!Init, Saved
<1>2. ASSUME IInv, Next PROVE History!Next
  <2>1. PICK c, s : Witness(c, s)
    BY <1>2, Zenon DEF IInv
  <2>2. TypeOK
    BY <1>2, Zenon DEF IInv
  <2>3. TypeOK'
    BY <2>1, <2>2, <1>2, StepWitness, Zenon
  <2>4. PICK c2, s2 : Witness(c2, s2)' /\ Transition(s, s2)
    BY <2>1, <2>2, <1>2, StepWitness, Zenon
  <2>5. Saved = s
    BY <2>1, <2>2, SavedIsEncoded, Zenon
  <2>6. Saved' = s2
    BY <2>3, <2>4, SavedIsEncodedNext, Zenon
  <2> QED BY <2>4, <2>5, <2>6, HistoryStep, Zenon
<1>3. ASSUME IInv, UNCHANGED vars
      PROVE  UNCHANGED <<zmp, regs, [i \in 1..Depth |-> Snapshot(Depth - i)]>>
  <2>1. PICK c, s : Witness(c, s)
    BY <1>3, Zenon DEF IInv
  <2>2. TypeOK /\ TypeOK'
    BY <1>3, Zenon DEF IInv, TypeOK, vars, list
  <2>3. Witness(c, s)'
    BY <2>1, <1>3, Zenon DEF vars, list, Witness, Encoded, Listed, Ended, Phase, LatestMemory
  <2>4. Saved = s
    BY <2>1, <2>2, SavedIsEncoded, Zenon
  <2>5. Saved' = s
    BY <2>2, <2>3, SavedIsEncodedNext, Zenon
  <2>6. UNCHANGED Saved
    BY <2>4, <2>5, Zenon
  <2> QED BY <2>6, <1>3, Zenon DEF vars, Saved
<1> QED BY <1>1, <1>2, <1>3, Invariance, PTL DEF Spec, ImplementsHistory, History!Spec
=============================================================================
