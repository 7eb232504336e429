--------------------------- MODULE VirtMemProofs ---------------------------
(***************************************************************************)
(* Demand paging: every physical page is used once, and the program sees   *)
(* a flat memory, for every size of memory and disk, any number of page    *)
(* tables, and every sequence of loads, stores and nested faults.          *)
(*                                                                         *)
(* The page tables lie in the memory they describe.  The argument is about *)
(* Mapping(d, m, v), the entry of the virtual page v that the directory d  *)
(* finds in the memory m, and rests on Paged, which says that no page      *)
(* table is a page that anything is mapped to: then a store of the program *)
(* changes no mapping, and a change of one mapping no other.               *)
(***************************************************************************)
EXTENDS VirtMem, FiniteSetTheorems, SequenceTheorems, TLAPS

Ram == 0..(RAM - 1)

(* The entry of v, Zero if there is no page table for it.                  *)
Mapping(d, m, v) ==
  IF d[DirOf(v)].low = "present" THEN m[d[DirOf(v)].number][v % WORDS] ELSE Zero

Map(v) == Mapping(page_dir, phys, v)

Typed(d, m, n) ==
  d \in [Dir -> Words] /\ m \in [Ram -> [Offset -> Words]] /\ n \in FIRST_PHYS_PAGE..RAM

(* The pages of the tables, and what is mapped.                            *)
TablesBelow(d, n) ==
  \A i \in Dir : d[i] = Zero \/ (d[i] = Present(d[i].number) /\ d[i].number < n)
TablesApart(d) == \A i, j \in Dir : d[i].low = "present" /\ d[i] = d[j] => i = j
ViewsBelow(d, m, n) ==
  \A v \in Page : Mapping(d, m, v).low = "present" =>
    Mapping(d, m, v) = Present(Mapping(d, m, v).number) /\ Mapping(d, m, v).number < n
ViewsApart(d, m) ==
  \A u, v \in Page :
    Mapping(d, m, u).low = "present" /\ Mapping(d, m, u) = Mapping(d, m, v) => u = v
NoTableViewed(d, m) ==
  \A v \in Page, i \in Dir : Mapping(d, m, v).low = "present" => Mapping(d, m, v) # d[i]
AllUsed(d, m, n) ==
  \A p \in 0..(n - 1) : \/ \E i \in Dir : d[i] = Present(p)
                        \/ \E v \in Page : Mapping(d, m, v) = Present(p)
RestClean(m, n) == \A p \in n..(RAM - 1), i \in Offset : m[p][i].low = "none"

(* The first n pages are page tables, or mapped; none is both, or used     *)
(* twice; and no word of the others looks like an entry.                   *)
Paged(d, m, n) ==
  /\ TablesBelow(d, n) /\ TablesApart(d)
  /\ ViewsBelow(d, m, n) /\ ViewsApart(d, m) /\ NoTableViewed(d, m)
  /\ AllUsed(d, m, n) /\ RestClean(m, n)
-----------------------------------------------------------------------------
(* Arithmetic: a page is told by its directory entry and its place in the  *)
(* page table.                                                             *)
LEMMA Division ==
  ASSUME NEW v \in Nat, NEW w \in Nat \ {0}
  PROVE  v \div w \in Nat /\ v % w \in 0..(w - 1) /\ v = w * (v \div w) + (v % w)
OBVIOUS

LEMMA Below ==
  ASSUME NEW n \in Nat, NEW w \in Nat \ {0}, NEW q \in Nat, NEW r \in Nat, w * q + r < n * w
  PROVE  q < n
OBVIOUS

LEMMA Assumed ==
  /\ WORDS \in Nat \ {0} /\ DIRS \in Nat \ {0} /\ WORDS > 1
  /\ RAM \in Nat /\ RAM >= 2 /\ GAMEDISK \in Nat /\ GAMEDISK > 1
BY VirtMemAssumption DEF VirtMemAssumption, FIRST_PHYS_PAGE, KERNEL

LEMMA PageParts ==
  ASSUME NEW v \in Page
  PROVE  v \in Nat /\ DirOf(v) \in Dir /\ v % WORDS \in Offset
<1>1. PICK w \in Nat \ {0} : w = WORDS
  BY Assumed
<1>2. PICK n \in Nat \ {0} : n = DIRS
  BY Assumed
<1>3. v \in Nat /\ v < n * w
  BY <1>1, <1>2 DEF Page
<1>4. /\ v \div w \in Nat /\ v % w \in 0..(w - 1) /\ v = w * (v \div w) + (v % w)
  BY <1>3, Division, Zenon
<1>5. PICK q \in Nat, r \in Nat : q = v \div w /\ r = v % w
  BY <1>4
<1>6. q < n
  BY <1>3, <1>4, <1>5, Below
<1> QED BY <1>1, <1>2, <1>3, <1>4, <1>5, <1>6 DEF DirOf, Dir, Offset

LEMMA SamePlace ==
  ASSUME NEW u \in Page, NEW v \in Page, DirOf(u) = DirOf(v), u % WORDS = v % WORDS
  PROVE  u = v
<1>1. u \in Nat /\ v \in Nat
  BY PageParts
<1>2. WORDS \in Nat \ {0}
  BY Assumed
<1>3. /\ u = WORDS * (u \div WORDS) + (u % WORDS)
      /\ v = WORDS * (v \div WORDS) + (v % WORDS)
  BY <1>1, <1>2, Division, Zenon
<1> QED BY <1>3, Zenon DEF DirOf

(* KERNEL is the second page of the first directory entry.                 *)
LEMMA KernelPlace == KERNEL \in Page /\ DirOf(KERNEL) = 0 /\ KERNEL % WORDS = 1
<1>1. PICK w \in Nat \ {0} : w = WORDS /\ w > 1
  BY Assumed
<1>2. PICK n \in Nat \ {0} : n = DIRS
  BY Assumed
<1>3. 1 \div w = 0 /\ 1 % w = 1
  BY <1>1
<1>4. n * w - 1 >= 1
  BY <1>1, <1>2
<1> QED BY <1>1, <1>2, <1>3, <1>4 DEF KERNEL, Page, DirOf
-----------------------------------------------------------------------------
(* Words.                                                                  *)
LEMMA WordFacts ==
  /\ \A w \in Words : w.low = "present" => w = Present(w.number) /\ w.number \in Ram
  /\ \A w \in Words : w.low \in {"none", "disk", "present"} /\ w.number \in Nat
  /\ \A p \in Ram : Present(p) \in Words
  /\ \A n \in Nat : OnDisk(n) \in Words /\ Datum(n) \in Words
  /\ Zero \in Words /\ Zero.low = "none"
  /\ \A p : Present(p).low = "present" /\ Present(p).number = p
  /\ \A p : OnDisk(p).low = "disk" /\ OnDisk(p).number = p
<1>1. RAM \in Nat
  BY Assumed
<1> QED BY <1>1 DEF Words, Present, OnDisk, Datum, Zero, Ram

LEMMA MappingType ==
  ASSUME NEW d, NEW m, NEW n, Typed(d, m, n), NEW v \in Page
  PROVE  /\ Mapping(d, m, v) \in Words
         /\ d[DirOf(v)] \in Words
         /\ d[DirOf(v)].low = "present" => d[DirOf(v)].number \in Ram
<1>1. DirOf(v) \in Dir /\ v % WORDS \in Offset
  BY PageParts
<1>2. d[DirOf(v)] \in Words
  BY <1>1 DEF Typed
<1>3. d[DirOf(v)].low = "present" => d[DirOf(v)].number \in Ram
  BY <1>2, WordFacts, Zenon
<1>4. d[DirOf(v)].low = "present" => m[d[DirOf(v)].number][v % WORDS] \in Words
  BY <1>1, <1>3 DEF Typed
<1> QED BY <1>2, <1>3, <1>4, WordFacts, Zenon DEF Mapping

LEMMA BlankPages ==
  /\ ZeroPage \in [Offset -> Words]
  /\ \A k \in Nat : DiskPage(k) \in [Offset -> Words]
<1>1. \A k \in Nat : Datum(k + 1) \in Words
  BY WordFacts
<1> QED BY <1>1, WordFacts DEF ZeroPage, DiskPage
-----------------------------------------------------------------------------
(* What is written to a mapped page changes no mapping.                    *)
Replaced(m, q, page) == [m EXCEPT ![q] = page]

LEMMA WriteData ==
  ASSUME NEW d, NEW m, NEW n, Typed(d, m, n), Paged(d, m, n),
         NEW v \in Page, Mapping(d, m, v).low = "present",
         NEW page \in [Offset -> Words], NEW m2,
         m2 = Replaced(m, Mapping(d, m, v).number, page)
  PROVE  /\ Typed(d, m2, n) /\ Paged(d, m2, n)
         /\ \A u \in Page : Mapping(d, m2, u) = Mapping(d, m, u)
         /\ m2[Mapping(d, m, v).number] = page
         /\ \A u \in Page : Mapping(d, m, u).low = "present" /\ u # v =>
              m2[Mapping(d, m, u).number] = m[Mapping(d, m, u).number]
<1>1. PICK q : q = Mapping(d, m, v).number
  OBVIOUS
<1>2. q \in Ram /\ Mapping(d, m, v) = Present(q) /\ q < n
  <2>1. Mapping(d, m, v) \in Words
    BY MappingType, Zenon
  <2>2. Mapping(d, m, v).number \in Ram
    BY <2>1, WordFacts, Zenon
  <2>3. Mapping(d, m, v) = Present(Mapping(d, m, v).number) /\ Mapping(d, m, v).number < n
    BY Zenon DEF Paged, ViewsBelow
  <2> QED BY <2>2, <2>3, <1>1, Zenon
<1>3. m \in [Ram -> [Offset -> Words]] /\ m2 = [m EXCEPT ![q] = page]
  BY <1>1, Zenon DEF Typed, Replaced
<1>4. m2 \in [Ram -> [Offset -> Words]] /\ m2[q] = page /\ \A p \in Ram : p # q => m2[p] = m[p]
  BY <1>2, <1>3
<1>5. \A u \in Page : Mapping(d, m2, u) = Mapping(d, m, u)
  <2> SUFFICES ASSUME NEW u \in Page PROVE Mapping(d, m2, u) = Mapping(d, m, u)
    OBVIOUS
  <2>1. CASE d[DirOf(u)].low # "present"
    BY <2>1, Zenon DEF Mapping
  <2>2. CASE d[DirOf(u)].low = "present"
    <3>1. DirOf(u) \in Dir
      BY PageParts
    <3>2. d[DirOf(u)] = Present(d[DirOf(u)].number) /\ d[DirOf(u)].number \in Ram
      BY <2>2, MappingType, WordFacts, Zenon
    <3>3. d[DirOf(u)] # Present(q)
      BY <3>1, <1>2, Zenon DEF Paged, NoTableViewed
    <3>4. d[DirOf(u)].number # q
      BY <3>2, <3>3, Zenon
    <3>5. m2[d[DirOf(u)].number] = m[d[DirOf(u)].number]
      BY <3>2, <3>4, <1>4
    <3>6. /\ Mapping(d, m2, u) = m2[d[DirOf(u)].number][u % WORDS]
          /\ Mapping(d, m, u) = m[d[DirOf(u)].number][u % WORDS]
      BY <2>2, Zenon DEF Mapping
    <3> QED BY <3>5, <3>6, Zenon
  <2> QED BY <2>1, <2>2
<1>6. \A u \in Page : Mapping(d, m, u).low = "present" /\ u # v =>
        m2[Mapping(d, m, u).number] = m[Mapping(d, m, u).number]
  <2> SUFFICES ASSUME NEW u \in Page, Mapping(d, m, u).low = "present", u # v
               PROVE  m2[Mapping(d, m, u).number] = m[Mapping(d, m, u).number]
    OBVIOUS
  <2>1. Mapping(d, m, u) = Present(Mapping(d, m, u).number) /\ Mapping(d, m, u).number \in Ram
    BY MappingType, WordFacts, Zenon
  <2>2. Mapping(d, m, u) # Mapping(d, m, v)
    BY Zenon DEF Paged, ViewsApart
  <2>3. Mapping(d, m, u).number # q
    BY <2>1, <2>2, <1>2, Zenon
  <2> QED BY <2>1, <2>3, <1>4
<1>7. \A p \in n..(RAM - 1), i \in Offset : m2[p][i].low = "none"
  <2> SUFFICES ASSUME NEW p \in n..(RAM - 1) PROVE \A i \in Offset : m2[p][i].low = "none"
    OBVIOUS
  <2>1. n \in Nat
    BY DEF Typed, FIRST_PHYS_PAGE
  <2>2. p \in Ram /\ p # q
    BY <2>1, <1>2, Assumed DEF Ram
  <2>3. m2[p] = m[p]
    BY <2>2, <1>4
  <2> QED BY <2>3, Zenon DEF Paged, RestClean
<1>8. Paged(d, m2, n)
  <2>1. ViewsBelow(d, m2, n)
    BY <1>5, Zenon DEF Paged, ViewsBelow
  <2>2. ViewsApart(d, m2)
    BY <1>5, Zenon DEF Paged, ViewsApart
  <2>3. NoTableViewed(d, m2)
    BY <1>5, Zenon DEF Paged, NoTableViewed
  <2>4. AllUsed(d, m2, n)
    BY <1>5, Zenon DEF Paged, AllUsed
  <2>5. RestClean(m2, n)
    BY <1>7, Zenon DEF RestClean
  <2> QED BY <2>1, <2>2, <2>3, <2>4, <2>5, Zenon DEF Paged
<1>9. Typed(d, m2, n)
  BY <1>4, Zenon DEF Typed
<1> QED BY <1>1, <1>4, <1>5, <1>6, <1>8, <1>9, Zenon

(* A page for a page table is taken: its entries map nothing.              *)
WithTable(d, i, n) == [d EXCEPT ![i] = Present(n)]

LEMMA NewTable ==
  ASSUME NEW d, NEW m, NEW n, Typed(d, m, n), Paged(d, m, n), n < RAM,
         NEW i \in Dir, d[i].low # "present",
         NEW d2, d2 = WithTable(d, i, n)
  PROVE  /\ Typed(d2, m, n + 1) /\ Paged(d2, m, n + 1) /\ d2[i] = Present(n)
         /\ \A u \in Page : IF DirOf(u) = i
                            THEN Mapping(d, m, u) = Zero /\ Mapping(d2, m, u).low = "none"
                            ELSE Mapping(d2, m, u) = Mapping(d, m, u)
<1>1. /\ d \in [Dir -> Words] /\ m \in [Ram -> [Offset -> Words]]
      /\ n \in Nat /\ n \in Ram /\ n + 1 \in FIRST_PHYS_PAGE..RAM
  BY Assumed DEF Typed, FIRST_PHYS_PAGE, Ram
<1>2. /\ d2[i] = Present(n) /\ \A j \in Dir : j # i => d2[j] = d[j]
      /\ d2 \in [Dir -> Words]
  <2>1. Present(n) \in Words
    BY <1>1, WordFacts, Zenon
  <2> QED BY <2>1, <1>1 DEF WithTable
<1>3. d[i] = Zero
  <2>1. d[i] # Present(d[i].number)
    BY WordFacts, Zenon
  <2> QED BY <2>1, Zenon DEF Paged, TablesBelow
<1>4. ASSUME NEW u \in Page, DirOf(u) = i
      PROVE  Mapping(d, m, u) = Zero /\ Mapping(d2, m, u).low = "none"
  <2>1. Mapping(d, m, u) = Zero
    BY <1>4, Zenon DEF Mapping
  <2>2. Mapping(d2, m, u) = m[n][u % WORDS]
    <3>1. d2[DirOf(u)].low = "present" /\ d2[DirOf(u)].number = n
      BY <1>2, <1>4, WordFacts, Zenon
    <3> QED BY <3>1, Zenon DEF Mapping
  <2>3. m[n][u % WORDS].low = "none"
    <3>1. n \in n..(RAM - 1) /\ u % WORDS \in Offset
      BY <1>1, Assumed, PageParts
    <3> QED BY <3>1, Zenon DEF Paged, RestClean
  <2> QED BY <2>1, <2>2, <2>3, Zenon
<1>5. ASSUME NEW u \in Page, DirOf(u) # i
      PROVE  Mapping(d2, m, u) = Mapping(d, m, u)
  <2>1. d2[DirOf(u)] = d[DirOf(u)]
    BY <1>5, <1>2, PageParts, Zenon
  <2>2. /\ Mapping(d2, m, u) = IF d2[DirOf(u)].low = "present"
                                THEN m[d2[DirOf(u)].number][u % WORDS] ELSE Zero
        /\ Mapping(d, m, u) = IF d[DirOf(u)].low = "present"
                               THEN m[d[DirOf(u)].number][u % WORDS] ELSE Zero
    BY Zenon DEF Mapping
  <2> QED BY <2>1, <2>2, Zenon
<1>6. ASSUME NEW u \in Page, Mapping(d2, m, u).low = "present" \/ Mapping(d, m, u).low = "present"
      PROVE  /\ Mapping(d2, m, u) = Mapping(d, m, u)
             /\ Mapping(d, m, u) = Present(Mapping(d, m, u).number)
             /\ Mapping(d, m, u).number \in Nat /\ Mapping(d, m, u).number < n
  <2>1. Mapping(d2, m, u) = Mapping(d, m, u)
    BY <1>6, <1>4, <1>5, WordFacts, Zenon
  <2>2. Mapping(d, m, u).number \in Nat
    BY MappingType, WordFacts, Zenon
  <2> QED BY <1>6, <2>1, <2>2, Zenon DEF Paged, ViewsBelow
<1>7. \A j \in Dir : d[j].low = "present" => d[j] = Present(d[j].number) /\ d[j].number < n
  BY WordFacts, Zenon DEF Paged, TablesBelow
<1>8. /\ \A j \in Dir : d2[j] = Zero \/ (d2[j] = Present(d2[j].number) /\ d2[j].number < n + 1)
      /\ \A j, k \in Dir : d2[j].low = "present" /\ d2[j] = d2[k] => j = k
  <2>1. \A j \in Dir : d[j] # Present(n)
    <3> SUFFICES ASSUME NEW j \in Dir, d[j] = Present(n) PROVE FALSE
      OBVIOUS
    <3>1. d[j].low = "present" /\ d[j].number = n
      BY WordFacts, Zenon
    <3>2. n < n
      BY <3>1, <1>7, Zenon
    <3> QED BY <3>2, <1>1
  <2>2. ASSUME NEW j \in Dir
        PROVE  d2[j] = Zero \/ (d2[j] = Present(d2[j].number) /\ d2[j].number < n + 1)
    <3>1. CASE j = i
      <4>1. d2[j] = Present(d2[j].number) /\ d2[j].number = n
        BY <3>1, <1>2, WordFacts, Zenon
      <4> QED BY <4>1, <1>1
    <3>2. CASE j # i
      <4>1. d2[j] = d[j] /\ d[j] \in Words
        BY <3>2, <1>2, <1>1
      <4>2. d[j].number \in Nat
        BY <4>1, WordFacts, Zenon
      <4>3. d[j] = Zero \/ (d[j] = Present(d[j].number) /\ d[j].number < n)
        BY Zenon DEF Paged, TablesBelow
      <4>4. d[j].number < n => d[j].number < n + 1
        BY <4>2, <1>1
      <4> QED BY <4>1, <4>3, <4>4, Zenon
    <3> QED BY <3>1, <3>2, Zenon
  <2>3. \A j, k \in Dir : d[j].low = "present" /\ d[j] = d[k] => j = k
    BY Zenon DEF Paged, TablesApart
  <2>4. \A j, k \in Dir : d2[j].low = "present" /\ d2[j] = d2[k] => j = k
    BY <2>1, <2>3, <1>2, Zenon
  <2> QED BY <2>2, <2>4, Zenon
<1>9. /\ \A v \in Page : Mapping(d2, m, v).low = "present" =>
           Mapping(d2, m, v) = Present(Mapping(d2, m, v).number)
           /\ Mapping(d2, m, v).number < n + 1
      /\ \A u, v \in Page : Mapping(d2, m, u).low = "present"
                            /\ Mapping(d2, m, u) = Mapping(d2, m, v) => u = v
  <2>1. \A x \in Nat : x < n => x < n + 1
    BY <1>1
  <2>2. \A u, v \in Page : Mapping(d, m, u).low = "present"
                            /\ Mapping(d, m, u) = Mapping(d, m, v) => u = v
    BY Zenon DEF Paged, ViewsApart
  <2>3. ASSUME NEW u \in Page, NEW v \in Page, Mapping(d2, m, u).low = "present",
               Mapping(d2, m, u) = Mapping(d2, m, v)
        PROVE  u = v
    <3>1. Mapping(d2, m, v).low = "present"
      BY <2>3, Zenon
    <3> QED BY <3>1, <2>2, <2>3, <1>6, Zenon
  <2> QED BY <2>1, <2>3, <1>6, Zenon
<1>10. \A v \in Page, j \in Dir : Mapping(d2, m, v).low = "present" => Mapping(d2, m, v) # d2[j]
  <2> SUFFICES ASSUME NEW v \in Page, NEW j \in Dir, Mapping(d2, m, v).low = "present"
               PROVE  Mapping(d2, m, v) # d2[j]
    OBVIOUS
  <2>1. CASE j = i
    <3>1. Mapping(d2, m, v).number < n /\ Mapping(d2, m, v).number \in Nat
      BY <1>6, Zenon
    <3>2. d2[j].number = n
      BY <2>1, <1>2, WordFacts, Zenon
    <3>3. d2[j].number # Mapping(d2, m, v).number
      BY <3>1, <3>2, <1>1
    <3> QED BY <3>3, Zenon
  <2>2. CASE j # i
    <3>1. Mapping(d, m, v).low = "present" => Mapping(d, m, v) # d[j]
      BY Zenon DEF Paged, NoTableViewed
    <3> QED BY <3>1, <2>2, <1>2, <1>6, Zenon
  <2> QED BY <2>1, <2>2, Zenon
<1>11. \A p \in 0..((n + 1) - 1) : \/ \E j \in Dir : d2[j] = Present(p)
                                 \/ \E v \in Page : Mapping(d2, m, v) = Present(p)
  <2> SUFFICES ASSUME NEW p \in 0..((n + 1) - 1)
               PROVE  \/ \E j \in Dir : d2[j] = Present(p)
                      \/ \E v \in Page : Mapping(d2, m, v) = Present(p)
    OBVIOUS
  <2>1. p = n \/ p \in 0..(n - 1)
    BY <1>1
  <2>2. CASE p \in 0..(n - 1)
    <3>1. \/ \E j \in Dir : d[j] = Present(p)
          \/ \E v \in Page : Mapping(d, m, v) = Present(p)
      BY <2>2, Zenon DEF Paged, AllUsed
    <3>2. d[i] # Present(p)
      BY <1>3, WordFacts, Zenon
    <3>3. \A v \in Page : Mapping(d, m, v) = Present(p) => Mapping(d2, m, v) = Present(p)
      BY <1>6, WordFacts, Zenon
    <3> QED BY <3>1, <3>2, <3>3, <1>2, Zenon
  <2> QED BY <2>1, <2>2, <1>2, Zenon
<1>12. \A p \in (n + 1)..(RAM - 1), j \in Offset : m[p][j].low = "none"
  <2>1. \A p \in (n + 1)..(RAM - 1) : p \in n..(RAM - 1)
    BY <1>1, Assumed
  <2>2. \A p \in n..(RAM - 1), j \in Offset : m[p][j].low = "none"
    BY Zenon DEF Paged, RestClean
  <2> QED BY <2>1, <2>2, Zenon
<1>13. Paged(d2, m, n + 1)
  <2>1. TablesBelow(d2, n + 1) /\ TablesApart(d2)
    BY <1>8, Zenon DEF TablesBelow, TablesApart
  <2>2. ViewsBelow(d2, m, n + 1) /\ ViewsApart(d2, m)
    BY <1>9, Zenon DEF ViewsBelow, ViewsApart
  <2>3. NoTableViewed(d2, m)
    BY <1>10, Zenon DEF NoTableViewed
  <2>4. AllUsed(d2, m, n + 1)
    BY <1>11, Zenon DEF AllUsed
  <2>5. RestClean(m, n + 1)
    BY <1>12, Zenon DEF RestClean
  <2> QED BY <2>1, <2>2, <2>3, <2>4, <2>5, Zenon DEF Paged
<1>14. Typed(d2, m, n + 1)
  BY <1>1, <1>2, Zenon DEF Typed
<1> QED BY <1>2, <1>4, <1>5, <1>13, <1>14, Zenon

(* An entry is written to a page table: it is the one of v and no other.   *)
Written(d, m, v, e) == [m EXCEPT ![d[DirOf(v)].number][v % WORDS] = e]

LEMMA WriteEntry ==
  ASSUME NEW d, NEW m, NEW n, Typed(d, m, n), Paged(d, m, n),
         NEW v \in Page, d[DirOf(v)].low = "present", NEW e \in Words,
         NEW m2, m2 = Written(d, m, v, e)
  PROVE  /\ Typed(d, m2, n)
         /\ Mapping(d, m2, v) = e
         /\ \A u \in Page : u # v => Mapping(d, m2, u) = Mapping(d, m, u)
         /\ \A u \in Page : Mapping(d, m, u).low = "present" =>
              m2[Mapping(d, m, u).number] = m[Mapping(d, m, u).number]
         /\ \A p \in n..(RAM - 1), i \in Offset : m2[p][i].low = "none"
<1>1. PICK q, o : q = d[DirOf(v)].number /\ o = v % WORDS
  OBVIOUS
<1>2. /\ m \in [Ram -> [Offset -> Words]] /\ m2 = [m EXCEPT ![q][o] = e]
      /\ q \in Ram /\ o \in Offset /\ d[DirOf(v)] = Present(q) /\ q < n
      /\ n \in Nat /\ DirOf(v) \in Dir
  <2>1. m \in [Ram -> [Offset -> Words]] /\ m2 = [m EXCEPT ![q][o] = e]
    BY <1>1, Zenon DEF Typed, Written
  <2>2. q \in Ram /\ o \in Offset /\ DirOf(v) \in Dir
    BY <1>1, MappingType, PageParts, Zenon
  <2>3. d[DirOf(v)] = Present(q) /\ q < n
    <3>1. d[DirOf(v)] # Zero
      BY WordFacts, Zenon
    <3>2. \A i \in Dir : d[i] = Zero \/ (d[i] = Present(d[i].number) /\ d[i].number < n)
      BY Zenon DEF Paged, TablesBelow
    <3> QED BY <3>1, <3>2, <2>2, <1>1, Zenon
  <2>4. n \in Nat
    BY DEF Typed, FIRST_PHYS_PAGE
  <2> QED BY <2>1, <2>2, <2>3, <2>4, Zenon
<1>3. /\ m2 \in [Ram -> [Offset -> Words]]
      /\ \A p \in Ram : p # q => m2[p] = m[p]
      /\ m2[q][o] = e /\ \A i \in Offset : i # o => m2[q][i] = m[q][i]
  <2>1. PICK r : r = [m[q] EXCEPT ![o] = e]
    OBVIOUS
  <2>2. m[q] \in [Offset -> Words]
    BY <1>2
  <2>3. r \in [Offset -> Words] /\ r[o] = e /\ \A i \in Offset : i # o => r[i] = m[q][i]
    BY <2>1, <2>2, <1>2
  <2>4. m2 = [m EXCEPT ![q] = r]
    BY <2>1, <1>2
  <2>5. m2 \in [Ram -> [Offset -> Words]] /\ m2[q] = r /\ \A p \in Ram : p # q => m2[p] = m[p]
    BY <2>3, <2>4, <1>2
  <2> QED BY <2>3, <2>5, Zenon
<1>4. Mapping(d, m2, v) = e
  BY <1>1, <1>3, Zenon DEF Mapping
<1>5. ASSUME NEW u \in Page, u # v PROVE Mapping(d, m2, u) = Mapping(d, m, u)
  <2>1. CASE d[DirOf(u)].low # "present"
    BY <2>1, Zenon DEF Mapping
  <2>2. CASE d[DirOf(u)].low = "present"
    <3>1. /\ Mapping(d, m2, u) = m2[d[DirOf(u)].number][u % WORDS]
          /\ Mapping(d, m, u) = m[d[DirOf(u)].number][u % WORDS]
      BY <2>2, Zenon DEF Mapping
    <3>2. d[DirOf(u)] \in Words /\ d[DirOf(u)].number \in Ram /\ u % WORDS \in Offset /\ DirOf(u) \in Dir
      BY <2>2, MappingType, PageParts, Zenon
    <3>3. CASE d[DirOf(u)].number # q
      BY <3>1, <3>2, <3>3, <1>3, Zenon
    <3>4. CASE d[DirOf(u)].number = q
      <4>1. d[DirOf(u)] = Present(q)
        BY <3>4, <2>2, MappingType, WordFacts, Zenon
      <4>2. DirOf(u) = DirOf(v)
        <5>1. \A i, j \in Dir : d[i].low = "present" /\ d[i] = d[j] => i = j
          BY Zenon DEF Paged, TablesApart
        <5> QED BY <5>1, <4>1, <2>2, <3>2, <1>2, Zenon
      <4>3. u % WORDS # o
        BY <4>2, <1>1, <1>5, SamePlace, Zenon
      <4> QED BY <4>3, <3>1, <3>2, <3>4, <1>3, Zenon
    <3> QED BY <3>3, <3>4, Zenon
  <2> QED BY <2>1, <2>2, Zenon
<1>6. ASSUME NEW u \in Page, Mapping(d, m, u).low = "present"
      PROVE  m2[Mapping(d, m, u).number] = m[Mapping(d, m, u).number]
  <2>1. Mapping(d, m, u) = Present(Mapping(d, m, u).number) /\ Mapping(d, m, u).number \in Ram
    BY <1>6, MappingType, WordFacts, Zenon
  <2>2. Mapping(d, m, u) # d[DirOf(v)]
    BY <1>6, <1>2, Zenon DEF Paged, NoTableViewed
  <2> QED BY <2>1, <2>2, <1>2, <1>3, Zenon
<1>7. ASSUME NEW p \in n..(RAM - 1), NEW i \in Offset PROVE m2[p][i].low = "none"
  <2>1. p \in Ram /\ p # q
    BY <1>2, Assumed DEF Ram
  <2>2. m[p][i].low = "none"
    BY <1>7, Zenon DEF Paged, RestClean
  <2> QED BY <2>1, <2>2, <1>3, Zenon
<1>8. Typed(d, m2, n)
  BY <1>3, Zenon DEF Typed
<1> QED BY <1>4, <1>5, <1>6, <1>7, <1>8, Zenon

(* An entry that maps nothing is written where none was mapped.            *)
LEMMA OldEntry ==
  ASSUME NEW d, NEW m, NEW n, Typed(d, m, n), Paged(d, m, n),
         NEW v \in Page, d[DirOf(v)].low = "present", Mapping(d, m, v).low # "present",
         NEW e \in Words, e.low # "present",
         NEW m2, m2 = Written(d, m, v, e)
  PROVE  Paged(d, m2, n)
<1>1. /\ Mapping(d, m2, v) = e
      /\ \A u \in Page : u # v => Mapping(d, m2, u) = Mapping(d, m, u)
      /\ \A p \in n..(RAM - 1), i \in Offset : m2[p][i].low = "none"
  BY WriteEntry
<1>2. ASSUME NEW u \in Page, Mapping(d, m2, u).low = "present" \/ Mapping(d, m, u).low = "present"
      PROVE  Mapping(d, m2, u) = Mapping(d, m, u)
  BY <1>1, <1>2, Zenon
<1>3. \A x \in Page : Mapping(d, m2, x).low = "present" =>
        Mapping(d, m2, x) = Present(Mapping(d, m2, x).number)
        /\ Mapping(d, m2, x).number < n
  BY <1>2, Zenon DEF Paged, ViewsBelow
<1>4. ASSUME NEW u \in Page, NEW w \in Page, Mapping(d, m2, u).low = "present",
             Mapping(d, m2, u) = Mapping(d, m2, w)
      PROVE  u = w
  <2>1. Mapping(d, m2, w).low = "present"
    BY <1>4, Zenon
  <2>2. Mapping(d, m, u) = Mapping(d, m, w) /\ Mapping(d, m, u).low = "present"
    BY <2>1, <1>2, <1>4, Zenon
  <2> QED BY <2>2, Zenon DEF Paged, ViewsApart
<1>5. \A w \in Page, i \in Dir : Mapping(d, m2, w).low = "present" => Mapping(d, m2, w) # d[i]
  BY <1>2, Zenon DEF Paged, NoTableViewed
<1>6. \A p \in 0..(n - 1) : \/ \E i \in Dir : d[i] = Present(p)
                            \/ \E w \in Page : Mapping(d, m2, w) = Present(p)
  <2>1. \A p : Present(p).low = "present"
    BY WordFacts, Zenon
  <2>2. \A p : \A w \in Page : Mapping(d, m, w) = Present(p) => Mapping(d, m2, w) = Present(p)
    BY <2>1, <1>2, Zenon
  <2>3. \A p \in 0..(n - 1) : \/ \E i \in Dir : d[i] = Present(p)
                              \/ \E w \in Page : Mapping(d, m, w) = Present(p)
    BY Zenon DEF Paged, AllUsed
  <2> QED BY <2>2, <2>3, Zenon
<1>7. ViewsBelow(d, m2, n) /\ ViewsApart(d, m2)
  BY <1>3, <1>4, Zenon DEF ViewsBelow, ViewsApart
<1>8. NoTableViewed(d, m2) /\ AllUsed(d, m2, n)
  BY <1>5, <1>6, Zenon DEF NoTableViewed, AllUsed
<1>9. RestClean(m2, n)
  BY <1>1, Zenon DEF RestClean
<1> QED BY <1>7, <1>8, <1>9, Zenon DEF Paged

(* A fresh page is mapped where none was mapped.                           *)
LEMMA NewPage ==
  ASSUME NEW d, NEW m, NEW n, Typed(d, m, n), Paged(d, m, n), n < RAM,
         NEW v \in Page, d[DirOf(v)].low = "present", Mapping(d, m, v).low # "present",
         NEW m2, m2 = Written(d, m, v, Present(n))
  PROVE  Typed(d, m2, n + 1) /\ Paged(d, m2, n + 1)
<1>1. n \in Nat /\ n \in Ram /\ n + 1 \in FIRST_PHYS_PAGE..RAM
  BY Assumed DEF Typed, FIRST_PHYS_PAGE, Ram
<1>2. Present(n) \in Words /\ Present(n).low = "present" /\ Present(n).number = n
  BY <1>1, WordFacts, Zenon
<1>3. /\ Typed(d, m2, n)
      /\ Mapping(d, m2, v) = Present(n)
      /\ \A u \in Page : u # v => Mapping(d, m2, u) = Mapping(d, m, u)
      /\ \A p \in n..(RAM - 1), i \in Offset : m2[p][i].low = "none"
  BY <1>2, WriteEntry
<1>4. Typed(d, m2, n + 1)
  BY <1>1, <1>3, Zenon DEF Typed
<1>5. \A x \in Nat : x < n => x < n + 1 /\ x # n
  BY <1>1
<1>6. \A i \in Dir : /\ d[i] = Zero \/ (d[i] = Present(d[i].number) /\ d[i].number < n)
                    /\ d[i].number \in Nat
  <2>1. \A i \in Dir : d[i] \in Words
    BY DEF Typed
  <2>2. \A i \in Dir : d[i].number \in Nat
    BY <2>1, WordFacts, Zenon
  <2> QED BY <2>2, Zenon DEF Paged, TablesBelow
<1>7. \A u \in Page : Mapping(d, m, u).low = "present" =>
        /\ Mapping(d, m, u) = Present(Mapping(d, m, u).number) /\ Mapping(d, m, u).number < n
        /\ Mapping(d, m, u).number \in Nat
  <2>1. \A u \in Page : Mapping(d, m, u) \in Words
    BY MappingType, Zenon
  <2>2. \A u \in Page : Mapping(d, m, u).number \in Nat
    BY <2>1, WordFacts, Zenon
  <2> QED BY <2>2, Zenon DEF Paged, ViewsBelow
<1>8. \A i \in Dir : d[i] = Zero \/ (d[i] = Present(d[i].number) /\ d[i].number < n + 1)
  BY <1>5, <1>6, Zenon
<1>9. \A i, j \in Dir : d[i].low = "present" /\ d[i] = d[j] => i = j
  BY Zenon DEF Paged, TablesApart
<1>10. \A w \in Page : Mapping(d, m2, w).low = "present" =>
         Mapping(d, m2, w) = Present(Mapping(d, m2, w).number)
         /\ Mapping(d, m2, w).number < n + 1
  <2> SUFFICES ASSUME NEW w \in Page, Mapping(d, m2, w).low = "present"
               PROVE  Mapping(d, m2, w) = Present(Mapping(d, m2, w).number)
                      /\ Mapping(d, m2, w).number < n + 1
    OBVIOUS
  <2>1. CASE w = v
    <3>1. n < n + 1
      BY <1>1
    <3> QED BY <2>1, <3>1, <1>2, <1>3, Zenon
  <2>2. CASE w # v
    BY <2>2, <1>3, <1>5, <1>7, Zenon
  <2> QED BY <2>1, <2>2, Zenon
<1>11. ASSUME NEW u \in Page, NEW w \in Page, Mapping(d, m2, u).low = "present",
              Mapping(d, m2, u) = Mapping(d, m2, w)
       PROVE  u = w
  <2>1. \A x \in Page : x # v /\ Mapping(d, m2, x).low = "present" => Mapping(d, m2, x) # Present(n)
    BY <1>2, <1>3, <1>5, <1>7, Zenon
  <2>2. u = v => w = v
    BY <2>1, <1>2, <1>3, <1>11, Zenon
  <2>4. w = v => u = v
    BY <2>1, <1>2, <1>3, <1>11, Zenon
  <2>3. \A x, y \in Page : Mapping(d, m, x).low = "present"
                          /\ Mapping(d, m, x) = Mapping(d, m, y) => x = y
    BY Zenon DEF Paged, ViewsApart
  <2> QED BY <2>2, <2>3, <2>4, <1>3, <1>11, Zenon
<1>12. \A w \in Page, i \in Dir : Mapping(d, m2, w).low = "present" => Mapping(d, m2, w) # d[i]
  <2> SUFFICES ASSUME NEW w \in Page, NEW i \in Dir, Mapping(d, m2, w).low = "present"
               PROVE  Mapping(d, m2, w) # d[i]
    OBVIOUS
  <2>1. CASE w = v
    <3>1. d[i] # Present(n)
      BY <1>2, <1>5, <1>6, WordFacts, Zenon
    <3> QED BY <2>1, <3>1, <1>3, Zenon
  <2>2. CASE w # v
    <3>1. Mapping(d, m, w).low = "present" => Mapping(d, m, w) # d[i]
      BY Zenon DEF Paged, NoTableViewed
    <3> QED BY <2>2, <3>1, <1>3, Zenon
  <2> QED BY <2>1, <2>2, Zenon
<1>13. \A p \in 0..((n + 1) - 1) : \/ \E i \in Dir : d[i] = Present(p)
                                 \/ \E w \in Page : Mapping(d, m2, w) = Present(p)
  <2> SUFFICES ASSUME NEW p \in 0..((n + 1) - 1)
               PROVE  \/ \E i \in Dir : d[i] = Present(p)
                      \/ \E w \in Page : Mapping(d, m2, w) = Present(p)
    OBVIOUS
  <2>1. p = n \/ p \in 0..(n - 1)
    BY <1>1
  <2>2. CASE p \in 0..(n - 1)
    <3>1. \/ \E i \in Dir : d[i] = Present(p)
          \/ \E w \in Page : Mapping(d, m, w) = Present(p)
      BY <2>2, Zenon DEF Paged, AllUsed
    <3>2. Mapping(d, m, v) # Present(p)
      BY WordFacts, Zenon
    <3> QED BY <3>1, <3>2, <1>3, Zenon
  <2> QED BY <2>1, <2>2, <1>3, Zenon
<1>14. \A p \in (n + 1)..(RAM - 1), i \in Offset : m2[p][i].low = "none"
  <2>1. \A p \in (n + 1)..(RAM - 1) : p \in n..(RAM - 1)
    BY <1>1, Assumed
  <2> QED BY <2>1, <1>3, Zenon
<1>15. Paged(d, m2, n + 1)
  <2>1. TablesBelow(d, n + 1) /\ TablesApart(d)
    BY <1>8, <1>9, Zenon DEF TablesBelow, TablesApart
  <2>2. ViewsBelow(d, m2, n + 1) /\ ViewsApart(d, m2)
    BY <1>10, <1>11, Zenon DEF ViewsBelow, ViewsApart
  <2>3. NoTableViewed(d, m2)
    BY <1>12, Zenon DEF NoTableViewed
  <2>5. AllUsed(d, m2, n + 1)
    BY <1>13, Zenon DEF AllUsed
  <2>4. RestClean(m2, n + 1)
    BY <1>14, Zenon DEF RestClean
  <2> QED BY <2>1, <2>2, <2>3, <2>4, <2>5, Zenon DEF Paged
<1> QED BY <1>4, <1>15
-----------------------------------------------------------------------------
(* The invariant: the tables, what boot has done, and the pending faults.  *)
Fault == [page : Page, source : Words]

BootMap ==
  /\ faults = <<>>
  /\ \A v \in Page : Map(v).low = "present" => v = KERNEL
  /\ \A v \in Page : IF GAMEDISK <= v /\ v - GAMEDISK < mapped
                     THEN Map(v) = OnDisk(v - GAMEDISK) ELSE Map(v).low # "disk"
  /\ Map(KERNEL) = Present(KERNEL) /\ phys[KERNEL] = ZeroPage

(* All faults are at one page.  The first finds a page table for it, or    *)
(* makes one and leaves the page for the second to map; both then clear    *)
(* it.  Only a fault that found a page table may read the disk.            *)
Pending(d, m, s) ==
  /\ Len(s) <= 2
  /\ Len(s) > 0 =>
       /\ s[1].page > 0
       /\ s[1].source = Zero \/ s[1].source.low = "disk"
       /\ Mapping(d, m, s[1].page).low # "present" =>
            /\ d[DirOf(s[1].page)].low = "present"
            /\ Mapping(d, m, s[1].page).low = "none"
            /\ s[1].source = Zero /\ Len(s) = 1
  /\ Len(s) > 1 => s[2].page = s[1].page /\ s[1].source = Zero /\ s[2].source = Zero

IInv ==
  /\ TypeOK
  /\ Paged(page_dir, phys, nextpage)
  /\ mode = "boot" => BootMap
  /\ mode = "run" => mapped = npages
  /\ Pending(page_dir, phys, faults)
-----------------------------------------------------------------------------
(* Sequences of faults.                                                    *)
LEMMA FaultSeqs ==
  ASSUME NEW s \in Seq(Fault), NEW f \in Fault
  PROVE  /\ Len(s) \in Nat /\ (s = <<>> <=> Len(s) = 0)
         /\ \A k \in 1..Len(s) : s[k] \in Fault
         /\ Append(s, f) \in Seq(Fault) /\ Len(Append(s, f)) = Len(s) + 1
         /\ Append(s, f)[Len(s) + 1] = f
         /\ \A k \in 1..Len(s) : Append(s, f)[k] = s[k]
<1>1. Len(s) \in Nat /\ \A k \in 1..Len(s) : s[k] \in Fault
  BY LenProperties
<1>2. s = <<>> <=> Len(s) = 0
  BY EmptySeq
<1> QED BY <1>1, <1>2, AppendProperties

LEMMA FaultFront ==
  ASSUME NEW s \in Seq(Fault), s # <<>>
  PROVE  /\ SubSeq(s, 1, Len(s) - 1) \in Seq(Fault)
         /\ Len(SubSeq(s, 1, Len(s) - 1)) = Len(s) - 1
         /\ \A k \in 1..(Len(s) - 1) : SubSeq(s, 1, Len(s) - 1)[k] = s[k]
         /\ s[Len(s)] \in Fault /\ Len(s) \in Nat \ {0}
<1>1. PICK n \in Nat : n = Len(s)
  BY LenProperties, Zenon
<1>2. n # 0
  BY <1>1, EmptySeq
<1>3. \A i \in 1..n : s[i] \in Fault
  BY <1>1, LenProperties
<1>4. \A i \in 1..(n - 1) : s[i] \in Fault
  BY <1>3
<1>5. /\ SubSeq(s, 1, n - 1) \in Seq(Fault)
      /\ Len(SubSeq(s, 1, n - 1)) = IF 1 <= n - 1 THEN (n - 1) - 1 + 1 ELSE 0
      /\ \A i \in 1..((n - 1) - 1 + 1) : SubSeq(s, 1, n - 1)[i] = s[1 + i - 1]
  BY <1>1, <1>2, <1>4, SubSeqProperties
<1>6. n \in 1..n
  BY <1>2
<1> QED BY <1>1, <1>2, <1>3, <1>5, <1>6

LEMMA NPages == npages \in Nat
<1>1. PICK k \in Int : k = max_lba * SECTOR_SIZE
  BY VirtMemAssumption DEF VirtMemAssumption, max_lba
<1>2. PICK w \in Nat \ {0} : w = MODULUS
  BY VirtMemAssumption DEF VirtMemAssumption
<1>3. PICK x \in Nat : x = k % w
  OBVIOUS
<1>4. PICK p \in Nat \ {0} : p = PAGE_SIZE
  BY VirtMemAssumption DEF VirtMemAssumption
<1>5. x \div p \in Nat
  BY Division
<1> QED BY <1>1, <1>2, <1>3, <1>4, <1>5, Zenon DEF npages

(* What the invariant says of the page that is touched.                    *)
LEMMA TouchedFacts ==
  ASSUME IInv, Touching
  PROVE  /\ Touched \in Page
         /\ Map(Touched) = IF HasTable(Touched) THEN Entry(Touched) ELSE Zero
         /\ IsPresent(Touched) <=> Map(Touched).low = "present"
         /\ faults # <<>> => Touched = faults[1].page
<1>1. faults \in Seq(Fault) /\ access \in Instruction
  BY Zenon DEF IInv, TypeOK, Touching, Fault
<1>2. faults # <<>> => Touched = faults[1].page /\ faults[1] \in Fault
  <2> SUFFICES ASSUME faults # <<>> PROVE Touched = faults[1].page /\ faults[1] \in Fault
    OBVIOUS
  <2>1. Touched = faults[Len(faults)].page
    BY DEF Touched
  <2>2. PICK n \in Nat \ {0} : n = Len(faults) /\ \A k \in 1..n : faults[k] \in Fault
    BY <1>1, FaultFront, LenProperties
  <2>3. n <= 2 /\ (n > 1 => faults[2].page = faults[1].page)
    BY <2>2, Zenon DEF IInv, Pending
  <2>4. n = 1 \/ n = 2
    BY <2>3
  <2> QED BY <2>1, <2>2, <2>3, <2>4
<1>3. Touched \in Page
  <2>1. CASE faults # <<>>
    BY <2>1, <1>2 DEF Fault
  <2>2. CASE faults = <<>>
    <3>1. access \in [page : Page, offset : Offset, store : BOOLEAN, value : Value]
      BY <1>1, VirtMemAssumption DEF VirtMemAssumption
    <3> QED BY <3>1, <2>2 DEF Touched
  <2> QED BY <2>1, <2>2
<1>4. Map(Touched) = IF HasTable(Touched) THEN Entry(Touched) ELSE Zero
  BY Zenon DEF Map, Mapping, HasTable, Entry, TableOf
<1>5. IsPresent(Touched) <=> Map(Touched).low = "present"
  BY <1>4, WordFacts, Zenon DEF IsPresent
<1> QED BY <1>2, <1>3, <1>4, <1>5
-----------------------------------------------------------------------------
(* The type invariant, with the tables apart.                              *)
Rest ==
  /\ mapped \in 0..npages
  /\ access \in Instruction \cup {NoAccess}
  /\ register \in Words
  /\ faults \in Seq(Fault)
  /\ mode \in {"boot", "run", "halted", "exhausted"}

LEMMA Parts == TypeOK <=> Typed(page_dir, phys, nextpage) /\ Rest
BY Zenon DEF TypeOK, Typed, Rest, Fault, Ram

(* What boot starts with.                                                  *)
LEMMA BootTables ==
  ASSUME NEW d, d = [i \in Dir |-> IF i = 0 THEN Present(PT0) ELSE Zero],
         NEW m, NEW free \in [FIRST_PHYS_PAGE..(RAM - 1) -> [Offset -> Junk]],
         m = [p \in Ram |-> IF p = PT0 THEN BootTable ELSE IF p = KERNEL THEN ZeroPage ELSE free[p]],
         CleanMemory
  PROVE  /\ Typed(d, m, FIRST_PHYS_PAGE) /\ Paged(d, m, FIRST_PHYS_PAGE)
         /\ \A v \in Page : Mapping(d, m, v) = IF v = KERNEL THEN Present(KERNEL) ELSE Zero
         /\ m[KERNEL] = ZeroPage
<1>1. /\ 0 \in Dir /\ 0 \in Ram /\ 1 \in Ram /\ KERNEL = 1 /\ PT0 = 0 /\ FIRST_PHYS_PAGE = 2
      /\ \A p \in Ram : p # 0 /\ p # 1 => p \in 2..(RAM - 1)
      /\ 2 \in FIRST_PHYS_PAGE..RAM
  BY Assumed DEF Dir, Ram, KERNEL, PT0, FIRST_PHYS_PAGE
<1>2. Junk \subseteq Words /\ \A w \in Junk : w.low = "none"
  BY VirtMemAssumption DEF VirtMemAssumption, CleanMemory
<1>3. /\ Present(0) \in Words /\ Present(1) \in Words
      /\ Present(0).low = "present" /\ Present(0).number = 0
      /\ Present(1).low = "present" /\ Present(1).number = 1
      /\ Zero \in Words /\ Zero.low = "none"
  BY <1>1, WordFacts, Zenon
<1>4. d[0] = Present(0) /\ \A i \in Dir : i # 0 => d[i] = Zero
  BY <1>1
<1>5. BootTable \in [Offset -> Words] /\ \A i \in Offset : BootTable[i] = IF i = 1 THEN Present(1) ELSE Zero
  BY <1>1, <1>3 DEF BootTable
<1>6. /\ m[0] = BootTable /\ m[1] = ZeroPage
      /\ \A p \in 2..(RAM - 1) : m[p] = free[p]
  <2>1. \A p \in 2..(RAM - 1) : p \in Ram /\ p # 0 /\ p # 1
    BY DEF Ram
  <2> QED BY <2>1, <1>1
<1>7. Typed(d, m, FIRST_PHYS_PAGE)
  <2>1. d \in [Dir -> Words]
    BY <1>3, <1>1
  <2>2. \A p \in 2..(RAM - 1) : free[p] \in [Offset -> Words]
    BY <1>1, <1>2
  <2>3. \A p \in Ram : m[p] \in [Offset -> Words]
    BY <2>2, <1>1, <1>5, <1>6, BlankPages, Zenon
  <2>4. m \in [Ram -> [Offset -> Words]]
    BY <2>3
  <2> QED BY <2>1, <2>4, <1>1, Zenon DEF Typed
<1>8. ASSUME NEW v \in Page
      PROVE  Mapping(d, m, v) = IF v = KERNEL THEN Present(KERNEL) ELSE Zero
  <2>1. DirOf(v) \in Dir /\ v % WORDS \in Offset
    BY PageParts
  <2>2. CASE DirOf(v) # 0
    <3>1. Mapping(d, m, v) = Zero
      BY <2>1, <2>2, <1>3, <1>4, Zenon DEF Mapping
    <3>2. v # KERNEL
      BY <2>2, KernelPlace, Zenon
    <3> QED BY <3>1, <3>2, Zenon
  <2>3. CASE DirOf(v) = 0
    <3>1. Mapping(d, m, v) = BootTable[v % WORDS]
      BY <2>1, <2>3, <1>3, <1>4, <1>6, Zenon DEF Mapping
    <3>2. v = KERNEL <=> v % WORDS = 1
      BY <2>3, KernelPlace, SamePlace, Zenon
    <3> QED BY <3>1, <3>2, <2>1, <1>1, <1>5, Zenon
  <2> QED BY <2>2, <2>3
<1>9. \A v \in Page : Mapping(d, m, v).low = "present" => v = KERNEL /\ Mapping(d, m, v) = Present(1)
  BY <1>8, <1>3, <1>1, Zenon
<1>10. TablesBelow(d, 2) /\ TablesApart(d)
  <2>1. 0 < 2
    OBVIOUS
  <2>2. TablesBelow(d, 2)
    BY <2>1, <1>3, <1>4, Zenon DEF TablesBelow
  <2>3. TablesApart(d)
    BY <1>3, <1>4, Zenon DEF TablesApart
  <2> QED BY <2>2, <2>3
<1>11. ViewsBelow(d, m, 2) /\ ViewsApart(d, m)
  <2>1. 1 < 2
    OBVIOUS
  <2>2. ViewsBelow(d, m, 2)
    BY <2>1, <1>3, <1>9, Zenon DEF ViewsBelow
  <2>3. ViewsApart(d, m)
    BY <1>9, Zenon DEF ViewsApart
  <2> QED BY <2>2, <2>3
<1>12. NoTableViewed(d, m)
  <2>1. Present(1) # Present(0) /\ Present(1) # Zero
    BY <1>3
  <2> QED BY <2>1, <1>4, <1>9, Zenon DEF NoTableViewed
<1>13. AllUsed(d, m, 2)
  <2>1. \A p \in 0..(2 - 1) : p = 0 \/ p = 1
    OBVIOUS
  <2>2. Mapping(d, m, KERNEL) = Present(1)
    BY <1>1, <1>8, KernelPlace, Zenon
  <2> QED BY <2>1, <2>2, <1>1, <1>4, KernelPlace, Zenon DEF AllUsed
<1>14. RestClean(m, 2)
  <2>1. \A p \in 2..(RAM - 1) : free[p] \in [Offset -> Junk]
    BY <1>1
  <2>2. \A p \in 2..(RAM - 1), i \in Offset : m[p][i] \in Junk
    BY <2>1, <1>6
  <2> QED BY <2>2, <1>2, Zenon DEF RestClean
<1>15. Paged(d, m, FIRST_PHYS_PAGE)
  BY <1>1, <1>10, <1>11, <1>12, <1>13, <1>14, Zenon DEF Paged
<1> QED BY <1>1, <1>6, <1>7, <1>8, <1>15, Zenon

LEMMA NoFault ==
  /\ <<>> \in Seq(Fault)
  /\ \A d, m, s : s = <<>> => Pending(d, m, s)
BY EmptySeq DEF Pending

LEMMA InitInv == CleanMemory /\ Init => IInv
<1> SUFFICES ASSUME CleanMemory, Init PROVE IInv
  OBVIOUS
<1>1. PICK free \in [FIRST_PHYS_PAGE..(RAM - 1) -> [Offset -> Junk]] :
        phys = [p \in Ram |-> IF p = PT0 THEN BootTable ELSE IF p = KERNEL THEN ZeroPage ELSE free[p]]
  BY Zenon DEF Init, Ram
<1>2. page_dir = [i \in Dir |-> IF i = 0 THEN Present(PT0) ELSE Zero]
  BY Zenon DEF Init
<1>3. /\ Typed(page_dir, phys, FIRST_PHYS_PAGE) /\ Paged(page_dir, phys, FIRST_PHYS_PAGE)
      /\ \A v \in Page : Map(v) = IF v = KERNEL THEN Present(KERNEL) ELSE Zero
      /\ phys[KERNEL] = ZeroPage
  BY <1>1, <1>2, BootTables DEF Map
<1>4. /\ nextpage = FIRST_PHYS_PAGE /\ mapped = 0 /\ access = NoAccess /\ register = Zero
      /\ faults = <<>> /\ mode = "boot"
  BY Zenon DEF Init
<1>5. 0 \in 0..npages
  BY NPages
<1>6. TypeOK
  BY <1>3, <1>4, <1>5, Parts, NoFault, WordFacts, Zenon DEF Rest
<1>7. \A v \in Page : Map(v).low # "disk"
  BY <1>3, WordFacts, Zenon
<1>8. \A v \in Page : Map(v).low = "present" => v = KERNEL
  BY <1>3, WordFacts, Zenon
<1>9. \A v \in Page : ~(GAMEDISK <= v /\ v - GAMEDISK < mapped)
  BY <1>4, Assumed DEF Page
<1>10. Map(KERNEL) = Present(KERNEL)
  BY <1>3, KernelPlace, Zenon
<1>11. BootMap
  BY <1>3, <1>4, <1>7, <1>8, <1>9, <1>10, Zenon DEF BootMap
<1> QED BY <1>3, <1>4, <1>6, <1>11, NoFault, Zenon DEF IInv
-----------------------------------------------------------------------------
(* map_disk: an entry that maps nothing is written, in a new page table if *)
(* there is none.                                                          *)
LEMMA DiskEntry ==
  ASSUME NEW d, NEW m, NEW n, Typed(d, m, n), Paged(d, m, n),
         NEW v \in Page, Mapping(d, m, v).low # "present",
         NEW e \in Words, e.low # "present",
         NEW d2, NEW m2, NEW n2,
         \/ /\ d[DirOf(v)] = Zero /\ n < RAM /\ n2 = n + 1
            /\ d2 = [d EXCEPT ![DirOf(v)] = Present(n)]
            /\ m2 = [m EXCEPT ![n][v % WORDS] = e]
         \/ /\ d[DirOf(v)] # Zero /\ d2 = d /\ n2 = n
            /\ m2 = [m EXCEPT ![d[DirOf(v)].number][v % WORDS] = e]
  PROVE  /\ Typed(d2, m2, n2) /\ Paged(d2, m2, n2)
         /\ Mapping(d2, m2, v) = e
         /\ \A u \in Page : u # v =>
              \/ Mapping(d2, m2, u) = Mapping(d, m, u)
              \/ Mapping(d, m, u) = Zero /\ Mapping(d2, m2, u).low = "none"
         /\ \A u \in Page : Mapping(d, m, u).low = "present" =>
              m2[Mapping(d, m, u).number] = m[Mapping(d, m, u).number]
<1>1. DirOf(v) \in Dir
  BY PageParts
<1>2. CASE /\ d[DirOf(v)] = Zero /\ n < RAM /\ n2 = n + 1
           /\ d2 = [d EXCEPT ![DirOf(v)] = Present(n)]
           /\ m2 = [m EXCEPT ![n][v % WORDS] = e]
  <2>1. d[DirOf(v)].low # "present"
    BY <1>2, WordFacts, Zenon
  <2>2. /\ Typed(d2, m, n + 1) /\ Paged(d2, m, n + 1) /\ d2[DirOf(v)] = Present(n)
        /\ \A u \in Page : IF DirOf(u) = DirOf(v)
                           THEN Mapping(d, m, u) = Zero /\ Mapping(d2, m, u).low = "none"
                           ELSE Mapping(d2, m, u) = Mapping(d, m, u)
    <3>1. PICK i \in Dir : i = DirOf(v)
      BY <1>1
    <3>2. d[i].low # "present" /\ n < RAM /\ d2 = WithTable(d, i, n)
      BY <1>2, <2>1, <3>1, Zenon DEF WithTable
    <3>3. /\ Typed(d2, m, n + 1) /\ Paged(d2, m, n + 1) /\ d2[i] = Present(n)
          /\ \A u \in Page : IF DirOf(u) = i
                             THEN Mapping(d, m, u) = Zero /\ Mapping(d2, m, u).low = "none"
                             ELSE Mapping(d2, m, u) = Mapping(d, m, u)
      BY <3>2, NewTable
    <3> QED BY <3>1, <3>3, Zenon
  <2>3. d2[DirOf(v)].low = "present" /\ d2[DirOf(v)].number = n
    BY <2>2, WordFacts, Zenon
  <2>4. m2 = Written(d2, m, v, e)
    BY <1>2, <2>3, Zenon DEF Written
  <2>5. Mapping(d2, m, v).low # "present"
    BY <2>2, Zenon
  <2>6. /\ Typed(d2, m2, n + 1)
        /\ Mapping(d2, m2, v) = e
        /\ \A u \in Page : u # v => Mapping(d2, m2, u) = Mapping(d2, m, u)
        /\ \A u \in Page : Mapping(d2, m, u).low = "present" =>
             m2[Mapping(d2, m, u).number] = m[Mapping(d2, m, u).number]
    BY <2>2, <2>3, <2>4, WriteEntry
  <2>7. Paged(d2, m2, n + 1)
    BY <2>2, <2>3, <2>4, <2>5, OldEntry
  <2>8. \A u \in Page : Mapping(d, m, u).low = "present" => Mapping(d2, m, u) = Mapping(d, m, u)
    BY <2>2, WordFacts, Zenon
  <2> QED BY <1>2, <2>2, <2>6, <2>7, <2>8, Zenon
<1>3. CASE /\ d[DirOf(v)] # Zero /\ d2 = d /\ n2 = n
           /\ m2 = [m EXCEPT ![d[DirOf(v)].number][v % WORDS] = e]
  <2>1. d[DirOf(v)].low = "present"
    <3>1. \A i \in Dir : d[i] = Zero \/ d[i] = Present(d[i].number)
      BY Zenon DEF Paged, TablesBelow
    <3>2. d[DirOf(v)] = Present(d[DirOf(v)].number)
      BY <1>1, <1>3, <3>1, Zenon
    <3>3. Present(d[DirOf(v)].number).low = "present"
      BY WordFacts, Zenon
    <3> QED BY <3>2, <3>3, Zenon
  <2>2. m2 = Written(d, m, v, e)
    BY <1>3, Zenon DEF Written
  <2>3. /\ Typed(d, m2, n)
        /\ Mapping(d, m2, v) = e
        /\ \A u \in Page : u # v => Mapping(d, m2, u) = Mapping(d, m, u)
        /\ \A u \in Page : Mapping(d, m, u).low = "present" =>
             m2[Mapping(d, m, u).number] = m[Mapping(d, m, u).number]
    BY <2>1, <2>2, WriteEntry
  <2>4. Paged(d, m2, n)
    BY <2>1, <2>2, OldEntry
  <2> QED BY <1>3, <2>3, <2>4, Zenon
<1> QED BY <1>2, <1>3, Zenon

LEMMA MapNextInv ==
  ASSUME DiskFits, IInv, MapNext
  PROVE  IInv'
<1>1. /\ mode = "boot" /\ mapped < npages /\ mapped' = mapped + 1
      /\ SetEntry(GAMEDISK + mapped, OnDisk(mapped))
      /\ UNCHANGED <<access, register, faults, mode>>
  BY Zenon DEF MapNext
<1>2. /\ Typed(page_dir, phys, nextpage) /\ Paged(page_dir, phys, nextpage) /\ Rest /\ BootMap
  BY <1>1, Parts, Zenon DEF IInv
<1>3. mapped \in Nat /\ npages \in Nat /\ mapped' \in 0..npages
  BY <1>1, <1>2, NPages DEF Rest
<1>4. PICK v : v = GAMEDISK + mapped
  OBVIOUS
<1>5. v \in Page /\ v # KERNEL /\ v - GAMEDISK = mapped /\ GAMEDISK <= v
  <2>1. PICK w : w = DIRS * WORDS
    OBVIOUS
  <2>2. w \in Nat
    BY <2>1, Assumed
  <2>3. GAMEDISK + npages <= w
    BY <2>1, Zenon DEF DiskFits
  <2>4. v \in 0..(w - 1) /\ v # 1 /\ v - GAMEDISK = mapped /\ GAMEDISK <= v
    BY <1>1, <1>3, <1>4, <2>2, <2>3, Assumed
  <2> QED BY <2>1, <2>4, Zenon DEF Page, KERNEL
<1>6. PICK e : e = OnDisk(mapped)
  OBVIOUS
<1>7. e \in Words /\ e.low = "disk" /\ e = OnDisk(v - GAMEDISK)
  BY <1>3, <1>5, <1>6, WordFacts, Zenon
<1>8. /\ \A u \in Page : Map(u).low = "present" => u = KERNEL
      /\ \A u \in Page : IF GAMEDISK <= u /\ u - GAMEDISK < mapped
                         THEN Map(u) = OnDisk(u - GAMEDISK) ELSE Map(u).low # "disk"
      /\ Map(KERNEL) = Present(KERNEL) /\ phys[KERNEL] = ZeroPage /\ faults = <<>>
  BY <1>2, Zenon DEF BootMap
<1>9. /\ Typed(page_dir', phys', nextpage') /\ Paged(page_dir', phys', nextpage')
      /\ Map(v)' = e
      /\ \A u \in Page : u # v => Map(u)' = Map(u) \/ (Map(u) = Zero /\ Map(u)'.low = "none")
      /\ \A u \in Page : Map(u).low = "present" => phys'[Map(u).number] = phys[Map(u).number]
  <2>1. \/ /\ page_dir[DirOf(v)] = Zero /\ nextpage < RAM /\ nextpage' = nextpage + 1
           /\ page_dir' = [page_dir EXCEPT ![DirOf(v)] = Present(nextpage)]
           /\ phys' = [phys EXCEPT ![nextpage][v % WORDS] = e]
        \/ /\ page_dir[DirOf(v)] # Zero /\ page_dir' = page_dir /\ nextpage' = nextpage
           /\ phys' = [phys EXCEPT ![page_dir[DirOf(v)].number][v % WORDS] = e]
    BY <1>1, <1>4, <1>6, Zenon DEF SetEntry, Take, PageAfter
  <2>2. Mapping(page_dir, phys, v).low # "present"
    BY <1>5, <1>8, Zenon DEF Map
  <2>3. PICK d2, m2, n2 : d2 = page_dir' /\ m2 = phys' /\ n2 = nextpage'
    OBVIOUS
  <2>4. /\ Typed(d2, m2, n2) /\ Paged(d2, m2, n2)
        /\ Mapping(d2, m2, v) = e
        /\ \A u \in Page : u # v =>
             \/ Mapping(d2, m2, u) = Mapping(page_dir, phys, u)
             \/ Mapping(page_dir, phys, u) = Zero /\ Mapping(d2, m2, u).low = "none"
        /\ \A u \in Page : Mapping(page_dir, phys, u).low = "present" =>
             m2[Mapping(page_dir, phys, u).number] = phys[Mapping(page_dir, phys, u).number]
    BY <1>2, <1>5, <1>7, <2>1, <2>2, <2>3, DiskEntry
  <2> QED BY <2>3, <2>4 DEF Map
<1>10. ASSUME NEW u \in Page, u # v
       PROVE  /\ Map(u)'.low = "present" => u = KERNEL
              /\ IF GAMEDISK <= u /\ u - GAMEDISK < mapped'
                 THEN Map(u)' = OnDisk(u - GAMEDISK) ELSE Map(u)'.low # "disk"
  <2>1. GAMEDISK <= u /\ u - GAMEDISK < mapped' <=> GAMEDISK <= u /\ u - GAMEDISK < mapped
    BY <1>1, <1>3, <1>4, <1>10, PageParts, Assumed
  <2>2. Map(u)' = Map(u) \/ (Map(u) = Zero /\ Map(u)'.low = "none")
    BY <1>9, <1>10, Zenon
  <2>3. OnDisk(u - GAMEDISK).low # Zero.low
    BY DEF OnDisk, Zero
  <2> QED BY <1>8, <2>1, <2>2, <2>3, Zenon
<1>11. GAMEDISK <= v /\ v - GAMEDISK < mapped'
  BY <1>1, <1>3, <1>5
<1>12. Map(KERNEL)' = Present(KERNEL) /\ phys'[KERNEL] = ZeroPage
  <2>1. Map(KERNEL).low = "present" /\ Map(KERNEL).number = KERNEL
    BY <1>8, WordFacts, Zenon
  <2>2. Map(KERNEL)' = Map(KERNEL)
    BY <2>1, <1>5, <1>9, KernelPlace, WordFacts, Zenon
  <2> QED BY <2>1, <2>2, <1>8, <1>9, KernelPlace, Zenon
<1>13. \A u \in Page : Map(u)'.low = "present" => u = KERNEL
  BY <1>7, <1>9, <1>10, Zenon
<1>14. \A u \in Page : IF GAMEDISK <= u /\ u - GAMEDISK < mapped'
                       THEN Map(u)' = OnDisk(u - GAMEDISK) ELSE Map(u)'.low # "disk"
  BY <1>7, <1>9, <1>10, <1>11, Zenon
<1>15. BootMap'
  BY <1>1, <1>8, <1>12, <1>13, <1>14, Zenon DEF BootMap
<1>16. TypeOK'
  <2>1. Rest'
    BY <1>1, <1>2, <1>3, Zenon DEF Rest
  <2>2. (TypeOK <=> Typed(page_dir, phys, nextpage) /\ Rest)'
    BY Parts, PTL
  <2> QED BY <1>9, <2>1, <2>2, Zenon
<1>17. Pending(page_dir', phys', faults')
  BY <1>1, <1>8, NoFault, Zenon
<1> QED BY <1>1, <1>9, <1>15, <1>16, <1>17, Zenon DEF IInv

(* Nothing the tables depend on changes.                                   *)
LEMMA SameTables ==
  ASSUME IInv, UNCHANGED <<tables, mapped, register, faults>>,
         access' \in Instruction \cup {NoAccess},
         mode' \in {"run", "halted", "exhausted"}, mode' = "run" => mapped = npages
  PROVE  IInv'
<1>1. /\ page_dir' = page_dir /\ phys' = phys /\ nextpage' = nextpage
      /\ mapped' = mapped /\ register' = register /\ faults' = faults
  BY Zenon DEF tables
<1>2. TypeOK /\ Paged(page_dir, phys, nextpage) /\ Pending(page_dir, phys, faults)
  BY Zenon DEF IInv
<1>3. TypeOK'
  BY <1>1, <1>2, Zenon DEF TypeOK
<1>4. mode' # "boot"
  OBVIOUS
<1> QED BY <1>1, <1>2, <1>3, <1>4, Zenon DEF IInv
-----------------------------------------------------------------------------
(* What the program finds at the page v, pending faults taken into account *)
(* and the disk mapped: the actions of the run are about it, too.          *)
View(d, m, s, v) ==
  IF s # <<>> /\ s[1].page = v THEN Source(s[1].source)
  ELSE IF Mapping(d, m, v).low = "present" THEN m[Mapping(d, m, v).number]
  ELSE Source(Mapping(d, m, v))

LEMMA SourceNone == \A w : w.low = "none" => Source(w) = ZeroPage
BY Zenon DEF Source

(* What is seen elsewhere is told by the mapping.                          *)
Elsewhere(s, u) == ~(s # <<>> /\ s[1].page = u)
SameMap(d, m, d2, m2, u) ==
  /\ \/ Mapping(d2, m2, u) = Mapping(d, m, u)
     \/ Mapping(d, m, u) = Zero /\ Mapping(d2, m2, u).low = "none"
  /\ Mapping(d, m, u).low = "present" =>
       m2[Mapping(d, m, u).number] = m[Mapping(d, m, u).number]

LEMMA SameView ==
  ASSUME NEW d, NEW m, NEW s, NEW d2, NEW m2, NEW s2, NEW u,
         Elsewhere(s, u), Elsewhere(s2, u), SameMap(d, m, d2, m2, u)
  PROVE  View(d2, m2, s2, u) = View(d, m, s, u)
<1>1. /\ View(d, m, s, u) = IF Mapping(d, m, u).low = "present" THEN m[Mapping(d, m, u).number]
                            ELSE Source(Mapping(d, m, u))
      /\ View(d2, m2, s2, u) = IF Mapping(d2, m2, u).low = "present"
                               THEN m2[Mapping(d2, m2, u).number]
                               ELSE Source(Mapping(d2, m2, u))
  BY Zenon DEF View, Elsewhere
<1>2. CASE Mapping(d2, m2, u) = Mapping(d, m, u)
  <2>1. Mapping(d, m, u).low = "present" =>
          m2[Mapping(d, m, u).number] = m[Mapping(d, m, u).number]
    BY Zenon DEF SameMap
  <2> QED BY <1>1, <1>2, <2>1
<1>3. CASE Mapping(d, m, u) = Zero /\ Mapping(d2, m2, u).low = "none"
  <2>1. Mapping(d, m, u).low = "none"
    BY <1>3, WordFacts, Zenon
  <2>2. "none" # "present"
    OBVIOUS
  <2>3. View(d, m, s, u) = ZeroPage
    BY <1>1, <2>1, <2>2, SourceNone, Zenon
  <2>4. View(d2, m2, s2, u) = ZeroPage
    BY <1>1, <1>3, <2>2, SourceNone, Zenon
  <2> QED BY <2>3, <2>4
<1> QED BY <1>2, <1>3, Zenon DEF SameMap

LEMMA FaultFields ==
  ASSUME NEW v \in Page, NEW w \in Words
  PROVE  \E f \in Fault : f = [page |-> v, source |-> w] /\ f.page = v /\ f.source = w
<1>1. PICK f : f = [page |-> v, source |-> w]
  OBVIOUS
<1>2. f \in Fault /\ f.page = v /\ f.source = w
  BY <1>1 DEF Fault
<1> QED BY <1>1, <1>2

(* One fault: the sequence of them.                                        *)
LEMMA OneFault ==
  ASSUME NEW s \in Seq(Fault), s = <<>>, NEW f \in Fault, NEW s2, s2 = Append(s, f)
  PROVE  s2 \in Seq(Fault) /\ Len(s2) = 1 /\ s2[1] = f /\ s2 # <<>>
<1>1. Len(s) = 0 /\ s2 \in Seq(Fault) /\ Len(s2) = Len(s) + 1 /\ s2[Len(s) + 1] = f
  BY FaultSeqs
<1>2. s2 # <<>>
  BY <1>1, EmptySeq
<1> QED BY <1>1, <1>2

LEMMA TwoFaults ==
  ASSUME NEW s \in Seq(Fault), Len(s) = 1, NEW f \in Fault, NEW s2, s2 = Append(s, f)
  PROVE  s2 \in Seq(Fault) /\ Len(s2) = 2 /\ s2[1] = s[1] /\ s2[2] = f /\ s2 # <<>>
<1>1. /\ s2 \in Seq(Fault) /\ Len(s2) = Len(s) + 1 /\ s2[Len(s) + 1] = f
      /\ \A k \in 1..Len(s) : s2[k] = s[k]
  BY FaultSeqs
<1>2. s2 # <<>>
  BY <1>1, EmptySeq
<1> QED BY <1>1, <1>2

(* Entering page_fault, and returning from it.                             *)
At(s, v) == s # <<>> => v = s[1].page
Entered(s, v, w) == Append(s, [page |-> v, source |-> w])
Returned(s) == SubSeq(s, 1, Len(s) - 1)
SourceOf(e) == IF e.low = "disk" THEN e ELSE Zero
Filling(w) == IF w = Zero THEN ZeroPage ELSE DiskPage(w.number)

(* A page table is missing.                                                *)
LEMMA TableFaultStep ==
  ASSUME NEW d, NEW m, NEW n, Typed(d, m, n), Paged(d, m, n), n < RAM,
         NEW s \in Seq(Fault), Pending(d, m, s),
         NEW v \in Page, v > 0, At(s, v),
         d[DirOf(v)].low # "present",
         NEW d2, d2 = WithTable(d, DirOf(v), n),
         NEW s2, s2 = Entered(s, v, Zero)
  PROVE  /\ Typed(d2, m, n + 1) /\ Paged(d2, m, n + 1)
         /\ s2 \in Seq(Fault) /\ Pending(d2, m, s2)
         /\ \A u \in Page : View(d2, m, s2, u) = View(d, m, s, u)
<1>1. PICK i \in Dir : i = DirOf(v)
  BY PageParts
<1>2. /\ Typed(d2, m, n + 1) /\ Paged(d2, m, n + 1) /\ d2[i] = Present(n)
      /\ \A u \in Page : IF DirOf(u) = i
                         THEN Mapping(d, m, u) = Zero /\ Mapping(d2, m, u).low = "none"
                         ELSE Mapping(d2, m, u) = Mapping(d, m, u)
  <2>1. d[i].low # "present" /\ d2 = WithTable(d, i, n)
    BY <1>1, Zenon
  <2> QED BY <2>1, NewTable
<1>3. Mapping(d, m, v) = Zero /\ Mapping(d2, m, v).low = "none" /\ d2[DirOf(v)].low = "present"
  BY <1>1, <1>2, WordFacts, Zenon
<1>4. s = <<>>
  <2> SUFFICES ASSUME s # <<>> PROVE FALSE
    OBVIOUS
  <2>1. Len(s) > 0
    BY FaultFront
  <2>2. s[1].page = v
    BY Zenon DEF At
  <2>3. Mapping(d, m, v).low # "present"
    BY <1>3, WordFacts, Zenon
  <2>4. d[DirOf(v)].low = "present"
    BY <2>1, <2>2, <2>3, Zenon DEF Pending
  <2> QED BY <2>4, Zenon
<1>5. PICK f \in Fault : f = [page |-> v, source |-> Zero] /\ f.page = v /\ f.source = Zero
  <2>1. Zero \in Words
    BY WordFacts
  <2> QED BY <2>1, FaultFields
<1>6. s2 \in Seq(Fault) /\ Len(s2) = 1 /\ s2[1] = f /\ s2 # <<>>
  <2>1. s2 = Append(s, f)
    BY <1>5, Zenon DEF Entered
  <2> QED BY <2>1, <1>4, OneFault
<1>7. Pending(d2, m, s2)
  <2>1. Len(s2) <= 2 /\ ~(Len(s2) > 1)
    BY <1>6
  <2> QED BY <2>1, <1>3, <1>5, <1>6, Zenon DEF Pending
<1>8. ASSUME NEW u \in Page PROVE View(d2, m, s2, u) = View(d, m, s, u)
  <2>1. CASE u = v
    <3>1. View(d2, m, s2, u) = Source(Zero)
      BY <2>1, <1>5, <1>6, Zenon DEF View
    <3>2. View(d, m, s, u) = Source(Zero)
      BY <2>1, <1>3, <1>4, WordFacts, Zenon DEF View
    <3> QED BY <3>1, <3>2
  <2>2. CASE u # v
    <3>1. \/ Mapping(d2, m, u) = Mapping(d, m, u)
          \/ Mapping(d, m, u) = Zero /\ Mapping(d2, m, u).low = "none"
      BY <1>2, Zenon
    <3>2. Elsewhere(s, u) /\ Elsewhere(s2, u)
      BY <2>2, <1>4, <1>5, <1>6, Zenon DEF Elsewhere
    <3>3. SameMap(d, m, d2, m, u)
      BY <3>1, Zenon DEF SameMap
    <3> QED BY <3>1, <3>2, <3>3, SameView
  <2> QED BY <2>1, <2>2
<1> QED BY <1>2, <1>6, <1>7, <1>8

(* A page is missing.                                                      *)
LEMMA PageFaultStep ==
  ASSUME NEW d, NEW m, NEW n, Typed(d, m, n), Paged(d, m, n), n < RAM,
         NEW s \in Seq(Fault), Pending(d, m, s),
         NEW v \in Page, v > 0, At(s, v),
         d[DirOf(v)].low = "present", Mapping(d, m, v).low # "present",
         NEW m2, m2 = Written(d, m, v, Present(n)),
         NEW s2, s2 = Entered(s, v, SourceOf(Mapping(d, m, v)))
  PROVE  /\ Typed(d, m2, n + 1) /\ Paged(d, m2, n + 1)
         /\ s2 \in Seq(Fault) /\ Pending(d, m2, s2)
         /\ \A u \in Page : View(d, m2, s2, u) = View(d, m, s, u)
<1>1. n \in Ram
  BY Assumed DEF Typed, FIRST_PHYS_PAGE, Ram
<1>2. Present(n) \in Words /\ Present(n).low = "present" /\ Zero.low = "none" /\ Zero \in Words
  BY <1>1, WordFacts, Zenon
<1>3. Typed(d, m2, n + 1) /\ Paged(d, m2, n + 1)
  BY NewPage
<1>4. /\ Mapping(d, m2, v) = Present(n)
      /\ \A u \in Page : u # v => Mapping(d, m2, u) = Mapping(d, m, u)
      /\ \A u \in Page : Mapping(d, m, u).low = "present" =>
           m2[Mapping(d, m, u).number] = m[Mapping(d, m, u).number]
  BY <1>2, WriteEntry
<1>5. PICK e \in Words : e = Mapping(d, m, v) /\ (e.low = "disk" \/ e.low = "none")
  <2>1. Mapping(d, m, v) \in Words
    BY MappingType
  <2> QED BY <2>1, WordFacts, Zenon
<1>6. PICK w \in Words : w = IF e.low = "disk" THEN e ELSE Zero
  BY <1>2, <1>5, Zenon
<1>7. PICK f \in Fault : f = [page |-> v, source |-> w] /\ f.page = v /\ f.source = w
  BY FaultFields, Zenon
<1>8. s2 = Append(s, f)
  BY <1>5, <1>6, <1>7, Zenon DEF Entered, SourceOf
<1>9. "none" # "disk"
  OBVIOUS
<1>10. Source(w) = Source(e)
  BY <1>2, <1>5, <1>6, <1>9, SourceNone, Zenon
<1>11. s = <<>> \/ (Len(s) = 1 /\ s # <<>> /\ s[1].source = Zero /\ e.low = "none" /\ s[1].page = v)
  <2> SUFFICES ASSUME s # <<>>
               PROVE  Len(s) = 1 /\ s[1].source = Zero /\ e.low = "none" /\ s[1].page = v
    OBVIOUS
  <2>1. Len(s) > 0
    BY FaultFront
  <2>2. v = s[1].page
    BY DEF At
  <2>3. s[1].source = Zero /\ Len(s) = 1 /\ Mapping(d, m, v).low = "none"
    BY <2>1, <2>2, Zenon DEF Pending
  <2> QED BY <2>2, <2>3, <1>5, Zenon
<1>12. CASE s = <<>>
  <2>1. s2 \in Seq(Fault) /\ Len(s2) = 1 /\ s2[1] = f /\ s2 # <<>>
    BY <1>8, <1>12, OneFault
  <2>2. Pending(d, m2, s2)
    <3>1. Len(s2) <= 2 /\ ~(Len(s2) > 1)
      BY <2>1
    <3>2. f.source = Zero \/ f.source.low = "disk"
      BY <1>6, <1>7, Zenon
    <3> QED BY <3>1, <3>2, <2>1, <1>2, <1>4, <1>7, Zenon DEF Pending
  <2>3. View(d, m2, s2, v) = View(d, m, s, v)
    <3>1. View(d, m2, s2, v) = Source(w)
      BY <2>1, <1>7, Zenon DEF View
    <3>2. View(d, m, s, v) = Source(e)
      BY <1>5, <1>12, Zenon DEF View
    <3> QED BY <3>1, <3>2, <1>10, Zenon
  <2>4. ASSUME NEW u \in Page, u # v PROVE View(d, m2, s2, u) = View(d, m, s, u)
    <3>1. Elsewhere(s, u) /\ Elsewhere(s2, u)
      BY <2>1, <2>4, <1>7, <1>12, Zenon DEF Elsewhere
    <3>2. Mapping(d, m2, u) = Mapping(d, m, u)
      BY <2>4, <1>4, Zenon
    <3>3. SameMap(d, m, d, m2, u)
      BY <3>2, <1>4, Zenon DEF SameMap
    <3> QED BY <3>1, <3>2, <3>3, SameView
  <2> QED BY <2>1, <2>2, <2>3, <2>4, <1>3, Zenon
<1>13. CASE Len(s) = 1 /\ s # <<>> /\ s[1].source = Zero /\ e.low = "none" /\ s[1].page = v
  <2>1. s2 \in Seq(Fault) /\ Len(s2) = 2 /\ s2[1] = s[1] /\ s2[2] = f /\ s2 # <<>>
    BY <1>8, <1>13, TwoFaults
  <2>2. Pending(d, m2, s2)
    <3>1. Len(s2) <= 2
      BY <2>1
    <3>2. w = Zero
      BY <1>6, <1>9, <1>13, Zenon
    <3> QED BY <3>1, <3>2, <2>1, <1>2, <1>4, <1>7, <1>13, Zenon DEF Pending
  <2>3. View(d, m2, s2, v) = View(d, m, s, v)
    BY <2>1, <1>13, Zenon DEF View
  <2>4. ASSUME NEW u \in Page, u # v PROVE View(d, m2, s2, u) = View(d, m, s, u)
    <3>1. Elsewhere(s, u) /\ Elsewhere(s2, u)
      BY <2>1, <2>4, <1>13, Zenon DEF Elsewhere
    <3>2. Mapping(d, m2, u) = Mapping(d, m, u)
      BY <2>4, <1>4, Zenon
    <3>3. SameMap(d, m, d, m2, u)
      BY <3>2, <1>4, Zenon DEF SameMap
    <3> QED BY <3>1, <3>2, <3>3, SameView
  <2> QED BY <2>1, <2>2, <2>3, <2>4, <1>3, Zenon
<1> QED BY <1>11, <1>12, <1>13, Zenon

(* A page is filled.  What a pending fault at it would read is what it     *)
(* holds then, or there is another fault pending that clears it again.     *)
LEMMA FillStep ==
  ASSUME NEW d, NEW m, NEW n, Typed(d, m, n), Paged(d, m, n),
         NEW s \in Seq(Fault), Pending(d, m, s), s # <<>>,
         NEW v \in Page, At(s, v), Mapping(d, m, v).low = "present",
         NEW w \in Words, w = s[Len(s)].source, w # Zero => w.number < DISK_PAGES,
         NEW m2, m2 = Replaced(m, Mapping(d, m, v).number, Filling(w)),
         NEW s2, s2 = Returned(s)
  PROVE  /\ Typed(d, m2, n) /\ Paged(d, m2, n)
         /\ s2 \in Seq(Fault) /\ Pending(d, m2, s2)
         /\ \A u \in Page : View(d, m2, s2, u) = View(d, m, s, u)
<1>1. PICK page \in [Offset -> Words] : page = Filling(w)
  <2>1. w.number \in Nat
    BY WordFacts, Zenon
  <2> QED BY <2>1, BlankPages, Zenon DEF Filling
<1> s[1].page = v
  BY DEF At
<1>2. /\ Typed(d, m2, n) /\ Paged(d, m2, n)
      /\ \A u \in Page : Mapping(d, m2, u) = Mapping(d, m, u)
      /\ m2[Mapping(d, m, v).number] = page
      /\ \A u \in Page : Mapping(d, m, u).low = "present" /\ u # v =>
           m2[Mapping(d, m, u).number] = m[Mapping(d, m, u).number]
  <2>1. m2 = Replaced(m, Mapping(d, m, v).number, page)
    BY <1>1, Zenon
  <2> QED BY <2>1, WriteData
<1>3. /\ s2 \in Seq(Fault) /\ Len(s) \in Nat \ {0} /\ Len(s2) = Len(s) - 1
      /\ \A k \in 1..(Len(s) - 1) : s2[k] = s[k]
  BY FaultFront DEF Returned
<1>4. Len(s) <= 2 /\ Len(s) > 0
  <2>1. Len(s) <= 2
    BY Zenon DEF Pending
  <2> QED BY <2>1, <1>3
<1>5. /\ s[1].page > 0
      /\ s[1].source = Zero \/ s[1].source.low = "disk"
      /\ Len(s) > 1 => s[1].source = Zero /\ s[2].source = Zero
  BY <1>4, Zenon DEF Pending
<1>6. ASSUME NEW u \in Page, u # v PROVE View(d, m2, s2, u) = View(d, m, s, u)
  <2>1. s2 # <<>> => s2[1] = s[1]
    <3>1. s2 # <<>> => Len(s2) # 0
      BY <1>3, FaultFront
    <3>2. s2 # <<>> => 1 \in 1..(Len(s) - 1)
      BY <3>1, <1>3
    <3> QED BY <3>2, <1>3
  <2>2. Elsewhere(s, u) /\ Elsewhere(s2, u)
    BY <2>1, <1>6, Zenon DEF Elsewhere
  <2>3. SameMap(d, m, d, m2, u)
    BY <1>2, <1>6, Zenon DEF SameMap
  <2> QED BY <2>2, <2>3, SameView
<1>7. CASE Len(s) = 1
  <2>1. s2 = <<>> /\ Len(s2) = 0
    BY <1>3, <1>7, EmptySeq
  <2>2. Pending(d, m2, s2)
    BY <2>1, NoFault, Zenon
  <2>3. w = s[1].source
    BY <1>7, Zenon
  <2>4. View(d, m2, s2, v) = page
    BY <2>1, <1>2, Zenon DEF View
  <2>5. View(d, m, s, v) = Source(w)
    BY <2>3, Zenon DEF View
  <2>6. w = Zero => Source(w) = ZeroPage
    BY SourceNone, WordFacts, Zenon
  <2>7. w # Zero => Source(w) = DiskPage(w.number)
    <3> SUFFICES ASSUME w # Zero PROVE Source(w) = DiskPage(w.number)
      OBVIOUS
    <3>1. w.low = "disk" /\ w.number < DISK_PAGES
      BY <2>3, <1>5, Zenon
    <3> QED BY <3>1, Zenon DEF Source
  <2>8. View(d, m2, s2, v) = View(d, m, s, v)
    BY <2>4, <2>5, <2>6, <2>7, <1>1, Zenon DEF Filling
  <2> QED BY <2>2, <2>8, <1>2, <1>3, <1>6, Zenon
<1>8. CASE Len(s) = 2
  <2>1. Len(s2) = 1 /\ s2[1] = s[1] /\ s2 # <<>>
    <3>1. Len(s2) = 1 /\ 1 \in 1..(Len(s) - 1)
      BY <1>3, <1>8
    <3> QED BY <3>1, <1>3, EmptySeq
  <2>2. Pending(d, m2, s2)
    <3>1. Len(s2) <= 2 /\ ~(Len(s2) > 1)
      BY <2>1
    <3>2. Mapping(d, m2, s2[1].page).low = "present"
      BY <2>1, <1>2, Zenon
    <3> QED BY <3>1, <3>2, <2>1, <1>5, Zenon DEF Pending
  <2>3. View(d, m2, s2, v) = View(d, m, s, v)
    BY <2>1, Zenon DEF View
  <2> QED BY <2>2, <2>3, <1>2, <1>3, <1>6, Zenon
<1>9. Len(s) = 1 \/ Len(s) = 2
  <2>1. PICK k \in Nat \ {0} : k = Len(s)
    BY <1>3
  <2>2. k <= 2
    BY <2>1, <1>4, Zenon
  <2>3. k = 1 \/ k = 2
    BY <2>2
  <2> QED BY <2>1, <2>3, Zenon
<1> QED BY <1>7, <1>8, <1>9, Zenon

(* A word is stored: it is seen at its page, and nothing else changes.     *)
Stored(m, q, o, x) == [m EXCEPT ![q][o] = x]

LEMMA StoreStep ==
  ASSUME NEW d, NEW m, NEW n, Typed(d, m, n), Paged(d, m, n),
         NEW s, s = <<>>,
         NEW v \in Page, Mapping(d, m, v).low = "present",
         NEW o \in Offset, NEW x \in Words,
         NEW m2, m2 = Stored(m, Mapping(d, m, v).number, o, x)
  PROVE  /\ Typed(d, m2, n) /\ Paged(d, m2, n)
         /\ \A u \in Page : u # v => View(d, m2, s, u) = View(d, m, s, u)
         /\ View(d, m2, s, v) = [View(d, m, s, v) EXCEPT ![o] = x]
<1>1. PICK q : q = Mapping(d, m, v).number
  OBVIOUS
<1>2. q \in Ram
  BY <1>1, MappingType, WordFacts, Zenon
<1>3. PICK page : page = [m[q] EXCEPT ![o] = x]
  OBVIOUS
<1>4. page \in [Offset -> Words] /\ m2 = [m EXCEPT ![q] = page]
  <2>1. m \in [Ram -> [Offset -> Words]]
    BY Zenon DEF Typed
  <2>2. m[q] \in [Offset -> Words]
    BY <2>1, <1>2
  <2>3. page \in [Offset -> Words]
    BY <2>2, <1>3
  <2> QED BY <2>3, <1>1, <1>3 DEF Stored
<1>5. m2 = Replaced(m, Mapping(d, m, v).number, page)
  BY <1>1, <1>4, Zenon DEF Replaced
<1>6. page \in [Offset -> Words]
  BY <1>4
<1>7. /\ Typed(d, m2, n) /\ Paged(d, m2, n)
      /\ \A u \in Page : Mapping(d, m2, u) = Mapping(d, m, u)
      /\ m2[Mapping(d, m, v).number] = page
      /\ \A u \in Page : Mapping(d, m, u).low = "present" /\ u # v =>
           m2[Mapping(d, m, u).number] = m[Mapping(d, m, u).number]
  BY <1>5, <1>6, WriteData
<1>8. ASSUME NEW u \in Page, u # v PROVE View(d, m2, s, u) = View(d, m, s, u)
  <2>1. Elsewhere(s, u)
    BY Zenon DEF Elsewhere
  <2>2. SameMap(d, m, d, m2, u)
    BY <1>7, <1>8, Zenon DEF SameMap
  <2> QED BY <2>1, <2>2, SameView
<1>9. View(d, m2, s, v) = page /\ View(d, m, s, v) = m[q]
  BY <1>1, <1>7, Zenon DEF View
<1> QED BY <1>3, <1>7, <1>8, <1>9, Zenon
-----------------------------------------------------------------------------
(* The steps of the run.                                                   *)
Seen(v) == View(page_dir, phys, faults, v)

LEMMA RunParts ==
  ASSUME IInv, Touching
  PROVE  /\ mode = "run" /\ mapped = npages /\ access \in Instruction
         /\ Typed(page_dir, phys, nextpage) /\ Paged(page_dir, phys, nextpage) /\ Rest
         /\ faults \in Seq(Fault) /\ Pending(page_dir, phys, faults)
         /\ Touched \in Page
BY Parts, TouchedFacts, Zenon DEF IInv, Touching, Rest

LEMMA RunKept ==
  ASSUME IInv, Touching, UNCHANGED <<mapped, mode>>,
         access' \in Instruction \cup {NoAccess}, register' \in Words,
         Typed(page_dir, phys, nextpage)', Paged(page_dir, phys, nextpage)',
         faults' \in Seq(Fault), Pending(page_dir, phys, faults)'
  PROVE  IInv'
<1>1. mode' = "run" /\ mapped' = mapped /\ mapped = npages /\ Rest
  BY RunParts, Zenon
<1>2. "run" # "boot"
  OBVIOUS
<1>3. Rest'
  BY <1>1, Zenon DEF Rest
<1>4. (TypeOK <=> Typed(page_dir, phys, nextpage) /\ Rest)'
  BY Parts, PTL
<1> QED BY <1>1, <1>2, <1>3, <1>4, Zenon DEF IInv

LEMMA TableFaultInv ==
  ASSUME IInv, TableFault
  PROVE  IInv' /\ \A u \in Page : Seen(u)' = Seen(u)
<1>1. /\ Touching /\ Touched > 0 /\ ~HasTable(Touched)
      /\ nextpage < RAM /\ nextpage' = nextpage + 1
      /\ page_dir' = [page_dir EXCEPT ![DirOf(Touched)] = Present(nextpage)]
      /\ faults' = Append(faults, [page |-> Touched, source |-> Zero])
      /\ phys' = phys
      /\ UNCHANGED <<mapped, access, register, mode>>
  BY Zenon DEF TableFault, Take, PageAfter, Enter
<1>2. PICK v \in Page : v = Touched
  BY <1>1, TouchedFacts
<1>3. PICK d, m, n, d2 : d = page_dir /\ m = phys /\ n = nextpage /\ d2 = page_dir'
  OBVIOUS
<1>4. PICK s \in Seq(Fault), s2 \in {faults'} : s = faults /\ s2 = faults'
  BY <1>1, RunParts
<1>5. /\ Typed(d, m, n) /\ Paged(d, m, n) /\ Pending(d, m, s) /\ n < RAM
      /\ d2 = WithTable(d, DirOf(v), n) /\ s2 = Entered(s, v, Zero)
      /\ v > 0 /\ d[DirOf(v)].low # "present" /\ At(s, v)
  BY <1>1, <1>2, <1>3, <1>4, RunParts, TouchedFacts, Zenon DEF WithTable, HasTable, At, Entered
<1>6. /\ Typed(d2, m, n + 1) /\ Paged(d2, m, n + 1)
      /\ s2 \in Seq(Fault) /\ Pending(d2, m, s2)
      /\ \A u \in Page : View(d2, m, s2, u) = View(d, m, s, u)
  BY <1>5, TableFaultStep
<1>7. \A u \in Page : Seen(u)' = Seen(u)
  BY <1>1, <1>3, <1>4, <1>6, Zenon DEF Seen
<1>8. /\ Typed(page_dir, phys, nextpage)' /\ Paged(page_dir, phys, nextpage)'
      /\ faults' \in Seq(Fault) /\ Pending(page_dir, phys, faults)'
  BY <1>1, <1>3, <1>4, <1>6, Zenon
<1>9. access' \in Instruction \cup {NoAccess} /\ register' \in Words
  BY <1>1, RunParts, Zenon DEF Rest
<1> QED BY <1>1, <1>7, <1>8, <1>9, RunKept, Zenon

LEMMA PageFaultInv ==
  ASSUME IInv, PageFault
  PROVE  IInv' /\ \A u \in Page : Seen(u)' = Seen(u)
<1>1. /\ Touching /\ Touched > 0 /\ HasTable(Touched) /\ ~IsPresent(Touched)
      /\ nextpage < RAM /\ nextpage' = nextpage + 1
      /\ phys' = [phys EXCEPT ![TableOf(Touched)][Touched % WORDS] = Present(nextpage)]
      /\ faults' = Append(faults, [page |-> Touched,
                                   source |-> IF Entry(Touched).low = "disk"
                                              THEN Entry(Touched) ELSE Zero])
      /\ page_dir' = page_dir
      /\ UNCHANGED <<mapped, access, register, mode>>
  BY Zenon DEF PageFault, Take, PageAfter, Enter, NewEntry
<1>2. PICK v \in Page : v = Touched
  BY <1>1, TouchedFacts
<1>3. PICK d, m, n, m2 : d = page_dir /\ m = phys /\ n = nextpage /\ m2 = phys'
  OBVIOUS
<1>4. PICK s \in Seq(Fault), s2 \in {faults'} : s = faults /\ s2 = faults'
  BY <1>1, RunParts
<1>5. Mapping(d, m, v) = Entry(Touched) /\ Mapping(d, m, v).low # "present"
  BY <1>1, <1>2, <1>3, TouchedFacts, Zenon DEF Map
<1>6. Entered(faults, Touched, SourceOf(Entry(Touched))) = faults'
  BY <1>1, Zenon DEF Entered, SourceOf
<1>7. /\ Typed(d, m, n) /\ Paged(d, m, n) /\ Pending(d, m, s) /\ n < RAM
      /\ m2 = Written(d, m, v, Present(n))
      /\ s2 = Entered(s, v, SourceOf(Mapping(d, m, v)))
      /\ v > 0 /\ d[DirOf(v)].low = "present" /\ At(s, v)
  BY <1>1, <1>2, <1>3, <1>4, <1>5, <1>6, RunParts, TouchedFacts, Zenon
     DEF Written, HasTable, TableOf, At
<1>8. /\ Typed(d, m2, n + 1) /\ Paged(d, m2, n + 1)
      /\ s2 \in Seq(Fault) /\ Pending(d, m2, s2)
      /\ \A u \in Page : View(d, m2, s2, u) = View(d, m, s, u)
  BY <1>5, <1>7, PageFaultStep
<1>9. \A u \in Page : Seen(u)' = Seen(u)
  BY <1>1, <1>3, <1>4, <1>8, Zenon DEF Seen
<1>10. /\ Typed(page_dir, phys, nextpage)' /\ Paged(page_dir, phys, nextpage)'
       /\ faults' \in Seq(Fault) /\ Pending(page_dir, phys, faults)'
  BY <1>1, <1>3, <1>4, <1>8, Zenon
<1>11. access' \in Instruction \cup {NoAccess} /\ register' \in Words
  BY <1>1, RunParts, Zenon DEF Rest
<1> QED BY <1>1, <1>9, <1>10, <1>11, RunKept, Zenon

LEMMA FillInv ==
  ASSUME IInv, Fill
  PROVE  IInv' /\ \A u \in Page : Seen(u)' = Seen(u)
<1>1. PICK f : f = faults[Len(faults)]
  OBVIOUS
<1>2. /\ Touching /\ faults # <<>> /\ IsPresent(f.page)
      /\ f.source # Zero => f.source.number < DISK_PAGES
      /\ phys' = [phys EXCEPT ![Entry(f.page).number] =
                    IF f.source = Zero THEN ZeroPage ELSE DiskPage(f.source.number)]
      /\ faults' = SubSeq(faults, 1, Len(faults) - 1)
      /\ UNCHANGED <<page_dir, nextpage, mapped, access, register, mode>>
  BY <1>1, Zenon DEF Fill, Read
<1>3. f.page = Touched /\ Touched = faults[1].page
  BY <1>1, <1>2, TouchedFacts, Zenon DEF Touched
<1>4. PICK v \in Page : v = Touched
  BY <1>2, TouchedFacts
<1>5. PICK d, m, n, m2 : d = page_dir /\ m = phys /\ n = nextpage /\ m2 = phys'
  OBVIOUS
<1>6. PICK s \in Seq(Fault), s2 \in {faults'} : s = faults /\ s2 = faults'
  BY <1>2, RunParts
<1>7. Mapping(d, m, v) = Entry(f.page) /\ Mapping(d, m, v).low = "present"
  BY <1>2, <1>3, <1>4, <1>5, TouchedFacts, Zenon DEF Map, IsPresent
<1>8. PICK w \in Words : w = f.source
  <2>1. f \in Fault
    BY <1>1, <1>2, <1>6, FaultFront
  <2> QED BY <2>1 DEF Fault
<1>10. /\ Typed(d, m, n) /\ Paged(d, m, n) /\ Pending(d, m, s) /\ s # <<>>
       /\ m2 = Replaced(m, Mapping(d, m, v).number, Filling(w))
       /\ s2 = Returned(s)
       /\ At(s, v) /\ w = s[Len(s)].source /\ (w # Zero => w.number < DISK_PAGES)
  BY <1>1, <1>2, <1>3, <1>4, <1>5, <1>6, <1>7, <1>8, RunParts, Zenon
     DEF Replaced, Returned, Filling, At
<1>11. /\ Typed(d, m2, n) /\ Paged(d, m2, n)
       /\ s2 \in Seq(Fault) /\ Pending(d, m2, s2)
       /\ \A u \in Page : View(d, m2, s2, u) = View(d, m, s, u)
  BY <1>7, <1>10, FillStep
<1>12. \A u \in Page : Seen(u)' = Seen(u)
  BY <1>2, <1>5, <1>6, <1>11, Zenon DEF Seen
<1>13. /\ Typed(page_dir, phys, nextpage)' /\ Paged(page_dir, phys, nextpage)'
       /\ faults' \in Seq(Fault) /\ Pending(page_dir, phys, faults)'
  BY <1>2, <1>5, <1>6, <1>11, Zenon
<1>14. access' \in Instruction \cup {NoAccess} /\ register' \in Words
  BY <1>2, RunParts, Zenon DEF Rest
<1> QED BY <1>2, <1>12, <1>13, <1>14, RunKept, Zenon

(* A load or a store: what FlatMemory says of it.                          *)
LEMMA ExecuteInv ==
  ASSUME IInv, Execute
  PROVE  /\ IInv'
         /\ access.page \in Page /\ access.offset \in Offset
         /\ \/ /\ register' = Seen(access.page)[access.offset]
               /\ \A u \in Page : Seen(u)' = Seen(u)
            \/ /\ access.value \in Value /\ register' = register
               /\ \A u \in Page : Seen(u)' =
                    IF u = access.page THEN [Seen(u) EXCEPT ![access.offset] = access.value]
                    ELSE Seen(u)
<1>1. PICK v, o, x : v = access.page /\ o = access.offset /\ x = access.value
  OBVIOUS
<1>2. /\ Touching /\ faults = <<>> /\ IsPresent(v)
      /\ access' = NoAccess
      /\ IF access.store
         THEN phys' = [phys EXCEPT ![Entry(v).number][o] = x] /\ register' = register
         ELSE register' = phys[Entry(v).number][o] /\ phys' = phys
      /\ UNCHANGED <<page_dir, nextpage, mapped, faults, mode>>
  BY <1>1, Zenon DEF Execute
<1>3. Touched = v
  BY <1>1, <1>2, Zenon DEF Touched
<1>4. v \in Page /\ o \in Offset /\ x \in Value /\ x \in Words
  <2>1. access \in [page : Page, offset : Offset, store : BOOLEAN, value : Value]
    <3>1. access \in Instruction
      BY <1>2, RunParts
    <3> QED BY <3>1, VirtMemAssumption DEF VirtMemAssumption
  <2>2. Value \subseteq Words
    BY VirtMemAssumption DEF VirtMemAssumption
  <2> QED BY <2>1, <2>2, <1>1
<1>5. /\ Typed(page_dir, phys, nextpage) /\ Paged(page_dir, phys, nextpage)
      /\ faults \in Seq(Fault) /\ register \in Words
  BY <1>2, RunParts, Zenon DEF Rest
<1>6. Map(v) = Entry(v) /\ Map(v).low = "present"
  BY <1>2, <1>3, TouchedFacts, Zenon DEF IsPresent
<1>7. Seen(v) = phys[Entry(v).number]
  BY <1>2, <1>6, Zenon DEF Seen, View, Map
<1>8. CASE ~access.store
  <2>1. \A u \in Page : Seen(u)' = Seen(u)
    BY <1>2, <1>8, Zenon DEF Seen
  <2>2. register' = Seen(v)[o]
    BY <1>2, <1>7, <1>8, Zenon
  <2>3. register' \in Words
    <3>1. Entry(v).number \in Ram
      <4>1. Map(v) \in Words
        BY <1>4, <1>5, MappingType DEF Map
      <4> QED BY <4>1, <1>6, WordFacts, Zenon
    <3>2. phys \in [Ram -> [Offset -> Words]]
      BY <1>5, Zenon DEF Typed
    <3>3. phys[Entry(v).number] \in [Offset -> Words]
      BY <3>1, <3>2
    <3>4. phys[Entry(v).number][o] \in Words
      BY <3>3, <1>4
    <3> QED BY <3>4, <1>2, <1>8, Zenon
  <2>4. /\ Typed(page_dir, phys, nextpage)' /\ Paged(page_dir, phys, nextpage)'
        /\ faults' \in Seq(Fault) /\ Pending(page_dir, phys, faults)'
    BY <1>2, <1>5, <1>8, NoFault, Zenon
  <2>5. IInv'
    BY <2>3, <2>4, <1>2, RunKept, Zenon
  <2> QED BY <2>1, <2>2, <2>5, <1>1, <1>4, Zenon
<1>9. CASE access.store
  <2>1. PICK d, m, n, s, m2 :
          d = page_dir /\ m = phys /\ n = nextpage /\ s = faults /\ m2 = phys'
    OBVIOUS
  <2>2. /\ Typed(d, m, n) /\ Paged(d, m, n) /\ s = <<>>
        /\ Mapping(d, m, v).low = "present"
        /\ m2 = Stored(m, Mapping(d, m, v).number, o, x)
    BY <2>1, <1>2, <1>5, <1>6, <1>9, Zenon DEF Stored, Map
  <2>3. /\ Typed(d, m2, n) /\ Paged(d, m2, n)
        /\ \A u \in Page : u # v => View(d, m2, s, u) = View(d, m, s, u)
        /\ View(d, m2, s, v) = [View(d, m, s, v) EXCEPT ![o] = x]
    BY <2>2, <1>4, StoreStep
  <2>4. /\ \A u \in Page : u # v => Seen(u)' = Seen(u)
        /\ Seen(v)' = [Seen(v) EXCEPT ![o] = x]
    BY <2>1, <2>3, <1>2, Zenon DEF Seen
  <2>5. /\ Typed(page_dir, phys, nextpage)' /\ Paged(page_dir, phys, nextpage)'
        /\ faults' \in Seq(Fault) /\ Pending(page_dir, phys, faults)'
    BY <2>1, <2>3, <1>2, <1>5, NoFault, Zenon
  <2>6. register' = register /\ register' \in Words
    BY <1>2, <1>5, <1>9, Zenon
  <2>7. IInv'
    BY <2>5, <2>6, <1>2, RunKept, Zenon
  <2>8. \A u \in Page : Seen(u)' = IF u = v THEN [Seen(u) EXCEPT ![o] = x] ELSE Seen(u)
    BY <2>4, Zenon
  <2> QED BY <2>6, <2>7, <2>8, <1>1, <1>4, Zenon
<1> QED BY <1>8, <1>9
-----------------------------------------------------------------------------
(* IInv is inductive.                                                      *)
LEMMA StepInv == DiskFits /\ IInv /\ [Next]_vars => IInv'
<1> SUFFICES ASSUME DiskFits, IInv, [Next]_vars PROVE IInv'
  OBVIOUS
<1>1. CASE MapNext
  BY <1>1, MapNextInv, Zenon
<1>2. CASE Boot
  <2>1. access' \in Instruction \cup {NoAccess}
    BY <1>2, Zenon DEF Boot, IInv, TypeOK
  <2> QED BY <2>1, <1>2, SameTables, Zenon DEF Boot
<1>3. CASE NullFault
  <2>1. access' \in Instruction \cup {NoAccess}
    BY <1>3, Zenon DEF NullFault, IInv, TypeOK
  <2> QED BY <2>1, <1>3, SameTables, Zenon DEF NullFault
<1>4. CASE TableFault
  BY <1>4, TableFaultInv, Zenon
<1>5. CASE PageFault
  BY <1>5, PageFaultInv, Zenon
<1>6. CASE Exhaust
  <2>1. access' \in Instruction \cup {NoAccess}
    BY <1>6, Zenon DEF Exhaust, IInv, TypeOK
  <2> QED BY <2>1, <1>6, SameTables, Zenon DEF Exhaust
<1>7. CASE Fill
  BY <1>7, FillInv, Zenon
<1>8. CASE FillFails
  <2>1. access' \in Instruction \cup {NoAccess}
    BY <1>8, Zenon DEF FillFails, IInv, TypeOK
  <2> QED BY <2>1, <1>8, SameTables, Zenon DEF FillFails
<1>9. CASE Execute
  BY <1>9, ExecuteInv, Zenon
<1>10. CASE \E i \in Instruction : Begin(i)
  <2>1. PICK i \in Instruction : Begin(i)
    BY <1>10
  <2>2. mode = "run" => mapped = npages
    BY Zenon DEF IInv
  <2> QED BY <2>1, <2>2, SameTables, Zenon DEF Begin
<1>11. CASE UNCHANGED vars
  <2>1. /\ page_dir' = page_dir /\ phys' = phys /\ nextpage' = nextpage /\ mapped' = mapped
        /\ access' = access /\ register' = register /\ faults' = faults /\ mode' = mode
    BY <1>11, Zenon DEF vars, tables
  <2> QED BY <2>1, Zenon DEF IInv, TypeOK, BootMap, Map
<1> QED
  BY <1>1, <1>2, <1>3, <1>4, <1>5, <1>6, <1>7, <1>8, <1>9, <1>10, <1>11, Zenon
     DEF Next, Continue

THEOREM Invariance ==
  ASSUME CleanMemory, DiskFits
  PROVE  Spec => []IInv
<1>1. Init => IInv
  BY InitInv, Zenon
<1>2. IInv /\ [Next]_vars => IInv'
  BY StepInv, Zenon
<1> QED BY <1>1, <1>2, PTL DEF Spec
-----------------------------------------------------------------------------
(* What the invariant says of the pages.                                   *)
LEMMA OnlyOne ==
  ASSUME NEW S, NEW x \in S, \A y \in S : y = x
  PROVE  Cardinality(S) = 1
<1>1. S = {x}
  OBVIOUS
<1> QED BY <1>1, FS_Singleton

LEMMA CountsAsSets ==
  ASSUME IInv, NEW p \in Ram
  PROVE  Cardinality(Tables(p)) + Cardinality(Views(p)) = IF p < nextpage THEN 1 ELSE 0
<1>1. Paged(page_dir, phys, nextpage) /\ nextpage \in Nat
  BY DEF IInv, TypeOK, FIRST_PHYS_PAGE
<1>2. Views(p) = {v \in Page : Map(v) = Present(p)}
  <2>1. \A v \in Page : IsPresent(v) /\ Entry(v) = Present(p) <=> Map(v) = Present(p)
    <3>1. Present(p).low = "present" /\ Zero.low = "none" /\ "none" # "present"
      BY WordFacts
    <3>2. \A v \in Page : Map(v) = IF HasTable(v) THEN Entry(v) ELSE Zero
      BY Zenon DEF Map, Mapping, HasTable, Entry, TableOf
    <3> QED BY <3>1, <3>2, Zenon DEF IsPresent
  <2> QED BY <2>1, Zenon DEF Views
<1>3. Tables(p) = {i \in Dir : page_dir[i] = Present(p)}
  BY Zenon DEF Tables
<1>4. Present(p).low = "present" /\ Present(p).number = p
  BY WordFacts, Zenon
<1>5. /\ \A i, j \in Dir : page_dir[i].low = "present" /\ page_dir[i] = page_dir[j] => i = j
      /\ \A u, v \in Page : Map(u).low = "present" /\ Map(u) = Map(v) => u = v
      /\ \A v \in Page, i \in Dir : Map(v).low = "present" => Map(v) # page_dir[i]
  BY <1>1, Zenon DEF Paged, TablesApart, ViewsApart, NoTableViewed, Map
<1>6. (\E i \in Dir : page_dir[i] = Present(p)) => p < nextpage
  <2> SUFFICES ASSUME NEW i \in Dir, page_dir[i] = Present(p) PROVE p < nextpage
    BY Zenon
  <2>1. page_dir[i] = Zero \/ page_dir[i].number < nextpage
    BY <1>1, Zenon DEF Paged, TablesBelow
  <2>2. page_dir[i] # Zero /\ page_dir[i].number = p
    BY <1>4, WordFacts
  <2> QED BY <2>1, <2>2, Zenon
<1>7. (\E v \in Page : Map(v) = Present(p)) => p < nextpage
  BY <1>1, <1>4, Zenon DEF Paged, ViewsBelow, Map
<1>8. CASE \E i \in Dir : page_dir[i] = Present(p)
  <2>1. PICK i \in Dir : page_dir[i] = Present(p)
    BY <1>8
  <2>2. i \in Tables(p) /\ \A j \in Tables(p) : j = i
    BY <2>1, <1>3, <1>4, <1>5, Zenon
  <2>3. Cardinality(Tables(p)) = 1
    BY <2>2, OnlyOne
  <2>4. Views(p) = {}
    BY <2>1, <1>2, <1>4, <1>5, Zenon
  <2>5. Cardinality(Views(p)) = 0
    BY <2>4, FS_EmptySet
  <2> QED BY <2>3, <2>5, <1>6, <1>8
<1>9. CASE \E v \in Page : Map(v) = Present(p)
  <2>1. PICK v \in Page : Map(v) = Present(p)
    BY <1>9
  <2>2. v \in Views(p) /\ \A u \in Views(p) : u = v
    BY <2>1, <1>2, <1>4, <1>5, Zenon
  <2>3. Cardinality(Views(p)) = 1
    BY <2>2, OnlyOne
  <2>4. Tables(p) = {}
    BY <2>1, <1>3, <1>4, <1>5, Zenon
  <2>5. Cardinality(Tables(p)) = 0
    BY <2>4, FS_EmptySet
  <2> QED BY <2>3, <2>5, <1>7, <1>9
<1>10. CASE /\ ~\E i \in Dir : page_dir[i] = Present(p)
            /\ ~\E v \in Page : Map(v) = Present(p)
  <2>1. Tables(p) = {} /\ Views(p) = {}
    BY <1>2, <1>3, <1>10, Zenon
  <2>2. Cardinality(Tables(p)) = 0 /\ Cardinality(Views(p)) = 0
    BY <2>1, FS_EmptySet
  <2>3. p \notin 0..(nextpage - 1)
    BY <1>1, <1>10, Zenon DEF Paged, AllUsed, Map
  <2>4. ~(p < nextpage)
    BY <2>3, <1>1 DEF Ram
  <2> QED BY <2>2, <2>4
<1> QED BY <1>8, <1>9, <1>10

(* No physical page is used for two things, none is lost, and page_fault   *)
(* never nests more than once.                                             *)
THEOREM PagesArePrivate ==
  ASSUME CleanMemory, DiskFits
  PROVE  Spec => []PagesPrivate
<1>1. ASSUME IInv PROVE PagesPrivate
  <2>1. TypeOK
    BY <1>1, Zenon DEF IInv
  <2>2. NestedOnce
    BY <1>1, Zenon DEF IInv, Pending, NestedOnce
  <2>3. \A p \in 0..(RAM - 1) :
          Cardinality(Tables(p)) + Cardinality(Views(p)) = IF p < nextpage THEN 1 ELSE 0
    BY <1>1, CountsAsSets DEF Ram
  <2> QED BY <2>1, <2>2, <2>3, Zenon DEF PagesPrivate
<1> QED BY <1>1, Invariance, PTL
-----------------------------------------------------------------------------
(* The refinement.  Until boot is done nothing is loaded or stored, and    *)
(* the memory is the image; from then on it is what is seen.               *)
Told ==
  \A v \in Page : Contents(v) = IF mode = "boot" \/ mapped < npages THEN Image[v] ELSE Seen(v)

LEMMA ContentsTold == Told
<1> SUFFICES ASSUME NEW v \in Page
             PROVE  Contents(v) = IF mode = "boot" \/ mapped < npages THEN Image[v] ELSE Seen(v)
  BY DEF Told
<1>1. Map(v) = IF HasTable(v) THEN Entry(v) ELSE Zero
  BY Zenon DEF Map, Mapping, HasTable, Entry, TableOf
<1>2. IsPresent(v) <=> Map(v).low = "present"
  <2>1. Zero.low = "none" /\ "none" # "present"
    BY WordFacts
  <2> QED BY <2>1, <1>1, Zenon DEF IsPresent
<1>3. Source(Zero) = ZeroPage
  BY SourceNone, WordFacts, Zenon
<1>4. CASE faults # <<>> /\ faults[1].page = v
  BY <1>4, Zenon DEF Contents, Seen, View
<1>5. CASE ~(faults # <<>> /\ faults[1].page = v) /\ IsPresent(v)
  <2>1. Seen(v) = phys[Map(v).number] /\ Map(v) = Entry(v)
    BY <1>1, <1>2, <1>5, Zenon DEF Seen, View, Map, IsPresent
  <2> QED BY <2>1, <1>5, Zenon DEF Contents
<1>6. CASE ~(faults # <<>> /\ faults[1].page = v) /\ ~IsPresent(v)
  <2>1. Seen(v) = Source(Map(v))
    BY <1>2, <1>6, Zenon DEF Seen, View, Map
  <2>2. Seen(v) = IF HasTable(v) THEN Source(Entry(v)) ELSE ZeroPage
    BY <2>1, <1>1, <1>3, Zenon
  <2> QED BY <2>2, <1>6, Zenon DEF Contents
<1> QED BY <1>4, <1>5, <1>6, Zenon

LEMMA SameContents ==
  ASSUME mode # "boot", mode' # "boot", mapped = npages, mapped' = mapped,
         \A u \in Page : Seen(u)' = Seen(u)
  PROVE  \A u \in Page : Contents(u)' = Contents(u)
<1> SUFFICES ASSUME NEW u \in Page PROVE Contents(u)' = Contents(u)
  OBVIOUS
<1>1. ~(mapped < npages)
  BY NPages
<1>2. Contents(u) = Seen(u)
  BY <1>1, ContentsTold, Zenon DEF Told
<1>3. Told'
  BY ContentsTold, PTL
<1> QED BY <1>1, <1>2, <1>3, Zenon DEF Told

LEMMA SameImage ==
  ASSUME mode = "boot" \/ mapped < npages, mode' = "boot" \/ mapped' < npages
  PROVE  \A u \in Page : Contents(u)' = Contents(u)
<1> SUFFICES ASSUME NEW u \in Page PROVE Contents(u)' = Contents(u)
  OBVIOUS
<1>1. Contents(u) = Image[u]
  BY ContentsTold, Zenon DEF Told
<1>2. Told'
  BY ContentsTold, PTL
<1> QED BY <1>1, <1>2, Zenon DEF Told

(* When the whole disk is mapped, the image is what is seen.               *)
LEMMA BootSees ==
  ASSUME WholeDisk, IInv, Boot, NEW v \in Page
  PROVE  Seen(v) = Image[v]
<1>1. mode = "boot" /\ mapped = DISK_PAGES
  BY Zenon DEF Boot, WholeDisk
<1>2. /\ faults = <<>>
      /\ \A u \in Page : Map(u).low = "present" => u = KERNEL
      /\ \A u \in Page : IF GAMEDISK <= u /\ u - GAMEDISK < mapped
                         THEN Map(u) = OnDisk(u - GAMEDISK) ELSE Map(u).low # "disk"
      /\ Map(KERNEL) = Present(KERNEL) /\ phys[KERNEL] = ZeroPage
  BY <1>1, Zenon DEF IInv, BootMap
<1>3. Image[v] = IF v >= GAMEDISK /\ v - GAMEDISK < DISK_PAGES
                 THEN DiskPage(v - GAMEDISK) ELSE ZeroPage
  BY DEF Image
<1>4. v >= GAMEDISK <=> GAMEDISK <= v
  BY PageParts, Assumed
<1>5. Seen(v) = IF Map(v).low = "present" THEN phys[Map(v).number] ELSE Source(Map(v))
  BY <1>2, Zenon DEF Seen, View, Map
<1>6. CASE v = KERNEL
  <2>1. Map(v).low = "present" /\ Map(v).number = KERNEL
    BY <1>2, <1>6, WordFacts, Zenon
  <2>2. Seen(v) = ZeroPage
    BY <2>1, <1>2, <1>5, Zenon
  <2>3. ~(v >= GAMEDISK)
    BY <1>6, Assumed DEF KERNEL
  <2> QED BY <2>2, <2>3, <1>3, Zenon
<1>7. CASE v # KERNEL /\ GAMEDISK <= v /\ v - GAMEDISK < DISK_PAGES
  <2>1. Map(v) = OnDisk(v - GAMEDISK)
    BY <1>1, <1>2, <1>7, Zenon
  <2>2. Map(v).low = "disk" /\ Map(v).number = v - GAMEDISK
    BY <2>1, WordFacts, Zenon
  <2>3. Source(Map(v)) = DiskPage(v - GAMEDISK)
    BY <2>2, <1>7, Zenon DEF Source
  <2> QED BY <2>3, <1>2, <1>3, <1>4, <1>5, <1>7, Zenon
<1>8. CASE v # KERNEL /\ ~(GAMEDISK <= v /\ v - GAMEDISK < DISK_PAGES)
  <2>1. Map(v).low # "present" /\ Map(v).low # "disk"
    BY <1>1, <1>2, <1>8, Zenon
  <2>2. Source(Map(v)) = ZeroPage
    BY <2>1, Zenon DEF Source
  <2> QED BY <2>1, <2>2, <1>3, <1>4, <1>5, <1>8, Zenon
<1> QED BY <1>6, <1>7, <1>8, Zenon

LEMMA BootContents ==
  ASSUME WholeDisk, IInv, Boot
  PROVE  \A u \in Page : Contents(u)' = Contents(u)
<1> SUFFICES ASSUME NEW u \in Page PROVE Contents(u)' = Contents(u)
  OBVIOUS
<1>1. /\ mode = "boot" /\ mapped = npages /\ mode' = "run" /\ mapped' = mapped
      /\ UNCHANGED <<page_dir, phys, faults>>
  BY Zenon DEF Boot, tables
<1>2. ~(mapped < npages) /\ "run" # "boot"
  BY <1>1, NPages
<1>3. Contents(u) = Image[u]
  BY <1>1, ContentsTold, Zenon DEF Told
<1>4. Told'
  BY ContentsTold, PTL
<1>5. Contents(u)' = Seen(u)'
  BY <1>1, <1>2, <1>4, Zenon DEF Told
<1>6. Seen(u)' = Seen(u)
  BY <1>1, Zenon DEF Seen
<1> QED BY <1>3, <1>5, <1>6, BootSees, Zenon

(* Every step but Execute keeps what a load returns.                       *)
LEMMA QuietStep ==
  ASSUME WholeDisk, IInv, [Next]_vars, ~Execute
  PROVE  register' = register /\ \A u \in Page : Contents(u)' = Contents(u)
<1>1. mode = "run" => mapped = npages
  BY Zenon DEF IInv
<1>2. /\ "run" # "boot" /\ "halted" # "boot" /\ "exhausted" # "boot"
  OBVIOUS
<1>3. ASSUME UNCHANGED <<page_dir, phys, faults>> PROVE \A u \in Page : Seen(u)' = Seen(u)
  BY <1>3, Zenon DEF Seen
<1>4. CASE MapNext
  BY <1>4, SameImage, Zenon DEF MapNext
<1>5. CASE Boot
  BY <1>5, BootContents, Zenon DEF Boot
<1>6. CASE NullFault
  BY <1>1, <1>2, <1>3, <1>6, SameContents, Zenon DEF NullFault, Touching, tables
<1>7. CASE TableFault
  BY <1>1, <1>2, <1>7, TableFaultInv, SameContents, Zenon DEF TableFault, Touching
<1>8. CASE PageFault
  BY <1>1, <1>2, <1>8, PageFaultInv, SameContents, Zenon DEF PageFault, Touching
<1>9. CASE Fill
  BY <1>1, <1>2, <1>9, FillInv, SameContents, Zenon DEF Fill, Touching
<1>10. CASE FillFails
  BY <1>1, <1>2, <1>3, <1>10, SameContents, Zenon DEF FillFails, Touching, tables
<1>11. CASE Exhaust
  <2>1. UNCHANGED <<page_dir, phys, faults, mapped, register>> /\ mode' = "exhausted"
    BY <1>11, Zenon DEF Exhaust, tables
  <2>2. CASE mode = "boot"
    <3>1. mapped < npages /\ mapped' < npages
      BY <2>2, <1>11, Zenon DEF Exhaust
    <3> QED BY <3>1, <2>1, SameImage, Zenon
  <2>3. CASE mode # "boot"
    <3>1. mode = "run"
      BY <2>3, <1>11, Zenon DEF Exhaust, Touching
    <3> QED BY <3>1, <2>1, <1>1, <1>2, <1>3, SameContents, Zenon
  <2> QED BY <2>2, <2>3
<1>12. CASE \E i \in Instruction : Begin(i)
  <2>1. PICK i \in Instruction : Begin(i)
    BY <1>12
  <2> QED BY <2>1, <1>1, <1>2, <1>3, SameContents, Zenon DEF Begin, tables
<1>13. CASE UNCHANGED vars
  <2>1. /\ page_dir' = page_dir /\ phys' = phys /\ mapped' = mapped
        /\ register' = register /\ faults' = faults /\ mode' = mode
    BY <1>13, Zenon DEF vars, tables
  <2> QED BY <2>1, Zenon DEF Contents, IsPresent, HasTable, Entry, TableOf
<1> QED
  BY <1>4, <1>5, <1>6, <1>7, <1>8, <1>9, <1>10, <1>11, <1>12, <1>13, Zenon DEF Next, Continue

(* A load or store of the program is one of FlatMemory.                    *)
LEMMA ExecuteStep ==
  ASSUME IInv, Execute
  PROVE  Flat!Next
<1>1. PICK v, i, x : v = access.page /\ i = access.offset /\ x = access.value
  OBVIOUS
<1>2. v \in Page /\ i \in Offset
  BY <1>1, ExecuteInv, Zenon
<1>3. /\ mode = "run" /\ mapped = npages /\ mode' = "run" /\ mapped' = mapped
  BY RunParts, Zenon DEF Execute
<1>4. ~(mapped < npages) /\ "run" # "boot"
  BY <1>3, NPages
<1>5. \A u \in Page : Contents(u) = Seen(u)
  BY <1>3, <1>4, ContentsTold, Zenon DEF Told
<1>6. \A u \in Page : Contents(u)' = Seen(u)'
  <2>1. Told'
    BY ContentsTold, PTL
  <2> QED BY <2>1, <1>3, <1>4, Zenon DEF Told
<1>7. PICK f : f = [u \in Page |-> Contents(u)]
  OBVIOUS
<1>8. PICK f2 : f2 = [u \in Page |-> Contents(u)']
  OBVIOUS
<1>9. CASE /\ register' = Seen(v)[i]
           /\ \A u \in Page : Seen(u)' = Seen(u)
  <2>1. register' = f[v][i]
    BY <1>2, <1>5, <1>7, <1>9
  <2>2. f2 = f
    BY <1>5, <1>6, <1>7, <1>8, <1>9
  <2>3. Flat!Load(v, i)
    BY <2>1, <2>2, <1>7, <1>8, Zenon DEF Flat!Load
  <2> QED BY <2>3, <1>2, Zenon DEF Flat!Next
<1>10. CASE /\ x \in Value /\ register' = register
            /\ \A u \in Page : Seen(u)' = IF u = v THEN [Seen(u) EXCEPT ![i] = x] ELSE Seen(u)
  <2>1. \A u \in Page : f2[u] = IF u = v THEN [f[u] EXCEPT ![i] = x] ELSE f[u]
    BY <1>5, <1>6, <1>7, <1>8, <1>10
  <2>2. f2 = [f EXCEPT ![v] = [f[v] EXCEPT ![i] = x]]
    BY <2>1, <1>2, <1>7, <1>8
  <2>3. f2 = [f EXCEPT ![v][i] = x]
    BY <2>2
  <2>4. Flat!Store(v, i, x)
    BY <2>3, <1>7, <1>8, <1>10, Zenon DEF Flat!Store
  <2> QED BY <2>4, <1>2, <1>10, Zenon DEF Flat!Next
<1> QED BY <1>1, <1>9, <1>10, ExecuteInv, Zenon

(* Demand paging cannot be told from a flat memory that holds the disk.    *)
THEOREM PagingImplementsFlat ==
  ASSUME CleanMemory, DiskFits, WholeDisk
  PROVE  Spec => ImplementsFlat
<1>1. Init => Flat!Init
  <2> SUFFICES ASSUME Init PROVE Flat!Init
    OBVIOUS
  <2>1. mode = "boot" /\ register = Zero
    BY Zenon DEF Init
  <2>2. \A v \in Page : Contents(v) = Image[v]
    BY <2>1, ContentsTold, Zenon DEF Told
  <2>3. [v \in Page |-> Contents(v)] = Image
    BY <2>2 DEF Image
  <2> QED BY <2>1, <2>3, Zenon DEF Flat!Init
<1>2. ASSUME IInv, [Next]_vars
      PROVE  Flat!Next \/ UNCHANGED <<[v \in Page |-> Contents(v)], register>>
  <2>1. CASE Execute
    BY <2>1, <1>2, ExecuteStep, Zenon
  <2>2. CASE ~Execute
    <3>1. register' = register /\ \A u \in Page : Contents(u)' = Contents(u)
      BY <2>2, <1>2, QuietStep, Zenon
    <3>2. [v \in Page |-> Contents(v)]' = [v \in Page |-> Contents(v)]
      BY <3>1
    <3> QED BY <3>1, <3>2, Zenon
  <2> QED BY <2>1, <2>2
<1> QED BY <1>1, <1>2, Invariance, PTL DEF Spec, ImplementsFlat, Flat!Spec
=============================================================================
