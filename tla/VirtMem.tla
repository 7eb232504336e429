------------------------------ MODULE VirtMem ------------------------------
(***************************************************************************)
(* The kernel's demand paging: page_fault, get_phys_page, set_pt_entry and *)
(* map_disk of kvirtmem.c, setup_hdd and hdd_read_page of hdd.c, and the   *)
(* page tables bootcommon.asm starts with.                                 *)
(*                                                                         *)
(* Page tables live in physical pages, like data: a physical page is a     *)
(* function from offsets to words, and a word is a zero, a datum or an     *)
(* entry.  An entry is told by its two low bits: "present", or "disk" (not *)
(* present, but backed by a page of the game disk); all others are "none". *)
(* A page of the real machine has 1024 words.                              *)
(*                                                                         *)
(* The program executes loads and stores; one that touches a page that is  *)
(* not present enters page_fault, which changes the tables and then fills  *)
(* the page, touching it in turn, and the instruction is tried again.      *)
(***************************************************************************)
EXTENDS Integers, Sequences, FiniteSets

CONSTANTS
  WORDS,          \* words, and page table entries, in a page
  DIRS,           \* page directory entries
  GAMEDISK,       \* page number of GAMEDISK_ADDR
  RAM,            \* physical pages the machine has
  SECTORS,        \* sectors of the disk
  SECTOR_SIZE,
  PAGE_SIZE,      \* 4096, in the unit of SECTOR_SIZE
  MODULUS,        \* 2^32
  Atapi,          \* the game disk is a CD
  Junk,           \* what a word of free memory may hold at power-on
  Value,          \* words the program stores
  Instruction     \* bound: the loads and stores it executes

Zero == [low |-> "none", number |-> 0]
Present(page) == [low |-> "present", number |-> page]
OnDisk(page) == [low |-> "disk", number |-> page]
Datum(x) == [low |-> "none", number |-> x]

PT0 == 0
KERNEL == 1
FIRST_PHYS_PAGE == 2

Page   == 0..(DIRS * WORDS - 1)      \* virtual pages
Offset == 0..(WORDS - 1)
Dir    == 0..(DIRS - 1)
Words == [low : {"none", "disk"}, number : Nat]
           \cup [low : {"present"}, number : 0..(RAM - 1)]

(* GAMEDISK_ADDR lies above what boot maps to itself.                      *)
ASSUME VirtMemAssumption ==
  /\ {WORDS, DIRS, SECTOR_SIZE, PAGE_SIZE, MODULUS} \subseteq Nat \ {0}
  /\ {GAMEDISK, SECTORS} \subseteq Nat
  /\ RAM \in Nat /\ RAM >= FIRST_PHYS_PAGE
  /\ Atapi \in BOOLEAN
  /\ WORDS > 1 /\ GAMEDISK > KERNEL /\ GAMEDISK < DIRS * WORDS
  /\ Zero \in Junk /\ Junk \subseteq Words /\ Value \subseteq Words
  /\ Instruction \subseteq [page : Page, offset : Offset, store : BOOLEAN, value : Value]

ZeroPage == [i \in Offset |-> Zero]

(* The disk: the data of its n-th whole page differ from all others.       *)
DISK_PAGES == (SECTORS * SECTOR_SIZE) \div PAGE_SIZE
DiskPage(n) == [i \in Offset |-> Datum(n + 1)]

VARIABLES
  page_dir,       \* PAGE_DIR
  phys,           \* physical memory
  nextpage,
  mapped,         \* map_disk's loop counter
  access,         \* the instruction being executed
  register,
  faults,         \* activations of page_fault: the page and what fills it
  mode            \* "boot", "run", "halted", or "exhausted": pages beyond
                  \* the memory were handed out, what follows is undefined

tables == <<page_dir, phys, nextpage>>
vars == <<tables, mapped, access, register, faults, mode>>

NoAccess == [page |-> -1, offset |-> 0, store |-> FALSE, value |-> Zero]

(* The first two megabytes are mapped to themselves, but for page 0.       *)
BootTable == [i \in Offset |-> IF i = 1 THEN Present(KERNEL) ELSE Zero]

Init ==
  /\ page_dir = [d \in Dir |-> IF d = 0 THEN Present(PT0) ELSE Zero]
  /\ phys \in {[p \in 0..(RAM - 1) |-> IF p = PT0 THEN BootTable
                  ELSE IF p = KERNEL THEN ZeroPage ELSE free[p]] :
               free \in [FIRST_PHYS_PAGE..(RAM - 1) -> [Offset -> Junk]]}
  /\ nextpage = FIRST_PHYS_PAGE /\ mapped = 0
  /\ access = NoAccess /\ register = Zero /\ faults = <<>> /\ mode = "boot"

DirOf(v)   == v \div WORDS
TableOf(v) == page_dir[DirOf(v)].number
Entry(v)   == phys[TableOf(v)][v % WORDS]
HasTable(v)  == page_dir[DirOf(v)].low = "present"
IsPresent(v) == HasTable(v) /\ Entry(v).low = "present"

SameNextPage == nextpage                   \* faulty: handed out twice
PageAfter == nextpage + 1

(* get_phys_page: pages are handed out one after the other.                *)
Take == nextpage < RAM /\ nextpage' = PageAfter
-----------------------------------------------------------------------------
(* map_disk.  The last_lba a CD reports is the address of its last sector, *)
(* that of a hard disk is the number of sectors.                           *)
max_lba == IF Atapi THEN SECTORS - 1 ELSE SECTORS
npages  == ((max_lba * SECTOR_SIZE) % MODULUS) \div PAGE_SIZE

(* What the code takes for granted: memory at power-on has no word that    *)
(* looks like an entry; the disk fits above GAMEDISK_ADDR; all its whole   *)
(* pages are mapped (it is a hard disk of less than 4 GB).                 *)
CleanMemory == \A word \in Junk : word.low = "none"
DiskFits    == GAMEDISK + npages <= DIRS * WORDS
WholeDisk   == npages = DISK_PAGES

(* set_pt_entry.  A new page table is not cleared.                         *)
SetEntry(v, entry) ==
  LET d == DirOf(v)
  IN  IF page_dir[d] = Zero
      THEN /\ Take
           /\ page_dir' = [page_dir EXCEPT ![d] = Present(nextpage)]
           /\ phys' = [phys EXCEPT ![nextpage][v % WORDS] = entry]
      ELSE /\ phys' = [phys EXCEPT ![page_dir[d].number][v % WORDS] = entry]
           /\ UNCHANGED <<page_dir, nextpage>>

MapNext ==
  /\ mode = "boot" /\ mapped < npages
  /\ SetEntry(GAMEDISK + mapped, OnDisk(mapped))
  /\ mapped' = mapped + 1
  /\ UNCHANGED <<access, register, faults, mode>>

Boot ==
  /\ mode = "boot" /\ mapped = npages
  /\ mode' = "run"
  /\ UNCHANGED <<tables, mapped, access, register, faults>>
-----------------------------------------------------------------------------
(* The program begins a load or a store.                                   *)
Begin(instruction) ==
  /\ mode = "run" /\ access = NoAccess
  /\ access' = instruction
  /\ UNCHANGED <<tables, mapped, register, faults, mode>>

Touched == IF faults = <<>> THEN access.page ELSE faults[Len(faults)].page
Touching == mode = "run" /\ access # NoAccess

(* page_fault up to the point where it fills the page.                     *)
NullFault ==
  /\ Touching /\ Touched = 0 /\ ~IsPresent(0)
  /\ mode' = "halted"
  /\ UNCHANGED <<tables, mapped, access, register, faults>>

Enter(v, source) == faults' = Append(faults, [page |-> v, source |-> source])

(* There is no page table: a page is taken for it, and not cleared.        *)
TableFault ==
  /\ Touching /\ Touched > 0 /\ ~HasTable(Touched)
  /\ Take
  /\ page_dir' = [page_dir EXCEPT ![DirOf(Touched)] = Present(nextpage)]
  /\ Enter(Touched, Zero)
  /\ UNCHANGED <<phys, mapped, access, register, mode>>

NewEntry == Present(nextpage)

PageFault ==
  LET v == Touched
  IN  /\ Touching /\ v > 0 /\ HasTable(v) /\ ~IsPresent(v)
      /\ Take
      /\ phys' = [phys EXCEPT ![TableOf(v)][v % WORDS] = NewEntry]
      /\ Enter(v, IF Entry(v).low = "disk" THEN Entry(v) ELSE Zero)
      /\ UNCHANGED <<page_dir, mapped, access, register, mode>>

(* No page is left, which get_phys_page does not notice.                   *)
Exhaust ==
  /\ nextpage = RAM
  /\ IF mode = "boot" THEN mapped < npages /\ page_dir[DirOf(GAMEDISK + mapped)] = Zero
     ELSE Touching /\ Touched > 0 /\ ~IsPresent(Touched)
  /\ mode' = "exhausted"
  /\ UNCHANGED <<tables, mapped, access, register, faults>>

DiskPageShifted(n) == DiskPage(n + 1)      \* faulty: wrong page number
Read(n) == DiskPage(n)

(* The rest of page_fault: memset or hdd_read_page, and the return.        *)
Fill ==
  LET fault == faults[Len(faults)]
  IN  /\ Touching /\ faults # <<>> /\ IsPresent(fault.page)
      /\ fault.source # Zero => fault.source.number < DISK_PAGES
      /\ phys' = [phys EXCEPT ![Entry(fault.page).number] =
                    IF fault.source = Zero THEN ZeroPage ELSE Read(fault.source.number)]
      /\ faults' = SubSeq(faults, 1, Len(faults) - 1)
      /\ UNCHANGED <<page_dir, nextpage, mapped, access, register, mode>>

(* A sector cannot be read.                                                *)
FillFails ==
  /\ Touching /\ faults # <<>> /\ IsPresent(Touched)
  /\ faults[Len(faults)].source # Zero
  /\ mode' = "halted"
  /\ UNCHANGED <<tables, mapped, access, register, faults>>

(* The instruction finds its page.                                         *)
Execute ==
  LET page == Entry(access.page).number
  IN  /\ Touching /\ faults = <<>> /\ IsPresent(access.page)
      /\ IF access.store
         THEN phys' = [phys EXCEPT ![page][access.offset] = access.value] /\ UNCHANGED register
         ELSE register' = phys[page][access.offset] /\ UNCHANGED phys
      /\ access' = NoAccess
      /\ UNCHANGED <<page_dir, nextpage, mapped, faults, mode>>

Continue == NullFault \/ TableFault \/ PageFault \/ Exhaust \/ Fill \/ FillFails \/ Execute

Next ==
  \/ MapNext
  \/ Boot
  \/ Continue
  \/ \E instruction \in Instruction : Begin(instruction)

Spec == Init /\ [][Next]_vars

(* The processor does not stop.                                            *)
FairSpec == Spec /\ WF_vars(Continue)
-----------------------------------------------------------------------------
TypeOK ==
  /\ page_dir \in [Dir -> Words]
  /\ phys \in [0..(RAM - 1) -> [Offset -> Words]]
  /\ nextpage \in FIRST_PHYS_PAGE..RAM /\ mapped \in 0..npages
  /\ access \in Instruction \cup {NoAccess}
  /\ register \in Words
  /\ faults \in Seq([page : Page, source : Words])
  /\ mode \in {"boot", "run", "halted", "exhausted"}

(* page_fault faults itself once at most, when it clears the first page of *)
(* a page table it has just made: the stack, one page, has room for that.  *)
NestedOnce == Len(faults) <= 2

(* Every page that was taken is one page table, or is mapped at one        *)
(* virtual page: none is used twice, none is lost, and no other is used.   *)
Tables(p) == {d \in Dir : page_dir[d] = Present(p)}
Views(p) == {v \in Page : IsPresent(v) /\ Entry(v) = Present(p)}
PagesPrivate ==
  /\ TypeOK /\ NestedOnce
  /\ \A p \in 0..(RAM - 1) :
       Cardinality(Tables(p)) + Cardinality(Views(p)) = IF p < nextpage THEN 1 ELSE 0

(* Every load and store comes to an end: no instruction faults for ever.   *)
AccessEnds ==
  access # NoAccess ~> (access = NoAccess \/ mode \in {"halted", "exhausted"})

(* The contents of a page as the program will find it, once the disk is    *)
(* mapped.                                                                 *)
Image == [v \in Page |->
            IF v >= GAMEDISK /\ v - GAMEDISK < DISK_PAGES
            THEN DiskPage(v - GAMEDISK) ELSE ZeroPage]

Source(word) ==
  IF word.low = "disk" /\ word.number < DISK_PAGES THEN DiskPage(word.number) ELSE ZeroPage

Contents(v) ==
  IF mode = "boot" \/ mapped < npages THEN Image[v]
  ELSE IF faults # <<>> /\ faults[1].page = v THEN Source(faults[1].source)
  ELSE IF IsPresent(v) THEN phys[Entry(v).number]
  ELSE IF HasTable(v) THEN Source(Entry(v)) ELSE ZeroPage

Flat == INSTANCE FlatMemory WITH memory <- [v \in Page |-> Contents(v)]

(* Demand paging cannot be told from a memory that holds the disk from     *)
(* GAMEDISK_ADDR on and zeros elsewhere: no fault, nested or not, in any   *)
(* order, changes what a later load of any page returns.                   *)
ImplementsFlat == Flat!Spec
=============================================================================
