----------------------------- MODULE MCDrivers ------------------------------
(***************************************************************************)
(* What the kernel does with its hardware, checked together: the keyboard, *)
(* the disks, and the pages of memory.  One of them runs, the others stay  *)
(* where they start.                                                       *)
(***************************************************************************)
EXTENDS VirtMem

CONSTANTS
  SIZE, MaxPresses,                        \* of Keyboard
  TRIES, MaxReads                          \* of Disk

VARIABLES
  part,                                    \* which part runs
  down, presses, wire, keyqueue, kqfront, kqback, phase, front, back, scancode,
  depressed, extended, typed, returned, accepted, taken, dropped,
                                           \* of Keyboard
  machine, dev, slot, disks, pc, tries, cmd, page, buffer, reads
                                           \* of Disk

keys == <<down, presses, wire, keyqueue, kqfront, kqback, phase, front, back, scancode,
          depressed, extended, typed, returned, accepted, taken, dropped>>
disk == <<machine, dev, slot, disks, pc, tries, cmd, page, buffer, reads>>
paging == vars
all == <<part, keys, disk, paging>>

Machine(first, second, third, fourth) == <<first, second, third, fourth>>
Machines ==
  {Machine("ATA", "ATA", "NONE", "NONE"), Machine("ATA", "NONE", "ATAPI", "NONE"),
   Machine("NONE", "ATAPI", "NONE", "SATA"), Machine("SATAPI", "NONE", "ATA", "NONE"),
   Machine("SATA", "NONE", "NONE", "NONE")}
PerPage == [type \in {"ATA", "ATAPI"} |-> 2]

(* Pages 0 and 1 are the null page and the kernel, 2 and 3 the heap, 4 and *)
(* 5 the game disk.                                                        *)
MCValue == {Datum(9)}
Loads == [page : Page, offset : Offset, store : {FALSE}, value : MCValue]
Stores == [page : 2..5, offset : {0}, store : {TRUE}, value : MCValue]
MCInstruction == Loads \cup Stores
MCJunk == {Zero}

K == INSTANCE Keyboard WITH Overlap <- FALSE
D == INSTANCE Disk

ASSUME K!KeyboardAssumption /\ D!DiskAssumption
ASSUME CleanMemory /\ DiskFits /\ WholeDisk

MCInit ==
  /\ part \in {"keys", "disk", "paging"}
  /\ K!Init /\ D!Init /\ Init
  /\ part # "disk" => machine = Machine("SATA", "NONE", "NONE", "NONE")

MCNext ==
  \/ part = "keys" /\ K!Next /\ UNCHANGED <<part, disk, paging>>
  \/ part = "disk" /\ D!Next /\ UNCHANGED <<part, keys, paging>>
  \/ part = "paging" /\ Next /\ UNCHANGED <<part, keys, disk>>

(* The fairness of the parts: the processor runs, and takes interrupts.    *)
MCSpec == MCInit /\ [][MCNext]_all
MCFairSpec ==
  /\ MCSpec
  /\ WF_keys(part = "keys" /\ K!Interrupt) /\ WF_keys(part = "keys" /\ K!Reader)
  /\ WF_disk(part = "disk" /\ D!Driver)
  /\ WF_paging(part = "paging" /\ Continue)
-----------------------------------------------------------------------------
(* The ring queue loses no code it took, the keys come in order; a page    *)
(* that counts as read is the page of the game disk asked for.             *)
InOrder == K!CodesInOrder /\ K!KeysInOrder /\ D!PageRead

(* Every key that was pressed is delivered, unless the queue was full.     *)
KeysDelivered == K!KeysDelivered

(* The driver does not poll for ever.                                      *)
PollingEnds == D!PollingEnds
=============================================================================
