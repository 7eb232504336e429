----------------------------- MODULE DiskProofs -----------------------------
(***************************************************************************)
(* A page that counts as read is the page of the game disk that was asked  *)
(* for, for every machine, every size of disks and pages and every way the *)
(* devices answer.                                                         *)
(***************************************************************************)
EXTENDS Disk, SequenceTheorems, WellFoundedInduction, TLAPS

(* The invariant: a command to read is one for the game disk, its sector   *)
(* is the next of the page, and the device that answers is its device.     *)
Kinds == {"NONE", "ATA", "ATAPI", "SATA", "SATAPI"}
Works == {"none", "identify", "capacity", "read", "packet", "data"}
Device == [selected : 0..4, busy : BOOLEAN, drq : BOOLEAN, err : BOOLEAN, work : Works]
Found == [slot : Slot, type : Kinds, max_lba : Int]

TypeOK ==
  /\ machine \in [Slot -> Kinds] /\ dev \in [1..2 -> Device]
  /\ slot \in 1..5
  /\ disks \in Seq(Found)
  /\ \A i \in DOMAIN disks : machine[disks[i].slot] = disks[i].type
  /\ pc \in {"probe", "select", "selected", "issued", "sent", "done", "halted"}
  /\ cmd \in [name : {"none", "identify", "capacity", "read"}, slot : Slot, lba : Nat]
  /\ Uses("capacity") => machine[cmd.slot] = "ATAPI"
  /\ page \in Nat /\ buffer \in Seq(Slot \X Nat)

Commanded ==
  /\ Waiting => ~Uses("none")
  /\ pc \in {"issued", "sent"} => dev[port].selected = cmd.slot

Reading(n) ==
  /\ cmd.slot = GameDisk.slot
  /\ IF pc = "done" THEN Len(buffer) = n
     ELSE Len(buffer) < n /\ cmd.lba = page * n + Len(buffer)
  /\ \A i \in 1..Len(buffer) : buffer[i] = <<GameDisk.slot, page * n + i - 1>>

Progress ==
  /\ pc = "done" => Uses("read")
  /\ Uses("read") =>
       /\ slot = 5 /\ disks # <<>> /\ pc # "probe"
       /\ pc # "halted" =>
            GameDisk.type \in DOMAIN PerPage /\ Reading(Sectors(GameDisk.type))

IInv == DiskAssumption /\ TypeOK /\ Commanded /\ Progress
-----------------------------------------------------------------------------
(* A smallest one exists.                                                  *)
LEMMA SmallestIndex ==
  ASSUME NEW T \in SUBSET Nat, T # {}
  PROVE  Min(T) \in T
<1>1. PICK x \in T : \A y \in T : ~(<<y, x>> \in OpToRel(<, Nat))
  BY WFMin, NatLessThanWellFounded
<1>2. \A y \in T : x <= y
  <2> SUFFICES ASSUME NEW y \in T, ~(x <= y) PROVE FALSE
    OBVIOUS
  <2>1. y \in Nat /\ x \in Nat /\ y < x
    OBVIOUS
  <2>2. <<y, x>> \in OpToRel(<, Nat)
    BY <2>1 DEF OpToRel
  <2> QED BY <1>1, <2>2
<1> QED BY <1>1, <1>2 DEF Min

(* The game disk is one of the disks that were found.                      *)
LEMMA GameDiskFound ==
  ASSUME TypeOK, disks # <<>>
  PROVE  /\ GameDisk \in Found /\ machine[GameDisk.slot] = GameDisk.type
         /\ GameDisk.slot \in Slot
<1> DEFINE cds == {i \in DOMAIN disks : disks[i].type = "ATAPI"}
           g == IF cds = {} THEN 1 ELSE Min(cds)
<1>1. disks \in Seq(Found) /\ DOMAIN disks = 1..Len(disks) /\ Len(disks) \in Nat /\ Len(disks) # 0
  BY EmptySeq, LenProperties DEF TypeOK
<1>2. g \in DOMAIN disks
  <2>1. CASE cds = {}
    BY <1>1, <2>1
  <2>2. CASE cds # {}
    <3>1. cds \in SUBSET Nat
      BY <1>1
    <3>2. Min(cds) \in cds
      BY <2>2, <3>1, SmallestIndex
    <3> QED BY <2>2, <3>2
  <2> QED BY <2>1, <2>2
<1>3. GameDisk = disks[g]
  BY Zenon DEF GameDisk
<1>4. disks[g] \in Found /\ machine[disks[g].slot] = disks[g].type
  <2> HIDE DEF g
  <2>1. disks[g] \in Found
    BY <1>1, <1>2, ElementOfSeq
  <2> QED BY <1>2, <2>1 DEF TypeOK
<1>5. disks[g].slot \in Slot
  BY <1>4 DEF Found
<1> QED BY <1>3, <1>4, <1>5, Zenon

LEMMA PortRange == \A s \in Slot : Port(s) \in 1..2
  BY DEF Slot, Port

LEMMA PortType == ASSUME TypeOK PROVE port \in 1..2 /\ cmd.slot \in Slot
  BY PortRange DEF TypeOK, port

LEMMA InitOK == ASSUME DiskAssumption, Init PROVE IInv
<1>1. machine \in [Slot -> Kinds]
  BY DEF DiskAssumption, Init, Kinds
<1>2. Idle \in Device
  BY DEF Idle, Device, Works
<1>3. TypeOK
  <2>1. dev \in [1..2 -> Device]
    BY <1>2 DEF Init
  <2>2. disks \in Seq(Found) /\ buffer \in Seq(Slot \X Nat) /\ \A i \in DOMAIN disks : FALSE
    <3>1. disks = <<>> /\ buffer = <<>>
      BY DEF Init
    <3> QED BY <3>1, EmptySeq
  <2>3. /\ slot \in 1..5 /\ page \in Nat /\ pc = "probe"
        /\ cmd \in [name : {"none", "identify", "capacity", "read"}, slot : Slot, lba : Nat]
    BY DEF Init, NoCommand, Slot
  <2>4. ~Uses("capacity")
    BY DEF Init, NoCommand, Uses
  <2> QED BY <1>1, <2>1, <2>2, <2>3, <2>4 DEF TypeOK
<1>4. Commanded /\ Progress
  BY DEF Init, Commanded, Waiting, Progress, Uses, NoCommand
<1> QED BY <1>3, <1>4 DEF IInv

-----------------------------------------------------------------------------
(* Types.                                                                  *)
Commands == [name : {"none", "identify", "capacity", "read"}, slot : Slot, lba : Nat]
Places == {"probe", "select", "selected", "issued", "sent", "done", "halted"}

LEMMA DeviceTypes ==
  ASSUME TypeOK, NEW p \in 1..2
  PROVE  /\ dev[p] \in Device
         /\ \A b, c \in BOOLEAN :
              [dev EXCEPT ![p].busy = FALSE, ![p].drq = b, ![p].err = c] \in [1..2 -> Device]
         /\ \A s \in Slot, w \in Works : Told(p, s, w) => dev' \in [1..2 -> Device]
         /\ \A s \in Slot : [dev EXCEPT ![p].selected = s] \in [1..2 -> Device]
         /\ Drained(p) => dev' \in [1..2 -> Device]
         /\ Reset(p) => dev' \in [1..2 -> Device]
<1>1. dev \in [1..2 -> Device] /\ dev[p] \in Device
  BY DEF TypeOK
<1>2. ASSUME NEW b \in BOOLEAN, NEW c \in BOOLEAN
      PROVE  [dev EXCEPT ![p].busy = FALSE, ![p].drq = b, ![p].err = c] \in [1..2 -> Device]
  BY <1>1 DEF Device
<1>3. ASSUME NEW s \in Slot, NEW w \in Works, Told(p, s, w) PROVE dev' \in [1..2 -> Device]
  <2>1. [dev[p] EXCEPT !.selected = s, !.busy = TRUE, !.drq = FALSE, !.err = FALSE, !.work = w] \in Device
    <3>1. s \in 0..4
      BY DEF Slot
    <3>2. PICK d \in Device : d = dev[p]
      BY <1>1
    <3>3. [d EXCEPT !.selected = s, !.busy = TRUE, !.drq = FALSE, !.err = FALSE, !.work = w] \in Device
      BY <3>1 DEF Device
    <3> QED BY <3>2, <3>3
  <2> QED BY <1>1, <1>3, <2>1 DEF Told
<1>4. ASSUME NEW s \in Slot PROVE [dev EXCEPT ![p].selected = s] \in [1..2 -> Device]
  BY <1>1 DEF Device, Slot
<1>5. ASSUME Drained(p) PROVE dev' \in [1..2 -> Device]
  BY <1>1, <1>5 DEF Device, Drained, Works
<1>6. ASSUME Reset(p) PROVE dev' \in [1..2 -> Device]
  <2>1. [Idle EXCEPT !.busy = TRUE] \in Device
    <3>1. Idle \in Device
      BY DEF Idle, Device, Works
    <3> QED BY <3>1 DEF Device
  <2> QED BY <1>1, <1>6, <2>1 DEF Reset
<1> QED BY <1>1, <1>2, <1>3, <1>4, <1>5, <1>6

LEMMA PlaceTypes ==
  /\ \A where \in Places : Goto(where) => pc' \in Places
  /\ Stop => pc' \in Places /\ pc' = "halted"
  /\ Fail => pc' \in Places /\ (Uses("read") => pc' = "halted") /\ (~Uses("read") => pc' = "probe")
  BY DEF Goto, Stop, Fail, Places, Uses

(* What a command brings about when it is over.                            *)
LEMMA OverTypes ==
  ASSUME TypeOK, DiskAssumption, Over, machine' = machine,
         dev[port].selected = cmd.slot
  PROVE  /\ pc' \in Places /\ cmd' \in Commands
         /\ disks' \in Seq(Found) /\ \A i \in DOMAIN disks' : machine'[disks'[i].slot] = disks'[i].type
         /\ buffer' \in Seq(Slot \X Nat)
<1>1. cmd \in Commands /\ cmd.slot \in Slot /\ cmd.lba \in Nat /\ machine[cmd.slot] \in Kinds
  BY DEF TypeOK, Commands
<1>2. SECTORS \in Nat
  BY DEF DiskAssumption
<1>3. disks \in Seq(Found) /\ buffer \in Seq(Slot \X Nat)
      /\ \A i \in DOMAIN disks : machine[disks[i].slot] = disks[i].type
  BY DEF TypeOK
<1>4. ASSUME NEW lba \in Int, NEW d, d = Disk(machine[cmd.slot], lba), disks' = Append(disks, d)
      PROVE  disks' \in Seq(Found) /\ \A i \in DOMAIN disks' : machine'[disks'[i].slot] = disks'[i].type
  <2>1. d \in Found /\ machine[d.slot] = d.type
    BY <1>1, <1>4 DEF Disk, Found
  <2>2. disks' \in Seq(Found) /\ Len(disks') = Len(disks) + 1
        /\ disks'[Len(disks) + 1] = d /\ \A i \in 1..Len(disks) : disks'[i] = disks[i]
    BY <1>3, <1>4, <2>1, AppendProperties
  <2>3. DOMAIN disks' = 1..(Len(disks) + 1) /\ DOMAIN disks = 1..Len(disks) /\ Len(disks) \in Nat
    BY <1>3, <2>2, LenProperties
  <2> QED BY <1>3, <2>1, <2>2, <2>3
<1>5. CASE Uses("identify")
  <2>1. Identified /\ buffer' = buffer
    BY <1>5 DEF Over
  <2>2. CASE machine[cmd.slot] = "ATAPI"
    BY <1>1, <1>3, <2>1, <2>2 DEF Identified, Goto, Places, Commands
  <2>3. CASE machine[cmd.slot] # "ATAPI"
    <3>1. disks' = Append(disks, Disk(machine[cmd.slot], SECTORS)) /\ pc' = "probe" /\ cmd' = cmd
      BY <2>1, <2>3 DEF Identified
    <3>2. disks' \in Seq(Found) /\ \A i \in DOMAIN disks' : machine'[disks'[i].slot] = disks'[i].type
      <4>1. SECTORS \in Int
        BY <1>2
      <4> QED BY <1>4, <3>1, <4>1, Zenon
    <3> QED BY <1>1, <1>3, <2>1, <3>1, <3>2, Zenon DEF Places
  <2> QED BY <2>2, <2>3
<1>6. CASE Uses("capacity")
  <2>1. Measured /\ buffer' = buffer
    BY <1>6 DEF Over, Uses
  <2>2. disks' = Append(disks, Disk("ATAPI", SECTORS - 1)) /\ pc' = "probe" /\ cmd' = cmd
    BY <2>1 DEF Measured
  <2>3. machine[cmd.slot] = "ATAPI" /\ SECTORS - 1 \in Int
    BY <1>2, <1>6 DEF TypeOK
  <2>4. disks' \in Seq(Found) /\ \A i \in DOMAIN disks' : machine'[disks'[i].slot] = disks'[i].type
    BY <1>4, <2>2, <2>3, Zenon
  <2> QED BY <1>1, <1>3, <2>1, <2>2, <2>4, Zenon DEF Places
<1>7. CASE ~Uses("identify") /\ ~Uses("capacity")
  <2>1. SectorRead /\ disks' = disks
    BY <1>7 DEF Over
  <2>2. PICK x \in Slot \X Nat : x = <<dev[port].selected, cmd.lba>>
    BY <1>1
  <2>3. buffer' = Append(buffer, x) /\ buffer' \in Seq(Slot \X Nat)
    BY <1>3, <2>1, <2>2, AppendProperties DEF SectorRead
  <2>4. pc' \in Places /\ cmd' \in Commands
    BY <1>1, <2>1 DEF SectorRead, NextSector, Goto, Places, Commands
  <2> QED BY <1>3, <2>1, <2>3, <2>4
<1> QED BY <1>5, <1>6, <1>7
-----------------------------------------------------------------------------
(* Steps that leave alone what a command is for, and what was read.        *)
Moves ==
  /\ UNCHANGED <<machine, found, cmd, page, buffer>>
  /\ dev' \in [1..2 -> Device] /\ pc' \in Places
  /\ pc' = "done" => pc = "done"
  /\ Waiting' => Waiting
  /\ pc' = "probe" => pc = "probe" \/ ~Uses("read")
  /\ pc' \in {"issued", "sent"} => dev'[port].selected = cmd.slot

LEMMA MovesOK == ASSUME IInv, Moves PROVE IInv'
<1> USE DEF IInv
<1>1. UNCHANGED <<machine, slot, disks, cmd, page, buffer>> /\ port' = port
      /\ \A name : Uses(name)' <=> Uses(name)
  BY DEF Moves, found, port, Uses
<1>2. TypeOK'
  BY <1>1 DEF TypeOK, Moves, Places
<1>3. Commanded'
  BY <1>1 DEF Commanded, Moves
<1>4. GameDisk' = GameDisk
  BY <1>1, Zenon DEF GameDisk
<1>5. Progress'
  <2>1. CASE Uses("read")
    <3>1. slot' = 5 /\ disks' # <<>> /\ pc' # "probe"
      BY <1>1, <2>1 DEF Progress, Moves
    <3>2. ASSUME pc' # "halted"
          PROVE  GameDisk'.type \in DOMAIN PerPage /\ Reading(Sectors(GameDisk.type))'
      <4>1. pc # "halted" /\ (pc = "done" <=> pc' = "done")
        BY <2>1, <3>1, <3>2 DEF Moves, Waiting, TypeOK, Places, Progress
      <4>2. GameDisk.type \in DOMAIN PerPage /\ Reading(Sectors(GameDisk.type))
        BY <2>1, <4>1 DEF Progress
      <4> QED BY <1>1, <1>4, <4>1, <4>2, Zenon DEF Reading
    <3> QED BY <1>1, <1>4, <2>1, <3>1, <3>2, Zenon DEF Progress
  <2>2. CASE ~Uses("read")
    BY <1>1, <2>2 DEF Progress, Moves
  <2> QED BY <2>1, <2>2
<1> QED BY <1>2, <1>3, <1>5 DEF IInv

LEMMA FinishOK == ASSUME IInv, NEW p \in 1..2, Finish(p) PROVE IInv'
<1>1. TypeOK /\ Commanded /\ port \in 1..2
  BY PortType DEF IInv
<1>2. PICK b \in BOOLEAN, c \in BOOLEAN :
        dev' = [dev EXCEPT ![p].busy = FALSE, ![p].drq = b, ![p].err = c]
  BY DEF Finish
<1>3. dev' \in [1..2 -> Device]
  BY <1>1, <1>2, DeviceTypes, Zenon
<1>4. dev'[port].selected = dev[port].selected
  <2>1. PICK q \in 1..2 : q = port
    BY <1>1
  <2>2. CASE q = p
    <3>1. PICK d \in Device : d = dev[p]
      BY DeviceTypes, <1>1
    <3>2. dev'[p] = [d EXCEPT !.busy = FALSE, !.drq = b, !.err = c]
      BY <1>1, <1>2, <3>1 DEF TypeOK
    <3>3. dev'[p].selected = d.selected
      BY <3>2 DEF Device
    <3> QED BY <2>1, <2>2, <3>1, <3>3, Zenon
  <2>3. CASE q # p
    <3>1. DOMAIN dev = 1..2
      BY <1>1 DEF TypeOK
    <3>2. dev'[q] = dev[q]
      BY <1>2, <2>1, <2>3, <3>1
    <3> QED BY <2>1, <3>2
  <2> QED BY <2>1, <2>2, <2>3
<1>5. Moves
  BY <1>1, <1>3, <1>4 DEF Moves, Finish, TypeOK, Commanded, Places, Waiting
<1> QED BY <1>5, MovesOK

LEMMA StillBusyOK == ASSUME IInv, StillBusy PROVE IInv'
<1>1. Moves
  BY DEF IInv, Moves, StillBusy, device, TypeOK, Commanded, Places, Waiting
<1> QED BY <1>1, MovesOK

LEMMA TimedOutOK == ASSUME IInv, TimedOut PROVE IInv'
<1>1. pc' \in {"halted", "probe"} /\ (pc' = "probe" => ~Uses("read"))
  BY PlaceTypes DEF TimedOut
<1>2. Moves
  BY <1>1 DEF IInv, Moves, TimedOut, device, TypeOK, Places, Waiting
<1> QED BY <1>2, MovesOK

LEMMA SelectOK == ASSUME IInv, Select PROVE IInv'
<1>1. TypeOK /\ port \in 1..2 /\ cmd.slot \in Slot
  BY PortType DEF IInv
<1>2. dev' \in [1..2 -> Device] /\ pc' \in {"select", "selected"}
  <2>1. [dev EXCEPT ![port].selected = cmd.slot] \in [1..2 -> Device]
    BY <1>1, DeviceTypes, Zenon
  <2>2. pc' \in {"select", "selected"}
    BY DEF Select, Goto
  <2>3. dev' = dev \/ dev' = [dev EXCEPT ![port].selected = cmd.slot]
    BY DEF Select
  <2> QED BY <1>1, <2>1, <2>2, <2>3 DEF TypeOK
<1>3. Moves
  BY <1>2 DEF Moves, Select, Places, Waiting
<1> QED BY <1>3, MovesOK

LEMMA ToldSelects ==
  ASSUME TypeOK, NEW p \in 1..2, NEW s, NEW w, Told(p, s, w)
  PROVE  dev'[p].selected = s
<1>1. PICK d \in Device : d = dev[p]
  BY DeviceTypes
<1>2. dev'[p] = [d EXCEPT !.selected = s, !.busy = TRUE, !.drq = FALSE, !.err = FALSE, !.work = w]
  BY <1>1 DEF Told, TypeOK
<1> QED BY <1>2 DEF Device

LEMMA IssueOK == ASSUME IInv, Issue PROVE IInv'
<1>1. TypeOK /\ port \in 1..2 /\ cmd.slot \in Slot
  BY PortType DEF IInv
<1>2. CASE Status.drq
  <2>1. pc' = "halted" /\ dev' \in [1..2 -> Device]
    BY <1>1, <1>2 DEF Issue, Stop, TypeOK
  <2>2. Moves
    BY <2>1 DEF Moves, Issue, Places, Waiting
  <2> QED BY <2>2, MovesOK
<1>3. CASE ~Status.drq
  <2>1. PICK w \in Works : Told(port, cmd.slot, w)
    <3>1. cmd.name \in Works
      BY <1>1 DEF TypeOK, Works
    <3> QED BY <1>3, <3>1 DEF Issue, Works
  <2>2. dev' \in [1..2 -> Device] /\ dev'[port].selected = cmd.slot /\ pc' = "issued"
    BY <1>1, <1>3, <2>1, DeviceTypes, ToldSelects DEF Issue, Goto
  <2>3. Moves
    BY <2>2 DEF Moves, Issue, Places, Waiting
  <2> QED BY <2>3, MovesOK
<1> QED BY <1>2, <1>3

LEMMA SendPacketOK == ASSUME IInv, SendPacket PROVE IInv'
<1>1. TypeOK /\ port \in 1..2 /\ cmd.slot \in Slot
  BY PortType DEF IInv
<1>2. CASE dev' = dev /\ (Fail \/ Stop)
  <2>1. pc' \in {"halted", "probe"} /\ (pc' = "probe" => ~Uses("read"))
    BY <1>2, PlaceTypes
  <2>2. Moves
    BY <1>1, <1>2, <2>1 DEF Moves, SendPacket, Places, Waiting, TypeOK
  <2> QED BY <2>2, MovesOK
<1>3. CASE Goto("sent") /\ Told(port, cmd.slot, "data")
  <2>1. dev' \in [1..2 -> Device] /\ dev'[port].selected = cmd.slot /\ pc' = "sent"
    BY <1>1, <1>3, DeviceTypes, ToldSelects DEF Goto, Works
  <2>2. Moves
    BY <2>1 DEF Moves, SendPacket, Places, Waiting
  <2> QED BY <2>2, MovesOK
<1> QED BY <1>2, <1>3 DEF SendPacket
-----------------------------------------------------------------------------
(* A command that is over, and one that failed.                            *)
LEMMA SectorReadOK ==
  ASSUME IInv, SectorRead, Uses("read"), pc \in {"issued", "sent"},
         UNCHANGED <<machine, slot, disks, page>>
  PROVE  Progress'
<1>1. TypeOK /\ cmd.slot \in Slot /\ dev[port].selected = cmd.slot
  BY PortType DEF IInv, Commanded
<1>2. slot = 5 /\ disks # <<>> /\ GameDisk.type \in DOMAIN PerPage /\ Reading(Sectors(GameDisk.type))
  BY DEF IInv, Progress
<1>3. GameDisk' = GameDisk /\ machine[GameDisk.slot] = GameDisk.type
  <2>1. GameDisk' = GameDisk
    BY Zenon DEF GameDisk
  <2> QED BY <1>1, <1>2, <2>1, GameDiskFound
<1>4. PICK n \in Nat : n = Sectors(GameDisk.type)
  BY <1>2 DEF Sectors, DiskAssumption, IInv
<1>5. PICK base \in Nat : base = page * n
  BY <1>1, <1>4 DEF TypeOK
<1>6. PICK k \in Nat : k = Len(buffer)
  BY <1>1, LenProperties DEF TypeOK
<1>7. cmd.slot = GameDisk.slot /\ k < n /\ cmd.lba = base + k
      /\ \A i \in 1..k : buffer[i] = <<GameDisk.slot, base + i - 1>>
  BY <1>1, <1>2, <1>4, <1>5, <1>6 DEF Reading
<1>8. /\ Len(buffer') = k + 1 /\ buffer'[k + 1] = <<GameDisk.slot, base + k>>
      /\ \A i \in 1..k : buffer'[i] = buffer[i]
  <2>1. PICK x \in Slot \X Nat : x = <<dev[port].selected, cmd.lba>>
    BY <1>1 DEF TypeOK
  <2>2. buffer' = Append(buffer, x) /\ x = <<GameDisk.slot, base + k>>
    BY <1>1, <1>7, <2>1 DEF SectorRead
  <2> QED BY <1>1, <1>6, <2>2, AppendProperties DEF TypeOK
<1>9. ASSUME NEW i \in 1..(k + 1) PROVE buffer'[i] = <<GameDisk.slot, base + i - 1>>
  <2>1. CASE i = k + 1
    <3>1. base + i - 1 = base + k
      BY <2>1
    <3> QED BY <1>8, <2>1, <3>1
  <2>2. CASE i # k + 1
    <3>1. i \in 1..k
      BY <2>2
    <3> QED BY <1>7, <1>8, <3>1
  <2> QED BY <2>1, <2>2
<1>10. /\ Sectors(machine[cmd.slot]) = n
       /\ IF k + 1 = n THEN pc' = "done" /\ cmd' = cmd
          ELSE /\ pc' = "select" /\ cmd'.slot = cmd.slot /\ cmd'.lba = base + k + 1
               /\ cmd'.name = "read"
  <2>1. Sectors(machine[cmd.slot]) = n
    BY <1>3, <1>4, <1>7
  <2> QED BY <1>1, <1>7, <1>8, <2>1 DEF SectorRead, NextSector, Goto, TypeOK, Uses
<1>11. Reading(n)'
  <2>1. cmd'.slot = GameDisk'.slot /\ page' = page
    BY <1>3, <1>7, <1>10
  <2>2. IF pc' = "done" THEN Len(buffer') = n
        ELSE Len(buffer') < n /\ cmd'.lba = base + Len(buffer')
    BY <1>7, <1>8, <1>10
  <2> QED BY <1>3, <1>5, <1>8, <1>9, <2>1, <2>2, Zenon DEF Reading
<1> QED BY <1>2, <1>3, <1>4, <1>10, <1>11 DEF Progress, Uses

LEMMA OverOK ==
  ASSUME IInv, Over, pc \in {"issued", "sent"}, dev' \in [1..2 -> Device],
         UNCHANGED <<machine, slot, page>>
  PROVE  IInv'
<1>1. TypeOK /\ dev[port].selected = cmd.slot /\ ~Uses("none") /\ cmd.slot \in Slot
  BY PortType DEF IInv, Commanded, Waiting
<1>2. DiskAssumption
  BY DEF IInv
<1>3. CASE Uses("read")
  <2>1. SectorRead /\ disks' = disks
    BY <1>3 DEF Over, Uses
  <2>2. Progress'
    BY <1>3, <2>1, SectorReadOK
  <2>3. pc' \in {"select", "done"} /\ cmd'.name = "read"
    BY <1>1, <1>3, <2>1 DEF SectorRead, NextSector, Goto, Uses, TypeOK
  <2>4. TypeOK'
    BY <1>1, <1>2, <2>3, OverTypes DEF TypeOK, Commands, Places, Uses
  <2> QED BY <1>2, <2>2, <2>3, <2>4 DEF IInv, Commanded, Waiting, Uses
<1>4. CASE ~Uses("read")
  <2>1. (Uses("identify") /\ Identified) \/ (Uses("capacity") /\ Measured)
    BY <1>1, <1>4 DEF Over, Uses, TypeOK
  <2>2. cmd'.name \in {"identify", "capacity"} /\ pc' \in {"select", "probe"}
        /\ (cmd'.name = "capacity" => machine'[cmd'.slot] = "ATAPI") /\ page' \in Nat
    BY <1>1, <2>1 DEF Identified, Measured, Goto, Uses, TypeOK
  <2>3. TypeOK'
    BY <1>1, <1>2, <2>2, OverTypes DEF TypeOK, Commands, Places, Uses
  <2> QED BY <1>2, <2>2, <2>3 DEF IInv, Commanded, Waiting, Progress, Uses
<1> QED BY <1>3, <1>4

LEMMA FailOK ==
  ASSUME IInv, Fail \/ Stop, dev' \in [1..2 -> Device],
         UNCHANGED <<machine, slot, disks, cmd, page, buffer>>
  PROVE  IInv'
<1>1. pc' \in {"halted", "probe"} /\ (pc' = "probe" => ~Uses("read"))
  BY PlaceTypes
<1>2. Moves
  BY <1>1 DEF Moves, found, Places, Waiting
<1> QED BY <1>2, MovesOK

LEMMA IdentifyOK == ASSUME IInv, Identify PROVE IInv'
<1>1. TypeOK /\ port \in 1..2
  BY PortType DEF IInv
<1>2. dev' \in [1..2 -> Device]
  BY <1>1, DeviceTypes DEF Identify, TypeOK
<1> QED BY <1>2, OverOK, FailOK DEF Identify

LEMMA ReadSectorOK == ASSUME IInv, ReadSector PROVE IInv'
<1>1. TypeOK /\ port \in 1..2
  BY PortType DEF IInv
<1>2. dev' \in [1..2 -> Device]
  BY <1>1, DeviceTypes DEF ReadSector, TypeOK
<1> QED BY <1>2, OverOK, FailOK DEF ReadSector

LEMMA ReceivePacketOK == ASSUME IInv, ReceivePacket PROVE IInv'
<1>1. TypeOK /\ port \in 1..2
  BY PortType DEF IInv
<1>2. dev' \in [1..2 -> Device]
  BY <1>1, DeviceTypes DEF ReceivePacket, TypeOK
<1> QED BY <1>2, OverOK, FailOK DEF ReceivePacket

LEMMA ProbeOK == ASSUME IInv, Probe PROVE IInv'
<1>1. TypeOK /\ slot \in Slot /\ slot # 5 /\ slot' \in 1..5 /\ ~Uses("read")
  BY DEF IInv, Probe, Slot, Progress
<1>2. dev' \in [1..2 -> Device]
  <2>1. Reset(Port(slot)) => dev' \in [1..2 -> Device]
    BY <1>1, PortRange, DeviceTypes, Zenon
  <2> QED BY <1>1, <2>1 DEF Probe, TypeOK
<1>3. \/ pc' = "probe" /\ cmd' = cmd
      \/ pc' = "select" /\ cmd' = [name |-> "identify", slot |-> slot, lba |-> 0]
  BY DEF Probe, Goto
<1>4. TypeOK'
  BY <1>1, <1>2, <1>3 DEF TypeOK, Probe, Uses
<1>5. Commanded' /\ Progress'
  BY <1>1, <1>3 DEF Commanded, Waiting, Progress, Uses
<1> QED BY <1>4, <1>5 DEF IInv

LEMMA ReadPageOK == ASSUME IInv, NEW n \in Nat, ReadPage(n) PROVE IInv'
<1>1. /\ TypeOK /\ slot = 5 /\ disks # <<>> /\ page' = n /\ buffer' = <<>>
      /\ UNCHANGED <<machine, dev, slot, disks>>
  BY DEF IInv, ReadPage, device, found, Slot, TypeOK
<1>2. GameDisk' = GameDisk /\ GameDisk.slot \in Slot
  <2>1. GameDisk' = GameDisk
    BY <1>1, Zenon DEF GameDisk
  <2> QED BY <1>1, <2>1, GameDiskFound
<1>3. buffer' \in Seq(Slot \X Nat) /\ Len(buffer') = 0
  BY <1>1, EmptySeq
<1>4. CASE GameDisk.type \notin DOMAIN PerPage
  <2>1. pc' = "halted" /\ cmd' = cmd
    BY <1>4 DEF ReadPage, Stop
  <2>2. TypeOK'
    BY <1>1, <1>3, <2>1 DEF TypeOK, Uses
  <2> QED BY <1>1, <2>1, <2>2 DEF IInv, Commanded, Waiting, Progress, Uses
<1>5. CASE GameDisk.type \in DOMAIN PerPage
  <2>1. PICK k \in Nat : k = Sectors(GameDisk.type) /\ k > 0
    BY <1>5 DEF Sectors, DiskAssumption, IInv
  <2>2. PICK base \in Nat : base = n * k
    BY <2>1
  <2>3. pc' = "select" /\ cmd' = [name |-> "read", slot |-> GameDisk.slot, lba |-> base]
    BY <1>5, <2>1, <2>2 DEF ReadPage, Goto
  <2>4. TypeOK'
    BY <1>1, <1>2, <1>3, <2>3 DEF TypeOK, Uses
  <2>5. Reading(k)'
    <3>1. cmd'.slot = GameDisk'.slot /\ page' * k = base
      BY <1>1, <1>2, <2>2, <2>3
    <3>2. pc' # "done" /\ Len(buffer') < k /\ cmd'.lba = base + Len(buffer')
      BY <1>3, <2>1, <2>3
    <3>3. \A i \in 1..Len(buffer') : FALSE
      BY <1>3
    <3> QED BY <3>1, <3>2, <3>3, Zenon DEF Reading
  <2> QED BY <1>1, <1>2, <1>5, <2>1, <2>3, <2>4, <2>5 DEF IInv, Commanded, Waiting, Progress, Uses
<1> QED BY <1>4, <1>5

LEMMA StepOK == IInv /\ [Next]_vars => IInv'
<1> SUFFICES ASSUME IInv, [Next]_vars PROVE IInv'
  OBVIOUS
<1>1. CASE UNCHANGED vars
  <2>1. Moves
    BY <1>1 DEF IInv, Moves, vars, found, TypeOK, Commanded, Places, Waiting, port
  <2> QED BY <2>1, MovesOK
<1>2. CASE Driver
  BY <1>2, ProbeOK, StillBusyOK, TimedOutOK, SelectOK, IssueOK, SendPacketOK, IdentifyOK,
     ReadSectorOK, ReceivePacketOK DEF Driver
<1>3. ASSUME NEW p \in 1..2, Finish(p) PROVE IInv'
  BY <1>3, FinishOK
<1>4. ASSUME NEW n \in 0..(SECTORS \div 2), ReadPage(n) PROVE IInv'
  BY <1>4, ReadPageOK
<1> QED BY <1>1, <1>2, <1>3, <1>4 DEF Next

LEMMA PageKept == IInv => PageRead
<1> SUFFICES ASSUME IInv, pc = "done"
             PROVE  LET n == Sectors(GameDisk.type)
                    IN  buffer = [i \in 1..n |-> <<GameDisk.slot, page * n + i - 1>>]
  BY DEF PageRead
<1> DEFINE n == Sectors(GameDisk.type)
<1>1. Reading(n)
  BY DEF IInv, Progress
<1>2. buffer \in [1..Len(buffer) -> Slot \X Nat]
  BY LenProperties DEF IInv, TypeOK
<1> HIDE DEF n
<1>3. buffer = [i \in 1..n |-> <<GameDisk.slot, page * n + i - 1>>]
  BY <1>1, <1>2 DEF Reading
<1> QED BY <1>3 DEF n

(* A page that is reported as read holds the sectors of that page of the   *)
(* game disk, for every machine, every size of disks and pages, and        *)
(* whatever became of the other devices and of earlier commands.           *)
THEOREM PagesComeWhole ==
  ASSUME DiskAssumption
  PROVE  Spec => []PageRead
<1>1. Init => IInv
  BY InitOK
<1>2. IInv /\ [Next]_vars => IInv'
  BY StepOK
<1>3. IInv => PageRead
  BY PageKept
<1> QED BY <1>1, <1>2, <1>3, PTL DEF Spec
=============================================================================
