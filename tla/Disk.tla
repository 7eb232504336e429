-------------------------------- MODULE Disk --------------------------------
(***************************************************************************)
(* The disk driver: init_ata, the commands of ata.c, and hdd.c, which      *)
(* chooses the game disk and reads a page of it.                           *)
(*                                                                         *)
(* The driver polls: between two looks at the status a device may become   *)
(* ready, or not.  Devices are what the driver expects of them: one works  *)
(* on a command while it is busy, then asks for data or offers them (drq), *)
(* or reports an error; it gives all the data of a command at once.        *)
(***************************************************************************)
EXTENDS Integers, Sequences, SequencesExt

CONSTANTS
  Machines,        \* bound: the kinds of devices in a machine's slots
  SECTORS,         \* sectors of every disk
  PerPage,         \* from ATA and ATAPI to the sectors of a page
  TRIES,           \* 1000
  MaxReads         \* bound: pages read

Slot == 1..4                     \* two ports, two devices each
Port(s) == (s + 1) \div 2
HasPacket(kind) == kind \in {"ATAPI", "SATAPI"}

DiskAssumption ==
  /\ Machines \subseteq [Slot -> {"NONE", "ATA", "ATAPI", "SATA", "SATAPI"}]
  /\ PerPage \in [{"ATA", "ATAPI"} -> Nat \ {0}]
  /\ {SECTORS, TRIES, MaxReads} \subseteq Nat

VARIABLES
  machine,         \* the kind of device in every slot
  dev,             \* per port: the slot selected, and status and data
  slot,            \* the next slot to look at; 5 when all were
  disks,           \* disks[0], disks[1], ...: slot, type and max_lba
  pc, tries,       \* where the driver is, looks at the status left
  cmd,             \* its command, for the device of a slot
  page, buffer,    \* the page being read, and the sectors read so far
  reads            \* pages read

device == <<machine, dev>>
found == <<slot, disks>>
vars == <<machine, dev, slot, disks, pc, tries, cmd, page, buffer, reads>>

Idle == [selected |-> 0, busy |-> FALSE, drq |-> FALSE, err |-> FALSE, work |-> "none"]
NoCommand == [name |-> "none", slot |-> 1, lba |-> 0]

Init ==
  /\ machine \in Machines
  /\ dev = [p \in 1..2 |-> Idle]
  /\ slot = 1 /\ disks = <<>> /\ pc = "probe" /\ tries = 0 /\ cmd = NoCommand
  /\ page = 0 /\ buffer = <<>> /\ reads = 0

port == Port(cmd.slot)
Status == dev[port]
-----------------------------------------------------------------------------
(* The device that is selected: it finishes what it was told to do.  An    *)
(* error may come with or without data.                                    *)
Refuses(s, work, lba) ==
  \/ machine[s] = "NONE" \/ lba >= SECTORS
  \/ work = "identify" /\ machine[s] = "SATAPI"

Finish(p) ==
  LET d == dev[p]
      Ready(drq, err) == dev' = [dev EXCEPT ![p].busy = FALSE, ![p].drq = drq, ![p].err = err]
  IN  /\ d.busy
      /\ IF d.work = "none" THEN Ready(FALSE, FALSE)
         ELSE \/ Ready(FALSE, TRUE) \/ Ready(TRUE, TRUE)
              \/ ~Refuses(d.selected, d.work, cmd.lba) /\ Ready(TRUE, FALSE)
      /\ UNCHANGED <<machine, found, pc, tries, cmd, page, buffer, reads>>

(* A command register is written, or the packet that goes with one.        *)
Told(p, s, work) ==
  dev' = [dev EXCEPT ![p] = [@ EXCEPT !.selected = s, !.busy = TRUE, !.drq = FALSE,
                                      !.err = FALSE, !.work = work]]
Drained(p) == dev' = [dev EXCEPT ![p].drq = FALSE, ![p].work = "none"]
-----------------------------------------------------------------------------
Goto(where) == pc' = where /\ tries' = TRIES
Stop == pc' = "halted" /\ tries' = 0

(* One look at the status in ata_status_notbusy, which gives up after      *)
(* TRIES of them.                                                          *)
TriesKept == tries                                \* faulty: no time-out
TriesLeft == tries - 1

Waiting == pc \in {"select", "selected", "issued", "sent"}
StillBusy ==
  /\ Waiting /\ Status.busy /\ tries > 1
  /\ tries' = TriesLeft
  /\ UNCHANGED <<device, found, pc, cmd, page, buffer, reads>>

(* A command that fails ends what it was for: init_ata_dev leaves the      *)
(* device out, page_fault halts the machine.                               *)
Fail == IF cmd.name = "read" THEN Stop ELSE pc' = "probe" /\ tries' = 0

TimedOut ==
  /\ Waiting /\ Status.busy /\ tries <= 1
  /\ Fail
  /\ UNCHANGED <<device, found, cmd, page, buffer, reads>>

(* ata_select, and the rest of ata_setup_command.                          *)
Select ==
  /\ pc = "select" /\ ~Status.busy
  /\ IF Status.drq
     THEN tries' = TRIES /\ UNCHANGED <<pc, dev>>
     ELSE /\ Goto("selected")
          /\ dev' = [dev EXCEPT ![port].selected = cmd.slot]
  /\ UNCHANGED <<machine, found, cmd, page, buffer, reads>>

Issue ==
  /\ pc = "selected" /\ ~Status.busy
  /\ IF Status.drq THEN Stop /\ UNCHANGED dev
     ELSE /\ Goto("issued")
          /\ Told(port, cmd.slot, IF cmd.name = "read" /\ HasPacket(machine[cmd.slot])
                                  THEN "packet" ELSE cmd.name)
  /\ UNCHANGED <<machine, found, cmd, page, buffer, reads>>

Uses(name) == cmd.name = name
ByPacket == Uses("capacity") \/ (Uses("read") /\ HasPacket(machine[cmd.slot]))

(* atapi_packet: the device asks for the packet.                           *)
SendPacket ==
  /\ pc = "issued" /\ ByPacket /\ ~Status.busy
  /\ IF Status.err THEN Fail /\ UNCHANGED dev
     ELSE IF ~Status.drq THEN Stop /\ UNCHANGED dev
     ELSE Goto("sent") /\ Told(port, cmd.slot, "data")
  /\ UNCHANGED <<machine, found, cmd, page, buffer, reads>>

(* The commands are over: what their callers do with the data.             *)
Disk(type, lba) == [slot |-> cmd.slot, type |-> type, max_lba |-> lba]
Identified ==
  IF machine[cmd.slot] = "ATAPI"
  THEN cmd' = [cmd EXCEPT !.name = "capacity"] /\ Goto("select") /\ UNCHANGED disks
  ELSE /\ disks' = Append(disks, Disk(machine[cmd.slot], SECTORS))
       /\ pc' = "probe" /\ tries' = 0 /\ UNCHANGED cmd
Measured ==
  /\ disks' = Append(disks, Disk("ATAPI", SECTORS - 1))
  /\ pc' = "probe" /\ tries' = 0 /\ UNCHANGED cmd

NextSector == [cmd EXCEPT !.lba = @ + 1]

Sectors(type) == PerPage[type]
SectorRead ==
  /\ buffer' = Append(buffer, <<dev[port].selected, cmd.lba>>)
  /\ IF Len(buffer') = Sectors(machine[cmd.slot])
     THEN pc' = "done" /\ tries' = 0 /\ UNCHANGED cmd
     ELSE cmd' = NextSector /\ Goto("select")

Over == IF Uses("identify") THEN Identified /\ UNCHANGED buffer
        ELSE IF Uses("capacity") THEN Measured /\ UNCHANGED buffer
        ELSE SectorRead /\ UNCHANGED disks

(* ata_identify_device takes the data that are there and then looks for    *)
(* errors.                                                                 *)
Identify ==
  /\ pc = "issued" /\ Uses("identify") /\ ~Status.busy
  /\ IF Status.drq THEN Drained(port) ELSE UNCHANGED dev
  /\ IF Status.err THEN Fail /\ UNCHANGED <<cmd, disks, buffer>> ELSE Over
  /\ UNCHANGED <<machine, slot, page, reads>>

(* ata_read_lba28 halts when there are no data, and fails when they come   *)
(* with an error.                                                          *)
ReadSector ==
  /\ pc = "issued" /\ Uses("read") /\ ~ByPacket /\ ~Status.busy
  /\ IF ~Status.drq THEN Stop /\ UNCHANGED <<dev, cmd, disks, buffer>>
     ELSE /\ Drained(port)
          /\ IF Status.err THEN Fail /\ UNCHANGED <<cmd, disks, buffer>> ELSE Over
  /\ UNCHANGED <<machine, slot, page, reads>>

ReceivePacket ==
  /\ pc = "sent" /\ ~Status.busy
  /\ IF Status.err THEN Fail /\ UNCHANGED <<dev, cmd, disks, buffer>>
     ELSE IF ~Status.drq THEN Stop /\ UNCHANGED <<dev, cmd, disks, buffer>>
     ELSE Drained(port) /\ Over
  /\ UNCHANGED <<machine, slot, page, reads>>
-----------------------------------------------------------------------------
(* init_ata_dev.  ata_reset resets both devices of the port, and does not  *)
(* wait until they are done: a slow one may be taken for none at all.      *)
Reset(p) == dev' = [dev EXCEPT ![p] = [Idle EXCEPT !.busy = TRUE]]

Probe ==
  /\ pc = "probe" /\ slot \in Slot
  /\ slot' = slot + 1
  /\ IF machine[slot] = "NONE" THEN UNCHANGED <<dev, pc, tries, cmd>>
     ELSE /\ Reset(Port(slot))
          /\ \/ UNCHANGED <<pc, tries, cmd>>
             \/ Goto("select") /\ cmd' = [name |-> "identify", slot |-> slot, lba |-> 0]
  /\ UNCHANGED <<machine, disks, page, buffer, reads>>

(* setup_hdd takes the first packet device, or else the first disk; there  *)
(* is nothing to read if there is none.                                    *)
GameDisk ==
  LET cds == {i \in DOMAIN disks : disks[i].type = "ATAPI"}
  IN  disks[IF cds = {} THEN 1 ELSE Min(cds)]

(* hdd_read_page.                                                          *)
ReadPage(n) ==
  /\ slot \notin Slot /\ pc \in {"probe", "done"}
  /\ disks # <<>> /\ reads < MaxReads
  /\ page' = n /\ buffer' = <<>> /\ reads' = reads + 1
  /\ IF GameDisk.type \notin DOMAIN PerPage THEN Stop /\ UNCHANGED cmd
     ELSE /\ Goto("select")
          /\ cmd' = [name |-> "read", slot |-> GameDisk.slot, lba |-> n * Sectors(GameDisk.type)]
  /\ UNCHANGED <<device, found>>

Driver ==
  \/ Probe \/ StillBusy \/ TimedOut \/ Select \/ Issue
  \/ SendPacket \/ Identify \/ ReadSector \/ ReceivePacket

Next == Driver \/ (\E p \in 1..2 : Finish(p)) \/ (\E n \in 0..(SECTORS \div 2) : ReadPage(n))

(* The driver polls; whether a device ever answers is not its business.    *)
Spec == Init /\ [][Next]_vars
FairSpec == Spec /\ WF_vars(Driver)
-----------------------------------------------------------------------------
(* A page that is reported as read holds the sectors of that page of the   *)
(* game disk, whatever became of the other devices and of earlier commands.*)
PageRead ==
  pc = "done" =>
    LET n == Sectors(GameDisk.type)
    IN  buffer = [i \in 1..n |-> <<GameDisk.slot, page * n + i - 1>>]

(* The driver is done with every device and every page some time, whatever *)
(* the devices do, unless a device offers data of a command the driver     *)
(* gave up: nobody takes them, and ata_select waits for ever.              *)
LateAnswer == pc = "select" /\ ~Status.busy /\ Status.drq
PollingEnds == Waiting ~> (~Waiting \/ LateAnswer)
=============================================================================
