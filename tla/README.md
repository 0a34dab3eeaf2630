# SanderOSUSB: TLA+ models, checks and proofs

SanderOSUSB is a 32-bit monolithic kernel (C, built by `kernel/build.sh`) with
its own drivers, file systems and network stack, and a small libc for the
programs it loads.  This directory keeps, beside the code, a TLA+ model of the
parts in which state, interrupts, devices and time interact, the TLC
configurations that check them on small instances, and TLAPS proofs about them
for every value of the constants.  Paths below are relative to the repository.

## 1. Inventory

All state is global; there is one processor.  Control flows are: the main flow
(`kernel_main`, then the shell or the loaded program), the interrupt handlers,
and - if anybody called `createTask`, which nothing in the kernel does - created
tasks.  Four facts about the platform shape every model:

* every function of `kernel/hal/i386/io_ports.c` ends in `sti`.  A handler that
  touches a port (all of them do: the end-of-interrupt is a port write) runs its
  rest with interrupts enabled, and so does a `cli` section that touches one;
* the interrupt controllers hold back an interrupt of the same or lower priority
  until the end-of-interrupt, so it is after that write that handlers nest;
* `volatile` is used on some of the flags handlers share with the main flow, not
  on all; files are compiled -O0 or -O2 (`kernel/build.sh`);
* there is no lock of any kind: a handler interrupts a driver anywhere.

| Component | Source | State | Operations | What is hard |
|---|---|---|---|---|
| Multitasking | `kernel/hal/i386/multitasking.c`, stub in `isr.asm` | `registers[10]`, `regnow`, `regcount` | timer interrupt, createTask, killTask | preemption inside createTask; kills; the saved stack pointer is never loaded |
| Timer | `kernel/dev/timer.c` | `timer`, `ticks` of the current process | irq_timer, sleep, resetTicks, getTicks | handlers nest after the EOI; sleep and timeouts share one counter; equality-tested timeouts |
| Memory | `kernel/dev/memory.c` | `memreg[]` | malloc, malloc_align, free, realloc | interrupt handlers allocate too; free and realloc compute the wrong index; full table |
| Interrupt gates, syscalls | `kernel/hal/i386/interrupts.c`, `isr.asm` | IDT, `filesymboltable[]` (the file table) | INT 0x80 requests, faults | open/close/read with two files; positions at end of file |
| Keyboard and mouse | `kernel/dev/ps2.c` | `keyword`, `keyword_shift`, mouse packet, cursor and the pixels under it | irq_keyboard, irq_mouse, getch, getInputStatus | a one-key mailbox; a packet out of step |
| Terminal | `kernel/dev/terminal.c` | line buffer, cwd, command table | read_line, commands | line length, backspace |
| RTL8169, E1000 | `kernel/dev/RTL8169.c`, `e1000.c` | descriptor rings, `package_recieved` | receive interrupt, send, receive | ring ownership between card and driver; the handler sends answers with the descriptors the main flow uses |
| Network stack | `kernel/dev/ethernet.c` | ARP/IP/UDP/TCP state, `ethjmplist` | DHCP, ARP, DNS, TCP, handlers | lost, duplicated and late packets; waits without timeout |
| TFTP | `kernel/fs/tftp.c` | file buffer | tftp_read, exists | block numbers, loss, the last block |
| Sound, serial | `soundblaster16.c`, `com_port.c` | `irq_fire`, serial ring | play, interrupt | completion flag; keyboard injection |
| IDE/ATA(PI) | `kernel/dev/ide.c` | `ideXirq`, drives | read, write, eject, reset | completion flag set by the interrupt, cleared by the driver; timeouts |
| AHCI | `kernel/dev/AHCI.c` | command lists | find slot, read, write, packet | slot leaks after a timeout |
| EHCI, UHCI, XHCI | `kernel/dev/ehci.c`, `uhci.c`, `xhci.c` | ring pointers, cycle bits, addresses | enumerate, control, bulk | ring wrap and cycle bit; two devices with one address |
| USB mass storage, HID | `usb_stick.c`, `usb_hid.c`, `usb.c` | device descriptors, lanes | BOT read/write, key poll | a status phase left in the pipe |
| Devices, MBR | `kernel/dev/device.c`, `fs/mbr.c` | `devices[25]` | dir, exists, read, write by path, partitions | table bound; letters |
| SFS | `kernel/fs/sfs.c` | table and data sectors | create, write, read, dir | crash between table and data; 8-bit offsets |
| FAT | `kernel/fs/fat.c` | boot sector fields, cluster chain | dir, read, write | chain walk |
| ISO9660, EXT2 | `kernel/fs/iso9660.c`, `ext.c` | sector buffers | dir, exists, read | path walk |
| ELF, programs | `kernel/exec/elf.c`, `program.c` | loaded image | loadelf, relocations | |
| PCI, ACPI, CMOS, CPUID, VirtualBox, paging | `pci.c`, `acpi.c`, `cmos.c`, `cpuid.c`, `vbox.c`, `paging.c` | configuration registers | probing at boot | mostly reads of hardware tables |
| Video and GUI | `kernel/dev/video.c`, `hal/i386/video.asm` | cursor, controls, focus | putc, cls, show, message, browse | focus ring, loops waiting for input |
| Library and programs | `lib/modern.c`, `programs/` | `FILE` structures | libc over INT 0x80 | |

PROJECT.json lists every component with what is modelled of it, and the hazards
at their lines.

## 2. What makes the components correct

* **Multitasking**: a task goes on exactly where it stood; a slot is one task's;
  creation never touches a slot that runs; no ready task is passed over.
* **Memory**: nobody is given memory that somebody holds; calls come back.
* **System calls**: two open files do not disturb each other; what is read is
  the file at the position; a write goes to the file that was opened.
* **Keyboard and mouse**: keys come in order, once, with the right case; the
  cursor is where the mouse led it and leaves the screen as it was.
* **RTL8169 / E1000**: a packet is delivered at most once, a send returns with its
  packet out, a request is answered, the ring never stands still for nothing.
* **Network stack, TFTP**: with packets lost, repeated or late, a client returns
  the answer to its own question, or says that it has none.
* **IDE, AHCI**: a write that returned is on the disk and nowhere else; a read
  gives the disk's content; calls return.
* **USB controllers and storage**: a ring never overruns the controller, an
  address is one device's, data and status phases stay matched.
* **SFS, FAT**: what was written is read back, whatever else is written, and
  after any loss of power.
* **Devices, MBR, terminal, controls**: table and line bounds, the focus ring.

## 3. Modules

Every module keeps the names of the C variables and functions for its variables
and actions, so that the two can be read side by side; `map` in PROJECT.json
gives the lines of each definition.  Proofs stand in modules of their own
(section 6).  A step of a model is as long as nothing else can interfere in the
code: an interrupt handler that runs to its end is one
action unless something it waits for happens meanwhile (a device, a nested
handler), and a function of the main flow is cut wherever a handler, a device or
a loss of power between two of its statements makes a difference.  Variables
marked *history* do not exist in the code; they record what a property needs and
guard nothing but the stated bounds.  Definitions whose comment begins with
`Mutant:` are plausible mistakes; no specification uses them.

| Level | Modules | Composed by |
|---|---|---|
| processor and memory | `Multitasking`, `Memory` | - |
| disks | `Ide`, `Ahci`, both shown to implement `BlockDevice` | `MC_Disks` |
| file systems | `Sfs`, `Fat`, `Iso` | `Devices` (letters, partitions, boot, power loss) |
| network cards | `Rtl8169`, `E1000` | `MC_Cards` |
| network stack | `Network` (DHCP, ARP, DNS, TFTP), `Tcp`, `Headers` | `MC_Network` |
| USB | `Ehci`, `Xhci` | `MC_Usb` |
| requests and input | `Files`, `Ps2` | - |

`MC_Cards`, `MC_Disks`, `MC_Network` and `MC_Usb` put independent state machines
into one run; a behaviour is of one of them, the others stand at their start.
`Devices` is a real composition: its actions call those of the file systems.

### Multitasking (`kernel/hal/i386/multitasking.c`)
`registers`, `regnow` and `regcount` are the code's.  `cpu` is what the processor
is executing: a task and the point it has reached.  An image also names the
stack it runs on, because the handler's stub (`isr.asm:269-285`) restores all
registers but esp.  `Tick` is `irq_multitasking` whole: save, rotate to the next
active slot, load; `TickHangs` is its loop when every slot was killed.
`createTask` is cut at its `sti`: `CreateFill` (slot filled, interrupts on) and
`CreateReturn` (`regcount` stored), with `CreateRefused` for a full table, which
returns with the interrupts off.  `PortIO` is any port access: it turns them on.

### Memory (`kernel/dev/memory.c`)
`memreg` is the table.  `memcleanup` is a comparison a step (`Compare`,
`EndPass`), `malloc_align` then `Scan`s for a block of the right size, or
`Assign`s an address above the highest one, and `Place`s, `Mark`s and `Return`s
it.  `Free` steps over the table by the square of the entry size, as the code
does.  Any number of flows: a handler's call runs to its end while the main flow
stands still between any two of its steps.

### BlockDevice, Ide, Ahci (`kernel/dev/ide.c`, `kernel/dev/AHCI.c`)
`BlockDevice` is the abstract specification, what `readRawSector` and
`writeRawSector` of a `Device` promise a file system: one call at a time, a read
returns the content, a write is on the disk when it returns - until a driver
gives up, which it does not say.

`Ide`: `ata_read_sector` and `ata_write_sector` are a step per group of port
accesses between which the drive may act; `irq_ide` sets the flag `ideXirq`.  The
drive (external) has a state, a sector buffer, a cache and a platter, and takes
any time for anything.  `WaitForReady` may give up at once, which it does in the
code after a number of ticks, without telling its caller.  `IdeIsDisk` instantiates
`BlockDevice` with the platter as content and `late` as `failed`.

`Ahci`: one port with an ATA or ATAPI drive, from `stop_cmd` and `port_rebase`
over the reads that decide whether it becomes a device (sector 0; ten sectors
searched for the mark of ISO 9660; an eject when there is no medium) to the reads
of file systems.  A command stands in a slot (`table`, `ci`); the controller
(external) `Fetches`, `Completes`, or `Errs` and halts.  `Completed` and `GivesUp`
are the two ends of a wait, `Returns` what each caller does next.  `AhciIsDisk` is
the same refinement with a content that nobody writes: the driver's `Device` has
no `writeRawSector`.

### Sfs, Fat, Iso, Devices (`kernel/fs/`, `kernel/dev/device.c`)
`Sfs`: `disk` holds both tables and the data, `filetable` and `tabletable` are the
copies in memory.  `sfs_write` is a step per sector it writes: `WriteBegin` (all
that is computed before the first write), `PutFiles`, `PutTable`, then `PutData` or
`SkipSector` for each sector, and `WriteReturn`.  `sfs_get_detail` is the walk over
the path.

`Fat`: `fat_write` looks the path up (`Looks` leaves `last_dir_sector` and
`last_file_selected_index`), then `PutSize` writes the directory and `PutBlock` the
data, sector by sector, in place.

`Iso`: the walk through the path table, which leaves the directory it found in the
global `dummy`; files are looked for there, as `Found`: the first entry whose ";1"
stands in the bytes looked at (`Seen`) and whose name the one asked for begins with
(`Alike`).

`Devices` detects drives one after the other, tries a file system on each
partition (MBR, the GUID table behind an EFI entry, or the whole disk), and puts
each volume into the next place of the table.  `fwrite` and `fread` call the file
system of a letter.  `PowerLoss` may come between any two sectors written; memory is
gone, and the boot begins again on what the disks hold.

### Rtl8169, E1000 (with `ethernet_handle_package` of `ethernet.c`)
`Rtl8169`: `ring` are the receive descriptors with their OWN bit, `tx` the one
transmit descriptor that is ever used, `isr` the card's interrupt status.  The
handler is a loop (`HandlerEnters`, `HandlerSkips`, `HandlerSends`, `HandlerSent`,
`HandlerScanned`, `HandlerLeaves`), because the card fills descriptors while it
runs and it waits for its own answers to go out.  `rtl_sendPackage` and
`rtl_recievePackage` are cut at each access of the ring or of the flag.

`E1000`: both rings with the card's head and tail.  Reading the causes clears them
(`HandlerEnters`), and a cause of a transmission or a change of the link
(`LinkChanges`) hides one of a reception.
`e1000.c` is built -O0: `tx_cur` is loaded at every use, and `SendLoads` and
`SendStores` are its increment, with the handler's own send possible between.

### Network, Tcp, Headers (`kernel/dev/ethernet.c`, `kernel/fs/tftp.c`)
`Network`: the wire is a set of packets, which `Deliver` puts into the next of the
card's buffers, once or leaving it to come again, seen by the handler first or not;
`Lose` takes one away.  The main flow is in one wait at a time (`pc`): for an
offer, for its approval, for a MAC address, for a name, for a block.  A wait `Drop`s
what it does not want; the DNS wait hands it to `ethernet_handle_package`, as the
code does.  `offeredip` is a pointer into a receive buffer, so `offered` names the
buffer and follows what the card puts there.  Other machines on the network ask for
addresses and answer each other (`Foreign`); nothing in the code tells their ARP
replies from the one waited for, and each packet of theirs starts the ten ticks of
a time-out again.  A question to the name server is asked whether its address is
known or not (`AskMac`); without one nobody answers.

`Tcp`: one session of a program.  `taaaX` and `taaaY` are written by the handler,
which acknowledges (`Handle`), and by the main flow in `fillTcpHeader`, which is a
step for each access of them: the two loads (`FillReads`), the load for the sum
(`FillAdds`) and its store (`FillStores`).  The handler may come before and after
each.  The peer (external) sends again what it has no acknowledge for.

`Headers`: the checksums computed as the code computes them, with bytes of `Byte`
values, and `ipv4count` read twice by the main flow with the handler's header
between.  `Total` is the loop that sums the words.

### Ehci, Xhci (`kernel/dev/ehci.c`, `xhci.c`, with `usb.c`, `usb_hid.c`, `usb_stick.c`)
`Ehci`: ports one after the other; each call is a list of descriptors (`Tds`) that
the controller (external) takes from the front, may fail at, or be late with;
`Continue` is what the caller does with a result, from the address to the
configuration and the install of a keyboard, a stick or anything else: the next
call, or the port is left - for an error, a descriptor that is not one, a class
of 0, a stick of a kind that is not supported, or because it was not enabled after
its reset (`Probe`).

`Xhci`: the command ring with its offset and the stop behind an address command,
the rings of the devices, the event ring.  `Count` and `Answer` are
`xhci_seek_end_event_queue` before the doorbell and the last event afterwards.
`Succeeds` and `Fails` are what the callers do with it: a port may be left after a
good answer too, and a control request (`Controls`) without one ends in
`for(;;)`.  A poll is one round of the loop of `get_usb_hid_keyboard_input`.

### Files (`kernel/hal/i386/interrupts.c`)
`table` is `filesymboltable`, `mem` the memory that blocks are given from, `prog`
(history) what the program may expect of each of its files.  One action per
request of INT 0x80 that changes a position, a block or a slot; `GetcGives` and
`WriteTarget` are what GETC returns and the name WRITE hands to the file system.
The sector that the file system writes into a block of half a sector is in
`Loaded`, the free that may miss a block in `Close`.

### Ps2 (`kernel/dev/ps2.c`, `keywait`, `draw` of `video.c`)
`keyword` is the mailbox of one key; a key is known by its place among the codes
sent, which is what lets order be stated.  `irq_keyboard` and `irq_mouse` are one
step each and may come between any two steps of the main flow: `keywait`, `Poll`,
`Take` (getch), `Look`, `LookEnds` (READ from handle 1), `DrawBegins` to
`StatusClears` (getInputStatus), `Paints`, `force_mouse_resample` (draw).  `Packet`
is what a mouse sends: a first byte with bit 3 set, the buttons below it and the
signs of the moves above it, and the two moves.

## 4. Runs

Every run's bounds are in its .cfg. `MC_*` modules hold the values TLC cannot
read from a .cfg. Type invariants are theorems of their own for `Multitasking`,
`Memory` and `Ide`; those of the other modules are conjuncts of one property of
their run (`HandleHasFile`, `KeysInOrder`, `NeitherTwice`, `DataInTime`,
`AnswerIsOurs`, `SessionHolds`, `ChecksumsVerify`). Deadlock is checked in
`files`. Everywhere else the code really may stop, or the bound on its inputs
ends the behaviour: the allocator with a full table, the IDE driver after its
wait for the flag timed out, the timer's handler with every task killed, the
E1000's handler after `torn`, the stick's and the unknown USB device's install,
XHCI after a control request that failed, an ATA wait behind AHCI after an
error, the machine after the division by zero on a blank disk (`halted`), the
network stack's waits without a time-out, and `getch` when nobody presses a key
any more.

| Run | Checks | Bounds, and why they are enough |
|---|---|---|
| `multitasking` | `ResumesWhereItStood`, `OneSlotPerTask`, `BoundedWait`, `EveryReadyTaskRuns` | four slots, five tasks: a full table with a refused creation, and slots killed on both sides of the current one |
| `multitasking_stack` | violation of `RunsOnOwnStack` | three slots |
| `memory` | `HeldApart`, `AssignsHighest`, `CallsReturn` | four entries, two held blocks, two sizes, two alignments: reuse of a freed block, a block freed but missed, a full table |
| `memory_irq` | violation of `AssignsHighest` | the same with a handler that allocates |
| `disks` | `NothingForeign`, `DataInTime`, `IdeIsDisk`, `AhciIsDisk`, `CommandsReturn` | IDE: two sectors apart and the ones behind them, counts of one and two, the drive as slow as it likes.  AHCI: three command slots, a search over two sectors, three reads, two errors: slots that stay taken until none is free |
| `filesystems` | `ReadBack`, `MemoryMatchesDisk`, `FatReadBack`, `SizeBeforeData`, `IsoFindsIts` | four machines; SFS with two entries and four free sectors, so that both tables overflow; contents of one and two blocks, files rewritten shorter and longer; FAT with a name that begins another and a directory; a CD of four directories, with a name that begins another before it and behind it, a file behind byte 1000 and one whose name is too long.  The table of devices has its 25 places, the path table is scanned for 20 entries as in the code |
| `cards` | `NeitherTwice`, `BothSentOnReturn`, `BothHearOn`, `BothAnswer`, `SendsComeBack` | receive rings of three, of which the RTL8169's driver looks at two: the ring goes round, and a packet lies where nobody looks.  Transmit ring of four: with nested sends three would make a full ring look empty.  Three packets, on the E1000 changes of the link counted with them - unbounded they would keep the main flow from ever going on -, and two sends (one on the E1000).  The answer to the second packet is waited for, which has one before and one after it |
| `network` | `OurIpIsLeased`, `MacIsOfAsked`, `AnswerIsToQuestion`, `ReadIsFile`, `SessionHolds`, `ChecksumsVerify`, `WaitsComeBack` | two DHCP servers, three buffers (an offer's buffer is filled again while the address points there), one fault, one call after the boot, packets of other machines one at a time and, once the first has come (which is the fault), without end; a session of two packets out, three in, one sent again; three headers over all words of two two-valued bytes: one that the handler spoils, and the next |
| `network_tftp` | violation of `FilesAreRead` | the same |
| `usb` | `AddressesApart`, `UsbDataInTime`, `AnswerIsOurs`, `UsbCallsReturn` | two ports, a device given up before one that works; an event ring of six places instead of sixteen, so that it fills within a run; two polls, so that the ring is full at one of them |
| `files` | `HandleHasFile`, `GetcGivesNext`, `WritesGoToFile` | two slots, two files, a path that is the beginning of the other, contents shorter and longer than a block |
| `input` | `KeysInOrder`, `WaiterWakes`, `PositionFollows`, `ScreenIsKept` | two by two pixels, two pictures, one with a black pixel; three codes, packets and pictures in any mix: shift, release and key; three packets with and without the left button, moves back by 1 and forward by 8, which may be taken for flags; a picture between two moves |

### What the properties except
The code does several things that its documents do not say, and the passing
properties name each of them rather than leaving it out of the model:

* *Memory*: `malloc` with a full table does not come back (`CallsReturn`).  Blocks
  that `free` misses stay used for ever; they fill the table, and no property
  speaks of that.  Sizes of 0 are not in the run: such a block ties with the one
  placed after it and the table is no longer in order (the theorems assume
  `NoEmptyBlocks`).
* *Ide*: after a wait has given up on a busy drive (`late`), the driver's next
  commands are ignored, nothing is promised but `NothingForeign`.  Only the first
  sector of a write of several is written.
* *Ahci*: an error stops the port for good; the read that met it returns what its
  buffer held before, and the next one of an ATA drive waits for ever (`dead`).  The
  wait for an ATAPI drive gives up, and the data may come afterwards (`stray`).
* *Sfs*: a write returns 1 although there was no entry or no sector left for it
  (`ReadBack` is about contents that fitted), every sector a file has gets its
  first block (`sfs.c:219`), and a path under a missing directory is written under
  the directory's name (`ReadBack` goes by names, not paths).  A second volume
  would replace the only copy of the tables (`sfs.c:41`); no machine has two.
* *Fat*: no file is made and no cluster allocated, so that a longer content goes
  over the file behind it; a name finds an entry that begins with it; a path of
  two names is never found; a read gives one sector; a write without a name goes
  over the root directory.  `kept` drops what such a write touches.  A blank disk
  divides by zero at boot (`halted`).
* *Iso*: a file in the root, or in a directory that does not exist, is looked for
  in the directory found last (`iso9660.c:201`); one behind byte 1000 of its
  directory, or with a name of more than 28 characters, is not found
  (`iso9660.c:214-219`), and one that begins with the name of an earlier file is
  taken for that one (`iso9660.c:228-232`).  A path that no dot is in is that of a
  directory; its parts are shorter than the 20 places of `pathchunk`.
* *Devices*: the twenty-sixth device would be put behind the table
  (`device.c:24`); no machine has so many.
* *Rtl8169*: a packet that comes while the handler runs may have its interrupt
  cleared unseen (`behind`); descriptors after the hundredth are filled and never
  read (`Scan`); the handler's answer may replace a packet being sent
  (`replied`).
* *E1000*: a packet may have to wait for the next one's interrupt (`merged`);
  descriptors given back out of order make the card write over one that is full
  or stop receiving (`overtaken`, `lost`, `Deaf`); an answer sent between the load
  and the store of `tx_cur` makes the next send wait for ever (`torn`).
* *Network*: the waits for an approval, a MAC address and a block have no
  time-out (`lost`), and `getMACFromIp` is called for the name server also when
  none is known, where it waits for ever (`dns_ip`, `interrupts.c:410-417`); the
  waits that have one do not end while packets of other machines keep coming, for
  each starts it again (`RTL8169.c:112`, `e1000.c:224`); any ARP reply is taken for
  the one asked for, another machine's or one left over from before (`stray`); a
  block that comes twice is taken for one of the next file (`again`); the offered
  address is read from a buffer the card may have filled again (`since`).
* *Tcp*: what a wait of the main flow drops is acknowledged with the packet after
  it (`missed`); a packet sent before the peer had ours sets our number back
  (`crossed`); nothing waits for the answer to the SYN, and a packet begun before
  it has any number (`early`).  *Headers*: an answer of the handler makes the checksum of the
  header being filled wrong (`shared`).
* *Ehci*: the address is counted on when a device was installed, not when it took
  it (`gaveUp`); the list is freed without waiting for the controller (`failed`).  A
  supported stick and a device of an unknown class end in `for(;;)`
  (`EhciCallsReturn`).
* *Xhci*: an event of something else is taken for the answer (`strange`); events
  are never cleared, so that after the sixteenth no answer is seen and requests
  that were carried out fail (`unheard`); a command behind the stop of an address
  command is never read, the second port gets no slot.  A control request that
  gets no good answer - an error, a time-out, any poll once the ring is full - stops
  the machine in `for(;;)` (`refused`, `xhci.c:1147`), as a stick and a device of an
  unknown class do.
* *Files*: the sector read by a later OPEN may run over the end of a block, CLOSE
  of a file for writing frees the block of the file that had the slot before,
  UNGETC writes one unit too far (`spoilt`); a path shorter than one that was in
  the slot keeps the other's end (`HeldLonger`).
* *Ps2*: a key that arrives between the reading and the clearing of the mailbox is
  lost, a key that stands for nothing erases the one before it (`WaiterWakes`); a
  byte too many at the head of the mouse's stream exchanges the axes (`shifted`);
  the type of the stream is found by a first byte of exactly 8 (`ps2.c:144-150`),
  so that packets with a button down or a move back are lost until one without
  comes (`plain`), and such a packet that moves by 8 in x exchanges the axes for
  ever (`misled`); moves that do not fit a char, and the overflow bits that go
  with them, are left out (`PositionFollows`); the cursor leaves a trace on a black pixel, and when the
  handler runs while the main flow draws (`ScreenIsKept`).

### Findings
Three violation runs show code that does otherwise than a document or a comment of
the repository says: tasks share a stack (`multitasking_stack`), a handler that
allocates takes the address the main flow is about to take (`memory_irq`), and a
file of two blocks is never read over TFTP (`network_tftp`).  PROJECT.json
"findings" quotes both sides.

## 5. Fairness

Weak fairness only, and only of what the hardware or the processor does by
itself: the timer interrupts (`Multitasking`); the flow inside the allocator goes
on (`Memory`); the drive or the AHCI controller works, its interrupt is handled
and the driver goes on (`disks`); a card sends what it is asked to, its interrupt
is handled and a send goes on (`cards`); what is on the wire arrives and the flow
that waits looks at it (`network`); the host controllers carry out what stands
before them and the drivers go on (`usb`); the keyboard's interrupt is handled and
a waiting caller goes on (`Ps2`).  Nobody is assumed to press a key, send a
packet, create a task or call anything.  Nothing makes a drive or a USB device
faster than the driver's waits: the time-outs may fire at once, which
`CommandsReturn` names (`late`, `dead`) and `UsbCallsReturn` allows.  Nothing makes
other machines silent either: `WaitsComeBack` names the behaviours in which they
send for ever.  A run of two
machines states the fairness of each on its own actions, so that the one that
stands still owes nothing.  `Multitasking` has none for the tasks: a refused
`createTask` may leave the interrupts off for ever, which `EveryReadyTaskRuns`
names.

## 6. Proofs

TLAPS checks the following for all values of the constants.

**MultitaskingProofs.**  From the assumptions of `Multitasking` alone - any table
length, any tasks, any number of them racing through `createTask`:
`TypeCorrect`, `CurrentStaysInUse` (`regnow` always names a slot the rotation can
reach) and `TasksHaveOneSlot`.  From `OneCreator` - at most one task's code calls
`createTask`, whose `regcount++` lies behind its `sti` - `TasksResume`,
`FilledSlotIsKept` and `NobodyPassedOver`.  The properties are not inductive by
themselves: what a tick saves and loads is right only if the filled slots are
exactly those in use and the one being added (`FilledSound`), if the task in
`createTask` remembers the first slot beyond the rotation (`FillingSound`), and if
each filled slot's image or the processor holds the slot's owner (`Place`).  Their
conjunction is preserved by each action; `LeastElement` and `FirstStopExists` give
the tick the slot its loop stops at.

**MemoryProofs.**  `TypeCorrect` without assumptions beyond the module's.  From
`OneFlow` (no handler allocates) and `NoEmptyBlocks` (nobody asks for no bytes):
`AssignsAboveAll`, `TableNeverOverlaps` and `HeldNeverOverlap`.  The bubble sort
stops at the first pair of unused entries, so what makes it right is that all
unused entries are at the end (`UnusedLast`), in every state, also between its
steps; that a pass without a swap has compared everything in front of it
(`Ordered`), and that from its end to the placing of the block the first entry is
the highest (`AboveAll`).  `CompareMoves` states that a step of the sort permutes
the entries, from which its effect on every conjunct follows.

**DisksProofs**, of the specification the run checks, in which a behaviour is of
either driver: `DisksDataInTime`, `DisksKeepTheirOwn`, and the two refinements of
`BlockDevice`, `IdeImplementsDisk` and `PortImplementsDisk`.

IDE, for any sectors, counts and contents: `DriveSound` says what fits the drive's
command, `OpSound` what the driver's point says of its call, `WriteSound` that a
drive busy with a write is so for this call, with its sector and data: that much
holds whatever waits gave up, and gives `SectorsKeepTheirOwn`.  `Punctual` is for
the refinement and says what a driver that was never late knows at each step.  A
write is on the platter not when the drive has taken the data but when the flush
has ended; that `ResetFire` clears the flag of the first between the two is what
makes the wait end with the second.

AHCI, from `AhciConstants` (the searched sectors are of the disk and one is the
last, there is a slot): `FlowSound` says what the main flow reads for at each
stage and that its command stands in its slot; `Orderly` that the command list
holds the command underway alone, and that the buffer holds the sector once it is
done; `PortSound` for how long that is so, and that after an error nothing is
carried out any more.

**CardsProofs**, for rings of any size and any number
of packets and sends: `NoPacketTwice`, `PacketIsOut` and `CardsHearOn`, theorems of
the specification the run checks.  `TakenOnce` says that no packet stands in two
descriptors, and that none the network code has taken stands in one it may take,
the one it has already looked at included.  `OneSend` follows the packet of the
main flow through its steps as long as the handler answers nothing.  On the
RTL8169 `AllAhead` says that every unanswered request in the scanned descriptors
has its interrupt pending or lies ahead of the scan.  On the E1000 `InOrder` says
that from the tail to the head lie the packets that wait, in the order they came
in, as long as the handler gives none back out of order; the ring needs two
descriptors (`E1000Constants`).

**FilesProofs**, for any files, contents, block sizes and number of requests:
`FileKeepsContent` (with type correctness), `GetcFollowsFile` and
`WriteFindsFile`.  The first and the last assume `MaxOpen <= Slots`, that a
program has no more files open than the table has slots: when it is full, OPEN
takes the first slot, which is in use.  The first two assume `0 \notin Units`: the
file is text, for the code looks for its end at the first zero.  `SlotsApart` says
that two open files never share a slot; `Reads` that a file read, until something
spoils it, has a block of its own with its content, and that the program's place
in it (`rest`) is what lies behind `ftell`; `Written` that the slot of a file
written holds its path.  That the last unit of the memory is never written
(`Typed`) is what makes every search for the end of a string find one.

**NetworkProofs**, for any servers, names, files and lengths of files, buffers,
calls and faults, and for a TCP session of any length: `LeaseIsOurs`,
`MacIsTheRightOne`, `NameGetsItsAnswer`, `FileComesWhole` and `SessionIsSound`.
`Answers` says that every answer underway - on the wire or in a buffer - has a
transaction id already used, and that one with the current id is about the name
that is asked; `Approved` that the approvals underway are of the offer taken, and
that the buffer of the offer has not been filled again while fewer packets came
than there are buffers (the distance round the ring, `AheadCounts`); `Asked` that
unless a reply of another machine came during this wait or any reply was left over
when it began (`stray`), the replies underway are to its own question - the excuse
is judged anew for each wait, and one that begins with nothing left over is right
again; `Reading` that of the blocks underway, as long as none came twice, only
one is the first of a file.  Each follows packets through the ring with the same lemma
(`StepMoves`: what a step does with a set of packets of one kind).  Of the session,
`Delivery` says that every number below one that is acknowledged, or that will be
- in `taaaY`, in a header being filled, in a packet underway - is delivered,
dropped, or stands before it in the queue (`InOrder`); `Numbering` that nobody
counts more packets of the program than there are, from which it follows that an
acknowledge which is not behind (`crossed`) names the very number that stands in
`taaaX`, and so the one loaded, the sum of it and the one stored agree wherever the
handler was between.

Of the headers, `ChecksumsAreRight` holds for bytes of any number of values, so
for the code's 256 with words of 16 bits, and for headers and payloads of fewer
words than a word has values: `Folds` shows that adding the carry twice is then
enough, `Swapped` that exchanging the bytes of all words is a multiplication by
`Byte`, and modulo `Byte * Byte - 1` the exchange of `net_checksum` and the words
that ETH::OUT adds unexchanged come out the same.  What `Total` computes is proved
by induction on a set of numbers (`AllNumbers`): that there is such a function
(`SumsExist`), what it gives for two sequences one behind the other
(`TotalOfBoth`) and for exchanged bytes (`TotalSwapped`), and its bound.

**PortsProofs** holds what is proved of the PS/2 port and of USB.  Of `Ps2`, for any screen, pictures, moves, buttons and number of events:
`KeysComeInOrder` (with type correctness), `PositionIsTheMouses` and
`PictureStays`.  `KeysHeld` says that the mailbox and the key the main flow has in
hand are younger than every key given out, each with the shift of the codes before
it (`ShiftHeld`); `Led` lists what may be on the wire at each of the three bytes of
a packet and says that it leads from the cursor to where the mouse is, with the type
still to be found or known (`Tells`, `LeadsTo`), and that no packet read before it
is known is taken for one of the other type (`Harmless`); `Kept` says
where the picture is - on the screen, or on the screen but for one pixel which is
in the buffer - at each step of the drawing.

Of `Ehci` and `Xhci`, for any number of ports and kinds of devices and event rings of any
size: `DevicesApart`, `EhciDataComesInTime` and `EventIsTheAnswer`.  `Addresses`
says that an installed device's address is below the one given next, that the
device being asked has none or that one, and that nobody else has any but for
ports given up; `Counting` bounds the address by the port, so that it never runs
into `Off`.  `InTime` says that a list with descriptors left while no call waits
was left by an error.  On XHCI `LastIsOurs` says that among the events that came
since the call was given the last is its answer, unless an event of something else
came too; `Heard` that a request no ring holds any more has left an event, or found
no place for it.

**FilesystemsProofs**, of `Devices` with the three file systems in it:
`WrittenIsReadBack`, `MemoryIsTheDisk`, `FatIsReadBack`, `SizeIsFirst` and
`IsoFinds`, for any machines, drives, partitions, volumes, names, contents and
sizes of the tables, and the power lost at any step.  They assume three things of
the constants, which `MC_Filesystems` has TLC evaluate for the run:

* for SFS, `OneSfsVolume` - no machine has two such volumes, because the second
  mounted replaces the tables of the first (`sfs.c:41`) - and `NamedPaths` - no
  write is of an empty path, whose file would get the name that the call before
  left in `pathbuffer`;
* for FAT, `OneBlockFiles`: the files on the volume at first are of one block,
  since `fat_read` gives one; those written later are of any length.

Of SFS, `Kept` says of every promised file that an entry has its name and that the
table gives the id of that entry as many sectors as the content has blocks, each
with the content's first block in it, on the disk and by the tables in memory;
`Ahead`, that memory and disk agree but for what the write underway has not put
there yet; `JobRuns`, which entry, id and sectors that write works on; and
`FilesApart`, that no two entries share a name or an id.  That a content which fits gets all its sectors is a
matter of counting: `RankBijection` numbers the free sectors by how many lie below
each, `FirstElements` that the lowest n of them are n, and `FreedIsMore` that
those of the file replaced are free as well.  Of FAT, `RootStays` says that a root
keeps its entries but for sizes, or is gone; `FilesKept` where each kept file lies;
`FatJobRuns` that a write touches none of them and that `last_dir_sector` and
`last_file_selected_index` are still those of its own file; `SizeGoesFirst` what is
on the disk before the size is written and after.  `IsoFindsIts` is inductive as it
stands; that a first one exists among the files that are alike is `LeastElement`.

Proof attempts corrected the models in three places.  The names in the slots of
`Files` may mix the letters of three paths of different lengths, not of two as
`TypeOK` had it.  `NumbersFollow` of `Tcp` took every number above the first for
one given after the peer's SYN was answered, which two packets sent before that
refute (three packets out, one more than the run has); the property now excepts a
program that begins a packet before that answer (`early`).  And `ChecksumsVerify` of `Headers`
excused a spoilt header only until the next one was begun, which a third header
refutes (the run had two); the excuse now belongs to the packet, and the handler's
own packets need none.

Only model-checked: `EveryReadyTaskRuns`, `CallsReturn`, `CommandsReturn`,
`BothAnswer`, `SendsComeBack`, `WaiterWakes`, `WaitsComeBack` and `UsbCallsReturn`,
which are liveness under fairness and outside TLAPS's reach, and the three
violation runs.  Every other property of a run is a theorem.

## 7. Not modelled, and what is left

Not modelled:

* the timer beyond its interrupt: a wait with a time-out may end at any moment at
  which the code looks at the counter;
* UHCI: the driver resets the ports and installs nothing;
* the terminal, ELF and program loading, the user programs and the assembler under
  `programs/fasm`: one flow over data that nothing else touches;
* PCI, ACPI, CMOS, CPUID, VirtualBox and paging: reads of what the machine holds,
  at boot;
* sound and the serial port: single writes of registers; video, but for the part
  of `draw()` that the mouse interferes with;
* the layout of listings, the tables of scan codes, message texts.

Partly: `realloc` (it frees and takes as the modelled calls do), ATAPI packets and
drive errors of `ide.c`, READ, TELL and relative SEEK of INT 0x80, the set-up of
the PS/2 devices, UDP out of a program.

Next in the plan: that what `memcleanup` and the TFTP wait count goes down with
every step, which is the part of `CallsReturn` and `WaitsComeBack` that needs no
fairness; the focus ring of the controls and the line editor; IDE identification.
