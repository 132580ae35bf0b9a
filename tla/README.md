# Verification of the Exynos UEFI port

TLA+ models of the stateful parts of this repository, TLC configurations that
check them, and TLAPS proofs about them.  Paths are relative to the root of the
repository.

- [The system](#the-system): its parts, their state, what is hard about them
- [The modules](#the-modules): which module models what, and how it maps to the code
- [The runs](#the-runs): what TLC checks, with which bounds
- [Fairness](#fairness)
- [The theorems](#the-theorems): what is proved, from what, and how
- [Findings](#findings)
- [Not modelled](#not-modelled), and [the plan](#the-plan)

To run them: `tlc -config X.cfg M` with the module of the table below,
`tlapm MProofs.tla` for the proofs.

## The system

The repository is an EDK2 platform: firmware that a phone's own boot loader
starts in place of a kernel.  `PrePi` sets up memory and starts the DXE phase, in
which drivers are loaded and connected; `PlatformBm.c` then offers boot options.
Everything runs on one core and in one thread.  Concurrency comes from three
places only: event handlers that run when the task priority level (TPL) lets them,
devices that work while the firmware polls them, and power loss or reset at any
moment.

| Component | State | Operations | Interacts with |
|---|---|---|---|
| A/B boot slots: `GPLDrivers/Library/BootSlotLib`, `BootSlotDxe`, `SwitchSlotsApp` | two copies of the GPT of every LUN, the boot LUN of the device, `PtnEntries` and `PtnEntriesBak` in memory | `EnumeratePartitions`, `GetActiveSlot`, `ClearUnbootable`, `SetActiveSlot`, `SwitchPtnSlots`, `UpdatePartitionAttributes` | PartitionDxe (partition records, repair of the GPT), BlockIo, UFS boot LUN protocol |
| UFS transfer requests: `ufs.c`, `scsi.c` of `Silicon/Samsung/Exynos9820Pkg/Library/ExynosUfsLib` | one set of descriptors, doorbell, interrupt status, copies of flags, attributes and descriptors | NOP, query, SCSI read and write | the host controller, by shared memory and registers |
| UFS provisioning: `ufs_set_configuration_descriptor` and what it calls | copies of the configuration and geometry descriptors, retry count | check, edit, write, enable boot | the component above |
| Keypad devices: `KeypadDeviceImplLib` (four SoCs), `GenericKeypadDeviceDxe` | a context per key, two bitmaps | `GetKeys`, `Reset` | GPIO pins; its caller's return API |
| Keypad console: `KeypadDxe` | two rings of keys, list of notifications, timer | SimpleTextIn(Ex) protocols, timer, notification handler, driver binding | the keypad device, applications and their notification functions |
| UFS start-up: `ufs_init` and what it calls in `ufs.c` | attempts, quirks, lanes, the link and the initialisation of the device | host set-up, link start-up, UIC commands and lists of them, NOP, `fDeviceInit`, power mode change, boot unit | the host controller and the device; transfer requests; the enumeration |
| SCSI enumeration: `scsi_scan`, `scsi_scan_ssu`, `scsi_exit` of `scsi.c` | containers `ufs_dev`, one buffer `g_buf`, registered block devices | INQUIRY, REQUEST SENSE, READ CAPACITY to each unit; removal | transfer requests |
| Frame buffer console: `ExynosPkg/Library/FrameBufferSerialPortLib` | cursor, colour, interrupt state, all shared by a write and the handlers that interrupt it | initialise, `SerialPortWrite`, `SerialPortWriteCritical` | the frame buffer; interrupts |
| OnePlus 6T slot driver `Op6tSlotDxe` | slot flags, GPT header and entry CRCs | set a flag, repair the CRCs of the primary table | BlockIo, DiskIo (no platform includes it) |
| Boot manager `PlatformBm.c` | boot options, consoles, hot keys | the `PlatformBootManager` hooks | UefiBootManagerLib |
| `KernelErrataPatcher` | replaced boot services | hooks of ExitBootServices and loaders | the OS loader |
| Timer, RTC, display mode, ACPI/SMBIOS tables, PrePi, tools | little or none | see [Not modelled](#not-modelled) | |

What is hard, and what makes each part correct:

- **Boot slots.**  One switch is a row of writes: attributes, boot LUN, type GUIDs,
  active flags, each to two copies of the table of every LUN.  Power may go
  between any two of them or in the middle of one; a read or write may fail; the
  loop over the entries advances a pointer into the table separately from its
  index.  Correct: a finished boot leaves one ready slot that agrees with the boot LUN; a
  switch in a boot that began with copies that are alike and was not disturbed is complete
  everywhere; tables never mix exchanged and
  unexchanged GUIDs; a valid copy always remains.
- **Transfer requests.**  A request that was given up is not taken back, and the
  next call reuses its memory and its slot.  Correct: a call reports what became
  of its own request, and returns even if the device is dead.
- **Provisioning.**  The loop compares and edits the driver's own copy; queries
  fail, or time out and count as successful.  Correct: a configured device is left
  alone as long as no query goes unanswered; if all are answered, one that is written ends
  as wanted after one write; the loop ends.
- **Keys.**  A press is told at its release, at a long press, by repeats, or as a
  part of a combination, depending on bounces and on the pace of the polls.
  Correct: told, and told once; combinations are of keys that are down now.
- **Console.**  Rings overflow; the handler calls functions which call back; a
  signal stands for several keys.  Correct: readers see a buffer of the latest keys,
  no function that is owed a key is forgotten.

- **UFS start-up.**  An attempt is a row of some twenty steps, any of which fails;
  the whole is tried again, but what the driver remembers is not reset.  Errors
  inside a list of UIC commands are passed over, and the completion of one that was given
  up may end the wait of the next; queries that are given up or fail unseen read as zero;
  two waits have no bound.  Correct: what is used
  afterwards was brought up by the last attempt, and attempts are bounded.
- **Enumeration.**  Units that do not answer are passed over in one of two
  counters only; all commands share one buffer; a command may fail without the driver
  seeing it.  Correct: a block device addresses the unit it is named after, and its size is
  that unit's as long as no request went astray.
- **Frame buffer console.**  The cursor is updated in several steps.  A line
  feed jumps past the statement that saves the interrupt state, so that
  interrupts may go on in the middle of a write.  Correct: nothing is painted
  outside the screen, colour and interrupts are restored, writes return.

`PROJECT.json` lists the hazards with their lines and the properties that cover them.

## The modules

    SlotSwitch            <- refined by -  BootSlot       <- BootSlotProofs
                                             MCBootSlot      <- BootSlotSwitchProofs
    KeyBuffer             <- refined by -  KeypadConsole  <- KeypadConsoleProofs
                                             MCKeypadConsole
    KeypadKeys                                            <- KeypadKeysProofs
    UfsTransport                                          <- UfsTransportProofs
    UfsProvision          MCUfsProvision                  <- UfsProvisionProofs
    LinkBringUp           <- refined by -  UfsStartup     <- UfsStartupProofs
                                             MCUfsStartup
                                           (UfsStartup extends ScsiScan)
    FbConsole                                             <- FbConsoleProofs

`UfsProvision`, `UfsStartup` and `ScsiScan` meet `UfsTransport` at the outcome of
a request: they take from it that every request returns, that a query that is given
up counts as successful (`ClearStatus`), that the answer to an older
request may end the wait of a later one (`overrun` there, `late` here), and that the
answers *mute* and *masked* are taken for success (`Unseen` in `ScsiScan`, a case of
*silent* in `UfsProvision`).
`UfsStartup` composes the start-up of the link with the enumeration, which
goes on under the same bus state; its action `Provisioned` is the place where
`UfsProvision` runs and asks for the block devices to be removed.
`KeypadConsole` and `KeypadKeys` meet at the keys a poll pushes; between them
there is no other state, and a poll of one is a sequence of actions of the other
that nothing interrupts.  The parts of the firmware around BootSlot (PartitionDxe,
the boot manager) are not in the repository and appear as external actions.

### Conventions

A property is preceded by a comment that says what it means.  Variables under
*History* exist for properties only; no guard reads them.  A definition marked
"mutant" is the next definition with a plausible mistake in it: no
specification uses it, and replacing the correct definition by it makes a
property fail.

### BootSlot

| TLA+ | Code |
|---|---|
| `disk`, `bootLun` | the tables on the disk, with "valid" for the CRC; `bBootLunEn` |
| `snap` | the partition records PartitionDxe read at boot |
| `mem`, `bak` | `PtnEntries`, `PtnEntriesBak` |
| `pc`, `ret` | where the image is; where `UpdatePartitionAttributes` returns to |
| `found`, `target` | results of `GetActiveSlot`, argument of `SetActiveSlot` |
| `type`, `lun`, `iter`, `ix`, `pos`, `buf`, `dirty` | locals of `UpdatePartitionAttributes` |
| `img`, `outcome`, `disturbed` | the running image and how it ended; history of disturbances: crashes until a boot begins with copies that are alike, I/O errors and torn writes for good |

A step is the code between two accesses to the disk or the boot LUN, or one turn
of the loop over the entries.  The byte format of a GPT and its CRC are
abstracted to entries and "the CRC is that of these entries"; a torn write leaves
any mixture of old and new blocks of one copy.  The layout of the
partitions (`Ptn`), which may be any that satisfies `PtnAssumption`, and the
initial media are parameters.  PartitionDxe reads the primary table when it is
valid, otherwise the backup, and restores an invalid copy (`DriverRepairs`), as
EDK2's does.

### UfsTransport

The driver's side is `Begin`, `ClearDescriptors`, `Describe`, `Send`, the polls,
`ClearStatus` and `CheckResult`, in the order of `ufs_utp_*_process`; the
controller's is `Fetch`, `Answer`, `ClearDoorbell`, `RaiseInterrupt` and
`FatalError`, which may come between any two of them.  `executed` and `overrun`
are history.

The device may answer in five ways (`AllAnswers`).  Three of them,
`HonestAnswers`, are those `__utp_check_result` can tell apart.  The other two it
cannot: with *masked* the overall command status is success and the response says
target failure, and with *mute* the overall status is an error and no response was
written.  Both are reported as success, because `ufs.c:772-808` takes
the response for a failure only if the overall status is an error, and the overall status
for one only if the response says so too.  `AnsweredOnce` is checked and proved for
honest answers; with the others it does not hold, and no comment of the code says
that it should.

One assumption about undefined behaviour is made: for a query `__utp_write_utrd` reads
`scsi_cmd->datalen` (`ufs.c:450`) although `__utp_init` has set `scsi_cmd` to
null (`:689`).  `Describe` takes this load to do nothing.  The value is
used for commands only, and the address lies in a region the platform maps (the first entry of the
memory map of `Exynos9820Pkg`, which begins at 0); the C standard allows anything.

### UfsProvision

`ReadDevice` to `Compare` are `ufs_check_config_desc`, `Edit` is one turn of the loop of
`ufs_edit_config_desc` (units are edited from the last to the first), `WriteConfig`
and `EnableBoot` the rest of `ufs_set_configuration_descriptor`.  A query is
*answered*, *failed*, or *silent*: given up, and treated as answered with whatever
is in memory (`UfsTransport!ClearStatus`).  The counts are computed with the code's
own arithmetic: the addition to a byte-swapped count (`PlusOne`), products
and counts that are 32-bit words (`Sectors`, `EnhancedSectors`, `AllocSectors`, `Rest`: `% Word`),
division by zero as on AArch64, and a rest that is counted in segments and not in
allocation units, by the check and by the edit alike.  `Fits`, by
which the properties judge, computes without any of this.  The answers *mute* and *masked* bring no
data, like a query that is given up, and count as *silent*.  `Edit` reads the geometry first, as every turn of the loop does, and a read that is
given up may leave the old values or have brought the new ones.

### KeypadKeys

One action per branch of `LibKeyUpdateKeyStatus`, `ReadKey` for the turn of one
key in a poll, `Reset` between polls.  Times are counted up to the long-press
time, beyond which no comparison tells them apart.

### KeypadConsole and KeyBuffer

`queue` and `notify` are the two `EFI_KEY_QUEUE`s, `list` and `reg` the
notification list and the contents of its nodes, `handler`, `hand` and `link` the
position of `KeyNotifyProcessHandler`.  All calls of the console run at
`TPL_NOTIFY` and are one step each, with the poll they start with.  Timer and handler
are notified at `TPL_CALLBACK`: a tick comes only when the handler does not run, and
the application goes on when no notification is pending (`NoWalk`).  Between two
steps of the handler only the function it has called acts; it may poll, read,
reset, register and unregister (`FunctionCalls`), once per call.  `due` is
history: the keys typed for a registration and neither told nor dropped.

A function that removes its *own* registration is left out of the run
(`FunctionsMay` does not contain `"leave"`): the handler reads the link of the
freed node afterwards, and nothing can be said about what follows (`Behind`).

`KeyBuffer` is what a reader of the console may rely on: keys come in the order
they were typed, and the latest ones are kept.

### UfsStartup, ScsiScan and LinkBringUp

| TLA+ | Code |
|---|---|
| `pc` | the step of `ufs_init`, `ufs_init_interface`, `ufs_pre_setup`, `ufs_end_boot_mode` ... that comes next |
| `attempts`, `result`, `quirks`, `lane`, `flag`, `polls` | `rst_cnt`, the return value, `ufs->quirks`, `ufs->pmd_cxt.lane`, the flag `fDeviceInit`, `retry` |
| `list`, `cmd`, `res` | the list `ufs_mphy_unipro_setting` goes through, position and result |
| `linkUp`, `lanes`, `fast`, `devInit`, `bootLunEn` | link and device |
| `uicLate` | a UIC command of a list was given up, so that its completion may still come |
| `asks`, `unit`, `sdev`, `lun`, `gbuf`, `bdevs` | the next SCSI command and its unit, `sdev`, the `lun` of each container of `ufs_dev`, `g_buf`, the block devices registered with `bio` |
| `late`, `lost`, `refused`, `answered` | the bus, as far as the caller can be deceived by it; history |

Each step of an attempt is an action that goes on or fails (`Step`).  The exceptions are
the interesting ones: `SetAttribute` passes over a failed command of a list, because
the `break` at `ufs.c:1087` leaves the `switch` and not the loop; if that command was given up,
its completion may end the wait of any later one (`EndsEarly`: `handle_ufs_uic_int`,
`:520-531`, does not look whose it is), which then counts as done although the link may have refused
it; `ReadDeviceInit` takes a query that was given up, or whose failure the driver does not
see, for "finished" (`Silent`); `SoftReset` and `HostEnabled` are
the waits without a bound.  `CheckLanes` keeps what the code does with
uneven lanes: `ufs.c:1214` prints "so it has failed" and the function returns 0.
The quirk for one lane overwrites the quirk of the board (`:1212`), so that a later
attempt may take another way to enable the host than the first one.

`ScsiScan` has one action per command and outcome.  A command that was not executed can look
successful in two ways: an older answer ends its wait (`Mistaken`), or it fails and
`__utp_check_result` returns 0 all the same (`Unseen`); a capacity is then computed from what was in
`g_buf`.  `lost` records that a request was given up or failed unseen; `StartedUp`
and `RegisteredTrue` say what holds without, and what holds nevertheless.  Units 0 to *n* - 1 are asked, *n*
being the number of units enabled, whichever these are.  REQUEST SENSE
uses the buffer and the length INQUIRY left.  A failing READ CAPACITY or REQUEST SENSE ends
the scan it belongs to; `ufs_init` does not look at the results of the scans
(`:2147-2155`).  Nothing in the repository calls `ufs_init`; `ufs_number_of_lus` is
never reset, so a second call is not modelled.

`LinkBringUp` is the promise: try, at most `MaxAttempts` times, until it is up.

### FbConsole

`stack` holds the writes in progress, innermost last, each with the place it
has come to and the locals of `SerialPortWrite`, `SerialPortWriteCritical`,
`FbConPutCharWithFactor`; `x`, `y`, `foreground` are the statics they share.  The
module is a library that every module of the firmware links for itself, so the
writes that meet are those of one module: its own and its event handlers'.  A handler may write
whenever interrupts are on (`Write`), `MaxDepth` writes deep.

`intstate` is assigned at `FrameBufferSerialPortLib.c:125`, and a line feed jumps
past that to the label where it is tested: `on` is the set of values it may have then,
`Uninitialised` after a line feed.  A character is painted by `Draw` in the
cell it had computed.  The row moves on in the steps `NextRow`, `StoreRow`, `StoreColumn`,
`CompareRow` and `Wrap`, and a handler may come between any two of them: the code stores row and
column (`:145-146`) and then compares the row (`:147`), which a compiler may read
again or not; `CompareRow` compares either.

## The runs

| Run | Module | Configuration | Question |
|---|---|---|---|
| `slot_crash` | MCBootSlot | BootSlotCrash | Crashes anywhere: is a finished boot ready, a switch after them complete, the active slot atomic, does every boot end? |
| `slot_fault` | MCBootSlot | BootSlotFault | I/O errors anywhere: are GUIDs whole, is the primary first, does every boot end? |
| `slot_tear` | MCBootSlot | BootSlotTear | Torn writes: does a valid, whole copy remain, does every boot end? |
| `slot_stale` | MCBootSlot | BootSlotStale | finding |
| `ufs_transport` | UfsTransport | UfsTransport | Late answers, stale interrupts, fatal errors: does a call report its own request, and return? |
| `ufs_late_answer` | UfsTransport | UfsLateAnswer | finding |
| `ufs_provision` | MCUfsProvision | UfsProvision | Queries that fail or are given up: is a configured device left alone unless a query goes unanswered, does a run of answered queries configure the others by one write, does it end? |
| `ufs_provision_done` | MCUfsProvision | UfsProvisionDone | finding |
| `keypad_keys` | KeypadKeys | KeypadKeys | Is every press told once, are combinations fresh, does every key come to rest? |
| `keypad_console` | MCKeypadConsole | KeypadConsole | Do the rings refine a buffer, is no function forgotten? |
| `ufs_startup` | MCUfsStartup | UfsStartup | Any step of any attempt fails, commands are given up or fail unseen: is what is used brought up by the last attempt, are block devices what they seem, does `ufs_init` end, is the whole a bounded retry? |
| `fb_console` | FbConsole | FbConsole | Handlers write in the middle of writes: does painting stay on the screen, are colour and interrupts restored, does every write return? |

The bounds, and why they are enough:

- *slot_crash*: UFS, three LUNs of which two are configured (one missing LUN makes
  the loop pass over it), a pair in each, an entry without a partner; a factory-new medium
  and one whose active slot is worn and whose boot LUN is wrong.  The number of boots,
  crashes and switches is not bounded.
- *slot_fault*: UFS with three LUNs, of which only the middle one is configured, so
  that the loop passes over a missing LUN before and after it and ends with an error at any
  read, at any write and at the boot LUN.  The instance has one pair, so that a GUID can be lost
  or doubled but pairs cannot be mixed (*slot_tear* has two; the proof any number), and a
  write that fails has changed nothing or all (a part of it: *slot_tear*).  The device comes
  without a boot LUN.
- *slot_tear*: eMMC with two pairs, because GUIDs can only be mixed when there are two.
- *ufs_transport*: one register that is queried, one block, two values, two
  polls.  Old and new data, and two overlapping requests (there cannot be more: one slot),
  are enough for every case split of the driver; the proof covers any sizes.
  `Descriptors` is empty: for the values that can be told apart they behave as
  scalars do, except that a cleared response is not copied.
- *ufs_provision*: three units (the rest, a boot unit, a plain or unused one),
  three retries as in the code, bytes of 256 values and words of 2^24 (TLC's integers
  have 32 bits, and a product of a word with a size must stay below).  The instance is of the kind
  the theorems are about (`TargetsFit`): the rest goes to unit 0 (`ufs.c:1016`), boot
  units are exactly those in enhanced memory, which is what makes the two computations of a size
  agree, something is left for the rest, sizes stay below 2^32 sectors (2 TB), and an allocation
  unit is one segment.  With larger ones neither the check (`:1759`) nor the edit (`:1021`) converts the rest from
  segments, as `ufs_check_available_blocks` would (`:1646-1655`), which nothing calls; what
  they compute is then not what `Fits` asks for.
  `CHECK_DEADLOCK FALSE`: the function returns once.
- *keypad_keys*: debounce 2, repeat 3, long press 4, polls 1 or 3 apart: a poll may be
  short or long with respect to each of the times.  All three keys, any presses.
- *keypad_console*: rings of 3 slots (2 keys) so that overflow and wrap-around are
  common; two nodes; two functions for one key, one for a key that is never typed;
  the partial key.  With *k1* and *partial* in the ring, order is visible.

- *ufs_startup*: three attempts as in the code; two polls of `fDeviceInit`; lists of
  two commands, one setting in both, so that a command is refused in one list and taken in
  the other, and a last command can be ended by the completion of one that was given up in the
  same list or in the list before; two units and the two well-known ones, so that
  one is passed over before another, and containers and numbers part; lanes 2+2, 1+1 and 2+1; a
  board whose host is enabled by UIC commands, and a device of one lane, which makes the
  driver forget this.
  The proofs cover any of these.  `CHECK_DEADLOCK FALSE`: `ufs_init` returns once,
  or waits for a controller that does not come up.
- *fb_console*: a line of two cells and a screen of three lines of text: a write of two
  characters wraps at the end of both; three writes, nested three deep; both
  values of the uninitialised variable.  `CHECK_DEADLOCK FALSE`: after `MaxWrites` writes
  nothing is left to do.  The proofs have no such bounds.

## Fairness

- BootSlot `WF(Firmware)`: one thread, no waiting; as long as there is power it goes on.
  Resets, crashes, errors and the user are not fair.  `BootFinishes` is checked with crashes, with
  I/O errors and with torn writes, with one and with two configured LUNs, with and without missing ones.
- UfsTransport `WF(Driver)`: the driver polls.  Nothing is assumed of the device:
  it may be dead.
- UfsProvision `WF(Next)`: every query returns, which is `CallReturns` of UfsTransport.
- KeypadKeys: polls go on, because the periodic timer does.  Keys are not fair; the
  property is about those that are released for good.
- KeypadConsole `WF(Handler)`: a signalled handler runs as soon as the TPL is
  low enough, and the functions it calls return.  `Delivered` is conditional: a
  function that polls each time it is called may keep the ring growing for ever, and then
  its oldest keys are dropped as they should be.

- UfsStartup `WF(Driver)`: the driver goes on; two of its loops wait for a register,
  and nothing is assumed of the controller and the device behind it.  `InitEnds` therefore
  names those two loops as places where it may stay.
- FbConsole `WF(Step)`: one thread, in which a handler runs to its end.  New writes are not fair.

## The theorems

All hold for every value of the constants that the named assumptions admit.  The
assumptions of a module (`BootSlotAssumption` ...) are `ASSUME`d there.  The others say
something about the environment or the device; they are defined at the end of `BootSlot`,
`UfsProvision` and `KeypadConsole`, are hypotheses of the theorems that need them, and `InstancesFit` of
the MC modules has TLC evaluate them, so that each theorem speaks of the checked instances too.
`LayoutAssumption` is what the library itself relies on when it counts handles to find a
place in the table: PartitionDxe installs them in the order of the table and without gaps.

| Theorem | Statement | Assumption |
|---|---|---|
| BootSlotProofs `TypeCorrect` | `Spec => []TypeOK` | `BootSlotAssumption` |
| BootSlotProofs `OneCopySurvives` | `Spec => []OneCopyValid` | and `RepairAssumption` |
| BootSlotProofs `TablesStayWhole` | `Spec => []GuidsWhole` | and `RepairAssumption`, `PairsShareLun`, `MediaWhole` |
| BootSlotProofs `PrimaryIsWrittenFirst` | `Spec => PrimaryFirst` | and `RepairAssumption`, `PairsShareLun`, `MediaWhole` |
| BootSlotSwitchProofs `BootedSlotIsReady` | `Spec => []BootedSlotReady` | and `RepairAssumption`, `NoFault`, `PairsShareLun`, `MediaWhole`, `MediaBootLun` |
| BootSlotSwitchProofs `SlotSwitchImplemented` | `Spec => ImplementsSlotSwitch` | and `OnlyCrashes`, `PairsShareLun`, `BootNames`, `MediaWhole`, `MediaSane` |
| BootSlotSwitchProofs `SwitchIsComplete` | `Spec => []SwitchComplete` | and `RepairAssumption`, `PairsShareLun`, `OwnSuffixOnly`, `MediaWhole`, `MediaBootLun`, `MediaSane` |
| UfsTransportProofs `TransportTypeCorrect` | `Spec => []TypeOK` | `TransportAssumption` |
| UfsTransportProofs `CallsAnsweredOnce` | `Spec => []AnsweredOnce` | and `Answers \subseteq HonestAnswers` |
| UfsProvisionProofs `ProvisionTypeCorrect` | `Spec => []TypeOK` | `ProvisionAssumption` |
| UfsProvisionProofs `ConfiguredIsUntouched` | `Spec => ConfiguredUntouched` | and `TargetsFit` |
| UfsProvisionProofs `QuietRunIsEnough` | `Spec => []QuietRunConfigures` | and `TargetsFit`, `NoCarry`, `MaxRetries > 0` |
| KeypadKeysProofs `TypeCorrect` | `Spec => []TypeOK` | `KeysAssumption` |
| KeypadKeysProofs `PressesReported` | `Spec => ReportedOnce` | `KeysAssumption` |
| KeypadKeysProofs `CombinationsFresh` | `Spec => []CombinationIsFresh` | `KeysAssumption` |
| KeypadConsoleProofs `BufferImplemented` | `Spec => ImplementsKeyBuffer` | `ConsoleAssumption` |
| KeypadConsoleProofs `ConsoleTypeCorrect` | `Spec => []TypeOK` | and `NobodyLeaves` |
| KeypadConsoleProofs `NothingIsForgotten` | `Spec => []NothingForgotten` | and `NobodyLeaves` |
| UfsStartupProofs `StartupTypeCorrect` | `Spec => []TypeOK` | `ScanAssumption`, `StartupAssumption` |
| UfsStartupProofs `StartsUp` | `Spec => []StartedUp` | the same |
| UfsStartupProofs `ContainersNotShared` | `Spec => []ContainersOwn` | the same |
| UfsStartupProofs `RegisteredAsFound` | `Spec => []RegisteredTrue` | the same |
| UfsStartupProofs `BringsUpLink` | `Spec => ImplementsBringUp` | the same |
| FbConsoleProofs `TypeCorrect` | `Spec => []TypeOK` | `FbAssumption` |
| FbConsoleProofs `ColourRestored` | `Spec => []ColourOfCritical` | `FbAssumption` |
| FbConsoleProofs `InterruptsRestored` | `Spec => InterruptsKept` | `FbAssumption` |
| FbConsoleProofs `PaintedInside` | `Spec => []PaintsInside` | `FbAssumption` |

- **BootSlot.**  `TypeOK` bounds the pointer into the table by the index of the
  entry, and the LUN by `MaxLuns`.  It is not inductive: `ret` is
  popped, and a torn write needs a LUN that exists.  `TypeInv` adds `Calls`: there
  is a return address exactly inside `UpdatePartitionAttributes`, and only
  configured LUNs are accessed there.  `CopiesInv` says that both copies are valid except
  with the power off after a torn write.  `RepairAssumption`
  is needed: if writes may be torn and PartitionDxe did not restore the other
  copy, a second torn write could destroy it.

  `TablesStayWhole` adds `WalkInv`, the invariant of the loop over the entries: the half of an entry
  that is not updated is that of the copy that was read, and (when the GUIDs agree with
  those in memory, `Aligned`) entries before `ix` are updated, those behind it untouched,
  and the pointer is at the entry of the next partition.  Without the order of `LayoutAssumption` the
  last part is false.  `WholeInv` extends `GuidsWhole` to what a CRC was computed over
  and to `snap` and `mem`.

  `PrimaryIsWrittenFirst` adds `PrimaryInv`: the walk over a backup follows a walk over the primary
  that was not cut short.  The attributes are required of the primary only when the type GUIDs of
  its table agree with memory: behind an entry that does not match, the pointer into the
  table stays where it is (`:349-355`), and in a layout where unpaired entries follow such an entry
  their attributes do not get into either copy.

  `BootedSlotIsReady` adds `PassInv`: without I/O errors, before each update the primary
  copies agree with `bak`, and after it with `mem` (`Tracks`).  `SnapInv` says that the records of a
  boot still have the GUIDs of the disk, `DxeInv` what `found` and `target` are to
  the entries in memory at each place of the driver.  `SlotSwitchImplemented` adds `SwitchInv`: which
  slots are active in `mem` and in the primary table at each place of either
  image, and that never two are.  Only the write of the LUN that holds the boot entries is a step of
  `SlotSwitch`; all other steps are shown to stutter.

  `SwitchIsComplete` assumes neither `NoFault` nor `OnlyCrashes`: the property is about boots
  that nothing has disturbed (`disturbed = {}`).  Crashes of earlier boots are forgotten when a boot
  begins with copies that are alike (`Alike`, in `PowerOn`), so the theorem speaks of switches after
  any number of crashes; `CompleteBoots` shows that the invariant, `CompleteInv`, is re-established there, from
  whatever the crashes have left.  Three things are not forgotten.  Copies that differ, after a
  crash between the primary and the backup write of an update: the switch is then wrong in the
  backup (see the findings).  An I/O error, which may leave the device without a boot LUN, and a
  torn write.  It joins three parts.  `RestInv`: places of a table where no partition is are written back
  as they were read.  `MirrorInv`: the two copies of a table are equal except between its primary and
  its backup write.  `AppInv`: what `SwitchSlotsApp` knows at each place; its point is that
  `PtnEntriesBak` does not name the new slot before the update that activates it, which
  `UpdatePartitionAttributes` would otherwise skip as not changed.  `OwnSuffixOnly` is needed because
  `MarkPtnActive` searches the whole name of a partition for the suffix.
- **UfsProvision.**  The sum over the units is a recursive function; `SumsExist` and the lemmas behind
  it prove what is needed of it (monotone, unchanged outside a range, split at a unit) from the
  *smallest* number at which it would fail, since a rule of induction cannot be cited here.
  `CheckInv`: unless a query was given up, the copies that are compared are those of the device, and the
  edit is only reached by a device that is not as wanted.  `QuietInv`: after the first
  pass of the edit all units from the present one up are exact.  The rest of the
  proof is arithmetic: the quotients of the edit (`PlusOne`, on the byte-swapped number) and
  those of the check (`SizeFits`) are the same number, and only this number `Fits`, because nothing wraps (`NoWrap`) and a segment is an allocation unit
  (`OneSegmentUnits`).  `NoCarry` is what `ufs_provision_done` violates; `TargetsFit` is explained under
  *ufs_provision* above.  `QuietRunIsEnough` does not say that every device ends as wanted: when
  the first check passes nothing is written, and this check requires of the unit that takes
  the rest that its size *differs* from what is left, in units the device does not count in
  (`SizeFits`); such a device may keep a unit of another size there.  It says that a device that is
  written ends as wanted, after one write, and that in one that is not written all the other
  units are.
- **UfsTransport.**  `Progress` says how far a call that began with a clear
  doorbell has come: until the doorbell is rung nothing of an older request is
  left but perhaps its interrupt; from then on the controller works on this request only; once the
  doorbell is clear, response and overall status tell truly what happened
  (`Reported`).  `DoorbellKept` is why a clear doorbell suffices to know that no older request is
  under way.
- **KeypadKeys.**  `PressInv` relates the state of a key to what has been reported of its
  press; `PollInv` says that within a poll the bitmaps agree with the keys read so far.
- **KeypadConsole.**  Most of the proof is about operators.  A ring stands for the sequence
  `Contents(q)`: `PopIs`, `PutIs` and `PushIs` say that `Pop` takes its head and that `Push` appends to
  it, to its tail when it is full, for every size above one.  What a poll does is a recursive
  function of the keys it reports; claims about all its arguments are proved from the *smallest* one
  at which they would fail.  `PolledQueue` says that pushing the reported keys one by one leaves
  the latest of what was there and what came; with `Base`, which has the types, the list
  without duplicates and nothing but keys in the ring of notifications, this is all that
  `BufferImplemented` needs, and it holds for functions of any kind.

  `NothingForgotten` is not inductive.  `OwedInv` adds that the handler stands at a node that is
  registered and that nobody else is owed anything.  Each step then moves a key from one place to
  another: a push adds as many copies to the ring as registrations match, taking one out puts it in
  hand with all of the list ahead, going on passes only a node that does not match or was just
  told.  Others may be added behind or removed on either side of the handler (`Appended`,
  `Removed`: how places in the list change).  `NobodyLeaves` is needed for the first part: behind a node that is
  freed under the handler (`Behind`) a registration may be passed over.  `TypeOK` needs it too,
  because only `OwedInv` bounds `due`.
- **UfsStartup.**  `StartInv` has the types, `Course` (which list is gone through,
  and how far attempts have come, at each label) and `Progress` (what the last attempt has
  achieved when it is at a label: the link is up behind `link_startup`, the initialisation is
  finished behind `read_init` unless a request went astray, the last setting of a list is
  taken when its command was reported to succeed and none was given up before).  A failed
  step need not keep `Progress`, because the next attempt begins before any of it.  `ScanInv` says that
  the container of the present turn is for the unit that is asked and lies behind all
  containers in use (`Turned`), and what `g_buf` holds when no request was given up or failed unseen (`Truth`).  `Ordered` says
  that the scan does not begin before the link is up, which joins the two.
  `BringsUpLink` maps every step of an attempt to a stutter of `LinkBringUp`, its failure to `Fail`.
- **FbConsole.**  The four theorems share `CellInv`: where a frame stands inside a
  character, and that the column is below the end of a line when it is painted.
  `ColourInv`: a critical write on the stack holds the colour that the calls *below* it
  want, for every depth.  `QuietInv`: a write without a line feed has interrupts off and
  is the innermost.  `RowInv`: the row is a multiple of the scale, and when it leaves no room for a line
  then a write on the stack has stored a full row and is still to compare it and go back to the
  top, or interrupts are off.

Only model-checked: liveness (`BootFinishes`, `CallReturns`, `Finishes`,
`KeysSettle`, `Delivered`, `InitEnds`, `WritesReturn`), which is out of the prover's reach here.
Every other property of a passing run is also a theorem.

## Findings

Each is a run that TLC ends with a counterexample; `PROJECT.json` quotes the lines.

1. `slot_stale`: `SwitchSlotsApp` works from the partition records PartitionDxe read
   before `BootSlotDxe` changed the disk, and so takes the mark "successful" away
   from the slot that has just booted.
2. `ufs_late_answer`: the late answer to a request that was given up ends
   the wait of the next command, which is reported as successful and was never executed.
3. `ufs_provision_done`: a size that rounds up to a multiple of 256 allocation
   units is configured as 256 less, and the function returns "done".

Smaller disagreements that were met on the way and have no run:

- `PartitionTableUpdate.c:268` and `:923` mean to update both copies of a table.  After a
  crash between the primary and the backup write of the GUID pass the backup keeps
  the old GUIDs; the next boot's attribute pass over the backup then goes on to the next
  entry in memory without moving its pointer into the table (`:349-355`), and writes
  the attributes of `boot_b` over those of `boot_a`: the backup names both slots active.
  (The primary is not affected; `ImplementsSlotSwitch` is about it.)
- `Keypad.c:161-175` queues a key once per matching registration, and the handler
  (`KeypadTextIn.c:660-668`) calls every matching function for every queued key: *n* functions
  registered for one key are called *n* times each.
- `KeypadController.c:29` says that the timer handler runs under `TPL_NOTIFY`, but
  `Keypad.c:267` creates it at `TPL_CALLBACK`.
- With no active slot and a slot `_a` that was used before, `BootSlotDxe` does not make `_a`
  active, as `BootSlotDxe.c:55` announces, because `SetActiveSlot` fails first
  (`PartitionTableUpdate.c:890`; the comment adds that it should not happen).
- `ufs.c:2097-2101` promises to "enumerate all the attached Logical Units"; the scan stops
  at the first unit that answers INQUIRY and fails afterwards, and units above the number of enabled
  ones are never asked.
- `PaintsInside` needs a screen whose number of half rows is a multiple of the scale.
  The panels of 2560 and 3040 pixels have 213 and 253 of them: a handler that writes between
  `StoreRow` and `Wrap` of a line feed paints below the screen there.

Hazards that are modelled but that no property catches: a configured device is written again because
queries go unanswered, or a unit is not edited because its query failed (`UfsProvision`);
a bounce long enough for a press of its own is told as one (`KeypadKeys`); keys that a full ring
drops (`KeypadConsole`: `due` counts what the ring still holds); the status is read
again to be cleared (`ufs.c:676`: `ClearStatus` clears an error raised after the last poll); the
sense data of a late response are copied through a null pointer when it meets a query
(`:779`); a crash between attribute and GUID pass leaves the type GUIDs of the old slot for good
(`PartitionTableUpdate.c:972`).

## Not modelled

- **Kernel errata patcher** (`KernelErrataPatcher`): planned, see below.
- **OnePlus 6T slot driver** (`Op6tSlotDxe`): no platform description includes it.  It
  sets a slot flag (`slot.c:123`) and repairs the CRCs of the primary table only; after its loop
  `FixGptCRC32` runs on the last handle even when none matched.
- **Boot manager** (`PlatformBm.c`): straight-line calls of `UefiBootManagerLib`, which is not in the
  repository.  The variables are emulated in RAM
  (`PcdEmuVariableNvModeEnable` in `ExynosCommonDsc.inc`), so that no boot sees the options of an earlier one.
- **ACPI updates** (`DxeAslUpdateLib`), **timer conversions**, **RTC**: functions without state of
  their own; a reference definition of the AML search would be the search itself.
- Constant tables (SMBIOS, ACPI devices, memory maps, register and protocol headers,
  which are the largest part of the lines), `ufs_dbg.c`, the start of the firmware,
  resets and single register writes, tools of the build machine: no state, or run once
  without branches a property could be about.

Within modelled parts: the scatter list of a transfer and the longer time-out of
FORMAT UNIT (a larger `Polls`); the `_sz` variants of the SCSI calls, which drop
the status, and UNMAP, FORMAT UNIT, FFU, the security protocol and START STOP UNIT, which nothing
calls; the toggle state of the keypad console, which is only stored; `KeypadErr`, which
nothing sets; fields of a UFS unit that are only copied and compared; `ufs_ref_clk_setup`,
`ufs_disable_ufsp`, `ufs_check_available_blocks` and `FbConScrollUp`, which nothing calls;
`ResetFb`, which fills the screen; the stubs of the serial port.

## The plan

In this order:

1. **ErrataHooks**: `ExitBootServices` is replaced and restored before the real one is
   called; the code switches between the firmware's and the OS loader's mapping and must be back in the
   former on every path.  `FindPattern` starts anew behind the byte at which a
   partial match ends (`Utilities.c:27-53`), and so misses an occurrence that begins there.
2. **Composition** of KeypadKeys with KeypadConsole, with the handler between two keys of a
   poll as the interleaving that must not exist.
3. **Conversions**: tick arithmetic of `ArmArchTimerLib` in 64 bits scaled down, against a
   reference definition.
