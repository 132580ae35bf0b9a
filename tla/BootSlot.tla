------------------------------- MODULE BootSlot -------------------------------
(***************************************************************************)
(* The A/B boot slots of GPLDrivers: BootSlotLib (PartitionTableUpdate.c)  *)
(* as it is driven by its two clients, the DXE driver BootSlotDxe, which   *)
(* refreshes the current slot at every boot, and the UEFI application      *)
(* SwitchSlotsApp, which makes the other slot the active one.              *)
(*                                                                         *)
(* A slot is a set of attributes of the entries boot_a and boot_b of a GPT *)
(* partition table, plus the type GUIDs of all the entries that come in    *)
(* _a/_b pairs, plus (on UFS) the boot LUN of the device.  Each table is   *)
(* on the disk twice, and the library updates primary and backup one after *)
(* the other, so that a crash or an I/O error may separate any two writes. *)
(*                                                                         *)
(* The firmware is single threaded: a step of the model is a piece of code *)
(* between two accesses to the disk or to the boot LUN, or one iteration   *)
(* of the loop over the partition entries.                                 *)
(*                                                                         *)
(* A definition marked "mutant" is a faulty variant of the one that        *)
(* follows it; no specification uses it.                                   *)
(***************************************************************************)
EXTENDS Naturals, Sequences, FiniteSets

CONSTANTS
  Device,        \* "UFS" or "EMMC": what GetRootDeviceType answers
  MaxLuns,       \* LUNs the library looks at (MaxLuns of the code)
  Configured,    \* those that exist on the device
  Ptn,           \* the handles, in the order of PtnEntries: see PtnAssumption
  TableSize,     \* entries of an on-disk partition table
  Guids,         \* the type GUIDs
  HomeGuid,      \* HomeGuid[i]: that of entry i while slot _a is active
  InitMedia,     \* what the disk and the boot LUN may hold at first
  Disturbances,  \* which of "crash", "fault" and "tear" may happen
  DriverRepairs  \* does PartitionDxe restore an invalid copy from the other?

Luns   == 0 .. MaxLuns - 1
Copies == {"primary", "backup"}
Idx    == 1 .. Len(Ptn)
Pos    == 1 .. TableSize

Suffixes == {"_a", "_b"}
NoSlot   == "none"
NoGuid   == "no_guid"
Other(s) == IF s = "_a" THEN "_b" ELSE "_a"

(***************************************************************************)
(* The attribute bits of an entry the library looks at, and an entry.      *)
(***************************************************************************)
MaxPriority   == 3
MaxRetryCount == 7

Attr == [prio: 0 .. MaxPriority, active: BOOLEAN, retry: 0 .. MaxRetryCount,
         succ: BOOLEAN, unboot: BOOLEAN]

NoAttr == [prio |-> 0, active |-> FALSE, retry |-> 0, succ |-> FALSE,
           unboot |-> FALSE]

Entry    == [guid: Guids \cup {NoGuid}, attr: Attr]
Unused   == [guid |-> NoGuid, attr |-> NoAttr]
Table    == [Pos -> Entry]
NoTable  == [p \in Pos |-> Unused]

(***************************************************************************)
(* A copy of a table: its entries, and the entries its CRC was computed    *)
(* over.  The copy is valid when they are the same.                        *)
(***************************************************************************)
Copy        == [ent: Table, crc: Table]
Sealed(t)   == [ent |-> t, crc |-> t]
IsValid(c)  == c.crc = c.ent

\* What replaces copy c when t is written: the entries and a CRC of them.
WrittenUnderOldCrc(c, t) == [ent |-> t, crc |-> c.crc]            \* mutant
Written(c, t) == Sealed(t)

(***************************************************************************)
(* Ptn[i] describes the i-th handle of the enumeration: the LUN it is on,  *)
(* its position in the table of that LUN (0 for the handle of the whole    *)
(* LUN, which has no partition record), and its name: base and slot        *)
(* suffix, and the suffixes its name contains anywhere.                    *)
(***************************************************************************)
PartitionHandle == [base: STRING, slot: Suffixes \cup {""},
                    holds: SUBSET Suffixes, lun: Configured, home: Nat]

PtnAssumption ==
  /\ Ptn \in Seq(PartitionHandle)
  /\ TableSize \in Nat /\ Len(Ptn) <= TableSize
  /\ \A i \in Idx : Ptn[i].home <= TableSize
  /\ \A i, j \in Idx : i < j => Ptn[i].lun <= Ptn[j].lun
  /\ \A s \in Suffixes : \E i \in Idx :
       Ptn[i].base = "boot" /\ Ptn[i].slot = s /\ Ptn[i].home # 0

(***************************************************************************)
(* The handles with an entry in the table of a LUN.  The library counts    *)
(* them to find that entry, so it relies on PartitionDxe installing them   *)
(* in the order of the table, and on a table without gaps.  No two         *)
(* partitions of a slot have the same name; a handle without a partition   *)
(* record has none.                                                        *)
(***************************************************************************)
On == [l \in Luns |-> {i \in Idx : Ptn[i].lun = l /\ Ptn[i].home # 0}]

LayoutAssumption ==
  /\ \A l \in Configured : \A i, j \in On[l] : i < j => Ptn[i].home < Ptn[j].home
  /\ \A l \in Configured : \A i \in On[l] :
       Ptn[i].home = 1 \/ \E j \in On[l] : j < i /\ Ptn[i].home = Ptn[j].home + 1
  /\ \A i, j \in Idx :
       Ptn[i].slot \in Suffixes /\ Ptn[j].slot = Ptn[i].slot /\ Ptn[j].base = Ptn[i].base
         => i = j
  /\ \A i \in Idx : Ptn[i].home = 0 => Ptn[i].slot = ""

DeviceAssumption ==
  /\ Device \in {"UFS", "EMMC"}
  /\ MaxLuns \in Nat \ {0} /\ (Device = "EMMC" => MaxLuns = 1)
  /\ Configured \subseteq Luns
  /\ NoGuid \notin Guids /\ HomeGuid \in [Idx -> Guids]
  /\ Disturbances \subseteq {"crash", "fault", "tear"}
  /\ DriverRepairs \in BOOLEAN

InitAssumption ==
  InitMedia \subseteq [tab: [Luns -> Table], bootLun: 0 .. 2]

ASSUME BootSlotAssumption ==
  PtnAssumption /\ LayoutAssumption /\ DeviceAssumption /\ InitAssumption

VARIABLES
  (* What survives a reset *)
  disk,       \* disk[l][c]: copy c of the table of LUN l
  bootLun,    \* the UFS boot LUN: 1 boots slot _a, 2 boots slot _b
  (* Memory of the firmware *)
  snap,       \* the tables as PartitionDxe read them at this boot
  mem, bak,   \* PtnEntries and PtnEntriesBak
  (* Control *)
  pc, ret,    \* where the code is; where UpdatePartitionAttributes or
              \* GetActiveSlot continues
  img,        \* the running image: "dxe" or "app"
  outcome,    \* how the last image ended: "ok", "err" or "none"
  found,      \* the slot GetActiveSlot found
  target,     \* the slot SetActiveSlot is asked for
  (* Locals of UpdatePartitionAttributes *)
  type, lun, iter, ix, pos, buf, dirty,
  (* History: the kinds of disturbances so far.  A crash is forgotten when  *)
  (* a boot begins with both copies of every table alike and valid.         *)
  disturbed

media == <<disk, bootLun>>
slots == <<img, outcome, found, target>>
walk  == <<type, lun, iter, ix, pos, buf, dirty>>
vars  == <<media, snap, mem, bak, pc, ret, slots, walk, disturbed>>

-------------------------------------------------------------------------------
(* The entries in memory                                                   *)

\* UpdatePartitionEntries copies the partition records of the handles.  A
\* handle without one leaves its entry zero.
EntriesOf(s) ==
  [i \in Idx |-> IF Ptn[i].home = 0 THEN Unused ELSE s[Ptn[i].lun][Ptn[i].home]]

IsPtn(m, i, base, s) ==
  Ptn[i].base = base /\ Ptn[i].slot = s /\ m[i].guid # NoGuid

\* GetBootPartitionEntry
BootIdx ==
  [s \in Suffixes |-> CHOOSE i \in Idx : /\ Ptn[i].base = "boot"
                                        /\ Ptn[i].slot = s /\ Ptn[i].home # 0]

PartitionHasMultiSlot(m) ==
  \A s \in Suffixes : m[BootIdx[s]].guid # NoGuid

BootAttr(m, s) == m[BootIdx[s]].attr

WithBootAttr(m, s, a) == [m EXCEPT ![BootIdx[s]].attr = a]

\* Mutant of Partner: only the entries of slot _a look for their twins.
PartnerOneWay(m, i) ==
  LET twins == {j \in Idx : /\ Ptn[i].slot = "_a"
                            /\ IsPtn(m, j, Ptn[i].base, "_b")}
  IN IF twins = {} THEN i ELSE CHOOSE j \in twins : TRUE

\* The index whose type GUID SwitchPtnSlots exchanges with that of i: the
\* entry of the same base name with the other suffix, if there is one.
Partner(m, i) ==
  LET twins == {j \in Idx : /\ Ptn[i].slot \in Suffixes
                            /\ m[i].guid # NoGuid
                            /\ IsPtn(m, j, Ptn[i].base, Other(Ptn[i].slot))}
  IN IF twins = {} THEN i ELSE CHOOSE j \in twins : TRUE

SwapPtnGuids(m) ==
  [i \in Idx |-> [m[i] EXCEPT !.guid = m[Partner(m, i)].guid]]

\* StrStr looks for the suffix anywhere in the name of the entry.
MarkActive(m, s) ==
  [i \in Idx |-> [m[i] EXCEPT
     !.attr.active = m[i].guid # NoGuid /\ s \in Ptn[i].holds]]

-------------------------------------------------------------------------------
(* Slots                                                                   *)

\* The slot the loop of GetActiveSlot ends with: an active one with a
\* priority above that of those before it.
HighestActive(m) ==
  LET prio(s) == IF BootAttr(m, s).active THEN BootAttr(m, s).prio ELSE 0
  IN IF prio("_b") > prio("_a") THEN "_b"
     ELSE IF prio("_a") > 0 THEN "_a" ELSE NoSlot

IsFirstBoot(a) == ~a.active /\ ~a.succ /\ ~a.unboot /\ a.prio = 0

FirstBootAttr(a) ==
  [a EXCEPT !.succ = FALSE, !.unboot = FALSE, !.prio = MaxPriority,
            !.active = TRUE, !.retry = MaxRetryCount]

IsSlotBootable(a) == ~a.unboot /\ a.succ

ClearUnbootableOverflow(a) ==                                     \* mutant
  [a EXCEPT !.unboot = FALSE, !.retry = MaxRetryCount + 1]

ClearUnbootableAttr(a) == [a EXCEPT !.unboot = FALSE, !.retry = MaxRetryCount]

\* What SetActiveSlot makes of the attributes of the new slot ...
NewSlotAttr(a, reset, set) ==
  [a EXCEPT !.prio = MaxPriority, !.active = TRUE, !.retry = MaxRetryCount,
            !.unboot = FALSE, !.succ = set \/ (@ /\ ~reset)]

\* ... and of those of the alternate one.
AlternateStaysActive(a) == [a EXCEPT !.prio = MaxPriority - 1]     \* mutant

AlternateAttr(a) == [a EXCEPT !.prio = MaxPriority - 1, !.active = FALSE]

\* The boot LUN for a slot, when it is now lun l: 1 and 2 are exchanged, any
\* other value is left alone.
BootLunFor(s, l) ==
  IF l = 1 /\ s = "_b" THEN 2 ELSE IF l = 2 /\ s = "_a" THEN 1 ELSE l

-------------------------------------------------------------------------------
(* Control                                                                 *)

\* What the firmware's memory holds when the power comes on.
NoEntries == [i \in Idx |-> Unused]
NoSnap    == [l \in Luns |-> NoTable]

Goto(l) == pc' = l /\ UNCHANGED ret

\* Call UpdatePartitionAttributes(t), to go on at r.
CallUpdate(t, r) ==
  /\ pc' = "upd" /\ ret' = r /\ type' = t
  /\ UNCHANGED <<lun, iter, ix, pos, buf, dirty>>

\* Its locals start from these values, and are gone when it returns.
NoLocals ==
  /\ type' = "ATTR" /\ lun' = 0 /\ iter' = "primary" /\ ix' = 1 /\ pos' = 1
  /\ buf' = NoTable /\ dirty' = FALSE

Return == pc' = ret /\ ret' = "none" /\ NoLocals

\* The image ends; its data are not used again.
Exit(o) ==
  /\ pc' = "bds" /\ outcome' = o
  /\ mem' = NoEntries /\ bak' = NoEntries
  /\ UNCHANGED <<ret, img, found, target>>

Init ==
  /\ \E m \in InitMedia :
       /\ disk = [l \in Luns |-> [c \in Copies |-> Sealed(m.tab[l])]]
       /\ bootLun = m.bootLun
  /\ pc = "off" /\ ret = "none" /\ img = "dxe" /\ outcome = "none"
  /\ found = NoSlot /\ target = NoSlot
  /\ snap = NoSnap /\ mem = NoEntries /\ bak = NoEntries
  /\ type = "ATTR" /\ lun = 0 /\ iter = "primary" /\ ix = 1 /\ pos = 1
  /\ buf = NoTable /\ dirty = FALSE
  /\ disturbed = {}

\* The machine is reset: only disk, bootLun and the history remain.
PowerLoss ==
  /\ pc' = "off" /\ ret' = "none" /\ img' = "dxe" /\ outcome' = "none"
  /\ found' = NoSlot /\ target' = NoSlot
  /\ snap' = NoSnap /\ mem' = NoEntries /\ bak' = NoEntries
  /\ NoLocals

-------------------------------------------------------------------------------
(* The environment: PartitionDxe, the boot manager and resets              *)

\* The table PartitionDxe reads from a LUN: the primary copy, or the backup
\* when that is damaged.
BestTable(d) ==
  IF IsValid(d["primary"]) THEN d["primary"].ent
  ELSE IF IsValid(d["backup"]) THEN d["backup"].ent ELSE NoTable

Repaired(d) ==
  IF DriverRepairs /\ \E c \in Copies : IsValid(d[c])
  THEN [c \in Copies |-> IF IsValid(d[c]) THEN d[c] ELSE Sealed(BestTable(d))]
  ELSE d

\* The two copies of every table are the same, and valid.
Alike == \A l \in Luns : /\ disk[l]["primary"] = disk[l]["backup"]
                         /\ IsValid(disk[l]["primary"])

\* A boot: PartitionDxe parses the tables, once; BootSlotDxe is dispatched.
PowerOn ==
  /\ pc = "off"
  /\ Goto("load")
  /\ snap' = [l \in Luns |-> IF l \in Configured THEN BestTable(disk[l])
                                                 ELSE NoTable]
  /\ disk' = [l \in Luns |-> Repaired(disk[l])]
  /\ disturbed' = IF Alike' THEN disturbed \ {"crash"} ELSE disturbed
  /\ UNCHANGED <<bootLun, mem, bak, slots, walk>>

\* The user starts SwitchSlotsApp; it has its own copy of the library's data.
RunApp ==
  /\ pc = "bds"
  /\ Goto("load")
  /\ img' = "app" /\ outcome' = "none" /\ found' = NoSlot /\ target' = NoSlot
  /\ UNCHANGED <<media, snap, mem, bak, walk, disturbed>>

\* ResetSystem, called by SwitchSlotsApp when it is done, or later by the
\* operating system.
Reset ==
  /\ pc \in {"bds", "reset"}
  /\ PowerLoss
  /\ UNCHANGED <<media, disturbed>>

Crash ==
  /\ "crash" \in Disturbances
  /\ pc \notin {"off", "bds", "reset"}
  /\ PowerLoss
  /\ disturbed' = disturbed \cup {"crash"}
  /\ UNCHANGED media

-------------------------------------------------------------------------------
(* The two images up to SetActiveSlot                                      *)

\* EnumeratePartitions, UpdatePartitionEntries and the multislot check.  What
\* is copied is what PartitionDxe read, not what is on the disk now.
Load ==
  /\ pc = "load"
  /\ IF PartitionHasMultiSlot(EntriesOf(snap))
     THEN /\ mem' = EntriesOf(snap) /\ bak' = EntriesOf(snap)
          /\ Goto("getActive") /\ UNCHANGED slots
     ELSE Exit(IF img = "dxe" THEN "ok" ELSE "err")
  /\ UNCHANGED <<media, snap, walk, disturbed>>

\* GetActiveSlot is called for the current slot of the image, before there
\* is a target, and again by SetActiveSlot.
Caller == IF target = NoSlot THEN "gotCurrent" ELSE "set"

GetActiveSlot ==
  /\ pc = "getActive"
  /\ LET s == HighestActive(mem)
         a == BootAttr(mem, "_a")
     IN \/ /\ s # NoSlot \/ ~IsFirstBoot(a)
           /\ found' = s /\ Goto(Caller)
           /\ UNCHANGED <<mem, walk>>
        \/ /\ s = NoSlot /\ IsFirstBoot(a)
           /\ found' = "_a"
           /\ mem' = WithBootAttr(mem, "_a", FirstBootAttr(a))
           /\ CallUpdate("ATTR", Caller)
  /\ UNCHANGED <<media, snap, bak, img, outcome, target, disturbed>>

\* BootSlotMain with the slot it refreshes, slot _a when it found none.
DxeCurrent ==
  /\ pc = "gotCurrent" /\ img = "dxe"
  /\ target' = IF found = NoSlot THEN "_a" ELSE found
  /\ Goto("clear_a")
  /\ UNCHANGED <<media, snap, mem, bak, img, outcome, found, walk, disturbed>>

\* SwitchSlotsAppEntryPoint with the slot it switches to.
AppCurrent ==
  /\ pc = "gotCurrent" /\ img = "app"
  /\ IF found = NoSlot
     THEN Exit("err")
     ELSE /\ target' = Other(found)
          /\ Goto("getActive")
          /\ UNCHANGED <<img, outcome, found, mem, bak>>
  /\ UNCHANGED <<media, snap, walk, disturbed>>

\* One iteration of the loop of BootSlotMain over the slots.
ClearUnbootable(s, here, next) ==
  /\ pc = here
  /\ IF IsSlotBootable(BootAttr(mem, s))
     THEN Goto(next) /\ UNCHANGED <<mem, walk>>
     ELSE /\ mem' = WithBootAttr(mem, s, ClearUnbootableAttr(BootAttr(mem, s)))
          /\ CallUpdate("ATTR", next)
  /\ UNCHANGED <<media, snap, bak, slots, disturbed>>

-------------------------------------------------------------------------------
(* SetActiveSlot                                                           *)

\* The attributes of both slots change in memory, then on the disk.  BootSlotDxe
\* calls SetActiveSlot(slot, FALSE, TRUE), SwitchSlotsApp (slot, TRUE, FALSE).
SetActiveSlot ==
  /\ pc = "set"
  /\ LET new == WithBootAttr(mem, target,
                  NewSlotAttr(BootAttr(mem, target), img = "app", img = "dxe"))
         alt == Other(target)
     IN IF found = NoSlot
        THEN Exit("err") /\ UNCHANGED walk
        ELSE /\ mem' = WithBootAttr(new, alt, AlternateAttr(BootAttr(new, alt)))
             /\ CallUpdate("ATTR", "flipped")
             /\ UNCHANGED <<bak, slots>>
  /\ UNCHANGED <<media, snap, disturbed>>

\* UfsGetSetBootLun, read and then written.  No caller looks at the status:
\* when one of them fails, the boot LUN becomes one of failed.
FollowBootLun(failed) ==
  \/ /\ bootLun' = IF Device = "UFS" THEN BootLunFor(target, bootLun) ELSE bootLun
     /\ UNCHANGED disturbed
  \/ /\ Device = "UFS" /\ "fault" \in Disturbances
     /\ bootLun' \in failed
     /\ disturbed' = disturbed \cup {"fault"}

RefreshWithoutBootLun ==                                          \* mutant
  /\ pc = "flipped" /\ found = target
  /\ Goto("setDone")
  /\ UNCHANGED <<media, snap, mem, bak, slots, walk, disturbed>>

\* The slot was active already: only its boot LUN may need to follow it.
RefreshBootLun ==
  /\ pc = "flipped" /\ found = target
  /\ FollowBootLun({bootLun})
  /\ Goto("setDone")
  /\ UNCHANGED <<disk, snap, mem, bak, slots, walk>>

\* The type GUIDs of all pairs are exchanged in memory, and the boot LUN is
\* written in any case: after a failed read, with the 0 UfsBootLun had.
SwitchPtnSlots ==
  /\ pc = "flipped" /\ found # target
  /\ mem' = SwapPtnGuids(mem)
  /\ FollowBootLun({bootLun, 0})
  /\ CallUpdate("GUID", "mark")
  /\ UNCHANGED <<disk, snap, bak, slots>>

MarkPtnActive ==
  /\ pc = "mark"
  /\ mem' = MarkActive(mem, target)
  /\ CallUpdate("ATTR", "setDone")
  /\ UNCHANGED <<media, snap, bak, slots, disturbed>>

\* BootSlotMain returns; SwitchSlotsApp updates the tables twice more.
DxeDone ==
  /\ pc = "setDone" /\ img = "dxe"
  /\ Exit("ok")
  /\ UNCHANGED <<media, snap, walk, disturbed>>

AppUpdateGuids ==
  /\ pc = "setDone" /\ img = "app"
  /\ CallUpdate("GUID", "guidsDone")
  /\ UNCHANGED <<media, snap, mem, bak, slots, disturbed>>

AppUpdateAttributes ==
  /\ pc = "guidsDone"
  /\ CallUpdate("ATTR", "reset")
  /\ UNCHANGED <<media, snap, mem, bak, slots, disturbed>>

-------------------------------------------------------------------------------
(* UpdatePartitionAttributes                                               *)

\* IsUpdatePartitionAttributes: nothing to do when memory equals its backup.
Update ==
  /\ pc = "upd"
  /\ IF mem = bak
     THEN Return
     ELSE Goto("lun") /\ UNCHANGED walk
  /\ UNCHANGED <<media, snap, mem, bak, slots, disturbed>>

NextLunStuck ==                                                   \* mutant
  /\ pc = "lun"
  /\ \/ lun >= MaxLuns /\ Return
     \/ lun < MaxLuns /\ lun \notin Configured /\ UNCHANGED <<pc, ret, walk>>
     \/ /\ lun < MaxLuns /\ lun \in Configured
        /\ iter' = "primary" /\ Goto("read")
        /\ UNCHANGED <<type, lun, ix, pos, buf, dirty>>
  /\ UNCHANGED <<media, snap, mem, bak, slots, disturbed>>

\* The loop over the LUNs; one without a block device is left out.
NextLun ==
  /\ pc = "lun"
  /\ \/ lun >= MaxLuns /\ Return
     \/ /\ lun < MaxLuns /\ lun \notin Configured
        /\ lun' = lun + 1
        /\ UNCHANGED <<pc, ret, type, iter, ix, pos, buf, dirty>>
     \/ /\ lun < MaxLuns /\ lun \in Configured
        /\ iter' = "primary" /\ Goto("read")
        /\ UNCHANGED <<type, lun, ix, pos, buf, dirty>>
  /\ UNCHANGED <<media, snap, mem, bak, slots, disturbed>>

NextCopySameLun ==                                                \* mutant
  /\ \/ iter = "primary" /\ iter' = "backup" /\ Goto("read")
     \/ iter = "backup" /\ Goto("lun") /\ UNCHANGED iter
  /\ ix' = 1 /\ pos' = 1 /\ buf' = NoTable /\ dirty' = FALSE
  /\ UNCHANGED <<type, lun>>

\* Go on with the backup, or with the next LUN.  The buffer is read anew.
NextCopy ==
  /\ \/ iter = "primary" /\ iter' = "backup" /\ Goto("read") /\ UNCHANGED lun
     \/ iter = "backup" /\ lun' = lun + 1 /\ Goto("lun") /\ UNCHANGED iter
  /\ ix' = 1 /\ pos' = 1 /\ buf' = NoTable /\ dirty' = FALSE
  /\ UNCHANGED type

FaultPassedOver ==                                                \* mutant
  /\ "fault" \in Disturbances
  /\ disturbed' = disturbed \cup {"fault"}
  /\ NextCopy

FaultTriedAgain ==                                                \* mutant
  /\ "fault" \in Disturbances
  /\ disturbed' = disturbed \cup {"fault"}
  /\ Goto("lun") /\ UNCHANGED walk

\* Exit of UpdatePartitionAttributes on an error: it returns nothing, and the
\* copies and LUNs that were to follow are not tried.
Fault ==
  /\ "fault" \in Disturbances
  /\ disturbed' = disturbed \cup {"fault"}
  /\ Return

ReadCopy ==
  /\ pc = "read"
  /\ \/ /\ buf' = disk[lun][iter].ent
        /\ Goto("walk")
        /\ UNCHANGED <<type, lun, iter, ix, pos, dirty, disturbed>>
     \/ Fault
  /\ UNCHANGED <<media, snap, mem, bak, slots>>

\* The loop over the entries in memory.  It ends behind the last one, or on
\* UFS at the first that belongs to a later LUN.
AfterLun(i) == mem[i].guid # NoGuid /\ Device = "UFS" /\ Ptn[i].lun > lun

\* An entry without a type GUID is the handle of a whole LUN; neither it nor
\* an entry of an earlier LUN moves the pointer into the table.
OnEarlierLun(i) == Device = "UFS" /\ Ptn[i].lun < lun             \* mutant

NotInTable(i) == \/ mem[i].guid = NoGuid
                 \/ Device = "UFS" /\ Ptn[i].lun < lun

SkipEntry ==
  /\ pc = "walk" /\ ix \in Idx
  /\ NotInTable(ix)
  /\ ix' = ix + 1
  /\ UNCHANGED <<media, snap, mem, bak, pc, ret, slots, type, lun, iter, pos,
                 buf, dirty, disturbed>>

Visiting == pc = "walk" /\ ix \in Idx /\ ~NotInTable(ix) /\ ~AfterLun(ix)

UpdateGuid ==
  /\ Visiting /\ type = "GUID"
  /\ IF buf[pos].guid # mem[ix].guid
     THEN /\ buf' = [buf EXCEPT ![pos].guid = mem[ix].guid]
          /\ bak' = [bak EXCEPT ![ix].guid = mem[ix].guid]
          /\ dirty' = TRUE
     ELSE UNCHANGED <<buf, bak, dirty>>
  /\ ix' = ix + 1 /\ pos' = pos + 1
  /\ UNCHANGED <<media, snap, mem, pc, ret, slots, type, lun, iter, disturbed>>

\* The attributes go to the entry under the pointer if that has the same type
\* GUID, or none.
UpdateAttr ==
  /\ Visiting /\ type = "ATTR"
  /\ buf[pos].guid \in {NoGuid, mem[ix].guid}
  /\ IF buf[pos].attr # mem[ix].attr
     THEN /\ buf' = [buf EXCEPT ![pos].attr = mem[ix].attr]
          /\ bak' = [bak EXCEPT ![ix].attr = mem[ix].attr]
          /\ dirty' = TRUE
     ELSE UNCHANGED <<buf, bak, dirty>>
  /\ ix' = ix + 1 /\ pos' = pos + 1
  /\ UNCHANGED <<media, snap, mem, pc, ret, slots, type, lun, iter, disturbed>>

\* Otherwise the entry is passed over, and the pointer stays where it is.
GuidMismatch ==
  /\ Visiting /\ type = "ATTR"
  /\ buf[pos].guid \notin {NoGuid, mem[ix].guid}
  /\ ix' = ix + 1
  /\ UNCHANGED <<media, snap, mem, bak, pc, ret, slots, type, lun, iter, pos,
                 buf, dirty, disturbed>>

\* Nothing is written when the loop changed nothing (SkipUpdation).
EndWalk ==
  /\ pc = "walk"
  /\ ix \in Idx => AfterLun(ix)
  /\ IF dirty THEN Goto("write") /\ UNCHANGED walk ELSE NextCopy
  /\ UNCHANGED <<media, snap, mem, bak, slots, disturbed>>

\* The buffer is written back, under a new CRC.
WriteCopy ==
  /\ pc = "write"
  /\ \/ /\ disk' = [disk EXCEPT ![lun][iter] = Written(@, buf)]
        /\ NextCopy
        /\ UNCHANGED disturbed
     \/ Fault /\ UNCHANGED disk
  /\ UNCHANGED <<bootLun, snap, mem, bak, slots>>

\* The power fails during the write: the block of the header and those of the
\* entries hold the new or the old data, each for itself.
TornWrite ==
  /\ pc = "write" /\ "tear" \in Disturbances
  /\ \E written \in SUBSET Pos, header \in BOOLEAN :
       LET old == disk[lun][iter]
       IN disk' = [disk EXCEPT ![lun][iter] =
                     [ent |-> [p \in Pos |-> IF p \in written THEN buf[p]
                                                              ELSE old.ent[p]],
                      crc |-> IF header THEN Written(old, buf).crc
                                        ELSE old.crc]]
  /\ PowerLoss
  /\ disturbed' = disturbed \cup {"tear"}
  /\ UNCHANGED bootLun

-------------------------------------------------------------------------------
Firmware ==
  \/ Load \/ GetActiveSlot \/ DxeCurrent \/ AppCurrent
  \/ ClearUnbootable("_a", "clear_a", "clear_b")
  \/ ClearUnbootable("_b", "clear_b", "getActive")
  \/ SetActiveSlot \/ RefreshBootLun \/ SwitchPtnSlots \/ MarkPtnActive
  \/ DxeDone \/ AppUpdateGuids \/ AppUpdateAttributes
  \/ Update \/ NextLun \/ ReadCopy
  \/ SkipEntry \/ UpdateGuid \/ UpdateAttr \/ GuidMismatch \/ EndWalk \/ WriteCopy

Environment == PowerOn \/ RunApp \/ Reset \/ Crash \/ TornWrite

Next == Firmware \/ Environment

Spec == Init /\ [][Next]_vars

\* The firmware has one thread and waits for nothing: as long as the power is
\* on, it takes its next step.
FairSpec == Spec /\ WF_vars(Firmware)

-------------------------------------------------------------------------------
(* Properties                                                              *)

DiskEntry(i, c) == disk[Ptn[i].lun][c].ent[Ptn[i].home]

\* The entry with the same base name and the other suffix, i if there is none.
IsTwin(i, j) == /\ Ptn[i].slot \in Suffixes
                /\ Ptn[j].base = Ptn[i].base /\ Ptn[j].slot = Other(Ptn[i].slot)

Twin == [i \in Idx |-> IF \E j \in Idx : IsTwin(i, j)
                       THEN CHOOSE j \in Idx : IsTwin(i, j) ELSE i]

\* The slots whose boot entry has the active flag in copy c of the table.
ActiveOn(c) == {s \in Suffixes : DiskEntry(BootIdx[s], c).attr.active}

LunOf(s) == IF s = "_a" THEN 1 ELSE 2

TypeOK ==
  /\ disk \in [Luns -> [Copies -> Copy]]
  /\ bootLun \in 0 .. 2
  /\ snap \in [Luns -> Table]
  /\ mem \in [Idx -> Entry] /\ bak \in [Idx -> Entry]
  /\ pc \in {"off", "load", "getActive", "gotCurrent", "clear_a", "clear_b",
             "set", "flipped", "mark", "setDone", "guidsDone", "bds", "reset",
             "upd", "lun", "read", "walk", "write"}
  /\ ret \in {"none", "gotCurrent", "clear_b", "getActive", "set", "flipped",
              "mark", "setDone", "guidsDone", "reset"}
  /\ img \in {"dxe", "app"} /\ outcome \in {"none", "ok", "err"}
  /\ found \in Suffixes \cup {NoSlot} /\ target \in Suffixes \cup {NoSlot}
  /\ type \in {"ATTR", "GUID"} /\ lun \in 0 .. MaxLuns /\ iter \in Copies
  /\ ix \in 1 .. Len(Ptn) + 1 /\ pos \in 1 .. ix
  /\ buf \in Table /\ dirty \in BOOLEAN
  /\ disturbed \subseteq Disturbances

(* The calls: there is somewhere to return to exactly in                    *)
(* UpdatePartitionAttributes, SetActiveSlot has a slot to activate, and     *)
(* only LUNs that exist are accessed.                                       *)
Calls ==
  /\ pc \in {"upd", "lun", "read", "walk", "write"} <=> ret # "none"
  /\ pc = "set" \/ ret = "set" => target \in Suffixes
  /\ pc \in {"read", "walk", "write"} => lun \in Configured

(* When BootSlotDxe reports success, its writes are on the disk and agree   *)
(* with one another whatever crashes came before: the slot it refreshed is  *)
(* the active one in the primary table, successful and with all its         *)
(* retries, the other one is not active and comes behind it, and the boot   *)
(* LUN of the device belongs to that slot (SetActiveSlot).                  *)
BootedSlotReady ==
  pc = "bds" /\ img = "dxe" /\ outcome = "ok" =>
    LET attr(s) == DiskEntry(BootIdx[s], "primary").attr
    IN /\ attr(target) = [prio |-> 3, active |-> TRUE, retry |-> 7,
                          succ |-> TRUE, unboot |-> FALSE]
       /\ ~attr(Other(target)).active /\ attr(Other(target)).prio < 3
       /\ Device = "UFS" => bootLun = LunOf(target)

(* Whatever crashes the boots before it suffered, a switch is complete when *)
(* SwitchSlotsApp resets, if its boot began with both copies of every table *)
(* alike and nothing happens in that boot: in both copies of the tables of  *)
(* all LUNs the type GUIDs of every _a/_b pair are exchanged with respect   *)
(* to those the application started from, the partitions of the new slot    *)
(* are the active ones, the copies are the same, and the boot LUN belongs   *)
(* to the new slot.  Excepted are                                           *)
(*   - a boot that begins with copies that differ, after a crash between    *)
(*     the two writes of an update: the attributes then go to the wrong     *)
(*     entries of the backup, or to none (PartitionTableUpdate.c:349-355);  *)
(*   - a device that has ever reported an I/O error, which may have left it *)
(*     without a boot LUN, or has ever torn a write.                        *)
SwitchComplete ==
  pc = "reset" /\ disturbed = {} =>
    /\ \A i \in Idx, c \in Copies : Ptn[i].home # 0 =>
         /\ DiskEntry(i, c).guid = EntriesOf(snap)[Twin[i]].guid
         /\ DiskEntry(i, c).attr.active <=> Ptn[i].slot = target
    /\ \A l \in Luns : disk[l]["primary"] = disk[l]["backup"]
    /\ Device = "UFS" => bootLun = LunOf(target)

(* The entries of a table have the type GUIDs they have when slot _a is     *)
(* active, or they are all exchanged with those of their twins.             *)
Whole(t, l) ==
  \/ \A i \in On[l] : t[Ptn[i].home].guid = HomeGuid[i]
  \/ \A i \in On[l] : t[Ptn[i].home].guid = HomeGuid[Twin[i]]

(* No crash, I/O error or torn write, at any point of a switch, leaves a    *)
(* valid copy of a table in which some pairs of partitions have exchanged   *)
(* their type GUIDs and others have not, or a GUID is lost or doubled       *)
(* (SwitchPtnSlots with UpdatePartitionAttributes(PARTITION_GUID)).         *)
GuidsWhole ==
  \A l \in Configured, c \in Copies :
    IsValid(disk[l][c]) => Whole(disk[l][c].ent, l)

(* Whatever is torn, every LUN keeps a copy of its table that PartitionDxe  *)
(* accepts: UpdatePartitionAttributes writes the copies one after the       *)
(* other, each under a CRC of what it writes.                               *)
OneCopyValid ==
  \A l \in Configured : \E c \in Copies : IsValid(disk[l][c])

\* The primary table of LUN l holds what the update is to write: the type
\* GUIDs in memory, or the attributes, which UpdatePartitionAttributes can
\* place in a table only when that has the GUIDs memory has.
PrimaryHolds(l) ==
  LET e(i) == disk[l]["primary"].ent[Ptn[i].home]
      sameGuids == \A i \in On[l] : e(i).guid = mem[i].guid
  IN IF type = "GUID" THEN sameGuids
     ELSE sameGuids => \A i \in On[l] : e(i).attr = mem[i].attr

(* The backup of a table is written only when the primary holds what it is  *)
(* about to hold too: an update that could not write the primary copy stops *)
(* there (goto Exit), also when the write is tried again later.             *)
PrimaryFirst ==
  [][ \A l \in Luns :
        disk'[l]["backup"] # disk[l]["backup"] => PrimaryHolds(l) ]_disk

(* Every image of a boot comes to its end, whatever I/O errors it meets and *)
(* whichever LUNs are missing: the loops over LUNs, copies and entries all  *)
(* end (UpdatePartitionAttributes and its exits).                           *)
BootFinishes == (pc = "load") ~> (pc \in {"bds", "reset", "off"})

-------------------------------------------------------------------------------
(* What the comments of the code say, and the code does not do             *)

(* SetActiveSlot: "Reduce the priority and clear the active flag for        *)
(* alternate slot": nothing else of that slot changes, so the marks         *)
(* BootSlotDxe has just given it at this boot survive a switch.             *)
AlternateKeepsItsMarks ==
  [][ img = "app" /\ target # NoSlot =>
        LET marks(c) == [DiskEntry(BootIdx[Other(target)], c).attr EXCEPT
                           !.prio = 0, !.active = FALSE]
        IN pc' # "off" => \A c \in Copies : marks(c)' = marks(c) ]_disk

-------------------------------------------------------------------------------
(* The abstract specification: one variable holds the active slot          *)

ActiveSlot == IF ActiveOn("primary") = {} THEN NoSlot
              ELSE IF Cardinality(ActiveOn("primary")) = 1
              THEN CHOOSE s \in Suffixes : s \in ActiveOn("primary")
              ELSE "both"

Wanted == IF img = "app" THEN target ELSE NoSlot

Abstract == INSTANCE SlotSwitch WITH slot <- ActiveSlot, wanted <- Wanted

(* Although a switch takes up to six writes per LUN, with crashes between   *)
(* any two of them, the primary table always names the slot an atomic       *)
(* switch would name.                                                       *)
ImplementsSlotSwitch == Abstract!Spec

-------------------------------------------------------------------------------
(* What the theorems assume of the environment ...                          *)

RepairAssumption == "tear" \in Disturbances => DriverRepairs
NoFault          == "fault" \notin Disturbances
OnlyCrashes      == Disturbances \subseteq {"crash"}

(* ... and of the device when it is first used.                             *)

\* There is at most one active slot in these entries, and it has a priority.
Sane(m) == /\ \A s \in Suffixes : BootAttr(m, s).active => BootAttr(m, s).prio > 0
           /\ ~(BootAttr(m, "_a").active /\ BootAttr(m, "_b").active)

\* Pairs of partitions do not extend over two LUNs.
PairsShareLun == \A i, j \in Idx : IsTwin(i, j) => Ptn[i].lun = Ptn[j].lun

\* The names of partitions contain no suffix but the one they end with.
OwnSuffixOnly ==
  \A i \in Idx : Ptn[i].holds = (IF Ptn[i].slot \in Suffixes THEN {Ptn[i].slot} ELSE {})

\* That is so of the boot partitions.
BootNames == \A s \in Suffixes : Ptn[BootIdx[s]].holds = {s}

MediaWhole   == \A m \in InitMedia, l \in Configured : Whole(m.tab[l], l)
MediaBootLun == Device = "UFS" => \A m \in InitMedia : m.bootLun \in {1, 2}
MediaSane    == \A m \in InitMedia : Sane(EntriesOf(m.tab))

===============================================================================
