---------------------------- MODULE BootSlotProofs ----------------------------
(***************************************************************************)
(* Theorems about BootSlot, for every device, table and medium that the    *)
(* assumptions of that module admit.                                       *)
(*                                                                         *)
(* The second half is about what UpdatePartitionAttributes does to a       *)
(* table, and what follows for the type GUIDs of the partitions:           *)
(*                                                                         *)
(*   WalkInv    what the buffer holds while the entries are visited;       *)
(*   WholeInv   no table, on the disk or in memory, has exchanged the type *)
(*              GUIDs of some of its pairs and not of the others;          *)
(*   PrimaryInv the backup is visited after the primary is up to date.     *)
(***************************************************************************)
EXTENDS BootSlot, SequenceTheorems, TLAPS

USE DEF Copies, Suffixes, NoSlot

-------------------------------------------------------------------------------
(* The operators of the model have values of their types                   *)

LEMMA LenType == Len(Ptn) \in Nat /\ TableSize \in Nat /\ Len(Ptn) <= TableSize
  BY BootSlotAssumption DEF BootSlotAssumption, PtnAssumption

LEMMA PtnType ==
  ASSUME NEW i \in Idx
  PROVE  /\ Ptn[i].lun \in Configured /\ Ptn[i].lun \in Luns
         /\ Ptn[i].home \in Nat
         /\ Ptn[i].home # 0 => Ptn[i].home \in Pos
<1>1. Ptn \in Seq(PartitionHandle) /\ Configured \subseteq Luns /\ TableSize \in Nat
      /\ \A j \in Idx : Ptn[j].home <= TableSize
  BY BootSlotAssumption DEF BootSlotAssumption, PtnAssumption, DeviceAssumption
<1>2. Ptn[i] \in PartitionHandle
  BY <1>1, ElementOfSeq DEF Idx
<1>3. Ptn[i].lun \in Configured /\ Ptn[i].home \in Nat
  BY <1>2, Zenon DEF PartitionHandle
<1>4. Ptn[i].home <= TableSize
  BY <1>1
<1> QED BY <1>1, <1>3, <1>4, LenType DEF Pos

LEMMA BootIdxType ==
  ASSUME NEW s \in Suffixes
  PROVE  /\ BootIdx[s] \in Idx /\ Ptn[BootIdx[s]].base = "boot"
         /\ Ptn[BootIdx[s]].slot = s /\ Ptn[BootIdx[s]].home # 0
  BY BootSlotAssumption DEF BootSlotAssumption, PtnAssumption, BootIdx

LEMMA NoAttrType == NoAttr \in Attr
  BY DEF Attr, NoAttr, MaxPriority, MaxRetryCount

LEMMA BoundType ==
  /\ MaxPriority \in 0 .. MaxPriority /\ MaxPriority - 1 \in 0 .. MaxPriority
  /\ MaxRetryCount \in 0 .. MaxRetryCount
  BY DEF MaxPriority, MaxRetryCount

\* Setting one bit field of the attributes.
LEMMA SetAttrType ==
  ASSUME NEW a \in Attr
  PROVE  /\ \A p \in 0 .. MaxPriority : [a EXCEPT !.prio = p] \in Attr
         /\ \A r \in 0 .. MaxRetryCount : [a EXCEPT !.retry = r] \in Attr
         /\ \A b \in BOOLEAN : /\ [a EXCEPT !.active = b] \in Attr
                               /\ [a EXCEPT !.succ = b] \in Attr
                               /\ [a EXCEPT !.unboot = b] \in Attr
<1>1. ASSUME NEW p \in 0 .. MaxPriority
      PROVE  [a EXCEPT !.prio = p] \in Attr
  BY DEF Attr
<1>2. ASSUME NEW r \in 0 .. MaxRetryCount
      PROVE  [a EXCEPT !.retry = r] \in Attr
  BY DEF Attr
<1>3. ASSUME NEW b \in BOOLEAN
      PROVE  /\ [a EXCEPT !.active = b] \in Attr
             /\ [a EXCEPT !.succ = b] \in Attr
             /\ [a EXCEPT !.unboot = b] \in Attr
  BY DEF Attr
<1> QED BY <1>1, <1>2, <1>3

LEMMA FirstBootAttrType ==
  ASSUME NEW a \in Attr
  PROVE  FirstBootAttr(a) \in Attr
<1> DEFINE b == [a EXCEPT !.succ = FALSE]
           c == [b EXCEPT !.unboot = FALSE]
           d == [c EXCEPT !.prio = MaxPriority]
           e == [d EXCEPT !.active = TRUE]
<1>1. FirstBootAttr(a) = [e EXCEPT !.retry = MaxRetryCount]
  BY DEF FirstBootAttr
<1>2. b \in Attr
  BY SetAttrType
<1> HIDE DEF b
<1>3. c \in Attr
  BY <1>2, SetAttrType
<1> HIDE DEF c
<1>4. d \in Attr
  BY <1>3, SetAttrType, BoundType
<1> HIDE DEF d
<1>5. e \in Attr
  BY <1>4, SetAttrType
<1> HIDE DEF e
<1> QED BY <1>1, <1>5, SetAttrType, BoundType

LEMMA ClearUnbootableAttrType ==
  ASSUME NEW a \in Attr
  PROVE  ClearUnbootableAttr(a) \in Attr
<1> DEFINE b == [a EXCEPT !.unboot = FALSE]
<1>1. ClearUnbootableAttr(a) = [b EXCEPT !.retry = MaxRetryCount]
  BY DEF ClearUnbootableAttr
<1>2. b \in Attr
  BY SetAttrType
<1> HIDE DEF b
<1> QED BY <1>1, <1>2, SetAttrType, BoundType

LEMMA AlternateAttrType ==
  ASSUME NEW a \in Attr
  PROVE  AlternateAttr(a) \in Attr
<1> DEFINE b == [a EXCEPT !.prio = MaxPriority - 1]
<1>1. AlternateAttr(a) = [b EXCEPT !.active = FALSE]
  BY DEF AlternateAttr
<1>2. b \in Attr
  BY SetAttrType, BoundType
<1> HIDE DEF b
<1> QED BY <1>1, <1>2, SetAttrType

LEMMA NewSlotAttrType ==
  ASSUME NEW a \in Attr, NEW reset \in BOOLEAN, NEW set \in BOOLEAN
  PROVE  NewSlotAttr(a, reset, set) \in Attr
<1> DEFINE succ == set \/ (a.succ /\ ~reset)
           b == [a EXCEPT !.prio = MaxPriority]
           c == [b EXCEPT !.active = TRUE]
           d == [c EXCEPT !.retry = MaxRetryCount]
           e == [d EXCEPT !.unboot = FALSE]
<1>1. NewSlotAttr(a, reset, set) = [e EXCEPT !.succ = succ]
  BY DEF NewSlotAttr, Attr
<1>2. succ \in BOOLEAN
  OBVIOUS
<1> HIDE DEF succ
<1>3. b \in Attr
  BY SetAttrType, BoundType
<1> HIDE DEF b
<1>4. c \in Attr
  BY <1>3, SetAttrType
<1> HIDE DEF c
<1>5. d \in Attr
  BY <1>4, SetAttrType, BoundType
<1> HIDE DEF d
<1>6. e \in Attr
  BY <1>5, SetAttrType
<1> HIDE DEF e
<1> QED BY <1>1, <1>2, <1>6, SetAttrType

LEMMA EmptyType ==
  /\ Unused \in Entry /\ NoTable \in Table
  /\ NoEntries \in [Idx -> Entry] /\ NoSnap \in [Luns -> Table]
  BY NoAttrType DEF Unused, Entry, NoTable, Table, NoEntries, NoSnap

LEMMA EntriesOfType ==
  ASSUME NEW s \in [Luns -> Table]
  PROVE  EntriesOf(s) \in [Idx -> Entry]
  BY PtnType, EmptyType DEF EntriesOf, Table

LEMMA WithBootAttrType ==
  ASSUME NEW m \in [Idx -> Entry], NEW s \in Suffixes, NEW a \in Attr
  PROVE  WithBootAttr(m, s, a) \in [Idx -> Entry]
  BY BootIdxType DEF WithBootAttr, Entry

LEMMA BootAttrType ==
  ASSUME NEW m \in [Idx -> Entry], NEW s \in Suffixes
  PROVE  BootAttr(m, s) \in Attr
  BY BootIdxType DEF BootAttr, Entry

LEMMA PartnerType ==
  ASSUME NEW m, NEW i \in Idx
  PROVE  Partner(m, i) \in Idx
<1> DEFINE twins == {j \in Idx : /\ Ptn[i].slot \in Suffixes
                                 /\ m[i].guid # NoGuid
                                 /\ IsPtn(m, j, Ptn[i].base, Other(Ptn[i].slot))}
<1>1. CASE twins = {}
  BY <1>1 DEF Partner
<1>2. CASE twins # {}
  <2>1. (CHOOSE j \in twins : TRUE) \in twins
    BY <1>2
  <2>2. Partner(m, i) = CHOOSE j \in twins : TRUE
    BY <1>2 DEF Partner
  <2> QED BY <2>1, <2>2
<1> QED BY <1>1, <1>2

LEMMA SwapType ==
  ASSUME NEW m \in [Idx -> Entry]
  PROVE  SwapPtnGuids(m) \in [Idx -> Entry]
  BY PartnerType DEF SwapPtnGuids, Entry

LEMMA MarkActiveType ==
  ASSUME NEW m \in [Idx -> Entry], NEW s
  PROVE  MarkActive(m, s) \in [Idx -> Entry]
<1> SUFFICES ASSUME NEW i \in Idx PROVE MarkActive(m, s)[i] \in Entry
  BY DEF MarkActive
<1> QED BY DEF MarkActive, Entry, Attr

LEMMA CopyType ==
  ASSUME NEW t \in Table
  PROVE  Sealed(t) \in Copy /\ \A c : Written(c, t) = Sealed(t)
  BY DEF Sealed, Copy, Written

LEMMA BestTableType ==
  ASSUME NEW d \in [Copies -> Copy]
  PROVE  BestTable(d) \in Table /\ Repaired(d) \in [Copies -> Copy]
<1>1. BestTable(d) \in Table
  BY EmptyType DEF BestTable, Copy
<1> QED BY <1>1, CopyType DEF Repaired

LEMMA HighestActiveType ==
  ASSUME NEW m
  PROVE  HighestActive(m) \in Suffixes \cup {NoSlot}
  BY DEF HighestActive

-------------------------------------------------------------------------------
(* Type correctness.  TypeOK alone is not inductive: the location a call    *)
(* returns to is one of the callers' only while there is a call.            *)

TypeInv == TypeOK /\ Calls

LEMMA InitType == Init => TypeInv
<1> SUFFICES ASSUME Init PROVE TypeInv
  OBVIOUS
<1> USE DEF Init
<1>1. PICK m \in InitMedia :
        /\ disk = [l \in Luns |-> [c \in Copies |-> Sealed(m.tab[l])]]
        /\ bootLun = m.bootLun
  OBVIOUS
<1>2. m.tab \in [Luns -> Table] /\ m.bootLun \in 0 .. 2
  BY BootSlotAssumption DEF BootSlotAssumption, InitAssumption
<1>3. disk \in [Luns -> [Copies -> Copy]] /\ bootLun \in 0 .. 2
  BY <1>1, <1>2, CopyType
<1>4. lun \in 0 .. MaxLuns /\ ix \in 1 .. Len(Ptn) + 1 /\ pos \in 1 .. ix
  BY BootSlotAssumption, LenType DEF BootSlotAssumption, DeviceAssumption
<1>5. TypeOK
  BY <1>3, <1>4, EmptyType DEF TypeOK
<1> QED BY <1>5 DEF TypeInv, Calls


LEMMA PowerLossType ==
  ASSUME TypeInv, PowerLoss, UNCHANGED bootLun,
         disk' \in [Luns -> [Copies -> Copy]], disturbed' \subseteq Disturbances
  PROVE  TypeInv'
<1>1. lun' \in 0 .. MaxLuns /\ ix' \in 1 .. Len(Ptn) + 1 /\ pos' \in 1 .. ix'
  BY BootSlotAssumption, LenType
  DEF BootSlotAssumption, DeviceAssumption, PowerLoss, NoLocals
<1>2. TypeOK'
  BY <1>1, EmptyType DEF TypeInv, TypeOK, PowerLoss, NoLocals
<1> QED BY <1>2 DEF TypeInv, Calls, PowerLoss

LEMMA EnvironmentType == TypeInv /\ Environment => TypeInv'
<1> SUFFICES ASSUME TypeInv, Environment PROVE TypeInv'
  OBVIOUS
<1> USE DEF media, slots, walk, Goto
<1>1. CASE PowerOn
  <2>1. \A l \in Luns : /\ BestTable(disk[l]) \in Table
                        /\ Repaired(disk[l]) \in [Copies -> Copy]
    BY BestTableType DEF TypeInv, TypeOK
  <2>2. /\ disk' \in [Luns -> [Copies -> Copy]]
        /\ snap' \in [Luns -> Table]
    BY <1>1, <2>1, EmptyType DEF PowerOn
  <2>3. TypeOK'
    BY <1>1, <2>2 DEF TypeInv, TypeOK, PowerOn
  <2> QED BY <1>1, <2>3 DEF TypeInv, Calls, PowerOn
<1>2. CASE RunApp
  BY <1>2 DEF TypeInv, TypeOK, Calls, RunApp
<1>3. CASE Reset
  BY <1>3, PowerLossType DEF TypeInv, TypeOK, Reset
<1>4. CASE Crash
  BY <1>4, PowerLossType DEF TypeInv, TypeOK, Crash
<1>5. CASE TornWrite
  <2>1. PICK written \in SUBSET Pos, header \in BOOLEAN :
          disk' = [disk EXCEPT ![lun][iter] =
                    [ent |-> [p \in Pos |-> IF p \in written THEN buf[p]
                                            ELSE disk[lun][iter].ent[p]],
                     crc |-> IF header THEN Written(disk[lun][iter], buf).crc
                                       ELSE disk[lun][iter].crc]]
    BY <1>5 DEF TornWrite
  <2>2. lun \in Luns /\ iter \in Copies /\ disk[lun][iter] \in Copy /\ buf \in Table
    BY <1>5, BootSlotAssumption
    DEF TornWrite, TypeInv, TypeOK, Calls, BootSlotAssumption, DeviceAssumption
  <2>3. Written(disk[lun][iter], buf).crc \in Table
    BY <2>2 DEF Written, Sealed
  <2>4. [ent |-> [p \in Pos |-> IF p \in written THEN buf[p]
                                ELSE disk[lun][iter].ent[p]],
         crc |-> IF header THEN Written(disk[lun][iter], buf).crc
                           ELSE disk[lun][iter].crc] \in Copy
    BY <2>2, <2>3 DEF Copy, Table
  <2>5. disk' \in [Luns -> [Copies -> Copy]]
    BY <2>1, <2>2, <2>4 DEF TypeInv, TypeOK
  <2> QED BY <1>5, <2>5, PowerLossType DEF TypeInv, TypeOK, TornWrite
<1> QED BY <1>1, <1>2, <1>3, <1>4, <1>5 DEF Environment

\* The steps of the two images.
LEMMA ImageType ==
  ASSUME TypeInv,
         \/ Load \/ GetActiveSlot \/ DxeCurrent \/ AppCurrent
         \/ ClearUnbootable("_a", "clear_a", "clear_b")
         \/ ClearUnbootable("_b", "clear_b", "getActive")
         \/ SetActiveSlot \/ RefreshBootLun \/ SwitchPtnSlots \/ MarkPtnActive
         \/ DxeDone \/ AppUpdateGuids \/ AppUpdateAttributes
  PROVE  TypeInv'
<1> USE DEF media, slots, walk, Goto, Exit, CallUpdate
<1>0. mem \in [Idx -> Entry] /\ snap \in [Luns -> Table]
  BY DEF TypeInv, TypeOK
<1>1. CASE Load
  <2>1. EntriesOf(snap) \in [Idx -> Entry]
    BY <1>0, EntriesOfType
  <2>2. TypeOK'
    BY <1>1, <2>1, EmptyType DEF TypeInv, TypeOK, Load
  <2> QED BY <1>1, <2>2 DEF TypeInv, Calls, Load
<1>2. CASE GetActiveSlot
  <2>1. HighestActive(mem) \in Suffixes \cup {NoSlot}
    BY HighestActiveType
  <2>2. WithBootAttr(mem, "_a", FirstBootAttr(BootAttr(mem, "_a"))) \in [Idx -> Entry]
    BY <1>0, BootAttrType, FirstBootAttrType, WithBootAttrType
  <2>3. TypeOK'
    BY <1>2, <2>1, <2>2 DEF TypeInv, TypeOK, GetActiveSlot, Caller
  <2> QED BY <1>2, <2>3 DEF TypeInv, TypeOK, Calls, GetActiveSlot, Caller
<1>3. CASE DxeCurrent
  BY <1>3 DEF TypeInv, TypeOK, Calls, DxeCurrent
<1>4. CASE AppCurrent
  BY <1>4, EmptyType DEF TypeInv, TypeOK, Calls, AppCurrent, Other
<1>5. ASSUME NEW s \in Suffixes, NEW here, NEW next,
             ClearUnbootable(s, here, next),
             <<here, next>> \in {<<"clear_a", "clear_b">>, <<"clear_b", "getActive">>}
      PROVE  TypeInv'
  <2>1. WithBootAttr(mem, s, ClearUnbootableAttr(BootAttr(mem, s))) \in [Idx -> Entry]
    BY <1>0, BootAttrType, ClearUnbootableAttrType, WithBootAttrType
  <2>2. TypeOK'
    BY <1>5, <2>1 DEF TypeInv, TypeOK, ClearUnbootable
  <2> QED BY <1>5, <2>2 DEF TypeInv, Calls, ClearUnbootable
<1>6. CASE SetActiveSlot
  <2> DEFINE new == WithBootAttr(mem, target,
                      NewSlotAttr(BootAttr(mem, target), img = "app", img = "dxe"))
             alt == Other(target)
             both == WithBootAttr(new, alt, AlternateAttr(BootAttr(new, alt)))
  <2>1. target \in Suffixes /\ alt \in Suffixes
    BY <1>6 DEF TypeInv, Calls, SetActiveSlot, Other
  <2>2. NewSlotAttr(BootAttr(mem, target), img = "app", img = "dxe") \in Attr
    BY <1>0, <2>1, BootAttrType, NewSlotAttrType
  <2>3. new \in [Idx -> Entry]
    BY <1>0, <2>1, <2>2, WithBootAttrType
  <2>4. \/ mem' = both /\ CallUpdate("ATTR", "flipped") /\ UNCHANGED slots
        \/ Exit("err") /\ UNCHANGED walk
    BY <1>6 DEF SetActiveSlot
  <2> HIDE DEF new, alt
  <2>5. both \in [Idx -> Entry]
    BY <2>1, <2>3, BootAttrType, AlternateAttrType, WithBootAttrType
  <2> HIDE DEF both
  <2>6. TypeOK'
    BY <1>6, <2>4, <2>5, EmptyType DEF TypeInv, TypeOK, SetActiveSlot
  <2> QED BY <1>6, <2>4, <2>6 DEF TypeInv, Calls, SetActiveSlot
<1>7. ASSUME NEW failed \in SUBSET {bootLun, 0}, FollowBootLun(failed)
      PROVE  bootLun' \in 0 .. 2 /\ disturbed' \subseteq Disturbances
  <2>1. bootLun \in 0 .. 2 /\ disturbed \subseteq Disturbances
    BY DEF TypeInv, TypeOK
  <2>2. BootLunFor(target, bootLun) \in 0 .. 2
    BY <2>1 DEF BootLunFor
  <2>3. \A l \in failed : l \in 0 .. 2
    BY <2>1
  <2> QED BY <1>7, <2>1, <2>2, <2>3 DEF FollowBootLun
<1>8. CASE RefreshBootLun
  BY <1>7, <1>8 DEF TypeInv, TypeOK, Calls, RefreshBootLun
<1>9. CASE SwitchPtnSlots
  <2>1. SwapPtnGuids(mem) \in [Idx -> Entry]
    BY <1>0, SwapType
  <2>2. TypeOK'
    BY <1>7, <1>9, <2>1 DEF TypeInv, TypeOK, SwitchPtnSlots
  <2> QED BY <1>9, <2>2 DEF TypeInv, Calls, SwitchPtnSlots
<1>10. CASE MarkPtnActive
  <2>1. MarkActive(mem, target) \in [Idx -> Entry]
    BY <1>0, MarkActiveType
  <2>2. TypeOK'
    BY <1>10, <2>1 DEF TypeInv, TypeOK, MarkPtnActive
  <2> QED BY <1>10, <2>2 DEF TypeInv, Calls, MarkPtnActive
<1>11. CASE DxeDone
  BY <1>11, EmptyType DEF TypeInv, TypeOK, Calls, DxeDone
<1>12. CASE AppUpdateGuids
  BY <1>12 DEF TypeInv, TypeOK, Calls, AppUpdateGuids
<1>13. CASE AppUpdateAttributes
  BY <1>13 DEF TypeInv, TypeOK, Calls, AppUpdateAttributes
<1> QED BY <1>1, <1>2, <1>3, <1>4, <1>5, <1>6, <1>8, <1>9, <1>10, <1>11, <1>12, <1>13

\* Going on with the next copy, and returning on an error.
LEMMA NextCopyType ==
  ASSUME TypeInv, NextCopy, pc \in {"read", "walk", "write"},
         disk' \in [Luns -> [Copies -> Copy]], disturbed' \subseteq Disturbances,
         UNCHANGED <<bootLun, snap, mem, bak, slots>>
  PROVE  TypeInv'
<1>0. lun \in Luns /\ MaxLuns \in Nat
  BY BootSlotAssumption
  DEF TypeInv, Calls, BootSlotAssumption, DeviceAssumption
<1>1. lun \in Nat /\ lun < MaxLuns /\ MaxLuns \in Nat
  BY <1>0 DEF Luns
<1>2. ix' \in 1 .. Len(Ptn) + 1 /\ pos' \in 1 .. ix'
  BY LenType DEF NextCopy
<1>3. /\ lun' \in 0 .. MaxLuns /\ iter' \in Copies
      /\ \/ pc' = "read" /\ lun' = lun
         \/ pc' = "lun"
  BY <1>1 DEF NextCopy, Goto
<1>4. buf' \in Table /\ dirty' \in BOOLEAN /\ UNCHANGED <<ret, type>>
  BY EmptyType DEF NextCopy, Goto
<1>5. TypeOK'
  BY <1>2, <1>3, <1>4 DEF TypeInv, TypeOK, slots
<1> QED BY <1>3, <1>4, <1>5 DEF TypeInv, Calls, slots

LEMMA ReturnType ==
  ASSUME TypeInv, Return, ret # "none", disturbed' \subseteq Disturbances,
         UNCHANGED <<media, snap, mem, bak, slots>>
  PROVE  TypeInv'
<1>1. lun' \in 0 .. MaxLuns /\ ix' \in 1 .. Len(Ptn) + 1 /\ pos' \in 1 .. ix'
  BY BootSlotAssumption, LenType
  DEF BootSlotAssumption, DeviceAssumption, Return, NoLocals
<1>2. /\ type' \in {"ATTR", "GUID"} /\ iter' \in Copies
      /\ buf' \in Table /\ dirty' \in BOOLEAN
  BY EmptyType DEF Return, NoLocals, Copies
<1>3. /\ pc' \in {"gotCurrent", "clear_b", "getActive", "set", "flipped",
                  "mark", "setDone", "guidsDone", "reset"}
      /\ ret' = "none"
  BY DEF TypeInv, TypeOK, Return
<1>4. TypeOK'
  BY <1>1, <1>2, <1>3 DEF TypeInv, TypeOK, media, slots
<1> QED BY <1>4 DEF TypeInv, TypeOK, Calls, Return, slots

\* While the entries are visited, the pointer is not behind the index.
LEMMA VisitingType ==
  ASSUME TypeInv, Visiting
  PROVE  /\ ix \in Idx /\ pos \in Pos /\ ix + 1 \in 1 .. Len(Ptn) + 1
         /\ pos + 1 \in 1 .. ix + 1
         /\ lun \in Luns /\ buf \in Table /\ mem \in [Idx -> Entry]
         /\ bak \in [Idx -> Entry]
<1>1. ix \in Idx /\ pos \in 1 .. ix /\ lun \in Configured
  BY DEF TypeInv, TypeOK, Calls, Visiting
<1>2. pos \in Pos /\ ix + 1 \in 1 .. Len(Ptn) + 1 /\ pos + 1 \in 1 .. ix + 1
  BY <1>1, LenType DEF Idx, Pos
<1> QED BY <1>1, <1>2, BootSlotAssumption
        DEF TypeInv, TypeOK, BootSlotAssumption, DeviceAssumption

LEMMA UpdateType ==
  ASSUME TypeInv,
         \/ Update \/ NextLun \/ ReadCopy \/ SkipEntry \/ UpdateGuid
         \/ UpdateAttr \/ GuidMismatch \/ EndWalk \/ WriteCopy
  PROVE  TypeInv'
<1> USE DEF media, slots, walk, Goto
<1>1. CASE Update
  <2>1. CASE mem = bak
    BY <1>1, <2>1, ReturnType DEF Update, TypeInv, TypeOK, Calls
  <2>2. CASE mem # bak
    BY <1>1, <2>2 DEF TypeInv, TypeOK, Calls, Update
  <2> QED BY <2>1, <2>2
<1>2. CASE NextLun
  <2>1. CASE Return
    BY <1>2, <2>1, ReturnType DEF NextLun, TypeInv, TypeOK, Calls
  <2>2. CASE lun < MaxLuns /\ ~Return
    <3>1. lun + 1 \in 0 .. MaxLuns
      BY <2>2, BootSlotAssumption
      DEF TypeInv, TypeOK, BootSlotAssumption, DeviceAssumption
    <3>2. TypeOK'
      BY <1>2, <2>2, <3>1 DEF TypeInv, TypeOK, NextLun
    <3> QED BY <1>2, <2>2, <3>2 DEF TypeInv, Calls, NextLun
  <2> QED BY <1>2, <2>1, <2>2 DEF NextLun
<1>3. CASE ReadCopy
  <2>1. CASE Fault
    <3>1. disturbed' \subseteq Disturbances
      BY <2>1 DEF Fault, TypeInv, TypeOK
    <3> QED BY <1>3, <2>1, <3>1, ReturnType DEF ReadCopy, Fault, TypeInv, Calls
  <2>2. CASE ~Fault
    <3>1. lun \in Luns /\ iter \in Copies /\ disk[lun][iter] \in Copy
      BY <1>3, BootSlotAssumption
      DEF TypeInv, TypeOK, Calls, ReadCopy, BootSlotAssumption, DeviceAssumption
    <3>2. TypeOK'
      BY <1>3, <2>2, <3>1 DEF TypeInv, TypeOK, ReadCopy, Copy
    <3> QED BY <1>3, <2>2, <3>2 DEF TypeInv, Calls, ReadCopy
  <2> QED BY <2>1, <2>2
<1>4. CASE SkipEntry
  <2>1. ix + 1 \in 1 .. Len(Ptn) + 1 /\ pos \in 1 .. ix + 1
    BY <1>4, LenType DEF TypeInv, TypeOK, SkipEntry, Idx
  <2>2. TypeOK'
    BY <1>4, <2>1 DEF TypeInv, TypeOK, SkipEntry
  <2> QED BY <1>4, <2>2 DEF TypeInv, Calls, SkipEntry
<1>5. CASE UpdateGuid
  <2>1. /\ [buf EXCEPT ![pos].guid = mem[ix].guid] \in Table
        /\ [bak EXCEPT ![ix].guid = mem[ix].guid] \in [Idx -> Entry]
    BY <1>5, VisitingType DEF UpdateGuid, Table, Entry
  <2>2. buf' \in Table /\ bak' \in [Idx -> Entry] /\ dirty' \in BOOLEAN
    BY <1>5, <2>1 DEF UpdateGuid, TypeInv, TypeOK
  <2>3. TypeOK'
    BY <1>5, <2>2, VisitingType DEF TypeInv, TypeOK, UpdateGuid
  <2> QED BY <1>5, <2>3 DEF TypeInv, Calls, UpdateGuid
<1>6. CASE UpdateAttr
  <2>1. /\ [buf EXCEPT ![pos].attr = mem[ix].attr] \in Table
        /\ [bak EXCEPT ![ix].attr = mem[ix].attr] \in [Idx -> Entry]
    BY <1>6, VisitingType DEF UpdateAttr, Table, Entry
  <2>2. buf' \in Table /\ bak' \in [Idx -> Entry] /\ dirty' \in BOOLEAN
    BY <1>6, <2>1 DEF UpdateAttr, TypeInv, TypeOK
  <2>3. TypeOK'
    BY <1>6, <2>2, VisitingType DEF TypeInv, TypeOK, UpdateAttr
  <2> QED BY <1>6, <2>3 DEF TypeInv, Calls, UpdateAttr
<1>7. CASE GuidMismatch
  <2>1. ix + 1 \in 1 .. Len(Ptn) + 1 /\ pos \in 1 .. ix + 1
    BY <1>7, VisitingType DEF GuidMismatch, TypeInv, TypeOK
  <2>2. TypeOK'
    BY <1>7, <2>1 DEF TypeInv, TypeOK, GuidMismatch
  <2> QED BY <1>7, <2>2 DEF TypeInv, Calls, GuidMismatch
<1>8. CASE EndWalk
  <2>1. CASE dirty
    BY <1>8, <2>1 DEF TypeInv, TypeOK, Calls, EndWalk
  <2>2. CASE ~dirty
    <3>1. disk' \in [Luns -> [Copies -> Copy]] /\ disturbed' \subseteq Disturbances
      BY <1>8 DEF EndWalk, TypeInv, TypeOK
    <3> QED BY <1>8, <2>2, <3>1, NextCopyType DEF EndWalk
  <2> QED BY <2>1, <2>2
<1>9. CASE WriteCopy
  <2>1. CASE Fault /\ UNCHANGED disk
    <3>1. disturbed' \subseteq Disturbances
      BY <2>1 DEF Fault, TypeInv, TypeOK
    <3> QED BY <1>9, <2>1, <3>1, ReturnType DEF WriteCopy, Fault, TypeInv, Calls
  <2>2. CASE ~(Fault /\ UNCHANGED disk)
    <3>1. lun \in Luns /\ iter \in Copies /\ Sealed(buf) \in Copy
      BY <1>9, BootSlotAssumption, CopyType
      DEF TypeInv, TypeOK, Calls, WriteCopy, BootSlotAssumption, DeviceAssumption
    <3>2. disk' \in [Luns -> [Copies -> Copy]] /\ disturbed' \subseteq Disturbances
      BY <1>9, <2>2, <3>1 DEF WriteCopy, Written, TypeInv, TypeOK
    <3> QED BY <1>9, <2>2, <3>2, NextCopyType DEF WriteCopy
  <2> QED BY <2>1, <2>2
<1> QED BY <1>1, <1>2, <1>3, <1>4, <1>5, <1>6, <1>7, <1>8, <1>9

LEMMA StepType == TypeInv /\ [Next]_vars => TypeInv'
<1>1. ASSUME TypeInv, UNCHANGED vars PROVE TypeInv'
  BY <1>1 DEF TypeInv, TypeOK, Calls, vars, media, slots, walk
<1> QED BY <1>1, EnvironmentType, ImageType, UpdateType DEF Next, Firmware

(* Whatever crashes, fails or is torn, and on every device: the variables   *)
(* have their types; in particular the pointer into a table never leaves it *)
(* and never gets ahead of the entries (UpdatePartitionAttributes).         *)
THEOREM TypeCorrect == Spec => []TypeOK
<1>1. TypeInv => TypeOK
  BY DEF TypeInv
<1> QED BY <1>1, InitType, StepType, PTL DEF Spec

-------------------------------------------------------------------------------
(* Torn writes.  Only one copy is written at a time, and PartitionDxe       *)
(* restores it before the next write, so both copies are valid except while *)
(* the power is off.                                                        *)

AllValid == \A l \in Configured, c \in Copies : IsValid(disk[l][c])

CopiesInv == /\ OneCopyValid
             /\ AllValid \/ (pc = "off" /\ DriverRepairs)

LEMMA InitCopies == Init => CopiesInv
<1> SUFFICES ASSUME Init PROVE AllValid
  BY DEF CopiesInv, AllValid, OneCopyValid
<1>1. PICK m \in InitMedia :
        disk = [l \in Luns |-> [c \in Copies |-> Sealed(m.tab[l])]]
  BY DEF Init
<1> QED BY <1>1, BootSlotAssumption
        DEF AllValid, Sealed, IsValid, BootSlotAssumption, DeviceAssumption

LEMMA StepCopies ==
  ASSUME RepairAssumption, TypeInv, CopiesInv, [Next]_vars
  PROVE  CopiesInv'
<1> USE DEF media, slots, walk, Goto, PowerLoss
<1>0. /\ Configured \subseteq Luns
      /\ disk \in [Luns -> [Copies -> Copy]]
  BY BootSlotAssumption DEF BootSlotAssumption, DeviceAssumption, TypeInv, TypeOK
<1>1. CASE UNCHANGED disk /\ (pc = "off" => pc' = "off")
  <2>1. OneCopyValid' /\ (AllValid => AllValid')
    BY <1>1 DEF CopiesInv, OneCopyValid, AllValid
  <2> QED BY <1>1, <2>1 DEF CopiesInv
<1>2. CASE PowerOn
  <2>1. ASSUME NEW l \in Configured, NEW c \in Copies
        PROVE  IsValid(disk'[l][c])
    <3>1. disk'[l] = Repaired(disk[l])
      BY <1>0, <1>2 DEF PowerOn
    <3>2. CASE DriverRepairs
      <4>1. \E d \in Copies : IsValid(disk[l][d])
        BY DEF CopiesInv, OneCopyValid
      <4> QED BY <3>1, <3>2, <4>1 DEF Repaired, Sealed, IsValid
    <3>3. CASE ~DriverRepairs
      BY <3>1, <3>3 DEF Repaired, CopiesInv, AllValid
    <3> QED BY <3>2, <3>3
  <2> QED BY <2>1 DEF CopiesInv, AllValid, OneCopyValid
<1>3. CASE WriteCopy /\ ~UNCHANGED disk
  <2>1. disk' = [disk EXCEPT ![lun][iter] = Sealed(buf)] /\ pc # "off" /\ AllValid
    BY <1>3 DEF WriteCopy, Written, CopiesInv
  <2>2. ASSUME NEW l \in Configured, NEW c \in Copies
        PROVE  IsValid(disk'[l][c])
    BY <1>0, <2>1 DEF AllValid, Sealed, IsValid
  <2> QED BY <2>2 DEF CopiesInv, AllValid, OneCopyValid
<1>4. CASE TornWrite
  <2>1. lun \in Luns /\ iter \in Copies /\ AllValid /\ pc' = "off" /\ DriverRepairs
    BY <1>0, <1>4 DEF TornWrite, CopiesInv, RepairAssumption, TypeInv, TypeOK, Calls
  <2>2. PICK t : disk' = [disk EXCEPT ![lun][iter] = t]
    BY <1>4 DEF TornWrite
  <2>3. ASSUME NEW l \in Configured
        PROVE  \E c \in Copies : IsValid(disk'[l][c])
    <3>1. PICK c \in Copies : c # iter
      BY <2>1
    <3>2. disk'[l][c] = disk[l][c]
      BY <1>0, <2>2, <3>1
    <3> QED BY <2>1, <3>2 DEF AllValid
  <2> QED BY <2>1, <2>3 DEF CopiesInv, OneCopyValid
<1>5. CASE ~PowerOn /\ ~TornWrite /\ ~(WriteCopy /\ ~UNCHANGED disk)
  <2>1. UNCHANGED disk
    BY <1>5 DEF Next, Firmware, Environment, vars, Load, GetActiveSlot, DxeCurrent,
       AppCurrent, ClearUnbootable, SetActiveSlot, RefreshBootLun, SwitchPtnSlots,
       MarkPtnActive, DxeDone, AppUpdateGuids, AppUpdateAttributes, Update, NextLun,
       ReadCopy, SkipEntry, UpdateGuid, UpdateAttr, GuidMismatch, EndWalk, RunApp,
       Reset, Crash
  <2>2. pc = "off" => pc' = "off"
    BY <1>5 DEF Next, Firmware, Environment, vars, Load, GetActiveSlot, DxeCurrent,
       AppCurrent, ClearUnbootable, SetActiveSlot, RefreshBootLun, SwitchPtnSlots,
       MarkPtnActive, DxeDone, AppUpdateGuids, AppUpdateAttributes, Update, NextLun,
       ReadCopy, SkipEntry, UpdateGuid, UpdateAttr, GuidMismatch, EndWalk, WriteCopy,
       Visiting, RunApp, Reset, Crash
  <2> QED BY <1>1, <2>1, <2>2
<1> QED BY <1>2, <1>3, <1>4, <1>5

(* If PartitionDxe restores a damaged copy at every boot, no sequence of    *)
(* torn writes, crashes and I/O errors leaves a LUN without a valid copy of *)
(* its partition table (the order of the writes, and the CRC each is given, *)
(* in UpdatePartitionAttributes).                                           *)
THEOREM OneCopySurvives ==
  ASSUME RepairAssumption
  PROVE  Spec => []OneCopyValid
<1>1. CopiesInv => OneCopyValid
  BY DEF CopiesInv
<1>2. TypeInv /\ CopiesInv /\ [Next]_vars => CopiesInv'
  BY StepCopies
<1> QED BY <1>1, <1>2, InitType, StepType, InitCopies, PTL DEF Spec

-------------------------------------------------------------------------------
(* Pairs                                                                   *)

LEMMA OnType ==
  ASSUME NEW l \in Configured, NEW i \in On[l]
  PROVE  /\ l \in Luns /\ i \in Idx /\ i \in Nat /\ Ptn[i].lun = l
         /\ Ptn[i].home \in Pos /\ Ptn[i].home # 0 /\ Ptn[i].home \in Nat
<1>1. l \in Luns /\ Len(Ptn) \in Nat
  BY BootSlotAssumption, LenType DEF BootSlotAssumption, DeviceAssumption
<1>2. i \in Idx /\ Ptn[i].lun = l /\ Ptn[i].home # 0
  BY <1>1 DEF On
<1> QED BY <1>1, <1>2, PtnType DEF Idx

LEMMA OnLun ==
  ASSUME NEW i \in Idx, Ptn[i].home # 0
  PROVE  Ptn[i].lun \in Configured /\ i \in On[Ptn[i].lun]
  BY PtnType DEF On

LEMMA TwinUnique ==
  ASSUME NEW i \in Idx, NEW j \in Idx, IsTwin(i, j)
  PROVE  /\ Twin[i] = j /\ Twin[j] = i /\ IsTwin(j, i)
         /\ Ptn[i].home # 0 /\ Ptn[j].home # 0
<1>1. /\ \A x, y \in Idx :
           Ptn[x].slot \in Suffixes /\ Ptn[y].slot = Ptn[x].slot /\ Ptn[y].base = Ptn[x].base
             => x = y
      /\ \A x \in Idx : Ptn[x].home = 0 => Ptn[x].slot = ""
  BY BootSlotAssumption DEF BootSlotAssumption, LayoutAssumption
<1>2. IsTwin(j, i)
  BY DEF IsTwin, Other
<1>3. \A x \in Idx : IsTwin(i, x) => x = j
  BY <1>1 DEF IsTwin, Other
<1>4. \A x \in Idx : IsTwin(j, x) => x = i
  BY <1>1, <1>2 DEF IsTwin, Other
<1>5. Twin[i] = j
  BY <1>3 DEF Twin
<1>6. Twin[j] = i
  BY <1>2, <1>4 DEF Twin
<1> QED BY <1>1, <1>2, <1>5, <1>6 DEF IsTwin, Other

LEMMA TwinType ==
  ASSUME NEW i \in Idx
  PROVE  /\ Twin[i] \in Idx /\ Twin[Twin[i]] = i
         /\ IsTwin(i, Twin[i]) \/ Twin[i] = i
<1>1. CASE \E j \in Idx : IsTwin(i, j)
  BY <1>1, TwinUnique
<1>2. CASE ~\E j \in Idx : IsTwin(i, j)
  BY <1>2 DEF Twin
<1> QED BY <1>1, <1>2

LEMMA TwinOn ==
  ASSUME PairsShareLun, NEW l \in Configured, NEW i \in On[l]
  PROVE  Twin[i] \in On[l]
<1>1. i \in Idx /\ Ptn[i].lun = l
  BY OnType
<1>2. CASE IsTwin(i, Twin[i])
  <2>1. Twin[i] \in Idx /\ Ptn[Twin[i]].home # 0 /\ Ptn[Twin[i]].lun = l
    BY <1>1, <1>2, TwinType, TwinUnique DEF PairsShareLun
  <2> QED BY <2>1, OnLun
<1> QED BY <1>1, <1>2, TwinType

\* The partner a search in the entries finds is the twin, when the entries of
\* the table are in use.
Used(m) == \A i \in Idx : m[i].guid # NoGuid <=> Ptn[i].home # 0

LEMMA PartnerIsTwin ==
  ASSUME NEW m, Used(m), NEW i \in Idx, Ptn[i].home # 0
  PROVE  Partner(m, i) = Twin[i]
<1> DEFINE twins == {j \in Idx : /\ Ptn[i].slot \in Suffixes
                                 /\ m[i].guid # NoGuid
                                 /\ IsPtn(m, j, Ptn[i].base, Other(Ptn[i].slot))}
<1>1. m[i].guid # NoGuid
  BY DEF Used
<1>2. \A j \in Idx : j \in twins <=> IsTwin(i, j)
  <2> SUFFICES ASSUME NEW j \in Idx PROVE j \in twins <=> IsTwin(i, j)
    OBVIOUS
  <2>1. IsTwin(i, j) => m[j].guid # NoGuid
    BY TwinUnique DEF Used
  <2> QED BY <1>1, <2>1 DEF IsPtn, IsTwin
<1>3. CASE \E j \in Idx : IsTwin(i, j)
  <2>1. PICK j \in Idx : IsTwin(i, j)
    BY <1>3
  <2>2. \A x \in Idx : IsTwin(i, x) => x = j
    BY <2>1, TwinUnique
  <2>3. twins = {j}
    BY <1>2, <2>1, <2>2
  <2>4. Partner(m, i) = CHOOSE x \in twins : TRUE
    BY <2>3 DEF Partner
  <2> QED BY <2>1, <2>3, <2>4, TwinUnique
<1>4. CASE ~\E j \in Idx : IsTwin(i, j)
  <2>1. twins = {}
    BY <1>2, <1>4
  <2> QED BY <1>4, <2>1 DEF Partner, Twin
<1> QED BY <1>3, <1>4

LEMMA PartnerOfHandle ==
  ASSUME NEW m, Used(m), NEW i \in Idx, Ptn[i].home = 0
  PROVE  Partner(m, i) = i
  BY DEF Partner, Used

-------------------------------------------------------------------------------
(* The walk over the entries.  An update of the attributes finds the entry  *)
(* of every partition when the table has the type GUIDs memory has; an      *)
(* update of the GUIDs does in any case.                                    *)

Loaded == pc \notin {"off", "load", "bds"}

OldCopy == disk[lun][iter].ent

SameGuids(t, l) == \A i \in On[l] : t[Ptn[i].home].guid = mem[i].guid

Aligned == type = "ATTR" => SameGuids(OldCopy, lun)

\* Entry e has what this update writes to that of partition i.
Updated(e, i) == IF type = "ATTR" THEN e.attr = mem[i].attr ELSE e.guid = mem[i].guid

\* The other half of an entry is not written.
Keeps(new, old) == \A p \in Pos : IF type = "ATTR" THEN new[p].guid = old[p].guid
                                                   ELSE new[p].attr = old[p].attr

\* The pointer is at the entry of the next partition of this LUN.
InStep == \A i \in On[lun] :
            ix <= i /\ (\A j \in On[lun] : ix <= j => i <= j) => pos = Ptn[i].home

WalkInv ==
  /\ pc = "walk" =>
       /\ Keeps(buf, OldCopy)
       /\ dirty \/ buf = OldCopy
       /\ Aligned => /\ InStep
                     /\ \A i \in On[lun] :
                          IF i < ix THEN Updated(buf[Ptn[i].home], i)
                          ELSE buf[Ptn[i].home] = OldCopy[Ptn[i].home]
  /\ pc = "write" =>
       /\ Keeps(buf, OldCopy)
       /\ Aligned => \A i \in On[lun] : Updated(buf[Ptn[i].home], i)
  /\ pc \notin {"walk", "write"} => ix = 1 /\ pos = 1 /\ ~dirty

-------------------------------------------------------------------------------
(* Tables that are not mixed up                                            *)

WholeMem(m, l) == \/ \A i \in On[l] : m[i].guid = HomeGuid[i]
                  \/ \A i \in On[l] : m[i].guid = HomeGuid[Twin[i]]

\* Also what a CRC was computed over is not mixed up: a torn write may leave
\* the old CRC behind, or the new one.
WholeInv ==
  /\ \A l \in Configured, c \in Copies : Whole(disk[l][c].crc, l)
  /\ pc # "off" => \A l \in Configured : Whole(snap[l], l)
  /\ Loaded => /\ \A l \in Configured : WholeMem(mem, l)
               /\ \A i \in Idx : Ptn[i].home = 0 => mem[i].guid = NoGuid

-------------------------------------------------------------------------------
(* The order of the entries                                                *)

LEMMA Order ==
  ASSUME NEW l \in Configured, NEW i \in On[l]
  PROVE  /\ \A j \in On[l] : i < j => Ptn[i].home < Ptn[j].home
         /\ Ptn[i].home = 1 \/ \E j \in On[l] : j < i /\ Ptn[i].home = Ptn[j].home + 1
  BY BootSlotAssumption DEF BootSlotAssumption, LayoutAssumption

LEMMA HomesDiffer ==
  ASSUME NEW l \in Configured, NEW i \in On[l], NEW j \in On[l], i # j
  PROVE  Ptn[i].home # Ptn[j].home
<1>1. /\ i \in Nat /\ j \in Nat /\ Ptn[i].home \in Nat /\ Ptn[j].home \in Nat
  BY OnType
<1>2. i < j \/ j < i
  BY <1>1
<1> QED BY <1>1, <1>2, Order

LEMMA FirstInStep ==
  ASSUME NEW l \in Configured, NEW i \in On[l], \A j \in On[l] : i <= j
  PROVE  Ptn[i].home = 1
<1>1. ASSUME NEW j \in On[l], j < i PROVE FALSE
  BY <1>1, OnType
<1> QED BY <1>1, Order

\* From one partition of the LUN to the next one the pointer moves by one.
LEMMA NextInStep ==
  ASSUME NEW l \in Configured, NEW i \in On[l], NEW j \in On[l], i < j,
         \A k \in On[l] : i < k => j <= k
  PROVE  Ptn[j].home = Ptn[i].home + 1
<1>0. i \in Nat /\ j \in Nat /\ Ptn[i].home \in Nat \ {0} /\ Ptn[j].home \in Nat
  BY OnType
<1>1. Ptn[i].home < Ptn[j].home
  BY Order
<1>2. PICK k \in On[l] : k < j /\ Ptn[j].home = Ptn[k].home + 1
  BY <1>0, <1>1, Order
<1>3. k \in Nat /\ Ptn[k].home \in Nat
  BY OnType
<1>4. ~(i < k)
  BY <1>0, <1>2, <1>3
<1>5. ~(k < i)
  BY <1>0, <1>1, <1>2, <1>3, Order
<1> QED BY <1>0, <1>2, <1>3, <1>4, <1>5

LEMMA UpdateFacts ==
  ASSUME TypeInv, pc \in {"read", "walk", "write"}
  PROVE  /\ lun \in Configured /\ lun \in Luns /\ lun \in Nat /\ iter \in Copies
         /\ ix \in Nat /\ ix >= 1 /\ OldCopy \in Table /\ disk[lun][iter] \in Copy
         /\ Configured \subseteq Luns
<1>1. lun \in Configured /\ Configured \subseteq Luns
  BY BootSlotAssumption DEF TypeInv, Calls, BootSlotAssumption, DeviceAssumption
<1>2. iter \in Copies /\ disk[lun][iter] \in Copy
  BY <1>1 DEF TypeInv, TypeOK
<1> QED BY <1>1, <1>2, LenType DEF TypeInv, TypeOK, Luns, OldCopy, Copy

LEMMA WhereIs ==
  ASSUME TypeInv, Used(mem), pc = "walk", ix \in Idx
  PROVE  /\ NotInTable(ix) => ix \notin On[lun]
         /\ ~NotInTable(ix) /\ ~AfterLun(ix) => ix \in On[lun]
<1>0. lun \in Configured /\ lun \in Luns /\ lun \in Nat
  BY UpdateFacts
<1>1. Ptn[ix].lun \in Luns /\ Ptn[ix].lun \in Configured /\ Ptn[ix].lun \in Nat
  BY PtnType DEF Luns
<1>2. Device = "EMMC" => Luns = {0}
  BY BootSlotAssumption DEF BootSlotAssumption, DeviceAssumption, Luns
<1>3. Device \in {"UFS", "EMMC"}
  BY BootSlotAssumption DEF BootSlotAssumption, DeviceAssumption
<1>4. mem[ix].guid # NoGuid <=> Ptn[ix].home # 0
  BY DEF Used
<1> QED BY <1>0, <1>1, <1>2, <1>3, <1>4 DEF NotInTable, AfterLun, On

LEMMA AllVisited ==
  ASSUME TypeInv, pc = "walk", ix \in Idx => AfterLun(ix), NEW i \in On[lun]
  PROVE  i < ix
<1>0. lun \in Configured /\ lun \in Nat /\ ix \in Nat /\ ix >= 1
  BY UpdateFacts
<1>1. i \in Idx /\ i \in Nat /\ Ptn[i].lun = lun
  BY <1>0, OnType
<1>2. CASE ix \notin Idx
  BY <1>0, <1>1, <1>2, LenType DEF Idx
<1>3. CASE ix \in Idx
  <2>1. Ptn[ix].lun > lun
    BY <1>3 DEF AfterLun
  <2>2. \A x, y \in Idx : x < y => Ptn[x].lun <= Ptn[y].lun
    BY BootSlotAssumption DEF BootSlotAssumption, PtnAssumption
  <2>3. Ptn[ix].lun \in Nat
    BY <1>3, PtnType DEF Luns
  <2> QED BY <1>0, <1>1, <1>3, <2>1, <2>2, <2>3
<1> QED BY <1>2, <1>3

-------------------------------------------------------------------------------
(* Every step of a walk                                                    *)

\* An entry is left out, or it is updated where the pointer is.
LEMMA PassInStep ==
  ASSUME TypeInv, pc = "walk", InStep, UNCHANGED lun, ix' = ix + 1,
         IF ix \in On[lun] THEN pos' = pos + 1 ELSE UNCHANGED pos
  PROVE  InStep'
<1>0. lun \in Configured /\ ix \in Nat
  BY UpdateFacts
<1> SUFFICES ASSUME NEW i \in On[lun], ix + 1 <= i,
                    \A j \in On[lun] : ix + 1 <= j => i <= j
             PROVE  pos' = Ptn[i].home
  BY DEF InStep
<1>1. \A j \in On[lun] : j \in Nat
  BY <1>0, OnType
<1>2. CASE ix \in On[lun]
  <2>1. pos = Ptn[ix].home
    BY <1>0, <1>1, <1>2 DEF InStep
  <2>2. Ptn[i].home = Ptn[ix].home + 1
    BY <1>0, <1>1, <1>2, NextInStep
  <2> QED BY <1>2, <2>1, <2>2
<1>3. CASE ix \notin On[lun]
  <2>1. \A j \in On[lun] : ix <= j => ix + 1 <= j
    BY <1>0, <1>1, <1>3
  <2> QED BY <1>0, <1>1, <1>3, <2>1 DEF InStep
<1> QED BY <1>2, <1>3

LEMMA PointsAt ==
  ASSUME TypeInv, pc = "walk", InStep, ix \in On[lun]
  PROVE  pos = Ptn[ix].home
<1>0. lun \in Configured /\ ix \in Nat
  BY UpdateFacts
<1>1. \A j \in On[lun] : j \in Nat
  BY <1>0, OnType
<1> QED BY <1>0, <1>1 DEF InStep

LEMMA ReturnLeavesWalk == TypeInv /\ Return => WalkInv'
<1> SUFFICES ASSUME TypeInv, Return PROVE WalkInv'
  OBVIOUS
<1>1. pc' \notin {"walk", "write"}
  BY DEF Return, TypeInv, TypeOK
<1>2. ix' = 1 /\ pos' = 1 /\ dirty' = FALSE
  BY DEF Return, NoLocals
<1> QED BY <1>1, <1>2 DEF WalkInv

LEMMA WalkBegins == TypeInv /\ WalkInv /\ ReadCopy => WalkInv'
<1> SUFFICES ASSUME TypeInv, WalkInv, ReadCopy PROVE WalkInv'
  OBVIOUS
<1>0. lun \in Configured /\ pc = "read" /\ ix = 1 /\ pos = 1 /\ ~dirty
  BY UpdateFacts DEF ReadCopy, WalkInv
<1>1. CASE Fault
  BY <1>1, ReturnLeavesWalk DEF Fault
<1>2. CASE ~Fault
  <2>1. /\ buf' = OldCopy /\ pc' = "walk"
        /\ UNCHANGED <<disk, mem, lun, iter, ix, pos, dirty, type>>
    BY <1>2 DEF ReadCopy, Goto, media, OldCopy
  <2>2. \A i \in On[lun] : i \in Nat /\ i >= 1
    BY <1>0, OnType DEF Idx
  <2>3. \A i \in On[lun] : (\A j \in On[lun] : 1 <= j => i <= j) => Ptn[i].home = 1
    BY <1>0, <2>2, FirstInStep
  <2>4. InStep'
    BY <1>0, <2>1, <2>3 DEF InStep
  <2>5. Keeps(buf, OldCopy)'
    BY <2>1 DEF Keeps, OldCopy
  <2>6. \A i \in On[lun'] : ~(i < ix')
    BY <1>0, <2>1, <2>2
  <2>7. buf' = OldCopy'
    BY <2>1 DEF OldCopy
  <2> QED BY <2>1, <2>4, <2>5, <2>6, <2>7 DEF WalkInv
<1> QED BY <1>1, <1>2

LEMMA WalkSkips == TypeInv /\ WalkInv /\ Used(mem) /\ SkipEntry => WalkInv'
<1> SUFFICES ASSUME TypeInv, WalkInv, Used(mem), SkipEntry PROVE WalkInv'
  OBVIOUS
<1>1. /\ pc = "walk" /\ ix' = ix + 1 /\ ix \in Idx /\ ix \notin On[lun]
      /\ UNCHANGED <<disk, mem, pc, type, lun, iter, pos, buf, dirty>>
  BY WhereIs DEF SkipEntry, media
<1>2. \A i \in On[lun] : i < ix + 1 => i < ix
  BY <1>1, UpdateFacts, OnType
<1>3. \A i \in On[lun] : i < ix => i < ix + 1
  BY <1>1, UpdateFacts, OnType
<1>4. InStep => InStep'
  BY <1>1, PassInStep
<1>5. Aligned' = Aligned
  BY <1>1 DEF Aligned, SameGuids, OldCopy
<1>6. OldCopy' = OldCopy
  BY <1>1 DEF OldCopy
<1>7. Aligned' => \A i \in On[lun'] :
                    IF i < ix' THEN Updated(buf[Ptn[i].home], i)'
                    ELSE buf'[Ptn[i].home] = OldCopy'[Ptn[i].home]
  BY <1>1, <1>2, <1>3, <1>5, <1>6 DEF WalkInv, Updated
<1> QED BY <1>1, <1>4, <1>5, <1>6, <1>7 DEF WalkInv, Keeps

\* UpdateGuid and UpdateAttr: the entry under the pointer is updated.
LEMMA WalkUpdates ==
  ASSUME TypeInv, WalkInv, pc = "walk", ix \in On[lun], UNCHANGED <<disk, mem, pc, type, lun, iter>>,
         ix' = ix + 1, pos' = pos + 1, dirty' \in BOOLEAN, pos \in Pos, buf' \in Table,
         Keeps(buf', buf), dirty' \/ (buf' = buf /\ ~dirty),
         \A p \in Pos : p # pos => buf'[p] = buf[p],
         Updated(buf'[pos], ix)
  PROVE  WalkInv'
<1>0. lun \in Configured /\ ix \in Nat /\ \A i \in On[lun] : i \in Nat /\ Ptn[i].home \in Pos
  BY UpdateFacts, OnType
<1>1. OldCopy' = OldCopy /\ Aligned' = Aligned
  BY DEF Aligned, SameGuids, OldCopy
<1>2. Keeps(buf, OldCopy)'
  BY <1>1 DEF WalkInv, Keeps
<1>3. ASSUME Aligned
      PROVE  /\ InStep'
             /\ \A i \in On[lun] : IF i < ix' THEN Updated(buf'[Ptn[i].home], i)
                                   ELSE buf'[Ptn[i].home] = OldCopy[Ptn[i].home]
  <2>1. InStep /\ pos = Ptn[ix].home
    BY <1>3, PointsAt DEF WalkInv
  <2>2. InStep'
    BY <2>1, PassInStep
  <2>3. ASSUME NEW i \in On[lun]
        PROVE  IF i < ix' THEN Updated(buf'[Ptn[i].home], i)
               ELSE buf'[Ptn[i].home] = OldCopy[Ptn[i].home]
    <3>1. CASE i = ix
      BY <1>0, <2>1, <3>1
    <3>2. CASE i # ix
      <4>1. buf'[Ptn[i].home] = buf[Ptn[i].home]
        BY <1>0, <2>1, <3>2, HomesDiffer
      <4>2. i < ix + 1 <=> i < ix
        BY <1>0, <3>2
      <4> QED BY <1>3, <4>1, <4>2 DEF WalkInv
    <3> QED BY <3>1, <3>2
  <2> QED BY <2>2, <2>3
<1>4. Aligned' => /\ InStep'
                  /\ \A i \in On[lun'] : IF i < ix' THEN Updated(buf[Ptn[i].home], i)'
                                         ELSE buf'[Ptn[i].home] = OldCopy'[Ptn[i].home]
  BY <1>1, <1>3 DEF Updated
<1>5. dirty' \/ buf' = OldCopy'
  BY <1>1 DEF WalkInv
<1> QED BY <1>1, <1>2, <1>4, <1>5 DEF WalkInv

LEMMA VisitedHere ==
  ASSUME TypeInv, Used(mem), Visiting
  PROVE  /\ ix \in On[lun] /\ pos \in Pos /\ pc = "walk" /\ buf \in Table
         /\ mem[ix] \in Entry /\ buf[pos] \in Entry
<1>1. /\ ix \in Idx /\ pos \in Pos /\ buf \in Table /\ mem \in [Idx -> Entry]
      /\ pc = "walk"
  BY VisitingType DEF Visiting
<1>2. ix \in On[lun]
  BY <1>1, WhereIs DEF Visiting
<1> QED BY <1>1, <1>2 DEF Table

LEMMA WalkUpdatesGuid == TypeInv /\ WalkInv /\ Used(mem) /\ UpdateGuid => WalkInv'
<1> SUFFICES ASSUME TypeInv, WalkInv, Used(mem), UpdateGuid PROVE WalkInv'
  OBVIOUS
<1>1. /\ Visiting /\ type = "GUID" /\ ix' = ix + 1 /\ pos' = pos + 1
      /\ UNCHANGED <<disk, mem, pc, type, lun, iter>>
      /\ IF buf[pos].guid # mem[ix].guid
         THEN buf' = [buf EXCEPT ![pos].guid = mem[ix].guid] /\ dirty' = TRUE
         ELSE UNCHANGED <<buf, dirty>>
  BY DEF UpdateGuid, media
<1>2. /\ ix \in On[lun] /\ pos \in Pos /\ pc = "walk" /\ buf \in Table
      /\ mem[ix] \in Entry /\ buf[pos] \in Entry
  BY <1>1, VisitedHere
<1>3. /\ buf' \in Table
      /\ \A p \in Pos : p # pos => buf'[p] = buf[p]
      /\ \A p \in Pos : buf'[p].attr = buf[p].attr
      /\ buf'[pos].guid = mem[ix].guid
  BY <1>1, <1>2 DEF Table, Entry
<1>4. Keeps(buf', buf) /\ Updated(buf'[pos], ix)
  BY <1>1, <1>3 DEF Keeps, Updated
<1>5. dirty' \in BOOLEAN /\ (dirty' \/ (buf' = buf /\ ~dirty))
  BY <1>1 DEF TypeInv, TypeOK
<1> QED BY <1>1, <1>2, <1>3, <1>4, <1>5, WalkUpdates

LEMMA WalkUpdatesAttr == TypeInv /\ WalkInv /\ Used(mem) /\ UpdateAttr => WalkInv'
<1> SUFFICES ASSUME TypeInv, WalkInv, Used(mem), UpdateAttr PROVE WalkInv'
  OBVIOUS
<1>1. /\ Visiting /\ type = "ATTR" /\ ix' = ix + 1 /\ pos' = pos + 1
      /\ UNCHANGED <<disk, mem, pc, type, lun, iter>>
      /\ IF buf[pos].attr # mem[ix].attr
         THEN buf' = [buf EXCEPT ![pos].attr = mem[ix].attr] /\ dirty' = TRUE
         ELSE UNCHANGED <<buf, dirty>>
  BY DEF UpdateAttr, media
<1>2. /\ ix \in On[lun] /\ pos \in Pos /\ pc = "walk" /\ buf \in Table
      /\ mem[ix] \in Entry /\ buf[pos] \in Entry
  BY <1>1, VisitedHere
<1>3. /\ buf' \in Table
      /\ \A p \in Pos : p # pos => buf'[p] = buf[p]
      /\ \A p \in Pos : buf'[p].guid = buf[p].guid
      /\ buf'[pos].attr = mem[ix].attr
  BY <1>1, <1>2 DEF Table, Entry
<1>4. Keeps(buf', buf) /\ Updated(buf'[pos], ix)
  BY <1>1, <1>3 DEF Keeps, Updated
<1>5. dirty' \in BOOLEAN /\ (dirty' \/ (buf' = buf /\ ~dirty))
  BY <1>1 DEF TypeInv, TypeOK
<1> QED BY <1>1, <1>2, <1>3, <1>4, <1>5, WalkUpdates

\* The pointer gets stuck only in a table whose GUIDs are not those of memory.
LEMMA WalkGetsStuck == TypeInv /\ WalkInv /\ Used(mem) /\ GuidMismatch => WalkInv' /\ ~Aligned
<1> SUFFICES ASSUME TypeInv, WalkInv, Used(mem), GuidMismatch PROVE WalkInv' /\ ~Aligned
  OBVIOUS
<1>1. /\ Visiting /\ type = "ATTR" /\ buf[pos].guid # mem[ix].guid
      /\ UNCHANGED <<disk, mem, pc, type, lun, iter, buf, dirty>>
  BY DEF GuidMismatch, media
<1>2. ix \in On[lun] /\ pc = "walk" /\ ix \in Nat
  BY <1>1, VisitedHere, UpdateFacts
<1>3. ~Aligned
  <2> SUFFICES ASSUME Aligned PROVE FALSE
    OBVIOUS
  <2>1. pos = Ptn[ix].home /\ buf[Ptn[ix].home] = OldCopy[Ptn[ix].home]
    BY <1>2, PointsAt DEF WalkInv
  <2>2. OldCopy[Ptn[ix].home].guid = mem[ix].guid
    BY <1>1, <1>2, SMTT(30) DEF Aligned, SameGuids
  <2> QED BY <1>1, <2>1, <2>2
<1>4. ~Aligned' /\ OldCopy' = OldCopy /\ Keeps(buf, OldCopy)'
  BY <1>1, <1>2, <1>3 DEF Aligned, SameGuids, OldCopy, WalkInv, Keeps
<1>5. dirty' \/ buf' = OldCopy'
  BY <1>1, <1>2, <1>4 DEF WalkInv
<1> QED BY <1>1, <1>2, <1>3, <1>4, <1>5 DEF WalkInv

LEMMA NextCopyLeavesWalk == NextCopy => WalkInv'
  BY DEF NextCopy, Goto, WalkInv

LEMMA WalkEnds == TypeInv /\ WalkInv /\ EndWalk => WalkInv'
<1> SUFFICES ASSUME TypeInv, WalkInv, EndWalk, dirty PROVE WalkInv'
  BY NextCopyLeavesWalk DEF EndWalk
<1>1. /\ pc = "walk" /\ pc' = "write"
      /\ UNCHANGED <<disk, mem, type, lun, iter, buf>>
  BY DEF EndWalk, Goto, media, walk
<1>2. \A i \in On[lun] : i < ix
  BY AllVisited DEF EndWalk
<1>3. Aligned => \A i \in On[lun] : Updated(buf[Ptn[i].home], i)
  BY <1>1, <1>2 DEF WalkInv
<1>4. Aligned' => \A i \in On[lun'] : Updated(buf[Ptn[i].home], i)'
  BY <1>1, <1>3 DEF Aligned, SameGuids, OldCopy, Updated
<1>5. Keeps(buf, OldCopy)'
  BY <1>1 DEF WalkInv, Keeps, OldCopy
<1> QED BY <1>1, <1>4, <1>5 DEF WalkInv

\* The steps outside of a walk.
LEMMA WalkElsewhere ==
  ASSUME TypeInv, WalkInv, [Next]_vars, pc \notin {"read", "walk"}
  PROVE  WalkInv'
<1>1. CASE NextCopy \/ Return
  BY <1>1, NextCopyLeavesWalk, ReturnLeavesWalk
<1>2. CASE PowerLoss
  BY <1>2 DEF PowerLoss, NoLocals, WalkInv
<1>3. CASE UNCHANGED vars
  BY <1>3 DEF vars, media, walk, WalkInv, Keeps, Aligned, InStep, SameGuids, OldCopy,
              Updated
<1>4. CASE WriteCopy
  BY <1>1, <1>4 DEF WriteCopy, Fault
<1>5. CASE ~NextCopy /\ ~Return /\ ~PowerLoss /\ ~UNCHANGED vars /\ ~WriteCopy
  <2>1. /\ pc \notin {"walk", "write"} /\ pc' \notin {"walk", "write"}
        /\ UNCHANGED <<ix, pos, dirty>>
    BY <1>5 DEF Next, Firmware, Environment, walk, Goto, Exit, CallUpdate, Load,
       GetActiveSlot, Caller, DxeCurrent, AppCurrent, ClearUnbootable, SetActiveSlot,
       RefreshBootLun, SwitchPtnSlots, MarkPtnActive, DxeDone, AppUpdateGuids,
       AppUpdateAttributes, Update, NextLun, ReadCopy, SkipEntry, UpdateGuid, UpdateAttr,
       GuidMismatch, EndWalk, Visiting, PowerOn, RunApp, Reset, Crash, TornWrite
  <2> QED BY <2>1 DEF WalkInv
<1> QED BY <1>1, <1>2, <1>3, <1>4, <1>5

LEMMA WalkStep ==
  ASSUME TypeInv, WalkInv, [Next]_vars, Loaded => Used(mem)
  PROVE  WalkInv'
<1>1. CASE pc \notin {"read", "walk"}
  BY <1>1, WalkElsewhere
<1>2. CASE pc \in {"read", "walk"}
  <2>1. Used(mem)
    BY <1>2 DEF Loaded
  <2>2. \/ ReadCopy \/ SkipEntry \/ UpdateGuid \/ UpdateAttr \/ GuidMismatch \/ EndWalk
        \/ PowerLoss \/ UNCHANGED vars
    BY <1>2 DEF Next, Firmware, Environment, Load, GetActiveSlot, DxeCurrent, AppCurrent,
       ClearUnbootable, SetActiveSlot, RefreshBootLun, SwitchPtnSlots, MarkPtnActive,
       DxeDone, AppUpdateGuids, AppUpdateAttributes, Update, NextLun, WriteCopy,
       PowerOn, RunApp, Reset, Crash, TornWrite
  <2>3. CASE PowerLoss
    BY <2>3 DEF PowerLoss, NoLocals, WalkInv
  <2>4. CASE UNCHANGED vars
    BY <2>4 DEF vars, media, walk, WalkInv, Keeps, Aligned, InStep, SameGuids, OldCopy,
                Updated
  <2> QED BY <2>1, <2>2, <2>3, <2>4, WalkBegins, WalkSkips, WalkUpdatesGuid,
             WalkUpdatesAttr, WalkGetsStuck, WalkEnds
<1> QED BY <1>1, <1>2

-------------------------------------------------------------------------------
(* Whole tables stay whole                                                 *)

LEMMA WholeUsed ==
  ASSUME TypeInv, WholeInv, Loaded
  PROVE  Used(mem)
<1>1. NoGuid \notin Guids /\ HomeGuid \in [Idx -> Guids]
  BY BootSlotAssumption DEF BootSlotAssumption, DeviceAssumption
<1> SUFFICES ASSUME NEW i \in Idx PROVE mem[i].guid # NoGuid <=> Ptn[i].home # 0
  BY DEF Used
<1>2. CASE Ptn[i].home = 0
  BY <1>2 DEF WholeInv
<1>3. CASE Ptn[i].home # 0
  <2>1. Ptn[i].lun \in Configured /\ i \in On[Ptn[i].lun]
    BY <1>3, OnLun
  <2>2. mem[i].guid \in {HomeGuid[i], HomeGuid[Twin[i]]}
    BY <2>1 DEF WholeInv, WholeMem
  <2> QED BY <1>1, <1>3, <2>2, TwinType
<1> QED BY <1>2, <1>3

LEMMA SameGuidsWhole ==
  ASSUME NEW l \in Configured, NEW t \in Table, NEW u \in Table, Whole(t, l),
         \A i \in On[l] : u[Ptn[i].home].guid = t[Ptn[i].home].guid
  PROVE  Whole(u, l)
  BY DEF Whole

LEMMA SwapWhole ==
  ASSUME PairsShareLun, NEW m, Used(m), NEW l \in Configured, WholeMem(m, l)
  PROVE  WholeMem(SwapPtnGuids(m), l)
<1>1. ASSUME NEW i \in On[l]
      PROVE  /\ SwapPtnGuids(m)[i].guid = m[Twin[i]].guid
             /\ Twin[i] \in On[l] /\ Twin[Twin[i]] = i
  <2>1. i \in Idx /\ Ptn[i].home # 0
    BY OnType
  <2>2. Twin[i] \in On[l] /\ Twin[Twin[i]] = i
    BY <2>1, TwinOn, TwinType
  <2>3. Partner(m, i) = Twin[i] /\ m[i].guid # NoGuid
    BY <2>1, PartnerIsTwin DEF Used
  <2>4. SwapPtnGuids(m)[i] = [m[i] EXCEPT !.guid = m[Twin[i]].guid]
    BY <2>1, <2>3 DEF SwapPtnGuids
  <2> QED BY <2>2, <2>4
<1>2. CASE \A i \in On[l] : m[i].guid = HomeGuid[i]
  BY <1>1, <1>2 DEF WholeMem
<1>3. CASE \A i \in On[l] : m[i].guid = HomeGuid[Twin[i]]
  BY <1>1, <1>3 DEF WholeMem
<1> QED BY <1>2, <1>3 DEF WholeMem

LEMMA LoadWhole ==
  ASSUME NEW s \in [Luns -> Table], NEW l \in Configured, Whole(s[l], l)
  PROVE  WholeMem(EntriesOf(s), l)
<1>1. \A i \in On[l] : EntriesOf(s)[i] = s[l][Ptn[i].home]
  BY OnType DEF EntriesOf
<1> QED BY <1>1 DEF Whole, WholeMem

LEMMA ValidIsWhole ==
  ASSUME TypeInv, WholeInv, NEW l \in Configured, NEW c \in Copies, IsValid(disk[l][c])
  PROVE  Whole(disk[l][c].ent, l)
  BY DEF WholeInv, IsValid

\* What is about to be written is whole.
LEMMA WrittenWhole ==
  ASSUME TypeInv, CopiesInv, WalkInv, WholeInv, pc = "write"
  PROVE  Whole(buf, lun)
<1>0. lun \in Configured /\ iter \in Copies /\ OldCopy \in Table /\ buf \in Table
  BY UpdateFacts DEF TypeInv, TypeOK
<1>1. Whole(OldCopy, lun)
  BY <1>0, ValidIsWhole DEF CopiesInv, AllValid, OldCopy
<1>2. CASE type = "ATTR"
  <2>1. \A i \in On[lun] : buf[Ptn[i].home].guid = OldCopy[Ptn[i].home].guid
    BY <1>0, <1>2, OnType DEF WalkInv, Keeps
  <2> QED BY <1>0, <1>1, <2>1, SameGuidsWhole
<1>3. CASE type = "GUID"
  <2>1. \A i \in On[lun] : buf[Ptn[i].home].guid = mem[i].guid
    BY <1>3 DEF WalkInv, Aligned, Updated
  <2>2. WholeMem(mem, lun)
    BY <1>0 DEF WholeInv, Loaded
  <2> QED BY <2>1, <2>2 DEF WholeMem, Whole
<1> QED BY <1>2, <1>3 DEF TypeInv, TypeOK

LEMMA InitWhole ==
  ASSUME MediaWhole
  PROVE  Init => WholeInv /\ WalkInv
<1> SUFFICES ASSUME Init PROVE WholeInv /\ WalkInv
  OBVIOUS
<1>1. PICK m \in InitMedia :
        disk = [l \in Luns |-> [c \in Copies |-> Sealed(m.tab[l])]]
  BY DEF Init
<1>2. Configured \subseteq Luns
  BY BootSlotAssumption DEF BootSlotAssumption, DeviceAssumption
<1>3. \A l \in Configured, c \in Copies : Whole(disk[l][c].crc, l)
  BY <1>1, <1>2 DEF MediaWhole, Sealed
<1> QED BY <1>3 DEF Init, WholeInv, Loaded, WalkInv

\* The tables on the disk.
LEMMA DiskWhole ==
  ASSUME RepairAssumption, TypeInv, CopiesInv, WalkInv, WholeInv, [Next]_vars,
         NEW l \in Configured, NEW c \in Copies
  PROVE  Whole(disk'[l][c].crc, l)
<1>0. /\ l \in Luns /\ disk \in [Luns -> [Copies -> Copy]]
      /\ Whole(disk[l][c].crc, l)
  BY BootSlotAssumption
  DEF BootSlotAssumption, DeviceAssumption, TypeInv, TypeOK, WholeInv
<1>1. CASE UNCHANGED disk
  BY <1>0, <1>1
<1>2. CASE PowerOn
  <2>1. disk'[l] = Repaired(disk[l])
    BY <1>0, <1>2 DEF PowerOn
  <2>2. CASE IsValid(disk[l][c]) \/ ~DriverRepairs
    BY <1>0, <2>1, <2>2 DEF Repaired
  <2>3. CASE ~IsValid(disk[l][c]) /\ DriverRepairs
    <3>1. PICK d \in Copies : IsValid(disk[l][d])
      BY DEF CopiesInv, OneCopyValid
    <3>2. disk'[l][c] = Sealed(BestTable(disk[l]))
      BY <2>1, <2>3, <3>1 DEF Repaired
    <3>3. \E e \in Copies : IsValid(disk[l][e]) /\ BestTable(disk[l]) = disk[l][e].ent
      BY <3>1 DEF BestTable
    <3> QED BY <3>2, <3>3, ValidIsWhole DEF Sealed
  <2> QED BY <2>2, <2>3
<1>3. CASE WriteCopy /\ ~UNCHANGED disk
  <2>1. disk' = [disk EXCEPT ![lun][iter] = Sealed(buf)] /\ pc = "write"
    BY <1>3 DEF WriteCopy, Written
  <2>2. Whole(buf, lun) /\ lun \in Luns /\ iter \in Copies
    BY <2>1, WrittenWhole, UpdateFacts
  <2> QED BY <1>0, <2>1, <2>2 DEF Sealed
<1>4. CASE TornWrite
  <2>1. PICK written \in SUBSET Pos, header \in BOOLEAN :
          disk' = [disk EXCEPT ![lun][iter] =
                    [ent |-> [p \in Pos |-> IF p \in written THEN buf[p]
                                            ELSE disk[lun][iter].ent[p]],
                     crc |-> IF header THEN Written(disk[lun][iter], buf).crc
                                       ELSE disk[lun][iter].crc]]
    BY <1>4 DEF TornWrite
  <2>2. Whole(buf, lun) /\ lun \in Luns /\ iter \in Copies /\ lun \in Configured
    BY <1>4, WrittenWhole, UpdateFacts DEF TornWrite
  <2>3. Written(disk[lun][iter], buf).crc = buf /\ Whole(disk[lun][iter].crc, lun)
    BY <2>2 DEF Written, Sealed, WholeInv
  <2> QED BY <1>0, <2>1, <2>2, <2>3
<1>5. CASE ~UNCHANGED disk /\ ~PowerOn /\ ~WriteCopy /\ ~TornWrite
  BY <1>5 DEF Next, Firmware, Environment, vars, media, Load, GetActiveSlot, DxeCurrent,
     AppCurrent, ClearUnbootable, SetActiveSlot, RefreshBootLun, SwitchPtnSlots,
     MarkPtnActive, DxeDone, AppUpdateGuids, AppUpdateAttributes, Update, NextLun,
     ReadCopy, SkipEntry, UpdateGuid, UpdateAttr, GuidMismatch, EndWalk, RunApp,
     Reset, Crash
<1> QED BY <1>1, <1>2, <1>3, <1>4, <1>5

LEMMA SnapWhole ==
  ASSUME TypeInv, CopiesInv, WholeInv, [Next]_vars, pc' # "off", NEW l \in Configured
  PROVE  Whole(snap'[l], l)
<1>1. CASE PowerOn
  <2>1. snap'[l] = BestTable(disk[l])
    BY <1>1, BootSlotAssumption DEF PowerOn, BootSlotAssumption, DeviceAssumption
  <2>2. \E c \in Copies : IsValid(disk[l][c])
    BY DEF CopiesInv, OneCopyValid
  <2>3. \E c \in Copies : IsValid(disk[l][c]) /\ BestTable(disk[l]) = disk[l][c].ent
    BY <2>2 DEF BestTable
  <2> QED BY <2>1, <2>3, ValidIsWhole
<1>2. CASE ~PowerOn
  <2>1. UNCHANGED snap /\ pc # "off"
    BY <1>2 DEF Next, Firmware, Environment, vars, Load, GetActiveSlot, DxeCurrent,
       AppCurrent, ClearUnbootable, SetActiveSlot, RefreshBootLun, SwitchPtnSlots,
       MarkPtnActive, DxeDone, AppUpdateGuids, AppUpdateAttributes, Update, NextLun,
       ReadCopy, SkipEntry, UpdateGuid, UpdateAttr, GuidMismatch, EndWalk, WriteCopy,
       Visiting, RunApp, Reset, Crash, TornWrite, PowerLoss
  <2> QED BY <2>1 DEF WholeInv
<1> QED BY <1>1, <1>2

LEMMA WithBootAttrGuids ==
  ASSUME NEW m \in [Idx -> Entry], NEW s \in Suffixes, NEW a, NEW i \in Idx
  PROVE  WithBootAttr(m, s, a)[i].guid = m[i].guid
  BY BootIdxType DEF WithBootAttr, Entry

\* Only SwitchPtnSlots changes the type GUIDs in memory.
LEMMA MemGuids ==
  ASSUME TypeInv, [Next]_vars, Loaded, Loaded', ~SwitchPtnSlots, NEW i \in Idx
  PROVE  mem'[i].guid = mem[i].guid
<1>0. mem \in [Idx -> Entry]
  BY DEF TypeInv, TypeOK
<1>1. CASE UNCHANGED mem
  BY <1>1
<1>2. ASSUME NEW s \in Suffixes, NEW a, mem' = WithBootAttr(mem, s, a)
      PROVE  mem'[i].guid = mem[i].guid
  BY <1>0, <1>2, WithBootAttrGuids
<1>3. CASE SetActiveSlot
  <2> DEFINE new == WithBootAttr(mem, target,
                      NewSlotAttr(BootAttr(mem, target), img = "app", img = "dxe"))
             alt == Other(target)
  <2>1. target \in Suffixes /\ alt \in Suffixes
    BY <1>3 DEF TypeInv, Calls, SetActiveSlot, Other
  <2>2. mem' = WithBootAttr(new, alt, AlternateAttr(BootAttr(new, alt)))
    BY <1>3 DEF SetActiveSlot, Exit, Loaded
  <2>3. new \in [Idx -> Entry]
    BY <1>0, <2>1, BootAttrType, NewSlotAttrType, WithBootAttrType
  <2>4. new[i].guid = mem[i].guid
    BY <1>0, <2>1, WithBootAttrGuids
  <2> HIDE DEF new, alt
  <2> QED BY <2>1, <2>2, <2>3, <2>4, WithBootAttrGuids
<1>4. CASE MarkPtnActive
  BY <1>0, <1>4 DEF MarkPtnActive, MarkActive, Entry
<1>5. CASE GetActiveSlot
  BY <1>2, <1>5 DEF GetActiveSlot
<1>6. CASE \/ ClearUnbootable("_a", "clear_a", "clear_b")
           \/ ClearUnbootable("_b", "clear_b", "getActive")
  BY <1>2, <1>6 DEF ClearUnbootable
<1>7. CASE Exit("err") \/ Exit("ok") \/ PowerLoss
  BY <1>7 DEF Exit, PowerLoss, Loaded
<1>8. CASE ~Exit("err") /\ ~Exit("ok") /\ ~PowerLoss
  BY <1>1, <1>3, <1>4, <1>5, <1>6, <1>8
  DEF Next, Firmware, Environment, vars, Load, Loaded, DxeCurrent, AppCurrent,
      RefreshBootLun, DxeDone, AppUpdateGuids, AppUpdateAttributes, Update, NextLun,
      ReadCopy, SkipEntry, UpdateGuid, UpdateAttr, GuidMismatch, EndWalk, WriteCopy,
      PowerOn, RunApp, Reset, Crash, TornWrite
<1> QED BY <1>7, <1>8

\* When the entries come into memory, and where they stay.
LEMMA Loading ==
  ASSUME TypeInv, [Next]_vars, ~Loaded, Loaded'
  PROVE  mem' = EntriesOf(snap) /\ bak' = EntriesOf(snap) /\ pc = "load" /\ Load
  BY DEF Next, Firmware, Environment, vars, media, slots, walk, Goto, Exit, Load, Loaded,
     GetActiveSlot,
     DxeCurrent, AppCurrent, ClearUnbootable, SetActiveSlot, RefreshBootLun,
     SwitchPtnSlots, MarkPtnActive, DxeDone, AppUpdateGuids, AppUpdateAttributes, Update,
     NextLun, ReadCopy, SkipEntry, UpdateGuid, UpdateAttr, GuidMismatch, EndWalk, Visiting,
     WriteCopy, PowerOn, RunApp, Reset, Crash, TornWrite, PowerLoss

LEMMA MemWhole ==
  ASSUME PairsShareLun, TypeInv, CopiesInv, WholeInv, [Next]_vars, Loaded'
  PROVE  /\ \A l \in Configured : WholeMem(mem', l)
         /\ \A i \in Idx : Ptn[i].home = 0 => mem'[i].guid = NoGuid
<1>1. CASE ~Loaded
  <2>1. mem' = EntriesOf(snap) /\ snap \in [Luns -> Table] /\ pc # "off"
    BY <1>1, Loading DEF TypeInv, TypeOK
  <2>2. \A l \in Configured : WholeMem(mem', l)
    BY <2>1, LoadWhole DEF WholeInv
  <2> QED BY <2>1, <2>2 DEF EntriesOf, Unused
<1>2. CASE Loaded /\ ~SwitchPtnSlots
  <2>1. \A i \in Idx : mem'[i].guid = mem[i].guid
    BY <1>2, MemGuids
  <2>2. \A l \in Configured : \A i \in On[l] : i \in Idx
    BY OnType
  <2> QED BY <1>2, <2>1, <2>2 DEF WholeInv, WholeMem
<1>3. CASE Loaded /\ SwitchPtnSlots
  <2>1. mem' = SwapPtnGuids(mem) /\ Used(mem) /\ mem \in [Idx -> Entry]
    BY <1>3, WholeUsed DEF SwitchPtnSlots, TypeInv, TypeOK
  <2>2. \A l \in Configured : WholeMem(mem', l)
    BY <1>3, <2>1, SwapWhole DEF WholeInv
  <2>3. ASSUME NEW i \in Idx, Ptn[i].home = 0
        PROVE  mem'[i].guid = NoGuid
    <3>1. Partner(mem, i) = i /\ mem[i].guid = NoGuid
      BY <2>1, <2>3, PartnerOfHandle DEF Used
    <3> QED BY <2>1, <3>1 DEF SwapPtnGuids, Entry
  <2> QED BY <2>2, <2>3
<1> QED BY <1>1, <1>2, <1>3

LEMMA WholeStep ==
  ASSUME RepairAssumption, PairsShareLun, TypeInv, CopiesInv, WalkInv, WholeInv, [Next]_vars
  PROVE  WholeInv'
<1>1. \A l \in Configured, c \in Copies : Whole(disk'[l][c].crc, l)
  BY DiskWhole
<1>2. pc' # "off" => \A l \in Configured : Whole(snap'[l], l)
  BY SnapWhole
<1>3. Loaded' => /\ \A l \in Configured : WholeMem(mem', l)
                 /\ \A i \in Idx : Ptn[i].home = 0 => mem'[i].guid = NoGuid
  BY MemWhole
<1> QED BY <1>1, <1>2, <1>3 DEF WholeInv, Whole, WholeMem

\* All that holds of every update, whatever disturbs it.
UpdateInv == TypeInv /\ CopiesInv /\ WalkInv /\ WholeInv

LEMMA UpdateCorrect ==
  ASSUME RepairAssumption, PairsShareLun, MediaWhole
  PROVE  Spec => []UpdateInv
<1>1. Init => UpdateInv
  BY InitType, InitCopies, InitWhole DEF UpdateInv
<1>2. UpdateInv /\ [Next]_vars => UpdateInv'
  BY StepType, StepCopies, WalkStep, WholeUsed, WholeStep DEF UpdateInv
<1> QED BY <1>1, <1>2, PTL DEF Spec

(* No crash, I/O error or torn write, at any point of any number of boots   *)
(* and switches, leaves a valid copy of a table in which some pairs of      *)
(* partitions have exchanged their type GUIDs and others have not, provided *)
(* that no pair extends over two LUNs, that the device comes with tables    *)
(* that are not mixed up, and that PartitionDxe restores torn copies        *)
(* (SwitchPtnSlots with UpdatePartitionAttributes(PARTITION_GUID)).         *)
THEOREM TablesStayWhole ==
  ASSUME RepairAssumption, PairsShareLun, MediaWhole
  PROVE  Spec => []GuidsWhole
<1>1. UpdateInv => GuidsWhole
  BY ValidIsWhole DEF UpdateInv, GuidsWhole
<1> QED BY <1>1, UpdateCorrect, PTL

-------------------------------------------------------------------------------
(* The primary copy first                                                  *)

\* A walk over the backup follows one over the primary copy that was not cut
\* short; when PartitionDxe restores a copy, no tables are in memory.
PrimaryInv ==
  /\ iter = "backup" /\ pc \in {"read", "walk", "write"} => PrimaryHolds(lun)
  /\ pc = "off" => type = "ATTR" /\ mem = NoEntries

LEMMA PrimaryWritten ==
  ASSUME TypeInv, WalkInv, iter = "primary", (EndWalk /\ ~dirty) \/ WriteCopy, NextCopy
  PROVE  PrimaryHolds(lun)'
<1> DEFINE P == disk'[lun]["primary"].ent
<1>0. /\ lun \in Configured /\ lun \in Luns /\ pc \in {"walk", "write"}
      /\ UNCHANGED <<mem, type, lun>> /\ OldCopy = disk[lun]["primary"].ent
  BY UpdateFacts DEF EndWalk, WriteCopy, NextCopy, Goto, OldCopy
<1>1. /\ P = buf /\ Keeps(buf, OldCopy)
      /\ Aligned => \A i \in On[lun] : Updated(buf[Ptn[i].home], i)
  <2>1. CASE EndWalk /\ ~dirty
    <3>1. P = buf /\ UNCHANGED disk /\ pc = "walk"
      BY <1>0, <2>1 DEF EndWalk, WalkInv, media
    <3>2. \A i \in On[lun] : i < ix
      BY <2>1, AllVisited DEF EndWalk
    <3> QED BY <3>1, <3>2 DEF WalkInv
  <2>2. CASE WriteCopy
    <3>1. pc = "write" /\ pc' # "bds"
      BY <2>2 DEF WriteCopy, NextCopy, Goto
    <3>2. disk' = [disk EXCEPT ![lun][iter] = Sealed(buf)]
      BY <1>0, <2>2, <3>1 DEF WriteCopy, Written, Fault, Return, NextCopy, Goto, TypeInv, TypeOK
    <3>3. P = buf
      BY <1>0, <3>2 DEF TypeInv, TypeOK, Sealed
    <3> QED BY <3>1, <3>3 DEF WalkInv
  <2> QED BY <2>1, <2>2
<1>2. \A i \in On[lun] : Ptn[i].home \in Pos
  BY <1>0, OnType
<1>3. CASE type = "GUID"
  BY <1>0, <1>1, <1>3 DEF PrimaryHolds, Aligned, Updated
<1>4. CASE type = "ATTR"
  <2>1. \A i \in On[lun] : P[Ptn[i].home].guid = OldCopy[Ptn[i].home].guid
    BY <1>1, <1>2, <1>4 DEF Keeps
  <2>2. (\A i \in On[lun] : P[Ptn[i].home].guid = mem[i].guid) => Aligned
    BY <2>1 DEF Aligned, SameGuids
  <2> QED BY <1>0, <1>1, <1>4, <2>2 DEF PrimaryHolds, Updated
<1> QED BY <1>3, <1>4 DEF TypeInv, TypeOK

LEMMA PrimaryStep ==
  ASSUME TypeInv, WalkInv, PrimaryInv, [Next]_vars
  PROVE  PrimaryInv'
<1>1. ASSUME pc' = "off" PROVE type' = "ATTR" /\ mem' = NoEntries
  <2>1. PowerLoss \/ UNCHANGED vars
    BY <1>1 DEF Next, Firmware, Environment, Load, GetActiveSlot, Caller, DxeCurrent,
       AppCurrent, ClearUnbootable, SetActiveSlot, RefreshBootLun, SwitchPtnSlots,
       MarkPtnActive, DxeDone, AppUpdateGuids, AppUpdateAttributes, Update, NextLun,
       ReadCopy, SkipEntry, UpdateGuid, UpdateAttr, GuidMismatch, Visiting, EndWalk,
       WriteCopy, NextCopy, Fault, Return, Goto, Exit, CallUpdate, PowerOn, RunApp,
       Reset, Crash, TornWrite, TypeInv, TypeOK, Calls
  <2>2. CASE PowerLoss
    BY <2>2 DEF PowerLoss, NoLocals
  <2>3. CASE UNCHANGED vars
    BY <1>1, <2>3 DEF vars, walk, PrimaryInv
  <2> QED BY <2>1, <2>2, <2>3
<1>2. ASSUME iter' = "backup", pc' \in {"read", "walk", "write"}
      PROVE  PrimaryHolds(lun)'
  <2>1. \/ UNCHANGED <<disk, mem, type, lun>> /\ iter = "backup" /\ pc \in {"read", "walk", "write"}
        \/ iter = "primary" /\ ((EndWalk /\ ~dirty) \/ WriteCopy) /\ NextCopy
    BY <1>2 DEF Next, Firmware, Environment, vars, media, walk, Load, GetActiveSlot, Caller,
       DxeCurrent, AppCurrent, ClearUnbootable, SetActiveSlot, RefreshBootLun,
       SwitchPtnSlots, MarkPtnActive, DxeDone, AppUpdateGuids, AppUpdateAttributes,
       Update, NextLun, ReadCopy, SkipEntry, UpdateGuid, UpdateAttr, GuidMismatch,
       Visiting, EndWalk, WriteCopy, NextCopy, Fault, Return, NoLocals, Goto, Exit,
       CallUpdate, PowerOn, RunApp, Reset, Crash, TornWrite, PowerLoss
  <2>2. CASE UNCHANGED <<disk, mem, type, lun>> /\ iter = "backup" /\ pc \in {"read", "walk", "write"}
    BY <2>2 DEF PrimaryInv, PrimaryHolds
  <2> QED BY <2>1, <2>2, PrimaryWritten
<1> QED BY <1>1, <1>2 DEF PrimaryInv

LEMMA PrimaryAction ==
  ASSUME TypeInv, CopiesInv, WholeInv, PrimaryInv, [Next]_vars,
         NEW l \in Luns, disk'[l]["backup"] # disk[l]["backup"]
  PROVE  PrimaryHolds(l)
<1>0. disk \in [Luns -> [Copies -> Copy]]
  BY DEF TypeInv, TypeOK
<1>1. CASE PowerOn
  <2>1. disk'[l] = Repaired(disk[l]) /\ type = "ATTR" /\ mem = NoEntries
    BY <1>1 DEF PowerOn, PrimaryInv
  <2> SUFFICES ASSUME NEW i \in On[l], disk[l]["primary"].ent[Ptn[i].home].guid = mem[i].guid
               PROVE  FALSE
    BY <2>1 DEF PrimaryHolds
  <2>2. i \in Idx /\ Ptn[i].lun = l /\ l \in Configured
    BY PtnType DEF On
  <2>3. mem[i].guid = NoGuid
    BY <2>1, <2>2 DEF NoEntries, Unused
  <2>4. IsValid(disk[l]["primary"])
    BY <2>1, <2>2 DEF Repaired, CopiesInv, OneCopyValid
  <2>5. Whole(disk[l]["primary"].ent, l)
    BY <2>2, <2>4, ValidIsWhole, SMTT(30)
  <2>6. mem[i].guid \in {HomeGuid[i], HomeGuid[Twin[i]]}
    BY <2>5 DEF Whole
  <2> QED BY <2>2, <2>3, <2>6, TwinType, BootSlotAssumption
          DEF BootSlotAssumption, DeviceAssumption
<1>2. CASE WriteCopy \/ TornWrite
  <2>1. pc = "write" /\ lun \in Luns
    BY <1>2, UpdateFacts DEF WriteCopy, TornWrite
  <2>2. l = lun /\ iter = "backup"
    BY <1>0, <1>2, <2>1 DEF WriteCopy, TornWrite, TypeInv, TypeOK
  <2> QED BY <2>1, <2>2 DEF PrimaryInv
<1>3. CASE ~PowerOn /\ ~WriteCopy /\ ~TornWrite
  BY <1>3 DEF Next, Firmware, Environment, vars, media, Load, GetActiveSlot, DxeCurrent,
     AppCurrent, ClearUnbootable, SetActiveSlot, RefreshBootLun, SwitchPtnSlots,
     MarkPtnActive, DxeDone, AppUpdateGuids, AppUpdateAttributes, Update, NextLun,
     ReadCopy, SkipEntry, UpdateGuid, UpdateAttr, GuidMismatch, EndWalk, RunApp,
     Reset, Crash
<1> QED BY <1>1, <1>2, <1>3

(* The backup of a table is written only when the primary holds what it is  *)
(* about to hold too, whatever I/O errors, crashes and torn writes there    *)
(* were: after an error the update ends (goto Exit in                       *)
(* UpdatePartitionAttributes), and a torn copy is restored from a whole one *)
(* before the tables come into memory.                                      *)
THEOREM PrimaryIsWrittenFirst ==
  ASSUME RepairAssumption, PairsShareLun, MediaWhole
  PROVE  Spec => PrimaryFirst
<1> DEFINE Inv == UpdateInv /\ PrimaryInv
<1>1. Init => PrimaryInv
  BY DEF Init, PrimaryInv
<1>2. UpdateInv /\ PrimaryInv /\ [Next]_vars => PrimaryInv'
  BY PrimaryStep DEF UpdateInv
<1>3. UpdateInv /\ PrimaryInv /\ [Next]_vars =>
        \A l \in Luns : disk'[l]["backup"] # disk[l]["backup"] => PrimaryHolds(l)
  BY PrimaryAction DEF UpdateInv
<1> QED BY <1>1, <1>2, <1>3, UpdateCorrect, PTL DEF Spec, PrimaryFirst

===============================================================================
