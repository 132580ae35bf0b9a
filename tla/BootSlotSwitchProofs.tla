------------------------- MODULE BootSlotSwitchProofs -------------------------
(***************************************************************************)
(* What BootSlotDxe and SwitchSlotsApp make of the slots, as long as the   *)
(* disk and the boot LUN report no errors.                                 *)
(*                                                                         *)
(*   PassInv    how far an update of the tables has come: which entries of *)
(*              the primary tables, and of PtnEntriesBak, are up to date;  *)
(*   SnapInv    what PartitionDxe read is still on the disk;               *)
(*   DxeInv     what BootSlotDxe knows of the slot it refreshes;           *)
(*   SwitchInv  which slots are active, on the disk and in memory;         *)
(*   MirrorInv  how the two copies of a table differ (with RestInv);       *)
(*   AppInv     what SwitchSlotsApp has made of the entries it loaded.     *)
(***************************************************************************)
EXTENDS BootSlotProofs, FiniteSetTheorems

USE DEF Copies, Suffixes, NoSlot

Partitions == {i \in Idx : Ptn[i].home # 0}

Primary == [i \in Idx |-> DiskEntry(i, "primary")]

\* No I/O error has occurred so far; nothing but crashes has.
Faultless   == "fault" \notin disturbed
OnlyCrashed == disturbed \subseteq {"crash"}

-------------------------------------------------------------------------------
(* How far an update has come                                              *)

Halves == {"ATTR", "GUID"}

Half(e, h) == IF h = "ATTR" THEN e.attr ELSE e.guid

Updating(h) == ret # "none" /\ type = h

\* The update is done with the primary table that partition i is in ...
Passed(i) == \/ Ptn[i].lun < lun
             \/ Ptn[i].lun = lun /\ pc \in {"read", "walk", "write"} /\ iter = "backup"

\* ... or has visited its entry at least.
Seen(i) == \/ Passed(i)
           \/ Ptn[i].lun = lun /\ (pc = "write" \/ (pc = "walk" /\ i < ix))

Tracks(h, S) ==
  \A i \in S :
    /\ (Updating(h) /\ ~Passed(i)) \/ Half(Primary[i], h) = Half(mem[i], h)
    /\ Half(bak[i], h) = Half(IF Updating(h) /\ ~Seen(i) THEN Primary[i] ELSE mem[i], h)

\* SwitchSlotsApp starts from attributes that are out of date.
PassInv ==
  /\ pc \notin {"lun", "read", "walk", "write"} => lun = 0
  /\ ret = "none" => type = "ATTR"
  /\ Loaded => /\ Tracks("GUID", Partitions)
               /\ img = "dxe" => type = "ATTR" /\ Tracks("ATTR", Partitions)

LEMMA PrimaryIs ==
  ASSUME NEW i \in Partitions
  PROVE  /\ i \in Idx /\ i \in Nat /\ Ptn[i].home # 0 /\ Ptn[i].home \in Pos
         /\ Ptn[i].lun \in Configured /\ Ptn[i].lun \in Luns /\ Ptn[i].lun \in Nat
         /\ i \in On[Ptn[i].lun]
         /\ Primary[i] = disk[Ptn[i].lun]["primary"].ent[Ptn[i].home]
         /\ Primary'[i] = disk'[Ptn[i].lun]["primary"].ent[Ptn[i].home]
<1>1. i \in Idx /\ Ptn[i].home # 0
  BY DEF Partitions
<1>2. Ptn[i].lun \in Configured /\ i \in On[Ptn[i].lun]
  BY <1>1, OnLun
<1> QED BY <1>1, <1>2, OnType DEF Primary, DiskEntry, Luns

LEMMA OnIsPartition ==
  ASSUME NEW l \in Configured, NEW i \in On[l]
  PROVE  i \in Partitions /\ Ptn[i].lun = l
  BY OnType DEF Partitions

\* In an update the variables of the images stay as they are.
Walking == \/ Update \/ NextLun \/ ReadCopy \/ SkipEntry \/ UpdateGuid \/ UpdateAttr
           \/ GuidMismatch \/ EndWalk \/ WriteCopy

\* Where the image is, or goes on after the update.
At == IF ret = "none" THEN pc ELSE ret

LEMMA WalkingKeeps ==
  ASSUME TypeInv, Walking
  PROVE  /\ UNCHANGED <<bootLun, snap, mem, slots, At>>
         /\ ret # "none" /\ Loaded /\ Loaded' /\ pc' # "bds" /\ pc' # "load"
         /\ pc \in {"upd", "lun", "read", "walk", "write"}
<1>1. /\ pc \in {"upd", "lun", "read", "walk", "write"}
      /\ UNCHANGED <<bootLun, snap, mem, slots>>
  BY DEF Walking, Update, NextLun, ReadCopy, SkipEntry, UpdateGuid, UpdateAttr, Visiting,
         GuidMismatch, EndWalk, WriteCopy, media
<1>2. ret # "none" /\ Loaded /\ Calls
  BY <1>1 DEF TypeInv, Calls, Loaded
<1>3. CASE Return
  BY <1>1, <1>2, <1>3 DEF Return, At, Loaded, TypeInv, TypeOK
<1>4. CASE ~Return
  <2>1. UNCHANGED ret /\ pc' \in {"lun", "read", "walk", "write"}
    BY <1>1, <1>2, <1>4
    DEF Walking, Update, NextLun, ReadCopy, SkipEntry, UpdateGuid, UpdateAttr, Visiting,
        GuidMismatch, EndWalk, WriteCopy, Goto, walk, Fault, NextCopy
  <2> QED BY <1>1, <1>2, <2>1 DEF At, Loaded
<1> QED BY <1>3, <1>4

\* In the primary tables, an update of the attributes finds every entry.
LEMMA PrimaryAligned ==
  ASSUME TypeInv, Tracks("GUID", Partitions), pc \in {"read", "walk", "write"}, iter = "primary"
  PROVE  Aligned
<1> SUFFICES ASSUME type = "ATTR", NEW i \in On[lun]
             PROVE  OldCopy[Ptn[i].home].guid = mem[i].guid
  BY DEF Aligned, SameGuids
<1>1. i \in Partitions /\ Ptn[i].lun = lun
  BY UpdateFacts, OnIsPartition
<1>2. Primary[i].guid = mem[i].guid
  BY <1>1 DEF Tracks, Updating, Half
<1> QED BY <1>1, <1>2, PrimaryIs DEF OldCopy

-------------------------------------------------------------------------------
(* Every step of an update                                                 *)

\* The half of the entries that is not updated stays as it is.
LEMMA OtherHalf ==
  ASSUME TypeInv, WalkInv, NEW h \in Halves, NEW S \in SUBSET Partitions,
         ~Updating(h), Tracks(h, S), Walking
  PROVE  Tracks(h, S)'
<1>0. /\ ret # "none" /\ UNCHANGED mem /\ type # h
      /\ pc \in {"upd", "lun", "read", "walk", "write"}
  BY WalkingKeeps DEF Updating
<1>1. ~Updating(h)'
  BY <1>0 DEF Walking, Update, NextLun, ReadCopy, SkipEntry, UpdateGuid, UpdateAttr,
     GuidMismatch, EndWalk, WriteCopy, Updating, Goto, walk, NextCopy, Fault, Return
<1> SUFFICES ASSUME NEW i \in S
             PROVE  /\ Half(Primary'[i], h) = Half(mem[i], h)
                    /\ Half(bak'[i], h) = Half(mem[i], h)
  BY <1>0, <1>1 DEF Tracks
<1> i \in Partitions
  OBVIOUS
<1>2. Half(Primary[i], h) = Half(mem[i], h) /\ Half(bak[i], h) = Half(mem[i], h)
  BY DEF Tracks
<1>3. Half(bak'[i], h) = Half(bak[i], h)
  <2>1. CASE UNCHANGED bak
    BY <2>1
  <2>2. CASE UpdateGuid \/ UpdateAttr
    BY <1>0, <2>2, VisitingType, PrimaryIs
    DEF UpdateGuid, UpdateAttr, Half, Halves, Entry
  <2>3. CASE ~UpdateGuid /\ ~UpdateAttr
    BY <2>1, <2>3 DEF Walking, Update, NextLun, ReadCopy, SkipEntry, GuidMismatch,
                      EndWalk, WriteCopy
  <2> QED BY <2>2, <2>3
<1>4. Half(Primary'[i], h) = Half(Primary[i], h)
  <2>1. CASE UNCHANGED disk
    BY <2>1, PrimaryIs
  <2>2. CASE WriteCopy /\ ~UNCHANGED disk
    <3>1. disk' = [disk EXCEPT ![lun][iter] = Sealed(buf)] /\ pc = "write"
      BY <2>2 DEF WriteCopy, Written
    <3>2. lun \in Luns /\ iter \in Copies /\ disk \in [Luns -> [Copies -> Copy]]
      BY <3>1, UpdateFacts DEF TypeInv, TypeOK
    <3>3. CASE Ptn[i].lun = lun /\ iter = "primary"
      <4>1. Primary'[i] = buf[Ptn[i].home] /\ Primary[i] = OldCopy[Ptn[i].home]
        BY <3>1, <3>2, <3>3, PrimaryIs DEF Sealed, OldCopy
      <4>2. Keeps(buf, OldCopy)
        BY <3>1 DEF WalkInv
      <4>3. type \in {"ATTR", "GUID"}
        BY DEF TypeInv, TypeOK
      <4> QED BY <1>0, <4>1, <4>2, <4>3, PrimaryIs DEF Keeps, Half, Halves
    <3>4. CASE ~(Ptn[i].lun = lun /\ iter = "primary")
      <4>1. Primary'[i] = Primary[i]
        BY <3>1, <3>2, <3>4, PrimaryIs
      <4> QED BY <4>1
    <3> QED BY <3>3, <3>4
  <2>3. CASE ~WriteCopy
    BY <2>1, <2>3 DEF Walking, Update, NextLun, ReadCopy, SkipEntry, UpdateGuid,
       UpdateAttr, GuidMismatch, EndWalk, media
  <2> QED BY <2>1, <2>2, <2>3
<1> QED BY <1>2, <1>3, <1>4

\* Between two LUNs, and before the first one.
LEMMA TracksLun ==
  ASSUME TypeInv, PassInv, NEW h \in Halves, NEW S \in SUBSET Partitions,
         Updating(h), Tracks(h, S), Update \/ NextLun
  PROVE  Tracks(h, S)'
<1>0. UNCHANGED <<disk, mem, bak>>
  BY DEF Update, NextLun, media
<1>1. /\ lun \in Nat /\ MaxLuns \in Nat
      /\ \A i \in Partitions : /\ Ptn[i].lun \in Nat /\ Ptn[i].lun < MaxLuns
                               /\ Ptn[i].lun \in Configured /\ Primary'[i] = Primary[i]
  BY <1>0, PrimaryIs, BootSlotAssumption
  DEF TypeInv, TypeOK, BootSlotAssumption, DeviceAssumption, Luns
<1>2. CASE Update
  <2>1. lun = 0 /\ pc = "upd"
    BY <1>2 DEF PassInv, Update
  <2>2. \A i \in Partitions : ~Passed(i) /\ ~Seen(i)
    BY <1>1, <2>1 DEF Passed, Seen
  <2>3. \A i \in S : Half(bak[i], h) = Half(Primary[i], h)
    BY <2>2 DEF Tracks
  <2>4. CASE mem = bak
    <3>1. ~Updating(h)'
      BY <1>2, <2>4 DEF Update, Return, Updating
    <3> QED BY <1>0, <1>1, <2>3, <2>4, <3>1 DEF Tracks
  <2>5. CASE mem # bak
    <3>1. pc' = "lun" /\ lun' = lun /\ Updating(h)'
      BY <1>2, <2>5 DEF Update, Goto, walk, Updating
    <3>2. \A i \in Partitions : ~Passed(i)' /\ ~Seen(i)'
      BY <1>1, <2>1, <3>1 DEF Passed, Seen
    <3> QED BY <1>0, <1>1, <2>3, <3>1, <3>2 DEF Tracks
  <2> QED BY <2>4, <2>5
<1>3. CASE NextLun
  <2>0. pc = "lun"
    BY <1>3 DEF NextLun
  <2>1. CASE lun >= MaxLuns
    <3>1. ~Updating(h)'
      BY <1>1, <1>3, <2>1 DEF NextLun, Return, Updating
    <3>2. \A i \in Partitions : Passed(i) /\ Seen(i)
      BY <1>1, <2>1 DEF Passed, Seen
    <3> QED BY <1>0, <1>1, <3>1, <3>2 DEF Tracks
  <2>2. CASE lun < MaxLuns
    <3>1. /\ UNCHANGED <<ret, type>>
          /\ \/ lun \notin Configured /\ pc' = "lun" /\ lun' = lun + 1
             \/ lun' = lun /\ iter' = "primary" /\ pc' = "read"
      BY <1>1, <1>3, <2>2 DEF NextLun, Goto
    <3>2. \A i \in Partitions : Passed(i)' = Passed(i) /\ Seen(i)' = Seen(i)
      BY <1>1, <2>0, <3>1 DEF Passed, Seen
    <3>3. Updating(h)'
      BY <3>1 DEF Updating
    <3> QED BY <1>0, <1>1, <3>2, <3>3 DEF Tracks
  <2> QED BY <1>1, <2>1, <2>2
<1> QED BY <1>2, <1>3

\* The entries that are read or passed over.
LEMMA TracksPassing ==
  ASSUME Faultless', TypeInv, WalkInv, Used(mem), Tracks("GUID", Partitions),
         NEW h \in Halves, NEW S \in SUBSET Partitions,
         Updating(h), Tracks(h, S), ReadCopy \/ SkipEntry \/ GuidMismatch
  PROVE  Tracks(h, S)'
<1>0. /\ UNCHANGED <<disk, mem, bak, ret, type, lun, iter>> /\ pc' = "walk"
      /\ pc \in {"read", "walk"}
  BY DEF Faultless, Fault, ReadCopy, SkipEntry, GuidMismatch, Visiting, media, Goto
<1>1. ix \in Nat /\ lun \in Configured
  BY <1>0, UpdateFacts
<1>2. ASSUME NEW i \in Partitions PROVE Passed(i)' = Passed(i) /\ Seen(i)' = Seen(i)
  <2>1. Passed(i)' = Passed(i)
    BY <1>0 DEF Passed
  <2>2. CASE ReadCopy
    <3>1. pc = "read" /\ ix = 1 /\ ix' = ix
      BY <2>2 DEF Faultless, Fault, ReadCopy, Goto, WalkInv
    <3>2. ~(i < 1)
      BY PrimaryIs DEF Idx
    <3> QED BY <1>0, <2>1, <3>1, <3>2 DEF Seen
  <2>3. CASE SkipEntry
    <3>1. pc = "walk" /\ ix' = ix + 1 /\ ix \notin On[lun]
      BY <2>3, WhereIs DEF SkipEntry
    <3>2. Ptn[i].lun = lun => (i < ix + 1 <=> i < ix)
      BY <1>1, <3>1, PrimaryIs
    <3> QED BY <1>0, <2>1, <3>1, <3>2 DEF Seen
  <2>4. CASE GuidMismatch
    <3>1. pc = "walk" /\ ~Aligned
      BY <2>4, WalkGetsStuck DEF GuidMismatch, Visiting
    <3>2. iter = "backup"
      BY <3>1, PrimaryAligned DEF TypeInv, TypeOK
    <3> QED BY <1>0, <2>1, <3>1, <3>2 DEF Seen, Passed
  <2> QED BY <2>2, <2>3, <2>4
<1>3. Updating(h)' /\ \A i \in Partitions : Primary'[i] = Primary[i]
  BY <1>0, PrimaryIs DEF Updating
<1> QED BY <1>0, <1>2, <1>3 DEF Tracks

\* An entry that is visited is up to date in PtnEntriesBak afterwards: it is
\* copied there, or it was so on the disk.
LEMMA TracksVisit ==
  ASSUME TypeInv, WalkInv, Used(mem), Tracks("GUID", Partitions),
         NEW h \in Halves, NEW S \in SUBSET Partitions,
         Updating(h), Tracks(h, S), UpdateGuid \/ UpdateAttr
  PROVE  Tracks(h, S)'
<1>0. /\ UNCHANGED <<disk, mem, pc, ret, type, lun, iter>> /\ pc = "walk" /\ ix' = ix + 1
      /\ Visiting /\ type = h /\ UNCHANGED <<pc, type>>
  BY DEF UpdateGuid, UpdateAttr, Visiting, media, Updating
<1>1. /\ ix \in Nat /\ ix \in On[lun] /\ lun \in Configured /\ ix \in Idx
      /\ bak \in [Idx -> Entry] /\ mem \in [Idx -> Entry] /\ pos \in Pos
      /\ ix \in Partitions
  BY <1>0, UpdateFacts, VisitedHere, VisitingType, OnIsPartition
<1>2. \A i \in Partitions : Passed(i)' = Passed(i) /\ Primary'[i] = Primary[i]
  BY <1>0, PrimaryIs DEF Passed
<1>3. ASSUME NEW i \in Partitions, i # ix
      PROVE  Seen(i)' = Seen(i) /\ bak'[i] = bak[i]
  <2>1. i < ix + 1 <=> i < ix
    BY <1>1, <1>3, PrimaryIs
  <2>2. bak'[i] = bak[i]
    BY <1>1, <1>3, PrimaryIs DEF UpdateGuid, UpdateAttr
  <2> QED BY <1>0, <1>2, <2>1, <2>2 DEF Seen
<1>4. ASSUME NEW i \in Partitions, i = ix
      PROVE  Seen(i)'
  BY <1>0, <1>1, <1>4, OnIsPartition DEF Seen
<1>5. ASSUME ix \in S PROVE Half(bak'[ix], h) = Half(mem[ix], h)
  <2>1. CASE Half(buf[pos], h) # Half(mem[ix], h)
    BY <1>0, <1>1, <2>1 DEF UpdateGuid, UpdateAttr, Half, Entry
  <2>2. CASE Half(buf[pos], h) = Half(mem[ix], h)
    <3>1. bak' = bak
      BY <1>0, <2>2 DEF UpdateGuid, UpdateAttr, Half
    <3>2. CASE iter = "backup"
      <4>1. Seen(ix)
        BY <1>0, <1>1, <3>2, OnIsPartition DEF Seen, Passed
      <4> QED BY <1>1, <1>5, <3>1, <4>1 DEF Tracks
    <3>3. CASE iter = "primary"
      <4>1. Aligned
        BY <1>0, <3>3, PrimaryAligned
      <4>2. pos = Ptn[ix].home
        BY <1>0, <1>1, <4>1, PointsAt DEF WalkInv
      <4>3. buf[Ptn[ix].home] = OldCopy[Ptn[ix].home]
        BY <1>0, <1>1, <4>1 DEF WalkInv
      <4>4. buf[pos] = Primary[ix]
        BY <1>1, <3>3, <4>2, <4>3, OnIsPartition, PrimaryIs DEF OldCopy
      <4>5. Half(bak[ix], h) \in {Half(Primary[ix], h), Half(mem[ix], h)}
        BY <1>1, <1>5 DEF Tracks
      <4> QED BY <2>2, <3>1, <4>4, <4>5
    <3> QED BY <3>2, <3>3 DEF TypeInv, TypeOK
  <2> QED BY <2>1, <2>2
<1>6. Updating(h)'
  BY <1>0 DEF Updating
<1> QED BY <1>0, <1>1, <1>2, <1>3, <1>4, <1>5, <1>6 DEF Tracks

\* Going on from a copy that holds what memory holds.
LEMMA TracksNext ==
  ASSUME TypeInv, pc \in {"walk", "write"}, NEW h \in Halves, NEW S \in SUBSET Partitions, Updating(h), Tracks(h, S),
         NextCopy, UNCHANGED <<mem, bak>>,
         \A i \in On[lun] : pc = "walk" => i < ix,
         \A i \in Partitions :
           IF Ptn[i].lun = lun /\ iter = "primary"
           THEN Half(Primary'[i], h) = Half(mem[i], h)
           ELSE Half(Primary'[i], h) = Half(Primary[i], h)
  PROVE  Tracks(h, S)'
<1>0. lun \in Configured /\ lun \in Nat /\ Updating(h)'
  BY UpdateFacts DEF Updating, NextCopy, Goto
<1> SUFFICES ASSUME NEW i \in S
             PROVE  /\ Passed(i)' => Half(Primary'[i], h) = Half(mem[i], h)
                    /\ Half(bak'[i], h) = Half(IF Seen(i)' THEN mem[i] ELSE Primary'[i], h)
  BY <1>0 DEF Tracks
<1> i \in Partitions
  OBVIOUS
<1>1. Ptn[i].lun \in Nat /\ i \in On[Ptn[i].lun]
  BY PrimaryIs
<1>2. Seen(i)' <=> Passed(i)'
  BY DEF Seen, NextCopy, Goto
<1>3. Passed(i)' = Seen(i)
  <2>1. CASE iter = "primary"
    BY <1>0, <1>1, <2>1 DEF Passed, Seen, NextCopy, Goto
  <2>2. CASE iter = "backup"
    BY <1>0, <1>1, <2>2 DEF Passed, Seen, NextCopy, Goto
  <2> QED BY <2>1, <2>2 DEF NextCopy
<1>4. CASE Ptn[i].lun = lun /\ iter = "primary"
  <2>1. Seen(i)
    BY <1>1, <1>4 DEF Seen
  <2> QED BY <1>2, <1>3, <1>4, <2>1 DEF Tracks
<1>5. CASE ~(Ptn[i].lun = lun /\ iter = "primary")
  <2>1. Seen(i) = Passed(i)
    BY <1>0, <1>5 DEF Seen, Passed, TypeInv, TypeOK
  <2> QED BY <1>2, <1>3, <1>5, <2>1 DEF Tracks
<1> QED BY <1>4, <1>5

LEMMA TracksEnd ==
  ASSUME Faultless', TypeInv, WalkInv, Used(mem), Tracks("GUID", Partitions),
         NEW h \in Halves, NEW S \in SUBSET Partitions,
         Updating(h), Tracks(h, S), EndWalk \/ WriteCopy
  PROVE  Tracks(h, S)'
<1>0. /\ UNCHANGED <<mem, bak>> /\ pc \in {"walk", "write"} /\ type = h
      /\ lun \in Configured /\ lun \in Luns /\ iter \in Copies
      /\ disk \in [Luns -> [Copies -> Copy]]
  BY UpdateFacts DEF EndWalk, WriteCopy, Updating, TypeInv, TypeOK
<1>1. pc = "walk" => \A i \in On[lun] : i < ix
  BY AllVisited DEF EndWalk, WriteCopy
<1>2. iter = "primary" => \A i \in On[lun] : Half(buf[Ptn[i].home], h) = Half(mem[i], h)
  <2>1. iter = "primary" => Aligned
    BY <1>0, PrimaryAligned
  <2>2. Aligned => \A i \in On[lun] : Updated(buf[Ptn[i].home], i)
    BY <1>0, <1>1 DEF WalkInv
  <2> QED BY <1>0, <2>1, <2>2 DEF Updated, Half, Halves
<1>3. CASE EndWalk /\ dirty
  <2>1. pc = "walk" /\ pc' = "write" /\ UNCHANGED <<disk, ret, type, lun, iter, ix>>
    BY <1>3 DEF EndWalk, Goto, walk, media
  <2>2. \A i \in Partitions : /\ Passed(i)' = Passed(i) /\ Primary'[i] = Primary[i]
                              /\ Seen(i)' = Seen(i)
    BY <1>1, <2>1, PrimaryIs DEF Passed, Seen
  <2>3. Updating(h)'
    BY <2>1 DEF Updating
  <2> QED BY <1>0, <2>2, <2>3 DEF Tracks
<1>4. CASE EndWalk /\ ~dirty
  <2>1. UNCHANGED disk /\ NextCopy /\ buf = OldCopy
    BY <1>4 DEF EndWalk, media, WalkInv
  <2>2. \A i \in Partitions :
           IF Ptn[i].lun = lun /\ iter = "primary"
           THEN Half(Primary'[i], h) = Half(mem[i], h)
           ELSE Half(Primary'[i], h) = Half(Primary[i], h)
    BY <1>2, <2>1, PrimaryIs DEF OldCopy
  <2> QED BY <1>0, <1>1, <2>1, <2>2, TracksNext
<1>5. CASE WriteCopy
  <2>1. disk' = [disk EXCEPT ![lun][iter] = Sealed(buf)] /\ NextCopy /\ pc = "write"
    BY <1>5 DEF WriteCopy, Written, Faultless, Fault
  <2>2. \A i \in Partitions :
           IF Ptn[i].lun = lun /\ iter = "primary"
           THEN Half(Primary'[i], h) = Half(mem[i], h)
           ELSE Half(Primary'[i], h) = Half(Primary[i], h)
    <3> SUFFICES ASSUME NEW i \in Partitions
                 PROVE  IF Ptn[i].lun = lun /\ iter = "primary"
                        THEN Half(Primary'[i], h) = Half(mem[i], h)
                        ELSE Half(Primary'[i], h) = Half(Primary[i], h)
      OBVIOUS
    <3>1. CASE Ptn[i].lun = lun /\ iter = "primary"
      <4>1. Primary'[i] = buf[Ptn[i].home]
        BY <1>0, <2>1, <3>1, PrimaryIs DEF Sealed
      <4> QED BY <1>2, <3>1, <4>1, PrimaryIs
    <3>2. CASE ~(Ptn[i].lun = lun /\ iter = "primary")
      <4>1. Primary'[i] = Primary[i]
        BY <1>0, <2>1, <3>2, PrimaryIs
      <4> QED BY <3>2, <4>1
    <3> QED BY <3>1, <3>2
  <2> QED BY <1>0, <1>1, <2>1, <2>2, TracksNext
<1> QED BY <1>3, <1>4, <1>5

LEMMA WalkingTracks ==
  ASSUME Faultless', TypeInv, WalkInv, Used(mem), PassInv, Tracks("GUID", Partitions),
         NEW h \in Halves, NEW S \in SUBSET Partitions, Tracks(h, S), Walking
  PROVE  Tracks(h, S)'
<1>1. CASE ~Updating(h)
  BY <1>1, OtherHalf
<1>2. CASE Updating(h)
  BY <1>2, TracksLun, TracksPassing, TracksVisit, TracksEnd DEF Walking
<1> QED BY <1>1, <1>2

\* Outside of the loop over the LUNs no LUN is passed.
LEMMA WalkingLun ==
  ASSUME TypeInv, PassInv, Walking, pc' \notin {"lun", "read", "walk", "write"}
  PROVE  lun' = 0
  BY DEF Walking, Update, NextLun, ReadCopy, SkipEntry, UpdateGuid, UpdateAttr, Visiting,
     GuidMismatch, EndWalk, WriteCopy, Goto, Return, NoLocals, NextCopy, Fault, PassInv

-------------------------------------------------------------------------------
(* What is on the disk, in memory, and in what PartitionDxe read            *)

\* SwitchSlotsApp has exchanged the type GUIDs in memory.
Exchanged == At \in {"mark", "guidsDone", "reset"} \/ (At = "setDone" /\ img = "app")

SnapInv ==
  /\ pc = "load" /\ img = "dxe" => \A i \in Partitions : EntriesOf(snap)[i] = Primary[i]
  /\ pc \in {"load", "bds"} =>
       \A i \in Partitions : EntriesOf(snap)[i].guid = Primary[i].guid
  /\ Loaded /\ ~Exchanged => \A i \in Partitions : mem[i].guid = EntriesOf(snap)[i].guid

\* The attributes BootSlotDxe gives the slot it boots.
Ready == [prio |-> 3, active |-> TRUE, retry |-> 7, succ |-> TRUE, unboot |-> FALSE]

LunFollows == Device = "UFS" /\ MediaBootLun

\* The slot that is refreshed is the active one, or slot _a when there is none.
DxeKnows ==
  /\ At \notin {"mark", "guidsDone", "reset"}
  /\ At = "gotCurrent" => target = NoSlot /\ found = HighestActive(mem)
  /\ (At = "getActive" /\ target # NoSlot) \/ At \in {"clear_a", "clear_b"} =>
       HighestActive(mem) = target \/ (HighestActive(mem) = NoSlot /\ target = "_a")
  /\ At = "set" => found \in {NoSlot, target}
  /\ At \in {"flipped", "setDone"} =>
       /\ found = target /\ target \in Suffixes
       /\ BootAttr(mem, target) = Ready
       /\ ~BootAttr(mem, Other(target)).active
       /\ BootAttr(mem, Other(target)).prio < 3
  /\ At = "setDone" => (LunFollows => bootLun = LunOf(target))

DxeInv ==
  /\ pc \in {"off", "load"} => target = NoSlot
  /\ img = "dxe" /\ Loaded => DxeKnows
  /\ LunFollows => bootLun \in {1, 2}
  /\ MediaBootLun => BootedSlotReady

\* The steps of the images between two updates.
Working == \/ GetActiveSlot \/ DxeCurrent \/ AppCurrent
           \/ ClearUnbootable("_a", "clear_a", "clear_b")
           \/ ClearUnbootable("_b", "clear_b", "getActive")
           \/ SetActiveSlot \/ RefreshBootLun \/ SwitchPtnSlots \/ MarkPtnActive
           \/ DxeDone \/ AppUpdateGuids \/ AppUpdateAttributes

LEMMA Steps ==
  ASSUME [Next]_vars
  PROVE  \/ UNCHANGED vars \/ Load \/ Working \/ Walking \/ PowerOn \/ RunApp
         \/ Reset \/ Crash \/ TornWrite
  BY DEF Next, Firmware, Environment, Working, Walking

LEMMA WorkingKeeps ==
  ASSUME TypeInv, Working
  PROVE  /\ UNCHANGED <<disk, snap, img>>
         /\ Loaded /\ ret = "none" /\ At = pc
         /\ pc \notin {"upd", "lun", "read", "walk", "write"}
         /\ \/ /\ pc' \notin {"bds", "upd", "lun", "read", "walk", "write"} /\ ret' = "none"
               /\ Loaded' /\ At' = pc' /\ UNCHANGED <<mem, bak, lun, type>>
            \/ /\ pc' = "upd" /\ ret' # "none"
               /\ Loaded' /\ At' = ret' /\ UNCHANGED <<bak, lun>>
            \/ \E o \in {"ok", "err"} : Exit(o) /\ UNCHANGED walk /\ pc \in {"gotCurrent", "set", "setDone"}
<1>1. Loaded /\ ret = "none" /\ pc \notin {"upd", "lun", "read", "walk", "write"}
  BY DEF Working, GetActiveSlot, DxeCurrent, AppCurrent, ClearUnbootable, SetActiveSlot,
     RefreshBootLun, SwitchPtnSlots, MarkPtnActive, DxeDone, AppUpdateGuids,
     AppUpdateAttributes, Loaded, TypeInv, Calls, TypeOK
<1>2. UNCHANGED <<disk, snap, img>>
  BY DEF Working, GetActiveSlot, DxeCurrent, AppCurrent, ClearUnbootable, SetActiveSlot,
     RefreshBootLun, SwitchPtnSlots, MarkPtnActive, DxeDone, AppUpdateGuids,
     AppUpdateAttributes, media, slots, Exit
<1>3. \/ \E r \in {"gotCurrent", "clear_b", "getActive", "set", "clear_a", "setDone"} :
           Goto(r) /\ UNCHANGED <<mem, bak, lun, type>>
      \/ \E r \in {"gotCurrent", "clear_b", "getActive", "set", "flipped", "mark",
                   "setDone", "guidsDone", "reset"} :
           pc' = "upd" /\ ret' = r /\ UNCHANGED <<bak, lun>>
      \/ \E o \in {"ok", "err"} : Exit(o) /\ UNCHANGED walk /\ pc \in {"gotCurrent", "set", "setDone"}
  BY DEF Working, GetActiveSlot, DxeCurrent, AppCurrent, ClearUnbootable, SetActiveSlot,
     RefreshBootLun, SwitchPtnSlots, MarkPtnActive, DxeDone, AppUpdateGuids,
     AppUpdateAttributes, CallUpdate, walk, Caller
<1> QED BY <1>1, <1>2, <1>3 DEF Goto, At, Loaded

\* An update begins with PtnEntriesBak equal to what is on the disk.
LEMMA WorkingTracks ==
  ASSUME TypeInv, PassInv, Working, Loaded', NEW h \in Halves,
         NEW S \in SUBSET Partitions, Tracks(h, S),
         Updating(h)' \/ \A i \in S : Half(mem'[i], h) = Half(mem[i], h)
  PROVE  Tracks(h, S)'
<1>0. /\ UNCHANGED <<disk, bak, lun>> /\ ret = "none" /\ lun = 0
      /\ ret' = "none" \/ pc' = "upd"
  BY WorkingKeeps DEF PassInv, Loaded, Exit
<1> SUFFICES ASSUME NEW i \in S
             PROVE  /\ (Updating(h)' /\ ~Passed(i)') \/ Half(Primary'[i], h) = Half(mem'[i], h)
                    /\ Half(bak'[i], h) = Half(IF Updating(h)' /\ ~Seen(i)' THEN Primary'[i]
                                                                  ELSE mem'[i], h)
  BY DEF Tracks
<1> i \in Partitions
  OBVIOUS
<1>1. /\ Half(Primary[i], h) = Half(mem[i], h) /\ Half(bak[i], h) = Half(mem[i], h)
      /\ Primary'[i] = Primary[i] /\ Ptn[i].lun \in Nat
  BY <1>0, PrimaryIs DEF Tracks, Updating
<1>2. CASE Updating(h)'
  <2>1. pc' = "upd" /\ lun' = 0
    BY <1>0, <1>2 DEF Updating
  <2>2. ~Passed(i)' /\ ~Seen(i)'
    BY <1>1, <2>1 DEF Passed, Seen
  <2> QED BY <1>0, <1>1, <1>2, <2>2
<1>3. CASE ~Updating(h)'
  BY <1>0, <1>1, <1>3
<1> QED BY <1>2, <1>3

LEMMA PassWorking ==
  ASSUME TypeInv, PassInv, DxeInv, Working
  PROVE  PassInv'
<1>0. /\ UNCHANGED <<img>> /\ Loaded /\ ret = "none" /\ lun = 0 /\ type = "ATTR" /\ At = pc
      /\ Tracks("GUID", Partitions) /\ (img = "dxe" => Tracks("ATTR", Partitions))
  BY WorkingKeeps DEF PassInv, Loaded
<1>1. lun' = 0 /\ (ret' = "none" => type' = "ATTR")
  BY <1>0, WorkingKeeps DEF Exit, walk
<1>2. ASSUME Loaded' PROVE Tracks("GUID", Partitions)'
  <2>1. CASE SwitchPtnSlots
    <3>1. Updating("GUID")'
      BY <2>1 DEF SwitchPtnSlots, CallUpdate, Updating
    <3> QED BY <1>0, <1>2, <3>1, WorkingTracks DEF Halves
  <2>2. CASE ~SwitchPtnSlots
    <3>1. \A i \in Partitions : Half(mem'[i], "GUID") = Half(mem[i], "GUID")
      BY <1>0, <1>2, <2>2, MemGuids, PrimaryIs DEF Half, Next, Firmware, Working
    <3> QED BY <1>0, <1>2, <3>1, WorkingTracks DEF Halves
  <2> QED BY <2>1, <2>2
<1>3. ASSUME Loaded', img = "dxe" PROVE type' = "ATTR" /\ Tracks("ATTR", Partitions)'
  <2>1. pc \notin {"mark", "guidsDone", "reset"} /\ (pc = "flipped" => found = target)
    BY <1>0, <1>3 DEF DxeInv, DxeKnows
  <2>2. \/ GetActiveSlot \/ DxeCurrent \/ SetActiveSlot \/ RefreshBootLun
        \/ ClearUnbootable("_a", "clear_a", "clear_b")
        \/ ClearUnbootable("_b", "clear_b", "getActive")
    BY <1>3, <2>1 DEF Working, AppCurrent, SwitchPtnSlots, MarkPtnActive, DxeDone, Exit,
       AppUpdateGuids, AppUpdateAttributes, Loaded
  <2>3. type' = "ATTR"
    BY <1>0, <1>3, <2>2 DEF GetActiveSlot, DxeCurrent, SetActiveSlot, RefreshBootLun,
       ClearUnbootable, CallUpdate, walk, Exit, Loaded
  <2>4. Updating("ATTR")' \/ UNCHANGED mem
    BY <1>3, <2>3, WorkingKeeps DEF Updating, Exit, Loaded
  <2> QED BY <1>0, <1>3, <2>3, <2>4, WorkingTracks DEF Halves
<1> QED BY <1>0, <1>1, <1>2, <1>3 DEF PassInv

LEMMA PassWalking ==
  ASSUME Faultless', TypeInv, WalkInv, WholeInv, PassInv, Walking
  PROVE  PassInv'
<1>0. /\ UNCHANGED img /\ Loaded /\ Loaded' /\ Tracks("GUID", Partitions) /\ Used(mem)
      /\ img = "dxe" => type = "ATTR" /\ Tracks("ATTR", Partitions)
  BY WalkingKeeps, WholeUsed DEF PassInv, slots
<1>1. pc' \notin {"lun", "read", "walk", "write"} => lun' = 0
  BY WalkingLun
<1>2. type' = "ATTR" \/ (type' = type /\ ret' # "none")
  BY WalkingKeeps
  DEF Walking, Update, NextLun, ReadCopy, SkipEntry, UpdateGuid, UpdateAttr, Visiting,
      GuidMismatch, EndWalk, WriteCopy, Goto, Return, NoLocals, NextCopy, Fault, walk
<1>3. Tracks("GUID", Partitions)' /\ (img = "dxe" => Tracks("ATTR", Partitions)')
  BY <1>0, WalkingTracks DEF Halves
<1> QED BY <1>0, <1>1, <1>2, <1>3 DEF PassInv

LEMMA PassLoad ==
  ASSUME TypeInv, PassInv, SnapInv, Load
  PROVE  PassInv'
<1>1. /\ UNCHANGED <<disk, lun, type, ret, img>> /\ pc' \in {"getActive", "bds"}
      /\ ret = "none" /\ type = "ATTR" /\ lun = 0 /\ pc = "load"
  BY DEF Load, PassInv, TypeInv, Calls, media, walk, slots, Goto, Exit
<1>2. ASSUME Loaded' PROVE mem' = EntriesOf(snap) /\ bak' = EntriesOf(snap)
  BY <1>1, <1>2 DEF Load, Exit, Loaded
<1>3. ASSUME Loaded' PROVE Tracks("GUID", Partitions)' /\ (img = "dxe" => Tracks("ATTR", Partitions)')
  <2>1. ~Updating("GUID")' /\ ~Updating("ATTR")'
    BY <1>1 DEF Updating
  <2>2. \A i \in Partitions : Primary'[i] = Primary[i]
    BY <1>1, PrimaryIs
  <2>3. Tracks("GUID", Partitions)'
    BY <1>1, <1>2, <1>3, <2>1, <2>2 DEF Tracks, SnapInv, Half
  <2>4. img = "dxe" => Tracks("ATTR", Partitions)'
    BY <1>1, <1>2, <1>3, <2>1, <2>2 DEF Tracks, SnapInv
  <2> QED BY <2>3, <2>4
<1> QED BY <1>1, <1>3 DEF PassInv

LEMMA PassStep ==
  ASSUME Faultless', TypeInv, WalkInv, WholeInv, PassInv, SnapInv, DxeInv, [Next]_vars
  PROVE  PassInv'
<1>1. CASE UNCHANGED vars
  BY <1>1 DEF vars, media, slots, walk, PassInv, Loaded, Tracks, Updating, Passed, Seen,
              Primary, DiskEntry
<1>2. CASE PowerLoss
  BY <1>2 DEF PowerLoss, NoLocals, PassInv, Loaded
<1>3. CASE PowerOn \/ RunApp
  BY <1>3 DEF PowerOn, RunApp, Goto, walk, PassInv, Loaded
<1> QED BY <1>1, <1>2, <1>3, Steps, PassWorking, PassWalking, PassLoad, SMTT(30)
        DEF Reset, Crash, TornWrite

-------------------------------------------------------------------------------
(* PartitionDxe reads what the images find                                  *)

\* After a boot the primary tables hold what PartitionDxe has read.
LEMMA ReadsPrimary ==
  ASSUME TypeInv, CopiesInv, PowerOn, NEW i \in Partitions
  PROVE  EntriesOf(snap')[i] = Primary'[i]
<1> DEFINE l == Ptn[i].lun
<1>1. l \in Configured /\ l \in Luns
  BY PrimaryIs
<1>2. snap'[l] = BestTable(disk[l]) /\ disk'[l] = Repaired(disk[l])
  BY <1>1 DEF PowerOn
<1>3. BestTable(disk[l]) = Repaired(disk[l])["primary"].ent
  <2>1. CASE IsValid(disk[l]["primary"])
    BY <2>1 DEF BestTable, Repaired
  <2>2. CASE ~IsValid(disk[l]["primary"])
    <3>1. DriverRepairs /\ \E c \in Copies : IsValid(disk[l][c])
      BY <1>1, <2>2 DEF CopiesInv, AllValid, OneCopyValid
    <3>2. Repaired(disk[l])["primary"] = Sealed(BestTable(disk[l]))
      BY <2>2, <3>1 DEF Repaired
    <3> QED BY <3>2 DEF Sealed
  <2> QED BY <2>1, <2>2
<1>4. EntriesOf(snap')[i] = snap'[l][Ptn[i].home]
  BY PrimaryIs DEF EntriesOf
<1> QED BY <1>2, <1>3, <1>4, PrimaryIs

\* BootSlotDxe and SwitchSlotsApp find both slots.
LEMMA LoadsAll ==
  ASSUME TypeInv, WholeInv, pc = "load"
  PROVE  PartitionHasMultiSlot(EntriesOf(snap))
<1> SUFFICES ASSUME NEW s \in Suffixes
             PROVE  EntriesOf(snap)[BootIdx[s]].guid # NoGuid
  BY DEF PartitionHasMultiSlot
<1>1. BootIdx[s] \in Idx /\ Ptn[BootIdx[s]].home # 0
  BY BootIdxType
<1>2. /\ Ptn[BootIdx[s]].lun \in Configured /\ BootIdx[s] \in On[Ptn[BootIdx[s]].lun]
  BY <1>1, OnLun
<1>3. snap \in [Luns -> Table] /\ Whole(snap[Ptn[BootIdx[s]].lun], Ptn[BootIdx[s]].lun)
  BY <1>2 DEF TypeInv, TypeOK, WholeInv
<1>4. WholeMem(EntriesOf(snap), Ptn[BootIdx[s]].lun)
  BY <1>2, <1>3, LoadWhole
<1>5. NoGuid \notin Guids /\ HomeGuid \in [Idx -> Guids]
  BY BootSlotAssumption DEF BootSlotAssumption, DeviceAssumption
<1> QED BY <1>1, <1>2, <1>4, <1>5, TwinType DEF WholeMem

LEMMA SnapStep ==
  ASSUME TypeInv, CopiesInv, WholeInv, PassInv, SnapInv, DxeInv, [Next]_vars
  PROVE  SnapInv'
<1>1. CASE UNCHANGED vars
  BY <1>1 DEF vars, media, slots, SnapInv, Loaded, Exchanged, At, Primary, DiskEntry
<1>2. CASE PowerLoss
  BY <1>2 DEF PowerLoss, SnapInv, Loaded
<1>3. CASE PowerOn
  <2>1. pc' = "load" /\ \A i \in Partitions : EntriesOf(snap')[i] = Primary'[i]
    BY <1>3, ReadsPrimary DEF PowerOn, Goto
  <2> QED BY <2>1 DEF SnapInv, Loaded
<1>4. CASE RunApp
  <2>1. pc = "bds" /\ pc' = "load" /\ img' = "app" /\ UNCHANGED <<disk, snap>>
    BY <1>4 DEF RunApp, Goto, media
  <2> QED BY <2>1, PrimaryIs DEF SnapInv, Loaded
<1>5. CASE Load
  <2>1. /\ mem' = EntriesOf(snap) /\ pc' = "getActive" /\ UNCHANGED snap
    BY <1>5, LoadsAll DEF Load, Goto
  <2> QED BY <2>1 DEF SnapInv, Loaded
<1>6. CASE Walking
  <2>1. /\ UNCHANGED <<snap, mem, img, At>> /\ pc' # "load" /\ pc' # "bds" /\ Loaded
    BY <1>6, WalkingKeeps DEF slots
  <2> QED BY <2>1 DEF SnapInv, Exchanged
<1>7. CASE Working
  <2>1. /\ UNCHANGED <<disk, snap, img>> /\ Loaded /\ ret = "none" /\ At = pc
    BY <1>7, WorkingKeeps
  <2>2. ASSUME ~Loaded'
        PROVE  pc' # "load" /\ ~Exchanged
    <3>1. pc' = "bds" /\ (DxeDone \/ AppCurrent \/ SetActiveSlot)
      BY <1>7, <2>2, WorkingKeeps DEF Exit, Loaded, Working, GetActiveSlot, DxeCurrent,
         ClearUnbootable, RefreshBootLun, SwitchPtnSlots, MarkPtnActive, AppUpdateGuids,
         AppUpdateAttributes, Goto, CallUpdate, Caller
    <3> QED BY <2>1, <3>1 DEF Exchanged, DxeDone, AppCurrent, SetActiveSlot
  <2>3. ~Exchanged => \A i \in Partitions :
           Primary[i].guid = mem[i].guid /\ Primary'[i] = Primary[i]
    BY <2>1, PrimaryIs DEF PassInv, Tracks, Updating, Half
  <2>4. ASSUME Loaded', ~Exchanged'
        PROVE  ~Exchanged /\ ~SwitchPtnSlots
    <3>1. ~SwitchPtnSlots
      BY <1>7, <2>1, <2>4 DEF SwitchPtnSlots, CallUpdate, Exchanged, At
    <3>2. pc = "mark" => img = "app"
      BY <2>1 DEF DxeInv, DxeKnows, TypeInv, TypeOK
    <3>3. ~Exchanged
      BY <1>7, <2>1, <2>4, <3>2
      DEF Working, GetActiveSlot, DxeCurrent, AppCurrent, ClearUnbootable, SetActiveSlot,
          RefreshBootLun, SwitchPtnSlots, MarkPtnActive, DxeDone, AppUpdateGuids,
          AppUpdateAttributes, CallUpdate, Exchanged, At
    <3> QED BY <3>1, <3>3
  <2>5. ASSUME Loaded', ~Exchanged', NEW i \in Partitions
        PROVE  mem'[i].guid = EntriesOf(snap)[i].guid
    <3>1. mem'[i].guid = mem[i].guid
      BY <1>7, <2>1, <2>4, <2>5, MemGuids, PrimaryIs DEF Next, Firmware, Working
    <3> QED BY <2>1, <2>4, <2>5, <3>1 DEF SnapInv
  <2>6. CASE Loaded'
    BY <2>1, <2>5, <2>6 DEF SnapInv, Loaded
  <2>7. CASE ~Loaded'
    BY <2>1, <2>2, <2>3, <2>7 DEF SnapInv
  <2> QED BY <2>6, <2>7
<1> QED BY <1>1, <1>2, <1>3, <1>4, <1>5, <1>6, <1>7, Steps, SMTT(30) DEF Reset, Crash, TornWrite

-------------------------------------------------------------------------------
(* The attributes of boot_a and boot_b in memory                            *)

LEMMA BootIdxDiffer == BootIdx["_a"] # BootIdx["_b"]
  BY BootIdxType

LEMMA WithBootAttrGives ==
  ASSUME NEW m \in [Idx -> Entry], NEW s \in Suffixes, NEW a, NEW x \in Suffixes
  PROVE  BootAttr(WithBootAttr(m, s, a), x) = IF x = s THEN a ELSE BootAttr(m, x)
<1>1. BootIdx[s] \in Idx /\ BootIdx[x] \in Idx /\ (x # s => BootIdx[x] # BootIdx[s])
  BY BootIdxType
<1> QED BY <1>1 DEF WithBootAttr, BootAttr, Entry

\* The slot that is found depends on these two fields of the attributes alone.
LEMMA SameHighest ==
  ASSUME NEW m, NEW n,
         \A s \in Suffixes : /\ BootAttr(n, s).active = BootAttr(m, s).active
                             /\ BootAttr(n, s).prio = BootAttr(m, s).prio
  PROVE  HighestActive(n) = HighestActive(m)
  BY DEF HighestActive

LEMMA AttrIs ==
  ASSUME NEW a \in Attr
  PROVE  a = [prio |-> a.prio, active |-> a.active, retry |-> a.retry, succ |-> a.succ,
              unboot |-> a.unboot]
  BY DEF Attr

LEMMA FirstBootGives ==
  ASSUME NEW a \in Attr
  PROVE  FirstBootAttr(a) = [prio |-> 3, active |-> TRUE, retry |-> 7, succ |-> FALSE,
                             unboot |-> FALSE]
<1> DEFINE r == FirstBootAttr(a)
<1>1. /\ r.prio = 3 /\ r.active = TRUE /\ r.retry = 7 /\ r.succ = FALSE
      /\ r.unboot = FALSE
  BY DEF FirstBootAttr, Attr, MaxPriority, MaxRetryCount
<1>2. r \in Attr
  BY FirstBootAttrType
<1> HIDE DEF r
<1>3. r = [prio |-> 3, active |-> TRUE, retry |-> 7, succ |-> FALSE, unboot |-> FALSE]
  BY <1>1, <1>2, AttrIs
<1> QED BY <1>3 DEF r

LEMMA ClearGives ==
  ASSUME NEW a \in Attr
  PROVE  /\ ClearUnbootableAttr(a).active = a.active
         /\ ClearUnbootableAttr(a).prio = a.prio
  BY DEF ClearUnbootableAttr, Attr

LEMMA NewSlotGives ==
  ASSUME NEW a \in Attr, NEW reset \in BOOLEAN, NEW set \in BOOLEAN
  PROVE  /\ NewSlotAttr(a, reset, set).prio = 3
         /\ NewSlotAttr(a, reset, set).active = TRUE
         /\ NewSlotAttr(a, FALSE, TRUE) = Ready
<1>1. NewSlotAttr(a, reset, set).prio = 3 /\ NewSlotAttr(a, reset, set).active = TRUE
  BY DEF NewSlotAttr, Attr, MaxPriority, MaxRetryCount
<1> DEFINE r == NewSlotAttr(a, FALSE, TRUE)
<1>2. /\ r.prio = 3 /\ r.active = TRUE /\ r.retry = 7 /\ r.succ = TRUE
      /\ r.unboot = FALSE
  BY DEF NewSlotAttr, Attr, MaxPriority, MaxRetryCount
<1>3. r \in Attr
  BY NewSlotAttrType
<1> HIDE DEF r
<1>4. r = Ready
  BY <1>2, <1>3, AttrIs DEF Ready
<1> QED BY <1>1, <1>4 DEF r

LEMMA AlternateGives ==
  ASSUME NEW a \in Attr
  PROVE  AlternateAttr(a).prio = 2 /\ AlternateAttr(a).active = FALSE
  BY DEF AlternateAttr, Attr, MaxPriority

LEMMA ClearKeepsHighest ==
  ASSUME NEW m \in [Idx -> Entry], NEW s \in Suffixes
  PROVE  LET n == WithBootAttr(m, s, ClearUnbootableAttr(BootAttr(m, s)))
         IN /\ \A x \in Suffixes : /\ BootAttr(n, x).active = BootAttr(m, x).active
                                   /\ BootAttr(n, x).prio = BootAttr(m, x).prio
            /\ HighestActive(n) = HighestActive(m)
<1> DEFINE n == WithBootAttr(m, s, ClearUnbootableAttr(BootAttr(m, s)))
<1>1. ASSUME NEW x \in Suffixes
      PROVE  /\ BootAttr(n, x).active = BootAttr(m, x).active
             /\ BootAttr(n, x).prio = BootAttr(m, x).prio
  BY WithBootAttrGives, BootAttrType, ClearGives
<1> QED BY <1>1, SameHighest

LEMMA FirstBootHighest ==
  ASSUME NEW m \in [Idx -> Entry], HighestActive(m) = NoSlot
  PROVE  HighestActive(WithBootAttr(m, "_a", FirstBootAttr(BootAttr(m, "_a")))) = "_a"
<1> DEFINE n == WithBootAttr(m, "_a", FirstBootAttr(BootAttr(m, "_a")))
           prio(x, s) == IF BootAttr(x, s).active THEN BootAttr(x, s).prio ELSE 0
<1>1. BootAttr(n, "_a").prio = 3 /\ BootAttr(n, "_a").active
      /\ BootAttr(n, "_b") = BootAttr(m, "_b")
  BY WithBootAttrGives, BootAttrType, FirstBootGives
<1>2. /\ BootAttr(m, "_b").prio \in Nat /\ BootAttr(m, "_a").prio \in Nat
  BY BootAttrType DEF Attr, MaxPriority
<1> HIDE DEF n
<1>3. ~(prio(m, "_b") > prio(m, "_a")) /\ ~(prio(m, "_a") > 0)
  BY <1>2 DEF HighestActive
<1>4. prio(n, "_b") = 0 /\ prio(n, "_a") = 3
  BY <1>1, <1>2, <1>3
<1>5. HighestActive(n) = "_a"
  BY <1>4 DEF HighestActive
<1> QED BY <1>5 DEF n

\* SetActiveSlot activates one slot and deactivates the other.
LEMMA SetActiveGives ==
  ASSUME TypeInv, SetActiveSlot, found # NoSlot
  PROVE  /\ target \in Suffixes
         /\ BootAttr(mem', target).active /\ BootAttr(mem', target).prio = 3
         /\ ~BootAttr(mem', Other(target)).active /\ BootAttr(mem', Other(target)).prio = 2
         /\ img = "dxe" => BootAttr(mem', target) = Ready
<1> DEFINE a == NewSlotAttr(BootAttr(mem, target), img = "app", img = "dxe")
           new == WithBootAttr(mem, target, a)
           alt == Other(target)
<1>1. target \in Suffixes /\ alt \in Suffixes /\ alt # target /\ mem \in [Idx -> Entry]
  BY DEF TypeInv, TypeOK, Calls, SetActiveSlot, Other
<1>2. mem' = WithBootAttr(new, alt, AlternateAttr(BootAttr(new, alt)))
  BY DEF SetActiveSlot
<1>3. a \in Attr /\ a.active = TRUE /\ a.prio = 3 /\ (img = "dxe" => a = Ready)
  BY <1>1, BootAttrType, NewSlotAttrType, NewSlotGives
<1> HIDE DEF a, alt
<1>4. new \in [Idx -> Entry] /\ BootAttr(new, target) = a /\ BootAttr(new, alt) \in Attr
  BY <1>1, <1>3, WithBootAttrType, WithBootAttrGives, BootAttrType
<1> HIDE DEF new
<1>5. /\ BootAttr(mem', target) = a
      /\ BootAttr(mem', alt) = AlternateAttr(BootAttr(new, alt))
  BY <1>1, <1>2, <1>4, WithBootAttrGives
<1>6. ~BootAttr(mem', alt).active /\ BootAttr(mem', alt).prio = 2
  BY <1>4, <1>5, AlternateGives
<1> QED BY <1>1, <1>3, <1>5, <1>6 DEF alt

-------------------------------------------------------------------------------
(* BootSlotDxe                                                              *)

\* What follows when the search of GetActiveSlot is over.
LEMMA GetActiveGives ==
  ASSUME TypeInv, GetActiveSlot
  PROVE  /\ At' = (IF target = NoSlot THEN "gotCurrent" ELSE "set")
         /\ found' = HighestActive(mem')
         /\ \/ found' = HighestActive(mem)
            \/ HighestActive(mem) = NoSlot /\ found' = "_a"
         /\ UNCHANGED <<img, target, bootLun>> /\ Loaded'
<1>0. mem \in [Idx -> Entry] /\ ret = "none"
  BY DEF TypeInv, TypeOK, Calls, GetActiveSlot
<1>1. CASE mem' = mem /\ found' = HighestActive(mem)
  BY <1>0, <1>1 DEF GetActiveSlot, At, Caller, Loaded, Goto, media, CallUpdate
<1>2. CASE ~(mem' = mem /\ found' = HighestActive(mem))
  <2>1. /\ HighestActive(mem) = NoSlot /\ found' = "_a"
        /\ mem' = WithBootAttr(mem, "_a", FirstBootAttr(BootAttr(mem, "_a")))
        /\ pc' = "upd" /\ ret' = Caller /\ UNCHANGED <<img, target, bootLun>>
    BY <1>2 DEF GetActiveSlot, CallUpdate, media
  <2>2. HighestActive(mem') = "_a"
    BY <1>0, <2>1, FirstBootHighest
  <2> QED BY <2>1, <2>2 DEF At, Caller, Loaded
<1> QED BY <1>1, <1>2

LEMMA DxeWorking ==
  ASSUME Faultless', TypeInv, DxeInv, Working, img = "dxe", Loaded'
  PROVE  DxeKnows' /\ (LunFollows => bootLun' \in {1, 2})
<1>0. /\ Loaded /\ ret = "none" /\ At = pc /\ img' = "dxe" /\ mem \in [Idx -> Entry]
      /\ LunFollows => bootLun \in {1, 2}
      /\ DxeKnows
  BY WorkingKeeps DEF DxeInv, TypeInv, TypeOK
<1>1. CASE GetActiveSlot
  <2>1. /\ At' = (IF target = NoSlot THEN "gotCurrent" ELSE "set")
        /\ found' = HighestActive(mem') /\ UNCHANGED <<target, bootLun>>
        /\ \/ found' = HighestActive(mem)
           \/ HighestActive(mem) = NoSlot /\ found' = "_a"
    BY <1>1, GetActiveGives
  <2>2. target # NoSlot => found' \in {NoSlot, target}
    BY <1>0, <1>1, <2>1 DEF DxeKnows, GetActiveSlot
  <2> QED BY <1>0, <2>1, <2>2 DEF DxeKnows
<1>2. CASE DxeCurrent
  <2>1. /\ At' = "clear_a" /\ target' = (IF found = NoSlot THEN "_a" ELSE found)
        /\ UNCHANGED <<mem, bootLun>> /\ found = HighestActive(mem)
    BY <1>0, <1>2 DEF DxeCurrent, Goto, At, media, DxeKnows
  <2> QED BY <1>0, <2>1 DEF DxeKnows
<1>3. ASSUME NEW s \in Suffixes, NEW here, NEW next,
             ClearUnbootable(s, here, next),
             <<here, next>> \in {<<"clear_a", "clear_b">>, <<"clear_b", "getActive">>}
      PROVE  DxeKnows' /\ (LunFollows => bootLun' \in {1, 2})
  <2>1. /\ At' = next /\ pc = here /\ UNCHANGED <<target, found, bootLun>>
        /\ \/ mem' = mem
           \/ mem' = WithBootAttr(mem, s, ClearUnbootableAttr(BootAttr(mem, s)))
    BY <1>0, <1>3 DEF ClearUnbootable, CallUpdate, Goto, At, media, slots
  <2>2. HighestActive(mem') = HighestActive(mem)
    BY <1>0, <2>1, ClearKeepsHighest
  <2> QED BY <1>0, <1>3, <2>1, <2>2 DEF DxeKnows
<1>4. CASE SetActiveSlot
  <2>1. found # NoSlot /\ found = target
    BY <1>0, <1>4 DEF DxeKnows, SetActiveSlot, Exit, Loaded
  <2>2. At' = "flipped" /\ UNCHANGED <<target, found, bootLun>>
    BY <1>4, <2>1 DEF SetActiveSlot, CallUpdate, At, media, slots
  <2>3. /\ target \in Suffixes /\ BootAttr(mem', target) = Ready
        /\ ~BootAttr(mem', Other(target)).active /\ BootAttr(mem', Other(target)).prio = 2
    BY <1>0, <1>4, <2>1, SetActiveGives
  <2> QED BY <1>0, <2>1, <2>2, <2>3 DEF DxeKnows
<1>5. CASE RefreshBootLun
  <2>1. /\ At' = "setDone" /\ UNCHANGED <<target, found, mem>> /\ pc = "flipped"
        /\ bootLun' = IF Device = "UFS" THEN BootLunFor(target, bootLun) ELSE bootLun
    BY <1>0, <1>5 DEF RefreshBootLun, FollowBootLun, Faultless, Goto, At, slots
  <2>2. LunFollows => bootLun' = LunOf(target) /\ bootLun' \in {1, 2}
    BY <1>0, <2>1 DEF BootLunFor, LunOf, DxeKnows, LunFollows
  <2> QED BY <1>0, <2>1, <2>2 DEF DxeKnows
<1>6. CASE ~GetActiveSlot /\ ~DxeCurrent /\ ~SetActiveSlot /\ ~RefreshBootLun
  <2>1. \/ ClearUnbootable("_a", "clear_a", "clear_b")
        \/ ClearUnbootable("_b", "clear_b", "getActive")
    BY <1>0, <1>6 DEF Working, AppCurrent, SwitchPtnSlots, MarkPtnActive, DxeDone, Exit,
       AppUpdateGuids, AppUpdateAttributes, Loaded, DxeKnows
  <2> QED BY <1>3, <2>1
<1> QED BY <1>1, <1>2, <1>4, <1>5, <1>6

\* BootSlotDxe reports success.
LEMMA DxeReports ==
  ASSUME TypeInv, PassInv, DxeInv, img = "dxe", DxeDone
  PROVE  MediaBootLun => BootedSlotReady'
<1>0. /\ pc = "setDone" /\ ret = "none" /\ At = pc /\ Loaded /\ UNCHANGED <<target, media>>
  BY DEF DxeDone, TypeInv, Calls, At, Loaded, Exit
<1>1. /\ target \in Suffixes /\ Other(target) \in Suffixes
      /\ BootAttr(mem, target) = Ready
      /\ ~BootAttr(mem, Other(target)).active /\ BootAttr(mem, Other(target)).prio < 3
      /\ LunFollows => bootLun = LunOf(target)
  BY <1>0 DEF DxeInv, DxeKnows, Other
<1>2. ASSUME NEW s \in Suffixes
      PROVE  DiskEntry(BootIdx[s], "primary").attr = BootAttr(mem, s)
  <2>1. BootIdx[s] \in Partitions
    BY BootIdxType DEF Partitions
  <2>2. Primary[BootIdx[s]].attr = mem[BootIdx[s]].attr
    BY <1>0, <2>1 DEF PassInv, Tracks, Updating, Half
  <2> QED BY <2>1, <2>2 DEF Primary, BootAttr, Partitions
<1>3. /\ DiskEntry(BootIdx[target], "primary").attr = Ready
      /\ ~DiskEntry(BootIdx[Other(target)], "primary").attr.active
      /\ DiskEntry(BootIdx[Other(target)], "primary").attr.prio < 3
  BY <1>1, <1>2
<1>4. /\ \A i, c : DiskEntry(i, c)' = DiskEntry(i, c)
  BY <1>0 DEF DiskEntry, media
<1> QED BY <1>0, <1>1, <1>3, <1>4 DEF BootedSlotReady, Ready, media, LunFollows

LEMMA DxeStep ==
  ASSUME Faultless', TypeInv, WholeInv, PassInv, DxeInv, [Next]_vars
  PROVE  DxeInv'
<1>1. CASE UNCHANGED vars
  BY <1>1 DEF vars, media, slots, walk, DxeInv, DxeKnows, Loaded, At, BootedSlotReady,
              DiskEntry
<1>2. CASE PowerLoss /\ UNCHANGED bootLun
  BY <1>2 DEF PowerLoss, DxeInv, Loaded, BootedSlotReady
<1>3. CASE PowerOn \/ RunApp
  BY <1>3 DEF PowerOn, RunApp, Goto, DxeInv, Loaded, BootedSlotReady, slots, media
<1>4. CASE Load
  <2>1. pc' = "getActive" /\ UNCHANGED <<slots, bootLun>> /\ ret' = "none" /\ target = NoSlot
    BY <1>4, LoadsAll DEF Load, Goto, media, TypeInv, Calls, DxeInv
  <2>2. DxeKnows'
    BY <2>1 DEF DxeKnows, At, slots
  <2> QED BY <2>1, <2>2 DEF DxeInv, BootedSlotReady
<1>5. CASE Walking
  <2>1. /\ UNCHANGED <<bootLun, mem, img, found, target, At>> /\ Loaded
        /\ pc' # "bds" /\ pc' # "load" /\ Loaded'
    BY <1>5, WalkingKeeps DEF slots
  <2>2. DxeKnows => DxeKnows'
    BY <2>1 DEF DxeKnows
  <2> QED BY <2>1, <2>2 DEF DxeInv, BootedSlotReady, Loaded
<1>6. CASE Working
  <2>0. /\ UNCHANGED img /\ pc' # "load" /\ pc' # "off"
    BY <1>6, WorkingKeeps DEF Loaded, Exit
  <2>1. LunFollows => bootLun' \in {1, 2}
    <3>1. \/ UNCHANGED bootLun
          \/ bootLun' = BootLunFor(target, bootLun)
      BY <1>6 DEF Working, GetActiveSlot, DxeCurrent, AppCurrent, ClearUnbootable,
         SetActiveSlot, RefreshBootLun, SwitchPtnSlots, MarkPtnActive, DxeDone,
         AppUpdateGuids, AppUpdateAttributes, media, FollowBootLun, Faultless
    <3> QED BY <3>1 DEF DxeInv, BootLunFor
  <2>2. img = "dxe" /\ Loaded' => DxeKnows'
    BY <1>6, DxeWorking
  <2>3. MediaBootLun => BootedSlotReady'
    <3>1. CASE pc' = "bds" /\ img = "dxe" /\ outcome' = "ok"
      <4>1. DxeDone
        BY <1>6, <3>1, WorkingKeeps DEF Working, GetActiveSlot, DxeCurrent, AppCurrent,
           ClearUnbootable, SetActiveSlot, RefreshBootLun, SwitchPtnSlots, MarkPtnActive,
           AppUpdateGuids, AppUpdateAttributes, Exit, Goto, CallUpdate, Caller
      <4> QED BY <3>1, <4>1, DxeReports
    <3> QED BY <2>0, <3>1 DEF BootedSlotReady
  <2> QED BY <2>0, <2>1, <2>2, <2>3 DEF DxeInv
<1> QED BY <1>1, <1>2, <1>3, <1>4, <1>5, <1>6, Steps, SMTT(30)
        DEF Reset, Crash, TornWrite, media

-------------------------------------------------------------------------------
FaultlessInv == UpdateInv /\ PassInv /\ SnapInv /\ DxeInv

LEMMA FaultlessInit ==
  ASSUME MediaWhole
  PROVE  Init => FaultlessInv
<1> SUFFICES ASSUME Init PROVE FaultlessInv
  OBVIOUS
<1>1. UpdateInv
  BY InitType, InitCopies, InitWhole DEF UpdateInv
<1>2. PassInv /\ SnapInv
  BY DEF Init, PassInv, SnapInv, Loaded
<1>3. DxeInv
  BY DEF Init, DxeInv, Loaded, BootedSlotReady, MediaBootLun, LunFollows
<1> QED BY <1>1, <1>2, <1>3 DEF FaultlessInv

LEMMA FaultlessStep ==
  ASSUME Faultless', RepairAssumption, PairsShareLun, FaultlessInv, [Next]_vars
  PROVE  FaultlessInv'
<1>1. UpdateInv'
  BY StepType, StepCopies, WalkStep, WholeUsed, WholeStep DEF FaultlessInv, UpdateInv
<1> QED BY <1>1, PassStep, SnapStep, DxeStep DEF FaultlessInv, UpdateInv

(* Whenever BootSlotDxe reports success, after whatever crashes and torn    *)
(* writes, the slot it refreshed is the active one in the primary table,    *)
(* successful and with all its retries, the other one is not active and     *)
(* comes behind it, and the boot LUN of a UFS device belongs to that slot.  *)
(* The disk and the boot LUN report no errors here, as the library does not *)
(* tell its callers of them (SetActiveSlot, UpdatePartitionAttributes).     *)
THEOREM BootedSlotIsReady ==
  ASSUME NoFault, RepairAssumption, PairsShareLun, MediaWhole, MediaBootLun
  PROVE  Spec => []BootedSlotReady
<1>1. Init => FaultlessInv
  BY FaultlessInit
<1>2. FaultlessInv /\ [Next]_vars => FaultlessInv'
  <2> SUFFICES ASSUME FaultlessInv, [Next]_vars PROVE FaultlessInv'
    OBVIOUS
  <2>1. Faultless'
    BY StepType DEF FaultlessInv, UpdateInv, TypeInv, TypeOK, NoFault, Faultless
  <2> QED BY <2>1, FaultlessStep
<1>3. FaultlessInv => BootedSlotReady
  BY DEF FaultlessInv, DxeInv
<1> QED BY <1>1, <1>2, <1>3, PTL DEF Spec

-------------------------------------------------------------------------------
(* The slots, as long as the power alone fails                              *)

\* The slots that are active according to these entries.
Act(m) == {s \in Suffixes : BootAttr(m, s).active}

Read == EntriesOf(snap)

\* The slot GetActiveSlot finds first at this boot, in both images.
Cur == IF HighestActive(Read) = NoSlot /\ IsFirstBoot(BootAttr(Read, "_a")) THEN "_a"
       ELSE HighestActive(Read)

First == At = "getActive" /\ target = NoSlot

DxeSwitch ==
  /\ Act(Primary) = Act(mem) \/ (Act(Primary) = {} /\ Act(mem) = {"_a"})
  /\ First \/ (Cur # NoSlot => Act(mem) = {Cur})
  /\ At = "set" /\ found # NoSlot => HighestActive(mem) = found
  /\ At \in {"clear_a", "clear_b"} => target # NoSlot

\* The tables in memory are those PartitionDxe read, but not those of the disk.
AppSwitch ==
  /\ At \in {"getActive", "gotCurrent", "set"} =>
       /\ Cur # NoSlot => Act(Primary) = {Cur}
       /\ First \/ (Cur # NoSlot => Act(mem) = {Cur})
  /\ At = "gotCurrent" => target = NoSlot /\ found = Cur /\ (ret # "none" => Cur # NoSlot)
  /\ At \in {"getActive", "set"} => /\ ret = "none"
                                    /\ First \/ (Cur # NoSlot /\ target = Other(Cur))
  /\ At \notin {"clear_a", "clear_b"}
  /\ At \in {"flipped", "mark", "setDone", "guidsDone", "reset"} =>
       target \in Suffixes /\ Act(mem) = {target}

SwitchInv ==
  /\ AllValid /\ Sane(Primary)
  /\ pc = "off" => img = "dxe"
  /\ pc # "off" => Sane(Read)
  /\ pc = "bds" \/ (pc = "load" /\ img = "app") => (Cur # NoSlot => Act(Primary) = {Cur})
  /\ Loaded => /\ Sane(mem)
               /\ First => mem = Read
               /\ IF img = "dxe" THEN DxeSwitch ELSE AppSwitch

LEMMA ActiveDiffer ==
  ASSUME NEW m, NEW n,
         \A s \in Suffixes : /\ BootAttr(n, s).active = BootAttr(m, s).active
                             /\ BootAttr(n, s).prio = BootAttr(m, s).prio
  PROVE  Act(n) = Act(m) /\ (Sane(m) <=> Sane(n))
  BY DEF Act, Sane

LEMMA SaneHighest ==
  ASSUME NEW m \in [Idx -> Entry], Sane(m)
  PROVE  /\ \A s \in Suffixes : HighestActive(m) = s <=> Act(m) = {s}
         /\ HighestActive(m) = NoSlot <=> Act(m) = {}
<1>1. /\ BootAttr(m, "_b").prio \in Nat /\ BootAttr(m, "_a").prio \in Nat
      /\ BootAttr(m, "_a").active \in BOOLEAN /\ BootAttr(m, "_b").active \in BOOLEAN
  BY BootAttrType DEF Attr, MaxPriority
<1>2. CASE BootAttr(m, "_a").active
  <2>1. Act(m) = {"_a"}
    BY <1>2 DEF Sane, Act
  <2>2. HighestActive(m) = "_a"
    BY <1>1, <1>2 DEF Sane, HighestActive
  <2> QED BY <2>1, <2>2
<1>3. CASE BootAttr(m, "_b").active
  <2>1. Act(m) = {"_b"}
    BY <1>3 DEF Sane, Act
  <2>2. HighestActive(m) = "_b"
    BY <1>1, <1>3 DEF Sane, HighestActive
  <2> QED BY <2>1, <2>2
<1>4. CASE ~BootAttr(m, "_a").active /\ ~BootAttr(m, "_b").active
  <2>1. Act(m) = {}
    BY <1>4 DEF Act
  <2>2. HighestActive(m) = NoSlot
    BY <1>4 DEF HighestActive
  <2> QED BY <2>1, <2>2
<1> QED BY <1>2, <1>3, <1>4

LEMMA OnlyActive ==
  ASSUME NEW m, NEW s \in Suffixes, BootAttr(m, s).active, BootAttr(m, s).prio = 3,
         ~BootAttr(m, Other(s)).active
  PROVE  Act(m) = {s} /\ Sane(m)
  BY DEF Act, Sane, Other

\* SetActiveSlot and the first boot leave one slot active.
LEMMA FirstBootActs ==
  ASSUME NEW m \in [Idx -> Entry], Sane(m), HighestActive(m) = NoSlot
  PROVE  LET n == WithBootAttr(m, "_a", FirstBootAttr(BootAttr(m, "_a")))
         IN Act(m) = {} /\ Act(n) = {"_a"} /\ Sane(n)
<1> DEFINE n == WithBootAttr(m, "_a", FirstBootAttr(BootAttr(m, "_a")))
<1>1. BootAttr(n, "_a").prio = 3 /\ BootAttr(n, "_a").active
      /\ BootAttr(n, "_b") = BootAttr(m, "_b")
  BY WithBootAttrGives, BootAttrType, FirstBootGives
<1>2. Act(m) = {} /\ ~BootAttr(m, "_b").active
  BY SaneHighest DEF Act
<1>3. ~BootAttr(n, Other("_a")).active
  BY <1>1, <1>2 DEF Other
<1> HIDE DEF n
<1>4. Act(n) = {"_a"} /\ Sane(n)
  BY <1>1, <1>3, OnlyActive
<1> QED BY <1>2, <1>4 DEF n

LEMMA SetActiveActs ==
  ASSUME TypeInv, SetActiveSlot, found # NoSlot
  PROVE  target \in Suffixes /\ Act(mem') = {target} /\ Sane(mem')
  BY SetActiveGives, OnlyActive

LEMMA SwapActs ==
  ASSUME NEW m \in [Idx -> Entry]
  PROVE  Act(SwapPtnGuids(m)) = Act(m) /\ (Sane(m) <=> Sane(SwapPtnGuids(m)))
<1>1. ASSUME NEW s \in Suffixes
      PROVE  BootAttr(SwapPtnGuids(m), s) = BootAttr(m, s)
  BY BootIdxType DEF SwapPtnGuids, BootAttr, Entry
<1> QED BY <1>1, ActiveDiffer

LEMMA MarkActs ==
  ASSUME BootNames, NEW m \in [Idx -> Entry], Used(m), Sane(m),
         NEW s \in Suffixes, Act(m) = {s}
  PROVE  Act(MarkActive(m, s)) = {s} /\ Sane(MarkActive(m, s))
<1>1. ASSUME NEW x \in Suffixes
      PROVE  /\ BootAttr(MarkActive(m, s), x).active = (x = s)
             /\ BootAttr(MarkActive(m, s), x).prio = BootAttr(m, x).prio
  <2>1. BootIdx[x] \in Idx /\ m[BootIdx[x]].guid # NoGuid /\ Ptn[BootIdx[x]].holds = {x}
    BY BootIdxType DEF Used, BootNames
  <2>2. MarkActive(m, s)[BootIdx[x]] =
          [m[BootIdx[x]] EXCEPT !.attr.active =
             m[BootIdx[x]].guid # NoGuid /\ s \in Ptn[BootIdx[x]].holds]
    BY <2>1 DEF MarkActive
  <2>3. m[BootIdx[x]] \in Entry
    BY <2>1
  <2>4. /\ MarkActive(m, s)[BootIdx[x]].attr.active = (s \in {x})
        /\ MarkActive(m, s)[BootIdx[x]].attr.prio = m[BootIdx[x]].attr.prio
    BY <2>1, <2>2, <2>3 DEF Entry, Attr
  <2> QED BY <2>4 DEF BootAttr
<1>2. \A x \in Suffixes : BootAttr(m, x).active <=> x = s
  BY BootAttrType, SMTT(30) DEF Act, Attr
<1> QED BY <1>1, <1>2 DEF Act, Sane

-------------------------------------------------------------------------------
(* The active slot on the disk                                              *)

LEMMA OnDisk ==
  ASSUME NEW s \in Suffixes
  PROVE  /\ BootIdx[s] \in Partitions /\ BootIdx[s] \in Idx
         /\ BootAttr(Primary, s) = DiskEntry(BootIdx[s], "primary").attr
         /\ BootAttr(Primary', s) = DiskEntry(BootIdx[s], "primary").attr'
         /\ BootAttr(Primary, s) = Primary[BootIdx[s]].attr
         /\ BootAttr(Primary', s) = Primary'[BootIdx[s]].attr
  BY BootIdxType DEF Partitions, Primary, BootAttr, DiskEntry

\* The entries of the boot partitions are in the same table.
LEMMA BootsShareLun ==
  ASSUME PairsShareLun
  PROVE  Ptn[BootIdx["_a"]].lun = Ptn[BootIdx["_b"]].lun
<1>1. IsTwin(BootIdx["_a"], BootIdx["_b"])
  BY BootIdxType DEF IsTwin, Other
<1> QED BY <1>1, BootIdxType DEF PairsShareLun

\* A write gives both of them the attributes in memory, or neither.
LEMMA WriteActs ==
  ASSUME Faultless', PairsShareLun, TypeInv, WalkInv, PassInv, Walking
  PROVE  \/ \A s \in Suffixes : BootAttr(Primary', s) = BootAttr(Primary, s)
         \/ \A s \in Suffixes : BootAttr(Primary', s) = BootAttr(mem, s)
<1>0. ASSUME \A i \in Partitions : Primary'[i].attr = Primary[i].attr
      PROVE  \A s \in Suffixes : BootAttr(Primary', s) = BootAttr(Primary, s)
  BY <1>0, OnDisk
<1>1. CASE UNCHANGED disk
  BY <1>0, <1>1, PrimaryIs
<1>2. CASE ~UNCHANGED disk
  <2>1. disk' = [disk EXCEPT ![lun][iter] = Sealed(buf)] /\ pc = "write"
    BY <1>2 DEF Walking, Update, NextLun, ReadCopy, SkipEntry, UpdateGuid, UpdateAttr,
       GuidMismatch, EndWalk, WriteCopy, Written, media
  <2>2. /\ lun \in Luns /\ lun \in Configured /\ iter \in Copies
        /\ disk \in [Luns -> [Copies -> Copy]]
    BY <2>1, UpdateFacts DEF TypeInv, TypeOK
  <2>3. ASSUME NEW i \in Partitions
        PROVE  IF Ptn[i].lun = lun /\ iter = "primary"
               THEN Primary'[i] = buf[Ptn[i].home] /\ Primary[i] = OldCopy[Ptn[i].home]
               ELSE Primary'[i] = Primary[i]
    BY <2>1, <2>2, PrimaryIs DEF Sealed, OldCopy
  <2>4. CASE type = "GUID" \/ iter # "primary"
    <3>1. Keeps(buf, OldCopy)
      BY <2>1 DEF WalkInv
    <3>2. \A i \in Partitions : Primary'[i].attr = Primary[i].attr
      BY <2>3, <2>4, <3>1, PrimaryIs DEF Keeps
    <3> QED BY <1>0, <3>2
  <2>5. CASE type = "ATTR" /\ iter = "primary"
    <3>1. Tracks("GUID", Partitions)
      BY <2>1 DEF PassInv, Loaded
    <3>2. \A i \in On[lun] : buf[Ptn[i].home].attr = mem[i].attr
      BY <2>1, <2>5, <3>1, PrimaryAligned DEF WalkInv, Updated
    <3>3. \A i \in Partitions : Ptn[i].lun = lun => Primary'[i].attr = mem[i].attr
      BY <2>3, <2>5, <3>2, PrimaryIs
    <3>4. CASE Ptn[BootIdx["_a"]].lun = lun
      <4>1. \A s \in Suffixes : Ptn[BootIdx[s]].lun = lun
        BY <3>4, BootsShareLun
      <4> QED BY <3>3, <4>1, OnDisk DEF BootAttr
    <3>5. CASE Ptn[BootIdx["_a"]].lun # lun
      <4>1. \A s \in Suffixes : Ptn[BootIdx[s]].lun # lun
        BY <3>5, BootsShareLun
      <4> QED BY <2>3, <4>1, OnDisk
    <3> QED BY <3>4, <3>5
  <2> QED BY <2>4, <2>5 DEF TypeInv, TypeOK
<1> QED BY <1>1, <1>2

\* The other steps leave the active slot on the disk alone.
LEMMA DiskStays ==
  ASSUME AllValid, [Next]_vars, ~TornWrite, ~Walking, NEW s \in Suffixes
  PROVE  BootAttr(Primary', s) = BootAttr(Primary, s)
<1>1. Ptn[BootIdx[s]].lun \in Configured /\ Ptn[BootIdx[s]].lun \in Luns
  BY OnDisk, PrimaryIs
<1>2. UNCHANGED disk \/ PowerOn
  BY Steps, WorkingKeeps
  DEF vars, media, Load, RunApp, Reset, Crash, Working, GetActiveSlot, DxeCurrent,
      AppCurrent, ClearUnbootable, SetActiveSlot, RefreshBootLun, SwitchPtnSlots,
      MarkPtnActive, DxeDone, AppUpdateGuids, AppUpdateAttributes
<1>3. CASE PowerOn
  <2>1. disk'[Ptn[BootIdx[s]].lun] = Repaired(disk[Ptn[BootIdx[s]].lun])
    BY <1>1, <1>3 DEF PowerOn
  <2>2. Repaired(disk[Ptn[BootIdx[s]].lun])["primary"] = disk[Ptn[BootIdx[s]].lun]["primary"]
    BY <1>1 DEF Repaired, AllValid
  <2> QED BY <2>1, <2>2, OnDisk, PrimaryIs, SMTT(30)
<1> QED BY <1>2, <1>3, OnDisk, PrimaryIs

-------------------------------------------------------------------------------
(* Both images leave at most one slot active                                *)

LEMMA SwitchWalking ==
  ASSUME Faultless', PairsShareLun, TypeInv, WalkInv, PassInv, SwitchInv, Walking, AllValid'
  PROVE  SwitchInv'
<1>0. /\ UNCHANGED <<snap, mem, img, found, target, At>> /\ Loaded /\ Loaded'
      /\ pc' # "bds" /\ pc' # "load" /\ pc' # "off" /\ pc # "off" /\ ret # "none"
  BY WalkingKeeps DEF slots, Loaded
<1>1. \/ \A s \in Suffixes : BootAttr(Primary', s) = BootAttr(Primary, s)
      \/ \A s \in Suffixes : BootAttr(Primary', s) = BootAttr(mem, s)
  BY WriteActs
<1>2. /\ Act(Primary') \in {Act(Primary), Act(mem)}
      /\ Sane(Primary')
  <2>1. Sane(Primary) /\ Sane(mem)
    BY <1>0 DEF SwitchInv
  <2> QED BY <1>1, <2>1, ActiveDiffer
<1>3. First' = First /\ Cur' = Cur /\ Read' = Read
  BY <1>0 DEF First, Cur, Read
<1>4. CASE img = "dxe"
  <2>1. DxeSwitch
    BY <1>0, <1>4 DEF SwitchInv
  <2>2. DxeSwitch'
    BY <1>0, <1>2, <1>3, <2>1 DEF DxeSwitch
  <2> QED BY <1>0, <1>2, <1>3, <1>4, <2>2 DEF SwitchInv
<1>5. CASE img # "dxe"
  <2>1. AppSwitch
    BY <1>0, <1>5 DEF SwitchInv
  <2>2. At \in {"getActive", "gotCurrent", "set"} =>
          At = "gotCurrent" /\ Cur # NoSlot /\ Act(mem) = {Cur} /\ Act(Primary) = {Cur}
    BY <1>0, <2>1 DEF AppSwitch, First
  <2>3. AppSwitch'
    BY <1>0, <1>2, <1>3, <2>1, <2>2 DEF AppSwitch
  <2> QED BY <1>0, <1>2, <1>3, <1>5, <2>3 DEF SwitchInv
<1> QED BY <1>4, <1>5

\* Between two updates BootSlotDxe has the attributes of the disk in memory.
LEMMA DxeActs ==
  ASSUME TypeInv, PassInv, img = "dxe", Loaded, ret = "none"
  PROVE  Act(Primary) = Act(mem)
<1>1. ASSUME NEW s \in Suffixes
      PROVE  BootAttr(Primary, s) = BootAttr(mem, s)
  BY <1>1, OnDisk DEF PassInv, Tracks, Updating, Half, BootAttr
<1> QED BY <1>1 DEF Act

LEMMA GetActiveActs ==
  ASSUME TypeInv, SwitchInv, GetActiveSlot
  PROVE  /\ Sane(mem')
         /\ Act(mem') = Act(mem) \/ (Act(mem) = {} /\ Act(mem') = {"_a"})
         /\ HighestActive(mem) # NoSlot =>
              Act(mem') = Act(mem) /\ ret' = "none" /\ found' = HighestActive(mem)
         /\ target = NoSlot => /\ found' = Cur
                               /\ Cur # NoSlot => Act(mem') = {Cur}
                               /\ ret' # "none" => Cur # NoSlot
<1>0. /\ mem \in [Idx -> Entry] /\ Sane(mem) /\ ret = "none"
      /\ target = NoSlot => mem = Read
  BY DEF TypeInv, TypeOK, Calls, GetActiveSlot, SwitchInv, Loaded, First, At
<1>1. CASE /\ HighestActive(mem) # NoSlot \/ ~IsFirstBoot(BootAttr(mem, "_a"))
           /\ found' = HighestActive(mem) /\ mem' = mem /\ ret' = ret
  <2>1. HighestActive(mem) # NoSlot => Act(mem) = {HighestActive(mem)}
    BY <1>0, SaneHighest, HighestActiveType
  <2>2. target = NoSlot => Cur = HighestActive(mem)
    BY <1>0, <1>1 DEF Cur
  <2> QED BY <1>0, <1>1, <2>1, <2>2
<1>2. CASE /\ HighestActive(mem) = NoSlot /\ IsFirstBoot(BootAttr(mem, "_a"))
           /\ found' = "_a"
           /\ mem' = WithBootAttr(mem, "_a", FirstBootAttr(BootAttr(mem, "_a")))
  <2>1. Act(mem) = {} /\ Act(mem') = {"_a"} /\ Sane(mem')
    BY <1>0, <1>2, FirstBootActs
  <2>2. target = NoSlot => Cur = "_a"
    BY <1>0, <1>2 DEF Cur
  <2> QED BY <1>2, <2>1, <2>2
<1> QED BY <1>1, <1>2 DEF GetActiveSlot, Goto

LEMMA ClearActs ==
  ASSUME TypeInv, NEW s \in Suffixes, NEW here, NEW next, ClearUnbootable(s, here, next),
         Loaded => Sane(mem), Loaded
  PROVE  /\ Act(mem') = Act(mem) /\ Sane(mem')
         /\ HighestActive(mem') = HighestActive(mem)
<1>1. mem \in [Idx -> Entry]
  BY DEF TypeInv, TypeOK
<1>2. \A x \in Suffixes : /\ BootAttr(mem', x).active = BootAttr(mem, x).active
                          /\ BootAttr(mem', x).prio = BootAttr(mem, x).prio
  BY <1>1, ClearKeepsHighest DEF ClearUnbootable
<1> QED BY <1>2, ActiveDiffer, SameHighest

LEMMA SwitchDxe ==
  ASSUME TypeInv, PassInv, DxeInv, SwitchInv, Working, Loaded', img = "dxe"
  PROVE  Sane(mem') /\ ~First' /\ DxeSwitch'
<1>0. /\ Loaded /\ ret = "none" /\ At = pc /\ img' = "dxe" /\ mem \in [Idx -> Entry]
      /\ UNCHANGED <<disk, snap>>
      /\ DxeKnows /\ DxeSwitch /\ Sane(mem) /\ Act(Primary) = Act(mem)
      /\ pc \notin {"getActive"} => ~First
  BY WorkingKeeps, DxeActs DEF DxeInv, SwitchInv, TypeInv, TypeOK, First
<1>1. Cur' = Cur /\ \A s \in Suffixes : BootAttr(Primary', s) = BootAttr(Primary, s)
  BY <1>0, OnDisk, PrimaryIs DEF Cur, Read
<1>2. Act(Primary') = Act(mem)
  BY <1>0, <1>1 DEF Act
<1>3. CASE GetActiveSlot
  <2>1. /\ At' = (IF target = NoSlot THEN "gotCurrent" ELSE "set")
        /\ found' = HighestActive(mem') /\ pc = "getActive"
    BY <1>3, GetActiveGives DEF GetActiveSlot
  <2>2. ~First'
    BY <2>1 DEF First
  <2>3. target # NoSlot => ~First
    BY DEF First
  <2>4. Cur # NoSlot => Act(mem') = {Cur}
    <3>1. CASE target = NoSlot
      BY <1>3, <3>1, GetActiveActs
    <3>2. ASSUME target # NoSlot, Cur # NoSlot PROVE Act(mem') = {Cur}
      <4>1. Act(mem) = {Cur} /\ Cur \in Suffixes
        BY <1>0, <2>3, <3>2, HighestActiveType DEF DxeSwitch, Cur
      <4>2. HighestActive(mem) = Cur
        BY <1>0, <4>1, SaneHighest
      <4> QED BY <1>3, <3>2, <4>1, <4>2, GetActiveActs
    <3> QED BY <3>1, <3>2
  <2>5. Sane(mem') /\ (Act(mem') = Act(mem) \/ (Act(mem) = {} /\ Act(mem') = {"_a"}))
    BY <1>3, GetActiveActs
  <2> QED BY <1>1, <1>2, <2>1, <2>2, <2>4, <2>5 DEF DxeSwitch
<1>4. CASE DxeCurrent
  <2>1. /\ At' = "clear_a" /\ target' # NoSlot /\ UNCHANGED mem
    BY <1>0, <1>4 DEF DxeCurrent, Goto, At
  <2>2. ~First' /\ ~First
    BY <1>0, <1>4, <2>1 DEF First, DxeCurrent
  <2> QED BY <1>0, <1>1, <1>2, <2>1, <2>2 DEF DxeSwitch
<1>5. ASSUME NEW s \in Suffixes, NEW here, NEW next,
             ClearUnbootable(s, here, next),
             <<here, next>> \in {<<"clear_a", "clear_b">>, <<"clear_b", "getActive">>}
      PROVE  Sane(mem') /\ ~First' /\ DxeSwitch'
  <2>1. /\ At' = next /\ pc = here /\ UNCHANGED <<target, found>>
    BY <1>0, <1>5 DEF ClearUnbootable, CallUpdate, Goto, At, slots
  <2>2. target # NoSlot /\ ~First' /\ ~First
    BY <1>0, <1>5, <2>1 DEF DxeSwitch, First
  <2>3. Act(mem') = Act(mem) /\ Sane(mem')
    BY <1>0, <1>5, ClearActs
  <2> QED BY <1>0, <1>1, <1>2, <1>5, <2>1, <2>2, <2>3 DEF DxeSwitch
<1>6. CASE SetActiveSlot
  <2>1. found # NoSlot /\ found = target /\ pc = "set"
    BY <1>0, <1>6 DEF DxeKnows, SetActiveSlot, Exit, Loaded
  <2>2. At' = "flipped" /\ UNCHANGED <<target, found>>
    BY <1>6, <2>1 DEF SetActiveSlot, CallUpdate, At, slots
  <2>3. target \in Suffixes /\ Act(mem') = {target} /\ Sane(mem')
    BY <1>6, <2>1, SetActiveActs
  <2>4. Act(mem) = {target}
    BY <1>0, <2>1, <2>3, SaneHighest DEF DxeSwitch
  <2>5. ~First' /\ ~First
    BY <1>0, <2>1, <2>2 DEF First
  <2> QED BY <1>0, <1>1, <1>2, <2>2, <2>3, <2>4, <2>5 DEF DxeSwitch
<1>7. CASE RefreshBootLun
  <2>1. /\ At' = "setDone" /\ UNCHANGED <<target, found, mem>> /\ pc = "flipped"
    BY <1>0, <1>7 DEF RefreshBootLun, Goto, At, slots
  <2>2. ~First' /\ ~First
    BY <1>0, <2>1 DEF First
  <2> QED BY <1>0, <1>1, <1>2, <2>1, <2>2 DEF DxeSwitch
<1>8. CASE ~GetActiveSlot /\ ~DxeCurrent /\ ~SetActiveSlot /\ ~RefreshBootLun
  <2>1. \/ ClearUnbootable("_a", "clear_a", "clear_b")
        \/ ClearUnbootable("_b", "clear_b", "getActive")
    BY <1>0, <1>8 DEF Working, AppCurrent, SwitchPtnSlots, MarkPtnActive, DxeDone, Exit,
       AppUpdateGuids, AppUpdateAttributes, Loaded, DxeKnows
  <2> QED BY <1>5, <2>1
<1> QED BY <1>3, <1>4, <1>6, <1>7, <1>8

LEMMA SwitchApp ==
  ASSUME BootNames, TypeInv, WholeInv, SwitchInv, Working, Loaded', img = "app"
  PROVE  Sane(mem') /\ ~First' /\ AppSwitch'
<1>0. /\ Loaded /\ ret = "none" /\ At = pc /\ img' = "app" /\ mem \in [Idx -> Entry]
      /\ UNCHANGED <<disk, snap>> /\ Used(mem)
      /\ AppSwitch /\ Sane(mem)
  BY WorkingKeeps, WholeUsed DEF SwitchInv, TypeInv, TypeOK
<1>1. Cur' = Cur /\ \A s \in Suffixes : BootAttr(Primary', s) = BootAttr(Primary, s)
  BY <1>0, OnDisk, PrimaryIs DEF Cur, Read
<1>2. Act(Primary') = Act(Primary)
  BY <1>0, <1>1 DEF Act
<1>3. CASE GetActiveSlot
  <2>1. /\ At' = (IF target = NoSlot THEN "gotCurrent" ELSE "set") /\ pc = "getActive"
        /\ UNCHANGED target
    BY <1>3, GetActiveGives DEF GetActiveSlot
  <2>2. ~First'
    BY <2>1 DEF First
  <2>3. CASE target = NoSlot
    <3>1. /\ Sane(mem') /\ found' = Cur /\ (Cur # NoSlot => Act(mem') = {Cur})
          /\ ret' # "none" => Cur # NoSlot
      BY <1>3, <2>3, GetActiveActs
    <3> QED BY <1>0, <1>1, <1>2, <2>1, <2>2, <2>3, <3>1 DEF AppSwitch
  <2>4. CASE target # NoSlot
    <3>1. Cur # NoSlot /\ target = Other(Cur) /\ Act(mem) = {Cur} /\ Cur \in Suffixes
      BY <1>0, <2>1, <2>4, HighestActiveType DEF AppSwitch, First, Cur
    <3>2. HighestActive(mem) = Cur
      BY <1>0, <3>1, SaneHighest
    <3>3. Sane(mem') /\ Act(mem') = {Cur} /\ ret' = "none"
      BY <1>3, <3>1, <3>2, GetActiveActs
    <3> QED BY <1>0, <1>1, <1>2, <2>1, <2>2, <2>4, <3>1, <3>3 DEF AppSwitch
  <2> QED BY <2>3, <2>4
<1>4. CASE AppCurrent
  <2>1. /\ At' = "getActive" /\ target' = Other(found) /\ UNCHANGED mem /\ ret' = "none"
        /\ pc = "gotCurrent" /\ found # NoSlot
    BY <1>0, <1>4 DEF AppCurrent, Goto, At, Exit, Loaded
  <2>2. found = Cur /\ Act(mem) = {Cur} /\ Act(Primary) = {Cur}
    BY <1>0, <2>1 DEF AppSwitch, First
  <2>3. ~First'
    BY <2>1 DEF First, Other
  <2> QED BY <1>0, <1>1, <1>2, <2>1, <2>2, <2>3 DEF AppSwitch
<1>5. CASE SetActiveSlot
  <2>1. found # NoSlot /\ At' = "flipped" /\ UNCHANGED target
    BY <1>0, <1>5 DEF SetActiveSlot, CallUpdate, At, slots, Exit, Loaded
  <2>2. target \in Suffixes /\ Act(mem') = {target} /\ Sane(mem')
    BY <1>5, <2>1, SetActiveActs
  <2> QED BY <2>1, <2>2 DEF AppSwitch, First
<1>6. CASE RefreshBootLun \/ AppUpdateGuids \/ AppUpdateAttributes
  <2>1. /\ At' \in {"setDone", "guidsDone", "reset"} /\ UNCHANGED <<target, mem>>
        /\ pc \in {"flipped", "setDone", "guidsDone"}
    BY <1>0, <1>6 DEF RefreshBootLun, AppUpdateGuids, AppUpdateAttributes, CallUpdate,
       Goto, At, slots
  <2> QED BY <1>0, <2>1 DEF AppSwitch, First
<1>7. CASE SwitchPtnSlots
  <2>1. /\ At' = "mark" /\ UNCHANGED target /\ pc = "flipped" /\ mem' = SwapPtnGuids(mem)
    BY <1>0, <1>7 DEF SwitchPtnSlots, CallUpdate, At, slots
  <2>2. Act(mem') = Act(mem) /\ Sane(mem')
    BY <1>0, <2>1, SwapActs
  <2> QED BY <1>0, <2>1, <2>2 DEF AppSwitch, First
<1>8. CASE MarkPtnActive
  <2>1. /\ At' = "setDone" /\ UNCHANGED target /\ pc = "mark"
        /\ mem' = MarkActive(mem, target)
    BY <1>0, <1>8 DEF MarkPtnActive, CallUpdate, At, slots
  <2>2. target \in Suffixes /\ Act(mem) = {target}
    BY <1>0, <2>1 DEF AppSwitch
  <2>3. Act(mem') = {target} /\ Sane(mem')
    BY <1>0, <2>1, <2>2, MarkActs
  <2> QED BY <2>1, <2>2, <2>3 DEF AppSwitch, First
<1>9. ~DxeCurrent /\ ~DxeDone
      /\ ~ClearUnbootable("_a", "clear_a", "clear_b")
      /\ ~ClearUnbootable("_b", "clear_b", "getActive")
  BY <1>0 DEF DxeCurrent, DxeDone, ClearUnbootable, AppSwitch
<1> QED BY <1>3, <1>4, <1>5, <1>6, <1>7, <1>8, <1>9 DEF Working

-------------------------------------------------------------------------------
LEMMA StaysValid ==
  ASSUME OnlyCrashed', TypeInv, AllValid, [Next]_vars
  PROVE  AllValid'
<1>0. Configured \subseteq Luns /\ disk \in [Luns -> [Copies -> Copy]] /\ ~TornWrite
  BY BootSlotAssumption
  DEF BootSlotAssumption, DeviceAssumption, TypeInv, TypeOK, OnlyCrashed, TornWrite
<1>1. CASE UNCHANGED disk
  BY <1>1 DEF AllValid
<1>2. CASE PowerOn
  BY <1>0, <1>2 DEF PowerOn, Repaired, AllValid
<1>3. CASE WriteCopy /\ ~UNCHANGED disk
  <2>1. disk' = [disk EXCEPT ![lun][iter] = Sealed(buf)]
    BY <1>3 DEF WriteCopy, Written
  <2> QED BY <1>0, <2>1 DEF AllValid, Sealed, IsValid
<1>4. CASE ~UNCHANGED disk /\ ~PowerOn /\ ~WriteCopy
  BY <1>0, <1>4 DEF Next, Firmware, Environment, vars, media, Load, GetActiveSlot,
     DxeCurrent, AppCurrent, ClearUnbootable, SetActiveSlot, RefreshBootLun,
     SwitchPtnSlots, MarkPtnActive, DxeDone, AppUpdateGuids, AppUpdateAttributes, Update,
     NextLun, ReadCopy, SkipEntry, UpdateGuid, UpdateAttr, GuidMismatch, EndWalk, RunApp,
     Reset, Crash
<1> QED BY <1>1, <1>2, <1>3, <1>4

LEMMA SwitchInit ==
  ASSUME MediaSane
  PROVE  Init => SwitchInv
<1> SUFFICES ASSUME Init PROVE SwitchInv
  OBVIOUS
<1>1. PICK m \in InitMedia :
        disk = [l \in Luns |-> [c \in Copies |-> Sealed(m.tab[l])]]
  BY DEF Init
<1>2. AllValid
  BY <1>1, BootSlotAssumption, SMTT(30)
  DEF AllValid, Sealed, IsValid, BootSlotAssumption, DeviceAssumption
<1>3. ASSUME NEW s \in Suffixes
      PROVE  BootAttr(Primary, s) = BootAttr(EntriesOf(m.tab), s)
  <2>1. Primary[BootIdx[s]] = m.tab[Ptn[BootIdx[s]].lun][Ptn[BootIdx[s]].home]
    BY <1>1, OnDisk, PrimaryIs DEF Sealed
  <2> QED BY <2>1, OnDisk, PrimaryIs DEF EntriesOf, BootAttr
<1>4. Sane(Primary)
  BY <1>3, ActiveDiffer DEF MediaSane
<1> QED BY <1>2, <1>4 DEF Init, SwitchInv, Loaded

LEMMA SwitchBoots ==
  ASSUME TypeInv, CopiesInv, WholeInv, SnapInv, DxeInv, SwitchInv, PowerOn \/ RunApp \/ Load
  PROVE  AllValid' => SwitchInv'
<1> SUFFICES ASSUME AllValid' PROVE SwitchInv'
  OBVIOUS
<1>0. [Next]_vars /\ ~TornWrite /\ ~Walking
  BY DEF Next, Firmware, Environment, Walking, Update, NextLun, ReadCopy, SkipEntry,
     UpdateGuid, UpdateAttr, Visiting, GuidMismatch, EndWalk, WriteCopy, TornWrite,
     PowerOn, RunApp, Load
<1>1. \A s \in Suffixes : BootAttr(Primary', s) = BootAttr(Primary, s)
  BY <1>0, DiskStays DEF SwitchInv
<1>2. Act(Primary') = Act(Primary) /\ Sane(Primary')
  BY <1>1, ActiveDiffer DEF SwitchInv
<1>3. CASE PowerOn
  <2>1. pc' = "load" /\ img' = "dxe"
    BY <1>3 DEF PowerOn, Goto, slots, SwitchInv
  <2>2. \A s \in Suffixes : BootAttr(Read', s) = BootAttr(Primary', s)
    BY <1>3, ReadsPrimary, OnDisk DEF Read, BootAttr
  <2>3. Sane(Read')
    BY <1>2, <2>2, ActiveDiffer
  <2>4. Sane(Read)'
    BY <2>3 DEF Sane, BootAttr, Read
  <2> QED BY <1>2, <2>1, <2>4 DEF SwitchInv, Loaded
<1>4. CASE RunApp
  <2>1. pc = "bds" /\ pc' = "load" /\ Read' = Read /\ Cur' = Cur
    BY <1>4 DEF RunApp, Goto, Read, Cur
  <2> QED BY <1>2, <2>1 DEF SwitchInv, Loaded
<1>5. CASE Load
  <2>1. /\ pc = "load" /\ mem' = Read /\ pc' = "getActive" /\ ret' = "none"
        /\ Read' = Read /\ Cur' = Cur /\ UNCHANGED slots /\ target = NoSlot
    BY <1>5, LoadsAll DEF Load, Goto, Read, Cur, TypeInv, Calls, DxeInv
  <2>2. First' /\ At' = "getActive" /\ Sane(Read)
    BY <2>1 DEF First, At, slots, SwitchInv
  <2>3. img = "dxe" => Act(Primary) = Act(Read)
    <3>1. img = "dxe" => \A s \in Suffixes : BootAttr(Primary, s) = BootAttr(Read, s)
      BY <2>1, OnDisk DEF SnapInv, BootAttr, Read
    <3> QED BY <3>1 DEF Act
  <2>4. img = "dxe" => DxeSwitch'
    BY <1>2, <2>1, <2>2, <2>3 DEF DxeSwitch
  <2>5. img = "app" => AppSwitch'
    BY <1>2, <2>1, <2>2 DEF AppSwitch, SwitchInv
  <2>6. img \in {"dxe", "app"} /\ img' = img
    BY <2>1 DEF TypeInv, TypeOK, slots
  <2> QED BY <1>2, <2>1, <2>2, <2>4, <2>5, <2>6 DEF SwitchInv, Loaded
<1> QED BY <1>3, <1>4, <1>5

LEMMA SwitchStep ==
  ASSUME OnlyCrashed', PairsShareLun, BootNames, FaultlessInv, SwitchInv, [Next]_vars
  PROVE  SwitchInv'
<1>0. /\ TypeInv /\ CopiesInv /\ WalkInv /\ WholeInv /\ PassInv /\ SnapInv /\ DxeInv
      /\ Faultless' /\ AllValid /\ AllValid'
  BY StaysValid DEF FaultlessInv, UpdateInv, SwitchInv, OnlyCrashed, Faultless
<1>1. CASE Walking
  BY <1>0, <1>1, SwitchWalking
<1>2. CASE PowerOn \/ RunApp \/ Load
  BY <1>0, <1>2, SwitchBoots
<1>3. CASE ~Walking /\ ~PowerOn /\ ~RunApp /\ ~Load
  <2>0. ~TornWrite
    BY DEF OnlyCrashed, TornWrite
  <2>1. \A s \in Suffixes : BootAttr(Primary', s) = BootAttr(Primary, s)
    BY <1>0, <1>3, <2>0, DiskStays
  <2>2. Act(Primary') = Act(Primary) /\ Sane(Primary')
    BY <2>1, ActiveDiffer DEF SwitchInv
  <2>3. CASE PowerLoss
    BY <1>0, <2>2, <2>3 DEF PowerLoss, SwitchInv, Loaded
  <2>4. CASE UNCHANGED vars
    <3>1. First' = First /\ Cur' = Cur /\ Read' = Read
      BY <2>4 DEF vars, slots, First, Cur, Read, At
    <3>2. /\ DxeSwitch => DxeSwitch'
          /\ AppSwitch => AppSwitch'
      BY <2>2, <2>4, <3>1 DEF vars, slots, DxeSwitch, AppSwitch, At
    <3> QED BY <1>0, <2>2, <2>4, <3>1, <3>2 DEF vars, slots, SwitchInv, Loaded
  <2>5. CASE Working
    <3>1. /\ UNCHANGED <<snap, img>> /\ Loaded /\ At = pc /\ ret = "none" /\ pc # "off"
          /\ Read' = Read /\ Cur' = Cur /\ img \in {"dxe", "app"}
      BY <2>5, WorkingKeeps DEF Read, Cur, TypeInv, TypeOK, Loaded, FaultlessInv, UpdateInv
    <3>2. CASE Loaded'
      <4>1. /\ Sane(mem') /\ ~First'
            /\ IF img = "dxe" THEN DxeSwitch' ELSE AppSwitch'
        BY <1>0, <2>5, <3>1, <3>2, SwitchDxe, SwitchApp
      <4>2. pc' # "off" /\ pc' # "bds" /\ pc' # "load"
        BY <3>2 DEF Loaded
      <4> QED BY <1>0, <2>2, <3>1, <4>1, <4>2 DEF SwitchInv
    <3>3. CASE ~Loaded'
      <4>1. pc' = "bds" /\ pc \in {"gotCurrent", "set", "setDone"}
            /\ (pc = "setDone" => img = "dxe")
        BY <2>5, <3>3, WorkingKeeps
        DEF Exit, Loaded, Working, GetActiveSlot, DxeCurrent, AppCurrent, ClearUnbootable,
            SetActiveSlot, RefreshBootLun, SwitchPtnSlots, MarkPtnActive, DxeDone,
            AppUpdateGuids, AppUpdateAttributes, Goto, CallUpdate, Caller
      <4>2. ~First
        BY <3>1, <4>1 DEF First
      <4>3. Cur # NoSlot => Act(Primary) = {Cur}
        <5>1. CASE img = "dxe"
          BY <1>0, <3>1, <4>2, <5>1, DxeActs DEF SwitchInv, DxeSwitch
        <5>2. CASE img = "app"
          BY <3>1, <4>1, <5>2 DEF SwitchInv, AppSwitch
        <5> QED BY <3>1, <5>1, <5>2
      <4> QED BY <1>0, <2>2, <3>1, <3>3, <4>1, <4>3 DEF SwitchInv
    <3> QED BY <3>2, <3>3
  <2> QED BY <1>3, <2>0, <2>3, <2>4, <2>5, Steps DEF Reset, Crash
<1> QED BY <1>1, <1>2, <1>3

-------------------------------------------------------------------------------
(* The abstract specification                                               *)

LEMMA ActiveIs == ActiveOn("primary") = Act(Primary)
  BY OnDisk DEF ActiveOn, Act

LEMMA ActiveSlotIs ==
  /\ Act(Primary) = {} => ActiveSlot = NoSlot
  /\ \A s \in Suffixes : Act(Primary) = {s} => ActiveSlot = s
<1>1. ASSUME NEW s \in Suffixes, Act(Primary) = {s}
      PROVE  ActiveSlot = s
  <2>1. Cardinality({s}) = 1
    BY FS_Singleton
  <2>2. ActiveOn("primary") = {s}
    BY <1>1, ActiveIs
  <2> QED BY <2>1, <2>2 DEF ActiveSlot
<1> QED BY <1>1, ActiveIs DEF ActiveSlot

LEMMA NextActiveSlotIs ==
  /\ Act(Primary') = {} => ActiveSlot' = NoSlot
  /\ \A s \in Suffixes : Act(Primary') = {s} => ActiveSlot' = s
<1>1. ActiveOn("primary")' = Act(Primary')
  BY OnDisk DEF ActiveOn, Act
<1>2. ASSUME NEW s \in Suffixes, Act(Primary') = {s}
      PROVE  ActiveSlot' = s
  <2>1. Cardinality({s}) = 1
    BY FS_Singleton
  <2>2. ActiveOn("primary")' = {s}
    BY <1>1, <1>2
  <2> QED BY <2>1, <2>2 DEF ActiveSlot
<1> QED BY <1>1, <1>2 DEF ActiveSlot

LEMMA SaneActs ==
  ASSUME NEW m, Sane(m)
  PROVE  Act(m) = {} \/ \E s \in Suffixes : Act(m) = {s}
<1>1. CASE BootAttr(m, "_a").active
  BY <1>1 DEF Act, Sane
<1>2. CASE ~BootAttr(m, "_a").active /\ BootAttr(m, "_b").active
  BY <1>2 DEF Act
<1>3. CASE ~BootAttr(m, "_a").active /\ ~BootAttr(m, "_b").active
  BY <1>3 DEF Act
<1> QED BY <1>1, <1>2, <1>3

LEMMA SlotStays ==
  ASSUME Sane(Primary), Act(Primary') = Act(Primary)
  PROVE  UNCHANGED ActiveSlot
  BY SaneActs, ActiveSlotIs, NextActiveSlotIs

LEMMA InitRefines == Init /\ SwitchInv => Abstract!Init
<1> SUFFICES ASSUME Init, SwitchInv PROVE Abstract!Init
  OBVIOUS
<1>1. ActiveSlot \in Suffixes \cup {NoSlot}
  BY SaneActs, ActiveSlotIs DEF SwitchInv
<1>2. Wanted = "none"
  BY DEF Init, Wanted
<1> QED BY <1>1, <1>2 DEF Abstract!Init, Abstract!Slots

\* While a copy is written, the slot on the disk becomes the one in memory.
LEMMA WriteRefines ==
  ASSUME Faultless', PairsShareLun, TypeInv, WalkInv, PassInv, SwitchInv, SwitchInv', Walking
  PROVE  [Abstract!Next]_<<ActiveSlot, Wanted>>
<1>0. /\ UNCHANGED <<mem, img, target, At>> /\ ret # "none" /\ Loaded
      /\ img \in {"dxe", "app"} /\ UNCHANGED Wanted
  BY WalkingKeeps DEF slots, Wanted, TypeInv, TypeOK
<1>1. Act(Primary') = Act(Primary) \/ Act(Primary') = Act(mem)
  <2>1. \/ \A s \in Suffixes : BootAttr(Primary', s) = BootAttr(Primary, s)
        \/ \A s \in Suffixes : BootAttr(Primary', s) = BootAttr(mem, s)
    BY WriteActs
  <2> QED BY <2>1 DEF Act
<1>2. CASE Act(Primary') = Act(Primary)
  BY <1>0, <1>2, SlotStays DEF SwitchInv
<1>4. CASE img = "dxe" /\ Act(Primary') # Act(Primary)
  <2>1. Act(Primary) = {} /\ Act(Primary') = {"_a"}
    BY <1>0, <1>1, <1>4 DEF SwitchInv, DxeSwitch
  <2> QED BY <1>0, <2>1, ActiveSlotIs, NextActiveSlotIs DEF Abstract!Next, Abstract!Choose
<1>5. CASE img = "app" /\ Act(Primary') # Act(Primary)
  <2>1. At \in {"flipped", "mark", "setDone", "guidsDone", "reset"}
    <3>1. AppSwitch
      BY <1>0, <1>5 DEF SwitchInv
    <3>2. At \notin {"getActive", "gotCurrent", "set"}
      BY <1>0, <1>1, <1>5, <3>1 DEF AppSwitch, First
    <3> QED BY <1>0, <3>1, <3>2 DEF AppSwitch, TypeInv, TypeOK, At
  <2>2. target \in Suffixes /\ Act(mem) = {target}
    BY <1>0, <1>5, <2>1 DEF SwitchInv, AppSwitch
  <2>3. Wanted = target /\ ActiveSlot' = target /\ Wanted # "none"
    BY <1>1, <1>5, <2>2, NextActiveSlotIs DEF Wanted
  <2> QED BY <1>0, <2>3 DEF Abstract!Next, Abstract!Switch
<1> QED BY <1>0, <1>2, <1>4, <1>5

LEMMA StepRefines ==
  ASSUME OnlyCrashed', PairsShareLun, FaultlessInv, SwitchInv, SwitchInv', [Next]_vars
  PROVE  [Abstract!Next]_<<ActiveSlot, Wanted>>
<1>0. TypeInv /\ WalkInv /\ PassInv /\ Faultless' /\ AllValid
  BY DEF FaultlessInv, UpdateInv, OnlyCrashed, Faultless, SwitchInv
<1>1. CASE Walking
  BY <1>0, <1>1, WriteRefines
<1>2. CASE ~Walking
  <2>0. ~TornWrite
    BY DEF OnlyCrashed, TornWrite
  <2>1. UNCHANGED ActiveSlot
    <3>1. Act(Primary') = Act(Primary)
      BY <1>0, <1>2, <2>0, DiskStays DEF Act
    <3> QED BY <3>1, SlotStays DEF SwitchInv
  <2>2. CASE Wanted' = Wanted \/ Wanted' = "none"
    BY <2>1, <2>2 DEF Abstract!Next, Abstract!Forget
  <2>3. CASE Wanted' # Wanted /\ Wanted' # "none"
    <3>1. AppCurrent /\ target' = Other(found) /\ found # NoSlot
      BY <1>2, <2>0, <2>3, Steps, WorkingKeeps
      DEF vars, slots, Load, PowerOn, RunApp, Reset, Crash, PowerLoss, Working,
          GetActiveSlot, DxeCurrent, AppCurrent, ClearUnbootable, SetActiveSlot,
          RefreshBootLun, SwitchPtnSlots, MarkPtnActive, DxeDone, AppUpdateGuids,
          AppUpdateAttributes, Exit, Wanted
    <3>2. /\ pc = "gotCurrent" /\ img = "app" /\ img' = "app" /\ ret = "none" /\ At = pc
          /\ Loaded
      BY <1>0, <3>1 DEF AppCurrent, TypeInv, Calls, At, Loaded
    <3>3. AppSwitch
      BY <3>2 DEF SwitchInv
    <3>4. target = NoSlot /\ found = Cur /\ Act(Primary) = {Cur} /\ Cur \in Suffixes
      BY <3>1, <3>2, <3>3, HighestActiveType DEF AppSwitch, Cur
    <3>5. ActiveSlot = found /\ Wanted = "none" /\ Wanted' = Abstract!Other(ActiveSlot)
      BY <3>1, <3>2, <3>4, ActiveSlotIs DEF Wanted, Other, Abstract!Other
    <3> QED BY <2>1, <3>1, <3>5 DEF Abstract!Next, Abstract!Ask
  <2> QED BY <2>2, <2>3
<1> QED BY <1>1, <1>2

(* Whatever crashes, the primary table names at most one active slot at all *)
(* times, and it changes as an atomic switch would change it: it is chosen  *)
(* once, as slot _a, and then changes to the other slot in one step while   *)
(* the user wants that, although the update writes every table twice, pass  *)
(* by pass, and SwitchSlotsApp works from tables that are out of date.      *)
(* Writes are not torn here, and the disk reports no errors.                *)
THEOREM SlotSwitchImplemented ==
  ASSUME OnlyCrashes, PairsShareLun, BootNames, MediaWhole, MediaSane
  PROVE  Spec => ImplementsSlotSwitch
<1>0. NoFault /\ RepairAssumption
  BY DEF OnlyCrashes, NoFault, RepairAssumption
<1> DEFINE Inv == FaultlessInv /\ SwitchInv
<1>1. Init => Inv
  BY FaultlessInit, SwitchInit
<1>2. Inv /\ [Next]_vars => Inv' /\ OnlyCrashed'
  <2> SUFFICES ASSUME Inv, [Next]_vars PROVE Inv' /\ OnlyCrashed'
    OBVIOUS
  <2>1. OnlyCrashed' /\ Faultless'
    BY StepType DEF FaultlessInv, UpdateInv, TypeInv, TypeOK, OnlyCrashes, OnlyCrashed, Faultless
  <2> QED BY <1>0, <2>1, FaultlessStep, SwitchStep
<1>3. Init /\ Inv => Abstract!Init
  BY InitRefines
<1>4. Inv /\ Inv' /\ [Next]_vars => [Abstract!Next]_<<ActiveSlot, Wanted>>
  BY <1>2, StepRefines
<1>5. Spec => Abstract!Spec
  <2> HIDE DEF Inv
  <2> QED BY <1>1, <1>2, <1>3, <1>4, PTL DEF Spec, Abstract!Spec
<1> QED BY <1>5 DEF ImplementsSlotSwitch

-------------------------------------------------------------------------------
(* The two copies of a table                                                *)

Homes(l) == {Ptn[i].home : i \in On[l]}

\* The entries of the table that belong to no partition are not written.
RestInv ==
  pc \in {"walk", "write"} /\ Aligned =>
    \A p \in Pos \ Homes(lun) : buf[p] = OldCopy[p]

\* Between the write of the primary copy and that of the backup.
Pending(l) == l = lun /\ iter = "backup" /\ pc \in {"read", "walk", "write"}

\* Table new is what the update makes of table old.
Follows(new, old, l) ==
  /\ Keeps(new, old)
  /\ \A i \in On[l] : Updated(new[Ptn[i].home], i)
  /\ \A p \in Pos \ Homes(l) : new[p] = old[p]

MirrorInv ==
  \A l \in Luns :
    /\ \A c \in Copies : IsValid(disk[l][c])
    /\ IF Pending(l) THEN Follows(disk[l]["primary"].ent, disk[l]["backup"].ent, l)
       ELSE disk[l]["primary"] = disk[l]["backup"]

LEMMA RestStep ==
  ASSUME TypeInv, WalkInv, RestInv, Loaded => Used(mem), [Next]_vars
  PROVE  RestInv'
<1> SUFFICES ASSUME pc' \in {"walk", "write"}, Aligned', NEW p \in Pos, p \notin Homes(lun')
             PROVE  buf'[p] = OldCopy'[p]
  BY DEF RestInv
<1>1. \/ UNCHANGED vars \/ ReadCopy \/ UpdateGuid \/ UpdateAttr
      \/ SkipEntry \/ GuidMismatch \/ (EndWalk /\ dirty)
  BY DEF Next, Firmware, Environment, Load, GetActiveSlot, Caller, DxeCurrent, AppCurrent,
     ClearUnbootable, SetActiveSlot, RefreshBootLun, SwitchPtnSlots, MarkPtnActive, DxeDone,
     AppUpdateGuids, AppUpdateAttributes, Update, NextLun, EndWalk, WriteCopy, NextCopy,
     Fault, Return, Goto, Exit, CallUpdate, PowerOn, RunApp, Reset, Crash, TornWrite,
     PowerLoss, TypeInv, TypeOK
<1>2. CASE ReadCopy
  BY <1>2 DEF ReadCopy, Fault, Return, Goto, media, OldCopy, TypeInv, TypeOK
<1>3. CASE UNCHANGED vars \/ SkipEntry \/ GuidMismatch \/ (EndWalk /\ dirty)
  <2>1. /\ UNCHANGED <<disk, mem, type, lun, iter, buf>> /\ pc \in {"walk", "write"}
    BY <1>3 DEF vars, media, walk, SkipEntry, GuidMismatch, Visiting, EndWalk
  <2>2. Aligned /\ OldCopy' = OldCopy
    BY <2>1 DEF Aligned, SameGuids, OldCopy
  <2> QED BY <2>1, <2>2 DEF RestInv, Homes
<1>4. CASE UpdateGuid \/ UpdateAttr
  <2>1. /\ UNCHANGED <<disk, mem, type, lun, iter>> /\ pc = "walk" /\ Visiting
    BY <1>4 DEF UpdateGuid, UpdateAttr, Visiting, media
  <2>2. Aligned /\ OldCopy' = OldCopy
    BY <2>1 DEF Aligned, SameGuids, OldCopy
  <2>3. ix \in On[lun] /\ pos \in Pos /\ buf \in Table
    BY <2>1, VisitedHere DEF Loaded
  <2>4. pos = Ptn[ix].home
    BY <2>1, <2>2, <2>3, PointsAt DEF WalkInv
  <2>5. p # pos
    BY <2>1, <2>3, <2>4 DEF Homes
  <2>6. buf'[p] = buf[p]
    BY <1>4, <2>3, <2>5 DEF UpdateGuid, UpdateAttr, Table
  <2> QED BY <2>1, <2>2, <2>6 DEF RestInv, Homes
<1> QED BY <1>1, <1>2, <1>3, <1>4

\* A copy that is not cut short becomes what the update makes of it.
LEMMA CopyDone ==
  ASSUME TypeInv, WalkInv, RestInv, Aligned, (EndWalk /\ ~dirty) \/ pc = "write"
  PROVE  Follows(buf, OldCopy, lun)
<1>1. CASE EndWalk /\ ~dirty
  <2>1. pc = "walk" /\ \A i \in On[lun] : i < ix
    BY <1>1, AllVisited DEF EndWalk
  <2> QED BY <2>1 DEF WalkInv, RestInv, Follows
<1>2. CASE pc = "write"
  BY <1>2 DEF WalkInv, RestInv, Follows
<1> QED BY <1>1, <1>2

\* There is only one such table.
LEMMA FollowsOnce ==
  ASSUME TypeInv, NEW l \in Configured, NEW t \in Table, NEW u \in Table, NEW old \in Table,
         Follows(t, old, l), Follows(u, old, l)
  PROVE  t = u
<1> SUFFICES ASSUME NEW p \in Pos PROVE t[p] = u[p]
  BY DEF Table
<1>1. t[p] \in Entry /\ u[p] \in Entry
  BY DEF Table
<1>2. CASE p \in Homes(l)
  <2>1. PICK i \in On[l] : p = Ptn[i].home
    BY <1>2 DEF Homes
  <2>2. t[p].guid = u[p].guid /\ t[p].attr = u[p].attr
    BY <2>1 DEF Follows, Keeps, Updated
  <2> QED BY <1>1, <2>2 DEF Entry
<1>3. CASE p \notin Homes(l)
  BY <1>3 DEF Follows
<1> QED BY <1>2, <1>3

LEMMA MirrorAligned ==
  ASSUME TypeInv, PassInv, MirrorInv, pc \in {"read", "walk", "write"}
  PROVE  Aligned
<1>0. lun \in Configured /\ lun \in Luns /\ Tracks("GUID", Partitions)
  BY UpdateFacts DEF PassInv, Loaded
<1>1. CASE iter = "primary"
  BY <1>0, <1>1, PrimaryAligned
<1>2. CASE iter = "backup"
  <2> SUFFICES ASSUME type = "ATTR", NEW i \in On[lun]
               PROVE  OldCopy[Ptn[i].home].guid = mem[i].guid
    BY DEF Aligned, SameGuids
  <2>1. i \in Partitions /\ Ptn[i].lun = lun
    BY <1>0, OnIsPartition
  <2>2. Primary[i].guid = mem[i].guid
    BY <1>0, <2>1 DEF Tracks, Updating, Half
  <2>3. Keeps(disk[lun]["primary"].ent, OldCopy)
    BY <1>0, <1>2 DEF MirrorInv, Pending, Follows, OldCopy
  <2> QED BY <2>1, <2>2, <2>3, PrimaryIs DEF Keeps
<1> QED BY <1>1, <1>2 DEF TypeInv, TypeOK

\* Going on to the next copy.
LEMMA MirrorNext ==
  ASSUME TypeInv, WalkInv, RestInv, PassInv, MirrorInv, NextCopy,
         \/ EndWalk /\ ~dirty /\ UNCHANGED disk
         \/ pc = "write" /\ disk' = [disk EXCEPT ![lun][iter] = Sealed(buf)],
         UNCHANGED mem, NEW l \in Luns
  PROVE  /\ \A c \in Copies : IsValid(disk'[l][c])
         /\ IF Pending(l)'
            THEN Follows(disk[l]["primary"].ent, disk[l]["backup"].ent, l)'
            ELSE disk'[l]["primary"] = disk'[l]["backup"]
<1>0. pc \in {"walk", "write"}
  BY DEF EndWalk
<1>1. /\ lun \in Configured /\ lun \in Luns /\ iter \in Copies /\ OldCopy \in Table
      /\ buf \in Table /\ disk \in [Luns -> [Copies -> Copy]]
      /\ \A c \in Copies : IsValid(disk[l][c])
  BY <1>0, UpdateFacts DEF TypeInv, TypeOK, MirrorInv
<1>2. Follows(buf, OldCopy, lun)
  BY <1>0, MirrorAligned, CopyDone
<1>3. /\ disk'[lun][iter].ent = buf /\ IsValid(disk'[lun][iter])
      /\ \A k \in Luns, c \in Copies : k # lun \/ c # iter => disk'[k][c] = disk[k][c]
      /\ disk'[lun][iter] \in Copy
  <2>1. CASE EndWalk /\ ~dirty /\ UNCHANGED disk
    <3>1. buf = OldCopy /\ disk'[lun][iter].ent = OldCopy /\ UNCHANGED disk
      BY <2>1 DEF EndWalk, WalkInv, OldCopy
    <3>2. IsValid(disk[lun][iter])
      BY <1>1 DEF MirrorInv
    <3> QED BY <1>1, <3>1, <3>2
  <2>2. CASE disk' = [disk EXCEPT ![lun][iter] = Sealed(buf)]
    BY <1>1, <2>2 DEF Sealed, IsValid, Copy
  <2> QED BY <2>1, <2>2
<1>4. \A c \in Copies : IsValid(disk'[l][c])
  BY <1>1, <1>3
<1>5. CASE l # lun
  <2>1. disk'[l]["primary"] = disk[l]["primary"] /\ disk'[l]["backup"] = disk[l]["backup"]
    BY <1>3, <1>5
  <2>2. ~Pending(l) /\ ~Pending(l)'
    BY <1>5 DEF Pending, NextCopy, Goto
  <2> QED BY <1>4, <2>1, <2>2 DEF MirrorInv
<1>6. CASE l = lun /\ iter = "primary"
  <2>1. Pending(l)' /\ ~Pending(l)
    BY <1>6 DEF Pending, NextCopy, Goto
  <2>2. disk'[l]["backup"].ent = OldCopy
    BY <1>3, <1>6, <2>1 DEF MirrorInv, OldCopy
  <2>3. UNCHANGED <<mem, type>>
    BY DEF NextCopy
  <2> QED BY <1>2, <1>3, <1>4, <1>6, <2>1, <2>2, <2>3 DEF Follows, Keeps, Updated
<1>7. CASE l = lun /\ iter = "backup"
  <2>1. Pending(l) /\ ~Pending(l)'
    BY <1>0, <1>7 DEF Pending, NextCopy, Goto
  <2>2. Follows(disk[l]["primary"].ent, OldCopy, l)
    BY <1>7, <2>1 DEF MirrorInv, OldCopy
  <2>3. disk[l]["primary"] \in Copy /\ disk[l]["primary"].ent \in Table
    BY <1>1 DEF Copy
  <2>4. disk[l]["primary"].ent = buf
    BY <1>1, <1>2, <1>7, <2>2, <2>3, FollowsOnce
  <2>5. disk'[l]["primary"].ent = buf /\ disk'[l]["primary"] \in Copy
    BY <1>3, <1>7, <2>3, <2>4
  <2>6. disk'[l]["primary"] = disk'[l]["backup"]
    BY <1>3, <1>4, <1>7, <2>5 DEF IsValid, Copy
  <2> QED BY <1>4, <2>1, <2>6
<1> QED BY <1>1, <1>5, <1>6, <1>7

LEMMA MirrorStep ==
  ASSUME disturbed' = {}, TypeInv, WalkInv, RestInv, PassInv, MirrorInv, [Next]_vars
  PROVE  MirrorInv'
<1> SUFFICES ASSUME NEW l \in Luns
             PROVE  /\ \A c \in Copies : IsValid(disk'[l][c])
                    /\ IF Pending(l)'
                       THEN Follows(disk[l]["primary"].ent, disk[l]["backup"].ent, l)'
                       ELSE disk'[l]["primary"] = disk'[l]["backup"]
  BY DEF MirrorInv
<1>1. CASE EndWalk /\ ~dirty
  BY <1>1, MirrorNext DEF EndWalk, media
<1>2. CASE WriteCopy
  <2>1. disk' = [disk EXCEPT ![lun][iter] = Sealed(buf)] /\ NextCopy /\ pc = "write"
    BY <1>2 DEF WriteCopy, Written, Fault
  <2> QED BY <1>2, <2>1, MirrorNext DEF WriteCopy
<1>3. CASE PowerOn
  <2>1. disk'[l] = Repaired(disk[l]) /\ \A c \in Copies : IsValid(disk[l][c])
    BY <1>3 DEF PowerOn, MirrorInv
  <2>2. \A c \in Copies : disk'[l][c] = disk[l][c]
    BY <2>1 DEF Repaired
  <2>3. ~Pending(l) /\ ~Pending(l)'
    BY <1>3 DEF PowerOn, Goto, Pending
  <2> QED BY <2>1, <2>2, <2>3 DEF MirrorInv
<1>4. CASE \/ UNCHANGED vars \/ ReadCopy \/ UpdateGuid \/ UpdateAttr
           \/ SkipEntry \/ GuidMismatch \/ (EndWalk /\ dirty)
  <2>1. /\ UNCHANGED <<disk, mem, type, lun, iter>>
        /\ UNCHANGED pc \/ {pc, pc'} \subseteq {"read", "walk", "write"}
    BY <1>4 DEF vars, media, walk, ReadCopy, Fault, UpdateGuid, UpdateAttr, SkipEntry,
       GuidMismatch, Visiting, EndWalk, Goto
  <2>2. Pending(l)' = Pending(l)
    BY <2>1 DEF Pending
  <2> QED BY <2>1, <2>2 DEF MirrorInv, Follows, Keeps, Updated
<1>5. CASE /\ ~EndWalk /\ ~WriteCopy /\ ~PowerOn /\ ~UNCHANGED vars /\ ~ReadCopy
           /\ ~UpdateGuid /\ ~UpdateAttr /\ ~SkipEntry /\ ~GuidMismatch
  <2>1. /\ UNCHANGED disk
        /\ pc \notin {"read", "walk", "write"}
        /\ pc' \in {"read", "walk", "write"} => iter' = "primary"
    BY <1>5 DEF Next, Firmware, Environment, media, Load, GetActiveSlot, Caller, DxeCurrent,
       AppCurrent, ClearUnbootable, SetActiveSlot, RefreshBootLun, SwitchPtnSlots,
       MarkPtnActive, DxeDone, AppUpdateGuids, AppUpdateAttributes, Update, NextLun,
       Return, Goto, Exit, CallUpdate, RunApp, Reset, Crash, TornWrite, PowerLoss,
       TypeInv, TypeOK
  <2>2. ~Pending(l) /\ ~Pending(l)'
    BY <2>1 DEF Pending
  <2> QED BY <2>1, <2>2 DEF MirrorInv
<1> QED BY <1>1, <1>2, <1>3, <1>4, <1>5

-------------------------------------------------------------------------------
(* What SwitchSlotsApp has in memory and on the disk when nothing disturbs  *)
(* it.  The attributes it loads for boot_a and boot_b are out of date, the  *)
(* others are not.                                                          *)

Boots   == {BootIdx[s] : s \in Suffixes}
NotBoot == Partitions \ Boots

\* The attributes of partition i are on the disk, or this update will get there.
Arriving(i) == (Updating("ATTR") /\ ~Passed(i)) \/ Primary[i].attr = mem[i].attr

Marked == img = "app" /\ At \in {"setDone", "guidsDone", "reset"}

\* PtnEntriesBak does not name the new slot before the update that activates
\* it: that update is not skipped.
AppKnows ==
  /\ At \in {"getActive", "gotCurrent", "set"} /\ Cur # NoSlot => Act(bak) \subseteq {Cur}
  /\ At \in {"set", "flipped"} => found = Cur
  /\ At = "flipped" => /\ Cur # NoSlot /\ target = Other(Cur)
                       /\ ret # "none" => type = "ATTR"
                       /\ IF pc = "upd" THEN target \notin Act(bak)
                          ELSE \A i \in Boots : Arriving(i)
  /\ Exchanged => /\ \A i \in Boots : Primary[i].attr = mem[i].attr
                  /\ \A i \in Partitions : mem[i].guid = Read[Twin[i]].guid
                  /\ Device = "UFS" => bootLun = LunOf(target)
  /\ Marked => \A i \in Partitions : mem[i].attr.active <=> Ptn[i].slot = target

AppInv ==
  /\ pc \in {"load", "bds"} => \A i \in NotBoot : Read[i].attr = Primary[i].attr
  /\ Loaded => /\ Tracks("ATTR", NotBoot)
               /\ ~Marked => \A i \in NotBoot : mem[i].attr = Read[i].attr
               /\ img = "app" => AppKnows

LEMMA BootsAre ==
  /\ Boots \subseteq Partitions /\ NotBoot \subseteq Partitions
  /\ \A s \in Suffixes : BootIdx[s] \in Boots
  /\ \A i \in Boots : \E s \in Suffixes : i = BootIdx[s]
  BY OnDisk DEF Boots, NotBoot

\* An update of the attributes that has begun gets to every partition.
LEMMA ArrivingWalks ==
  ASSUME Faultless', TypeInv, WalkInv, PassInv, Walking, ~Update, Updating("ATTR"),
         NEW i \in Partitions, Arriving(i)
  PROVE  Arriving(i)'
<1>0. /\ UNCHANGED mem /\ ret # "none" /\ type = "ATTR" /\ Tracks("GUID", Partitions)
  BY WalkingKeeps DEF Updating, PassInv
<1>1. /\ lun \in Nat /\ MaxLuns \in Nat /\ Ptn[i].lun \in Nat /\ Ptn[i].lun < MaxLuns
      /\ Ptn[i].lun \in Configured /\ i \in On[Ptn[i].lun]
      /\ Ptn[i].home \in Pos /\ Ptn[i].lun \in Luns
  BY PrimaryIs, BootSlotAssumption
  DEF TypeInv, TypeOK, BootSlotAssumption, DeviceAssumption, Luns
<1>2. CASE NextLun
  <2>1. UNCHANGED disk /\ Primary'[i] = Primary[i] /\ pc = "lun"
    BY <1>2, PrimaryIs DEF NextLun, media
  <2>2. CASE lun >= MaxLuns
    <3>1. Passed(i)
      BY <1>1, <2>2 DEF Passed
    <3> QED BY <1>0, <2>1, <3>1 DEF Arriving
  <2>3. CASE lun < MaxLuns
    <3>1. /\ UNCHANGED <<ret, type>>
          /\ \/ lun \notin Configured /\ pc' = "lun" /\ lun' = lun + 1
             \/ lun' = lun /\ iter' = "primary" /\ pc' = "read"
      BY <1>1, <1>2, <2>3 DEF NextLun, Goto
    <3>2. Passed(i)' = Passed(i)
      BY <1>1, <2>1, <3>1 DEF Passed
    <3> QED BY <1>0, <2>1, <3>1, <3>2 DEF Arriving, Updating
  <2> QED BY <1>1, <2>2, <2>3
<1>3. CASE ReadCopy \/ SkipEntry \/ UpdateGuid \/ UpdateAttr \/ GuidMismatch \/ (EndWalk /\ dirty)
  <2>1. /\ UNCHANGED <<disk, ret, type, lun, iter>>
        /\ {pc, pc'} \subseteq {"read", "walk", "write"}
    BY <1>3 DEF ReadCopy, Faultless, Fault, SkipEntry, UpdateGuid, UpdateAttr, GuidMismatch, Visiting,
       EndWalk, Goto, media, walk
  <2>2. Passed(i)' = Passed(i) /\ Primary'[i] = Primary[i]
    BY <2>1, PrimaryIs DEF Passed
  <2> QED BY <1>0, <2>1, <2>2 DEF Arriving, Updating
<1>4. CASE (EndWalk /\ ~dirty) \/ WriteCopy
  <2>0. /\ pc \in {"walk", "write"} /\ NextCopy /\ lun \in Configured /\ lun \in Luns
        /\ iter \in Copies
    BY <1>4, UpdateFacts DEF EndWalk, WriteCopy, Faultless, Fault
  <2>1. CASE Ptn[i].lun = lun /\ iter = "primary"
    <3>1. Aligned
      BY <1>0, <2>0, <2>1, PrimaryAligned
    <3>2. buf[Ptn[i].home].attr = mem[i].attr /\ Primary'[i] = buf[Ptn[i].home]
      <4>1. CASE EndWalk /\ ~dirty
        <5>1. pc = "walk" /\ UNCHANGED disk /\ buf = OldCopy /\ i < ix
          BY <1>1, <2>1, <4>1, AllVisited DEF EndWalk, media, WalkInv
        <5> QED BY <1>0, <1>1, <2>1, <3>1, <5>1, PrimaryIs DEF WalkInv, Updated, OldCopy
      <4>2. CASE WriteCopy
        <5>1. disk' = [disk EXCEPT ![lun][iter] = Sealed(buf)] /\ pc = "write"
          BY <4>2 DEF WriteCopy, Written, Faultless, Fault
        <5>2. disk'[lun]["primary"].ent = buf
          BY <2>0, <2>1, <5>1 DEF Sealed, TypeInv, TypeOK
        <5> QED BY <1>0, <1>1, <2>1, <3>1, <5>1, <5>2, PrimaryIs DEF WalkInv, Updated
      <4> QED BY <1>4, <4>1, <4>2
    <3> QED BY <1>0, <3>2 DEF Arriving
  <2>2. CASE ~(Ptn[i].lun = lun /\ iter = "primary")
    <3>1. Primary'[i] = Primary[i]
      <4>1. CASE UNCHANGED disk
        BY <4>1, PrimaryIs
      <4>2. CASE disk' = [disk EXCEPT ![lun][iter] = Sealed(buf)]
        BY <1>1, <2>0, <2>2, <4>2, PrimaryIs DEF TypeInv, TypeOK
      <4> QED BY <1>4, <4>1, <4>2 DEF EndWalk, WriteCopy, Written, media, Faultless, Fault
    <3>2. Passed(i)' = Passed(i) /\ UNCHANGED <<ret, type>>
      BY <1>1, <2>0, <2>2 DEF Passed, NextCopy, Goto, TypeInv, TypeOK
    <3> QED BY <1>0, <3>1, <3>2 DEF Arriving, Updating
  <2> QED BY <2>1, <2>2
<1> QED BY <1>2, <1>3, <1>4 DEF Walking, EndWalk

\* PtnEntriesBak comes to hold entries of memory.
LEMMA BakActs ==
  ASSUME TypeInv, Walking
  PROVE  Act(bak') \subseteq Act(bak) \cup Act(mem)
<1> SUFFICES ASSUME NEW s \in Suffixes, BootAttr(bak', s).active
             PROVE  BootAttr(bak, s).active \/ BootAttr(mem, s).active
  BY DEF Act
<1>0. bak \in [Idx -> Entry] /\ mem \in [Idx -> Entry] /\ BootIdx[s] \in Idx
  BY BootIdxType DEF TypeInv, TypeOK
<1>1. CASE UNCHANGED bak
  BY <1>1
<1>2. CASE UpdateGuid
  <2>1. bak'[BootIdx[s]].attr = bak[BootIdx[s]].attr
    BY <1>0, <1>2 DEF UpdateGuid, Entry
  <2> QED BY <2>1 DEF BootAttr
<1>3. CASE UpdateAttr
  <2>1. bak'[BootIdx[s]].attr \in {bak[BootIdx[s]].attr, mem[BootIdx[s]].attr}
    BY <1>0, <1>3 DEF UpdateAttr, Entry
  <2> QED BY <2>1 DEF BootAttr
<1> QED BY <1>1, <1>2, <1>3 DEF Walking, Update, NextLun, ReadCopy, SkipEntry, GuidMismatch,
           EndWalk, WriteCopy

LEMMA AppWalking ==
  ASSUME Faultless', PairsShareLun, TypeInv, WalkInv, PassInv, SwitchInv, AppKnows, Walking,
         img = "app", Loaded
  PROVE  AppKnows'
<1>0. /\ UNCHANGED <<bootLun, snap, mem, slots, At>> /\ ret # "none"
      /\ Read' = Read /\ Cur' = Cur /\ AppSwitch
      /\ pc \in {"upd", "lun", "read", "walk", "write"}
  BY WalkingKeeps DEF slots, Read, Cur, SwitchInv
<1>1. ASSUME At \in {"getActive", "gotCurrent", "set"}, Cur # NoSlot
      PROVE  Act(bak') \subseteq {Cur}
  <2>1. Act(mem) = {Cur}
    BY <1>0, <1>1 DEF AppSwitch, First
  <2> QED BY <1>1, <2>1, BakActs DEF AppKnows
<1>2. ASSUME At = "flipped"
      PROVE  /\ ret' # "none" => type' = "ATTR"
             /\ IF pc' = "upd" THEN target \notin Act(bak') ELSE \A i \in Boots : Arriving(i)'
  <2>1. Updating("ATTR")
    BY <1>0, <1>2 DEF AppKnows, Updating
  <2>2. type' = "ATTR"
    BY <2>1 DEF Updating, Walking, Update, NextLun, ReadCopy, SkipEntry, UpdateGuid, UpdateAttr,
       Visiting, GuidMismatch, EndWalk, WriteCopy, Goto, Return, NoLocals, NextCopy, Fault,
       walk
  <2>3. pc' # "upd"
    BY <1>0 DEF Walking, Update, NextLun, ReadCopy, SkipEntry, UpdateGuid, UpdateAttr,
       Visiting, GuidMismatch, EndWalk, WriteCopy, Goto, Return, NoLocals, NextCopy, Fault,
       walk, TypeInv, TypeOK
  <2>4. CASE Update
    <3>1. pc = "upd" /\ lun = 0 /\ target \notin Act(bak) /\ target \in Act(mem)
      BY <1>0, <1>2, <2>4 DEF Update, PassInv, AppKnows, AppSwitch
    <3>2. pc' = "lun" /\ lun' = 0 /\ UNCHANGED <<ret, type>>
      BY <2>4, <3>1 DEF Update, Goto, walk
    <3>3. \A i \in Boots : ~Passed(i)' /\ Updating("ATTR")'
      BY <2>1, <3>2, BootsAre, PrimaryIs DEF Passed, Updating
    <3> QED BY <2>2, <2>3, <3>3 DEF Arriving
  <2>5. CASE ~Update
    <3>1. pc # "upd"
      BY <2>5 DEF Walking, NextLun, ReadCopy, SkipEntry, UpdateGuid, UpdateAttr, Visiting,
         GuidMismatch, EndWalk, WriteCopy
    <3>2. \A i \in Boots : Arriving(i)
      BY <1>2, <3>1 DEF AppKnows
    <3> QED BY <2>1, <2>2, <2>3, <2>5, <3>2, ArrivingWalks, BootsAre
  <2> QED BY <2>4, <2>5
<1>3. ASSUME \A i \in Boots : Primary[i].attr = mem[i].attr
      PROVE  \A i \in Boots : Primary'[i].attr = mem[i].attr
  BY <1>3, WriteActs, OnDisk, BootsAre DEF BootAttr
<1>4. Exchanged' = Exchanged /\ Marked' = Marked
  BY <1>0 DEF Exchanged, Marked, slots
<1> QED BY <1>0, <1>1, <1>2, <1>3, <1>4 DEF AppKnows, slots

\* Only MarkPtnActive changes attributes of other partitions than the two.
LEMMA MemAttrs ==
  ASSUME TypeInv, Working, Loaded', ~MarkPtnActive, NEW i \in NotBoot
  PROVE  mem'[i].attr = mem[i].attr
<1>0. /\ mem \in [Idx -> Entry] /\ i \in Idx
      /\ \A s \in Suffixes : BootIdx[s] # i
  BY BootsAre, PrimaryIs DEF TypeInv, TypeOK, NotBoot
<1>1. ASSUME NEW m \in [Idx -> Entry], NEW s \in Suffixes, NEW a
      PROVE  WithBootAttr(m, s, a)[i] = m[i]
  BY <1>0 DEF WithBootAttr
<1>2. CASE SetActiveSlot
  <2> DEFINE new == WithBootAttr(mem, target,
                      NewSlotAttr(BootAttr(mem, target), img = "app", img = "dxe"))
             alt == Other(target)
  <2>1. target \in Suffixes /\ alt \in Suffixes
    BY <1>2 DEF TypeInv, Calls, SetActiveSlot, Other
  <2>2. mem' = WithBootAttr(new, alt, AlternateAttr(BootAttr(new, alt)))
    BY <1>2 DEF SetActiveSlot, Exit, Loaded
  <2>3. new \in [Idx -> Entry]
    BY <1>0, <2>1, BootAttrType, NewSlotAttrType, WithBootAttrType
  <2>4. new[i] = mem[i]
    BY <1>0, <1>1, <2>1
  <2> HIDE DEF new, alt
  <2> QED BY <1>1, <2>1, <2>2, <2>3, <2>4
<1>3. CASE SwitchPtnSlots
  BY <1>0, <1>3 DEF SwitchPtnSlots, SwapPtnGuids, Entry
<1>4. CASE UNCHANGED mem
  BY <1>4
<1>5. CASE \E s \in Suffixes, a \in Attr : mem' = WithBootAttr(mem, s, a)
  BY <1>0, <1>1, <1>5
<1>6. CASE GetActiveSlot
  <2>1. FirstBootAttr(BootAttr(mem, "_a")) \in Attr
    BY <1>0, BootAttrType, FirstBootAttrType
  <2> QED BY <1>4, <1>5, <1>6, <2>1 DEF GetActiveSlot
<1>7. CASE \/ ClearUnbootable("_a", "clear_a", "clear_b")
           \/ ClearUnbootable("_b", "clear_b", "getActive")
  BY <1>0, <1>1, <1>7 DEF ClearUnbootable
<1> QED BY <1>2, <1>3, <1>4, <1>6, <1>7
        DEF Working, DxeCurrent, AppCurrent, RefreshBootLun, DxeDone, AppUpdateGuids,
            AppUpdateAttributes, Exit, Loaded

\* SwitchPtnSlots gives every partition the type GUID its twin was read with.
LEMMA SwapGives ==
  ASSUME NEW m \in [Idx -> Entry], Used(m), \A i \in Partitions : m[i].guid = Read[i].guid,
         NEW i \in Partitions
  PROVE  /\ SwapPtnGuids(m)[i].guid = Read[Twin[i]].guid
         /\ SwapPtnGuids(m)[i].attr = m[i].attr
<1>1. i \in Idx /\ Ptn[i].home # 0
  BY PrimaryIs
<1>2. Partner(m, i) = Twin[i]
  BY <1>1, PartnerIsTwin
<1>3. Twin[i] \in Partitions
  BY <1>1, TwinType, TwinUnique DEF Partitions
<1>4. SwapPtnGuids(m)[i] = [m[i] EXCEPT !.guid = m[Twin[i]].guid]
  BY <1>1, <1>2 DEF SwapPtnGuids
<1> QED BY <1>1, <1>3, <1>4 DEF Entry

\* MarkPtnActive marks the partitions of one slot; of the boot partitions one
\* was marked so before.
LEMMA MarkGives ==
  ASSUME OwnSuffixOnly, NEW m \in [Idx -> Entry], Used(m), NEW s \in Suffixes,
         NEW i \in Partitions
  PROVE  /\ MarkActive(m, s)[i].guid = m[i].guid
         /\ MarkActive(m, s)[i].attr.active <=> Ptn[i].slot = s
         /\ i \in Boots /\ Act(m) = {s} => MarkActive(m, s)[i].attr = m[i].attr
<1>1. i \in Idx /\ m[i].guid # NoGuid /\ m[i] \in Entry
      /\ (s \in Ptn[i].holds <=> Ptn[i].slot = s)
  BY PrimaryIs DEF Used, OwnSuffixOnly
<1>2. MarkActive(m, s)[i] = [m[i] EXCEPT !.attr.active = (s \in Ptn[i].holds)]
  BY <1>1 DEF MarkActive
<1>3. /\ MarkActive(m, s)[i].guid = m[i].guid
      /\ MarkActive(m, s)[i].attr.active <=> Ptn[i].slot = s
      /\ MarkActive(m, s)[i].attr = [m[i].attr EXCEPT !.active = (s \in Ptn[i].holds)]
  BY <1>1, <1>2 DEF Entry, Attr
<1>4. ASSUME i \in Boots, Act(m) = {s}
      PROVE  MarkActive(m, s)[i].attr = m[i].attr
  <2>1. PICK x \in Suffixes : i = BootIdx[x]
    BY <1>4, BootsAre
  <2>2. Ptn[i].slot = x
    BY <2>1, BootIdxType
  <2>3. m[i].attr.active <=> x = s
    BY <1>4, <2>1 DEF Act, BootAttr
  <2>4. m[i].attr \in Attr /\ m[i].attr.active \in BOOLEAN
    BY <1>1 DEF Entry, Attr
  <2>5. m[i].attr.active = (s \in Ptn[i].holds)
    BY <1>1, <2>2, <2>3, <2>4
  <2> QED BY <1>3, <2>4, <2>5 DEF Attr
<1> QED BY <1>3, <1>4

LEMMA AppWorking ==
  ASSUME Faultless', OwnSuffixOnly, MediaBootLun, TypeInv, WholeInv, PassInv, SnapInv, DxeInv,
         SwitchInv, AppKnows, Working, Loaded', img = "app"
  PROVE  AppKnows'
<1>0. /\ Loaded /\ ret = "none" /\ At = pc /\ img' = "app" /\ mem \in [Idx -> Entry]
      /\ Used(mem) /\ AppSwitch /\ Read' = Read /\ Cur' = Cur
      /\ UNCHANGED <<disk, snap, bak>>
      /\ \A i \in Partitions : Primary'[i] = Primary[i]
  BY WorkingKeeps, WholeUsed, PrimaryIs DEF SwitchInv, TypeInv, TypeOK, Read, Cur, Exit, Loaded
<1>1. Cur # NoSlot => Cur \in Suffixes /\ Other(Cur) \in Suffixes /\ Other(Cur) # Cur
  BY HighestActiveType DEF Cur, Other
<1>2. CASE GetActiveSlot
  <2>1. /\ At' = (IF target = NoSlot THEN "gotCurrent" ELSE "set") /\ pc = "getActive"
        /\ found' = HighestActive(mem') /\ UNCHANGED target
    BY <1>2, GetActiveGives DEF GetActiveSlot
  <2>2. target # NoSlot => found' = Cur
    <3>1. ASSUME target # NoSlot
          PROVE  Cur # NoSlot /\ Act(mem) = {Cur}
      BY <1>0, <2>1, <3>1 DEF AppSwitch, First
    <3>2. target # NoSlot => HighestActive(mem) = Cur
      BY <1>0, <1>1, <3>1, SaneHighest DEF SwitchInv
    <3> QED BY <1>2, <3>1, <3>2, GetActiveActs
  <2> QED BY <1>0, <2>1, <2>2 DEF AppKnows, Exchanged, Marked
<1>3. CASE AppCurrent
  <2>1. At' = "getActive" /\ pc = "gotCurrent"
    BY <1>0, <1>3 DEF AppCurrent, Goto, At, Exit, Loaded
  <2> QED BY <1>0, <2>1 DEF AppKnows, Exchanged, Marked
<1>4. CASE SetActiveSlot
  <2>1. /\ At' = "flipped" /\ pc = "set" /\ pc' = "upd" /\ type' = "ATTR"
        /\ UNCHANGED <<target, found>>
    BY <1>0, <1>4 DEF SetActiveSlot, CallUpdate, At, slots, Exit, Loaded
  <2>2. Cur # NoSlot /\ target = Other(Cur) /\ found = Cur /\ Act(bak) \subseteq {Cur}
    BY <1>0, <2>1 DEF AppSwitch, AppKnows, First
  <2>3. target \notin Act(bak)
    BY <1>1, <2>2
  <2> QED BY <1>0, <2>1, <2>2, <2>3 DEF AppKnows, Exchanged, Marked
<1>5. CASE SwitchPtnSlots
  <2>1. /\ At' = "mark" /\ pc = "flipped" /\ mem' = SwapPtnGuids(mem) /\ UNCHANGED target
        /\ bootLun' = IF Device = "UFS" THEN BootLunFor(target, bootLun) ELSE bootLun
    BY <1>0, <1>5 DEF SwitchPtnSlots, FollowBootLun, Faultless, CallUpdate, At, slots
  <2>2. target \in Suffixes /\ \A i \in Boots : Primary[i].attr = mem[i].attr
    BY <1>0, <2>1 DEF AppSwitch, AppKnows, Arriving, Updating
  <2>3. Device = "UFS" => bootLun' = LunOf(target)
    <3>1. Device = "UFS" => bootLun \in {1, 2}
      BY DEF DxeInv, LunFollows
    <3> QED BY <2>1, <2>2, <3>1 DEF BootLunFor, LunOf
  <2>4. ASSUME NEW i \in Partitions
        PROVE  mem'[i].guid = Read[Twin[i]].guid /\ mem'[i].attr = mem[i].attr
    <3>1. \A j \in Partitions : mem[j].guid = Read[j].guid
      BY <1>0, <2>1 DEF SnapInv, Exchanged, Read
    <3> QED BY <1>0, <2>1, <3>1, SwapGives
  <2> QED BY <1>0, <2>1, <2>2, <2>3, <2>4, BootsAre DEF AppKnows, Exchanged, Marked
<1>6. CASE MarkPtnActive
  <2>1. /\ At' = "setDone" /\ pc = "mark" /\ mem' = MarkActive(mem, target)
        /\ UNCHANGED <<target, bootLun>>
    BY <1>0, <1>6 DEF MarkPtnActive, CallUpdate, At, slots, media
  <2>2. target \in Suffixes /\ Act(mem) = {target}
    BY <1>0, <2>1 DEF AppSwitch
  <2>3. \A i \in Partitions :
          /\ mem'[i].guid = mem[i].guid
          /\ mem'[i].attr.active <=> Ptn[i].slot = target
          /\ i \in Boots => mem'[i].attr = mem[i].attr
    BY <1>0, <2>1, <2>2, MarkGives
  <2>4. Exchanged
    BY <1>0, <2>1 DEF Exchanged
  <2> QED BY <1>0, <2>1, <2>3, <2>4, BootsAre DEF AppKnows, Exchanged, Marked
<1>7. CASE AppUpdateGuids \/ AppUpdateAttributes
  <2>1. /\ At' \in {"guidsDone", "reset"} /\ pc \in {"setDone", "guidsDone"}
        /\ UNCHANGED <<target, bootLun, mem>>
    BY <1>0, <1>7 DEF AppUpdateGuids, AppUpdateAttributes, CallUpdate, At, slots, media
  <2>2. /\ \A i \in Boots : Primary[i].attr = mem[i].attr
        /\ \A i \in Partitions : mem[i].guid = Read[Twin[i]].guid
        /\ Device = "UFS" => bootLun = LunOf(target)
        /\ \A i \in Partitions : mem[i].attr.active <=> Ptn[i].slot = target
    BY <1>0, <2>1 DEF AppKnows, Exchanged, Marked
  <2>3. \A i \in Boots : Primary'[i].attr = mem[i].attr
    BY <1>0, <2>2, BootsAre
  <2> QED BY <1>0, <2>1, <2>2, <2>3 DEF AppKnows
<1>8. ~RefreshBootLun
  BY <1>0, <1>1 DEF RefreshBootLun, AppKnows
<1>9. ~DxeCurrent /\ ~DxeDone
      /\ ~ClearUnbootable("_a", "clear_a", "clear_b")
      /\ ~ClearUnbootable("_b", "clear_b", "getActive")
  BY <1>0 DEF DxeCurrent, DxeDone, ClearUnbootable, AppSwitch
<1> QED BY <1>2, <1>3, <1>4, <1>5, <1>6, <1>7, <1>8, <1>9 DEF Working

LEMMA AppBoots ==
  ASSUME TypeInv, CopiesInv, WholeInv, SnapInv, DxeInv, SwitchInv, AppInv,
         PowerOn \/ RunApp \/ Load
  PROVE  AppInv'
<1>1. CASE PowerOn
  <2>1. pc' = "load" /\ \A i \in Partitions : EntriesOf(snap')[i] = Primary'[i]
    BY <1>1, ReadsPrimary DEF PowerOn, Goto
  <2> QED BY <2>1, BootsAre DEF AppInv, Loaded, Read
<1>2. CASE RunApp
  <2>1. pc = "bds" /\ pc' = "load" /\ Read' = Read /\ UNCHANGED disk
    BY <1>2 DEF RunApp, Goto, Read, media
  <2> QED BY <2>1, BootsAre, PrimaryIs DEF AppInv, Loaded
<1>3. CASE Load
  <2>1. /\ pc = "load" /\ mem' = Read /\ bak' = Read /\ pc' = "getActive" /\ ret' = "none"
        /\ Read' = Read /\ Cur' = Cur /\ UNCHANGED <<slots, disk>>
    BY <1>3, LoadsAll DEF Load, Goto, Read, Cur, media, TypeInv, Calls
  <2>2. ~Updating("ATTR")' /\ At' = "getActive" /\ ~Exchanged' /\ ~Marked'
    BY <2>1 DEF Updating, At, Exchanged, Marked
  <2>3. \A i \in NotBoot : Read[i].attr = Primary[i].attr /\ Primary'[i] = Primary[i]
    BY <2>1, BootsAre, PrimaryIs DEF AppInv
  <2>4. Tracks("ATTR", NotBoot)'
    BY <2>1, <2>2, <2>3 DEF Tracks, Half
  <2>5. Cur # NoSlot => Act(Read) \subseteq {Cur}
    <3>1. Sane(Read) /\ Read \in [Idx -> Entry]
      BY <2>1, EntriesOfType DEF SwitchInv, Read, TypeInv, TypeOK
    <3> QED BY <3>1, SaneHighest, HighestActiveType DEF Cur
  <2>6. AppKnows'
    BY <2>1, <2>2, <2>5 DEF AppKnows
  <2> QED BY <2>1, <2>3, <2>4, <2>6 DEF AppInv, Loaded
<1> QED BY <1>1, <1>2, <1>3

LEMMA AppStep ==
  ASSUME disturbed' = {}, PairsShareLun, OwnSuffixOnly, MediaBootLun, FaultlessInv,
         SwitchInv, AppInv, PassInv', [Next]_vars
  PROVE  AppInv'
<1>0. /\ TypeInv /\ CopiesInv /\ WalkInv /\ WholeInv /\ PassInv /\ SnapInv /\ DxeInv
      /\ Faultless'
  BY DEF FaultlessInv, UpdateInv, Faultless
<1>1. CASE UNCHANGED vars
  <2>1. \A i \in Partitions : Primary'[i] = Primary[i] /\ Arriving(i)' = Arriving(i)
    BY <1>1, PrimaryIs DEF vars, media, walk, Arriving, Updating, Passed
  <2>2. At' = At /\ Read' = Read /\ Cur' = Cur /\ Exchanged' = Exchanged /\ Marked' = Marked
    BY <1>1 DEF vars, slots, At, Read, Cur, Exchanged, Marked
  <2>3. Tracks("ATTR", NotBoot) => Tracks("ATTR", NotBoot)'
    BY <1>1, <2>1, BootsAre DEF vars, media, walk, Tracks, Updating, Passed, Seen
  <2>4. AppKnows => AppKnows'
    BY <1>1, <2>1, <2>2, BootsAre DEF vars, media, slots, walk, AppKnows
  <2> QED BY <1>1, <2>1, <2>2, <2>3, <2>4, BootsAre DEF vars, slots, AppInv, Loaded
<1>2. CASE PowerLoss
  BY <1>2 DEF PowerLoss, AppInv, Loaded
<1>3. CASE PowerOn \/ RunApp \/ Load
  BY <1>0, <1>3, AppBoots
<1>4. CASE Walking
  <2>1. /\ UNCHANGED <<snap, mem, img, At>> /\ Loaded /\ pc' # "load" /\ pc' # "bds"
    BY <1>0, <1>4, WalkingKeeps DEF slots
  <2>2. Tracks("ATTR", NotBoot)'
    BY <1>0, <1>4, <2>1, WalkingTracks, WholeUsed, BootsAre DEF AppInv, PassInv, Halves
  <2>3. img = "app" => AppKnows'
    BY <1>0, <1>4, <2>1, AppWalking DEF AppInv
  <2> QED BY <2>1, <2>2, <2>3 DEF AppInv, Marked, Read
<1>5. CASE Working
  <2>1. /\ UNCHANGED <<disk, snap, img>> /\ Loaded /\ ret = "none" /\ At = pc
        /\ img \in {"dxe", "app"} /\ Read' = Read
    BY <1>0, <1>5, WorkingKeeps DEF TypeInv, TypeOK, Read
  <2>2. CASE ~Loaded'
    <3>1. pc' = "bds" /\ pc \in {"gotCurrent", "set", "setDone"}
          /\ (pc = "setDone" => img = "dxe")
      BY <1>5, <2>2, WorkingKeeps
      DEF Exit, Loaded, Working, GetActiveSlot, DxeCurrent, AppCurrent, ClearUnbootable,
          SetActiveSlot, RefreshBootLun, SwitchPtnSlots, MarkPtnActive, DxeDone,
          AppUpdateGuids, AppUpdateAttributes, Goto, CallUpdate, Caller
    <3>2. \A i \in NotBoot : Read[i].attr = Primary[i].attr /\ Primary'[i] = Primary[i]
      BY <2>1, <3>1, BootsAre, PrimaryIs DEF AppInv, Marked, Tracks, Updating, Half
    <3> QED BY <2>1, <2>2, <3>2 DEF AppInv
  <2>3. CASE Loaded'
    <3>1. pc' # "load" /\ pc' # "bds"
      BY <2>3 DEF Loaded
    <3>2. CASE MarkPtnActive
      <4>1. img = "app" /\ At' = "setDone"
        BY <1>0, <2>1, <3>2 DEF DxeInv, DxeKnows, MarkPtnActive, CallUpdate, At
      <4>2. Updating("ATTR")'
        BY <3>2 DEF MarkPtnActive, CallUpdate, Updating
      <4>3. Tracks("ATTR", NotBoot)'
        BY <1>0, <1>5, <2>1, <2>3, <4>2, WorkingTracks, BootsAre DEF AppInv, Halves
      <4>4. AppKnows'
        BY <1>0, <1>5, <2>1, <2>3, <4>1, AppWorking DEF AppInv
      <4> QED BY <2>1, <3>1, <4>1, <4>3, <4>4 DEF AppInv, Marked
    <3>3. CASE ~MarkPtnActive
      <4>1. \A i \in NotBoot : mem'[i].attr = mem[i].attr
        BY <1>0, <1>5, <2>3, <3>3, MemAttrs
      <4>2. Tracks("ATTR", NotBoot)'
        BY <1>0, <1>5, <2>1, <2>3, <4>1, WorkingTracks, BootsAre DEF AppInv, Halves, Half
      <4>3. img = "app" => AppKnows'
        BY <1>0, <1>5, <2>1, <2>3, AppWorking DEF AppInv
      <4>4. ~Marked' => ~Marked
        BY <1>5, <2>1, <2>3
        DEF Working, GetActiveSlot, DxeCurrent, AppCurrent, ClearUnbootable, SetActiveSlot,
            RefreshBootLun, SwitchPtnSlots, MarkPtnActive, DxeDone, AppUpdateGuids,
            AppUpdateAttributes, CallUpdate, Goto, Exit, Marked, At, Loaded
      <4> QED BY <2>1, <2>3, <3>1, <4>1, <4>2, <4>3, <4>4 DEF AppInv
    <3> QED BY <3>2, <3>3
  <2> QED BY <2>2, <2>3
<1>6. CASE TornWrite
  BY <1>6 DEF TornWrite
<1> QED BY <1>1, <1>2, <1>3, <1>4, <1>5, <1>6, Steps DEF Reset, Crash

-------------------------------------------------------------------------------
(* A switch in a boot that nothing disturbs                                 *)

CompleteInv == FaultlessInv /\ SwitchInv /\ RestInv /\ MirrorInv /\ AppInv

LEMMA CompleteInit ==
  ASSUME MediaWhole, MediaSane
  PROVE  Init => CompleteInv
<1> SUFFICES ASSUME Init PROVE CompleteInv
  OBVIOUS
<1>1. FaultlessInv /\ SwitchInv
  BY FaultlessInit, SwitchInit
<1>2. RestInv /\ AppInv
  BY DEF Init, RestInv, AppInv, Loaded
<1>3. MirrorInv
  BY DEF Init, MirrorInv, Pending, Sealed, IsValid
<1> QED BY <1>1, <1>2, <1>3 DEF CompleteInv

\* No disturbance but a crash is ever forgotten, and that only by a boot that
\* begins with copies that are alike.
LEMMA DisturbedGrows ==
  [Next]_vars => \/ disturbed \subseteq disturbed'
                 \/ PowerOn /\ Alike' /\ disturbed' = disturbed \ {"crash"}
  BY DEF Next, Firmware, Environment, vars, Load, GetActiveSlot, DxeCurrent, AppCurrent,
     ClearUnbootable, SetActiveSlot, RefreshBootLun, SwitchPtnSlots, FollowBootLun,
     MarkPtnActive, DxeDone, AppUpdateGuids, AppUpdateAttributes, Update, NextLun, ReadCopy,
     Fault, SkipEntry, UpdateGuid, UpdateAttr, GuidMismatch, EndWalk, WriteCopy, PowerOn,
     RunApp, Reset, Crash, TornWrite

LEMMA OwnSuffixNames == OwnSuffixOnly => BootNames
  BY BootIdxType DEF OwnSuffixOnly, BootNames

LEMMA CompleteStep ==
  ASSUME disturbed' = {}, RepairAssumption, PairsShareLun, OwnSuffixOnly, MediaBootLun,
         CompleteInv, [Next]_vars
  PROVE  CompleteInv'
<1>0. /\ FaultlessInv /\ SwitchInv /\ RestInv /\ MirrorInv /\ AppInv
      /\ Faultless' /\ OnlyCrashed' /\ BootNames
      /\ TypeInv /\ WalkInv /\ WholeInv /\ PassInv
  BY OwnSuffixNames DEF CompleteInv, Faultless, OnlyCrashed, FaultlessInv, UpdateInv
<1>1. FaultlessInv' /\ PassInv'
  BY <1>0, FaultlessStep DEF FaultlessInv
<1>2. SwitchInv'
  BY <1>0, SwitchStep
<1>3. RestInv' /\ MirrorInv'
  BY <1>0, RestStep, MirrorStep, WholeUsed
<1>4. AppInv'
  BY <1>0, <1>1, AppStep
<1> QED BY <1>1, <1>2, <1>3, <1>4 DEF CompleteInv

\* Nothing of earlier boots is left but the tables and the boot LUN: when the
\* copies are alike, a boot begins like the first one.
LEMMA CompleteBoots ==
  ASSUME PowerOn, Alike', FaultlessInv, SwitchInv
  PROVE  RestInv' /\ MirrorInv' /\ AppInv'
<1>1. pc = "off" /\ pc' = "load"
  BY DEF PowerOn, Goto
<1>2. RestInv'
  BY <1>1 DEF RestInv
<1>3. MirrorInv'
  BY <1>1 DEF MirrorInv, Pending, Alike, Copies, IsValid
<1>4. AppInv
  BY <1>1 DEF AppInv, Loaded
<1>5. AppInv'
  BY <1>4, AppBoots DEF FaultlessInv, UpdateInv
<1> QED BY <1>2, <1>3, <1>5

LEMMA CompleteGives ==
  ASSUME CompleteInv, disturbed = {}
  PROVE  SwitchComplete
<1> SUFFICES ASSUME pc = "reset"
             PROVE  /\ \A i \in Idx, c \in Copies : Ptn[i].home # 0 =>
                         /\ DiskEntry(i, c).guid = Read[Twin[i]].guid
                         /\ DiskEntry(i, c).attr.active <=> Ptn[i].slot = target
                    /\ \A l \in Luns : disk[l]["primary"] = disk[l]["backup"]
                    /\ Device = "UFS" => bootLun = LunOf(target)
  BY DEF SwitchComplete, Read
<1>1. TypeInv /\ PassInv /\ DxeInv /\ MirrorInv /\ AppInv
  BY DEF CompleteInv, FaultlessInv, UpdateInv
<1>2. ret = "none" /\ At = "reset" /\ Loaded
  BY <1>1 DEF TypeInv, Calls, At, Loaded
<1>3. img = "app"
  BY <1>1, <1>2 DEF DxeInv, DxeKnows, TypeInv, TypeOK
<1>4. Exchanged /\ Marked /\ AppKnows /\ Tracks("ATTR", NotBoot) /\ Tracks("GUID", Partitions)
  BY <1>1, <1>2, <1>3 DEF Exchanged, Marked, AppInv, PassInv
<1>5. ASSUME NEW i \in Partitions
      PROVE  /\ Primary[i].guid = Read[Twin[i]].guid
             /\ Primary[i].attr.active <=> Ptn[i].slot = target
  <2>1. Primary[i].guid = mem[i].guid
    BY <1>2, <1>4 DEF Tracks, Updating, Half
  <2>2. Primary[i].attr = mem[i].attr
    BY <1>2, <1>4 DEF Tracks, Updating, Half, AppKnows, NotBoot
  <2> QED BY <1>4, <2>1, <2>2 DEF AppKnows
<1>6. \A l \in Luns : disk[l]["primary"] = disk[l]["backup"]
  BY <1>1 DEF MirrorInv, Pending
<1>7. ASSUME NEW i \in Idx, NEW c \in Copies, Ptn[i].home # 0
      PROVE  i \in Partitions /\ DiskEntry(i, c) = Primary[i]
  <2>1. i \in Partitions /\ Ptn[i].lun \in Luns
    BY <1>7, PrimaryIs DEF Partitions
  <2> QED BY <1>6, <2>1 DEF DiskEntry, Primary
<1>8. Device = "UFS" => bootLun = LunOf(target)
  BY <1>4 DEF AppKnows
<1> QED BY <1>5, <1>6, <1>7, <1>8

(* A switch is complete when SwitchSlotsApp resets: in both copies of every *)
(* table the type GUIDs of all pairs are exchanged, the partitions of the   *)
(* new slot are the active ones, the copies are the same, and the boot LUN  *)
(* belongs to the new slot.  The device may have been booted, switched and  *)
(* reset any number of times before, and have lost its power at any points  *)
(* of that, as long as this boot began with both copies of every table      *)
(* alike, and nothing disturbs this boot; no write was ever torn, and no    *)
(* I/O error reported.  That is so for pairs within one LUN and for names   *)
(* that contain no other suffix than their own (MarkPtnActive searches the  *)
(* whole name).                                                             *)
THEOREM SwitchIsComplete ==
  ASSUME RepairAssumption, PairsShareLun, OwnSuffixOnly, MediaWhole, MediaBootLun, MediaSane
  PROVE  Spec => []SwitchComplete
<1> DEFINE Inv == /\ Faultless => FaultlessInv
                  /\ OnlyCrashed => SwitchInv
                  /\ disturbed = {} => CompleteInv
<1>1. Init => Inv
  BY CompleteInit DEF CompleteInv
<1>2. Inv /\ [Next]_vars => Inv'
  <2> SUFFICES ASSUME Inv, [Next]_vars PROVE Inv'
    OBVIOUS
  <2>1. /\ Faultless' => Faultless
        /\ OnlyCrashed' => OnlyCrashed
        /\ OnlyCrashed => Faultless
    BY DisturbedGrows DEF Faultless, OnlyCrashed
  <2>2. Faultless' => FaultlessInv'
    BY <2>1, FaultlessStep
  <2>3. OnlyCrashed' => SwitchInv'
    BY <2>1, SwitchStep, OwnSuffixNames
  <2>4. ASSUME disturbed' = {} PROVE CompleteInv'
    <3>1. Faultless' /\ OnlyCrashed'
      BY <2>4 DEF Faultless, OnlyCrashed
    <3>2. CASE disturbed = {}
      BY <2>4, <3>2, CompleteStep
    <3>3. CASE disturbed # {}
      <4>1. PowerOn /\ Alike'
        BY <2>4, <3>3, DisturbedGrows
      <4> QED BY <2>1, <2>2, <2>3, <3>1, <4>1, CompleteBoots DEF CompleteInv
    <3> QED BY <3>2, <3>3
  <2> QED BY <2>2, <2>3, <2>4
<1>3. Inv => SwitchComplete
  BY CompleteGives DEF SwitchComplete
<1>4. Spec => []Inv
  <2> HIDE DEF Inv
  <2> QED BY <1>1, <1>2, PTL DEF Spec
<1> QED
  <2> HIDE DEF Inv
  <2> QED BY <1>3, <1>4, PTL

===============================================================================
