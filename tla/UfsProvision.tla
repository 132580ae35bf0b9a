----------------------------- MODULE UfsProvision -----------------------------
(***************************************************************************)
(* ufs_set_configuration_descriptor of Exynos9820Pkg (ufs.c): compare the  *)
(* configuration of the logical units with the one that is wanted and, as  *)
(* long as they differ, write the wanted one, up to MaxRetries times.      *)
(*                                                                         *)
(* The driver compares and edits its own copy of the configuration         *)
(* descriptor.  What a query does to that copy is UfsTransport's subject;  *)
(* here a query is answered, or it fails, or it is silent: the driver      *)
(* times out waiting, or does not see that it failed, and goes on as if it *)
(* had been answered.                                                      *)
(*                                                                         *)
(* A definition marked "mutant" is a faulty variant of the one that        *)
(* follows it; no specification uses it.                                   *)
(***************************************************************************)
EXTENDS Integers

CONSTANTS
  NumLuns,     \* logical units (8 in the code)
  MaxRetries,  \* retry_count
  Targets,     \* what LU_conf may ask for, and ...
  Layouts,     \* ... the configurations a device may come with
  Geometry,    \* the geometry of the device
  Byte, Word,  \* values of a byte and of a word (2^8 and 2^32)
  Outcomes     \* how queries end, some of AllOutcomes

Luns        == 0 .. NumLuns - 1
AllOutcomes == {"answered", "failed", "silent"}

(***************************************************************************)
(* total: capacity in sectors (qTotalRawDeviceCapacity_l); segment:        *)
(* sectors in a segment; alloc: segments in an allocation unit; factor:    *)
(* raw sectors for a sector of enhanced memory.                            *)
(***************************************************************************)
GeometryDesc == [total: 0 .. Word - 1, segment: 0 .. Word - 1, alloc: 0 .. Byte - 1,
                 factor: Nat]
Unread       == [total |-> 0, segment |-> 0, alloc |-> 0, factor |-> 0]

\* A logical unit as LU_conf asks for it, mb megabytes large (0: whatever is
\* left, for one that is on), and as configured, units allocation units large.
\* The fields that are only copied and compared are represented by boot.
Wanted     == [on: BOOLEAN, boot: 0 .. 2, enhanced: BOOLEAN, mb: Nat]
Configured == [on: BOOLEAN, boot: 0 .. 2, enhanced: BOOLEAN, units: 0 .. Word - 1]
Empty      == [on |-> FALSE, boot |-> 0, enhanced |-> FALSE, units |-> 0]

ASSUME ProvisionAssumption ==
  /\ NumLuns \in Nat \ {0} /\ MaxRetries \in Nat
  /\ Byte \in Nat \ {0} /\ Word \in Nat \ {0} /\ Word % Byte = 0
  /\ Targets \subseteq [Luns -> Wanted] /\ Layouts \subseteq [Luns -> Configured]
  /\ Geometry \in GeometryDesc
  /\ Geometry.segment > 0 /\ Geometry.alloc > 0
  /\ Outcomes \subseteq AllOutcomes

VARIABLES
  want,        \* LU_conf
  dev, devBoot,\* configuration of the device; are its boot units enabled?
  conf, boot,  \* the driver's copies of both
  geo,         \* its copy of the geometry
  pc, lun, retry, ret,
  enumerated,  \* are the block devices found by scsi_scan registered?
  trouble      \* history: how queries ended that were not answered

device == <<want, dev, devBoot>>
copies == <<conf, boot, geo>>
vars   == <<device, copies, pc, lun, retry, ret, enumerated, trouble>>

-------------------------------------------------------------------------------
(* Sizes                                                                   *)

\* Division on this processor yields 0 when the divisor is.
Div(a, b) == IF b = 0 THEN 0 ELSE a \div b
Mod(a, b) == IF b = 0 THEN a ELSE a % b

\* Products are words.
AllocSectors(g)        == (g.alloc * g.segment) % Word
Sectors(mb)            == (2048 * mb) % Word
EnhancedSectors(g, mb) == (Sectors(mb) * g.factor) % Word

\* Allocation units for mb megabytes of enhanced and of normal memory, according
\* to the geometry g.
EnhancedUnits(g, mb) == Div(EnhancedSectors(g, mb), AllocSectors(g))
NormalUnits(g, mb)   == Div(Sectors(mb), AllocSectors(g))
LeavesRest(g, mb)    == Mod(Sectors(mb), AllocSectors(g)) # 0

\* One more unit.  The addition is done on the value with its bytes swapped,
\* so that there is no carry out of the lowest byte.
PlusOne(n) == (n - (n % Byte)) + ((n + 1) % Byte)

\* Sums(u)[k] is u[0] + ... + u[k - 1].
Sums(u) ==
  LET sum[k \in 0 .. NumLuns] == IF k = 0 THEN 0 ELSE sum[k - 1] + u[k - 1]
  IN sum

UnitsOf(c, luns) == Sums([l \in Luns |-> IF l \in luns THEN c[l].units ELSE 0])[NumLuns]

\* What is left for the unit that takes all the rest, a word: in segments, also
\* where an allocation unit has several.
Rest(g, taken) == (Div(g.total, g.segment) - taken) % Word

-------------------------------------------------------------------------------
(* ufs_check_config_desc                                                   *)

Init ==
  /\ want \in Targets /\ dev \in Layouts /\ devBoot \in BOOLEAN
  /\ conf = [l \in Luns |-> Empty] /\ boot = FALSE /\ geo = Unread
  /\ pc = "device" /\ lun = 0 /\ retry = 0 /\ ret = 0
  /\ enumerated = TRUE /\ trouble = {}

Ended(o) == trouble' = trouble \cup ({o} \ {"answered"})

\* The loop is left: after a retry the function reports success.
Leave ==
  /\ pc' = "done"
  /\ ret' = IF retry > 0 THEN 1 ELSE ret
  /\ enumerated' = (enumerated /\ retry = 0)

\* After a failed query the check counts as passed.
FailedQueryFailsCheck(o, next) ==                                 \* mutant
  IF o = "failed" THEN pc' = "compare" /\ UNCHANGED <<ret, enumerated>>
                  ELSE pc' = next /\ UNCHANGED <<ret, enumerated>>

CheckGoesOn(o, next) ==
  IF o = "failed" THEN Leave
                  ELSE pc' = next /\ UNCHANGED <<ret, enumerated>>

ReadDevice(o) ==
  /\ pc = "device"
  /\ CheckGoesOn(o, "geometry") /\ Ended(o)
  /\ UNCHANGED <<device, copies, lun, retry>>

ReadGeometry(o) ==
  /\ pc = "geometry"
  /\ geo' = IF o = "answered" THEN Geometry ELSE geo
  /\ CheckGoesOn(o, "config") /\ Ended(o)
  /\ UNCHANGED <<device, conf, boot, lun, retry>>

\* Without an answer the copy stays as it is: perhaps as the driver edited it.
ReadConfig(o) ==
  /\ pc = "config"
  /\ conf' = IF o = "answered" THEN dev ELSE conf
  /\ CheckGoesOn(o, "bootEn") /\ Ended(o)
  /\ UNCHANGED <<device, boot, geo, lun, retry>>

\* An attribute that is not answered reads as zero.
ReadBootEn(o) ==
  /\ pc = "bootEn"
  /\ boot' = IF o = "failed" THEN boot ELSE o = "answered" /\ devBoot
  /\ CheckGoesOn(o, "compare") /\ Ended(o)
  /\ UNCHANGED <<device, conf, geo, lun, retry>>

\* dNumAllocUnits of unit l.  That of a unit without a wanted size must differ
\* from what the units from l on leave.
SizeFits(l) ==
  LET w == want[l]
  IN IF w.mb = 0
     THEN conf[l].units # Rest(geo, UnitsOf(conf, l .. NumLuns - 1))
     ELSE IF w.enhanced
     THEN conf[l].units = EnhancedUnits(geo, w.mb)
     ELSE conf[l].units = NormalUnits(geo, w.mb) + (IF LeavesRest(geo, w.mb) THEN 1 ELSE 0)

Passes ==
  /\ boot
  /\ \A l \in Luns : /\ conf[l].on = want[l].on
                     /\ conf[l].boot = want[l].boot
                     /\ conf[l].enhanced = want[l].enhanced
                     /\ SizeFits(l)

-------------------------------------------------------------------------------
(* ufs_set_configuration_descriptor                                        *)

CompareUncounted ==                                               \* mutant
  /\ pc = "compare"
  /\ IF Passes
     THEN Leave /\ UNCHANGED <<lun, retry>>
     ELSE /\ pc' = "edit" /\ lun' = NumLuns - 1
          /\ UNCHANGED <<retry, ret, enumerated>>
  /\ UNCHANGED <<device, copies, trouble>>

CompareOnceMore ==                                                \* mutant
  /\ pc = "compare"
  /\ IF Passes \/ retry > MaxRetries
     THEN Leave /\ UNCHANGED <<lun, retry>>
     ELSE /\ pc' = "edit" /\ lun' = NumLuns - 1
          /\ retry' = retry + 1 /\ ret' = 0
          /\ UNCHANGED enumerated
  /\ UNCHANGED <<device, copies, trouble>>

Compare ==
  /\ pc = "compare"
  /\ IF Passes \/ retry = MaxRetries
     THEN Leave /\ UNCHANGED <<lun, retry>>
     ELSE /\ pc' = "edit" /\ lun' = NumLuns - 1
          /\ retry' = retry + 1 /\ ret' = 0
          /\ UNCHANGED enumerated
  /\ UNCHANGED <<device, copies, trouble>>

\* Mutant of EditedUnits: no unit is added for a size that leaves a rest.
EditedUnitsTruncated(g, c, l) ==
  LET w == want[l]
  IN IF w.mb > 0
     THEN IF w.boot > 0 THEN EnhancedUnits(g, w.mb) ELSE NormalUnits(g, w.mb)
     ELSE IF w.on THEN Rest(g, UnitsOf(c, Luns \ {l})) ELSE 0

\* The units ufs_edit_config_desc gives to l in the copy c.
EditedUnits(g, c, l) ==
  LET w == want[l]
      n == NormalUnits(g, w.mb)
  IN IF w.mb > 0
     THEN IF w.boot > 0 THEN EnhancedUnits(g, w.mb)
          ELSE IF LeavesRest(g, w.mb) THEN PlusOne(n) ELSE n
     ELSE IF w.on THEN Rest(g, UnitsOf(c, Luns \ {l})) ELSE 0

\* It first reads two descriptors, that of the geometry last.  When that fails the
\* unit is not edited, and the loop goes on all the same.
Edit(o) ==
  /\ pc = "edit"
  /\ geo' \in (IF o # "answered" THEN {geo} ELSE {})
              \cup (IF o # "failed" THEN {Geometry} ELSE {})
  /\ conf' = IF o = "failed" THEN conf
             ELSE [conf EXCEPT ![lun] =
                     [on |-> want[lun].on, boot |-> want[lun].boot,
                      enhanced |-> want[lun].enhanced,
                      units |-> EditedUnits(geo', conf, lun) % Word]]
  /\ IF lun = 0 THEN pc' = "write" /\ UNCHANGED lun
                ELSE lun' = lun - 1 /\ UNCHANGED pc
  /\ Ended(o)
  /\ UNCHANGED <<device, boot, retry, ret, enumerated>>

\* An unanswered write may have been executed or not.
WriteConfig(o) ==
  /\ pc = "write"
  /\ dev' \in (IF o # "failed" THEN {conf} ELSE {dev})
              \cup (IF o # "answered" THEN {dev} ELSE {})
  /\ IF o = "failed" THEN pc' = "device" /\ ret' = -1
                     ELSE pc' = "enable" /\ ret' = 0
  /\ Ended(o)
  /\ UNCHANGED <<want, devBoot, copies, lun, retry, enumerated>>

EnableBoot(o) ==
  /\ pc = "enable"
  /\ boot' = TRUE
  /\ devBoot' \in (IF o # "failed" THEN {TRUE} ELSE {devBoot})
                  \cup (IF o # "answered" THEN {devBoot} ELSE {})
  /\ pc' = "device" /\ ret' = IF o = "failed" THEN -1 ELSE 0
  /\ Ended(o)
  /\ UNCHANGED <<want, dev, conf, geo, lun, retry, enumerated>>

Query(o) == \/ ReadDevice(o) \/ ReadGeometry(o) \/ ReadConfig(o) \/ ReadBootEn(o)
            \/ Edit(o) \/ WriteConfig(o) \/ EnableBoot(o)

Next == Compare \/ \E o \in Outcomes : Query(o)

Spec == Init /\ [][Next]_vars

\* Every query returns (CallReturns of UfsTransport), so the function goes on.
FairSpec == Spec /\ WF_vars(Next)

-------------------------------------------------------------------------------
(* Properties                                                              *)

TypeOK ==
  /\ want \in Targets /\ dev \in [Luns -> Configured] /\ devBoot \in BOOLEAN
  /\ conf \in [Luns -> Configured] /\ boot \in BOOLEAN
  /\ geo \in {Geometry, Unread}
  /\ pc \in {"device", "geometry", "config", "bootEn", "compare", "edit",
             "write", "enable", "done"}
  /\ lun \in Luns /\ retry \in 0 .. MaxRetries /\ ret \in {-1, 0, 1}
  /\ enumerated \in BOOLEAN /\ trouble \subseteq Outcomes

(* What LU_conf asks for: every unit of a given size is as large as that,   *)
(* by less than one allocation unit too large (too small for enhanced       *)
(* memory), and the one without a size has all allocation units the others  *)
(* leave (the comment in ufs_check_available_blocks).  Nothing wraps here.  *)
Fits(units, l) ==
  LET w    == want[l]
      au   == Geometry.alloc * Geometry.segment
      size == 2048 * w.mb * (IF w.enhanced THEN Geometry.factor ELSE 1)
      all  == (Geometry.total \div Geometry.segment) \div Geometry.alloc
  IN IF w.mb = 0
     THEN units = IF w.on THEN all - UnitsOf(dev, Luns \ {l}) ELSE 0
     ELSE IF w.enhanced THEN units * au <= size /\ size < (units + 1) * au
     ELSE size <= units * au /\ units * au < size + au

UnitAsWanted(l) ==
  /\ dev[l].on = want[l].on /\ dev[l].boot = want[l].boot
  /\ dev[l].enhanced = want[l].enhanced
  /\ Fits(dev[l].units, l)

AsWanted == devBoot /\ \A l \in Luns : UnitAsWanted(l)

(* A device that is configured as wanted is left alone, whichever queries   *)
(* fail: a check that cannot read the device passes (ufs_check_config_desc  *)
(* returns 0).  Not so when the driver goes on without an answer.           *)
ConfiguredUntouched ==
  [][ AsWanted /\ "silent" \notin trouble' => UNCHANGED <<dev, devBoot>> ]_vars

(* When every query is answered, at most one configuration is written, and  *)
(* if one is the device ends as wanted: what ufs_edit_config_desc computes  *)
(* passes ufs_check_config_desc, which computes the sizes in another way.   *)
(* If none is, all units are as wanted but perhaps the one that takes the   *)
(* rest, whose size the check does not really look at.                      *)
QuietRunConfigures ==
  pc = "done" /\ trouble = {} =>
    \/ retry <= 1 /\ AsWanted
    \/ retry = 0 /\ devBoot /\ \A l \in Luns : want[l].mb = 0 \/ UnitAsWanted(l)

(* The function returns, whatever the queries do.                           *)
Finishes == <>(pc = "done")

(* "1: LU configuration done, others: uncorrectable error": when 1 is       *)
(* returned the device is configured.                                       *)
DoneMeansConfigured == pc = "done" /\ ret = 1 => AsWanted

-------------------------------------------------------------------------------
(* What the code takes for granted of LU_conf and of the device: the        *)
(* theorems assume it.                                                      *)

Au  == Geometry.alloc * Geometry.segment
All == Geometry.total \div Geometry.segment

\* The size that is wanted, in sectors of the device, and the allocation units of
\* a logical unit of that size.
Size(w) == 2048 * w.mb * (IF w.enhanced THEN Geometry.factor ELSE 1)

Needed(w) ==
  IF w.mb = 0 THEN 0
  ELSE Size(w) \div Au + (IF ~w.enhanced /\ Size(w) % Au # 0 THEN 1 ELSE 0)

InUse(t) == Sums([l \in Luns |-> Needed(t[l])])[NumLuns]

\* The unit that takes the rest is unit 0 ("User LU Case: LU0"), ...
RestIsFirst == \A t \in Targets, l \in Luns : t[l].mb = 0 /\ t[l].on => l = 0

\* ... the boot units are those in enhanced memory, ...
BootIsEnhanced ==
  \A t \in Targets, l \in Luns : t[l].mb > 0 => (t[l].boot > 0 <=> t[l].enhanced)

\* ... the units of a given size leave something on the device, ...
RoomLeft == \A t \in Targets : InUse(t) < All

\* ... an allocation unit is one segment (the rest is computed in segments), ...
OneSegmentUnits == Geometry.alloc = 1

\* ... all sizes are less than 2 TB, raw sectors counted, ...
NoWrap == \A t \in Targets, l \in Luns : 2048 * t[l].mb < Word /\ Size(t[l]) < Word

\* ... and none is rounded up to a multiple of Byte allocation units.
NoCarry ==
  \A t \in Targets, l \in Luns :
    t[l].mb > 0 /\ ~t[l].enhanced /\ Size(t[l]) % Au # 0
      => Needed(t[l]) % Byte # 0

TargetsFit == RestIsFirst /\ BootIsEnhanced /\ RoomLeft /\ OneSegmentUnits /\ NoWrap

===============================================================================
