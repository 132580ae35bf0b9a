------------------------------ MODULE MCBootSlot ------------------------------
(***************************************************************************)
(* Instances of BootSlot: a UFS device with two LUNs in use and one that   *)
(* is not configured, a UFS device with one LUN between two that are not   *)
(* configured, and an eMMC with one table.                                 *)
(***************************************************************************)
EXTENDS BootSlot

Handle(l) == [base |-> "", slot |-> "", holds |-> {}, lun |-> l, home |-> 0]
Slotted(base, s, l, p) ==
  [base |-> base, slot |-> s, holds |-> {s}, lun |-> l, home |-> p]
Plain(base, l, p) ==
  [base |-> base, slot |-> "", holds |-> {}, lun |-> l, home |-> p]

UfsPtn == << Handle(1), Slotted("system", "_a", 1, 1), Slotted("system", "_b", 1, 2),
             Handle(2), Slotted("boot", "_a", 2, 1), Slotted("boot", "_b", 2, 2),
             Plain("userdata", 2, 3) >>
UfsGuid == << "data", "live", "idle", "data", "live", "idle", "data" >>

OneLun(l) == << Handle(l), Slotted("boot", "_a", l, 1), Slotted("boot", "_b", l, 2) >>
OneLunPtn == OneLun(0)
MiddleLunPtn == OneLun(1)
OneLunGuid == << "data", "live", "idle" >>

TwoPairsPtn == << Handle(0), Slotted("system", "_a", 0, 1), Slotted("boot", "_a", 0, 2),
                  Slotted("system", "_b", 0, 3), Slotted("boot", "_b", 0, 4) >>
TwoPairsGuid == << "data", "sys_a", "boot_a", "sys_b", "boot_b" >>

-------------------------------------------------------------------------------
(* Attributes of boot_a and boot_b a device may come with                  *)

Bits(prio, active, retry, succ, unboot) ==
  [prio |-> prio, active |-> active, retry |-> retry, succ |-> succ,
   unboot |-> unboot]

Factory == [s \in Suffixes |-> NoAttr]

\* Slot s is active, and the other one is left from an earlier update.
Running(s, a) ==
  [x \in Suffixes |-> IF x = s THEN a ELSE Bits(2, FALSE, 0, FALSE, TRUE)]

\* The tables when slot s is active and the boot entries have attributes a.
Tables(s, a) ==
  [l \in Luns |-> [p \in Pos |->
     IF \E i \in On[l] : Ptn[i].home = p
     THEN LET i == CHOOSE i \in On[l] : Ptn[i].home = p
          IN [guid |-> IF s = "_b" THEN HomeGuid[Twin[i]] ELSE HomeGuid[i],
              attr |-> IF Ptn[i].base = "boot" THEN a[Ptn[i].slot]
                       ELSE [NoAttr EXCEPT !.active = Ptn[i].slot = s]]
     ELSE Unused]]

Medium(s, a, l) == [tab |-> Tables(s, a), bootLun |-> l]

Good == Bits(3, TRUE, 7, TRUE, FALSE)
Worn == Bits(3, TRUE, 0, FALSE, TRUE)

UfsMedia == { Medium("_a", Factory, 1), Medium("_a", Running("_a", Worn), 2) }

FactoryNew == { Medium("_a", Factory, 1) }
FactoryNoBootLun == { Medium("_a", Factory, 0) }
ActiveA == { Medium("_a", Running("_a", Good), 1) }

\* The instances are of the kind the theorems are about.
ASSUME InstancesFit ==
  /\ RepairAssumption /\ PairsShareLun /\ OwnSuffixOnly /\ BootNames
  /\ MediaWhole /\ MediaSane
  /\ NoFault => MediaBootLun

===============================================================================
