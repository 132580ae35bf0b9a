---------------------------- MODULE MCUfsProvision ----------------------------
(***************************************************************************)
(* Instances of UfsProvision: a device of 200 segments of 2 MB with three  *)
(* logical units, new, or configured for another product.                  *)
(***************************************************************************)
EXTENDS UfsProvision

SmallDevice == [total |-> 200 * 4096, segment |-> 4096, alloc |-> 1, factor |-> 3]
LargeDevice == [SmallDevice EXCEPT !.total = 600 * 4096]

Ask(o, b, e, mb) ==
  [on |-> o, boot |-> b, enhanced |-> e, mb |-> mb]
Lu(o, b, e, u) ==
  [on |-> o, boot |-> b, enhanced |-> e, units |-> u]

\* Unit 0 takes the rest, unit 1 is a boot unit; sizes that leave a rest, none
\* and a unit that is off.
Tail(a, b) == [l \in Luns |-> IF l = 0 THEN Ask(TRUE, 0, FALSE, 0)
                              ELSE IF l = 1 THEN a ELSE b]
SmallTargets == { Tail(Ask(TRUE, 1, TRUE, 3), Ask(TRUE, 0, FALSE, 7)),
                  Tail(Ask(TRUE, 1, TRUE, 4), Ask(TRUE, 0, FALSE, 8)),
                  Tail(Ask(TRUE, 1, TRUE, 4), Ask(FALSE, 0, FALSE, 0)) }

\* 511 MB are 255 and a half units of 2 MB.
EdgeTargets == { Tail(Ask(TRUE, 1, TRUE, 4), Ask(TRUE, 0, FALSE, 511)) }

Others(r, a, b) == [l \in Luns |-> IF l = 0 THEN r ELSE IF l = 1 THEN a ELSE b]
New        == [l \in Luns |-> Empty]
NewLayouts == { New }
AnyLayouts ==
  { New,
    Others(Lu(TRUE, 0, FALSE, 190), Lu(TRUE, 1, TRUE, 4), Lu(TRUE, 0, FALSE, 4)),
    Others(Lu(TRUE, 0, FALSE, 192), Lu(TRUE, 1, TRUE, 4), Lu(TRUE, 0, FALSE, 4)),
    Others(Lu(TRUE, 0, FALSE, 100), Lu(TRUE, 0, FALSE, 100), Lu(FALSE, 0, FALSE, 0)) }

\* The instances are of the kind the theorems are about; that of the finding asks
\* for a size that is rounded up to a multiple of Byte.
ASSUME InstancesFit == TargetsFit /\ (NoCarry <=> Targets # EdgeTargets)

===============================================================================
