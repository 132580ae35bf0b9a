------------------------------ MODULE SlotSwitch ------------------------------
(***************************************************************************)
(* What the A/B slots promise: there is at most one active slot, it is     *)
(* chosen once, as slot _a, and from then on it changes in one step, to    *)
(* the other slot, and only while the user wants that.                     *)
(***************************************************************************)
VARIABLES
  slot,    \* the active slot, "none" before the first boot
  wanted   \* the slot SwitchSlotsApp was started to make active, or "none"

Slots    == {"_a", "_b"}
Other(s) == IF s = "_a" THEN "_b" ELSE "_a"

TypeOK == slot \in Slots \cup {"none"} /\ wanted \in Slots \cup {"none"}

Init == slot \in Slots \cup {"none"} /\ wanted = "none"

\* The first boot of a device without slot attributes.
Choose == slot = "none" /\ slot' = "_a" /\ UNCHANGED wanted

\* The user starts the application; it is for the slot that is not active.
Ask == wanted = "none" /\ slot # "none" /\ wanted' = Other(slot) /\ UNCHANGED slot

Switch == wanted # "none" /\ slot' = wanted /\ UNCHANGED wanted

\* The machine is reset, or the application ends.
Forget == wanted' = "none" /\ UNCHANGED slot

Next == Choose \/ Ask \/ Switch \/ Forget

Spec == Init /\ [][Next]_<<slot, wanted>>

===============================================================================
