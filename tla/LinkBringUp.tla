------------------------------ MODULE LinkBringUp ------------------------------
(***************************************************************************)
(* What ufs_init promises about the link to the UFS device: it is tried    *)
(* until it is up or MaxAttempts attempts have failed, and not once more.  *)
(* Only a link that is up is used.                                         *)
(***************************************************************************)
EXTENDS Naturals

CONSTANT MaxAttempts   \* attempts before it is given up, at least one

VARIABLES tries,   \* attempts that failed
          link     \* "off", "trying", "up", or "given_up" for good

Init == tries = 0 /\ link = "off"

Attempt == link = "off" /\ tries < MaxAttempts /\ link' = "trying" /\ UNCHANGED tries

Succeed == link = "trying" /\ link' = "up" /\ UNCHANGED tries

Fail ==
  /\ link = "trying"
  /\ tries' = tries + 1
  /\ link' = IF tries' < MaxAttempts THEN "off" ELSE "given_up"

\* The host itself cannot be set up.
NoHost == link = "off" /\ tries = 0 /\ link' = "given_up" /\ UNCHANGED tries

Next == Attempt \/ Succeed \/ Fail \/ NoHost

Spec == Init /\ [][Next]_<<tries, link>>

===============================================================================
