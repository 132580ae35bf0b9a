---------------------------- MODULE MCKeypadConsole ----------------------------
(***************************************************************************)
(* Instances of KeypadConsole: a poll reports nothing, a key, or the       *)
(* partial key; another key is waited for and never typed.                 *)
(***************************************************************************)
EXTENDS KeypadConsole

CONSTANTS k1, k2, f1, f2

Wish(k, f) == [key |-> k, fn |-> f]

SomeBursts == { << >>, <<k1>>, <<Partial>> }
SomeWishes == { Wish(k1, f1), Wish(k1, f2), Wish(k2, f1) }

\* The functions are of the kind the theorems are about.
ASSUME InstancesFit == NobodyLeaves

===============================================================================
