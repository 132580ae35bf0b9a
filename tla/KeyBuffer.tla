------------------------------- MODULE KeyBuffer -------------------------------
(***************************************************************************)
(* What a console promises of the keys typed on it: they are read in the   *)
(* order they were typed in, and when nobody reads them the latest ones    *)
(* are kept.                                                               *)
(***************************************************************************)
EXTENDS Naturals, Sequences

CONSTANTS
  Bursts,    \* the sequences of keys that may be typed at once
  Partial,   \* a key without a meaning of its own, kept only on demand
  Capacity,  \* keys that are kept
  Nothing    \* what is read when there is no key

VARIABLES
  keys,      \* the keys to be read
  got        \* what was read last

Latest(s) == IF Len(s) <= Capacity THEN s
             ELSE SubSeq(s, Len(s) - Capacity + 1, Len(s))

\* The burst without its partial keys.
Complete(burst) ==
  LET c[i \in 0 .. Len(burst)] ==
        IF i = 0 THEN << >>
        ELSE IF burst[i] = Partial THEN c[i - 1] ELSE Append(c[i - 1], burst[i])
  IN c[Len(burst)]

\* The keys there are once burst was typed, with its partial keys or without.
Typed(burst) == { Latest(keys \o burst), Latest(keys \o Complete(burst)) }

Init == keys = << >> /\ got = Nothing

Type == \E b \in Bursts : keys' \in Typed(b) /\ UNCHANGED got

Read == \E b \in Bursts : \E s \in Typed(b) :
          IF s = << >> THEN keys' = << >> /\ got' = Nothing
                       ELSE keys' = Tail(s) /\ got' = Head(s)

\* Partial keys are no reason to end a wait.
Await == \E b \in Bursts : \E s \in Typed(b) : \E n \in 0 .. Len(s) :
           /\ \A i \in 1 .. n : s[i] = Partial
           /\ keys' = SubSeq(s, n + 1, Len(s))
           /\ UNCHANGED got

Clear == keys' = << >> /\ UNCHANGED got

Next == Type \/ Read \/ Await \/ Clear

Spec == Init /\ [][Next]_<<keys, got>>

===============================================================================
