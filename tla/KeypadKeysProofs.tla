--------------------------- MODULE KeypadKeysProofs ---------------------------
(***************************************************************************)
(* Proofs about KeypadKeys: its type invariant, that no press is lost or   *)
(* told twice, and that a combination is one of keys that are down now, for *)
(* any debouncing, repeat and long-press times and any pace of the polls.  *)
(***************************************************************************)
EXTENDS KeypadKeys, TLAPS

\* What has been reported of the press of k that is going on.
PressInv(k) ==
  /\ ctx[k].state = "released" => ~ctx[k].longpress /\ ~ctx[k].repeat
  /\ ctx[k].state = "pressed" /\ ~ctx[k].longpress =>
       reports[k] = 0 /\ ~ctx[k].repeat
  /\ ctx[k].state = "pressed" /\ ctx[k].longpress /\ k = "power" =>
       reports[k] = 1 /\ ~ctx[k].repeat
  /\ ctx[k].state = "pressed" /\ ctx[k].longpress /\ reports[k] = 0 =>
       k \in withPower
  /\ ctx[k].state = "longpress_release" => reports[k] = 1

PressesInv == \A k \in Keys : PressInv(k)

\* In the course of a poll the bitmaps agree with what was read so far.
PollInv ==
  /\ turn = 2 => down = bitmap \cap {"down"}
  /\ turn = 3 => down = bitmap \cap {"down", "up"}

IInv == TypeOK /\ PressesInv /\ PollInv

-------------------------------------------------------------------------------
\* The key whose turn it is, is a key.
LEMMA TurnIsKey == TypeOK => KeyList[turn] \in Keys
BY DEF TypeOK, KeyList, Keys

\* Time is counted up to LongAfter.
LEMMA ElapsedType ==
  ASSUME TypeOK, NEW k \in Keys
  PROVE  Elapsed(k) \in 0 .. LongAfter
<1>1. ctx[k] \in Context
  BY DEF TypeOK
<1>2. ctx[k].time \in 0 .. LongAfter /\ delta \in Nat /\ LongAfter \in Nat
  BY <1>1, KeysAssumption DEF Context, TypeOK
<1> QED BY <1>2 DEF Elapsed

\* A step of one key writes a context, and the reports of that key only.
LEMMA KeyStepType ==
  ASSUME TypeOK, NEW k \in Keys,
         IfPressed(k) \/ IfNot(k) \/ Release(k)
  PROVE  /\ \E c \in Context : ctx' = [ctx EXCEPT ![k] = c]
         /\ \E r \in 0 .. 2 : reports' = [reports EXCEPT ![k] = r]
         /\ out' \in Reports \cup {Silence}
<1> USE DEF Keys
<1>1. /\ ctx[k] \in Context
      /\ Elapsed(k) \in 0 .. LongAfter
      /\ reports[k] \in 0 .. 2
      /\ 0 \in 0 .. LongAfter
  BY ElapsedType, KeysAssumption DEF TypeOK
<1>2. Still(k) \in Context
  BY <1>1 DEF Still, Context
<1>3. Released \in Context
  BY <1>1 DEF Released, Context, KeyState
<1>4. ASSUME NEW c \in Context, NEW said \in Reports \cup {Silence},
             Becomes(k, c, said)
      PROVE  /\ \E d \in Context : ctx' = [ctx EXCEPT ![k] = d]
             /\ \E r \in 0 .. 2 : reports' = [reports EXCEPT ![k] = r]
             /\ out' \in Reports \cup {Silence}
  <2>1. (IF said = Silence \/ reports[k] = 2 THEN reports[k] ELSE reports[k] + 1) \in 0 .. 2
    BY <1>1
  <2>2. reports' = [reports EXCEPT ![k] =
                      IF said = Silence \/ reports[k] = 2 THEN reports[k] ELSE reports[k] + 1]
    BY <1>4 DEF Becomes, TypeOK
  <2> QED BY <1>4, <2>1, <2>2 DEF Becomes
<1>5. CASE Press(k)
  <2>1. [ctx[k] EXCEPT !.time = 0, !.state = "pressed"] \in Context
    BY <1>1 DEF Context, KeyState
  <2>2. ctx' = [ctx EXCEPT ![k] = [ctx[k] EXCEPT !.time = 0, !.state = "pressed"]]
    BY <1>5, <1>1 DEF Press, Context, TypeOK
  <2>3. reports' = [reports EXCEPT ![k] = 0] /\ out' = Silence /\ 0 \in 0 .. 2
    BY <1>5 DEF Press
  <2> QED BY <2>1, <2>2, <2>3, Zenon
<1>6. CASE Repeat(k)
  <2>1. [ctx[k] EXCEPT !.time = 0] \in Context
    BY <1>1 DEF Context
  <2> QED BY <1>4, <1>6, <2>1 DEF Repeat, Reports
<1>7. CASE LongPressPower(k)
  <2>1. [Still(k) EXCEPT !.longpress = TRUE] \in Context
    BY <1>2 DEF Context
  <2>2. Combination \in Reports
    BY DEF Combination, Reports
  <2> QED BY <1>4, <1>7, <2>1, <2>2 DEF LongPressPower
<1>8. CASE LongPressVolume(k)
  <2>1. [Still(k) EXCEPT !.longpress = TRUE] \in Context
    BY <1>2 DEF Context
  <2>2. [ctx[k] EXCEPT !.time = 0, !.repeat = TRUE, !.longpress = TRUE] \in Context
    BY <1>1 DEF Context
  <2>3. CASE "power" \in bitmap
    BY <1>4, <1>8, <2>1, <2>3 DEF LongPressVolume
  <2>4. CASE "power" \notin bitmap
    BY <1>4, <1>8, <2>2, <2>4 DEF LongPressVolume, Reports
  <2> QED BY <2>3, <2>4
<1>9. CASE Hold(k) \/ StayReleased(k) \/ Bounce(k)
  BY <1>2, <1>4, <1>9 DEF Hold, StayReleased, Bounce
<1>10. CASE Tap(k)
  <2>1. [Still(k) EXCEPT !.state = "longpress_release"] \in Context
    BY <1>2 DEF Context, KeyState
  <2> QED BY <1>4, <1>10, <2>1 DEF Tap, Reports
<1>11. CASE Settle(k) \/ Release(k)
  BY <1>3, <1>4, <1>11 DEF Settle, Release
<1> QED BY <1>5, <1>6, <1>7, <1>8, <1>9, <1>10, <1>11 DEF IfPressed, IfNot

-------------------------------------------------------------------------------
LEMMA InitIInv == Init => IInv
<1> SUFFICES ASSUME Init PROVE IInv
  OBVIOUS
<1>1. Released \in Context
  BY KeysAssumption DEF Released, Context, KeyState
<1>2. TypeOK
  BY <1>1 DEF Init, TypeOK
<1>3. \A k \in Keys : ctx[k] = Released
  BY DEF Init
<1>4. PressesInv
  BY <1>3 DEF PressesInv, PressInv, Released
<1>5. PollInv
  BY DEF Init, PollInv
<1> QED BY <1>2, <1>4, <1>5 DEF IInv

LEMMA NextTypeOK == TypeOK /\ [Next]_vars => TypeOK'
<1> SUFFICES ASSUME TypeOK, [Next]_vars PROVE TypeOK'
  OBVIOUS
<1>1. CASE Reset
  <2>1. Released \in Context
    BY KeysAssumption DEF Released, Context, KeyState
  <2> QED BY <1>1, <2>1 DEF Reset, TypeOK
<1>2. ASSUME NEW pressed \in BOOLEAN, ReadKey(KeyList[turn], pressed)
      PROVE  TypeOK'
  <2> DEFINE k == KeyList[turn]
  <2>1. k \in Keys
    BY TurnIsKey
  <2> HIDE DEF k
  <2>2. IfPressed(k) \/ IfNot(k) \/ Release(k)
    BY <1>2 DEF ReadKey, k
  <2>3. /\ ctx' \in [Keys -> Context]
        /\ reports' \in [Keys -> 0 .. 2]
        /\ out' \in Reports \cup {Silence}
    BY <2>1, <2>2, KeyStepType DEF TypeOK
  <2>4. bitmap' \subseteq Keys /\ down' \subseteq Keys
    BY <1>2, <2>1 DEF ReadKey, TypeOK, Before, k
  <2>5. turn' \in 1 .. 3 /\ delta' \in Deltas
    BY <1>2 DEF ReadKey, NextKey, TypeOK
  <2>6. withPower' \subseteq Keys
    BY <1>2 DEF ReadKey
  <2> QED BY <2>3, <2>4, <2>5, <2>6 DEF TypeOK
<1>3. CASE UNCHANGED vars
  BY <1>3 DEF vars, TypeOK
<1> QED BY <1>1, <1>2, <1>3 DEF Next

\* The step of a key keeps what is known of its press.  The power bit a volume
\* key looks at is the one that withPower records.
LEMMA KeyStepPress ==
  ASSUME TypeOK, NEW k \in Keys, PressInv(k),
         IfPressed(k) \/ IfNot(k) \/ Release(k),
         ctx'[k].state = "pressed" /\ (k \in withPower \/ (k # "power" /\ "power" \in bitmap))
           => k \in withPower'
  PROVE  PressInv(k)'
<1>1. /\ ctx[k] \in Context /\ reports[k] \in 0 .. 2
      /\ ctx \in [Keys -> Context] /\ reports \in [Keys -> 0 .. 2]
  BY DEF TypeOK
<1>2. ASSUME NEW c, NEW said, Becomes(k, c, said)
      PROVE  /\ ctx'[k] = c
             /\ reports'[k] = IF said = Silence \/ reports[k] = 2
                              THEN reports[k] ELSE reports[k] + 1
  BY <1>1, <1>2 DEF Becomes
<1>3. Still(k) = [ctx[k] EXCEPT !.time = Elapsed(k)]
  BY DEF Still
<1>4. k # Silence /\ Combination # Silence
  BY DEF Keys, Silence, Combination
<1> USE DEF PressInv
<1>5. CASE Press(k)
  <2>1. /\ ctx'[k].state = "pressed" /\ reports'[k] = 0
        /\ ctx'[k].longpress = ctx[k].longpress /\ ctx'[k].repeat = ctx[k].repeat
        /\ ctx[k].state = "released"
    BY <1>1, <1>5 DEF Press, Context
  <2> QED BY <2>1
<1>6. CASE StayReleased(k) \/ Hold(k) \/ Bounce(k)
  <2>1. /\ ctx'[k] = [ctx[k] EXCEPT !.time = Elapsed(k)]
        /\ reports'[k] = reports[k]
    BY <1>2, <1>3, <1>6 DEF StayReleased, Hold, Bounce
  <2>2. /\ ctx'[k].state = ctx[k].state /\ ctx'[k].longpress = ctx[k].longpress
        /\ ctx'[k].repeat = ctx[k].repeat
    BY <1>1, <2>1 DEF Context
  <2> QED BY <2>1, <2>2
<1>7. CASE Repeat(k)
  <2>1. /\ ctx'[k] = [ctx[k] EXCEPT !.time = 0]
        /\ reports'[k] = IF reports[k] = 2 THEN 2 ELSE reports[k] + 1
        /\ ctx[k].state = "pressed" /\ ctx[k].repeat
    BY <1>2, <1>4, <1>7 DEF Repeat, RepeatDue
  <2>2. /\ ctx'[k].state = "pressed" /\ ctx'[k].longpress = ctx[k].longpress
        /\ ctx'[k].repeat /\ reports'[k] # 0 /\ k # "power" /\ ctx[k].longpress
    BY <1>1, <2>1 DEF Context
  <2> QED BY <2>2
<1>8. CASE LongPressPower(k)
  <2>1. /\ ctx'[k] = [Still(k) EXCEPT !.longpress = TRUE]
        /\ reports'[k] = IF reports[k] = 2 THEN 2 ELSE reports[k] + 1
        /\ ctx[k].state = "pressed" /\ ~ctx[k].longpress
    BY <1>2, <1>4, <1>8 DEF LongPressPower, LongDue
  <2>2. /\ ctx'[k].state = "pressed" /\ ctx'[k].longpress
        /\ ctx'[k].repeat = ctx[k].repeat
    BY <1>1, <1>3, <2>1 DEF Context
  <2> QED BY <2>1, <2>2
<1>9. CASE LongPressVolume(k)
  <2>1. k # "power" /\ ctx[k].state = "pressed" /\ ~ctx[k].longpress
    BY <1>9 DEF LongPressVolume, LongDue
  <2>2. CASE "power" \in bitmap
    <3>1. ctx'[k] = [Still(k) EXCEPT !.longpress = TRUE]
      BY <1>2, <1>9, <2>2 DEF LongPressVolume
    <3>2. ctx'[k].state = "pressed" /\ ctx'[k].longpress
      BY <1>1, <1>3, <2>1, <3>1 DEF Context
    <3> QED BY <2>1, <2>2, <3>2
  <2>3. CASE "power" \notin bitmap
    <3>1. /\ ctx'[k] = [ctx[k] EXCEPT !.time = 0, !.repeat = TRUE, !.longpress = TRUE]
          /\ reports'[k] = IF reports[k] = 2 THEN 2 ELSE reports[k] + 1
      BY <1>2, <1>4, <1>9, <2>3 DEF LongPressVolume
    <3>2. ctx'[k].state = "pressed" /\ ctx'[k].longpress /\ reports'[k] # 0
      BY <1>1, <2>1, <3>1 DEF Context
    <3> QED BY <2>1, <3>2
  <2> QED BY <2>2, <2>3
<1>10. CASE Tap(k)
  <2>1. /\ ctx'[k] = [Still(k) EXCEPT !.state = "longpress_release"]
        /\ reports'[k] = IF reports[k] = 2 THEN 2 ELSE reports[k] + 1
        /\ ctx[k].state = "pressed" /\ ~ctx[k].longpress
    BY <1>2, <1>4, <1>10 DEF Tap
  <2>2. ctx'[k].state = "longpress_release"
    BY <1>1, <1>3, <2>1 DEF Context
  <2> QED BY <2>1, <2>2
<1>11. CASE Settle(k) \/ Release(k)
  <2>1. ctx'[k] = Released
    BY <1>2, <1>11 DEF Settle, Release
  <2> QED BY <2>1 DEF Released
<1> QED BY <1>5, <1>6, <1>7, <1>8, <1>9, <1>10, <1>11 DEF IfPressed, IfNot

LEMMA NextPresses == IInv /\ [Next]_vars => PressesInv'
<1> SUFFICES ASSUME IInv, [Next]_vars, NEW j \in Keys PROVE PressInv(j)'
  BY DEF PressesInv
<1> USE DEF IInv
<1>1. CASE Reset
  <2>1. ctx'[j] = Released
    BY <1>1 DEF Reset
  <2> QED BY <2>1 DEF PressInv, Released
<1>2. ASSUME NEW pressed \in BOOLEAN, ReadKey(KeyList[turn], pressed)
      PROVE  PressInv(j)'
  <2> DEFINE k == KeyList[turn]
  <2>1. k \in Keys
    BY TurnIsKey
  <2>2. bitmap' = IF pressed THEN bitmap \cup {k} ELSE bitmap \ {k}
    BY <1>2 DEF ReadKey
  <2>3. withPower' = LET held == {i \in Keys : ctx'[i].state = "pressed"}
                     IN (withPower \cap held)
                        \cup (IF "power" \in bitmap' THEN held ELSE {})
    BY <1>2 DEF ReadKey
  <2>4. IfPressed(k) \/ IfNot(k) \/ Release(k)
    BY <1>2 DEF ReadKey
  <2> HIDE DEF k
  <2>5. /\ \E c \in Context : ctx' = [ctx EXCEPT ![k] = c]
        /\ \E r \in 0 .. 2 : reports' = [reports EXCEPT ![k] = r]
    BY <2>1, <2>4, KeyStepType
  <2>6. CASE j = k
    <3>1. ctx'[k].state = "pressed" /\ (k \in withPower \/ (k # "power" /\ "power" \in bitmap))
            => k \in withPower'
      BY <2>1, <2>2, <2>3
    <3> QED BY <2>1, <2>4, <2>6, <3>1, KeyStepPress DEF PressesInv
  <2>7. CASE j # k
    <3>1. ctx'[j] = ctx[j] /\ reports'[j] = reports[j]
      BY <2>5, <2>7 DEF TypeOK
    <3>2. ctx'[j].state = "pressed" /\ j \in withPower => j \in withPower'
      BY <2>3
    <3> QED BY <3>1, <3>2 DEF PressesInv, PressInv
  <2> QED BY <2>6, <2>7
<1>3. CASE UNCHANGED vars
  BY <1>3 DEF vars, PressesInv, PressInv
<1> QED BY <1>1, <1>2, <1>3 DEF Next

LEMMA NextPoll == TypeOK /\ PollInv /\ [Next]_vars => PollInv'
<1> SUFFICES ASSUME TypeOK, PollInv, [Next]_vars PROVE PollInv'
  OBVIOUS
<1>1. CASE Reset
  BY <1>1 DEF Reset, PollInv
<1>2. ASSUME NEW pressed \in BOOLEAN, ReadKey(KeyList[turn], pressed)
      PROVE  PollInv'
  <2>1. CASE turn = 1
    BY <1>2, <2>1 DEF ReadKey, NextKey, Before, KeyList, PollInv
  <2>2. CASE turn = 2
    BY <1>2, <2>2 DEF ReadKey, NextKey, Before, KeyList, PollInv
  <2>3. CASE turn = 3
    BY <1>2, <2>3 DEF ReadKey, NextKey, PollInv
  <2> QED BY <2>1, <2>2, <2>3 DEF TypeOK
<1>3. CASE UNCHANGED vars
  BY <1>3 DEF vars, PollInv
<1> QED BY <1>1, <1>2, <1>3 DEF Next

LEMMA Invariance == Spec => []IInv
<1>1. IInv /\ [Next]_vars => IInv'
  BY NextTypeOK, NextPresses, NextPoll DEF IInv
<1> QED BY InitIInv, <1>1, PTL DEF Spec

-------------------------------------------------------------------------------
(* KeypadDeviceImplLib keeps its key contexts well-formed.                  *)
THEOREM TypeCorrect == Spec => []TypeOK
<1>1. IInv => TypeOK
  BY DEF IInv
<1> QED BY Invariance, <1>1, PTL

(* Whatever is pressed, and however unevenly the keys are polled, the press *)
(* of the power key is told exactly once and that of a volume key at least  *)
(* once, or it was swallowed by a press of the power key.                   *)
THEOREM PressesReported == Spec => ReportedOnce
<1> DEFINE Over(k) == ctx[k].state # "released" /\ ctx'[k].state = "released" /\ ~Reset
           Told(k) == (k = "power" => reports[k] = 1) /\ (reports[k] = 0 => k \in withPower)
<1>1. IInv /\ [Next]_vars => \A k \in Keys : Over(k) => Told(k)
  <2> SUFFICES ASSUME IInv, [Next]_vars, NEW j \in Keys, Over(j) PROVE Told(j)
    OBVIOUS
  <2> USE DEF IInv
  <2>1. PICK pressed \in BOOLEAN : ReadKey(KeyList[turn], pressed)
    BY DEF vars, Next
  <2> DEFINE k == KeyList[turn]
  <2>2. k \in Keys /\ (IfPressed(k) \/ IfNot(k) \/ Release(k))
    BY <2>1, TurnIsKey DEF ReadKey
  <2> HIDE DEF k
  <2>3. j = k
    BY <2>2, KeyStepType DEF TypeOK
  <2>4. ctx[k].state = "longpress_release" \/ (ctx[k].state = "pressed" /\ ctx[k].longpress)
    <3>1. ctx[k] \in Context /\ ctx \in [Keys -> Context] /\ Still(k) = [ctx[k] EXCEPT !.time = Elapsed(k)]
      BY <2>2 DEF TypeOK, Still
    <3>2. ctx[k].state \in KeyState
      BY <3>1 DEF Context
    <3>3. ~(ctx[k].state = "pressed" /\ ~ctx[k].longpress)
      <4> SUFFICES ASSUME ctx[k].state = "pressed", ~ctx[k].longpress PROVE FALSE
        OBVIOUS
      <4>1. CASE Tap(k)
        <5>1. ctx'[k] = [Still(k) EXCEPT !.state = "longpress_release"]
          BY <2>2, <3>1, <4>1 DEF Tap, Becomes
        <5>2. ctx'[k].state = "longpress_release"
          BY <3>1, <5>1 DEF Context
        <5> QED BY <2>3, <5>2
      <4>2. CASE IfPressed(k)
        <5>1. \/ ctx' = [ctx EXCEPT ![k] = [ctx[k] EXCEPT !.time = 0]]
              \/ ctx' = [ctx EXCEPT ![k] = Still(k)]
              \/ ctx' = [ctx EXCEPT ![k] = [Still(k) EXCEPT !.longpress = TRUE]]
              \/ ctx' = [ctx EXCEPT ![k] = [ctx[k] EXCEPT !.time = 0, !.repeat = TRUE,
                                                         !.longpress = TRUE]]
          BY <4>2 DEF IfPressed, Press, Repeat, LongPressPower, LongPressVolume, Hold,
                      Becomes
        <5>2. \/ ctx'[k] = [ctx[k] EXCEPT !.time = 0]
              \/ ctx'[k] = Still(k)
              \/ ctx'[k] = [Still(k) EXCEPT !.longpress = TRUE]
              \/ ctx'[k] = [ctx[k] EXCEPT !.time = 0, !.repeat = TRUE, !.longpress = TRUE]
          <6> HIDE DEF Still
          <6> QED BY <2>2, <3>1, <5>1
        <5>3. ctx'[k].state = "pressed"
          BY <3>1, <5>2 DEF Context
        <5> QED BY <2>3, <5>3
      <4> QED BY <2>2, <4>1, <4>2
              DEF IfNot, StayReleased, Bounce, Settle, Release
    <3> QED BY <2>3, <3>2, <3>3 DEF KeyState
  <2> QED BY <2>2, <2>3, <2>4 DEF PressesInv, PressInv
<1>2. IInv /\ [Next]_vars
        => [\A k \in Keys : ctx[k].state # "released" /\ ctx'[k].state = "released" /\ ~Reset =>
              /\ k = "power" => reports[k] = 1
              /\ reports[k] = 0 => k \in withPower]_vars
  BY <1>1
<1> QED BY <1>2, Invariance, PTL DEF Spec, ReportedOnce

(* A combination of keys is reported only while they are down together.     *)
THEOREM CombinationsFresh == Spec => []CombinationIsFresh
<1>1. Init => CombinationIsFresh
  BY DEF Init, CombinationIsFresh, Silence
<1>2. IInv /\ CombinationIsFresh /\ [Next]_vars => CombinationIsFresh'
  <2> SUFFICES ASSUME IInv, CombinationIsFresh, [Next]_vars PROVE CombinationIsFresh'
    OBVIOUS
  <2> USE DEF IInv
  <2>1. CASE Reset
    BY <2>1 DEF Reset, CombinationIsFresh, Silence
  <2>2. ASSUME NEW pressed \in BOOLEAN, ReadKey(KeyList[turn], pressed)
        PROVE  CombinationIsFresh'
    <3> DEFINE k == KeyList[turn]
    <3>1. k \in Keys /\ ((pressed /\ IfPressed(k)) \/ (~pressed /\ IfNot(k)) \/ Release(k))
      BY <2>2, TurnIsKey DEF ReadKey
    <3>2. CASE LongPressPower(k) /\ pressed
      <4>1. k = "power" /\ turn = 3 /\ out' = Combination
        BY <3>2 DEF LongPressPower, Becomes, KeyList, TypeOK
      <4>2. down' = (bitmap \cap {"down", "up"}) \cup {"power"}
        BY <2>2, <3>2, <4>1 DEF ReadKey, Before, PollInv
      <4> QED BY <4>1, <4>2 DEF Combination, CombinationIsFresh
    <3>3. CASE ~(LongPressPower(k) /\ pressed)
      <4>1. out' \in Keys \cup {Silence}
        BY <3>1, <3>3
           DEF IfPressed, IfNot, Press, Repeat, LongPressPower, LongPressVolume, Hold,
               StayReleased, Tap, Bounce, Settle, Release, Becomes
      <4> QED BY <4>1 DEF CombinationIsFresh, Keys, Silence
    <3> QED BY <3>2, <3>3
  <2>3. CASE UNCHANGED vars
    BY <2>3 DEF vars, CombinationIsFresh
  <2> QED BY <2>1, <2>2, <2>3 DEF Next
<1> QED BY <1>1, <1>2, Invariance, PTL DEF Spec

===============================================================================
