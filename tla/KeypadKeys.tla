------------------------------ MODULE KeypadKeys ------------------------------
(***************************************************************************)
(* The keys of a phone as KeypadDeviceImplLib reports them.  At every poll *)
(* it reads the three keys one after the other, in the order of KeyList,   *)
(* and turns presses, long presses, repeats and combinations with the      *)
(* power key into the keys of a console.  The console driver polls it from *)
(* a timer and whenever somebody asks for a key, at TPL_NOTIFY; no two     *)
(* polls overlap, and a reset comes between polls.                         *)
(*                                                                         *)
(* An action is what LibKeyUpdateKeyStatus does with one key that was read *)
(* as pressed or not.                                                      *)
(*                                                                         *)
(* A definition marked "mutant" is a faulty variant of the one that        *)
(* follows it; no specification uses it.                                   *)
(***************************************************************************)
EXTENDS Naturals

CONSTANTS
  Debounce, RepeatAfter, LongAfter,  \* 10, 200 and 500 ms
  Deltas                             \* the times that may pass between polls

ASSUME KeysAssumption ==
  /\ Debounce \in Nat /\ RepeatAfter \in Nat /\ LongAfter \in Nat
  /\ Debounce <= LongAfter /\ RepeatAfter <= LongAfter
  /\ Deltas \subseteq Nat /\ Deltas # {}

Keys == {"down", "up", "power"}

PowerFirst == << "power", "down", "up" >>                         \* mutant
KeyList == << "down", "up", "power" >>

\* What can be reported: a volume key, the power key, and its combinations
\* with the lower and the upper volume key and with none.
Reports == {"down", "up", "power", "s", "e", "space"}
Silence == "silence"

(***************************************************************************)
(* KEY_CONTEXT.  Times are compared with LongAfter or less, so that is as  *)
(* far as they are counted.                                                *)
(***************************************************************************)
KeyState == {"released", "pressed", "longpress_release"}
Context  == [time: 0 .. LongAfter, state: KeyState, repeat: BOOLEAN,
             longpress: BOOLEAN]

VARIABLES
  ctx,      \* the context of every key
  bitmap,   \* gBitmapScanCodes, gBitmapUnicodeChars: the keys last read as pressed
  turn,     \* whose turn it is in the poll
  delta,    \* time since the last poll
  out,      \* what was pushed to the console for the last key read
  (* History *)
  down,     \* the keys read as pressed in the present poll
  reports,  \* reports since a key was pressed, counted up to two
  withPower \* the keys during whose press the power key was read as pressed

vars == <<ctx, bitmap, turn, delta, out, down, reports, withPower>>

Released == [time |-> 0, state |-> "released", repeat |-> FALSE, longpress |-> FALSE]

Init ==
  /\ ctx = [k \in Keys |-> Released]
  /\ bitmap = {} /\ turn = 1 /\ delta \in Deltas /\ out = Silence
  /\ down = {} /\ reports = [k \in Keys |-> 0] /\ withPower = {}

-------------------------------------------------------------------------------
Elapsed(k) == LET t == ctx[k].time + delta IN IF t < LongAfter THEN t ELSE LongAfter

\* The context of k becomes c, and what is said is pushed.
Becomes(k, c, said) ==
  /\ ctx' = [ctx EXCEPT ![k] = c]
  /\ out' = said
  /\ reports' = [reports EXCEPT ![k] = IF said = Silence \/ @ = 2 THEN @ ELSE @ + 1]

Still(k) == [ctx[k] EXCEPT !.time = Elapsed(k)]

Press(k) ==
  /\ ctx[k].state = "released"
  /\ ctx' = [ctx EXCEPT ![k].time = 0, ![k].state = "pressed"]
  /\ out' = Silence
  /\ reports' = [reports EXCEPT ![k] = 0]

StayReleased(k) ==
  /\ ctx[k].state = "released"
  /\ Becomes(k, Still(k), Silence)

RepeatDue(k) == ctx[k].repeat /\ Elapsed(k) >= RepeatAfter
LongDue(k)   == ~RepeatDue(k) /\ ~ctx[k].longpress /\ Elapsed(k) >= LongAfter

Repeat(k) ==
  /\ ctx[k].state = "pressed" /\ RepeatDue(k)
  /\ Becomes(k, [ctx[k] EXCEPT !.time = 0], k)

\* The report of a long press of the power key.  The bitmap is up to date: the
\* power key is the last one of the list.
Combination == IF "down" \in bitmap THEN "s"
               ELSE IF "up" \in bitmap THEN "e" ELSE "space"

LongPressPower(k) ==
  /\ ctx[k].state = "pressed" /\ LongDue(k) /\ k = "power"
  /\ Becomes(k, [Still(k) EXCEPT !.longpress = TRUE], Combination)

\* A volume key starts to repeat, unless it is part of a combination.
LongPressVolume(k) ==
  /\ ctx[k].state = "pressed" /\ LongDue(k) /\ k # "power"
  /\ IF "power" \in bitmap
     THEN Becomes(k, [Still(k) EXCEPT !.longpress = TRUE], Silence)
     ELSE Becomes(k, [ctx[k] EXCEPT !.time = 0, !.repeat = TRUE, !.longpress = TRUE], k)

Hold(k) ==
  /\ ctx[k].state = "pressed" /\ ~RepeatDue(k) /\ ~LongDue(k)
  /\ Becomes(k, Still(k), Silence)

TapAnyPress(k) ==                                                 \* mutant
  /\ ctx[k].state = "pressed"
  /\ Becomes(k, [Still(k) EXCEPT !.state = "longpress_release"], k)

\* A short press is reported when it ends.
Tap(k) ==
  /\ ctx[k].state = "pressed" /\ ~ctx[k].longpress
  /\ Becomes(k, [Still(k) EXCEPT !.state = "longpress_release"], k)

BounceAnew(k) ==                                                  \* mutant
  /\ ctx[k].state = "pressed" /\ ctx[k].longpress /\ delta < Debounce
  /\ Becomes(k, [ctx[k] EXCEPT !.time = 0], Silence)

Bounce(k) ==
  /\ ctx[k].state = "pressed" /\ ctx[k].longpress /\ Elapsed(k) < Debounce
  /\ Becomes(k, Still(k), Silence)

Settle(k) ==
  /\ ctx[k].state = "pressed" /\ ctx[k].longpress /\ Elapsed(k) >= Debounce
  /\ Becomes(k, Released, Silence)

Release(k) ==
  /\ ctx[k].state = "longpress_release"
  /\ Becomes(k, Released, Silence)

-------------------------------------------------------------------------------
IfPressed(k) ==
  Press(k) \/ Repeat(k) \/ LongPressPower(k) \/ LongPressVolume(k) \/ Hold(k)

IfNot(k) == StayReleased(k) \/ Tap(k) \/ Bounce(k) \/ Settle(k)

\* The end of a poll: the next one comes some time later.
NextKeyPastList ==                                                \* mutant
  IF turn <= 3 THEN turn' = turn + 1 /\ UNCHANGED delta
               ELSE turn' = 1 /\ delta' \in Deltas

NextKey ==
  IF turn < 3 THEN turn' = turn + 1 /\ UNCHANGED delta
              ELSE turn' = 1 /\ delta' \in Deltas

Before == IF turn = 1 THEN {} ELSE down

ReadKey(k, pressed) ==
  /\ bitmap' = IF pressed THEN bitmap \cup {k} ELSE bitmap \ {k}
  /\ (pressed /\ IfPressed(k)) \/ (~pressed /\ IfNot(k)) \/ Release(k)
  /\ NextKey
  /\ down' = IF pressed THEN Before \cup {k} ELSE Before
  /\ withPower' = LET held == {j \in Keys : ctx'[j].state = "pressed"}
                  IN (withPower \cap held)
                     \cup (IF "power" \in bitmap' THEN held ELSE {})

\* KeypadDeviceImplReset, called by the console driver.  The bitmaps stay.
Reset ==
  /\ turn = 1
  /\ ctx' = [k \in Keys |-> Released]
  /\ out' = Silence /\ reports' = [k \in Keys |-> 0]
  /\ down' = {} /\ withPower' = {}
  /\ UNCHANGED <<bitmap, turn, delta>>

Next == Reset \/ \E pressed \in BOOLEAN : ReadKey(KeyList[turn], pressed)

Spec == Init /\ [][Next]_vars

\* The timer of the console driver keeps polling.
FairSpec == Spec /\ WF_vars(\E pressed \in BOOLEAN : ReadKey(KeyList[turn], pressed))

-------------------------------------------------------------------------------
(* Properties                                                              *)

TypeOK ==
  /\ ctx \in [Keys -> Context] /\ bitmap \subseteq Keys /\ turn \in 1 .. 3
  /\ delta \in Deltas /\ out \in Reports \cup {Silence} /\ down \subseteq Keys
  /\ reports \in [Keys -> 0 .. 2] /\ withPower \subseteq Keys

(* No press is lost, and none is told twice: when the press of a key is     *)
(* over, the power key has been reported once, alone or as a combination; a *)
(* volume key at least once, unless the power key was down meanwhile, and   *)
(* then it may be a part of the combination only.                           *)
ReportedOnce ==
  [][ \A k \in Keys :
        ctx[k].state # "released" /\ ctx'[k].state = "released" /\ ~Reset =>
          /\ k = "power" => reports[k] = 1
          /\ reports[k] = 0 => k \in withPower ]_vars

(* A combination is reported for the keys that are down now, as read in     *)
(* this very poll, and not for what the bitmaps held before.                *)
CombinationIsFresh ==
  /\ out = "s" => {"power", "down"} \subseteq down
  /\ out = "e" => down = {"power", "up"}
  /\ out = "space" => down = {"power"}

(* A key that is left alone comes to rest, whatever happened to it before:  *)
(* the time since the last repeat counts for debouncing.                    *)
KeysSettle ==
  \A k \in Keys : <>[](k \notin bitmap) => <>[](ctx[k].state = "released")

===============================================================================
