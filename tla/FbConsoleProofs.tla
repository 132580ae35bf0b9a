---------------------------- MODULE FbConsoleProofs ----------------------------
(***************************************************************************)
(* What holds of the frame buffer console for every screen, every length   *)
(* of a write and every depth of nesting: the variables keep their types,  *)
(* nothing is painted outside of the frame buffer, the text colour is that *)
(* of the innermost critical write, and a write without a line feed is not *)
(* interrupted.                                                            *)
(*                                                                         *)
(* Each result has an invariant of its own, all of them relative to the    *)
(* types and to CellInv (the cursor is past the last column only while     *)
(* interrupts are off):                                                    *)
(*   ColourInv  a critical write holds the colour of the writes below it;  *)
(*   QuietInv   a write without a line feed runs with interrupts off, and  *)
(*              intstate cannot turn them on;                              *)
(*   RowInv     there is room below the cursor unless interrupts are off,  *)
(*              or a call below is about to go back to the top.            *)
(*                                                                         *)
(* A step of the running call changes the last frame of the stack, a write *)
(* adds one, a return removes it.  The first part says so once for all     *)
(* (StepFields, WriteEffect, LeaveEffect), and the invariants use only     *)
(* that.                                                                   *)
(***************************************************************************)
EXTENDS FbConsole, SequenceTheorems, TLAPS

Pushed(f) == stack' = Append(stack, f)
Popped == stack' = SubSeq(stack, 1, Len(stack) - 1)

LEMMA RunningIsLast ==
  ASSUME TypeOK, stack # <<>>
  PROVE  /\ Len(stack) \in Nat \ {0} /\ Running \in Frame
         /\ DOMAIN stack = 1 .. Len(stack)
         /\ \A i \in 1 .. Len(stack) : stack[i] \in Frame
  BY DEF TypeOK, Running

LEMMA BecomesChanges ==
  ASSUME TypeOK, stack # <<>>, NEW f \in Frame, Becomes(f)
  PROVE  /\ Len(stack') = Len(stack) /\ stack' \in Seq(Frame) /\ stack' # <<>>
         /\ \A i \in 1 .. Len(stack) - 1 : stack'[i] = stack[i]
         /\ stack'[Len(stack)] = f /\ Running' = f
         /\ DOMAIN stack' = 1 .. Len(stack) /\ DOMAIN stack = 1 .. Len(stack)
         /\ Len(stack) \in Nat \ {0}
  BY DEF TypeOK, Becomes, Running

LEMMA PushedChanges ==
  ASSUME TypeOK, NEW f \in Frame, Pushed(f)
  PROVE  /\ Len(stack') = Len(stack) + 1 /\ stack' \in Seq(Frame) /\ stack' # <<>>
         /\ \A i \in 1 .. Len(stack) : stack'[i] = stack[i]
         /\ stack'[Len(stack) + 1] = f /\ Running' = f
         /\ DOMAIN stack' = 1 .. Len(stack) + 1 /\ DOMAIN stack = 1 .. Len(stack)
         /\ Len(stack) \in Nat
  BY DEF TypeOK, Pushed, Running

LEMMA PoppedChanges ==
  ASSUME TypeOK, stack # <<>>, Popped
  PROVE  /\ Len(stack') = Len(stack) - 1 /\ stack' \in Seq(Frame)
         /\ \A i \in 1 .. Len(stack) - 1 : stack'[i] = stack[i]
         /\ DOMAIN stack' = 1 .. Len(stack) - 1 /\ DOMAIN stack = 1 .. Len(stack)
         /\ Len(stack) \in Nat \ {0}
         /\ Len(stack) > 1 => Running' = stack[Len(stack) - 1]
<1>1. stack \in Seq(Frame) /\ Len(stack) \in Nat \ {0} /\ DOMAIN stack = 1 .. Len(stack)
  BY RunningIsLast DEF TypeOK
<1>2. /\ SubSeq(stack, 1, Len(stack) - 1) \in Seq(Frame)
      /\ Len(SubSeq(stack, 1, Len(stack) - 1)) = Len(stack) - 1
      /\ \A i \in 1 .. Len(stack) - 1 : SubSeq(stack, 1, Len(stack) - 1)[i] = stack[i]
  BY <1>1, SubSeqProperties, Z3
<1>3. Len(stack') = Len(stack) - 1 /\ stack' \in Seq(Frame)
  BY <1>2 DEF Popped
<1>4. \A i \in 1 .. Len(stack) - 1 : stack'[i] = stack[i]
  BY <1>2 DEF Popped
<1> QED BY <1>1, <1>3, <1>4 DEF Running

NewCall(kind, n) ==
  [ kind |-> kind, at |-> IF kind = "critical" THEN "save" ELSE "enter",
    left |-> n, c |-> "other", colour |-> White, saved |-> FALSE, on |-> {},
    row |-> 0, lineFeed |-> FALSE ]

LEMMA NewCallFrame ==
  ASSUME NEW kind \in Kinds, NEW n \in 0 .. MaxText
  PROVE  NewCall(kind, n) \in Frame
  BY DEF NewCall, Frame, Kinds, Places, Chars, White

DoneFrame == [Running EXCEPT !.at = "next", !.c = "other", !.on = {}, !.row = 0]

Replaced(f) ==
  /\ stack # <<>> /\ stack' # <<>> /\ Len(stack) \in Nat \ {0}
  /\ Running \in Frame /\ f \in Frame
  /\ Running = stack[Len(stack)]
  /\ Running' = f /\ stack'[Len(stack)] = f
  /\ stack' \in Seq(Frame) /\ Len(stack') = Len(stack)
  /\ \A i \in 1 .. Len(stack) - 1 : stack'[i] = stack[i]

LEMMA BecomesReplaces ==
  ASSUME TypeOK, stack # <<>>, NEW f \in Frame, Becomes(f)
  PROVE  Replaced(f)
  BY BecomesChanges, RunningIsLast DEF Replaced, Running

LEMMA DoneReplaces ==
  ASSUME TypeOK, stack # <<>>, Done
  PROVE  Replaced(DoneFrame)
<1>1. DoneFrame \in Frame
  BY RunningIsLast DEF Frame, Places, Chars, DoneFrame
<1> QED BY <1>1, BecomesReplaces DEF Done, DoneFrame

LEMMA GoToReplaces ==
  ASSUME TypeOK, stack # <<>>, NEW place \in Places, GoTo(place)
  PROVE  Replaced([Running EXCEPT !.at = place])
<1>1. [Running EXCEPT !.at = place] \in Frame
  BY RunningIsLast DEF Frame
<1> QED BY <1>1, BecomesReplaces DEF GoTo

(* How each step changes the stack *)
LEMMA StepEffects ==
  ASSUME TypeOK
  PROVE
    /\ SaveColour => Replaced([Running EXCEPT !.colour = foreground, !.at = "enter"])
    /\ Enter => Replaced([Running EXCEPT !.saved = interrupts, !.at = "next"])
    /\ \A c \in Chars : NextChar(c) =>
         Replaced([Running EXCEPT !.c = c, !.left = @ - 1, !.at = "paint",
                                  !.lineFeed = @ \/ c = "newline"])
    /\ Skip \/ CarriageReturn \/ ClearRow => Replaced(DoneFrame)
    /\ LineFeed => Replaced([Running EXCEPT !.on = Uninitialised, !.at = "newline"])
    /\ StartGlyph => Replaced([Running EXCEPT !.on = {interrupts}, !.at = "draw"])
    /\ Draw => IF x + 1 >= Columns THEN Replaced([Running EXCEPT !.at = "newline"])
                                  ELSE Replaced(DoneFrame)
    /\ NextRow => Replaced([Running EXCEPT !.row = y + Scale, !.at = "store"])
    /\ StoreRow => Replaced([Running EXCEPT !.at = "column"])
    /\ StoreColumn => Replaced([Running EXCEPT !.at = "compare"])
    /\ CompareRow => \E r \in {y, Running.row} :
         Replaced([Running EXCEPT !.at = IF r >= MaxY - Scale THEN "wrap" ELSE "clear"])
    /\ Wrap => Replaced([Running EXCEPT !.at = "paint"])
<1> USE FbAssumption
<1>1. ASSUME SaveColour PROVE Replaced([Running EXCEPT !.colour = foreground, !.at = "enter"])
  <2>1. stack # <<>> /\ [Running EXCEPT !.colour = foreground, !.at = "enter"] \in Frame
    BY <1>1, RunningIsLast DEF SaveColour, At, Frame, Places, TypeOK
  <2> QED BY <1>1, <2>1, BecomesReplaces DEF SaveColour
<1>2. ASSUME Enter PROVE Replaced([Running EXCEPT !.saved = interrupts, !.at = "next"])
  <2>1. stack # <<>> /\ [Running EXCEPT !.saved = interrupts, !.at = "next"] \in Frame
    BY <1>2, RunningIsLast DEF Enter, At, Frame, Places, TypeOK
  <2> QED BY <1>2, <2>1, BecomesReplaces DEF Enter
<1>3. ASSUME NEW c \in Chars, NextChar(c)
      PROVE  Replaced([Running EXCEPT !.c = c, !.left = @ - 1, !.at = "paint",
                                      !.lineFeed = @ \/ c = "newline"])
  <2>1. stack # <<>> /\ Running \in Frame /\ Running.left - 1 \in 0 .. MaxText
    BY <1>3, RunningIsLast DEF NextChar, At, Frame
  <2> DEFINE fed == Running.lineFeed \/ c = "newline"
  <2>2. fed \in BOOLEAN
    BY <2>1 DEF Frame
  <2> HIDE DEF fed
  <2>3. [Running EXCEPT !.c = c, !.left = Running.left - 1, !.at = "paint",
                        !.lineFeed = fed] \in Frame
    BY <2>1, <2>2 DEF Frame, Places
  <2>4. [Running EXCEPT !.c = c, !.left = @ - 1, !.at = "paint",
                        !.lineFeed = @ \/ c = "newline"] \in Frame
    BY <2>3 DEF fed
  <2> QED BY <1>3, <2>1, <2>4, BecomesReplaces DEF NextChar
<1>4. ASSUME Skip \/ CarriageReturn \/ ClearRow PROVE Replaced(DoneFrame)
  BY <1>4, DoneReplaces DEF Skip, CarriageReturn, ClearRow, At
<1>5. ASSUME LineFeed PROVE Replaced([Running EXCEPT !.on = Uninitialised, !.at = "newline"])
  <2>1. stack # <<>> /\ [Running EXCEPT !.on = Uninitialised, !.at = "newline"] \in Frame
    BY <1>5, RunningIsLast DEF LineFeed, At, Frame, Places
  <2> QED BY <1>5, <2>1, BecomesReplaces DEF LineFeed
<1>6. ASSUME StartGlyph PROVE Replaced([Running EXCEPT !.on = {interrupts}, !.at = "draw"])
  <2>1. stack # <<>> /\ [Running EXCEPT !.on = {interrupts}, !.at = "draw"] \in Frame
    BY <1>6, RunningIsLast DEF StartGlyph, At, Frame, Places, TypeOK
  <2> QED BY <1>6, <2>1, BecomesReplaces DEF StartGlyph
<1>7. ASSUME Draw
      PROVE  IF x + 1 >= Columns THEN Replaced([Running EXCEPT !.at = "newline"])
                                 ELSE Replaced(DoneFrame)
  <2>1. stack # <<>> /\ x' = x + 1
    BY <1>7 DEF Draw, At
  <2>2. CASE x + 1 >= Columns
    BY <1>7, <2>1, <2>2, GoToReplaces DEF Draw, Places
  <2>3. CASE ~ (x + 1 >= Columns)
    BY <1>7, <2>1, <2>3, DoneReplaces DEF Draw
  <2> QED BY <2>2, <2>3
<1>8. ASSUME NextRow PROVE Replaced([Running EXCEPT !.row = y + Scale, !.at = "store"])
  <2>0. y + Scale \in Nat
    BY DEF TypeOK
  <2>1. stack # <<>> /\ [Running EXCEPT !.row = y + Scale, !.at = "store"] \in Frame
    BY <1>8, <2>0, RunningIsLast DEF NextRow, At, Frame, Places
  <2> QED BY <1>8, <2>1, BecomesReplaces DEF NextRow
<1>9. ASSUME StoreRow PROVE Replaced([Running EXCEPT !.at = "column"])
  BY <1>9, GoToReplaces DEF StoreRow, At, Places
<1>11. ASSUME StoreColumn PROVE Replaced([Running EXCEPT !.at = "compare"])
  BY <1>11, GoToReplaces DEF StoreColumn, At, Places
<1>12. ASSUME CompareRow
       PROVE  \E r \in {y, Running.row} :
                Replaced([Running EXCEPT !.at = IF r >= MaxY - Scale THEN "wrap" ELSE "clear"])
  <2>1. PICK r \in {y, Running.row} : GoTo(IF r >= MaxY - Scale THEN "wrap" ELSE "clear")
    BY <1>12 DEF CompareRow
  <2>2. (IF r >= MaxY - Scale THEN "wrap" ELSE "clear") \in Places /\ stack # <<>>
    BY <1>12 DEF Places, CompareRow, At
  <2> QED BY <2>1, <2>2, GoToReplaces
<1>10. ASSUME Wrap PROVE Replaced([Running EXCEPT !.at = "paint"])
  BY <1>10, GoToReplaces DEF Wrap, At, Places
<1> QED
  BY <1>1, <1>2, <1>3, <1>4, <1>5, <1>6, <1>7, <1>8, <1>9, <1>10, <1>11, <1>12

(* The same, field by field *)
Moved ==
  /\ stack # <<>> /\ stack' # <<>> /\ Len(stack) \in Nat \ {0}
  /\ Running = stack[Len(stack)] /\ Running' = stack'[Len(stack)]
  /\ Running \in Frame /\ Running' \in Frame
  /\ stack' \in Seq(Frame) /\ Len(stack') = Len(stack)
  /\ \A i \in 1 .. Len(stack) - 1 : stack'[i] = stack[i]
  /\ Running'.kind = Running.kind

Keeps(f, g) ==
  /\ f.colour = g.colour /\ f.saved = g.saved /\ f.lineFeed = g.lineFeed
  /\ f.c \in {g.c, "other"}

LEMMA StepFields ==
  ASSUME TypeOK
  PROVE
    /\ SaveColour => /\ Moved /\ Running.at = "save" /\ Running'.at = "enter"
                     /\ Running'.colour = foreground /\ Running'.on = Running.on
                     /\ Running'.c = Running.c
                     /\ Running'.lineFeed = Running.lineFeed
    /\ Enter => /\ Moved /\ Running.at = "enter" /\ Running'.at = "next"
                /\ Running'.saved = interrupts /\ Running'.on = Running.on
                /\ Running'.c = Running.c
                /\ Running'.lineFeed = Running.lineFeed /\ Running'.colour = Running.colour
    /\ \A c \in Chars : NextChar(c) =>
         /\ Moved /\ Running.at = "next" /\ Running'.at = "paint"
         /\ Running'.c = c /\ Running'.on = Running.on
         /\ Running'.lineFeed = (Running.lineFeed \/ c = "newline")
         /\ Running'.colour = Running.colour /\ Running'.saved = Running.saved
    /\ Skip \/ CarriageReturn => /\ Moved /\ Running.at = "paint" /\ Running'.at = "next"
                                 /\ Running'.on = {} /\ Keeps(Running', Running)
    /\ LineFeed => /\ Moved /\ Running.at = "paint" /\ Running'.at = "newline"
                   /\ Running.c = "newline" /\ Keeps(Running', Running)
    /\ StartGlyph => /\ Moved /\ Running.at = "paint" /\ Running'.at = "draw"
                     /\ Running'.on = {interrupts} /\ Keeps(Running', Running)
    /\ Draw => /\ Moved /\ Running.at = "draw" /\ Keeps(Running', Running)
               /\ IF x + 1 >= Columns THEN Running'.at = "newline" /\ Running'.on = Running.on
                                      ELSE Running'.at = "next" /\ Running'.on = {}
    /\ NextRow => /\ Moved /\ Running.at = "newline" /\ Running'.at = "store"
                  /\ Running'.on = Running.on /\ Running'.row = y + Scale
                  /\ Keeps(Running', Running)
    /\ StoreRow => /\ Moved /\ Running.at = "store" /\ Running'.at = "column"
                   /\ Running'.on = Running.on /\ Running'.row = Running.row
                   /\ Keeps(Running', Running)
    /\ StoreColumn => /\ Moved /\ Running.at = "column" /\ Running'.at = "compare"
                      /\ Running'.on = Running.on /\ Running'.row = Running.row
                      /\ Keeps(Running', Running)
    /\ CompareRow => /\ Moved /\ Running.at = "compare" /\ Running'.on = Running.on
                     /\ \E r \in {y, Running.row} :
                          Running'.at = IF r >= MaxY - Scale THEN "wrap" ELSE "clear"
                     /\ Keeps(Running', Running)
    /\ Wrap => /\ Moved /\ Running.at = "wrap" /\ Running'.at = "paint"
               /\ Running'.on = Running.on /\ Keeps(Running', Running)
    /\ ClearRow => /\ Moved /\ Running.at = "clear" /\ Running'.at = "next"
                   /\ Running'.on = {} /\ Keeps(Running', Running)
<1>1. ASSUME SaveColour
      PROVE /\ Moved /\ Running.at = "save" /\ Running'.at = "enter"
            /\ Running'.colour = foreground /\ Running'.on = Running.on
            /\ Running'.c = Running.c
            /\ Running'.lineFeed = Running.lineFeed
  <2>1. Replaced([Running EXCEPT !.colour = foreground, !.at = "enter"])
    BY <1>1, StepEffects
  <2>2. Moved /\ Running' = [Running EXCEPT !.colour = foreground, !.at = "enter"]
    BY <2>1 DEF Replaced, Moved, Frame
  <2> QED BY <1>1, <2>2 DEF Moved, Frame, At, Keeps, SaveColour
<1>2. ASSUME Enter
      PROVE /\ Moved /\ Running.at = "enter" /\ Running'.at = "next"
            /\ Running'.saved = interrupts /\ Running'.on = Running.on
            /\ Running'.c = Running.c
            /\ Running'.lineFeed = Running.lineFeed /\ Running'.colour = Running.colour
  <2>1. Replaced([Running EXCEPT !.saved = interrupts, !.at = "next"])
    BY <1>2, StepEffects
  <2>2. Moved /\ Running' = [Running EXCEPT !.saved = interrupts, !.at = "next"]
    BY <2>1 DEF Replaced, Moved, Frame
  <2> QED BY <1>2, <2>2 DEF Moved, Frame, At, Keeps, Enter
<1>3. ASSUME NEW c \in Chars, NextChar(c)
      PROVE /\ Moved /\ Running.at = "next" /\ Running'.at = "paint"
            /\ Running'.c = c /\ Running'.on = Running.on
            /\ Running'.lineFeed = (Running.lineFeed \/ c = "newline")
            /\ Running'.colour = Running.colour /\ Running'.saved = Running.saved
  <2>1. Replaced([Running EXCEPT !.c = c, !.left = @ - 1, !.at = "paint",
                               !.lineFeed = @ \/ c = "newline"])
    BY <1>3, StepEffects
  <2>2. Moved /\ Running' = [Running EXCEPT !.c = c, !.left = @ - 1, !.at = "paint",
                               !.lineFeed = @ \/ c = "newline"]
    BY <2>1 DEF Replaced, Moved, Frame
  <2> QED BY <1>3, <2>2 DEF Moved, Frame, At, Keeps, NextChar
<1>4. ASSUME Skip \/ CarriageReturn
      PROVE /\ Moved /\ Running.at = "paint" /\ Running'.at = "next"
            /\ Running'.on = {} /\ Keeps(Running', Running)
  <2>1. Replaced(DoneFrame)
    BY <1>4, StepEffects
  <2>2. Moved /\ Running' = DoneFrame
    BY <2>1 DEF Replaced, Moved, Frame, DoneFrame
  <2> QED BY <1>4, <2>2 DEF Moved, Frame, At, Keeps, Skip, CarriageReturn, DoneFrame
<1>5. ASSUME LineFeed
      PROVE /\ Moved /\ Running.at = "paint" /\ Running'.at = "newline"
            /\ Running.c = "newline" /\ Keeps(Running', Running)
  <2>1. Replaced([Running EXCEPT !.on = Uninitialised, !.at = "newline"])
    BY <1>5, StepEffects
  <2>2. Moved /\ Running' = [Running EXCEPT !.on = Uninitialised, !.at = "newline"]
    BY <2>1 DEF Replaced, Moved, Frame
  <2> QED BY <1>5, <2>2 DEF Moved, Frame, At, Keeps, LineFeed
<1>6. ASSUME StartGlyph
      PROVE /\ Moved /\ Running.at = "paint" /\ Running'.at = "draw"
            /\ Running'.on = {interrupts} /\ Keeps(Running', Running)
  <2>1. Replaced([Running EXCEPT !.on = {interrupts}, !.at = "draw"])
    BY <1>6, StepEffects
  <2>2. Moved /\ Running' = [Running EXCEPT !.on = {interrupts}, !.at = "draw"]
    BY <2>1 DEF Replaced, Moved, Frame
  <2> QED BY <1>6, <2>2 DEF Moved, Frame, At, Keeps, StartGlyph
<1>7. ASSUME Draw
      PROVE /\ Moved /\ Running.at = "draw" /\ Keeps(Running', Running)
            /\ IF x + 1 >= Columns THEN Running'.at = "newline" /\ Running'.on = Running.on
                                   ELSE Running'.at = "next" /\ Running'.on = {}
  <2>1. CASE x + 1 >= Columns
    <3>1. Replaced([Running EXCEPT !.at = "newline"])
      BY <1>7, <2>1, StepEffects
    <3>2. Moved /\ Running' = [Running EXCEPT !.at = "newline"]
      BY <3>1 DEF Replaced, Moved, Frame
    <3> QED BY <1>7, <2>1, <3>2 DEF Moved, Frame, At, Keeps, Draw
  <2>2. CASE ~ (x + 1 >= Columns)
    <3>1. Replaced(DoneFrame)
      BY <1>7, <2>2, StepEffects
    <3>2. Moved /\ Running' = DoneFrame
      BY <3>1 DEF Replaced, Moved, Frame, DoneFrame
    <3> QED BY <1>7, <2>2, <3>2 DEF Moved, Frame, At, Keeps, Draw, DoneFrame
  <2> QED BY <2>1, <2>2
<1>8. ASSUME NextRow
      PROVE /\ Moved /\ Running.at = "newline" /\ Running'.at = "store"
            /\ Running'.on = Running.on /\ Running'.row = y + Scale
            /\ Keeps(Running', Running)
  <2>1. Replaced([Running EXCEPT !.row = y + Scale, !.at = "store"])
    BY <1>8, StepEffects
  <2>2. Moved /\ Running' = [Running EXCEPT !.row = y + Scale, !.at = "store"]
    BY <2>1 DEF Replaced, Moved, Frame
  <2> QED BY <1>8, <2>2 DEF Moved, Frame, At, Keeps, NextRow
<1>9. ASSUME StoreRow
      PROVE /\ Moved /\ Running.at = "store" /\ Running'.at = "column"
            /\ Running'.on = Running.on /\ Running'.row = Running.row
            /\ Keeps(Running', Running)
  <2>1. Replaced([Running EXCEPT !.at = "column"])
    BY <1>9, StepEffects
  <2>2. Moved /\ Running' = [Running EXCEPT !.at = "column"]
    BY <2>1 DEF Replaced, Moved, Frame
  <2> QED BY <1>9, <2>2 DEF Moved, Frame, At, Keeps, StoreRow
<1>12. ASSUME StoreColumn
       PROVE /\ Moved /\ Running.at = "column" /\ Running'.at = "compare"
             /\ Running'.on = Running.on /\ Running'.row = Running.row
             /\ Keeps(Running', Running)
  <2>1. Replaced([Running EXCEPT !.at = "compare"])
    BY <1>12, StepEffects
  <2>2. Moved /\ Running' = [Running EXCEPT !.at = "compare"]
    BY <2>1 DEF Replaced, Moved, Frame
  <2> QED BY <1>12, <2>2 DEF Moved, Frame, At, Keeps, StoreColumn
<1>13. ASSUME CompareRow
       PROVE /\ Moved /\ Running.at = "compare" /\ Running'.on = Running.on
             /\ \E r \in {y, Running.row} :
                  Running'.at = IF r >= MaxY - Scale THEN "wrap" ELSE "clear"
             /\ Keeps(Running', Running)
  <2>1. PICK r \in {y, Running.row} :
          Replaced([Running EXCEPT !.at = IF r >= MaxY - Scale THEN "wrap" ELSE "clear"])
    BY <1>13, StepEffects
  <2> DEFINE place == IF r >= MaxY - Scale THEN "wrap" ELSE "clear"
  <2>2. Replaced([Running EXCEPT !.at = place])
    BY <2>1
  <2> HIDE DEF place
  <2>3. Moved /\ Running' = [Running EXCEPT !.at = place]
    BY <2>2 DEF Replaced, Moved, Frame
  <2>4. Running'.at = place /\ Running'.on = Running.on /\ Keeps(Running', Running)
    BY <2>3 DEF Moved, Frame, Keeps
  <2> QED BY <1>13, <2>3, <2>4 DEF At, CompareRow, place
<1>10. ASSUME Wrap
      PROVE /\ Moved /\ Running.at = "wrap" /\ Running'.at = "paint"
            /\ Running'.on = Running.on /\ Keeps(Running', Running)
  <2>1. Replaced([Running EXCEPT !.at = "paint"])
    BY <1>10, StepEffects
  <2>2. Moved /\ Running' = [Running EXCEPT !.at = "paint"]
    BY <2>1 DEF Replaced, Moved, Frame
  <2> QED BY <1>10, <2>2 DEF Moved, Frame, At, Keeps, Wrap
<1>11. ASSUME ClearRow
      PROVE /\ Moved /\ Running.at = "clear" /\ Running'.at = "next"
            /\ Running'.on = {} /\ Keeps(Running', Running)
  <2>1. Replaced(DoneFrame)
    BY <1>11, StepEffects
  <2>2. Moved /\ Running' = DoneFrame
    BY <2>1 DEF Replaced, Moved, Frame, DoneFrame
  <2> QED BY <1>11, <2>2 DEF Moved, Frame, At, Keeps, ClearRow, DoneFrame
<1> QED
  BY <1>1, <1>2, <1>3, <1>4, <1>5, <1>6, <1>7, <1>8, <1>9, <1>10, <1>11, <1>12, <1>13

(* How calls come and go *)
Called(f) ==
  /\ f \in Frame /\ f.at \in {"save", "enter"} /\ f.on = {} /\ ~f.lineFeed /\ f.c = "other"
  /\ f.at = "save" <=> f.kind = "critical"
  /\ stack' # <<>> /\ Len(stack) \in Nat /\ (stack = <<>> <=> Len(stack) = 0)
  /\ stack # <<>> => Running = stack[Len(stack)] /\ Running \in Frame
  /\ Running' = f /\ stack'[Len(stack) + 1] = f
  /\ stack' \in Seq(Frame) /\ Len(stack') = Len(stack) + 1
  /\ \A i \in 1 .. Len(stack) : stack'[i] = stack[i]

Left ==
  /\ stack # <<>> /\ Len(stack) \in Nat \ {0}
  /\ Running = stack[Len(stack)] /\ Running \in Frame
  /\ stack' = <<>> <=> Len(stack) = 1
  /\ Len(stack) > 1 => Running' = stack[Len(stack) - 1]
  /\ stack' \in Seq(Frame) /\ Len(stack') = Len(stack) - 1
  /\ \A i \in 1 .. Len(stack) - 1 : stack'[i] = stack[i]

LEMMA WriteEffect ==
  ASSUME TypeOK, NEW kind \in Kinds, NEW n \in 0 .. MaxText, Write(kind, n)
  PROVE  Called(NewCall(kind, n))
<1>1. Pushed(NewCall(kind, n)) /\ NewCall(kind, n) \in Frame
  BY NewCallFrame DEF Write, Pushed, NewCall
<1>2. LET f == NewCall(kind, n)
      IN f.at \in {"save", "enter"} /\ f.on = {} /\ ~f.lineFeed /\ f.c = "other"
         /\ (f.at = "save" <=> f.kind = "critical")
  BY DEF NewCall, Kinds
<1>3. stack = <<>> <=> Len(stack) = 0
  BY DEF TypeOK
<1> QED BY <1>1, <1>2, <1>3, PushedChanges, RunningIsLast DEF Called, Running

LEMMA LeaveEffect ==
  ASSUME TypeOK, Leave
  PROVE  Left
<1>1. stack # <<>> /\ Popped
  BY DEF Leave, At, Popped
<1>2. stack' \in Seq(Frame) /\ Len(stack') = Len(stack) - 1
  BY <1>1, PoppedChanges
<1>3. stack' = <<>> <=> Len(stack) = 1
  BY <1>1, <1>2, RunningIsLast
<1> QED BY <1>1, <1>2, <1>3, PoppedChanges, RunningIsLast DEF Left, Running

LEMMA EnableBoolean ==
  ASSUME TypeOK, stack # <<>>, EnableIfSo
  PROVE  interrupts' \in BOOLEAN
<1>1. Running.on \subseteq BOOLEAN
  BY RunningIsLast DEF Frame
<1> QED BY <1>1 DEF EnableIfSo, TypeOK

(* The cursor is past the last column only within a glyph, with interrupts  *)
(* off; and only the running call can be within a glyph.                    *)
CellInv ==
  /\ x < Columns \/ ((At("newline") \/ At("store") \/ At("column")) /\ ~interrupts)
  /\ At("draw") => ~interrupts
  /\ \A i \in 1 .. Len(stack) - 1 : stack[i].at # "draw"

StackType == stack \in Seq(Frame) /\ Len(stack) <= MaxDepth

LEMMA StackTypeStep == TypeOK /\ [Next]_vars => StackType'
<1> SUFFICES ASSUME TypeOK, [Next]_vars PROVE StackType'
  OBVIOUS
<1>1. ASSUME Moved PROVE StackType'
  BY <1>1 DEF Moved, StackType, TypeOK
<1>2. ASSUME NEW kind \in Kinds, NEW n \in 0 .. MaxText, Write(kind, n) PROVE StackType'
  <2>1. Len(stack) < MaxDepth /\ Len(stack') = Len(stack) + 1 /\ stack' \in Seq(Frame)
    BY <1>2, WriteEffect DEF Write, Called
  <2> QED BY <2>1, FbAssumption DEF TypeOK, StackType
<1>3. CASE Leave
  <2>1. Len(stack') = Len(stack) - 1 /\ stack' \in Seq(Frame)
    BY <1>3, LeaveEffect DEF Left
  <2> QED BY <2>1, FbAssumption DEF TypeOK, StackType
<1>4. CASE UNCHANGED stack
  BY <1>4 DEF TypeOK, StackType
<1>5. CASE Step /\ ~Leave
  BY <1>5, <1>1, StepFields DEF Step
<1> QED
  BY <1>2, <1>3, <1>4, <1>5 DEF Next, Step, Initialize, vars

LEMMA TypeStep == TypeOK /\ CellInv /\ [Next]_vars => TypeOK'
<1> SUFFICES ASSUME TypeOK, CellInv, [Next]_vars PROVE TypeOK'
  OBVIOUS
<1> USE FbAssumption
<1> USE DEF cursor
<1> DEFINE Rest == /\ initialized \in BOOLEAN /\ interrupts \in BOOLEAN
                   /\ x \in 0 .. Columns /\ y \in Nat
                   /\ foreground \in {White, Yellow} /\ writes \in 0 .. MaxWrites
<1>0. Rest
  BY DEF TypeOK
<1> SUFFICES Rest'
  BY StackTypeStep DEF StackType, TypeOK
<1>1. CASE Initialize
  BY <1>0, <1>1 DEF Initialize, FbConReset
<1>2. ASSUME NEW kind \in Kinds, NEW n \in 0 .. MaxText, Write(kind, n) PROVE Rest'
  BY <1>0, <1>2 DEF Write
<1>3. CASE SaveColour
  BY <1>0, <1>3 DEF SaveColour
<1>4. CASE Enter
  BY <1>0, <1>4 DEF Enter
<1>5. ASSUME NEW c \in Chars, NextChar(c) PROVE Rest'
  BY <1>0, <1>5 DEF NextChar
<1>6. CASE Leave
  <2>1. Running \in Frame
    BY <1>6, LeaveEffect DEF Left
  <2>2. foreground' \in {White, Yellow} /\ interrupts' \in BOOLEAN
    BY <1>0, <1>6, <2>1 DEF Leave, Frame
  <2> QED BY <1>0, <1>6, <2>2 DEF Leave
<1>7. CASE Skip
  BY <1>0, <1>7 DEF Skip
<1>8. CASE CarriageReturn
  BY <1>0, <1>8 DEF CarriageReturn
<1>9. CASE LineFeed
  BY <1>0, <1>9 DEF LineFeed
<1>10. CASE StartGlyph
  BY <1>0, <1>10 DEF StartGlyph
<1>11. CASE Draw
  <2>1. x' \in 0 .. Columns
    BY <1>0, <1>11 DEF Draw, At, CellInv
  <2>2. interrupts' \in BOOLEAN
    BY <1>0, <1>11, EnableBoolean DEF Draw, At
  <2> QED  BY <1>0, <1>11, <2>1, <2>2 DEF Draw
<1>12. CASE NextRow
  BY <1>0, <1>12 DEF NextRow
<1>13. CASE StoreRow
  <2>1. Running.row \in Nat
    BY <1>13, RunningIsLast DEF StoreRow, At, Frame
  <2> QED  BY <1>0, <1>13, <2>1 DEF StoreRow
<1>17. CASE StoreColumn
  BY <1>0, <1>17 DEF StoreColumn
<1>18. CASE CompareRow
  BY <1>0, <1>18 DEF CompareRow
<1>14. CASE Wrap
  BY <1>0, <1>14, EnableBoolean DEF Wrap, At
<1>15. CASE ClearRow
  BY <1>0, <1>15, EnableBoolean DEF ClearRow, At
<1>16. CASE UNCHANGED vars
  BY <1>0, <1>16 DEF vars
<1> HIDE DEF Rest
<1> QED
  BY <1>1, <1>2, <1>3, <1>4, <1>5, <1>6, <1>7, <1>8, <1>9, <1>10, <1>11, <1>12,
     <1>13, <1>14, <1>15, <1>16, <1>17, <1>18 DEF Next, Step

LEMMA CellMoved ==
  ASSUME TypeOK, CellInv, Moved,
         x' < Columns \/ (Running'.at \in {"newline", "store", "column"} /\ ~interrupts'),
         Running'.at = "draw" => ~interrupts'
  PROVE  CellInv'
  BY DEF CellInv, Moved, At

LEMMA CellStep == TypeOK /\ CellInv /\ [Next]_vars => CellInv'
<1> SUFFICES ASSUME TypeOK, CellInv, [Next]_vars PROVE CellInv'
  OBVIOUS
<1> USE FbAssumption
<1> USE DEF cursor
<1>0. /\ x < Columns \/ (Running.at \in {"newline", "store", "column"} /\ ~interrupts)
      /\ stack # <<>> /\ Running.at = "draw" => ~interrupts
      /\ x \in Int /\ Columns \in Nat \ {0}
  BY DEF CellInv, At, TypeOK
<1>1. CASE Initialize
  BY <1>1 DEF Initialize, FbConReset, CellInv, At
<1>2. ASSUME NEW kind \in Kinds, NEW n \in 0 .. MaxText, Write(kind, n) PROVE CellInv'
  <2>1. \A i \in 1 .. Len(stack) : stack[i].at # "draw"
    BY <1>2, WriteEffect DEF Write, CellInv, Called, At
  <2>2. x < Columns
    BY <1>2, WriteEffect DEF Write, CellInv, Called, At
  <2> QED  BY <1>2, <2>1, <2>2, WriteEffect DEF Write, CellInv, Called, At
<1>3. CASE SaveColour
  BY <1>0, <1>3, CellMoved, StepFields DEF SaveColour
<1>4. CASE Enter
  BY <1>0, <1>4, CellMoved, StepFields DEF Enter
<1>5. ASSUME NEW c \in Chars, NextChar(c) PROVE CellInv'
  BY <1>0, <1>5, CellMoved, StepFields DEF NextChar
<1>6. CASE Leave
  <2>1. Running.at = "next" /\ UNCHANGED x /\ x < Columns
    BY <1>0, <1>6 DEF Leave, At
  <2> QED  BY <1>6, <2>1, LeaveEffect DEF CellInv, At, Left
<1>7. CASE Skip
  BY <1>0, <1>7, CellMoved, StepFields DEF Skip
<1>8. CASE CarriageReturn
  BY <1>0, <1>8, CellMoved, StepFields DEF CarriageReturn
<1>9. CASE LineFeed
  BY <1>0, <1>9, CellMoved, StepFields DEF LineFeed
<1>10. CASE StartGlyph
  BY <1>0, <1>10, CellMoved, StepFields DEF StartGlyph
<1>11. CASE Draw
  <2>1. ~interrupts /\ x' = x + 1 /\ Moved
    BY <1>0, <1>11, StepFields DEF Draw, Moved
  <2>2. CASE x + 1 >= Columns
    <3>1. Running'.at = "newline" /\ UNCHANGED interrupts
      BY <1>11, <2>1, <2>2, StepFields DEF Draw
    <3> QED BY <2>1, <3>1, CellMoved
  <2>3. CASE ~ (x + 1 >= Columns)
    <3>1. Running'.at = "next" /\ x' < Columns
      BY <1>0, <1>11, <2>1, <2>3, StepFields
    <3> QED BY <2>1, <3>1, CellMoved
  <2> QED  BY <2>2, <2>3
<1>12. CASE NextRow
  BY <1>0, <1>12, CellMoved, StepFields DEF NextRow
<1>13. CASE StoreRow
  BY <1>0, <1>13, CellMoved, StepFields DEF StoreRow
<1>17. CASE StoreColumn
  <2>1. x' = 0 /\ x' < Columns /\ Running'.at # "draw" /\ Moved
    BY <1>0, <1>17, StepFields DEF StoreColumn
  <2> QED BY <2>1, CellMoved
<1>18. CASE CompareRow
  BY <1>0, <1>18, CellMoved, StepFields DEF CompareRow
<1>14. CASE Wrap
  BY <1>0, <1>14, CellMoved, StepFields DEF Wrap
<1>15. CASE ClearRow
  BY <1>0, <1>15, CellMoved, StepFields DEF ClearRow
<1>16. CASE UNCHANGED vars
  BY <1>16 DEF vars, CellInv, At, Running
<1> QED
  BY <1>1, <1>2, <1>3, <1>4, <1>5, <1>6, <1>7, <1>8, <1>9, <1>10, <1>11, <1>12,
     <1>13, <1>14, <1>15, <1>16, <1>17, <1>18 DEF Next, Step

LEMMA InitCorrect == Init => TypeOK /\ CellInv
<1> SUFFICES ASSUME Init PROVE TypeOK /\ CellInv
  OBVIOUS
<1>1. stack = <<>> /\ Len(stack) = 0
  BY DEF Init
<1>0. stack \in Seq(Frame)
  BY <1>1
<1>2. x \in 0 .. Columns /\ y \in Nat /\ writes \in 0 .. MaxWrites /\ Len(stack) <= MaxDepth
  BY <1>1, FbAssumption DEF Init
<1>3. /\ initialized \in BOOLEAN /\ interrupts \in BOOLEAN
      /\ foreground \in {White, Yellow}
  BY DEF Init
<1>4. TypeOK
  BY <1>0, <1>2, <1>3 DEF TypeOK
<1>5. CellInv
  BY <1>1, FbAssumption DEF Init, CellInv, At
<1> QED BY <1>4, <1>5

(* For every screen, text and depth of nesting the variables keep their     *)
(* types; in particular the column is never past the end of a line          *)
(* (FbConPutCharWithFactor).                                                *)
THEOREM TypeCorrect == Spec => []TypeOK
<1>1. TypeOK /\ CellInv /\ [Next]_vars => (TypeOK /\ CellInv)'
  BY TypeStep, CellStep
<1> QED BY InitCorrect, <1>1, PTL DEF Spec

-------------------------------------------------------------------------------
(* Colour *)

Critical(f) == f.kind = "critical" /\ f.at \notin {"save", "enter"}

CriticalIn(s, n) == \E i \in 1 .. n : Critical(s[i])

(* A critical write holds the colour that the calls below it want. *)
ColourInv ==
  /\ foreground = Yellow <=> CriticalIn(stack, Len(stack))
  /\ \A i \in 1 .. Len(stack) :
       /\ stack[i].kind = "critical" /\ stack[i].at # "save" =>
            (stack[i].colour = Yellow <=> CriticalIn(stack, i - 1))
       /\ stack[i].kind = "plain" => stack[i].at # "save"

(* Frames that agree are critical alike.                                    *)
LEMMA SameCritical ==
  ASSUME NEW s, NEW t, NEW k \in Nat, \A i \in 1 .. k : Critical(s[i]) <=> Critical(t[i])
  PROVE  \A m \in 0 .. k : CriticalIn(s, m) <=> CriticalIn(t, m)
<1> SUFFICES ASSUME NEW m \in 0 .. k PROVE CriticalIn(s, m) <=> CriticalIn(t, m)
  OBVIOUS
<1>1. 1 .. m \subseteq 1 .. k
  OBVIOUS
<1> QED BY <1>1 DEF CriticalIn

(* The running call changes, and neither its kind nor its colour.           *)
LEMMA ColourMoved ==
  ASSUME TypeOK, ColourInv, Moved, UNCHANGED foreground,
         Running.at \notin {"save", "enter"}, Running'.at \notin {"save", "enter"},
         Running'.colour = Running.colour
  PROVE  ColourInv'
<1>1. \A i \in 1 .. Len(stack) : /\ Critical(stack'[i]) <=> Critical(stack[i])
                                 /\ stack'[i].kind = stack[i].kind
                                 /\ stack'[i].colour = stack[i].colour
                                 /\ stack'[i].at = "save" <=> stack[i].at = "save"
  BY DEF Moved, Critical
<1>2. \A m \in 0 .. Len(stack) : CriticalIn(stack', m) <=> CriticalIn(stack, m)
  BY <1>1, SameCritical DEF Moved
<1> QED BY <1>1, <1>2 DEF Moved, ColourInv

LEMMA ColourStep == TypeOK /\ ColourInv /\ [Next]_vars => ColourInv'
<1> SUFFICES ASSUME TypeOK, ColourInv, [Next]_vars PROVE ColourInv'
  OBVIOUS
<1> USE FbAssumption
<1>1. CASE Initialize
  <2>1. Len(stack) = 0 /\ UNCHANGED stack /\ foreground' # Yellow
    BY <1>1 DEF Initialize, FbConReset, White, Yellow
  <2> QED BY <2>1 DEF ColourInv, CriticalIn
<1>2. ASSUME NEW kind \in Kinds, NEW n \in 0 .. MaxText, Write(kind, n) PROVE ColourInv'
  <2> DEFINE f == NewCall(kind, n)
  <2>1. Called(f) /\ UNCHANGED foreground
    BY <1>2, WriteEffect DEF Write
  <2> HIDE DEF f
  <2>2. ~Critical(f)
    BY <2>1 DEF Called, Critical
  <2>3. \A m \in 0 .. Len(stack) : CriticalIn(stack', m) <=> CriticalIn(stack, m)
    BY <2>1 DEF Called, CriticalIn
  <2>4. CriticalIn(stack', Len(stack')) <=> CriticalIn(stack, Len(stack))
    BY <2>1, <2>2 DEF Called, CriticalIn
  <2>5. f.kind = "critical" => f.at = "save"
    BY <2>1 DEF Called
  <2>6. f.kind = "plain" => f.at # "save"
    BY <2>1 DEF Called
  <2> QED  BY <2>1, <2>3, <2>4, <2>5, <2>6 DEF Called, ColourInv
<1>3. CASE SaveColour
  <2>1. /\ Moved /\ Running.at = "save" /\ Running'.at = "enter"
        /\ Running'.colour = foreground /\ UNCHANGED foreground
    BY <1>3, StepFields DEF SaveColour
  <2>2. \A i \in 1 .. Len(stack) : Critical(stack'[i]) <=> Critical(stack[i])
    BY <2>1 DEF Moved, Critical
  <2>3. \A m \in 0 .. Len(stack) : CriticalIn(stack', m) <=> CriticalIn(stack, m)
    BY <2>1, <2>2, SameCritical DEF Moved
  <2>4. CriticalIn(stack, Len(stack)) <=> CriticalIn(stack, Len(stack) - 1)
    BY <2>1 DEF Moved, CriticalIn, Critical
  <2> QED BY <2>1, <2>3, <2>4 DEF Moved, ColourInv
<1>4. CASE Enter
  <2>1. /\ Moved /\ Running.at = "enter" /\ Running'.at = "next"
        /\ Running'.colour = Running.colour
        /\ foreground' = IF Running.kind = "critical" THEN Yellow ELSE foreground
    BY <1>4, StepFields DEF Enter
  <2>2. \A m \in 0 .. Len(stack) - 1 : CriticalIn(stack', m) <=> CriticalIn(stack, m)
    <3>1. Len(stack) - 1 \in Nat
      BY <2>1 DEF Moved
    <3>2. \A i \in 1 .. Len(stack) - 1 : Critical(stack'[i]) <=> Critical(stack[i])
      BY <2>1 DEF Moved
    <3> QED BY <3>1, <3>2, SameCritical
  <2>3. CriticalIn(stack, Len(stack)) <=> CriticalIn(stack, Len(stack) - 1)
    BY <2>1 DEF Moved, CriticalIn, Critical
  <2>4. CriticalIn(stack', Len(stack)) <=>
          CriticalIn(stack, Len(stack) - 1) \/ Running.kind = "critical"
    BY <2>1, <2>2 DEF Moved, CriticalIn, Critical
  <2>5. foreground' = Yellow <=> CriticalIn(stack', Len(stack'))
    BY <2>1, <2>3, <2>4 DEF Moved, ColourInv
  <2> QED BY <2>1, <2>2, <2>5 DEF Moved, ColourInv
<1>5. ASSUME NEW c \in Chars, NextChar(c) PROVE ColourInv'
  BY <1>5, ColourMoved, StepFields DEF NextChar
<1>6. CASE Leave
  <2>1. /\ Left /\ Running.at = "next"
        /\ foreground' = IF Running.kind = "critical" THEN Running.colour ELSE foreground
    BY <1>6, LeaveEffect DEF Leave, At
  <2>2. \A m \in 0 .. Len(stack) - 1 : CriticalIn(stack', m) <=> CriticalIn(stack, m)
    <3>1. Len(stack) - 1 \in Nat
      BY <2>1 DEF Left
    <3>2. \A i \in 1 .. Len(stack) - 1 : Critical(stack'[i]) <=> Critical(stack[i])
      BY <2>1 DEF Left
    <3> QED BY <3>1, <3>2, SameCritical
  <2>3. CriticalIn(stack, Len(stack)) <=>
          CriticalIn(stack, Len(stack) - 1) \/ Running.kind = "critical"
    BY <2>1 DEF Left, CriticalIn, Critical
  <2>4. foreground' = Yellow <=> CriticalIn(stack, Len(stack) - 1)
    BY <2>1, <2>3 DEF Left, ColourInv
  <2> QED BY <2>1, <2>2, <2>4 DEF Left, ColourInv
<1>7. CASE Skip \/ CarriageReturn
  BY <1>7, ColourMoved, StepFields DEF Skip, CarriageReturn, Keeps
<1>8. CASE LineFeed
  BY <1>8, ColourMoved, StepFields DEF LineFeed, Keeps
<1>9. CASE StartGlyph
  BY <1>9, ColourMoved, StepFields DEF StartGlyph, Keeps
<1>10. CASE Draw
  <2>1. UNCHANGED foreground
    BY <1>10 DEF Draw
  <2> QED BY <1>10, <2>1, ColourMoved, StepFields DEF Keeps
<1>11. CASE NextRow
  BY <1>11, ColourMoved, StepFields DEF NextRow, Keeps
<1>12. CASE StoreRow
  BY <1>12, ColourMoved, StepFields DEF StoreRow, Keeps
<1>18. CASE StoreColumn
  BY <1>18, ColourMoved, StepFields DEF StoreColumn, Keeps
<1>19. CASE CompareRow
  <2>1. UNCHANGED foreground
    BY <1>19 DEF CompareRow
  <2>2. Running'.at \in {"wrap", "clear"}
    BY <1>19, StepFields
  <2> QED BY <1>19, <2>1, <2>2, ColourMoved, StepFields DEF Keeps
<1>13. CASE Wrap
  BY <1>13, ColourMoved, StepFields DEF Wrap, Keeps
<1>14. CASE ClearRow
  BY <1>14, ColourMoved, StepFields DEF ClearRow, Keeps
<1>15. CASE UNCHANGED vars
  BY <1>15 DEF vars, ColourInv, CriticalIn, Critical
<1> QED
  BY <1>1, <1>2, <1>3, <1>4, <1>5, <1>6, <1>7, <1>8, <1>9, <1>10, <1>11, <1>12,
     <1>13, <1>14, <1>15, <1>18, <1>19 DEF Next, Step

(* For every screen and any depth of nesting, text is yellow exactly while  *)
(* a critical write is in progress (SerialPortWriteCritical).               *)
THEOREM ColourRestored == Spec => []ColourOfCritical
<1>1. Init => ColourInv
  BY DEF Init, ColourInv, CriticalIn, White, Yellow
<1>2. TypeOK /\ CellInv /\ [Next]_vars => (TypeOK /\ CellInv)'
  BY TypeStep, CellStep
<1>3. TypeOK /\ ColourInv => ColourOfCritical
  BY DEF TypeOK, ColourInv, CriticalIn, Critical, ColourOfCritical
<1> QED BY InitCorrect, <1>1, <1>2, <1>3, ColourStep, PTL DEF Spec

-------------------------------------------------------------------------------
(* Interrupts *)

(* A write without a line feed is the running call and has interrupts off   *)
(* until it returns.                                                        *)
Quiet(f) == ~f.lineFeed /\ f.at \notin {"save", "enter"}

QuietInv ==
  /\ \A i \in 1 .. Len(stack) - 1 : ~Quiet(stack[i])
  /\ \A i \in 1 .. Len(stack) : stack[i].at \in {"save", "enter"} =>
       stack[i].on = {} /\ stack[i].c = "other"
  /\ stack # <<>> /\ Quiet(Running) =>
       /\ ~interrupts /\ TRUE \notin Running.on
       /\ Running.c # "newline"

LEMMA QuietMoved ==
  ASSUME TypeOK, QuietInv, Moved,
         Running'.at \in {"save", "enter"} => Running'.on = {} /\ Running'.c = "other",
         Quiet(Running') =>
           /\ ~interrupts' /\ TRUE \notin Running'.on
           /\ Running'.c # "newline"
  PROVE  QuietInv'
<1>1. \A i \in 1 .. Len(stack') - 1 : ~Quiet(stack'[i])
  BY DEF QuietInv, Moved
<1>2. \A i \in 1 .. Len(stack') : stack'[i].at \in {"save", "enter"} =>
           stack'[i].on = {} /\ stack'[i].c = "other"
  BY DEF QuietInv, Moved
<1> QED BY <1>1, <1>2 DEF QuietInv

(* Only a line feed puts anything but what interrupts were into intstate.   *)
LEMMA EnableQuiet ==
  ASSUME TypeOK, ~interrupts, TRUE \notin Running.on, stack # <<>>, EnableIfSo
  PROVE  ~interrupts'
<1>1. Running.on \subseteq BOOLEAN
  BY RunningIsLast DEF Frame
<1> QED BY <1>1 DEF EnableIfSo

LEMMA QuietStays ==
  ASSUME TypeOK, QuietInv, stack # <<>>, Quiet(Running),
         Step, ~Leave
  PROVE  ~interrupts' /\ Moved
<1>0. ~interrupts /\ TRUE \notin Running.on
  BY DEF QuietInv
<1>1. CASE SaveColour \/ Enter
  BY <1>1 DEF SaveColour, Enter, At, Quiet
<1>2. ASSUME NEW c \in Chars, NextChar(c) PROVE ~interrupts' /\ Moved
  BY <1>0, <1>2, StepFields DEF NextChar
<1>3. CASE Skip \/ CarriageReturn
  BY <1>0, <1>3, StepFields DEF Skip, CarriageReturn
<1>4. CASE LineFeed
  BY <1>0, <1>4, StepFields DEF LineFeed
<1>5. CASE StartGlyph
  BY <1>0, <1>5, StepFields DEF StartGlyph
<1>6. CASE Draw
  <2>1. Moved
    BY <1>6, StepFields
  <2>2. EnableIfSo \/ UNCHANGED interrupts
    BY <1>6 DEF Draw
  <2> QED BY <1>0, <2>1, <2>2, EnableQuiet
<1>7. CASE NextRow
  BY <1>0, <1>7, StepFields DEF NextRow
<1>8. CASE StoreRow
  BY <1>0, <1>8, StepFields DEF StoreRow
<1>11. CASE StoreColumn
  BY <1>0, <1>11, StepFields DEF StoreColumn
<1>12. CASE CompareRow
  BY <1>0, <1>12, StepFields DEF CompareRow
<1>9. CASE Wrap
  BY <1>0, <1>9, EnableQuiet, StepFields DEF Wrap
<1>10. CASE ClearRow
  BY <1>0, <1>10, EnableQuiet, StepFields DEF ClearRow
<1> QED
  BY <1>1, <1>2, <1>3, <1>4, <1>5, <1>6, <1>7, <1>8, <1>9, <1>10, <1>11, <1>12 DEF Step

LEMMA QuietStep == TypeOK /\ QuietInv /\ [Next]_vars => QuietInv'
<1> SUFFICES ASSUME TypeOK, QuietInv, [Next]_vars PROVE QuietInv'
  OBVIOUS
<1>0. ASSUME Step, ~Leave, stack # <<>>, Quiet(Running) PROVE ~interrupts' /\ TRUE \notin Running.on
  BY <1>0, QuietStays DEF QuietInv
<1>1. CASE Initialize
  <2>1. stack = <<>> /\ stack' = <<>>
    BY <1>1 DEF Initialize, FbConReset
  <2> QED BY <2>1 DEF QuietInv
<1>2. ASSUME NEW kind \in Kinds, NEW n \in 0 .. MaxText, Write(kind, n) PROVE QuietInv'
  <2> DEFINE f == NewCall(kind, n)
  <2>1. Called(f)
    BY <1>2, WriteEffect
  <2> HIDE DEF f
  <2>2. ~Quiet(f)
    BY <2>1 DEF Called, Quiet
  <2>3. stack # <<>> => ~Quiet(Running)
    BY <1>2 DEF Write, QuietInv
  <2>4. \A i \in 1 .. Len(stack') - 1 : ~Quiet(stack'[i])
    BY <2>1, <2>3 DEF Called, QuietInv
  <2>5. \A i \in 1 .. Len(stack') : stack'[i].at \in {"save", "enter"} =>
           stack'[i].on = {} /\ stack'[i].c = "other"
    BY <2>1 DEF Called, QuietInv
  <2>6. ~Quiet(Running')
    BY <2>1, <2>2 DEF Called
  <2> QED BY <2>4, <2>5, <2>6 DEF QuietInv
<1>3. CASE Leave
  <2>1. Left
    BY <1>3, LeaveEffect
  <2>2. \A i \in 1 .. Len(stack') : ~Quiet(stack'[i])
    BY <2>1 DEF Left, QuietInv
  <2>3. stack' # <<>> => ~Quiet(Running')
    BY <2>1, <2>2 DEF Left
  <2>4. \A i \in 1 .. Len(stack') : stack'[i].at \in {"save", "enter"} =>
           stack'[i].on = {} /\ stack'[i].c = "other"
    BY <2>1 DEF Left, QuietInv
  <2>5. \A i \in 1 .. Len(stack') - 1 : ~Quiet(stack'[i])
    BY <2>1, <2>2 DEF Left
  <2> QED BY <2>3, <2>4, <2>5 DEF QuietInv
<1>4. CASE SaveColour
  <2>1. Moved /\ Running'.at = "enter" /\ Running'.on = {} /\ Running'.c = "other"
    BY <1>4, StepFields DEF Moved, QuietInv
  <2> QED BY <2>1, QuietMoved DEF Quiet
<1>5. CASE Enter
  <2>0. Moved /\ Running.at = "enter" /\ Running'.at = "next" /\ Running'.on = Running.on
        /\ Running'.c = Running.c
    BY <1>5, StepFields
  <2>1. /\ Moved /\ Running'.at = "next" /\ Running'.on = {} /\ ~interrupts'
        /\ Running'.c = "other"
    BY <1>5, <2>0 DEF Moved, QuietInv, Enter
  <2> QED BY <2>1, QuietMoved
<1>6. ASSUME NEW c \in Chars, NextChar(c) PROVE QuietInv'
  <2>1. /\ Moved /\ Running.at = "next" /\ Running'.at = "paint" /\ Running'.c = c
        /\ Running'.on = Running.on
        /\ Running'.lineFeed = (Running.lineFeed \/ c = "newline")
    BY <1>6, StepFields
  <2>0. ~Leave
    BY <1>6 DEF NextChar, Leave
  <2>2. CASE Running.lineFeed \/ c = "newline"
    BY <2>1, <2>2, QuietMoved DEF Quiet
  <2>3. CASE ~Running.lineFeed /\ c # "newline"
    <3>1. Quiet(Running) /\ stack # <<>>
      BY <2>1, <2>3 DEF Quiet, Moved
    <3> QED BY <1>0, <1>6, <2>0, <2>1, <2>3, <3>1, QuietMoved DEF Step
  <2> QED BY <2>2, <2>3
<1>7. ASSUME Moved, Step, ~Leave, Running'.lineFeed = Running.lineFeed,
             Running.at \notin {"save", "enter"},
             Running'.at \notin {"save", "enter"},
             Running'.c \in {Running.c, "other"},
             Quiet(Running) => TRUE \notin Running'.on
      PROVE  QuietInv'
  <2>1. Quiet(Running') => Quiet(Running) /\ stack # <<>>
    BY <1>7 DEF Quiet, Moved
  <2>2. Quiet(Running') => Running'.c # "newline"
    BY <1>7, <2>1 DEF QuietInv
  <2> QED BY <1>0, <1>7, <2>1, <2>2, QuietMoved
<1>8. CASE Skip \/ CarriageReturn
  BY <1>7, <1>8, StepFields DEF Step, Keeps, Leave, At
<1>9. CASE LineFeed
  <2>1. /\ Moved /\ Running.at = "paint" /\ Running.c = "newline"
        /\ Running'.at = "newline" /\ Running'.lineFeed = Running.lineFeed /\ Running'.c \in {Running.c, "other"}
    BY <1>9, StepFields DEF Keeps
  <2>2. ~Quiet(Running)
    BY <2>1 DEF QuietInv, Moved
  <2> QED BY <2>1, <2>2, QuietMoved DEF Quiet
<1>10. CASE StartGlyph
  <2>1. /\ Moved /\ Running.at = "paint" /\ Running'.on = {interrupts}
        /\ Running'.at = "draw" /\ Running'.lineFeed = Running.lineFeed /\ Running'.c \in {Running.c, "other"}
        /\ ~Leave
    BY <1>10, StepFields DEF Keeps, Leave, At
  <2>2. Quiet(Running) => TRUE \notin Running'.on
    BY <2>1 DEF QuietInv, Moved
  <2> QED BY <1>7, <1>10, <2>1, <2>2 DEF Step
<1>11. CASE Draw
  <2>1. /\ Moved /\ Running.at = "draw" /\ Running'.at \in {"newline", "next"}
        /\ Running'.lineFeed = Running.lineFeed /\ Running'.c \in {Running.c, "other"}
        /\ Running'.on \in {Running.on, {}} /\ ~Leave
    BY <1>11, StepFields DEF Keeps, Leave, At
  <2>2. Quiet(Running) => TRUE \notin Running'.on
    BY <2>1 DEF QuietInv, Moved
  <2> QED BY <1>7, <1>11, <2>1, <2>2 DEF Step
<1>12. CASE NextRow
  <2>1. /\ Moved /\ Running.at = "newline" /\ Running'.at = "store"
        /\ Running'.lineFeed = Running.lineFeed /\ Running'.c \in {Running.c, "other"}
        /\ Running'.on = Running.on /\ ~Leave
    BY <1>12, StepFields DEF Keeps, Leave, At
  <2>2. Quiet(Running) => TRUE \notin Running'.on
    BY <2>1 DEF QuietInv, Moved
  <2> QED BY <1>7, <1>12, <2>1, <2>2 DEF Step
<1>13. CASE StoreRow
  <2>1. /\ Moved /\ Running.at = "store" /\ Running'.at = "column"
        /\ Running'.lineFeed = Running.lineFeed /\ Running'.c \in {Running.c, "other"}
        /\ Running'.on = Running.on /\ ~Leave
    BY <1>13, StepFields DEF Keeps, Leave, At
  <2>2. Quiet(Running) => TRUE \notin Running'.on
    BY <2>1 DEF QuietInv, Moved
  <2> QED BY <1>7, <1>13, <2>1, <2>2 DEF Step
<1>17. CASE StoreColumn
  <2>1. /\ Moved /\ Running.at = "column" /\ Running'.at = "compare"
        /\ Running'.lineFeed = Running.lineFeed /\ Running'.c \in {Running.c, "other"}
        /\ Running'.on = Running.on /\ ~Leave
    BY <1>17, StepFields DEF Keeps, Leave, At
  <2>2. Quiet(Running) => TRUE \notin Running'.on
    BY <2>1 DEF QuietInv, Moved
  <2> QED BY <1>7, <1>17, <2>1, <2>2 DEF Step
<1>18. CASE CompareRow
  <2>1. /\ Moved /\ Running.at = "compare" /\ Running'.at \in {"wrap", "clear"}
        /\ Running'.lineFeed = Running.lineFeed /\ Running'.c \in {Running.c, "other"}
        /\ Running'.on = Running.on /\ ~Leave
    BY <1>18, StepFields DEF Keeps, Leave, At
  <2>2. Quiet(Running) => TRUE \notin Running'.on
    BY <2>1 DEF QuietInv, Moved
  <2> QED BY <1>7, <1>18, <2>1, <2>2 DEF Step
<1>14. CASE Wrap
  <2>1. /\ Moved /\ Running.at = "wrap" /\ Running'.at = "paint"
        /\ Running'.lineFeed = Running.lineFeed /\ Running'.c \in {Running.c, "other"}
        /\ Running'.on = Running.on /\ ~Leave
    BY <1>14, StepFields DEF Keeps, Leave, At
  <2>2. Quiet(Running) => TRUE \notin Running'.on
    BY <2>1 DEF QuietInv, Moved
  <2> QED BY <1>7, <1>14, <2>1, <2>2 DEF Step
<1>15. CASE ClearRow
  <2>1. /\ Moved /\ Running.at = "clear" /\ Running'.at = "next"
        /\ Running'.lineFeed = Running.lineFeed /\ Running'.c \in {Running.c, "other"}
        /\ Running'.on = {} /\ ~Leave
    BY <1>15, StepFields DEF Keeps, Leave, At
  <2> QED BY <1>7, <1>15, <2>1 DEF Step
<1>16. CASE UNCHANGED vars
  BY <1>16 DEF vars, QuietInv, Running
<1> QED
  BY <1>1, <1>2, <1>3, <1>4, <1>5, <1>6, <1>8, <1>9, <1>10, <1>11, <1>12, <1>13, <1>14,
     <1>15, <1>16, <1>17, <1>18 DEF Next, Step

(* For every screen and any depth of nesting, a write without a line feed   *)
(* is not interrupted and leaves interrupts as it found them                *)
(* (SerialPortWrite).                                                       *)
THEOREM InterruptsRestored == Spec => InterruptsKept
<1> DEFINE Kept ==
      \A i \in DOMAIN stack :
        ~stack[i].lineFeed /\ stack[i].at \notin {"save", "enter"} =>
          IF Len(stack') < i THEN interrupts' = stack[i].saved
          ELSE ~interrupts' /\ Len(stack') = Len(stack)
<1>1. Init => QuietInv
  BY DEF Init, QuietInv
<1>2. TypeOK /\ CellInv /\ [Next]_vars => (TypeOK /\ CellInv)'
  BY TypeStep, CellStep
<1>3. TypeOK /\ QuietInv /\ [Next]_vars => [Kept]_vars
  <2> SUFFICES ASSUME TypeOK, QuietInv, Next, NEW i \in DOMAIN stack, Quiet(stack[i])
               PROVE  IF Len(stack') < i THEN interrupts' = stack[i].saved
                      ELSE ~interrupts' /\ Len(stack') = Len(stack)
    BY DEF Quiet
  <2>1. /\ stack # <<>> /\ i = Len(stack) /\ stack[i] = Running /\ Quiet(Running)
        /\ Len(stack) \in Nat \ {0} /\ Running \in Frame /\ ~interrupts
    <3>1. i \in 1 .. Len(stack) /\ stack # <<>>
      BY DEF TypeOK
    <3>2. Len(stack) \in Nat \ {0} /\ Running \in Frame
      BY <3>1, RunningIsLast
    <3>3. i = Len(stack)
      BY <3>1, <3>2 DEF QuietInv
    <3>4. stack[i] = Running
      BY <3>3 DEF Running
    <3> QED BY <3>1, <3>2, <3>3, <3>4 DEF QuietInv
  <2>2. CASE Leave
    <3>1. Len(stack') < i
      BY <2>1, <2>2, LeaveEffect DEF Left
    <3> QED BY <2>1, <2>2, <3>1 DEF Leave, Frame
  <2>3. CASE Step /\ ~Leave
    BY <2>1, <2>3, QuietStays DEF Moved
  <2> QED BY <2>1, <2>2, <2>3 DEF Next, Initialize, Write
<1> QED BY InitCorrect, <1>1, <1>2, <1>3, QuietStep, PTL DEF Spec, InterruptsKept

-------------------------------------------------------------------------------
(* Rows *)

LEMMA Multiples ==
  ASSUME NEW a \in Int, NEW b \in Int, NEW s \in Nat \ {0}, a * s < b * s
  PROVE  a * s + s <= b * s
<1>1. a < b
  <2> SUFFICES ASSUME b <= a PROVE FALSE
    OBVIOUS
  <2>1. (a - b) * s >= 0
    BY Z3
  <2>2. a * s - b * s >= 0
    BY <2>1, Z3
  <2> QED BY <2>2
<1>2. (b - a - 1) * s >= 0
  BY <1>1, Z3
<1> QED BY <1>2, Z3

LEMMA MultipleLess ==
  ASSUME NEW r \in Nat, IsMultiple(r), IsMultiple(MaxY), r < MaxY - Scale
  PROVE  r + 2 * Scale <= MaxY
<1> USE FbAssumption
<1>1. PICK a \in 0 .. r : r = a * Scale
  BY DEF IsMultiple
<1>2. PICK b \in 0 .. MaxY : MaxY = b * Scale
  BY DEF IsMultiple
<1>3. (a + 1) * Scale = r + Scale /\ a + 1 \in Int /\ b \in Int
  BY <1>1, <1>2, Z3
<1>4. (a + 1) * Scale < b * Scale
  BY <1>2, <1>3
<1>5. (a + 1) * Scale + Scale <= b * Scale
  BY <1>3, <1>4, Multiples
<1> QED BY <1>2, <1>3, <1>5

LEMMA MultipleNext ==
  ASSUME NEW r \in Nat, IsMultiple(r)
  PROVE  IsMultiple(r + Scale) /\ IsMultiple(0)
<1> USE FbAssumption
<1>1. PICK a \in 0 .. r : r = a * Scale
  BY DEF IsMultiple
<1>2. (a + 1) * Scale = r + Scale
  BY <1>1, Z3
<1>3. a + 1 \in 0 .. r + Scale
  BY <1>1
<1>4. IsMultiple(r + Scale)
  BY <1>2, <1>3 DEF IsMultiple
<1>5. 0 = 0 * Scale /\ 0 \in 0 .. 0
  BY SMT
<1>6. IsMultiple(0)
  BY <1>5 DEF IsMultiple
<1> QED BY <1>4, <1>6

(* There is room for two rows, the one that is painted and its successor.   *)
Low(r) == r + 2 * Scale <= MaxY

Starting(f) == f.at \in {"save", "enter"}

Stored(f) == f.at \in {"column", "compare"}

\* A call that has stored a row without room for one more, and has yet to go back
\* to the top.
Wrapping(f) == f.at = "wrap" \/ (Stored(f) /\ f.row >= MaxY - Scale)

(* The calls above such a call have not begun to write, or do it with       *)
(* interrupts off.                                                          *)
WrapsAt(i) ==
  /\ Wrapping(stack[i])
  /\ \A j \in i + 1 .. Len(stack) - 1 : Starting(stack[j])
  /\ i < Len(stack) => Starting(Running) \/ ~interrupts

Pending == \E i \in 1 .. Len(stack) : WrapsAt(i)

RowOK ==
  \/ Low(y)
  \/ y + Scale <= MaxY /\ Pending
  \/ y <= MaxY /\ stack # <<>> /\ Wrapping(Running) /\ ~interrupts

StoreOK(i) ==
  stack[i].at = "store" =>
    /\ IsMultiple(stack[i].row)
    /\ \/ stack[i].row + Scale <= MaxY
       \/ stack[i].row <= MaxY /\ i = Len(stack) /\ ~interrupts

RowInv ==
  /\ IsMultiple(y) /\ RowOK
  /\ At("draw") /\ TRUE \in Running.on => Low(y)
  /\ At("clear") => Low(y)
  /\ (stack # <<>> /\ Stored(Running) /\ ~Wrapping(Running)) => Low(y)
  /\ \A i \in 1 .. Len(stack) : StoreOK(i)

(* A step of the running call that leaves a full screen to those below.     *)
LEMMA PendingMoved ==
  ASSUME TypeOK, Moved, Pending, ~Wrapping(Running), Starting(Running') \/ ~interrupts'
  PROVE  Pending'
<1>1. PICK i \in 1 .. Len(stack) : WrapsAt(i)
  BY DEF Pending
<1>2. i < Len(stack) /\ Len(stack') = Len(stack)
  BY <1>1 DEF WrapsAt, Moved
<1>3. WrapsAt(i)'
  BY <1>1, <1>2 DEF WrapsAt, Moved
<1> QED BY <1>2, <1>3 DEF Pending

(* The running call keeps the row.                                          *)
LEMMA RowMoved ==
  ASSUME TypeOK, RowInv, Moved, UNCHANGED y, ~Wrapping(Running), ~Stored(Running'),
         Low(y) \/ Starting(Running') \/ ~interrupts',
         Running'.at = "draw" /\ TRUE \in Running'.on => Low(y),
         Running'.at = "clear" => Low(y),
         StoreOK(Len(stack))'
  PROVE  RowInv'
<1>1. RowOK'
  <2>1. Low(y) \/ (y + Scale <= MaxY /\ Pending)
    BY DEF RowInv, RowOK, At
  <2>2. CASE Low(y)
    BY <2>2 DEF RowOK, Low
  <2>3. CASE ~Low(y)
    BY <2>1, <2>3, PendingMoved DEF RowOK
  <2> QED BY <2>2, <2>3
<1>2. \A i \in 1 .. Len(stack') : StoreOK(i)'
  <2> SUFFICES ASSUME NEW i \in 1 .. Len(stack) - 1 PROVE StoreOK(i)'
    BY DEF Moved
  <2>1. StoreOK(i)
    BY DEF RowInv, Moved
  <2> QED BY <2>1 DEF StoreOK, Moved
<1>3. IsMultiple(y')
  BY DEF RowInv
<1>4. /\ At("draw")' /\ TRUE \in Running'.on => Low(y')
      /\ At("clear")' => Low(y')
      /\ ((stack # <<>> /\ Stored(Running) /\ ~Wrapping(Running)) => Low(y))'
  BY DEF At, Stored
<1> QED BY <1>1, <1>2, <1>3, <1>4 DEF RowInv

LEMMA RowStep ==
  ASSUME IsMultiple(MaxY), TypeOK, CellInv, RowInv, [Next]_vars
  PROVE  RowInv'
<1> USE FbAssumption
<1> USE DEF cursor
<1>0. y \in Nat /\ MaxY \in Nat /\ Scale \in Nat \ {0}
  BY DEF TypeOK
<1>a. ASSUME stack # <<>>, ~Wrapping(Running), ~Starting(Running)
      PROVE  Low(y) \/ (y + Scale <= MaxY /\ ~interrupts)
  <2>1. Low(y) \/ (y + Scale <= MaxY /\ Pending)
    BY <1>a DEF RowInv, RowOK, At
  <2>2. ASSUME Pending PROVE ~interrupts
    <3>1. PICK i \in 1 .. Len(stack) : WrapsAt(i)
      BY <2>2 DEF Pending
    <3>2. i # Len(stack)
      BY <1>a, <3>1 DEF WrapsAt, Running
    <3>3. stack # <<>>
      BY <1>a
    <3>4. Len(stack) \in Nat \ {0}
      BY <3>3, RunningIsLast
    <3>5. i < Len(stack)
      BY <3>2, <3>4
    <3>6. Starting(Running) \/ ~interrupts
      BY <3>1, <3>5 DEF WrapsAt
    <3> QED BY <1>a, <3>6
  <2> QED BY <2>1, <2>2
<1>b. ASSUME Moved, Running'.at # "store" PROVE StoreOK(Len(stack))'
  BY <1>b DEF StoreOK, Moved
<1>c. ASSUME Moved, UNCHANGED <<y, interrupts>>, ~Wrapping(Running), ~Starting(Running),
             ~Stored(Running'), Running'.at \notin {"draw", "clear", "store"}
      PROVE  RowInv'
  BY <1>a, <1>b, <1>c, RowMoved DEF Moved
<1>1. CASE Initialize
  <2>1. stack = <<>> /\ stack' = <<>> /\ y' = 0
    BY <1>1 DEF Initialize, FbConReset
  <2>2. Low(0) /\ IsMultiple(0)
    BY <1>0, MultipleNext DEF RowInv, Low
  <2>3. Len(stack') = 0
    BY <2>1
  <2> QED BY <2>1, <2>2, <2>3 DEF RowInv, RowOK, At
<1>2. ASSUME NEW kind \in Kinds, NEW n \in 0 .. MaxText, Write(kind, n) PROVE RowInv'
  <2> DEFINE f == NewCall(kind, n)
  <2>1. Called(f) /\ UNCHANGED <<y, interrupts>> /\ (stack = <<>> \/ interrupts)
    BY <1>2, WriteEffect DEF Write
  <2> HIDE DEF f
  <2>2. Low(y) \/ (y + Scale <= MaxY /\ Pending)
    BY <2>1 DEF RowInv, RowOK, At
  <2>3. ASSUME Pending PROVE Pending'
    <3>1. PICK i \in 1 .. Len(stack) : WrapsAt(i)
      BY <2>3 DEF Pending
    <3>2. Len(stack) \in Nat \ {0} /\ stack # <<>> /\ interrupts
      BY <2>1, <3>1 DEF Called
    <3>3. \A j \in i + 1 .. Len(stack) : Starting(stack[j])
      BY <2>1, <3>1, <3>2 DEF WrapsAt, Called
    <3>4. Starting(Running')
      BY <2>1 DEF Called, Starting
    <3>5. WrapsAt(i)'
      BY <2>1, <3>1, <3>2, <3>3, <3>4 DEF WrapsAt, Called
    <3> QED BY <2>1, <3>2, <3>5 DEF Pending, Called
  <2>4. RowOK'
    BY <2>1, <2>2, <2>3 DEF RowOK, Low
  <2>5. \A i \in 1 .. Len(stack') : StoreOK(i)'
    <3> SUFFICES ASSUME NEW i \in 1 .. Len(stack) + 1 PROVE StoreOK(i)'
      BY <2>1 DEF Called
    <3>1. CASE i = Len(stack) + 1
      BY <2>1, <3>1 DEF Called, StoreOK
    <3>2. CASE i # Len(stack) + 1
      <4>1. i \in 1 .. Len(stack) /\ stack # <<>> /\ interrupts
        BY <2>1, <3>2 DEF Called
      <4>2. StoreOK(i) /\ stack'[i] = stack[i]
        BY <2>1, <4>1 DEF RowInv, Called
      <4> QED BY <4>1, <4>2 DEF StoreOK
    <3> QED BY <3>1, <3>2
  <2>6. Running'.at \in {"save", "enter"}
    BY <2>1 DEF Called
  <2> QED BY <2>1, <2>4, <2>5, <2>6 DEF RowInv, At, Stored
<1>3. CASE SaveColour
  <2>1. Moved /\ UNCHANGED y /\ Running.at = "save" /\ Running'.at = "enter"
    BY <1>3, StepFields DEF SaveColour
  <2> QED BY <1>b, <2>1, RowMoved DEF Starting, Stored, Wrapping
<1>4. CASE Enter
  <2>1. Moved /\ UNCHANGED y /\ Running.at = "enter" /\ Running'.at = "next" /\ ~interrupts'
    BY <1>4, StepFields DEF Enter
  <2> QED BY <1>b, <2>1, RowMoved DEF Stored, Wrapping
<1>5. ASSUME NEW c \in Chars, NextChar(c) PROVE RowInv'
  BY <1>c, <1>5, StepFields DEF NextChar, Starting, Stored, Wrapping
<1>6. CASE Leave
  <2>1. Left /\ Running.at = "next" /\ UNCHANGED y /\ IsMultiple(y)
    BY <1>6, LeaveEffect DEF Leave, At, RowInv
  <2>2. interrupts' = (interrupts \/ Running.saved)
    BY <1>6 DEF Leave
  <2>3. Low(y) \/ (y + Scale <= MaxY /\ Pending)
    BY <2>1 DEF RowInv, RowOK, Wrapping, Stored
  <2>4. ASSUME Pending
        PROVE  /\ Pending' /\ Running'.at \notin {"draw", "clear"}
               /\ Stored(Running') => Wrapping(Running')
    <3>1. PICK i \in 1 .. Len(stack) : WrapsAt(i)
      BY <2>4 DEF Pending
    <3>2. i < Len(stack) /\ Len(stack') = Len(stack) - 1
      BY <2>1, <3>1 DEF WrapsAt, Left, Wrapping, Stored
    <3>3. Len(stack) > 1 /\ Running' = stack[Len(stack) - 1] /\ stack'[i] = stack[i]
      BY <2>1, <3>2 DEF Left
    <3>4. i < Len(stack) - 1 => Starting(Running')
      BY <2>1, <3>1, <3>2, <3>3 DEF WrapsAt, Left
    <3>5. \A j \in i + 1 .. Len(stack') - 1 : Starting(stack'[j])
      BY <2>1, <3>1, <3>2 DEF WrapsAt, Left
    <3>6. WrapsAt(i)'
      BY <3>1, <3>2, <3>3, <3>4, <3>5 DEF WrapsAt
    <3>7. Wrapping(Running') \/ Starting(Running')
      BY <2>1, <3>1, <3>2, <3>3, <3>4 DEF WrapsAt, Left
    <3>8. /\ Running'.at \notin {"draw", "clear"}
          /\ Stored(Running') => Wrapping(Running')
      BY <3>7 DEF Wrapping, Stored, Starting
    <3> QED BY <2>1, <3>2, <3>6, <3>8 DEF Pending, Left
  <2>5. RowOK'
    BY <2>1, <2>3, <2>4 DEF RowOK, Low
  <2>6. \A i \in 1 .. Len(stack') : StoreOK(i)'
    <3> SUFFICES ASSUME NEW i \in 1 .. Len(stack) - 1 PROVE StoreOK(i)'
      BY <2>1 DEF Left
    <3>1. StoreOK(i) /\ stack'[i] = stack[i] /\ i # Len(stack)
      BY <2>1 DEF RowInv, Left
    <3> QED BY <3>1 DEF StoreOK
  <2> QED BY <2>1, <2>3, <2>4, <2>5, <2>6 DEF RowInv, At
<1>7. CASE Skip
  BY <1>c, <1>7, StepFields DEF Skip, Starting, Stored, Wrapping
<1>8. CASE CarriageReturn
  BY <1>c, <1>8, StepFields DEF CarriageReturn, Starting, Stored, Wrapping
<1>9. CASE LineFeed
  BY <1>c, <1>9, StepFields DEF LineFeed, Starting, Stored, Wrapping
<1>10. CASE StartGlyph
  <2>1. /\ Moved /\ UNCHANGED y /\ Running.at = "paint" /\ Running'.at = "draw"
        /\ Running'.on = {interrupts} /\ ~interrupts'
    BY <1>10, StepFields DEF StartGlyph
  <2>2. interrupts => Low(y)
    BY <1>a, <2>1 DEF Moved, Starting, Stored, Wrapping
  <2> QED BY <1>b, <2>1, <2>2, RowMoved DEF Stored, Wrapping
<1>11. CASE Draw
  <2>1. /\ Moved /\ UNCHANGED y /\ Running.at = "draw" /\ ~interrupts
        /\ Running'.at \in {"newline", "next"}
    BY <1>11, StepFields DEF Draw, CellInv
  <2>2. TRUE \in Running.on => Low(y)
    BY <1>11 DEF Draw, RowInv
  <2>3. Low(y) \/ ~interrupts'
    <3>1. CASE UNCHANGED interrupts
      BY <2>1, <3>1
    <3>2. CASE EnableIfSo
      BY <2>1, <2>2, <3>2, EnableQuiet DEF Moved
    <3> QED BY <1>11, <3>1, <3>2 DEF Draw
  <2> QED BY <1>b, <2>1, <2>3, RowMoved DEF Stored, Wrapping
<1>12. CASE NextRow
  <2>1. /\ Moved /\ UNCHANGED <<y, interrupts>> /\ Running.at = "newline"
        /\ Running'.at = "store" /\ Running'.row = y + Scale
    BY <1>12, StepFields DEF NextRow
  <2>2. IsMultiple(y + Scale)
    BY <1>0, MultipleNext DEF RowInv
  <2>3. Low(y) \/ (y + Scale <= MaxY /\ ~interrupts)
    BY <1>a, <2>1 DEF Moved, Starting, Stored, Wrapping
  <2>4. StoreOK(Len(stack))'
    BY <1>0, <2>1, <2>2, <2>3 DEF StoreOK, Moved, Low
  <2> QED BY <2>1, <2>3, <2>4, RowMoved DEF Stored, Wrapping
<1>d. ASSUME Moved, Running'.at # "store" PROVE \A i \in 1 .. Len(stack') : StoreOK(i)'
  <2> SUFFICES ASSUME NEW i \in 1 .. Len(stack) PROVE StoreOK(i)'
    BY <1>d DEF Moved
  <2>1. CASE i = Len(stack)
    BY <1>d, <2>1 DEF StoreOK, Moved
  <2>2. CASE i # Len(stack)
    <3>1. Len(stack) \in Nat /\ StoreOK(i)
      BY <1>d DEF RowInv, Moved
    <3>2. stack'[i] = stack[i]
      BY <1>d, <2>2, <3>1 DEF Moved
    <3> QED BY <2>2, <3>1, <3>2 DEF StoreOK
  <2> QED BY <2>1, <2>2
<1>13. CASE StoreRow
  <2> DEFINE row == Running.row
  <2>1. /\ Moved /\ Running.at = "store" /\ y' = row /\ UNCHANGED interrupts
        /\ Running'.at = "column" /\ Running'.row = row /\ row \in Nat
    <3>1. Running.row \in Nat
      BY <1>13, RunningIsLast DEF StoreRow, At, Frame
    <3> QED BY <1>13, <3>1, StepFields DEF StoreRow
  <2>2. StoreOK(Len(stack))
    BY <2>1 DEF RowInv, Moved
  <2>3. IsMultiple(row) /\ (row + Scale <= MaxY \/ (row <= MaxY /\ ~interrupts))
    BY <2>1, <2>2 DEF StoreOK, Moved
  <2> HIDE DEF row
  <2>4. \A i \in 1 .. Len(stack') : StoreOK(i)'
    BY <1>d, <2>1
  <2>5. CASE row >= MaxY - Scale
    <3>1. Wrapping(Running') /\ stack' # <<>> /\ ~At("draw")' /\ ~At("clear")'
      BY <2>1, <2>5 DEF Moved, At, Wrapping, Stored
    <3>2. WrapsAt(Len(stack))' /\ Len(stack) \in 1 .. Len(stack')
      BY <2>1, <3>1 DEF WrapsAt, Moved
    <3>3. Pending'
      BY <2>1, <3>2 DEF Pending, Moved
    <3>4. RowOK'
      BY <2>1, <2>3, <3>1, <3>3 DEF RowOK
    <3> QED BY <2>1, <2>3, <2>4, <3>1, <3>4 DEF RowInv
  <2>6. CASE ~ (row >= MaxY - Scale)
    <3>1. Low(y')
      BY <1>0, <2>1, <2>3, <2>6, MultipleLess DEF Low
    <3>2. ~At("draw")'
      BY <2>1, <2>6 DEF At
    <3> QED BY <2>1, <2>3, <2>4, <3>1, <3>2 DEF RowInv, RowOK
  <2> QED BY <2>5, <2>6
<1>e. ASSUME Moved, UNCHANGED <<y, interrupts>>, Stored(Running), ~Starting(Running),
             Wrapping(Running) => Wrapping(Running')
      PROVE  RowOK'
  <2>1. ASSUME Wrapping(Running) PROVE Pending'
    <3>1. WrapsAt(Len(stack))' /\ Len(stack) \in 1 .. Len(stack')
      BY <1>e, <2>1 DEF WrapsAt, Moved
    <3> QED BY <1>e, <3>1 DEF Pending
  <2>2. ASSUME ~Wrapping(Running) PROVE Low(y)
    BY <1>e, <2>2 DEF RowInv, Moved
  <2>3. CASE Wrapping(Running)
    BY <1>e, <2>1, <2>3 DEF RowInv, RowOK, Low, Moved
  <2> QED BY <1>e, <2>2, <2>3 DEF RowOK, Low
<1>17. CASE StoreColumn
  <2>1. /\ Moved /\ UNCHANGED <<y, interrupts>> /\ Running.at = "column"
        /\ Running'.at = "compare" /\ Running'.row = Running.row
    BY <1>17, StepFields DEF StoreColumn
  <2>2. /\ Stored(Running) /\ ~Starting(Running)
        /\ Wrapping(Running) <=> Wrapping(Running')
    BY <2>1 DEF Stored, Wrapping, Starting
  <2>3. RowOK' /\ \A i \in 1 .. Len(stack') : StoreOK(i)'
    BY <1>d, <1>e, <2>1, <2>2
  <2>4. ~Wrapping(Running') => Low(y')
    BY <2>1, <2>2 DEF RowInv, Moved, Low
  <2> QED BY <2>1, <2>3, <2>4 DEF RowInv, At
<1>18. CASE CompareRow
  <2>1. /\ Moved /\ UNCHANGED <<y, interrupts>> /\ Running.at = "compare"
        /\ Running.row \in Nat /\ IsMultiple(y)
    BY <1>18, StepFields DEF CompareRow, RowInv, Moved, Frame
  <2>2. PICK row \in {y, Running.row} :
          Running'.at = IF row >= MaxY - Scale THEN "wrap" ELSE "clear"
    BY <1>18, StepFields
  <2>3. Stored(Running) /\ ~Starting(Running)
    BY <2>1 DEF Stored, Starting
  <2>4. Wrapping(Running) <=> Running.row >= MaxY - Scale
    BY <2>1 DEF Wrapping, Stored
  <2>5. ~Wrapping(Running) => Low(y)
    BY <2>1, <2>3 DEF RowInv, Moved
  <2>6. \A i \in 1 .. Len(stack') : StoreOK(i)'
    BY <1>d, <2>1, <2>2
  <2>7. CASE row >= MaxY - Scale
    <3>1. Running'.at = "wrap" /\ Wrapping(Running') /\ ~Stored(Running')
      BY <2>2, <2>7 DEF Wrapping, Stored
    <3>2. RowOK'
      BY <1>e, <2>1, <2>3, <3>1
    <3> QED BY <2>1, <2>6, <3>1, <3>2 DEF RowInv, At, Stored
  <2>8. CASE ~ (row >= MaxY - Scale)
    <3>1. Running'.at = "clear" /\ ~Stored(Running')
      BY <2>2, <2>8 DEF Stored
    <3>2. Low(y)
      <4>1. CASE row = y
        BY <1>0, <2>1, <2>8, <4>1, MultipleLess DEF Low
      <4>2. CASE row = Running.row
        BY <2>4, <2>5, <2>8, <4>2
      <4> QED BY <4>1, <4>2
    <3>3. RowOK' /\ Low(y')
      BY <2>1, <3>2 DEF RowOK, Low
    <3> QED BY <2>1, <2>6, <3>1, <3>3 DEF RowInv, At, Stored
  <2> QED BY <2>7, <2>8
<1>14. CASE Wrap
  <2>1. Moved /\ y' = 0 /\ Running'.at = "paint" /\ Running.at = "wrap"
    BY <1>14, StepFields DEF Wrap
  <2>2. Low(0) /\ IsMultiple(0)
    BY <1>0, MultipleNext DEF RowInv, Low
  <2>3. \A i \in 1 .. Len(stack') : StoreOK(i)'
    <3> SUFFICES ASSUME NEW i \in 1 .. Len(stack) PROVE StoreOK(i)'
      BY <2>1 DEF Moved
    <3>1. CASE i = Len(stack)
      BY <2>1, <3>1 DEF StoreOK, Moved
    <3>2. CASE i # Len(stack)
      BY <2>1, <3>2 DEF RowInv, StoreOK, Moved
    <3> QED BY <3>1, <3>2
  <2> QED BY <2>1, <2>2, <2>3 DEF RowInv, RowOK, At, Stored
<1>15. CASE ClearRow
  <2>1. Moved /\ UNCHANGED y /\ Running.at = "clear" /\ Running'.at = "next" /\ Low(y)
    BY <1>15, StepFields DEF ClearRow, RowInv
  <2> QED BY <1>b, <2>1, RowMoved DEF Stored, Wrapping
<1>16. CASE UNCHANGED vars
  <2>1. UNCHANGED <<y, stack, interrupts, Running>>
    BY <1>16 DEF vars, Running
  <2> QED BY <2>1 DEF RowInv, RowOK, Pending, WrapsAt, StoreOK, At, Running
<1> QED
  BY <1>1, <1>2, <1>3, <1>4, <1>5, <1>6, <1>7, <1>8, <1>9, <1>10, <1>11, <1>12,
     <1>13, <1>14, <1>15, <1>16, <1>17, <1>18 DEF Next, Step

(* For every screen whose rows are a multiple of the scale and any depth of *)
(* nesting, all that is painted or cleared lies within the frame buffer     *)
(* (FbConPutCharWithFactor).                                                *)
THEOREM PaintedInside == Spec => []PaintsInside
<1> DEFINE Aligned == IsMultiple(MaxY) => RowInv
<1>1. Init => Aligned
  <2> SUFFICES ASSUME Init PROVE RowInv
    OBVIOUS
  <2>1. Low(0) /\ IsMultiple(0)
    <3>1. 0 = 0 * Scale /\ 0 \in 0 .. 0
      BY FbAssumption, SMT
    <3> QED BY <3>1, FbAssumption DEF IsMultiple, Low
  <2>2. stack = <<>> /\ Len(stack) = 0
    BY DEF Init
  <2> QED BY <2>1, <2>2 DEF Init, RowInv, RowOK, At
<1>2. TypeOK /\ CellInv /\ [Next]_vars => (TypeOK /\ CellInv)'
  BY TypeStep, CellStep
<1>3. TypeOK /\ CellInv /\ Aligned /\ [Next]_vars => Aligned'
  BY RowStep
<1>4. TypeOK /\ CellInv /\ Aligned => PaintsInside
  <2> SUFFICES ASSUME TypeOK, CellInv, RowInv
               PROVE  /\ At("draw") => x < Columns /\ RowBelow(y) <= MaxY
                      /\ At("clear") => RowBelow(y) <= MaxY
    BY DEF PaintsInside
  <2>1. y \in Nat /\ MaxY \in Nat /\ Scale \in Nat \ {0}
    BY FbAssumption DEF TypeOK
  <2>2. ASSUME At("draw") PROVE x < Columns /\ RowBelow(y) <= MaxY
    <3>1. x < Columns
      BY <2>2 DEF CellInv, At
    <3>2. y + Scale <= MaxY
      BY <2>1, <2>2 DEF RowInv, RowOK, At, Low, Wrapping, Stored
    <3> QED BY <3>1, <3>2 DEF RowBelow
  <2>3. ASSUME At("clear") PROVE RowBelow(y) <= MaxY
    BY <2>1, <2>3 DEF RowInv, Low, RowBelow
  <2> QED BY <2>2, <2>3
<1> HIDE DEF Aligned
<1> QED BY InitCorrect, <1>1, <1>2, <1>3, <1>4, PTL DEF Spec

===============================================================================
