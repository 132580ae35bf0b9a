------------------------------- MODULE FbConsole -------------------------------
(***************************************************************************)
(* The console on the frame buffer (FrameBufferSerialPortLib): characters  *)
(* written to the "serial port" are painted at a cursor that wraps at the  *)
(* end of a line and of the screen.                                        *)
(*                                                                         *)
(* The library turns interrupts off while it writes.  But a line feed      *)
(* jumps past the statement that reads the state of the interrupts, and    *)
(* turns them on if an uninitialised variable says so: from then on an     *)
(* event handler of the same module may write in the middle of a write.    *)
(* The stack holds the calls in progress, the running one last.            *)
(*                                                                         *)
(* Coordinates are those of the code: cells across, half-size rows down.   *)
(* Pixels are abstracted to the cell that is painted or the row that is    *)
(* cleared.                                                                *)
(*                                                                         *)
(* A definition marked "mutant" is a faulty variant of the one that        *)
(* follows it; no specification uses it.                                   *)
(***************************************************************************)
EXTENDS Integers, Sequences

CONSTANTS
  Columns,        \* m_MaxPosition.x / SCALE_FACTOR
  MaxY,           \* m_MaxPosition.y
  Scale,          \* SCALE_FACTOR
  Uninitialised,  \* values intstate may have when nothing was assigned to it
  MaxText,        \* characters of one write
  MaxDepth,       \* writes in progress: the main one, and one per event level
  MaxWrites       \* writes altogether

\* With fewer rows a line feed on the last line would be repeated for ever.
ASSUME FbAssumption ==
  /\ Columns \in Nat \ {0} /\ Scale \in Nat \ {0}
  /\ MaxY \in Nat /\ MaxY > 2 * Scale
  /\ Uninitialised \in (SUBSET BOOLEAN) \ {{}}
  /\ MaxText \in Nat /\ MaxDepth \in Nat \ {0} /\ MaxWrites \in Nat

Chars == {"glyph", "space", "newline", "return", "other"}
Kinds == {"plain", "critical"}
White == "white"     \* also the colour before initialisation
Yellow == "yellow"

VARIABLES
  initialized,  \* m_Initialized
  x, y,         \* m_Position
  foreground,   \* m_Color.Foreground
  interrupts,   \* are interrupts on?
  stack,        \* the calls in progress
  writes        \* number of writes, for the bound

vars == <<initialized, x, y, foreground, interrupts, stack, writes>>
cursor == <<x, y>>

Places == {"save", "enter", "next", "paint", "draw", "newline", "store", "column",
           "compare", "wrap", "clear"}

Frame ==
  [ kind: Kinds, at: Places,
    left: 0 .. MaxText,   \* characters after the present one
    c: Chars,
    colour: {White, Yellow},  \* CurrentForeground
    saved: BOOLEAN,       \* InterruptState
    on: SUBSET BOOLEAN,   \* values intstate may have
    row: Nat,             \* the value of m_Position.y that was computed
    lineFeed: BOOLEAN ]   \* history: did this write contain a line feed?

Running == stack[Len(stack)]
At(place) == stack # <<>> /\ Running.at = place
Becomes(f) == stack' = [stack EXCEPT ![Len(stack)] = f]
GoTo(place) == Becomes([Running EXCEPT !.at = place])

\* FbConPutCharWithFactor returns; its locals are gone.
Done == Becomes([Running EXCEPT !.at = "next", !.c = "other", !.on = {}, !.row = 0])

Init ==
  /\ initialized = FALSE /\ x = 0 /\ y = 0 /\ foreground = White
  /\ interrupts \in BOOLEAN
  /\ stack = <<>> /\ writes = 0

-------------------------------------------------------------------------------
(* Calls                                                                   *)

FbConReset == x' = 0 /\ y' = 0 /\ foreground' = White

\* SerialPortInitialize, called by the constructor of DebugLib, before the
\* module has any handlers.
Initialize ==
  /\ stack = <<>> /\ ~initialized
  /\ FbConReset
  /\ initialized' = TRUE
  /\ UNCHANGED <<interrupts, stack, writes>>

\* A write is begun by the module itself, or by a handler of an interrupt.
Write(kind, n) ==
  /\ stack = <<>> \/ interrupts
  /\ Len(stack) < MaxDepth /\ writes < MaxWrites
  /\ stack' = Append(stack,
       [ kind |-> kind, at |-> IF kind = "critical" THEN "save" ELSE "enter",
         left |-> n, c |-> "other", colour |-> White, saved |-> FALSE, on |-> {},
         row |-> 0, lineFeed |-> FALSE ])
  /\ writes' = writes + 1
  /\ UNCHANGED <<initialized, cursor, foreground, interrupts>>

\* SerialPortWriteCritical reads the colour before interrupts are off.
SaveColour ==
  /\ At("save")
  /\ Becomes([Running EXCEPT !.colour = foreground, !.at = "enter"])
  /\ UNCHANGED <<initialized, cursor, foreground, interrupts, writes>>

Enter ==
  /\ At("enter")
  /\ Becomes([Running EXCEPT !.saved = interrupts, !.at = "next"])
  /\ interrupts' = FALSE
  /\ foreground' = IF Running.kind = "critical" THEN Yellow ELSE foreground
  /\ UNCHANGED <<initialized, cursor, writes>>

NextChar(c) ==
  /\ At("next") /\ Running.left > 0
  /\ Becomes([Running EXCEPT !.c = c, !.left = @ - 1, !.at = "paint",
                             !.lineFeed = @ \/ c = "newline"])
  /\ UNCHANGED <<initialized, cursor, foreground, interrupts, writes>>

LeaveWhite ==                                                     \* mutant
  /\ At("next") /\ Running.left = 0
  /\ stack' = SubSeq(stack, 1, Len(stack) - 1)
  /\ foreground' = White
  /\ interrupts' = (interrupts \/ Running.saved)
  /\ UNCHANGED <<initialized, cursor, writes>>

\* The colour and the interrupts are as they were.  A handler ran with
\* interrupts on, as whatever it interrupted does.
Leave ==
  /\ At("next") /\ Running.left = 0
  /\ stack' = SubSeq(stack, 1, Len(stack) - 1)
  /\ foreground' = IF Running.kind = "critical" THEN Running.colour ELSE foreground
  /\ interrupts' = (interrupts \/ Running.saved)
  /\ UNCHANGED <<initialized, cursor, writes>>

-------------------------------------------------------------------------------
(* FbConPutCharWithFactor                                                  *)

\* Characters that do nothing: before initialisation all, later those without a
\* glyph, and blanks at the beginning of a line.
Skipped(c) == ~initialized \/ c = "other" \/ (c = "space" /\ x = 0)

Skip ==
  /\ At("paint") /\ Skipped(Running.c)
  /\ Done
  /\ UNCHANGED <<initialized, cursor, foreground, interrupts, writes>>

CarriageReturn ==
  /\ At("paint") /\ ~Skipped(Running.c) /\ Running.c = "return"
  /\ x' = 0
  /\ Done
  /\ UNCHANGED <<initialized, y, foreground, interrupts, writes>>

\* "goto newline" past the declaration of intstate.
LineFeed ==
  /\ At("paint") /\ ~Skipped(Running.c) /\ Running.c = "newline"
  /\ Becomes([Running EXCEPT !.on = Uninitialised, !.at = "newline"])
  /\ UNCHANGED <<initialized, cursor, foreground, interrupts, writes>>

StartGlyph ==
  /\ At("paint") /\ ~Skipped(Running.c) /\ Running.c \in {"glyph", "space"}
  /\ Becomes([Running EXCEPT !.on = {interrupts}, !.at = "draw"])
  /\ interrupts' = FALSE
  /\ UNCHANGED <<initialized, cursor, foreground, writes>>

EnableAlways == interrupts' = TRUE                                \* mutant

\* if (intstate) ArmEnableInterrupts ()
EnableIfSo == \E on \in Running.on : interrupts' = (interrupts \/ on)

\* FbConDrawglyph fills a box of twice FONT_HEIGHT / 2 * scale_factor lines of
\* pixels from its row on; the box ends above this row.
RowBelow(r) == r + Scale

\* The glyph is painted at the cursor, which moves on.
Draw ==
  /\ At("draw")
  /\ x' = x + 1
  /\ IF x' >= Columns THEN GoTo("newline") /\ UNCHANGED interrupts
                      ELSE EnableIfSo /\ Done
  /\ UNCHANGED <<initialized, y, foreground, writes>>

\* m_Position.y += scale_factor is a read and a write.
NextRow ==
  /\ At("newline")
  /\ Becomes([Running EXCEPT !.row = y + Scale, !.at = "store"])
  /\ UNCHANGED <<initialized, cursor, foreground, interrupts, writes>>

StoreRow ==
  /\ At("store")
  /\ y' = Running.row
  /\ GoTo("column")
  /\ UNCHANGED <<initialized, x, foreground, interrupts, writes>>

ColumnKept ==                                                     \* mutant
  /\ At("column")
  /\ GoTo("compare")
  /\ UNCHANGED <<initialized, cursor, foreground, interrupts, writes>>

StoreColumn ==
  /\ At("column")
  /\ x' = 0
  /\ GoTo("compare")
  /\ UNCHANGED <<initialized, y, foreground, interrupts, writes>>

CompareLate ==                                                    \* mutant
  /\ At("compare")
  /\ \E r \in {y, Running.row} : GoTo(IF r >= MaxY THEN "wrap" ELSE "clear")
  /\ UNCHANGED <<initialized, cursor, foreground, interrupts, writes>>

\* Is the screen full?  The compiler may read m_Position.y again for that, or use
\* the value it has stored; a handler may have moved the cursor meanwhile.
CompareRow ==
  /\ At("compare")
  /\ \E r \in {y, Running.row} : GoTo(IF r >= MaxY - Scale THEN "wrap" ELSE "clear")
  /\ UNCHANGED <<initialized, cursor, foreground, interrupts, writes>>

WrapToLastLine ==                                                 \* mutant
  /\ At("wrap")
  /\ y' = MaxY - 2 * Scale
  /\ EnableIfSo
  /\ GoTo("paint")
  /\ UNCHANGED <<initialized, x, foreground, writes>>

\* The screen is full: the same character is painted once more at its top.
Wrap ==
  /\ At("wrap")
  /\ y' = 0
  /\ EnableIfSo
  /\ GoTo("paint")
  /\ UNCHANGED <<initialized, x, foreground, writes>>

\* The new row is cleared, and the character is done.
ClearRow ==
  /\ At("clear")
  /\ EnableIfSo
  /\ Done
  /\ UNCHANGED <<initialized, cursor, foreground, writes>>

-------------------------------------------------------------------------------
Step ==
  \/ SaveColour \/ Enter \/ (\E c \in Chars : NextChar(c)) \/ Leave
  \/ Skip \/ CarriageReturn \/ LineFeed \/ StartGlyph \/ Draw
  \/ NextRow \/ StoreRow \/ StoreColumn \/ CompareRow \/ Wrap \/ ClearRow

Next ==
  \/ Initialize
  \/ \E kind \in Kinds, n \in 0 .. MaxText : Write(kind, n)
  \/ Step

Spec == Init /\ [][Next]_vars

\* One thread: the call that runs goes on.
FairSpec == Spec /\ WF_vars(Step)

-------------------------------------------------------------------------------
(* Properties                                                              *)

TypeOK ==
  /\ initialized \in BOOLEAN /\ interrupts \in BOOLEAN
  /\ x \in 0 .. Columns /\ y \in Nat
  /\ foreground \in {White, Yellow}
  /\ stack \in Seq(Frame) /\ Len(stack) <= MaxDepth
  /\ writes \in 0 .. MaxWrites

IsMultiple(r) == \E k \in 0 .. r : r = k * Scale

(* What is painted or cleared lies within the frame buffer, in whatever     *)
(* order calls interrupt each other, also between the two updates of the    *)
(* row at the end of the screen (FbConPutCharWithFactor).  This needs a     *)
(* number of rows that is a multiple of the scale: with one row left over,  *)
(* a handler that writes between StoreRow and Wrap paints below the screen. *)
PaintsInside ==
  IsMultiple(MaxY) =>
    /\ At("draw") => x < Columns /\ RowBelow(y) <= MaxY
    /\ At("clear") => RowBelow(y) <= MaxY

(* Text is yellow exactly while a SerialPortWriteCritical is in progress,   *)
(* also if that call was interrupted by another one, or interrupted one.    *)
ColourOfCritical ==
  foreground = Yellow <=>
    \E i \in DOMAIN stack : stack[i].kind = "critical" /\ stack[i].at \notin {"save", "enter"}

(* A write without a line feed leaves the interrupts as it found them, and  *)
(* is not interrupted: the two nested sections with interrupts off          *)
(* (SerialPortWrite, FbConPutCharWithFactor) do not undo each other.        *)
InterruptsKept ==
  [][ \A i \in DOMAIN stack :
        ~stack[i].lineFeed /\ stack[i].at \notin {"save", "enter"} =>
          IF Len(stack') < i THEN interrupts' = stack[i].saved
          ELSE ~interrupts' /\ Len(stack') = Len(stack) ]_vars

(* Every write comes to its end, although a character that meets the end of *)
(* the screen is painted again, as long as handlers do not write for ever.  *)
WritesReturn == []<>(stack = <<>>)

===============================================================================
