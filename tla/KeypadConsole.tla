----------------------------- MODULE KeypadConsole -----------------------------
(***************************************************************************)
(* The console driver KeypadDxe: a timer polls the keypad device, whose    *)
(* keys go to a ring of keys to be read, and to a second one when somebody *)
(* asked to be notified of them.  An event handler empties that one and    *)
(* calls the functions that were registered.                               *)
(*                                                                         *)
(* There is one thread, with task priority levels.  The calls of the       *)
(* console run at TPL_NOTIFY from beginning to end, and so do polls; each  *)
(* is a step.  Timer and handler are notified at TPL_CALLBACK: neither     *)
(* interrupts the other, and the application does not go on before the     *)
(* handler is through.  The functions the handler calls may themselves     *)
(* call the console.                                                       *)
(*                                                                         *)
(* KeypadErr is left out: nothing ever calls KeypadError.                  *)
(*                                                                         *)
(* A definition marked "mutant" is a faulty variant of the one that        *)
(* follows it; no specification uses it.                                   *)
(***************************************************************************)
EXTENDS Naturals, Sequences, SequencesExt, FiniteSets

CONSTANTS
  Keys,          \* keys of the device
  Partial,       \* the key with neither a scan code nor a character
  Nothing,       \* EFI_NOT_READY, and no key
  Bursts,        \* sequences of keys a poll may report
  QueueSize,     \* KEYPAD_EFI_KEY_MAX_COUNT (256)
  Nodes, NoNode, \* memory for registrations
  Wishes,        \* the pairs of key and function that may be registered
  FunctionsMay   \* what functions do: "call" the console, "leave" the list

ASSUME ConsoleAssumption ==
  /\ QueueSize \in Nat \ {0, 1}
  /\ Bursts \subseteq Seq(Keys \cup {Partial}) /\ << >> \in Bursts
  /\ Partial \notin Keys /\ Nothing \notin Keys \cup {Partial}
  /\ \A w \in Wishes : w.key \in Keys
  /\ NoNode \notin Nodes /\ FunctionsMay \subseteq {"call", "leave"}

VARIABLES
  phase,    \* of the driver binding: "stopped", "armed" or "running"
  ticking,  \* is the timer armed?
  coded,    \* has the device been reset, so that its keys have codes?
  partial,  \* IsSupportPartialKey
  queue, notify,  \* EfiKeyQueue and EfiKeyQueueForNotify
  list,     \* NotifyList, and ...
  reg,      \* ... its nodes: the key and the function of each
  pending,  \* KeyNotifyProcessEvent is signalled
  handler,  \* KeyNotifyProcessHandler: "idle", "pop", "walk" or "call"
  hand, link, \* its locals KeyData and Link
  acted,    \* has the function that is called made its call?
  reading,  \* is the application in the loop of ReadKeyStroke?
  got,      \* what was read last
  (* History *)
  due       \* due[n]: keys typed and not yet told to the function of n

rings   == <<queue, notify>>
walk    == <<handler, hand, link, acted>>
binding == <<phase, ticking, coded>>
vars    == <<binding, partial, rings, list, reg, pending, walk, reading, got, due>>

-------------------------------------------------------------------------------
(* EFI_KEY_QUEUE.  A key stays in its slot when it is popped, but is never  *)
(* looked at again: here the slot is emptied.                              *)

Slots    == 0 .. QueueSize - 1
AnyKey   == Keys \cup {Partial}
Queue    == [buf: [Slots -> AnyKey \cup {Nothing}], head: Slots, tail: Slots]
NewQueue == [buf |-> [s \in Slots |-> Nothing], head |-> 0, tail |-> 0]

IsEmpty(q) == q.head = q.tail
IsFull(q)  == (q.tail + 1) % QueueSize = q.head
HeadOf(q)  == q.buf[q.head]

PopNoWrap(q) == [q EXCEPT !.buf[q.head] = Nothing, !.head = @ + 1]  \* mutant
Pop(q) == [q EXCEPT !.buf[q.head] = Nothing, !.head = (@ + 1) % QueueSize]

Put(q, k) == [q EXCEPT !.buf[q.tail] = k, !.tail = (@ + 1) % QueueSize]

PushOntoFull(q, k) == Put(q, k)                                   \* mutant
Push(q, k) == Put(IF IsFull(q) THEN Pop(q) ELSE q, k)

\* Ring q when k was pushed m times.
PushTimes(q, k, m) ==
  LET r[i \in 0 .. m] == IF i = 0 THEN q ELSE Push(r[i - 1], k) IN r[m]

Length(q)   == (QueueSize + q.tail - q.head) % QueueSize
Contents(q) == [i \in 1 .. Length(q) |-> q.buf[(q.head + i - 1) % QueueSize]]
Copies(q, k) == Cardinality({i \in 1 .. Length(q) : Contents(q)[i] = k})

-------------------------------------------------------------------------------
(* Polling: KeypadTimerHandler and the push of the return API              *)

Unused     == [key |-> Nothing, fn |-> Nothing]
Registered == {n \in Nodes : \E i \in DOMAIN list : list[i] = n}
Matching(k) == {n \in Registered : reg[n].key = k}

\* The place of node n in the list, behind all of them for NoNode.
Place(n) == IF \E i \in DOMAIN list : list[i] = n
            THEN CHOOSE i \in DOMAIN list : list[i] = n ELSE Len(list) + 1

\* Will the handler come to n with the key it has in hand?
IsAhead(n) == \/ handler = "walk" /\ Place(n) >= Place(link)
              \/ handler = "call" /\ Place(n) > Place(link)

Smaller(a, b) == IF a < b THEN a ELSE b

\* What the ring of notifications and the one the handler has in hand can
\* still tell n: the rest is lost when the ring overflows.
StillTold(q, n, d) ==
  LET left == Copies(q, reg[n].key)
              + (IF IsAhead(n) /\ hand = reg[n].key THEN 1 ELSE 0)
  IN Smaller(d, left)

\* The state of the console when m copies of k are put in the ring of
\* notifications of state s; told are the registrations that match.
Notified(s, k, m, told) ==
  LET q == PushTimes(s.notify, k, m)
      d == [n \in Nodes |-> IF n \in told THEN s.due[n] + 1 ELSE s.due[n]]
  IN [s EXCEPT !.notify  = q,
               !.pending = @ \/ m > 0,
               !.due     = IF Length(s.notify) + m < QueueSize THEN d
                           ELSE [n \in Nodes |-> IF n \in Registered
                                                 THEN StillTold(q, n, d[n]) ELSE d[n]]]

PushKeyUnlessPending(s, k) ==                                     \* mutant
  IF k = Partial /\ ~partial THEN s
  ELSE LET m == IF s.pending THEN 0 ELSE Cardinality(Matching(k))
       IN [Notified(s, k, m, Matching(k)) EXCEPT !.queue = Push(@, k)]

\* One key of the device, when the state of the console is s.  It is put in
\* the ring of notifications once for every registration that matches.
PushKey(s, k) ==
  IF k = Partial /\ ~partial THEN s
  ELSE [Notified(s, k, Cardinality(Matching(k)), Matching(k)) EXCEPT !.queue = Push(@, k)]

\* The state of the console once keys b were pushed.
Polled(b) ==
  LET s[i \in 0 .. Len(b)] ==
        IF i = 0
        THEN [queue |-> queue, notify |-> notify, pending |-> pending, due |-> due]
        ELSE PushKey(s[i - 1], b[i])
  IN s[Len(b)]

\* What a poll may report: before its first reset the device has no codes for
\* its keys, and the timer is armed before that.
Reported == IF coded THEN Bursts
            ELSE {b \in Bursts : \A i \in DOMAIN b : b[i] = Partial}

-------------------------------------------------------------------------------
(* The calls of the console, for application and functions                 *)

ReadKeyStrokeEx ==
  \E b \in Reported :
    LET s == Polled(b)
    IN /\ IF IsEmpty(s.queue) THEN queue' = s.queue /\ got' = Nothing
          ELSE queue' = Pop(s.queue) /\ got' = HeadOf(s.queue)
       /\ notify' = s.notify /\ pending' = s.pending /\ due' = s.due
       /\ UNCHANGED <<partial, list, reg>>

\* The partial keys at the head of a ring are dropped.
WithoutPartial(q) ==
  LET r[i \in 0 .. Length(q)] ==
        IF i = 0 THEN q
        ELSE IF ~IsEmpty(r[i - 1]) /\ HeadOf(r[i - 1]) = Partial
             THEN Pop(r[i - 1]) ELSE r[i - 1]
  IN r[Length(q)]

\* KeypadWaitForKey, when somebody checks the event.
WaitForKey ==
  \E b \in Reported :
    LET s == Polled(b)
    IN /\ queue' = WithoutPartial(s.queue)
       /\ notify' = s.notify /\ pending' = s.pending /\ due' = s.due
       /\ UNCHANGED <<partial, list, reg, got>>

\* KeypadEfiReset, InitKeypad.
ResetConsole ==
  /\ queue' = NewQueue /\ notify' = NewQueue
  /\ partial' = FALSE
  /\ due' = [n \in Nodes |-> 0]
  /\ UNCHANGED <<list, reg, pending, got>>

SetState(exposed) ==
  /\ partial' = exposed
  /\ UNCHANGED <<rings, list, reg, pending, got, due>>

\* A pair that is registered already keeps its handle.  The memory for another
\* may be short.
Register(w) ==
  IF (\E n \in Registered : reg[n] = w) \/ Registered = Nodes
  THEN UNCHANGED <<partial, rings, list, reg, pending, got, due>>
  ELSE \E n \in Nodes \ Registered :
         /\ list' = Append(list, n) /\ reg' = [reg EXCEPT ![n] = w]
         /\ UNCHANGED <<partial, rings, pending, got, due>>

Unregister(n) ==
  /\ n \in Registered
  /\ list' = RemoveAt(list, Place(n))
  /\ reg' = [reg EXCEPT ![n] = Unused] /\ due' = [due EXCEPT ![n] = 0]
  /\ UNCHANGED <<partial, rings, pending, got>>

Call(mine) ==
  \/ ReadKeyStrokeEx \/ WaitForKey \/ ResetConsole
  \/ \E e \in BOOLEAN : SetState(e)
  \/ \E w \in Wishes : Register(w)
  \/ \E n \in Nodes \ mine : Unregister(n)

-------------------------------------------------------------------------------
(* The application and the driver binding                                  *)

NoWalk == handler = "idle" /\ ~pending

AppCall ==
  /\ phase = "running" /\ NoWalk /\ ~reading
  /\ Call({})
  /\ UNCHANGED <<binding, walk, reading>>

\* One turn of the loop of ReadKeyStroke: it goes on at a partial key.
ReadKeyStroke ==
  /\ phase = "running" /\ NoWalk
  /\ ReadKeyStrokeEx
  /\ reading' = (got' = Partial)
  /\ UNCHANGED <<binding, walk>>

\* Start, until the timer is armed, ...
Start ==
  /\ phase = "stopped"
  /\ phase' = "armed" /\ ticking' = TRUE
  /\ queue' = NewQueue /\ notify' = NewQueue /\ partial' = FALSE
  /\ UNCHANGED <<coded, list, reg, pending, walk, reading, got, due>>

\* ... and after that: the device is reset, the protocols are installed.
FinishStart ==
  /\ phase = "armed"
  /\ phase' = "running" /\ coded' = TRUE
  /\ ResetConsole
  /\ UNCHANGED <<ticking, walk, reading>>

\* The registrations are freed with everything else.
Freed ==
  /\ phase' = "stopped" /\ ticking' = FALSE
  /\ queue' = NewQueue /\ notify' = NewQueue /\ partial' = FALSE
  /\ list' = << >> /\ reg' = [n \in Nodes |-> Unused] /\ due' = [n \in Nodes |-> 0]
  /\ UNCHANGED <<pending, walk, reading, got>>

\* The protocols may not be installed although the device was reset.
FailStart == phase = "armed" /\ Freed /\ (UNCHANGED coded \/ coded' = TRUE)

\* When the protocols are in use they stay, but the timer is gone already.
Stop ==
  /\ phase = "running" /\ NoWalk /\ ~reading
  /\ UNCHANGED coded
  /\ \/ Freed
     \/ /\ ticking' = FALSE
        /\ UNCHANGED <<phase, partial, rings, list, reg, pending, walk, reading, got, due>>

-------------------------------------------------------------------------------
(* The two event handlers                                                  *)

Tick ==
  /\ ticking /\ handler = "idle"
  /\ \E b \in Reported :
       LET s == Polled(b)
       IN /\ queue' = s.queue /\ notify' = s.notify
          /\ pending' = s.pending /\ due' = s.due
  /\ UNCHANGED <<binding, partial, list, reg, walk, reading, got>>

Dispatch ==
  /\ pending /\ handler = "idle"
  /\ pending' = FALSE /\ handler' = "pop"
  /\ UNCHANGED <<binding, partial, rings, list, reg, hand, link, acted, reading, got, due>>

PopKey ==
  /\ handler = "pop"
  /\ handler' = IF IsEmpty(notify) THEN "idle" ELSE "walk"
  /\ IF IsEmpty(notify)
     THEN UNCHANGED <<notify, hand, link>>
     ELSE /\ hand' = HeadOf(notify) /\ notify' = Pop(notify)
          /\ link' = IF list = << >> THEN NoNode ELSE Head(list)
  /\ UNCHANGED <<binding, partial, queue, list, reg, pending, acted, reading, got, due>>

\* What the handler finds behind node n: anything, once n is freed.
Behind(n) ==
  IF n \notin Registered THEN Nodes \cup {NoNode}
  ELSE IF Place(n) = Len(list) THEN {NoNode} ELSE {list[Place(n) + 1]}

WalkPast ==
  /\ handler = "walk" /\ link # NoNode /\ reg[link].key # hand
  /\ link' \in Behind(link)
  /\ UNCHANGED <<binding, partial, rings, list, reg, pending, handler, hand, acted,
                 reading, got, due>>

CallFunction ==
  /\ handler = "walk" /\ link # NoNode /\ reg[link].key = hand
  /\ handler' = "call" /\ acted' = FALSE
  /\ due' = [due EXCEPT ![link] = IF @ = 0 THEN 0 ELSE @ - 1]
  /\ UNCHANGED <<binding, partial, rings, list, reg, pending, hand, link, reading, got>>

\* The function makes a call of the console, one at most.
FunctionCalls ==
  /\ "call" \in FunctionsMay
  /\ handler = "call" /\ ~acted /\ acted' = TRUE
  /\ Call(IF "leave" \in FunctionsMay THEN {} ELSE {link})
  /\ UNCHANGED <<binding, handler, hand, link, reading>>

FunctionReturns ==
  /\ handler = "call"
  /\ link' \in Behind(link)
  /\ handler' = "walk" /\ acted' = FALSE
  /\ UNCHANGED <<binding, partial, rings, list, reg, pending, hand, reading, got, due>>

OneKeyASignal ==                                                  \* mutant
  /\ handler = "walk" /\ link = NoNode
  /\ handler' = "idle" /\ hand' = Nothing
  /\ UNCHANGED <<binding, partial, rings, list, reg, pending, link, acted, reading, got, due>>

\* The local KeyData keeps its value; here it is forgotten.
EndOfList ==
  /\ handler = "walk" /\ link = NoNode
  /\ handler' = "pop" /\ hand' = Nothing
  /\ UNCHANGED <<binding, partial, rings, list, reg, pending, link, acted, reading, got, due>>

-------------------------------------------------------------------------------
Init ==
  /\ phase = "stopped" /\ ticking = FALSE /\ coded = FALSE
  /\ partial = FALSE
  /\ queue = NewQueue /\ notify = NewQueue
  /\ list = << >> /\ reg = [n \in Nodes |-> Unused]
  /\ pending = FALSE
  /\ handler = "idle" /\ hand = Nothing /\ link = NoNode /\ acted = FALSE
  /\ reading = FALSE /\ got = Nothing
  /\ due = [n \in Nodes |-> 0]

Handler == \/ Dispatch \/ PopKey \/ WalkPast \/ CallFunction \/ FunctionReturns
           \/ EndOfList

Next == \/ Handler \/ FunctionCalls \/ Tick
        \/ AppCall \/ ReadKeyStroke \/ Start \/ FinishStart \/ FailStart \/ Stop

Spec == Init /\ [][Next]_vars

\* Nothing that is ready keeps the handler waiting: the application is below
\* it, a tick is short, and the functions return.
FairSpec == Spec /\ WF_vars(Handler)

-------------------------------------------------------------------------------
(* Properties                                                              *)

TypeOK ==
  /\ phase \in {"stopped", "armed", "running"} /\ ticking \in BOOLEAN
  /\ coded \in BOOLEAN /\ partial \in BOOLEAN /\ queue \in Queue /\ notify \in Queue
  /\ list \in Seq(Nodes)
  /\ reg \in [Nodes -> Wishes \cup {Unused}]
  /\ pending \in BOOLEAN
  /\ handler \in {"idle", "pop", "walk", "call"}
  /\ hand \in Keys \cup {Nothing} /\ link \in Nodes \cup {NoNode}
  /\ acted \in BOOLEAN /\ reading \in BOOLEAN
  /\ got \in AnyKey \cup {Nothing}
  /\ due \in [Nodes -> 0 .. QueueSize]

(* What a registration is owed is not forgotten: for every key typed since, *)
(* and not told to its function yet, one is in the ring of notifications,   *)
(* or the handler has it in hand and will still come to that registration,  *)
(* whatever the functions called before do to the list.  Only a reset and a *)
(* ring that overflows lose keys (KeyNotifyProcessHandler).                 *)
NothingForgotten ==
  \A n \in Registered : due[n] = StillTold(notify, n, due[n])

(* Once no more keys are typed that somebody asked for, all functions have  *)
(* been told, or their keys are lost: no signal of KeyNotifyProcessEvent    *)
(* goes missing between the end of the handler and the next key.            *)
NoMoreKeys == <>[][Length(notify') <= Length(notify)]_vars

Delivered == NoMoreKeys => <>[](\A n \in Nodes : due[n] = 0)

(* The ring is a buffer of the latest keys: reading gives the keys in the   *)
(* order of the reports of the device, and only the oldest are dropped.     *)
Buffer == INSTANCE KeyBuffer WITH keys <- Contents(queue), Capacity <- QueueSize - 1

ImplementsKeyBuffer == Buffer!Spec

-------------------------------------------------------------------------------
(* Hypotheses of theorems                                                  *)

\* No function removes its own registration: the handler would follow the link
\* of a node that is free, and nothing can be said of where that leads.
NobodyLeaves == "leave" \notin FunctionsMay

===============================================================================
