--------------------------- MODULE ConsoleProofs ---------------------------
(***************************************************************************)
(* Proofs about Console: the marks miss no cell, for a grid of any size    *)
(* and words of any length; the caret; where Print writes; and that the    *)
(* console implements Picture.                                             *)
(***************************************************************************)
EXTENDS Console, TLAPS

\* A cell that differs from its old copy is marked, and there is something to
\* update, unless Print is at work.
Marks == ready =>
  /\ \A i \in Drawn : content[i] # old[i] => i \in marked
  /\ \/ dirty \/ pc \in {"print", "crashed"}
     \/ \A i \in Drawn : content[i] = old[i]

\* A valid window shows the cells that were drawn since they were made.
Glass == ready /\ ~invalid => \A i \in Drawn : old[i] \in {None, window[i]}

\* What waits for Update has its event, or will when the bytes are parsed.
Signals == (dirty => event) /\ (cursorDirty => event \/ pc = "parsing")

\* When nothing was drawn yet, and Update was told nothing.
Early == /\ oldVisible = "never"
         /\ \/ pc \in {"args", "create", "windows"} \cup Over
            \/ pc \in {"print", "update"} /\ ~ready

\* What old_cursor and the bookkeeping say of the caret.
Caret ==
  /\ pc \in {"args", "create", "windows"} => oldVisible = "never" /\ visible = "on"
  /\ pc = "args" => ~ready
  /\ cursorDirty \/ Early \/ oldVisible = visible
  /\ oldVisible = "off" =>
       hidden > 0 \/ (visible = "on" /\ cursorDirty /\ pc # "parsing")
  /\ misled \/ (hidden <= 1 /\ (oldVisible # "off" => hidden = 0))
  /\ ready /\ ~cursorDirty /\ visible = "on" /\ pc \in {"wait", "messages", "parsing"}
       => caretAt \in {<<x, y>>, <<>>}

\* Print's place runs ahead of the cursor by one for every full line.
Lag == pc = "print" => y >= Row - 1 \/ offset <= x + y * Col + y

IInv == TypeOK /\ Marks /\ Glass /\ Signals /\ Caret /\ Lag

-----------------------------------------------------------------------------
(* Arithmetic *)

LEMMA TimesNat == ASSUME NEW a \in Nat, NEW b \in Nat PROVE a * b \in Nat
  OBVIOUS

LEMMA Distribute ==
  ASSUME NEW a \in Int, NEW b \in Int, NEW c \in Int
  PROVE  (a + b) * c = a * c + b * c /\ (a - b) * c = a * c - b * c
  OBVIOUS

LEMMA Sizes ==
  /\ Col \in Nat /\ Row \in Nat /\ ScrRow \in Nat /\ Col >= 1 /\ Row >= 1
  /\ End \in Nat /\ End >= Col /\ End >= 1
  /\ Drawn \subseteq Cells /\ Host \subseteq Drawn /\ Cells \subseteq Int
<1>1. Col \in Nat /\ Row \in Nat /\ ScrRow \in Nat /\ Col >= 1 /\ Row >= 1
      /\ ScrRow + 1 <= Row
  BY ConstantsAssumption DEF ConstantsAssumption
<1>2. End \in Nat
  BY <1>1, TimesNat DEF End
<1>3. (Row - 1) * Col \in Nat /\ Col * Row = (Row - 1) * Col + Col
  BY <1>1, TimesNat, Distribute
<1>4. End >= Col /\ End >= 1
  BY <1>1, <1>3 DEF End
<1>5. (Row - (ScrRow + 1)) * Col \in Nat
  BY <1>1, TimesNat
<1>6. (Row - (ScrRow + 1)) * Col = Row * Col - (ScrRow + 1) * Col
  BY <1>1, Distribute
<1>7. (ScrRow + 1) * Col = ScrRow * Col + Col /\ ScrRow * Col \in Nat
  BY <1>1, TimesNat, Distribute
<1>8. (ScrRow + 1) * Col <= End /\ ScrRow * Col <= (ScrRow + 1) * Col
  BY <1>1, <1>5, <1>6, <1>7 DEF End
<1>9. (ScrRow + 1) * Col \in Nat
  BY <1>1, <1>7
<1>10. Drawn \subseteq Cells
  BY <1>2, <1>8, <1>9 DEF Drawn, Cells
<1>11. Host \subseteq Drawn
  BY <1>7, <1>8, <1>9 DEF Drawn, Host
<1> QED BY <1>1, <1>2, <1>4, <1>10, <1>11 DEF Cells

LEMMA NoneIsNoChar == None \notin Char /\ Blank \in Char /\ Star \in Char
                      /\ Newline \notin Char /\ Block \in Size
                      /\ Text \subseteq Seq(Char \cup {Newline})
  BY ConstantsAssumption DEF ConstantsAssumption

-----------------------------------------------------------------------------
(* Types, group by group: a group that no action touches keeps its types. *)

LEMMA Kept ==
  ASSUME TypeOK
  PROVE  /\ UNCHANGED grid => GridTypes'
         /\ UNCHANGED flags => FlagTypes'
         /\ UNCHANGED cursor => CursorTypes'
         /\ UNCHANGED caret => CaretTypes'
         /\ UNCHANGED glass => GlassTypes'
         /\ UNCHANGED printer => PrinterTypes'
         /\ UNCHANGED start => StartTypes'
         /\ UNCHANGED ready => ready' \in BOOLEAN
         /\ UNCHANGED pc => pc' \in Points
         /\ UNCHANGED from => from' \in Dispatching
         /\ UNCHANGED inputs => inputs' \in 0 .. Inputs
<1> USE DEF TypeOK
<1>1. UNCHANGED grid => GridTypes'
  BY DEF GridTypes, grid
<1>2. UNCHANGED flags => FlagTypes'
  BY DEF FlagTypes, flags
<1>3. UNCHANGED cursor => CursorTypes'
  BY DEF CursorTypes, cursor
<1>4. UNCHANGED caret => CaretTypes'
  BY DEF CaretTypes, caret
<1>5. UNCHANGED glass => GlassTypes'
  BY DEF GlassTypes, glass
<1>6. UNCHANGED printer => PrinterTypes'
  BY DEF PrinterTypes, printer
<1>7. UNCHANGED start => StartTypes'
  BY DEF StartTypes, start
<1> QED BY <1>1, <1>2, <1>3, <1>4, <1>5, <1>6, <1>7

LEMMA TouchTypes ==
  ASSUME FlagTypes, Touch PROVE dirty' \in BOOLEAN /\ event' \in BOOLEAN
  BY DEF FlagTypes, Touch

LEMMA TouchCursorTypes ==
  ASSUME FlagTypes, NEW update \in BOOLEAN, TouchCursor(update), UNCHANGED dirty
  PROVE  FlagTypes'
  BY DEF FlagTypes, TouchCursor

LEMMA OutputTypes ==
  ASSUME TypeOK, NEW c, NEW n, NEW ch \in Char, Output(c, n, ch), UNCHANGED old
  PROVE  GridTypes' /\ dirty' \in BOOLEAN /\ event' \in BOOLEAN
<1>1. GridTypes'
  BY DEF TypeOK, GridTypes, Output
<1> QED BY <1>1, TouchTypes DEF TypeOK, Output

LEMMA ClearTypes ==
  ASSUME TypeOK, Clear, UNCHANGED <<old, cursorDirty, visible, size>>
  PROVE  GridTypes' /\ FlagTypes' /\ CursorTypes'
<1>1. GridTypes'
  BY NoneIsNoChar DEF TypeOK, GridTypes, Clear
<1>2. FlagTypes'
  <2>1. CASE ready
    BY <2>1, TouchTypes DEF TypeOK, FlagTypes, Clear
  <2>2. CASE ~ready
    BY <2>2 DEF TypeOK, FlagTypes, Clear
  <2> QED BY <2>1, <2>2
<1>3. CursorTypes'
  BY Sizes DEF TypeOK, CursorTypes, Clear
<1> QED BY <1>1, <1>2, <1>3

LEMMA MakeTypes ==
  ASSUME TypeOK, NEW picture \in [Host -> Char], Make(picture)
  PROVE  GridTypes' /\ FlagTypes' /\ CursorTypes' /\ CaretTypes' /\ ready' \in BOOLEAN
<1>1. GridTypes'
  BY NoneIsNoChar DEF TypeOK, GridTypes, Make
<1>2. FlagTypes'
  BY TouchTypes DEF TypeOK, FlagTypes, Make
<1>3. CursorTypes'
  BY Sizes DEF TypeOK, CursorTypes, Make
<1>4. hidden' \in Nat /\ caretAt' = <<>> /\ oldVisible' = oldVisible
      /\ oldSize' = oldSize
  BY DEF Make
<1>5. misled' \in BOOLEAN
  BY DEF Make
<1>6. CaretTypes'
  BY <1>4, <1>5 DEF TypeOK, CaretTypes
<1> QED BY <1>1, <1>2, <1>3, <1>6 DEF Make

LEMMA MoveCaretTypes == ASSUME TypeOK, MoveCaret PROVE CaretTypes'
<1> USE DEF TypeOK, CaretTypes, CursorTypes, MoveCaret
<1>1. oldVisible' \in {"never", "on", "off"} /\ oldSize' \in Size \cup {None}
  OBVIOUS
<1>2. hidden' \in Nat
  OBVIOUS
<1>3. misled' \in BOOLEAN
  OBVIOUS
<1>4. caretAt' \in ((0 .. Col) \X (0 .. Row)) \cup {<<>>}
  OBVIOUS
<1> QED BY <1>1, <1>2, <1>3, <1>4

LEMMA UpdateTypes ==
  ASSUME TypeOK, Update
  PROVE  GridTypes' /\ FlagTypes' /\ CursorTypes' /\ CaretTypes' /\ GlassTypes'
         /\ ready' \in BOOLEAN
<1>1. GridTypes'
  BY Sizes DEF TypeOK, GridTypes, Update, Draw, Remarked
<1>2. FlagTypes'
  BY DEF FlagTypes, Update
<1>3. CursorTypes'
  BY Kept DEF Update
<1>4. CaretTypes'
  BY Kept, MoveCaretTypes DEF Update
<1>5. invalid' \in BOOLEAN
  BY DEF TypeOK, GlassTypes, Update, Draw
<1>6. GlassTypes'
  BY <1>5 DEF TypeOK, GlassTypes, Update
<1> QED BY <1>1, <1>2, <1>3, <1>4, <1>6 DEF Update

LEMMA MessageTypes ==
  ASSUME TypeOK, NEW t \in Seq(Char \cup {Newline}), NEW then \in Returns,
         Message(t, then)
  PROVE  PrinterTypes' /\ pc' \in Points
<1>1. x + y * Col \in Nat
  BY Sizes DEF TypeOK, CursorTypes
<1> QED BY <1>1 DEF Message, PrinterTypes, Points

LEMMA ShowCursorTypes ==
  ASSUME TypeOK, ShowCursor, UNCHANGED <<x, y, dirty>>
  PROVE  CursorTypes' /\ FlagTypes'
<1>1. CASE ready
  BY <1>1, NoneIsNoChar, TouchCursorTypes DEF TypeOK, CursorTypes, ShowCursor
<1>2. CASE ~ready
  BY <1>2 DEF TypeOK, CursorTypes, FlagTypes, ShowCursor
<1> QED BY <1>1, <1>2

LEMMA InitTypes == Init => TypeOK
<1> SUFFICES ASSUME Init PROVE TypeOK
  OBVIOUS
<1>1. GridTypes /\ FlagTypes /\ GlassTypes
  BY NoneIsNoChar DEF Init, GridTypes, FlagTypes, GlassTypes
<1>2. CursorTypes
  BY Sizes DEF Init, CursorTypes
<1>3. CaretTypes
  BY DEF Init, CaretTypes
<1>4. PrinterTypes /\ StartTypes
  BY ConstantsAssumption
  DEF Init, PrinterTypes, StartTypes, Returns, ConstantsAssumption
<1>5. ready \in BOOLEAN /\ pc \in Points /\ from \in Dispatching
  BY DEF Init, Points, Dispatching
<1>6. inputs \in 0 .. Inputs
  BY ConstantsAssumption DEF Init, ConstantsAssumption
<1> QED BY <1>1, <1>2, <1>3, <1>4, <1>5, <1>6 DEF TypeOK

LEMMA StartUpTypes == ASSUME TypeOK, StartUp PROVE TypeOK'
<1> USE Kept
<1>0. /\ \A t \in Text : t \in Seq(Char \cup {Newline})
      /\ <<Newline>> \in Seq(Char \cup {Newline})
      /\ <<Star>> \in Seq(Char \cup {Newline})
  BY NoneIsNoChar
<1>1. CASE BadConfig
  <2>1. PrinterTypes' /\ pc' \in Points
    BY <1>0, <1>1, MessageTypes DEF BadConfig, Returns
  <2> QED BY <1>1, <2>1 DEF BadConfig, TypeOK
<1>2. CASE GoodConfig \/ CreateFails
  BY <1>2 DEF GoodConfig, CreateFails, TypeOK, Points, Over
<1>3. CASE Create
  <2>1. [i \in Host |-> Blank] \in [Host -> Char]
    BY NoneIsNoChar
  <2>2. GridTypes' /\ FlagTypes' /\ CursorTypes' /\ CaretTypes' /\ ready' \in BOOLEAN
    BY <1>3, <2>1, MakeTypes DEF Create
  <2>3. GlassTypes'
    BY <1>3 DEF Create, TypeOK, GlassTypes
  <2> QED BY <1>3, <2>2, <2>3 DEF Create, TypeOK, Points
<1>4. CASE WindowInit
  <2>1. GridTypes' /\ dirty' \in BOOLEAN /\ event' \in BOOLEAN
    BY <1>4, OutputTypes, NoneIsNoChar DEF WindowInit
  <2>2. CursorTypes' /\ FlagTypes'
    BY <1>4, <2>1, Sizes DEF WindowInit, CursorTypes, FlagTypes
  <2> QED BY <1>4, <2>1, <2>2 DEF WindowInit, TypeOK, Points
<1>5. CASE KeyboardFails \/ QueueMisread \/ PortFails
  BY <1>5 DEF KeyboardFails, QueueMisread, PortFails, TypeOK, Points, Over
<1>6. CASE KeyboardInit \/ ModuleWait \/ ModuleNext
  BY <1>6 DEF KeyboardInit, ModuleWait, ModuleNext, TypeOK, Points, Dispatching, Returns
<1>7. CASE ModuleName
  <2>1. PrinterTypes' /\ pc' \in Points
    BY <1>0, <1>7, MessageTypes DEF ModuleName, Returns, Points
  <2>2. StartTypes'
    BY <1>7 DEF ModuleName, TypeOK, StartTypes
  <2> QED BY <1>7, <2>1, <2>2 DEF ModuleName, TypeOK
<1>8. CASE ModuleCursor
  <2>1. FlagTypes'
    BY <1>8, TouchCursorTypes DEF ModuleCursor, TypeOK, FlagTypes
  <2> QED BY <1>8, <2>1 DEF ModuleCursor, TypeOK, Points, Dispatching
<1>9. CASE ModuleReported
  <2>1. PrinterTypes' /\ pc' \in Points
    BY <1>0, <1>9, MessageTypes DEF ModuleReported, Returns
  <2> QED BY <1>9, <2>1 DEF ModuleReported, TypeOK
<1>10. CASE ModuleLate
  <2>1. PrinterTypes' /\ pc' \in Points
    BY <1>0, <1>10, MessageTypes DEF ModuleLate, Returns
  <2>2. StartTypes'
    BY <1>10 DEF ModuleLate, TypeOK, StartTypes
  <2> QED BY <1>10, <2>1, <2>2 DEF ModuleLate, TypeOK
<1>11. CASE ModuleStar
  <2>1. PrinterTypes' /\ pc' \in Points
    BY <1>0, <1>11, MessageTypes DEF ModuleStar, Returns
  <2> QED BY <1>11, <2>1 DEF ModuleStar, TypeOK
<1>12. CASE ModulesDone
  <2>1. StartTypes'
    BY <1>12 DEF ModulesDone, Greetings, StartTypes
  <2> QED BY <1>12, <2>1 DEF ModulesDone, TypeOK, Points, Returns
<1>13. CASE Greet
  <2>1. PrinterTypes' /\ pc' \in Points
    BY <1>0, <1>13, MessageTypes DEF Greet, Returns
  <2>2. StartTypes'
    BY <1>13 DEF Greet, TypeOK, StartTypes
  <2> QED BY <1>13, <2>1, <2>2 DEF Greet, TypeOK
<1>14. CASE Started
  BY <1>14, ShowCursorTypes DEF Started, TypeOK, Points
<1> QED BY <1>1, <1>2, <1>3, <1>4, <1>5, <1>6, <1>7, <1>8, <1>9, <1>10, <1>11,
           <1>12, <1>13, <1>14 DEF StartUp

LEMMA PrintingTypes == ASSUME TypeOK, Printing PROVE TypeOK'
<1> USE Kept
<1>0. x \in 0 .. Col /\ y \in 0 .. Row /\ text \in Seq(Char \cup {Newline})
      /\ offset \in Nat /\ back \in Returns
      /\ visible \in {"on", "off"} /\ size \in Size
  BY DEF TypeOK, CursorTypes, PrinterTypes
<1>1. CASE PrintNewline
  <2>1. (y + 1) * Col \in Nat /\ End - Col \in Nat
    BY <1>0, Sizes, TimesNat
  <2>2. PrinterTypes'
    BY <1>0, <1>1, <2>1 DEF PrintNewline, PrinterTypes
  <2>3. CursorTypes'
    BY <1>0, <1>1, Sizes DEF PrintNewline, CursorTypes
  <2> QED BY <1>1, <2>2, <2>3 DEF PrintNewline, TypeOK
<1>2. CASE PrintChar
  <2>1. Tail(text) \in Seq(Char \cup {Newline}) /\ Head(text) \in Char
    BY <1>0, <1>2 DEF PrintChar
  <2>2. offset \in Cells
    BY <1>0, <1>2, Sizes DEF PrintChar, Cells
  <2>3. CursorTypes'
    BY <1>0, <1>2, Sizes DEF PrintChar, Advance, CursorTypes
  <2>4. GridTypes'
    BY <1>2, <2>1, <2>2 DEF PrintChar, TypeOK, GridTypes
  <2>5. PrinterTypes'
    BY <1>0, <1>2, <2>1 DEF PrintChar, PrinterTypes
  <2> QED BY <1>2, <2>3, <2>4, <2>5 DEF PrintChar, TypeOK
<1>3. CASE PrintOutside
  <2>1. PrinterTypes'
    BY <1>0, <1>3, Sizes DEF PrintOutside, PrinterTypes
  <2> QED BY <1>3, <2>1 DEF PrintOutside, TypeOK, Points, Over
<1>4. CASE PrintEnd
  <2>1. dirty' \in BOOLEAN /\ event' \in BOOLEAN
    BY <1>4, TouchTypes DEF PrintEnd, TypeOK, FlagTypes
  <2>2. FlagTypes'
    BY <1>4, <2>1 DEF PrintEnd, TypeOK, FlagTypes
  <2>3. PrinterTypes'
    BY <1>0, <1>4 DEF PrintEnd, PrinterTypes
  <2> QED BY <1>4, <2>2, <2>3 DEF PrintEnd, TypeOK, Points
<1>5. CASE MessageShown
  <2>1. PrinterTypes'
    BY <1>0, <1>5 DEF MessageShown, PrinterTypes, Returns
  <2>2. CASE ready
    BY <1>0, <1>5, <2>1, <2>2, UpdateTypes DEF MessageShown, TypeOK, Points
  <2>3. CASE ~ready
    BY <1>5, <2>1, <2>3 DEF MessageShown, TypeOK, Points, Over
  <2> QED BY <2>2, <2>3
<1> QED BY <1>1, <1>2, <1>3, <1>4, <1>5 DEF Printing

LEMMA LoopTypes == ASSUME TypeOK, Loop \/ Paint \/ ResetEnd \/ Rest PROVE TypeOK'
<1> USE Kept
<1>1. CASE ScreenEvent
  <2>1. CASE ready
    BY <1>1, <2>1, UpdateTypes DEF ScreenEvent, TypeOK, Points, Dispatching
  <2>2. CASE ~ready
    BY <1>1, <2>2 DEF ScreenEvent, TypeOK, Points, Dispatching
  <2> QED BY <2>1, <2>2
<1>2. CASE OtherEvent \/ Parse \/ NoMessage
  BY <1>2 DEF OtherEvent, Parse, NoMessage, TypeOK, Points, Dispatching
<1>3. CASE HostOutput
  <2>1. GridTypes' /\ dirty' \in BOOLEAN /\ event' \in BOOLEAN
    BY <1>3, OutputTypes DEF HostOutput
  <2>2. FlagTypes'
    BY <1>3, <2>1 DEF HostOutput, TypeOK, FlagTypes
  <2> QED BY <1>3, <2>1, <2>2 DEF HostOutput, TypeOK
<1>4. CASE HostCursor
  <2>1. FlagTypes'
    BY <1>4, TouchCursorTypes DEF HostCursor, TypeOK
  <2>2. CursorTypes'
    BY <1>4, Sizes, ConstantsAssumption
    DEF HostCursor, TypeOK, CursorTypes, ConstantsAssumption
  <2> QED BY <1>4, <2>1, <2>2 DEF HostCursor, TypeOK
<1>5. CASE ParseEnd
  <2>1. FlagTypes'
    BY <1>5, TouchTypes DEF ParseEnd, TypeOK, FlagTypes
  <2> QED BY <1>5, <2>1 DEF ParseEnd, TypeOK, Points, Dispatching
<1>6. CASE Paint
  <2>1. GlassTypes'
    BY <1>6, Sizes DEF Paint, TypeOK, GlassTypes, GridTypes
  <2> QED BY <1>6, <2>1 DEF Paint, TypeOK
<1>7. CASE ResetEnd
  BY <1>7, ShowCursorTypes DEF ResetEnd, TypeOK, Points, Dispatching
<1>8. CASE Rest
  BY <1>8 DEF Rest, vars, TypeOK
<1> QED BY <1>1, <1>2, <1>3, <1>4, <1>5, <1>6, <1>7, <1>8 DEF Loop

LEMMA UserTypes == ASSUME TypeOK, User PROVE TypeOK'
<1> USE Kept
<1>0. Dispatched => inputs' \in 0 .. Inputs
  BY ConstantsAssumption DEF Dispatched, TypeOK, ConstantsAssumption
<1>1. CASE Uncover
  <2>1. GlassTypes'
    BY <1>1 DEF Uncover, GlassTypes
  <2> QED BY <1>0, <1>1, <2>1 DEF Uncover, TypeOK
<1>2. CASE Resize
  <2>1. GridTypes' /\ FlagTypes' /\ CursorTypes' /\ CaretTypes' /\ ready' \in BOOLEAN
    BY <1>2, MakeTypes DEF Resize
  <2> QED BY <1>0, <1>2, <2>1 DEF Resize, TypeOK
<1>3. CASE ResizeFails
  BY <1>0, <1>3 DEF ResizeFails, TypeOK
<1>4. CASE LayoutKey
  <2>1. CASE ready
    <3>1. GridTypes' /\ dirty' \in BOOLEAN /\ event' \in BOOLEAN
      BY <1>4, <2>1, OutputTypes DEF LayoutKey
    <3>2. FlagTypes'
      BY <1>4, <3>1 DEF LayoutKey, TypeOK, FlagTypes
    <3> QED BY <1>0, <1>4, <3>1, <3>2 DEF LayoutKey, TypeOK
  <2>2. CASE ~ready
    <3>1. FlagTypes'
      BY <1>4, <2>2, TouchTypes DEF LayoutKey, TypeOK, FlagTypes
    <3>2. GridTypes'
      BY <1>4, <2>2 DEF LayoutKey, TypeOK, GridTypes
    <3> QED BY <1>0, <1>4, <3>1, <3>2 DEF LayoutKey, TypeOK
  <2> QED BY <2>1, <2>2 DEF TypeOK
<1>5. CASE ResetKey
  <2>1. GridTypes' /\ FlagTypes' /\ CursorTypes'
    BY <1>5, ClearTypes DEF ResetKey
  <2>2. PrinterTypes' /\ pc' \in Points /\ from' \in Dispatching
    BY <1>5, NoneIsNoChar DEF ResetKey, Dispatched, PrinterTypes, Points, Returns
  <2> QED BY <1>0, <1>5, <2>1, <2>2 DEF ResetKey, TypeOK
<1>6. CASE CloseWindow
  <2>1. GridTypes' /\ FlagTypes' /\ CursorTypes'
    <3>1. CASE Clear
      BY <1>6, <3>1, ClearTypes DEF CloseWindow
    <3>2. CASE UNCHANGED <<content, marked, dirty, event, x, y>>
      BY <1>6, <3>2 DEF CloseWindow, grid, flags, cursor
    <3> QED BY <1>6, <3>1, <3>2 DEF CloseWindow
  <2> QED BY <1>0, <1>6, <2>1 DEF CloseWindow, TypeOK, Points, Over
<1> QED BY <1>1, <1>2, <1>3, <1>4, <1>5, <1>6 DEF User

LEMMA StepTypes == TypeOK /\ [Next]_vars => TypeOK'
<1>1. ASSUME TypeOK, UNCHANGED vars PROVE TypeOK'
  BY <1>1, Kept DEF vars, TypeOK
<1> QED BY <1>1, StartUpTypes, PrintingTypes, LoopTypes, UserTypes DEF Next

\* THEOREM: variables keep their types.
THEOREM TypeCorrect == Spec => []TypeOK
<1>1. Init => TypeOK
  BY InitTypes
<1>2. TypeOK /\ [Next]_vars => TypeOK'
  BY StepTypes
<1> QED BY <1>1, <1>2, PTL DEF Spec

-----------------------------------------------------------------------------
(* Marks and Glass: writing, drawing and showing *)

\* What was written is marked.
LEMMA OutputMarks ==
  ASSUME TypeOK, Marks, ready, NEW c \in Int, NEW n \in Int, NEW ch,
         Output(c, n, ch), UNCHANGED old
  PROVE  Marks'
<1>1. ASSUME NEW i \in Drawn, content'[i] # old'[i] PROVE i \in marked'
  <2>0. i \in Cells /\ i \in Int
    BY Sizes
  <2>1. CASE i \in c .. c + n - 1
    BY <2>0, <2>1 DEF Output
  <2>2. CASE i \notin c .. c + n - 1
    <3>1. content'[i] = content[i]
      BY <2>0, <2>2 DEF Output
    <3> QED BY <1>1, <3>1 DEF Output, Marks
  <2> QED BY <2>1, <2>2
<1>2. dirty'
  BY DEF Output, Touch
<1> QED BY <1>1, <1>2 DEF Marks

LEMMA MakeMarks ==
  ASSUME NEW picture, Make(picture)
  PROVE  Marks' /\ \A i \in Drawn : old'[i] = None
  BY Sizes DEF Make, Touch, Marks

LEMMA ClearMarks ==
  ASSUME Marks, Clear, UNCHANGED ready, pc \notin {"print", "crashed"}, UNCHANGED old
  PROVE  Marks'
  BY Sizes DEF Clear, Touch, Marks

\* Update draws every cell that differs: the words it visits hold all of them.
LEMMA UpdateDraws ==
  ASSUME TypeOK, Marks, Update, pc \notin {"print", "crashed"}
  PROVE  \A i \in Drawn : old'[i] = content[i]
<1> SUFFICES ASSUME NEW i \in Drawn PROVE old'[i] = content[i]
  OBVIOUS
<1>1. CASE dirty
  <2>0. i \in Cells
    BY Sizes
  <2>1. old'[i] = IF i \in Visited THEN content[i] ELSE old[i]
    BY <1>1, <2>0 DEF Update, Draw
  <2>2. CASE i \in marked
    <3>1. SameWord(i, i) /\ i <= i
      BY <2>0, Sizes DEF SameWord
    <3>2. i \in Visited
      BY <2>2, <3>1 DEF Visited
    <3> QED BY <2>1, <3>2
  <2>3. CASE i \notin marked
    BY <2>1, <2>3 DEF Marks, Update
  <2> QED BY <2>2, <2>3
<1>2. CASE ~dirty
  BY <1>2 DEF Marks, Update
<1> QED BY <1>1, <1>2

LEMMA UpdateGlass ==
  ASSUME TypeOK, Marks, Glass, Update, pc \notin {"print", "crashed"}
  PROVE  Marks' /\ Glass'
<1>1. Marks'
  <2>1. \A i \in Drawn : content'[i] = old'[i]
    BY UpdateDraws DEF Update
  <2> QED BY <2>1 DEF Marks
<1>2. ASSUME ready', ~invalid', NEW i \in Drawn PROVE old'[i] \in {None, window'[i]}
  <2>1. ready /\ ~invalid /\ window' = window
    BY <1>2 DEF Update, Draw
  <2>2. old'[i] = old[i]
    <3>1. CASE dirty
      <4>1. old'[i] = IF i \in Visited THEN content[i] ELSE old[i]
        BY <3>1, Sizes DEF Update, Draw
      <4>2. i \in Visited => content[i] = old[i]
        BY <1>2, <3>1 DEF Update, Draw
      <4> QED BY <4>1, <4>2
    <3>2. CASE ~dirty
      BY <3>2 DEF Update
    <3> QED BY <3>1, <3>2
  <2> QED BY <2>1, <2>2 DEF Glass
<1> QED BY <1>1, <1>2 DEF Glass

LEMMA MarksStep ==
  ASSUME TypeOK, Marks, Glass, [Next]_vars
  PROVE  Marks' /\ Glass'
<1>a. ASSUME UNCHANGED <<grid, dirty, ready, glass>>,
             pc \in {"print", "crashed"} => pc' \in {"print", "crashed"}
      PROVE  Marks' /\ Glass'
  BY <1>a DEF grid, glass, Marks, Glass
<1>b. ASSUME ready' = FALSE PROVE Marks' /\ Glass'
  BY <1>b DEF Marks, Glass
<1>c. ASSUME Marks', UNCHANGED <<old, ready, glass>> PROVE Marks' /\ Glass'
  BY <1>c DEF glass, Glass
<1>1. CASE StartUp
  <2>1. CASE BadConfig \/ GoodConfig \/ CreateFails \/ KeyboardInit \/ ModuleName
             \/ ModuleWait \/ ModuleReported \/ ModuleNext \/ ModuleLate
             \/ ModuleStar \/ ModulesDone \/ Greet
    BY <1>a, <2>1 DEF BadConfig, GoodConfig, CreateFails, KeyboardInit, ModuleName,
       ModuleWait, ModuleReported, ModuleNext, ModuleLate, ModuleStar, ModulesDone,
       Greet, flags
  <2>2. CASE ModuleCursor \/ Started
    BY <1>a, <2>2 DEF ModuleCursor, Started
  <2>3. CASE KeyboardFails \/ QueueMisread \/ PortFails
    BY <1>b, <2>3 DEF KeyboardFails, QueueMisread, PortFails
  <2>4. CASE Create
    BY <2>4, MakeMarks DEF Create, Glass
  <2>5. CASE WindowInit
    <3>1. CASE ready
      <4>1. 0 \in Int /\ ScrRow * Col \in Int
        BY Sizes
      <4>2. Marks'
        BY <2>5, <3>1, <4>1, OutputMarks DEF WindowInit
      <4> QED BY <1>c, <2>5, <4>2 DEF WindowInit
    <3>2. CASE ~ready
      BY <2>5, <3>2 DEF WindowInit, Marks, Glass
    <3> QED BY <3>1, <3>2
  <2> QED BY <1>1, <2>1, <2>2, <2>3, <2>4, <2>5 DEF StartUp
<1>2. CASE Printing
  <2>1. CASE PrintNewline \/ PrintOutside
    BY <1>a, <2>1 DEF PrintNewline, PrintOutside, flags
  <2>2. CASE PrintChar
    <3>1. Marks'
      <4>1. ASSUME NEW i \in Drawn, content'[i] # old'[i] PROVE i \in marked'
        <5>1. CASE i = offset
          BY <2>2, <5>1 DEF PrintChar
        <5>2. CASE i # offset
          <6>1. content'[i] = content[i]
            BY <2>2, <5>2, Sizes DEF PrintChar, TypeOK, GridTypes
          <6> QED BY <2>2, <4>1, <6>1 DEF PrintChar, Marks
        <5> QED BY <5>1, <5>2
      <4> QED BY <2>2, <4>1 DEF PrintChar, Marks
    <3> QED BY <1>c, <2>2, <3>1 DEF PrintChar
  <2>3. CASE PrintEnd
    <3>1. CASE ready
      BY <2>3, <3>1 DEF PrintEnd, Touch, grid, glass, Marks, Glass
    <3>2. CASE ~ready
      BY <2>3, <3>2 DEF PrintEnd, Marks, Glass
    <3> QED BY <3>1, <3>2
  <2>4. CASE MessageShown
    <3>1. CASE ready
      BY <2>4, <3>1, UpdateGlass DEF MessageShown
    <3>2. CASE ~ready
      BY <1>a, <2>4, <3>2 DEF MessageShown, flags
    <3> QED BY <3>1, <3>2
  <2> QED BY <1>2, <2>1, <2>2, <2>3, <2>4 DEF Printing
<1>3. CASE Loop
  <2>1. CASE ScreenEvent
    <3>1. CASE ready
      BY <2>1, <3>1, UpdateGlass DEF ScreenEvent
    <3>2. CASE ~ready
      BY <1>a, <2>1, <3>2 DEF ScreenEvent, flags
    <3> QED BY <3>1, <3>2
  <2>2. CASE OtherEvent \/ Parse \/ HostCursor \/ NoMessage
    BY <1>a, <2>2 DEF OtherEvent, Parse, HostCursor, NoMessage, flags
  <2>3. CASE HostOutput
    <3>1. PICK c \in Host, n \in 1 .. Col, ch \in Char : Output(c, n, ch)
      BY <2>3 DEF HostOutput
    <3>2. c \in Int /\ n \in Int
      BY Sizes
    <3>3. Marks'
      BY <2>3, <3>1, <3>2, OutputMarks DEF HostOutput
    <3> QED BY <1>c, <2>3, <3>3 DEF HostOutput
  <2>4. CASE ParseEnd
    BY <2>4 DEF ParseEnd, Touch, grid, glass, Marks, Glass
  <2> QED BY <1>3, <2>1, <2>2, <2>3, <2>4 DEF Loop
<1>4. CASE Paint
  <2>1. Marks'
    BY <1>4 DEF Paint, grid, flags, Marks
  <2>2. Glass'
    BY <1>4 DEF Paint, grid, Glass
  <2> QED BY <2>1, <2>2
<1>5. CASE User
  <2>1. CASE Uncover
    BY <2>1 DEF Uncover, grid, flags, Marks, Glass
  <2>2. CASE Resize
    BY <2>2, MakeMarks DEF Resize, Glass
  <2>3. CASE ResizeFails
    BY <1>b, <2>3 DEF ResizeFails
  <2>4. CASE LayoutKey
    <3>1. CASE ready
      <4>1. PICK n \in 1 .. Col, ch \in Char : Output((ScrRow + 1) * Col - n, n, ch)
        BY <2>4, <3>1 DEF LayoutKey
      <4>2. n \in Int /\ (ScrRow + 1) * Col - n \in Int
        BY Sizes
      <4>3. Marks'
        BY <2>4, <3>1, <4>1, <4>2, OutputMarks DEF LayoutKey
      <4> QED BY <1>c, <2>4, <4>3 DEF LayoutKey
    <3>2. CASE ~ready
      BY <2>4, <3>2 DEF LayoutKey, Marks, Glass
    <3> QED BY <3>1, <3>2
  <2>5. CASE ResetKey
    <3>1. Marks'
      BY <2>5, ClearMarks DEF ResetKey, Dispatched, Dispatching
    <3> QED BY <1>c, <2>5, <3>1 DEF ResetKey
  <2>6. CASE CloseWindow
    <3>1. CASE ready' = FALSE
      BY <1>b, <3>1
    <3>2. CASE UNCHANGED <<pc, ready>> /\ Clear
      <4>1. Marks'
        BY <2>6, <3>2, ClearMarks DEF CloseWindow, Dispatched, Dispatching
      <4> QED BY <1>c, <2>6, <3>2, <4>1 DEF CloseWindow
    <3>3. CASE UNCHANGED <<pc, ready>> /\ UNCHANGED <<content, marked, dirty>>
      BY <1>a, <2>6, <3>3 DEF CloseWindow, grid
    <3> QED BY <2>6, <3>1, <3>2, <3>3 DEF CloseWindow
  <2> QED BY <1>5, <2>1, <2>2, <2>3, <2>4, <2>5, <2>6 DEF User
<1>6. CASE ResetEnd \/ Rest \/ UNCHANGED vars
  BY <1>a, <1>6 DEF ResetEnd, Rest, vars, flags
<1> QED BY <1>1, <1>2, <1>3, <1>4, <1>5, <1>6 DEF Next

-----------------------------------------------------------------------------
(* Signals: what waits for Update has its event *)

\* SetEvent is called only when the counter was 0, and that is enough.
LEMMA TouchSignals ==
  ASSUME Signals, Touch, UNCHANGED cursorDirty
  PROVE  event' /\ Signals'
  BY DEF Signals, Touch

LEMMA TouchCursorSignals ==
  ASSUME Signals, pc # "parsing", TouchCursor(TRUE), UNCHANGED dirty
  PROVE  Signals'
  BY DEF Signals, TouchCursor

LEMMA SignalsStep ==
  ASSUME TypeOK, Signals, [Next]_vars
  PROVE  Signals'
<1>a. ASSUME UNCHANGED flags, pc = "parsing" => pc' = "parsing" \/ event
      PROVE  Signals'
  BY <1>a DEF flags, Signals
<1>b. ASSUME Update PROVE Signals'
  BY <1>b DEF Update, Signals
<1>1. CASE StartUp
  <2>1. CASE BadConfig \/ GoodConfig \/ CreateFails \/ KeyboardFails
            \/ QueueMisread \/ KeyboardInit
             \/ ModuleName \/ ModuleWait \/ ModuleReported \/ ModuleNext
             \/ ModuleLate \/ ModuleStar \/ ModulesDone \/ Greet \/ PortFails
    BY <1>a, <2>1 DEF BadConfig, GoodConfig, CreateFails, KeyboardFails, QueueMisread,
       KeyboardInit, ModuleName, ModuleWait, ModuleReported, ModuleNext, ModuleLate,
       ModuleStar, ModulesDone, Greet, PortFails
  <2>2. CASE Create
    BY <2>2, TouchSignals DEF Create, Make
  <2>3. CASE WindowInit
    <3>1. event'
      BY <2>3 DEF WindowInit, Output, Touch, Signals
    <3> QED BY <3>1 DEF Signals
  <2>4. CASE ModuleCursor \/ Started
    <3>1. CASE ready
      BY <2>4, <3>1, TouchCursorSignals DEF ModuleCursor, Started, ShowCursor
    <3>2. CASE ~ready
      BY <2>4, <3>2 DEF ModuleCursor, Started, ShowCursor, Signals
    <3> QED BY <3>1, <3>2
  <2> QED BY <1>1, <2>1, <2>2, <2>3, <2>4 DEF StartUp
<1>2. CASE Printing
  <2>1. CASE PrintNewline \/ PrintChar \/ PrintOutside
    BY <1>a, <2>1 DEF PrintNewline, PrintChar, PrintOutside
  <2>2. CASE PrintEnd
    BY <2>2, TouchSignals DEF PrintEnd, Signals
  <2>3. CASE MessageShown
    BY <1>a, <1>b, <2>3 DEF MessageShown
  <2> QED BY <1>2, <2>1, <2>2, <2>3 DEF Printing
<1>3. CASE Loop
  <2>1. CASE ScreenEvent
    BY <1>a, <1>b, <2>1 DEF ScreenEvent
  <2>2. CASE OtherEvent \/ Parse \/ NoMessage
    BY <1>a, <2>2 DEF OtherEvent, Parse, NoMessage
  <2>3. CASE HostOutput
    BY <2>3, TouchSignals DEF HostOutput, Output
  <2>4. CASE HostCursor
    BY <2>4 DEF HostCursor, TouchCursor, Signals
  <2>5. CASE ParseEnd
    BY <2>5, TouchSignals DEF ParseEnd, Signals
  <2> QED BY <1>3, <2>1, <2>2, <2>3, <2>4, <2>5 DEF Loop
<1>4. CASE Paint \/ Rest \/ UNCHANGED vars
  BY <1>a, <1>4 DEF Paint, Rest, vars
<1>5. CASE ResetEnd
  BY <1>5, TouchCursorSignals DEF ResetEnd, ShowCursor, Signals
<1>6. CASE User
  <2>0. pc # "parsing"
    BY <1>6 DEF User, Uncover, Resize, ResizeFails, LayoutKey, ResetKey, CloseWindow,
       Dispatched, Dispatching
  <2>1. CASE Uncover \/ ResizeFails
    BY <1>a, <2>0, <2>1 DEF Uncover, ResizeFails
  <2>2. CASE Resize
    BY <2>2, TouchSignals DEF Resize, Make
  <2>3. CASE LayoutKey
    BY <2>3, TouchSignals DEF LayoutKey, Output
  <2>4. ASSUME Clear, UNCHANGED cursorDirty PROVE Signals'
    BY <2>0, <2>4, TouchSignals DEF Clear, Signals
  <2>5. CASE ResetKey
    BY <2>4, <2>5 DEF ResetKey
  <2>6. CASE CloseWindow
    BY <2>0, <2>4, <2>6 DEF CloseWindow, Signals
  <2> QED BY <1>6, <2>1, <2>2, <2>3, <2>5, <2>6 DEF User
<1> QED BY <1>1, <1>2, <1>3, <1>4, <1>5, <1>6 DEF Next

-----------------------------------------------------------------------------
(* Lag: Print's place and the cursor *)

\* If the place is beyond the arrays, the cursor is on the last line.
LEMMA LagInside ==
  ASSUME TypeOK, Lag, pc = "print", offset >= End
  PROVE  y >= Row - 1
<1> SUFFICES ASSUME y < Row - 1 PROVE FALSE
  BY Sizes DEF TypeOK, CursorTypes
<1>1. x \in 0 .. Col /\ y \in 0 .. Row /\ offset \in Nat /\ Row <= Col + 1
  BY ConstantsAssumption DEF TypeOK, CursorTypes, PrinterTypes, ConstantsAssumption
<1>2. offset <= x + y * Col + y
  BY <1>1, Sizes DEF Lag
<1>3. (Row - 2 - y) * Col \in Nat
  BY <1>1, Sizes, TimesNat
<1>4. (Row - 2 - y) * Col = Row * Col - 2 * Col - y * Col
  BY <1>1, Sizes, Distribute
<1>5. y * Col \in Int /\ Row * Col \in Int /\ End = Row * Col
  BY <1>1, Sizes DEF End
<1> QED BY <1>1, <1>2, <1>3, <1>4, <1>5, Sizes

LEMMA LagStep ==
  ASSUME TypeOK, Lag, [Next]_vars
  PROVE  Lag'
<1>0. x \in 0 .. Col /\ y \in 0 .. Row /\ offset \in Nat
  BY DEF TypeOK, CursorTypes, PrinterTypes
<1>a. ASSUME pc' # "print" PROVE Lag'
  BY <1>a DEF Lag
<1>b. ASSUME UNCHANGED <<x, y>>, NEW t, NEW then, Message(t, then) PROVE Lag'
  BY <1>0, <1>b, Sizes DEF Message, Lag
<1>1. CASE StartUp
  <2>1. CASE BadConfig \/ ModuleReported \/ ModuleLate \/ ModuleStar \/ Greet
    BY <1>b, <2>1
    DEF BadConfig, ModuleReported, ModuleLate, ModuleStar, Greet, cursor
  <2>2. CASE ModuleName
    BY <1>a, <1>b, <2>2 DEF ModuleName, cursor
  <2>3. CASE ~(BadConfig \/ ModuleReported \/ ModuleLate \/ ModuleStar \/ Greet
               \/ ModuleName)
    BY <1>1, <1>a, <2>3 DEF StartUp, GoodConfig, CreateFails, Create, WindowInit,
       KeyboardFails, QueueMisread, KeyboardInit, ModuleCursor, ModuleWait, ModuleNext,
       ModulesDone, PortFails, Started
  <2> QED BY <2>1, <2>2, <2>3
<1>2. CASE Printing
  <2>1. CASE PrintNewline
    <3>1. (y + 1) * Col \in Int
      BY <1>0, Sizes
    <3>2. y' >= Row - 1 \/ (y' = y + 1 /\ offset' <= (y + 1) * Col)
      <4>1. CASE y + 1 > Row
        BY <1>0, <2>1, <4>1, Sizes DEF PrintNewline
      <4>2. CASE y + 1 <= Row
        BY <1>0, <2>1, <3>1, <4>2, Sizes DEF PrintNewline
      <4> QED BY <1>0, <4>1, <4>2, Sizes
    <3>3. y' \in Nat /\ x' = 0 /\ offset' \in Int
      BY <1>0, <2>1, <3>1, Sizes DEF PrintNewline
    <3>4. CASE y' >= Row - 1
      BY <3>4 DEF Lag
    <3>5. CASE y' = y + 1 /\ offset' <= (y + 1) * Col
      <4>1. offset' <= x' + (y + 1) * Col + (y + 1)
        BY <1>0, <3>1, <3>3, <3>5
      <4> QED BY <3>5, <4>1 DEF Lag
    <3> QED BY <3>2, <3>4, <3>5
  <2>2. CASE PrintChar
    <3>1. (y + 1) * Col = y * Col + Col /\ y * Col \in Int
      BY <1>0, Sizes, Distribute
    <3>2. y >= Row - 1 \/ offset <= x + y * Col + y
      BY <2>2 DEF PrintChar, Lag
    <3>3. CASE x + 1 > Col
      BY <1>0, <2>2, <3>1, <3>2, <3>3, Sizes DEF PrintChar, Advance, Lag
    <3>4. CASE x + 1 <= Col
      BY <1>0, <2>2, <3>1, <3>2, <3>4, Sizes DEF PrintChar, Advance, Lag
    <3> QED BY <1>0, <3>3, <3>4, Sizes
  <2>3. CASE PrintOutside
    <3>1. y >= Row - 1
      BY <2>3, LagInside DEF PrintOutside
    <3> QED BY <2>3, <3>1 DEF PrintOutside, cursor, Lag
  <2>4. CASE PrintEnd \/ MessageShown
    BY <1>a, <2>4 DEF PrintEnd, MessageShown, TypeOK, PrinterTypes, Returns
  <2> QED BY <1>2, <2>1, <2>2, <2>3, <2>4 DEF Printing
<1>3. CASE Loop
  BY <1>3, <1>a DEF Loop, ScreenEvent, OtherEvent, Parse, HostOutput, HostCursor,
     ParseEnd, NoMessage
<1>4. CASE User
  <2>1. CASE ResetKey
    BY <2>1, Sizes DEF ResetKey, Clear, Lag
  <2>2. CASE ~ResetKey
    BY <1>4, <1>a, <2>2 DEF User, Uncover, Resize, ResizeFails, LayoutKey,
       CloseWindow, Dispatched, Dispatching
  <2> QED BY <2>1, <2>2
<1>5. CASE Paint \/ ResetEnd
  BY <1>5, <1>a DEF Paint, ResetEnd, Dispatching, TypeOK
<1>6. CASE Rest \/ UNCHANGED vars
  BY <1>6 DEF Rest, vars, printer, cursor, Lag
<1> QED BY <1>1, <1>2, <1>3, <1>4, <1>5, <1>6 DEF Next

-----------------------------------------------------------------------------
(* Caret *)

LEMMA MakeCaret ==
  ASSUME TypeOK, Caret, NEW picture, Make(picture), pc' = pc \/ pc' = "windows",
         pc' = "windows" => pc = "create",
         pc \in Dispatching \cup {"create"}
  PROVE  Caret'
<1> USE DEF TypeOK, CaretTypes, CursorTypes, FlagTypes
<1>1. /\ oldVisible' = oldVisible /\ visible' = visible
      /\ cursorDirty' = cursorDirty /\ caretAt' = <<>>
      /\ misled' = (visible = "off")
      /\ hidden' = IF visible = "on" THEN 0 ELSE 2
  BY DEF Make
<1>2. pc' \in {"args", "create", "windows"} => oldVisible' = "never" /\ visible' = "on"
  BY <1>1 DEF Caret, Dispatching
<1>3. cursorDirty' \/ Early' \/ oldVisible' = visible'
  BY <1>1 DEF Caret, Early, Dispatching, Over
<1>4. oldVisible' = "off" =>
        hidden' > 0 \/ (visible' = "on" /\ cursorDirty' /\ pc' # "parsing")
  BY <1>1 DEF Caret, Dispatching, Early, Over
<1>5. misled' \/ (hidden' <= 1 /\ (oldVisible' # "off" => hidden' = 0))
  <2>1. CASE visible = "on"
    BY <1>1, <2>1
  <2>2. CASE visible = "off"
    BY <1>1, <2>2
  <2> QED BY <2>1, <2>2
<1>6. pc' # "args"
  BY DEF Dispatching
<1> QED BY <1>1, <1>2, <1>3, <1>4, <1>5, <1>6 DEF Caret

LEMMA UpdateCaret ==
  ASSUME TypeOK, Caret, Update, pc \in {"update", "wait"}, pc' # "parsing",
         pc' \notin {"args", "create", "windows"},
         pc = "update" => pc' \in Returns
  PROVE  Caret'
<1> USE DEF TypeOK, CaretTypes, CursorTypes, FlagTypes
<1>1. UNCHANGED <<visible, x, y>> /\ cursorDirty' = FALSE
  BY DEF Update, cursor
<1>2. CASE cursorDirty
  <2>1. MoveCaret
    BY <1>2 DEF Update
  <2>2. oldVisible' = visible
    BY <2>1 DEF MoveCaret
  <2>3. oldVisible' = "off" => hidden' > 0
    BY <2>1 DEF MoveCaret, Caret
  <2>4. misled' \/ (hidden' <= 1 /\ (oldVisible' # "off" => hidden' = 0))
    <3>1. CASE visible = "on" /\ oldSize # size /\ oldVisible = "on"
      BY <2>1, <3>1 DEF MoveCaret
    <3>2. CASE visible = "on" /\ oldSize # size /\ oldVisible # "on"
      BY <2>1, <3>2 DEF MoveCaret
    <3>3. CASE visible = "on" /\ oldSize = size
      <4>1. hidden' = IF oldVisible # "on" /\ hidden > 0 THEN hidden - 1 ELSE hidden
        BY <2>1, <3>3 DEF MoveCaret
      <4>2. misled' = misled
        BY <2>1, <3>3 DEF MoveCaret
      <4> QED BY <4>1, <4>2 DEF Caret
    <3>4. CASE visible = "off"
      <4>1. oldVisible' = "off"
            /\ hidden' = IF oldVisible # "off" THEN hidden + 1 ELSE hidden
        BY <2>1, <3>4 DEF MoveCaret
      <4>2. misled' = misled
        BY <2>1, <3>4 DEF MoveCaret
      <4> QED BY <4>1, <4>2 DEF Caret
    <3> QED BY <3>1, <3>2, <3>3, <3>4
  <2>5. visible = "on" => caretAt' = <<x, y>>
    BY <2>1 DEF MoveCaret
  <2> QED BY <1>1, <2>2, <2>3, <2>4, <2>5 DEF Caret
<1>3. CASE ~cursorDirty
  <2>1. UNCHANGED <<oldVisible, hidden, caretAt, misled>>
    BY <1>3 DEF Update, caret
  <2>2. oldVisible = visible
    BY <1>3 DEF Caret, Early, Over, Update
  <2>3. oldVisible = "off" => hidden > 0
    BY <1>3 DEF Caret
  <2>4. pc' \in {"wait", "messages", "parsing"} => pc = "wait"
    BY DEF Returns
  <2> QED BY <1>1, <1>3, <2>1, <2>2, <2>3, <2>4 DEF Caret, Update
<1> QED BY <1>2, <1>3

\* The cursor was told something, and Update will follow.
LEMMA ShowCaretKept ==
  ASSUME TypeOK, Caret, ShowCursor, UNCHANGED <<x, y, ready, caret>>,
         pc \notin {"args", "create", "windows", "print", "update"} \cup Over,
         pc' \notin {"args", "create", "windows", "parsing"}
  PROVE  Caret'
<1>1. CASE ready
  BY <1>1 DEF ShowCursor, TouchCursor, caret, Caret
<1>2. CASE ~ready
  BY <1>2 DEF ShowCursor, caret, Caret, Early
<1> QED BY <1>1, <1>2

LEMMA CaretStep ==
  ASSUME TypeOK, Signals, Caret, [Next]_vars
  PROVE  Caret'
<1>a. ASSUME UNCHANGED <<caret, visible, cursorDirty>>,
             pc' \notin {"args", "create", "windows", "wait", "messages", "parsing"},
             Early => Early'
      PROVE  Caret'
  BY <1>a DEF caret, Caret
<1>b. ASSUME UNCHANGED <<caret, cursor, cursorDirty>>, ~Early,
             pc \notin {"args", "create", "windows"},
             pc' \notin {"args", "create", "windows"},
             UNCHANGED ready \/ ready' = FALSE,
             pc' \in {"wait", "messages", "parsing"} =>
               pc \in {"wait", "messages", "parsing"},
             pc' = "parsing" => pc = "parsing" \/ ~cursorDirty
      PROVE  Caret'
  BY <1>b DEF caret, cursor, Caret, TypeOK, CaretTypes, CursorTypes
<1>c. pc \notin {"args", "create", "windows", "print", "update"} \cup Over => ~Early
  BY DEF Early
<1>1. CASE StartUp
  <2>1. CASE GoodConfig
    BY <2>1 DEF GoodConfig, caret, flags, cursor, Caret, Early
  <2>2. CASE BadConfig
    BY <2>2 DEF BadConfig, Message, caret, flags, cursor, Caret, Early
  <2>3. CASE CreateFails
    BY <2>3 DEF CreateFails, caret, flags, cursor, Caret, Early, Over
  <2>4. CASE Create
    BY <2>4, MakeCaret DEF Create
  <2>5. CASE WindowInit
    BY <2>5 DEF WindowInit, caret, Caret
  <2>6. CASE KeyboardFails \/ QueueMisread \/ KeyboardInit \/ ModuleName \/ ModuleWait
             \/ ModuleReported \/ ModuleNext \/ ModuleLate \/ ModuleStar
             \/ ModulesDone \/ Greet \/ PortFails
    <3>1. pc \notin {"args", "create", "windows", "print", "update"} \cup Over
      BY <2>6 DEF KeyboardFails, QueueMisread, KeyboardInit, ModuleName, ModuleWait,
         ModuleReported, ModuleNext, ModuleLate, ModuleStar, ModulesDone, Greet,
         PortFails, Over
    <3>2. pc' \notin {"args", "create", "windows", "wait", "messages", "parsing"}
      BY <2>6 DEF KeyboardFails, QueueMisread, KeyboardInit, ModuleName, ModuleWait,
         ModuleReported, ModuleNext, ModuleLate, ModuleStar, ModulesDone, Greet,
         PortFails, Message
    <3> QED BY <1>a, <1>c, <2>6, <3>1, <3>2
        DEF KeyboardFails, QueueMisread, KeyboardInit, ModuleName, ModuleWait,
         ModuleReported, ModuleNext, ModuleLate, ModuleStar, ModulesDone, Greet,
         PortFails, flags, cursor
  <2>7. CASE ModuleCursor
    <3>1. CASE ready
      BY <2>7, <3>1 DEF ModuleCursor, TouchCursor, caret, cursor, Caret
    <3>2. CASE ~ready
      BY <2>7, <3>2 DEF ModuleCursor, caret, cursor, Caret, Early, Over
    <3> QED BY <3>1, <3>2
  <2>8. CASE Started
    BY <2>8, ShowCaretKept DEF Started, Over
  <2> QED BY <1>1, <2>1, <2>2, <2>3, <2>4, <2>5, <2>6, <2>7, <2>8 DEF StartUp
<1>2. CASE Printing
  <2>1. CASE PrintNewline \/ PrintChar \/ PrintOutside
    <3>1. ~Early /\ pc' \in {"print", "crashed"}
      BY <2>1 DEF PrintNewline, PrintChar, PrintOutside, Early, Over
    <3> QED BY <1>a, <2>1, <3>1 DEF PrintNewline, PrintChar, PrintOutside, flags, cursor
  <2>2. CASE PrintEnd
    <3>1. Early => Early'
      BY <2>2 DEF PrintEnd, Early, caret, Over
    <3> QED BY <1>a, <2>2, <3>1 DEF PrintEnd, cursor
  <2>3. CASE MessageShown
    <3>1. CASE ready
      BY <2>3, <3>1, UpdateCaret DEF MessageShown, TypeOK, PrinterTypes, Returns
    <3>2. CASE ~ready
      <4>1. Early => Early'
        BY <2>3, <3>2 DEF MessageShown, Early, caret, Over
      <4> QED BY <1>a, <2>3, <3>2, <4>1 DEF MessageShown, flags, cursor
    <3> QED BY <3>1, <3>2
  <2> QED BY <1>2, <2>1, <2>2, <2>3 DEF Printing
<1>3. CASE Loop
  <2>0. ~Early
    BY <1>3 DEF Loop, ScreenEvent, OtherEvent, Parse, HostOutput, HostCursor, ParseEnd,
       NoMessage, Early, Over
  <2>1. CASE ScreenEvent
    <3>1. CASE ready
      BY <2>1, <3>1, UpdateCaret DEF ScreenEvent
    <3>2. CASE ~ready
      BY <1>b, <2>0, <2>1, <3>2 DEF ScreenEvent, flags
    <3> QED BY <3>1, <3>2
  <2>2. CASE OtherEvent \/ NoMessage
    BY <1>b, <2>0, <2>2 DEF OtherEvent, NoMessage, flags
  <2>3. CASE Parse
    <3>1. ~cursorDirty
      BY <2>3 DEF Parse, Signals
    <3> QED BY <1>b, <2>0, <2>3, <3>1 DEF Parse, flags
  <2>4. CASE HostOutput
    BY <1>b, <2>0, <2>4 DEF HostOutput
  <2>5. CASE HostCursor
    <3>1. oldVisible = "off" => hidden > 0
      BY <2>5 DEF HostCursor, Caret
    <3> QED BY <2>5, <3>1 DEF HostCursor, TouchCursor, caret, Caret
  <2>6. CASE ParseEnd
    BY <1>b, <2>0, <2>6 DEF ParseEnd
  <2> QED BY <1>3, <2>1, <2>2, <2>3, <2>4, <2>5, <2>6 DEF Loop
<1>4. CASE Paint \/ User
  <2>0. pc \in Dispatching /\ ~Early
    BY <1>4 DEF Paint, User, Uncover, Resize, ResizeFails, LayoutKey, ResetKey,
       CloseWindow, Dispatched, Dispatching, Early, Over
  <2>1. CASE Paint \/ Uncover \/ ResizeFails
    BY <1>b, <2>0, <2>1 DEF Paint, Uncover, ResizeFails, flags, Dispatching
  <2>2. CASE Resize
    BY <2>0, <2>2, MakeCaret DEF Resize, Dispatching
  <2>3. CASE LayoutKey
    BY <1>b, <2>0, <2>3 DEF LayoutKey, Dispatching
  <2>4. CASE ResetKey
    BY <1>a, <2>0, <2>4 DEF ResetKey
  <2>5. CASE CloseWindow
    <3>1. pc' \notin {"args", "create", "windows", "wait", "messages", "parsing"}
      BY <2>5 DEF CloseWindow, Dispatched, Dispatching
    <3> QED BY <1>a, <2>0, <2>5, <3>1 DEF CloseWindow
  <2> QED BY <1>4, <2>1, <2>2, <2>3, <2>4, <2>5 DEF User
<1>5. CASE ResetEnd
  BY <1>5, ShowCaretKept DEF ResetEnd, Over, TypeOK, Dispatching
<1>6. CASE Rest \/ UNCHANGED vars
  BY <1>6 DEF Rest, vars, caret, flags, cursor, Caret, Early
<1> QED BY <1>1, <1>2, <1>3, <1>4, <1>5, <1>6 DEF Next

-----------------------------------------------------------------------------
(* The invariant and what follows from it *)

LEMMA InitInv == Init => IInv
<1> SUFFICES ASSUME Init PROVE IInv
  OBVIOUS
<1>1. TypeOK
  BY InitTypes
<1>2. Marks /\ Glass /\ Signals /\ Lag
  BY DEF Init, Marks, Glass, Signals, Lag
<1>3. Caret
  BY DEF Init, Caret, Early
<1> QED BY <1>1, <1>2, <1>3 DEF IInv

LEMMA StepInv == IInv /\ [Next]_vars => IInv'
  BY StepTypes, MarksStep, SignalsStep, LagStep, CaretStep DEF IInv

THEOREM InvariantHolds == Spec => []IInv
  BY InitInv, StepInv, PTL DEF Spec

\* THEOREM: when the program waits and nothing is to be painted, the window
\* shows every cell that is drawn at all as it was written last.
THEOREM ScreenCorrect == Spec => []ScreenTrue
<1>1. IInv => ScreenTrue
  <2> SUFFICES ASSUME IInv, pc = "wait", ready, ~event, ~invalid PROVE Current
    BY DEF ScreenTrue
  <2>1. ~dirty
    BY DEF IInv, Signals
  <2> SUFFICES ASSUME NEW i \in Drawn PROVE window[i] = content[i]
    BY DEF Current
  <2>2. content[i] = old[i]
    BY <2>1 DEF IInv, Marks
  <2>3. old[i] # None
    BY <2>2, Sizes, NoneIsNoChar DEF IInv, TypeOK, GridTypes
  <2> QED BY <2>2, <2>3 DEF IInv, Glass
<1> QED BY <1>1, InvariantHolds, PTL

\* THEOREM: the caret is hidden when it is disabled, and seen at the cursor when
\* it is enabled, unless a new size or a resize misled Update.
THEOREM CaretCorrect == Spec => []CaretTrue
<1>1. IInv => CaretTrue
  <2> SUFFICES ASSUME IInv, pc = "wait", ready, ~event PROVE CaretTrue
    BY DEF CaretTrue
  <2>1. ~cursorDirty /\ ~Early
    BY DEF IInv, Signals, Early, Over
  <2>2. oldVisible = visible
    BY <2>1 DEF IInv, Caret
  <2>3. visible = "off" => hidden > 0
    BY <2>1, <2>2 DEF IInv, Caret
  <2>4. visible # "off" => visible = "on"
    BY DEF IInv, TypeOK, CursorTypes
  <2>5. visible = "on" => caretAt \in {<<x, y>>, <<>>}
    BY <2>1 DEF IInv, Caret
  <2>6. visible = "on" => hidden = 0 \/ misled
    BY <2>2 DEF IInv, Caret
  <2> QED BY <2>3, <2>4, <2>5, <2>6 DEF CaretTrue
<1> QED BY <1>1, InvariantHolds, PTL

\* THEOREM: Print's place is beyond the arrays only when the cursor is on the
\* last line, for any grid that has not more lines than columns plus one.
THEOREM PrintStaysInside == Spec => []PrintInside
<1>1. IInv => PrintInside
  BY LagInside DEF IInv, PrintInside
<1> QED BY <1>1, InvariantHolds, PTL

-----------------------------------------------------------------------------
(* The console implements Picture *)

Written == [i \in Drawn |-> content[i]]
Old     == [i \in Drawn |-> old[i]]

\* Whatever an action writes, it is a picture.
LEMMA Pictures ==
  ASSUME TypeOK
  PROVE  Written \in [Drawn -> Char]
  BY Sizes DEF TypeOK, GridTypes, Written

LEMMA MakeRenews ==
  ASSUME TypeOK', NEW picture, Make(picture), UNCHANGED window
  PROVE  P!Renew
<1>1. Old' = [i \in Drawn |-> None]
  BY Sizes DEF Make, Old
<1>2. Written' \in [Drawn -> Char]
  BY Sizes DEF TypeOK, GridTypes, Written
<1> QED BY <1>1, <1>2 DEF P!Renew, P!Empty, Written, Old

LEMMA UpdateDrawsPicture ==
  ASSUME TypeOK, Marks, Update, pc \notin {"print", "crashed"}
  PROVE  P!Draw
<1>1. Old' = Written
  BY UpdateDraws DEF Old, Written
<1>2. UNCHANGED <<content, window>>
  BY DEF Update
<1> QED BY <1>1, <1>2 DEF P!Draw, Old, Written

LEMMA StepPictures ==
  ASSUME IInv, TypeOK', [Next]_vars
  PROVE  [P!Next]_(P!vars)
<1> USE DEF IInv
<1>a. ASSUME UNCHANGED <<content, old, window>> PROVE UNCHANGED P!vars
  BY <1>a DEF P!vars
<1>b. ASSUME UNCHANGED <<old, window>> PROVE P!Write
  <2>1. Written' \in [Drawn -> Char]
    BY Sizes DEF TypeOK, GridTypes, Written
  <2> QED BY <1>b, <2>1 DEF P!Write, Written
<1>1. CASE StartUp
  <2>1. CASE Create
    BY <2>1, MakeRenews DEF Create, P!Next
  <2>2. CASE WindowInit
    BY <1>b, <2>2 DEF WindowInit, glass, P!Next
  <2>3. CASE BadConfig \/ GoodConfig \/ CreateFails \/ KeyboardFails
            \/ QueueMisread \/ KeyboardInit
             \/ ModuleName \/ ModuleWait \/ ModuleReported \/ ModuleNext
             \/ ModuleLate \/ ModuleStar \/ ModulesDone \/ Greet \/ PortFails
             \/ ModuleCursor \/ Started
    BY <1>a, <2>3 DEF BadConfig, GoodConfig, CreateFails, KeyboardFails, QueueMisread,
       KeyboardInit, ModuleName, ModuleWait, ModuleReported, ModuleNext, ModuleLate,
       ModuleStar, ModulesDone, Greet, PortFails, ModuleCursor, Started, grid, glass
  <2> QED BY <1>1, <2>1, <2>2, <2>3 DEF StartUp
<1>2. CASE Printing
  <2>1. CASE PrintNewline \/ PrintOutside \/ PrintEnd
    BY <1>a, <2>1 DEF PrintNewline, PrintOutside, PrintEnd, grid, glass
  <2>2. CASE PrintChar
    BY <1>b, <2>2 DEF PrintChar, glass, P!Next
  <2>3. CASE MessageShown
    <3>1. CASE ready
      BY <2>3, <3>1, UpdateDrawsPicture DEF MessageShown, P!Next
    <3>2. CASE ~ready
      BY <1>a, <2>3, <3>2 DEF MessageShown, grid, glass
    <3> QED BY <3>1, <3>2
  <2> QED BY <1>2, <2>1, <2>2, <2>3 DEF Printing
<1>3. CASE Loop
  <2>1. CASE ScreenEvent
    <3>1. CASE ready
      BY <2>1, <3>1, UpdateDrawsPicture DEF ScreenEvent, P!Next
    <3>2. CASE ~ready
      BY <1>a, <2>1, <3>2 DEF ScreenEvent, grid, glass
    <3> QED BY <3>1, <3>2
  <2>2. CASE OtherEvent \/ Parse \/ HostCursor \/ ParseEnd \/ NoMessage
    BY <1>a, <2>2 DEF OtherEvent, Parse, HostCursor, ParseEnd, NoMessage, grid, glass
  <2>3. CASE HostOutput
    BY <1>b, <2>3 DEF HostOutput, glass, P!Next
  <2> QED BY <1>3, <2>1, <2>2, <2>3 DEF Loop
<1>4. CASE Paint
  <2>1. CASE ready
    BY <1>4, <2>1 DEF Paint, grid, P!Show, P!Next
  <2>2. CASE ~ready
    BY <1>a, <1>4, <2>2 DEF Paint, grid
  <2> QED BY <2>1, <2>2
<1>5. CASE User
  <2>1. CASE Uncover
    BY <2>1 DEF Uncover, grid, P!Lose, P!Empty, P!Next
  <2>2. CASE Resize
    BY <2>2, MakeRenews DEF Resize, glass, P!Next
  <2>3. CASE ResizeFails
    BY <1>a, <2>3 DEF ResizeFails, grid, glass
  <2>4. CASE LayoutKey \/ ResetKey \/ CloseWindow
    BY <1>b, <2>4 DEF LayoutKey, ResetKey, CloseWindow, glass, P!Next
  <2> QED BY <1>5, <2>1, <2>2, <2>3, <2>4 DEF User
<1>6. CASE ResetEnd \/ Rest \/ UNCHANGED vars
  BY <1>a, <1>6 DEF ResetEnd, Rest, vars, grid, glass
<1> QED BY <1>1, <1>2, <1>3, <1>4, <1>5, <1>6 DEF Next

\* THEOREM: the console implements Picture: all that is written is drawn at
\* once, and the window shows what was drawn.
THEOREM ConsoleImplementsPicture == Spec => ImplementsPicture
<1>1. Init => P!Init
  <2> SUFFICES ASSUME Init PROVE P!Init
    OBVIOUS
  <2>1. Written \in [Drawn -> Char]
    BY InitTypes, Pictures
  <2>2. Old = [i \in Drawn |-> None]
    BY Sizes DEF Init, Old
  <2> QED BY <2>1, <2>2 DEF Init, P!Init, P!Empty, Written, Old
<1>2. IInv /\ TypeOK' /\ [Next]_vars => [P!Next]_(P!vars)
  BY StepPictures
<1> QED BY <1>1, <1>2, InvariantHolds, TypeCorrect, PTL
        DEF Spec, ImplementsPicture, P!Spec
=============================================================================
