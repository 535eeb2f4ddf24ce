------------------------------ MODULE Console ------------------------------
(***************************************************************************)
(* The console (base/gconsole.cpp, include/bitarray.h), the messages that  *)
(* are printed on it while the program starts (base/gdopt.cpp,             *)
(* base/init.cpp, base/mcore.cpp) and the part of the main loop and of     *)
(* WndProc that writes, draws and shows it.                                *)
(*                                                                         *)
(* A cell is written to m_ChrArray/m_AttrArray (content) and marked in a   *)
(* bit array; Update draws the marked cells that differ from their old     *)
(* copy (old, which is also what the back bitmap shows), and WM_PAINT      *)
(* copies the bitmap to the window.  A cell's character and attribute are  *)
(* one value here.  Counters the code only compares with zero (m_Dirty,    *)
(* m_fCursor) are Booleans.                                                *)
(***************************************************************************)
EXTENDS Integers, Sequences

CONSTANTS Col, Row,   \* size of the console, CONSOLE_col and CONSOLE_row
          ScrRow,     \* SCRROW: Update draws the lines 0..SCRROW
          Word,       \* bits in a word of the bit array
          Char, Blank,\* what a cell can hold, and what it is cleared to
          Star,       \* what is printed for a second of waiting for a module
          Newline,
          None,       \* the old copy of a cell that was never drawn
          Text,       \* what messages may say
          Size,       \* sizes of the caret
          Block,      \* CURSOR_BLOCK, of Size
          Modules,    \* how many modules are loaded
          Tries,      \* seconds a module is waited for (INIT_MODULE_TIMEOUT)
          Inputs      \* bound: window messages other than WM_PAINT

ConstantsAssumption ==
  /\ Col \in Nat \ {0} /\ Row \in Nat /\ ScrRow \in Nat /\ Word \in Nat \ {0}
  /\ ScrRow + 1 <= Row /\ Row <= Col + 1
  /\ Blank \in Char /\ Star \in Char /\ None \notin Char /\ Newline \notin Char
  /\ Text \subseteq Seq(Char \cup {Newline})
  /\ Block \in Size
  /\ Modules \in Nat /\ Tries \in Nat /\ Inputs \in Nat

ASSUME ConstantsAssumption

End == Col * Row                        \* m_EndBuffer
Cells == 0 .. End - 1
Drawn == 0 .. (ScrRow + 1) * Col - 1    \* the cells Update looks at
Host  == 0 .. ScrRow * Col - 1          \* the lines of the display memory

VARIABLES
  content, old, marked, \* m_ChrArray, m_OldChrArray, m_bArray
  dirty, cursorDirty,   \* m_Dirty, m_fCursor are not 0
  event,                \* m_DirtyEvent is set
  ready,                \* m_bInit
  x, y,                 \* m_CursorPosX, m_CursorPosY
  visible, size,        \* m_CursorVisible, m_CursorSize
  oldVisible, oldSize,  \* the statics old_cursor and oldsz of Update
  hidden, caretAt,      \* the caret of Windows: how often it is hidden, where
  misled,               \* bookkeeping: the caret was made anew and
                        \* old_cursor does not know
  window, invalid,      \* what the user sees, and whether it must be painted
  pc, back, from,       \* where the main thread is, and returns to from a
                        \* message and from the reset key
  text, offset,         \* what Print has yet to print, and where
  left, tries,          \* modules or greetings to come, seconds waited
  inputs                \* window messages so far

grid    == <<content, old, marked>>
flags   == <<dirty, cursorDirty, event>>
cursor  == <<x, y, visible, size>>
caret   == <<oldVisible, oldSize, hidden, caretAt, misled>>
glass   == <<window, invalid>>
printer == <<text, offset, back>>
start   == <<left, tries>>
vars    == <<grid, flags, ready, cursor, caret, glass, pc, from, printer,
             start, inputs>>

\* Where the main thread looks for window messages: in MSGQUEUE during
\* start-up, and after each event in the main loop.
Dispatching == {"probe", "try", "reported", "messages"}
Over == {"ended", "hung", "crashed"}
\* Where message returns to.
Returns == {"ended", "named", "try", "star", "reported", "greet", "reset"}
Points == Dispatching \cup Over \cup Returns \cup
  {"args", "create", "windows", "keyboard", "modules", "wait", "parsing",
   "print", "update"}

GridTypes ==
  /\ content \in [Cells -> Char]
  /\ old \in [Cells -> Char \cup {None}]
  /\ marked \subseteq Cells
FlagTypes ==
  dirty \in BOOLEAN /\ cursorDirty \in BOOLEAN /\ event \in BOOLEAN
CursorTypes ==
  /\ x \in 0 .. Col /\ y \in 0 .. Row
  /\ visible \in {"on", "off"} /\ size \in Size
CaretTypes ==
  /\ oldVisible \in {"never", "on", "off"} /\ oldSize \in Size \cup {None}
  /\ hidden \in Nat /\ misled \in BOOLEAN
  /\ caretAt \in ((0 .. Col) \X (0 .. Row)) \cup {<<>>}
GlassTypes ==
  window \in [Drawn -> Char \cup {None}] /\ invalid \in BOOLEAN
PrinterTypes ==
  text \in Seq(Char \cup {Newline}) /\ offset \in Nat /\ back \in Returns
StartTypes == left \in Nat /\ tries \in Nat

TypeOK ==
  /\ GridTypes /\ FlagTypes /\ CursorTypes /\ CaretTypes /\ GlassTypes
  /\ PrinterTypes /\ StartTypes
  /\ ready \in BOOLEAN /\ pc \in Points /\ from \in Dispatching
  /\ inputs \in 0 .. Inputs

----------------------------------------------------------------------------
(* Operations of GConsole that only write: they change the cells and flags. *)

\* Mutated: the comparison is turned round.
TouchLate == dirty' = TRUE /\ event' = (event \/ dirty)

\* if( m_Dirty++ < 1 ) SetEvent(m_DirtyEvent)
Touch == dirty' = TRUE /\ event' = (event \/ ~dirty)

\* Mutated: the comparison is turned round.
TouchCursorLate(update) ==
  cursorDirty' = TRUE /\ event' = (event \/ (update /\ cursorDirty))

\* if( m_fCursor++ < 1 && update ) SetEvent(m_DirtyEvent)
TouchCursor(update) ==
  cursorDirty' = TRUE /\ event' = (event \/ (update /\ ~cursorDirty))

\* OutputChr, OutputString, OutputLine: n cells from c on, all of them the
\* same here; BitArray::set(i,size) marks one cell more than it is asked to.
Output(c, n, ch) ==
  /\ content' = [i \in Cells |-> IF i \in c .. c + n - 1 THEN ch ELSE content[i]]
  /\ marked' = marked \cup {i \in Cells : i \in c .. c + n}
  /\ Touch

\* The cursor goes to the corner even if there are no cells to clear.
Clear ==
  /\ x' = 0 /\ y' = 0
  /\ IF ready
     THEN /\ content' = [i \in Cells |-> Blank] /\ marked' = Cells
          /\ Touch
     ELSE UNCHANGED <<content, marked, dirty, event>>

\* Init, when it succeeds: new arrays, with nothing drawn yet, a new caret,
\* and Clear; after it the host's lines may be redrawn, with picture.
\* CreateCaret makes a caret that is hidden once, nowhere.
Make(picture) ==
  /\ ready' = TRUE
  /\ content' = [i \in Cells |-> IF i \in Host THEN picture[i] ELSE Blank]
  /\ marked' = Cells
  /\ old' = [i \in Cells |-> None]
  /\ Touch
  /\ x' = 0 /\ y' = 0
  /\ hidden' = (IF visible = "on" THEN 0 ELSE 2)
  /\ caretAt' = <<>>
  /\ misled' = (visible = "off")
  /\ UNCHANGED <<visible, size, oldVisible, oldSize, cursorDirty>>

----------------------------------------------------------------------------
(* Update *)

SameWord(i, j) == i \div Word = j \div Word

\* Mutated: Update leaves out its last line.
VisitedShort == {i \in Host : \E j \in marked \cap Host : j <= i /\ SameWord(i, j)}

\* BitArray::unset assigns where it should mask, so it marks the rest of the
\* word.  From the first marked cell of a word on, all cells are visited.
Visited == {i \in Drawn : \E j \in marked \cap Drawn : j <= i /\ SameWord(i, j)}

LastOfWord(i) == ~ (i + 1 \in Drawn /\ SameWord(i, i + 1))

\* ... and afterwards all cells of the word are marked but the last visited.
Remarked ==
  {i \in Cells :
     IF \E j \in Visited : SameWord(i, j) THEN ~ (i \in Drawn /\ LastOfWord(i))
                                          ELSE i \in marked}

\* Mutated: without InvalidateRect.
DrawUnseen ==
  /\ old' = [i \in Cells |-> IF i \in Visited THEN content[i] ELSE old[i]]
  /\ marked' = Remarked
  /\ UNCHANGED invalid

Draw ==
  /\ old' = [i \in Cells |-> IF i \in Visited THEN content[i] ELSE old[i]]
  /\ marked' = Remarked
  /\ invalid' = (invalid \/ \E i \in Visited : content[i] # old[i])

\* ShowCaret is called when old_cursor says it is hidden, whether or not
\* CreateCaret just made a new, hidden one.
MoveCaret ==
  LET fresh == oldSize # size
      level == IF fresh THEN 1 ELSE hidden
  IN  IF visible = "on"
      THEN /\ oldSize' = size /\ caretAt' = <<x, y>> /\ oldVisible' = "on"
           /\ hidden' = (IF oldVisible # "on" /\ level > 0 THEN level - 1
                                                           ELSE level)
           /\ misled' = (IF fresh THEN oldVisible = "on" ELSE misled)
      ELSE /\ hidden' = (IF oldVisible # "off" THEN hidden + 1 ELSE hidden)
           /\ oldVisible' = "off"
           /\ UNCHANGED <<oldSize, caretAt, misled>>

Update ==
  /\ ready
  /\ IF cursorDirty THEN MoveCaret ELSE UNCHANGED caret
  /\ IF dirty THEN Draw ELSE UNCHANGED <<old, marked, invalid>>
  /\ dirty' = FALSE /\ cursorDirty' = FALSE /\ event' = FALSE
  /\ UNCHANGED <<content, ready, cursor, window>>

----------------------------------------------------------------------------
(* message(F_OUTPUT,...): Print, then Update until it returns 1            *)

Message(t, then) ==
  /\ pc' = "print" /\ text' = t /\ offset' = x + y * Col /\ back' = then

\* The head of the text is printed; PrintEnd comes when there is none.
PrintNewline ==
  /\ pc = "print" /\ ready /\ text # <<>> /\ Head(text) = Newline
  /\ x' = 0
  /\ y' = (IF y + 1 > Row THEN y ELSE y + 1)
  /\ offset' = (IF (y + 1) * Col >= End THEN End - Col ELSE (y + 1) * Col)
  /\ text' = Tail(text)
  /\ UNCHANGED <<grid, flags, ready, visible, size, caret, glass, pc, from,
                 back, start, inputs>>

\* Mutated: no next line for the cursor.
StayInLine == x' = (IF x + 1 > Col THEN 0 ELSE x + 1) /\ y' = y

\* The cursor goes on to the next line only beyond the column after the last.
Advance ==
  IF x + 1 > Col THEN x' = 0 /\ y' = (IF y + 1 > Row THEN y ELSE y + 1)
                 ELSE x' = x + 1 /\ y' = y

PrintChar ==
  /\ pc = "print" /\ ready /\ text # <<>> /\ Head(text) # Newline
  /\ offset < End
  /\ content' = [content EXCEPT ![offset] = Head(text)]
  /\ marked' = marked \cup {offset}
  /\ offset' = offset + 1
  /\ Advance
  /\ text' = Tail(text)
  /\ UNCHANGED <<old, flags, ready, visible, size, caret, glass, pc, from,
                 back, start, inputs>>

\* Beyond the arrays Print writes before it looks where it is.  What that
\* does to the program is undefined: it may go on, or not.
PrintOutside ==
  /\ pc = "print" /\ ready /\ text # <<>> /\ Head(text) # Newline
  /\ offset >= End
  /\ offset' = End - 1
  /\ text' = Tail(text)
  /\ pc' \in {"print", "crashed"}
  /\ UNCHANGED <<grid, flags, ready, cursor, caret, glass, from, back, start,
                 inputs>>

\* Without arrays Print does nothing.
PrintEnd ==
  /\ pc = "print" /\ (ready => text = <<>>)
  /\ pc' = "update" /\ text' = <<>> /\ offset' = 0
  /\ IF ready THEN Touch ELSE UNCHANGED <<dirty, event>>
  /\ UNCHANGED <<grid, cursorDirty, ready, cursor, caret, glass, from, back,
                 start, inputs>>

\* while(ScreenDevice.Update()!=1): Update returns 0 only without arrays, and
\* then for ever.
MessageShown ==
  /\ pc = "update"
  /\ IF ready THEN Update /\ pc' = back
     ELSE pc' = "hung" /\ UNCHANGED <<grid, flags, ready, cursor, caret, glass>>
  /\ back' = "ended"
  /\ UNCHANGED <<from, text, offset, start, inputs>>

----------------------------------------------------------------------------
(* Start-up: WinMain, init_dopt_emulation, CModuleBase::Init               *)

\* parse_argument fails: its message is printed before there is a console.
BadConfig ==
  /\ pc = "args"
  /\ \E t \in Text : Message(t, "ended")
  /\ UNCHANGED <<grid, flags, ready, cursor, caret, glass, from, start, inputs>>

GoodConfig ==
  /\ pc = "args" /\ pc' = "create"
  /\ UNCHANGED <<grid, flags, ready, cursor, caret, glass, from, printer, start,
                 inputs>>

CreateFails ==
  /\ pc = "create" /\ pc' = "ended"
  /\ UNCHANGED <<grid, flags, ready, cursor, caret, glass, from, printer, start,
                 inputs>>

\* ScreenDevice.Init; the window is new and must be painted.
Create ==
  /\ pc = "create" /\ pc' = "windows"
  /\ Make([i \in Host |-> Blank])
  /\ invalid' = TRUE
  /\ UNCHANGED <<window, from, printer, start, inputs>>

\* WN_Init: the display memory, all blank, is drawn, the cursor put in the
\* corner and disabled, for Update to do (update is FALSE).
WindowInit ==
  /\ pc = "windows" /\ pc' = "keyboard"
  /\ Output(0, ScrRow * Col, Blank)    \* there is a console
  /\ x' = 0 /\ y' = 0 /\ visible' = "off" /\ size' \in Size
  /\ cursorDirty' = TRUE
  /\ UNCHANGED <<old, ready, caret, glass, from, printer, start, inputs>>

\* keyboard_init fails: the console is closed.
KeyboardFails ==
  /\ pc = "keyboard" /\ pc' = "ended" /\ ready' = FALSE
  /\ UNCHANGED <<grid, flags, cursor, caret, glass, from, printer, start, inputs>>

KeyboardInit ==
  /\ pc = "keyboard" /\ pc' = "modules"
  /\ UNCHANGED <<grid, flags, ready, cursor, caret, glass, from, printer, start,
                 inputs>>

\* The next module: its name is printed, if it has one.
ModuleName ==
  /\ pc = "modules" /\ left > 0
  /\ \/ \E t \in Text : Message(t, "named")
     \/ pc' = "named" /\ UNCHANGED printer
  /\ left' = left - 1 /\ tries' = 0
  /\ UNCHANGED <<grid, flags, ready, cursor, caret, glass, from, inputs>>

\* CursorPos(1,x,y) with where Print left it; then MSGQUEUE.
ModuleCursor ==
  /\ pc = "named" /\ pc' = "probe"
  /\ IF ready THEN TouchCursor(TRUE) ELSE UNCHANGED <<cursorDirty, event>>
  /\ UNCHANGED <<grid, dirty, ready, cursor, caret, glass, from, printer, start,
                 inputs>>

\* SetEvent(hStart), and the loop that waits for the module, with MSGQUEUE.
ModuleWait ==
  /\ pc = "probe" /\ pc' = "try"
  /\ UNCHANGED <<grid, flags, ready, cursor, caret, glass, from, printer, start,
                 inputs>>

\* MSGQUEUE looks at a message it may not have got: what it finds there may
\* pass for WM_QUIT, and then the program ends.
QueueMisread ==
  /\ pc = "try" /\ pc' = "ended" /\ ready' = FALSE
  /\ UNCHANGED <<grid, flags, cursor, caret, glass, from, printer, start, inputs>>

\* The module has started, or Tries seconds have passed: either is reported.
ModuleReported ==
  /\ pc = "try"
  /\ \E t \in Text : Message(t, "reported")
  /\ UNCHANGED <<grid, flags, ready, cursor, caret, glass, from, start, inputs>>

\* Mutated: the seconds are not counted.
ModuleLateForEver ==
  /\ pc = "try" /\ tries < Tries /\ UNCHANGED tries
  /\ IF x >= Col THEN Message(<<Newline>>, "star") ELSE Message(<<Star>>, "try")
  /\ UNCHANGED <<grid, flags, ready, cursor, caret, glass, from, left, inputs>>

\* MSGQUEUE once more, and the next module.
ModuleNext ==
  /\ pc = "reported" /\ pc' = "modules"
  /\ UNCHANGED <<grid, flags, ready, cursor, caret, glass, from, printer, start,
                 inputs>>

\* A second passed; a star on a line of its own if this one is full.
ModuleLate ==
  /\ pc = "try" /\ tries < Tries /\ tries' = tries + 1
  /\ IF x >= Col THEN Message(<<Newline>>, "star") ELSE Message(<<Star>>, "try")
  /\ UNCHANGED <<grid, flags, ready, cursor, caret, glass, from, left, inputs>>

ModuleStar ==
  /\ pc = "star" /\ Message(<<Star>>, "try")
  /\ UNCHANGED <<grid, flags, ready, cursor, caret, glass, from, start, inputs>>

Greetings == 3

ModulesDone ==
  /\ pc = "modules" /\ left = 0
  /\ pc' = "greet" /\ left' = Greetings /\ tries' = 0
  /\ UNCHANGED <<grid, flags, ready, cursor, caret, glass, from, printer, inputs>>

\* Program, compilation date, and that the host is waited for.
Greet ==
  /\ pc = "greet" /\ left > 0 /\ left' = left - 1
  /\ \E t \in Text : Message(t, "greet")
  /\ UNCHANGED <<grid, flags, ready, cursor, caret, glass, from, tries, inputs>>

\* init_dopt_emulation returns the port's status.
PortFails ==
  /\ pc = "greet" /\ left = 0 /\ pc' = "ended" /\ ready' = FALSE
  /\ UNCHANGED <<grid, flags, cursor, caret, glass, from, printer, start, inputs>>

\* CursorVisible(TRUE,CURSOR_ENABLE), CursorSize(TRUE,CURSOR_BLOCK).
ShowCursor ==
  IF ready
  THEN visible' = "on" /\ size' = Block /\ TouchCursor(TRUE)
  ELSE UNCHANGED <<visible, size, cursorDirty, event>>

Started ==
  /\ pc = "greet" /\ left = 0 /\ pc' = "wait"
  /\ ShowCursor
  /\ UNCHANGED <<grid, dirty, ready, x, y, caret, glass, from, printer, start,
                 inputs>>

----------------------------------------------------------------------------
(* The main loop, WaitingMessages                                          *)

\* EVENT_SCREEN comes before reading; without arrays the event stays.
ScreenEvent ==
  /\ pc = "wait" /\ event /\ pc' = "messages"
  /\ IF ready THEN Update
     ELSE UNCHANGED <<grid, flags, ready, cursor, caret, glass>>
  /\ UNCHANGED <<from, printer, start, inputs>>

\* The other events, and window messages, end the wait too.
OtherEvent ==
  /\ pc = "wait" /\ pc' = "messages"
  /\ UNCHANGED <<grid, flags, ready, cursor, caret, glass, from, printer, start,
                 inputs>>

\* Bytes from the host are parsed: handlers write cells and set the cursor.
Parse ==
  /\ pc = "wait" /\ ~event /\ pc' = "parsing"
  /\ UNCHANGED <<grid, flags, ready, cursor, caret, glass, from, printer, start,
                 inputs>>

HostOutput ==
  /\ pc = "parsing" /\ ready
  /\ \E c \in Host, n \in 1 .. Col, ch \in Char :
       c + n - 1 \in Host /\ Output(c, n, ch)
  /\ UNCHANGED <<old, cursorDirty, ready, cursor, caret, glass, pc, from,
                 printer, start, inputs>>

\* CursorPos, CursorVisible and CursorSize with update FALSE.
HostCursor ==
  /\ pc = "parsing" /\ ready
  /\ \/ x' \in 0 .. Col - 1 /\ y' \in 0 .. ScrRow - 1 /\ UNCHANGED <<visible, size>>
     \/ visible' \in {"on", "off"} /\ size' \in Size /\ UNCHANGED <<x, y>>
  /\ TouchCursor(FALSE)
  /\ UNCHANGED <<grid, dirty, ready, caret, glass, pc, from, printer, start,
                 inputs>>

\* ScreenDevice.Flush()
ParseEnd ==
  /\ pc = "parsing" /\ pc' = "messages"
  /\ Touch
  /\ UNCHANGED <<grid, cursorDirty, ready, cursor, caret, glass, from, printer,
                 start, inputs>>

\* Nothing more to dispatch; WM_PAINT comes while the window is invalid.
NoMessage ==
  /\ pc = "messages" /\ ~invalid /\ pc' = "wait"
  /\ UNCHANGED <<grid, flags, ready, cursor, caret, glass, from, printer, start,
                 inputs>>

----------------------------------------------------------------------------
(* Window messages                                                         *)

Dispatched == pc \in Dispatching /\ inputs < Inputs /\ inputs' = inputs + 1

\* BitBlt copies nothing without a bitmap, but the window is valid then.
Paint ==
  /\ pc \in Dispatching /\ invalid
  /\ invalid' = FALSE
  /\ window' = (IF ready THEN [i \in Drawn |-> old[i]] ELSE window)
  /\ UNCHANGED <<grid, flags, ready, cursor, caret, pc, from, printer, start,
                 inputs>>

\* Another window was over this one.
Uncover ==
  /\ Dispatched
  /\ window' = [i \in Drawn |-> None] /\ invalid' = TRUE
  /\ UNCHANGED <<grid, flags, ready, cursor, caret, pc, from, printer, start>>

\* WM_EXITSIZEMOVE: ChangeSize closes the console and opens it anew; then
\* WN_Redraw_All draws the display memory, whatever the host put there.
Resize ==
  /\ Dispatched
  /\ \E picture \in [Host -> Char] : Make(picture)
  /\ UNCHANGED <<glass, pc, from, printer, start>>

\* ... and when it cannot be opened, it has no arrays.
ResizeFails ==
  /\ Dispatched
  /\ ready' = FALSE
  /\ UNCHANGED <<grid, flags, cursor, caret, glass, pc, from, printer, start>>

\* The layout key: SetRus writes to the end of the status line, and Flush.
LayoutKey ==
  /\ Dispatched
  /\ \/ /\ ready
        /\ \E n \in 1 .. Col, ch \in Char : Output((ScrRow + 1) * Col - n, n, ch)
     \/ ~ready /\ Touch /\ UNCHANGED <<content, marked>>
  /\ UNCHANGED <<old, cursorDirty, ready, cursor, caret, glass, pc, from,
                 printer, start>>

\* The reset key: Reset clears the console and prints a message ...
ResetKey ==
  /\ Dispatched
  /\ Clear
  /\ \E t \in Text : text' = t
  /\ offset' = 0 /\ back' = "reset" /\ pc' = "print" /\ from' = pc
  /\ UNCHANGED <<old, cursorDirty, ready, visible, size, caret, glass,
                 start>>

\* ... and enables the cursor.
ResetEnd ==
  /\ pc = "reset" /\ pc' = from /\ from' = "messages"
  /\ ShowCursor
  /\ UNCHANGED <<grid, dirty, ready, x, y, caret, glass, printer, start, inputs>>

\* WM_CLOSE clears the console and posts WM_QUIT, which MSGQUEUE swallows
\* before and after the wait for a module, and which ends the program elsewhere;
\* the exit key posts it alone.
CloseWindow ==
  /\ Dispatched
  /\ Clear \/ UNCHANGED <<content, marked, dirty, event, x, y>>
  /\ IF pc \in {"probe", "reported"} THEN UNCHANGED <<pc, ready>>
     ELSE pc' = "ended" /\ ready' = FALSE
  /\ UNCHANGED <<old, cursorDirty, visible, size, caret, glass, from, printer,
                 start>>

----------------------------------------------------------------------------
Init ==
  /\ content \in [Cells -> {Blank}] /\ old \in [Cells -> {None}]
  /\ marked = {}
  /\ dirty = FALSE /\ cursorDirty = FALSE /\ event = FALSE
  /\ ready = FALSE
  /\ x = 0 /\ y = 0 /\ visible = "on" /\ size \in Size
  /\ oldVisible = "never" /\ oldSize = None
  /\ hidden = 0 /\ caretAt = <<>> /\ misled = FALSE
  /\ window = [i \in Drawn |-> None] /\ invalid = FALSE
  /\ pc = "args" /\ back = "ended" /\ from = "messages"
  /\ text = <<>> /\ offset = 0
  /\ left = Modules /\ tries = 0 /\ inputs = 0

StartUp ==
  \/ BadConfig \/ GoodConfig \/ CreateFails \/ Create \/ WindowInit
  \/ KeyboardFails \/ KeyboardInit \/ ModuleName \/ ModuleCursor \/ ModuleWait
  \/ QueueMisread
  \/ ModuleReported \/ ModuleNext \/ ModuleLate \/ ModuleStar \/ ModulesDone \/ Greet
  \/ PortFails \/ Started

Printing == PrintNewline \/ PrintChar \/ PrintOutside \/ PrintEnd \/ MessageShown

Loop == ScreenEvent \/ OtherEvent \/ Parse \/ HostOutput \/ HostCursor \/ ParseEnd
        \/ NoMessage

User == Uncover \/ Resize \/ ResizeFails \/ LayoutKey \/ ResetKey \/ CloseWindow

\* The program has ended, waits for ever, or is undefined.
Rest == pc \in Over /\ UNCHANGED vars

Next == StartUp \/ Printing \/ Loop \/ Paint \/ User \/ ResetEnd \/ Rest

\* What the main thread does by itself; it chooses what happens to it in "wait"
\* and "parsing" with no preference, except that handlers end and that the
\* modules, whose event comes before the screen's, do not take every turn.
Work == StartUp \/ Printing \/ OtherEvent \/ NoMessage \/ Paint \/ ResetEnd

Fairness == WF_vars(Work) /\ WF_vars(ParseEnd) /\ SF_vars(ScreenEvent)

Spec == Init /\ [][Next]_vars /\ Fairness

----------------------------------------------------------------------------
(* Properties *)

Current == \A i \in Drawn : window[i] = content[i]

\* When the program waits, no screen event is signalled and there is nothing to
\* paint, the window shows every cell as it was written last: the marks (which
\* unset spreads over the word and set takes one too far), the counters that
\* signal only from zero, and the old copies miss no cell.
ScreenTrue == pc = "wait" /\ ready /\ ~event /\ ~invalid => Current

\* When the program waits and no screen event is signalled, a disabled caret is
\* hidden, and an enabled one is seen where the cursor was put last, or nowhere
\* after a resize, which moves the cursor without telling Update.  It stays
\* unseen (misled) after a new size for an enabled caret, and after a resize
\* while it is disabled.
CaretTrue ==
  pc = "wait" /\ ready /\ ~event =>
    IF visible = "off" THEN hidden > 0
    ELSE caretAt \in {<<x, y>>, <<>>} /\ (hidden = 0 \/ misled)

\* Print writes beyond its arrays only when the cursor has come to the last
\* line: although its place runs ahead of the cursor by one with every line that
\* is full, it does not reach the end before.
PrintInside ==
  pc = "print" /\ text # <<>> /\ offset >= End => y >= Row - 1

\* As long as there is a console, what was written will be seen.
EventuallyShown ==
  (ready /\ ~Current) ~> (Current \/ ~ready \/ pc \in Over)

\* As long as there is a console, the program comes back to where it waits for
\* events: the loops of message and of the start-up end.
Responsive ==
  (ready /\ pc \notin Over) ~> (pc \in {"wait", "ended", "crashed"} \/ ~ready)

\* The console draws all that was written, or nothing, and the window shows
\* the drawing.
P == INSTANCE Picture WITH
       Place <- Drawn, Ink <- Char, Nothing <- None,
       written <- [i \in Drawn |-> content[i]],
       drawn <- [i \in Drawn |-> old[i]],
       shown <- window

ImplementsPicture == P!Spec
=============================================================================
