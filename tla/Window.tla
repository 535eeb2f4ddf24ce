------------------------------- MODULE Window -------------------------------
(***************************************************************************)
(* The terminal's display: a memory of Rows lines seen through a screen of *)
(* Scr lines.  The first SLU and the last SLL lines of the screen are      *)
(* locked onto the first and last lines of the memory; between them the    *)
(* screen shows the lines from SVW_Row on.  MLU and MLL lines at the ends  *)
(* of the memory are kept from scrolling.                                  *)
(*                                                                         *)
(* A line is one value, "blank" or "text": which of its cells a command    *)
(* writes, and which cells are protected fields, is left open.  A display  *)
(* is the record of what WN_ functions change together, so that a command  *)
(* which calls several of them is a composition of their operators.        *)
(***************************************************************************)
EXTENDS Integers

CONSTANTS Rows, \* DOPTROW (75), lines of the memory
          Scr,  \* SCRROW (25), lines of the screen
          Cols, \* DOPTCOL (80), cells of a line
          Line  \* what a line may hold, "blank" among it

ASSUME ConstantsAssumption ==
  /\ Rows \in Nat /\ Scr \in Nat /\ 1 <= Scr /\ Scr < Rows
  /\ Cols \in Nat \ {0}
  /\ "blank" \in Line /\ "skipped" \notin Line

Row    == 0..(Rows - 1)
Screen == 0..(Scr - 1)

VARIABLES mem,     \* the lines in gwin_CHR_Mem
          MLU, MLL, SLU, SLL, SVW_Row, Cur_Row,
          screen,  \* the lines in the console's m_ChrArray
          curs,    \* the console's m_CursorPosY
          strayed, \* the window or the console's cursor moved, and the cursor
                   \* was not set after it
          format,  \* gwin_Format_Mode
          crashed  \* a memmove of a negative size

vars == <<mem, MLU, MLL, SLU, SLL, SVW_Row, Cur_Row, screen, curs, strayed,
          format, crashed>>

-----------------------------------------------------------------------------
(* WN_ functions.  d is the display, m the memory it shows.                *)

Display == [svw |-> SVW_Row, slu |-> SLU, sll |-> SLL, row |-> Cur_Row,
            screen |-> screen, curs |-> curs, strayed |-> strayed]

\* The lines between the locked ones, less one.
Span(d) == Scr - 1 - d.slu - d.sll

\* WN_Calc_Dspl: whether line r of the memory is on the screen, and where.
Displayed(d, r) ==
  \/ r < d.slu
  \/ r > Rows - 1 - d.sll
  \/ d.svw <= r /\ r <= d.svw + Span(d)

Place(d, r) ==
  IF r < d.slu THEN r
  ELSE IF r > Rows - 1 - d.sll THEN r - (Rows - Scr)
  ELSE r - d.svw + d.slu

\* The line of the memory that line s of the screen is for.
Source(d, s) ==
  IF s < d.slu THEN s
  ELSE IF s > Scr - 1 - d.sll THEN s + (Rows - Scr)
  ELSE s + d.svw - d.slu

\* OutputLine: n lines of the memory from line r on, if that is displayed.
Redraw(d, m, r, n) ==
  LET to == Place(d, r) IN
  IF Displayed(d, r)
  THEN [d EXCEPT !.screen = [s \in Screen |->
          IF to <= s /\ s < to + n THEN m[r + s - to] ELSE d.screen[s]]]
  ELSE d

\* WN_Redraw_Line of each line from first to last.
RedrawEach(d, m, first, last) ==
  [d EXCEPT !.screen = [s \in Screen |->
     IF first <= Source(d, s) /\ Source(d, s) <= last
     THEN m[Source(d, s)] ELSE d.screen[s]]]

\* Lines that are written and not redrawn, where they are displayed.
Skip(d, first, last) ==
  [d EXCEPT !.screen = [s \in Screen |->
     IF first <= Source(d, s) /\ Source(d, s) <= last
     THEN "skipped" ELSE d.screen[s]]]

\* WN_Redraw_Ch changes a cell: a line that was skipped stays so.
Redraw_Ch(d, m, r) ==
  IF Displayed(d, r) /\ d.screen[Place(d, r)] # "skipped"
  THEN Redraw(d, m, r, 1) ELSE d

Redraw_Client_Area(d, m) == Redraw(d, m, d.svw, Span(d) + 1)

Redraw_All(d, m) ==
  Redraw(Redraw_Client_Area(Redraw(d, m, 0, d.slu), m),
         m, Rows - d.sll, d.sll)

\* WN_Calc_SVW: the window moves as little as shows line y.
Calc_SVW(d, y) ==
  IF y < d.svw /\ y >= d.slu THEN y
  ELSE IF y > d.svw + Span(d) /\ y <= Rows - 1 - d.sll THEN y - Span(d)
  ELSE d.svw

Set_Cursor(d, m, y) ==
  LET svw == Calc_SVW(d, y)
      e   == [d EXCEPT !.svw = svw]
      f   == IF svw # d.svw THEN Redraw_Client_Area(e, m) ELSE e
  IN [f EXCEPT !.row = y, !.curs = Place(f, y), !.strayed = FALSE]

\* A column beyond the last makes WN_Set_Cursor return.
Ctrl_SVW(d, m, y1, y2, columnOk) ==
  LET e == Redraw_Client_Area([d EXCEPT !.svw = y1], m) IN
  IF \/ y1 < d.slu \/ y1 > d.slu + Rows - Scr
     \/ /\ y2 >= d.slu
        /\ y2 < y1 \/ y2 > y1 + Span(d)
        /\ y2 <= Rows - 1 - d.sll \/ y2 >= Rows
  THEN d
  ELSE IF columnOk THEN Set_Cursor(e, m, y2)
  ELSE [e EXCEPT !.strayed = TRUE]

-----------------------------------------------------------------------------
(* The display becomes d, the memory m.  A cursor line outside of the      *)
(* memory, or a crash, ends what is modelled.                              *)

Running == ~crashed /\ Cur_Row \in Row

Become(d, m) ==
  /\ Running
  /\ mem' = m
  /\ SVW_Row' = d.svw /\ SLU' = d.slu /\ SLL' = d.sll /\ Cur_Row' = d.row
  /\ screen' = d.screen /\ curs' = d.curs /\ strayed' = d.strayed

\* Most commands touch neither the memory locks nor the modes.
Show(d, m) == Become(d, m) /\ UNCHANGED <<MLU, MLL, format, crashed>>

Init ==
  /\ mem = [r \in Row |-> "blank"] /\ screen = [s \in Screen |-> "blank"]
  /\ MLU = 0 /\ MLL = 0 /\ SLU = 0 /\ SLL = 0 /\ SVW_Row = 0
  /\ Cur_Row = 0 /\ curs = 0 /\ strayed = FALSE
  /\ format = FALSE /\ crashed = FALSE

-----------------------------------------------------------------------------
(* Cursor.                                                                 *)

PDC_Set_Cursor(y) == y \in Row /\ Show(Set_Cursor(Display, mem, y), mem)

PDC_Cursor_Up == Cur_Row > 0 /\ Show(Set_Cursor(Display, mem, Cur_Row - 1), mem)

PDC_Cursor_Down ==
  Cur_Row # Rows - 1 /\ Show(Set_Cursor(Display, mem, Cur_Row + 1), mem)

\* PDC_Carr_Return; and PDC_Cursor_Left and _Right within the line.
PDC_Carr_Return == Show(Set_Cursor(Display, mem, Cur_Row), mem)

\* PDC_Linefeed over display d.  On the last line that scrolls, the lines
\* between the memory locks move up, the last of them becomes blank.  When
\* the locks leave no line between them that is a line of the upper lock,
\* which is redrawn only if the screen does not lock it.
Scrolled(first, last) ==
  [r \in Row |-> IF r = last THEN "blank"
                 ELSE IF first <= r /\ r < last THEN mem[r + 1]
                 ELSE mem[r]]

Linefeed(d) ==
  LET a == Rows - 1 - MLL
      m == Scrolled(MLU, a)
      e == IF MLU + MLL = Rows THEN Skip(d, a, a) ELSE d
  IN IF format
     THEN Show(IF d.row < Rows - 1 THEN Set_Cursor(d, mem, d.row) ELSE d, mem)
     ELSE IF d.row # a
     THEN Show(Set_Cursor(d, mem, IF d.row # Rows - 1 THEN d.row + 1
                                                      ELSE d.row), mem)
     ELSE IF MLU + MLL > Rows
     THEN /\ Running /\ crashed' = TRUE
          /\ UNCHANGED <<mem, MLU, MLL, SLU, SLL, SVW_Row, Cur_Row, screen,
                         curs, strayed, format>>
     ELSE Show(Set_Cursor(Redraw_Client_Area(e, m), m, a), m)

PDC_Linefeed == Linefeed(Display)

PDC_New_Line == Linefeed(Set_Cursor(Display, mem, Cur_Row))

\* PDC_Next_Tab goes to the next stop in the line, or to the next line; in
\* format mode to the next field, wherever that is.
PDC_Next_Tab ==
  IF format THEN \E y \in Row : Show(Set_Cursor(Display, mem, y), mem)
            ELSE PDC_Carr_Return \/ PDC_New_Line

\* The displays PDC_Cursor_Home leads to; in format mode it goes on to a
\* field.
Homes(m, mode) ==
  LET home == Ctrl_SVW(Display, m, SLU, SLU, TRUE) IN
  IF mode THEN {Set_Cursor(home, m, y) : y \in Row} ELSE {home}

PDC_Cursor_Home == \E d \in Homes(mem, format) : Show(d, mem)

PDC_Prev_Tab ==
  \/ \E y \in Row : /\ IF format THEN y <= Cur_Row
                                 ELSE Cur_Row - 1 <= y /\ y <= Cur_Row
                    /\ Show(Set_Cursor(Display, mem, y), mem)
  \/ format /\ PDC_Cursor_Home

PDC_Csr_Antihome ==
  IF format THEN \E y \in Row : Show(Set_Cursor(Display, mem, y), mem)
  ELSE Show(Ctrl_SVW(Display, mem, SLU + Rows - Scr, Rows - 1 - SLL, TRUE),
            mem)

-----------------------------------------------------------------------------
(* The window and the locks.                                               *)

PDC_Ctrl_SVW(y1, y2, columnOk) ==
  Show(Ctrl_SVW(Display, mem, y1, y2, columnOk), mem)

\* The cursor follows the window, unless it is on a locked line.
Follow(d, y) ==
  IF d.slu <= d.row /\ d.row <= Rows - 1 - d.sll
  THEN Set_Cursor(d, mem, y) ELSE d

Moved(svw) == Redraw_Client_Area([Display EXCEPT !.svw = svw], mem)

AtMost(a, b) == IF a > b THEN b ELSE a

\* Mutated: the cursor stays behind.
PDC_Next_PageAlone ==
  Show(Moved(AtMost(SVW_Row + Span(Display) + 1, SLU + Rows - Scr)), mem)

PDC_Next_Page ==
  LET c == AtMost(SVW_Row + Span(Display) + 1, SLU + Rows - Scr) IN
  Show(Follow(Moved(c), IF Cur_Row < c THEN c ELSE Cur_Row), mem)

PDC_Prev_Page ==
  LET c == IF SVW_Row >= Scr - SLL THEN SVW_Row - Span(Display) - 1 ELSE SLU
  IN Show(Follow(Moved(c), AtMost(Cur_Row, c + Span(Display))), mem)

PDC_Roll_Up ==
  /\ SVW_Row < SLU + Rows - Scr
  /\ Show(Follow(Moved(SVW_Row + 1),
                 IF Cur_Row < SVW_Row + 1 THEN Cur_Row + 1 ELSE Cur_Row), mem)

PDC_Roll_Down ==
  /\ SVW_Row > SLU
  /\ Show(Follow(Moved(SVW_Row - 1),
                 IF Cur_Row > SVW_Row - 1 + Span(Display)
                 THEN Cur_Row - 1 ELSE Cur_Row), mem)

\* Mutated: less may be kept from scrolling than the screen locks.
PDC_Set_Mem_LockLess(a, b) ==
  /\ a <= Rows - 1 /\ b <= Rows - 1 /\ a + b <= Rows + 1
  /\ MLU' = a /\ MLL' = b
  /\ Become(Display, mem) /\ UNCHANGED <<format, crashed>>

PDC_Set_Mem_Lock(a, b) ==
  /\ a <= Rows - 1 /\ b <= Rows - 1 /\ a + b <= Rows + 1
  /\ SLU <= a /\ SLL <= b
  /\ MLU' = a /\ MLL' = b
  /\ Become(Display, mem) /\ UNCHANGED <<format, crashed>>

\* WN_Calc_Dspl leaves a1 as it was on the stack when the cursor's line is
\* not displayed: below, on or beyond the screen.
Garbage == -1..Scr

AtLeast(a, b) == IF a < b THEN b ELSE a

\* Mutated: the window does not move along with the upper lock.
PDC_Set_Scr_LockStill(a, b) ==
  /\ a + b <= Scr - 1
  /\ MLU' = AtLeast(MLU, a) /\ MLL' = AtLeast(MLL, b)
  /\ \E a1 \in IF Displayed(Display, Cur_Row)
               THEN {Place(Display, Cur_Row)} ELSE Garbage :
       LET row == IF a1 < a THEN a1
                  ELSE IF a1 >= Scr - b THEN a1 + Rows - Scr
                  ELSE SVW_Row + a1 - a
           d   == [Display EXCEPT !.slu = a, !.sll = b, !.row = row]
           e   == Redraw(Redraw(d, mem, 0, a), mem, Rows - b, b)
       IN Become(Ctrl_SVW(e, mem, SVW_Row, row, TRUE), mem)
  /\ UNCHANGED <<format, crashed>>

PDC_Set_Scr_Lock(a, b) ==
  /\ a + b <= Scr - 1
  /\ MLU' = AtLeast(MLU, a) /\ MLL' = AtLeast(MLL, b)
  /\ \E a1 \in IF Displayed(Display, Cur_Row)
               THEN {Place(Display, Cur_Row)} ELSE Garbage :
       LET y2  == SVW_Row + a - SLU
           row == IF a1 < a THEN a1
                  ELSE IF a1 >= Scr - b THEN a1 + Rows - Scr
                  ELSE y2 + a1 - a
           d   == [Display EXCEPT !.slu = a, !.sll = b, !.row = row]
           e   == Redraw(Redraw(d, mem, 0, a), mem, Rows - b, b)
       IN Become(Ctrl_SVW(e, mem, y2, row, TRUE), mem)
  /\ UNCHANGED <<format, crashed>>

-----------------------------------------------------------------------------
(* Lines put in and taken out.                                             *)

\* Mutated: the cursor may be in the upper lock.
PDC_Insert_LineLocked ==
  LET c == Rows - 1 - MLL
      m == [r \in Row |-> IF r = Cur_Row THEN "blank"
                          ELSE IF Cur_Row < r /\ r <= c THEN mem[r - 1]
                          ELSE mem[r]]
  IN /\ ~format /\ c >= Cur_Row
     /\ Show(Set_Cursor(Redraw_Client_Area(Display, m), m, Cur_Row), m)

PDC_Insert_Line ==
  LET c == Rows - 1 - MLL
      m == [r \in Row |-> IF r = Cur_Row THEN "blank"
                          ELSE IF Cur_Row < r /\ r <= c THEN mem[r - 1]
                          ELSE mem[r]]
  IN /\ ~format /\ Cur_Row >= MLU /\ c >= Cur_Row
     /\ Show(Set_Cursor(Redraw_Client_Area(Display, m), m, Cur_Row), m)

PDC_Del_Line ==
  LET c == Rows - 1 - MLL
      m == Scrolled(Cur_Row, c)
  IN /\ ~format /\ Cur_Row >= MLU /\ Cur_Row <= c
     /\ Show(Set_Cursor(Redraw_Client_Area(Display, m), m, Cur_Row), m)

\* b lines at line a; at a line of the lower lock, the locked lines before
\* it move up instead.
PDC_Dir_Line_Ins(a, b) ==
  LET low  == Rows - MLL
      down == [r \in Row |-> IF a <= r /\ r < a + b THEN "blank"
                             ELSE IF a + b <= r /\ r < low THEN mem[r - b]
                             ELSE mem[r]]
      up   == [r \in Row |-> IF a - b <= r /\ r < a THEN "blank"
                             ELSE IF low - b <= r /\ r < a - b THEN mem[r + b]
                             ELSE mem[r]]
  IN /\ a \in Row /\ low - MLU >= b
     /\ \/ low - b >= a /\ Show(Redraw_All(Display, down), down)
        \/ low - b < a /\ low <= a /\ Show(Redraw_All(Display, up), up)

\* b lines from line a on; in the lower lock, the locked lines up to a move
\* down by b.
PDC_Dir_Line_Del(a, b) ==
  LET low  == Rows - MLL
      up   == [r \in Row |-> IF low - b <= r /\ r < low THEN "blank"
                             ELSE IF a <= r /\ r < low - b THEN mem[r + b]
                             ELSE mem[r]]
      down == [r \in Row |-> IF low <= r /\ r <= a
                             THEN IF r < low + b THEN "blank" ELSE mem[r - b]
                             ELSE mem[r]]
  IN /\ a \in Row /\ b <= Rows - a
     /\ \/ low - b >= a /\ Show(Redraw_All(Display, up), up)
        \/ /\ low - b < a /\ low <= a
           /\ Show(RedrawEach(Display, down, low, Rows - 1), down)

-----------------------------------------------------------------------------
(* Text.  t is what a line becomes when some of its cells are written.     *)

Written(first, last, t) ==
  [r \in Row |-> IF first <= r /\ r <= last THEN t ELSE mem[r]]

\* WN_Putc.  Insert mode redraws the line; in format mode it also moves the
\* rest of the field, which may go on to a later line.  In the last column
\* the cursor stays.
WN_Putc(t) ==
  \E insert \in BOOLEAN, last \in Row, stay \in BOOLEAN :
    LET m == Written(Cur_Row, last, t)
        d == IF insert
             THEN Redraw(Skip(Display, Cur_Row + 1, last), m, Cur_Row, 1)
             ELSE Redraw_Ch(Display, m, Cur_Row)
    IN /\ last >= Cur_Row /\ ((format /\ insert) \/ last = Cur_Row)
       /\ Show(IF stay THEN d ELSE Set_Cursor(d, m, Cur_Row), m)

\* From the first column only in format mode, to the line before.
PDC_Backspace(t) ==
  \E a \in Row :
    LET m == Written(a, a, t) IN
    /\ a = Cur_Row \/ (format /\ a = Cur_Row - 1)
    /\ Show(Set_Cursor(Redraw_Ch(Display, m, a), m, a), m)

\* In format mode to the end of the field, all of which is redrawn.
PDC_Del_Ch(t) ==
  \E last \in Row :
    LET m == Written(Cur_Row, last, t) IN
    /\ last >= Cur_Row /\ (format \/ last = Cur_Row)
    /\ Show(RedrawEach(Display, m, Cur_Row, last), m)

\* In format mode the first cell of the next line may be cleared with it.
PDC_Clr_Line(t) ==
  \E last \in Row :
    LET m == Written(Cur_Row, last, t)
        d == Skip(Display, Cur_Row + 1, last)
    IN /\ last = Cur_Row \/ (format /\ last = Cur_Row + 1)
       /\ Show(Redraw(d, m, Cur_Row, 1), m)
\* WN_Puts_Abs_Ext, WN_Fill_Abs and their like: len cells from column x of
\* line y on.  A line is redrawn for every Cols + 1 cells counted from its
\* start, and the one reached is redrawn in the end.
Blocks ==
  { b \in { [first  |-> y, last |-> y + (x + len - 1) \div Cols,
            redone |-> y + (x + len) \div (Cols + 1)] :
          y \in Row, x \in 0..(Cols - 1), len \in 1..(Rows * Cols) } :
    b.last < Rows }

WriteBlock(b, t) ==
  LET m == Written(b.first, b.last, t) IN
  Show(RedrawEach(Skip(Display, b.first, b.last), m, b.first, b.redone), m)

\* One cell anywhere, which does not move the cursor.
WN_Putch_Abs(y, t) ==
  LET m == Written(y, y, t) IN Show(Redraw_Ch(Display, m, y), m)

\* The cells from the cursor on; in format mode those of fields, which may
\* leave text in the lines kept.
PDC_Clr_Par(t, kept) ==
  LET m == [r \in Row |-> IF r = Cur_Row THEN t
                          ELSE IF r > Cur_Row /\ r \notin kept THEN "blank"
                          ELSE mem[r]]
  IN /\ format \/ kept = {}
     /\ Show(Redraw_All(Display, m), m)

-----------------------------------------------------------------------------
(* The whole display.                                                      *)

Blank == [r \in Row |-> "blank"]

\* The cursor goes home between the clearing and the redrawing.
PDC_Clr_All(kept) ==
  LET m == [r \in Row |-> IF r \in kept THEN mem[r] ELSE "blank"] IN
  /\ format \/ kept = {}
  /\ \E d \in Homes(m, format) : Show(Redraw_All(d, m), m)

PDC_Hard_Reset(t) ==
  LET d == Set_Cursor(Redraw_All(Display, Blank), Blank, 0)
      m == [Blank EXCEPT ![0] = t]
  IN Show(Redraw(d, m, 0, 1), m)

PDC_Video_On ==
  Show(Set_Cursor(Redraw_All(Display, mem), mem, Cur_Row), mem)

\* With no field there is no format mode.
PDC_Format_On ==
  /\ format' = TRUE /\ \E d \in Homes(mem, TRUE) : Become(d, mem)
  /\ UNCHANGED <<MLU, MLL, crashed>>

PDC_Format_Off ==
  /\ format' = FALSE /\ Become(Display, mem)
  /\ UNCHANGED <<MLU, MLL, crashed>>

\* The byte CAN, at any place in a command.
PDC_Init ==
  /\ format' = FALSE /\ Become(Ctrl_SVW(Display, mem, SLU, 0, TRUE), mem)
  /\ UNCHANGED <<MLU, MLL, crashed>>

-----------------------------------------------------------------------------
(* What the user does to the console, which the terminal is not told.      *)

\* GConsole::Clear, in Init and in Reset, puts the cursor in the corner; what
\* the screen shows then is screenAfter.
Cleared(screenAfter) ==
  [Display EXCEPT !.screen = screenAfter, !.curs = 0, !.strayed = TRUE]

\* ChangeSize makes the console anew, and WN_Redraw_All draws it; if the
\* console cannot be made, there is no screen (see Console).
Resize ==
  Show(Redraw_All(Cleared([s \in Screen |-> "blank"]), mem), mem)

\* The reset key clears the console, not the memory, and prints a message of
\* less than a line.
Reset == Show(Cleared([s \in Screen |-> "skipped"]), mem)

-----------------------------------------------------------------------------
\* A parameter of two digits may be beyond the memory.
Number == 0..Rows

CursorNext ==
  \/ \E y \in Number : PDC_Set_Cursor(y)
  \/ PDC_Cursor_Up \/ PDC_Cursor_Down \/ PDC_Carr_Return
  \/ PDC_Linefeed \/ PDC_New_Line \/ PDC_Next_Tab \/ PDC_Prev_Tab
  \/ PDC_Cursor_Home \/ PDC_Csr_Antihome

WindowNext ==
  \/ \E y1, y2 \in Number, ok \in BOOLEAN : PDC_Ctrl_SVW(y1, y2, ok)
  \/ PDC_Next_Page \/ PDC_Prev_Page \/ PDC_Roll_Up \/ PDC_Roll_Down
  \/ \E a, b \in Number : PDC_Set_Mem_Lock(a, b) \/ PDC_Set_Scr_Lock(a, b)

LineNext ==
  \/ PDC_Insert_Line \/ PDC_Del_Line
  \/ \E a, b \in Number : PDC_Dir_Line_Ins(a, b) \/ PDC_Dir_Line_Del(a, b)

Texts == {r \in Row : mem[r] # "blank"}

TextNext ==
  \E t \in Line :
    \/ WN_Putc(t) \/ PDC_Backspace(t) \/ PDC_Del_Ch(t) \/ PDC_Clr_Line(t)
    \/ \E y \in Row : WN_Putch_Abs(y, t)
    \/ \E b \in Blocks : WriteBlock(b, t)
    \/ \E kept \in SUBSET Texts : PDC_Clr_Par(t, kept)

WholeNext ==
  \/ \E kept \in SUBSET Texts : PDC_Clr_All(kept)
  \/ \E t \in Line : PDC_Hard_Reset(t)
  \/ PDC_Video_On \/ PDC_Format_On \/ PDC_Format_Off \/ PDC_Init
  \/ Resize \/ Reset

Next == CursorNext \/ WindowNext \/ LineNext \/ TextNext \/ WholeNext

Spec == Init /\ [][Next]_vars

-----------------------------------------------------------------------------
\* Lines, screen lines and locks in their ranges.
TypeOK ==
  /\ mem \in [Row -> Line]
  /\ screen \in [Screen -> Line \cup {"skipped"}]
  /\ MLU \in Row /\ MLL \in Row /\ SLU \in Screen /\ SLL \in Screen
  /\ SVW_Row \in Row /\ Cur_Row \in Int /\ curs \in Int
  /\ strayed \in BOOLEAN /\ format \in BOOLEAN /\ crashed \in BOOLEAN

(***************************************************************************)
(* Whatever pages, rolls and locks follow each other, the window stays     *)
(* between the lines the screen lock shows, a line is left for it, and     *)
(* what is locked on the screen is kept from scrolling, too.               *)
(***************************************************************************)
WindowInside ==
  Cur_Row \in Row =>
    /\ SLU <= SVW_Row /\ SVW_Row <= SLU + Rows - Scr
    /\ SLU + SLL <= Scr - 1
    /\ SLU <= MLU /\ SLL <= MLL

(***************************************************************************)
(* The console's cursor is on the screen line where the line of the        *)
(* terminal's cursor is shown, although the handlers move the window first *)
(* and set the cursor later or not at all.  Ctrl_SVW with a column that is *)
(* refused moves the window only; a resize and the reset key move the      *)
(* console's cursor only, until the host sets it again.                    *)
(***************************************************************************)
CursorFollows ==
  Cur_Row \in Row /\ ~strayed =>
    curs \in Screen /\ Source(Display, curs) = Cur_Row

(***************************************************************************)
(* Every screen line shows the memory line it stands for, after any        *)
(* sequence of scrolling, locking and writing, each of which redraws only  *)
(* a part of the screen.  Lines a block write skipped, and all lines after *)
(* the reset key, are known not to until they are redrawn.                 *)
(***************************************************************************)
ScreenShowsMemory ==
  Cur_Row \in Row =>
    \A s \in Screen : screen[s] \in {mem[Source(Display, s)], "skipped"}

(***************************************************************************)
(* A line of the memory locks is not changed by scrolling at the last line *)
(* nor by lines put in and out at the cursor, as long as the two locks     *)
(* leave a line between them.                                              *)
(***************************************************************************)
LockedRowsKept ==
  [][/\ MLU + MLL < Rows
     /\ \E r \in Row : (r < MLU \/ r > Rows - 1 - MLL) /\ mem'[r] # mem[r]
     => ~ (PDC_Linefeed \/ PDC_New_Line \/ PDC_Insert_Line \/ PDC_Del_Line)]_vars

\* GConsole::CursorPos asserts that the line it is given is on the screen.
CursorAsserted == 0 <= curs /\ curs < Scr
=============================================================================
