----------------------------- MODULE WindowProofs -----------------------------
(***************************************************************************)
(* Proofs about Window, for every number of lines of the memory and of the *)
(* screen.  The first part is about the WN_ functions: what each of them   *)
(* does to a display.  The second takes the handlers one by one.           *)
(***************************************************************************)
EXTENDS Window, TLAPS

Shown   == Line \cup {"skipped"}
Memory  == [Row -> Line]
DisplayType == [svw : Int, slu : Int, sll : Int, row : Int,
                screen : [Screen -> Shown], curs : Int, strayed : BOOLEAN]

\* The locks leave a line of the screen.
Locks(d) == 0 <= d.slu /\ 0 <= d.sll /\ d.slu + d.sll <= Scr - 1

\* The window is between the lines the locks show.
Inside(d) ==
  /\ d \in DisplayType /\ Locks(d)
  /\ d.slu <= d.svw /\ d.svw <= d.slu + Rows - Scr

\* The console's cursor is on the screen, and on the cursor's line.
OnLine(d) ==
  /\ d.row \in Row
  /\ d.curs \in Screen
  /\ ~d.strayed => Source(d, d.curs) = d.row

\* Every screen line shows its memory line.
Shows(d, m) == \A s \in Screen : d.screen[s] \in {m[Source(d, s)], "skipped"}

Good(d, m) == Inside(d) /\ OnLine(d) /\ Shows(d, m)

\* The same window with the same cursor.
Same(d, e) ==
  /\ e \in DisplayType
  /\ e.svw = d.svw /\ e.slu = d.slu /\ e.sll = d.sll
  /\ e.row = d.row /\ e.curs = d.curs /\ e.strayed = d.strayed

-----------------------------------------------------------------------------
(* Displays.                                                               *)

\* A display with its window inside, in arithmetic.
LEMMA InsideBounds ==
  ASSUME NEW d, Inside(d)
  PROVE  /\ d.slu \in Int /\ d.sll \in Int /\ d.svw \in Int
         /\ Rows \in Int /\ Scr \in Int /\ 1 <= Scr /\ Scr < Rows
         /\ 0 <= d.slu /\ 0 <= d.sll /\ d.slu + d.sll <= Scr - 1
         /\ d.slu <= d.svw /\ d.svw <= d.slu + Rows - Scr
  BY ConstantsAssumption DEF Inside, Locks, DisplayType

\* A screen line has a memory line, which is displayed there.
LEMMA SourceIsPlaced ==
  ASSUME NEW d, Inside(d), NEW s \in Screen
  PROVE  Source(d, s) \in Row /\ Displayed(d, Source(d, s))
         /\ Place(d, Source(d, s)) = s
<1>1. s \in Int /\ 0 <= s /\ s <= Scr - 1
  BY ConstantsAssumption DEF Screen
<1>2. CASE s < d.slu
  <2>1. Source(d, s) = s
    BY <1>2 DEF Source
  <2> QED
    BY <1>1, <1>2, <2>1, InsideBounds DEF Row, Displayed, Place
<1>3. CASE s > Scr - 1 - d.sll
  <2>1. ~(s < d.slu)
    BY <1>1, <1>3, InsideBounds
  <2>2. Source(d, s) = s + (Rows - Scr)
    BY <1>3, <2>1 DEF Source
  <2>3. /\ s + (Rows - Scr) \in Row /\ s + (Rows - Scr) > Rows - 1 - d.sll
        /\ ~(s + (Rows - Scr) < d.slu)
        /\ s + (Rows - Scr) - (Rows - Scr) = s
    BY <1>1, <1>3, InsideBounds DEF Row
  <2>4. Displayed(d, s + (Rows - Scr)) /\ Place(d, s + (Rows - Scr)) = s
    BY <1>1, <2>3, InsideBounds DEF Displayed, Place
  <2> QED
    BY <2>2, <2>3, <2>4
<1>4. CASE d.slu <= s /\ s <= Scr - 1 - d.sll
  <2>1. Source(d, s) = s + d.svw - d.slu
    BY <1>1, <1>4, InsideBounds DEF Source
  <2> DEFINE r == s + d.svw - d.slu
  <2>2. /\ r \in Row /\ d.svw <= r /\ r <= d.svw + Span(d)
        /\ ~(r < d.slu) /\ ~(r > Rows - 1 - d.sll)
        /\ r - d.svw + d.slu = s
    BY <1>1, <1>4, InsideBounds DEF Row, Span
  <2> QED
    BY <2>1, <2>2 DEF Displayed, Place
<1> QED
  BY <1>1, <1>2, <1>3, <1>4, InsideBounds

\* A displayed line is on the screen, where the screen line is for it.
LEMMA PlaceIsSource ==
  ASSUME NEW d, Inside(d), NEW r \in Row, Displayed(d, r)
  PROVE  Place(d, r) \in Screen /\ Source(d, Place(d, r)) = r
<1>1. r \in Int /\ 0 <= r /\ r <= Rows - 1
  BY ConstantsAssumption DEF Row
<1>2. CASE r < d.slu
  <2>1. Place(d, r) = r
    BY <1>2 DEF Place
  <2>2. r \in Screen
    BY <1>1, <1>2, InsideBounds DEF Screen
  <2> QED
    BY <1>2, <2>1, <2>2 DEF Source
<1>3. CASE r > Rows - 1 - d.sll
  <2> DEFINE s == r - (Rows - Scr)
  <2>1. /\ ~(r < d.slu) /\ s \in Screen /\ ~(s < d.slu)
        /\ s > Scr - 1 - d.sll /\ s + (Rows - Scr) = r
    BY <1>1, <1>3, InsideBounds DEF Screen
  <2> QED
    BY <1>3, <2>1 DEF Place, Source
<1>4. CASE d.slu <= r /\ r <= Rows - 1 - d.sll
  <2> DEFINE s == r - d.svw + d.slu
  <2>1. d.svw <= r /\ r <= d.svw + Span(d)
    BY <1>1, <1>4, InsideBounds DEF Displayed
  <2>2. /\ ~(r < d.slu) /\ ~(r > Rows - 1 - d.sll)
        /\ s \in Screen /\ ~(s < d.slu) /\ ~(s > Scr - 1 - d.sll)
        /\ s + d.svw - d.slu = r
    BY <1>1, <1>4, <2>1, InsideBounds DEF Screen, Span
  <2> QED
    BY <2>2 DEF Place, Source
<1> QED
  BY <1>1, <1>2, <1>3, <1>4, InsideBounds

\* What else than the screen does not matter to a window.
LEMMA SameInside ==
  ASSUME NEW d, Inside(d), NEW e, Same(d, e)
  PROVE  /\ Inside(e)
         /\ \A s : Source(e, s) = Source(d, s)
         /\ OnLine(d) => OnLine(e)
  BY DEF Inside, Locks, Same, Source, OnLine

\* A redrawing draws nothing but the screen, as long as the lines it takes
\* are lines of the memory.
LEMMA RedrawSame ==
  ASSUME NEW d \in DisplayType, NEW m \in Memory, NEW r \in Int, NEW n \in Int,
         0 <= r, r + n <= Rows
  PROVE  LET e == Redraw(d, m, r, n) IN
         /\ Same(d, e)
         /\ Displayed(d, r) =>
              \A s \in Screen :
                e.screen[s] = IF Place(d, r) <= s /\ s < Place(d, r) + n
                              THEN m[r + s - Place(d, r)] ELSE d.screen[s]
         /\ ~Displayed(d, r) => e = d
<1> DEFINE to == Place(d, r)
           f == [s \in Screen |-> IF to <= s /\ s < to + n
                                  THEN m[r + s - to] ELSE d.screen[s]]
<1>1. to \in Int
  BY ConstantsAssumption DEF Place, DisplayType
<1>2. ASSUME NEW s \in Screen PROVE f[s] \in Shown
  <2>1. CASE to <= s /\ s < to + n
    <3>1. r + s - to \in Row
      BY <1>1, <2>1, ConstantsAssumption DEF Row, Screen
    <3> QED
      BY <2>1, <3>1 DEF Memory, Shown
  <2>2. CASE ~(to <= s /\ s < to + n)
    BY <2>2 DEF DisplayType, Shown
  <2> QED
    BY <2>1, <2>2
<1>3. f \in [Screen -> Shown]
  BY <1>2
<1>4. Displayed(d, r) => Redraw(d, m, r, n) = [d EXCEPT !.screen = f]
  BY DEF Redraw
<1>5. ~Displayed(d, r) => Redraw(d, m, r, n) = d
  BY DEF Redraw
<1> HIDE DEF f
<1>6. Displayed(d, r) => Same(d, Redraw(d, m, r, n)) /\ Redraw(d, m, r, n).screen = f
  BY <1>3, <1>4 DEF Same, DisplayType
<1>7. ~Displayed(d, r) => Same(d, Redraw(d, m, r, n))
  BY <1>5 DEF Same
<1> QED
  BY <1>5, <1>6, <1>7 DEF f

\* Redrawing the client area draws every line between the locked ones.
LEMMA ClientDrawn ==
  ASSUME NEW d, Inside(d), NEW m \in Memory
  PROVE  LET e == Redraw_Client_Area(d, m) IN
         /\ Same(d, e)
         /\ \A s \in Screen :
              e.screen[s] = IF d.slu <= s /\ s <= Scr - 1 - d.sll
                            THEN m[Source(d, s)] ELSE d.screen[s]
<1> DEFINE e == Redraw_Client_Area(d, m)
<1>1. /\ d \in DisplayType /\ d.svw \in Int /\ Span(d) + 1 \in Int
      /\ 0 <= d.svw /\ d.svw + (Span(d) + 1) <= Rows
  BY ConstantsAssumption DEF Inside, Locks, DisplayType, Span
<1>2. Displayed(d, d.svw) /\ Place(d, d.svw) = d.slu
  BY ConstantsAssumption DEF Inside, Locks, DisplayType, Span, Displayed, Place
<1>3. e = Redraw(d, m, d.svw, Span(d) + 1)
  BY DEF Redraw_Client_Area
<1> HIDE DEF e
<1>4. /\ Same(d, e)
      /\ \A s \in Screen :
           e.screen[s] = IF d.slu <= s /\ s < d.slu + (Span(d) + 1)
                         THEN m[d.svw + s - d.slu] ELSE d.screen[s]
  BY <1>1, <1>2, <1>3, RedrawSame
<1>5. ASSUME NEW s \in Screen
      PROVE  /\ s < d.slu + (Span(d) + 1) <=> s <= Scr - 1 - d.sll
             /\ d.slu <= s /\ s <= Scr - 1 - d.sll
                  => Source(d, s) = d.svw + s - d.slu
  BY ConstantsAssumption DEF Inside, Locks, DisplayType, Span, Screen, Source
<1>6. ASSUME NEW s \in Screen
      PROVE  e.screen[s] = IF d.slu <= s /\ s <= Scr - 1 - d.sll
                           THEN m[Source(d, s)] ELSE d.screen[s]
  BY <1>4, <1>5
<1> QED
  BY <1>4, <1>6 DEF e

\* The same of the lines the upper and the lower lock show, wherever the
\* window is.
LEMMA UpperDrawn ==
  ASSUME NEW d \in DisplayType, Locks(d), NEW m \in Memory
  PROVE  LET e == Redraw(d, m, 0, d.slu) IN
         /\ Same(d, e)
         /\ \A s \in Screen :
              e.screen[s] = IF s < d.slu THEN m[s] ELSE d.screen[s]
<1> DEFINE e == Redraw(d, m, 0, d.slu)
<1>1. /\ d.slu \in Int /\ d.sll \in Int /\ 0 <= d.slu /\ 0 <= d.sll
      /\ 0 + d.slu <= Rows /\ 0 \in Int
  BY ConstantsAssumption DEF DisplayType, Locks
<1> HIDE DEF e
<1>2. /\ Same(d, e)
      /\ Displayed(d, 0) =>
           \A s \in Screen :
             e.screen[s] = IF Place(d, 0) <= s /\ s < Place(d, 0) + d.slu
                           THEN m[0 + s - Place(d, 0)] ELSE d.screen[s]
      /\ ~Displayed(d, 0) => e = d
  BY <1>1, RedrawSame DEF e
<1>3. ASSUME NEW s \in Screen
      PROVE  e.screen[s] = IF s < d.slu THEN m[s] ELSE d.screen[s]
  <2>1. s \in Int /\ 0 <= s
    BY ConstantsAssumption DEF Screen
  <2>2. CASE d.slu > 0
    <3>1. Displayed(d, 0) /\ Place(d, 0) = 0
      BY <1>1, <2>2 DEF Displayed, Place
    <3>2. e.screen[s] = IF 0 <= s /\ s < 0 + d.slu
                        THEN m[0 + s - 0] ELSE d.screen[s]
      BY <1>2, <3>1
    <3>3. 0 + s - 0 = s /\ 0 + d.slu = d.slu
      BY <1>1, <2>1
    <3> QED
      BY <2>1, <3>2, <3>3
  <2>3. CASE d.slu = 0
    <3>1. ~(s < d.slu)
      BY <2>1, <2>3
    <3>2. Displayed(d, 0) => e.screen[s] = d.screen[s]
      <4>1. ~(Place(d, 0) <= s /\ s < Place(d, 0) + d.slu)
        <5>1. Place(d, 0) \in Int
          BY ConstantsAssumption DEF Place, DisplayType
        <5> QED
          BY <2>1, <2>3, <5>1
      <4> QED
        BY <1>2, <4>1
    <3> QED
      BY <1>2, <3>1, <3>2
  <2> QED
    BY <1>1, <2>2, <2>3
<1> QED
  BY <1>2, <1>3 DEF e

\* Redrawing the lines locked at the lower end.
LEMMA LowerDrawn ==
  ASSUME NEW d \in DisplayType, Locks(d), NEW m \in Memory
  PROVE  LET e == Redraw(d, m, Rows - d.sll, d.sll) IN
         /\ Same(d, e)
         /\ \A s \in Screen :
              e.screen[s] = IF s > Scr - 1 - d.sll THEN m[s + (Rows - Scr)]
                                                   ELSE d.screen[s]
<1> DEFINE e == Redraw(d, m, Rows - d.sll, d.sll)
<1>1. /\ d.slu \in Int /\ d.sll \in Int /\ 0 <= d.slu /\ 0 <= d.sll
      /\ Rows \in Int /\ Scr \in Int /\ d.slu + d.sll <= Scr - 1 /\ Scr < Rows
  BY ConstantsAssumption DEF DisplayType, Locks
<1>2. /\ Rows - d.sll \in Int /\ 0 <= Rows - d.sll
      /\ (Rows - d.sll) + d.sll <= Rows
  BY <1>1
<1>3. Displayed(d, Rows - d.sll) /\ Place(d, Rows - d.sll) = Scr - d.sll
  <2>1. ~(Rows - d.sll < d.slu) /\ Rows - d.sll > Rows - 1 - d.sll
        /\ (Rows - d.sll) - (Rows - Scr) = Scr - d.sll
    BY <1>1
  <2> QED
    BY <2>1 DEF Displayed, Place
<1> HIDE DEF e
<1>4. /\ Same(d, e)
      /\ \A s \in Screen :
           e.screen[s] = IF Scr - d.sll <= s /\ s < (Scr - d.sll) + d.sll
                         THEN m[(Rows - d.sll) + s - (Scr - d.sll)]
                         ELSE d.screen[s]
  BY <1>1, <1>2, <1>3, RedrawSame DEF e
<1>5. ASSUME NEW s \in Screen
      PROVE  /\ (Scr - d.sll <= s /\ s < (Scr - d.sll) + d.sll)
                   <=> s > Scr - 1 - d.sll
             /\ (Rows - d.sll) + s - (Scr - d.sll) = s + (Rows - Scr)
  BY <1>1 DEF Screen
<1>6. ASSUME NEW s \in Screen
      PROVE  e.screen[s] = IF s > Scr - 1 - d.sll THEN m[s + (Rows - Scr)]
                                                  ELSE d.screen[s]
  BY <1>4, <1>5
<1> QED
  BY <1>4, <1>6 DEF e

\* A window that is redrawn where it is not locked shows its memory, if the
\* locked lines do.
LEMMA ClientShows ==
  ASSUME NEW d, Inside(d), NEW m \in Memory,
         \A s \in Screen : (s < d.slu \/ s > Scr - 1 - d.sll) =>
                             d.screen[s] \in {m[Source(d, s)], "skipped"}
  PROVE  Same(d, Redraw_Client_Area(d, m)) /\ Shows(Redraw_Client_Area(d, m), m)
<1> DEFINE e == Redraw_Client_Area(d, m)
<1> HIDE DEF e
<1>1. /\ Same(d, e)
      /\ \A s \in Screen :
           e.screen[s] = IF d.slu <= s /\ s <= Scr - 1 - d.sll
                         THEN m[Source(d, s)] ELSE d.screen[s]
  BY ClientDrawn DEF e
<1>2. ASSUME NEW s \in Screen
      PROVE  e.screen[s] \in {m[Source(e, s)], "skipped"}
  <2>1. Source(e, s) = Source(d, s)
    BY <1>1, SameInside
  <2>2. \/ s < d.slu \/ s > Scr - 1 - d.sll
        \/ d.slu <= s /\ s <= Scr - 1 - d.sll
    BY InsideBounds DEF Screen
  <2> QED
    BY <1>1, <2>1, <2>2
<1> QED
  BY <1>1, <1>2 DEF e, Shows

\* After WN_Redraw_All the screen shows the memory, whatever it showed.
LEMMA AllShows ==
  ASSUME NEW d, Inside(d), NEW m \in Memory
  PROVE  Same(d, Redraw_All(d, m)) /\ Shows(Redraw_All(d, m), m)
<1> DEFINE u == Redraw(d, m, 0, d.slu)
           c == Redraw_Client_Area(u, m)
           e == Redraw(c, m, Rows - d.sll, d.sll)
<1> HIDE DEF u, c, e
<1>1. d \in DisplayType /\ Locks(d)
  BY DEF Inside
<1>2. /\ Same(d, u)
      /\ \A s \in Screen : u.screen[s] = IF s < d.slu THEN m[s] ELSE d.screen[s]
  BY <1>1, UpperDrawn DEF u
<1>3. Inside(u) /\ u.slu = d.slu /\ u.sll = d.sll
  BY <1>2, SameInside DEF Same
<1>4. /\ Same(u, c)
      /\ \A s \in Screen :
           c.screen[s] = IF d.slu <= s /\ s <= Scr - 1 - d.sll
                         THEN m[Source(u, s)] ELSE u.screen[s]
  BY <1>3, ClientDrawn DEF c
<1>5. Inside(c) /\ c.slu = d.slu /\ c.sll = d.sll
  BY <1>3, <1>4, SameInside DEF Same
<1>6. c \in DisplayType /\ Locks(c)
  BY <1>5 DEF Inside
<1>7. /\ Same(c, e)
      /\ \A s \in Screen :
           e.screen[s] = IF s > Scr - 1 - d.sll THEN m[s + (Rows - Scr)]
                                                ELSE c.screen[s]
  BY <1>5, <1>6, LowerDrawn DEF e
<1>8. Same(d, e)
  BY <1>2, <1>4, <1>7 DEF Same
<1>9. ASSUME NEW s \in Screen PROVE e.screen[s] = m[Source(d, s)]
  <2>1. Source(u, s) = Source(d, s)
    BY <1>2, SameInside
  <2>2. CASE s < d.slu
    <3>1. ~(s > Scr - 1 - d.sll) /\ ~(d.slu <= s)
      BY <2>2, InsideBounds DEF Screen
    <3> QED
      BY <1>2, <1>4, <1>7, <2>2, <3>1 DEF Source
  <2>3. CASE s > Scr - 1 - d.sll
    <3>1. ~(s < d.slu)
      BY <2>3, InsideBounds DEF Screen
    <3> QED
      BY <1>7, <2>3, <3>1 DEF Source
  <2>4. CASE d.slu <= s /\ s <= Scr - 1 - d.sll
    <3>1. ~(s > Scr - 1 - d.sll)
      BY <2>4, InsideBounds DEF Screen
    <3> QED
      BY <1>4, <1>7, <2>1, <2>4, <3>1
  <2> QED
    BY <2>2, <2>3, <2>4, InsideBounds DEF Screen
<1>10. e = Redraw_All(d, m)
  BY DEF e, c, u, Redraw_All
<1>11. \A s \in Screen : Source(e, s) = Source(d, s)
  BY <1>8, SameInside
<1> QED
  BY <1>8, <1>9, <1>10, <1>11 DEF Shows

\* Calc_SVW gives a window inside the same locks that shows the line.
LEMMA CalcSVWShows ==
  ASSUME NEW d, Inside(d), NEW y \in Row
  PROVE  LET e == [d EXCEPT !.svw = Calc_SVW(d, y)] IN
         Inside(e) /\ Displayed(e, y)
<1> DEFINE v == Calc_SVW(d, y)
           e == [d EXCEPT !.svw = v]
<1>1. y \in Int /\ 0 <= y /\ y <= Rows - 1
  BY ConstantsAssumption DEF Row
<1>2. Span(d) = Scr - 1 - d.slu - d.sll /\ Span(d) \in Int
  BY InsideBounds DEF Span
<1>3. /\ v \in Int /\ d.slu <= v /\ v <= d.slu + Rows - Scr
      /\ y < d.slu \/ y > Rows - 1 - d.sll \/ (v <= y /\ y <= v + Span(d))
  <2>1. CASE y < d.svw /\ y >= d.slu
    <3>1. v = y
      BY <2>1 DEF Calc_SVW
    <3> QED
      BY <1>1, <1>2, <2>1, <3>1, InsideBounds
  <2>2. CASE ~(y < d.svw /\ y >= d.slu) /\ (y > d.svw + Span(d) /\ y <= Rows - 1 - d.sll)
    <3>1. v = y - Span(d)
      BY <2>2 DEF Calc_SVW
    <3> QED
      BY <1>1, <1>2, <2>2, <3>1, InsideBounds
  <2>3. CASE ~(y < d.svw /\ y >= d.slu) /\ ~(y > d.svw + Span(d) /\ y <= Rows - 1 - d.sll)
    <3>1. v = d.svw
      BY <2>3 DEF Calc_SVW
    <3> QED
      BY <1>1, <1>2, <2>3, <3>1, InsideBounds
  <2> QED
    BY <2>1, <2>2, <2>3
<1> HIDE DEF v
<1>4. /\ e \in DisplayType /\ e.svw = v /\ e.slu = d.slu /\ e.sll = d.sll
  BY <1>3 DEF Inside, DisplayType
<1> HIDE DEF e
<1>5. Inside(e)
  BY <1>3, <1>4 DEF Inside, Locks
<1>6. Displayed(e, y)
  BY <1>3, <1>4 DEF Displayed, Span
<1> QED
  BY <1>5, <1>6 DEF e, v

\* WN_Set_Cursor moves the window to the line and the cursor with it, and
\* leaves the screen showing the memory if it did.
LEMMA SetCursorGood ==
  ASSUME NEW d, Inside(d), NEW m \in Memory, NEW y \in Row
  PROVE  LET e == Set_Cursor(d, m, y) IN
         /\ Inside(e) /\ OnLine(e)
         /\ e.slu = d.slu /\ e.sll = d.sll /\ e.row = y
         /\ Shows(d, m) => Shows(e, m)
<1> DEFINE v == Calc_SVW(d, y)
           w == [d EXCEPT !.svw = v]
           f == IF v # d.svw THEN Redraw_Client_Area(w, m) ELSE w
           e == [f EXCEPT !.row = y, !.curs = Place(f, y), !.strayed = FALSE]
<1>1. Inside(w) /\ Displayed(w, y)
  BY CalcSVWShows
<1>2. /\ w.svw = v /\ w.slu = d.slu /\ w.sll = d.sll /\ w.screen = d.screen
  BY DEF Inside, DisplayType
<1>3. Set_Cursor(d, m, y) = e
  BY DEF Set_Cursor
<1> HIDE DEF v, w
<1>4. Same(w, f)
  <2>1. Same(w, Redraw_Client_Area(w, m))
    BY <1>1, ClientDrawn
  <2>2. Same(w, w)
    BY <1>1 DEF Same, Inside
  <2> QED
    BY <2>1, <2>2
<1>5. Shows(d, m) => Shows(f, m)
  <2> SUFFICES ASSUME Shows(d, m) PROVE Shows(f, m)
    OBVIOUS
  <2>1. CASE v # d.svw
    <3>1. ASSUME NEW s \in Screen, s < w.slu \/ s > Scr - 1 - w.sll
          PROVE  w.screen[s] \in {m[Source(w, s)], "skipped"}
      <4>1. Source(w, s) = Source(d, s)
        BY <1>2, <3>1 DEF Source
      <4> QED
        BY <1>2, <4>1 DEF Shows
    <3> QED
      BY <1>1, <2>1, <3>1, ClientShows
  <2>2. CASE v = d.svw
    <3>1. f = w /\ \A s \in Screen : Source(w, s) = Source(d, s)
      BY <1>2, <2>2 DEF Source
    <3> QED
      BY <1>2, <3>1 DEF Shows
  <2> QED
    BY <2>1, <2>2
<1> HIDE DEF f
<1>6. Inside(f) /\ f.slu = d.slu /\ f.sll = d.sll
  BY <1>1, <1>2, <1>4, SameInside DEF Same
<1>7. Displayed(f, y)
  BY <1>1, <1>4 DEF Same, Displayed, Span
<1>8. Place(f, y) \in Screen /\ Source(f, Place(f, y)) = y
  BY <1>6, <1>7, PlaceIsSource
<1>9. Place(f, y) \in Int /\ y \in Int
  BY <1>8, ConstantsAssumption DEF Screen, Row
<1>10. /\ e \in DisplayType
       /\ e.svw = f.svw /\ e.slu = f.slu /\ e.sll = f.sll
       /\ e.row = y /\ e.curs = Place(f, y) /\ e.strayed = FALSE
       /\ e.screen = f.screen
  BY <1>6, <1>9 DEF Inside, DisplayType
<1> HIDE DEF e
<1>11. Inside(e)
  BY <1>6, <1>10 DEF Inside, Locks
<1>12. \A s : Source(e, s) = Source(f, s)
  BY <1>10 DEF Source
<1>13. OnLine(e)
  BY <1>8, <1>10, <1>12 DEF OnLine
<1>14. Shows(d, m) => Shows(e, m)
  BY <1>5, <1>10, <1>12 DEF Shows
<1> QED
  BY <1>3, <1>6, <1>10, <1>11, <1>13, <1>14

\* A window moved and redrawn, with the cursor still to be set.
LEMMA MovedInside ==
  ASSUME NEW d \in DisplayType, Locks(d), NEW m \in Memory, NEW v \in Int,
         d.slu <= v, v <= d.slu + Rows - Scr
  PROVE  LET e == Redraw_Client_Area([d EXCEPT !.svw = v], m) IN
         /\ Inside(e)
         /\ e.svw = v /\ e.slu = d.slu /\ e.sll = d.sll
         /\ e.row = d.row /\ e.curs = d.curs /\ e.strayed = d.strayed
<1> DEFINE w == [d EXCEPT !.svw = v]
<1>1. /\ w \in DisplayType
      /\ w.svw = v /\ w.slu = d.slu /\ w.sll = d.sll
      /\ w.row = d.row /\ w.curs = d.curs /\ w.strayed = d.strayed
  BY DEF DisplayType
<1> HIDE DEF w
<1>2. Inside(w)
  BY <1>1 DEF Inside, Locks
<1>3. Same(w, Redraw_Client_Area(w, m)) /\ Inside(Redraw_Client_Area(w, m))
  BY <1>2, ClientDrawn, SameInside
<1> QED
  BY <1>1, <1>3 DEF w, Same

\* It shows the memory if the locked lines did.
LEMMA MovedShows ==
  ASSUME NEW d \in DisplayType, Locks(d), NEW m \in Memory, NEW v \in Int,
         d.slu <= v, v <= d.slu + Rows - Scr,
         \A s \in Screen :
           /\ s < d.slu => d.screen[s] \in {m[s], "skipped"}
           /\ s > Scr - 1 - d.sll => d.screen[s] \in {m[s + (Rows - Scr)], "skipped"}
  PROVE  Shows(Redraw_Client_Area([d EXCEPT !.svw = v], m), m)
<1> DEFINE w == [d EXCEPT !.svw = v]
<1>1. /\ w \in DisplayType
      /\ w.svw = v /\ w.slu = d.slu /\ w.sll = d.sll /\ w.screen = d.screen
  BY DEF DisplayType
<1> HIDE DEF w
<1>2. Inside(w)
  BY <1>1 DEF Inside, Locks
<1>3. ASSUME NEW s \in Screen, s < w.slu \/ s > Scr - 1 - w.sll
      PROVE  w.screen[s] \in {m[Source(w, s)], "skipped"}
  <2>1. CASE s < w.slu
    BY <1>1, <2>1 DEF Source
  <2>2. CASE s > Scr - 1 - w.sll
    <3>1. ~(s < w.slu)
      BY <1>2, <2>2, InsideBounds DEF Screen
    <3> QED
      BY <1>1, <2>2, <3>1 DEF Source
  <2> QED
    BY <1>3, <2>1, <2>2
<1> QED
  BY <1>2, <1>3, ClientShows DEF w

\* Moving the window keeps what is good of a display but its cursor, which is
\* good still on a locked line.
LEMMA MovedGood ==
  ASSUME NEW d, NEW m \in Memory, Inside(d), OnLine(d), NEW v \in Int,
         d.slu <= v, v <= d.slu + Rows - Scr
  PROVE  LET e == Redraw_Client_Area([d EXCEPT !.svw = v], m) IN
         /\ Inside(e)
         /\ e.svw = v /\ e.slu = d.slu /\ e.sll = d.sll
         /\ e.row = d.row /\ e.curs = d.curs /\ e.strayed = d.strayed
         /\ Shows(d, m) => Shows(e, m)
         /\ (d.row < d.slu \/ d.row > Rows - 1 - d.sll) => OnLine(e)
<1> DEFINE e == Redraw_Client_Area([d EXCEPT !.svw = v], m)
<1>1. d \in DisplayType /\ Locks(d)
  BY DEF Inside
<1>2. ASSUME NEW s \in Screen, Shows(d, m)
      PROVE  /\ s < d.slu => d.screen[s] \in {m[s], "skipped"}
             /\ s > Scr - 1 - d.sll
                  => d.screen[s] \in {m[s + (Rows - Scr)], "skipped"}
  <2>1. d.screen[s] \in {m[Source(d, s)], "skipped"}
    BY <1>2 DEF Shows
  <2>2. s < d.slu => Source(d, s) = s
    BY DEF Source
  <2>3. s > Scr - 1 - d.sll => Source(d, s) = s + (Rows - Scr)
    <3>1. s > Scr - 1 - d.sll => ~(s < d.slu)
      BY InsideBounds DEF Screen
    <3> QED
      BY <3>1 DEF Source
  <2> QED
    BY <2>1, <2>2, <2>3
<1> HIDE DEF e
<1>3. /\ Inside(e)
      /\ e.svw = v /\ e.slu = d.slu /\ e.sll = d.sll
      /\ e.row = d.row /\ e.curs = d.curs /\ e.strayed = d.strayed
  BY <1>1, MovedInside DEF e
<1>4. Shows(d, m) => Shows(e, m)
  BY <1>1, <1>2, MovedShows DEF e
<1>5. ASSUME d.row < d.slu \/ d.row > Rows - 1 - d.sll PROVE OnLine(e)
  <2>1. d.row \in Row
    BY DEF OnLine
  <2> SUFFICES ASSUME ~d.strayed
               PROVE  d.curs \in Screen /\ Source(e, d.curs) = d.row
    BY <1>3, <2>1 DEF OnLine
  <2>2. d.curs \in Screen /\ Source(d, d.curs) = d.row
    BY DEF OnLine
  <2>3. Place(d, d.row) = d.curs
    BY <2>2, SourceIsPlaced
  <2>4. CASE d.row < d.slu
    <3>1. d.curs = d.row
      BY <2>3, <2>4 DEF Place
    <3> QED
      BY <1>3, <2>2, <2>4, <3>1 DEF Source
  <2>5. CASE d.row > Rows - 1 - d.sll
    <3>1. ~(d.row < d.slu) /\ d.row \in Int
      BY <2>1, <2>5, InsideBounds DEF Row
    <3>2. d.curs = d.row - (Rows - Scr)
      BY <2>3, <2>5, <3>1 DEF Place
    <3>3. ~(d.curs < d.slu) /\ d.curs > Scr - 1 - d.sll
          /\ d.curs + (Rows - Scr) = d.row
      BY <2>5, <3>1, <3>2, InsideBounds
    <3> QED
      BY <1>3, <2>2, <3>3 DEF Source
  <2> QED
    BY <1>5, <2>4, <2>5
<1> QED
  BY <1>3, <1>4, <1>5 DEF e

\* WN_Ctrl_SVW refuses, or moves the window and sets the cursor; with a
\* column that is refused the cursor is known to have strayed.
LEMMA CtrlSVWGood ==
  ASSUME NEW d, NEW m \in Memory, Inside(d), OnLine(d),
         NEW y1 \in Int, NEW y2 \in Int, 0 <= y2, NEW columnOk \in BOOLEAN
  PROVE  LET e == Ctrl_SVW(d, m, y1, y2, columnOk) IN
         /\ Inside(e) /\ OnLine(e) /\ e.slu = d.slu /\ e.sll = d.sll
         /\ Shows(d, m) => Shows(e, m)
<1> DEFINE e == Redraw_Client_Area([d EXCEPT !.svw = y1], m)
           refused == \/ y1 < d.slu \/ y1 > d.slu + Rows - Scr
                      \/ /\ y2 >= d.slu
                         /\ y2 < y1 \/ y2 > y1 + Span(d)
                         /\ y2 <= Rows - 1 - d.sll \/ y2 >= Rows
<1>1. CASE refused
  BY <1>1 DEF Ctrl_SVW
<1>2. CASE ~refused
  <2>1. d.slu <= y1 /\ y1 <= d.slu + Rows - Scr
    BY <1>2, InsideBounds
  <2>2. y2 \in Row
    <3>1. Span(d) = Scr - 1 - d.slu - d.sll
      BY DEF Span
    <3>2. y2 <= Rows - 1
      BY <1>2, <2>1, <3>1, InsideBounds
    <3> QED
      BY <3>2, ConstantsAssumption DEF Row
  <2> HIDE DEF e
  <2>3. /\ Inside(e) /\ e.slu = d.slu /\ e.sll = d.sll /\ e.row = d.row
        /\ e.curs = d.curs
        /\ Shows(d, m) => Shows(e, m)
    BY <2>1, MovedGood DEF e
  <2>4. CASE columnOk
    <3>1. Ctrl_SVW(d, m, y1, y2, columnOk) = Set_Cursor(e, m, y2)
      BY <1>2, <2>4 DEF Ctrl_SVW, e
    <3> QED
      BY <2>2, <2>3, <3>1, SetCursorGood
  <2>5. CASE ~columnOk
    <3> DEFINE f == [e EXCEPT !.strayed = TRUE]
    <3>1. Ctrl_SVW(d, m, y1, y2, columnOk) = f
      BY <1>2, <2>5 DEF Ctrl_SVW, e
    <3>2. /\ f \in DisplayType
          /\ f.svw = e.svw /\ f.slu = e.slu /\ f.sll = e.sll
          /\ f.row = e.row /\ f.curs = e.curs /\ f.strayed = TRUE
          /\ f.screen = e.screen
      BY <2>3 DEF Inside, DisplayType
    <3> HIDE DEF f
    <3>3. Inside(f) /\ \A s : Source(f, s) = Source(e, s)
      BY <2>3, <3>2 DEF Inside, Locks, Source
    <3>4. OnLine(f)
      BY <2>3, <3>2 DEF OnLine
    <3>5. Shows(d, m) => Shows(f, m)
      BY <2>3, <3>2, <3>3 DEF Shows
    <3> QED
      BY <2>3, <3>1, <3>2, <3>3, <3>4, <3>5
  <2> QED
    BY <2>4, <2>5
<1> QED
  BY <1>1, <1>2

\* A line that changed, redrawn: the screen shows the memory again.
LEMMA LineShows ==
  ASSUME NEW d, Inside(d), NEW m \in Memory, NEW r \in Row,
         \A s \in Screen : Source(d, s) # r =>
                             d.screen[s] \in {m[Source(d, s)], "skipped"}
  PROVE  Same(d, Redraw(d, m, r, 1)) /\ Shows(Redraw(d, m, r, 1), m)
<1> DEFINE e == Redraw(d, m, r, 1)
<1> HIDE DEF e
<1>1. d \in DisplayType /\ r \in Int /\ 1 \in Int /\ 0 <= r /\ r + 1 <= Rows
  BY ConstantsAssumption DEF Inside, Row
<1>2. /\ Same(d, e)
      /\ Displayed(d, r) =>
           \A s \in Screen :
             e.screen[s] = IF Place(d, r) <= s /\ s < Place(d, r) + 1
                           THEN m[r + s - Place(d, r)] ELSE d.screen[s]
      /\ ~Displayed(d, r) => e = d
  BY <1>1, RedrawSame DEF e
<1>3. \A s \in Screen : Source(e, s) = Source(d, s)
  BY <1>2, SameInside
<1>4. ASSUME NEW s \in Screen PROVE e.screen[s] \in {m[Source(d, s)], "skipped"}
  <2>1. CASE Source(d, s) = r
    <3>1. Displayed(d, r) /\ Place(d, r) = s
      BY <2>1, SourceIsPlaced
    <3>2. s <= s /\ s < s + 1 /\ r + s - s = r
      BY <1>1, ConstantsAssumption DEF Screen
    <3> QED
      BY <1>2, <2>1, <3>1, <3>2
  <2>2. CASE Source(d, s) # r
    <3>1. CASE Displayed(d, r)
      <4>1. Place(d, r) \in Screen /\ Place(d, r) # s
        BY <2>2, <3>1, PlaceIsSource
      <4>2. ~(Place(d, r) <= s /\ s < Place(d, r) + 1)
        BY <4>1, ConstantsAssumption DEF Screen
      <4> QED
        BY <1>2, <2>2, <3>1, <4>2
    <3>2. CASE ~Displayed(d, r)
      BY <1>2, <2>2, <3>2
    <3> QED
      BY <3>1, <3>2
  <2> QED
    BY <2>1, <2>2
<1> QED
  BY <1>2, <1>3, <1>4 DEF e, Shows

\* The same of a cell, unless its line was skipped, which it still is.
LEMMA ChShows ==
  ASSUME NEW d, Inside(d), NEW m \in Memory, NEW r \in Row,
         \A s \in Screen : Source(d, s) # r =>
                             d.screen[s] \in {m[Source(d, s)], "skipped"}
  PROVE  Same(d, Redraw_Ch(d, m, r)) /\ Shows(Redraw_Ch(d, m, r), m)
<1>1. CASE Displayed(d, r) /\ d.screen[Place(d, r)] # "skipped"
  BY <1>1, LineShows DEF Redraw_Ch
<1>2. CASE ~(Displayed(d, r) /\ d.screen[Place(d, r)] # "skipped")
  <2>1. Redraw_Ch(d, m, r) = d
    BY <1>2 DEF Redraw_Ch
  <2>2. ASSUME NEW s \in Screen, Source(d, s) = r
        PROVE  d.screen[s] = "skipped"
    BY <1>2, <2>2, SourceIsPlaced
  <2> QED
    BY <2>1, <2>2 DEF Same, Inside, Shows
<1> QED
  BY <1>1, <1>2

\* Lines left out are marked.
LEMMA SkipDrawn ==
  ASSUME NEW d, Inside(d), NEW first, NEW last
  PROVE  LET e == Skip(d, first, last) IN
         /\ Same(d, e)
         /\ \A s \in Screen :
              e.screen[s] = IF first <= Source(d, s) /\ Source(d, s) <= last
                            THEN "skipped" ELSE d.screen[s]
<1> DEFINE f == [s \in Screen |->
                   IF first <= Source(d, s) /\ Source(d, s) <= last
                   THEN "skipped" ELSE d.screen[s]]
           e == [d EXCEPT !.screen = f]
<1>1. f \in [Screen -> Shown]
  BY DEF Inside, DisplayType, Shown
<1>2. e = Skip(d, first, last)
  BY DEF Skip
<1>3. \A s \in Screen : f[s] = IF first <= Source(d, s) /\ Source(d, s) <= last
                               THEN "skipped" ELSE d.screen[s]
  OBVIOUS
<1> HIDE DEF f
<1>4. e \in DisplayType /\ Same(d, e) /\ e.screen = f
  BY <1>1 DEF Inside, DisplayType, Same
<1> QED
  BY <1>2, <1>3, <1>4

\* What is not marked shows the memory as before.
LEMMA SkipShows ==
  ASSUME NEW d, Inside(d), NEW first, NEW last, NEW m, NEW n,
         Shows(d, n),
         \A r \in Row : ~(first <= r /\ r <= last) => m[r] = n[r]
  PROVE  Same(d, Skip(d, first, last)) /\ Shows(Skip(d, first, last), m)
<1> DEFINE e == Skip(d, first, last)
<1> HIDE DEF e
<1>1. /\ Same(d, e)
      /\ \A s \in Screen :
           e.screen[s] = IF first <= Source(d, s) /\ Source(d, s) <= last
                         THEN "skipped" ELSE d.screen[s]
  BY SkipDrawn DEF e
<1>2. ASSUME NEW s \in Screen PROVE e.screen[s] \in {m[Source(d, s)], "skipped"}
  <2>1. Source(d, s) \in Row /\ d.screen[s] \in {n[Source(d, s)], "skipped"}
    BY SourceIsPlaced DEF Shows
  <2> QED
    BY <1>1, <2>1
<1>3. \A s \in Screen : Source(e, s) = Source(d, s)
  BY <1>1, SameInside
<1> QED
  BY <1>1, <1>2, <1>3 DEF e, Shows

\* Lines redrawn one by one; those that changed must be among them.
LEMMA EachShows ==
  ASSUME NEW d, Inside(d), NEW first, NEW last, NEW m \in Memory,
         \A s \in Screen : ~(first <= Source(d, s) /\ Source(d, s) <= last) =>
                             d.screen[s] \in {m[Source(d, s)], "skipped"}
  PROVE  LET e == RedrawEach(d, m, first, last) IN Same(d, e) /\ Shows(e, m)
<1> DEFINE f == [s \in Screen |->
                   IF first <= Source(d, s) /\ Source(d, s) <= last
                   THEN m[Source(d, s)] ELSE d.screen[s]]
           e == [d EXCEPT !.screen = f]
<1>1. ASSUME NEW s \in Screen PROVE f[s] \in Shown
  <2>1. Source(d, s) \in Row
    BY SourceIsPlaced
  <2>2. m[Source(d, s)] \in Shown /\ d.screen[s] \in Shown
    BY <2>1 DEF Memory, Shown, Inside, DisplayType
  <2> QED
    BY <2>2
<1>2. f \in [Screen -> Shown]
  BY <1>1
<1>3. e = RedrawEach(d, m, first, last)
  BY DEF RedrawEach
<1>4. ASSUME NEW s \in Screen PROVE f[s] \in {m[Source(d, s)], "skipped"}
  OBVIOUS
<1> HIDE DEF f
<1>5. e \in DisplayType /\ Same(d, e) /\ e.screen = f
  BY <1>2 DEF Inside, DisplayType, Same
<1> HIDE DEF e
<1>6. \A s \in Screen : Source(e, s) = Source(d, s)
  BY <1>5, SameInside
<1> QED
  BY <1>3, <1>4, <1>5, <1>6 DEF Shows

-----------------------------------------------------------------------------
(* Steps.                                                                  *)

\* The inductive invariant.  It ends where the model does, with the cursor
\* outside of the memory.
IInv ==
  /\ TypeOK
  /\ Cur_Row \in Row => Good(Display, mem) /\ SLU <= MLU /\ SLL <= MLL

\* A display with the locks the terminal has.
Locked(d) == d.slu = SLU /\ d.sll = SLL

\* The record of the display is made of the variables.
LEMMA DisplayFields ==
  /\ Display.svw = SVW_Row /\ Display.slu = SLU /\ Display.sll = SLL
  /\ Display.row = Cur_Row /\ Display.screen = screen /\ Display.curs = curs
  /\ Display.strayed = strayed
BY DEF Display

\* While the program runs, the display is as the invariant says.
LEMMA RunningGood ==
  ASSUME IInv, Running
  PROVE  /\ Good(Display, mem) /\ Inside(Display) /\ OnLine(Display)
         /\ Shows(Display, mem) /\ Locked(Display)
         /\ mem \in Memory /\ Cur_Row \in Row
  BY DisplayFields DEF IInv, Running, TypeOK, Memory, Good, Locked

\* The same in arithmetic, with the memory locks.
LEMMA RunningBounds ==
  ASSUME IInv, Running
  PROVE  /\ Rows \in Int /\ Scr \in Int /\ 1 <= Scr /\ Scr < Rows
         /\ Cur_Row \in Int /\ 0 <= Cur_Row /\ Cur_Row <= Rows - 1
         /\ SLU \in Int /\ SLL \in Int /\ SVW_Row \in Int
         /\ 0 <= SLU /\ 0 <= SLL /\ SLU + SLL <= Scr - 1
         /\ SLU <= SVW_Row /\ SVW_Row <= SLU + Rows - Scr
         /\ MLU \in Int /\ MLL \in Int /\ MLU <= Rows - 1 /\ MLL <= Rows - 1
         /\ SLU <= MLU /\ SLL <= MLL
         /\ MLU \in Row /\ MLL \in Row
<1>1. Inside(Display) /\ Cur_Row \in Row
  BY RunningGood
<1>2. SLU <= MLU /\ SLL <= MLL /\ MLU \in Row /\ MLL \in Row
  BY DEF IInv, Running, TypeOK
<1>3. /\ SLU \in Int /\ SLL \in Int /\ SVW_Row \in Int
      /\ Rows \in Int /\ Scr \in Int /\ 1 <= Scr /\ Scr < Rows
      /\ 0 <= SLU /\ 0 <= SLL /\ SLU + SLL <= Scr - 1
      /\ SLU <= SVW_Row /\ SVW_Row <= SLU + Rows - Scr
  BY <1>1, InsideBounds, DisplayFields
<1> QED
  BY <1>1, <1>2, <1>3 DEF Row

\* What becomes of the display is the display afterwards.
LEMMA BecomeIs ==
  ASSUME NEW e \in DisplayType, NEW m, Become(e, m)
  PROVE  Display' = e /\ mem' = m
<1>1. e = [svw |-> e.svw, slu |-> e.slu, sll |-> e.sll, row |-> e.row,
           screen |-> e.screen, curs |-> e.curs, strayed |-> e.strayed]
  BY DEF DisplayType
<1> QED
  BY <1>1 DEF Become, Display

\* A well-typed display gives a well-typed state.
LEMMA BecomeTyped ==
  ASSUME NEW e \in DisplayType, Locks(e), e.svw \in Row, NEW m \in Memory,
         Become(e, m), MLU' \in Row, MLL' \in Row,
         format' \in BOOLEAN, crashed' \in BOOLEAN
  PROVE  TypeOK'
<1>1. /\ e.screen \in [Screen -> Line \cup {"skipped"}] /\ e.row \in Int
      /\ e.curs \in Int /\ e.strayed \in BOOLEAN
  BY DEF DisplayType, Shown
<1>2. e.slu \in Screen /\ e.sll \in Screen
  BY ConstantsAssumption DEF DisplayType, Locks, Screen
<1> QED
  BY <1>1, <1>2 DEF Become, TypeOK, Memory

\* What a step keeps: the invariant, and the cursor inside of the memory.
Stays == IInv' /\ Cur_Row' \in Row

\* A step to a good display keeps the invariant.
LEMMA BecomeStep ==
  ASSUME NEW e, NEW m \in Memory, Good(e, m), Become(e, m),
         MLU' \in Row, MLL' \in Row, format' \in BOOLEAN, crashed' \in BOOLEAN,
         e.slu <= MLU', e.sll <= MLL'
  PROVE  Stays
<1>1. Inside(e) /\ e \in DisplayType /\ Locks(e)
  BY DEF Good, Inside
<1>2. e.svw \in Row
  BY <1>1, InsideBounds DEF Row
<1>3. TypeOK'
  BY <1>1, <1>2, BecomeTyped
<1>4. Display' = e /\ mem' = m
  BY <1>1, BecomeIs
<1>5. SLU' = e.slu /\ SLL' = e.sll /\ Cur_Row' = e.row
  BY DEF Become
<1>6. e.row \in Row
  BY DEF Good, OnLine
<1> QED
  BY <1>3, <1>4, <1>5, <1>6 DEF IInv, Row, Stays

\* The same, when the memory locks stay.
LEMMA ShowStep ==
  ASSUME IInv, NEW e, NEW m \in Memory, Good(e, m), Locked(e), Show(e, m)
  PROVE  Stays
<1>1. Become(e, m) /\ UNCHANGED <<MLU, MLL, format, crashed>> /\ Running
  BY DEF Show, Become
<1>2. TypeOK /\ SLU <= MLU /\ SLL <= MLL
  BY <1>1 DEF IInv, Running
<1> QED
  BY <1>1, <1>2, BecomeStep DEF TypeOK, Locked

\* The usual ends of a command.
LEMMA SetStep ==
  ASSUME IInv, NEW d, Inside(d), Locked(d), NEW m \in Memory, Shows(d, m),
         NEW y \in Row, Show(Set_Cursor(d, m, y), m)
  PROVE  Stays
<1> DEFINE e == Set_Cursor(d, m, y)
<1> HIDE DEF e
<1>1. Inside(e) /\ OnLine(e) /\ e.slu = d.slu /\ e.sll = d.sll /\ Shows(e, m)
  BY SetCursorGood DEF e
<1>2. Good(e, m) /\ Locked(e)
  BY <1>1 DEF Good, Locked
<1> QED
  BY <1>2, ShowStep DEF e

\* A step that only redraws.
LEMMA SameStep ==
  ASSUME IInv, Running, NEW e, Same(Display, e), NEW m \in Memory, Shows(e, m),
         Show(e, m)
  PROVE  Stays
<1>1. Good(e, m)
  BY RunningGood, SameInside DEF Good
<1>2. Locked(e)
  BY DisplayFields DEF Same, Locked
<1> QED
  BY <1>1, <1>2, ShowStep

\* A step that redraws and sets the cursor.
LEMMA SameSetStep ==
  ASSUME IInv, Running, NEW e, Same(Display, e), NEW m \in Memory, Shows(e, m),
         NEW y \in Row, Show(Set_Cursor(e, m, y), m)
  PROVE  Stays
<1>1. Inside(e)
  BY RunningGood, SameInside
<1>2. Locked(e)
  BY DisplayFields DEF Same, Locked
<1> QED
  BY <1>1, <1>2, SetStep

\* The lines the screen does not lock have moved.
LEMMA ScrollStep ==
  ASSUME IInv, Running, NEW d, Inside(d), Locked(d), Shows(d, mem),
         NEW m \in Memory,
         \A r \in Row : r < SLU \/ r > Rows - 1 - SLL => m[r] = mem[r],
         NEW y \in Row, Show(Set_Cursor(Redraw_Client_Area(d, m), m, y), m)
  PROVE  Stays
<1> DEFINE e == Redraw_Client_Area(d, m)
<1> HIDE DEF e
<1>1. ASSUME NEW s \in Screen, s < d.slu \/ s > Scr - 1 - d.sll
      PROVE  d.screen[s] \in {m[Source(d, s)], "skipped"}
  <2>1. Source(d, s) \in Row /\ d.screen[s] \in {mem[Source(d, s)], "skipped"}
    BY SourceIsPlaced DEF Shows
  <2>2. Source(d, s) < SLU \/ Source(d, s) > Rows - 1 - SLL
    <3>1. CASE s < d.slu
      BY <3>1 DEF Source, Locked
    <3>2. CASE s > Scr - 1 - d.sll
      <4>1. ~(s < d.slu) /\ s + (Rows - Scr) > Rows - 1 - d.sll
        BY <3>2, InsideBounds DEF Screen
      <4> QED
        BY <3>2, <4>1 DEF Source, Locked
    <3> QED
      BY <1>1, <3>1, <3>2
  <2> QED
    BY <2>1, <2>2
<1>2. Same(d, e) /\ Shows(e, m)
  BY <1>1, ClientShows DEF e
<1>3. Inside(e) /\ Locked(e)
  BY <1>2, SameInside DEF Same, Locked
<1> QED
  BY <1>2, <1>3, SetStep DEF e

-----------------------------------------------------------------------------
(* The cursor.                                                             *)

\* The cursor set on a line, from the display as it is.
LEMMA CursorStep ==
  ASSUME IInv, NEW y \in Row, Show(Set_Cursor(Display, mem, y), mem)
  PROVE  Stays
<1>1. Running
  BY DEF Show, Become
<1> QED
  BY <1>1, RunningGood, SetStep

\* The line is written as blank, the lines of the locks stay.
LEMMA ScrolledRows ==
  ASSUME NEW first \in Row, NEW last \in Row, mem \in Memory, first <= last
  PROVE  /\ Scrolled(first, last) \in Memory
         /\ \A r \in Row : r < first \/ r > last
                              => Scrolled(first, last)[r] = mem[r]
<1>1. ASSUME NEW r \in Row PROVE Scrolled(first, last)[r] \in Line
  <2>1. r \in Int /\ 0 <= r
    BY ConstantsAssumption DEF Row
  <2>2. first <= r /\ r < last => r + 1 \in Row
    BY <2>1, ConstantsAssumption DEF Row
  <2> QED
    BY <2>2, ConstantsAssumption DEF Scrolled, Memory
<1>2. Scrolled(first, last) \in Memory
  BY <1>1 DEF Scrolled, Memory
<1>3. ASSUME NEW r \in Row, r < first \/ r > last
      PROVE  Scrolled(first, last)[r] = mem[r]
  BY <1>3, ConstantsAssumption DEF Scrolled, Row
<1> QED
  BY <1>2, <1>3

\* PDC_Linefeed, from any display it is called with.
LEMMA LinefeedStep ==
  ASSUME IInv, Running, NEW d, Inside(d), OnLine(d), Locked(d), Shows(d, mem),
         Linefeed(d)
  PROVE  Stays
<1> DEFINE a == Rows - 1 - MLL
           m == Scrolled(MLU, a)
           e == IF MLU + MLL = Rows THEN Skip(d, a, a) ELSE d
<1>1. a \in Row /\ a \in Int
  BY RunningBounds DEF Row
<1>2. d.row \in Row /\ d.row \in Int /\ mem \in Memory
  BY RunningGood, ConstantsAssumption DEF OnLine, Row
<1>3. CASE format
  <2>1. CASE d.row < Rows - 1
    <3>1. Show(Set_Cursor(d, mem, d.row), mem)
      BY <1>3, <2>1 DEF Linefeed
    <3> QED
      BY <1>2, <3>1, SetStep
  <2>2. CASE ~(d.row < Rows - 1)
    <3>1. Show(d, mem)
      BY <1>3, <2>2 DEF Linefeed
    <3> QED
      BY <1>2, <3>1, ShowStep DEF Good
  <2> QED
    BY <2>1, <2>2
<1>4. CASE ~format /\ d.row # a
  <2> DEFINE y == IF d.row # Rows - 1 THEN d.row + 1 ELSE d.row
  <2>1. y \in Row
    BY <1>2, ConstantsAssumption DEF Row
  <2>2. Show(Set_Cursor(d, mem, y), mem)
    BY <1>4 DEF Linefeed
  <2> QED
    BY <1>2, <2>1, <2>2, SetStep
<1>5. CASE ~format /\ d.row = a /\ MLU + MLL > Rows
  <2>1. /\ crashed' = TRUE
        /\ UNCHANGED <<mem, MLU, MLL, SLU, SLL, SVW_Row, Cur_Row, screen,
                       curs, strayed, format>>
    BY <1>5 DEF Linefeed
  <2>2. TypeOK' /\ Display' = Display /\ Cur_Row' \in Row
    BY <2>1, RunningGood DEF IInv, TypeOK, Display
  <2> QED
    BY <2>1, <2>2 DEF IInv, Stays
<1>6. CASE ~format /\ d.row = a /\ ~(MLU + MLL > Rows)
  <2>0. Show(Set_Cursor(Redraw_Client_Area(e, m), m, a), m)
    BY <1>6 DEF Linefeed
  <2>1. CASE MLU + MLL = Rows
    <3>1. ~(a > a) /\ ~(MLU <= a) /\ a <= a
      BY <1>1, <2>1, RunningBounds
    <3>2. ASSUME NEW r \in Row
          PROVE  m[r] = IF r = a THEN "blank" ELSE mem[r]
      <4>1. ~(MLU <= r /\ r < a)
        BY <1>1, <3>1, RunningBounds DEF Row
      <4> QED
        BY <4>1 DEF Scrolled
    <3>3. m \in Memory
      <4>1. m = [r \in Row |-> IF r = a THEN "blank" ELSE mem[r]]
        BY <3>2 DEF Scrolled
      <4> HIDE DEF m
      <4> QED
        BY <1>2, <4>1, ConstantsAssumption DEF Memory
    <3>4. \A r \in Row : ~(a <= r /\ r <= a) => m[r] = mem[r]
      BY <3>1, <3>2
    <3> HIDE DEF m, a
    <3>5. Same(d, Skip(d, a, a)) /\ Shows(Skip(d, a, a), m)
      BY <3>4, SkipShows
    <3>6. e = Skip(d, a, a)
      BY <2>1
    <3> HIDE DEF e
    <3>7. Inside(e) /\ Locked(e)
      BY <3>5, <3>6, SameInside DEF Same, Locked
    <3>8. Same(e, Redraw_Client_Area(e, m)) /\ Shows(Redraw_Client_Area(e, m), m)
      BY <3>3, <3>5, <3>6, <3>7, ClientShows DEF Shows
    <3>9. Inside(Redraw_Client_Area(e, m)) /\ Locked(Redraw_Client_Area(e, m))
      BY <3>7, <3>8, SameInside DEF Same, Locked
    <3> QED
      BY <1>1, <2>0, <3>3, <3>8, <3>9, SetStep
  <2>2. CASE MLU + MLL # Rows
    <3>1. MLU \in Row /\ MLU <= a
      BY <1>6, <2>2, RunningBounds
    <3>2. /\ m \in Memory
          /\ \A r \in Row : r < MLU \/ r > a => m[r] = mem[r]
      BY <1>1, <1>2, <3>1, ScrolledRows
    <3>3. \A r \in Row : r < SLU \/ r > Rows - 1 - SLL => r < MLU \/ r > a
      BY RunningBounds DEF Row
    <3>4. e = d
      BY <2>2
    <3> HIDE DEF m
    <3>5. \A r \in Row : r < SLU \/ r > Rows - 1 - SLL => m[r] = mem[r]
      BY <3>2, <3>3
    <3> HIDE DEF a, e
    <3> QED
      BY <1>1, <2>0, <3>2, <3>4, <3>5, ScrollStep
  <2> QED
    BY <2>1, <2>2
<1> QED
  BY <1>3, <1>4, <1>5, <1>6

\* PDC_New_Line.
LEMMA NewLineStep ==
  ASSUME IInv, Running, PDC_New_Line
  PROVE  Stays
<1> DEFINE d == Set_Cursor(Display, mem, Cur_Row)
<1>1. Linefeed(d)
  BY DEF PDC_New_Line
<1> HIDE DEF d
<1>2. /\ Inside(d) /\ OnLine(d) /\ Shows(d, mem)
      /\ d.slu = Display.slu /\ d.sll = Display.sll
  BY RunningGood, SetCursorGood DEF d
<1>3. Locked(d)
  BY <1>2, DisplayFields DEF Locked
<1> QED
  BY <1>1, <1>2, <1>3, LinefeedStep

\* The displays the cursor goes home to, over a memory not yet redrawn, too.
LEMMA HomesGood ==
  ASSUME IInv, Running, NEW m \in Memory, NEW mode, NEW d \in Homes(m, mode)
  PROVE  /\ Inside(d) /\ OnLine(d) /\ Locked(d)
         /\ Shows(Display, m) => Shows(d, m)
<1> DEFINE home == Ctrl_SVW(Display, m, SLU, SLU, TRUE)
<1>1. d \in IF mode THEN {Set_Cursor(home, m, y) : y \in Row} ELSE {home}
  BY DEF Homes
<1> HIDE DEF home
<1>2. /\ Inside(home) /\ OnLine(home)
      /\ home.slu = Display.slu /\ home.sll = Display.sll
      /\ Shows(Display, m) => Shows(home, m)
  <2>1. SLU \in Int /\ 0 <= SLU
    BY RunningBounds
  <2> QED
    BY <2>1, RunningGood, CtrlSVWGood DEF home
<1>3. ASSUME NEW y \in Row, d = Set_Cursor(home, m, y)
      PROVE  /\ Inside(d) /\ OnLine(d)
             /\ d.slu = home.slu /\ d.sll = home.sll
             /\ Shows(home, m) => Shows(d, m)
  BY <1>2, <1>3, SetCursorGood
<1>4. /\ Inside(d) /\ OnLine(d)
      /\ d.slu = home.slu /\ d.sll = home.sll
      /\ Shows(home, m) => Shows(d, m)
  BY <1>1, <1>2, <1>3
<1> QED
  BY <1>2, <1>4, DisplayFields DEF Locked

\* PDC_Cursor_Home.
LEMMA HomeStep ==
  ASSUME IInv, Running, PDC_Cursor_Home
  PROVE  Stays
<1>1. PICK d \in Homes(mem, format) : Show(d, mem)
  BY DEF PDC_Cursor_Home
<1>2. Inside(d) /\ OnLine(d) /\ Locked(d) /\ Shows(d, mem) /\ mem \in Memory
  BY RunningGood, HomesGood
<1> QED
  BY <1>1, <1>2, ShowStep DEF Good

\* WN_Ctrl_SVW, with any parameters.
LEMMA CtrlSVWStep ==
  ASSUME IInv, Running, NEW y1 \in Int, NEW y2 \in Int, 0 <= y2,
         NEW columnOk \in BOOLEAN,
         Show(Ctrl_SVW(Display, mem, y1, y2, columnOk), mem)
  PROVE  Stays
<1> DEFINE e == Ctrl_SVW(Display, mem, y1, y2, columnOk)
<1> HIDE DEF e
<1>1. /\ Inside(e) /\ OnLine(e) /\ Shows(e, mem)
      /\ e.slu = Display.slu /\ e.sll = Display.sll
  BY RunningGood, CtrlSVWGood DEF e
<1>2. Good(e, mem) /\ Locked(e) /\ mem \in Memory
  BY <1>1, RunningGood, DisplayFields DEF Good, Locked
<1> QED
  BY <1>2, ShowStep DEF e

\* The commands that move the cursor.
LEMMA CursorNextStep ==
  ASSUME IInv, Running, CursorNext
  PROVE  Stays
<1>1. ASSUME NEW y \in Number, PDC_Set_Cursor(y) PROVE Stays
  BY <1>1, CursorStep DEF PDC_Set_Cursor
<1>2. CASE PDC_Cursor_Up
  <2>1. Cur_Row - 1 \in Row
    BY <1>2, RunningBounds DEF PDC_Cursor_Up, Row
  <2> QED
    BY <1>2, <2>1, CursorStep DEF PDC_Cursor_Up
<1>3. CASE PDC_Cursor_Down
  <2>1. Cur_Row + 1 \in Row
    BY <1>3, RunningBounds DEF PDC_Cursor_Down, Row
  <2> QED
    BY <1>3, <2>1, CursorStep DEF PDC_Cursor_Down
<1>4. ASSUME PDC_Carr_Return PROVE Stays
  BY <1>4, CursorStep, RunningGood DEF PDC_Carr_Return
<1>5. CASE PDC_Linefeed
  BY <1>5, LinefeedStep, RunningGood DEF PDC_Linefeed
<1>6. CASE PDC_New_Line
  BY <1>6, NewLineStep
<1>7. CASE PDC_Next_Tab
  BY <1>4, <1>7, NewLineStep, CursorStep DEF PDC_Next_Tab
<1>8. CASE PDC_Prev_Tab
  BY <1>8, HomeStep, CursorStep DEF PDC_Prev_Tab
<1>9. CASE PDC_Cursor_Home
  BY <1>9, HomeStep
<1>10. CASE PDC_Csr_Antihome
  <2>1. CASE format
    BY <1>10, <2>1, CursorStep DEF PDC_Csr_Antihome
  <2>2. CASE ~format
    <3>1. SLU + Rows - Scr \in Int /\ Rows - 1 - SLL \in Int /\ 0 <= Rows - 1 - SLL
      BY RunningBounds
    <3> QED
      BY <1>10, <2>2, <3>1, CtrlSVWStep DEF PDC_Csr_Antihome
  <2> QED
    BY <2>1, <2>2
<1> QED
  BY <1>1, <1>2, <1>3, <1>4, <1>5, <1>6, <1>7, <1>8, <1>9, <1>10 DEF CursorNext

-----------------------------------------------------------------------------
(* The window and the locks.                                               *)

\* The window moves, and the cursor with it unless it is on a locked line.
LEMMA FollowStep ==
  ASSUME IInv, Running, NEW v \in Int, SLU <= v, v <= SLU + Rows - Scr,
         NEW y \in Row, Show(Follow(Moved(v), y), mem)
  PROVE  Stays
<1> DEFINE d == Moved(v)
<1> HIDE DEF d
<1>1. /\ Inside(d) /\ d.slu = SLU /\ d.sll = SLL /\ d.row = Cur_Row
      /\ Shows(d, mem)
      /\ (Cur_Row < SLU \/ Cur_Row > Rows - 1 - SLL) => OnLine(d)
  BY RunningGood, DisplayFields, MovedGood DEF d, Moved
<1>2. Locked(d) /\ mem \in Memory
  BY <1>1, RunningGood DEF Locked
<1>3. CASE SLU <= Cur_Row /\ Cur_Row <= Rows - 1 - SLL
  <2>1. Show(Set_Cursor(d, mem, y), mem)
    BY <1>1, <1>3 DEF Follow, d
  <2> QED
    BY <1>1, <1>2, <2>1, SetStep
<1>4. CASE Cur_Row < SLU \/ Cur_Row > Rows - 1 - SLL
  <2>1. Show(d, mem)
    BY <1>1, <1>4, RunningBounds DEF Follow, d
  <2> QED
    BY <1>1, <1>2, <1>4, <2>1, ShowStep DEF Good
<1> QED
  BY <1>3, <1>4, RunningBounds

\* PDC_Next_Page and PDC_Prev_Page.
LEMMA PageStep ==
  ASSUME IInv, Running, PDC_Next_Page \/ PDC_Prev_Page
  PROVE  Stays
<1>1. Span(Display) = Scr - 1 - SLU - SLL
  BY DisplayFields DEF Span
<1>2. CASE PDC_Next_Page
  <2> DEFINE c == AtMost(SVW_Row + Span(Display) + 1, SLU + Rows - Scr)
             y == IF Cur_Row < c THEN c ELSE Cur_Row
  <2>1. Show(Follow(Moved(c), y), mem)
    BY <1>2 DEF PDC_Next_Page
  <2>2. c \in Int /\ SLU <= c /\ c <= SLU + Rows - Scr
    BY <1>1, RunningBounds DEF AtMost
  <2> HIDE DEF c
  <2>3. y \in Row
    BY <2>2, RunningBounds DEF Row
  <2> HIDE DEF y
  <2> QED
    BY <2>1, <2>2, <2>3, FollowStep
<1>3. CASE PDC_Prev_Page
  <2> DEFINE c == IF SVW_Row >= Scr - SLL THEN SVW_Row - Span(Display) - 1 ELSE SLU
             y == AtMost(Cur_Row, c + Span(Display))
  <2>1. Show(Follow(Moved(c), y), mem)
    BY <1>3 DEF PDC_Prev_Page
  <2>2. c \in Int /\ SLU <= c /\ c <= SLU + Rows - Scr
    BY <1>1, RunningBounds
  <2> HIDE DEF c
  <2>3. y \in Row
    BY <1>1, <2>2, RunningBounds DEF Row, AtMost
  <2> HIDE DEF y
  <2> QED
    BY <2>1, <2>2, <2>3, FollowStep
<1> QED
  BY <1>2, <1>3

\* PDC_Roll_Up and PDC_Roll_Down.
LEMMA RollStep ==
  ASSUME IInv, Running, PDC_Roll_Up \/ PDC_Roll_Down
  PROVE  Stays
<1>1. Span(Display) = Scr - 1 - SLU - SLL
  BY DisplayFields DEF Span
<1>2. CASE PDC_Roll_Up
  <2> DEFINE c == SVW_Row + 1
             y == IF Cur_Row < SVW_Row + 1 THEN Cur_Row + 1 ELSE Cur_Row
  <2>1. Show(Follow(Moved(c), y), mem) /\ SVW_Row < SLU + Rows - Scr
    BY <1>2 DEF PDC_Roll_Up
  <2>2. c \in Int /\ SLU <= c /\ c <= SLU + Rows - Scr
    BY <2>1, RunningBounds
  <2>3. y \in Row
    BY <2>1, RunningBounds DEF Row
  <2> HIDE DEF c, y
  <2> QED
    BY <2>1, <2>2, <2>3, FollowStep
<1>3. CASE PDC_Roll_Down
  <2> DEFINE c == SVW_Row - 1
             y == IF Cur_Row > SVW_Row - 1 + Span(Display)
                  THEN Cur_Row - 1 ELSE Cur_Row
  <2>1. Show(Follow(Moved(c), y), mem) /\ SVW_Row > SLU
    BY <1>3 DEF PDC_Roll_Down
  <2>2. c \in Int /\ SLU <= c /\ c <= SLU + Rows - Scr
    BY <2>1, RunningBounds
  <2>3. y \in Row
    BY <1>1, <2>1, RunningBounds DEF Row
  <2> HIDE DEF c, y
  <2> QED
    BY <2>1, <2>2, <2>3, FollowStep
<1> QED
  BY <1>2, <1>3

\* PDC_Set_Mem_Lock.
LEMMA MemLockStep ==
  ASSUME IInv, Running, NEW a \in Number, NEW b \in Number, PDC_Set_Mem_Lock(a, b)
  PROVE  Stays
<1>1. /\ Become(Display, mem) /\ MLU' = a /\ MLL' = b /\ SLU <= a /\ SLL <= b
      /\ a <= Rows - 1 /\ b <= Rows - 1 /\ UNCHANGED <<format, crashed>>
  BY DEF PDC_Set_Mem_Lock
<1>2. a \in Row /\ b \in Row
  BY <1>1, ConstantsAssumption DEF Number, Row
<1>3. format' \in BOOLEAN /\ crashed' \in BOOLEAN
  BY <1>1 DEF IInv, TypeOK
<1> QED
  BY <1>1, <1>2, <1>3, RunningGood, DisplayFields, BecomeStep

\* The display with new screen locks, before the window moves along: the
\* locked lines are drawn.
WithLocks(a, b, row) ==
  Redraw(Redraw([Display EXCEPT !.slu = a, !.sll = b, !.row = row], mem, 0, a),
         mem, Rows - b, b)

\* Both locked ends redrawn for new screen locks.
LEMMA LocksDrawn ==
  ASSUME IInv, Running, NEW a \in Int, NEW b \in Int, 0 <= a, 0 <= b,
         a + b <= Scr - 1, NEW row \in Int
  PROVE  LET e == WithLocks(a, b, row)
         IN /\ e \in DisplayType /\ Locks(e)
            /\ e.slu = a /\ e.sll = b /\ e.svw = SVW_Row /\ e.row = row
            /\ \A s \in Screen :
                 /\ s < a => e.screen[s] = mem[s]
                 /\ s > Scr - 1 - b => e.screen[s] = mem[s + (Rows - Scr)]
<1> DEFINE d == [Display EXCEPT !.slu = a, !.sll = b, !.row = row]
           u == Redraw(d, mem, 0, a)
           e == Redraw(u, mem, Rows - b, b)
<1>1. /\ d \in DisplayType /\ d.slu = a /\ d.sll = b /\ d.svw = SVW_Row
      /\ d.row = row
  BY RunningGood, DisplayFields DEF Inside, DisplayType
<1> HIDE DEF d
<1>2. Locks(d) /\ mem \in Memory
  BY <1>1, RunningGood DEF Locks
<1>3. /\ Same(d, u)
      /\ \A s \in Screen : u.screen[s] = IF s < a THEN mem[s] ELSE d.screen[s]
  BY <1>1, <1>2, UpperDrawn
<1> HIDE DEF u
<1>4. u \in DisplayType /\ Locks(u) /\ u.sll = b
  BY <1>1, <1>2, <1>3 DEF Same, Locks
<1>5. /\ Same(u, e)
      /\ \A s \in Screen : e.screen[s] = IF s > Scr - 1 - b
                                         THEN mem[s + (Rows - Scr)]
                                         ELSE u.screen[s]
  BY <1>2, <1>4, LowerDrawn
<1> HIDE DEF e
<1>6. Same(d, e)
  BY <1>3, <1>5 DEF Same
<1>7. ASSUME NEW s \in Screen, s < a PROVE ~(s > Scr - 1 - b)
  BY <1>7, ConstantsAssumption DEF Screen
<1> QED
  BY <1>1, <1>2, <1>3, <1>5, <1>6, <1>7 DEF d, u, e, Same, Locks, WithLocks

\* PDC_Set_Scr_Lock.
LEMMA ScrLockStep ==
  ASSUME IInv, Running, NEW a \in Number, NEW b \in Number, PDC_Set_Scr_Lock(a, b)
  PROVE  IInv' /\ (Cur_Row' \in Row \/ ~Displayed(Display, Cur_Row))
<1> DEFINE y2 == SVW_Row + a - SLU
           Line2(a1) == IF a1 < a THEN a1
                        ELSE IF a1 >= Scr - b THEN a1 + Rows - Scr
                        ELSE y2 + a1 - a
<1>1. /\ a + b <= Scr - 1 /\ MLU' = AtLeast(MLU, a) /\ MLL' = AtLeast(MLL, b)
      /\ UNCHANGED <<format, crashed>>
  BY DEF PDC_Set_Scr_Lock
<1>2. PICK a1 \in IF Displayed(Display, Cur_Row)
                  THEN {Place(Display, Cur_Row)} ELSE Garbage :
        Become(Ctrl_SVW(WithLocks(a, b, Line2(a1)), mem, y2, Line2(a1), TRUE),
               mem)
  BY DEF PDC_Set_Scr_Lock, WithLocks
<1>3. /\ a \in Int /\ 0 <= a /\ b \in Int /\ 0 <= b
  BY ConstantsAssumption DEF Number
<1>4. a1 \in Int
  BY <1>2, RunningGood, PlaceIsSource, ConstantsAssumption DEF Garbage, Screen
<1>5. y2 \in Int /\ a <= y2 /\ y2 <= a + Rows - Scr /\ 0 <= y2
  BY <1>3, RunningBounds
<1>6. /\ MLU' \in Row /\ MLL' \in Row /\ a <= MLU' /\ b <= MLL'
      /\ format' \in BOOLEAN /\ crashed' \in BOOLEAN
  <2>1. MLU' \in Row /\ MLL' \in Row /\ a <= MLU' /\ b <= MLL'
    BY <1>1, <1>3, RunningBounds DEF AtLeast, Row
  <2>2. format' \in BOOLEAN /\ crashed' \in BOOLEAN
    BY <1>1 DEF IInv, TypeOK
  <2> QED
    BY <2>1, <2>2
<1> DEFINE row == Line2(a1)
           e == WithLocks(a, b, row)
           w == Redraw_Client_Area([e EXCEPT !.svw = y2], mem)
           span == Scr - 1 - a - b
<1>7. row \in Int
  BY <1>3, <1>4, <1>5, RunningBounds
<1>8. row \in Row => \/ row < a
                     \/ row > Rows - 1 - b /\ row < Rows
                     \/ y2 <= row /\ row <= y2 + span
  BY <1>1, <1>3, <1>4, <1>5, RunningBounds DEF Row
<1>17. ASSUME Displayed(Display, Cur_Row) PROVE row \in Row
  <2>1. a1 \in Screen
    BY <1>2, <1>17, RunningGood, PlaceIsSource
  <2> QED
    BY <1>1, <1>3, <1>5, <2>1, RunningBounds DEF Row, Screen
<1>9. Become(Ctrl_SVW(e, mem, y2, row, TRUE), mem)
  BY <1>2
<1> HIDE DEF row, y2, Line2
<1>10. /\ e \in DisplayType /\ Locks(e)
       /\ e.slu = a /\ e.sll = b /\ e.svw = SVW_Row /\ e.row = row
       /\ \A s \in Screen :
            /\ s < a => e.screen[s] = mem[s]
            /\ s > Scr - 1 - b => e.screen[s] = mem[s + (Rows - Scr)]
  BY <1>1, <1>3, <1>7, LocksDrawn
<1>11. mem \in Memory
  BY RunningGood
<1> HIDE DEF e
<1>12. Span(e) = span
  BY <1>10 DEF Span
<1>13. Inside(w) /\ w.svw = y2 /\ w.slu = a /\ w.sll = b /\ Shows(w, mem)
  <2>1. Inside(w) /\ w.svw = y2 /\ w.slu = a /\ w.sll = b
    BY <1>5, <1>10, <1>11, MovedInside
  <2>2. Shows(w, mem)
    BY <1>5, <1>10, <1>11, MovedShows
  <2> QED
    BY <2>1, <2>2
<1> HIDE DEF w
<1>14. CASE row \in Row
  <2>1. ~(\/ y2 < a \/ y2 > a + Rows - Scr
          \/ /\ row >= a
             /\ row < y2 \/ row > y2 + span
             /\ row <= Rows - 1 - b \/ row >= Rows)
    BY <1>3, <1>5, <1>7, <1>8, <1>14, RunningBounds
  <2>2. Ctrl_SVW(e, mem, y2, row, TRUE) = Set_Cursor(w, mem, row)
    BY <1>10, <1>12, <2>1 DEF Ctrl_SVW, w
  <2> DEFINE f == Set_Cursor(w, mem, row)
  <2>3. /\ Inside(f) /\ OnLine(f) /\ Shows(f, mem) /\ f.slu = a /\ f.sll = b
    BY <1>11, <1>13, <1>14, SetCursorGood
  <2>4. Become(f, mem)
    BY <1>9, <2>2
  <2> HIDE DEF f
  <2> QED
    BY <1>6, <1>11, <2>3, <2>4, BecomeStep DEF Good, Stays
<1>15. CASE row < 0
  <2>1. ~(\/ y2 < a \/ y2 > a + Rows - Scr
          \/ /\ row >= a
             /\ row < y2 \/ row > y2 + span
             /\ row <= Rows - 1 - b \/ row >= Rows)
    BY <1>3, <1>5, <1>7, <1>15, RunningBounds
  <2>2. Ctrl_SVW(e, mem, y2, row, TRUE) = Set_Cursor(w, mem, row)
    BY <1>10, <1>12, <2>1 DEF Ctrl_SVW, w
  <2>3. Calc_SVW(w, row) = w.svw
    <3>1. ~(row >= a) /\ ~(row > y2 + span)
      BY <1>1, <1>3, <1>5, <1>7, <1>15, RunningBounds
    <3>2. Span(w) = span
      BY <1>13 DEF Span
    <3> QED
      BY <1>13, <3>1, <3>2 DEF Calc_SVW
  <2> DEFINE v == [w EXCEPT !.svw = w.svw]
             f == [v EXCEPT !.row = row, !.curs = Place(v, row), !.strayed = FALSE]
  <2>4. Set_Cursor(w, mem, row) = f
    BY <2>3 DEF Set_Cursor
  <2>5. v = w
    BY <1>13 DEF Inside, DisplayType
  <2> HIDE DEF v
  <2>6. Place(v, row) \in Int
    BY <1>5, <1>7, <1>13, <2>5, <1>3, RunningBounds DEF Place
  <2>7. f \in DisplayType /\ f.svw = y2 /\ f.slu = a /\ f.sll = b /\ f.row = row
    BY <1>7, <1>13, <2>5, <2>6 DEF Inside, DisplayType
  <2>8. Become(f, mem)
    BY <1>9, <2>2, <2>4
  <2> HIDE DEF f
  <2>9. Locks(f) /\ f.svw \in Row
    BY <1>1, <1>3, <1>5, <2>7, RunningBounds DEF Locks, Row
  <2>10. TypeOK'
    BY <1>6, <1>11, <2>7, <2>8, <2>9, BecomeTyped
  <2>11. Cur_Row' \notin Row
    BY <1>15, <2>7, <2>8, ConstantsAssumption DEF Become, Row
  <2>12. row \notin Row
    BY <1>15, ConstantsAssumption DEF Row
  <2> QED
    BY <1>17, <2>10, <2>11, <2>12 DEF IInv, Row
<1>16. CASE row >= Rows
  <2>1. /\ row >= a /\ row > y2 + span /\ row >= Rows
    BY <1>1, <1>3, <1>5, <1>7, <1>16, RunningBounds
  <2>2. Ctrl_SVW(e, mem, y2, row, TRUE) = e
    BY <1>10, <1>12, <2>1 DEF Ctrl_SVW
  <2>3. SVW_Row \in Row
    BY RunningBounds DEF Row
  <2>4. Become(e, mem) /\ e.svw \in Row
    BY <1>9, <1>10, <2>2, <2>3
  <2>5. TypeOK'
    BY <1>6, <1>10, <1>11, <2>4, BecomeTyped
  <2>6. Cur_Row' \notin Row
    BY <1>10, <1>16, <2>4, ConstantsAssumption DEF Become, Row
  <2>7. row \notin Row
    BY <1>16, ConstantsAssumption DEF Row
  <2> QED
    BY <1>17, <2>5, <2>6, <2>7 DEF IInv, Row
<1> QED
  BY <1>7, <1>14, <1>15, <1>16, ConstantsAssumption DEF Row

\* New screen locks set while the line of the cursor is not displayed.
LocksBlind == /\ ~Displayed(Display, Cur_Row)
              /\ \E a, b \in Number : PDC_Set_Scr_Lock(a, b)

\* The commands that move the window.
LEMMA WindowNextStep ==
  ASSUME IInv, Running, WindowNext
  PROVE  Stays \/ (IInv' /\ LocksBlind)
<1>1. ASSUME NEW y1 \in Number, NEW y2 \in Number, NEW ok \in BOOLEAN,
             PDC_Ctrl_SVW(y1, y2, ok)
      PROVE  Stays
  <2>1. y1 \in Int /\ y2 \in Int /\ 0 <= y2
    BY ConstantsAssumption DEF Number
  <2> QED
    BY <1>1, <2>1, CtrlSVWStep DEF PDC_Ctrl_SVW
<1>2. ASSUME NEW a \in Number, NEW b \in Number, PDC_Set_Scr_Lock(a, b)
      PROVE  Stays \/ (IInv' /\ LocksBlind)
  BY <1>2, ScrLockStep DEF Stays, LocksBlind
<1> QED
  BY <1>1, <1>2, PageStep, RollStep, MemLockStep DEF WindowNext

-----------------------------------------------------------------------------
(* Lines put in and taken out.                                             *)

\* Everything is redrawn.
LEMMA AllStep ==
  ASSUME IInv, Running, NEW m \in Memory, Show(Redraw_All(Display, m), m)
  PROVE  Stays
  BY RunningGood, AllShows, SameStep

\* The lines that changed are redrawn one by one.
LEMMA EachStep ==
  ASSUME IInv, Running, NEW m \in Memory, NEW first, NEW last,
         \A r \in Row : ~(first <= r /\ r <= last) => m[r] = mem[r],
         Show(RedrawEach(Display, m, first, last), m)
  PROVE  Stays
<1>1. ASSUME NEW s \in Screen,
             ~(first <= Source(Display, s) /\ Source(Display, s) <= last)
      PROVE  Display.screen[s] \in {m[Source(Display, s)], "skipped"}
  <2>1. /\ Source(Display, s) \in Row
        /\ Display.screen[s] \in {mem[Source(Display, s)], "skipped"}
    BY RunningGood, SourceIsPlaced DEF Shows
  <2> QED
    BY <1>1, <2>1
<1> QED
  BY <1>1, RunningGood, EachShows, SameStep

\* PDC_Insert_Line and PDC_Del_Line.
LEMMA LineStep ==
  ASSUME IInv, Running, PDC_Insert_Line \/ PDC_Del_Line
  PROVE  Stays
<1> DEFINE c == Rows - 1 - MLL
<1>1. c \in Row /\ Cur_Row \in Row /\ mem \in Memory
  BY RunningBounds, RunningGood DEF Row
<1>2. CASE PDC_Insert_Line
  <2> DEFINE m == [r \in Row |-> IF r = Cur_Row THEN "blank"
                                 ELSE IF Cur_Row < r /\ r <= c THEN mem[r - 1]
                                 ELSE mem[r]]
  <2>1. /\ Cur_Row >= MLU /\ c >= Cur_Row
        /\ Show(Set_Cursor(Redraw_Client_Area(Display, m), m, Cur_Row), m)
    BY <1>2 DEF PDC_Insert_Line
  <2>2. ASSUME NEW r \in Row PROVE m[r] \in Line
    <3>1. Cur_Row < r /\ r <= c => r - 1 \in Row
      BY RunningBounds DEF Row
    <3> QED
      BY <1>1, <3>1, ConstantsAssumption DEF Memory
  <2>3. m \in Memory
    BY <2>2 DEF Memory
  <2>4. ASSUME NEW r \in Row, r < SLU \/ r > Rows - 1 - SLL
        PROVE  m[r] = mem[r]
    <3>1. r # Cur_Row /\ ~(Cur_Row < r /\ r <= c)
      BY <2>1, <2>4, RunningBounds DEF Row
    <3> QED
      BY <3>1
  <2> HIDE DEF m, c
  <2> QED
    BY <1>1, <2>1, <2>3, <2>4, RunningGood, ScrollStep
<1>3. CASE PDC_Del_Line
  <2> DEFINE m == Scrolled(Cur_Row, c)
  <2>1. /\ Cur_Row >= MLU /\ Cur_Row <= c
        /\ Show(Set_Cursor(Redraw_Client_Area(Display, m), m, Cur_Row), m)
    BY <1>3 DEF PDC_Del_Line
  <2>2. /\ m \in Memory
        /\ \A r \in Row : r < Cur_Row \/ r > c => m[r] = mem[r]
    BY <1>1, <2>1, ScrolledRows
  <2>3. \A r \in Row : r < SLU \/ r > Rows - 1 - SLL => r < Cur_Row \/ r > c
    BY <2>1, RunningBounds DEF Row
  <2> HIDE DEF m, c
  <2>4. \A r \in Row : r < SLU \/ r > Rows - 1 - SLL => m[r] = mem[r]
    BY <2>2, <2>3
  <2> QED
    BY <1>1, <2>1, <2>2, <2>4, RunningGood, ScrollStep
<1> QED
  BY <1>2, <1>3

\* PDC_Dir_Line_Ins.
LEMMA DirInsStep ==
  ASSUME IInv, Running, NEW a \in Number, NEW b \in Number, PDC_Dir_Line_Ins(a, b)
  PROVE  Stays
<1> DEFINE low  == Rows - MLL
           down == [r \in Row |-> IF a <= r /\ r < a + b THEN "blank"
                                  ELSE IF a + b <= r /\ r < low THEN mem[r - b]
                                  ELSE mem[r]]
           up   == [r \in Row |-> IF a - b <= r /\ r < a THEN "blank"
                                  ELSE IF low - b <= r /\ r < a - b THEN mem[r + b]
                                  ELSE mem[r]]
<1>1. /\ a \in Row
      /\ \/ Show(Redraw_All(Display, down), down)
         \/ Show(Redraw_All(Display, up), up)
  BY DEF PDC_Dir_Line_Ins
<1>2. a \in Int /\ 0 <= a /\ a <= Rows - 1 /\ b \in Int /\ 0 <= b /\ mem \in Memory
  BY <1>1, ConstantsAssumption, RunningGood DEF Number, Row
<1>3. down \in Memory
  <2>1. ASSUME NEW r \in Row PROVE down[r] \in Line
    <3>1. a + b <= r => r - b \in Row
      BY <1>2, RunningBounds DEF Row
    <3> QED
      BY <1>2, <3>1, ConstantsAssumption DEF Memory
  <2> QED
    BY <2>1 DEF Memory
<1>4. up \in Memory
  <2>1. ASSUME NEW r \in Row PROVE up[r] \in Line
    <3>1. low - b <= r /\ r < a - b => r + b \in Row
      BY <1>2, RunningBounds DEF Row
    <3> QED
      BY <1>2, <3>1, ConstantsAssumption DEF Memory
  <2> QED
    BY <2>1 DEF Memory
<1> HIDE DEF up, down
<1> QED
  BY <1>1, <1>3, <1>4, AllStep

\* PDC_Dir_Line_Del.
LEMMA DirDelStep ==
  ASSUME IInv, Running, NEW a \in Number, NEW b \in Number, PDC_Dir_Line_Del(a, b)
  PROVE  Stays
<1> DEFINE low  == Rows - MLL
           up   == [r \in Row |-> IF low - b <= r /\ r < low THEN "blank"
                                  ELSE IF a <= r /\ r < low - b THEN mem[r + b]
                                  ELSE mem[r]]
           down == [r \in Row |-> IF low <= r /\ r <= a
                                  THEN IF r < low + b THEN "blank" ELSE mem[r - b]
                                  ELSE mem[r]]
<1>1. /\ a \in Row
      /\ \/ Show(Redraw_All(Display, up), up)
         \/ Show(RedrawEach(Display, down, low, Rows - 1), down)
  BY DEF PDC_Dir_Line_Del
<1>2. a \in Int /\ 0 <= a /\ a <= Rows - 1 /\ b \in Int /\ 0 <= b /\ mem \in Memory
  BY <1>1, ConstantsAssumption, RunningGood DEF Number, Row
<1>3. up \in Memory
  <2>1. ASSUME NEW r \in Row PROVE up[r] \in Line
    <3>1. a <= r /\ r < low - b => r + b \in Row
      BY <1>2, RunningBounds DEF Row
    <3> QED
      BY <1>2, <3>1, ConstantsAssumption DEF Memory
  <2> QED
    BY <2>1 DEF Memory
<1>4. down \in Memory
  <2>1. ASSUME NEW r \in Row PROVE down[r] \in Line
    <3>1. low <= r /\ ~(r < low + b) => r - b \in Row
      BY <1>2, RunningBounds DEF Row
    <3> QED
      BY <1>2, <3>1, ConstantsAssumption DEF Memory
  <2> QED
    BY <2>1 DEF Memory
<1>5. ASSUME NEW r \in Row, ~(low <= r /\ r <= Rows - 1) PROVE down[r] = mem[r]
  <2>1. ~(low <= r /\ r <= a)
    BY <1>2, <1>5, RunningBounds DEF Row
  <2> QED
    BY <2>1
<1> HIDE DEF up, down, low
<1>6. CASE Show(Redraw_All(Display, up), up)
  BY <1>3, <1>6, AllStep
<1>7. CASE Show(RedrawEach(Display, down, low, Rows - 1), down)
  BY <1>4, <1>5, <1>7, EachStep
<1> QED
  BY <1>1, <1>6, <1>7

\* The commands that put lines in and out.
LEMMA LineNextStep ==
  ASSUME IInv, Running, LineNext
  PROVE  Stays
  BY LineStep, DirInsStep, DirDelStep DEF LineNext

-----------------------------------------------------------------------------
(* Text and the whole display.                                             *)

\* Writing changes the lines it names only.
LEMMA WrittenRows ==
  ASSUME mem \in Memory, NEW first, NEW last, NEW t \in Line
  PROVE  /\ Written(first, last, t) \in Memory
         /\ \A r \in Row : ~(first <= r /\ r <= last)
                             => Written(first, last, t)[r] = mem[r]
  BY DEF Written, Memory

\* A cell redrawn after its line was written.
LEMMA CellShows ==
  ASSUME IInv, Running, NEW y \in Row, NEW t \in Line
  PROVE  LET m == Written(y, y, t)
             e == Redraw_Ch(Display, m, y)
         IN m \in Memory /\ Same(Display, e) /\ Shows(e, m)
<1> DEFINE m == Written(y, y, t)
<1>1. m \in Memory /\ \A r \in Row : ~(y <= r /\ r <= y) => m[r] = mem[r]
  BY RunningGood, WrittenRows
<1> HIDE DEF m
<1>2. ASSUME NEW s \in Screen, Source(Display, s) # y
      PROVE  Display.screen[s] \in {m[Source(Display, s)], "skipped"}
  <2> DEFINE r == Source(Display, s)
  <2>1. r \in Row /\ Display.screen[s] \in {mem[r], "skipped"}
    BY RunningGood, SourceIsPlaced DEF Shows
  <2>2. ~(y <= r /\ r <= y)
    BY <1>2, <2>1, ConstantsAssumption DEF Row
  <2> QED
    BY <1>1, <2>1, <2>2
<1>3. Same(Display, Redraw_Ch(Display, m, y)) /\ Shows(Redraw_Ch(Display, m, y), m)
  BY <1>1, <1>2, RunningGood, ChShows
<1> QED
  BY <1>1, <1>3 DEF m

\* The cursor's line redrawn after it and lines below it were written.
LEMMA SkippedShows ==
  ASSUME IInv, Running, NEW last \in Row, NEW t \in Line
  PROVE  LET m == Written(Cur_Row, last, t)
             e == Redraw(Skip(Display, Cur_Row + 1, last), m, Cur_Row, 1)
         IN m \in Memory /\ Same(Display, e) /\ Shows(e, m)
<1> DEFINE m == Written(Cur_Row, last, t)
           d == Skip(Display, Cur_Row + 1, last)
           e == Redraw(d, m, Cur_Row, 1)
<1>1. m \in Memory /\ \A r \in Row : ~(Cur_Row <= r /\ r <= last) => m[r] = mem[r]
  BY RunningGood, WrittenRows
<1> HIDE DEF m
<1>2. /\ Same(Display, d)
      /\ \A s \in Screen :
           d.screen[s] = IF Cur_Row + 1 <= Source(Display, s) /\ Source(Display, s) <= last
                         THEN "skipped" ELSE Display.screen[s]
  BY RunningGood, SkipDrawn
<1> HIDE DEF d
<1>3. Inside(d) /\ \A s : Source(d, s) = Source(Display, s)
  BY <1>2, RunningGood, SameInside
<1>4. ASSUME NEW s \in Screen, Source(d, s) # Cur_Row
      PROVE  d.screen[s] \in {m[Source(d, s)], "skipped"}
  <2> DEFINE r == Source(Display, s)
  <2>1. r \in Row /\ Display.screen[s] \in {mem[r], "skipped"}
    BY RunningGood, SourceIsPlaced DEF Shows
  <2>2. Source(d, s) = r /\ r # Cur_Row
    BY <1>3, <1>4
  <2>3. CASE Cur_Row + 1 <= r /\ r <= last
    BY <1>2, <2>3
  <2>4. CASE ~(Cur_Row + 1 <= r /\ r <= last)
    <3>1. ~(Cur_Row <= r /\ r <= last)
      BY <2>1, <2>2, <2>4, RunningBounds DEF Row
    <3> QED
      BY <1>1, <1>2, <2>1, <2>2, <2>4, <3>1
  <2> QED
    BY <2>3, <2>4
<1>5. Same(d, e) /\ Shows(e, m)
  BY <1>1, <1>3, <1>4, RunningGood, LineShows
<1>6. Same(Display, e)
  BY <1>2, <1>5 DEF Same
<1> QED
  BY <1>1, <1>5, <1>6 DEF m, d

\* WN_Putc.
LEMMA PutcStep ==
  ASSUME IInv, Running, NEW t \in Line, WN_Putc(t)
  PROVE  Stays
<1>1. PICK insert \in BOOLEAN, last \in Row, stay \in BOOLEAN :
        LET m == Written(Cur_Row, last, t)
            d == IF insert
                 THEN Redraw(Skip(Display, Cur_Row + 1, last), m, Cur_Row, 1)
                 ELSE Redraw_Ch(Display, m, Cur_Row)
        IN /\ last >= Cur_Row /\ ((format /\ insert) \/ last = Cur_Row)
           /\ Show(IF stay THEN d ELSE Set_Cursor(d, m, Cur_Row), m)
  BY DEF WN_Putc
<1> DEFINE m == Written(Cur_Row, last, t)
           d == IF insert
                THEN Redraw(Skip(Display, Cur_Row + 1, last), m, Cur_Row, 1)
                ELSE Redraw_Ch(Display, m, Cur_Row)
<1>2. m \in Memory /\ Same(Display, d) /\ Shows(d, m)
  <2>1. CASE insert
    BY <2>1, SkippedShows
  <2>2. CASE ~insert
    <3>1. last = Cur_Row
      BY <1>1, <2>2
    <3> QED
      BY <2>2, <3>1, CellShows
  <2> QED
    BY <2>1, <2>2
<1>3. Show(IF stay THEN d ELSE Set_Cursor(d, m, Cur_Row), m)
  BY <1>1
<1> HIDE DEF d, m
<1>4. CASE stay
  BY <1>2, <1>3, <1>4, SameStep
<1>5. CASE ~stay
  BY <1>2, <1>3, <1>5, RunningGood, SameSetStep
<1> QED
  BY <1>4, <1>5

\* PDC_Backspace.
LEMMA BackspaceStep ==
  ASSUME IInv, Running, NEW t \in Line, PDC_Backspace(t)
  PROVE  Stays
<1>1. PICK a \in Row :
        LET m == Written(a, a, t) IN
        Show(Set_Cursor(Redraw_Ch(Display, m, a), m, a), m)
  BY DEF PDC_Backspace
<1> QED
  BY <1>1, CellShows, SameSetStep

\* PDC_Del_Ch.
LEMMA DelChStep ==
  ASSUME IInv, Running, NEW t \in Line, PDC_Del_Ch(t)
  PROVE  Stays
<1>1. PICK last \in Row :
        LET m == Written(Cur_Row, last, t) IN
        Show(RedrawEach(Display, m, Cur_Row, last), m)
  BY DEF PDC_Del_Ch
<1> QED
  BY <1>1, RunningGood, WrittenRows, EachStep

\* PDC_Clr_Line.
LEMMA ClrLineStep ==
  ASSUME IInv, Running, NEW t \in Line, PDC_Clr_Line(t)
  PROVE  Stays
<1>1. PICK last \in Row :
        LET m == Written(Cur_Row, last, t) IN
        Show(Redraw(Skip(Display, Cur_Row + 1, last), m, Cur_Row, 1), m)
  BY DEF PDC_Clr_Line
<1> QED
  BY <1>1, SkippedShows, SameStep

\* Block writes.
LEMMA BlockStep ==
  ASSUME IInv, Running, NEW t \in Line, NEW b, WriteBlock(b, t)
  PROVE  Stays
<1> DEFINE m == Written(b.first, b.last, t)
           d == Skip(Display, b.first, b.last)
           e == RedrawEach(d, m, b.first, b.redone)
<1>1. /\ m \in Memory
      /\ \A r \in Row : ~(b.first <= r /\ r <= b.last) => m[r] = mem[r]
  BY RunningGood, WrittenRows
<1>2. Show(e, m)
  BY DEF WriteBlock
<1> HIDE DEF m
<1>3. Same(Display, d) /\ Shows(d, m)
  BY <1>1, RunningGood, SkipShows
<1> HIDE DEF d
<1>4. Inside(d)
  BY <1>3, RunningGood, SameInside
<1>5. Same(d, e) /\ Shows(e, m)
  BY <1>1, <1>3, <1>4, EachShows DEF Shows
<1> HIDE DEF e
<1>6. Same(Display, e)
  BY <1>3, <1>5 DEF Same
<1> QED
  BY <1>1, <1>2, <1>5, <1>6, SameStep

\* PDC_Clr_Par.
LEMMA ClrParStep ==
  ASSUME IInv, Running, NEW t \in Line, NEW kept, PDC_Clr_Par(t, kept)
  PROVE  Stays
<1> DEFINE m == [r \in Row |-> IF r = Cur_Row THEN t
                               ELSE IF r > Cur_Row /\ r \notin kept THEN "blank"
                               ELSE mem[r]]
<1>1. Show(Redraw_All(Display, m), m)
  BY DEF PDC_Clr_Par
<1>2. m \in Memory
  BY RunningGood, ConstantsAssumption DEF Memory
<1> HIDE DEF m
<1> QED
  BY <1>1, <1>2, AllStep

\* The commands that write text.
LEMMA TextNextStep ==
  ASSUME IInv, Running, TextNext
  PROVE  Stays
<1>1. ASSUME NEW t \in Line, NEW y \in Row, WN_Putch_Abs(y, t) PROVE Stays
  BY <1>1, CellShows, SameStep DEF WN_Putch_Abs
<1> QED
  BY <1>1, PutcStep, BackspaceStep, DelChStep, ClrLineStep, BlockStep,
     ClrParStep DEF TextNext

\* PDC_Clr_All.
LEMMA ClrAllStep ==
  ASSUME IInv, Running, NEW kept, PDC_Clr_All(kept)
  PROVE  Stays
<1> DEFINE m == [r \in Row |-> IF r \in kept THEN mem[r] ELSE "blank"]
<1>1. PICK d \in Homes(m, format) : Show(Redraw_All(d, m), m)
  BY DEF PDC_Clr_All
<1>2. m \in Memory
  BY RunningGood, ConstantsAssumption DEF Memory
<1> HIDE DEF m
<1> DEFINE e == Redraw_All(d, m)
<1>3. Inside(d) /\ OnLine(d) /\ Locked(d)
  BY <1>2, HomesGood
<1>4. Same(d, e) /\ Shows(e, m)
  BY <1>2, <1>3, AllShows
<1> HIDE DEF e
<1>5. Good(e, m) /\ Locked(e)
  BY <1>3, <1>4, SameInside DEF Good, Same, Locked
<1> QED
  BY <1>1, <1>2, <1>5, ShowStep DEF e

\* PDC_Hard_Reset.
LEMMA HardResetStep ==
  ASSUME IInv, Running, NEW t \in Line, PDC_Hard_Reset(t)
  PROVE  Stays
<1> DEFINE c == Redraw_All(Display, Blank)
           d == Set_Cursor(c, Blank, 0)
           m == [Blank EXCEPT ![0] = t]
           e == Redraw(d, m, 0, 1)
<1>1. Show(e, m)
  BY DEF PDC_Hard_Reset
<1>2. /\ Blank \in Memory /\ m \in Memory /\ 0 \in Row
      /\ \A r \in Row : r # 0 => m[r] = Blank[r]
  BY ConstantsAssumption DEF Blank, Memory, Row
<1> HIDE DEF m
<1>3. Same(Display, c) /\ Shows(c, Blank)
  BY <1>2, RunningGood, AllShows
<1> HIDE DEF c
<1>4. Inside(c) /\ Locked(c)
  BY <1>3, RunningGood, DisplayFields, SameInside DEF Same, Locked
<1>5. /\ Inside(d) /\ OnLine(d) /\ Shows(d, Blank)
      /\ d.slu = c.slu /\ d.sll = c.sll
  BY <1>2, <1>3, <1>4, SetCursorGood
<1> HIDE DEF d
<1>6. ASSUME NEW s \in Screen, Source(d, s) # 0
      PROVE  d.screen[s] \in {m[Source(d, s)], "skipped"}
  <2>1. Source(d, s) \in Row /\ d.screen[s] \in {Blank[Source(d, s)], "skipped"}
    BY <1>5, SourceIsPlaced DEF Shows
  <2> QED
    BY <1>2, <1>6, <2>1
<1>7. Same(d, e) /\ Shows(e, m)
  BY <1>2, <1>5, <1>6, LineShows
<1> HIDE DEF e
<1>8. Good(e, m) /\ Locked(e)
  BY <1>4, <1>5, <1>7, SameInside DEF Good, Same, Locked
<1> QED
  BY <1>1, <1>2, <1>8, ShowStep

\* PDC_Format_On, PDC_Format_Off and PDC_Init.
LEMMA FormatStep ==
  ASSUME IInv, Running, PDC_Format_On \/ PDC_Format_Off \/ PDC_Init
  PROVE  Stays
<1>1. PICK d : /\ Become(d, mem) /\ UNCHANGED <<MLU, MLL, crashed>>
               /\ format' \in BOOLEAN
               /\ \/ d = Display \/ d \in Homes(mem, TRUE)
                  \/ d = Ctrl_SVW(Display, mem, SLU, 0, TRUE)
  BY DEF PDC_Format_On, PDC_Format_Off, PDC_Init
<1>2. Good(d, mem) /\ Locked(d) /\ mem \in Memory
  <2>1. CASE d = Ctrl_SVW(Display, mem, SLU, 0, TRUE)
    <3> DEFINE e == Ctrl_SVW(Display, mem, SLU, 0, TRUE)
    <3> HIDE DEF e
    <3>1. SLU \in Int /\ 0 \in Int /\ 0 <= 0 /\ TRUE \in BOOLEAN
      BY RunningBounds
    <3>2. /\ Inside(e) /\ OnLine(e) /\ Shows(e, mem)
          /\ e.slu = Display.slu /\ e.sll = Display.sll
      BY <3>1, RunningGood, CtrlSVWGood DEF e
    <3>3. d = e
      BY <2>1 DEF e
    <3> QED
      BY <3>2, <3>3, RunningGood, DisplayFields DEF Good, Locked
  <2> QED
    BY <1>1, <2>1, RunningGood, HomesGood DEF Good
<1>3. crashed' \in BOOLEAN
  BY <1>1 DEF IInv, TypeOK
<1>4. MLU' \in Row /\ MLL' \in Row /\ d.slu <= MLU' /\ d.sll <= MLL'
  BY <1>1, <1>2, RunningBounds DEF Locked
<1> QED
  BY <1>1, <1>2, <1>3, <1>4, BecomeStep

\* The console's cursor goes astray when the console is cleared, and nothing
\* else of the window changes.
LEMMA ClearedGood ==
  ASSUME IInv, Running, NEW t \in [Screen -> Line \cup {"skipped"}]
  PROVE  /\ Inside(Cleared(t)) /\ OnLine(Cleared(t)) /\ Locked(Cleared(t))
         /\ Cleared(t).screen = t
<1>1. Display \in DisplayType /\ Locks(Display)
  BY RunningGood DEF Inside
<1>2. /\ Cleared(t) \in DisplayType
      /\ Cleared(t).screen = t /\ Cleared(t).curs = 0 /\ Cleared(t).strayed = TRUE
      /\ Cleared(t).svw = Display.svw /\ Cleared(t).row = Display.row
      /\ Cleared(t).slu = Display.slu /\ Cleared(t).sll = Display.sll
  <2>1. t \in [Screen -> Shown] /\ 0 \in Int
    BY DEF Shown
  <2> DEFINE d == Display
  <2>2. d \in DisplayType
    BY <1>1
  <2> HIDE DEF d
  <2>3. Cleared(t) = [d EXCEPT !.screen = t, !.curs = 0, !.strayed = TRUE]
    BY DEF Cleared, d
  <2>4. /\ Cleared(t) \in DisplayType
        /\ Cleared(t).screen = t /\ Cleared(t).curs = 0 /\ Cleared(t).strayed = TRUE
        /\ Cleared(t).svw = d.svw /\ Cleared(t).row = d.row
        /\ Cleared(t).slu = d.slu /\ Cleared(t).sll = d.sll
    BY <2>1, <2>2, <2>3 DEF DisplayType
  <2> QED
    BY <2>4 DEF d
<1>3. Inside(Display) /\ OnLine(Display) /\ Locked(Display)
  BY RunningGood
<1>4. Inside(Cleared(t))
  BY <1>2, <1>3 DEF Inside, Locks
<1>5. OnLine(Cleared(t))
  <2>1. 0 \in Screen
    BY ConstantsAssumption DEF Screen
  <2> QED
    BY <1>2, <1>3, <2>1 DEF OnLine
<1> QED
  BY <1>2, <1>3, <1>4, <1>5 DEF Locked

\* A resize, which redraws every line, and the reset key, which redraws none.
LEMMA ConsoleStep ==
  ASSUME IInv, Running, Resize \/ Reset
  PROVE  Stays
<1>1. CASE Resize
  <2> DEFINE d == Cleared([s \in Screen |-> "blank"])
  <2> HIDE DEF d
  <2>1. Inside(d) /\ OnLine(d) /\ Locked(d) /\ mem \in Memory
    BY ClearedGood, RunningGood, ConstantsAssumption DEF d
  <2>2. Same(d, Redraw_All(d, mem)) /\ Shows(Redraw_All(d, mem), mem)
    BY <2>1, AllShows
  <2>3. Good(Redraw_All(d, mem), mem) /\ Locked(Redraw_All(d, mem))
    BY <2>1, <2>2, SameInside DEF Good, Same, Locked
  <2> QED
    BY <1>1, <2>1, <2>3, ShowStep DEF Resize, d
<1>2. CASE Reset
  <2> DEFINE d == Cleared([s \in Screen |-> "skipped"])
  <2> HIDE DEF d
  <2>1. Inside(d) /\ OnLine(d) /\ Locked(d) /\ mem \in Memory
        /\ d.screen = [s \in Screen |-> "skipped"]
    BY ClearedGood, RunningGood DEF d
  <2>2. Good(d, mem)
    BY <2>1 DEF Good, Shows
  <2> QED
    BY <1>2, <2>1, <2>2, ShowStep DEF Reset, d
<1> QED
  BY <1>1, <1>2

\* The commands that touch the whole memory.
LEMMA WholeNextStep ==
  ASSUME IInv, Running, WholeNext
  PROVE  Stays
<1>1. CASE PDC_Video_On
  <2>1. Same(Display, Redraw_All(Display, mem)) /\ Shows(Redraw_All(Display, mem), mem)
    BY RunningGood, AllShows
  <2> QED
    BY <1>1, <2>1, RunningGood, SameSetStep DEF PDC_Video_On
<1> QED
  BY <1>1, ClrAllStep, HardResetStep, FormatStep, ConsoleStep DEF WholeNext

-----------------------------------------------------------------------------
(* The theorems.                                                           *)

\* Nothing happens after a crash, or with the cursor outside of the memory.
LEMMA ShowRuns ==
  /\ \A e, m : Become(e, m) => Running
  /\ \A e, m : Show(e, m) => Running
BY DEF Show, Become

\* A line feed happens only while the program runs.
LEMMA LinefeedRuns ==
  ASSUME NEW d, Linefeed(d)
  PROVE  Running
<1>1. \/ \E e, m : Show(e, m)
      \/ Running
  BY Zenon DEF Linefeed
<1> QED
  BY <1>1, ShowRuns

\* So does every command.
LEMMA NextRuns ==
  ASSUME Next
  PROVE  Running
<1>1. CASE CursorNext
  <2>1. PDC_Linefeed \/ PDC_New_Line => Running
    BY LinefeedRuns DEF PDC_Linefeed, PDC_New_Line
  <2>2. PDC_Cursor_Home => Running
    BY ShowRuns DEF PDC_Cursor_Home
  <2>3. PDC_Carr_Return => Running
    BY ShowRuns DEF PDC_Carr_Return
  <2>4. PDC_Next_Tab \/ PDC_Prev_Tab \/ PDC_Csr_Antihome => Running
    BY <2>1, <2>2, <2>3, ShowRuns
       DEF PDC_Next_Tab, PDC_Prev_Tab, PDC_Csr_Antihome
  <2>5. PDC_Cursor_Up \/ PDC_Cursor_Down \/ (\E y \in Number : PDC_Set_Cursor(y))
          => Running
    BY ShowRuns DEF PDC_Cursor_Up, PDC_Cursor_Down, PDC_Set_Cursor
  <2> QED
    BY <1>1, <2>1, <2>2, <2>3, <2>4, <2>5 DEF CursorNext
<1>2. CASE WindowNext
  <2>1. PDC_Next_Page \/ PDC_Prev_Page \/ PDC_Roll_Up \/ PDC_Roll_Down => Running
    BY ShowRuns DEF PDC_Next_Page, PDC_Prev_Page, PDC_Roll_Up, PDC_Roll_Down
  <2>2. \A a, b \in Number : PDC_Set_Mem_Lock(a, b) \/ PDC_Set_Scr_Lock(a, b)
                               => Running
    BY ShowRuns DEF PDC_Set_Mem_Lock, PDC_Set_Scr_Lock
  <2>3. \A y1, y2 \in Number, ok \in BOOLEAN : PDC_Ctrl_SVW(y1, y2, ok) => Running
    BY ShowRuns DEF PDC_Ctrl_SVW
  <2> QED
    BY <1>2, <2>1, <2>2, <2>3 DEF WindowNext
<1>3. CASE LineNext
  BY <1>3, ShowRuns DEF LineNext, PDC_Insert_Line, PDC_Del_Line,
     PDC_Dir_Line_Ins, PDC_Dir_Line_Del
<1>4. CASE TextNext
  <2>1. \A t \in Line : WN_Putc(t) \/ PDC_Backspace(t) \/ PDC_Del_Ch(t)
                          \/ PDC_Clr_Line(t) => Running
    BY ShowRuns DEF WN_Putc, PDC_Backspace, PDC_Del_Ch, PDC_Clr_Line
  <2>2. \A t \in Line : /\ \A y \in Row : WN_Putch_Abs(y, t) => Running
                        /\ \A b \in Blocks : WriteBlock(b, t) => Running
                        /\ \A kept : PDC_Clr_Par(t, kept) => Running
    BY ShowRuns DEF WN_Putch_Abs, WriteBlock, PDC_Clr_Par
  <2> QED
    BY <1>4, <2>1, <2>2 DEF TextNext
<1>5. CASE WholeNext
  BY <1>5, ShowRuns DEF WholeNext, PDC_Clr_All, PDC_Hard_Reset, PDC_Video_On,
     PDC_Format_On, PDC_Format_Off, PDC_Init, Resize, Reset
<1> QED
  BY <1>1, <1>2, <1>3, <1>4, <1>5 DEF Next

\* WN_Init sets the invariant up.
LEMMA InitGood ==
  ASSUME Init
  PROVE  IInv
<1>1. TypeOK
  <2>1. 0 \in Row /\ 0 \in Screen /\ 0 \in Int /\ "blank" \in Line
    BY ConstantsAssumption DEF Row, Screen
  <2>2. mem \in [Row -> Line] /\ screen \in [Screen -> Line \cup {"skipped"}]
    BY <2>1 DEF Init
  <2> QED
    BY <2>1, <2>2 DEF Init, TypeOK
<1>2. Inside(Display)
  <2>1. Display \in DisplayType
    BY <1>1, ConstantsAssumption
       DEF TypeOK, Display, DisplayType, Shown, Row, Screen
  <2> QED
    BY <2>1, DisplayFields, ConstantsAssumption DEF Init, Inside, Locks
<1>3. OnLine(Display)
  <2>1. 0 \in Row /\ 0 \in Screen
    BY ConstantsAssumption DEF Row, Screen
  <2>2. Source(Display, 0) = 0
    BY DisplayFields, ConstantsAssumption DEF Init, Source
  <2> QED
    BY <2>1, <2>2, DisplayFields DEF Init, OnLine
<1>4. Shows(Display, mem)
  BY <1>2, DisplayFields, SourceIsPlaced DEF Init, Shows
<1> QED
  BY <1>1, <1>2, <1>3, <1>4 DEF Init, IInv, Good

\* Every command keeps the invariant.
LEMMA StepGood ==
  ASSUME IInv, [Next]_vars
  PROVE  IInv' /\ (Stays \/ LocksBlind \/ UNCHANGED vars)
<1>1. CASE Next
  <2>1. Running
    BY <1>1, NextRuns
  <2> QED
    BY <1>1, <2>1, CursorNextStep, WindowNextStep, LineNextStep, TextNextStep,
       WholeNextStep DEF Next, Stays
<1>2. CASE UNCHANGED vars
  <2>1. TypeOK' /\ Display' = Display /\ UNCHANGED <<mem, MLU, MLL, SLU, SLL, Cur_Row>>
    BY <1>2 DEF IInv, vars, TypeOK, Display
  <2> QED
    BY <1>2, <2>1 DEF IInv
<1> QED
  BY <1>1, <1>2

\* The inductive invariant holds after every sequence of commands.
LEMMA AlwaysGood == Spec => []IInv
<1>1. Init => IInv
  BY InitGood
<1>2. IInv /\ [Next]_vars => IInv'
  BY StepGood
<1> QED
  BY <1>1, <1>2, PTL DEF Spec

\* Lines, screen lines and locks stay in their ranges.
THEOREM WindowTypeCorrect == Spec => []TypeOK
<1>1. IInv => TypeOK
  BY DEF IInv
<1> QED
  BY <1>1, AlwaysGood, PTL

\* The window stays between what the screen locks show, and the screen locks
\* no line that the memory does not (PDC_Set_Mem_Lock, PDC_Set_Scr_Lock, the
\* pages and the rolls).
THEOREM WindowStaysInside == Spec => []WindowInside
<1>1. ASSUME IInv, Cur_Row \in Row
      PROVE  /\ SLU <= SVW_Row /\ SVW_Row <= SLU + Rows - Scr
             /\ SLU + SLL <= Scr - 1
             /\ SLU <= MLU /\ SLL <= MLL
  BY <1>1, InsideBounds, DisplayFields DEF IInv, Good
<1>2. IInv => WindowInside
  BY <1>1 DEF WindowInside
<1> QED
  BY <1>2, AlwaysGood, PTL

\* The console's cursor is where the terminal's cursor is shown, whatever
\* moved the window (WN_Set_Cursor, and the handlers that forget it).
THEOREM CursorIsFollowed == Spec => []CursorFollows
<1>1. IInv => CursorFollows
  BY DisplayFields DEF IInv, Good, OnLine, CursorFollows
<1> QED
  BY <1>1, AlwaysGood, PTL

\* The terminal's cursor leaves the memory by one command only: by
\* PDC_Set_Scr_Lock, when the window has been moved away from the cursor's line
\* and WN_Calc_Dspl leaves the place of the cursor unset.
CursorKept ==
  [][Cur_Row' \notin Row =>
       strayed /\ ~Displayed(Display, Cur_Row)
       /\ \E a, b \in Number : PDC_Set_Scr_Lock(a, b)]_vars

THEOREM CursorIsKept == Spec => CursorKept
<1>1. ASSUME IInv, [Next]_vars, ~UNCHANGED vars, Cur_Row' \notin Row
      PROVE  strayed /\ LocksBlind
  <2>1. LocksBlind
    BY <1>1, StepGood DEF Stays
  <2>2. Running
    BY <1>1, NextRuns
  <2>3. ~strayed => Displayed(Display, Cur_Row)
    <3>1. Inside(Display) /\ curs \in Screen
          /\ (~strayed => Source(Display, curs) = Cur_Row)
      BY <1>1, <2>2, RunningGood, DisplayFields DEF OnLine
    <3> QED
      BY <3>1, SourceIsPlaced
  <2> QED
    BY <2>1, <2>3 DEF LocksBlind
<1>2. IInv /\ [Next]_vars =>
        [Cur_Row' \notin Row =>
           strayed /\ ~Displayed(Display, Cur_Row)
           /\ \E a, b \in Number : PDC_Set_Scr_Lock(a, b)]_vars
  BY <1>1 DEF LocksBlind
<1> QED
  BY <1>2, AlwaysGood, PTL DEF Spec, CursorKept

\* What GConsole::CursorPos asserts holds in every state but those in which
\* the terminal's cursor has left the memory.
CursorAssertedInside == Cur_Row \in Row => CursorAsserted

THEOREM CursorIsAsserted == Spec => []CursorAssertedInside
<1>1. IInv => CursorAssertedInside
  BY DisplayFields, ConstantsAssumption
     DEF IInv, Good, OnLine, Screen, CursorAsserted, CursorAssertedInside
<1> QED
  BY <1>1, AlwaysGood, PTL

\* The screen shows the memory after every command, although none but
\* WN_Redraw_All redraws all of it.
THEOREM ScreenIsTrue == Spec => []ScreenShowsMemory
<1>1. IInv => ScreenShowsMemory
  BY DisplayFields DEF IInv, Good, Shows, ScreenShowsMemory
<1> QED
  BY <1>1, AlwaysGood, PTL

\* Scrolling does not move the lines kept from it (PDC_Linefeed, PDC_New_Line,
\* PDC_Insert_Line, PDC_Del_Line).
THEOREM LockedRowsAreKept == Spec => LockedRowsKept
<1> DEFINE Kept == \A r \in Row : (r < MLU \/ r > Rows - 1 - MLL) => mem'[r] = mem[r]
<1>1. ASSUME IInv, MLU + MLL < Rows, NEW d, Linefeed(d)
      PROVE  Kept
  <2> DEFINE a == Rows - 1 - MLL
  <2>1. Running
    BY <1>1, LinefeedRuns
  <2>2. \/ mem' = mem
        \/ mem' = Scrolled(MLU, a)
    BY <1>1, Zenon DEF Linefeed, Show, Become
  <2>3. a \in Row /\ MLU \in Row /\ MLU <= a /\ mem \in Memory
    BY <1>1, <2>1, RunningBounds, RunningGood DEF Row
  <2> QED
    BY <2>2, <2>3, ScrolledRows
<1>2. ASSUME IInv, MLU + MLL < Rows, PDC_Insert_Line
      PROVE  Kept
  <2> DEFINE c == Rows - 1 - MLL
             m == [r \in Row |-> IF r = Cur_Row THEN "blank"
                                 ELSE IF Cur_Row < r /\ r <= c THEN mem[r - 1]
                                 ELSE mem[r]]
  <2>1. Running /\ mem' = m /\ Cur_Row >= MLU /\ c >= Cur_Row
    BY <1>2 DEF PDC_Insert_Line, Show, Become
  <2>2. ASSUME NEW r \in Row, r < MLU \/ r > c
        PROVE  r # Cur_Row /\ ~(Cur_Row < r /\ r <= c)
    BY <1>2, <2>1, <2>2, RunningBounds DEF Row
  <2> QED
    BY <2>1, <2>2
<1>3. ASSUME IInv, MLU + MLL < Rows, PDC_Del_Line
      PROVE  Kept
  <2> DEFINE c == Rows - 1 - MLL
  <2>1. Running /\ mem' = Scrolled(Cur_Row, c) /\ Cur_Row >= MLU /\ c >= Cur_Row
    BY <1>3 DEF PDC_Del_Line, Show, Become
  <2>2. c \in Row /\ Cur_Row \in Row /\ mem \in Memory
    BY <1>3, <2>1, RunningBounds, RunningGood DEF Row
  <2>3. \A r \in Row : r < Cur_Row \/ r > c => mem'[r] = mem[r]
    BY <2>1, <2>2, ScrolledRows
  <2>4. ASSUME NEW r \in Row, r < MLU PROVE r < Cur_Row
    BY <1>3, <2>1, <2>4, RunningBounds DEF Row
  <2> QED
    BY <2>3, <2>4
<1>4. ASSUME IInv, MLU + MLL < Rows,
             PDC_Linefeed \/ PDC_New_Line \/ PDC_Insert_Line \/ PDC_Del_Line
      PROVE  Kept
  BY <1>1, <1>2, <1>3, <1>4 DEF PDC_Linefeed, PDC_New_Line
<1>5. IInv =>
        [/\ MLU + MLL < Rows
         /\ \E r \in Row : (r < MLU \/ r > Rows - 1 - MLL) /\ mem'[r] # mem[r]
         => ~ (PDC_Linefeed \/ PDC_New_Line \/ PDC_Insert_Line \/ PDC_Del_Line)]_vars
  BY <1>4
<1> QED
  BY <1>5, AlwaysGood, PTL DEF Spec, LockedRowsKept
=============================================================================
