------------------------------ MODULE Picture ------------------------------
(***************************************************************************)
(* What the console (GConsole) promises, without its marks, counters and   *)
(* events: the program writes cells, now and then the whole of what is     *)
(* written is drawn, and the window shows what was drawn.  Nothing is ever *)
(* drawn in part, and a window shows no mixture of two drawings.           *)
(***************************************************************************)
CONSTANTS Place,   \* the cells a user can see
          Ink,     \* what a cell can hold
          Nothing  \* a cell that was never drawn, or was lost from the window

VARIABLES written, \* what the program wrote last
          drawn,   \* what was drawn last, in memory
          shown    \* what the user sees

vars == <<written, drawn, shown>>

Empty == [p \in Place |-> Nothing]

Init == written \in [Place -> Ink] /\ drawn = Empty /\ shown = Empty

\* The program writes anywhere, at any time.
Write == written' \in [Place -> Ink] /\ UNCHANGED <<drawn, shown>>

\* All that is written is drawn at once.
Draw == drawn' = written /\ UNCHANGED <<written, shown>>

\* The window shows what was drawn.
Show == shown' = drawn /\ UNCHANGED <<written, drawn>>

\* The window loses its picture, another window was over it.
Lose == shown' = Empty /\ UNCHANGED <<written, drawn>>

\* The picture is made anew, for a window of another size.
Renew == drawn' = Empty /\ written' \in [Place -> Ink] /\ UNCHANGED shown

Next == Write \/ Draw \/ Show \/ Lose \/ Renew

Spec == Init /\ [][Next]_vars
=============================================================================
