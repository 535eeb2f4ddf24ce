----------------------------- MODULE ByteStream -----------------------------
(***************************************************************************)
(* What the sending side of the serial port promises: the bytes it         *)
(* accepted, numbered 1, 2, 3, ... as they were accepted, go out on the    *)
(* line in that order, each once.  After a transmission the driver         *)
(* reports as failed, the sender does not know how far it got and starts   *)
(* again at a byte that may have gone out already; no byte is skipped.     *)
(***************************************************************************)
EXTENDS Naturals, Sequences

VARIABLES accepted,  \* number of bytes accepted so far
          wire,      \* the bytes that went out on the line
          again      \* a transmission failed and nothing went out since

streamVars == <<accepted, wire, again>>

Init == accepted = 0 /\ wire = <<>> /\ again = FALSE

Latest == IF wire = <<>> THEN 0 ELSE wire[Len(wire)]

Accept == /\ accepted' \in Nat /\ accepted' > accepted
          /\ UNCHANGED <<wire, again>>

Send == \E b \in 1..accepted :
          /\ IF again THEN b <= Latest + 1 ELSE b = Latest + 1
          /\ wire' = Append(wire, b)
          /\ again' = FALSE
          /\ UNCHANGED accepted

Fail == again' = TRUE /\ UNCHANGED <<accepted, wire>>

Next == Accept \/ Send \/ Fail

Spec == Init /\ [][Next]_streamVars
=============================================================================
