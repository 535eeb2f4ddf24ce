------------------------------ MODULE Framing -------------------------------
(***************************************************************************)
(* How the bytes of the host are cut into commands: text, a prefix, and    *)
(* parts whose number of bytes is known when they begin.  A part takes one *)
(* byte after the other and ends with its last one, neither earlier nor    *)
(* later; then the next part of the command begins or the text goes on.    *)
(* The host may give a part up, by a new prefix or by cancelling.          *)
(***************************************************************************)
EXTENDS Naturals

VARIABLES mode,  \* "text", "prefix", "part", "print" or "test"
          left   \* bytes the part still takes

framingVars == <<mode, left>>

Init == mode = "text" /\ left = 0

\* What is not a part takes no bytes.  The test mode is left by a prefix and
\* a byte of its own, printing by cancelling.
Read ==
  /\ mode # "part" /\ left' = 0
  /\ \/ mode = "text" /\ mode' \in {"text", "prefix"}
     \/ mode = "prefix" /\ mode' \in {"text", "prefix", "print", "test"}
     \/ mode = "print" /\ mode' = "print"
     \/ mode = "test" /\ mode' \in {"test", "text"}

Begin == mode = "prefix" /\ mode' = "part" /\ left' \in Nat \ {0}

Take == mode = "part" /\ left > 1 /\ left' = left - 1 /\ UNCHANGED mode

Last ==
  /\ mode = "part" /\ left = 1
  /\ \/ mode' = "text" /\ left' = 0
     \/ mode' = "part" /\ left' \in Nat \ {0}

GiveUp == mode = "part" /\ mode' = "prefix" /\ left' = 0

Cancel == mode # "test" /\ mode' = "text" /\ left' = 0

Next == Read \/ Begin \/ Take \/ Last \/ GiveUp \/ Cancel

Spec == Init /\ [][Next]_framingVars
=============================================================================
