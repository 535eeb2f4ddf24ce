----------------------------- MODULE MCConsole -----------------------------
(* Console on a small grid: lines of two cells, two of three lines drawn,   *)
(* words of three bits, so that a word holds cells of two lines and the     *)
(* last drawn cell shares its word with cells that are not drawn.           *)
EXTENDS Console
CONSTANTS a, none, nl

MCChar == {" ", a}
MCText == {<<a, a>>, <<a, a, a, nl>>}
MCSize == {"normal", "block"}
=============================================================================
