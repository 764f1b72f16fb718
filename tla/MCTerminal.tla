----------------------------- MODULE MCTerminal -----------------------------
(* A small instance of Terminal for TLC. *)
EXTENDS Terminal

\* VGA: two columns and two rows.  VESA: two characters by two lines, and
\* twelve pixels that are not enough for a third.
MCWidth == [vga |-> 2, vesa |-> 32]
MCHeight == [vga |-> 2, vesa |-> 96]
=============================================================================
