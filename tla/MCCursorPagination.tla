------------------------- MODULE MCCursorPagination -------------------------
(* A small instance of CursorPagination for TLC: pages of two, over a full *)
(* page of rows that grows and shrinks, and over three pages, from the     *)
(* last of which the way back leads to one in the middle.                  *)
EXTENDS CursorPagination
=============================================================================
