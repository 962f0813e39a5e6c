---------------------------- MODULE MCLineEditor ----------------------------
(***************************************************************************)
(* Instances of LineEditor: short lines of two letters and the blank.      *)
(***************************************************************************)
EXTENDS LineEditor

CONSTANTS a, b, blank, nul

UsualKeys == {"char", "left", "right", "backspace", "delete", "enter"}
=============================================================================
