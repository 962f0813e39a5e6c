---------------------------- MODULE MCLparDialog ----------------------------
(***************************************************************************)
(* Instances of LparDialog: the LPAR of the dialog and another one.        *)
(***************************************************************************)
EXTENDS LparDialog

CONSTANTS l1, l2
=============================================================================
