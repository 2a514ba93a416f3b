----------------------------- MODULE MCFdTable -----------------------------
(* FdTable with a few host handles; Handles is a set of model values.      *)
EXTENDS FdTable
=============================================================================
