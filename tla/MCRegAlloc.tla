----------------------------- MODULE MCRegAlloc -----------------------------
(* RegAlloc over every straight function of four instructions, with calls   *)
(* of two arguments or through a temporary and a temporary of 64 bits, and  *)
(* every function of four or five instructions with a branch anywhere.      *)
EXTENDS RegAlloc

Shape(n, operands, args, wide, indirect, unused) ==
  [instrs |-> n, operands |-> operands, args |-> args, branches |-> 0, conds |-> 0,
   wide |-> wide, indirect |-> indirect, unused |-> unused]

Straight ==
  {Shape(4, 1, 2, 1, FALSE, {"call"}), Shape(4, 0, 2, 0, TRUE, {}), Shape(4, 1, 1, 1, TRUE, {"call"})}

Branching ==
  {[Shape(4, 2, 1, 0, FALSE, {"call"}) EXCEPT !.branches = 1, !.conds = 1],
   [Shape(4, 1, 1, 0, FALSE, {"op", "move", "call"}) EXCEPT !.branches = 1],
   [Shape(5, 1, 1, 0, FALSE, {"call"}) EXCEPT !.branches = 1]}

MCShapes == Straight \cup Branching
=============================================================================
