----------------------------- MODULE MCBytecode -----------------------------
(***************************************************************************)
(* Small functions for Bytecode: one instruction of every kind, type and   *)
(* operand class and then a return, or a branch among four blocks; calls   *)
(* in a loop; functions that are too long for a branch, or for the text.   *)
(***************************************************************************)
EXTENDS Bytecode

Reg(r) == <<"reg", r>>
K(v)   == <<"const", v>>
G(v)   == <<"gvar", v>>
Fn(f)  == <<"func", f>>
A == Reg(8)
B == Reg(16)
C == Reg(24)
D == Reg(32)

\* Registers 0 and 4 are scratch; a 64 bit value takes two slots.
File(a, a2, b, b2, c, d) ==
  [r \in {4 * i : i \in 0..9} |->
     CASE r = 8 -> a [] r = 12 -> a2 [] r = 16 -> b [] r = 20 -> b2
       [] r = 24 -> c [] r = 32 -> d [] OTHER -> 21]

MCRegFiles ==
  {File(1, 0, 2, 0, 1, 9), File(2, 0, 1, 0, 0, 3), File(0, 0, 3, 0, 1, 0),
   File(6, 0, 6, 0, 0, 1), File(29, 31, 3, 0, 1, 4), File(31, 31, 31, 31, 0, 5),
   File(16, 16, 31, 31, 1, 7), File(4, 3, 12, 3, 6, 2), File(15, 16, 16, 15, 1, 8),
   File(9, 1, 0, 1, 31, 6)}

\* Constants of a type; a narrow negative one is stored sign extended.
Consts(ty) == CASE ty = "i1" -> {0, 1} [] ty = "i8" -> {1, 2, 29} [] ty = "i16" -> {2, 27}
                [] ty \in {"i32", "ptr"} -> {1, 2, 31, 17} [] ty = "i64" -> {1, 515, 1023}
                [] ty = "flt" -> {3, 31} [] ty = "dbl" -> {3, 515}

Void == [c |-> "RET", ty |-> "i32", val |-> None]

\* A function of one block, and one that branches in the second of four
Straight(is) == {<<<<ii, Void>>>> : ii \in is}
Jump0(bb) == [c |-> "BR", cond |-> None, t |-> bb, f |-> bb]
Branching(is) ==
  {<<<<Jump0(2)>>, <<ii>>, <<[Void EXCEPT !.val = K(1)]>>, <<Void>>>> : ii \in is}

\* Two operands of a type, not both constant
Pairs(ty) == {<<A, B>>} \cup {<<A, K(v)>> : v \in Consts(ty)}

-----------------------------------------------------------------------------
Arithmetic ==
  {[c |-> "BINOP", op |-> op, ty |-> ty, lhs |-> p[1], rhs |-> p[2],
    ret |-> IF IsReg(p[2]) THEN A ELSE D] :
     <<op, ty, p>> \in {x \in Range(Binops) \X Ints \X UNION {Pairs(t) : t \in Ints} :
                          x[3] \in Pairs(x[2])}}
  \cup {[c |-> "BINOP", op |-> op, ty |-> ty, lhs |-> A, rhs |-> y, ret |-> B] :
          op \in {"ADD", "SUB", "MUL", "UDIV", "SDIV", "XOR"}, ty \in Floats, y \in {B, K(3)}}
  \cup {[c |-> "BINOP", op |-> "SUB", ty |-> "i32", lhs |-> K(2), rhs |-> B, ret |-> D],
        [c |-> "MLA", ty |-> "i32", a1 |-> A, a2 |-> B, a3 |-> C, ret |-> A],
        [c |-> "MLA", ty |-> "i64", a1 |-> A, a2 |-> B, a3 |-> C, ret |-> D]}

\* Three ways to compare: registers, a constant second, a constant first
Compared(ty) == Pairs(ty) \cup {<<p[2], p[1]>> : p \in Pairs(ty)}

Comparisons ==
  {[c |-> "CMP2", op |-> op, ty |-> ty, lhs |-> p[1], rhs |-> p[2], ret |-> D] :
     <<op, ty, p>> \in {x \in Range(Icmps) \X {"i8", "i16", "i32", "ptr", "i64"}
                                \X UNION {Compared(t) : t \in Ints} :
                          x[3] \in Compared(x[2])}}
  \cup {[c |-> "CMP2", op |-> op, ty |-> ty, lhs |-> p[1], rhs |-> p[2], ret |-> D] :
          op \in Range(Fcmps), ty \in Floats, p \in Compared("flt")}
  \cup {[c |-> "CMP2", op |-> "EQ", ty |-> ty, lhs |-> A, rhs |-> G(5), ret |-> D] :
          ty \in {"ptr", "i32"}}
  \cup {[c |-> "CMP_SELECT", op |-> op, ty |-> ty, lhs |-> p[1], rhs |-> p[2],
         tv |-> q[1], fv |-> q[2], ret |-> D] :
          op \in Range(Icmps), ty \in {"i32"}, p \in {<<A, B>>, <<A, K(17)>>, <<K(2), B>>},
          q \in {<<A, C>>, <<K(3), B>>, <<C, K(5)>>, <<K(7), K(9)>>}}
  \cup {[c |-> "CMP_SELECT", op |-> "EQ", ty |-> ty, lhs |-> A, rhs |-> B,
         tv |-> x, fv |-> C, ret |-> D] : ty \in {"i32", "i64"}, x \in {A, Fn(1)}}

Decisions ==
  {[c |-> "CMP_BRANCH", op |-> op, ty |-> ty, lhs |-> p[1], rhs |-> p[2], t |-> q[1], f |-> q[2]] :
     <<op, ty, p, q>> \in {<<o, t, p, q>> \in Range(Icmps) \X {"i8", "i16", "i32"}
                             \X {<<A, B>>, <<A, K(29)>>, <<K(2), B>>} \X {<<3, 4>>, <<4, 1>>} :
                             t = "i16" => o = "EQ"}}
  \cup {[c |-> "CMP_BRANCH", op |-> "NE", ty |-> "ptr", lhs |-> A, rhs |-> x, t |-> 4, f |-> 2] :
          x \in {G(6), Fn(2), K(0)}}
  \cup {[c |-> "CMP_BRANCH", op |-> "F_OEQ", ty |-> "flt", lhs |-> A, rhs |-> B,
         t |-> 3, f |-> 4]}
  \cup {[c |-> "BR", cond |-> x, t |-> p[1], f |-> p[2]] :
          x \in {C, K(0), K(1), G(3)}, p \in {<<3, 4>>, <<4, 2>>, <<1, 3>>}}
  \cup {Jump0(bb) : bb \in 1..4}

\* Sorted paths; block numbers tell them apart.
PathSets == {<<>>, <<<<1, 3>>>>, <<<<0, 3>>, <<2, 4>>>>, <<<<1, 4>>, <<2, 1>>, <<6, 3>>>>}
Switches ==
  {[c |-> "SWITCH", ty |-> ty, bits |-> 0, val |-> A, paths |-> ps, def |-> 4] :
     ty \in {"i8", "i16", "i32", "i64", "flt"}, ps \in PathSets}
  \cup {[c |-> "SWITCH", ty |-> "ix", bits |-> n, val |-> A, paths |-> ps, def |-> 4] :
          n \in {2, 3}, ps \in {x \in PathSets : Len(x) < 3}}
  \cup {[c |-> "SWITCH", ty |-> "i1", bits |-> 0, val |-> C, paths |-> <<<<1, 3>>>>, def |-> 4],
        [c |-> "SWITCH", ty |-> "i64", bits |-> 0, val |-> A,
         paths |-> <<<<1, 3>>, <<515, 4>>, <<1021, 1>>>>, def |-> 2]}

-----------------------------------------------------------------------------
AllTypes == Ints \cup Floats \cup {"ptr"}

Load == [c |-> "LOAD", ty |-> "i32", src |-> B, off |-> 0, roff |-> None, mul |-> 0,
         cast |-> "", lty |-> "i32", ret |-> D]

Loads ==
  {[Load EXCEPT !.ty = ty, !.off = off, !.roff = r, !.mul = 3, !.src = x] :
     ty \in AllTypes, off \in {0, 5, -3}, r \in {None, C}, x \in {B, G(6), Fn(1)}}
  \cup {[Load EXCEPT !.off = 8], [Load EXCEPT !.roff = C, !.mul = 9],
        [Load EXCEPT !.ty = "i64", !.ret = B]}
  \cup {[Load EXCEPT !.ty = ty, !.lty = lty, !.cast = x, !.off = 3, !.roff = r,
                     !.mul = 5, !.src = s] :
          ty \in {"i32", "i64"}, lty \in {"i8", "i16"}, x \in {"ZEXT", "SEXT"},
          r \in {None, C}, s \in {A, G(6)}}

Stores ==
  {[c |-> "STORE", ty |-> ty, val |-> v, ptr |-> p, off |-> off] :
     ty \in AllTypes, v \in {A, K(3), K(31)}, p \in {B, G(9)}, off \in {0, 5, -3}}
  \cup {[c |-> "STORE", ty |-> ty, val |-> v, ptr |-> p, off |-> 0] :
          ty \in {"ptr", "i32", "func"}, v \in {G(4), Fn(2)}, p \in {B, G(9)}}

Moves ==
  {[c |-> "MOVE", ty |-> ty, val |-> v, ret |-> D, ret2 |-> None] :
     ty \in AllTypes, v \in {A, K(29), G(5), Fn(1)}}
  \cup {[c |-> "MOVE", ty |-> "i32", val |-> v, ret |-> D, ret2 |-> r] :
          v \in {A, K(515)}, r \in {Reg(36), C}}

Addresses ==
  {[c |-> "LEA", base |-> A, voff |-> v, vty |-> ty, mul |-> mu, off |-> off, ret |-> x] :
     v \in {B, None}, ty \in {"i32", "i64"}, mu \in {1, 3, 4, 8}, off \in {0, 7, 30}, x \in {A, D}}

Casts ==
  {[c |-> "CAST", ty |-> k[1], op |-> k[2], from |-> k[3], val |-> A, ret |-> x] :
     k \in IntCasts \cup FloatCasts
            \cup {<<"i8", "ZEXT", "i1">>, <<"i32", "ZEXT", "i1">>, <<"i32", "BITCAST", "flt">>,
                  <<"dbl", "BITCAST", "i64">>, <<"i64", "PTRTOINT", "ptr">>,
                  <<"i8", "SEXT", "i32">>},
     x \in {A, D}}

Selects ==
  {[c |-> "SELECT", ty |-> ty, pred |-> C, tv |-> x, fv |-> y, ret |-> A] :
     ty \in AllTypes, x \in {A, K(29), G(5)}, y \in {B, K(2), G(7)}}

Returns == {[c |-> "RET", ty |-> ty, val |-> v] : ty \in AllTypes, v \in {A, K(29), K(1)}}
             \cup {[c |-> "RET", ty |-> ty, val |-> G(7)] : ty \in {"ptr", "i32"}}
             \cup {[c |-> "RET", ty |-> "ptr", val |-> Fn(2)]}

-----------------------------------------------------------------------------
Vmop(f, rets, args) == [c |-> "VMOP", op |-> f, rets |-> rets, args |-> args]
R32(n) == SubSeq(<<<<"i32", 8>>, <<"i32", 16>>, <<"i32", 24>>>>, 1, n)

Vmops ==
  {Vmop(f, <<<<"dbl", 32>>>>, SubSeq(<<<<"dbl", 8>>, <<"dbl", 16>>>>, 1,
                                     IF f \in Binary THEN 2 ELSE 1)) : f \in DblFuncs}
  \cup {Vmop(f, <<<<"flt", 32>>>>, SubSeq(<<<<"flt", 8>>, <<"flt", 16>>>>, 1,
                                          IF f \in Binary THEN 2 ELSE 1)) : f \in FltFuncs}
  \cup {Vmop(f, <<<<"i32", 8>>>>, R32(Returning[f])) : f \in DOMAIN Returning}
  \cup {Vmop(f, <<<<"i32", 8>>>>, R32(Computing[f])) : f \in DOMAIN Computing}
  \cup {Vmop(f, <<<<"i32", 32>>>>, R32(1)) : f \in {"ABS", "CTZ32", "CLZ32", "POP32"}}
  \cup {Vmop(f, <<<<"i64", 32>>>>, <<<<"i64", 8>>>>) : f \in {"CTZ64", "CLZ64", "POP64"}}
  \cup {Vmop(f, <<<<"i32", 24>>, <<"i1", 32>>>>, R32(2)) : f \in {"UADDO32", "UMULO32"}}
  \cup {Vmop("LLVM_MEMCPY", <<>>, R32(3)), Vmop("VASTART", <<>>, R32(2)),
        Vmop("VACOPY", <<>>, R32(2)), Vmop("NOP", <<>>, <<>>),
        Vmop("LLVM_MEMSET", <<>>, <<<<"i32", 8>>, <<"i8", 16>>, <<"i32", 24>>>>),
        Vmop("LLVM_MEMSET64", <<>>, <<<<"i32", 24>>, <<"i8", 32>>, <<"i64", 8>>>>)}

Others ==
  {[c |-> "VAARG", ty |-> ty, val |-> v, ret |-> D] :
     ty \in {"i32", "ptr", "i1", "dbl", "i64", "i8"}, v \in {A, K(4), Fn(1)}}
  \cup {[c |-> "ALLOCA", num |-> x, nty |-> ty, align |-> 4, size |-> 3, ret |-> D] :
          x \in {K(1), K(2), A}, ty \in {"i32", "i64"}}
  \cup {[c |-> "LANDINGPAD", rets |-> SubSeq(<<<<"i32", 8>>, <<"i32", 16>>>>, 1, n)] : n \in 1..2}
  \cup {[c |-> "RESUME", vals |-> SubSeq(<<A, B>>, 1, n)] : n \in 1..2}
  \cup {[c |-> "UNREACHABLE"], [c |-> "SHUFFLE"]}

Call(f, ty, ret) == [c |-> "CALL", fn |-> f, ty |-> ty, ret |-> ret]
CallSites == {<<Fn(1), "i32", D>>, <<Fn(2), "i64", B>>, <<Fn(3), "i32", None>>,
              <<A, "i32", C>>, <<A, "i64", None>>, <<G(3), "i32", D>>}
Loops == {<<<<Call(q[1], q[2], q[3]), Jump0(1)>>>> : q \in CallSites}
Invokes == {[c |-> "INVOKE", fn |-> q[1], ty |-> q[2], ret |-> q[3], normal |-> 4,
             unwind |-> 3] : q \in CallSites}

-----------------------------------------------------------------------------
(* Arguments passed by value: what is copied is given back *)

Copy(v, r, n) == [c |-> "STACKCOPY", val |-> v, size |-> n, ret |-> r]
Shrink(n)     == [c |-> "STACKSHRINK", size |-> n]
ByValue ==
  {<<<<Copy(v, C, n), Call(Fn(1), "i32", D), Shrink(n), Void>>>> : v \in {A, G(6), K(4)}, n \in {3, 4}}
  \cup {<<<<Copy(A, C, 3), Copy(B, D, 5), Call(Fn(1), "i32", None), Shrink(8), Void>>>>}
  \cup {<<<<Copy(Fn(1), C, 4), Void>>>>}
  \cup {<<<<Vmop("STACKSAVE", <<<<"i32", 24>>>>, <<>>),
           [c |-> "ALLOCA", num |-> K(2), nty |-> "i32", align |-> 8, size |-> 3, ret |-> D],
           Vmop("STACKRESTORE", <<>>, <<<<"i32", 24>>>>), Void>>>>}

\* A branch over more words than OffMax, and a function longer than the text
Wide == [c |-> "SELECT", ty |-> "i64", pred |-> C, tv |-> K(1), fv |-> K(2), ret |-> A]
Long(n) == <<<<[c |-> "BR", cond |-> C, t |-> 3, f |-> 2]>>, [i \in 1..n |-> Wide] \o <<Jump0(3)>>, <<Void>>>>

MCPrograms ==
  Straight(Arithmetic \cup Comparisons \cup Loads \cup Stores \cup Moves \cup Addresses
             \cup Casts \cup Selects \cup Returns \cup Vmops \cup Others)
    \cup Branching(Decisions \cup Switches \cup Invokes)
    \cup Loops \cup ByValue \cup {Long(n) : n \in {3, 5, 8}}
=============================================================================
