------------------------------ MODULE MCRewrite ------------------------------
(***************************************************************************)
(* The functions that TLC transforms with Rewrite.  Temporaries 1 to 3 are *)
(* the arguments; each family puts the instructions of one rewrite next to *)
(* the things that could upset it.                                         *)
(***************************************************************************)
EXTENDS Rewrite

CONSTANT SelfAdd   \* whether a product is also added to itself

MCThrows == {"thrower"}

A1 == Tmp(1)
A2 == Tmp(2)
A3 == Tmp(3)

Args == {<<1, 2, 0>>, <<3, 1, 1>>, <<2, 2, 7>>}

Program(c, structs) ==
    [code |-> c, temps |-> 12, structs |-> structs, args |-> Args, supported |-> TRUE]
Plain(c)   == Program(c, << >>)
Bad(p)     == [p EXCEPT !.supported = FALSE]

Gep(t, p, ix)   == [c |-> "gep", ret |-> Tmp(t), ptr |-> p, ix |-> ix]
Load(t, p, ty, elts) == [c |-> "load", ret |-> Tmp(t), ptr |-> p, imm |-> 0,
                         off |-> NoVal, mul |-> 0, ty |-> ty, elts |-> elts, cast |-> "none"]
Store(p, v, elts) == [c |-> "store", ret |-> NoVal, ptr |-> p, imm |-> 0, val |-> v,
                      elts |-> elts]
Binop(t, op, x, y) == [c |-> "binop", ret |-> Tmp(t), op |-> op, lhs |-> x, rhs |-> y,
                       ty |-> "i32"]
Cmp(t, op, ty, x, y) == [c |-> "cmp2", ret |-> Tmp(t), op |-> op, ty |-> ty,
                         lhs |-> x, rhs |-> y]
Select(t, ty, p, x, y) == [c |-> "select", ret |-> Tmp(t), ty |-> ty, pred |-> p,
                           tv |-> x, fv |-> y]
Cast(t, op, src, dst, x) == [c |-> "cast", ret |-> Tmp(t), op |-> op, src |-> src,
                             dst |-> dst, val |-> x]
Phi(t, nodes)  == [c |-> "phi", ret |-> Tmp(t), nodes |-> nodes]
Br(v, t, f)    == [c |-> "br", ret |-> NoVal, cond |-> v, t |-> t, f |-> f]
Ret(v)         == [c |-> "ret", ret |-> NoVal, val |-> v]
Insert(t, s, k, v) == [c |-> "insertval", ret |-> Tmp(t), src |-> s, val |-> v, ix |-> <<k>>]
Extract(t, s, k)   == [c |-> "extractval", ret |-> Tmp(t), val |-> s, ix |-> <<k>>]
Call(v, f, xs)     == [c |-> "call", ret |-> v, fn |-> f, args |-> xs]
Invoke(v, f, xs, n, u) == [c |-> "invoke", ret |-> v, fn |-> f, args |-> xs,
                           normal |-> n, unwind |-> u]

F(name, vmop, argc, result) ==
    [name |-> name, vmop |-> vmop, argc |-> argc, result |-> result]
Guest   == F("guest", "none", 0, 9)
Pair    == F("pair", "none", 0, <<8, 9>>)
Thrower == F("thrower", "none", 0, 9)
Memcpy  == F("memcpy", "memcpy", 2, 9)
Vastart == F("vastart", "vastart", 2, 0)
Nop     == F("nop", "nop", 0, 0)

IxPtr(v, size)  == [kind |-> "pointer", op |-> v, size |-> size]
IxArr(v, size)  == [kind |-> "array", op |-> v, size |-> size]
IxStr(v)        == [kind |-> "struct", op |-> v, offs |-> <<0, 2, 6>>]

(* Address computations: one to three indices, constant or not, within and  *)
(* beyond the offset a load can hold, and every use of the address.         *)
Indices ==
    {<<IxPtr(Const(c), 2)>> : c \in {0, 1, 3, -1}} \cup
    {<<IxPtr(A2, 2)>>,
     <<IxPtr(Const(1), 2), IxStr(Const(1))>>,
     <<IxPtr(A2, 3), IxStr(Const(2))>>,
     <<IxPtr(Const(0), 2), IxArr(A2, 3)>>,
     <<IxPtr(A2, 5), IxArr(A3, 2)>>,
     <<IxPtr(Const(1), 1), IxArr(A2, 3), IxArr(A3, 1)>>,
     <<IxPtr(A2, 4), IxStr(Const(1)), IxArr(A3, 2), IxStr(Const(1)), IxArr(A2, 1)>>}
Uses ==
    {<<Load(5, Tmp(4), "i32", <<>>), Ret(Tmp(5))>>,
     <<Load(5, Tmp(4), "i8", <<>>), Cast(6, "sext", "i8", "i32", Tmp(5)), Ret(Tmp(6))>>,
     <<Store(Tmp(4), A3, <<>>), Ret(Tmp(4))>>,
     <<Store(Tmp(4), Aggr(<<Const(40), Const(41)>>), <<0, 2>>), Ret(NoVal)>>,
     <<Store(Tmp(4), Zero(3), <<0, 2, 6>>), Ret(NoVal)>>}
Geps ==
    {Plain(<<<<Gep(4, p, ix)>> \o u>>) : p \in {A1, Gvar(3), Const(2)}, ix \in Indices, u \in Uses}
    \cup {Program(<<<<Gep(4, A1, ix), Load(5, Tmp(4), "i32", <<0, 2>>),
                      Extract(6, Tmp(5), 1), Ret(Tmp(6))>>>>,
                  [t \in {5} |-> <<0, 2>>]) : ix \in Indices}
    \cup {Bad(Plain(<<<<Gep(4, A1, ix), Ret(Tmp(4))>>>>)) :
            ix \in {<<IxPtr(A2, 1), IxPtr(A3, 2)>>, <<IxPtr(Const(0), 1), IxStr(A2)>>}}

(* Compares: in the block of the branch or select or before it, of a type   *)
(* that can be combined or not, and with another reader.                    *)
Other(v, t) == {<<>>, <<Binop(t, "add", v, A1)>>}
Compares ==
    {Plain(<<<<Cmp(4, op, ty, A1, y)>> \o o \o <<Br(Tmp(4), 2, 3)>>,
             <<Br(NoVal, 4, 0)>>, <<Binop(6, "add", A1, A2), Br(NoVal, 4, 0)>>,
             <<Phi(7, <<<<2, A1>>, <<3, Tmp(6)>>>>), Ret(Tmp(7))>>>>) :
       op \in {"eq", "slt"}, ty \in {"i8", "i32", "i64"}, y \in {A2, Const(2)},
       o \in Other(Tmp(4), 5)}
    \cup
    {Plain(<<<<Cmp(4, "slt", cty, A1, A2)>> \o o \o
             <<Select(6, ty, Tmp(4), A3, Const(4)), Ret(Tmp(6))>>>>) :
       cty \in {"i8", "i32", "ptr"}, ty \in {"i8", "i32", "i64"}, o \in Other(Tmp(4), 5)}
    \cup
    {Plain(<<<<Cmp(4, "eq", "i32", A1, A2), Br(NoVal, 2, 0)>>,
             <<Phi(5, <<<<1, A3>>>>), Select(6, "i32", Tmp(4), Tmp(5), A2),
               Br(Tmp(4), 3, 3)>>, <<Ret(Tmp(6))>>>>)}

(* Products: on either side, on both, with a constant, in another block,    *)
(* and with another reader.                                                 *)
Products ==
    {Plain(<<<<Binop(4, "mul", x, y)>> \o o \o <<Binop(6, "add", l, r), Ret(Tmp(6))>>>>) :
       x \in {A1, Const(3)}, y \in {A2, Const(2)}, l \in {Tmp(4), Const(5), A3},
       r \in {Tmp(4), A3} \ (IF SelfAdd THEN {} ELSE {Tmp(4)}), o \in Other(Tmp(4), 5)}
    \cup
    {Plain(<<<<Binop(4, "mul", A1, A2)>> \o o \o <<Binop(6, "add", l, Tmp(4)), Ret(Tmp(6))>>>>) :
       l \in {Const(5), A3}, o \in Other(Tmp(4), 5)}
    \cup
    {Plain(<<<<Binop(4, "mul", A1, y), Binop(5, "mul", A2, A3), Br(NoVal, 2, 0)>>,
             <<Binop(6, "add", Tmp(4), Tmp(5)), Binop(7, "add", Tmp(6), A1), Ret(Tmp(7))>>>>) :
       y \in {A2, Const(2)}}

(* Extensions of a loaded value, with the memory changed in between. *)
Casts ==
    {Plain(<<<<Load(4, p, "i8", <<>>), Store(A1, Const(2), <<>>)>> \o o \o
             <<Cast(6, op, "i8", dst, Tmp(4)), Ret(Tmp(6))>>>>) :
       p \in {A1, Gvar(1)}, op \in {"zext", "sext"}, dst \in {"i32", "i64"},
       o \in Other(Tmp(4), 5)}
    \cup
    {Plain(<<<<Cast(4, op[1], op[2], op[3], A3), Ret(Tmp(4))>>>>) :
       op \in {<<"bitcast", "ptr", "ptr">>, <<"bitcast", "i32", "f32">>,
               <<"inttoptr", "i32", "ptr">>, <<"inttoptr", "i64", "ptr">>,
               <<"ptrtoint", "ptr", "i32">>, <<"ptrtoint", "ptr", "i64">>,
               <<"trunc", "i32", "i8">>, <<"trunc", "i32", "i24">>}}

(* Struct values from each of their sources through each of their uses. *)
Two == <<0, 2>>
Sources ==
    {<<Load(4, A1, "i32", Two)>>,
     <<Insert(6, Undef(2), 0, A1), Insert(4, Tmp(6), 1, Const(9))>>,
     <<Insert(4, Aggr(<<Const(7), Const(9)>>), 0, A3)>>,
     <<Load(6, A1, "i32", Two), Insert(4, Tmp(6), 1, A2)>>,
     <<Call(Tmp(6), Pair, <<A1>>), Cmp(7, "eq", "i32", A1, A2),
       Select(4, "struct", Tmp(7), Tmp(6), Aggr(<<Const(3), Const(4)>>))>>,
     <<Call(Tmp(6), Pair, <<>>), Insert(4, Zero(2), 1, A3)>>}
Sinks ==
    {<<Store(A2, Tmp(4), Two), Ret(NoVal)>>,
     <<Extract(5, Tmp(4), 0), Ret(Tmp(5))>>,
     <<Extract(5, Tmp(4), 1), Store(Gvar(8), Tmp(4), Two), Ret(Tmp(5))>>,
     <<[c |-> "resume", ret |-> NoVal, vals |-> <<Tmp(4)>>]>>}
Structs ==
    {Program(<<src \o snk>>, [t \in {4, 6} |-> Two]) : src \in Sources, snk \in Sinks}
    \cup
    {Program(<<<<Load(4, A1, "i32", Two), Br(NoVal, 2, 0)>>,
               <<Phi(6, <<<<1, Tmp(4)>>>>)>> \o snk>>, [t \in {4, 6} |-> Two]) :
       snk \in Sinks}
    \cup
    {Bad(Program(<<<<Load(4, A1, "i32", Two), in, Ret(NoVal)>>>>, [t \in {4, 6} |-> Two])) :
       in \in {Call(NoVal, Guest, <<Tmp(4)>>), Ret(Tmp(4)),
               [Extract(5, Tmp(4), 0) EXCEPT !.ix = <<0, 1>>],
               [Insert(6, Tmp(4), 0, A1) EXCEPT !.ix = <<0, 1>>]}}
    \cup
    {Bad(Program(<<<<Br(NoVal, 2, 0)>>, <<Phi(4, <<<<1, Zero(2)>>>>), Extract(5, Tmp(4), 0),
                   Ret(Tmp(5))>>>>, [t \in {4} |-> Two]))}

(* Calls and invokes of guest functions and of VMOPs. *)
Calls ==
    {Plain(<<<<Call(Tmp(4), f, xs), Ret(Tmp(4))>>>>) :
       f \in {Guest, Memcpy}, xs \in {<<A1, Const(7)>>, <<Gvar(4), Const(1), Const(0)>>}}
    \cup
    {Plain(<<<<Call(NoVal, Vastart, <<x>>), Ret(A1)>>>>) : x \in {A1, Gvar(3)}}
    \cup
    {Bad(Plain(<<<<Call(Tmp(4), Memcpy, <<A1>>), Ret(Tmp(4))>>>>)),
     Bad(Plain(<<<<Invoke(NoVal, Nop, <<>>, 2, 2)>>, <<Ret(A1)>>>>)),
     Bad(Plain(<<<<Call(Tmp(4), Memcpy, <<A1, Undef(0)>>), Ret(Tmp(4))>>>>))}
    \cup
    {Program(<<<<Invoke(Tmp(4), f, <<A1, Const(6)>>, 2, 3)>>, <<Ret(Tmp(4))>>,
               <<[c |-> "landingpad", ret |-> Tmp(5)], Extract(6, Tmp(5), 1),
                 [c |-> "resume", ret |-> NoVal, vals |-> <<Tmp(5)>>]>>>>,
             [t \in {5} |-> Two]) : f \in {Guest, Thrower, Memcpy}}
    \cup
    {Plain(<<<<Call(NoVal, Nop, <<Const(1), A1>>), in, Ret(Tmp(4))>>>>) :
       in \in {Binop(4, "add", Const(3), A1), Cast(4, "bitcast", "ptr", "ptr", A1),
               Load(4, A1, "i32", <<>>)}}
    \cup
    {Bad(Plain(<<<<Call(NoVal, Nop, <<Const(1), A1>>),
                   Gep(4, A1, <<IxPtr(Const(1), 2)>>), Ret(Tmp(4))>>>>))}

MCPrograms == Geps \cup Compares \cup Products \cup Casts \cup Structs \cup Calls
=============================================================================
