------------------------------ MODULE MCBitcode ------------------------------
(***************************************************************************)
(* Bitcode files for the loader: programs with every kind of type,         *)
(* constant, global, call and instruction, each written in the eight       *)
(* encodings of BitWriter, and files that must be refused.                 *)
(***************************************************************************)
EXTENDS Bitcode, BitProgram

-----------------------------------------------------------------------------
(* The types of all programs. *)

i1 == 1
i8 == 2
i16 == 3
i32 == 4
i64 == 5
flt == 6
dbl == 7
S == 8
PK == 9
OUT == 10
A16 == 11
INN == 12
AIN == 13
BIG == 14
A8 == 15
FV == 16
CT == 17
ACT == 18
FI == 19
FP == 20
FVA == 21
FIND == 22
i24 == 23
AP == 24
A32 == 25
A1 == 26
LPT == 27
Bases == 28
ptr(t) == Bases + t - 1

MCTypes ==
    << <<"void">>, <<"int", 1>>, <<"int", 8>>, <<"int", 16>>, <<"int", 32>>, <<"int", 64>>,
       <<"float">>, <<"double">>,
       <<"struct", 0, i8, i32, i16, i64>>, <<"struct", 1, i8, i32>>,
       <<"struct", 0, i8, INN>>,                     \* INN comes later
       <<"array", 3, i16>>, <<"struct", 0, i16, i8>>, <<"array", 2, INN>>,
       <<"struct", 0, i8, AIN>>, <<"array", 4, i8>>,
       <<"fn", 0, 0>>, <<"struct", 0, i32, ptr(FV), ptr(i8)>>, <<"array", 2, CT>>,
       <<"fn", 0, i32, i32, i64>>, <<"fn", 0, i32, ptr(S), i32>>,
       <<"fn", 1, i32, ptr(i8)>>, <<"fn", 0, i32, ptr(FI), i32>>, <<"int", 24>>,
       <<"array", 3, ptr(i32)>>, <<"array", 13, i32>>, <<"array", 12, i1>>,
       <<"struct", 0, ptr(i8), i32>> >>
    \o [k \in 1 .. Bases - 1 |-> <<"ptr", 0, k>>]
    \o << <<"label">>, <<"meta">>, <<"opaque">> >>

Nothing == [types |-> MCTypes, globals |-> <<>>, funcs |-> <<>>, aliases |-> <<>>,
            consts |-> <<>>, groups |-> <<>>, sets |-> <<>>, extra |-> <<>>]

Global(ty, init, al, name) == [ty |-> ty, ptr |-> ptr(ty), init |-> init, al |-> al, name |-> name]
Const(t, k, x)     == [t |-> t, k |-> k, x |-> x]
ConstOf(t, k, x, v) == [t |-> t, k |-> k, x |-> x, v |-> v]
Proto(ty, name, kind) == [ty |-> ty, ptr |-> ptr(ty), proto |-> TRUE, name |-> name, kind |-> kind]
Code(ty, name, consts, bbs) ==
    [ty |-> ty, ptr |-> ptr(ty), proto |-> FALSE, name |-> name, kind |-> "code",
     body |-> [consts |-> consts, bbs |-> bbs]]

RetVoid == I("ret", <<>>, <<>>, -1)
Call(class, fn, named, args, attrs, type, copy, k, ty) ==
    [I(class, <<fn>> \o args, k, ty) EXCEPT !.w = <<named>> \o args,
        !.x = <<attrs, type>>, !.copy = copy]

\* names, as character codes
Ctors   == <<99, 116>>
Dropped == <<108, 46, 100>>
Vmop    == <<109, 99>>
Host    == <<112, 45>>
N(c)    == <<c>>
MCDropped == {Dropped}
MCVmops   == {Vmop}
MCExterns == {Host}

-----------------------------------------------------------------------------
(* Globals and constants of every kind.  The values are 16 globals, three  *)
(* functions, an alias, and the constants, K(1) and so on.                 *)

DataProgram ==
    LET K(j) == 19 + j
        Init1(j) == K(j) + 1                     \* the field of a global record
        Bin(op, l, r, v) == ConstOf(i32, "binop", <<op, K(l), K(r)>>, v)
        Cmp(pred, v) == ConstOf(i1, "cmp", <<i32, K(12), K(2), pred>>, v)
        Cast(t, op, from, v) == Const(t, "cast", <<op, from, v>>)
    IN  [Nothing EXCEPT
          !.globals =
            << Global(i8, Init1(1), 1, N(97)), Global(S, Init1(5), 4, N(98)),
               Global(PK, Init1(6), 1, N(99)), Global(A8, Init1(7), 1, N(100)),
               Global(A16, Init1(8), 2, N(101)), Global(AP, Init1(62), 0, N(102)),
               Global(ACT, Init1(23), 0, Ctors), Global(BIG, Init1(24), 0, N(103)),
               Global(i64, 0, 4, N(104)), Global(A32, Init1(40), 3, N(105)),
               Global(A1, Init1(53), 1, N(106)), Global(OUT, Init1(55), 2, N(107)),
               Global(BIG, Init1(57), 0, N(108)), Global(dbl, Init1(58), 4, N(109)),
               Global(i32, Init1(25), 3, N(110)), Global(i64, Init1(59), 4, N(111)) >>,
          !.funcs = << Code(FV, N(65), <<>>, <<<<RetVoid>>>>),
                       Code(FV, N(66), <<>>, <<<<RetVoid>>>>), Proto(FI, Host, "ext") >>,
          !.aliases = << [ty |-> ptr(FV), to |-> 17] >>,
          !.consts =
            << Const(i8, "int", <<-1>>), Const(i32, "int", <<1001>>),
               Const(i16, "int", <<-2>>), Const(i64, "int", <<70000>>),
               Const(S, "aggr", <<K(1), K(2), K(3), K(4)>>),
               Const(PK, "aggr", <<K(1), K(2)>>),
               Const(A8, "cstr", <<97, 98, 99, 0>>), Const(A16, "data", <<1, 65535, 258>>),
               Const(i32, "int", <<0>>), Const(i32, "int", <<1>>), Const(i32, "int", <<2>>),
               Const(i32, "int", <<-7>>), Const(i32, "int", <<3>>),
               \* 14: the second field of global 1; 15, 17: casts
               Const(ptr(i32), "gep", <<S, ptr(S), 1, i32, K(9), i32, K(10)>>),
               Cast(ptr(i32), 11, ptr(S), 1), Const(ptr(i8), "null", <<>>),
               Cast(ptr(i32), 10, i32, K(2)),
               Const(AP, "aggr", <<K(14), K(15), K(17)>>),
               Cast(ptr(FV), 11, FV, 19),
               Const(CT, "aggr", <<K(10), 16, K(16)>>),
               Cast(ptr(i8), 11, ptr(i32), K(14)),
               Const(CT, "aggr", <<K(10), K(19), K(21)>>),
               Const(ACT, "aggr", <<K(20), K(22)>>), Const(BIG, "null", <<>>),
               Cast(i32, 9, ptr(i8), 0),
               Bin(0, 12, 11, -5), Bin(1, 12, 11, -9), Bin(2, 12, 11, -14), Bin(3, 2, 11, 500),
               Bin(4, 12, 11, -3), Bin(5, 2, 13, 2), Bin(6, 12, 11, -1), Bin(7, 2, 11, 4004),
               Bin(8, 2, 11, 250), Bin(9, 12, 11, -2), Bin(10, 2, 13, 1), Bin(11, 2, 13, 1003),
               Bin(12, 2, 13, 1002), Const(i1, "int", <<-1>>),
               Const(A32, "aggr", [k \in 1 .. 13 |-> K(25 + k)]),
               Cmp(32, 0), Cmp(33, 1), Cmp(34, 1), Cmp(35, 1), Cmp(36, 0), Cmp(37, 0),
               Cmp(38, 0), Cmp(39, 0), Cmp(40, 1), Cmp(41, 1), Const(i1, "undef", <<>>),
               Const(flt, "fp", <<3>>),
               Const(A1, "aggr", [k \in 1 .. 12 |-> IF k = 12 THEN K(39) ELSE K(40 + k)]),
               Const(INN, "aggr", <<K(3), K(1)>>), Const(OUT, "aggr", <<K(1), K(54)>>),
               Const(AIN, "aggr", <<K(54), K(54)>>), Const(BIG, "aggr", <<K(1), K(56)>>),
               Const(dbl, "fp", <<5>>), Const(i64, "int", <<-70000>>),
               \* 60: evaluates the next one first
               Cast(ptr(i32), 11, ptr(i8), K(61)),
               Const(ptr(i8), "gep", <<S, ptr(S), 1, i32, K(10), i32, K(9)>>),
               Const(AP, "aggr", <<K(14), K(60), K(17)>>) >>]

-----------------------------------------------------------------------------
(* Calls of every kind.  Values: a global, functions 1 to 8, the alias 9,  *)
(* constants 10 to 15; a function's own start at 16.                       *)

CallProgram ==
    [Nothing EXCEPT
      !.globals = << Global(A8, 11, 1, N(97)) >>,
      !.funcs =
        << Code(FI, N(70), << Const(i32, "int", <<5>>) >>,
                << << I("binop", <<16, 18>>, <<0>>, i32), I("ret", <<19>>, <<>>, -1) >> >>),
           Code(FP, N(71), <<>>,
                << << I("gep", <<16, 13, 15>>, <<ptr(S), S>>, ptr(i32)),
                      I("load", <<18>>, <<>>, i32), I("binop", <<19, 17>>, <<0>>, i32),
                      I("store", <<18, 20>>, <<>>, -1), I("ret", <<20>>, <<>>, -1) >> >>),
           Proto(FVA, Host, "ext"), Proto(FV, Dropped, "none"), Proto(FI, Vmop, "vmop"),
           Code(FV, N(72), <<>>,
                << << [I("alloca", <<15>>, <<24, 8>>, ptr(S)) EXCEPT !.x = <<S, 4>>],
                      Call("call", 2, 2, <<16, 11>>, 1, FP, <<24, 0>>, <<>>, i32),
                      Call("call", 1, 9, <<17, 12>>, 0, FI, <<0, 0>>, <<>>, i32),
                      Call("call", 3, 3, <<14, 18, 12>>, 2, FVA, <<0, 0, 0>>, <<>>, i32),
                      [Call("call", 4, 4, <<>>, 0, FV, <<>>, <<>>, -1) EXCEPT !.drop = TRUE],
                      Call("call", 5, 5, <<11, 12>>, 0, FI, <<0, 0>>, <<>>, i32),
                      Call("call", 7, 7, <<1, 11>>, 0, FIND, <<0, 0>>, <<>>, i32),
                      RetVoid >> >>),
           Code(FIND, N(73), <<>>,
                << << Call("call", 16, 16, <<17, 12>>, 0, FI, <<0, 0>>, <<>>, i32),
                      I("ret", <<18>>, <<>>, -1) >> >>),
           Proto(FV, N(74), "none") >>,
      !.aliases = << [ty |-> ptr(FI), to |-> 1] >>,
      !.consts = << Const(A8, "cstr", <<37, 100, 10, 0>>), Const(i32, "int", <<7>>),
                    Const(i64, "int", <<-3>>), Const(i32, "int", <<0>>),
                    Const(ptr(i8), "gep", <<A8, ptr(A8), 0, i32, 13, i32, 13>>),
                    Const(i32, "int", <<1>>) >>,
      \* by value for the first parameter; attributes with values and strings
      !.groups = << <<1, 1, 0, 3>>, <<2, 0, 0, 18, 3, 97, 0, 4, 98, 0, 99, 0, 1, 1, 8>> >>,
      !.sets   = << <<1, 2>>, <<2>> >>]

-----------------------------------------------------------------------------
(* The other instructions.  Values: functions 0 to 2, constants 3 to 8,    *)
(* parameters 9 and 10, constants 11 and 12.                               *)

Switch(v, default, cases) == [I("switch", <<v>>, <<default>>, -1) EXCEPT !.x = cases]

InstrProgram ==
    [Nothing EXCEPT
      !.funcs =
        << Code(FI, N(70), << Const(i32, "int", <<3>>), Const(LPT, "null", <<>>) >>,
             << << [I("alloca", <<4>>, <<4, 4>>, ptr(i32)) EXCEPT !.x = <<i32, 3>>],
                   I("store", <<13, 9>>, <<>>, -1), I("load", <<13>>, <<>>, i32),
                   I("cmp2", <<14, 11>>, <<38>>, i1), I("cast", <<14>>, <<1>>, i64),
                   I("br", <<15>>, <<1, 2>>, -1) >>,
                << \* a PHI record may have one field more, its flags
                   [I("phi", <<18, 14>>, <<1, 0>>, i32) EXCEPT !.x = <<1>>], I("binop", <<17, 4>>, <<0>>, i32),
                   Switch(18, 2, << <<4, 1>>, <<6, 2>>, <<5, 3>> >>) >>,
                << Call("invoke", 1, 1, <<>>, 0, FV, <<>>, <<3, 4>>, -1) >>,
                << I("select", <<14, 11, 15>>, <<>>, i32),
                   Switch(10, 5, << <<8, 5>>, <<7, 5>> >>) >>,
                << [I("landingpad", <<>>, <<1, 0, 6>>, LPT) EXCEPT !.x = <<2>>],
                   I("extractval", <<20>>, <<1>>, i32), I("insertval", <<12, 21>>, <<1>>, LPT),
                   I("resume", <<22>>, <<>>, -1) >>,
                << I("phi", <<19, 19, 19>>, <<3, 3, 3>>, i32), I("vaarg", <<13>>, <<>>, i32),
                   I("br", <<>>, <<6>>, -1) >>,
                << I("unreachable", <<>>, <<>>, -1) >> >>),
           Proto(FV, Host, "ext"), Proto(FVA, Vmop, "vmop") >>,
      !.consts = << Const(i32, "int", <<0>>), Const(i32, "int", <<1>>), Const(i32, "int", <<7>>),
                    Const(i32, "int", <<-1>>), Const(i64, "int", <<2>>),
                    Const(i64, "int", <<Lowest64>>) >>]

-----------------------------------------------------------------------------
(* Values used in a block that comes before the one that defines them, in  *)
(* functions whose values have the same numbers and other types.  Values:  *)
(* functions 0 to 2, constants 3 and 4; a function's own start at 5.       *)

ForwardProgram ==
    [Nothing EXCEPT
      !.funcs =
        << Code(FI, N(70), <<>>,
             << << I("br", <<>>, <<2>>, -1) >>,
                << I("binop", <<10, 5>>, <<0>>, i32), I("binop", <<7, 11>>, <<1>>, i32),
                   I("ret", <<8>>, <<>>, -1) >>,
                << I("cast", <<6>>, <<0>>, i16), I("cast", <<9>>, <<1>>, i32),
                   I("cast", <<10>>, <<0>>, i32), I("br", <<>>, <<1>>, -1) >> >>),
           Code(FP, N(71), <<>>,
             << << I("gep", <<5, 3, 4>>, <<ptr(S), S>>, ptr(i32)), I("br", <<>>, <<2>>, -1) >>,
                << I("binop", <<10, 6>>, <<0>>, i32), I("cmp2", <<10, 8>>, <<32>>, i1),
                   I("ret", <<8>>, <<>>, -1) >>,
                << I("load", <<7>>, <<>>, i32), I("br", <<>>, <<1>>, -1) >> >>),
           Code(FI, N(72), <<>>,
             << << I("cast", <<5>>, <<0>>, i24), I("cast", <<7>>, <<1>>, i64),
                   I("binop", <<8, 6>>, <<12>>, i64),
                   [I("alloca", <<4>>, <<12, 4>>, ptr(AP)) EXCEPT !.x = <<AP, 3>>],
                   \* the file has no type for a pointer to a pointer: one is made
                   I("gep", <<10, 3, 3>>, <<ptr(AP), AP>>, Len(MCTypes)),
                   I("load", <<11>>, <<>>, ptr(i32)), I("load", <<12>>, <<>>, i32),
                   I("ret", <<13>>, <<>>, -1) >> >>) >>,
      !.consts = << Const(i32, "int", <<0>>), Const(i32, "int", <<1>>) >>]

-----------------------------------------------------------------------------
(* Files that must be refused. *)

With(P, cs) == [P EXCEPT !.consts = @ \o cs]

RefusedPrograms ==
    << \* a binary operation on a constant expression that comes later
       With(Nothing, << Const(i32, "binop", <<0, 1, 1>>), Const(i32, "binop", <<0, 2, 2>>),
                        Const(i32, "int", <<1>>) >>),
       \* an aggregate of a constant that comes later
       With(Nothing, << Const(LPT, "aggr", <<1, 2>>), Const(ptr(i8), "null", <<>>),
                        Const(i32, "int", <<1>>) >>),
       \* inline assembler
       With(Nothing, << Const(i32, "asm", <<0>>) >>),
       \* a wide integer, a vector, a struct of an opaque type
       [Nothing EXCEPT !.types = @ \o << <<"int", 128>> >>],
       [Nothing EXCEPT !.types = @ \o << <<"vector", 4, i32>> >>],
       [Nothing EXCEPT !.types = @ \o << <<"struct", 0, Len(MCTypes) - 1>> >>],
       \* a function that is called and not defined
       [Nothing EXCEPT !.funcs = << Code(FV, N(65), <<>>, << <<
                                      Call("call", 1, 1, <<>>, 0, FV, <<>>, <<>>, -1), RetVoid >> >>),
                                    Proto(FV, N(66), "none") >>],
       \* a body without a function, an unknown block, an unknown abbreviation
       [Nothing EXCEPT !.extra = << Blk(12, 4, <<Rec(1, <<1>>), Rec(10, <<>>)>>) >>],
       [Nothing EXCEPT !.extra = << Blk(30, 4, <<>>) >>],
       [Nothing EXCEPT !.extra = << Abb(4, <<Fix(3)>>, <<1>>) >>],
       \* a struct passed by value
       [Nothing EXCEPT !.types = @ \o << <<"fn", 0, 0, S>> >>,
                       !.funcs = << [Code(Len(MCTypes), N(65), <<>>, << <<RetVoid>> >>)
                                       EXCEPT !.ptr = 0] >>] >>

-----------------------------------------------------------------------------
(* Files the loader does not survive. *)

Minus1 == 2^UintBits - 1

(* A function whose body is one instruction on its parameters and constants, *)
(* after a function that leaves entries behind in the value table.  Values:  *)
(* functions 0 and 1, the module's constant 2, the second's parameters 3 and *)
(* 4, its constants from 5; the first one uses 3 to 10.                      *)
OneInstr(consts, in) ==
    [Nothing EXCEPT
      !.funcs = << Code(FP, N(65), [k \in 1 .. 6 |-> Const(i32, "int", <<k>>)],
                        << <<I("ret", <<5>>, <<>>, -1)>> >>),
                   Code(FP, N(66), consts, << <<in, I("ret", <<4>>, <<>>, -1)>> >>) >>,
      !.consts = << Const(i32, "int", <<-1>>) >>]

InitWith(c) == [Nothing EXCEPT !.globals = << Global(A8, 3, 1, N(97)) >>,
                               !.consts  = <<Const(i8, "int", <<7>>), c>>]

CrashingPrograms ==
    << \* an operand that is the empty entry of the body before
       OneInstr(<< Const(i32, "binop", <<0, 2, 10>>) >>, RetVoid),
       OneInstr(<< Const(i1, "cmp", <<i32, 10, 2, 32>>) >>, RetVoid),
       OneInstr(<< Const(ptr(i32), "gep", <<ptr(S), 10, i32, 2>>) >>, RetVoid),
       OneInstr(<< Const(LPT, "aggr", <<10, 2>>) >>, RetVoid),
       \* a negative index into a struct
       OneInstr(<< Const(ptr(S), "null", <<>>),
                   Const(ptr(i32), "gep", <<ptr(S), 5, i32, 2, i32, 2>>) >>, RetVoid),
       OneInstr(<<>>, I("gep", <<3, 2, 2>>, <<ptr(S), S>>, ptr(i32))),
       OneInstr(<< Const(LPT, "undef", <<>>) >>, I("extractval", <<5>>, <<Minus1>>, i32)),
       \* a division by zero, an aggregate with too few elements
       OneInstr(<< Const(i32, "int", <<0>>), Const(i32, "binop", <<3, 2, 5>>) >>, RetVoid),
       InitWith(Const(A8, "aggr", <<1, 1>>)),
       \* an integer attribute without its value
       [Nothing EXCEPT !.groups = << <<1, 1, 1, 8>> >>] >>

Encoding(n) == [short |-> n % 2 = 1, late |-> (n \div 2) % 2 = 1, new |-> (n \div 4) % 2 = 1]

File(P, n, w) == [data |-> Encode(P, Encoding(n)), want |-> w]

(* A file that ends before its symbol table is loaded, without names. *)
CutShort ==
    LET P   == ForwardProgram
        all == File(P, 6, Want(P, "loaded", <<>>))
        ident == Blk(13, 3, <<Rec(1, <<76>>)>>)
        words == WordsBefore(<<ident, ModuleBlock(P, Encoding(6), 0, "symtab")>>)
    IN  [all EXCEPT !.data = SubSeq(@, 1, 4 * words),
                    !.want.funcs = [f \in DOMAIN @ |-> [@[f] EXCEPT !.name = <<>>]]]

MCDocuments ==
    LET P == << <<DataProgram, <<0, 1>>>>, <<CallProgram, <<>>>>, <<InstrProgram, <<>>>>,
                <<ForwardProgram, <<>>>> >>
    IN  {File(P[k][1], n, Want(P[k][1], "loaded", P[k][2])) : k \in DOMAIN P, n \in 0 .. 7}
        \cup {File(RefusedPrograms[k], k, Refuse(RefusedPrograms[k], "error")) :
                k \in DOMAIN RefusedPrograms}
        \cup {File(CrashingPrograms[k], k, Refuse(CrashingPrograms[k], "crash")) :
                k \in DOMAIN CrashingPrograms}
        \cup {CutShort}
        \cup {[data |-> <<66, 67, 192, 223, 0, 0, 0, 0>>, want |-> Refuse(Nothing, "not bitcode")]}
=============================================================================
