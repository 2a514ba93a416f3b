------------------------------- MODULE Bitcode -------------------------------
(***************************************************************************)
(* Loading a bitcode file (vmir_load): the block structure of the file is  *)
(* followed by ir_parse_blocks, which calls itself for every block; each   *)
(* record goes to the handler of its block (IrUnit, InstrParse).  When the *)
(* file is read the globals are initialised, the functions are looked up   *)
(* and the constructors run.                                               *)
(*                                                                         *)
(* The activations of ir_parse_blocks are the stack calls, the list        *)
(* iu_blocks is blocks.  One step is one turn of ir_parse_blocks' loop.    *)
(* transform_function and vm_emit_function have modules of their own; here *)
(* they leave temporaries in the value table and mark the callees as used. *)
(***************************************************************************)
EXTENDS InstrParse

CONSTANTS
    Documents,   \* files: data, the bytes, and want, what they say (see below)
    TmpMax,      \* temporaries the passes over a function add to the values
    Leftover     \* what the guest's memory holds before the load

VARIABLES
    doc,         \* the file that is loaded
    bs,          \* the position in it
    calls,       \* the activations of ir_parse_blocks, the latest last
    blocks,      \* iu_blocks, the latest first
    infos,       \* iu_blockinfos: the abbreviations of each block id
    iu,          \* the tables of the unit
    mem,         \* the guest's memory up to the heap
    pc,          \* where vmir_load is
    ran          \* the constructors that were called

vars == <<doc, bs, calls, blocks, infos, iu, mem, pc, ran>>

Data == doc.data
want == doc.want

NoUnit == [st |-> "ok", types |-> <<>>, created |-> FALSE, values |-> <<>>,
           next |-> 0, gvars |-> <<>>, funcs |-> <<>>, bodies |-> <<>>, cur |-> 0,
           curbb |-> 0, inits |-> <<>>, dataptr |-> DataStart, vst |-> 0,
           curtype |-> 0, groups |-> <<>>, attrsets |-> <<>>]

Top   == Last(calls)
TopId == read_bits(Data, bs, Top.width)
Parsing == pc = "parse" /\ Ok(iu)

(* The pseudo blocks: the file itself, and the symbol table read early. *)
FileLevel   == -1
EarlySymtab == -2

BLOCKINFO       == 0
MODULE_BLOCK    == 8
PARAMATTR       == 9
PARAMATTR_GROUP == 10
CONSTANTS_BLOCK == 11
FUNCTION_BLOCK  == 12
VALUE_SYMTAB    == 14
TYPES_NEW       == 17
Ignored == {13, 15, 16, 18, 21, 22}   \* identification, metadata, use lists, tags

-----------------------------------------------------------------------------
(* vmir_load up to ir_parse_blocks. *)

Magic == <<0,1,0,0,0,0,1,0, 1,1,0,0,0,0,1,0, 0,0,0,0,0,0,1,1, 0,1,1,1,1,0,1,1>>

Activation(id, width) == [id |-> id, width |-> width, vsize |-> 0,
                          inner |-> 0, back |-> StreamAt(0)]

Start ==
    /\ pc = "start"
    /\ LET x == read_raw(Data, StreamAt(0), 32) IN
       /\ bs' = x.bs
       /\ IF x.bits = Magic
          THEN /\ pc' = "parse"
               /\ calls' = <<Activation(FileLevel, 2)>>
          ELSE /\ pc' = "not bitcode"
               /\ UNCHANGED calls
    /\ UNCHANGED <<doc, blocks, infos, iu, mem, ran>>

-----------------------------------------------------------------------------
(* ir_enter_subblock. *)

blockinfo_find(id) == IF id \in DOMAIN infos THEN infos
                      ELSE [b \in DOMAIN infos \cup {id} |->
                              IF b = id THEN <<>> ELSE infos[b]]

(* The next function with a body, and its parameters. *)
BeginFunction(u) ==
    IF u.cur = Len(u.bodies) THEN ParserError(u)
    ELSE function_prepare_parse([u EXCEPT !.cur = @ + 1])

EnterSubblock ==
    /\ Parsing
    /\ TopId.r = 1
    /\ LET id    == read_vbr(Data, TopId.bs, 8)
           width == read_vbr(Data, id.bs, 4)
           body  == read_raw(Data, align_bits32(width.bs), 32).bs
           frame == [Activation(id.r, width.r) EXCEPT !.vsize = iu.next]
       IN  /\ blocks' = <<[scoped |-> <<>>, info |-> FileLevel]>> \o blocks
           /\ infos' = blockinfo_find(id.r)
           /\ CASE id.r = FUNCTION_BLOCK /\ iu.vst # 0 ->
                     \* the symbol table is at the end of the file: read it first
                     /\ calls' = Append(calls, [frame EXCEPT !.id = EarlySymtab,
                                                  !.width = Top.width,
                                                  !.inner = width.r, !.back = body])
                     /\ bs' = StreamAt(4 * iu.vst)
                     /\ UNCHANGED iu
                [] id.r = FUNCTION_BLOCK /\ iu.vst = 0 ->
                     /\ calls' = Append(calls, frame)
                     /\ bs' = body
                     /\ iu' = BeginFunction(iu)
                [] id.r # FUNCTION_BLOCK ->
                     /\ calls' = Append(calls, frame)
                     /\ bs' = body
                     /\ iu' = IF id.r \in {BLOCKINFO, MODULE_BLOCK, PARAMATTR,
                                           PARAMATTR_GROUP, CONSTANTS_BLOCK,
                                           VALUE_SYMTAB, TYPES_NEW} \cup Ignored
                              THEN iu ELSE ParserError(iu)
    /\ UNCHANGED <<doc, mem, pc, ran>>

-----------------------------------------------------------------------------
(* Records. *)

(* The handler of a block other than BLOCKINFO. *)
rec_handler(id, u, op, a) ==
    CASE id = MODULE_BLOCK    -> module_rec_handler(u, op, a)
      [] id = PARAMATTR       -> paramattr_rec_handler(u, op, a)
      [] id = PARAMATTR_GROUP -> paramattr_group_rec_handler(u, op, a)
      [] id = CONSTANTS_BLOCK -> constants_rec_handler(u, op, a)
      [] id = FUNCTION_BLOCK  -> function_rec_handler(u, op, a)
      [] id = VALUE_SYMTAB    -> value_symtab_rec_handler(u, op, a)
      [] id = TYPES_NEW       -> types_new_rec_handler(u, op, a)
      [] id \in Ignored       -> u
      [] OTHER                -> Crash(u)             \* the handler is NULL

(* rh(iu, op, a), with the stream left at x. *)
Handle(op, a, x) ==
    /\ bs' = x
    /\ IF Top.id = BLOCKINFO
       THEN /\ IF op = 1 /\ Len(a) = 1
               THEN /\ blocks' = [blocks EXCEPT ![1].info = a[1]]
                    /\ infos' = blockinfo_find(a[1])
               ELSE UNCHANGED <<blocks, infos>>
            /\ iu' = IF op = 1 /\ Len(a) # 1 THEN ParserError(iu) ELSE iu
       ELSE /\ iu' = rec_handler(Top.id, iu, op, a)
            /\ UNCHANGED <<blocks, infos>>
    /\ UNCHANGED <<doc, calls, mem, pc, ran>>

ir_unabbrev_record ==
    /\ Parsing
    /\ TopId.r = 3
    /\ LET code == read_vbr(Data, TopId.bs, 6)
           n    == read_vbr(Data, code.bs, 6)
           ops  == ReadN(LAMBDA s : read_vbr(Data, s, 6), n.bs, n.r, <<>>)
       IN  Handle(code.r, ops.r, ops.bs)

-----------------------------------------------------------------------------
(* Abbreviations.  An operand is <<iao_type, iao_data>>. *)

LITERAL == 0
FIXED   == 1
VBR     == 2
ARRAY   == 3
CHAR6   == 4
BLOB    == 5

(* Codes of the 64 characters, a to z, A to Z, 0 to 9, "." and "_". *)
Char6(x) == CASE x < 26 -> 97 + x
              [] x \in 26 .. 51 -> 65 + x - 26
              [] x \in 52 .. 61 -> 48 + x - 52
              [] x = 62 -> 46
              [] x = 63 -> 95

(* A type the code does not know is BLOB + 1. *)
OperandDef(type, s) ==
    LET data == read_vbr(Data, s, IF type = LITERAL THEN 8 ELSE 5)
    IN  IF type \in {LITERAL, FIXED, VBR} THEN [r |-> <<type, data.r>>, bs |-> data.bs]
                                          ELSE [r |-> <<type, 0>>, bs |-> s]

read_operand_def(s) ==
    LET lit  == read_bits(Data, s, 1)
        type == read_bits(Data, lit.bs, 3)
    IN  IF lit.r = 1 THEN OperandDef(LITERAL, lit.bs)
        ELSE OperandDef(IF type.r \in FIXED .. BLOB THEN type.r ELSE BLOB + 1, type.bs)

(* The abbreviation goes to the block, or in BLOCKINFO to a kind of block. *)
AddAbbrev(ia, x) ==
    LET n    == Len(ia)
        bad  == \E i \in 1 .. n : \/ ia[i][1] = BLOB /\ i # n
                                  \/ ia[i][1] = ARRAY /\ i # n - 1
                                  \/ ia[i][1] > BLOB
        info == blocks[1].info
    IN  /\ bs' = x
        /\ CASE bad -> iu' = ParserError(iu) /\ UNCHANGED <<blocks, infos>>
             [] ~bad /\ blocks = <<>> ->
                  iu' = Crash(iu) /\ UNCHANGED <<blocks, infos>>
             [] ~bad /\ blocks # <<>> /\ info # FileLevel ->
                  infos' = [infos EXCEPT ![info] = Append(@, ia)]
                  /\ UNCHANGED <<iu, blocks>>
             [] ~bad /\ blocks # <<>> /\ info = FileLevel ->
                  blocks' = [blocks EXCEPT ![1].scoped = Append(@, ia)]
                  /\ UNCHANGED <<iu, infos>>
        /\ UNCHANGED <<doc, calls, mem, pc, ran>>

ir_define_abbrev ==
    /\ Parsing
    /\ TopId.r = 2
    /\ LET n   == read_vbr(Data, TopId.bs, 5)
           ops == ReadN(read_operand_def, n.bs, n.r, <<>>)
       IN  AddAbbrev(ops.r, ops.bs)

(* One operand of a record that uses the abbreviation: its values. *)
load_array(s, op) ==
    LET n == read_vbr(Data, s, 6)
        Element(t) == CASE op[1] = FIXED -> read_bits(Data, t, op[2])
                        [] op[1] = VBR   -> read_vbr(Data, t, op[2])
                        [] op[1] = CHAR6 -> LET c == read_bits(Data, t, 6)
                                            IN  [r |-> Char6(c.r), bs |-> c.bs]
    IN  ReadN(Element, n.bs, n.r, <<>>)

RECURSIVE AbbrevArgs(_, _, _)
AbbrevArgs(ops, s, got) ==
    LET op == Head(ops)
        x  == CASE op[1] = LITERAL -> [r |-> <<op[2]>>, bs |-> s]
                [] op[1] = FIXED   -> LET y == read_bits(Data, s, op[2])
                                      IN  [r |-> <<y.r>>, bs |-> y.bs]
                [] op[1] = VBR     -> LET y == read_vbr(Data, s, op[2])
                                      IN  [r |-> <<y.r>>, bs |-> y.bs]
                [] op[1] = ARRAY   -> load_array(s, ops[2])
    IN  IF ops = <<>> THEN [r |-> got, bs |-> s]
        ELSE AbbrevArgs(IF op[1] = ARRAY THEN <<>> ELSE Tail(ops), x.bs, got \o x.r)

(* The abbreviation with this id: those of the block's kind come first. *)
FindAbbrev(id) ==
    LET shared == infos[IF Top.id = EarlySymtab THEN FUNCTION_BLOCK ELSE Top.id]
    IN  shared \o blocks[1].scoped

ir_dispatch_abbrev ==
    /\ Parsing
    /\ TopId.r > 3
    /\ LET all  == FindAbbrev(TopId.r)
           k    == TopId.r - 3
           ia   == all[k]
           bad  == \/ ~(k \in DOMAIN all)
                   \/ \E i \in DOMAIN ia :
                        IF i > 1 /\ ia[i - 1][1] = ARRAY
                        THEN ia[i][1] \notin {FIXED, VBR, CHAR6}
                        ELSE ia[i][1] \notin {LITERAL, FIXED, VBR, ARRAY}
           args == AbbrevArgs(ia, TopId.bs, <<>>)
       IN  IF Top.id = FileLevel \/ bad
           THEN /\ bs' = TopId.bs
                /\ iu' = IF Top.id = FileLevel THEN Crash(iu) ELSE ParserError(iu)
                /\ UNCHANGED <<doc, calls, blocks, infos, mem, pc, ran>>
           ELSE Handle(Head(args.r), Tail(args.r), args.bs)

-----------------------------------------------------------------------------
(* The end of a block, and what follows in ir_enter_subblock. *)

Callees(bbs, u) ==
    {u.values[in.vals[1].v + 1].n : in \in
        {i \in UNION {ToSet(bbs[b]) : b \in DOMAIN bbs} :
            /\ i.c \in {"call", "invoke"}
            /\ u.values[i.vals[1].v + 1].c = "function"}}

(* function_process and value_resize: the code is made, the values go. *)
function_process(u, extra, size) ==
    LET f    == u.bodies[u.cur] + 1
        bbs  == u.funcs[f].bbs
        used == {g \in Callees(bbs, u) : ~u.funcs[g + 1].vmop}
        w    == FoldLeft(LAMBDA x, n : AppendAs(x, "temporary", 0, 0, <<>>), u,
                         [n \in 1 .. extra |-> n])
    IN  value_resize([w EXCEPT !.funcs =
            [g \in DOMAIN @ |-> [@[g] EXCEPT
                !.text = IF g = f THEN bbs ELSE @,
                !.used = @ \/ g - 1 \in used]]], size)

(* Mutant: the block stays on the list. *)
LeaveListed(u) ==
    /\ iu' = u
    /\ bs' = align_bits32(TopId.bs)
    /\ calls' = Front(calls)
    /\ UNCHANGED <<doc, blocks, infos, mem, pc, ran>>

(* The block whose end was found is left with this unit. *)
LeaveWith(u) ==
    /\ iu' = u
    /\ bs' = align_bits32(TopId.bs)
    /\ calls' = Front(calls)
    /\ blocks' = Tail(blocks)
    /\ UNCHANGED <<doc, infos, mem, pc, ran>>

EndFunction ==
    /\ Parsing
    /\ TopId.r = 0
    /\ Top.id = FUNCTION_BLOCK
    /\ \E extra \in 0 .. TmpMax : LeaveWith(function_process(iu, extra, Top.vsize))

EndBlock ==
    /\ Parsing
    /\ TopId.r = 0
    /\ Top.id \notin {FUNCTION_BLOCK, FileLevel, EarlySymtab}
    /\ LeaveWith(CASE Top.id = CONSTANTS_BLOCK -> eval_constexprs(iu)
                   [] Top.id = TYPES_NEW       -> types_finalize(iu)
                   [] OTHER                    -> iu)

(* Mutant: iu_vstoffset is not reset. *)
EndSymtabAgain ==
    /\ Parsing
    /\ TopId.r = 0
    /\ Top.id = EarlySymtab
    /\ iu' = BeginFunction(iu)
    /\ bs' = Top.back
    /\ calls' = Append(Front(calls),
                       [Activation(FUNCTION_BLOCK, Top.inner) EXCEPT !.vsize = Top.vsize])
    /\ UNCHANGED <<doc, blocks, infos, mem, pc, ran>>

(* The early symbol table ends with the module that holds it; the function *)
(* block whose start was interrupted is entered.                           *)
EndSymtab ==
    /\ Parsing
    /\ TopId.r = 0
    /\ Top.id = EarlySymtab
    /\ iu' = BeginFunction([iu EXCEPT !.vst = 0])
    /\ bs' = Top.back
    /\ calls' = Append(Front(calls),
                       [Activation(FUNCTION_BLOCK, Top.inner) EXCEPT !.vsize = Top.vsize])
    /\ UNCHANGED <<doc, blocks, infos, mem, pc, ran>>

EndFile ==
    /\ Parsing
    /\ TopId.r = 0
    /\ Top.id = FileLevel
    /\ bs' = align_bits32(TopId.bs)
    /\ calls' = <<>>
    /\ pc' = "setup"
    /\ UNCHANGED <<doc, blocks, infos, iu, mem, ran>>

-----------------------------------------------------------------------------
(* The rest of vmir_load. *)

heap_start == AlignUp(iu.dataptr, DataStart)

Setup ==
    /\ pc = "setup" /\ Ok(iu)
    /\ LET m == initialize_globals(iu, [x \in DataStart .. heap_start - 1 |-> Leftover])
           undefined == \E g \in DOMAIN iu.funcs :
                           LET f == iu.funcs[g] IN f.used /\ f.text = <<>> /\ ~f.ext
       IN  /\ mem' = m.mem
           /\ CASE ~Ok(m)              -> iu' = Fail(iu, m.st) /\ UNCHANGED pc
                [] Ok(m) /\ undefined  -> iu' = ParserError(iu) /\ UNCHANGED pc
                [] Ok(m) /\ ~undefined -> pc' = "ctors" /\ UNCHANGED iu
    /\ UNCHANGED <<doc, bs, calls, blocks, infos, ran>>

Rd32(addr) == MapThenSumSet(LAMBDA k : mem[addr + k] * 256^k, 0 .. 2)

iu_cleanup(u) == [value_resize(u, 0) EXCEPT !.values = <<>>, !.inits = <<>>,
                     !.groups = <<>>, !.attrsets = <<>>, !.cur = 0, !.curbb = 0]

(* run_global_ctors and the end. *)
RunCtors ==
    /\ pc = "ctors"
    /\ LET at  == {g \in DOMAIN iu.gvars : iu.gvars[g].name = CtorsName}
           ig  == iu.gvars[CHOOSE g \in at : \A h \in at : g <= h]
           fns == [i \in 1 .. ig.size \div 12 |-> Rd32(ig.addr + 12 * (i - 1) + 4)]
       IN  ran' = IF at = {} THEN <<>>
                  ELSE SelectSeq(fns, LAMBDA fn : fn < Len(iu.funcs))
    /\ iu' = iu_cleanup(iu)
    /\ infos' = <<>>
    /\ pc' = "loaded"
    /\ UNCHANGED <<doc, bs, calls, blocks, mem>>

(* parser_error jumps back to vmir_load; a crash ends the program. *)
Unwind ==
    /\ pc \in {"parse", "setup"}
    /\ ~Ok(iu)
    /\ pc' = iu.st
    /\ iu' = iu_cleanup(iu)
    /\ infos' = <<>>
    /\ calls' = <<>>
    /\ UNCHANGED <<doc, bs, blocks, mem, ran>>

Ended == pc \in {"loaded", "error", "crash", "not bitcode"}
Finished == Ended /\ UNCHANGED vars

Init ==
    /\ doc \in Documents
    /\ bs = StreamAt(0) /\ calls = <<>> /\ blocks = <<>> /\ infos = <<>>
    /\ iu = NoUnit /\ mem = <<>> /\ pc = "start" /\ ran = <<>>

Step == \/ Start \/ EnterSubblock \/ ir_unabbrev_record \/ ir_define_abbrev
        \/ ir_dispatch_abbrev \/ EndFunction \/ EndBlock \/ EndSymtab \/ EndFile
        \/ Setup \/ RunCtors \/ Unwind

Next == Step \/ Finished

Spec == Init /\ [][Next]_vars

-----------------------------------------------------------------------------
(***************************************************************************)
(* Properties.  want is what the file says: want.result is how the load    *)
(* must end, want.mtypes and want.ftypes[f] are the types of the values of *)
(* the module and of function f's body, want.layout the size, alignment    *)
(* and offsets of the structs, want.gvars the globals with the cells they  *)
(* hold, want.funcs the functions with their bodies, want.ctors what runs. *)
(***************************************************************************)

(* The unit's tables point into each other, and the stacks of the parser   *)
(* are those of the blocks entered and not left.                           *)
TypeOK ==
    /\ pc \in {"start", "parse", "setup", "ctors"} \cup {"loaded", "error", "crash", "not bitcode"}
    /\ bs.off \in 0 .. Len(Data) /\ bs.remain \in 0 .. 7
    /\ iu.st \in {"ok", "error", "crash"}
    /\ iu.next \in 0 .. Len(iu.values)
    /\ \A k \in DOMAIN iu.values :
         LET v == iu.values[k] IN
         /\ v.c = "globalvar" => v.n \in DOMAIN iu.gvars
         /\ v.c = "function"  => v.n + 1 \in DOMAIN iu.funcs
         /\ v.c # "NULL"      => HasType(iu.types, v.t)
    /\ iu.cur \in 0 .. Len(iu.bodies)
    /\ pc = "parse" => Len(blocks) = Len(calls) - 1
    /\ \A id \in DOMAIN infos : id \in Nat

(***************************************************************************)
(* Every entry of the value table has the type the file gives the value of *)
(* that number: after a function its values and the temporaries of the     *)
(* passes are gone, the next one numbers its own from the same place, and  *)
(* a value used before its definition is not taken for an older one        *)
(* (value_append, value_resize, instr_get_vtp).                            *)
(***************************************************************************)
ValuesRight ==
    Parsing =>
      LET inside == \E k \in DOMAIN calls : calls[k].id = FUNCTION_BLOCK
          ts     == IF inside THEN want.ftypes[iu.bodies[iu.cur] + 1] ELSE want.mtypes
      IN  \A k \in DOMAIN iu.values :
            LET v == iu.values[k]
            IN  v.c # "NULL" =>
                  /\ k \in DOMAIN ts
                  /\ v.t = IF v.c = "function" THEN iu.funcs[v.n + 1].type ELSE ts[k]

(* An instruction without the order of its PHI nodes and switch cases. *)
Plainly(in) ==
    [c |-> in.c, ret |-> in.ret, copy |-> in.copy,
     vals  |-> IF in.c = "phi" THEN <<>> ELSE in.vals,
     k     |-> IF in.c = "phi" THEN <<>> ELSE in.k,
     nodes |-> IF in.c = "phi" THEN {<<in.k[j], in.vals[j].v>> : j \in DOMAIN in.k} ELSE {},
     paths |-> ToSet(in.paths)]

Sorted(in) ==
    /\ \A j \in 1 .. Len(in.paths) - 1 : ULess(in.paths[j][1], in.paths[j + 1][1])
    /\ in.c = "phi" => \A j \in 1 .. Len(in.k) - 1 : in.k[j] < in.k[j + 1]

(***************************************************************************)
(* A load ends the way it must, whatever the encoding.  A loaded unit has  *)
(* the structs laid out, every function resolved by its name, every body   *)
(* with the operands the file means, PHI nodes one for each predecessor    *)
(* and switch cases sorted, and has run the constructors in order.         *)
(***************************************************************************)
ProgramRight ==
    Ended =>
      /\ pc = want.result
      /\ pc = "loaded" =>
           /\ \A t \in DOMAIN want.layout : LET it == iu.types[t] IN
                want.layout[t] # <<>> => <<it.size, it.align>> \o it.offs = want.layout[t]
           /\ Len(iu.funcs) = Len(want.funcs)
           /\ \A f \in DOMAIN want.funcs :
                LET fn == iu.funcs[f]  w == want.funcs[f] IN
                /\ fn.name = w.name
                /\ fn.ext = (w.kind = "ext") /\ fn.vmop = (w.kind = "vmop")
                /\ [b \in DOMAIN fn.text |-> [j \in DOMAIN fn.text[b] |->
                                                Plainly(fn.text[b][j])]] = w.text
                /\ \A b \in DOMAIN fn.text : \A j \in DOMAIN fn.text[b] : Sorted(fn.text[b][j])
           /\ ran = want.ctors

(***************************************************************************)
(* The globals lie aligned and apart between the null page and the heap,   *)
(* and every cell the file initialises holds its value, pointers among     *)
(* them (module_globalvar, eval_constexpr, initialize_global).             *)
(***************************************************************************)
MemoryRight ==
    pc \in {"ctors", "loaded"} =>
      /\ Len(iu.gvars) = Len(want.gvars)
      /\ \A g \in DOMAIN iu.gvars :
           LET ig == iu.gvars[g]  w == want.gvars[g] IN
           /\ ig.name = w.name /\ ig.size = w.size /\ ig.addr % w.align = 0
           /\ ig.addr >= DataStart /\ ig.addr + ig.size <= heap_start
           /\ \A h \in DOMAIN iu.gvars : g < h => ig.addr + ig.size <= iu.gvars[h].addr
           /\ \A cell \in w.cells :
                LET x == cell.x + (IF cell.base = 0 THEN 0 ELSE iu.gvars[cell.base].addr)
                IN  \A k \in 0 .. cell.n - 1 :
                      mem[ig.addr + cell.at + k] =
                        IF k > 2 THEN (IF x < 0 THEN 255 ELSE 0) ELSE (x \div 256^k) % 256

Position == (8 * bs.off) - bs.remain

(***************************************************************************)
(* Every load ends: each turn of ir_parse_blocks' loop takes bits from the *)
(* file or, when there are none left, closes a block.  The reader goes     *)
(* back only for the symbol table at the end, and does so once.  (No state *)
(* before the end is without a next step: deadlock is checked.)            *)
(***************************************************************************)
Advances ==
    [][pc = "parse" /\ pc' = "parse" =>
         \/ Position' > Position
         \/ Position' = Position /\ Len(calls') < Len(calls)
         \/ iu.vst # 0 /\ Last(calls').id = EarlySymtab /\ Top.id # EarlySymtab
         \/ iu.vst # 0 /\ iu'.vst = 0]_vars
==============================================================================
