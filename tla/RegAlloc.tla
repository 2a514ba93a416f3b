------------------------------ MODULE RegAlloc ------------------------------
(***************************************************************************)
(* Registers for the values of a function (vmir_transform.c):              *)
(* prepare_calls, liveness_analysis, coalesce, reg_alloc and               *)
(* finalize_call_args, and the execution of what they produce.             *)
(*                                                                         *)
(* A value is a number, as in the code: the temporaries are 1..NumTemps,   *)
(* the call argument slots follow.  A register is the index of a 32 bit    *)
(* word in the register frame.  Executed, the function handles tokens: an  *)
(* instruction that defines a value makes a token that is not in use.      *)
(***************************************************************************)
EXTENDS Integers, Sequences, FiniteSets, FiniteSetsExt, SequencesExt

CONSTANTS
  NumTemps,    \* temporaries of the function
  NumInstrs,   \* bound: instructions of the function
  MaxArgs,     \* bound: arguments of a call
  Shapes,      \* bounds of the functions: instructions, operands of one, arguments of a
               \* call, branches and operands of their conditions, temporaries of 64 bits,
               \* whether calls go through temporaries, what may have a result not used
  WordBits     \* bits in a word of the colour table, 32 in the code

ASSUME RegAllocAssumption ==
  /\ NumTemps \in Nat \ {0} /\ NumInstrs \in Nat \ {0}
  /\ MaxArgs \in Nat
  /\ WordBits \in Nat \ {0}

ASSUME ShapesAssumption ==
  Shapes \subseteq [instrs : 0..NumInstrs, operands : Nat, args : 0..MaxArgs, branches : Nat,
                    conds : Nat, wide : Nat, indirect : BOOLEAN, unused : SUBSET {"op", "move", "call"}]

Temps == 1..NumTemps
call_arg_base == NumTemps + 1
Values == 1..(NumTemps + 2 * MaxArgs)
Precolored(v) == v >= call_arg_base

VARIABLES
  prog,        \* [instrs, wide]: the function as eliminate_dead_code leaves it
  instrs,      \* its instructions, those of prepare_calls and coalesce included
  num_call_args,
  live,        \* for every instruction the values live before and after it
  mtx,         \* pairs of values that interfere
  iv_edges,    \* how many values each value interferes with
  dead,        \* values merged into another one
  vi,          \* values that reg_alloc still has to colour
  colors,      \* colour of a value, -1 without one
  iv_reg,      \* register of a value
  if_regframe_size,
  next,        \* the instruction coalesce visits, or that is executed
  val,         \* what the program says is in each temporary
  reg,         \* what is in each register: <<token, half>>
  phase

vars == <<prog, instrs, num_call_args, live, mtx, iv_edges, dead, vi, colors, iv_reg,
          if_regframe_size, next, val, reg, phase>>
analysis  == <<prog, num_call_args, live>>
graph     == <<mtx, iv_edges, dead>>
frame     == <<vi, colors, iv_reg, if_regframe_size>>
execution == <<next, val, reg>>

-----------------------------------------------------------------------------
(* The functions: instructions that define or use temporaries, the moves   *)
(* of exit_ssa, calls, and branches that go on or to another instruction.  *)
Op(ret, uses)         == [class |-> "op", ret |-> ret, uses |-> uses, to |-> 0]
Move(ret, use)        == [class |-> "move", ret |-> ret, uses |-> <<use>>, to |-> 0]
Call(ret, args, callee) ==
  [class |-> "call", ret |-> ret, uses |-> args \o callee, to |-> Len(callee)]
Branch(cond, to)      == [class |-> "br", ret |-> 0, uses |-> cond, to |-> to]

Defs(p, v)   == {i \in 1..Len(p) : p[i].ret = v}
Defined(p)   == {p[i].ret : i \in 1..Len(p)} \ {0}
Used(p)      == UNION {ToSet(p[i].uses) : i \in 1..Len(p)}

(* The instructions that can follow p.  Temporaries are taken in order; one *)
(* that an instruction defines is defined once, one that a PHI was can have *)
(* several moves.  A function shorter than NumInstrs is filled up with an   *)
(* instruction that does nothing.                                           *)
Following(s, p) ==
  LET D     == Defined(p)
      new   == {v \in Temps : v = Cardinality(D) + 1}
      phis  == {v \in D : \A i \in Defs(p, v) : p[i].class = "move"}
      operands(n) == UNION {[1..k -> D] : k \in 1..n}
      callees == IF s.indirect THEN {<<>>} \cup {<<v>> : v \in D} ELSE {<<>>}
  IN  IF Len(p) >= s.instrs THEN {Op(0, <<>>)} ELSE
      {Op(v, <<>>) : v \in new} \cup {Op(v, o) : v \in new \cup {0}, o \in operands(s.operands)}
      \cup {Move(v, u) : v \in new \cup phis, u \in D}
      \cup {Call(v, a, c) : v \in new \cup {0}, a \in operands(s.args), c \in callees}
      \cup IF Cardinality({i \in 1..Len(p) : p[i].class = "br"}) < s.branches
           THEN {Branch(c, t) : c \in {<<>>} \cup operands(s.conds), t \in 1..s.instrs} ELSE {}

Bodies(s) ==
  LET bodies[n \in 0..NumInstrs] ==
        IF n = 0 THEN {<<>>}
        ELSE UNION {{Append(p, i) : i \in Following(s, p)} : p \in bodies[n-1]}
  IN  bodies[NumInstrs]

Succ(p, i) == {j \in 1..Len(p) : j = i + 1 \/ (p[i].class = "br" /\ j = p[i].to)}

(* What is found from S by following edges up to n times. *)
Found(S, edges, n) ==
  LET found[k \in 0..n] ==
        IF k = 0 THEN S ELSE LET last == found[k-1] IN last \cup UNION {edges[i] : i \in last}
  IN  found[n]

(* Instructions reached from those in S by way of instructions not in avoid. *)
Reached(p, S, avoid) ==
  Found(S, [i \in 1..Len(p) |-> IF i \in avoid THEN {} ELSE Succ(p, i)], Len(p))

ProgInstrs ==
  [class : {"op"}, ret : 0..NumTemps, uses : Seq(Temps), to : {0}]
  \cup [class : {"br"}, ret : {0}, uses : Seq(Temps), to : 1..NumInstrs]
  \cup {Move(v, u) : v, u \in Temps}
  \cup {c \in [class : {"call"}, ret : 0..NumTemps, uses : Seq(Temps), to : {0, 1}] :
          Len(c.uses) - c.to \in 0..MaxArgs}

(* A temporary that is used is defined on every way to where it is. *)
WellFormed(p) ==
  /\ Used(p) \subseteq Defined(p)
  /\ p \in Seq(ProgInstrs) /\ Len(p) = NumInstrs
  /\ \A i \in 1..Len(p), v \in Temps :
       v \in ToSet(p[i].uses) => i \notin Reached(p, {1}, Defs(p, v))

(* eliminate_dead_code_in_bb keeps calls with results that are not used,    *)
(* and an instruction that is used when it is looked at, though what uses   *)
(* it is destroyed later.                                                   *)
KeptUnused(p) == {p[i].class : i \in {j \in 1..Len(p) : p[j].ret \notin Used(p) \cup {0}}}

Init ==
  /\ \E s \in Shapes :
     \E p \in {q \in Bodies(s) : WellFormed(q) /\ KeptUnused(q) \subseteq s.unused} :
     \E wide \in {w \in SUBSET Defined(p) : Cardinality(w) <= s.wide} :
       /\ \A i \in 1..NumInstrs : p[i].class = "move" => (p[i].ret \in wide <=> p[i].uses[1] \in wide)
       /\ \A i \in 1..NumInstrs :
            (p[i].class = "call" /\ p[i].to = 1) => Last(p[i].uses) \notin wide
       /\ prog = [instrs |-> p, wide |-> wide]
  /\ instrs = <<>>
  /\ num_call_args = 0
  /\ live = <<>>
  /\ mtx = {}
  /\ iv_edges = [v \in Values |-> 0]
  /\ dead = {}
  /\ vi = {}
  /\ colors = [v \in Values |-> -1]
  /\ iv_reg = [v \in Values |-> 0]
  /\ if_regframe_size = 2
  /\ next = 1
  /\ val = [v \in Temps |-> 0]
  /\ reg = <<>>
  /\ phase = "prepare"

-----------------------------------------------------------------------------
(* prepare_calls *)

value_regframe_slots(v) == IF v \in prog.wide THEN 2 ELSE 1

(* Slots taken by the arguments before the k-th, as prepare_call lays them *)
(* out and as value_alloc_function_arg finds them in the callee.           *)
SlotsBefore(args, k) == k - 1 + Cardinality({j \in 1..(k-1) : value_regframe_slots(args[j]) = 2})

Instr(class, rets, uses, of, at) ==
  [class |-> class, rets |-> rets, uses |-> uses, of |-> of, at |-> at]

Args(i) == SubSeq(prog.instrs[i].uses, 1, Len(prog.instrs[i].uses) - prog.instrs[i].to)

(* The value an argument is moved to. *)
ArgValue(args, k) == call_arg_base + SlotsBefore(args, k)

ArgMove(i, k) ==
  LET arg == ArgValue(Args(i), k)
      v   == Args(i)[k]
  IN  Instr("move", IF value_regframe_slots(v) = 2 THEN <<arg + 1, arg>> ELSE <<arg>>, <<v>>, <<v>>, i)

prepare_call(i) ==
  LET c      == prog.instrs[i]
      args   == Args(i)
      callee == SubSeq(c.uses, Len(args) + 1, Len(c.uses))
  IN  [k \in 1..Len(args) |-> ArgMove(i, k)]
      \o << Instr("call", IF c.ret = 0 THEN <<>> ELSE <<c.ret>>,
                  [k \in 1..Len(args) |-> ArgValue(args, k)] \o callee, callee, i) >>

Bind(i) ==
  LET c == prog.instrs[i]
  IN  << Instr(c.class, IF c.ret = 0 THEN <<>> ELSE <<c.ret>>, c.uses, c.uses, i) >>

prepare_calls(i) ==
  /\ phase = "prepare" /\ next = i
  /\ IF prog.instrs[i].class = "call"
     THEN LET total_slots == SlotsBefore(Args(i), Len(Args(i)) + 1)
          IN  /\ instrs' = instrs \o prepare_call(i)
              /\ num_call_args' = IF total_slots > num_call_args THEN total_slots ELSE num_call_args
     ELSE instrs' = instrs \o Bind(i) /\ UNCHANGED num_call_args
  /\ next' = i + 1
  /\ UNCHANGED <<prog, live, graph, frame, val, reg, phase>>

StartLiveness ==
  /\ phase = "prepare" /\ next > NumInstrs
  /\ live' = [i \in 1..Len(instrs) |-> [in |-> {}, out |-> {}]]
  /\ next' = 1
  /\ phase' = "liveness"
  /\ UNCHANGED <<prog, instrs, num_call_args, graph, frame, val, reg>>

-----------------------------------------------------------------------------
(* liveness_analysis *)

Target(i) == CHOOSE j \in 1..Len(instrs) :
  instrs[j].at = prog.instrs[instrs[i].at].to /\ \A k \in 1..(j-1) : instrs[k].at < instrs[j].at

liveness_set_succ(i) ==
  {j \in {i + 1} : j <= Len(instrs)} \cup IF instrs[i].class = "br" THEN {Target(i)} ELSE {}

liveness_set_gen(i) == ToSet(instrs[i].uses)

(* Mutant of LiveIn: what the instruction defines stays live before it. *)
LiveInNoKill(i, out) == out \cup liveness_set_gen(i)

LiveIn(i, out) == (out \ ToSet(instrs[i].rets)) \cup liveness_set_gen(i)

(* Mutant of LiveStored: what is live before an instruction is not stored. *)
LiveStoredOut(new) == [i \in 1..Len(new) |-> [in |-> live[i].in, out |-> new[i].out]]

LiveStored(new) == new

(* One round, from the last instruction to the first. *)
liveness_update ==
  /\ phase = "liveness"
  /\ LET in[i \in 1..Len(instrs)] ==
           LiveIn(i, UNION {IF j > i THEN in[j] ELSE live[j].in : j \in liveness_set_succ(i)})
         new == [i \in 1..Len(instrs) |->
                   [in  |-> in[i],
                    out |-> UNION {IF j > i THEN in[j] ELSE live[j].in :
                                     j \in liveness_set_succ(i)}]]
     IN  /\ live' = LiveStored(new)
         /\ phase' = IF new = live THEN "interference" ELSE "liveness"
  /\ UNCHANGED <<prog, instrs, num_call_args, graph, frame, execution>>

-----------------------------------------------------------------------------
(* coalesce *)

Neighbours(v) == {w \in Values : {v, w} \in mtx}

(* "Any non-move instruction that defines variable 'a' add interference    *)
(* edges for (a,{liveout}).  Any move instruction a <- b add interference  *)
(* for (a, {liveout} - b)"                                                 *)
Conflicts(i) ==
  LET moved == IF instrs[i].class = "move" THEN ToSet(instrs[i].uses) ELSE {}
  IN  UNION {{{x, y} : y \in {v \in Values : v \in live[i].out /\ v \notin moved \cup {x}}} :
               x \in ToSet(instrs[i].rets)}

Interfere ==
  /\ phase = "interference"
  /\ mtx' = UNION {Conflicts(i) : i \in 1..Len(instrs)}
  /\ iv_edges' = [v \in Values |-> Cardinality(Neighbours(v)')]
  /\ phase' = "coalesce"
  /\ UNCHANGED <<analysis, instrs, dead, frame, execution>>

Visit(i) == phase = "coalesce" /\ next = i /\ i <= Len(instrs)

Mergeable(i) ==
  /\ instrs[i].class = "move" /\ Len(instrs[i].rets) = 1
  /\ LET dst == instrs[i].rets[1]
         src == instrs[i].uses[1]
     IN  /\ dst # src
         /\ ~(Precolored(dst) /\ Precolored(src))
         /\ {dst, src} \notin mtx

Replaced(s, from, to) == [k \in 1..Len(s) |-> IF s[k] = from THEN to ELSE s[k]]

Destroyed(ii) == Instr("destroyed", ii.rets, ii.uses, ii.of, ii.at)

instr_replace_values(ii, from, to) ==
  Instr(ii.class, Replaced(ii.rets, from, to), Replaced(ii.uses, from, to), ii.of, ii.at)

(* Mutant of EdgesMerged: a common neighbour still counts both values. *)
EdgesMergedTwice(killed, saved) ==
  [v \in Values |->
     IF v = killed THEN 0
     ELSE IF v = saved THEN iv_edges[v] + Cardinality(Neighbours(killed) \ Neighbours(saved))
     ELSE iv_edges[v]]

EdgesMerged(killed, saved) ==
  [v \in Values |->
     IF v = killed THEN 0
     ELSE IF v = saved THEN iv_edges[v] + Cardinality(Neighbours(killed) \ Neighbours(saved))
     ELSE IF v \in Neighbours(killed) \cap Neighbours(saved) THEN iv_edges[v] - 1
     ELSE iv_edges[v]]

(* Mutant of Merged: the edges of the killed value are dropped. *)
MergedDropsEdges(killed, saved) == {e \in mtx : killed \notin e}

(* "Merge nodes in interference matrix" *)
Merged(killed, saved) ==
  {e \in mtx : killed \notin e} \cup {{saved, v} : v \in Neighbours(killed)}

Merge(i) ==
  /\ Visit(i)
  /\ Mergeable(i)
  /\ LET dst    == instrs[i].rets[1]
         src    == instrs[i].uses[1]
         killed == IF Precolored(src) THEN dst ELSE src
         saved  == IF Precolored(src) THEN src ELSE dst
     IN  /\ instrs' = [j \in 1..Len(instrs) |->
                         IF j = i THEN Destroyed(instrs[j])
                         ELSE instr_replace_values(instrs[j], killed, saved)]
         /\ mtx' = Merged(killed, saved)
         /\ iv_edges' = EdgesMerged(killed, saved)
         /\ dead' = dead \cup {killed}
  /\ next' = next + 1
  /\ UNCHANGED <<analysis, frame, val, reg, phase>>

(* "Move from -> to same register" *)
SelfMove(i) == instrs[i].class = "move" /\ instrs[i].rets = instrs[i].uses

DestroyMove(i) ==
  /\ Visit(i)
  /\ SelfMove(i)
  /\ instrs' = [instrs EXCEPT ![i] = Destroyed(instrs[i])]
  /\ next' = next + 1
  /\ UNCHANGED <<analysis, graph, frame, val, reg, phase>>

Keep(i) ==
  /\ Visit(i)
  /\ ~Mergeable(i) /\ ~SelfMove(i)
  /\ next' = next + 1
  /\ UNCHANGED <<analysis, instrs, graph, frame, val, reg, phase>>

(* What is left to be given a register. *)
Vertices == Defined(prog.instrs) \ dead

CoalesceDone ==
  /\ phase = "coalesce" /\ next > Len(instrs)
  /\ vi' = Vertices
  /\ phase' = "color"
  /\ UNCHANGED <<analysis, instrs, graph, colors, iv_reg, if_regframe_size, execution>>

-----------------------------------------------------------------------------
(* reg_alloc *)

(* The most edges a value has. *)
GraphDegree(d) ==
  \A v \in Vertices : iv_edges[v] <= d

(* Mutant of ColorTable: no room for a colour of its own. *)
ColorTableShort(graph_degree) == 0..(graph_degree - 1)

(* The colours in degree_words words. *)
ColorTable(graph_degree) == 0..(WordBits * ((graph_degree + WordBits) \div WordBits) - 1)

Taken(v) == {colors[w] : w \in Neighbours(v)}

(* The lowest colour that is left, -1 without one. *)
FirstFree(c, free) == IF free = {} THEN c = -1 ELSE c \in free /\ \A b \in free : c <= b

(* Values are coloured by their number of edges; qsort may give those with *)
(* the same number in any order.                                           *)
ColorNext(v) ==
  /\ phase = "color"
  /\ v \in vi
  /\ \A w \in vi : iv_edges[v] <= iv_edges[w]
  /\ vi' = vi \ {v}
  /\ \E d \in {0} \cup {iv_edges[w] : w \in Vertices} :
       /\ GraphDegree(d)
       /\ \E c \in ColorTable(d) \cup {-1} :
            /\ FirstFree(c, ColorTable(d) \ Taken(v))
            /\ colors' = [colors EXCEPT ![v] = c]
  /\ UNCHANGED <<analysis, instrs, graph, iv_reg, if_regframe_size, execution, phase>>

Aligned(size, n) == ((size + n - 1) \div n) * n

(* Registers for the values of one class, after those of the classes       *)
(* before.                                                                 *)
Class(slots) == {v \in Vertices : value_regframe_slots(v) = slots}

AssignRegs(slots, base) ==
  [v \in Values |-> IF v \in Class(slots) THEN Aligned(base, slots) + colors[v] * slots ELSE iv_reg[v]]

SizeAfter(slots, base) ==
  Aligned(base, slots) + slots * Max({0} \cup {colors[v] + 1 : v \in Class(slots)})

AssignNarrow ==
  /\ phase = "color"
  /\ vi = {}
  /\ iv_reg' = AssignRegs(1, if_regframe_size)
  /\ if_regframe_size' = SizeAfter(1, if_regframe_size)
  /\ phase' = "wide"
  /\ UNCHANGED <<analysis, instrs, graph, vi, colors, execution>>

AssignWide ==
  /\ phase = "wide"
  /\ iv_reg' = AssignRegs(2, if_regframe_size)
  /\ if_regframe_size' = SizeAfter(2, if_regframe_size)
  /\ phase' = "finalize"
  /\ UNCHANGED <<analysis, instrs, graph, vi, colors, execution>>

(* Mutant of SlotReg: the slots are counted upwards. *)
SlotRegUpwards(size, n, i) == size - n + i

SlotReg(size, n, i) == size - (i + 1)

finalize_call_args ==
  /\ phase = "finalize"
  /\ LET size == if_regframe_size + num_call_args
     IN  /\ if_regframe_size' = size
         /\ iv_reg' = [v \in Values |->
                         IF v - call_arg_base \in 0..(num_call_args - 1)
                         THEN SlotReg(size, num_call_args, v - call_arg_base) ELSE iv_reg[v]]
         /\ reg' = [r \in 0..(size - 1) |-> <<0, 0>>]
  /\ next' = 1
  /\ phase' = "run"
  /\ UNCHANGED <<analysis, instrs, graph, vi, colors, val>>

-----------------------------------------------------------------------------
(* The function is executed: val as the program says, reg as it was        *)
(* compiled.  A move that was destroyed moves nothing.                     *)
Token == Min((1..(Cardinality(DOMAIN reg) + NumTemps + 1))
             \ ({reg[r][1] : r \in DOMAIN reg} \cup {val[v] : v \in Temps}))

(* The registers from r on, overwritten with n words. *)
Stored(r, n, words(_)) ==
  [q \in DOMAIN reg |-> IF q - r \in 0..(n - 1) THEN words(q - r) ELSE reg[q]]

(* Where the instruction reads the temporary it names.  A callee finds its *)
(* arguments below its own frame.                                          *)
Reads(i) ==
  LET ii     == instrs[i]
      args   == IF ii.class = "call" THEN Args(ii.at) ELSE <<>>
      direct == {[at |-> iv_reg[ii.uses[Len(args) + k]], value |-> ii.of[k]] : k \in 1..Len(ii.of)}
  IN  direct \cup {[at |-> if_regframe_size - SlotsBefore(args, k + 1), value |-> args[k]] : k \in 1..Len(args)}

Executes(i) == phase = "run" /\ next = i /\ i <= Len(instrs)

ExecDefine(i) ==
  /\ Executes(i)
  /\ instrs[i].class \in {"op", "call"} /\ instrs[i].rets # <<>>
  /\ LET v == prog.instrs[instrs[i].at].ret
     IN  /\ val' = [val EXCEPT ![v] = Token]
         /\ reg' = Stored(iv_reg[instrs[i].rets[1]], value_regframe_slots(v),
                          LAMBDA h : <<Token, h>>)
  /\ next' = i + 1
  /\ UNCHANGED <<analysis, instrs, graph, frame, phase>>

ExecMove(i) ==
  /\ Executes(i)
  /\ instrs[i].class = "move"
  /\ LET ii == instrs[i]
         v  == ii.of[1]
     IN  /\ reg' = Stored(iv_reg[ii.rets[1]], value_regframe_slots(v),
                          LAMBDA h : reg[iv_reg[ii.uses[1]] + h])
         /\ val' = IF prog.instrs[ii.at].class = "move"
                   THEN [val EXCEPT ![prog.instrs[ii.at].ret] = val[v]] ELSE val
  /\ next' = i + 1
  /\ UNCHANGED <<analysis, instrs, graph, frame, phase>>

ExecDestroyed(i) ==
  /\ Executes(i)
  /\ instrs[i].class = "destroyed"
  /\ val' = IF prog.instrs[instrs[i].at].class = "move"
            THEN [val EXCEPT ![prog.instrs[instrs[i].at].ret] = val[instrs[i].of[1]]] ELSE val
  /\ next' = i + 1
  /\ UNCHANGED <<analysis, instrs, graph, frame, reg, phase>>

ExecUse(i) ==
  /\ Executes(i)
  /\ instrs[i].class \in {"op", "call", "br"} /\ instrs[i].rets = <<>>
  /\ next' \in {i + 1} \cup liveness_set_succ(i)
  /\ UNCHANGED <<analysis, instrs, graph, frame, val, reg, phase>>

Next ==
  \/ \E i \in 1..NumInstrs : prepare_calls(i)
  \/ StartLiveness \/ liveness_update \/ Interfere \/ CoalesceDone
  \/ \E i \in 1..Len(instrs) : Merge(i) \/ DestroyMove(i) \/ Keep(i)
  \/ \E v \in Temps : ColorNext(v)
  \/ AssignNarrow \/ AssignWide \/ finalize_call_args
  \/ \E i \in 1..Len(instrs) : ExecDefine(i) \/ ExecMove(i) \/ ExecDestroyed(i) \/ ExecUse(i)

Spec == Init /\ [][Next]_vars

(* The passes run one after the other without waiting for anything. *)
FairSpec == Spec /\ WF_vars(Next)

-----------------------------------------------------------------------------
Phases == {"prepare", "liveness", "interference", "coalesce", "color", "wide",
           "finalize", "run"}

Instrs == [class : {"op", "move", "call", "br", "destroyed"}, rets : Seq(Values),
           uses : Seq(Values), of : Seq(Temps), at : 1..NumInstrs]

(* The instructions from which some way uses v before it is defined again. *)
Wanting(v) ==
  LET I == 1..Len(instrs)
  IN  Found({i \in I : v \in ToSet(instrs[i].uses)},
            [j \in I |-> {i \in I : v \notin ToSet(instrs[i].rets) /\ j \in liveness_set_succ(i)}],
            Len(instrs))

(* When the rounds of liveness_update end, a value is live after an        *)
(* instruction exactly if some way from there uses it before it is defined *)
(* again.                                                                  *)
LivenessExact ==
  phase = "interference" =>
    \A v \in Values :
      LET wanting == Wanting(v)
      IN  \A i \in 1..Len(instrs) :
            v \in live[i].out <=> liveness_set_succ(i) \cap wanting # {}

(* The count that sizes the colour table is the number of neighbours of    *)
(* each value that is left, however many values were merged into it.       *)
EdgesCounted ==
  phase \in {"coalesce", "color"} =>
    \A v \in Values : iv_edges[v] = Cardinality(Neighbours(v))

(* Values that interfere have different colours. *)
ProperColoring ==
  \A v, w \in Temps :
    ({v, w} \in mtx /\ v # w /\ colors[v] # -1) => colors[v] # colors[w]

(* There is a colour for every value. *)
ColorFound == phase = "color" => \A v \in Vertices \ vi : colors[v] # -1

(* Every instruction finds in its registers, and every callee in its       *)
(* argument slots, what the program says is in the temporaries.            *)
ReadsRight ==
  (phase = "run" /\ next <= Len(instrs) /\ instrs[next].class # "destroyed") =>
    \A r \in Reads(next) : \A h \in 0..(value_regframe_slots(r.value) - 1) :
      reg[r.at + h] = <<val[r.value], h>>

(* The rounds of liveness_update and the passes after them end. *)
AllocationEnds == <>(phase = "run")
=============================================================================
