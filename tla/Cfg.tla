-------------------------------- MODULE Cfg --------------------------------
(***************************************************************************)
(* The control flow graph of a function on its way through                 *)
(* transform_function (vmir_transform.c): construct_cfg,                   *)
(* break_crtitical_edges, exit_ssa, eliminate_dead_code, the moves that it *)
(* and coalesce remove, and remove_empty_bb.                               *)
(*                                                                         *)
(* A block is its id.  What it executes is a sequence of tokens: <<b, 0>>  *)
(* for the instructions block b was parsed with, <<p, b>> for the moves    *)
(* that resolve the PHIs of b on the edge from p.  prog is the function as *)
(* parsed; what it would execute is compared with what is left of it.  On  *)
(* every edge some PHI takes a value other than its own: an edge without   *)
(* moves behaves as one whose moves are removed.                           *)
(***************************************************************************)
EXTENDS Integers, Sequences, FiniteSets, SequencesExt

CONSTANTS
  NumBBs,    \* blocks of the function as parsed, 1 the entry block
  MaxMulti   \* bound: blocks that end in a branch of several targets

ASSUME CfgAssumption ==
  /\ NumBBs \in Nat \ {0}
  /\ MaxMulti \in Nat

(* Every branch of several targets has two of them, and can be split twice. *)
Ids == 1..(NumBBs + 2 * MaxMulti)

VARIABLES
  prog,        \* the function as parsed
  if_bbs,      \* ids of the blocks, in order
  if_num_bbs,  \* last id given out
  to,          \* targets of the last instruction: none for RET, UNREACHABLE
               \* and RESUME, one for an unconditional BR, two for a conditional
               \* BR, CMP_BRANCH, SWITCH or INVOKE
  own,         \* the parsed block that instruction comes from
  body,        \* tokens executed before it
  phi,         \* entries [pred, orig] of the PHIs, <<>> without PHIs
  if_edges,    \* <<from, to>>
  todo,        \* what the current pass still has to visit
  killed,      \* moves removed by eliminate_dead_code_in_bb and coalesce
  phase

vars == <<prog, if_bbs, if_num_bbs, to, own, body, phi, if_edges, todo, killed, phase>>

Passes   == {"critical", "ssa", "dead", "coalesce", "empty"}
Failures == {"error", "abort", "spinning"}

(* LLVM: nothing branches to the entry block, and PHIs have one entry for  *)
(* each branch into the block.                                             *)
Targets == {<<>>} \cup {<<t>> : t \in 2..NumBBs} \cup {<<t, u>> : t, u \in 2..NumBBs}

Multi(t) == {b \in 1..NumBBs : Len(t[b]) > 1}
Into(t, b) ==
  FlattenSeq([p \in 1..NumBBs |->
    [i \in 1..Cardinality({k \in 1..Len(t[p]) : t[p][k] = b}) |-> p]])

(* Blocks reached from those in S. *)
Reached(t, S) ==
  LET reached[n \in 0..NumBBs] ==
        IF n = 0 THEN S ELSE reached[n-1] \cup UNION {Range(t[b]) : b \in reached[n-1]}
  IN  reached[NumBBs]

(* A loop in code that the entry block does not reach. *)
DeadLoop(t, b) == b \notin Reached(t, {1}) /\ b \in Reached(t, Range(t[b]))

(* The function starts with empty blocks, each of which branches to the    *)
(* next, up to block k, which branches to one block.                       *)
EmptyStart(t, busy, phis, k) ==
  /\ (1..k) \cap (busy \cup phis) = {}
  /\ \A j \in 1..(k-1) : t[j] = <<j + 1>>
  /\ Len(t[k]) = 1

(* LLVM: the unwind destination of an INVOKE starts with a LANDINGPAD and  *)
(* is no other branch's target.                                            *)
Invoke(t, busy, b) ==
  /\ Len(t[b]) = 2
  /\ t[b][2] \in busy
  /\ \A p \in 1..NumBBs : t[b][2] \in Range(t[p]) => (Len(t[p]) = 2 /\ t[p][1] # t[b][2])

Admitted(t, busy, phis, byval) ==
  /\ Cardinality(Multi(t)) <= MaxMulti
  /\ \A b \in phis : Into(t, b) # <<>>
  /\ \A b \in byval : b \in busy /\ Invoke(t, busy, b)

-----------------------------------------------------------------------------
(* cfg_add_edge marks the blocks that have an edge already: one edge for   *)
(* each target, the later ones first.                                      *)
EdgesOf(b, t) ==
  CASE Len(t) = 0 -> <<>>
    [] Len(t) = 1 \/ (Len(t) = 2 /\ t[1] = t[2]) -> << <<b, t[1]>> >>
    [] OTHER -> << <<b, t[2]>>, <<b, t[1]>> >>

construct_cfg(t) == FlattenSeq([i \in 1..NumBBs |-> EdgesOf(NumBBs + 1 - i, t[NumBBs + 1 - i])])

Init ==
  /\ \E t \in [1..NumBBs -> Targets], busy, phis, byval \in SUBSET (1..NumBBs) :
       /\ Admitted(t, busy, phis, byval)
       /\ prog = [to    |-> t,
                  body  |-> [b \in 1..NumBBs |-> IF b \in busy THEN << <<b, 0>> >> ELSE <<>>],
                  phis  |-> phis,
                  byval |-> byval]
       /\ to = [b \in Ids |-> IF b <= NumBBs THEN t[b] ELSE <<>>]
       /\ phi = [b \in Ids |-> IF b \in phis
                               THEN [i \in 1..Len(Into(t, b)) |->
                                       [pred |-> Into(t, b)[i], orig |-> Into(t, b)[i]]]
                               ELSE <<>>]
       /\ if_edges = construct_cfg(t)
  /\ if_bbs = [i \in 1..NumBBs |-> i]
  /\ if_num_bbs = NumBBs
  /\ own = [b \in Ids |-> b]
  /\ body = [b \in Ids |-> IF b <= NumBBs THEN prog.body[b] ELSE <<>>]
  /\ todo = if_edges
  /\ killed = {}
  /\ phase = "critical"

-----------------------------------------------------------------------------
Out(b) == {i \in 1..Len(if_edges) : if_edges[i][1] = b}
In(b)  == {i \in 1..Len(if_edges) : if_edges[i][2] = b}

Replaced(s, a, b) == [i \in 1..Len(s) |-> IF s[i] = a THEN b ELSE s[i]]
Dropping(s, gone) == FlattenSeq([i \in 1..Len(s) |-> IF s[i] \in gone THEN <<>> ELSE <<s[i]>>])
Without(s, b) == Dropping(s, {b})

(* Edges with another block at the end where b was. *)
FromMoved(s, b, c) == [i \in 1..Len(s) |-> IF s[i][1] = b THEN <<c, s[i][2]>> ELSE s[i]]
ToMoved(s, b, c)   == [i \in 1..Len(s) |-> IF s[i][2] = b THEN <<s[i][1], c>> ELSE s[i]]

(* The next pass starts once the current one has visited everything. *)
Start(pass, visits) ==
  /\ phase' = pass
  /\ todo' = visits
  /\ UNCHANGED <<prog, if_bbs, if_num_bbs, to, own, body, phi, if_edges, killed>>

Visit(pass) == phase = pass /\ todo # <<>>

(* The block needs nothing. *)
Skip ==
  /\ todo' = Tail(todo)
  /\ UNCHANGED <<prog, if_bbs, if_num_bbs, to, own, body, phi, if_edges, killed, phase>>

Fail(failure) ==
  /\ phase' = failure
  /\ UNCHANGED <<prog, if_bbs, if_num_bbs, to, own, body, phi, if_edges, todo, killed>>

-----------------------------------------------------------------------------
(* break_crtitical_edges *)

(* Mutant of Critical: a block with two ways out needs no new block. *)
CriticalAboveTwo(e) == phi[e[2]] # <<>> /\ Cardinality(Out(e[1])) > 2

Critical(e) == phi[e[2]] # <<>> /\ Cardinality(Out(e[1])) >= 2

(* Mutant of PhiMoved: the PHIs still name the block the edge came from. *)
PhiMovedNot(entries, from, nb) == entries

(* Mutant of PhiMoved: the entries of the other edges are moved as well. *)
PhiMovedAll(entries, from, nb) ==
  [i \in 1..Len(entries) |-> [pred |-> nb, orig |-> entries[i].orig]]

(* "Adjust phi of target bb to point to new bb" *)
PhiMoved(entries, from, nb) ==
  [i \in 1..Len(entries) |->
     [pred |-> IF entries[i].pred = from THEN nb ELSE entries[i].pred, orig |-> entries[i].orig]]

bb_change_branch(s, a, b) == Replaced(s, a, b)

(* The last id given out, once a block has been added. *)
bb_make(n) == n + 1

break_critical_edge ==
  /\ Visit("critical")
  /\ Critical(Head(todo))
  /\ LET from == Head(todo)[1]
         t    == Head(todo)[2]
         nb   == if_num_bbs + 1
         pos  == CHOOSE i \in 1..Len(if_bbs) : if_bbs[i] = t
     IN  /\ if_num_bbs' = bb_make(if_num_bbs)
         /\ if_bbs' = InsertAt(if_bbs, pos, nb)
         /\ to' = [to EXCEPT ![nb] = <<t>>, ![from] = bb_change_branch(@, t, nb)]
         /\ if_edges' = << <<nb, t>> >> \o Replaced(if_edges, <<from, t>>, <<from, nb>>)
         /\ phi' = [phi EXCEPT ![t] = PhiMoved(@, from, nb)]
  /\ todo' = Tail(todo)
  /\ UNCHANGED <<prog, own, body, killed, phase>>

KeepEdge == Visit("critical") /\ ~Critical(Head(todo)) /\ Skip

StartSsa == phase = "critical" /\ todo = <<>> /\ Start("ssa", if_bbs)

-----------------------------------------------------------------------------
(* exit_ssa *)

EntriesFor(b, p) == {i \in 1..Len(phi[b]) : phi[b][i].pred = p}
Preds(b) == {if_edges[i][1] : i \in In(b)}

(* exit_ssa_edge for every incoming edge, then the PHIs are destroyed. *)
exit_ssa_bb ==
  /\ Visit("ssa")
  /\ \A p \in Preds(Head(todo)) : Cardinality(EntriesFor(Head(todo), p)) <= 1
  /\ LET b == Head(todo)
     IN  /\ body' = [p \in Ids |->
                       IF p \in Preds(b) /\ EntriesFor(b, p) # {}
                       THEN LET i == CHOOSE j \in EntriesFor(b, p) : TRUE
                            IN  Append(body[p], <<phi[b][i].orig, b>>)
                       ELSE body[p]]
         /\ phi' = [phi EXCEPT ![b] = <<>>]
  /\ todo' = Tail(todo)
  /\ UNCHANGED <<prog, if_bbs, if_num_bbs, to, own, if_edges, killed, phase>>

(* parser_error: "Multiple PHI entries point to same register" *)
MultiplePhiEntries ==
  /\ Visit("ssa")
  /\ \E p \in Preds(Head(todo)) : Cardinality(EntriesFor(Head(todo), p)) > 1
  /\ Fail("error")

StartDead == phase = "ssa" /\ todo = <<>> /\ Start("dead", Tail(if_bbs))

-----------------------------------------------------------------------------
(* eliminate_dead_code.  prepare_calls has run before: an INVOKE with      *)
(* arguments passed by value is followed by a STACKSHRINK.                 *)

Destroyed(b) == Dropping(if_edges, ({b} \X Ids) \cup (Ids \X {b}))

DestroyUnreachable ==
  /\ Visit("dead")
  /\ In(Head(todo)) = {}
  /\ if_bbs' = Without(if_bbs, Head(todo))
  /\ if_edges' = Destroyed(Head(todo))
  /\ todo' = Tail(todo)
  /\ UNCHANGED <<prog, if_num_bbs, to, own, body, phi, killed, phase>>

(* Mutant of Mergeable: any number of edges into the block. *)
MergeableAnyEdges(b) ==
  In(b) # {} /\ \E p \in Preds(b) : Len(to[p]) = 1

(* The only edge is that of an unconditional branch. *)
Mergeable(b) ==
  Cardinality(In(b)) = 1 /\ \A p \in Preds(b) : Len(to[p]) = 1

(* "we may merge the basic blocks" *)
Merge ==
  /\ Visit("dead")
  /\ Mergeable(Head(todo))
  /\ Head(todo) \notin Preds(Head(todo))
  /\ LET b    == Head(todo)
         from == CHOOSE p \in Preds(b) : TRUE
     IN  /\ if_bbs' = Without(if_bbs, b)
         /\ body' = [body EXCEPT ![from] = @ \o body[b]]
         /\ to' = [to EXCEPT ![from] = to[b]]
         /\ own' = [own EXCEPT ![from] = own[b]]
         /\ if_edges' = FromMoved(Without(if_edges, <<from, b>>), b, from)
  /\ todo' = Tail(todo)
  /\ UNCHANGED <<prog, if_num_bbs, phi, killed, phase>>

(* A block that only branches to itself, merged with itself: while there   *)
(* are instructions, the loop that moves them never ends.  Moves may have  *)
(* been destroyed before, by eliminate_dead_code_in_bb.                    *)
MergeWithItself ==
  /\ Visit("dead")
  /\ Mergeable(Head(todo))
  /\ Head(todo) \in Preds(Head(todo))
  /\ \/ body[Head(todo)] # <<>> /\ Fail("spinning")
     \/ /\ \A i \in 1..Len(body[Head(todo)]) : body[Head(todo)][i][2] # 0
        /\ if_bbs' = Without(if_bbs, Head(todo))
        /\ if_edges' = Destroyed(Head(todo))
        /\ todo' = Tail(todo)
        /\ UNCHANGED <<prog, if_num_bbs, to, own, body, phi, killed, phase>>

KeepBlock == Visit("dead") /\ In(Head(todo)) # {} /\ ~Mergeable(Head(todo)) /\ Skip

StartCoalesce == phase = "dead" /\ todo = <<>> /\ Start("coalesce", <<>>)

-----------------------------------------------------------------------------
(* Moves are destroyed by eliminate_dead_code_in_bb, when the PHI's value  *)
(* is not used, and by coalesce, when source and destination were given    *)
(* one register.  Which moves these are depends on values that are left    *)
(* out here: any of them may be gone when remove_empty_bb looks.           *)
Moves == {m \in (1..NumBBs) \X prog.phis : m[2] \in Range(prog.to[m[1]])}

coalesce(ms) ==
  /\ phase = "coalesce"
  /\ killed' = ms
  /\ body' = [b \in Ids |-> Dropping(body[b], ms)]
  /\ phase' = "empty"
  /\ todo' = if_bbs
  /\ UNCHANGED <<prog, if_bbs, if_num_bbs, to, own, phi, if_edges>>

-----------------------------------------------------------------------------
(* remove_empty_bb *)

(* Only an unconditional branch, and not to itself. *)
Empty(b) == body[b] = <<>> /\ Len(to[b]) = 1 /\ to[b] # <<b>>

(* The last instruction of a block that ends in such an INVOKE is not a    *)
(* branch that bb_change_branch knows.                                     *)
Unchangeable(p) == own[p] \in prog.byval

RemoveEmpty ==
  /\ Visit("empty")
  /\ Empty(Head(todo))
  /\ \A p \in Preds(Head(todo)) : ~Unchangeable(p)
  /\ LET b  == Head(todo)
         nb == to[b][1]
     IN  /\ to' = [p \in Ids |-> IF p \in Preds(b) THEN bb_change_branch(to[p], b, nb) ELSE to[p]]
         /\ if_edges' = ToMoved(Without(if_edges, <<b, nb>>), b, nb)
         /\ if_bbs' = Without(if_bbs, b)
  /\ todo' = Tail(todo)
  /\ UNCHANGED <<prog, if_num_bbs, own, body, phi, killed, phase>>

(* "Unable to transform branch for instruction class" *)
UnableToTransform ==
  /\ Visit("empty")
  /\ Empty(Head(todo))
  /\ \E p \in Preds(Head(todo)) : Unchangeable(p)
  /\ Fail("abort")

KeepNonEmpty == Visit("empty") /\ ~Empty(Head(todo)) /\ Skip

Finish == phase = "empty" /\ todo = <<>> /\ Start("done", <<>>)

Next ==
  \/ break_critical_edge \/ KeepEdge \/ StartSsa
  \/ exit_ssa_bb \/ MultiplePhiEntries \/ StartDead
  \/ DestroyUnreachable \/ Merge \/ MergeWithItself \/ KeepBlock \/ StartCoalesce
  \/ \E ms \in SUBSET Moves : coalesce(ms)
  \/ RemoveEmpty \/ UnableToTransform \/ KeepNonEmpty \/ Finish

Spec == Init /\ [][Next]_vars

(* The passes run one after the other without waiting for anything. *)
FairSpec == Spec /\ WF_vars(Next)

-----------------------------------------------------------------------------
TypeOK ==
  /\ if_bbs \in Seq(1..if_num_bbs)
  /\ if_num_bbs \in Ids
  /\ to \in [Ids -> Seq(Ids)]
  /\ own \in [Ids -> Ids]
  /\ body \in [Ids -> Seq((1..NumBBs) \X (0..NumBBs))]
  /\ phi \in [Ids -> Seq([pred : Ids, orig : 1..NumBBs])]
  /\ if_edges \in Seq(Ids \X Ids)
  /\ todo \in IF phase = "critical" THEN Seq(Ids \X Ids) ELSE Seq(Ids)
  /\ killed \subseteq (1..NumBBs) \X (1..NumBBs)
  /\ phase \in Passes \cup Failures \cup {"done"}

Blocks == {if_bbs[i] : i \in 1..Len(if_bbs)}

(* The edges are exactly the branches of the blocks that are left, and     *)
(* every branch goes to a block that is left: bb_find never returns NULL.  *)
EdgesAreBranches ==
  /\ {if_edges[i] : i \in 1..Len(if_edges)}
       = UNION {{<<b, to[b][i]>> : i \in 1..Len(to[b])} : b \in Blocks}
  /\ \A b \in Blocks : \A i \in 1..Len(to[b]) : to[b][i] \in Blocks

(* The PHIs of a block have an entry for every edge into it and for no     *)
(* other block, so exit_ssa_edge finds what to move on each edge.          *)
PhisFollowEdges ==
  \A b \in Blocks : phi[b] # <<>> => {phi[b][i].pred : i \in 1..Len(phi[b])} = Preds(b)

(* The three descriptions of the graph, branches, edges and PHI entries,   *)
(* agree after every step of every pass.                                   *)
GraphConsistent == TypeOK /\ EdgesAreBranches /\ PhisFollowEdges

-----------------------------------------------------------------------------
(* What is executed from a block on up to the next decision: tokens, then  *)
(* the parsed block that decides or stops.  Traces are compared over their *)
(* first Horizon tokens, which tells loops apart.                          *)
Horizon == 2 * NumBBs
Steps == Horizon * Cardinality(Ids)

Shown(s) == SubSeq(s, 1, IF Len(s) < Horizon THEN Len(s) ELSE Horizon)

MoveOn(p, b) == IF b \in prog.phis /\ <<p, b>> \notin killed THEN << <<p, b>> >> ELSE <<>>

ParsedTrace[n \in 0..Steps] ==
  [b \in 1..NumBBs |->
     IF n = 0 THEN <<>>
     ELSE IF Len(prog.to[b]) # 1 THEN Append(prog.body[b], <<b, -1>>)
     ELSE Shown(prog.body[b] \o MoveOn(b, prog.to[b][1]) \o ParsedTrace[n-1][prog.to[b][1]])]

FinalTrace[n \in 0..Steps] ==
  [b \in Ids |->
     IF n = 0 THEN <<>>
     ELSE IF Len(to[b]) # 1 THEN Append(body[b], <<own[b], -1>>)
     ELSE Shown(body[b] \o FinalTrace[n-1][to[b][1]])]

(* Started at its first block, and after each way a branch can go, the     *)
(* transformed function executes the instructions of the function that was *)
(* parsed, in their order, with the moves of each edge it takes.           *)
SameBehaviour ==
  phase = "done" =>
    /\ Shown(FinalTrace[Steps][if_bbs[1]]) = Shown(ParsedTrace[Steps][1])
    /\ \A b \in Blocks : Len(to[b]) = 2 =>
         \A i \in 1..2 :
           LET t == prog.to[own[b]][i]
           IN  Shown(FinalTrace[Steps][to[b][i]])
                 = Shown(MoveOn(own[b], t) \o ParsedTrace[Steps][t])

(* What decides whether a pass fails on the function. *)
Busy == {b \in 1..NumBBs : prog.body[b] # <<>>}

(* The empty blocks at the start lead past the next block. *)
HasEntryFar ==
  \E k \in 1..NumBBs :
    EmptyStart(prog.to, Busy, prog.phis, k) /\ prog.to[k][1] > k + 1 /\ prog.to[k][1] \notin prog.phis

(* The moves that kept the last of them from being empty are gone. *)
EntryBared ==
  \E k \in 1..NumBBs :
    EmptyStart(prog.to, Busy, prog.phis, k) /\ <<k, prog.to[k][1]>> \in killed

HasDeadLoop == \E b \in 1..NumBBs : DeadLoop(prog.to, b)
HasPhiTwice == \E b \in prog.phis : ~IsInjective(Into(prog.to, b))

(* A function that does not start with empty blocks that lead past a       *)
(* block, or whose moves into the first PHIs are removed, behaves after    *)
(* all passes as it was parsed.                                            *)
BehaviourKept == ~HasEntryFar /\ ~EntryBared => SameBehaviour

(* exit_ssa_edge refuses a function only for PHIs with two entries for one *)
(* edge, and bb_change_branch aborts only after an INVOKE with by-value    *)
(* arguments.                                                              *)
Accepted ==
  /\ phase = "error" => HasPhiTwice
  /\ phase = "abort" => prog.byval # {}

(* transform_function returns for every function without an unreachable    *)
(* loop: eliminate_dead_code never moves a block's instructions for ever.  *)
LiveCodeReturns == <>(phase \in {"done", "error", "abort"} \/ HasDeadLoop)
=============================================================================
