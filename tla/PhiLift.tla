------------------------------ MODULE PhiLift ------------------------------
(***************************************************************************)
(* Leaving SSA form on one incoming edge of a basic block (exit_ssa_edge,  *)
(* vmir_transform.c).  The PHI entries of the edge ask for parallel moves  *)
(* dst <- src; the code emits them as a sequence of MOVE instructions      *)
(* before the terminator of the predecessor.  First it retires, pass after *)
(* pass, the moves whose destination no pending move reads; what is left   *)
(* are cycles, each broken with a temporary register.                      *)
(*                                                                         *)
(* There is one phi_lift_node_t per value and one edge per destination, so *)
(* a node is its value and an edge its destination.  The list of edges is  *)
(* a sequence, as every edge is removed once; the list of nodes keeps its  *)
(* pointers, as the code may remove a node from it twice.  regs is the     *)
(* register file as the emitted moves leave it.                            *)
(***************************************************************************)
EXTENDS Integers, Sequences, SequencesExt

CONSTANTS
  Values,   \* the SSA values that the PHI entries name
  MaxPhis   \* bound: the number of PHI entries on the edge

ASSUME PhiAssumption == MaxPhis \in Nat

NIL  == "NIL"    \* NULL
HEAD == "HEAD"   \* the list head, whose lh_first is next[HEAD]

ASSUME PhiNames == NIL \notin Values /\ HEAD \notin Values

VARIABLES
  pc,        \* where exit_ssa_edge is
  pln_dst,   \* node |-> source of the edge that writes it (pln_dst->ple_src)
  edges,     \* edges, in list order
  nodes,     \* nodes: [next, prev], prev[n] the element whose next is at le_prev
  pass,      \* the edges the for loop has not visited yet
  progress,  \* progress of the current pass
  start, cur,\* the cycle being walked
  regs,      \* value |-> the value whose content on entry it now holds
  tmpreg     \* content of the temporary

vars == <<pc, pln_dst, edges, nodes, pass, progress, start, cur, regs, tmpreg>>

Linked == [next : [Values \cup {HEAD} -> Values \cup {NIL}],
           prev : [Values -> Values \cup {HEAD}]]

-----------------------------------------------------------------------------
(* <sys/queue.h> *)

LIST_INSERT_HEAD(l, n) ==
  LET f == l.next[HEAD]
  IN  [next |-> [l.next EXCEPT ![n] = f, ![HEAD] = n],
       prev |-> [e \in Values |-> IF e = n THEN HEAD ELSE IF e = f THEN n ELSE l.prev[e]]]

(* The links of n itself are left as they are. *)
LIST_REMOVE(l, n) ==
  [next |-> [l.next EXCEPT ![l.prev[n]] = l.next[n]],
   prev |-> [e \in Values |-> IF e = l.next[n] THEN l.prev[n] ELSE l.prev[e]]]

-----------------------------------------------------------------------------
(* A node is made when an entry first names its value. *)
Known(v) == \E d \in Values : pln_dst[d] # NIL /\ (v = d \/ v = pln_dst[d])

(* phi_lift_node_find and phi_lift_node_init for dst, then for src. *)
WithNodes(l, dst, src) ==
  LET l1 == IF Known(dst) THEN l ELSE LIST_INSERT_HEAD(l, dst)
  IN  IF Known(src) THEN l1 ELSE LIST_INSERT_HEAD(l1, src)

(* LIST_REMOVE(ple, ple_link) *)
Without(es, d) == RemoveAt(es, CHOOSE i \in 1..Len(es) : es[i] = d)

(* LIST_FIRST(&pln->pln_src) != NULL: one of the edges es reads v. *)
IsSource(es, v) == \E i \in 1..Len(es) : pln_dst[es[i]] = v

(* Mutant of Blocked: the moves are emitted in list order. *)
BlockedNever(d) == FALSE

Blocked(d) == IsSource(edges, d)

(* insert_move(to, from) appends a MOVE; its effect on the registers. *)
InsertMove(to, content) == regs' = [regs EXCEPT ![to] = content]

Init ==
  /\ pc = "collect"
  /\ pln_dst = [v \in Values |-> NIL]
  /\ edges = <<>>
  /\ nodes = [next |-> [v \in Values \cup {HEAD} |-> NIL],
              prev |-> [v \in Values |-> HEAD]]
  /\ pass = <<>>
  /\ progress = FALSE
  /\ start = NIL
  /\ cur = NIL
  /\ regs = [v \in Values |-> v]
  /\ tmpreg = NIL

(* One PHI entry for this predecessor; one that assigns a value to itself  *)
(* is skipped and changes nothing.                                         *)
Collect(dst, src) ==
  /\ pc = "collect"
  /\ Len(edges) < MaxPhis
  /\ dst # src
  /\ nodes' = WithNodes(nodes, dst, src)
  /\ IF pln_dst[dst] # NIL
     THEN pc' = "error" /\ UNCHANGED <<pln_dst, edges>>
     ELSE /\ pln_dst' = [pln_dst EXCEPT ![dst] = src]
          /\ edges' = <<dst>> \o edges
          /\ pc' = pc
  /\ UNCHANGED <<pass, progress, start, cur, regs, tmpreg>>

(* The last PHI has been read. *)
CollectDone ==
  /\ pc = "collect"
  /\ pc' = IF edges = <<>> THEN "done" ELSE "lift"
  /\ pass' = edges
  /\ UNCHANGED <<pln_dst, edges, nodes, progress, start, cur, regs, tmpreg>>

(* A pending move reads the destination: leave the edge for a later pass. *)
LiftSkip ==
  /\ pc = "lift"
  /\ pass # <<>>
  /\ Blocked(Head(pass))
  /\ pass' = Tail(pass)
  /\ UNCHANGED <<pc, pln_dst, edges, nodes, progress, start, cur, regs, tmpreg>>

(* The nodes once the edge d <- s is retired; left are the other edges. *)
Unlink(l, d, s, left) ==
  LET l1 == LIST_REMOVE(l, d)
  IN  IF IsSource(left, s) THEN l1 ELSE LIST_REMOVE(l1, s)

LiftMove ==
  /\ pc = "lift"
  /\ pass # <<>>
  /\ ~Blocked(Head(pass))
  /\ LET d == Head(pass)
         s == pln_dst[d]
         left == Without(edges, d)
     IN  /\ InsertMove(d, regs[s])
         /\ edges' = left
         /\ nodes' = Unlink(nodes, d, s, left)
  /\ pass' = Tail(pass)
  /\ progress' = TRUE
  /\ UNCHANGED <<pc, pln_dst, start, cur, tmpreg>>

(* Mutant of PassOutcome: progress is not looked at. *)
PassOutcomeAlwaysAgain(left, moved) == IF left = <<>> THEN "done" ELSE "lift"

(* Where the end of a pass leads. *)
PassOutcome(left, moved) ==
  IF left = <<>> THEN "done" ELSE IF moved THEN "lift" ELSE "cycle"

LiftPassDone ==
  /\ pc = "lift"
  /\ pass = <<>>
  /\ pc' = PassOutcome(edges, progress)
  /\ pass' = IF pc' = "lift" THEN edges ELSE <<>>
  /\ progress' = FALSE
  /\ UNCHANGED <<pln_dst, edges, nodes, start, cur, regs, tmpreg>>

(* Mutant of Saved: the move to the temporary is missing. *)
SavedDropped(v) == tmpreg

Saved(v) == regs[v]

(* while(1): the first node left starts a cycle; its content is saved. *)
CycleStart ==
  /\ pc = "cycle"
  /\ nodes.next[HEAD] # NIL
  /\ start' = nodes.next[HEAD]
  /\ cur' = start'
  /\ tmpreg' = Saved(start')
  /\ pc' = "walk"
  /\ UNCHANGED <<pln_dst, edges, nodes, pass, progress, regs>>

CyclesDone ==
  /\ pc = "cycle"
  /\ nodes.next[HEAD] = NIL
  /\ pc' = "done"
  /\ UNCHANGED <<pln_dst, edges, nodes, pass, progress, start, cur, regs, tmpreg>>

(* One turn of the inner loop.  From a retired node the walk may come to a *)
(* node that no move writes: cur->pln_dst->ple_src reads through NULL.     *)
WalkMove ==
  /\ pc = "walk"
  /\ pln_dst[cur] # start
  /\ IF pln_dst[cur] = NIL
     THEN pc' = "crash" /\ UNCHANGED <<nodes, cur, regs>>
     ELSE /\ InsertMove(cur, regs[pln_dst[cur]])
          /\ nodes' = LIST_REMOVE(nodes, cur)
          /\ cur' = pln_dst[cur]
          /\ UNCHANGED pc
  /\ UNCHANGED <<pln_dst, edges, pass, progress, start, tmpreg>>

(* Mutant of Closing: the cycle is closed from the register overwritten first. *)
ClosingFromStart(s, t) == regs[s]

Closing(s, t) == t

WalkClose ==
  /\ pc = "walk"
  /\ pln_dst[cur] = start
  /\ InsertMove(cur, Closing(start, tmpreg))
  /\ nodes' = LIST_REMOVE(nodes, cur)
  /\ pc' = "cycle"
  /\ UNCHANGED <<pln_dst, edges, pass, progress, start, cur, tmpreg>>

Next ==
  \/ \E dst, src \in Values : Collect(dst, src)
  \/ CollectDone
  \/ LiftSkip
  \/ LiftMove
  \/ LiftPassDone
  \/ CycleStart
  \/ CyclesDone
  \/ WalkMove
  \/ WalkClose

Spec == Init /\ [][Next]_vars

(* The PHI list is finite and the pass runs to its end. *)
FairSpec == Spec /\ WF_vars(Next)

-----------------------------------------------------------------------------
TypeOK ==
  /\ pc \in {"collect", "lift", "cycle", "walk", "done", "error", "crash"}
  /\ pln_dst \in [Values -> Values \cup {NIL}]
  /\ edges \in Seq(Values)
  /\ nodes \in Linked
  /\ pass \in Seq(Values)
  /\ progress \in BOOLEAN
  /\ start \in Values \cup {NIL}
  /\ cur \in Values \cup {NIL}
  /\ regs \in [Values -> Values]
  /\ tmpreg \in Values \cup {NIL}

Pending == {edges[i] : i \in 1..Len(edges)}

(* While moves are retired pass by pass, every move still pending finds    *)
(* its source as it was on entry, every retired one has been done, and no  *)
(* other register has changed.                                             *)
LiftIsParallel ==
  pc \in {"lift", "cycle"} /\ start = NIL =>
    \A v \in Values :
      regs[v] = IF pln_dst[v] # NIL /\ v \notin Pending THEN pln_dst[v] ELSE v

(* When the edge is done the registers are those of one parallel           *)
(* assignment: each destination holds what its source held on entry, every *)
(* other value is untouched.                                               *)
ParallelCopy ==
  pc = "done" =>
    \A v \in Values : regs[v] = IF pln_dst[v] # NIL THEN pln_dst[v] ELSE v

(* The values that one move writes and another reads.  The double          *)
(* LIST_REMOVE needs one of them off a cycle to retire, and does harm only *)
(* if a cycle is left to be walked: it takes both a chain and a cycle.     *)
ReadAndWritten == {v \in Values : pln_dst[v] # NIL /\ \E w \in Values : pln_dst[w] = v}

(* Every value both read and written is on a cycle: the moves between such *)
(* values permute them.                                                    *)
NoChain ==
  \A v \in ReadAndWritten :
    /\ pln_dst[v] \in ReadAndWritten
    /\ \E w \in ReadAndWritten : \A u \in ReadAndWritten : pln_dst[u] = v <=> u = w

(* No set of values reads all of itself.                                   *)
NoCycle ==
  \A C \in SUBSET Values : C # {} => \E v \in C : \A w \in C : pln_dst[w] # v

(* "Add a move to temporary register to resolve cycle": every walk starts  *)
(* at a node some move left pending by the passes writes.                  *)
WalkStartsOnCycle == pc = "walk" => start \in Pending

(* exit_ssa_edge returns (or reports a malformed PHI). *)
Terminates == <>(pc \in {"done", "error"})

(* The inductive invariant behind LiftIsParallel: pending moves have       *)
(* distinct destinations, a pass visits pending moves only and each once,  *)
(* and no pending move reads a destination already written.                *)
NoRepeat(s) == \A i, j \in 1..Len(s) : s[i] = s[j] => i = j

LiftInv ==
  /\ TypeOK
  /\ pc \in {"collect", "lift"} => start = NIL
  /\ pc = "collect" => \A v \in Values : regs[v] = v /\ (pln_dst[v] # NIL => v \in Pending)
  /\ pc = "walk" => cur \in Values /\ start \in Values /\ tmpreg \in Values
  /\ NoRepeat(edges)
  /\ pc = "lift" => NoRepeat(pass) /\ \A i \in 1..Len(pass) : pass[i] \in Pending
  /\ \A d \in Pending : /\ pln_dst[d] \in Values
                        /\ pln_dst[pln_dst[d]] # NIL => pln_dst[d] \in Pending
  /\ LiftIsParallel
=============================================================================
